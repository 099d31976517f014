---------------------------- MODULE MCExtension ----------------------------
(* A small instance of Extension: two calls at a time, one booked atom, one    *)
(* more in the window and one behind it.  The calls are interchangeable.      *)
EXTENDS Extension, TLC

CONSTANTS c1, c2

TwoCalls == {c1, c2}
CallSymmetry == Permutations(TwoCalls)
=============================================================================
