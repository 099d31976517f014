------------------------------ MODULE MCSlots ------------------------------
(* A small instance of Slots: reservations compete for two intervals        *)
(* through two handlers, while the script may run.                          *)
EXTENDS Slots, TLC

CONSTANTS b1, b2, s1, s2, c1, c2

TwoBookings == {b1, b2}
TwoSlots == {s1, s2}
TwoCalls == {c1, c2}
OneCall == {c1}

\* Reservations, slots and handlers differ in nothing.
Alike == Permutations(TwoBookings) \cup Permutations(TwoSlots) \cup Permutations(TwoCalls)
=============================================================================
