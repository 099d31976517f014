------------------------------ MODULE MCOffers ------------------------------
(* Small instances of Offers: two passes and two replies of the customer     *)
(* that overlap, or four passes when handlers take turns.                    *)
EXTENDS Offers, TLC

CONSTANTS r1, r2, bay1, bay2

TwoPasses == 1..2
FourPasses == 1..4
TwoReplies == {r1, r2}
TwoBays == {bay1, bay2}
NoHandler == {}
AllHandlers == TwoPasses \cup TwoReplies \cup {Sweeper}

\* Neither replies nor bays differ in anything.
Alike == Permutations(TwoReplies) \cup Permutations(TwoBays)
=============================================================================
