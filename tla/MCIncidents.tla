---------------------------- MODULE MCIncidents ----------------------------
(* A small instance of Incidents: overlapping incidents name two chargers,  *)
(* and two members of staff see to them.                                    *)
EXTENDS Incidents, TLC

CONSTANTS i1, i2, c1, c2, k1, k2

TwoIncidents == {i1, i2}
TwoChargers == {c1, c2}
TwoCalls == {k1, k2}

\* Incidents, chargers and staff differ in nothing.
Alike == Permutations(TwoIncidents) \cup Permutations(TwoChargers) \cup Permutations(TwoCalls)
=============================================================================
