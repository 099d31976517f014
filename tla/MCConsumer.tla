----------------------------- MODULE MCConsumer -----------------------------
(* A small instance of Consumer: two stations and one pass at a time; and the *)
(* plan that a pass makes, over all small snapshots.                           *)
EXTENDS Consumer

CONSTANTS s1, s2, p1

TwoStations == {s1, s2}
OnePass == {p1}

----------------------------------------------------------------------------
(* The plan of a pass, over two chargers, of which one is held at the end   *)
(* of a day of three atoms, and every choice of chargers, windows and       *)
(* lengths of three requests, one of them with priority and one whose       *)
(* customer is elsewhere at first.  Plans is a set: whatever the scores.    *)

Asking == 1..3
Urgent == {3}
Elsewhere == [r \in Asking |-> IF r = 1 THEN {0} ELSE {}]
Held == [c \in 1..2 |-> IF c = 2 THEN {2} ELSE {}]

Planning(asking, bays, window, length) ==
    INSTANCE Planner WITH
        Requests <- asking, Rank <- [r \in Asking |-> IF r \in Urgent THEN 0 ELSE 1],
        Waited <- [r \in Asking |-> 0], Own <- Elsewhere, Bays <- bays,
        First <- [r \in Asking |-> window[r][1]], Last <- [r \in Asking |-> window[r][2]],
        Length <- length, Occupied <- Held, Day <- 3, Now <- 0

\* Every placement is what its request asked for and ends before closing, and of
\* two on one charger one ends before the other begins: nothing is promised
\* twice, also not by a swap.
PlanFits(bays, window, length, plans) ==
    \A plan \in plans : \A r \in DOMAIN plan :
        /\ plan[r][1] \in bays[r]
        /\ window[r][1] <= plan[r][2] /\ plan[r][2] <= window[r][2]
        /\ plan[r][2] + length[r] <= 3
        /\ \A a \in Held[plan[r][1]] \cup Elsewhere[r] :
               a < plan[r][2] \/ plan[r][2] + length[r] <= a
        /\ \A v \in DOMAIN plan \ {r} :
               plan[v][1] = plan[r][1] => \/ plan[r][2] + length[r] <= plan[v][2]
                                          \/ plan[v][2] + length[v] <= plan[r][2]

\* Nobody whom the greedy phase served is dropped by the repair, and whoever it
\* did not serve had no candidate left.
RepairOnlyAdds(bays, window, length, plans) ==
    LET greedy == Planning(Asking, bays, window, length)!Greedy IN
    /\ \A plan \in plans : \E g \in greedy : DOMAIN g \subseteq DOMAIN plan
    /\ \A g \in greedy : \A r \in Asking \ DOMAIN g :
           Planning(Asking, bays, window, length)!Candidates(r, g) = {}

\* The urgent requests are served as if nobody else asked, whatever is moved.
PriorityDominates(bays, window, length, plans) ==
    LET alone == Planning(Urgent, bays, window, length)!Greedy IN
    \A plan \in plans : \E g \in alone : DOMAIN g \subseteq DOMAIN plan

ASSUME PlansAreSound ==
    \A bays \in [Asking -> {{1}, {2}, {1, 2}}], length \in [Asking -> 1..2] :
    \A window \in [Asking -> {w \in (0..2) \X (0..2) : w[1] <= w[2]}] :
        LET plans == Planning(Asking, bays, window, length)!Plans IN
        /\ PlanFits(bays, window, length, plans)
        /\ RepairOnlyAdds(bays, window, length, plans)
        /\ PriorityDominates(bays, window, length, plans)
=============================================================================
