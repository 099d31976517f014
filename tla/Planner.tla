------------------------------ MODULE Planner ------------------------------
(***************************************************************************)
(* What one optimizer pass may plan: planAssignments of                    *)
(* optimization/scheduler.ts, a pure function of a snapshot.  Requests are *)
(* placed one after the other, each at its best scored candidate, and then *)
(* a bounded repair moves one placement to make room for a request that    *)
(* found none.                                                             *)
(*                                                                         *)
(* A plan is a function from the requests it serves to places.  Scores are *)
(* left out: the best candidate is any candidate and a swap that is        *)
(* possible may be refused, so the operators give the SET of plans that    *)
(* some scores lead to.  Time is the atoms 0..Day-1 of one operating day.  *)
(***************************************************************************)
EXTENDS Naturals

CONSTANTS
    Requests, \* the requests of the snapshot: their ids, which are ordered
    Rank,     \* PRIORITY_RANK of each
    Waited,   \* its waitingHours
    Bays,     \* the compatible chargers at the stations it names
    First,    \* earliestStart
    Last,     \* latestStart
    Length,   \* its duration
    Own,      \* the atoms its customer already holds somewhere
    Occupied, \* the atoms of each charger that are held
    Day,      \* the atoms of the day
    Now       \* the first atom that has not begun

\* The place p of request r, as atoms: half-open, so an atom that ends when
\* another begins is a different atom.
Span(r, start) == start..(start + Length[r] - 1)

\* orderRequests: priority, then slack, then waiting time, then the id.
Before(a, b) ==
    LET Slack(r) == Last[r] - First[r] IN
    \/ Rank[a] < Rank[b]
    \/ /\ Rank[a] = Rank[b]
       /\ \/ Slack(a) < Slack(b)
          \/ /\ Slack(a) = Slack(b)
             /\ \/ Waited[a] > Waited[b]
                \/ Waited[a] = Waited[b] /\ a < b

\* availableStarts: starts that are not past and end before closing, clear of
\* what is taken.
Starts(r, taken) ==
    {s \in 0..Day : Now <= s /\ s + Length[r] <= Day /\ Span(r, s) \cap taken = {}}

\* What a plan has promised on a charger.
Promised(plan, bay) ==
    UNION {Span(v, plan[v][2]) : v \in {v \in DOMAIN plan : plan[v][1] = bay}}

\* candidatesFor
Candidates(r, plan) ==
    {p \in Bays[r] \X (First[r]..Last[r]) :
        /\ p[2] \in Starts(r, Occupied[p[1]] \cup Promised(plan, p[1]))
        /\ Span(r, p[2]) \cap Own[r] = {}}

\* The reason a request that found no candidate is waitlisted for.  What its
\* customer holds elsewhere is not looked at.
Blocker(r) ==
    IF Bays[r] = {} THEN "no_compatible_charger"
    ELSE IF Last[r] < First[r] THEN "window_too_narrow"
    ELSE IF Starts(r, {}) \cap (First[r]..Last[r]) = {} THEN "outside_operating_hours"
    ELSE "no_free_capacity"

Without(plan, r) == [v \in DOMAIN plan \ {r} |-> plan[v]]
With(plan, r, place) == [v \in DOMAIN plan \cup {r} |-> IF v = r THEN place ELSE plan[v]]

\* The greedy placement of one request.
Placed(plan, r) ==
    IF Candidates(r, plan) = {} THEN {plan}
    ELSE {With(plan, r, p) : p \in Candidates(r, plan)}

\* tryRepair: the placement of v is lifted, r takes a place, and v another.
Swaps(plan, r, v) ==
    LET lifted == Without(plan, v) IN
    UNION {{With(With(lifted, r, mine), v, theirs) :
                theirs \in Candidates(v, With(lifted, r, mine))} :
           mine \in Candidates(r, lifted)}

\* Whether scores and the time budget allow a swap is left open.
Repaired(plan, r) ==
    IF Blocker(r) # "no_free_capacity" THEN {plan}
    ELSE {plan} \cup UNION {Swaps(plan, r, v) : v \in DOMAIN plan}

\* The requests of a phase take their turns in this order.
Sweep(Step(_, _), waiting, plans) ==
    LET after[done \in SUBSET waiting] ==
            IF done = {} THEN plans
            ELSE LET last == CHOOSE r \in done : \A o \in done \ {r} : Before(o, r)
                 IN  UNION {Step(plan, last) : plan \in after[done \ {last}]}
    IN  after[waiting]

Greedy == Sweep(Placed, Requests, {[r \in {} |-> <<>>]})

\* planAssignments
Plans == UNION {Sweep(Repaired, Requests \ DOMAIN plan, {plan}) : plan \in Greedy}

=============================================================================
