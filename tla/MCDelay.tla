------------------------------ MODULE MCDelay ------------------------------
(* One reservation that is late from the start and later at the next tick,  *)
(* the job and the desk.  The cascade itself is compared with a reference   *)
(* over every queue of up to three reservations of one charger.             *)
EXTENDS Delay

CONSTANTS a1, c1

TheBookings == {a1}
TheCharger == [b \in TheBookings |-> c1]
TheStart == [b \in TheBookings |-> -1]
TheEnd == [b \in TheBookings |-> 0]

----------------------------------------------------------------------------

Queue(start, end) ==
    INSTANCE Delay WITH Bookings <- DOMAIN start, Start <- start, End <- end,
                        Charger <- [b \in DOMAIN start |-> c1], MaxDepth <- 1

\* The time that reservations of the queue take before b starts.
Ahead(b, queue, start, end) ==
    LET before == {a \in queue : start[a] < start[b]}
        times == UNION {start[a]..(end[a] - 1) : a \in before}
    IN  Cardinality(times)

\* However the reservations lie, one that nothing is skipped before is late by
\* what is to be served before it minus the time until it starts: nothing is
\* counted twice, and gaps absorb delay; and MaxDepth cuts the queue.
ASSUME CascadeIsTheQueue ==
    LET Starts == {s \in [1..3 -> 0..5] : s[1] < s[2] /\ s[2] < s[3]} IN
    \A start \in Starts, until \in 0..6, queue \in SUBSET (1..3) :
    \A end \in {e \in [1..3 -> 1..6] : /\ \A b \in 1..3 : start[b] < e[b]
                                       /\ \A b \in 1..2 : e[b] <= start[b + 1]} :
        LET late == Queue(start, end)!Cascade(queue, until) IN
        \A b \in 1..3 :
            late[b] = IF b \notin queue \/ Cardinality({a \in queue : a < b}) > 1 THEN 0
                      ELSE Above0(until - start[b] + Ahead(b, queue, start, end))
=============================================================================
