------------------------------ MODULE Consumer ------------------------------
(***************************************************************************)
(* The capacity-release consumer of optimization/consumer.ts: a cursor     *)
(* over the event log of reservationEvents.service.ts that is the creation *)
(* time of the consumer's own last run (runner.ts).  Every handler that    *)
(* frees charger time stamps an event and appends it one await later; a    *)
(* pass sweeps the lapsed offers, reads what was appended behind its       *)
(* cursor, plans the stations it names for those who wait, and records the *)
(* run before it issues the offers.                                        *)
(*                                                                         *)
(* An event is <<station, occurredAt>>: two releases of one station in one *)
(* millisecond ask for the same plan.                                      *)
(***************************************************************************)
EXTENDS Integers, FiniteSets

CONSTANTS
    Stations,
    Passes,      \* processes that call consumeCapacityReleases
    Limit,       \* how many events one pass reads
    Lookback,    \* COLD_START_LOOKBACK_MS
    MaxClock,    \* Bound
    MaxReleases  \* Bound: how many events there are at once

ASSUME WindowAssumption ==
    /\ Limit \in Nat
    /\ Lookback \in Nat
    /\ MaxClock \in Nat \ {0}
    /\ MaxReleases \in Nat

VARIABLES
    clock,
    flight,  \* events stamped and not yet appended
    log,     \* the ReservationEvent documents
    lastRun, \* creation time of the last committed run of the consumer; 0 is none
    other,   \* creation time of the last run of another trigger, or of a preview
    demand,  \* stations that an active request could be served at
    pass,    \* each pass: its step and what it has read
    planned, \* events whose station was planned after they happened, and offered
    excused  \* events that one of the limits of the cursor applies to

vars == <<clock, flight, log, lastRun, other, demand, pass, planned, excused>>

Times == 1..MaxClock
Events == Stations \X Times
StationsOf(E) == {e[1] : e \in E}

Steps == {"idle", "sweep", "read", "plan", "create", "issue"}
PassRecords == [at : Steps, now : 0..MaxClock,
                read : SUBSET Events, covers : SUBSET Events]
Idle == [at |-> "idle", now |-> 0, read |-> {}, covers |-> {}]

TypeOK ==
    /\ clock \in Times
    /\ flight \cup log \subseteq Events
    /\ \A e \in flight \cup log : e[2] <= clock
    /\ lastRun \in 0..clock
    /\ other \in 0..clock
    /\ demand \subseteq Stations
    /\ pass \in [Passes -> PassRecords]
    /\ planned \subseteq Events
    /\ excused \subseteq Events

Init ==
    /\ clock = 1
    /\ flight = {}
    /\ log = {}
    /\ lastRun = 0
    /\ other = 0
    /\ demand \in SUBSET Stations
    /\ pass = [p \in Passes |-> Idle]
    /\ planned = {}
    /\ excused = {}

\* What happens from the moment a pass takes its now until its run carries a
\* creation time is behind the cursor that this run will be.
Running == {p \in Passes : pass[p].at \notin {"idle", "issue"}}

----------------------------------------------------------------------------
(* Everybody else                                                           *)

Tick ==
    /\ clock < MaxClock
    /\ clock' = clock + 1
    /\ UNCHANGED <<flight, log, lastRun, other, demand, pass, planned, excused>>

\* A handler has freed time and stamps its event.
Release(s) ==
    /\ Cardinality(log \cup flight) < MaxReleases
    /\ flight' = flight \cup {<<s, clock>>}
    /\ excused' = IF Running # {} \/ clock = lastRun
                  THEN excused \cup {<<s, clock>>} ELSE excused
    /\ UNCHANGED <<clock, log, lastRun, other, demand, pass, planned>>

\* emitReservationEvent
Append(e) ==
    /\ e \in flight
    /\ flight' = flight \ {e}
    /\ log' = log \cup {e}
    /\ UNCHANGED <<clock, lastRun, other, demand, pass, planned, excused>>

\* A failed emit is swallowed.
Drop(e) ==
    /\ e \in flight
    /\ flight' = flight \ {e}
    /\ UNCHANGED <<clock, log, lastRun, other, demand, pass, planned, excused>>

\* Requests are created, fulfilled, cancelled and expire.
Demand(s) ==
    /\ demand' = IF s \in demand THEN demand \ {s} ELSE demand \cup {s}
    /\ UNCHANGED <<clock, flight, log, lastRun, other, pass, planned, excused>>

\* runOptimization for another trigger, or for a preview of the consumer, which
\* sweeps and reads as any pass does and writes nothing else.
OtherRun ==
    /\ other' = clock
    /\ UNCHANGED <<clock, flight, log, lastRun, demand, pass, planned, excused>>

----------------------------------------------------------------------------
(* consumeCapacityReleases                                                  *)

Begin(p) ==
    /\ pass[p].at = "idle"
    /\ pass' = [pass EXCEPT ![p].at = "sweep", ![p].now = clock]
    /\ excused' = excused \cup flight
    /\ UNCHANGED <<clock, flight, log, lastRun, other, demand, planned>>

\* sweepExpiredRecommendations retires the lapsed offers of any stations, with
\* this pass's now as the time of the event.
Sweep(p) ==
    /\ pass[p].at = "sweep"
    /\ \E lapsed \in SUBSET Stations :
         LET swept == {<<s, pass[p].now>> : s \in lapsed} IN
         /\ lapsed # {} => Cardinality(log \cup flight \cup swept) <= MaxReleases
         /\ log' = log \cup swept
         /\ excused' = IF Running \ {p} # {} \/ pass[p].now <= lastRun
                       THEN excused \cup swept ELSE excused
    /\ pass' = [pass EXCEPT ![p].at = "read"]
    /\ UNCHANGED <<clock, flight, lastRun, other, demand, planned>>

\* Mutant of LastRun: the newest run of any trigger.
LastRunOfAny == IF other > lastRun THEN other ELSE lastRun

\* The newest committed run of the consumer's own trigger.
LastRun == lastRun

\* Where this pass reads from: the creation time of the last run or, at a cold
\* start, the lookback.
Cursor(p) == IF LastRun > 0 THEN LastRun ELSE pass[p].now - Lookback

Window(p) == {e \in log : Cursor(p) < e[2] /\ e[2] <= pass[p].now}

\* At most Limit events, in no order.  The cursor is read an await before them: an
\* older one only reads more.  Those cut off are excused, and at a cold
\* start those from before the lookback.
ReadEvents(p) ==
    /\ pass[p].at = "read"
    /\ \E read \in SUBSET Window(p) :
         /\ Cardinality(read) = IF Cardinality(Window(p)) <= Limit
                                THEN Cardinality(Window(p)) ELSE Limit
         /\ pass' = [pass EXCEPT ![p] = IF read = {} THEN Idle
                                        ELSE [@ EXCEPT !.at = "plan", !.read = read]]
         /\ excused' = excused \cup (Window(p) \ read)
                         \cup {e \in log : lastRun = 0 /\ e[2] <= pass[p].now - Lookback}
    /\ UNCHANGED <<clock, flight, log, lastRun, other, demand, planned>>

\* Mutant of Plan: an empty pass is recorded as well.
PlanAnyway(p) ==
    LET affected == StationsOf(pass[p].read) IN
    /\ pass[p].at = "plan"
    /\ pass' = [pass EXCEPT ![p].at = "create",
                            ![p].covers = {e \in log \cup flight :
                                             e[1] \in affected \cap demand}]
    /\ UNCHANGED <<clock, flight, log, lastRun, other, demand, planned, excused>>

\* Without demand for the stations that freed up nothing is planned or written.
\* The snapshot sees all that was freed at them, whether it has been logged.
Plan(p) ==
    LET affected == StationsOf(pass[p].read) IN
    /\ pass[p].at = "plan"
    /\ pass' = [pass EXCEPT ![p] =
                  IF affected \cap demand = {} THEN Idle
                  ELSE [@ EXCEPT !.at = "create",
                                 !.covers = {e \in log \cup flight : e[1] \in affected}]]
    /\ UNCHANGED <<clock, flight, log, lastRun, other, demand, planned, excused>>

\* runOptimization writes the run before it issues anything.
CreateRun(p) ==
    /\ pass[p].at = "create"
    /\ lastRun' = clock
    /\ pass' = [pass EXCEPT ![p].at = "issue"]
    /\ UNCHANGED <<clock, flight, log, other, demand, planned, excused>>

\* Every assignment has been offered and every failure waitlisted.
Issue(p) ==
    /\ pass[p].at = "issue"
    /\ planned' = planned \cup pass[p].covers
    /\ pass' = [pass EXCEPT ![p] = Idle]
    /\ UNCHANGED <<clock, flight, log, lastRun, other, demand, excused>>

\* What a dead pass had recorded as a run and not yet offered is excused.
Die(p) ==
    /\ pass[p].at # "idle"
    /\ excused' = IF pass[p].at = "issue" THEN excused \cup pass[p].covers ELSE excused
    /\ pass' = [pass EXCEPT ![p] = Idle]
    /\ UNCHANGED <<clock, flight, log, lastRun, other, demand, planned>>

----------------------------------------------------------------------------

Others ==
    \/ Tick
    \/ OtherRun
    \/ \E s \in Stations : Release(s) \/ Demand(s)
    \/ \E e \in Events : Append(e) \/ Drop(e)

Work(p) ==
    Begin(p) \/ Sweep(p) \/ ReadEvents(p) \/ Plan(p) \/ CreateRun(p) \/ Issue(p)

Next == Others \/ \E p \in Passes : Work(p) \/ Die(p)

Spec == Init /\ [][Next]_vars

\* The scheduler starts pass after pass, and they do not all die at the same
\* await.
FairSpec ==
    /\ Spec
    /\ \A p \in Passes : /\ WF_vars(Begin(p)) /\ SF_vars(Sweep(p)) /\ SF_vars(ReadEvents(p))
                         /\ SF_vars(Plan(p)) /\ SF_vars(CreateRun(p)) /\ WF_vars(Issue(p))

----------------------------------------------------------------------------
(* Properties                                                               *)

\* The event is behind the cursor of every pass to come.
Passed(e) == e[2] <= lastRun

Answered(e) == e \in planned \/ \E p \in Passes : pass[p].at = "issue" /\ e \in pass[p].covers

\* However passes overlap, die, find no demand or are previews, and whatever
\* other runs are recorded, the cursor does not move past a logged release that
\* nobody planned for ("the safe direction", consumer.ts:102-105), but for the
\* ones its limits excuse: in flight or stamped while a pass ran, beyond the
\* 1000 that a pass reads, before the first lookback, or under a pass that
\* died with its run recorded.
SkipsNothing == \A e \in log : Passed(e) => Answered(e) \/ e \in excused

\* A logged release is planned for in the end, if someone keeps waiting for
\* its station and none of the limits excuses it.
Overdue(e) == lastRun = 0 /\ e[2] <= clock - Lookback
ReleaseIsPlanned ==
    \A e \in Events :
        e \in log ~> e \in planned \/ e \in excused \/ e[1] \notin demand \/ Overdue(e)
=============================================================================
