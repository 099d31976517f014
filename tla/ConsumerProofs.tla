--------------------------- MODULE ConsumerProofs ---------------------------
(***************************************************************************)
(* Theorems about Consumer for every set of stations, any number of passes *)
(* that overlap, and every limit, lookback and bound.                      *)
(***************************************************************************)
EXTENDS Consumer, TLAPS

\* Nobody is owed an offer for this event any more.
Settled(e) == Answered(e) \/ e \in excused

\* What is on its way to the log is ahead of the cursor, and of no pass.
FlightIsAhead ==
    /\ \A e \in flight : lastRun < e[2] \/ e \in excused
    /\ Running # {} => flight \subseteq excused

\* The events that a pass may have missed at each of its steps: before it reads
\* those behind its own now, then those it read, then those it covers.
PassCovers(p) ==
    /\ p \in Running => pass[p].now \in 1..clock
    /\ pass[p].at \in {"sweep", "read"} => \A e \in log : e[2] <= pass[p].now \/ e \in excused
    /\ pass[p].at = "plan" => \A e \in log : e \in pass[p].read \/ Settled(e)
    /\ pass[p].at = "create" => \A e \in log : e \in pass[p].covers \/ Settled(e)

CursorInv ==
    /\ TypeOK
    /\ SkipsNothing
    /\ FlightIsAhead
    /\ \A p \in Passes : PassCovers(p)

LEMMA InitCursor == Init => CursorInv
<1> SUFFICES ASSUME Init PROVE CursorInv
  OBVIOUS
<1> USE WindowAssumption DEF Init
<1>1. TypeOK
  BY DEF TypeOK, Times, Idle, PassRecords, Steps
<1>2. SkipsNothing /\ FlightIsAhead /\ \A p \in Passes : PassCovers(p)
  BY DEF SkipsNothing, FlightIsAhead, PassCovers, Running, Idle
<1> QED
  BY <1>1, <1>2 DEF CursorInv

\* The records that the steps of a pass write are records of passes.
LEMMA IdleIsRecord == Idle \in PassRecords
  BY WindowAssumption DEF Idle, PassRecords, Steps

LEMMA StepIsRecord ==
  ASSUME NEW r \in PassRecords, NEW at \in Steps
  PROVE  [r EXCEPT !.at = at] \in PassRecords
  BY DEF PassRecords

LEMMA BeginIsRecord ==
  ASSUME NEW r \in PassRecords, NEW now \in 0..MaxClock
  PROVE  [r EXCEPT !.at = "sweep", !.now = now] \in PassRecords
  BY DEF PassRecords, Steps

LEMMA ReadIsRecord ==
  ASSUME NEW r \in PassRecords, NEW E \in SUBSET Events
  PROVE  LET s == [r EXCEPT !.at = "plan", !.read = E]
         IN  s \in PassRecords /\ s.at = "plan" /\ s.read = E /\ s.now = r.now
  BY DEF PassRecords, Steps

LEMMA PlanIsRecord ==
  ASSUME NEW r \in PassRecords, NEW E \in SUBSET Events
  PROVE  LET s == [r EXCEPT !.at = "create", !.covers = E]
         IN  s \in PassRecords /\ s.at = "create" /\ s.covers = E /\ s.now = r.now
  BY DEF PassRecords, Steps

LEMMA TypeStep == CursorInv /\ [Next]_vars => TypeOK'
<1> SUFFICES ASSUME CursorInv, [Next]_vars PROVE TypeOK'
  OBVIOUS
<1> USE WindowAssumption DEF TypeOK, CursorInv, Times, Events, Steps
<1>1. CASE Others
  <2>1. CASE Tick
    BY <2>1 DEF Tick
  <2>2. CASE OtherRun
    BY <2>2 DEF OtherRun
  <2>3. ASSUME NEW s \in Stations, Release(s) PROVE TypeOK'
    BY <2>3 DEF Release
  <2>4. ASSUME NEW s \in Stations, Demand(s) PROVE TypeOK'
    BY <2>4 DEF Demand
  <2>5. ASSUME NEW e \in Events, Append(e) PROVE TypeOK'
    BY <2>5 DEF Append
  <2>6. ASSUME NEW e \in Events, Drop(e) PROVE TypeOK'
    BY <2>6 DEF Drop
  <2> QED
    BY <1>1, <2>1, <2>2, <2>3, <2>4, <2>5, <2>6 DEF Others
<1>2. ASSUME NEW p \in Passes, Work(p) PROVE TypeOK'
  <2>1. CASE Begin(p)
    <3>1. pass' = [pass EXCEPT ![p].at = "sweep", ![p].now = clock]
      BY <2>1 DEF Begin
    <3>2. clock \in 0..MaxClock
      OBVIOUS
    <3>3. [pass[p] EXCEPT !.at = "sweep", !.now = clock] \in PassRecords
      BY <3>2, BeginIsRecord
    <3>5. pass' \in [Passes -> PassRecords]
      BY <3>1, <3>3
    <3>4. excused' \subseteq Events
      BY <2>1 DEF Begin
    <3> QED
      BY <2>1, <3>4, <3>5 DEF Begin
  <2>2. CASE Sweep(p)
    <3>1. pass[p].now \in 1..clock /\ clock \in 1..MaxClock
      BY <2>2 DEF Sweep, PassCovers, Running
    <3>2. PICK swept \in SUBSET {<<s, pass[p].now>> : s \in Stations} :
            /\ log' = log \cup swept
            /\ excused' \in {excused, excused \cup swept}
      BY <2>2 DEF Sweep
    <3>3. \A e \in swept : e \in Events /\ e[2] <= clock
      BY <3>1
    <3>4. pass' \in [Passes -> PassRecords]
      BY <2>2, StepIsRecord DEF Sweep
    <3>5. /\ flight' \cup log' \subseteq Events
          /\ \A e \in flight' \cup log' : e[2] <= clock
          /\ excused' \subseteq Events
      BY <2>2, <3>2, <3>3 DEF Sweep
    <3> QED
      BY <2>2, <3>4, <3>5 DEF Sweep
  <2>3. CASE ReadEvents(p)
    <3>1. Window(p) \subseteq Events
      BY DEF Window
    <3>2. PICK read \in SUBSET Window(p) :
             /\ pass' = [pass EXCEPT ![p] = IF read = {} THEN Idle
                                            ELSE [@ EXCEPT !.at = "plan", !.read = read]]
             /\ excused' = excused \cup (Window(p) \ read)
                             \cup {e \in log : lastRun = 0 /\ e[2] <= pass[p].now - Lookback}
      BY <2>3, Zenon DEF ReadEvents
    <3>3. [pass[p] EXCEPT !.at = "plan", !.read = read] \in PassRecords /\ Idle \in PassRecords
      BY <3>1, ReadIsRecord, IdleIsRecord
    <3>4. pass' \in [Passes -> PassRecords]
      BY <3>2, <3>3
    <3>5. excused' \subseteq Events
      BY <3>1, <3>2
    <3> QED
      BY <2>3, <3>4, <3>5 DEF ReadEvents
  <2>4. CASE Plan(p)
    <3>1. PICK covers \in SUBSET Events :
             pass' = [pass EXCEPT ![p] = IF StationsOf(pass[p].read) \cap demand = {} THEN Idle
                                         ELSE [@ EXCEPT !.at = "create", !.covers = covers]]
      BY <2>4, Zenon DEF Plan
    <3>2. [pass[p] EXCEPT !.at = "create", !.covers = covers] \in PassRecords
          /\ Idle \in PassRecords
      BY PlanIsRecord, IdleIsRecord
    <3>3. pass' \in [Passes -> PassRecords]
      BY <3>1, <3>2
    <3> QED
      BY <2>4, <3>3 DEF Plan
  <2>5. CASE CreateRun(p)
    <3>1. [pass[p] EXCEPT !.at = "issue"] \in PassRecords
      BY StepIsRecord
    <3> QED
      BY <2>5, <3>1 DEF CreateRun
  <2>6. CASE Issue(p)
    <3>1. pass[p].covers \subseteq Events
      BY DEF PassRecords
    <3> QED
      BY <2>6, <3>1, IdleIsRecord DEF Issue
  <2> QED
    BY <1>2, <2>1, <2>2, <2>3, <2>4, <2>5, <2>6 DEF Work
<1>3. ASSUME NEW p \in Passes, Die(p) PROVE TypeOK'
  <2>1. pass[p].covers \subseteq Events
    BY DEF PassRecords
  <2> QED
    BY <1>3, <2>1, IdleIsRecord DEF Die
<1>4. CASE UNCHANGED vars
  BY <1>4 DEF vars
<1> QED
  BY <1>1, <1>2, <1>3, <1>4 DEF Next

----------------------------------------------------------------------------

\* An event that was once planned for or excused stays so: a pass that is about
\* to issue either does, or dies and is excused.
LEMMA SettledStays ==
  ASSUME CursorInv, [Next]_vars, NEW e, Settled(e)
  PROVE  Settled(e)'
<1> USE DEF CursorInv, TypeOK, Settled, Answered
<1>1. CASE Others
  <2>1. pass' = pass /\ planned' = planned /\ excused \subseteq excused'
    BY <1>1 DEF Others, Tick, OtherRun, Release, Demand, Append, Drop
  <2> QED
    BY <2>1
<1>2. ASSUME NEW p \in Passes, Work(p) \/ Die(p) PROVE Settled(e)'
  <2>1. /\ planned \subseteq planned' /\ excused \subseteq excused'
        /\ \A q \in Passes : q # p => pass'[q] = pass[q]
        /\ pass[p].at = "issue" => pass[p].covers \subseteq planned' \cup excused'
    <3>1. CASE Begin(p)
      BY <3>1 DEF Begin
    <3>2. CASE Sweep(p)
      BY <3>2 DEF Sweep
    <3>3. CASE ReadEvents(p)
      BY <3>3 DEF ReadEvents
    <3>4. CASE Plan(p)
      BY <3>4 DEF Plan
    <3>5. CASE CreateRun(p)
      BY <3>5 DEF CreateRun
    <3>6. CASE Issue(p)
      BY <3>6 DEF Issue
    <3>7. CASE Die(p)
      BY <3>7 DEF Die
    <3> QED
      BY <1>2, <3>1, <3>2, <3>3, <3>4, <3>5, <3>6, <3>7 DEF Work
  <2> QED
    BY <2>1
<1>3. CASE UNCHANGED vars
  BY <1>3 DEF vars
<1> QED
  BY <1>1, <1>2, <1>3 DEF Next

\* Nobody else than a pass moves the cursor, and what they stamp while a pass
\* runs or in the millisecond of the last run is excused.
LEMMA OthersKeep ==
  ASSUME CursorInv, TypeOK', Others
  PROVE  CursorInv'
<1> USE DEF CursorInv, TypeOK, Times, Events
<1>1. /\ pass' = pass /\ planned' = planned /\ lastRun' = lastRun /\ excused \subseteq excused'
      /\ clock <= clock' /\ clock' \in Nat
      /\ flight' \subseteq flight \cup {e \in Events : e[2] = clock}
      /\ log' \subseteq log \cup flight
      /\ \A e \in flight' : e \in flight \/ e \in excused' \/ (Running = {} /\ lastRun < e[2])
  BY DEF Others, Tick, OtherRun, Release, Demand, Append, Drop
<1>2. Running' = Running /\ \A e : Settled(e) => Settled(e)'
  BY <1>1 DEF Running, Settled, Answered
<1>3. FlightIsAhead'
  BY <1>1, <1>2 DEF FlightIsAhead
<1>4. SkipsNothing'
  BY <1>1, <1>2 DEF SkipsNothing, FlightIsAhead, Passed, Settled
<1>5. ASSUME NEW p \in Passes PROVE PassCovers(p)'
  <2>1. pass[p].at \notin {"idle", "issue"} => log' \subseteq log \cup excused'
    BY <1>1 DEF FlightIsAhead, Running
  <2> QED
    BY <1>1, <1>2, <2>1 DEF PassCovers, Running, Settled
<1> QED
  BY <1>3, <1>4, <1>5

LEMMA BeginKeeps ==
  ASSUME CursorInv, TypeOK', NEW p \in Passes, Begin(p), \A e : Settled(e) => Settled(e)'
  PROVE  CursorInv'
<1> USE DEF CursorInv, TypeOK, Times, Begin
<1>1. /\ pass[p].at = "idle" /\ pass'[p].at = "sweep" /\ pass'[p].now = clock
      /\ \A q \in Passes \ {p} : pass'[q] = pass[q]
  OBVIOUS
<1>2. Running' = Running \cup {p}
  BY <1>1 DEF Running
<1>3. FlightIsAhead' /\ SkipsNothing'
  BY DEF FlightIsAhead, SkipsNothing, Passed, Settled
<1>4. ASSUME NEW q \in Passes PROVE PassCovers(q)'
  BY <1>1, <1>2 DEF PassCovers, Running
<1> QED
  BY <1>3, <1>4

\* What a pass sweeps carries its own now, and is behind that of others only if
\* it is excused.
LEMMA SweepKeeps ==
  ASSUME CursorInv, TypeOK', NEW p \in Passes, Sweep(p), \A e : Settled(e) => Settled(e)'
  PROVE  CursorInv'
<1> USE DEF CursorInv, TypeOK, Times
<1>1. PICK swept \in SUBSET {<<s, pass[p].now>> : s \in Stations} :
        /\ log' = log \cup swept
        /\ excused' = IF Running \ {p} # {} \/ pass[p].now <= lastRun
                      THEN excused \cup swept ELSE excused
  BY DEF Sweep
<1>2. /\ pass[p].at = "sweep" /\ pass'[p].at = "read" /\ pass'[p].now = pass[p].now
      /\ \A q \in Passes \ {p} : pass'[q] = pass[q]
      /\ Running' = Running
      /\ UNCHANGED <<clock, flight, lastRun, planned>>
  BY DEF Sweep, Running
<1>3. pass[p].now \in 1..clock /\ \A e \in swept : e[2] = pass[p].now
  BY <1>2 DEF PassCovers, Running
<1>4. FlightIsAhead'
  BY <1>1, <1>2 DEF FlightIsAhead
<1>5. SkipsNothing'
  BY <1>1, <1>2, <1>3 DEF SkipsNothing, Passed, Settled
<1>6. PassCovers(p)'
  BY <1>1, <1>2, <1>3 DEF PassCovers, Running
<1>7. ASSUME NEW q \in Passes \ {p} PROVE PassCovers(q)'
  <2>1. q \in Running => log' \subseteq log \cup excused'
    BY <1>1
  <2> QED
    BY <1>1, <1>2, <2>1 DEF PassCovers, Running, Settled
<1> QED
  BY <1>4, <1>5, <1>6, <1>7

\* What a pass reads and what it may leave is everything behind its now that the
\* cursor had not passed.
LEMMA ReadKeeps ==
  ASSUME CursorInv, TypeOK', NEW p \in Passes, ReadEvents(p), \A e : Settled(e) => Settled(e)'
  PROVE  CursorInv'
<1> USE WindowAssumption DEF CursorInv, TypeOK, Times
<1>1. PICK read \in SUBSET Window(p) :
        /\ pass' = [pass EXCEPT ![p] = IF read = {} THEN Idle
                                       ELSE [@ EXCEPT !.at = "plan", !.read = read]]
        /\ excused' = excused \cup (Window(p) \ read)
                        \cup {e \in log : lastRun = 0 /\ e[2] <= pass[p].now - Lookback}
  BY Zenon DEF ReadEvents
<1>2. /\ pass[p].at = "read"
      /\ \A q \in Passes \ {p} : pass'[q] = pass[q]
      /\ \/ read = {} /\ pass'[p] = Idle
         \/ pass'[p] = [pass[p] EXCEPT !.at = "plan", !.read = read]
      /\ UNCHANGED <<clock, log, flight, lastRun, planned>>
  BY <1>1 DEF ReadEvents
<1>3. /\ \/ pass'[p].at = "idle"
         \/ pass'[p].at = "plan" /\ pass'[p].read = read /\ pass'[p].now = pass[p].now
      /\ pass[p].now \in 1..clock
      /\ \A e \in log : e[2] <= pass[p].now \/ e \in excused
  <2>1. read \in SUBSET Events
    BY DEF Window
  <2>2. Idle.at = "idle"
    BY DEF Idle
  <2>3. LET s == [pass[p] EXCEPT !.at = "plan", !.read = read]
        IN  s.at = "plan" /\ s.read = read /\ s.now = pass[p].now
    BY <2>1, ReadIsRecord
  <2>4. pass[p].now \in 1..clock /\ \A e \in log : e[2] <= pass[p].now \/ e \in excused
    BY <1>2 DEF PassCovers, Running
  <2> HIDE DEF CursorInv, TypeOK, Times
  <2> QED
    BY <1>2, <2>2, <2>3, <2>4, Zenon
<1>4. Running' \subseteq Running /\ excused \subseteq excused'
  BY <1>1, <1>2 DEF Running
<1>5. FlightIsAhead' /\ SkipsNothing'
  BY <1>2, <1>4 DEF FlightIsAhead, SkipsNothing, Passed, Settled
<1>6. \A e \in log : e \in read \/ Settled(e)'
  <2>1. SUFFICES ASSUME NEW e \in log, e \notin read, e \notin excused' PROVE Settled(e)'
    BY DEF Settled
  <2>2. e[2] <= pass[p].now /\ ~(Cursor(p) < e[2])
    BY <1>1, <1>3, <1>4, <2>1 DEF Window
  <2>3. lastRun > 0 /\ e[2] <= lastRun
    <3>1. e[2] \in Int /\ pass[p].now \in Int /\ lastRun \in Nat
      BY <1>3, <2>1 DEF Events
    <3>2. lastRun = 0 => ~(e[2] <= pass[p].now - Lookback)
      BY <1>1, <2>1
    <3> QED
      BY <2>2, <3>1, <3>2 DEF Cursor, LastRun
  <2> QED
    BY <1>4, <2>1, <2>3 DEF SkipsNothing, Passed, Settled
<1>7. PassCovers(p)'
  BY <1>2, <1>3, <1>6 DEF PassCovers, Running
<1>8. ASSUME NEW q \in Passes \ {p} PROVE PassCovers(q)'
  BY <1>2, <1>4 DEF PassCovers, Running, Settled
<1> QED
  BY <1>5, <1>7, <1>8

\* A plan for the stations of what was read covers it.
LEMMA PlanKeeps ==
  ASSUME CursorInv, TypeOK', NEW p \in Passes, Plan(p), \A e : Settled(e) => Settled(e)'
  PROVE  CursorInv'
<1> USE DEF CursorInv, TypeOK, Times
<1>1. DEFINE covers == {e \in log \cup flight : e[1] \in StationsOf(pass[p].read)}
<1>2. /\ pass[p].at = "plan"
      /\ \A q \in Passes \ {p} : pass'[q] = pass[q]
      /\ pass'[p] \in {Idle, [pass[p] EXCEPT !.at = "create", !.covers = covers]}
      /\ UNCHANGED <<clock, log, flight, lastRun, planned, excused>>
  BY Zenon DEF Plan
<1>3. \/ pass'[p].at = "idle"
      \/ pass'[p].at = "create" /\ pass'[p].covers = covers /\ pass'[p].now = pass[p].now
  <2>1. covers \in SUBSET Events
    OBVIOUS
  <2>2. Idle.at = "idle"
    BY DEF Idle
  <2>3. LET s == [pass[p] EXCEPT !.at = "create", !.covers = covers]
        IN  s.at = "create" /\ s.covers = covers /\ s.now = pass[p].now
    BY <2>1, PlanIsRecord
  <2> HIDE DEF CursorInv, TypeOK, Times, covers
  <2> QED
    BY <1>2, <2>2, <2>3, Zenon
<1>4. \A e \in log : e \in covers \/ Settled(e)
  BY <1>2 DEF PassCovers, StationsOf
<1>5. FlightIsAhead' /\ SkipsNothing'
  BY <1>2 DEF FlightIsAhead, SkipsNothing, Passed, Settled, Running
<1>6. PassCovers(p)'
  BY <1>2, <1>3, <1>4 DEF PassCovers, Running
<1>7. ASSUME NEW q \in Passes \ {p} PROVE PassCovers(q)'
  BY <1>2 DEF PassCovers, Running
<1> QED
  BY <1>5, <1>6, <1>7

\* The cursor moves to now: what the pass covers is about to be issued, and the
\* rest of the log is settled.
LEMMA CreateRunKeeps ==
  ASSUME CursorInv, TypeOK', NEW p \in Passes, CreateRun(p), \A e : Settled(e) => Settled(e)'
  PROVE  CursorInv'
<1> USE DEF CursorInv, TypeOK, Times
<1>1. /\ pass[p].at = "create" /\ pass'[p].at = "issue" /\ pass'[p].covers = pass[p].covers
      /\ \A q \in Passes \ {p} : pass'[q] = pass[q]
      /\ UNCHANGED <<clock, log, flight, planned, excused>>
  BY DEF CreateRun, PassRecords
<1>2. p \in Running /\ Running' \subseteq Running
  BY <1>1 DEF Running
<1>3. \A e \in log : Settled(e)'
  BY <1>1 DEF PassCovers, Settled, Answered
<1>4. FlightIsAhead' /\ SkipsNothing'
  BY <1>1, <1>2, <1>3 DEF FlightIsAhead, SkipsNothing, Settled
<1>5. ASSUME NEW q \in Passes PROVE PassCovers(q)'
  BY <1>1, <1>3 DEF PassCovers, Running, Settled
<1> QED
  BY <1>4, <1>5

LEMMA LeaveKeeps ==
  ASSUME CursorInv, TypeOK', NEW p \in Passes, Issue(p) \/ Die(p), \A e : Settled(e) => Settled(e)'
  PROVE  CursorInv'
<1> USE DEF CursorInv, TypeOK, Times
<1>1. /\ pass'[p].at = "idle"
      /\ \A q \in Passes \ {p} : pass'[q] = pass[q]
      /\ excused \subseteq excused'
      /\ UNCHANGED <<clock, log, flight, lastRun>>
  BY DEF Issue, Die, Idle
<1>2. Running' \subseteq Running
  BY <1>1 DEF Running
<1>3. FlightIsAhead' /\ SkipsNothing'
  BY <1>1, <1>2 DEF FlightIsAhead, SkipsNothing, Passed, Settled
<1>4. ASSUME NEW q \in Passes PROVE PassCovers(q)'
  BY <1>1 DEF PassCovers, Running
<1> QED
  BY <1>3, <1>4

LEMMA StepCursor == CursorInv /\ [Next]_vars => CursorInv'
<1> SUFFICES ASSUME CursorInv, [Next]_vars PROVE CursorInv'
  OBVIOUS
<1>1. TypeOK' /\ \A e : Settled(e) => Settled(e)'
  BY TypeStep, SettledStays
<1>2. CASE Others
  BY <1>1, <1>2, OthersKeep
<1>3. ASSUME NEW p \in Passes, Work(p) \/ Die(p) PROVE CursorInv'
  BY <1>1, <1>3, BeginKeeps, SweepKeeps, ReadKeeps, PlanKeeps, CreateRunKeeps, LeaveKeeps DEF Work
<1>4. CASE UNCHANGED vars
  BY <1>4 DEF vars, CursorInv, TypeOK, SkipsNothing, Passed, Answered, FlightIsAhead, Running,
              PassCovers, Settled
<1> QED
  BY <1>2, <1>3, <1>4 DEF Next

\* The clock, the log, the cursor and what each pass has read stay within their
\* ranges, whatever is released, appended and dropped meanwhile.
THEOREM TypeCorrect == Spec => []TypeOK
<1>1. CursorInv => TypeOK
  BY DEF CursorInv
<1> QED
  BY InitCursor, StepCursor, <1>1, PTL DEF Spec

\* For any number of passes that overlap and die, the cursor of
\* consumeCapacityReleases moves past a logged release only when a pass has
\* planned for its station, or one of the limits of the cursor excuses it.
THEOREM CursorSkipsNothing == Spec => []SkipsNothing
<1>1. CursorInv => SkipsNothing
  BY DEF CursorInv
<1> QED
  BY InitCursor, StepCursor, <1>1, PTL DEF Spec
=============================================================================
