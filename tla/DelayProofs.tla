---------------------------- MODULE DelayProofs ----------------------------
(***************************************************************************)
(* Theorems about Delay for every queue of reservations, any number of     *)
(* sweepers and of requests of the desk.                                   *)
(***************************************************************************)
EXTENDS Delay, TLAPS

\* The copy that pass j works on does not want a request for b.
Handled(j, b) == b \in pass[j].known \/ b \notin InChain(pass[j].delay)

OnRecord(b) == b \in record.known /\ \A j \in Passes : Holds(j) => Handled(j, b)
BeingStamped(b) == \E k \in Passes : pass[k].at = "stamp" /\ First(b, pass[k].todo)

\* The request of a reservation that is not in doubt is known to the record and
\* to every copy of it, or to the one pass that is about to stamp it.
FileInv ==
    /\ TypeOK
    /\ \A k \in Passes : pass[k].at \in {"file", "stamp"} =>
          pass[k].todo \subseteq InChain(pass[k].delay) \ pass[k].known
    /\ \A b \in Bookings \ doubt :
          filed[b] = 0 \/ (filed[b] = 1 /\ (OnRecord(b) \/ BeingStamped(b)))

----------------------------------------------------------------------------
(* Types                                                                    *)

LEMMA NoDelay == [b \in Bookings |-> 0] \in Estimates
<1>1. Cascade({}, 0) = [b \in Bookings |-> 0]
  BY DEF Cascade
<1>2. 0 \in 0..MaxClock
  BY QueueAssumption
<1> QED
  BY <1>1, <1>2 DEF Estimates

LEMMA IdleType == Idle \in PassType /\ Idle.at = "idle"
  BY NoDelay DEF Idle, PassType, Statuses

LEMMA InitTypes == Init => TypeOK
  BY NoDelay, IdleType, QueueAssumption DEF Init, TypeOK, RecordType, Statuses, Idle

\* The fields of a pass that one action or another sets.
LEMMA Begun ==
  ASSUME NEW r \in PassType, NEW final \in BOOLEAN, NEW delay \in Estimates
  PROVE  [r EXCEPT !.at = "load", !.final = final, !.delay = delay] \in PassType
  BY DEF PassType

LEMMA Loaded ==
  ASSUME NEW r \in PassType, NEW status \in Statuses, NEW dirty \in BOOLEAN,
         NEW known \in SUBSET Bookings
  PROVE  [r EXCEPT !.at = "save", !.status = status, !.dirty = dirty, !.known = known] \in PassType
  BY DEF PassType

LEMMA Saved ==
  ASSUME NEW r \in PassType, NEW status \in Statuses, NEW todo \in SUBSET Bookings
  PROVE  [r EXCEPT !.at = "file", !.dirty = FALSE, !.status = status, !.todo = todo] \in PassType
  BY DEF PassType

LEMMA Stamped ==
  ASSUME NEW r \in PassType, NEW todo \in SUBSET Bookings, NEW known \in SUBSET Bookings
  PROVE  [r EXCEPT !.at = "file", !.todo = todo, !.known = known] \in PassType
  BY DEF PassType

LEMMA BeginTypes == ASSUME TypeOK, NEW k \in Passes, Begin(k) PROVE TypeOK'
<1> DEFINE until == IF incident.open THEN clock ELSE incident.resolvedAt
<1>1. until \in 0..MaxClock /\ live \in SUBSET Bookings
  BY DEF TypeOK
<1>2. Cascade(live, until) \in Estimates
  BY <1>1 DEF Estimates
<1>3. (~incident.open) \in BOOLEAN
  OBVIOUS
<1>4. [Idle EXCEPT !.at = "load", !.final = ~incident.open, !.delay = Cascade(live, until)] \in PassType
  BY <1>2, <1>3, IdleType, Begun, Zenon
<1> QED
  BY <1>4 DEF Begin, TypeOK

LEMMA LoadTypes == ASSUME TypeOK, NEW k \in Passes, Load(k) PROVE TypeOK'
<1>1. pass[k] \in PassType /\ pass[k].delay \in Estimates /\ record.status \in Statuses
      /\ record.known \in SUBSET Bookings
  BY DEF TypeOK, PassType, RecordType
<1>2. record.known \cap InChain(pass[k].delay) \in SUBSET Bookings
      /\ (pass[k].delay # record.delay) \in BOOLEAN
  BY <1>1
<1>3. [pass[k] EXCEPT !.at = "save", !.status = record.status,
                      !.dirty = pass[k].delay # record.delay,
                      !.known = record.known \cap InChain(pass[k].delay)] \in PassType
  BY <1>1, <1>2, Loaded, Zenon
<1> QED
  BY <1>3, IdleType DEF Load, TypeOK

LEMMA FilingType == ASSUME TypeOK, NEW k \in Passes PROVE Filing(k) \in PassType
<1>1. pass[k] \in PassType /\ pass[k].status \in Statuses /\ pass[k].known \subseteq Bookings
  BY DEF TypeOK, PassType
<1>2. Warrants(pass[k].delay) \ pass[k].known \in SUBSET Bookings
  BY DEF Warrants, InChain
<1>3. (IF pass[k].status = "none" THEN "OPEN" ELSE pass[k].status) \in Statuses
  BY <1>1 DEF Statuses
<1> QED
  BY <1>1, <1>2, <1>3, Saved, Zenon DEF Filing

LEMMA SaveChainTypes == ASSUME TypeOK, NEW k \in Passes, SaveChain(k) PROVE TypeOK'
<1>1. /\ \A j \in Passes : pass[j] \in PassType /\ [pass[j] EXCEPT !.behind = TRUE] \in PassType
      /\ pass[k].delay \in Estimates /\ pass[k].known \in SUBSET Bookings
      /\ record.status \in Statuses /\ record.known \in SUBSET Bookings
  <2>1. \A j \in Passes : pass[j] \in PassType
    BY DEF TypeOK
  <2>2. \A r \in PassType : [r EXCEPT !.behind = TRUE] \in PassType
    BY DEF PassType
  <2> QED
    BY <2>1, <2>2 DEF TypeOK, PassType, RecordType
<1>2. [status |-> IF pass[k].status = "none" THEN "OPEN" ELSE record.status,
       delay |-> pass[k].delay, known |-> pass[k].known] \in RecordType
  BY <1>1 DEF RecordType, Statuses
<1>3. Filing(k) \in PassType
  BY FilingType
<1>4. record' \in RecordType /\ doubt' \subseteq Bookings
  BY <1>1, <1>2 DEF SaveChain, TypeOK
<1>5. pass' \in [Passes -> PassType]
  BY <1>1, <1>3, IdleType DEF SaveChain, TypeOK
<1> QED
  BY <1>4, <1>5 DEF SaveChain, TypeOK

LEMMA FileTypes == ASSUME TypeOK, NEW k \in Passes, NEW b \in Bookings, File(k, b) PROVE TypeOK'
<1>1. [pass[k] EXCEPT !.at = "stamp"] \in PassType
  BY DEF TypeOK, PassType
<1>2. pass' \in [Passes -> PassType] /\ filed' \in [Bookings -> 0..2] /\ doubt' \subseteq Bookings
  BY <1>1 DEF File, TypeOK
<1> QED
  BY <1>2 DEF File, TypeOK

LEMMA FileFailsTypes ==
  ASSUME TypeOK, NEW k \in Passes, NEW b \in Bookings, FileFails(k, b)
  PROVE  TypeOK'
<1>1. [pass[k] EXCEPT !.todo = @ \ {b}] \in PassType
  BY DEF TypeOK, PassType
<1> QED
  BY <1>1 DEF FileFails, TypeOK

LEMMA StampTypes == ASSUME TypeOK, NEW k \in Passes, NEW b \in Bookings, Stamp(k, b) PROVE TypeOK'
<1>1. pass[k] \in PassType /\ pass[k].todo \ {b} \in SUBSET Bookings
      /\ pass[k].known \cup {b} \in SUBSET Bookings
  BY DEF TypeOK, PassType
<1>2. [pass[k] EXCEPT !.at = "file", !.todo = pass[k].todo \ {b},
                      !.known = pass[k].known \cup {b}] \in PassType
  BY <1>1, Stamped, Zenon
<1>3. [record EXCEPT !.known = @ \cup {b}] \in RecordType
  BY DEF TypeOK, RecordType
<1>4. CASE pass[k].behind
  BY <1>4, IdleType DEF Stamp, TypeOK
<1>5. CASE ~pass[k].behind
  <2>1. pass' \in [Passes -> PassType]
    BY <1>2, <1>5 DEF Stamp, TypeOK
  <2> QED
    BY <1>3, <1>5, <2>1 DEF Stamp, TypeOK
<1> QED
  BY <1>4, <1>5

LEMMA FinishTypes == ASSUME TypeOK, NEW k \in Passes, Finish(k) PROVE TypeOK'
<1>1. \A s \in Statuses : [record EXCEPT !.status = s] \in RecordType
  BY DEF TypeOK, RecordType
<1>2. record' \in RecordType
  BY <1>1 DEF Finish, TypeOK, Statuses
<1> QED
  BY <1>2, IdleType DEF Finish, TypeOK

LEMMA CrashTypes == ASSUME TypeOK, NEW k \in Passes, Crash(k) PROVE TypeOK'
  BY IdleType DEF Crash, TypeOK

LEMMA OthersTypes == ASSUME TypeOK, Others PROVE TypeOK'
<1>1. CASE Tick
  BY <1>1, QueueAssumption DEF Tick, TypeOK
<1>2. CASE Resolve
  BY <1>2 DEF Resolve, TypeOK
<1>3. CASE Reopen
  BY <1>3 DEF Reopen, TypeOK
<1>4. CASE \E b \in Bookings : Leave(b)
  BY <1>4 DEF Leave, TypeOK
<1> QED
  BY <1>1, <1>2, <1>3, <1>4 DEF Others
----------------------------------------------------------------------------
(* Requests                                                                 *)

LEMMA InitFile == Init => FileInv
<1> SUFFICES ASSUME Init PROVE FileInv
  OBVIOUS
<1>1. \A k \in Passes : pass[k].at = "idle"
  BY IdleType DEF Init
<1>2. \A b \in Bookings : filed[b] = 0
  BY DEF Init
<1> QED
  BY <1>1, <1>2, InitTypes DEF FileInv

\* A step of pass k that files nothing: whatever was on record stays there for
\* everybody, and what k was about to stamp is on record now or in doubt.
LEMMA PassMoves ==
  ASSUME FileInv, TypeOK', NEW k \in Passes, filed' = filed, doubt \subseteq doubt',
         \A j \in Passes \ {k} : /\ pass'[j].at = pass[j].at /\ pass'[j].delay = pass[j].delay
                                /\ pass'[j].known = pass[j].known /\ pass'[j].todo = pass[j].todo,
         pass'[k].at \in {"file", "stamp"} =>
            pass'[k].todo \subseteq InChain(pass'[k].delay) \ pass'[k].known,
         \A b \in Bookings \ doubt' : OnRecord(b) => b \in record'.known,
         \A b \in Bookings \ doubt' : OnRecord(b) /\ Holds(k)' => Handled(k, b)',
         \A b \in Bookings \ doubt' : pass[k].at = "stamp" /\ First(b, pass[k].todo) => OnRecord(b)'
  PROVE  FileInv'
<1>1. \A j \in Passes \ {k} : /\ Holds(j)' <=> Holds(j)
                             /\ \A b : Handled(j, b)' <=> Handled(j, b)
  BY DEF Holds, Handled, InChain
<1>2. \A b \in Bookings \ doubt' : OnRecord(b) => OnRecord(b)'
  BY <1>1 DEF OnRecord
<1>3. \A b \in Bookings \ doubt' : BeingStamped(b) => OnRecord(b)' \/ BeingStamped(b)'
  BY DEF BeingStamped, First
<1>4. \A b \in Bookings \ doubt' :
         filed'[b] = 0 \/ (filed'[b] = 1 /\ (OnRecord(b)' \/ BeingStamped(b)'))
  BY <1>2, <1>3 DEF FileInv
<1>5. \A j \in Passes : pass'[j].at \in {"file", "stamp"} =>
         pass'[j].todo \subseteq InChain(pass'[j].delay) \ pass'[j].known
  BY DEF FileInv
<1> QED
  BY <1>4, <1>5 DEF FileInv, InChain

\* A pass begins, is refused or ends, and holds no copy.
LEMMA PassLetsGo ==
  ASSUME FileInv, TypeOK', NEW k \in Passes, filed' = filed, doubt \subseteq doubt',
         pass' = [pass EXCEPT ![k] = pass'[k]], ~Holds(k)', record'.known = record.known,
         pass[k].at = "stamp" => \A b \in Bookings : First(b, pass[k].todo) => b \in doubt'
  PROVE  FileInv'
<1>1. \A j \in Passes \ {k} : pass'[j] = pass[j]
  BY DEF FileInv, TypeOK
<1>2. pass'[k].at \notin {"file", "stamp"}
  BY DEF Holds
<1> QED
  BY <1>1, <1>2, PassMoves DEF OnRecord

LEMMA BeginKeeps == ASSUME FileInv, NEW k \in Passes, Begin(k) PROVE FileInv'
<1>1. TypeOK'
  BY BeginTypes DEF FileInv
<1>2. pass'[k].at = "load" /\ pass' = [pass EXCEPT ![k] = pass'[k]] /\ pass[k].at = "idle"
  BY IdleType DEF Begin, FileInv, TypeOK, PassType
<1> QED
  BY <1>1, <1>2, PassLetsGo DEF Begin, Holds

LEMMA CrashKeeps == ASSUME FileInv, NEW k \in Passes, Crash(k) PROVE FileInv'
<1>1. TypeOK'
  BY CrashTypes DEF FileInv
<1>2. pass'[k].at = "idle" /\ pass' = [pass EXCEPT ![k] = pass'[k]]
  BY IdleType DEF Crash, FileInv, TypeOK
<1> QED
  BY <1>1, <1>2, PassLetsGo DEF Crash, Holds

LEMMA FinishKeeps == ASSUME FileInv, NEW k \in Passes, Finish(k) PROVE FileInv'
<1>1. TypeOK'
  BY FinishTypes DEF FileInv
<1>2. pass'[k].at = "idle" /\ pass' = [pass EXCEPT ![k] = pass'[k]] /\ pass[k].at = "file"
  BY IdleType DEF Finish, FileInv, TypeOK
<1>3. record'.known = record.known
  BY DEF Finish, FileInv, TypeOK, RecordType
<1> QED
  BY <1>1, <1>2, <1>3, PassLetsGo DEF Finish, Holds

LEMMA LoadKeeps == ASSUME FileInv, NEW k \in Passes, Load(k) PROVE FileInv'
<1>1. TypeOK'
  BY LoadTypes DEF FileInv
<1>2. pass' = [pass EXCEPT ![k] = pass'[k]] /\ pass[k].at = "load"
  BY DEF Load, FileInv, TypeOK
<1>3. CASE pass'[k] = Idle
  BY <1>1, <1>2, <1>3, IdleType, PassLetsGo DEF Load, Holds
<1>4. CASE pass'[k] # Idle
  <2>1. pass'[k].at = "save" /\ pass'[k].delay = pass[k].delay
        /\ pass'[k].known = record.known \cap InChain(pass[k].delay)
    BY <1>4 DEF Load, FileInv, TypeOK, PassType
  <2>2. \A b \in Bookings : OnRecord(b) => Handled(k, b)'
    BY <2>1 DEF OnRecord, Handled, InChain
  <2>3. \A j \in Passes \ {k} : pass'[j] = pass[j]
    BY <1>2 DEF FileInv, TypeOK
  <2> QED
    BY <1>1, <1>2, <2>1, <2>2, <2>3, PassMoves DEF Load, OnRecord
<1> QED
  BY <1>3, <1>4

LEMMA FilingIs ==
  ASSUME TypeOK, NEW k \in Passes
  PROVE  /\ Filing(k).at = "file" /\ Filing(k).delay = pass[k].delay
         /\ Filing(k).known = pass[k].known
         /\ Filing(k).todo \subseteq InChain(pass[k].delay) \ pass[k].known
  BY DEF Filing, TypeOK, PassType, Warrants

LEMMA SaveChainKeeps == ASSUME FileInv, NEW k \in Passes, SaveChain(k) PROVE FileInv'
<1>1. TypeOK' /\ TypeOK
  BY SaveChainTypes DEF FileInv
<1>2. pass[k].at = "save" /\ Holds(k) /\ filed' = filed /\ doubt \subseteq doubt'
  BY DEF SaveChain, Holds
<1>3. CASE pass' = [pass EXCEPT ![k] = Idle] /\ UNCHANGED record
  <2>1. pass'[k] = Idle
    BY <1>1, <1>3 DEF TypeOK
  <2> QED
    BY <1>1, <1>2, <1>3, <2>1, IdleType, PassLetsGo DEF Holds
<1>4. CASE pass' = [pass EXCEPT ![k] = Filing(k)] /\ UNCHANGED record
  <2>1. pass'[k] = Filing(k) /\ \A j \in Passes \ {k} : pass'[j] = pass[j]
    BY <1>1, <1>4 DEF TypeOK
  <2>2. \A b : OnRecord(b) => Handled(k, b)'
    BY <1>2, <2>1, FilingIs, <1>1 DEF OnRecord, Handled, InChain
  <2> QED
    BY <1>1, <1>2, <1>4, <2>1, <2>2, FilingIs, PassMoves DEF OnRecord
<1>5. CASE /\ record'.known = pass[k].known
           /\ pass' = [j \in Passes |-> IF j = k THEN Filing(k)
                                        ELSE IF Holds(j) THEN [pass[j] EXCEPT !.behind = TRUE]
                                        ELSE pass[j]]
           /\ doubt' = doubt \cup (record.known \ InChain(pass[k].delay))
  <2>1. pass'[k] = Filing(k)
    BY <1>5
  <2>2. \A j \in Passes \ {k} : /\ pass'[j].at = pass[j].at /\ pass'[j].delay = pass[j].delay
                               /\ pass'[j].known = pass[j].known /\ pass'[j].todo = pass[j].todo
    BY <1>1, <1>5 DEF TypeOK, PassType
  <2>3. \A b \in Bookings \ doubt' : OnRecord(b) => b \in pass[k].known
    BY <1>2, <1>5 DEF OnRecord, Handled
  <2>4. \A b \in Bookings \ doubt' : OnRecord(b) => Handled(k, b)'
    BY <1>1, <2>1, <2>3, FilingIs DEF Handled
  <2> QED
    BY <1>1, <1>2, <1>5, <2>1, <2>2, <2>3, <2>4, FilingIs, PassMoves
<1> QED
  <2>1. CASE ~(pass[k].dirty \/ pass[k].status = "none")
    BY <1>3, <1>4, <2>1 DEF SaveChain
  <2>2. CASE pass[k].dirty \/ pass[k].status = "none"
    BY <1>3, <1>5, <2>2 DEF SaveChain
  <2> QED
    BY <2>1, <2>2

LEMMA FileFailsKeeps ==
  ASSUME FileInv, NEW k \in Passes, NEW b \in Bookings, FileFails(k, b)
  PROVE  FileInv'
<1>1. TypeOK' /\ TypeOK
  BY FileFailsTypes DEF FileInv
<1>2. /\ pass[k].at = "file" /\ Holds(k) /\ pass'[k].at = "file"
      /\ pass'[k].delay = pass[k].delay /\ pass'[k].known = pass[k].known
      /\ pass'[k].todo = pass[k].todo \ {b}
      /\ \A j \in Passes \ {k} : pass'[j] = pass[j]
  BY <1>1 DEF FileFails, Holds, TypeOK, PassType
<1>3. \A c : OnRecord(c) => Handled(k, c)'
  BY <1>2 DEF OnRecord, Handled, InChain
<1>4. pass'[k].todo \subseteq InChain(pass'[k].delay) \ pass'[k].known
  BY <1>2 DEF FileInv
<1> QED
  BY <1>1, <1>2, <1>3, <1>4, PassMoves DEF FileFails, OnRecord

LEMMA StampKeeps ==
  ASSUME FileInv, NEW k \in Passes, NEW b \in Bookings, Stamp(k, b)
  PROVE  FileInv'
<1>1. TypeOK' /\ TypeOK /\ pass[k].at = "stamp" /\ Holds(k) /\ First(b, pass[k].todo)
      /\ filed' = filed /\ doubt \subseteq doubt'
  BY StampTypes DEF FileInv, Stamp, Holds
<1>2. \A c : First(c, pass[k].todo) => c = b
  BY <1>1 DEF First
<1>3. CASE pass[k].behind
  <2>1. pass' = [pass EXCEPT ![k] = Idle] /\ pass'[k] = Idle /\ b \in doubt' /\ UNCHANGED record
    BY <1>1, <1>3 DEF Stamp, TypeOK
  <2> QED
    BY <1>1, <1>2, <2>1, IdleType, PassLetsGo DEF Holds
<1>4. CASE ~pass[k].behind
  <2>1. /\ pass'[k].at = "file" /\ pass'[k].delay = pass[k].delay
        /\ pass'[k].known = pass[k].known \cup {b} /\ pass'[k].todo = pass[k].todo \ {b}
        /\ \A j \in Passes \ {k} : pass'[j] = pass[j]
    BY <1>1, <1>4 DEF Stamp, TypeOK, PassType
  <2>2. record'.known = record.known \cup {b}
    BY <1>1, <1>4 DEF Stamp, TypeOK, RecordType
  <2>3. \A c : OnRecord(c) => Handled(k, c)'
    BY <1>1, <2>1 DEF OnRecord, Handled, InChain
  <2>4. pass'[k].todo \subseteq InChain(pass'[k].delay) \ pass'[k].known
    BY <1>1, <2>1 DEF FileInv
  <2>5. b \notin doubt' => OnRecord(b)'
    <3> SUFFICES ASSUME b \notin doubt' PROVE OnRecord(b)'
      OBVIOUS
    <3>1. ~Unaware(k, b)
      BY <1>4 DEF Stamp
    <3>2. \A j \in Passes \ {k} : Holds(j)' => Handled(j, b)'
      BY <2>1, <3>1 DEF Unaware, Holds, Handled, InChain
    <3>3. Handled(k, b)'
      BY <2>1 DEF Handled
    <3> QED
      BY <2>2, <3>2, <3>3 DEF OnRecord
  <2> QED
    BY <1>1, <1>2, <2>1, <2>2, <2>3, <2>4, <2>5, PassMoves DEF OnRecord
<1> QED
  BY <1>3, <1>4

\* A second request for b is filed under a copy that does not know of the first:
\* somebody else's, or the one that the first is about to be stamped in.
LEMMA FileKeeps ==
  ASSUME FileInv, NEW k \in Passes, NEW b \in Bookings, File(k, b)
  PROVE  FileInv'
<1>1. TypeOK' /\ TypeOK /\ pass[k].at = "file" /\ Holds(k) /\ First(b, pass[k].todo)
      /\ doubt \subseteq doubt' /\ UNCHANGED record
  BY FileTypes DEF FileInv, File, Holds
<1>2. /\ pass'[k].at = "stamp" /\ pass'[k].delay = pass[k].delay
      /\ pass'[k].known = pass[k].known /\ pass'[k].todo = pass[k].todo
      /\ \A j \in Passes \ {k} : pass'[j] = pass[j]
  BY <1>1 DEF File, TypeOK, PassType
<1>3. b \in InChain(pass[k].delay) \ pass[k].known
  BY <1>1 DEF FileInv, First
<1>4. \A j \in Passes : /\ Holds(j)' <=> Holds(j)
                       /\ \A c : Handled(j, c)' <=> Handled(j, c)
  BY <1>1, <1>2 DEF Holds, Handled, InChain
<1>5. \A c : OnRecord(c)' <=> OnRecord(c)
  BY <1>1, <1>4 DEF OnRecord
<1>6. \A c : BeingStamped(c) => BeingStamped(c)'
  BY <1>1, <1>2 DEF BeingStamped, First
<1>7. ASSUME NEW c \in Bookings \ doubt', c # b
      PROVE  filed'[c] = 0 \/ (filed'[c] = 1 /\ (OnRecord(c)' \/ BeingStamped(c)'))
  <2>1. filed'[c] = filed[c]
    BY <1>1, <1>7 DEF File, TypeOK
  <2> QED
    BY <1>1, <1>5, <1>6, <1>7, <2>1 DEF FileInv
<1>8. ASSUME b \notin doubt'
      PROVE  filed'[b] = 1 /\ BeingStamped(b)'
  <2>1. ~Unaware(k, b)
    BY <1>8 DEF File
  <2>2. ~OnRecord(b)
    BY <1>1, <1>3 DEF OnRecord, Handled
  <2>3. ~BeingStamped(b)
    <3> SUFFICES ASSUME NEW j \in Passes, pass[j].at = "stamp", First(b, pass[j].todo) PROVE FALSE
      BY DEF BeingStamped
    <3>1. b \in InChain(pass[j].delay) \ pass[j].known /\ Holds(j) /\ j # k
      BY <1>1 DEF FileInv, First, Holds
    <3> QED
      BY <2>1, <3>1 DEF Unaware
  <2>4. filed[b] = 0
    BY <1>1, <1>8, <2>2, <2>3 DEF FileInv
  <2>5. filed'[b] = 1
    BY <1>1, <2>4 DEF File, TypeOK
  <2>6. BeingStamped(b)'
    BY <1>1, <1>2 DEF BeingStamped, First
  <2> QED
    BY <2>5, <2>6
<1>9. \A j \in Passes : pass'[j].at \in {"file", "stamp"} =>
         pass'[j].todo \subseteq InChain(pass'[j].delay) \ pass'[j].known
  BY <1>1, <1>2 DEF FileInv
<1> QED
  BY <1>1, <1>7, <1>8, <1>9 DEF FileInv, InChain

LEMMA OthersKeep == ASSUME FileInv, Others PROVE FileInv'
<1>1. TypeOK'
  BY OthersTypes DEF FileInv
<1>2. UNCHANGED <<record, filed, pass, doubt>>
  BY DEF Others, Tick, Resolve, Reopen, Leave
<1> QED
  BY <1>1, <1>2 DEF FileInv, OnRecord, BeingStamped, Handled, Holds, InChain, First

LEMMA StepFile == FileInv /\ [Next]_vars => FileInv'
<1> SUFFICES ASSUME FileInv, [Next]_vars PROVE FileInv'
  OBVIOUS
<1>1. ASSUME NEW k \in Passes, Step(k) PROVE FileInv'
  BY <1>1, BeginKeeps, LoadKeeps, SaveChainKeeps, FinishKeeps, CrashKeeps, FileKeeps,
     FileFailsKeeps, StampKeeps DEF Step
<1>2. CASE UNCHANGED vars
  BY <1>2 DEF vars, FileInv, TypeOK, OnRecord, BeingStamped, Handled, Holds, InChain, First
<1> QED
  BY <1>1, <1>2, OthersKeep DEF Next

\* The record, the copies that passes work on and what they have read of the
\* incident stay well formed; every estimate is one that buildChain computes.
THEOREM TypeCorrect == Spec => []TypeOK
<1>1. FileInv => TypeOK
  BY DEF FileInv
<1> QED
  BY InitFile, StepFile, <1>1, PTL DEF Spec

\* For any queue and any number of passes, a reservation that is not in doubt
\* never gets a second recovery request.
THEOREM NeverFiledTwice == Spec => []FiledOnce
<1>1. FileInv => FiledOnce
  BY DEF FileInv, FiledOnce, TypeOK
<1> QED
  BY InitFile, StepFile, <1>1, PTL DEF Spec
=============================================================================
