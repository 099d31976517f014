------------------------------- MODULE Delay -------------------------------
(***************************************************************************)
(* The delay propagation engine (delayPropagation.service.ts): one         *)
(* incident, the reservations queued at its chargers, and the one record   *)
(* of how late each of them will be.  The periodic sweep and the desk's    *)
(* "recalculate now" run the same pass: read the incident, compute the     *)
(* cascade, load the record, overwrite its chain, and file a recovery      *)
(* request for every entry that has none and is late enough.               *)
(*                                                                         *)
(* Every step is one database call.  The record's version (mongoose's __v) *)
(* moves when its chain is overwritten by another one, and an entry is     *)
(* stamped only at the version it was loaded at; that a loaded copy is     *)
(* behind is all the model keeps of it.                                    *)
(***************************************************************************)
EXTENDS Integers, FiniteSets

CONSTANTS
    Bookings,  \* reservations at the chargers the incident names
    Charger,   \* the charger of each
    Start, End,\* the time of each, from the report of the incident on
    Sweepers,  \* processes that run the periodic job
    Staff,     \* requests of the desk
    Moderate,  \* DELAY_MODERATE_THRESHOLD_MINUTES
    MaxDepth,  \* MAX_CASCADE_DEPTH
    MaxClock   \* Bound

Passes == Sweepers \cup Staff

\* Occupancy's lease: two reservations of a charger never overlap.
ASSUME QueueAssumption ==
    /\ Start \in [Bookings -> Int] /\ End \in [Bookings -> Int]
    /\ \A b \in Bookings : Start[b] < End[b]
    /\ \A a, b \in Bookings :
         a # b /\ Charger[a] = Charger[b] => End[a] <= Start[b] \/ End[b] <= Start[a]
    /\ Moderate \in Nat \ {0} /\ MaxDepth \in Nat /\ MaxClock \in Nat

VARIABLES
    clock,
    incident, \* whether it is open, and when it was last resolved
    live,     \* reservations in CANDIDATE_LIFECYCLES
    record,   \* status, the delay of each Booking (0: not in the chain), and those
              \* whose entry carries a recoveryRequestId
    filed,    \* recovery requests filed for each Booking: none, one or (2) more; those
              \* in doubt are not counted any further
    pass,     \* each pass: its step, what it read and the copy it works on
    doubt     \* Bookings whose entry lost, or never got, the request filed for it

vars == <<clock, incident, live, record, filed, pass, doubt>>

Statuses == {"none", "OPEN", "RECOVERING", "RESOLVED"}
Idle == [at |-> "idle", final |-> FALSE, dirty |-> FALSE, behind |-> FALSE,
         status |-> "none", delay |-> [b \in Bookings |-> 0], known |-> {}, todo |-> {}]

\* A pass that has loaded the record, or is about to insert it.
Holds(k) == pass[k].at \in {"save", "file", "stamp"}

Init ==
    /\ clock = 0
    /\ incident = [open |-> TRUE, resolvedAt |-> 0]
    /\ live \in SUBSET Bookings
    /\ record = [status |-> "none", delay |-> Idle.delay, known |-> {}]
    /\ filed = [b \in Bookings |-> 0]
    /\ pass = [k \in Passes |-> Idle]
    /\ doubt = {}

----------------------------------------------------------------------------
(* Everybody else                                                           *)

Tick ==
    /\ clock < MaxClock
    /\ clock' = clock + 1
    /\ UNCHANGED <<incident, live, record, filed, pass, doubt>>

\* transitionIncident; reopening leaves resolvedAt as it is.
Resolve ==
    /\ incident.open
    /\ incident' = [open |-> FALSE, resolvedAt |-> clock]
    /\ UNCHANGED <<clock, live, record, filed, pass, doubt>>

Reopen ==
    /\ ~incident.open
    /\ incident' = [incident EXCEPT !.open = TRUE]
    /\ UNCHANGED <<clock, live, record, filed, pass, doubt>>

\* A reservation ends, is cancelled or becomes a no-show.
Leave(b) ==
    /\ b \in live
    /\ live' = live \ {b}
    /\ UNCHANGED <<clock, incident, record, filed, pass, doubt>>

----------------------------------------------------------------------------
(* The cascade                                                              *)

\* classifyDelay and warrantsRecovery
InChain(delay) == {b \in Bookings : delay[b] > 0}
Warrants(delay) == {b \in InChain(delay) : delay[b] >= Moderate}

Above0(n) == IF n > 0 THEN n ELSE 0

\* buildChain: at each charger the earliest reservation is late by the time since
\* its start, and every next one, MaxDepth of them at most, by what the estimated
\* end of the one before it takes of its time; the walk ends where nothing does.
Cascade(queue, until) ==
    LET Before(b) == {a \in queue : Charger[a] = Charger[b] /\ Start[a] < Start[b]}
        Upstream(b) == CHOOSE a \in Before(b) : \A c \in Before(b) : Start[c] <= Start[a]
        late[b \in Bookings] ==
            IF Before(b) = {} THEN Above0(until - Start[b])
            ELSE LET a == Upstream(b) IN
                 IF late[a] = 0 \/ Cardinality(Before(b)) > MaxDepth THEN 0
                 ELSE Above0(End[a] + late[a] - Start[b])
    IN  [b \in Bookings |-> IF b \in queue THEN late[b] ELSE 0]

Estimates == {Cascade(queue, until) : queue \in SUBSET Bookings, until \in 0..MaxClock}

RecordType == [status : Statuses, delay : Estimates, known : SUBSET Bookings]
PassType == [at : {"idle", "load", "save", "file", "stamp"}, final : BOOLEAN, dirty : BOOLEAN,
             behind : BOOLEAN, status : Statuses, delay : Estimates,
             known : SUBSET Bookings, todo : SUBSET Bookings]

TypeOK ==
    /\ clock \in 0..MaxClock
    /\ incident \in [open : BOOLEAN, resolvedAt : 0..MaxClock]
    /\ live \subseteq Bookings
    /\ record \in RecordType
    /\ filed \in [Bookings -> 0..2]
    /\ pass \in [Passes -> PassType]
    /\ doubt \subseteq Bookings

----------------------------------------------------------------------------
(* One pass                                                                 *)

\* Mutant of Begin: the sweep visits the open incidents only.
BeginOpen(k) ==
    /\ pass[k].at = "idle"
    /\ k \in Staff \/ incident.open
    /\ pass' = [pass EXCEPT ![k] = [Idle EXCEPT !.at = "load", !.final = ~incident.open,
                   !.delay = Cascade(live, IF incident.open THEN clock ELSE incident.resolvedAt)]]
    /\ UNCHANGED <<clock, incident, live, record, filed, doubt>>

\* The job visits the open incidents and those whose record is unfinished, the
\* desk any.  The incident is read once, and delay is measured up to now while it
\* is open and up to its resolution afterwards.  The reservations are read next,
\* which is the same step here: what matters is how old all this is later.
Begin(k) ==
    /\ pass[k].at = "idle"
    /\ k \in Staff \/ incident.open \/ record.status \in {"OPEN", "RECOVERING"}
    /\ pass' = [pass EXCEPT ![k] = [Idle EXCEPT !.at = "load", !.final = ~incident.open,
                   !.delay = Cascade(live, IF incident.open THEN clock ELSE incident.resolvedAt)]]
    /\ UNCHANGED <<clock, incident, live, record, filed, doubt>>

\* Mutant of Load: the chain is rebuilt without what its entries carried.
LoadAnew(k) ==
    /\ pass[k].at = "load"
    /\ pass' = [pass EXCEPT ![k] =
         IF record.status = "none" /\ InChain(@.delay) = {} THEN Idle
         ELSE [@ EXCEPT !.at = "save", !.status = record.status,
                        !.dirty = @ \/ pass[k].delay # record.delay]]
    /\ UNCHANGED <<clock, incident, live, record, filed, doubt>>

\* findOne: nobody is late and there is no record, or the new chain takes over
\* the requests of the entries that are still in it.
Load(k) ==
    LET delay == pass[k].delay IN
    /\ pass[k].at = "load"
    /\ pass' = [pass EXCEPT ![k] =
         IF record.status = "none" /\ InChain(delay) = {} THEN Idle
         ELSE [@ EXCEPT !.at = "save", !.status = record.status,
                        !.dirty = delay # record.delay,
                        !.known = record.known \cap InChain(delay)]]
    /\ UNCHANGED <<clock, incident, live, record, filed, doubt>>

\* The pass goes on to the entries that want a request and carry none.
Filing(k) == [pass[k] EXCEPT !.at = "file", !.dirty = FALSE,
                             !.status = IF @ = "none" THEN "OPEN" ELSE @,
                             !.todo = Warrants(pass[k].delay) \ pass[k].known]

\* save: the unique index refuses a second record, and the version an outdated
\* chain; both errors end the pass.  A chain equal to the loaded one is not
\* written.
SaveChain(k) ==
    LET mine == pass[k]
        refused == IF mine.status = "none" THEN record.status # "none"
                   ELSE mine.dirty /\ mine.behind
        writes == mine.dirty \/ mine.status = "none" IN
    /\ mine.at = "save"
    /\ IF refused THEN /\ pass' = [pass EXCEPT ![k] = Idle]
                       /\ UNCHANGED <<record, doubt>>
       ELSE IF ~writes THEN /\ pass' = [pass EXCEPT ![k] = Filing(k)]
                            /\ UNCHANGED <<record, doubt>>
       ELSE /\ record' = [status |-> IF mine.status = "none" THEN "OPEN" ELSE record.status,
                          delay |-> mine.delay, known |-> mine.known]
            /\ pass' = [j \in Passes |-> IF j = k THEN Filing(k)
                                         ELSE IF Holds(j) THEN [pass[j] EXCEPT !.behind = TRUE]
                                         ELSE pass[j]]
            /\ doubt' = doubt \cup (record.known \ InChain(mine.delay))
    /\ UNCHANGED <<clock, incident, live, filed>>

\* The entries are taken charger by charger in the order of the queue.
First(b, waiting) ==
    /\ b \in waiting
    /\ b = CHOOSE e \in waiting :
              \A a \in waiting : Charger[a] = Charger[e] => Start[e] <= Start[a]

\* A pass other than k works on a copy in which b has no request.
Unaware(k, b) ==
    \E j \in Passes \ {k} : Holds(j) /\ b \in InChain(pass[j].delay) \ pass[j].known

\* createRequest, in the flow a driver uses.
File(k, b) ==
    /\ pass[k].at = "file"
    /\ First(b, pass[k].todo)
    /\ doubt' = IF Unaware(k, b) THEN doubt \cup {b} ELSE doubt
    /\ filed' = [filed EXCEPT ![b] = IF @ = 0 \/ b \in doubt' THEN 1 ELSE 2]
    /\ pass' = [pass EXCEPT ![k].at = "stamp"]
    /\ UNCHANGED <<clock, incident, live, record>>

\* Mutant of FileFails: an entry whose request was refused counts as seen to.
FileForgets(k, b) ==
    /\ pass[k].at = "file"
    /\ First(b, pass[k].todo)
    /\ pass' = [pass EXCEPT ![k].todo = @ \ {b}, ![k].known = @ \cup {b}]
    /\ record' = [record EXCEPT !.known = @ \cup {b}]
    /\ UNCHANGED <<clock, incident, live, filed, doubt>>

\* An error of createRequest is logged, and the next entry is taken.
FileFails(k, b) ==
    /\ pass[k].at = "file"
    /\ First(b, pass[k].todo)
    /\ pass' = [pass EXCEPT ![k].todo = @ \ {b}]
    /\ UNCHANGED <<clock, incident, live, record, filed, doubt>>

\* The entry is stamped with its request at the version the chain was loaded at,
\* or the error ends the pass with a request that no entry knows.
Stamp(k, b) ==
    /\ pass[k].at = "stamp"
    /\ First(b, pass[k].todo)
    /\ IF pass[k].behind
       THEN /\ pass' = [pass EXCEPT ![k] = Idle]
            /\ doubt' = doubt \cup {b}
            /\ UNCHANGED record
       ELSE /\ record' = [record EXCEPT !.known = @ \cup {b}]
            /\ pass' = [pass EXCEPT ![k].at = "file", ![k].todo = @ \ {b},
                                    ![k].known = @ \cup {b}]
            /\ doubt' = IF Unaware(k, b) THEN doubt \cup {b} ELSE doubt
    /\ UNCHANGED <<clock, incident, live, filed>>

\* The status follows what the pass read of the incident, and is written where it
\* differs from the copy's, at any version.
Finish(k) ==
    LET mine == pass[k]
        next == IF mine.final THEN "RESOLVED"
                ELSE IF InChain(mine.delay) # {} /\ Warrants(mine.delay) \subseteq mine.known
                THEN "RECOVERING" ELSE "OPEN" IN
    /\ mine.at = "file"
    /\ mine.todo = {}
    /\ record' = IF next # mine.status THEN [record EXCEPT !.status = next] ELSE record
    /\ pass' = [pass EXCEPT ![k] = Idle]
    /\ UNCHANGED <<clock, incident, live, filed, doubt>>

\* A pass dies; what it filed and did not stamp is on no record.
Crash(k) ==
    /\ pass[k].at # "idle"
    /\ pass' = [pass EXCEPT ![k] = Idle]
    /\ doubt' = IF pass[k].at = "stamp" THEN doubt \cup {b \in Bookings : First(b, pass[k].todo)}
                ELSE doubt
    /\ UNCHANGED <<clock, incident, live, record, filed>>

----------------------------------------------------------------------------

Step(k) ==
    \/ Begin(k) \/ Load(k) \/ SaveChain(k) \/ Finish(k) \/ Crash(k)
    \/ \E b \in Bookings : File(k, b) \/ FileFails(k, b) \/ Stamp(k, b)

Others == Tick \/ Resolve \/ Reopen \/ \E b \in Bookings : Leave(b)

Next == Others \/ \E k \in Passes : Step(k)

Spec == Init /\ [][Next]_vars

\* The job is run again and again, it does not always die at the same call, and
\* the requests it files are not refused for ever.
Fairness ==
    \A k \in Sweepers :
        /\ WF_vars(Begin(k))
        /\ SF_vars(Load(k)) /\ SF_vars(SaveChain(k)) /\ SF_vars(Finish(k))
        /\ SF_vars(\E b \in Bookings : File(k, b))
        /\ SF_vars(\E b \in Bookings : Stamp(k, b))

FairSpec == Spec /\ Fairness

----------------------------------------------------------------------------
(* Properties                                                               *)

\* A recovery request is "never filed twice" (DelayPropagation.ts:32) for a
\* reservation, however passes interleave with resolutions and cancellations,
\* unless its entry dropped out of the chain and came back, a pass died between
\* the request and its stamp, or two passes worked on the chain at once.
FiledOnce == \A b \in Bookings \ doubt : filed[b] <= 1

\* Who is late enough to be helped now.
Due == IF incident.open THEN Warrants(Cascade(live, clock)) ELSE {}

\* Whoever the cascade makes late enough gets a recovery request, unless the
\* delay goes away: through refused requests, deaths of the job and chains that
\* the desk overwrites under it.
RecoveryComes == \A b \in Bookings : b \in Due ~> (filed[b] > 0 \/ b \notin Due)

\* "Once the incident resolves, one final pass fixes the numbers"
\* (DelayPropagation.ts:14-16): an incident that stays resolved ends with a record
\* that is RESOLVED and stays so, also when a pass that began before writes its
\* status last.
FinalInTheEnd ==
    <>[](~incident.open /\ record.status # "none") => <>[](record.status = "RESOLVED")
=============================================================================
