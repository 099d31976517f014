----------------------------- MODULE Incidents -----------------------------
(***************************************************************************)
(* Technical incidents and the status of the chargers they name            *)
(* (incident.service.ts, incidentPolicy.ts).  Reporting an incident takes  *)
(* its chargers out of service, resolving it puts back those that no other *)
(* open incident names, and an operator may set any charger by hand in     *)
(* between.  The incident and its chargers are written one by one.         *)
(***************************************************************************)
EXTENDS FiniteSets

CONSTANTS
    Incidents, \* incidents that may be reported
    Chargers,
    Calls,     \* requests of staff: each serves one at a time
    None

ASSUME FleetAssumption == None \notin Incidents /\ IsFiniteSet(Chargers)

VARIABLES
    incident, \* status, chargerIds and kind of each Incident
    charger,  \* the status of each Charger
    call,     \* each request: its step, its incident, the status it will save
    byHand,   \* chargers whose status is what an operator set last
    raced     \* chargers that two requests had in hand at once, or a dead one

vars == <<incident, charger, call, byHand, raced>>

Open == {"CREATED", "INVESTIGATING", "ACTIVE"}
IncidentStatuses == Open \cup {"none", "RESOLVED", "CLOSED"}
ChargerStatuses == {"available", "in_use", "maintenance", "offline"}

IncidentRecords == [status : IncidentStatuses, names : SUBSET Chargers,
                    out : {"maintenance", "offline"}]
CallRecords == [at : {"idle", "mark", "find", "restore", "save"},
                incident : Incidents \cup {None}, next : IncidentStatuses,
                todo : SUBSET Chargers]
Idle == [at |-> "idle", incident |-> None, next |-> "none", todo |-> {}]

TypeOK ==
    /\ incident \in [Incidents -> IncidentRecords]
    /\ charger \in [Chargers -> ChargerStatuses]
    /\ call \in [Calls -> CallRecords]
    /\ \A k \in Calls : call[k].at # "idle" => call[k].incident \in Incidents
    /\ byHand \subseteq Chargers
    /\ raced \subseteq Chargers

Init ==
    /\ incident = [i \in Incidents |-> [status |-> "none", names |-> {}, out |-> "offline"]]
    /\ charger = [c \in Chargers |-> "available"]
    /\ call = [k \in Calls |-> Idle]
    /\ byHand = {}
    /\ raced = {}

Busy == {k \in Calls : call[k].at # "idle"}
InHand == UNION {incident[call[k].incident].names : k \in Busy}

----------------------------------------------------------------------------

\* createIncident: the report is written first, with its chargers fixed; only
\* a power outage may name none of them and then names them all.
Create(k, i, names, out) ==
    /\ call[k].at = "idle"
    /\ incident[i].status = "none"
    /\ incident' = [incident EXCEPT ![i] = [status |-> "CREATED", names |-> names, out |-> out]]
    /\ call' = [call EXCEPT ![k] = [Idle EXCEPT !.at = "mark", !.incident = i, !.todo = names]]
    /\ raced' = raced \cup (names \cap InHand)
    /\ UNCHANGED <<charger, byHand>>

\* ALLOWED_INCIDENT_TRANSITIONS
Allowed(from) ==
    CASE from = "CREATED" -> {"INVESTIGATING", "ACTIVE", "RESOLVED"}
      [] from = "INVESTIGATING" -> {"ACTIVE", "RESOLVED"}
      [] from = "ACTIVE" -> {"RESOLVED"}
      [] from = "RESOLVED" -> {"CLOSED", "ACTIVE"}
      [] OTHER -> {}

\* transitionIncident loads the incident and tests the transition; the chargers
\* are seen to before the new status is saved.
Transition(k, i, next) ==
    LET names == incident[i].names IN
    /\ call[k].at = "idle"
    /\ next \in Allowed(incident[i].status)
    /\ call' = [call EXCEPT ![k] = [at |-> CASE next = "ACTIVE" -> "mark"
                                            [] next = "RESOLVED" -> "find"
                                            [] OTHER -> "save",
                                    incident |-> i, next |-> next,
                                    todo |-> IF next = "ACTIVE" THEN names ELSE {}]]
    /\ raced' = raced \cup (names \cap InHand)
    /\ UNCHANGED <<incident, charger, byHand>>

\* Having seen to charger c, the request goes on with the others; then it saves,
\* if it is a transition.
Passes(k, c) ==
    LET rest == call[k].todo \ {c} IN
    call' = [call EXCEPT ![k] = IF rest # {} THEN [@ EXCEPT !.todo = rest]
                                ELSE IF @.next = "none" THEN Idle
                                ELSE [@ EXCEPT !.at = "save", !.todo = {}]]

Sets(c, status) ==
    /\ charger' = [charger EXCEPT ![c] = status]
    /\ byHand' = byHand \ {c}

\* markChargersAffected overwrites nothing but "available".
Mark(k, c) ==
    /\ call[k].at = "mark"
    /\ c \in call[k].todo
    /\ IF charger[c] = "available" THEN Sets(c, incident[call[k].incident].out)
       ELSE UNCHANGED <<charger, byHand>>
    /\ Passes(k, c)
    /\ UNCHANGED <<incident, raced>>

\* Mutant of FindClear: what an incident named is free when it is resolved.
FindAll(k) ==
    /\ call[k].at = "find"
    /\ call' = [call EXCEPT ![k].at = "restore", ![k].todo = incident[call[k].incident].names]
    /\ UNCHANGED <<incident, charger, byHand, raced>>

\* restoreChargersIfClear: the chargers that no other open incident names.
FindClear(k) ==
    LET i == call[k].incident
        claimed == UNION {incident[j].names : j \in {j \in Incidents \ {i} :
                                                        incident[j].status \in Open}}
        clear == incident[i].names \ claimed IN
    /\ call[k].at = "find"
    /\ call' = [call EXCEPT ![k].at = IF clear = {} THEN "save" ELSE "restore",
                            ![k].todo = clear]
    /\ UNCHANGED <<incident, charger, byHand, raced>>

\* Whatever the charger's status is by now.
Restore(k, c) ==
    /\ call[k].at = "restore"
    /\ c \in call[k].todo
    /\ Sets(c, "available")
    /\ Passes(k, c)
    /\ UNCHANGED <<incident, raced>>

Save(k) ==
    /\ call[k].at = "save"
    /\ incident' = [incident EXCEPT ![call[k].incident].status = call[k].next]
    /\ call' = [call EXCEPT ![k] = Idle]
    /\ UNCHANGED <<charger, byHand, raced>>

Crash(k) ==
    /\ k \in Busy
    /\ call' = [call EXCEPT ![k] = Idle]
    /\ raced' = raced \cup incident[call[k].incident].names
    /\ UNCHANGED <<incident, charger, byHand>>

\* PATCH /api/chargers
ByHand(c, status) ==
    /\ charger' = [charger EXCEPT ![c] = status]
    /\ byHand' = byHand \cup {c}
    /\ UNCHANGED <<incident, call, raced>>

----------------------------------------------------------------------------

Step(k) ==
    \/ \E i \in Incidents :
         \/ \E names \in SUBSET Chargers \ {{}}, out \in {"maintenance", "offline"} :
              Create(k, i, names, out)
         \/ \E next \in IncidentStatuses : Transition(k, i, next)
    \/ \E c \in Chargers : Mark(k, c) \/ Restore(k, c)
    \/ FindClear(k)
    \/ Save(k)
    \/ Crash(k)

Next ==
    \/ \E k \in Calls : Step(k)
    \/ \E c \in Chargers, status \in ChargerStatuses : ByHand(c, status)

Spec == Init /\ [][Next]_vars

----------------------------------------------------------------------------
(* Properties                                                               *)

Claimed(c) == \E i \in Incidents : incident[i].status \in Open /\ c \in incident[i].names

\* "A charger named by two simultaneous incidents must stay unavailable until
\* both clear" (incident.service.ts:131-134), and no longer: a charger that no
\* request has in hand is out of service exactly while an open incident names
\* it, whatever happens to others at the same time, unless two requests had it
\* in hand at once, one of them died, or an operator set it since.
ChargersAgree ==
    \A c \in Chargers \ (InHand \cup raced \cup byHand) :
        charger[c] # "available" <=> Claimed(c)
=============================================================================
