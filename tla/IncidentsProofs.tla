--------------------------- MODULE IncidentsProofs ---------------------------
(***************************************************************************)
(* Theorems about Incidents for every set of incidents and chargers and    *)
(* any number of staff who work on them at once.                           *)
(***************************************************************************)
EXTENDS Incidents, TLAPS

NamesOf(k) == incident[call[k].incident].names

ClaimedBy(j, c) == incident[j].status \in Open /\ c \in incident[j].names
OtherClaims(i, c) == \E j \in Incidents \ {i} : ClaimedBy(j, c)

\* What a request for incident i is about to do.
WellFormed(k) ==
    /\ call[k].incident \in Incidents
    /\ incident[call[k].incident].status # "none"
    /\ call[k].todo \subseteq NamesOf(k)
    /\ call[k].at = "mark" => call[k].next \in {"none", "ACTIVE"}
    /\ call[k].at \in {"find", "restore"} => call[k].next = "RESOLVED"
    /\ call[k].at = "save" => call[k].next # "none"

\* How far a request has got with a charger that nobody else has in hand.
Standing(k, c) ==
    LET i == call[k].incident
        out == charger[c] # "available" IN
    /\ call[k].next = "none" => incident[i].status \in Open
    /\ call[k].at = "mark" => c \in call[k].todo \cup byHand \/ out
    /\ call[k].at = "find" => c \in byHand \/ (out <=> Claimed(c))
    /\ call[k].at = "restore" => IF c \in call[k].todo THEN ~OtherClaims(i, c)
                                 ELSE c \in byHand \/ (out <=> OtherClaims(i, c))
    /\ call[k].at = "save" => \/ c \in byHand
                              \/ IF call[k].next \in Open THEN out
                                 ELSE out <=> OtherClaims(i, c)

IncidentInv ==
    /\ TypeOK
    /\ ChargersAgree
    /\ \A k \in Busy : WellFormed(k) /\ \A c \in NamesOf(k) \ raced : Standing(k, c)
    /\ \A k, l \in Busy : k # l => NamesOf(k) \cap NamesOf(l) \subseteq raced

LEMMA IdleRecord == Idle \in CallRecords /\ Idle.at = "idle"
  BY DEF Idle, CallRecords, IncidentStatuses

LEMMA InitIncidents == Init => IncidentInv
<1> SUFFICES ASSUME Init PROVE IncidentInv
  OBVIOUS
<1>1. Busy = {}
  BY IdleRecord DEF Init, Busy
<1>2. TypeOK
  BY IdleRecord DEF Init, TypeOK, IncidentRecords, IncidentStatuses, ChargerStatuses
<1>3. ChargersAgree
  BY DEF Init, ChargersAgree, Claimed, Open
<1> QED
  BY <1>1, <1>2, <1>3 DEF IncidentInv

LEMMA ClaimedMeans ==
  ASSUME NEW c
  PROVE  Claimed(c) <=> \E j \in Incidents : ClaimedBy(j, c)
  BY DEF Claimed, ClaimedBy

\* A charger that the request does not name looks the same to everybody else.
LEMMA Frame ==
  ASSUME IncidentInv, NEW l \in Busy, NEW c \in NamesOf(l) \ raced,
         call'[l] = call[l], charger'[c] = charger[c], c \in byHand' <=> c \in byHand,
         incident'[call[l].incident] = incident[call[l].incident],
         \A j \in Incidents : ClaimedBy(j, c)' <=> ClaimedBy(j, c)
  PROVE  Standing(l, c)'
<1>1. Standing(l, c)
  BY DEF IncidentInv
<1>2. Claimed(c)' <=> Claimed(c)
  BY DEF Claimed, ClaimedBy
<1>3. \A i : OtherClaims(i, c)' <=> OtherClaims(i, c)
  BY DEF OtherClaims
<1> QED
  BY <1>1, <1>2, <1>3 DEF Standing

\* A request goes on: only its own chargers and its own incident may change.
LEMMA GoesOn ==
  ASSUME IncidentInv, TypeOK', NEW k \in Busy,
         raced \subseteq raced',
         \A l \in Calls \ {k} : call'[l] = call[l],
         \A c \in Chargers \ NamesOf(k) : charger'[c] = charger[c] /\ (c \in byHand' <=> c \in byHand),
         \A j \in Incidents \ {call[k].incident} : incident'[j] = incident[j],
         incident'[call[k].incident].names = NamesOf(k),
         k \in Busy' => call'[k].incident = call[k].incident /\ WellFormed(k)',
         \A c \in NamesOf(k) \ raced' :
            IF k \in Busy' THEN Standing(k, c)'
            ELSE c \in byHand' \/ (charger'[c] # "available" <=> Claimed(c)'),
         k \notin Busy' => incident'[call[k].incident].status # "none"
  PROVE  IncidentInv'
<1> DEFINE i == call[k].incident
<1>1. /\ i \in Incidents /\ WellFormed(k) /\ Busy' \subseteq Busy
      /\ \A l \in Busy : WellFormed(l) /\ call[l].incident \in Incidents
      /\ \A j \in Incidents : incident'[j].names = incident[j].names
      /\ incident'[i].status # "none"
  BY DEF IncidentInv, WellFormed, Busy, NamesOf
<1>2. \A l \in Busy \ {k} : /\ call'[l] = call[l] /\ NamesOf(l)' = NamesOf(l)
                            /\ l \in Busy'
  BY <1>1 DEF Busy, NamesOf
<1>3. k \in Busy' => NamesOf(k)' = NamesOf(k)
  BY <1>1 DEF NamesOf
<1>4. \A j \in Incidents : \A c \in Chargers \ NamesOf(k) : ClaimedBy(j, c)' <=> ClaimedBy(j, c)
  BY <1>1 DEF ClaimedBy, NamesOf
<1>5. \A l \in Busy : NamesOf(l) \subseteq Chargers
  BY <1>1 DEF IncidentInv, TypeOK, IncidentRecords, NamesOf
<1>6. ASSUME NEW l \in Busy \ {k} PROVE WellFormed(l)' /\ \A c \in NamesOf(l)' \ raced' : Standing(l, c)'
  <2>1. WellFormed(l)'
    BY <1>1, <1>2 DEF WellFormed
  <2>2. ASSUME NEW c \in NamesOf(l) \ raced' PROVE Standing(l, c)'
    <3>1. c \in NamesOf(l) \ raced /\ c \in Chargers /\ c \notin NamesOf(k) /\ call[l].incident # i
      BY <1>5 DEF IncidentInv, NamesOf
    <3> QED
      BY <1>1, <1>2, <1>4, <3>1, Frame
  <2> QED
    BY <1>2, <2>1, <2>2
<1>7. ASSUME NEW c \in Chargers \ (InHand \cup raced \cup byHand)', c \notin NamesOf(k)
      PROVE  charger'[c] # "available" <=> Claimed(c)'
  <2>1. c \notin InHand
    BY <1>2, <1>7 DEF InHand, NamesOf
  <2>2. c \notin raced /\ c \notin byHand /\ charger'[c] = charger[c]
    BY <1>7
  <2>3. charger[c] # "available" <=> Claimed(c)
    BY <2>1, <2>2 DEF IncidentInv, ChargersAgree
  <2> QED
    BY <1>4, <1>7, <2>2, <2>3, ClaimedMeans DEF Claimed, ClaimedBy
<1>8. ASSUME NEW c \in Chargers \ (InHand \cup raced \cup byHand)', c \in NamesOf(k)
      PROVE  charger'[c] # "available" <=> Claimed(c)'
  <2>1. k \notin Busy'
    BY <1>3, <1>8 DEF InHand, NamesOf
  <2> QED
    BY <1>8, <2>1
<1>9. ChargersAgree'
  BY <1>7, <1>8 DEF ChargersAgree
<1>10. \A l, m \in Busy' : l # m => NamesOf(l)' \cap NamesOf(m)' \subseteq raced'
  BY <1>1, <1>2, <1>3 DEF IncidentInv
<1> QED
  BY <1>1, <1>3, <1>6, <1>9, <1>10 DEF IncidentInv

\* A request begins: what it names is raced if somebody has it in hand.
LEMMA Begins ==
  ASSUME IncidentInv, TypeOK', NEW k \in Calls \ Busy, NEW i \in Incidents,
         call'[k].at # "idle", call'[k].incident = i, WellFormed(k)',
         \A l \in Calls \ {k} : call'[l] = call[l],
         UNCHANGED <<charger, byHand>>,
         \A j \in Incidents : incident'[j] # incident[j] => j = i /\ incident[j].status = "none",
         raced' = raced \cup (incident'[i].names \cap InHand),
         \A c \in incident'[i].names \ raced' : Standing(k, c)'
  PROVE  IncidentInv'
<1>1. Busy' = Busy \cup {k} /\ NamesOf(k)' = incident'[i].names
  BY DEF Busy, NamesOf
<1>2. \A l \in Busy : /\ call'[l] = call[l] /\ call[l].incident \in Incidents
                      /\ incident'[call[l].incident] = incident[call[l].incident]
                      /\ NamesOf(l)' = NamesOf(l) /\ NamesOf(l) \subseteq InHand
                      /\ WellFormed(l)'
  BY DEF IncidentInv, WellFormed, NamesOf, InHand, Busy
<1>3. ASSUME NEW j \in Incidents, NEW c, c \notin incident'[i].names
      PROVE  ClaimedBy(j, c)' <=> ClaimedBy(j, c)
  BY <1>3 DEF ClaimedBy, Open
<1>4. ASSUME NEW l \in Busy, NEW c \in NamesOf(l) \ raced' PROVE Standing(l, c)'
  <2>1. c \notin incident'[i].names
    BY <1>2
  <2> QED
    BY <1>2, <1>3, <2>1, Frame
<1>5. ASSUME NEW c \in Chargers \ (InHand \cup raced \cup byHand)'
      PROVE  charger'[c] # "available" <=> Claimed(c)'
  <2>1. c \notin incident'[i].names /\ c \notin InHand
    BY <1>1, <1>2, <1>5 DEF InHand, NamesOf
  <2>2. charger[c] # "available" <=> Claimed(c)
    BY <2>1, <1>5 DEF IncidentInv, ChargersAgree
  <2>3. Claimed(c)' <=> Claimed(c)
    BY <1>3, <2>1 DEF Claimed, ClaimedBy
  <2> QED
    BY <2>2, <2>3
<1>6. ChargersAgree'
  BY <1>5 DEF ChargersAgree
<1>7. \A l, m \in Busy' : l # m => NamesOf(l)' \cap NamesOf(m)' \subseteq raced'
  BY <1>1, <1>2 DEF IncidentInv
<1> QED
  BY <1>1, <1>2, <1>4, <1>6, <1>7 DEF IncidentInv

----------------------------------------------------------------------------

LEMMA CreateKeeps ==
  ASSUME IncidentInv, NEW k \in Calls, NEW i \in Incidents, NEW names \in SUBSET Chargers,
         NEW out \in {"maintenance", "offline"}, Create(k, i, names, out)
  PROVE  IncidentInv'
<1> DEFINE r == [Idle EXCEPT !.at = "mark", !.incident = i, !.todo = names]
           d == [status |-> "CREATED", names |-> names, out |-> out]
<1>1. /\ call[k].at = "idle" /\ incident[i].status = "none"
      /\ incident' = [incident EXCEPT ![i] = d] /\ call' = [call EXCEPT ![k] = r]
      /\ raced' = raced \cup (names \cap InHand) /\ UNCHANGED <<charger, byHand>>
  BY DEF Create
<1>2. /\ r \in CallRecords /\ r.at = "mark" /\ r.incident = i /\ r.todo = names /\ r.next = "none"
  BY DEF Idle, CallRecords, IncidentStatuses
<1>3. d \in IncidentRecords /\ d.status = "CREATED" /\ d.names = names
  BY DEF IncidentRecords, IncidentStatuses, Open
<1> HIDE DEF r, d
<1>4. /\ call'[k] = r /\ \A l \in Calls \ {k} : call'[l] = call[l]
      /\ incident'[i] = d /\ \A j \in Incidents \ {i} : incident'[j] = incident[j]
  BY <1>1 DEF IncidentInv, TypeOK
<1>5. TypeOK'
  <2>1. call' \in [Calls -> CallRecords] /\ incident' \in [Incidents -> IncidentRecords]
    BY <1>1, <1>2, <1>3 DEF IncidentInv, TypeOK
  <2>2. \A l \in Calls : call'[l].at # "idle" => call'[l].incident \in Incidents
    BY <1>2, <1>4 DEF IncidentInv, TypeOK
  <2>3. raced' \subseteq Chargers
    BY <1>1 DEF IncidentInv, TypeOK
  <2> QED
    BY <1>1, <2>1, <2>2, <2>3 DEF IncidentInv, TypeOK
<1>6. WellFormed(k)'
  BY <1>2, <1>3, <1>4 DEF WellFormed, NamesOf
<1>7. \A c \in names \ raced' : Standing(k, c)'
  BY <1>2, <1>3, <1>4 DEF Standing, Open
<1>8. k \in Calls \ Busy
  BY <1>1 DEF Busy
<1> QED
  BY <1>1, <1>2, <1>3, <1>4, <1>5, <1>6, <1>7, <1>8, Begins

\* The charger is as its incidents want it when the request begins, or it is
\* raced or was set by hand.
LEMMA TransitionKeeps ==
  ASSUME IncidentInv, NEW k \in Calls, NEW i \in Incidents, NEW next \in IncidentStatuses,
         Transition(k, i, next)
  PROVE  IncidentInv'
<1> DEFINE names == incident[i].names
           at == CASE next = "ACTIVE" -> "mark" [] next = "RESOLVED" -> "find" [] OTHER -> "save"
           todo == IF next = "ACTIVE" THEN names ELSE {}
           r == [at |-> at, incident |-> i, next |-> next, todo |-> todo]
<1>1. /\ call[k].at = "idle" /\ next \in Allowed(incident[i].status)
      /\ call' = [call EXCEPT ![k] = r]
      /\ raced' = raced \cup (names \cap InHand) /\ UNCHANGED <<incident, charger, byHand>>
  BY DEF Transition
<1>2. /\ incident[i].status # "none" /\ next # "none"
      /\ next \notin {"ACTIVE", "RESOLVED"}
           => IF next \in Open THEN incident[i].status \in Open ELSE incident[i].status \notin Open
  BY <1>1 DEF Allowed, Open, IncidentStatuses
<1>3. /\ at \in {"mark", "find", "save"} /\ (at = "mark" <=> next = "ACTIVE")
      /\ (at = "find" <=> next = "RESOLVED") /\ todo \subseteq names
      /\ names \subseteq Chargers
      /\ at = "mark" => todo = names
  BY DEF IncidentInv, TypeOK, IncidentRecords
<1> HIDE DEF at, todo
<1>4. /\ r \in CallRecords /\ r.at = at /\ r.incident = i /\ r.todo = todo /\ r.next = next
  BY <1>3 DEF CallRecords
<1> HIDE DEF r
<1>5. call'[k] = r /\ \A l \in Calls \ {k} : call'[l] = call[l]
  BY <1>1 DEF IncidentInv, TypeOK
<1>6. TypeOK'
  <2>1. call' \in [Calls -> CallRecords]
    BY <1>1, <1>4 DEF IncidentInv, TypeOK
  <2>2. \A l \in Calls : call'[l].at # "idle" => call'[l].incident \in Incidents
    BY <1>4, <1>5 DEF IncidentInv, TypeOK
  <2> QED
    BY <1>1, <1>3, <2>1, <2>2 DEF IncidentInv, TypeOK
<1>7. WellFormed(k)'
  BY <1>1, <1>2, <1>3, <1>4, <1>5 DEF WellFormed, NamesOf
<1>8. ASSUME NEW c \in names \ raced' PROVE Standing(k, c)'
  <2>1. c \in Chargers \ (InHand \cup raced)
    BY <1>1, <1>3, <1>8
  <2>2. c \in byHand \/ (charger[c] # "available" <=> Claimed(c))
    BY <2>1 DEF IncidentInv, ChargersAgree
  <2>3. Claimed(c) <=> ClaimedBy(i, c) \/ OtherClaims(i, c)
    BY DEF Claimed, ClaimedBy, OtherClaims
  <2>4. ClaimedBy(i, c) <=> incident[i].status \in Open
    BY <1>8 DEF ClaimedBy
  <2>5. Claimed(c)' <=> Claimed(c)
    BY <1>1 DEF Claimed
  <2>6. OtherClaims(i, c)' <=> OtherClaims(i, c)
    BY <1>1 DEF OtherClaims, ClaimedBy
  <2>7. next \notin {"ACTIVE", "RESOLVED"} =>
          c \in byHand \/ IF next \in Open THEN charger[c] # "available"
                          ELSE charger[c] # "available" <=> OtherClaims(i, c)
    BY <1>2, <2>2, <2>3, <2>4
  <2>8. at = "mark" => c \in todo
    BY <1>3, <1>8
  <2>9. /\ call'[k].at = at /\ call'[k].next = next /\ call'[k].todo = todo
        /\ call'[k].incident = i /\ charger' = charger /\ byHand' = byHand
    BY <1>1, <1>4, <1>5
  <2> QED
    BY <1>2, <1>3, <2>2, <2>5, <2>6, <2>7, <2>8, <2>9 DEF Standing
<1>9. k \in Calls \ Busy
  BY <1>1 DEF Busy
<1> QED
  BY <1>1, <1>3, <1>4, <1>5, <1>6, <1>7, <1>8, <1>9, Begins

\* After one charger a request goes on with the rest, saves, or is done.
LEMMA PassesMoves ==
  ASSUME IncidentInv, NEW k \in Calls, NEW c \in call[k].todo, Passes(k, c)
  PROVE  /\ call' \in [Calls -> CallRecords] /\ \A l \in Calls \ {k} : call'[l] = call[l]
         /\ \/ /\ call'[k].at = call[k].at /\ call'[k].todo = call[k].todo \ {c}
               /\ call'[k].next = call[k].next /\ call'[k].incident = call[k].incident
            \/ /\ call[k].todo = {c} /\ call[k].next = "none" /\ call'[k].at = "idle"
            \/ /\ call[k].todo = {c} /\ call[k].next # "none"
               /\ call'[k].at = "save" /\ call'[k].todo = {}
               /\ call'[k].next = call[k].next /\ call'[k].incident = call[k].incident
<1> DEFINE rest == call[k].todo \ {c}
           r == [call[k] EXCEPT !.todo = rest]
           s == [call[k] EXCEPT !.at = "save", !.todo = {}]
<1>1. call \in [Calls -> CallRecords] /\ call[k] \in CallRecords
  BY DEF IncidentInv, TypeOK
<1>2. /\ r \in CallRecords /\ r.at = call[k].at /\ r.todo = rest /\ r.next = call[k].next
      /\ r.incident = call[k].incident
  BY <1>1 DEF CallRecords
<1>3. /\ s \in CallRecords /\ s.at = "save" /\ s.todo = {} /\ s.next = call[k].next
      /\ s.incident = call[k].incident
  BY <1>1 DEF CallRecords
<1>4. call' = [call EXCEPT ![k] = IF rest # {} THEN r
                                  ELSE IF call[k].next = "none" THEN Idle ELSE s]
  BY DEF Passes
<1> HIDE DEF r, s
<1> QED
  BY <1>1, <1>2, <1>3, <1>4, IdleRecord

LEMMA SetsMoves ==
  ASSUME IncidentInv, NEW c \in Chargers, NEW status \in ChargerStatuses, Sets(c, status)
  PROVE  /\ charger' \in [Chargers -> ChargerStatuses] /\ byHand' \subseteq Chargers
         /\ charger'[c] = status /\ c \notin byHand'
         /\ \A d \in Chargers \ {c} : charger'[d] = charger[d] /\ (d \in byHand' <=> d \in byHand)
  BY DEF Sets, IncidentInv, TypeOK

LEMMA MarkKeeps ==
  ASSUME IncidentInv, NEW k \in Calls, NEW c \in Chargers, Mark(k, c)
  PROVE  IncidentInv'
<1> DEFINE i == call[k].incident
<1>1. /\ call[k].at = "mark" /\ c \in call[k].todo /\ Passes(k, c) /\ UNCHANGED <<incident, raced>>
      /\ k \in Busy
  BY DEF Mark, Busy
<1>2. WellFormed(k) /\ \A d \in NamesOf(k) \ raced : Standing(k, d)
  BY <1>1 DEF IncidentInv
<1>3. /\ charger' \in [Chargers -> ChargerStatuses] /\ byHand' \subseteq Chargers
      /\ charger'[c] # "available"
      /\ \A d \in Chargers \ {c} : charger'[d] = charger[d] /\ (d \in byHand' <=> d \in byHand)
  <2>1. CASE charger[c] = "available"
    <3>1. incident[i].out \in {"maintenance", "offline"}
      BY <1>2 DEF WellFormed, IncidentInv, TypeOK, IncidentRecords
    <3>2. Sets(c, incident[i].out)
      BY <2>1 DEF Mark
    <3> QED
      BY <3>1, <3>2, SetsMoves DEF ChargerStatuses
  <2>2. CASE charger[c] # "available"
    BY <2>2 DEF Mark, IncidentInv, TypeOK
  <2> QED
    BY <2>1, <2>2
<1>4. TypeOK'
  BY <1>1, <1>3, PassesMoves DEF IncidentInv, TypeOK
<1>5. k \in Busy' => call'[k].incident = i /\ WellFormed(k)'
  BY <1>1, <1>2, PassesMoves DEF WellFormed, NamesOf, Busy
<1>6. NamesOf(k) \subseteq Chargers /\ c \in NamesOf(k)
  BY <1>1, <1>2 DEF WellFormed, IncidentInv, TypeOK, IncidentRecords, NamesOf
<1>7. ASSUME NEW d \in NamesOf(k) \ raced'
      PROVE  IF k \in Busy' THEN Standing(k, d)'
             ELSE d \in byHand' \/ (charger'[d] # "available" <=> Claimed(d)')
  <2>1. /\ d \in (call[k].todo \ {c}) \cup byHand' \/ charger'[d] # "available"
        /\ call[k].next = "none" => incident[i].status \in Open
        /\ call[k].next \in {"none", "ACTIVE"}
    BY <1>1, <1>2, <1>3, <1>6, <1>7 DEF Standing, WellFormed
  <2>2. incident[i].status \in Open => Claimed(d)'
    BY <1>1, <1>2, <1>7 DEF Claimed, WellFormed, NamesOf
  <2>3. CASE call'[k].at = "mark" /\ call'[k].todo = call[k].todo \ {c}
             /\ call'[k].next = call[k].next /\ call'[k].incident = i
    BY <1>1, <2>1, <2>3 DEF Standing, Busy
  <2>4. CASE call[k].todo = {c} /\ call[k].next = "none" /\ call'[k].at = "idle"
    BY <2>1, <2>2, <2>4 DEF Busy
  <2>5. CASE call[k].todo = {c} /\ call[k].next # "none" /\ call'[k].at = "save"
             /\ call'[k].next = call[k].next
    BY <2>1, <2>5 DEF Standing, Busy, Open
  <2> QED
    BY <1>1, <2>3, <2>4, <2>5, PassesMoves
<1> QED
  BY <1>1, <1>2, <1>3, <1>4, <1>5, <1>6, <1>7, PassesMoves, GoesOn DEF WellFormed, NamesOf

\* An incident that is resolved leaves out of service what another one claims.
LEMMA FindKeeps ==
  ASSUME IncidentInv, NEW k \in Calls, FindClear(k)
  PROVE  IncidentInv'
<1> DEFINE i == call[k].incident
           claimed == UNION {incident[j].names : j \in {j \in Incidents \ {i} :
                                                           incident[j].status \in Open}}
           clear == incident[i].names \ claimed
           at == IF clear = {} THEN "save" ELSE "restore"
           r == [call[k] EXCEPT !.at = at, !.todo = clear]
<1>1. /\ call[k].at = "find" /\ k \in Busy /\ UNCHANGED <<incident, charger, byHand, raced>>
      /\ call' = [call EXCEPT ![k] = r]
  BY DEF FindClear, Busy, IncidentInv, TypeOK
<1>2. /\ WellFormed(k) /\ call[k] \in CallRecords /\ call[k].next = "RESOLVED"
      /\ \A d \in NamesOf(k) \ raced : Standing(k, d)
  BY <1>1 DEF IncidentInv, TypeOK, WellFormed
<1>3. /\ clear \subseteq NamesOf(k) /\ NamesOf(k) \subseteq Chargers
      /\ \A d \in NamesOf(k) : d \in clear <=> ~OtherClaims(i, d)
      /\ at \in {"save", "restore"} /\ (at = "save" => clear = {})
  BY <1>2 DEF NamesOf, OtherClaims, ClaimedBy, WellFormed, IncidentInv, TypeOK, IncidentRecords
<1> HIDE DEF clear, at
<1>4. /\ r \in CallRecords /\ r.at = at /\ r.todo = clear /\ r.next = "RESOLVED" /\ r.incident = i
  BY <1>2, <1>3 DEF CallRecords
<1> HIDE DEF r
<1>5. call'[k] = r /\ \A l \in Calls \ {k} : call'[l] = call[l]
  BY <1>1 DEF IncidentInv, TypeOK
<1>6. TypeOK'
  <2>1. call' \in [Calls -> CallRecords]
    BY <1>1, <1>4 DEF IncidentInv, TypeOK
  <2>2. \A l \in Calls : call'[l].at # "idle" => call'[l].incident \in Incidents
    BY <1>2, <1>4, <1>5 DEF IncidentInv, TypeOK, WellFormed
  <2> QED
    BY <1>1, <2>1, <2>2 DEF IncidentInv, TypeOK
<1>7. k \in Busy' /\ call'[k].incident = i /\ WellFormed(k)'
  BY <1>1, <1>2, <1>3, <1>4, <1>5 DEF WellFormed, NamesOf, Busy
<1>8. ASSUME NEW d \in NamesOf(k) \ raced' PROVE Standing(k, d)'
  <2>1. d \in byHand \/ (charger[d] # "available" <=> Claimed(d))
    BY <1>1, <1>2, <1>8 DEF Standing
  <2>2. OtherClaims(i, d) => Claimed(d)
    BY DEF Claimed, ClaimedBy, OtherClaims
  <2>3. \A j : OtherClaims(j, d)' <=> OtherClaims(j, d)
    BY <1>1 DEF OtherClaims, ClaimedBy
  <2> QED
    BY <1>1, <1>3, <1>4, <1>5, <1>8, <2>1, <2>2, <2>3 DEF Standing, Open
<1> QED
  BY <1>1, <1>2, <1>5, <1>6, <1>7, <1>8, GoesOn DEF NamesOf

LEMMA RestoreKeeps ==
  ASSUME IncidentInv, NEW k \in Calls, NEW c \in Chargers, Restore(k, c)
  PROVE  IncidentInv'
<1>0. PICK i : i = call[k].incident
  OBVIOUS
<1>1. /\ call[k].at = "restore" /\ c \in call[k].todo /\ Passes(k, c)
      /\ UNCHANGED <<incident, raced>> /\ Sets(c, "available") /\ k \in Busy
  BY DEF Restore, Busy
<1>2. /\ WellFormed(k) /\ call[k].next = "RESOLVED"
      /\ \A d \in NamesOf(k) \ raced : Standing(k, d)
  BY <1>0, <1>1 DEF IncidentInv, WellFormed
<1>3. /\ charger' \in [Chargers -> ChargerStatuses] /\ byHand' \subseteq Chargers
      /\ charger'[c] = "available" /\ c \notin byHand'
      /\ \A d \in Chargers \ {c} : charger'[d] = charger[d] /\ (d \in byHand' <=> d \in byHand)
  BY <1>0, <1>1, SetsMoves DEF ChargerStatuses
<1>4. TypeOK'
  BY <1>0, <1>1, <1>3, PassesMoves DEF IncidentInv, TypeOK
<1>5. k \in Busy' /\ call'[k].incident = i /\ WellFormed(k)'
  BY <1>0, <1>1, <1>2, PassesMoves DEF WellFormed, NamesOf, Busy
<1>6. NamesOf(k) \subseteq Chargers /\ c \in NamesOf(k)
  BY <1>0, <1>1, <1>2 DEF WellFormed, IncidentInv, TypeOK, IncidentRecords, NamesOf
<1>7. ASSUME NEW d \in NamesOf(k) \ raced' PROVE Standing(k, d)'
  <2>1. IF d \in call[k].todo THEN ~OtherClaims(i, d)
        ELSE d \in byHand \/ (charger[d] # "available" <=> OtherClaims(i, d))
    BY <1>0, <1>1, <1>2, <1>7 DEF Standing
  <2>2. OtherClaims(i, d)' <=> OtherClaims(i, d)
    BY <1>0, <1>1 DEF OtherClaims, ClaimedBy
  <2>3. IF d \in call[k].todo \ {c} THEN ~OtherClaims(i, d)'
        ELSE d \in byHand' \/ (charger'[d] # "available" <=> OtherClaims(i, d)')
    BY <1>0, <1>1, <1>3, <1>6, <1>7, <2>1, <2>2
  <2>4. CASE call'[k].at = "restore" /\ call'[k].todo = call[k].todo \ {c}
             /\ call'[k].next = "RESOLVED" /\ call'[k].incident = i
    BY <1>0, <2>3, <2>4 DEF Standing
  <2>5. CASE call[k].todo = {c} /\ call'[k].at = "save" /\ call'[k].next = "RESOLVED"
             /\ call'[k].incident = i
    BY <1>0, <2>3, <2>5 DEF Standing, Open
  <2> QED
    BY <1>0, <1>1, <1>2, <2>4, <2>5, PassesMoves
<1> QED
  BY <1>0, <1>1, <1>2, <1>3, <1>4, <1>5, <1>6, <1>7, PassesMoves, GoesOn DEF NamesOf

LEMMA SaveKeeps ==
  ASSUME IncidentInv, NEW k \in Calls, Save(k)
  PROVE  IncidentInv'
<1>0. PICK i : i = call[k].incident
  OBVIOUS
<1>1. /\ call[k].at = "save" /\ k \in Busy /\ UNCHANGED <<charger, byHand, raced>>
      /\ call' = [call EXCEPT ![k] = Idle]
      /\ incident' = [incident EXCEPT ![i].status = call[k].next]
  BY <1>0 DEF Save, Busy
<1>2. /\ WellFormed(k) /\ call[k] \in CallRecords /\ call[k].next # "none" /\ i \in Incidents
      /\ incident[i] \in IncidentRecords
      /\ \A d \in NamesOf(k) \ raced : Standing(k, d)
  BY <1>0, <1>1 DEF IncidentInv, TypeOK, WellFormed
<1>3. call'[k].at = "idle" /\ k \notin Busy' /\ \A l \in Calls \ {k} : call'[l] = call[l]
  BY <1>0, <1>1, IdleRecord DEF IncidentInv, TypeOK, Busy
<1>4. /\ incident'[i].status = call[k].next /\ incident'[i].names = NamesOf(k)
      /\ incident' \in [Incidents -> IncidentRecords]
      /\ \A j \in Incidents \ {i} : incident'[j] = incident[j]
  BY <1>0, <1>1, <1>2 DEF IncidentInv, TypeOK, IncidentRecords, CallRecords, NamesOf
<1>5. TypeOK'
  BY <1>0, <1>1, <1>3, <1>4, IdleRecord DEF IncidentInv, TypeOK
<1>6. ASSUME NEW d \in NamesOf(k) \ raced'
      PROVE  d \in byHand' \/ (charger'[d] # "available" <=> Claimed(d)')
  <2>1. \/ d \in byHand
        \/ IF call[k].next \in Open THEN charger[d] # "available"
           ELSE charger[d] # "available" <=> OtherClaims(i, d)
    BY <1>0, <1>1, <1>2, <1>6 DEF Standing
  <2>2. OtherClaims(i, d)' <=> OtherClaims(i, d)
    BY <1>0, <1>4 DEF OtherClaims, ClaimedBy
  <2>3. Claimed(d)' <=> call[k].next \in Open \/ OtherClaims(i, d)'
    BY <1>0, <1>2, <1>4, <1>6 DEF Claimed, OtherClaims, ClaimedBy, NamesOf
  <2> QED
    BY <1>0, <1>1, <2>1, <2>2, <2>3
<1> QED
  BY <1>0, <1>1, <1>2, <1>3, <1>4, <1>5, <1>6, GoesOn

LEMMA CrashKeeps ==
  ASSUME IncidentInv, NEW k \in Calls, Crash(k)
  PROVE  IncidentInv'
<1>1. /\ k \in Busy /\ call' = [call EXCEPT ![k] = Idle]
      /\ raced' = raced \cup NamesOf(k) /\ UNCHANGED <<incident, charger, byHand>>
  BY DEF Crash, NamesOf
<1>2. WellFormed(k) /\ NamesOf(k) \subseteq Chargers
  BY <1>1 DEF IncidentInv, WellFormed, TypeOK, IncidentRecords, NamesOf
<1>3. call'[k].at = "idle" /\ k \notin Busy' /\ \A l \in Calls \ {k} : call'[l] = call[l]
  BY <1>1, IdleRecord DEF IncidentInv, TypeOK, Busy
<1>4. TypeOK'
  BY <1>1, <1>2, <1>3, IdleRecord DEF IncidentInv, TypeOK
<1> QED
  BY <1>1, <1>2, <1>3, <1>4, GoesOn DEF NamesOf, WellFormed

LEMMA ByHandKeeps ==
  ASSUME IncidentInv, NEW c \in Chargers, NEW status \in ChargerStatuses, ByHand(c, status)
  PROVE  IncidentInv'
<1>1. /\ UNCHANGED <<incident, call, raced>> /\ byHand' = byHand \cup {c}
      /\ charger' \in [Chargers -> ChargerStatuses]
      /\ \A d \in Chargers \ {c} : charger'[d] = charger[d]
  BY DEF ByHand, IncidentInv, TypeOK
<1>2. TypeOK'
  BY <1>1 DEF IncidentInv, TypeOK
<1>3. Busy' = Busy /\ InHand' = InHand /\ \A d : Claimed(d)' <=> Claimed(d)
  BY <1>1 DEF Busy, InHand, Claimed
<1>4. ChargersAgree'
  BY <1>1, <1>3 DEF IncidentInv, ChargersAgree
<1>5. ASSUME NEW l \in Busy PROVE WellFormed(l)' /\ \A d \in NamesOf(l) \ raced : Standing(l, d)'
  <2>1. WellFormed(l)'
    BY <1>1 DEF IncidentInv, WellFormed, NamesOf
  <2>2. ASSUME NEW d \in NamesOf(l) \ raced PROVE Standing(l, d)'
    <3>1. Standing(l, d) /\ d \in Chargers
      BY DEF IncidentInv, WellFormed, TypeOK, IncidentRecords, NamesOf
    <3>2. OtherClaims(call[l].incident, d)' <=> OtherClaims(call[l].incident, d)
      BY <1>1 DEF OtherClaims, ClaimedBy
    <3> QED
      BY <1>1, <1>3, <3>1, <3>2 DEF Standing
  <2> QED
    BY <2>1, <2>2
<1>6. \A l \in Calls : NamesOf(l)' = NamesOf(l)
  BY <1>1 DEF NamesOf
<1> QED
  BY <1>1, <1>2, <1>3, <1>4, <1>5, <1>6 DEF IncidentInv, Busy

LEMMA StepIncidents == IncidentInv /\ [Next]_vars => IncidentInv'
<1> SUFFICES ASSUME IncidentInv, [Next]_vars PROVE IncidentInv'
  OBVIOUS
<1>1. ASSUME NEW k \in Calls, Step(k) PROVE IncidentInv'
  BY <1>1, CreateKeeps, TransitionKeeps, MarkKeeps, FindKeeps, RestoreKeeps, SaveKeeps, CrashKeeps
     DEF Step
<1>2. ASSUME NEW c \in Chargers, NEW status \in ChargerStatuses, ByHand(c, status)
      PROVE  IncidentInv'
  BY <1>2, ByHandKeeps
<1>3. CASE UNCHANGED vars
  BY <1>3 DEF vars, IncidentInv, TypeOK, ChargersAgree, Busy, InHand, NamesOf, WellFormed, Standing,
              Claimed, ClaimedBy, OtherClaims
<1> QED
  BY <1>1, <1>2, <1>3 DEF Next

\* Incidents, chargers and requests stay well formed: a request that is under way
\* is about an incident that has been reported.
THEOREM TypeCorrect == Spec => []TypeOK
<1>1. IncidentInv => TypeOK
  BY DEF IncidentInv
<1> QED
  BY InitIncidents, StepIncidents, <1>1, PTL DEF Spec

\* For any number of incidents that overlap on any chargers, a charger that one
\* request at a time has in hand is out of service exactly while an open incident
\* names it.
THEOREM ChargersFollowIncidents == Spec => []ChargersAgree
<1>1. IncidentInv => ChargersAgree
  BY DEF IncidentInv
<1> QED
  BY InitIncidents, StepIncidents, <1>1, PTL DEF Spec
=============================================================================
