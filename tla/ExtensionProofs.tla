--------------------------- MODULE ExtensionProofs ---------------------------
(***************************************************************************)
(* Theorems about Extension for any number of calls that overlap and every *)
(* length of the booking, of its window and of what is asked for.          *)
(***************************************************************************)
EXTENDS Extension, TLAPS

Deciding == {"find", "drop", "insert", "save"}

\* What a document and the copies of it look like.
CopyIsSound(d) ==
    /\ d.length >= Base + Minutes(d)
    /\ ~erased => d.length = Base + Minutes(d)

\* The length a call decides on.
Reach(r) == r.loaded.length - Minutes(r.loaded) + r.total

\* What a call has loaded is sound, and what it decided stays in the day, and in
\* the window unless staff made it or the session was as long already.
Sound(r) ==
    /\ CopyIsSound(r.loaded)
    /\ r.kind = "topup" /\ r.at = "look" => Minutes(r.loaded) < r.wants
    /\ r.at \in Deciding =>
         /\ Reach(r) <= Day
         /\ r.kind # "override" => Reach(r) <= Window \/ Reach(r) <= r.loaded.length

\* The booked time is among what a call is going to keep while the session
\* lasts, and only the end of the session releases it.
KeepsBooked(c) ==
    /\ call[c].at = "drop" /\ doc.lifecycle = "CHARGING" => 1..Base \subseteq call[c].keep
    /\ call[c].at = "release" => doc.lifecycle = "COMPLETED"

GrantInv ==
    /\ TypeOK
    /\ GrantMatchesLength
    /\ BookedTimeIsSafe
    /\ \A c \in Calls : Sound(call[c]) /\ KeepsBooked(c)

----------------------------------------------------------------------------
(* The records that the steps of a call write                               *)

LEMMA IdleRecord ==
  /\ Booked \in Documents /\ CopyIsSound(Booked)
  /\ Idle \in CallRecords /\ Idle.at = "idle" /\ Idle.loaded = Booked /\ Sound(Idle)
<1>1. Booked \in Documents /\ CopyIsSound(Booked)
  BY CeilingAssumption DEF Booked, Documents, CopyIsSound, Minutes, Null
<1>2. Idle \in CallRecords /\ Idle.at = "idle" /\ Idle.loaded = Booked
  BY <1>1, CeilingAssumption DEF Idle, CallRecords, Steps, Kinds
<1>3. Idle.at \notin Deciding \cup {"look"}
  BY <1>2 DEF Deciding
<1> QED
  BY <1>1, <1>2, <1>3 DEF Sound

\* A call that goes on with what it has decided.
LEMMA SameDecision ==
  ASSUME NEW r, NEW s, Sound(r), s.loaded = r.loaded, s.total = r.total, s.kind = r.kind,
         s.at # "look", s.at \in Deciding => r.at \in Deciding
  PROVE  Sound(s)
  BY DEF Sound, Reach

\* A request that lost its atoms takes back what was approved before, at most.
LEMMA RefusedIsSound ==
  ASSUME NEW r \in CallRecords, NEW s \in CallRecords, Sound(r), s.loaded = r.loaded,
         s.total = 0, s.at # "look"
  PROVE  Sound(s)
<1>1. r.loaded.length \in Base..Day /\ Minutes(r.loaded) \in Nat
  BY CeilingAssumption DEF CallRecords, Documents, Minutes, Null
<1>2. Reach(s) <= r.loaded.length /\ Reach(s) <= Day
  BY <1>1, CeilingAssumption DEF Reach
<1> QED
  BY <1>2 DEF Sound

LEMMA LookRecord ==
  ASSUME NEW r \in CallRecords, NEW total \in 0..MostAsked
  PROVE  LET s == [r EXCEPT !.at = "find", !.total = total]
         IN  /\ s \in CallRecords
             /\ s.at = "find" /\ s.total = total /\ s.kind = r.kind /\ s.loaded = r.loaded
             /\ s.wants = r.wants
  BY DEF CallRecords, Steps

LEMMA StepRecord ==
  ASSUME NEW r \in CallRecords, NEW at \in Steps
  PROVE  LET s == [r EXCEPT !.at = at]
         IN  /\ s \in CallRecords
             /\ s.at = at /\ s.keep = r.keep /\ s.new = r.new /\ s.kind = r.kind
             /\ s.loaded = r.loaded /\ s.total = r.total /\ s.wants = r.wants
             /\ s.busy = r.busy
  BY DEF CallRecords

LEMMA KeepRecord ==
  ASSUME NEW r \in CallRecords, NEW keep \in SUBSET Atoms
  PROVE  LET s == [r EXCEPT !.keep = keep]
         IN  /\ s \in CallRecords
             /\ s.at = r.at /\ s.keep = keep /\ s.new = r.new /\ s.kind = r.kind
             /\ s.loaded = r.loaded /\ s.total = r.total /\ s.wants = r.wants
             /\ s.busy = r.busy
  BY DEF CallRecords

LEMMA RefusedRecord ==
  ASSUME NEW r \in CallRecords
  PROVE  LET s == [r EXCEPT !.at = "find", !.kind = "rejected", !.total = 0,
                            !.keep = {}, !.new = {}, !.busy = FALSE]
         IN  /\ s \in CallRecords
             /\ s.at = "find" /\ s.kind = "rejected" /\ s.total = 0
             /\ s.loaded = r.loaded /\ s.wants = r.wants
<1>1. /\ 0 \in 0..MostAsked /\ {} \in SUBSET Atoms /\ FALSE \in BOOLEAN
      /\ "find" \in Steps /\ "rejected" \in Kinds
  BY CeilingAssumption DEF Steps, Kinds
<1> DEFINE half == [r EXCEPT !.at = "find", !.kind = "rejected", !.total = 0]
<1>2. /\ half \in CallRecords
      /\ half.at = "find" /\ half.kind = "rejected" /\ half.total = 0
      /\ half.loaded = r.loaded /\ half.wants = r.wants
  BY <1>1 DEF CallRecords
<1>3. LET s == [half EXCEPT !.keep = {}, !.new = {}, !.busy = FALSE]
      IN  /\ s \in CallRecords
          /\ s.at = half.at /\ s.kind = half.kind /\ s.total = half.total
          /\ s.loaded = half.loaded /\ s.wants = half.wants
  <2> HIDE DEF half
  <2> QED
    BY <1>1, <1>2 DEF CallRecords
<1>4. [half EXCEPT !.keep = {}, !.new = {}, !.busy = FALSE]
        = [r EXCEPT !.at = "find", !.kind = "rejected", !.total = 0,
                    !.keep = {}, !.new = {}, !.busy = FALSE]
  OBVIOUS
<1> HIDE DEF half
<1> QED
  BY <1>2, <1>3, <1>4, Zenon

----------------------------------------------------------------------------
(* The grant and the booked time, however calls overlap                     *)

LEMMA InitGrant == Init => GrantInv
<1> SUFFICES ASSUME Init PROVE GrantInv
  OBVIOUS
<1> USE IdleRecord, CeilingAssumption DEF Init
<1>1. TypeOK
  BY DEF TypeOK, Holders
<1>2. GrantMatchesLength /\ BookedTimeIsSafe
  BY DEF GrantMatchesLength, CopyIsSound, BookedTimeIsSafe, Atoms
<1>3. ASSUME NEW c \in Calls PROVE Sound(call[c]) /\ KeepsBooked(c)
  BY DEF KeepsBooked
<1> QED
  BY <1>1, <1>2, <1>3 DEF GrantInv

\* The minutes of a document, and those of one that has none.
LEMMA MinutesOf ==
  ASSUME NEW d \in Documents
  PROVE  /\ d.length \in Base..Day /\ d.length \in Nat /\ Minutes(d) \in 0..MostAsked
         /\ d.approved = Null \/ d.approved = Minutes(d)
         /\ d.approved = Null => Minutes(d) = 0
  BY CeilingAssumption DEF Documents, Minutes, Null

\* The new length covers the base and what is approved, and lies in the day.
LEMMA TargetIsBounded ==
  ASSUME TypeOK, NEW c \in Calls, Sound(call[c]), call[c].at \in Deciding
  PROVE  /\ Target(c) \in Base..Day /\ Target(c) \in Nat
         /\ Target(c) >= Base + call[c].total
         /\ ~erased => Target(c) = Base + call[c].total
         /\ Target(c) = call[c].loaded.length <=> call[c].total = Minutes(call[c].loaded)
         /\ Target(c) = Reach(call[c])
         /\ 1..Base \subseteq 1..Target(c)
         /\ 1..Target(c) \subseteq Atoms
<1> DEFINE loaded == call[c].loaded
<1>1. call[c].total \in 0..MostAsked /\ loaded \in Documents
  BY DEF TypeOK, CallRecords
<1>2. Target(c) = Reach(call[c]) /\ Target(c) = loaded.length - Minutes(loaded) + call[c].total
  BY DEF Target, Reach
<1>3. Target(c) <= Day /\ CopyIsSound(loaded)
  BY <1>2 DEF Sound
<1>4. loaded.length \in Nat /\ Minutes(loaded) \in Nat
  BY <1>1, MinutesOf
<1> HIDE DEF loaded
<1>5. /\ Target(c) \in Int /\ Target(c) >= Base + call[c].total
      /\ ~erased => Target(c) = Base + call[c].total
      /\ Target(c) = loaded.length <=> call[c].total = Minutes(loaded)
  BY <1>1, <1>2, <1>3, <1>4, CeilingAssumption DEF CopyIsSound
<1>6. Target(c) \in Base..Day /\ Target(c) \in Nat
  BY <1>1, <1>3, <1>5, CeilingAssumption
<1> QED
  BY <1>2, <1>5, <1>6, CeilingAssumption DEF Atoms, loaded

\* A step of one call that writes neither the rows nor the document.
LEMMA CallMoves ==
  ASSUME GrantInv, NEW c \in Calls, NEW r \in CallRecords,
         call' = [call EXCEPT ![c] = r], UNCHANGED <<rows, doc, erased>>,
         serial' \in BOOLEAN, Sound(r),
         r.at = "drop" /\ doc.lifecycle = "CHARGING" => 1..Base \subseteq r.keep,
         r.at = "release" => doc.lifecycle = "COMPLETED"
  PROVE  GrantInv'
<1> USE DEF GrantInv, TypeOK
<1>1. call' \in [Calls -> CallRecords] /\ call'[c] = r /\ \A d \in Calls \ {c} : call'[d] = call[d]
  OBVIOUS
<1>2. TypeOK' /\ GrantMatchesLength' /\ BookedTimeIsSafe'
  BY <1>1 DEF GrantMatchesLength, BookedTimeIsSafe
<1>3. ASSUME NEW d \in Calls PROVE Sound(call[d])' /\ KeepsBooked(d)'
  BY <1>1 DEF Sound, CopyIsSound, Reach, KeepsBooked
<1> QED
  BY <1>2, <1>3

\* A call begins with a copy of the document of a session that is on.
LEMMA LoadMoves ==
  ASSUME GrantInv, NEW c \in Calls,
         \/ \E minutes \in 1..MostAsked : Request(c, minutes)
         \/ \E minutes \in 0..MostAsked : Override(c, minutes)
         \/ TopUp(c)
         \/ End(c)
  PROVE  /\ call[c].at = "idle" /\ doc.lifecycle = "CHARGING"
         /\ UNCHANGED <<rows, doc, erased>>
         /\ serial' = (serial /\ Busy = {})
         /\ call' = [call EXCEPT ![c] = call'[c]] /\ call'[c] \in CallRecords
         /\ call'[c].at \in {"look", "find", "settle"} /\ call'[c].loaded = doc
         /\ Sound(call'[c])
<1>1. PICK kind \in Kinds, at \in {"look", "find", "settle"}, wants \in 0..MostAsked,
           total \in 0..MostAsked :
        /\ Load(c, kind, at, wants, total)
        /\ kind = "topup" => Minutes(doc) < wants
        /\ at = "find" => kind = "override" /\ doc.length - Minutes(doc) + total <= Day
  <2>1. doc.asked \in 0..MostAsked /\ 0 \in 0..MostAsked
    BY CeilingAssumption DEF GrantInv, TypeOK, Documents
  <2>2. ASSUME NEW minutes \in 1..MostAsked, Request(c, minutes)
        PROVE  Load(c, "request", "look", minutes, 0)
    BY <2>2 DEF Request
  <2>3. ASSUME NEW minutes \in 0..MostAsked, Override(c, minutes)
        PROVE  /\ Load(c, "override", "find", doc.asked, minutes)
               /\ doc.length - Minutes(doc) + minutes <= Day
    BY <2>3 DEF Override
  <2>4. TopUp(c) => Load(c, "topup", "look", doc.asked, 0) /\ Minutes(doc) < doc.asked
    <3>1. doc.asked \in Nat /\ Minutes(doc) \in Nat
      BY <2>1, MinutesOf DEF GrantInv, TypeOK
    <3> QED
      BY <3>1 DEF TopUp
  <2>5. End(c) => Load(c, "end", "settle", doc.asked, 0)
    BY DEF End
  <2> QED
    BY <2>1, <2>2, <2>3, <2>4, <2>5 DEF Kinds
<1> DEFINE r == [Idle EXCEPT !.at = at, !.kind = kind, !.loaded = doc,
                             !.wants = wants, !.total = total]
<1>2. /\ r \in CallRecords
      /\ r.at = at /\ r.kind = kind /\ r.loaded = doc /\ r.wants = wants /\ r.total = total
  <2>1. doc \in Documents /\ at \in Steps
    BY DEF GrantInv, TypeOK, Steps
  <2> QED
    BY <2>1, <1>1 DEF Idle, CallRecords
<1>3. /\ call' = [call EXCEPT ![c] = r] /\ UNCHANGED <<rows, doc, erased>>
      /\ call[c].at = "idle" /\ doc.lifecycle = "CHARGING"
      /\ serial' = (serial /\ Busy = {})
  BY <1>1, Zenon DEF Load
<1>4. call'[c] = r
  BY <1>3 DEF GrantInv, TypeOK
<1> HIDE DEF r
<1>5. CopyIsSound(doc)
  BY DEF GrantInv, GrantMatchesLength, CopyIsSound
<1>6. Sound(r)
  BY <1>1, <1>2, <1>5 DEF Sound, Reach, Deciding
<1> QED
  BY <1>1, <1>2, <1>3, <1>4, <1>6

LEMMA LoadKeeps ==
  ASSUME GrantInv, NEW c \in Calls,
         \/ \E minutes \in 1..MostAsked : Request(c, minutes)
         \/ \E minutes \in 0..MostAsked : Override(c, minutes)
         \/ TopUp(c)
         \/ End(c)
  PROVE  GrantInv'
<1>1. serial' \in BOOLEAN
  BY LoadMoves DEF GrantInv, TypeOK
<1> QED
  BY <1>1, LoadMoves, CallMoves

\* The minutes that are granted reach the next claim or the end of the window.
LEMMA RunwayEndsInWindow ==
  ASSUME NEW from \in Nat, NEW free \in Runway(from) \cup {0}
  PROVE  free \in Nat /\ (free > 0 => from + free <= Window)
  BY CeilingAssumption DEF Runway

\* What a driver is granted, and what a pass tops up, ends in the window.
LEMMA LookMoves ==
  ASSUME GrantInv, NEW c \in Calls, LookForRequest(c) \/ LookForTopUp(c)
  PROVE  /\ call[c].at = "look" /\ UNCHANGED <<rows, doc, serial, erased>>
         /\ call' = [call EXCEPT ![c] = call'[c]] /\ call'[c] \in CallRecords
         /\ Sound(call'[c])
         /\ call'[c] # Idle => call'[c].at = "find" /\ call'[c].loaded = call[c].loaded
<1> DEFINE loaded == call[c].loaded
<1>1. /\ loaded.length \in Nat /\ loaded.length <= Day
      /\ Minutes(loaded) \in 0..MostAsked /\ CopyIsSound(loaded)
      /\ call[c].wants \in 0..MostAsked /\ call[c] \in CallRecords
  <2>1. call[c] \in CallRecords /\ Sound(call[c])
    BY DEF GrantInv, TypeOK
  <2> QED
    BY <2>1, MinutesOf DEF CallRecords, Sound
<1>a. ASSUME NEW r, r.at = "find", r.loaded = loaded, Reach(r) <= Day,
             Reach(r) <= Window \/ Reach(r) <= loaded.length
      PROVE  Sound(r)
  BY <1>1, <1>a DEF Sound
<1>2. CASE LookForRequest(c)
  <2>1. PICK free \in Runway(loaded.length) \cup {0} :
           call' = [call EXCEPT ![c].at = "find", ![c].total = Granted(call[c].wants, free)]
    BY <1>2 DEF LookForRequest
  <2>2. free \in Nat /\ (free > 0 => loaded.length + free <= Window)
    BY <1>1, RunwayEndsInWindow
  <2> DEFINE total == Granted(call[c].wants, free)
             r == [call[c] EXCEPT !.at = "find", !.total = total]
  <2>3. total \in 0..MostAsked
    BY <1>1, <2>2, CeilingAssumption DEF Granted
  <2>4. /\ r \in CallRecords
        /\ r.at = "find" /\ r.total = total /\ r.loaded = loaded
    BY <1>1, <2>3, LookRecord
  <2>5. call' = [call EXCEPT ![c] = r]
    BY <2>1 DEF GrantInv, TypeOK
  <2>7. Sound(r)
    <3>2. Reach(r) = loaded.length - Minutes(loaded) + total
      BY <2>4 DEF Reach
    <3> DEFINE wants == call[c].wants
    <3>3. wants \in Nat /\ total = Granted(wants, free)
      BY <1>1
    <3> HIDE DEF r, total, loaded, wants
    <3>1. total = 0 \/ loaded.length + total <= Window
      <4>1. total \in Nat /\ total <= free
        BY <2>2, <3>3 DEF Granted
      <4> QED
        BY <1>1, <2>2, <4>1, CeilingAssumption
    <3>4. Reach(r) <= Day /\ (Reach(r) <= Window \/ Reach(r) <= loaded.length)
      BY <1>1, <2>3, <3>1, <3>2, CeilingAssumption
    <3> QED
      BY <1>a, <2>4, <3>4
  <2>6. call[c].at = "look" /\ UNCHANGED <<rows, doc, serial, erased>>
        /\ call'[c] = r
    BY <1>2, <2>5 DEF LookForRequest, GrantInv, TypeOK
  <2> HIDE DEF r, total, loaded
  <2> QED
    BY <2>3, <2>4, <2>5, <2>6, <2>7 DEF loaded
<1>3. CASE LookForTopUp(c)
  <2>1. PICK free \in Runway(loaded.length) \cup {0} :
           call' = [call EXCEPT ![c] =
                      IF free = 0 THEN Idle
                      ELSE [call[c] EXCEPT
                              !.at = "find",
                              !.total = Minutes(loaded)
                                        + Granted(call[c].wants - Minutes(loaded), free)]]
    BY <1>3, Zenon DEF LookForTopUp
  <2>2. free \in Nat /\ (free > 0 => loaded.length + free <= Window)
    BY <1>1, RunwayEndsInWindow
  <2>3. call[c].at = "look" /\ UNCHANGED <<rows, doc, serial, erased>>
    BY <1>3 DEF LookForTopUp
  <2>4. CASE free = 0
    <3>1. call' = [call EXCEPT ![c] = Idle] /\ call'[c] = Idle
      BY <2>1, <2>4 DEF GrantInv, TypeOK
    <3> QED
      BY <2>3, <3>1, IdleRecord
  <2>5. CASE free # 0
    <3> DEFINE missing == call[c].wants - Minutes(loaded)
               grant == Granted(missing, free)
               total == Minutes(loaded) + grant
               r == [call[c] EXCEPT !.at = "find", !.total = total]
    <3>1. Minutes(loaded) < call[c].wants
      BY <1>3 DEF LookForTopUp, GrantInv, Sound
    <3>2. missing \in Nat /\ Minutes(loaded) + missing = call[c].wants
      BY <1>1, <3>1
    <3>3. grant \in Nat /\ grant <= missing /\ grant <= free
      <4> HIDE DEF missing
      <4> QED
        BY <2>2, <3>2 DEF Granted
    <3>4. total \in 0..MostAsked
      <4> HIDE DEF missing, grant, loaded
      <4> QED
        BY <1>1, <3>2, <3>3, CeilingAssumption
    <3>5. /\ r \in CallRecords
          /\ r.at = "find" /\ r.total = total /\ r.loaded = loaded
      BY <1>1, <3>4, LookRecord
    <3>6. call' = [call EXCEPT ![c] = r] /\ call'[c] = r
      BY <2>1, <2>5 DEF GrantInv, TypeOK
    <3>7. Reach(r) = loaded.length - Minutes(loaded) + total
      BY <3>5 DEF Reach
    <3>8. Reach(r) <= Window
      <4>1. Reach(r) = loaded.length - Minutes(loaded) + (Minutes(loaded) + grant)
        BY <3>7
      <4> HIDE DEF missing, grant, loaded, r, total
      <4> QED
        BY <1>1, <2>2, <2>5, <3>3, <4>1, CeilingAssumption
    <3> HIDE DEF r, total, grant, missing
    <3>9. Reach(r) <= Day
      <4>1. Reach(r) \in Int
        BY <1>1, <3>4, <3>7
      <4> QED
        BY <3>8, <4>1, CeilingAssumption
    <3>10. Sound(r)
      BY <1>a, <3>5, <3>8, <3>9
    <3> QED
      BY <2>3, <3>5, <3>6, <3>10
  <2> QED
    BY <2>4, <2>5
<1> QED
  BY <1>2, <1>3

LEMMA LookKeeps ==
  ASSUME GrantInv, NEW c \in Calls, LookForRequest(c) \/ LookForTopUp(c)
  PROVE  GrantInv'
<1>1. serial' \in BOOLEAN
  BY LookMoves DEF GrantInv, TypeOK
<1> QED
  BY <1>1, LookMoves, CallMoves, IdleRecord

\* Either the decision leaves the length as it is, or the rows to keep and those
\* to insert make up the new range.
LEMMA FindMoves ==
  ASSUME TypeOK, NEW c \in Calls, Sound(call[c]), Find(c)
  PROVE  /\ call' = [call EXCEPT ![c] = call'[c]] /\ call'[c] \in CallRecords
         /\ call'[c].kind = call[c].kind /\ call'[c].loaded = call[c].loaded
         /\ call'[c].total = call[c].total
         /\ \/ call'[c].at = "save" /\ Target(c) = call[c].loaded.length
            \/ /\ call'[c].at = "drop"
               /\ call'[c].keep = Mine \cap (1..Target(c))
               /\ call'[c].new = (1..Target(c)) \ Mine
<1> DEFINE keep == Mine \cap (1..Target(c))
           new == (1..Target(c)) \ Mine
           r == [call[c] EXCEPT !.at = "drop", !.keep = keep, !.new = new]
           s == [call[c] EXCEPT !.at = "save"]
<1>1. call[c] \in CallRecords /\ call \in [Calls -> CallRecords]
  BY DEF TypeOK
<1>2. \/ call' = [call EXCEPT ![c] = s] /\ Target(c) = call[c].loaded.length
      \/ call' = [call EXCEPT ![c] = r]
  BY <1>1 DEF Find
<1>3. keep \in SUBSET Atoms /\ new \in SUBSET Atoms
  BY TargetIsBounded DEF Mine, Find, Deciding
<1>4. /\ r \in CallRecords /\ r.at = "drop" /\ r.keep = keep /\ r.new = new
      /\ r.kind = call[c].kind /\ r.loaded = call[c].loaded /\ r.total = call[c].total
  <2> HIDE DEF keep, new
  <2> QED
    BY <1>1, <1>3 DEF CallRecords, Steps
<1>5. /\ s \in CallRecords /\ s.at = "save"
      /\ s.kind = call[c].kind /\ s.loaded = call[c].loaded /\ s.total = call[c].total
  BY <1>1, StepRecord DEF Steps
<1>6. keep = Mine \cap (1..Target(c)) /\ new = (1..Target(c)) \ Mine
  OBVIOUS
<1> HIDE DEF r, s, keep, new
<1> QED
  BY <1>1, <1>2, <1>4, <1>5, <1>6

LEMMA FindKeeps ==
  ASSUME GrantInv, NEW c \in Calls, Find(c)
  PROVE  GrantInv'
<1>1. /\ TypeOK /\ Sound(call[c]) /\ call[c].at = "find" /\ UNCHANGED <<rows, doc, erased>>
      /\ serial' \in BOOLEAN
  BY DEF GrantInv, TypeOK, Find
<1>2. doc.lifecycle = "CHARGING" => 1..Base \subseteq Mine \cap (1..Target(c))
  BY <1>1, TargetIsBounded DEF GrantInv, BookedTimeIsSafe, Mine, Deciding
<1>3. /\ call'[c] \in CallRecords /\ call' = [call EXCEPT ![c] = call'[c]]
      /\ call'[c].loaded = call[c].loaded /\ call'[c].kind = call[c].kind
      /\ call'[c].total = call[c].total /\ call'[c].at \in {"save", "drop"}
      /\ call'[c].at = "drop" /\ doc.lifecycle = "CHARGING" => 1..Base \subseteq call'[c].keep
  BY <1>1, <1>2, FindMoves
<1>4. Sound(call'[c])
  BY <1>1, <1>3, SameDecision DEF Deciding
<1> QED
  BY <1>1, <1>3, <1>4, CallMoves

LEMMA DropKeeps ==
  ASSUME GrantInv, NEW c \in Calls, Drop(c)
  PROVE  GrantInv'
<1> USE DEF GrantInv, TypeOK
<1>1. PICK at \in {"save", "insert"} : call' = [call EXCEPT ![c].at = at]
  BY DEF Drop
<1>2. /\ call' \in [Calls -> CallRecords]
      /\ \A d \in Calls \ {c} : call'[d] = call[d]
      /\ call'[c].at = at /\ call'[c].kind = call[c].kind /\ call'[c].loaded = call[c].loaded
      /\ call'[c].total = call[c].total
  <2>1. at \in Steps /\ call[c] \in CallRecords
    BY DEF Steps
  <2>2. LET s == [call[c] EXCEPT !.at = at]
        IN  /\ s \in CallRecords
            /\ s.at = at /\ s.kind = call[c].kind /\ s.loaded = call[c].loaded
            /\ s.total = call[c].total
    BY <2>1, StepRecord
  <2> QED
    BY <1>1, <2>2
<1>3. /\ call[c].at = "drop" /\ rows' \in [Atoms -> Holders] /\ UNCHANGED <<doc, serial, erased>>
      /\ \A a \in call[c].keep \cap Atoms : rows'[a] = rows[a]
  BY DEF Drop, Holders
<1>4. BookedTimeIsSafe'
  BY <1>3, CeilingAssumption DEF BookedTimeIsSafe, KeepsBooked, Atoms
<1>5. ASSUME NEW d \in Calls PROVE Sound(call[d])' /\ KeepsBooked(d)'
  BY <1>2, <1>3 DEF Sound, CopyIsSound, Reach, KeepsBooked, Deciding
<1> QED
  BY <1>2, <1>3, <1>4, <1>5 DEF GrantMatchesLength

\* What one insert does to the call that makes it.
LEMMA InsertMoves ==
  ASSUME TypeOK, NEW c \in Calls, NEW a \in Atoms, Insert(c, a)
  PROVE  /\ call'[c] \in CallRecords
         /\ \/ call'[c] = Idle
            \/ /\ call'[c].at \in {"insert", "save"} /\ call'[c].kind = call[c].kind
               /\ call'[c].loaded = call[c].loaded /\ call'[c].total = call[c].total
               /\ call'[c].new = call[c].new \ {a} /\ call'[c].wants = call[c].wants
               /\ call'[c].busy = (call[c].busy \/ rows[a] # "nobody")
               /\ call'[c].at = "insert" <=> call[c].new # {a}
               /\ call'[c].at = "save" => ~call'[c].busy
            \/ /\ call'[c].at = "find" /\ call'[c].kind = "rejected"
               /\ call'[c].loaded = call[c].loaded /\ call'[c].total = 0
<1> DEFINE new == call[c].new \ {a}
           busy == call[c].busy \/ ~(rows[a] = "nobody")
           rest == [call[c] EXCEPT !.new = new, !.busy = busy]
<1>1. /\ call[c] \in CallRecords /\ new \in SUBSET Atoms /\ busy \in BOOLEAN
      /\ call[c].at = "insert"
  BY DEF TypeOK, CallRecords, Insert
<1>2. /\ rest \in CallRecords /\ rest.at = "insert" /\ rest.kind = call[c].kind
      /\ rest.loaded = call[c].loaded /\ rest.total = call[c].total
      /\ rest.new = new /\ rest.busy = busy /\ rest.wants = call[c].wants
  <2> HIDE DEF new, busy
  <2> QED
    BY <1>1 DEF CallRecords
<1>3. call'[c] = IF call[c].new # {a} THEN rest
                 ELSE IF rest.busy THEN Refused(c) ELSE [rest EXCEPT !.at = "save"]
  BY DEF Insert
<1>4. \/ Refused(c) = Idle /\ Idle \in CallRecords
      \/ /\ Refused(c) \in CallRecords
         /\ Refused(c).at = "find" /\ Refused(c).kind = "rejected"
         /\ Refused(c).loaded = call[c].loaded /\ Refused(c).total = 0
  BY <1>1, IdleRecord, RefusedRecord DEF Refused
<1>5. LET s == [rest EXCEPT !.at = "save"]
      IN  /\ s \in CallRecords /\ s.at = "save" /\ s.kind = rest.kind
          /\ s.loaded = rest.loaded /\ s.total = rest.total /\ s.wants = rest.wants
          /\ s.new = rest.new /\ s.busy = rest.busy
  <2> HIDE DEF rest
  <2> QED
    BY <1>2, StepRecord DEF Steps
<1>6. new = call[c].new \ {a} /\ busy = (call[c].busy \/ rows[a] # "nobody")
  OBVIOUS
<1> HIDE DEF rest, new, busy
<1>7. CASE call[c].new # {a}
  BY <1>2, <1>3, <1>6, <1>7
<1>8. CASE call[c].new = {a} /\ rest.busy
  BY <1>3, <1>4, <1>8
<1>9. CASE call[c].new = {a} /\ ~rest.busy
  BY <1>2, <1>3, <1>5, <1>6, <1>9
<1> QED
  BY <1>7, <1>8, <1>9

\* What it does to the other calls, and to the rows.
LEMMA InsertLeaves ==
  ASSUME TypeOK, NEW c \in Calls, NEW a \in Atoms, Insert(c, a)
  PROVE  /\ rows' = IF rows[a] = "nobody" THEN [rows EXCEPT ![a] = "me"] ELSE rows
         /\ rows' \in [Atoms -> Holders] /\ UNCHANGED <<doc, serial, erased>>
         /\ \A d \in Calls \ {c} :
              /\ call'[d] \in CallRecords
              /\ call'[d].at = call[d].at /\ call'[d].kind = call[d].kind
              /\ call'[d].loaded = call[d].loaded /\ call'[d].total = call[d].total
              /\ call'[d].wants = call[d].wants
              /\ call[d].keep \subseteq call'[d].keep \cup {a}
              /\ rows[a] # "nobody" => call'[d].keep = call[d].keep
<1>1. UNCHANGED <<doc, serial, erased>> /\ rows' \in [Atoms -> Holders]
      /\ rows' = IF rows[a] = "nobody" THEN [rows EXCEPT ![a] = "me"] ELSE rows
  BY DEF Insert, TypeOK, Holders
<1>2. ASSUME NEW d \in Calls \ {c}
      PROVE  /\ call'[d] \in CallRecords
             /\ call'[d].at = call[d].at /\ call'[d].kind = call[d].kind
             /\ call'[d].loaded = call[d].loaded /\ call'[d].total = call[d].total
             /\ call'[d].wants = call[d].wants
             /\ call[d].keep \subseteq call'[d].keep \cup {a}
             /\ rows[a] # "nobody" => call'[d].keep = call[d].keep
  <2> DEFINE keep == IF rows[a] = "nobody" THEN call[d].keep \ {a} ELSE call[d].keep
  <2>1. call'[d] = [call[d] EXCEPT !.keep = keep]
    BY DEF Insert
  <2>2. call[d] \in CallRecords /\ keep \in SUBSET Atoms
    BY DEF TypeOK, CallRecords
  <2>3. call[d].keep \subseteq keep \cup {a} /\ (rows[a] # "nobody" => keep = call[d].keep)
    OBVIOUS
  <2> HIDE DEF keep
  <2> QED
    BY <2>1, <2>2, <2>3, KeepRecord
<1> QED
  BY <1>1, <1>2

LEMMA InsertKeeps ==
  ASSUME GrantInv, NEW c \in Calls, NEW a \in Atoms, Insert(c, a)
  PROVE  GrantInv'
<1>1. TypeOK /\ call[c].at = "insert" /\ call[c].new \subseteq Atoms /\ Sound(call[c])
  BY DEF GrantInv, TypeOK, CallRecords, Insert
<1>2. TypeOK'
  <2>1. call' = [d \in Calls |-> call'[d]]
    BY DEF Insert
  <2>2. call' \in [Calls -> CallRecords]
    BY <1>1, <2>1, InsertMoves, InsertLeaves
  <2> QED
    BY <1>1, <2>2, InsertLeaves DEF TypeOK
<1>3. GrantMatchesLength' /\ BookedTimeIsSafe'
  BY <1>1, InsertLeaves, CeilingAssumption
     DEF GrantInv, GrantMatchesLength, BookedTimeIsSafe, TypeOK, Atoms
<1>4. Sound(call[c])' /\ KeepsBooked(c)'
  <2>1. Sound(call'[c])
    <3>1. call[c] \in CallRecords /\ call[c].at \in Deciding
      BY <1>1 DEF TypeOK, Deciding
    <3>2. CASE call'[c] = Idle
      BY <3>2, IdleRecord
    <3>3. CASE call'[c].at \in {"insert", "save"} /\ call'[c].kind = call[c].kind
               /\ call'[c].loaded = call[c].loaded /\ call'[c].total = call[c].total
      BY <1>1, <3>1, <3>3, SameDecision
    <3>4. CASE call'[c].at = "find" /\ call'[c].loaded = call[c].loaded /\ call'[c].total = 0
      BY <1>1, <3>1, <3>4, InsertMoves, RefusedIsSound
    <3> QED
      BY <1>1, <3>2, <3>3, <3>4, InsertMoves
  <2>2. erased' = erased
    BY <1>1, InsertLeaves
  <2>3. Sound(call[c])'
    BY <2>1, <2>2 DEF Sound, CopyIsSound, Reach
  <2> QED
    BY <1>1, <2>3, InsertMoves, IdleRecord DEF KeepsBooked
<1>5. ASSUME NEW d \in Calls \ {c} PROVE Sound(call[d])' /\ KeepsBooked(d)'
  <2>1. rows[a] = "nobody" /\ doc.lifecycle = "CHARGING" => a \notin 1..Base
    BY DEF GrantInv, BookedTimeIsSafe
  <2> QED
    BY <1>1, <2>1, InsertLeaves DEF GrantInv, Sound, CopyIsSound, Reach, KeepsBooked
<1> QED
  BY <1>2, <1>3, <1>4, <1>5 DEF GrantInv

\* A save writes the length and what is approved together, or neither, or, of a
\* first decision that granted nothing, only that.
LEMMA SaveWrites ==
  ASSUME GrantInv, NEW c \in Calls, Save(c)
  PROVE  /\ doc' \in Documents /\ doc'.lifecycle = doc.lifecycle
         /\ doc'.length = IF Target(c) # call[c].loaded.length THEN Target(c) ELSE doc.length
         /\ erased' \in BOOLEAN /\ (erased => erased')
         /\ GrantMatchesLength'
<1> DEFINE loaded == call[c].loaded
           total == call[c].total
           length == IF Target(c) # loaded.length THEN Target(c) ELSE doc.length
           approved == IF total # loaded.approved THEN total ELSE doc.approved
           asked == IF call[c].wants # loaded.asked THEN call[c].wants ELSE doc.asked
           count == IF call[c].kind \in {"request", "rejected"}
                    THEN loaded.count + 1 ELSE doc.count
<1>1. /\ doc' = [doc EXCEPT !.length = length, !.approved = approved, !.asked = asked,
                            !.count = count]
      /\ erased' = (erased \/ (loaded.approved = Null /\ total = 0 /\ doc.approved > 0))
      /\ call[c].at \in Deciding
  BY DEF Save, Deciding
<1>2. /\ doc \in Documents /\ loaded \in Documents /\ total \in 0..MostAsked
      /\ call[c].wants \in 0..MostAsked /\ erased \in BOOLEAN
  BY DEF GrantInv, TypeOK, CallRecords
<1>3. /\ Target(c) \in Base..Day /\ Target(c) >= Base + total
      /\ ~erased => Target(c) = Base + total
      /\ Target(c) = loaded.length <=> total = Minutes(loaded)
  BY <1>1, TargetIsBounded DEF GrantInv
<1>4. doc.length >= Base + Minutes(doc) /\ (~erased => doc.length = Base + Minutes(doc))
  BY DEF GrantInv, GrantMatchesLength
<1> HIDE DEF loaded, total
<1>5. length \in Base..Day /\ approved \in {Null} \cup 0..MostAsked
      /\ asked \in 0..MostAsked /\ count \in Nat
  BY <1>2, <1>3 DEF Documents
<1>6. /\ doc' \in Documents /\ doc'.lifecycle = doc.lifecycle
      /\ doc'.length = length /\ doc'.approved = approved
      /\ erased' \in BOOLEAN /\ (erased => erased')
  <2> HIDE DEF length, approved, asked, count
  <2> QED
    BY <1>1, <1>2, <1>5 DEF Documents
<1> DEFINE minutes == IF approved = Null THEN 0 ELSE approved
<1>7. ASSUME length >= Base + minutes, ~erased' => length = Base + minutes
      PROVE  GrantMatchesLength'
  <2>1. Minutes(doc)' = minutes
    <3> HIDE DEF length, approved
    <3> QED
      BY <1>6 DEF Minutes
  <2> HIDE DEF length, approved, minutes
  <2> QED
    BY <1>6, <1>7, <2>1 DEF GrantMatchesLength
<1>8. ASSUME Target(c) # loaded.length PROVE GrantMatchesLength'
  <2>1. total # loaded.approved
    BY <1>2, <1>3, <1>8, MinutesOf DEF Null
  <2>2. length = Target(c) /\ minutes = total
    BY <1>2, <1>8, <2>1 DEF Null
  <2>3. length >= Base + minutes /\ (~erased' => length = Base + minutes)
    BY <1>1, <1>3, <2>2
  <2> HIDE DEF length, approved, minutes
  <2> QED
    BY <1>7, <2>3
<1>9. ASSUME Target(c) = loaded.length /\ total = loaded.approved PROVE GrantMatchesLength'
  <2>1. length = doc.length /\ minutes = Minutes(doc)
    BY <1>9 DEF Minutes
  <2>2. length >= Base + minutes /\ (~erased' => length = Base + minutes)
    BY <1>1, <1>4, <2>1
  <2> HIDE DEF length, approved, minutes
  <2> QED
    BY <1>7, <2>2
<1>10. ASSUME Target(c) = loaded.length /\ total # loaded.approved PROVE GrantMatchesLength'
  <2>1. loaded.approved = Null /\ total = 0
    BY <1>2, <1>3, <1>10, MinutesOf
  <2>2. length = doc.length /\ minutes = 0
    BY <1>10, <2>1 DEF Null
  <2>3. doc.length \in Nat /\ doc.length >= Base
    BY <1>2, MinutesOf, CeilingAssumption
  <2>4. ~erased' => Minutes(doc) = 0
    <3>1. ~erased' => ~(doc.approved > 0)
      BY <1>1, <2>1
    <3>2. doc.approved \in {Null} \cup 0..MostAsked
      BY <1>2 DEF Documents
    <3> QED
      BY <3>1, <3>2, CeilingAssumption DEF Minutes, Null
  <2>5. length >= Base + minutes /\ (~erased' => length = Base + minutes)
    <3> HIDE DEF length, approved, minutes
    <3> QED
      BY <1>4, <1>6, <2>2, <2>3, <2>4, CeilingAssumption
  <2> HIDE DEF length, approved, minutes
  <2> QED
    BY <1>7, <2>5
<1>11. length = IF Target(c) # call[c].loaded.length THEN Target(c) ELSE doc.length
  BY DEF loaded
<1> HIDE DEF length, approved, minutes
<1> QED
  BY <1>6, <1>8, <1>9, <1>10, <1>11

LEMMA SaveKeeps ==
  ASSUME GrantInv, NEW c \in Calls, Save(c)
  PROVE  GrantInv'
<1> USE DEF GrantInv, TypeOK
<1>1. /\ call' = [call EXCEPT ![c] = Idle] /\ UNCHANGED <<rows, serial>>
      /\ call' \in [Calls -> CallRecords]
  BY IdleRecord DEF Save
<1>2. BookedTimeIsSafe'
  BY <1>1, SaveWrites DEF BookedTimeIsSafe
<1>3. ASSUME NEW d \in Calls PROVE Sound(call[d])' /\ KeepsBooked(d)'
  <2>1. Sound(call'[d]) /\ (call'[d] = Idle \/ call'[d] = call[d])
    BY <1>1, IdleRecord
  <2>2. (erased => erased') /\ doc'.lifecycle = doc.lifecycle
    BY SaveWrites
  <2> QED
    BY <2>1, <2>2, IdleRecord DEF Sound, CopyIsSound, Reach, KeepsBooked
<1> QED
  BY <1>1, <1>2, <1>3, SaveWrites

LEMMA EndKeeps ==
  ASSUME GrantInv, NEW c \in Calls, SaveEnd(c) \/ Release(c) \/ Crash(c)
  PROVE  GrantInv'
<1> USE DEF GrantInv, TypeOK
<1>1. CASE SaveEnd(c)
  <2>1. /\ call' = [call EXCEPT ![c].at = "release"] /\ UNCHANGED <<rows, serial, erased>>
        /\ doc' = [doc EXCEPT !.lifecycle = "COMPLETED"]
    BY <1>1 DEF SaveEnd
  <2>2. LET s == [call[c] EXCEPT !.at = "release"]
        IN  /\ s \in CallRecords /\ s.at = "release" /\ s.loaded = call[c].loaded
            /\ s.total = call[c].total /\ s.kind = call[c].kind
    BY StepRecord DEF Steps
  <2>3. doc' \in Documents /\ doc'.lifecycle = "COMPLETED"
        /\ doc'.length = doc.length /\ doc'.approved = doc.approved
    BY <2>1 DEF Documents
  <2>4. call' \in [Calls -> CallRecords] /\ call'[c].at = "release"
        /\ call'[c].loaded = call[c].loaded /\ \A d \in Calls \ {c} : call'[d] = call[d]
    BY <2>1, <2>2
  <2>5. GrantMatchesLength' /\ BookedTimeIsSafe'
    BY <2>1, <2>3 DEF GrantMatchesLength, Minutes, BookedTimeIsSafe
  <2>6. Sound(call'[c]) /\ call'[c].at # "drop"
    BY <2>4 DEF Sound, Deciding
  <2>7. ASSUME NEW d \in Calls PROVE Sound(call'[d])
    BY <2>4, <2>6
  <2>8. ASSUME NEW d \in Calls PROVE Sound(call[d])' /\ KeepsBooked(d)'
    BY <2>1, <2>3, <2>4, <2>7 DEF Sound, CopyIsSound, Reach, KeepsBooked
  <2> QED
    BY <2>1, <2>3, <2>4, <2>5, <2>8
<1>2. CASE Release(c)
  <2>1. /\ call' = [call EXCEPT ![c] = Idle] /\ UNCHANGED <<doc, serial, erased>>
        /\ rows' \in [Atoms -> Holders] /\ doc.lifecycle = "COMPLETED"
        /\ call' \in [Calls -> CallRecords]
    BY <1>2, IdleRecord DEF Release, KeepsBooked, Holders
  <2>2. ASSUME NEW d \in Calls PROVE Sound(call[d])' /\ KeepsBooked(d)'
    BY <2>1, IdleRecord DEF Sound, CopyIsSound, Reach, KeepsBooked, Deciding
  <2> QED
    BY <2>1, <2>2 DEF GrantMatchesLength, BookedTimeIsSafe
<1>3. CASE Crash(c)
  BY <1>3, IdleRecord, CallMoves DEF Crash, Deciding
<1> QED
  BY <1>1, <1>2, <1>3

LEMMA StepGrant == GrantInv /\ [Next]_vars => GrantInv'
<1> SUFFICES ASSUME GrantInv, [Next]_vars PROVE GrantInv'
  OBVIOUS
<1>1. ASSUME NEW c \in Calls, Step(c) PROVE GrantInv'
  BY <1>1, LoadKeeps, LookKeeps, FindKeeps, DropKeeps, InsertKeeps, SaveKeeps, EndKeeps DEF Step
<1>2. ASSUME NEW a \in Atoms, RivalTakes(a) \/ RivalYields(a) PROVE GrantInv'
  <2>1. /\ UNCHANGED <<doc, call, serial, erased>> /\ rows' \in [Atoms -> Holders]
        /\ \A b \in Atoms : rows[b] = "me" => rows'[b] = "me"
    BY <1>2 DEF RivalTakes, RivalYields, GrantInv, TypeOK, Holders
  <2>2. BookedTimeIsSafe'
    BY <2>1, CeilingAssumption DEF GrantInv, BookedTimeIsSafe, Atoms
  <2> QED
    BY <2>1, <2>2 DEF GrantInv, TypeOK, GrantMatchesLength, Sound, CopyIsSound, Reach, KeepsBooked
<1>3. CASE UNCHANGED vars
  BY <1>3 DEF vars, GrantInv, TypeOK, GrantMatchesLength, BookedTimeIsSafe, Sound, CopyIsSound,
              Reach, KeepsBooked
<1> QED
  BY <1>1, <1>2, <1>3 DEF Next

\* The document, the rows and what each call has decided stay well formed: no
\* total exceeds what may be asked, no range the day.
THEOREM TypeCorrect == Spec => []TypeOK
<1>1. GrantInv => TypeOK
  BY DEF GrantInv
<1> QED
  BY InitGrant, StepGrant, <1>1, PTL DEF Spec

\* However many stale decisions are saved over each other, a session is never
\* shorter than what was booked and what is recorded as approved, and exactly as
\* long unless a first decision that granted nothing was saved over a grant.
THEOREM GrantCorrect == Spec => []GrantMatchesLength
<1>1. GrantInv => GrantMatchesLength
  BY DEF GrantInv
<1> QED
  BY InitGrant, StepGrant, <1>1, PTL DEF Spec

\* No interleaving of requests, overrides, top-ups and deaths costs a driver who
\* is charging an atom that was booked.
THEOREM BookedTimeKept == Spec => []BookedTimeIsSafe
<1>1. GrantInv => BookedTimeIsSafe
  BY DEF GrantInv
<1> QED
  BY InitGrant, StepGrant, <1>1, PTL DEF Spec

LEMMA StepCeiling ==
  GrantInv /\ [Next]_vars
    => [doc'.length > doc.length /\ doc'.length > Window
          => \E c \in Calls : /\ call[c].at = "save" /\ call'[c].at # "save"
                             /\ \/ call[c].kind = "override"
                                \/ doc'.length <= call[c].loaded.length]_vars
<1> SUFFICES ASSUME GrantInv, Next, doc'.length > doc.length, doc'.length > Window
             PROVE  \E c \in Calls : /\ call[c].at = "save" /\ call'[c].at # "save"
                                    /\ \/ call[c].kind = "override"
                                       \/ doc'.length <= call[c].loaded.length
  BY DEF vars
<1>1. doc.length \in Nat
  BY MinutesOf DEF GrantInv, TypeOK
<1>2. ASSUME NEW c \in Calls, Save(c)
      PROVE  /\ call[c].at = "save" /\ call'[c].at # "save"
             /\ call[c].kind = "override" \/ doc'.length <= call[c].loaded.length
  <2>1. call[c].at = "save" /\ call[c].at \in Deciding /\ Sound(call[c])
    BY <1>2 DEF Save, Deciding, GrantInv
  <2>2. doc'.length = Target(c) /\ Target(c) \in Nat /\ Target(c) = Reach(call[c])
    BY <1>1, <1>2, <2>1, SaveWrites, TargetIsBounded DEF GrantInv
  <2>3. ~(Target(c) <= Window)
    BY <2>2, CeilingAssumption
  <2>4. call'[c].at # "save"
    BY <1>2, IdleRecord DEF Save, GrantInv, TypeOK
  <2> QED
    BY <2>1, <2>2, <2>3, <2>4 DEF Sound
<1>3. ASSUME NEW c \in Calls, SaveEnd(c) PROVE FALSE
  BY <1>1, <1>3 DEF SaveEnd, GrantInv, TypeOK, Documents
<1>4. UNCHANGED doc \/ \E c \in Calls : Save(c) \/ SaveEnd(c)
  BY DEF Next, Step, RivalTakes, RivalYields, Request, Override, TopUp, End, Load,
         LookForRequest, LookForTopUp, Find, Drop, Insert, Release, Crash
<1> QED
  BY <1>1, <1>2, <1>3, <1>4

\* extensionWindowEnd is a ceiling for drivers and for the optimizer, also when
\* the decision was made on a stale copy of the session.
THEOREM CeilingCorrect == Spec => CeilingHolds
  BY InitGrant, StepGrant, StepCeiling, PTL DEF Spec, CeilingHolds

----------------------------------------------------------------------------
(* The rows, as long as calls take turns                                    *)

Whole == doc.lifecycle = "CHARGING" /\ 1..doc.length \subseteq Mine

RowsRight == IF doc.lifecycle = "CHARGING" THEN 1..doc.length \subseteq Mine ELSE Mine = {}

\* What the one call has done to the rows, at each of its steps.
CallRight(c) ==
    /\ call[c].at # "release" => doc.lifecycle = "CHARGING" /\ call[c].loaded = doc
    /\ call[c].at \in {"look", "find", "settle", "drop", "insert"} => Whole
    /\ call[c].at = "drop" => /\ call[c].keep = Mine \cap (1..Target(c))
                              /\ call[c].new = (1..Target(c)) \ Mine
    /\ call[c].at = "insert" => call[c].busy \/ 1..Target(c) \subseteq Mine \cup call[c].new
    /\ call[c].at = "save" => 1..Target(c) \subseteq Mine

TurnInv ==
    serial => /\ Busy = {} => RowsRight
              /\ \A c \in Busy : Busy = {c} /\ CallRight(c)

LEMMA InitTurn == Init => TurnInv
<1> SUFFICES ASSUME Init PROVE TurnInv
  OBVIOUS
<1>1. Busy = {}
  BY IdleRecord DEF Init, Busy
<1>2. doc.length = Base /\ doc.lifecycle = "CHARGING" /\ \A a \in 1..Base : rows[a] = "me"
  BY CeilingAssumption DEF Init, Booked, Atoms
<1> QED
  BY <1>1, <1>2, CeilingAssumption DEF TurnInv, RowsRight, Mine, Atoms

\* It is enough to look at the one call that takes a step.
LEMMA TurnGoesOn ==
  ASSUME TurnInv, NEW c \in Calls, serial' => serial,
         serial => Busy \subseteq {c},
         \A d \in Calls \ {c} : call'[d].at = call[d].at,
         serial => IF call'[c].at = "idle" THEN RowsRight' ELSE CallRight(c)'
  PROVE  TurnInv'
  BY DEF TurnInv, Busy

LEMMA LoadTurns ==
  ASSUME GrantInv, TurnInv, NEW c \in Calls,
         \/ \E minutes \in 1..MostAsked : Request(c, minutes)
         \/ \E minutes \in 0..MostAsked : Override(c, minutes)
         \/ TopUp(c)
         \/ End(c)
  PROVE  TurnInv'
<1>1. serial' => serial /\ Whole /\ Busy = {}
  BY LoadMoves DEF TurnInv, RowsRight, Whole
<1>2. \A d \in Calls \ {c} : call'[d] = call[d]
  BY LoadMoves DEF GrantInv, TypeOK
<1>3. serial' => CallRight(c)'
  BY <1>1, LoadMoves DEF CallRight, Whole, Mine
<1>4. serial' => Busy' = {c}
  <2>1. call'[c].at # "idle"
    BY LoadMoves
  <2> QED
    BY <1>1, <1>2, <2>1 DEF Busy
<1> QED
  BY <1>3, <1>4 DEF TurnInv

LEMMA LookTurns ==
  ASSUME GrantInv, TurnInv, NEW c \in Calls, LookForRequest(c) \/ LookForTopUp(c)
  PROVE  TurnInv'
<1>1. call[c].at = "look" /\ c \in Busy
  BY LookMoves DEF Busy
<1>2. serial => Busy = {c} /\ CallRight(c)
  BY <1>1 DEF TurnInv
<1>3. \A d \in Calls \ {c} : call'[d] = call[d]
  BY LookMoves DEF GrantInv, TypeOK
<1>4. /\ UNCHANGED <<rows, doc, serial>>
      /\ \/ call'[c].at = "idle"
         \/ call'[c].at = "find" /\ call'[c].loaded = call[c].loaded
  BY LookMoves, IdleRecord
<1>5. serial => Whole /\ Whole' /\ call[c].loaded = doc
  BY <1>1, <1>2, <1>4 DEF CallRight, Whole, Mine
<1>6. serial => RowsRight'
  BY <1>5 DEF Whole, RowsRight
<1>7. serial /\ call'[c].at # "idle" => CallRight(c)'
  BY <1>4, <1>5 DEF CallRight, Whole
<1> QED
  BY <1>2, <1>3, <1>4, <1>6, <1>7, TurnGoesOn

LEMMA FindTurns ==
  ASSUME GrantInv, TurnInv, NEW c \in Calls, Find(c)
  PROVE  TurnInv'
<1>1. call[c].at = "find" /\ c \in Busy /\ UNCHANGED <<rows, doc, serial>>
  BY DEF Busy, Find
<1>2. serial => Busy = {c} /\ CallRight(c)
  BY <1>1 DEF TurnInv
<1>3. TypeOK /\ Sound(call[c]) /\ call \in [Calls -> CallRecords]
  BY DEF GrantInv, TypeOK
<1>4. \A d \in Calls \ {c} : call'[d] = call[d]
  BY <1>3, FindMoves
<1>5. Target(c)' = Target(c) /\ Mine' = Mine
  BY <1>1, <1>3, FindMoves DEF Target, Mine
<1>6. serial => call'[c].at # "idle" /\ CallRight(c)'
  BY <1>1, <1>2, <1>3, <1>5, FindMoves DEF CallRight, Whole
<1> QED
  BY <1>1, <1>2, <1>4, <1>6, TurnGoesOn

\* What is not kept lies behind the new length, and nothing has to be inserted
\* unless the session grows.
LEMMA DropTurns ==
  ASSUME GrantInv, TurnInv, NEW c \in Calls, Drop(c)
  PROVE  TurnInv'
<1>1. call[c].at = "drop" /\ c \in Busy /\ UNCHANGED <<doc, serial, erased>>
  BY DEF Busy, Drop
<1>2. serial => Busy = {c} /\ CallRight(c)
  BY <1>1 DEF TurnInv
<1>3. LET at == IF call[c].new = {} THEN "save" ELSE "insert"
      IN  call' = [call EXCEPT ![c].at = at]
  BY DEF Drop
<1>4. /\ call'[c].at = IF call[c].new = {} THEN "save" ELSE "insert"
      /\ call'[c].new = call[c].new /\ call'[c].loaded = call[c].loaded
      /\ call'[c].total = call[c].total
      /\ \A d \in Calls \ {c} : call'[d] = call[d]
  BY <1>3 DEF GrantInv, TypeOK, CallRecords
<1>5. Target(c)' = Target(c)
  BY <1>4 DEF Target
<1>6. serial => Mine' = call[c].keep
  <2>1. Mine' = {a \in Mine : a \in call[c].keep}
    BY DEF Mine, Drop
  <2> QED
    BY <1>1, <1>2, <2>1 DEF CallRight
<1>7. ASSUME serial PROVE CallRight(c)'
  <2>1. /\ call[c].keep = Mine \cap (1..Target(c)) /\ call[c].new = (1..Target(c)) \ Mine
        /\ Whole /\ doc.lifecycle = "CHARGING" /\ call[c].loaded = doc
    BY <1>1, <1>2, <1>7 DEF CallRight
  <2>2. 1..Target(c) \subseteq call[c].keep \cup call[c].new
    BY <2>1
  <2>3. doc.length \in Nat /\ Target(c) \in Nat
    BY <1>1, TargetIsBounded, MinutesOf DEF GrantInv, TypeOK, Deciding
  <2>4. call[c].new # {} => 1..doc.length \subseteq call[c].keep
    BY <2>1, <2>3 DEF Whole
  <2> QED
    BY <1>1, <1>4, <1>5, <1>6, <1>7, <2>1, <2>2, <2>4 DEF CallRight, Whole
<1> QED
  BY <1>1, <1>2, <1>4, <1>7, TurnGoesOn

LEMMA InsertTurns ==
  ASSUME GrantInv, TurnInv, NEW c \in Calls, NEW a \in Atoms, Insert(c, a)
  PROVE  TurnInv'
<1>1. call[c].at = "insert" /\ c \in Busy /\ TypeOK
  BY DEF Busy, Insert, GrantInv
<1>2. serial => Busy = {c} /\ CallRight(c)
  BY <1>1 DEF TurnInv
<1>3. Mine \subseteq Mine' /\ (rows[a] = "nobody" => a \in Mine')
  BY <1>1, InsertLeaves DEF Mine, TypeOK
<1>4. ASSUME serial PROVE IF call'[c].at = "idle" THEN RowsRight' ELSE CallRight(c)'
  <2>1. /\ Whole /\ Whole' /\ doc' = doc /\ doc.lifecycle = "CHARGING" /\ call[c].loaded = doc
        /\ call[c].busy \/ 1..Target(c) \subseteq Mine \cup call[c].new
    BY <1>1, <1>2, <1>3, <1>4, InsertLeaves DEF CallRight, Whole
  <2>2. CASE call'[c] = Idle
    BY <2>1, <2>2, IdleRecord DEF RowsRight, Whole
  <2>3. CASE call'[c].at = "find" /\ call'[c].loaded = call[c].loaded
    BY <2>1, <2>3 DEF CallRight
  <2>4. CASE /\ call'[c].at \in {"insert", "save"} /\ call'[c].kind = call[c].kind
             /\ call'[c].loaded = call[c].loaded /\ call'[c].total = call[c].total
             /\ call'[c].new = call[c].new \ {a}
             /\ call'[c].busy = (call[c].busy \/ rows[a] # "nobody")
             /\ call'[c].at = "insert" <=> call[c].new # {a}
             /\ call'[c].at = "save" => ~call'[c].busy
    <3>1. Target(c)' = Target(c)
      BY <2>4 DEF Target
    <3>2. call'[c].busy \/ 1..Target(c) \subseteq Mine' \cup call'[c].new
      BY <1>3, <2>1, <2>4
    <3>3. call'[c].at = "save" => call'[c].new = {}
      BY <2>4
    <3> QED
      BY <2>1, <2>4, <3>1, <3>2, <3>3 DEF CallRight
  <2> QED
    BY <1>1, <2>2, <2>3, <2>4, InsertMoves
<1> QED
  BY <1>1, <1>2, <1>4, TurnGoesOn, InsertLeaves

LEMMA SaveTurns ==
  ASSUME GrantInv, TurnInv, NEW c \in Calls, Save(c)
  PROVE  TurnInv'
<1>1. /\ call[c].at = "save" /\ c \in Busy /\ UNCHANGED <<rows, serial>>
      /\ call' = [call EXCEPT ![c] = Idle]
  BY DEF Busy, Save
<1>2. serial => Busy = {c} /\ CallRight(c)
  BY <1>1 DEF TurnInv
<1>3. call'[c].at = "idle" /\ \A d \in Calls \ {c} : call'[d] = call[d]
  BY <1>1, IdleRecord DEF GrantInv, TypeOK
<1>4. serial => RowsRight'
  BY <1>1, <1>2, SaveWrites DEF CallRight, RowsRight, Mine
<1> QED
  BY <1>1, <1>2, <1>3, <1>4, TurnGoesOn

LEMMA EndTurns ==
  ASSUME GrantInv, TurnInv, NEW c \in Calls, SaveEnd(c) \/ Release(c) \/ Crash(c)
  PROVE  TurnInv'
<1>1. c \in Busy /\ (serial => Busy = {c} /\ CallRight(c)) /\ call \in [Calls -> CallRecords]
  BY DEF Busy, SaveEnd, Release, Crash, TurnInv, GrantInv, TypeOK
<1>2. CASE SaveEnd(c)
  <2>1. /\ call' = [call EXCEPT ![c].at = "release"] /\ serial' = serial
    BY <1>2 DEF SaveEnd
  <2>2. call'[c].at = "release" /\ \A d \in Calls \ {c} : call'[d] = call[d]
    BY <1>1, <2>1 DEF CallRecords
  <2>3. CallRight(c)'
    BY <2>2 DEF CallRight
  <2> QED
    BY <1>1, <2>1, <2>2, <2>3, TurnGoesOn
<1>3. CASE Release(c)
  <2>1. /\ call' = [call EXCEPT ![c] = Idle] /\ serial' = serial /\ doc' = doc
        /\ doc.lifecycle = "COMPLETED"
    BY <1>3 DEF Release, GrantInv, KeepsBooked
  <2>2. call'[c].at = "idle" /\ \A d \in Calls \ {c} : call'[d] = call[d]
    BY <1>1, <2>1, IdleRecord
  <2>3. Mine' = {}
    BY <1>3 DEF Release, Mine
  <2>4. RowsRight'
    BY <2>1, <2>3 DEF RowsRight
  <2> QED
    BY <1>1, <2>1, <2>2, <2>4, TurnGoesOn
<1>4. CASE Crash(c)
  BY <1>4 DEF Crash, TurnInv
<1> QED
  BY <1>2, <1>3, <1>4

LEMMA StepTurn == GrantInv /\ TurnInv /\ [Next]_vars => TurnInv'
<1> SUFFICES ASSUME GrantInv, TurnInv, [Next]_vars PROVE TurnInv'
  OBVIOUS
<1>1. ASSUME NEW c \in Calls, Step(c) PROVE TurnInv'
  BY <1>1, LoadTurns, LookTurns, FindTurns, DropTurns, InsertTurns, SaveTurns, EndTurns DEF Step
<1>2. ASSUME NEW a \in Atoms, RivalTakes(a) \/ RivalYields(a) PROVE TurnInv'
  <2>1. UNCHANGED <<doc, call, serial, erased>> /\ Mine' = Mine
    BY <1>2 DEF RivalTakes, RivalYields, GrantInv, TypeOK, Mine
  <2> QED
    BY <2>1 DEF TurnInv, Busy, RowsRight, CallRight, Whole, Target
<1>3. CASE UNCHANGED vars
  BY <1>3 DEF vars, TurnInv, Busy, RowsRight, CallRight, Whole, Target, Mine
<1> QED
  BY <1>1, <1>2, <1>3 DEF Next

\* As long as calls take turns, a session of any length owns every atom of its
\* recorded length while it charges, whatever the rivals take, and no atom once it
\* has ended.  It says nothing of the atoms behind that length, some of which a
\* move that collided may have left with the session (occupancy.service.ts:345).
THEOREM RowsFollowInTurn == Spec => []RowsMatchInTurn
<1>1. TurnInv => RowsMatchInTurn
  BY DEF TurnInv, RowsRight, RowsMatchInTurn
<1> QED
  BY InitGrant, StepGrant, InitTurn, StepTurn, <1>1, PTL DEF Spec
=============================================================================
