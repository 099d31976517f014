----------------------------- MODULE Extension -----------------------------
(***************************************************************************)
(* The length of one live session: a driver's requests for more time       *)
(* (requestExtension), the staff override, the top-up that a capacity      *)
(* release grants (retryUnfulfilledExtensions) and the end of the session  *)
(* (endCharging), all of which move or release the occupancy rows of the   *)
(* reservation through occupancy.service.ts while everybody else wants     *)
(* the atoms behind it.                                                    *)
(*                                                                         *)
(* Minutes are counted in atoms of the charger's day, and the reservation  *)
(* starts at atom 1.  A handler loads the document, asks what is free,     *)
(* moves the rows one write at a time and then saves by _id exactly the    *)
(* fields that differ from what it loaded.                                 *)
(***************************************************************************)
EXTENDS Integers, FiniteSets

CONSTANTS
    Calls,         \* drivers, desks and optimizer passes: one call in flight each
    Base,          \* the atoms that were booked
    Window,        \* the last atom before extensionWindowEnd
    MostAsked,     \* Bound: the most atoms one request asks for
    Day,           \* Bound: the atoms of the charger that can be reached
    MaxExtensions  \* MAX_EXTENSIONS_PER_RESERVATION

ASSUME CeilingAssumption ==
    /\ Base \in Nat \ {0}
    /\ Window \in Nat
    /\ Base <= Window
    /\ MostAsked \in Nat
    /\ Day \in Nat
    /\ Window <= Day
    /\ MaxExtensions \in Nat

VARIABLES
    rows,   \* who holds each atom of the charger
    doc,    \* the fields of the Booking document
    call,   \* each call: its step and what it loaded and decided
    serial, \* no two calls have overlapped and none has died so far
    erased  \* a first decision that granted nothing was saved over a grant

vars == <<rows, doc, call, serial, erased>>

Atoms == 1..Day
Holders == {"nobody", "me", "rival"}
Mine == {a \in Atoms : rows[a] = "me"}

Kinds == {"none", "request", "rejected", "override", "topup", "end"}
Steps == {"idle", "look", "find", "drop", "insert", "save", "settle", "release"}

\* approvedExtensionMinutes before the first decision is saved: it counts as no
\* minutes, and yet no minutes are another value to save.
Null == -1

\* approved, asked and count are the fields of the extensions; the amount, which
\* is computed from the length, is left out.
Documents == [lifecycle : {"CHARGING", "COMPLETED"}, length : Base..Day,
              approved : {Null} \cup 0..MostAsked, asked : 0..MostAsked, count : Nat]

\* previouslyApproved
Minutes(d) == IF d.approved = Null THEN 0 ELSE d.approved

\* loaded is the document as it was read; wants and total are the requested and
\* the approved minutes that finalizeExtension is given.
CallRecords == [at : Steps, kind : Kinds, loaded : Documents, wants : 0..MostAsked,
                total : 0..MostAsked, keep : SUBSET Atoms, new : SUBSET Atoms,
                busy : BOOLEAN]

Booked == [lifecycle |-> "CHARGING", length |-> Base, approved |-> Null,
           asked |-> 0, count |-> 0]
Idle == [at |-> "idle", kind |-> "none", loaded |-> Booked, wants |-> 0, total |-> 0,
         keep |-> {}, new |-> {}, busy |-> FALSE]

TypeOK ==
    /\ rows \in [Atoms -> Holders]
    /\ doc \in Documents
    /\ call \in [Calls -> CallRecords]
    /\ serial \in BOOLEAN
    /\ erased \in BOOLEAN

\* The session has begun, on the atoms that were booked; others hold any of the
\* atoms behind it.
Init ==
    /\ rows \in {r \in [Atoms -> Holders] :
                    \A a \in Atoms : IF a <= Base THEN r[a] = "me" ELSE r[a] # "me"}
    /\ doc = Booked
    /\ call = [c \in Calls |-> Idle]
    /\ serial = TRUE
    /\ erased = FALSE

----------------------------------------------------------------------------
(* Everybody else: claims, offers, cancellations, sweeps and purges          *)

RivalTakes(a) ==
    /\ rows[a] = "nobody"
    /\ rows' = [rows EXCEPT ![a] = "rival"]
    /\ UNCHANGED <<doc, call, serial, erased>>

RivalYields(a) ==
    /\ rows[a] = "rival"
    /\ rows' = [rows EXCEPT ![a] = "nobody"]
    /\ UNCHANGED <<doc, call, serial, erased>>

----------------------------------------------------------------------------
(* Loading the document and deciding                                        *)

Busy == {c \in Calls : call[c].at # "idle"}

Load(c, kind, at, wants, total) ==
    /\ call[c].at = "idle"
    /\ doc.lifecycle = "CHARGING"
    /\ call' = [call EXCEPT ![c] = [Idle EXCEPT !.at = at, !.kind = kind, !.loaded = doc,
                                                !.wants = wants, !.total = total]]
    /\ serial' = (serial /\ Busy = {})
    /\ UNCHANGED <<rows, doc, erased>>

Request(c, minutes) ==
    /\ doc.count < MaxExtensions
    /\ Load(c, "request", "look", minutes, 0)

\* Staff state a number; what is free is not looked at, but Day bounds it.
Override(c, minutes) ==
    /\ doc.asked > 0
    /\ minutes <= doc.asked
    /\ doc.length - Minutes(doc) + minutes <= Day
    /\ Load(c, "override", "find", doc.asked, minutes)

\* A pass found a session that was granted less than it asked for.
TopUp(c) ==
    /\ doc.asked > Minutes(doc)
    /\ Load(c, "topup", "look", doc.asked, 0)

End(c) == Load(c, "end", "settle", doc.asked, 0)

\* Mutant of Runway: the day ends with the last atom, not with the window.
RunwayOfDay(from) ==
    {n \in 0..(Day - from) :
        /\ \A a \in (from + 1)..(from + n) : rows[a] = "nobody"
        /\ n < Day - from => rows[from + n + 1] # "nobody"}

\* maxContiguousFreeMinutes from the end of the session to the end of the
\* window: the one n for which it stops.
Runway(from) ==
    IF from >= Window THEN {0}
    ELSE {n \in 0..(Window - from) :
             /\ \A a \in (from + 1)..(from + n) : rows[a] = "nobody"
             /\ n < Window - from => rows[from + n + 1] # "nobody"}

\* decideExtension
Granted(minutes, free) == IF free < minutes THEN free ELSE minutes

\* Nothing is free at a charger that is out of service.
LookForRequest(c) ==
    /\ call[c].at = "look"
    /\ call[c].kind = "request"
    /\ \E free \in Runway(call[c].loaded.length) \cup {0} :
         call' = [call EXCEPT ![c].at = "find", ![c].total = Granted(call[c].wants, free)]
    /\ UNCHANGED <<rows, doc, serial, erased>>

LookForTopUp(c) ==
    LET loaded == call[c].loaded IN
    /\ call[c].at = "look"
    /\ call[c].kind = "topup"
    /\ \E free \in Runway(loaded.length) \cup {0} :
         call' = [call EXCEPT ![c] =
                    IF free = 0 THEN Idle
                    ELSE [call[c] EXCEPT
                            !.at = "find",
                            !.total = Minutes(loaded)
                                      + Granted(call[c].wants - Minutes(loaded), free)]]
    /\ UNCHANGED <<rows, doc, serial, erased>>

----------------------------------------------------------------------------
(* finalizeExtension and moveOccupancy                                      *)

\* Mutant of Target: the minutes approved before are counted again.
TargetTwice(c) == call[c].loaded.length + call[c].total

\* targetDurationMinutes
Target(c) == call[c].loaded.length - Minutes(call[c].loaded) + call[c].total

\* Mutant of Find: the old range is given up before the new one is claimed.
FindNothing(c) ==
    /\ call[c].at = "find"
    /\ call' = [call EXCEPT
                  ![c] = IF Target(c) = call[c].loaded.length THEN [@ EXCEPT !.at = "save"]
                         ELSE [@ EXCEPT !.at = "drop", !.keep = {}, !.new = 1..Target(c)]]
    /\ UNCHANGED <<rows, doc, serial, erased>>

\* The rows the new range keeps, and the atoms it needs on top of them.  A
\* decision that leaves the length as it is moves nothing.
Find(c) ==
    /\ call[c].at = "find"
    /\ call' = [call EXCEPT
                  ![c] = IF Target(c) = call[c].loaded.length THEN [@ EXCEPT !.at = "save"]
                         ELSE [@ EXCEPT !.at = "drop",
                                        !.keep = Mine \cap (1..Target(c)),
                                        !.new = (1..Target(c)) \ Mine]]
    /\ UNCHANGED <<rows, doc, serial, erased>>

\* deleteMany of every row of the reservation that is not kept.
Drop(c) ==
    /\ call[c].at = "drop"
    /\ rows' = [a \in Atoms |-> IF rows[a] = "me" /\ a \notin call[c].keep
                                THEN "nobody" ELSE rows[a]]
    /\ call' = [call EXCEPT ![c].at = IF call[c].new = {} THEN "save" ELSE "insert"]
    /\ UNCHANGED <<doc, serial, erased>>

\* CHARGER_BUSY: a request is decided again, as rejected; staff are told; a
\* top-up is dropped.  The documents that were inserted stay.
Refused(c) ==
    IF call[c].kind = "request"
    THEN [call[c] EXCEPT !.at = "find", !.kind = "rejected", !.total = 0,
                         !.keep = {}, !.new = {}, !.busy = FALSE]
    ELSE Idle

\* Mutant of Insert: a duplicate key is taken for a row that is there already.
InsertUnnoticed(c, a) ==
    LET won == rows[a] = "nobody"
        rest == [call[c] EXCEPT !.new = @ \ {a}] IN
    /\ call[c].at = "insert"
    /\ a \in call[c].new
    /\ rows' = IF won THEN [rows EXCEPT ![a] = "me"] ELSE rows
    /\ call' = [d \in Calls |->
                  IF d # c THEN [call[d] EXCEPT !.keep = IF won THEN @ \ {a} ELSE @]
                  ELSE IF call[c].new # {a} THEN rest ELSE [rest EXCEPT !.at = "save"]]
    /\ UNCHANGED <<doc, serial, erased>>

\* insertMany with ordered: false writes its documents in any order and goes on
\* after a duplicate key.  A row that is written again is another document: it
\* is not the one that another call has decided to keep.
Insert(c, a) ==
    LET won == rows[a] = "nobody"
        rest == [call[c] EXCEPT !.new = @ \ {a}, !.busy = @ \/ ~won] IN
    /\ call[c].at = "insert"
    /\ a \in call[c].new
    /\ rows' = IF won THEN [rows EXCEPT ![a] = "me"] ELSE rows
    /\ call' = [d \in Calls |->
                  IF d # c THEN [call[d] EXCEPT !.keep = IF won THEN @ \ {a} ELSE @]
                  ELSE IF call[c].new # {a} THEN rest
                  ELSE IF rest.busy THEN Refused(c)
                  ELSE [rest EXCEPT !.at = "save"]]
    /\ UNCHANGED <<doc, serial, erased>>

\* A request counts, whatever was decided; an override and a top-up do not.  The
\* first decision writes what it approved even if that is nothing.
Save(c) ==
    LET loaded == call[c].loaded
        granted == call[c].total IN
    /\ call[c].at = "save"
    /\ doc' = [doc EXCEPT
                 !.length = IF Target(c) # loaded.length THEN Target(c) ELSE @,
                 !.approved = IF granted # loaded.approved THEN granted ELSE @,
                 !.asked = IF call[c].wants # loaded.asked THEN call[c].wants ELSE @,
                 !.count = IF call[c].kind \in {"request", "rejected"}
                           THEN loaded.count + 1 ELSE @]
    /\ erased' = (erased \/ (loaded.approved = Null /\ granted = 0 /\ doc.approved > 0))
    /\ call' = [call EXCEPT ![c] = Idle]
    /\ UNCHANGED <<rows, serial>>

----------------------------------------------------------------------------
(* endCharging, and the death of a handler                                  *)

SaveEnd(c) ==
    /\ call[c].at = "settle"
    /\ doc' = [doc EXCEPT !.lifecycle = "COMPLETED"]
    /\ call' = [call EXCEPT ![c].at = "release"]
    /\ UNCHANGED <<rows, serial, erased>>

\* Mutant of Release: only the time that was booked is given back.
ReleaseBooked(c) ==
    /\ call[c].at = "release"
    /\ rows' = [a \in Atoms |-> IF a \in Mine /\ a <= Base THEN "nobody" ELSE rows[a]]
    /\ call' = [call EXCEPT ![c] = Idle]
    /\ UNCHANGED <<doc, serial, erased>>

\* releaseOccupancy deletes by booking.
Release(c) ==
    /\ call[c].at = "release"
    /\ rows' = [a \in Atoms |-> IF a \in Mine THEN "nobody" ELSE rows[a]]
    /\ call' = [call EXCEPT ![c] = Idle]
    /\ UNCHANGED <<doc, serial, erased>>

Crash(c) ==
    /\ c \in Busy
    /\ call' = [call EXCEPT ![c] = Idle]
    /\ serial' = FALSE
    /\ UNCHANGED <<rows, doc, erased>>

----------------------------------------------------------------------------

Step(c) ==
    \/ \E minutes \in 1..MostAsked : Request(c, minutes)
    \/ \E minutes \in 0..MostAsked : Override(c, minutes)
    \/ TopUp(c)
    \/ End(c)
    \/ LookForRequest(c)
    \/ LookForTopUp(c)
    \/ Find(c)
    \/ Drop(c)
    \/ \E a \in Atoms : Insert(c, a)
    \/ Save(c)
    \/ SaveEnd(c)
    \/ Release(c)
    \/ Crash(c)

Next ==
    \/ \E c \in Calls : Step(c)
    \/ \E a \in Atoms : RivalTakes(a) \/ RivalYields(a)

Spec == Init /\ [][Next]_vars

----------------------------------------------------------------------------
(* Properties                                                               *)

\* No request, override or top-up, however they overlap, lose their races or
\* die half way, ever costs a driver who is charging the time that was booked:
\* moveOccupancy deletes only what the new range does not keep
\* (occupancy.service.ts:314-321), and no decision goes below the base
\* (extension.service.ts:110-111).
BookedTimeIsSafe ==
    doc.lifecycle = "CHARGING" => \A a \in 1..Base : rows[a] = "me"

\* However saves of decisions over stale copies interleave, the session is never
\* shorter than what was booked and what is recorded as approved, and exactly as
\* long unless a first decision that granted nothing was saved over a grant: the
\* approved minutes go from null to 0 (extension.service.ts:146) without the
\* length (:114), and every later decision starts from there (:110-112).
GrantMatchesLength ==
    /\ doc.length >= Base + Minutes(doc)
    /\ ~erased => doc.length = Base + Minutes(doc)

\* As long as calls take turns, a driver who is charging owns every atom of the
\* recorded length, whatever the rivals took meanwhile, and a session that ended
\* has left nothing behind, not even what a move that collided had inserted.
RowsMatchInTurn ==
    serial /\ Busy = {}
        => IF doc.lifecycle = "CHARGING" THEN 1..doc.length \subseteq Mine ELSE Mine = {}

\* "The ceiling an extension can never cross" (extension.service.ts:48): also
\* when calls overlap, the decision that makes a session longer and ends behind
\* its window is one of staff, or one that found the session already as long.
CeilingHolds ==
    [][doc'.length > doc.length /\ doc'.length > Window
         => \E c \in Calls : /\ call[c].at = "save" /\ call'[c].at # "save"
                            /\ \/ call[c].kind = "override"
                               \/ doc'.length <= call[c].loaded.length]_vars

=============================================================================
