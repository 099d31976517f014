------------------------------- MODULE Slots -------------------------------
(***************************************************************************)
(* Reservations over published intervals (Slot documents): the claim,      *)
(* expiry, promotion, cancellation and end of booking.service.ts and       *)
(* commitment.service.ts, the move of reservationMove.service.ts, and the  *)
(* script reconcile-inventory.ts that is to repair what they leave.        *)
(*                                                                         *)
(* A reservation and its slot are two documents, and no operation but the  *)
(* no-show sweep writes both at once.  What arbitrates are the partial     *)
(* unique index on slotId, the updates of a slot that are conditional on   *)
(* its status, and the order of the writes.                                *)
(*                                                                         *)
(* The names of the specification carry the module's (SlotsInit, SlotsNext,*)
(* SlotsSpec): ReservationProofs extends Commitment beside it.             *)
(***************************************************************************)
CONSTANTS
    Slots,
    Bookings, \* reservations that may be made
    Calls,    \* handlers: each serves one call at a time
    None

ASSUME NoneIsNothing == None \notin Slots \cup Bookings

VARIABLES
    slot,    \* the status of each Slot
    booking, \* status and slotId of each Booking
    call,    \* each call: its step and what it has loaded
    script,  \* the reconciliation: its step and the slots it has read
    order    \* kept, until somebody cancels what is cancelled: twice; lost, once a
             \* reservation was served twice at once or stranded by its move, a call
             \* died or a slot was forced

slotsVars == <<slot, booking, call, script, order>>

SlotStatuses == {"available", "booked", "blocked", "completed"}

\* "spent" stands for completed and no_show; "none" is not created yet, and
\* "deleted" was undone by its own claim.
Holding == {"pending", "confirmed"}
Indexed == Holding \cup {"spent"}
Statuses == Indexed \cup {"none", "cancelled", "deleted"}

Steps == {"idle", "lapse", "look", "create", "flip", "undo", "save", "free", "spend",
          "target", "repoint", "take", "putback", "leave"}

\* booking is the reservation a call is about, status and prev what it loaded
\* of it, set the status it will save, slot the interval it writes.  A claim
\* that first expires another reservation goes on with the one in then.
CallRecords == [at : Steps, booking : Bookings \cup {None}, then : Bookings \cup {None},
                status : Statuses, set : Statuses,
                slot : Slots \cup {None}, prev : Slots \cup {None}]
Idle == [at |-> "idle", booking |-> None, then |-> None, status |-> "none", set |-> "none",
         slot |-> None, prev |-> None]

\* quiet: no handler has run since the script began.
ScriptRecords == [at : {"idle", "spent", "close", "live", "free"},
                  found : SUBSET Slots, quiet : BOOLEAN]
Resting == [at |-> "idle", found |-> {}, quiet |-> TRUE]

SlotsTypeOK ==
    /\ slot \in [Slots -> SlotStatuses]
    /\ booking \in [Bookings -> [status : Statuses, slot : Slots \cup {None}]]
    /\ call \in [Calls -> CallRecords]
    /\ script \in ScriptRecords
    /\ order \in {"kept", "twice", "lost"}

SlotsInit ==
    /\ slot = [s \in Slots |-> "available"]
    /\ booking = [b \in Bookings |-> [status |-> "none", slot |-> None]]
    /\ call = [c \in Calls |-> Idle]
    /\ script = Resting
    /\ order = "kept"

At(s, statuses) == {b \in Bookings : booking[b].slot = s /\ booking[b].status \in statuses}
Busy == {c \in Calls : call[c].at # "idle"}
Serving(b) == {c \in Busy : b \in {call[c].booking, call[c].then}}
Noticed == script' = [script EXCEPT !.quiet = script.at = "idle"]
LostIf(bad) == order' = IF bad THEN "lost" ELSE order

----------------------------------------------------------------------------
(* Beginning a call                                                         *)

\* A call begins that serves the reservations in served.
Enter(c, served, record) ==
    /\ call[c].at = "idle"
    /\ call' = [call EXCEPT ![c] = record]
    /\ order' = IF script.at # "idle" \/ \E b \in served : Serving(b) # {} THEN "lost"
                ELSE IF order = "kept" /\ {record.status, record.set} = {"cancelled"} THEN "twice"
                ELSE order
    /\ Noticed
    /\ UNCHANGED <<slot, booking>>

\* claimReservation first expires a hold that has lapsed on the slot, if it finds one.
Claim(c, b, s) ==
    /\ booking[b].status = "none" /\ Serving(b) = {}
    /\ \/ Enter(c, {b}, [Idle EXCEPT !.at = "look", !.booking = b, !.slot = s])
       \/ \E e \in At(s, {"pending"}) :
            Enter(c, {b, e}, [Idle EXCEPT !.at = "lapse", !.booking = e, !.then = b,
                                          !.slot = s])

\* One round of expirePendingCommitments.
Expire(c, b) ==
    /\ booking[b].status = "pending"
    /\ Enter(c, {b}, [Idle EXCEPT !.at = "lapse", !.booking = b, !.slot = booking[b].slot])

\* A handler that loads the document, awaits something and saves a new status.
Edit(c, b, next) ==
    Enter(c, {b}, [Idle EXCEPT !.at = "save", !.booking = b, !.status = booking[b].status,
                               !.set = next, !.slot = booking[b].slot])

\* The promotion of a paid reservation.
ConfirmPaid(c, b) ==
    /\ booking[b].status = "pending"
    /\ Edit(c, b, "confirmed")

\* A status that does not change is not checked against ALLOWED_TRANSITIONS.
Cancel(c, b) ==
    /\ booking[b].status \in Holding \cup {"cancelled"}
    /\ Edit(c, b, "cancelled")

\* updateReservation to completed or no_show, and endCharging.
End(c, b) ==
    /\ booking[b].status \in Indexed
    /\ Edit(c, b, "spent")

\* Only a reservation whose session has not begun can be moved.
Move(c, b, s) ==
    /\ booking[b].status \in Holding
    /\ s # booking[b].slot
    /\ Enter(c, {b}, [Idle EXCEPT !.at = "target", !.booking = b, !.slot = s,
                                  !.prev = booking[b].slot])

----------------------------------------------------------------------------
(* The steps of a call                                                      *)

Unmoved == UNCHANGED <<script, order>>
Goes(c, at) == call' = [call EXCEPT ![c] = IF at = "idle" THEN Idle ELSE [@ EXCEPT !.at = at]]
SetSlot(s, from, to) == slot' = IF s # None /\ slot[s] = from THEN [slot EXCEPT ![s] = to] ELSE slot

\* What a call does after it has expired a hold: the claim it served goes on.
Resumes(c) ==
    LET claim == call[c].then IN
    call' = [call EXCEPT ![c] = IF claim = None THEN Idle
                                ELSE [@ EXCEPT !.at = "look", !.booking = claim, !.then = None]]

\* releaseExpired cancels only what is still pending: the loser changes nothing.
Lapse(c) ==
    LET b == call[c].booking IN
    /\ call[c].at = "lapse"
    /\ IF booking[b].status = "pending"
       THEN booking' = [booking EXCEPT ![b].status = "cancelled"] /\ Goes(c, "free")
       ELSE Resumes(c) /\ UNCHANGED booking
    /\ UNCHANGED slot
    /\ Unmoved

Look(c) ==
    /\ call[c].at = "look"
    /\ Goes(c, IF slot[call[c].slot] = "available" THEN "create" ELSE "idle")
    /\ UNCHANGED <<slot, booking>>
    /\ Unmoved

\* Booking.create under the partial unique index; a desk claim is born confirmed.
Create(c) ==
    LET b == call[c].booking
        s == call[c].slot IN
    /\ call[c].at = "create"
    /\ IF At(s, Indexed) = {}
       THEN \E status \in Holding : /\ booking' = [booking EXCEPT ![b] = [status |-> status, slot |-> s]]
                                    /\ Goes(c, "flip")
       ELSE UNCHANGED booking /\ Goes(c, "idle")
    /\ UNCHANGED slot
    /\ Unmoved

\* Mutant of Flip: it does not ask whether the interval is still free.
FlipAnyway(c) ==
    /\ call[c].at = "flip"
    /\ slot' = [slot EXCEPT ![call[c].slot] = "booked"]
    /\ Goes(c, "idle")
    /\ UNCHANGED booking
    /\ Unmoved

Flip(c) ==
    LET s == call[c].slot IN
    /\ call[c].at = "flip"
    /\ SetSlot(s, "available", "booked")
    /\ Goes(c, IF slot[s] = "available" THEN "idle" ELSE "undo")
    /\ UNCHANGED booking
    /\ Unmoved

Undo(c) ==
    /\ call[c].at = "undo"
    /\ booking' = [booking EXCEPT ![call[c].booking] = [status |-> "deleted", slot |-> None]]
    /\ Goes(c, "idle")
    /\ UNCHANGED slot
    /\ Unmoved

\* save() writes by _id, if the status differs from what was loaded; the index
\* refuses to revive a reservation over a slot that is held, and there is nothing
\* to save of one that was undone.
Save(c) ==
    LET b == call[c].booking
        set == call[c].set
        writes == set # call[c].status
        refused == /\ writes
                   /\ \/ booking[b].status = "deleted"
                      \/ set \in Indexed /\ At(booking[b].slot, Indexed) \ {b} # {} IN
    /\ call[c].at = "save"
    /\ booking' = IF writes /\ ~refused THEN [booking EXCEPT ![b].status = set] ELSE booking
    /\ Goes(c, CASE refused -> "idle"
                 [] set = "cancelled" -> "free"
                 [] set = "spent" -> "spend"
                 [] OTHER -> "idle")
    /\ UNCHANGED slot
    /\ Unmoved

\* releaseReservationSlot, by the slotId that was loaded.
Free(c) ==
    /\ call[c].at = "free"
    /\ SetSlot(call[c].slot, "booked", "available")
    /\ Resumes(c)
    /\ UNCHANGED booking
    /\ Unmoved

Spend(c) ==
    /\ call[c].at = "spend"
    /\ SetSlot(call[c].slot, "booked", "completed")
    /\ Goes(c, "idle")
    /\ UNCHANGED booking
    /\ Unmoved

----------------------------------------------------------------------------
(* moveReservation                                                          *)

LookAtTarget(c) ==
    /\ call[c].at = "target"
    /\ Goes(c, IF slot[call[c].slot] = "available" THEN "repoint" ELSE "idle")
    /\ UNCHANGED <<slot, booking>>
    /\ Unmoved

\* Conditional on the slotId that was loaded, and on nothing else; the index
\* speaks only for a reservation that is not cancelled.
Repoint(c) ==
    LET b == call[c].booking
        refused == \/ booking[b].slot # call[c].prev
                   \/ booking[b].status \in Indexed /\ At(call[c].slot, Indexed) # {} IN
    /\ call[c].at = "repoint"
    /\ booking' = IF refused THEN booking ELSE [booking EXCEPT ![b].slot = call[c].slot]
    /\ Goes(c, IF refused THEN "idle" ELSE "take")
    /\ UNCHANGED slot
    /\ Unmoved

Take(c) ==
    /\ call[c].at = "take"
    /\ SetSlot(call[c].slot, "available", "booked")
    /\ Goes(c, IF slot[call[c].slot] = "available" THEN "leave" ELSE "putback")
    /\ UNCHANGED booking
    /\ Unmoved

PutBack(c) ==
    LET b == call[c].booking
        prev == call[c].prev
        refused == \/ booking[b].slot # call[c].slot
                   \/ booking[b].status \in Indexed /\ At(prev, Indexed) \ {b} # {} IN
    /\ call[c].at = "putback"
    /\ booking' = IF refused THEN booking ELSE [booking EXCEPT ![b].slot = prev]
    /\ Goes(c, "idle")
    /\ LostIf(refused)
    /\ UNCHANGED <<slot, script>>

Leave(c) ==
    /\ call[c].at = "leave"
    /\ SetSlot(call[c].prev, "booked", "available")
    /\ Goes(c, "idle")
    /\ UNCHANGED booking
    /\ Unmoved

Crash(c) ==
    /\ c \in Busy
    /\ call' = [call EXCEPT ![c] = Idle]
    /\ LostIf(TRUE)
    /\ UNCHANGED <<slot, booking, script>>

----------------------------------------------------------------------------
(* The no-show transaction, the admin route and the reconciliation          *)

SweepNoShow(b) ==
    /\ booking[b].status = "confirmed"
    /\ booking' = [booking EXCEPT ![b].status = "spent"]
    /\ SetSlot(booking[b].slot, "booked", "completed")
    /\ LostIf(Serving(b) # {} \/ script.at # "idle")
    /\ Noticed
    /\ UNCHANGED <<call>>

\* PATCH /api/slots asks for no particular status.
Admin(s, status) ==
    /\ status # slot[s]
    /\ slot' = [slot EXCEPT ![s] = status]
    /\ LostIf(slot[s] \in {"booked", "completed"})
    /\ UNCHANGED <<booking, call, script>>

ScriptGoes(at, found) == script' = [script EXCEPT !.at = at, !.found = found]

\* C: confirmed reservations whose time has passed are completed.
CloseExpired ==
    /\ script.at = "idle"
    /\ \E past \in SUBSET {b \in Bookings : booking[b].status = "confirmed"} :
         booking' = [b \in Bookings |->
                       IF b \in past THEN [booking[b] EXCEPT !.status = "spent"] ELSE booking[b]]
    /\ script' = [at |-> "spent", found |-> {}, quiet |-> Busy = {}]
    /\ LostIf(Busy # {})
    /\ UNCHANGED <<slot, call>>

ReadSpent ==
    /\ script.at = "spent"
    /\ ScriptGoes("close", {s \in Slots : At(s, {"spent"}) # {}})
    /\ UNCHANGED <<slot, booking, call, order>>

\* B: slots that a spent reservation holds are completed.
CloseSpent ==
    /\ script.at = "close"
    /\ slot' = [s \in Slots |-> IF s \in script.found /\ slot[s] = "booked"
                                THEN "completed" ELSE slot[s]]
    /\ ScriptGoes("live", {})
    /\ UNCHANGED <<booking, call, order>>

\* Mutant of ReadLive: distinct slotIds without the filter on the status.
ReadAny ==
    /\ script.at = "live"
    /\ ScriptGoes("free", {s \in Slots : At(s, Statuses) # {}})
    /\ UNCHANGED <<slot, booking, call, order>>

ReadLive ==
    /\ script.at = "live"
    /\ ScriptGoes("free", {s \in Slots : At(s, Indexed) # {}})
    /\ UNCHANGED <<slot, booking, call, order>>

\* A: booked slots that nothing holds become available.
FreePhantoms ==
    /\ script.at = "free"
    /\ slot' = [s \in Slots |-> IF s \notin script.found /\ slot[s] = "booked"
                                THEN "available" ELSE slot[s]]
    /\ script' = Resting
    /\ UNCHANGED <<booking, call, order>>

ScriptDies ==
    /\ script.at # "idle"
    /\ script' = Resting
    /\ LostIf(TRUE)
    /\ UNCHANGED <<slot, booking, call>>

----------------------------------------------------------------------------

Begin(c) ==
    \E b \in Bookings :
        \/ Expire(c, b) \/ ConfirmPaid(c, b) \/ Cancel(c, b) \/ End(c, b)
        \/ \E s \in Slots : Claim(c, b, s) \/ Move(c, b, s)

Work(c) ==
    \/ Lapse(c) \/ Look(c) \/ Create(c) \/ Flip(c) \/ Undo(c) \/ Save(c) \/ Free(c) \/ Spend(c)
    \/ LookAtTarget(c) \/ Repoint(c) \/ Take(c) \/ PutBack(c) \/ Leave(c)

Script == CloseExpired \/ ReadSpent \/ CloseSpent \/ ReadLive \/ FreePhantoms \/ ScriptDies

SlotsNext ==
    \/ \E c \in Calls : Begin(c) \/ Work(c) \/ Crash(c)
    \/ \E b \in Bookings : SweepNoShow(b)
    \/ \E s \in Slots, status \in {"available", "blocked"} : Admin(s, status)
    \/ Script

SlotsSpec == SlotsInit /\ [][SlotsNext]_slotsVars

----------------------------------------------------------------------------
(* Properties                                                               *)

\* A reservation that no call is serving holds a booked slot.
HoldersAreBooked ==
    \A b \in Bookings :
        booking[b].status \in Holding /\ Serving(b) = {} =>
            booking[b].slot # None /\ slot[booking[b].slot] = "booked"

\* A booked slot is held, or some call has it in hand.
BookedAreHeld ==
    \A s \in Slots : slot[s] = "booked" =>
        At(s, Holding) # {} \/ \E c \in Busy : s \in {call[c].slot, call[c].prev}

\* However claims, expiries, moves, cancellations and ends of different
\* reservations interleave at their awaits, holders and booked slots agree
\* (reconcile-inventory.ts:7-9), unless one reservation was served twice at
\* once, a call died or a slot was forced, or a reservation was cancelled twice.
SlotsAgree ==
    order = "kept" /\ script.at = "idle" => HoldersAreBooked /\ BookedAreHeld

\* "which the claim path and the lifecycle guard now maintain going forward"
\* (reconcile-inventory.ts:4): the same, with no word of a second cancellation.
GuardMaintains == order # "lost" /\ script.at = "idle" => HoldersAreBooked /\ BookedAreHeld

\* Whatever was left by crashes, forced slots and overlapping calls, a
\* reconciliation that has the database to itself leaves no slot booked that
\* no reservation holds, and none whose reservation is over.
PhantomsAreReleased ==
    [][FreePhantoms /\ script.quiet =>
         \A s \in Slots : slot'[s] = "booked" => At(s, Holding) # {}]_slotsVars
=============================================================================
