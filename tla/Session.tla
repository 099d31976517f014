------------------------------ MODULE Session ------------------------------
(***************************************************************************)
(* One reservation from the deposit to its end: checkIn, startCharging,    *)
(* endCharging, updateReservation (cancel, complete, no-show) and the      *)
(* transactional sweepNoShows of booking.service.ts, with the two writers  *)
(* of commitment.service.ts, the promotion of a paid deposit and the       *)
(* expiry of an unpaid hold.                                               *)
(*                                                                         *)
(* A handler loads the document, edits its copy, awaits the settlement or  *)
(* the overstay record, saves and then gives the charger time back.  save()*)
(* updates by _id, unconditionally, exactly the fields that differ from    *)
(* what was loaded.  Where the money is, is Commitment's business.         *)
(***************************************************************************)
CONSTANT Calls \* drivers, desk and operators: each has one call in flight at a time

VARIABLES
    booking, \* the fields of the Booking document
    lease,   \* it holds charger time: its occupancy rows, or its slot
    call,    \* each call: where it stands and the fields its save() will set
    serial,  \* no two handlers have overlapped so far
    crossed, \* a promotion was saved under a call that had found it unpaid
    died     \* some handler has died half way

vars == <<booking, lease, call, serial, crossed, died>>

CheckInable == {"RESERVED", "LATE", "AT_RISK"}
Startable == CheckInable \cup {"ARRIVED"}
Holding == Startable \cup {"PENDING_PAYMENT", "CHARGING", "EXTENSION_REQUESTED"}
Lifecycles == Holding \cup {"COMPLETED", "CANCELLED", "NO_SHOW"}
Gone == {"cancelled", "no_show"}
Terminal == Gone \cup {"completed"}
Statuses == Terminal \cup {"pending", "confirmed"}

Documents == [lifecycle : Lifecycles, status : Statuses,
              payment : {"pending", "paid", "refunded", "forfeited"},
              arrived : BOOLEAN, started : BOOLEAN, ended : BOOLEAN]

\* lifecycleToLegacyStatus
Legacy(lifecycle) ==
    CASE lifecycle = "PENDING_PAYMENT" -> "pending"
      [] lifecycle = "COMPLETED" -> "completed"
      [] lifecycle = "CANCELLED" -> "cancelled"
      [] lifecycle = "NO_SHOW" -> "no_show"
      [] OTHER -> "confirmed"

Claimed(lifecycle, payment) ==
    [lifecycle |-> lifecycle, status |-> Legacy(lifecycle), payment |-> payment,
     arrived |-> FALSE, started |-> FALSE, ended |-> FALSE]

\* What is left of a call once it has saved: to release the time, or nothing.
Returned == [at : {"idle", "release"}]
Returning(releases) == [at |-> IF releases THEN "release" ELSE "idle"]

\* The document as the save of c leaves it.
Saved(c) ==
    [f \in DOMAIN booking |-> IF f \in DOMAIN call[c].set THEN call[c].set[f] ELSE booking[f]]

TypeOK ==
    /\ booking \in Documents
    /\ lease \in BOOLEAN
    /\ DOMAIN call = Calls
    /\ \A c \in Calls :
          call[c] \in Returned \/ (call[c].at = "save" /\ Saved(c) \in Documents)
    /\ serial \in BOOLEAN
    /\ crossed \in BOOLEAN
    /\ died \in BOOLEAN

\* A fresh claim, with its deposit outstanding or taken.  The code accepts LATE
\* and AT_RISK but never sets them.
Init ==
    /\ booking \in {Claimed("PENDING_PAYMENT", "pending"), Claimed("RESERVED", "paid")}
    /\ lease = TRUE
    /\ call = [c \in Calls |-> Returning(FALSE)]
    /\ serial = TRUE
    /\ crossed = FALSE
    /\ died = FALSE

----------------------------------------------------------------------------
(* Loading the document and editing the copy                                *)

Busy == {c \in Calls : call[c].at # "idle"}

\* The call loads the document and prepares this one; releases tells whether
\* it gives the charger time back after the save.
Edit(c, new, releases) ==
    /\ call[c].at = "idle"
    /\ call' = [call EXCEPT ![c] =
                   [at |-> "save", releases |-> releases,
                    set |-> [f \in {g \in DOMAIN booking : new[g] # booking[g]} |-> new[f]]]]
    /\ serial' = (serial /\ Busy = {})
    /\ UNCHANGED <<booking, lease, crossed, died>>

\* handleGatewayEvent, for a success that came in time; it awaits the intent's
\* save before the reservation's.
Promote(c) ==
    /\ booking.lifecycle = "PENDING_PAYMENT"
    /\ Edit(c, [booking EXCEPT !.lifecycle = "RESERVED", !.status = "confirmed",
                               !.payment = "paid"], FALSE)

\* Mutant of CheckIn: it forgets to ask.
CheckInAnytime(c) == Edit(c, [booking EXCEPT !.lifecycle = "ARRIVED", !.arrived = TRUE], FALSE)

CheckIn(c) ==
    /\ booking.lifecycle \in CheckInable
    /\ Edit(c, [booking EXCEPT !.lifecycle = "ARRIVED", !.arrived = TRUE], FALSE)

\* Mutant of StartCharging: a session may be resumed.
StartChargingAgain(c) ==
    /\ booking.lifecycle \in Startable \cup {"COMPLETED"}
    /\ Edit(c, [booking EXCEPT !.lifecycle = "CHARGING", !.arrived = TRUE, !.started = TRUE],
            FALSE)

StartCharging(c) ==
    /\ booking.lifecycle \in Startable
    /\ Edit(c, [booking EXCEPT !.lifecycle = "CHARGING", !.arrived = TRUE, !.started = TRUE],
            FALSE)

\* Mutant of EndCharging: any vehicle at the bay can be ended.
EndChargingArrived(c) ==
    /\ booking.lifecycle \in {"ARRIVED", "CHARGING"}
    /\ Edit(c, [booking EXCEPT !.lifecycle = "COMPLETED", !.status = "completed",
                               !.ended = TRUE], TRUE)

EndCharging(c) ==
    /\ booking.lifecycle = "CHARGING"
    /\ Edit(c, [booking EXCEPT !.lifecycle = "COMPLETED", !.status = "completed",
                               !.ended = TRUE], TRUE)

\* ALLOWED_TRANSITIONS; a status that does not change is not checked.
Permitted(next) ==
    \/ next = booking.status
    \/ booking.status = "pending" /\ next \in Gone
    \/ booking.status = "confirmed" /\ next \in Terminal

\* assessRefund and settleCommitment: a deposit that is held goes back or is
\* kept, by the cutoff and by whose fault it was; otherwise nothing changes.
Settlements == IF booking.payment = "paid" THEN {"refunded", "forfeited"} ELSE {booking.payment}

Cancel(c) ==
    /\ Permitted("cancelled")
    /\ ~(booking.status # "cancelled" /\ booking.lifecycle = "CHARGING")
    /\ \E payment \in Settlements :
         Edit(c, [booking EXCEPT !.lifecycle = "CANCELLED", !.status = "cancelled",
                                 !.payment = payment], TRUE)

\* Mutants of Complete: the lifecycle is not mirrored; the time is not given
\* back.
CompleteStatusOnly(c) ==
    /\ Permitted("completed")
    /\ Edit(c, [booking EXCEPT !.status = "completed"], TRUE)

CompleteKeepsTime(c) ==
    /\ Permitted("completed")
    /\ Edit(c, [booking EXCEPT !.lifecycle = "COMPLETED", !.status = "completed"], FALSE)

Complete(c) ==
    /\ Permitted("completed")
    /\ Edit(c, [booking EXCEPT !.lifecycle = "COMPLETED", !.status = "completed"], TRUE)

\* Mutant of NoShow: the outcome of the assessment is stored as it is.
NoShowOutcome(c) ==
    /\ Permitted("no_show")
    /\ Edit(c, [booking EXCEPT !.lifecycle = "NO_SHOW", !.status = "no_show",
                               !.payment = IF @ = "paid" THEN "non_refundable" ELSE @], TRUE)

\* The manual mode of applyNoShow.
NoShow(c) ==
    /\ Permitted("no_show")
    /\ \E payment \in Settlements :
         Edit(c, [booking EXCEPT !.lifecycle = "NO_SHOW", !.status = "no_show",
                                 !.payment = payment], TRUE)

----------------------------------------------------------------------------
(* Saving and releasing                                                     *)

Sets(c, f) == f \in DOMAIN call[c].set

\* c is about to end a reservation whose deposit it did not find, and does not
\* settle it.
EndsUnsettled(c) ==
    /\ call[c].at = "save"
    /\ Sets(c, "status") /\ call[c].set.status \in Gone
    /\ ~Sets(c, "payment")

Save(c) ==
    /\ call[c].at = "save"
    /\ booking' = Saved(c)
    /\ crossed' = \/ crossed
                  \/ /\ Sets(c, "payment") /\ call[c].set.payment = "paid"
                     /\ \E other \in Calls : EndsUnsettled(other)
    /\ call' = [call EXCEPT ![c] = Returning(call[c].releases)]
    /\ UNCHANGED <<lease, serial, died>>

Release(c) ==
    /\ call[c].at = "release"
    /\ lease' = FALSE
    /\ call' = [call EXCEPT ![c] = Returning(FALSE)]
    /\ UNCHANGED <<booking, serial, crossed, died>>

Crash(c) ==
    /\ c \in Busy
    /\ call' = [call EXCEPT ![c] = Returning(FALSE)]
    /\ died' = TRUE
    /\ UNCHANGED <<booking, lease, serial, crossed>>

\* Mutant of SweepNoShow: the deposit is left as it was.
SweepNoShowUnsettled ==
    /\ booking.lifecycle \in CheckInable
    /\ booking' = [booking EXCEPT !.lifecycle = "NO_SHOW", !.status = "no_show"]
    /\ lease' = FALSE
    /\ serial' = (serial /\ Busy = {})
    /\ UNCHANGED <<call, crossed, died>>

\* The session mode of applyNoShow: one transaction claims the document by its
\* lifecycle, settles it and releases the time.
SweepNoShow ==
    /\ booking.lifecycle \in CheckInable
    /\ booking' = [booking EXCEPT !.lifecycle = "NO_SHOW", !.status = "no_show",
                                  !.payment = IF @ = "paid" THEN "forfeited" ELSE @]
    /\ lease' = FALSE
    /\ serial' = (serial /\ Busy = {})
    /\ UNCHANGED <<call, crossed, died>>

\* releaseExpired: findOneAndUpdate on the lifecycle, then the time.
Expire(c) ==
    /\ call[c].at = "idle"
    /\ booking.lifecycle = "PENDING_PAYMENT"
    /\ booking' = [booking EXCEPT !.lifecycle = "CANCELLED", !.status = "cancelled"]
    /\ call' = [call EXCEPT ![c] = Returning(TRUE)]
    /\ serial' = (serial /\ Busy = {})
    /\ UNCHANGED <<lease, crossed, died>>

----------------------------------------------------------------------------

Begin(c) ==
    \/ Promote(c) \/ CheckIn(c) \/ StartCharging(c) \/ EndCharging(c)
    \/ Cancel(c) \/ Complete(c) \/ NoShow(c)

Next ==
    \/ \E c \in Calls : Begin(c) \/ Expire(c) \/ Save(c) \/ Release(c) \/ Crash(c)
    \/ SweepNoShow

Spec == Init /\ [][Next]_vars

\* A call that was entered runs on unless it crashes.
FairSpec == Spec /\ \A c \in Calls : WF_vars(Save(c) \/ Release(c))

----------------------------------------------------------------------------
(* Properties                                                               *)

\* A reservation that was cancelled or not used does not keep its deposit as
\* "paid", however cancellations, no-shows, sweeps, expiries and sessions race:
\* settleCommitment edits the copy that carries the status
\* (commitment.service.ts:561-563).  It does keep one that was promoted between
\* the load and the save of the call that ended it, and in no other way.
SettledWhenGone == booking.status \in Gone /\ booking.payment = "paid" => crossed

\* A session that ended has begun, and one that began has arrived, also when
\* late saves put an older lifecycle back.
EndedWasStarted ==
    /\ booking.ended => booking.started
    /\ booking.started => booking.arrived

\* As long as calls take turns, the two fields that say where the reservation
\* stands agree, at every instant between two writes.
StatusFollowsInTurn == serial => booking.status = Legacy(booking.lifecycle)

\* As long as calls take turns, whoever is expected, has arrived or charges has
\* the bay, also after crashes between save and release.
SessionHasBay == serial /\ booking.lifecycle \in Holding => lease

\* As long as calls take turns, what has ended stays as it ended.
EndedStays ==
    [][serial' /\ booking.status \in Terminal
         => UNCHANGED <<booking.status, booking.lifecycle, booking.payment>>]_vars

\* Every way a reservation ends gives its charger time back, whoever else saved
\* meanwhile, unless a call died half way.
EndGivesBack == booking.status \in Terminal ~> ~lease \/ died

=============================================================================
