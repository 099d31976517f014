----------------------------- MODULE Commitment -----------------------------
(***************************************************************************)
(* The deposit of one reservation: commitment.service.ts (open, confirm,   *)
(* verdict, expiry, refund) racing the cancellation of booking.service.ts. *)
(*                                                                         *)
(* Every handler is a process whose awaits are separate steps.  Mongoose's *)
(* save() is an update by _id of the fields the handler changed, whatever  *)
(* the document has become; only findOneAndUpdate and updateMany test the  *)
(* stored value.  The gateway delivers a verdict at least once, at any     *)
(* time after it accepted the attempt.                                     *)
(***************************************************************************)
EXTENDS Naturals

CONSTANTS Intents,    \* one per call of openCommitment
          Deliveries, \* one per call of handleGatewayEvent
          Cancels,    \* one per cancellation handled by updateReservation
          NoIntent

ASSUME IntentsAreReal == NoIntent \notin Intents

VARIABLES
    lifecycle,   \* the reservation document
    payment,     \* its paymentStatus
    capacity,    \* its charger time is still taken in its name
    crossed,     \* a promotion and a cancellation of it have overlapped
    desk,        \* it was created with the commitment completed, by staff
    windowOver,  \* now is past commitmentExpiresAt
    intent,      \* status of each PaymentIntent, and of the call before it exists
    outcome,     \* what the gateway decided for it
    succeededAt, \* order of the verdicts that settled it
    refunds,     \* statuses of the Refund documents issued against it
    now,         \* orders the verdicts' timestamps
    delivery,    \* where each verdict handler stands
    subject,     \* the intent its verdict is about
    stamp,       \* its `now`
    cancel,      \* where each cancellation stands
    loaded,      \* the lifecycle it loaded
    settlement,  \* the paymentStatus it will save, or "keep"
    target,      \* the intent it refunds
    sweep        \* where the expiry sweep stands

document == <<lifecycle, payment, capacity, crossed>>
intents == <<intent, outcome, succeededAt, refunds>>
handlers == <<delivery, subject, stamp, now>>
cancels == <<cancel, loaded, settlement, target>>
vars == <<document, desk, windowOver, intents, handlers, cancels, sweep>>

InFlight == {"requires_confirmation", "processing"}

TypeOK ==
    /\ lifecycle \in {"PENDING_PAYMENT", "RESERVED", "CANCELLED"}
    /\ payment \in {"pending", "paid", "refunded", "forfeited"}
    /\ capacity \in BOOLEAN /\ crossed \in BOOLEAN
    /\ desk \in BOOLEAN /\ windowOver \in BOOLEAN
    /\ intent \in [Intents -> InFlight \cup
           {"none", "opening", "creating", "succeeded", "failed", "canceled"}]
    /\ outcome \in [Intents -> {"none", "sent", "succeeded", "failed"}]
    /\ succeededAt \in [Intents -> Nat]
    /\ refunds \in [Intents -> SUBSET {"succeeded", "failed"}]
    /\ now \in Nat
    /\ delivery \in [Deliveries -> {"idle", "read", "decline", "late", "commit", "refund",
           "promote", "ignored", "declined", "returned", "promoted", "crashed", "halfway"}]
    /\ subject \in [Deliveries -> Intents \cup {NoIntent}]
    /\ stamp \in [Deliveries -> Nat]
    /\ cancel \in [Cancels -> {"idle", "settle", "refund", "save", "release", "done", "crashed"}]
    /\ loaded \in [Cancels -> {"PENDING_PAYMENT", "RESERVED", "CANCELLED"}]
    /\ settlement \in [Cancels -> {"keep", "refunded", "forfeited"}]
    /\ target \in [Cancels -> Intents \cup {NoIntent}]
    /\ sweep \in {"idle", "found", "release", "void", "done", "dead"}

\* A claim either leaves the deposit to be taken or, at the desk, records it.
Init ==
    /\ desk \in BOOLEAN
    /\ lifecycle = IF desk THEN "RESERVED" ELSE "PENDING_PAYMENT"
    /\ payment = IF desk THEN "paid" ELSE "pending"
    /\ capacity = TRUE
    /\ crossed = FALSE
    /\ windowOver = FALSE
    /\ intent = [i \in Intents |-> "none"]
    /\ outcome = [i \in Intents |-> "none"]
    /\ succeededAt = [i \in Intents |-> 0]
    /\ refunds = [i \in Intents |-> {}]
    /\ now = 0
    /\ delivery = [d \in Deliveries |-> "idle"]
    /\ subject = [d \in Deliveries |-> NoIntent]
    /\ stamp = [d \in Deliveries |-> 0]
    /\ cancel = [c \in Cancels |-> "idle"]
    /\ loaded = [c \in Cancels |-> "PENDING_PAYMENT"]
    /\ settlement = [c \in Cancels |-> "keep"]
    /\ target = [c \in Cancels |-> NoIntent]
    /\ sweep = "idle"

CloseWindow ==
    /\ ~windowOver
    /\ windowOver' = TRUE
    /\ UNCHANGED <<document, desk, intents, handlers, cancels, sweep>>

----------------------------------------------------------------------------
(* openCommitment and confirmCommitment                                     *)

SetIntent(i, status) ==
    /\ intent' = [intent EXCEPT ![i] = status]
    /\ UNCHANGED <<outcome, succeededAt, refunds>>

Open(i) ==
    /\ intent[i] = "none"
    /\ lifecycle = "PENDING_PAYMENT"
    /\ ~windowOver
    /\ SetIntent(i, "opening")
    /\ UNCHANGED <<document, desk, windowOver, handlers, cancels, sweep>>

\* An attempt in flight is reused: the call ends with no intent of its own.
FindInFlight(i) ==
    /\ intent[i] = "opening"
    /\ SetIntent(i, IF \E other \in Intents : intent[other] \in InFlight
                    THEN "none" ELSE "creating")
    /\ UNCHANGED <<document, desk, windowOver, handlers, cancels, sweep>>

CreateIntent(i) ==
    /\ intent[i] = "creating"
    /\ SetIntent(i, "requires_confirmation")
    /\ UNCHANGED <<document, desk, windowOver, handlers, cancels, sweep>>

\* findOneAndUpdate: only one confirmation of an intent reaches the gateway.
Confirm(i) ==
    /\ intent[i] = "requires_confirmation"
    /\ intent' = [intent EXCEPT ![i] = "processing"]
    /\ outcome' = [outcome EXCEPT ![i] = "sent"]
    /\ UNCHANGED <<document, desk, windowOver, succeededAt, refunds, handlers, cancels,
                   sweep>>

\* The gateway decides about an attempt it was sent, whether or not the sweep
\* has voided our record of it meanwhile.
GatewayDecides(i) ==
    /\ outcome[i] = "sent"
    /\ \E verdict \in {"succeeded", "failed"} : outcome' = [outcome EXCEPT ![i] = verdict]
    /\ UNCHANGED <<document, desk, windowOver, intent, succeededAt, refunds, handlers,
                   cancels, sweep>>

----------------------------------------------------------------------------
(* handleGatewayEvent, the webhook path                                     *)

SetDelivery(d, where) ==
    /\ delivery' = [delivery EXCEPT ![d] = where]
    /\ UNCHANGED <<subject, stamp, now>>

\* The intent is read; a verdict for one that is not processing is ignored.
Deliver(d, i) ==
    /\ delivery[d] = "idle"
    /\ outcome[i] \in {"succeeded", "failed"}
    /\ delivery' = [delivery EXCEPT ![d] =
                      IF intent[i] = "processing" THEN "read" ELSE "ignored"]
    /\ subject' = [subject EXCEPT ![d] = i]
    /\ UNCHANGED <<document, desk, windowOver, intents, stamp, now, cancels, sweep>>

\* Mutant: only the clock makes a success late.
ClassifyByClock(d) ==
    /\ delivery[d] = "read"
    /\ delivery' = [delivery EXCEPT ![d] =
         IF outcome[subject[d]] = "failed" THEN "decline"
         ELSE IF windowOver THEN "late" ELSE "commit"]
    /\ now' = now + 1
    /\ stamp' = [stamp EXCEPT ![d] = now + 1]
    /\ UNCHANGED <<document, desk, windowOver, intents, subject, cancels, sweep>>

\* The reservation is read and the verdict classified: declined, too late, or
\* the commitment of this reservation.
Classify(d) ==
    /\ delivery[d] = "read"
    /\ delivery' = [delivery EXCEPT ![d] =
         IF outcome[subject[d]] = "failed" THEN "decline"
         ELSE IF lifecycle # "PENDING_PAYMENT" \/ windowOver THEN "late" ELSE "commit"]
    /\ now' = now + 1
    /\ stamp' = [stamp EXCEPT ![d] = now + 1]
    /\ UNCHANGED <<document, desk, windowOver, intents, subject, cancels, sweep>>

Decline(d) ==
    /\ delivery[d] = "decline"
    /\ SetIntent(subject[d], "failed")
    /\ SetDelivery(d, "declined")
    /\ UNCHANGED <<document, desk, windowOver, cancels, sweep>>

\* Mutant: the reservation is saved before the intent, which then is not.
RecordNothing(d) ==
    /\ delivery[d] \in {"late", "commit"}
    /\ SetDelivery(d, IF delivery[d] = "late" THEN "refund" ELSE "promote")
    /\ UNCHANGED <<document, desk, windowOver, intents, cancels, sweep>>

\* intent.save() comes before the reservation's own save, and before the
\* refund of a late success.
RecordSuccess(d) ==
    /\ delivery[d] \in {"late", "commit"}
    /\ intent' = [intent EXCEPT ![subject[d]] = "succeeded"]
    /\ succeededAt' = [succeededAt EXCEPT ![subject[d]] = stamp[d]]
    /\ SetDelivery(d, IF delivery[d] = "late" THEN "refund" ELSE "promote")
    /\ UNCHANGED <<document, desk, windowOver, outcome, refunds, cancels, sweep>>

\* issueRefund: whatever the gateway answers to the refund, a Refund document
\* keeps it; no caller looks at the answer.
IssuedFor(i) ==
    \E answer \in {"succeeded", "failed"} : refunds' = [refunds EXCEPT ![i] = @ \cup {answer}]

\* Mutant: the late success is recorded and acknowledged, not refunded.
KeepLate(d) ==
    /\ delivery[d] = "refund"
    /\ SetDelivery(d, "returned")
    /\ UNCHANGED <<document, desk, windowOver, intents, cancels, sweep>>

RefundLate(d) ==
    /\ delivery[d] = "refund"
    /\ IssuedFor(subject[d])
    /\ SetDelivery(d, "returned")
    /\ UNCHANGED <<document, desk, windowOver, intent, outcome, succeededAt, cancels, sweep>>

\* A cancellation has loaded the reservation and is still to save it.
CancellationUnderway == \E c \in Cancels : cancel[c] \in {"settle", "refund", "save"}

\* booking.save(): whatever has happened to the reservation since Classify.
Promote(d) ==
    /\ delivery[d] = "promote"
    /\ lifecycle' = "RESERVED"
    /\ payment' = "paid"
    /\ crossed' = (crossed \/ CancellationUnderway)
    /\ SetDelivery(d, "promoted")
    /\ UNCHANGED <<capacity, desk, windowOver, intents, cancels, sweep>>

\* After intent.save() no redelivery finds the intent processing, so nobody
\* finishes what a handler that died there left half way.
CrashDelivery(d) ==
    /\ delivery[d] \in {"read", "decline", "late", "commit", "refund", "promote"}
    /\ SetDelivery(d, IF delivery[d] \in {"refund", "promote"} THEN "halfway" ELSE "crashed")
    /\ UNCHANGED <<document, desk, windowOver, intents, cancels, sweep>>

----------------------------------------------------------------------------
(* expirePendingCommitments and releaseExpired                              *)

\* Mutant: a reservation with an attempt in flight is left alone.
SweepFindIdle ==
    /\ sweep = "idle"
    /\ lifecycle = "PENDING_PAYMENT"
    /\ windowOver
    /\ \A i \in Intents : intent[i] # "processing"
    /\ sweep' = "found"
    /\ UNCHANGED <<document, desk, windowOver, intents, handlers, cancels>>

SweepFind ==
    /\ sweep = "idle"
    /\ lifecycle = "PENDING_PAYMENT"
    /\ windowOver
    /\ sweep' = "found"
    /\ UNCHANGED <<document, desk, windowOver, intents, handlers, cancels>>

\* A verdict was found in time and the reservation is still to be saved.
PromotionUnderway == \E d \in Deliveries : delivery[d] \in {"commit", "promote"}

\* findOneAndUpdate on the lifecycle: a reservation that was committed or
\* cancelled since it was found matches nothing.
SweepClaim ==
    /\ sweep = "found"
    /\ lifecycle' = IF lifecycle = "PENDING_PAYMENT" THEN "CANCELLED" ELSE lifecycle
    /\ crossed' = (crossed \/ (lifecycle = "PENDING_PAYMENT" /\ PromotionUnderway))
    /\ sweep' = IF lifecycle = "PENDING_PAYMENT" THEN "release" ELSE "idle"
    /\ UNCHANGED <<payment, capacity, desk, windowOver, intents, handlers, cancels>>

\* Mutant: the expiry forgets that a range reservation holds no slot.
SweepReleaseSlotOnly ==
    /\ sweep = "release"
    /\ sweep' = "void"
    /\ UNCHANGED <<document, desk, windowOver, intents, handlers, cancels>>

SweepRelease ==
    /\ sweep = "release"
    /\ capacity' = FALSE
    /\ sweep' = "void"
    /\ UNCHANGED <<lifecycle, payment, crossed, desk, windowOver, intents, handlers, cancels>>

SweepVoid ==
    /\ sweep = "void"
    /\ intent' = [i \in Intents |-> IF intent[i] \in InFlight THEN "canceled" ELSE intent[i]]
    /\ sweep' = "done"
    /\ UNCHANGED <<document, desk, windowOver, outcome, succeededAt, refunds, handlers,
                   cancels>>

\* A later sweep does not find the reservation again: it is CANCELLED.
CrashSweep ==
    /\ sweep \in {"release", "void"}
    /\ sweep' = "dead"
    /\ UNCHANGED <<document, desk, windowOver, intents, handlers, cancels>>

----------------------------------------------------------------------------
(* updateReservation with status "cancelled", and settleCommitment          *)

\* assessRefund: nothing is settled unless the loaded paymentStatus is "paid";
\* then the time left and the fault decide.  A second cancellation of a
\* cancelled reservation is not a transition, so it passes.
LoadCancel(c) ==
    /\ cancel[c] = "idle"
    /\ loaded' = [loaded EXCEPT ![c] = lifecycle]
    /\ \E will \in IF payment = "paid" THEN {"refunded", "forfeited"} ELSE {"keep"} :
         /\ settlement' = [settlement EXCEPT ![c] = will]
         /\ cancel' = [cancel EXCEPT ![c] = IF will = "keep" THEN "save" ELSE "settle"]
    /\ UNCHANGED <<document, desk, windowOver, intents, handlers, target, sweep>>

Succeeded == {i \in Intents : intent[i] = "succeeded"}
Latest == {i \in Succeeded : \A other \in Succeeded : succeededAt[other] <= succeededAt[i]}

\* The latest succeeded intent is the one refunded; a desk reservation has none.
FindIntent(c) ==
    /\ cancel[c] = "settle"
    /\ \/ /\ Succeeded = {} \/ settlement[c] = "forfeited"
          /\ cancel' = [cancel EXCEPT ![c] = "save"]
          /\ UNCHANGED target
       \/ /\ settlement[c] = "refunded"
          /\ \E i \in Latest : target' = [target EXCEPT ![c] = i]
          /\ cancel' = [cancel EXCEPT ![c] = "refund"]
    /\ UNCHANGED <<document, desk, windowOver, intents, handlers, loaded, settlement, sweep>>

\* Mutant: the reservation is marked refunded and no refund is issued.
IssueNothing(c) ==
    /\ cancel[c] = "refund"
    /\ cancel' = [cancel EXCEPT ![c] = "save"]
    /\ UNCHANGED <<document, desk, windowOver, intents, handlers, loaded, settlement,
                   target, sweep>>

IssueRefund(c) ==
    /\ cancel[c] = "refund"
    /\ IssuedFor(target[c])
    /\ cancel' = [cancel EXCEPT ![c] = "save"]
    /\ UNCHANGED <<document, desk, windowOver, intent, outcome, succeededAt, handlers,
                   loaded, settlement, target, sweep>>

\* booking.save() writes only the fields this call changed.
SaveCancel(c) ==
    /\ cancel[c] = "save"
    /\ lifecycle' = IF loaded[c] = "CANCELLED" THEN lifecycle ELSE "CANCELLED"
    /\ payment' = IF settlement[c] = "keep" THEN payment ELSE settlement[c]
    /\ crossed' = (crossed \/ PromotionUnderway)
    /\ cancel' = [cancel EXCEPT ![c] = "release"]
    /\ UNCHANGED <<capacity, desk, windowOver, intents, handlers, loaded, settlement, target,
                   sweep>>

ReleaseCancel(c) ==
    /\ cancel[c] = "release"
    /\ capacity' = FALSE
    /\ cancel' = [cancel EXCEPT ![c] = "done"]
    /\ UNCHANGED <<lifecycle, payment, crossed, desk, windowOver, intents, handlers, loaded,
                   settlement, target, sweep>>

CrashCancel(c) ==
    /\ cancel[c] \in {"settle", "refund", "save", "release"}
    /\ cancel' = [cancel EXCEPT ![c] = "crashed"]
    /\ UNCHANGED <<document, desk, windowOver, intents, handlers, loaded, settlement, target,
                   sweep>>

----------------------------------------------------------------------------

IntentStep(i) ==
    Open(i) \/ FindInFlight(i) \/ CreateIntent(i) \/ Confirm(i) \/ GatewayDecides(i)

Handle(d) == Classify(d) \/ Decline(d) \/ RecordSuccess(d) \/ RefundLate(d) \/ Promote(d)

Sweep == SweepFind \/ SweepClaim \/ SweepRelease \/ SweepVoid

Cancelling(c) == FindIntent(c) \/ IssueRefund(c) \/ SaveCancel(c) \/ ReleaseCancel(c)

Next ==
    \/ \E i \in Intents : IntentStep(i)
    \/ \E d \in Deliveries, i \in Intents : Deliver(d, i)
    \/ \E d \in Deliveries : Handle(d) \/ CrashDelivery(d)
    \/ \E c \in Cancels : LoadCancel(c) \/ Cancelling(c) \/ CrashCancel(c)
    \/ Sweep
    \/ CrashSweep
    \/ CloseWindow

Spec == Init /\ [][Next]_vars

\* Time passes, ops:expire-commitments is scheduled, and a handler that was
\* entered runs on unless it crashes.  Drivers and the gateway owe nothing.
FairSpec ==
    /\ Spec
    /\ WF_vars(CloseWindow)
    /\ WF_vars(Sweep)
    /\ \A d \in Deliveries : WF_vars(Handle(d))
    /\ \A c \in Cancels : WF_vars(Cancelling(c))

----------------------------------------------------------------------------
(* Properties                                                               *)

\* A deposit is only ever recorded as paid over an intent that succeeded, at
\* every interleaving of sweeps, cancellations and verdicts: the intent is
\* saved before the reservation (commitment.service.ts:288-299).
PaidIsBacked ==
    payment \in {"paid", "refunded"} =>
        desk \/ \E i \in Intents : intent[i] = "succeeded" /\ outcome[i] = "succeeded"

Stands == lifecycle = "RESERVED" /\ payment = "paid"

\* A verdict about i has been recorded and its handler is still to act on it,
\* or died before it did (commitment.service.ts:273-275, 290-299).
InHand(i) ==
    \E d \in Deliveries : subject[d] = i /\ delivery[d] \in {"promote", "refund", "halfway"}

\* Of several attempts that were charged a cancellation refunds only one
\* (581-584).
Outlived(i) == \E other \in Intents \ {i} : refunds[other] # {}

\* No deposit on record is forgotten: the reservation stands on it, it was
\* forfeited, or a Refund document answers for it.  The exceptions are the
\* ways in which the code does lose one: the handler dies between its two
\* saves, two attempts were charged, or a promotion and a cancellation overlap
\* and the later save keeps a status that was chosen without the deposit.
NoDepositForgotten ==
    \A i \in Intents :
        intent[i] = "succeeded" =>
            \/ refunds[i] # {}
            \/ Stands
            \/ payment = "forfeited"
            \/ InHand(i) \/ Outlived(i) \/ crossed

\* Two handlers were at work on one verdict: both read it as processing.
Redelivered ==
    \E d, other \in Deliveries :
        /\ d # other /\ subject[d] = subject[other]
        /\ {delivery[d], delivery[other]} \cap {"idle", "ignored"} = {}

\* The deposit went back and the reservation is still to say so, or its
\* cancellation died before it could (booking.service.ts:551-585).
ReturnUnsaved == \E c \in Cancels : target[c] # NoIntent /\ cancel[c] \in {"save", "crashed"}

\* The reservation and the Refund documents agree, also when cancellations race
\* verdicts (493-515, 587-600).  One that says refunded has a refund on record,
\* which the gateway may have failed; and none stands on a deposit that went
\* back, unless a verdict was handled twice at once, or the cancellation that
\* sent it back did not save or ran over a promotion.
RefundIsRecorded ==
    /\ payment = "refunded" => desk \/ \E i \in Intents : refunds[i] # {}
    /\ Stands =>
         \/ desk
         \/ \E i \in Intents : intent[i] = "succeeded" /\ refunds[i] = {}
         \/ Redelivered \/ ReturnUnsaved \/ crossed

\* "Confirming a reservation over an interval we no longer hold would break the
\* central invariant" (210-213): a reserved reservation has its charger time,
\* however verdicts, expiries and cancellations are ordered, unless a promotion
\* was between its test and its save when the reservation was cancelled.
ReservedHasTime == lifecycle = "RESERVED" => capacity \/ crossed

\* No reservation holds a bay for a deposit that never comes: attempts in
\* flight, lost verdicts and crashed handlers do not keep it pending.
UnpaidHoldEnds == lifecycle = "PENDING_PAYMENT" ~> lifecycle # "PENDING_PAYMENT"

Crashed == sweep = "dead" \/ \E c \in Cancels : cancel[c] = "crashed"

\* Every way to CANCELLED leads to the time being given back, unless the
\* process that cancelled died before it got there.
CancelledGivesBack == lifecycle = "CANCELLED" ~> ~capacity \/ Crashed

\* "A late success ... is NOT promoted. It is refunded instead"
\* (commitment.service.ts:210-213): once its verdict has been handled, a
\* deposit the gateway took is on record as succeeded.
LateSuccessIsRefunded ==
    \A d \in Deliveries :
        delivery[d] \in {"ignored", "returned", "promoted"}
            /\ outcome[subject[d]] = "succeeded"
        => \/ intent[subject[d]] = "succeeded"
           \/ refunds[subject[d]] # {}

=============================================================================
