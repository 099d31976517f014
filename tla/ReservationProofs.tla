------------------------- MODULE ReservationProofs -------------------------
(***************************************************************************)
(* Proofs about the two halves of a reservation: its deposit (Commitment)  *)
(* and its interval (Slots), whatever the number of intents, reservations, *)
(* slots and handlers.                                                     *)
(*                                                                         *)
(* The deposit.  The money properties relate the reservation to the        *)
(* intents and the refunds; what carries them is that facts, once          *)
(* established, are never undone by another handler: a success is not      *)
(* overwritten (Monotone) because a verdict is final (VerdictInv), and     *)
(* what a handler is about to write was justified when it was loaded and   *)
(* so still is (DeliveryInv, SettlementInv).  What a handler read of the   *)
(* reservation may be stale; OrderInv says what it still knows as long as  *)
(* no promotion and cancellation have crossed.                             *)
(*                                                                         *)
(* The interval.  A reservation and its slot are written one after the     *)
(* other, so between the writes they disagree.  What carries the proof     *)
(* is the ledger of who is answerable for an interval (Owns): the          *)
(* reservation that names it, or the call that has it in hand (Hand).      *)
(* Every step passes an interval to one reservation or takes it from one   *)
(* (Balance); what it gains nobody answered for, what it gives up is no    *)
(* longer booked.                                                          *)
(***************************************************************************)
EXTENDS Commitment, Slots, TLAPS

----------------------------------------------------------------------------
(* The deposit                                                              *)


Unsent == {"none", "opening", "creating", "requires_confirmation"}
Decided == {"succeeded", "failed"}

\* The record of an intent and what the gateway knows of it.
VerdictInv ==
    \A i \in Intents :
        /\ intent[i] \in Unsent => outcome[i] = "none"
        /\ intent[i] = "succeeded" => outcome[i] = "succeeded"

\* What a handler of a verdict has already established.
DeliveryInv ==
    \A d \in Deliveries :
        /\ delivery[d] # "idle" =>
             subject[d] \in Intents /\ outcome[subject[d]] \in Decided
        /\ delivery[d] = "decline" => outcome[subject[d]] = "failed"
        /\ delivery[d] \in {"late", "commit"} => outcome[subject[d]] = "succeeded"
        /\ delivery[d] \in {"refund", "promote", "promoted"} => intent[subject[d]] = "succeeded"

SomeSucceeded == \E i \in Intents : intent[i] = "succeeded"
SomeRefunded == \E i \in Intents : refunds[i] # {}

\* What a cancellation settles was paid, and its refund is issued before it is
\* saved.
SettlementInv ==
    \A c \in Cancels :
        /\ settlement[c] # "keep" => desk \/ SomeSucceeded
        /\ cancel[c] = "idle" => settlement[c] = "keep"
        /\ cancel[c] \in {"idle", "settle"} => target[c] = NoIntent
        /\ cancel[c] = "refund" => target[c] \in Intents
        /\ cancel[c] \in {"save", "release", "done"} /\ settlement[c] = "refunded"
             => desk \/ SomeRefunded
        /\ cancel[c] \in {"save", "release", "done"} /\ target[c] \in Intents
             => refunds[target[c]] # {}

\* A Refund document was issued by the handler of a late verdict or by a
\* cancellation.
RefundsHaveIssuers ==
    \A i \in Intents : refunds[i] # {} =>
        \/ \E d \in Deliveries : subject[d] = i /\ delivery[d] = "returned"
        \/ \E c \in Cancels : target[c] = i
                               /\ cancel[c] \in {"save", "release", "done", "crashed"}

PaidWasCharged == payment \in {"paid", "refunded"} => desk \/ SomeSucceeded

RefundedIsOnRecord == payment = "refunded" => desk \/ SomeRefunded

\* Until a promotion and a cancellation overlap, a cancelled reservation stays
\* cancelled, and whoever is about to cancel has seen its deposit.
OrderInv ==
    ~crossed =>
      /\ lifecycle = "PENDING_PAYMENT" => payment = "pending" /\ capacity
      /\ lifecycle = "RESERVED" => payment = "paid" /\ capacity
      /\ lifecycle = "CANCELLED" => payment # "paid" /\ ~PromotionUnderway
      /\ sweep = "release" => lifecycle = "CANCELLED"
      /\ \A c \in Cancels :
           /\ cancel[c] \in {"release", "done"} => lifecycle = "CANCELLED"
           /\ cancel[c] \in {"settle", "refund", "save"} =>
                \/ loaded[c] = "RESERVED" /\ settlement[c] # "keep"
                     /\ lifecycle # "PENDING_PAYMENT"
                \/ loaded[c] = "PENDING_PAYMENT" /\ settlement[c] = "keep"
                     /\ lifecycle # "RESERVED"
                \/ loaded[c] = "CANCELLED" /\ settlement[c] = "keep"
                     /\ lifecycle = "CANCELLED"

\* A success nobody is still to act on and no refund answers for.
Unanswered(i) == intent[i] = "succeeded" /\ refunds[i] = {} /\ ~InHand(i)

\* Until then, a cancellation that gives back knows every such success: it gives
\* back one of them.
GivesBackOne ==
    ~crossed =>
      \A c \in Cancels, i \in Intents :
        settlement[c] = "refunded" /\ cancel[c] \in {"refund", "save"} /\ Unanswered(i)
          => target[c] \in Intents

\* The deposit a standing reservation stands on is one that promoted it.
StandsOnDeposit ==
    Stands =>
      \/ desk
      \/ \E d \in Deliveries : delivery[d] = "promoted" /\ refunds[subject[d]] = {}
      \/ Redelivered \/ ReturnUnsaved \/ crossed

Facts == VerdictInv /\ DeliveryInv /\ SettlementInv /\ RefundsHaveIssuers

IInv ==
    /\ TypeOK
    /\ Facts
    /\ PaidWasCharged
    /\ RefundedIsOnRecord
    /\ OrderInv
    /\ GivesBackOne
    /\ StandsOnDeposit
    /\ NoDepositForgotten

----------------------------------------------------------------------------
(* Initiation                                                               *)

LEMMA InitHolds == Init => IInv
<1> SUFFICES ASSUME Init PROVE IInv
  OBVIOUS
<1>1. TypeOK
  BY DEF Init, TypeOK, InFlight
<1>2. Facts
  BY DEF Init, Facts, VerdictInv, DeliveryInv, SettlementInv, RefundsHaveIssuers, Unsent
<1>3. PaidWasCharged /\ RefundedIsOnRecord /\ NoDepositForgotten
  BY DEF Init, PaidWasCharged, RefundedIsOnRecord, NoDepositForgotten
<1>4. OrderInv
  BY DEF Init, OrderInv, PromotionUnderway
<1>5. GivesBackOne /\ StandsOnDeposit
  BY DEF Init, GivesBackOne, Unanswered, StandsOnDeposit, Stands
<1> QED
  BY <1>1, <1>2, <1>3, <1>4, <1>5 DEF IInv

----------------------------------------------------------------------------
(* Types                                                                    *)

\* A refund that is issued is one more document, and only for its intent.
LEMMA RefundIssued ==
    ASSUME TypeOK, NEW i \in Intents, IssuedFor(i)
    PROVE  /\ refunds' \in [Intents -> SUBSET {"succeeded", "failed"}]
           /\ refunds'[i] # {}
           /\ \A other \in Intents : /\ refunds[other] # {} => refunds'[other] # {}
                                     /\ other # i => refunds'[other] = refunds[other]
  BY DEF IssuedFor, TypeOK

\* A refund is always about an intent.
LEMMA RefundsHaveSubjects ==
    ASSUME Facts
    PROVE  /\ \A d \in Deliveries : delivery[d] = "refund" => subject[d] \in Intents
           /\ \A c \in Cancels : cancel[c] = "refund" => target[c] \in Intents
  BY DEF Facts, DeliveryInv, SettlementInv

\* Every action writes values of the right type.
LEMMA TypeStep == TypeOK /\ Facts /\ [Next]_vars => TypeOK'
<1> SUFFICES ASSUME TypeOK, Facts, [Next]_vars PROVE TypeOK'
  OBVIOUS
<1> USE DEF TypeOK, InFlight
<1>1. ASSUME NEW i \in Intents, IntentStep(i) PROVE TypeOK'
  <2>1. CASE Open(i)
    BY <2>1 DEF Open, SetIntent, document, handlers, cancels
  <2>2. CASE FindInFlight(i)
    BY <2>2 DEF FindInFlight, SetIntent, document, handlers, cancels
  <2>3. CASE CreateIntent(i)
    BY <2>3 DEF CreateIntent, SetIntent, document, handlers, cancels
  <2>4. CASE Confirm(i)
    BY <2>4 DEF Confirm, document, handlers, cancels
  <2>5. CASE GatewayDecides(i)
    BY <2>5 DEF GatewayDecides, document, handlers, cancels
  <2> QED
    BY <1>1, <2>1, <2>2, <2>3, <2>4, <2>5 DEF IntentStep
<1>2. ASSUME NEW d \in Deliveries, NEW i \in Intents, Deliver(d, i) PROVE TypeOK'
  BY <1>2 DEF Deliver, document, intents, cancels
<1>3. ASSUME NEW d \in Deliveries, Handle(d) PROVE TypeOK'
  <2>1. CASE Classify(d)
    BY <2>1 DEF Classify, document, intents, cancels
  <2>2. CASE Decline(d)
    BY <2>2 DEF Decline, SetIntent, SetDelivery, document, cancels
  <2>3. CASE RecordSuccess(d)
    <3>1. intent' = [intent EXCEPT ![subject[d]] = "succeeded"]
      BY <2>3 DEF RecordSuccess
    <3>2. succeededAt' \in [Intents -> Nat]
      BY <2>3 DEF RecordSuccess
    <3>3. \/ delivery' = [delivery EXCEPT ![d] = "refund"]
          \/ delivery' = [delivery EXCEPT ![d] = "promote"]
      BY <2>3 DEF RecordSuccess, SetDelivery
    <3> QED
      BY <2>3, <3>1, <3>2, <3>3 DEF RecordSuccess, SetDelivery, document, cancels
  <2>4. CASE RefundLate(d)
    <3>1. subject[d] \in Intents
      BY <2>4, RefundsHaveSubjects DEF RefundLate
    <3>2. refunds' \in [Intents -> SUBSET {"succeeded", "failed"}]
      BY <2>4, <3>1, RefundIssued DEF RefundLate
    <3> QED
      BY <2>4, <3>2 DEF RefundLate, SetDelivery, document, cancels
  <2>5. CASE Promote(d)
    BY <2>5 DEF Promote, SetDelivery, intents, cancels
  <2> QED
    BY <1>3, <2>1, <2>2, <2>3, <2>4, <2>5 DEF Handle
<1>4. ASSUME NEW d \in Deliveries, CrashDelivery(d) PROVE TypeOK'
  BY <1>4 DEF CrashDelivery, SetDelivery, document, intents, cancels
<1>5. ASSUME NEW c \in Cancels, LoadCancel(c) PROVE TypeOK'
  BY <1>5 DEF LoadCancel, document, intents, handlers
<1>6. ASSUME NEW c \in Cancels, Cancelling(c) PROVE TypeOK'
  <2>1. CASE FindIntent(c)
    BY <2>1 DEF FindIntent, Latest, Succeeded, document, intents, handlers
  <2>2. CASE IssueRefund(c)
    <3>1. target[c] \in Intents
      BY <2>2, RefundsHaveSubjects DEF IssueRefund
    <3>2. refunds' \in [Intents -> SUBSET {"succeeded", "failed"}]
      BY <2>2, <3>1, RefundIssued DEF IssueRefund
    <3> QED
      BY <2>2, <3>2 DEF IssueRefund, document, handlers
  <2>3. CASE SaveCancel(c)
    BY <2>3 DEF SaveCancel, intents, handlers
  <2>4. CASE ReleaseCancel(c)
    BY <2>4 DEF ReleaseCancel, intents, handlers
  <2> QED
    BY <1>6, <2>1, <2>2, <2>3, <2>4 DEF Cancelling
<1>7. ASSUME NEW c \in Cancels, CrashCancel(c) PROVE TypeOK'
  BY <1>7 DEF CrashCancel, document, intents, handlers
<1>8. CASE Sweep
  <2>1. CASE SweepFind
    BY <2>1 DEF SweepFind, document, intents, handlers, cancels
  <2>2. CASE SweepClaim
    BY <2>2 DEF SweepClaim, intents, handlers, cancels
  <2>3. CASE SweepRelease
    BY <2>3 DEF SweepRelease, intents, handlers, cancels
  <2>4. CASE SweepVoid
    BY <2>4 DEF SweepVoid, document, handlers, cancels
  <2> QED
    BY <1>8, <2>1, <2>2, <2>3, <2>4 DEF Sweep
<1>9. CASE CrashSweep
  BY <1>9 DEF CrashSweep, document, intents, handlers, cancels
<1>10. CASE CloseWindow
  BY <1>10 DEF CloseWindow, document, intents, handlers, cancels
<1>11. CASE UNCHANGED vars
  BY <1>11 DEF vars, document, intents, handlers, cancels
<1> QED
  BY <1>1, <1>2, <1>3, <1>4, <1>5, <1>6, <1>7, <1>8, <1>9, <1>10, <1>11 DEF Next

----------------------------------------------------------------------------
(* What is on record stays on record                                        *)

\* A success, a verdict and a refund are never undone, by any handler.
Monotone ==
    /\ desk' = desk
    /\ \A i \in Intents :
         /\ intent[i] = "succeeded" => intent'[i] = "succeeded"
         /\ outcome[i] \in Decided => outcome'[i] = outcome[i]
         /\ refunds[i] # {} => refunds'[i] # {}

LEMMA RecordsStay ==
    ASSUME TypeOK, Facts, [Next]_vars
    PROVE  VerdictInv' /\ Monotone
<1> USE DEF Unsent, Decided, Facts
<1>1. ASSUME UNCHANGED <<intents, desk>> PROVE VerdictInv' /\ Monotone
  BY <1>1 DEF VerdictInv, Monotone, intents
<1>2. ASSUME NEW i \in Intents, IntentStep(i) PROVE VerdictInv' /\ Monotone
  <2> USE DEF TypeOK, VerdictInv, Monotone
  <2>1. CASE Open(i)
    BY <2>1 DEF Open, SetIntent
  <2>2. CASE FindInFlight(i)
    BY <2>2 DEF FindInFlight, SetIntent
  <2>3. CASE CreateIntent(i)
    BY <2>3 DEF CreateIntent, SetIntent
  <2>4. CASE Confirm(i)
    BY <2>4 DEF Confirm
  <2>5. CASE GatewayDecides(i)
    BY <2>5 DEF GatewayDecides
  <2> QED
    BY <1>2, <2>1, <2>2, <2>3, <2>4, <2>5 DEF IntentStep
<1>3. ASSUME NEW d \in Deliveries, Handle(d) PROVE VerdictInv' /\ Monotone
  <2>1. CASE Classify(d)
    BY <1>1, <2>1 DEF Classify
  <2>2. CASE Decline(d)
    <3>1. subject[d] \in Intents /\ outcome[subject[d]] = "failed"
      BY <2>2 DEF Decline, DeliveryInv
    <3> QED
      BY <2>2, <3>1 DEF Decline, SetIntent, TypeOK, VerdictInv, Monotone
  <2>3. CASE RecordSuccess(d)
    <3>1. subject[d] \in Intents /\ outcome[subject[d]] = "succeeded"
      BY <2>3 DEF RecordSuccess, DeliveryInv
    <3> QED
      BY <2>3, <3>1 DEF RecordSuccess, TypeOK, VerdictInv, Monotone
  <2>4. CASE RefundLate(d)
    <3>1. subject[d] \in Intents
      BY <2>4 DEF RefundLate, DeliveryInv
    <3> QED
      BY <2>4, <3>1, RefundIssued DEF RefundLate, VerdictInv, Monotone
  <2>5. CASE Promote(d)
    BY <1>1, <2>5 DEF Promote
  <2> QED
    BY <1>3, <2>1, <2>2, <2>3, <2>4, <2>5 DEF Handle
<1>4. ASSUME NEW c \in Cancels, Cancelling(c) PROVE VerdictInv' /\ Monotone
  <2>1. CASE IssueRefund(c)
    <3>1. target[c] \in Intents
      BY <2>1 DEF IssueRefund, SettlementInv
    <3> QED
      BY <2>1, <3>1, RefundIssued DEF IssueRefund, VerdictInv, Monotone
  <2> QED
    BY <1>1, <1>4, <2>1 DEF Cancelling, FindIntent, SaveCancel, ReleaseCancel
<1>5. CASE Sweep
  <2>1. CASE SweepVoid
    BY <2>1 DEF SweepVoid, TypeOK, InFlight, VerdictInv, Monotone
  <2> QED
    BY <1>1, <1>5, <2>1 DEF Sweep, SweepFind, SweepClaim, SweepRelease
<1> QED
  BY <1>1, <1>2, <1>3, <1>4, <1>5
     DEF Next, Deliver, CrashDelivery, LoadCancel, CrashCancel, CrashSweep, CloseWindow, vars

----------------------------------------------------------------------------
(* What a handler is about to write is justified                            *)

\* A verdict's handler: each step establishes what the next one relies on.
LEMMA DeliveryStep ==
    ASSUME TypeOK, DeliveryInv, Monotone, [Next]_vars
    PROVE  DeliveryInv'
<1> USE DEF DeliveryInv, Monotone, Decided
<1>1. ASSUME UNCHANGED handlers PROVE DeliveryInv'
  BY <1>1 DEF handlers
<1>2. ASSUME NEW d \in Deliveries, NEW i \in Intents, Deliver(d, i) PROVE DeliveryInv'
  BY <1>2 DEF Deliver, TypeOK
<1>3. ASSUME NEW d \in Deliveries, Handle(d) PROVE DeliveryInv'
  <2>1. CASE Classify(d)
    BY <2>1 DEF Classify, TypeOK
  <2>2. CASE Decline(d)
    BY <2>2 DEF Decline, SetDelivery, TypeOK
  <2>3. CASE RecordSuccess(d)
    BY <2>3 DEF RecordSuccess, SetDelivery, TypeOK
  <2>4. CASE RefundLate(d)
    BY <2>4 DEF RefundLate, SetDelivery, TypeOK
  <2>5. CASE Promote(d)
    BY <2>5 DEF Promote, SetDelivery, TypeOK
  <2> QED
    BY <1>3, <2>1, <2>2, <2>3, <2>4, <2>5 DEF Handle
<1>4. ASSUME NEW d \in Deliveries, CrashDelivery(d) PROVE DeliveryInv'
  BY <1>4 DEF CrashDelivery, SetDelivery, TypeOK
<1> QED
  BY <1>1, <1>2, <1>3, <1>4
     DEF Next, IntentStep, Open, FindInFlight, CreateIntent, Confirm, GatewayDecides,
         LoadCancel, Cancelling, FindIntent, IssueRefund, SaveCancel, ReleaseCancel,
         CrashCancel, Sweep, SweepFind, SweepClaim, SweepRelease, SweepVoid, CrashSweep,
         CloseWindow, vars

LEMMA FactsStay ==
    ASSUME Monotone
    PROVE  /\ desk \/ SomeSucceeded => desk' \/ SomeSucceeded'
           /\ desk \/ SomeRefunded => desk' \/ SomeRefunded'
  BY DEF Monotone, SomeSucceeded, SomeRefunded

\* A cancellation: only a paid deposit is settled, and what it says it gave
\* back it has given back, unless there was nothing to give back (desk).
LEMMA SettlementStep ==
    ASSUME TypeOK, SettlementInv, PaidWasCharged, Monotone, [Next]_vars
    PROVE  SettlementInv'
<1> USE FactsStay, IntentsAreReal DEF SettlementInv
<1>1. ASSUME UNCHANGED cancels PROVE SettlementInv'
  BY <1>1 DEF cancels, Monotone
<1>2. ASSUME NEW c \in Cancels, LoadCancel(c) PROVE SettlementInv'
  BY <1>2 DEF LoadCancel, PaidWasCharged, TypeOK, Monotone
<1>3. ASSUME NEW c \in Cancels, Cancelling(c) PROVE SettlementInv'
  <2>1. CASE FindIntent(c)
    <3>1. Succeeded = {} => ~SomeSucceeded
      BY DEF Succeeded, SomeSucceeded
    <3>2. /\ \A o \in Cancels \ {c} : cancel'[o] = cancel[o] /\ target'[o] = target[o]
          /\ settlement' = settlement /\ refunds' = refunds
      BY <2>1 DEF FindIntent, intents, TypeOK
    <3>3. \/ /\ cancel'[c] = "save" /\ target'[c] = NoIntent
             /\ settlement[c] = "refunded" => ~SomeSucceeded
          \/ cancel'[c] = "refund" /\ target'[c] \in Intents
      BY <2>1, <3>1 DEF FindIntent, Latest, Succeeded, TypeOK
    <3> QED
      BY <3>2, <3>3
  <2>2. CASE IssueRefund(c)
    <3>1. target[c] \in Intents /\ refunds'[target[c]] # {}
      BY <2>2, RefundIssued DEF IssueRefund
    <3>2. SomeRefunded'
      BY <3>1 DEF SomeRefunded
    <3> QED
      BY <2>2, <3>1, <3>2 DEF IssueRefund, TypeOK, Monotone
  <2>3. CASE SaveCancel(c)
    BY <2>3 DEF SaveCancel, TypeOK, Monotone
  <2>4. CASE ReleaseCancel(c)
    BY <2>4 DEF ReleaseCancel, TypeOK, Monotone
  <2> QED
    BY <1>3, <2>1, <2>2, <2>3, <2>4 DEF Cancelling
<1>4. ASSUME NEW c \in Cancels, CrashCancel(c) PROVE SettlementInv'
  BY <1>4 DEF CrashCancel, TypeOK, Monotone
<1> QED
  BY <1>1, <1>2, <1>3, <1>4
     DEF Next, IntentStep, Open, FindInFlight, CreateIntent, Confirm, GatewayDecides,
         Deliver, Handle, Classify, Decline, RecordSuccess, RefundLate, Promote,
         CrashDelivery, Sweep, SweepFind, SweepClaim, SweepRelease, SweepVoid, CrashSweep,
         CloseWindow, vars

\* Who issued a refund stays on record with it.
LEMMA IssuersStep ==
    ASSUME TypeOK, Facts, [Next]_vars
    PROVE  RefundsHaveIssuers'
<1> USE DEF RefundsHaveIssuers, Facts
<1>1. ASSUME UNCHANGED <<refunds, handlers, cancels>> PROVE RefundsHaveIssuers'
  BY <1>1 DEF handlers, cancels
<1>2. ASSUME NEW d \in Deliveries, NEW i \in Intents, Deliver(d, i) PROVE RefundsHaveIssuers'
  BY <1>2 DEF Deliver, TypeOK, intents, cancels
<1>3. ASSUME NEW d \in Deliveries, Handle(d) PROVE RefundsHaveIssuers'
  <2>1. CASE Classify(d)
    BY <2>1 DEF Classify, TypeOK, intents, cancels
  <2>2. CASE Decline(d)
    BY <2>2 DEF Decline, SetIntent, SetDelivery, TypeOK, cancels
  <2>3. CASE RecordSuccess(d)
    BY <2>3 DEF RecordSuccess, SetDelivery, TypeOK, cancels
  <2>4. CASE RefundLate(d)
    <3>1. subject[d] \in Intents
      BY <2>4 DEF RefundLate, DeliveryInv
    <3>2. \A i \in Intents \ {subject[d]} : refunds'[i] = refunds[i]
      BY <2>4, <3>1, RefundIssued DEF RefundLate
    <3> QED
      BY <2>4, <3>1, <3>2 DEF RefundLate, SetDelivery, TypeOK, cancels
  <2>5. CASE Promote(d)
    BY <2>5 DEF Promote, SetDelivery, TypeOK, intents, cancels
  <2> QED
    BY <1>3, <2>1, <2>2, <2>3, <2>4, <2>5 DEF Handle
<1>4. ASSUME NEW d \in Deliveries, CrashDelivery(d) PROVE RefundsHaveIssuers'
  BY <1>4 DEF CrashDelivery, SetDelivery, TypeOK, intents, cancels
<1>5. ASSUME NEW c \in Cancels, LoadCancel(c) PROVE RefundsHaveIssuers'
  BY <1>5 DEF LoadCancel, TypeOK, intents, handlers
<1>6. ASSUME NEW c \in Cancels, Cancelling(c) PROVE RefundsHaveIssuers'
  <2>1. CASE FindIntent(c)
    BY <2>1, IntentsAreReal DEF FindIntent, SettlementInv, TypeOK, intents, handlers
  <2>2. CASE IssueRefund(c)
    <3>1. target[c] \in Intents
      BY <2>2 DEF IssueRefund, SettlementInv
    <3>2. \A i \in Intents \ {target[c]} : refunds'[i] = refunds[i]
      BY <2>2, <3>1, RefundIssued DEF IssueRefund
    <3> QED
      BY <2>2, <3>1, <3>2 DEF IssueRefund, TypeOK, handlers
  <2>3. CASE SaveCancel(c)
    BY <2>3 DEF SaveCancel, TypeOK, intents, handlers
  <2>4. CASE ReleaseCancel(c)
    BY <2>4 DEF ReleaseCancel, TypeOK, intents, handlers
  <2> QED
    BY <1>6, <2>1, <2>2, <2>3, <2>4 DEF Cancelling
<1>7. ASSUME NEW c \in Cancels, CrashCancel(c) PROVE RefundsHaveIssuers'
  BY <1>7 DEF CrashCancel, TypeOK, intents, handlers
<1> QED
  BY <1>1, <1>2, <1>3, <1>4, <1>5, <1>6, <1>7
     DEF Next, IntentStep, Open, FindInFlight, CreateIntent, Confirm, GatewayDecides,
         SetIntent, Sweep, SweepFind, SweepClaim, SweepRelease, SweepVoid, CrashSweep,
         CloseWindow, intents, vars

----------------------------------------------------------------------------
(* The reservation and the money                                            *)

\* The paymentStatus is written by Promote, whose intent succeeded, and by
\* SaveCancel, whose settlement was paid and, if refunded, has its refund.
LEMMA PaymentStep ==
    ASSUME TypeOK, Facts, Monotone, [Next]_vars, PaidWasCharged, RefundedIsOnRecord
    PROVE  PaidWasCharged' /\ RefundedIsOnRecord'
<1> USE FactsStay DEF PaidWasCharged, RefundedIsOnRecord, Facts
<1>1. ASSUME payment' = payment PROVE PaidWasCharged' /\ RefundedIsOnRecord'
  BY <1>1
<1>2. ASSUME NEW d \in Deliveries, Promote(d) PROVE PaidWasCharged' /\ RefundedIsOnRecord'
  <2>1. SomeSucceeded
    BY <1>2 DEF Promote, DeliveryInv, SomeSucceeded
  <2> QED
    BY <1>2, <2>1 DEF Promote
<1>3. ASSUME NEW c \in Cancels, SaveCancel(c) PROVE PaidWasCharged' /\ RefundedIsOnRecord'
  <2>1. CASE settlement[c] = "keep"
    BY <1>1, <1>3, <2>1 DEF SaveCancel
  <2>2. CASE settlement[c] # "keep"
    BY <1>3, <2>2 DEF SaveCancel, SettlementInv
  <2> QED
    BY <2>1, <2>2
<1> QED
  BY <1>1, <1>2, <1>3
     DEF Next, IntentStep, Open, FindInFlight, CreateIntent, Confirm, GatewayDecides,
         Deliver, Handle, Classify, Decline, RecordSuccess, RefundLate, CrashDelivery,
         LoadCancel, Cancelling, FindIntent, IssueRefund, ReleaseCancel, CrashCancel,
         Sweep, SweepFind, SweepClaim, SweepRelease, SweepVoid, CrashSweep, CloseWindow,
         document, intents, vars

\* As long as nothing has crossed, a verdict is promoted only into a pending or a
\* reserved reservation, and whoever cancels knows what it is cancelling.
LEMMA OrderStep ==
    ASSUME TypeOK, OrderInv, [Next]_vars
    PROVE  OrderInv'
<1> SUFFICES ASSUME ~crossed' PROVE OrderInv'
  BY DEF OrderInv
<1> USE DEF OrderInv, TypeOK, PromotionUnderway
<1>1. ASSUME UNCHANGED <<document, handlers, cancels, sweep>> PROVE OrderInv'
  BY <1>1 DEF document, handlers, cancels
<1>2. ASSUME NEW d \in Deliveries, NEW i \in Intents, Deliver(d, i) PROVE OrderInv'
  BY <1>2 DEF Deliver, document, cancels
<1>3. ASSUME NEW d \in Deliveries, Handle(d) PROVE OrderInv'
  <2>1. CASE Classify(d)
    BY <2>1 DEF Classify, document, cancels
  <2>2. CASE Decline(d)
    BY <2>2 DEF Decline, SetDelivery, document, cancels
  <2>3. CASE RecordSuccess(d)
    BY <2>3 DEF RecordSuccess, SetDelivery, document, cancels
  <2>4. CASE RefundLate(d)
    BY <2>4 DEF RefundLate, SetDelivery, document, cancels
  <2>5. CASE Promote(d)
    <3>1. ~crossed /\ ~CancellationUnderway /\ lifecycle # "CANCELLED"
      BY <2>5 DEF Promote
    <3>2. \A c \in Cancels :
            cancel[c] \notin {"settle", "refund", "save", "release", "done"}
      BY <3>1 DEF CancellationUnderway
    <3>3. sweep # "release" /\ capacity
      BY <3>1
    <3> QED
      BY <2>5, <3>2, <3>3 DEF Promote, SetDelivery, cancels
  <2> QED
    BY <1>3, <2>1, <2>2, <2>3, <2>4, <2>5 DEF Handle
<1>4. ASSUME NEW d \in Deliveries, CrashDelivery(d) PROVE OrderInv'
  BY <1>4 DEF CrashDelivery, SetDelivery, document, cancels
<1>5. ASSUME NEW c \in Cancels, LoadCancel(c) PROVE OrderInv'
  BY <1>5 DEF LoadCancel, document, handlers
<1>6. ASSUME NEW c \in Cancels, Cancelling(c) PROVE OrderInv'
  <2>1. CASE FindIntent(c)
    BY <2>1 DEF FindIntent, document, handlers
  <2>2. CASE IssueRefund(c)
    BY <2>2 DEF IssueRefund, document, handlers
  <2>3. CASE SaveCancel(c)
    <3>1. ~crossed /\ ~PromotionUnderway
      BY <2>3 DEF SaveCancel
    <3>2. lifecycle' = "CANCELLED" /\ payment' # "paid"
      BY <2>3, <3>1 DEF SaveCancel
    <3>3. ~PromotionUnderway'
      BY <2>3, <3>1 DEF SaveCancel, handlers
    <3> QED
      BY <2>3, <3>1, <3>2, <3>3 DEF SaveCancel
  <2>4. CASE ReleaseCancel(c)
    BY <2>4 DEF ReleaseCancel, handlers
  <2> QED
    BY <1>6, <2>1, <2>2, <2>3, <2>4 DEF Cancelling
<1>7. ASSUME NEW c \in Cancels, CrashCancel(c) PROVE OrderInv'
  BY <1>7 DEF CrashCancel, document, handlers
<1>8. CASE Sweep
  <2>1. CASE SweepFind
    BY <2>1 DEF SweepFind, document, handlers, cancels
  <2>2. CASE SweepClaim
    BY <2>2 DEF SweepClaim, handlers, cancels
  <2>3. CASE SweepRelease
    BY <2>3 DEF SweepRelease, handlers, cancels
  <2>4. CASE SweepVoid
    BY <2>4 DEF SweepVoid, document, handlers, cancels
  <2> QED
    BY <1>8, <2>1, <2>2, <2>3, <2>4 DEF Sweep
<1>9. CASE CrashSweep
  BY <1>9 DEF CrashSweep, document, handlers, cancels
<1> QED
  BY <1>1, <1>2, <1>3, <1>4, <1>5, <1>6, <1>7, <1>8, <1>9
     DEF Next, IntentStep, Open, FindInFlight, CreateIntent, Confirm, GatewayDecides,
         CloseWindow, vars

\* What a step does to the successes nobody answers for: it adds none, unless a
\* verdict is promoted.
LEMMA AnswersStay ==
    ASSUME TypeOK, Facts, Monotone, [Next]_vars, NEW i \in Intents, Unanswered(i)'
    PROVE  Unanswered(i) \/ \E d \in Deliveries : Promote(d) /\ subject[d] = i
<1> USE DEF Unanswered, InHand, Monotone, Facts
<1>1. ASSUME NEW d \in Deliveries, NEW other \in Intents, Deliver(d, other)
      PROVE Unanswered(i)
  BY <1>1 DEF Deliver, DeliveryInv, TypeOK, intents
<1>2. ASSUME NEW d \in Deliveries, Handle(d)
      PROVE Unanswered(i) \/ (Promote(d) /\ subject[d] = i)
  <2>1. CASE Classify(d)
    BY <2>1 DEF Classify, TypeOK, intents
  <2>2. CASE Decline(d)
    BY <2>2 DEF Decline, SetIntent, SetDelivery, TypeOK
  <2>3. CASE RecordSuccess(d)
    <3>1. subject' = subject /\ delivery'[d] \in {"refund", "promote"}
      BY <2>3 DEF RecordSuccess, SetDelivery, TypeOK
    <3>2. subject[d] # i
      BY <3>1
    <3> QED
      BY <2>3, <3>2 DEF RecordSuccess, SetDelivery, TypeOK
  <2>4. CASE RefundLate(d)
    <3>1. subject[d] \in Intents
      BY <2>4 DEF RefundLate, DeliveryInv
    <3>2. subject[d] # i
      BY <2>4, <3>1, RefundIssued DEF RefundLate
    <3>3. refunds'[i] = refunds[i]
      BY <2>4, <3>1, <3>2, RefundIssued DEF RefundLate
    <3> QED
      BY <2>4, <3>2, <3>3 DEF RefundLate, SetDelivery, TypeOK
  <2>5. CASE Promote(d)
    BY <2>5 DEF Promote, SetDelivery, TypeOK, intents
  <2> QED
    BY <1>2, <2>1, <2>2, <2>3, <2>4, <2>5 DEF Handle
<1>3. ASSUME NEW d \in Deliveries, CrashDelivery(d) PROVE Unanswered(i)
  BY <1>3 DEF CrashDelivery, SetDelivery, TypeOK, intents
<1>4. ASSUME UNCHANGED handlers, intent'[i] = "succeeded" => intent[i] = "succeeded"
      PROVE Unanswered(i)
  BY <1>4 DEF handlers
<1> QED
  BY <1>1, <1>2, <1>3, <1>4
     DEF Next, IntentStep, Open, FindInFlight, CreateIntent, Confirm, GatewayDecides,
         SetIntent, LoadCancel, Cancelling, FindIntent, IssueRefund, SaveCancel,
         ReleaseCancel, CrashCancel, Sweep, SweepFind, SweepClaim, SweepRelease, SweepVoid,
         CrashSweep, CloseWindow, document, intents, vars, TypeOK

\* A cancellation looks for a success after it loaded the reservation, and a
\* promotion that adds one after that has crossed it.
LEMMA GiveBackStep ==
    ASSUME TypeOK, Facts, Monotone, [Next]_vars, GivesBackOne
    PROVE  GivesBackOne'
<1> SUFFICES ASSUME ~crossed', NEW c \in Cancels, NEW i \in Intents,
                    settlement'[c] = "refunded", cancel'[c] \in {"refund", "save"},
                    Unanswered(i)'
             PROVE  target'[c] \in Intents
  BY DEF GivesBackOne
<1>1. CASE FindIntent(c)
  <2>1. Unanswered(i)
    BY <1>1, AnswersStay DEF FindIntent, Promote, SetDelivery, handlers, TypeOK
  <2>2. i \in Succeeded
    BY <2>1 DEF Unanswered, Succeeded
  <2> QED
    BY <1>1, <2>2 DEF FindIntent, Latest, Succeeded, TypeOK
<1>2. CASE IssueRefund(c)
  BY <1>2 DEF IssueRefund, Facts, SettlementInv, TypeOK
<1>3. CASE LoadCancel(c)
  BY <1>3 DEF LoadCancel, TypeOK
<1>4. CASE cancel[c] \in {"refund", "save"} /\ settlement[c] = "refunded" /\ target'[c] = target[c]
  <2>1. ASSUME NEW d \in Deliveries PROVE ~Promote(d)
    BY <1>4, <2>1 DEF Promote, CancellationUnderway
  <2>2. Unanswered(i)
    BY <2>1, AnswersStay
  <2>3. ~crossed
    BY DEF Next, IntentStep, Open, FindInFlight, CreateIntent, Confirm, GatewayDecides,
           Deliver, Handle, Classify, Decline, RecordSuccess, RefundLate, Promote,
           CrashDelivery, LoadCancel, Cancelling, FindIntent, IssueRefund, SaveCancel,
           ReleaseCancel, CrashCancel, Sweep, SweepFind, SweepClaim, SweepRelease,
           SweepVoid, CrashSweep, CloseWindow, document, vars
  <2> QED
    BY <1>4, <2>2, <2>3 DEF GivesBackOne
<1> QED
  BY <1>1, <1>2, <1>3, <1>4
     DEF Next, IntentStep, Open, FindInFlight, CreateIntent, Confirm, GatewayDecides,
         Deliver, Handle, Classify, Decline, RecordSuccess, RefundLate, Promote,
         CrashDelivery, LoadCancel, Cancelling, FindIntent, IssueRefund, SaveCancel,
         ReleaseCancel, CrashCancel, Sweep, SweepFind, SweepClaim, SweepRelease,
         SweepVoid, CrashSweep, CloseWindow, cancels, vars, TypeOK

\* Only a cancellation that settles takes a deposit from under a reservation
\* that stands on it; only a promotion puts one there.
LEMMA StandingMoves ==
    ASSUME TypeOK, OrderInv, [Next]_vars, ~crossed'
    PROVE  /\ ~crossed
           /\ Stands' => Stands \/ \E d \in Deliveries : Promote(d)
           /\ Stands => Stands' \/ \E c \in Cancels :
                                   SaveCancel(c) /\ settlement[c] # "keep"
           /\ payment = "forfeited" =>
                \/ payment' = "forfeited" \/ Stands'
                \/ \E c \in Cancels : SaveCancel(c) /\ settlement[c] # "keep"
<1> USE DEF Stands
<1>1. ASSUME UNCHANGED <<lifecycle, payment, crossed>>
      PROVE  /\ ~crossed /\ (Stands' <=> Stands)
             /\ payment = "forfeited" => payment' = "forfeited"
  BY <1>1
<1>2. ASSUME NEW d \in Deliveries, Promote(d) PROVE ~crossed /\ Stands'
  BY <1>2 DEF Promote
<1>3. ASSUME NEW c \in Cancels, SaveCancel(c)
      PROVE  /\ ~crossed /\ (Stands' => Stands)
             /\ settlement[c] = "keep" => payment' = payment /\ (Stands => Stands')
  BY <1>3 DEF SaveCancel, OrderInv, TypeOK
<1>4. ASSUME SweepClaim
      PROVE  /\ ~crossed /\ payment' = payment
             /\ Stands' <=> Stands
  BY <1>4 DEF SweepClaim
<1> QED
  BY <1>1, <1>2, <1>3, <1>4
     DEF Next, IntentStep, Open, FindInFlight, CreateIntent, Confirm, GatewayDecides,
         Deliver, Handle, Classify, Decline, RecordSuccess, RefundLate,
         CrashDelivery, LoadCancel, Cancelling, FindIntent, IssueRefund,
         ReleaseCancel, CrashCancel, Sweep, SweepFind, SweepRelease,
         SweepVoid, CrashSweep, CloseWindow, document, vars

\* A deposit is taken from under the reservation only by a cancellation that
\* has the refund of it, or of another attempt, on record.
LEMMA AccountStep ==
    ASSUME TypeOK, Facts, Monotone, OrderInv, GivesBackOne, [Next]_vars, NoDepositForgotten
    PROVE  NoDepositForgotten'
<1> SUFFICES ASSUME NEW i \in Intents, Unanswered(i)', ~crossed'
             PROVE  Stands' \/ payment' = "forfeited" \/ Outlived(i)'
  BY DEF NoDepositForgotten, Unanswered
<1>1. Outlived(i) => Outlived(i)'
  BY DEF Outlived, Monotone
<1>2. CASE \E d \in Deliveries : Promote(d)
  BY <1>2 DEF Promote, Stands
<1>3. ASSUME NEW c \in Cancels, SaveCancel(c), settlement[c] # "keep", Unanswered(i)
      PROVE  payment' = "forfeited" \/ Outlived(i)'
  <2>1. CASE settlement[c] = "forfeited"
    BY <1>3, <2>1 DEF SaveCancel
  <2>2. CASE settlement[c] = "refunded"
    <3>1. target[c] \in Intents
      BY <1>3, <2>2, StandingMoves DEF GivesBackOne, SaveCancel
    <3>2. refunds[target[c]] # {} /\ target[c] # i
      BY <1>3, <3>1 DEF Facts, SettlementInv, SaveCancel, Unanswered
    <3> QED
      BY <1>1, <3>1, <3>2 DEF Outlived
  <2> QED
    BY <1>3, <2>1, <2>2 DEF TypeOK
<1>4. CASE Unanswered(i)
  <2>1. Stands \/ payment = "forfeited" \/ Outlived(i)
    BY <1>4, StandingMoves DEF NoDepositForgotten, Unanswered
  <2> QED
    BY <1>1, <1>3, <1>4, <2>1, StandingMoves
<1> QED
  BY <1>2, <1>4, AnswersStay

\* Two handlers of one verdict, once there are two, stay two.
LEMMA RedeliveredStays == ASSUME TypeOK, [Next]_vars, Redelivered PROVE Redelivered'
<1> USE DEF Redelivered, TypeOK
<1>1. ASSUME UNCHANGED handlers PROVE Redelivered'
  BY <1>1 DEF handlers
<1>2. ASSUME NEW d \in Deliveries, NEW i \in Intents, Deliver(d, i) PROVE Redelivered'
  BY <1>2 DEF Deliver
<1>3. ASSUME NEW d \in Deliveries, Handle(d) \/ CrashDelivery(d) PROVE Redelivered'
  BY <1>3 DEF Handle, Classify, Decline, RecordSuccess, RefundLate, Promote, CrashDelivery,
              SetDelivery
<1> QED
  BY <1>1, <1>2, <1>3
     DEF Next, IntentStep, Open, FindInFlight, CreateIntent, Confirm, GatewayDecides,
         LoadCancel, Cancelling, FindIntent, IssueRefund, SaveCancel, ReleaseCancel,
         CrashCancel, Sweep, SweepFind, SweepClaim, SweepRelease, SweepVoid, CrashSweep,
         CloseWindow, vars

\* A promotion stands on its own verdict's intent, whose refund could only come
\* from a second handler of the verdict or from a cancellation.
LEMMA PromotionStands ==
    ASSUME TypeOK, Facts, OrderInv, ~crossed', NEW d \in Deliveries, Promote(d)
    PROVE  StandsOnDeposit'
<1>1. /\ ~crossed /\ ~CancellationUnderway /\ lifecycle # "CANCELLED"
      /\ \A c \in Cancels : cancel[c] \notin {"save", "release", "done"}
  BY DEF Promote, OrderInv, PromotionUnderway, CancellationUnderway
<1>2. /\ subject[d] \in Intents /\ delivery[d] = "promote"
      /\ delivery' = [delivery EXCEPT ![d] = "promoted"]
      /\ UNCHANGED <<subject, refunds, cancel, target>>
  BY DEF Promote, SetDelivery, Facts, DeliveryInv, intents, cancels
<1>3. CASE refunds[subject[d]] = {}
  BY <1>2, <1>3 DEF StandsOnDeposit, TypeOK
<1>4. CASE \E other \in Deliveries :
             subject[other] = subject[d] /\ delivery[other] = "returned"
  BY <1>2, <1>4 DEF StandsOnDeposit, Redelivered, TypeOK
<1>5. CASE \E c \in Cancels : target[c] = subject[d] /\ cancel[c] = "crashed"
  BY <1>2, <1>5, IntentsAreReal DEF StandsOnDeposit, ReturnUnsaved
<1> QED
  BY <1>1, <1>2, <1>3, <1>4, <1>5 DEF Facts, RefundsHaveIssuers

LEMMA StandingStep ==
    ASSUME TypeOK, Facts, Monotone, OrderInv, [Next]_vars, StandsOnDeposit
    PROVE  StandsOnDeposit'
<1> SUFFICES ASSUME Stands', ~crossed', ~desk', ~Redelivered',
                    \A d \in Deliveries : ~Promote(d)
             PROVE  \/ ReturnUnsaved'
                    \/ \E d \in Deliveries : delivery'[d] = "promoted"
                                             /\ refunds'[subject'[d]] = {}
  BY PromotionStands DEF StandsOnDeposit
<1>1. Stands /\ ~crossed /\ ~desk /\ ~Redelivered
  BY StandingMoves, RedeliveredStays DEF Monotone
<1>2. CASE ReturnUnsaved
  <2>1. PICK c \in Cancels : target[c] # NoIntent /\ cancel[c] \in {"save", "crashed"}
    BY <1>2 DEF ReturnUnsaved
  <2>2. ~SaveCancel(c)
    BY <1>1 DEF SaveCancel, OrderInv, Stands
  <2>3. target'[c] = target[c] /\ cancel'[c] \in {"save", "crashed"}
    BY <2>1, <2>2
       DEF Next, IntentStep, Open, FindInFlight, CreateIntent, Confirm, GatewayDecides,
           Deliver, Handle, Classify, Decline, RecordSuccess, RefundLate, Promote,
           CrashDelivery, LoadCancel, Cancelling, FindIntent, IssueRefund, SaveCancel,
           ReleaseCancel, CrashCancel, Sweep, SweepFind, SweepClaim, SweepRelease,
           SweepVoid, CrashSweep, CloseWindow, cancels, vars, TypeOK
  <2> QED
    BY <2>1, <2>3 DEF ReturnUnsaved
<1>3. CASE \E d \in Deliveries : delivery[d] = "promoted" /\ refunds[subject[d]] = {}
  <2>1. PICK d \in Deliveries : delivery[d] = "promoted" /\ refunds[subject[d]] = {}
    BY <1>3
  <2>2. subject[d] \in Intents
    BY <2>1 DEF Facts, DeliveryInv
  <2>3. delivery'[d] = "promoted" /\ subject'[d] = subject[d]
    BY <2>1
       DEF Next, IntentStep, Open, FindInFlight, CreateIntent, Confirm, GatewayDecides,
           Deliver, Handle, Classify, Decline, RecordSuccess, RefundLate, Promote,
           SetDelivery, CrashDelivery, LoadCancel, Cancelling, FindIntent, IssueRefund,
           SaveCancel, ReleaseCancel, CrashCancel, Sweep, SweepFind, SweepClaim,
           SweepRelease, SweepVoid, CrashSweep, CloseWindow, handlers, vars, TypeOK
  <2>4. CASE refunds'[subject[d]] = {}
    BY <2>3, <2>4
  <2>5. ASSUME NEW c \in Cancels, IssueRefund(c) PROVE ReturnUnsaved'
    BY <2>5, IntentsAreReal DEF IssueRefund, Facts, SettlementInv, ReturnUnsaved, TypeOK
  <2>6. ASSUME NEW other \in Deliveries, RefundLate(other) PROVE refunds'[subject[d]] = {}
    <3>1. other # d /\ subject[other] \in Intents
      BY <2>1, <2>6 DEF RefundLate, Facts, DeliveryInv
    <3>2. subject[other] # subject[d]
      BY <1>1, <2>1, <2>6, <3>1 DEF RefundLate, Redelivered
    <3> QED
      BY <2>1, <2>2, <2>6, <3>1, <3>2, RefundIssued DEF RefundLate
  <2>7. CASE refunds' = refunds
    BY <2>1, <2>4, <2>7
  <2> QED
    BY <2>4, <2>5, <2>6, <2>7
       DEF Next, IntentStep, Open, FindInFlight, CreateIntent, Confirm, GatewayDecides,
           SetIntent, Deliver, Handle, Classify, Decline, RecordSuccess, Promote,
           CrashDelivery, LoadCancel, Cancelling, FindIntent, SaveCancel,
           ReleaseCancel, CrashCancel, Sweep, SweepFind, SweepClaim, SweepRelease,
           SweepVoid, CrashSweep, CloseWindow, intents, vars
<1> QED
  BY <1>1, <1>2, <1>3 DEF StandsOnDeposit

----------------------------------------------------------------------------
(* Theorems                                                                 *)

LEMMA Consecution == IInv /\ [Next]_vars => IInv'
<1> SUFFICES ASSUME IInv, [Next]_vars PROVE IInv'
  OBVIOUS
<1> USE DEF IInv
<1>1. TypeOK'
  BY TypeStep
<1>2. VerdictInv' /\ Monotone
  BY RecordsStay
<1>3. Facts'
  BY <1>2, DeliveryStep, SettlementStep, IssuersStep DEF Facts
<1>4. PaidWasCharged' /\ RefundedIsOnRecord'
  BY <1>2, PaymentStep
<1>5. OrderInv'
  BY OrderStep
<1>6. GivesBackOne'
  BY <1>2, GiveBackStep
<1>7. StandsOnDeposit'
  BY <1>2, StandingStep
<1>8. NoDepositForgotten'
  BY <1>2, AccountStep
<1> QED
  BY <1>1, <1>3, <1>4, <1>5, <1>6, <1>7, <1>8

\* The inductive invariant holds at every step of every handler.
THEOREM CommitmentAlways == Spec => []IInv
<1>1. IInv /\ UNCHANGED vars => IInv'
  BY Consecution
<1> QED
  BY InitHolds, Consecution, <1>1, PTL DEF Spec

\* Every field, of the documents and of the handlers, has its type.
THEOREM TypeCorrect == Spec => []TypeOK
<1>1. IInv => TypeOK
  BY DEF IInv
<1> QED
  BY CommitmentAlways, <1>1, PTL

\* A reservation that says paid or refunded is backed by an intent the gateway
\* charged (commitment.service.ts:288-299), or was paid at the desk.
THEOREM PaidIsAlwaysBacked == Spec => []PaidIsBacked
<1>1. IInv => PaidIsBacked
  BY DEF IInv, Facts, PaidIsBacked, PaidWasCharged, SomeSucceeded, VerdictInv
<1> QED
  BY CommitmentAlways, <1>1, PTL

\* A deposit on record as succeeded is what the reservation stands on, was
\* forfeited or has a Refund document, but for the listed ways to lose one
\* (commitment.service.ts:273-299, 581-600).
THEOREM DepositsAreAccounted == Spec => []NoDepositForgotten
<1>1. IInv => NoDepositForgotten
  BY DEF IInv
<1> QED
  BY CommitmentAlways, <1>1, PTL

\* A reservation that says refunded has a Refund document, and none stands on a
\* deposit that has one, but for the listed overlaps (493-515, 587-600).
THEOREM RefundsAreRecorded == Spec => []RefundIsRecorded
<1>1. IInv => RefundIsRecorded
  <2> SUFFICES ASSUME IInv PROVE RefundIsRecorded
    OBVIOUS
  <2>1. payment = "refunded" => desk \/ \E i \in Intents : refunds[i] # {}
    BY DEF IInv, RefundedIsOnRecord, SomeRefunded
  <2>2. \A d \in Deliveries : delivery[d] = "promoted" =>
           subject[d] \in Intents /\ intent[subject[d]] = "succeeded"
    BY DEF IInv, Facts, DeliveryInv
  <2> QED
    BY <2>1, <2>2 DEF IInv, StandsOnDeposit, RefundIsRecorded
<1> QED
  BY CommitmentAlways, <1>1, PTL

\* A reserved reservation has its charger time, in whatever order verdicts,
\* expiries and cancellations come, unless a promotion and a cancellation
\* overlapped (commitment.service.ts:267-299, 365-385).
THEOREM ReservedIsHeld == Spec => []ReservedHasTime
<1>1. IInv => ReservedHasTime
  BY DEF IInv, OrderInv, ReservedHasTime
<1> QED
  BY CommitmentAlways, <1>1, PTL

----------------------------------------------------------------------------
(* The interval: what is true of the documents whatever overlaps, dies or   *)
(* is forced                                                                *)

Moving == {"target", "repoint", "take", "putback", "leave"}

\* What a call that is under way has loaded.
CallsFit ==
    \A c \in Busy :
        /\ call[c].booking \in Bookings /\ call[c].slot \in Slots
        /\ call[c].at \in Moving => call[c].prev \in Slots /\ call[c].prev # call[c].slot
        /\ call[c].at = "save" => /\ booking[call[c].booking].status # "none"
                                  /\ call[c].set \in {"confirmed", "cancelled", "spent"}

\* What the partial unique index guards: a reservation holds one interval, and
\* an interval is held once.
Placed == \A b \in Bookings : booking[b].status \in Indexed \cup {"cancelled"}
                                => booking[b].slot \in Slots
Unique == \A a, b \in Bookings :
              /\ booking[a].status \in Indexed /\ booking[b].status \in Indexed
              /\ booking[a].slot = booking[b].slot
              => a = b

Sound == SlotsTypeOK /\ CallsFit /\ Placed /\ Unique

BookingRecords == [status : Statuses, slot : Slots \cup {None}]
BookingsFit == booking \in [Bookings -> BookingRecords] /\ Placed /\ Unique

\* A write of one reservation under the index.
LEMMA WriteFits ==
    ASSUME BookingsFit, NEW b \in Bookings, NEW new \in BookingRecords,
           new.status \in Indexed \cup {"cancelled"} => new.slot \in Slots,
           new.status \in Indexed => At(new.slot, Indexed) \ {b} = {},
           booking' = [booking EXCEPT ![b] = new]
    PROVE  BookingsFit'
<1>1. \A a \in Bookings : booking'[a] = IF a = b THEN new ELSE booking[a]
  BY DEF BookingsFit
<1>2. booking' \in [Bookings -> BookingRecords]
  BY DEF BookingsFit
<1>3. Placed'
  BY <1>1 DEF BookingsFit, Placed
<1>4. ASSUME NEW a \in Bookings \ {b}, new.status \in Indexed, booking[a].status \in Indexed
      PROVE  booking[a].slot # new.slot
  BY <1>4 DEF At
<1>5. Unique'
  BY <1>1, <1>4 DEF BookingsFit, Unique
<1> QED
  BY <1>2, <1>3, <1>5 DEF BookingsFit, BookingRecords

\* Of a write only the status, or only the interval, may be new.
LEMMA StatusFits ==
    ASSUME BookingsFit, NEW b \in Bookings, NEW status \in Statuses,
           booking[b].slot \in Slots \/ status \notin Indexed \cup {"cancelled"},
           status \in Indexed => At(booking[b].slot, Indexed) \ {b} = {},
           booking' = [booking EXCEPT ![b].status = status]
    PROVE  BookingsFit'
<1> DEFINE new == [booking[b] EXCEPT !.status = status]
<1>1. new \in BookingRecords /\ new.status = status /\ new.slot = booking[b].slot
  BY DEF BookingsFit, BookingRecords
<1>2. booking' = [booking EXCEPT ![b] = new]
  OBVIOUS
<1> HIDE DEF new
<1> QED
  BY <1>1, <1>2, WriteFits

LEMMA SlotFits ==
    ASSUME BookingsFit, NEW b \in Bookings, NEW s \in Slots,
           booking[b].status \in Indexed => At(s, Indexed) \ {b} = {},
           booking' = [booking EXCEPT ![b].slot = s]
    PROVE  BookingsFit'
<1> DEFINE new == [booking[b] EXCEPT !.slot = s]
<1>1. new \in BookingRecords /\ new.status = booking[b].status /\ new.slot = s
  BY DEF BookingsFit, BookingRecords
<1>2. booking' = [booking EXCEPT ![b] = new]
  OBVIOUS
<1> HIDE DEF new
<1> QED
  BY <1>1, <1>2, WriteFits

\* The sets of statuses, spelled out.
LEMMA IndexedMeans ==
    Indexed = {"pending", "confirmed", "spent"} /\ Holding = {"pending", "confirmed"}
    /\ Statuses = {"pending", "confirmed", "spent", "none", "cancelled", "deleted"}
  BY DEF Indexed, Holding, Statuses

\* Some reservations that hold go on to be spent.
LEMMA SpendingFits ==
    ASSUME BookingsFit, NEW some, some \subseteq {b \in Bookings : booking[b].status = "confirmed"},
           booking' = [b \in Bookings |->
                         IF b \in some THEN [booking[b] EXCEPT !.status = "spent"]
                         ELSE booking[b]]
    PROVE  BookingsFit'
<1>1. ASSUME NEW b \in Bookings
      PROVE  /\ booking'[b] \in BookingRecords
             /\ booking'[b].slot = booking[b].slot
             /\ booking'[b].status = IF b \in some THEN "spent" ELSE booking[b].status
  <2>1. booking[b] \in BookingRecords
    BY DEF BookingsFit
  <2> QED
    BY <2>1, IndexedMeans DEF BookingRecords
<1>2. booking' \in [Bookings -> BookingRecords]
  BY <1>1
<1>3. \A b \in Bookings : booking'[b].status \in Indexed <=> booking[b].status \in Indexed
  BY <1>1, IndexedMeans
<1>4. \A b \in Bookings : booking'[b].status = "cancelled" <=> booking[b].status = "cancelled"
  BY <1>1
<1> QED
  BY <1>1, <1>2, <1>3, <1>4 DEF BookingsFit, Placed, Unique, BookingRecords

----------------------------------------------------------------------------
(* The calls: what they have loaded stays fit for what they do next         *)

Typed == call \in [Calls -> CallRecords]

\* No reservation goes back to not having been made.
NoneUnmade == \A b \in Bookings : booking[b].status # "none" => booking'[b].status # "none"

\* Only call c moves, and keeps what it is about.
Moves(c, at) ==
    /\ \A d \in Calls \ {c} : call'[d] = call[d]
    /\ call'[c].at = at
    /\ at # "idle" => /\ call'[c].booking = call[c].booking /\ call'[c].then = call[c].then
                      /\ call'[c].slot = call[c].slot /\ call'[c].prev = call[c].prev
                      /\ call'[c].status = call[c].status /\ call'[c].set = call[c].set

LEMMA IdleTyped ==
    Idle \in CallRecords /\ Idle.at = "idle" /\ Idle.then = None
  BY DEF Idle, CallRecords, Steps, Statuses, Indexed, Holding

LEMMA GoesMoves ==
    ASSUME Typed, NEW c \in Calls, NEW at \in Steps, Goes(c, at)
    PROVE  Typed' /\ Moves(c, at)
<1>1. call[c] \in CallRecords
  BY DEF Typed
<1>2. CASE at = "idle"
  BY <1>2, IdleTyped DEF Goes, Typed, Moves
<1>3. CASE at # "idle"
  <2>1. call' = [call EXCEPT ![c] = [call[c] EXCEPT !.at = at]]
    BY <1>3 DEF Goes
  <2> QED
    BY <1>1, <2>1 DEF Typed, Moves, CallRecords
<1> QED
  BY <1>2, <1>3

LEMMA GoesFits ==
    ASSUME Typed, CallsFit, NEW c \in Busy, NEW at \in Steps \ {"save"}, Goes(c, at),
           at \in Moving => call[c].at \in Moving, NoneUnmade
    PROVE  Typed' /\ CallsFit'
<1>1. c \in Calls /\ Typed' /\ Moves(c, at)
  BY GoesMoves DEF Busy
<1>2. \A d \in Busy' \ {c} : d \in Busy /\ call'[d] = call[d]
  BY <1>1 DEF Moves, Busy
<1>3. c \in Busy' => at # "idle"
  BY <1>1 DEF Moves, Busy
<1> QED
  BY <1>1, <1>2, <1>3 DEF CallsFit, Moves, NoneUnmade

\* A call that has released an interval is over, or goes on with its claim.
LEMMA ResumesFits ==
    ASSUME Typed, CallsFit, NEW c \in Busy, Resumes(c), NoneUnmade
    PROVE  /\ Typed' /\ CallsFit' /\ \A d \in Calls \ {c} : call'[d] = call[d]
           /\ \/ call[c].then = None /\ call'[c].at = "idle"
              \/ /\ call[c].then # None /\ call'[c].at = "look"
                 /\ call'[c].booking = call[c].then /\ call'[c].then = None
<1>1. c \in Calls /\ call[c] \in CallRecords
  BY DEF Typed, Busy
<1> DEFINE n == [call[c] EXCEPT !.at = "look", !.booking = call[c].then, !.then = None]
<1>2. CASE call[c].then = None
  <2>1. call' = [call EXCEPT ![c] = Idle]
    BY <1>2 DEF Resumes
  <2>2. Typed' /\ call'[c].at = "idle" /\ \A d \in Calls \ {c} : call'[d] = call[d]
    BY <1>1, <2>1, IdleTyped DEF Typed
  <2>3. \A d \in Busy' : d \in Busy /\ call'[d] = call[d]
    BY <2>2 DEF Busy
  <2> QED
    BY <1>2, <2>2, <2>3 DEF CallsFit, NoneUnmade
<1>3. CASE call[c].then # None
  <2>1. call' = [call EXCEPT ![c] = n]
    BY <1>3 DEF Resumes
  <2>2. /\ n \in CallRecords /\ n.at = "look" /\ n.booking = call[c].then /\ n.then = None
        /\ n.slot = call[c].slot /\ n.booking \in Bookings
    BY <1>1, <1>3 DEF CallRecords, Steps
  <2> HIDE DEF n
  <2>3. Typed' /\ call'[c] = n /\ \A d \in Calls \ {c} : call'[d] = call[d]
    BY <1>1, <2>1, <2>2 DEF Typed
  <2>4. \A d \in Busy' \ {c} : d \in Busy /\ call'[d] = call[d]
    BY <2>3 DEF Busy
  <2> QED
    BY <1>3, <2>2, <2>3, <2>4 DEF CallsFit, NoneUnmade, Moving
<1> QED
  BY <1>2, <1>3

\* A call begins with a record that fits.
LEMMA EnterFits ==
    ASSUME Typed, CallsFit, NEW c \in Calls, NEW served, NEW n \in CallRecords,
           Enter(c, served, n), n.booking \in Bookings, n.slot \in Slots,
           n.at \in Moving => n.prev \in Slots /\ n.prev # n.slot,
           n.at = "save" => /\ booking[n.booking].status # "none"
                            /\ n.set \in {"confirmed", "cancelled", "spent"}
    PROVE  Typed' /\ CallsFit' /\ call'[c] = n /\ \A d \in Calls \ {c} : call'[d] = call[d]
<1>1. Typed' /\ call'[c] = n /\ \A d \in Calls \ {c} : call'[d] = call[d]
  BY DEF Enter, Typed
<1>2. booking' = booking
  BY DEF Enter
<1>3. \A d \in Busy' \ {c} : d \in Busy /\ call'[d] = call[d]
  BY <1>1 DEF Busy
<1> QED
  BY <1>1, <1>2, <1>3 DEF CallsFit

----------------------------------------------------------------------------
(* The records calls begin with                                             *)

\* An edit, a move, an expiry, and a claim with or without one, by name.
Editing(b, next) == [Idle EXCEPT !.at = "save", !.booking = b, !.status = booking[b].status,
                                 !.set = next, !.slot = booking[b].slot]
MovingTo(b, s) == [Idle EXCEPT !.at = "target", !.booking = b, !.slot = s,
                               !.prev = booking[b].slot]
Expiring(b, s) == [Idle EXCEPT !.at = "lapse", !.booking = b, !.slot = s]
Claiming(b, s) == [Idle EXCEPT !.at = "look", !.booking = b, !.slot = s]
Clearing(e, b, s) == [Idle EXCEPT !.at = "lapse", !.booking = e, !.then = b, !.slot = s]

LEMMA RecordsTyped ==
    ASSUME BookingsFit, NEW b \in Bookings, NEW e \in Bookings, NEW s \in Slots
    PROVE  /\ Claiming(b, s) \in CallRecords /\ Expiring(b, s) \in CallRecords
           /\ Clearing(e, b, s) \in CallRecords /\ MovingTo(b, s) \in CallRecords
           /\ \A next \in Statuses : Editing(b, next) \in CallRecords
<1>1. booking[b].status \in Statuses /\ booking[b].slot \in Slots \cup {None}
  BY DEF BookingsFit, BookingRecords
<1>2. {"save", "target", "lapse", "look"} \subseteq Steps
  BY DEF Steps
<1> QED
  BY <1>1, <1>2, IdleTyped
  DEF Claiming, Expiring, Clearing, MovingTo, Editing, Idle, CallRecords

\* How each kind of call begins.
LEMMA BeginForms ==
    ASSUME NEW c \in Calls, Begin(c)
    PROVE  \/ \E b \in Bookings, s \in Slots :
                /\ booking[b].status = "none" /\ Serving(b) = {}
                /\ \/ Enter(c, {b}, Claiming(b, s))
                   \/ \E e \in At(s, {"pending"}) : Enter(c, {b, e}, Clearing(e, b, s))
           \/ \E b \in Bookings : /\ booking[b].status = "pending"
                                  /\ Enter(c, {b}, Expiring(b, booking[b].slot))
           \/ \E b \in Bookings, next \in {"confirmed", "cancelled", "spent"} :
                /\ next = "confirmed" => booking[b].status = "pending"
                /\ next = "cancelled" => booking[b].status \in Holding \cup {"cancelled"}
                /\ next = "spent" => booking[b].status \in Indexed
                /\ Enter(c, {b}, Editing(b, next))
           \/ \E b \in Bookings, s \in Slots :
                /\ booking[b].status \in Holding /\ s # booking[b].slot
                /\ Enter(c, {b}, MovingTo(b, s))
<1>1. PICK b \in Bookings : \/ Expire(c, b) \/ ConfirmPaid(c, b) \/ Cancel(c, b) \/ End(c, b)
                            \/ \E s \in Slots : Claim(c, b, s) \/ Move(c, b, s)
  BY DEF Begin
<1>2. CASE Expire(c, b)
  BY <1>2 DEF Expire, Expiring
<1>3. CASE ConfirmPaid(c, b) \/ Cancel(c, b) \/ End(c, b)
  BY <1>3 DEF ConfirmPaid, Cancel, End, Edit, Editing
<1>4. ASSUME NEW s \in Slots, Claim(c, b, s) \/ Move(c, b, s)
      PROVE  \/ /\ booking[b].status = "none" /\ Serving(b) = {}
                /\ \/ Enter(c, {b}, Claiming(b, s))
                   \/ \E e \in At(s, {"pending"}) : Enter(c, {b, e}, Clearing(e, b, s))
             \/ /\ booking[b].status \in Holding /\ s # booking[b].slot
                /\ Enter(c, {b}, MovingTo(b, s))
  BY <1>4 DEF Claim, Move, Claiming, Clearing, MovingTo
<1> QED
  BY <1>1, <1>2, <1>3, <1>4

----------------------------------------------------------------------------
(* Every step keeps the documents, the calls and the script sound           *)

Orders == {"kept", "twice", "lost"}

LEMMA SoundParts ==
    Sound <=> /\ slot \in [Slots -> SlotStatuses] /\ BookingsFit
              /\ Typed /\ CallsFit /\ script \in ScriptRecords /\ order \in Orders
  BY DEF Sound, SlotsTypeOK, BookingsFit, BookingRecords, Typed, Orders

LEMMA SoundNext ==
    ASSUME slot' \in [Slots -> SlotStatuses], BookingsFit', Typed', CallsFit',
           script' \in ScriptRecords, order' \in Orders
    PROVE  Sound'
  BY DEF Sound, SlotsTypeOK, BookingsFit, BookingRecords, Typed, Orders

LEMMA BookingsSame ==
    ASSUME BookingsFit, UNCHANGED booking
    PROVE  BookingsFit' /\ NoneUnmade
  BY DEF BookingsFit, BookingRecords, Placed, Unique, NoneUnmade

LEMMA NoticedTyped ==
    ASSUME script \in ScriptRecords, Noticed
    PROVE  /\ script' \in ScriptRecords /\ script'.at = script.at
           /\ script'.quiet => script.at = "idle"
<1>1. (script.at = "idle") \in BOOLEAN
  OBVIOUS
<1> QED
  BY <1>1 DEF Noticed, ScriptRecords

LEMMA EnterSound ==
    ASSUME Sound, NEW c \in Calls, NEW served, NEW n \in CallRecords,
           Enter(c, served, n), n.booking \in Bookings, n.slot \in Slots,
           n.at \in Moving => n.prev \in Slots /\ n.prev # n.slot,
           n.at = "save" => /\ booking[n.booking].status # "none"
                            /\ n.set \in {"confirmed", "cancelled", "spent"}
    PROVE  Sound'
<1>1. Typed /\ CallsFit /\ BookingsFit
  BY SoundParts
<1>2. Typed' /\ CallsFit'
  BY <1>1, EnterFits
<1>3. UNCHANGED <<slot, booking>> /\ order' \in Orders /\ script' \in ScriptRecords
  BY SoundParts, NoticedTyped DEF Enter, Orders
<1> QED
  BY <1>1, <1>2, <1>3, BookingsSame, SoundParts, SoundNext

LEMMA BeginSound ==
    ASSUME Sound, NEW c \in Calls, Begin(c)
    PROVE  Sound'
<1> USE IndexedMeans
<1>1. BookingsFit /\ \A b \in Bookings : booking[b].status \in Indexed \cup {"cancelled"}
                                           => booking[b].slot \in Slots
  BY SoundParts DEF BookingsFit, Placed
<1>2. ASSUME NEW b \in Bookings, NEW s \in Slots, Enter(c, {b}, Claiming(b, s)) PROVE Sound'
  <2>1. /\ Claiming(b, s) \in CallRecords /\ Claiming(b, s).booking = b
        /\ Claiming(b, s).slot = s /\ Claiming(b, s).at = "look"
    BY <1>1, RecordsTyped DEF Claiming, Idle
  <2> QED
    BY <1>2, <2>1, EnterSound DEF Moving
<1>3. ASSUME NEW b \in Bookings, NEW s \in Slots, NEW e \in At(s, {"pending"}),
             Enter(c, {b, e}, Clearing(e, b, s))
      PROVE  Sound'
  <2>1. /\ e \in Bookings
        /\ Clearing(e, b, s) \in CallRecords /\ Clearing(e, b, s).booking = e
        /\ Clearing(e, b, s).slot = s /\ Clearing(e, b, s).at = "lapse"
    BY <1>1, RecordsTyped DEF Clearing, Idle, At
  <2> QED
    BY <1>3, <2>1, EnterSound DEF Moving
<1>4. ASSUME NEW b \in Bookings, booking[b].status = "pending",
             Enter(c, {b}, Expiring(b, booking[b].slot))
      PROVE  Sound'
  <2>1. PICK s \in Slots : s = booking[b].slot
    BY <1>1, <1>4
  <2>2. /\ Expiring(b, s) \in CallRecords /\ Expiring(b, s).booking = b
        /\ Expiring(b, s).slot = s /\ Expiring(b, s).at = "lapse"
    BY <1>1, RecordsTyped DEF Expiring, Idle
  <2> QED
    BY <1>4, <2>1, <2>2, EnterSound DEF Moving
<1>5. ASSUME NEW b \in Bookings, NEW next \in {"confirmed", "cancelled", "spent"},
             booking[b].status \in Indexed \cup {"cancelled"}, Enter(c, {b}, Editing(b, next))
      PROVE  Sound'
  <2>1. /\ Editing(b, next) \in CallRecords /\ Editing(b, next).booking = b
        /\ Editing(b, next).slot = booking[b].slot /\ Editing(b, next).at = "save"
        /\ Editing(b, next).set = next
    <3>1. \E s \in Slots : TRUE
      BY <1>1, <1>5
    <3> QED
      BY <1>1, <3>1, RecordsTyped DEF Editing, Idle
  <2> QED
    BY <1>1, <1>5, <2>1, EnterSound DEF Moving
<1>6. ASSUME NEW b \in Bookings, NEW s \in Slots, booking[b].status \in Holding,
             s # booking[b].slot, Enter(c, {b}, MovingTo(b, s))
      PROVE  Sound'
  <2>1. /\ MovingTo(b, s) \in CallRecords /\ MovingTo(b, s).booking = b
        /\ MovingTo(b, s).slot = s /\ MovingTo(b, s).prev = booking[b].slot
        /\ MovingTo(b, s).at = "target"
    BY <1>1, RecordsTyped DEF MovingTo, Idle
  <2> QED
    BY <1>1, <1>6, <2>1, EnterSound DEF Moving
<1> QED
  BY <1>2, <1>3, <1>4, <1>5, <1>6, BeginForms

\* A slot is written conditionally, and stays a slot.
LEMMA SetSlotTyped ==
    ASSUME slot \in [Slots -> SlotStatuses], NEW s, s \in Slots \cup {None}, NEW from,
           NEW to \in SlotStatuses, SetSlot(s, from, to)
    PROVE  /\ slot' \in [Slots -> SlotStatuses]
           /\ \A q \in Slots : slot'[q] = IF q = s /\ slot[q] = from THEN to ELSE slot[q]
  BY NoneIsNothing DEF SetSlot

\* How a call moves on from a step: what it has loaded it keeps.
Onward(c) ==
    \/ Resumes(c)
    \/ \E at \in Steps \ {"save"} : Goes(c, at) /\ (at \in Moving => call[c].at \in Moving)

LEMMA WorkMovesOn ==
    ASSUME NEW c \in Calls, Work(c)
    PROVE  Onward(c)
<1>1. ASSUME NEW at \in Steps \ {"save"}, Goes(c, at), at \in Moving => call[c].at \in Moving
      PROVE  Onward(c)
  BY <1>1 DEF Onward
<1>2. {"idle", "create", "flip", "undo", "free", "spend"} \subseteq (Steps \ {"save"}) \ Moving
  BY DEF Steps, Moving
<1>3. Moving \subseteq Steps \ {"save"}
  BY DEF Steps, Moving
<1>4. CASE Lapse(c)
  <2>1. Resumes(c) \/ Goes(c, "free")
    BY <1>4 DEF Lapse
  <2> QED
    BY <1>1, <1>2, <2>1 DEF Onward, Goes
<1>5. CASE Look(c) \/ Create(c) \/ Flip(c) \/ Undo(c) \/ Spend(c) \/ PutBack(c) \/ Leave(c)
  <2>1. Goes(c, "create") \/ Goes(c, "flip") \/ Goes(c, "undo") \/ Goes(c, "idle")
    BY <1>5 DEF Look, Create, Flip, Undo, Spend, PutBack, Leave, Goes
  <2> QED
    BY <1>1, <1>2, <2>1 DEF Goes
<1>6. CASE Save(c)
  <2>1. \E at \in {"free", "spend", "idle"} : Goes(c, at)
    BY <1>6, Zenon DEF Save
  <2> QED
    BY <1>1, <1>2, <2>1 DEF Goes
<1>7. CASE Free(c)
  <2>1. Resumes(c)
    BY <1>7 DEF Free
  <2> QED
    BY <2>1 DEF Onward
<1>8. CASE LookAtTarget(c) \/ Repoint(c) \/ Take(c)
  <2>1. /\ call[c].at \in Moving
        /\ \/ Goes(c, "idle") \/ Goes(c, "repoint") \/ Goes(c, "take")
           \/ Goes(c, "leave") \/ Goes(c, "putback")
    BY <1>8 DEF LookAtTarget, Repoint, Take, Moving, Goes
  <2>2. {"repoint", "take", "leave", "putback"} \subseteq Moving
    BY DEF Moving
  <2> QED
    BY <1>1, <1>2, <1>3, <2>1, <2>2 DEF Goes
<1> QED
  BY <1>4, <1>5, <1>6, <1>7, <1>8 DEF Work

LEMMA OnwardFits ==
    ASSUME Typed, CallsFit, NEW c \in Busy, Onward(c), NoneUnmade
    PROVE  Typed' /\ CallsFit'
  BY GoesFits, ResumesFits DEF Onward

\* The steps of a call that write no reservation.
LEMMA WorkQuietly ==
    ASSUME Sound, NEW c \in Calls,
           Look(c) \/ Flip(c) \/ Free(c) \/ Spend(c) \/ LookAtTarget(c) \/ Take(c) \/ Leave(c)
    PROVE  Sound'
<1>1. /\ c \in Busy /\ Typed /\ CallsFit /\ BookingsFit /\ slot \in [Slots -> SlotStatuses]
      /\ UNCHANGED <<booking, script, order>>
  BY SoundParts DEF Look, Flip, Free, Spend, LookAtTarget, Take, Leave, Busy, Unmoved
<1>2. BookingsFit' /\ NoneUnmade
  BY <1>1, BookingsSame
<1>3. /\ call[c].slot \in Slots /\ call[c].slot # None
      /\ call[c].at \in Moving => call[c].prev \in Slots /\ call[c].prev # None
  BY <1>1, NoneIsNothing DEF CallsFit
<1>4. {"available", "booked", "completed"} \subseteq SlotStatuses
  BY DEF SlotStatuses
<1>5. slot' \in [Slots -> SlotStatuses]
  BY <1>1, <1>3, <1>4, SetSlotTyped
  DEF Look, Flip, Free, Spend, LookAtTarget, Take, Leave, Moving
<1>6. Onward(c)
  BY WorkMovesOn DEF Work
<1>7. Typed' /\ CallsFit'
  BY <1>1, <1>2, <1>6, OnwardFits
<1> QED
  BY <1>1, <1>2, <1>5, <1>7, SoundParts, SoundNext

\* The steps of a call that write its reservation.
LEMMA WorkWrites ==
    ASSUME Sound, NEW c \in Calls,
           Lapse(c) \/ Create(c) \/ Undo(c) \/ Save(c) \/ Repoint(c) \/ PutBack(c)
    PROVE  BookingsFit' /\ NoneUnmade
<1> USE IndexedMeans
<1> DEFINE b == call[c].booking
<1>1. /\ c \in Busy /\ Typed /\ CallsFit /\ BookingsFit
  BY SoundParts DEF Lapse, Create, Undo, Save, Repoint, PutBack, Busy
<1>2. /\ b \in Bookings /\ call[c].slot \in Slots
      /\ call[c].at \in Moving => call[c].prev \in Slots
      /\ call[c].at = "save" => /\ booking[b].status # "none"
                                /\ call[c].set \in {"confirmed", "cancelled", "spent"}
      /\ booking[b] \in BookingRecords
      /\ booking[b].status \in Indexed \cup {"cancelled"} => booking[b].slot \in Slots
  BY <1>1 DEF CallsFit, BookingsFit, Placed
<1>3. CASE UNCHANGED booking
  BY <1>1, <1>3, BookingsSame
<1>4. CASE Lapse(c) /\ booking[b].status = "pending"
  <2>1. booking' = [booking EXCEPT ![b].status = "cancelled"]
    BY <1>4 DEF Lapse
  <2>2. BookingsFit'
    <3>1. "cancelled" \in Statuses \ Indexed /\ booking[b].slot \in Slots
      BY <1>2, <1>4
    <3> QED
      BY <1>1, <1>2, <2>1, <3>1, StatusFits
  <2>3. NoneUnmade
    BY <1>1, <1>2, <2>1 DEF NoneUnmade, BookingsFit
  <2> QED
    BY <2>2, <2>3
<1>5. ASSUME Create(c), At(call[c].slot, Indexed) = {}, NEW status \in Holding,
             booking' = [booking EXCEPT ![b] = [status |-> status, slot |-> call[c].slot]]
      PROVE  BookingsFit' /\ NoneUnmade
  <2> DEFINE new == [status |-> status, slot |-> call[c].slot]
  <2>1. new \in BookingRecords /\ new.status \in Holding /\ new.slot = call[c].slot
    BY <1>2 DEF BookingRecords
  <2>2. booking' = [booking EXCEPT ![b] = new]
    BY <1>5
  <2> HIDE DEF new
  <2>3. BookingsFit'
    BY <1>1, <1>2, <1>5, <2>1, <2>2, WriteFits
  <2>4. NoneUnmade
    BY <1>1, <1>2, <2>1, <2>2 DEF NoneUnmade, BookingsFit
  <2> QED
    BY <2>3, <2>4
<1>6. CASE Undo(c)
  <2> DEFINE new == [status |-> "deleted", slot |-> None]
  <2>1. new \in BookingRecords /\ new.status = "deleted"
    BY DEF BookingRecords
  <2>2. booking' = [booking EXCEPT ![b] = new]
    BY <1>6 DEF Undo
  <2> HIDE DEF new
  <2>3. BookingsFit'
    BY <1>1, <1>2, <2>1, <2>2, WriteFits
  <2>4. NoneUnmade
    BY <1>1, <1>2, <2>1, <2>2 DEF NoneUnmade, BookingsFit
  <2> QED
    BY <2>3, <2>4
<1>7. CASE Save(c)
  <2>1. CASE /\ booking' = [booking EXCEPT ![b].status = call[c].set]
             /\ booking[b].status # "deleted"
             /\ call[c].set \in Indexed => At(booking[b].slot, Indexed) \ {b} = {}
    <3>1. /\ call[c].set \in {"confirmed", "cancelled", "spent"}
          /\ booking[b].slot \in Slots
      BY <1>2, <1>7, <2>1 DEF Save, BookingRecords
    <3>2. BookingsFit'
      BY <1>1, <1>2, <2>1, <3>1, StatusFits
    <3>3. NoneUnmade
      BY <1>1, <1>2, <2>1, <3>1 DEF NoneUnmade, BookingsFit
    <3> QED
      BY <3>2, <3>3
  <2> QED
    BY <1>3, <1>7, <2>1 DEF Save
<1>8. CASE Repoint(c)
  <2>1. CASE /\ booking' = [booking EXCEPT ![b].slot = call[c].slot]
             /\ booking[b].status \in Indexed => At(call[c].slot, Indexed) = {}
    <3>1. BookingsFit'
      BY <1>1, <1>2, <2>1, SlotFits
    <3>2. NoneUnmade
      BY <1>1, <1>2, <2>1 DEF NoneUnmade, BookingsFit
    <3> QED
      BY <3>1, <3>2
  <2> QED
    BY <1>3, <1>8, <2>1 DEF Repoint
<1>9. CASE PutBack(c)
  <2>1. CASE /\ booking' = [booking EXCEPT ![b].slot = call[c].prev]
             /\ booking[b].status \in Indexed => At(call[c].prev, Indexed) \ {b} = {}
    <3>1. call[c].prev \in Slots
      BY <1>2, <1>9 DEF PutBack, Moving
    <3>2. BookingsFit'
      BY <1>1, <1>2, <2>1, <3>1, SlotFits
    <3>3. NoneUnmade
      BY <1>1, <1>2, <2>1 DEF NoneUnmade, BookingsFit
    <3> QED
      BY <3>2, <3>3
  <2> QED
    BY <1>3, <1>9, <2>1 DEF PutBack
<1> QED
  BY <1>3, <1>4, <1>5, <1>6, <1>7, <1>8, <1>9 DEF Lapse, Create

LEMMA WorkSound ==
    ASSUME Sound, NEW c \in Calls, Work(c) \/ Crash(c)
    PROVE  Sound'
<1>1. CASE Lapse(c) \/ Create(c) \/ Undo(c) \/ Save(c) \/ Repoint(c) \/ PutBack(c)
  <2>1. BookingsFit' /\ NoneUnmade
    BY <1>1, WorkWrites
  <2>2. /\ c \in Busy /\ Typed /\ CallsFit /\ UNCHANGED <<slot, script>>
    BY <1>1, SoundParts DEF Lapse, Create, Undo, Save, Repoint, PutBack, Busy, Unmoved
  <2>3. order' \in Orders
    BY <1>1, SoundParts
    DEF Lapse, Create, Undo, Save, Repoint, PutBack, Unmoved, LostIf, Orders
  <2>4. Onward(c)
    BY <1>1, WorkMovesOn DEF Work
  <2>5. Typed' /\ CallsFit'
    BY <2>1, <2>2, <2>4, OnwardFits
  <2> QED
    BY <2>1, <2>2, <2>3, <2>5, SoundParts, SoundNext
<1>2. CASE Crash(c)
  <2>1. /\ c \in Busy /\ Typed /\ CallsFit /\ BookingsFit /\ UNCHANGED <<slot, booking, script>>
        /\ order' \in Orders /\ Onward(c)
    <3>1. Goes(c, "idle") /\ "idle" \in Steps \ {"save"} /\ "idle" \notin Moving
      BY <1>2 DEF Crash, Goes, Steps, Moving
    <3> QED
      BY <1>2, <3>1, SoundParts DEF Crash, LostIf, Orders, Onward
  <2>2. BookingsFit' /\ NoneUnmade
    BY <2>1, BookingsSame
  <2>3. Typed' /\ CallsFit'
    BY <2>1, <2>2, OnwardFits
  <2> QED
    BY <2>1, <2>2, <2>3, SoundParts, SoundNext
<1> QED
  BY <1>1, <1>2, WorkQuietly DEF Work

\* What no call does leaves the calls as they were.
LEMMA CallsSame ==
    ASSUME Typed, CallsFit, UNCHANGED call, NoneUnmade
    PROVE  Typed' /\ CallsFit'
<1>1. Busy' = Busy
  BY DEF Busy
<1> QED
  BY <1>1 DEF Typed, CallsFit, NoneUnmade

LEMMA SweepSound ==
    ASSUME Sound, NEW b \in Bookings, SweepNoShow(b)
    PROVE  Sound'
<1> USE IndexedMeans
<1>1. /\ BookingsFit /\ Typed /\ CallsFit /\ slot \in [Slots -> SlotStatuses]
      /\ script \in ScriptRecords /\ order \in Orders
      /\ booking[b].status = "confirmed" /\ booking[b].slot \in Slots
      /\ booking' = [booking EXCEPT ![b].status = "spent"]
  BY SoundParts DEF BookingsFit, Placed, SweepNoShow
<1>2. At(booking[b].slot, Indexed) \ {b} = {}
  BY <1>1 DEF At, BookingsFit, Unique
<1>3. BookingsFit'
  BY <1>1, <1>2, StatusFits
<1>4. NoneUnmade
  BY <1>1 DEF NoneUnmade, BookingsFit
<1>5. slot' \in [Slots -> SlotStatuses]
  <2>1. "completed" \in SlotStatuses
    BY DEF SlotStatuses
  <2> QED
    BY <1>1, <2>1, SetSlotTyped DEF SweepNoShow
<1>6. script' \in ScriptRecords /\ order' \in Orders /\ UNCHANGED call
  BY <1>1, NoticedTyped DEF SweepNoShow, LostIf, Orders
<1> QED
  BY <1>1, <1>3, <1>4, <1>5, <1>6, CallsSame, SoundNext

LEMMA AdminSound ==
    ASSUME Sound, NEW s \in Slots, NEW status \in {"available", "blocked"}, Admin(s, status)
    PROVE  Sound'
<1>1. slot' \in [Slots -> SlotStatuses] /\ order' \in Orders
  BY SoundParts DEF Admin, SlotStatuses, LostIf, Orders
<1>2. UNCHANGED <<booking, call, script>>
  BY DEF Admin
<1> QED
  BY <1>1, <1>2, SoundParts, BookingsSame, CallsSame, SoundNext

LEMMA RestingTyped ==
    Resting \in ScriptRecords /\ Resting.at = "idle"
<1>1. {} \in SUBSET Slots /\ TRUE \in BOOLEAN
  OBVIOUS
<1> QED
  BY <1>1 DEF Resting, ScriptRecords

LEMMA ScriptSound ==
    ASSUME Sound, Script
    PROVE  Sound'
<1>1. /\ BookingsFit /\ Typed /\ CallsFit /\ slot \in [Slots -> SlotStatuses]
      /\ script \in ScriptRecords /\ order \in Orders
  BY SoundParts
<1>2. UNCHANGED call /\ order' \in Orders
  BY <1>1 DEF Script, CloseExpired, ReadSpent, CloseSpent, ReadLive, FreePhantoms, ScriptDies,
              LostIf, Orders
<1>3. script' \in ScriptRecords
  <2>1. CASE CloseExpired
    <3>1. (Busy = {}) \in BOOLEAN
      OBVIOUS
    <3> QED
      BY <2>1, <3>1 DEF CloseExpired, ScriptRecords
  <2>2. CASE ReadSpent \/ CloseSpent \/ ReadLive
    <3>1. ASSUME NEW at \in {"spent", "close", "live", "free"}, NEW found \in SUBSET Slots,
                 ScriptGoes(at, found)
          PROVE  script' \in ScriptRecords
      BY <1>1, <3>1 DEF ScriptGoes, ScriptRecords
    <3> QED
      BY <2>2, <3>1 DEF ReadSpent, CloseSpent, ReadLive, ScriptGoes
  <2>3. CASE FreePhantoms \/ ScriptDies
    <3>1. script' = Resting
      BY <2>3 DEF FreePhantoms, ScriptDies
    <3> QED
      BY <3>1, RestingTyped
  <2> QED
    BY <2>1, <2>2, <2>3 DEF Script
<1>4. slot' \in [Slots -> SlotStatuses]
  BY <1>1 DEF Script, CloseExpired, ReadSpent, CloseSpent, ReadLive, FreePhantoms, ScriptDies,
              SlotStatuses
<1>5. BookingsFit' /\ NoneUnmade
  <2>1. CASE UNCHANGED booking
    BY <1>1, <2>1, BookingsSame
  <2>2. CASE CloseExpired
    <3>1. PICK past \in SUBSET {b \in Bookings : booking[b].status = "confirmed"} :
               booking' = [b \in Bookings |->
                             IF b \in past THEN [booking[b] EXCEPT !.status = "spent"]
                             ELSE booking[b]]
      BY <2>2 DEF CloseExpired
    <3>2. BookingsFit'
      BY <1>1, <3>1, SpendingFits
    <3>3. ASSUME NEW b \in Bookings, booking[b].status # "none"
          PROVE  booking'[b].status # "none"
      <4>1. booking[b] \in BookingRecords
        BY <1>1 DEF BookingsFit
      <4> QED
        BY <3>1, <3>3, <4>1 DEF BookingRecords
    <3> QED
      BY <3>2, <3>3 DEF NoneUnmade
  <2> QED
    BY <2>1, <2>2 DEF Script, ReadSpent, CloseSpent, ReadLive, FreePhantoms, ScriptDies
<1> QED
  BY <1>1, <1>2, <1>3, <1>4, <1>5, CallsSame, SoundNext

LEMMA SoundHolds ==
    ASSUME Sound, [SlotsNext]_slotsVars
    PROVE  Sound'
<1>1. CASE UNCHANGED slotsVars
  BY <1>1, SoundParts, BookingsSame, CallsSame, SoundNext DEF slotsVars
<1> QED
  BY <1>1, BeginSound, WorkSound, SweepSound, AdminSound, ScriptSound DEF SlotsNext

LEMMA SoundInit ==
    ASSUME SlotsInit
    PROVE  Sound
<1>1. SlotsTypeOK
  BY IdleTyped DEF SlotsInit, SlotsTypeOK, SlotStatuses, Statuses, Resting, ScriptRecords
<1>2. Busy = {}
  BY IdleTyped DEF SlotsInit, Busy
<1>3. CallsFit /\ Placed /\ Unique
  BY <1>2, IndexedMeans DEF SlotsInit, CallsFit, Placed, Unique
<1> QED
  BY <1>1, <1>3 DEF Sound

\* The partial unique index on slotId: whatever overlaps, dies or is forced, no
\* two reservations that are pending, confirmed or spent name one interval, and
\* a reservation that was made names one until its claim undoes it.
THEOREM SlotsSound == SlotsSpec => []Sound
<1> QED
  BY SoundInit, SoundHolds, PTL DEF SlotsSpec

----------------------------------------------------------------------------
(* A script that has the database to itself                                 *)

SpentAt == {s \in Slots : At(s, {"spent"}) # {}}

\* What it has read stays true, for nothing else is under way.
Alone ==
    script.quiet /\ script.at # "idle" =>
        /\ Busy = {}
        /\ script.at = "close" => script.found = SpentAt
        /\ script.at \in {"live", "free"} => \A s \in SpentAt : slot[s] # "booked"
        /\ script.at = "free" => script.found = {s \in Slots : At(s, Indexed) # {}}

LEMMA ReadSame ==
    ASSUME UNCHANGED booking
    PROVE  /\ SpentAt' = SpentAt
           /\ {s \in Slots : At(s, Indexed) # {}}' = {s \in Slots : At(s, Indexed) # {}}
  BY DEF SpentAt, At

LEMMA ScriptParts ==
    ASSUME Sound, NEW at, NEW found, ScriptGoes(at, found)
    PROVE  script'.at = at /\ script'.found = found /\ script'.quiet = script.quiet
  BY SoundParts DEF ScriptGoes, ScriptRecords

\* A step of a handler ends the quiet; no other but the script's finds one.
LEMMA AloneHolds ==
    ASSUME Sound, Alone, [SlotsNext]_slotsVars
    PROVE  Alone'
<1>1. CASE UNCHANGED slotsVars
  <2>1. Busy' = Busy
    BY <1>1 DEF slotsVars, Busy
  <2> QED
    BY <1>1, <2>1, ReadSame DEF slotsVars, Alone
<1>2. CASE Noticed
  BY <1>2, SoundParts, NoticedTyped DEF Alone
<1>3. ASSUME NEW c \in Calls, Work(c) \/ Crash(c)
      PROVE  Alone'
  <2>1. c \in Busy /\ UNCHANGED script
    BY <1>3 DEF Work, Lapse, Look, Create, Flip, Undo, Save, Free, Spend, LookAtTarget,
                Repoint, Take, PutBack, Leave, Crash, Busy, Unmoved
  <2> QED
    BY <2>1 DEF Alone
<1>4. ASSUME NEW s \in Slots, NEW status \in {"available", "blocked"}, Admin(s, status)
      PROVE  Alone'
  <2>1. /\ UNCHANGED <<booking, call, script>>
        /\ \A q \in Slots : slot'[q] = "booked" => slot[q] = "booked"
    BY <1>4, SoundParts DEF Admin
  <2>2. Busy' = Busy
    BY <2>1 DEF Busy
  <2>3. SpentAt \subseteq Slots
    BY DEF SpentAt
  <2> QED
    BY <2>1, <2>2, <2>3, ReadSame DEF Alone
<1>5. CASE CloseExpired
  <2>1. Busy' = Busy
    BY <1>5 DEF CloseExpired, Busy
  <2> QED
    BY <1>5, <2>1 DEF CloseExpired, Alone
<1>6. CASE ReadSpent
  <2>1. /\ script'.at = "close" /\ script'.found = SpentAt /\ script'.quiet = script.quiet
        /\ script.at = "spent" /\ UNCHANGED <<slot, booking, call>>
    BY <1>6, ScriptParts DEF ReadSpent, SpentAt
  <2>2. Busy' = Busy
    BY <2>1 DEF Busy
  <2> QED
    BY <2>1, <2>2, ReadSame DEF Alone
<1>7. CASE CloseSpent
  <2>1. /\ script'.at = "live" /\ script'.quiet = script.quiet
        /\ script.at = "close" /\ UNCHANGED <<booking, call>>
        /\ \A s \in script.found \cap Slots : slot'[s] # "booked"
    BY <1>7, ScriptParts DEF CloseSpent
  <2>2. Busy' = Busy /\ SpentAt \subseteq Slots
    BY <2>1 DEF Busy, SpentAt
  <2> QED
    BY <2>1, <2>2, ReadSame DEF Alone
<1>8. CASE ReadLive
  <2>1. /\ script'.at = "free" /\ script'.found = {s \in Slots : At(s, Indexed) # {}}
        /\ script'.quiet = script.quiet /\ script.at = "live" /\ UNCHANGED <<slot, booking, call>>
    BY <1>8, ScriptParts DEF ReadLive
  <2>2. Busy' = Busy
    BY <2>1 DEF Busy
  <2> QED
    BY <2>1, <2>2, ReadSame DEF Alone
<1>9. CASE FreePhantoms \/ ScriptDies
  <2>1. script'.at = "idle"
    BY <1>9, RestingTyped DEF FreePhantoms, ScriptDies
  <2> QED
    BY <2>1 DEF Alone
<1>10. ASSUME NEW c \in Calls, Begin(c)
       PROVE  Noticed
  BY <1>10, BeginForms DEF Enter
<1>11. ASSUME NEW b \in Bookings, SweepNoShow(b)
       PROVE  Noticed
  BY <1>11 DEF SweepNoShow
<1> QED
  BY <1>1, <1>2, <1>3, <1>4, <1>5, <1>6, <1>7, <1>8, <1>9, <1>10, <1>11 DEF SlotsNext, Script

LEMMA AloneInit ==
    ASSUME SlotsInit
    PROVE  Alone
  BY DEF SlotsInit, Alone, Resting

\* With the database to itself the script frees what nothing holds, and what
\* is spent it has completed before.
LEMMA PhantomsFreed ==
    ASSUME Sound, Alone, FreePhantoms, script.quiet
    PROVE  \A s \in Slots : slot'[s] = "booked" => At(s, Holding) # {}
<1>1. ASSUME NEW s \in Slots, slot'[s] = "booked"
      PROVE  At(s, Holding) # {}
  <2>1. s \in script.found /\ slot[s] = "booked"
    BY <1>1, SoundParts DEF FreePhantoms
  <2>2. At(s, Indexed) # {} /\ s \notin SpentAt
    BY <2>1 DEF Alone, FreePhantoms
  <2>3. At(s, {"spent"}) = {}
    BY <2>2 DEF SpentAt
  <2> QED
    BY <2>2, <2>3 DEF At, Indexed
<1> QED
  BY <1>1

\* Whatever crashes, forced slots and overlapping calls left behind, the script
\* reconcile-inventory.ts that ran alone leaves no slot booked that nothing holds.
THEOREM PhantomsAreFreed == SlotsSpec => PhantomsAreReleased
<1>1. Sound /\ Alone /\ [SlotsNext]_slotsVars => Sound' /\ Alone'
  BY SoundHolds, AloneHolds
<1>2. Sound /\ Alone /\ [SlotsNext]_slotsVars =>
        [FreePhantoms /\ script.quiet =>
           \A s \in Slots : slot'[s] = "booked" => At(s, Holding) # {}]_slotsVars
  BY PhantomsFreed
<1> QED
  BY <1>1, <1>2, SoundInit, AloneInit, PTL DEF SlotsSpec, PhantomsAreReleased

----------------------------------------------------------------------------
(* Who is answerable for an interval                                        *)

\* The intervals a call is answerable for, by its record.
Hand(r) ==
    CASE r.at \in {"lapse", "save", "free", "spend"} -> {r.slot}
      [] r.at \in {"target", "repoint", "take", "putback"} -> {r.prev}
      [] r.at = "leave" -> {r.slot, r.prev}
      [] OTHER -> {}

\* A reservation answers for its interval itself, or the call does that serves it.
Owns(b, s) ==
    \/ Serving(b) = {} /\ b \in At(s, Indexed)
    \/ \E c \in Busy : call[c].booking = b /\ s \in Hand(call[c])

\* A call finds its reservation as it left it.
Finds(r, bookings) ==
    LET b == bookings[r.booking] IN
    /\ CASE r.at \in {"look", "create"} -> b.status = "none"
         [] r.at = "lapse" -> b.slot = r.slot /\ b.status = "pending"
         [] r.at = "free" -> b.slot = r.slot /\ b.status = "cancelled"
         [] r.at = "spend" -> b.slot = r.slot /\ b.status = "spent"
         [] r.at = "save" -> /\ b.slot = r.slot /\ b.status = r.status
                             /\ \/ r.set = "confirmed" /\ r.status = "pending"
                                \/ r.set = "cancelled" /\ r.status \in Holding
                                \/ r.set = "spent" /\ r.status \in Indexed
         [] r.at \in {"target", "repoint"} -> b.slot = r.prev /\ b.status \in Holding
         [] OTHER -> b.slot = r.slot /\ b.status \in Holding
    /\ r.then # None => r.at \in {"lapse", "free"} /\ bookings[r.then].status = "none"

Apart == \A c, d \in Busy : \A b \in Bookings : {c, d} \subseteq Serving(b) => c = d

InStep ==
    /\ script.at # "idle" => script.quiet
    /\ Apart
    /\ \A c \in Busy : Finds(call[c], booking)

OwnedOnce == \A a, b \in Bookings, s \in Slots : Owns(a, s) /\ Owns(b, s) => a = b
BookedIsOwned == \A s \in Slots : slot[s] = "booked" => \E b \in Bookings : Owns(b, s)
OwnedIsBooked == \A b \in Bookings, s \in Slots :
                    Owns(b, s) /\ booking[b].status # "spent" => slot[s] = "booked"

\* What is spent holds a slot booked only while the script is about to close it.
SpentIsOver ==
    script.at \notin {"spent", "close"} =>
        \A b \in Bookings : booking[b].status = "spent" /\ Serving(b) = {}
                              => slot[booking[b].slot] # "booked"

Balanced == OwnedOnce /\ BookedIsOwned /\ OwnedIsBooked /\ SpentIsOver
Kept == order = "kept" => InStep /\ Balanced

\* A step passes intervals to one reservation, or takes them from it: it gets
\* what nobody answers for, and what it gives up is no longer booked.
LEMMA Balance ==
    ASSUME OwnedOnce, BookedIsOwned, OwnedIsBooked, NEW b \in Bookings,
           \A a \in Bookings \ {b} : /\ booking'[a] = booking[a]
                                     /\ \A s \in Slots : Owns(a, s)' <=> Owns(a, s),
           \A s \in Slots : Owns(b, s)' /\ ~Owns(b, s) => \A a \in Bookings : ~Owns(a, s),
           \A s \in Slots : slot'[s] = "booked" /\ ~Owns(b, s)' => ~Owns(b, s) /\ slot[s] = "booked",
           \A s \in Slots : slot[s] = "booked" /\ slot'[s] # "booked" => Owns(b, s),
           booking'[b].status # "spent" => \A s \in Slots : Owns(b, s)' => slot'[s] = "booked"
    PROVE  OwnedOnce' /\ BookedIsOwned' /\ OwnedIsBooked'
<1>1. ASSUME NEW a1 \in Bookings, NEW a2 \in Bookings, NEW s \in Slots,
             Owns(a1, s)', Owns(a2, s)'
      PROVE  a1 = a2
  <2>1. CASE a1 # b /\ a2 # b
    BY <1>1, <2>1 DEF OwnedOnce
  <2>2. CASE (a1 = b \/ a2 = b) /\ a1 # a2
    <3>1. PICK a \in Bookings \ {b} : Owns(a, s)' /\ Owns(b, s)'
      BY <1>1, <2>2
    <3>2. Owns(a, s)
      BY <3>1
    <3>3. Owns(b, s)
      BY <3>1, <3>2
    <3> QED
      BY <3>1, <3>2, <3>3 DEF OwnedOnce
  <2> QED
    BY <2>1, <2>2
<1>2. ASSUME NEW s \in Slots, slot'[s] = "booked"
      PROVE  \E a \in Bookings : Owns(a, s)'
  <2>1. CASE ~Owns(b, s)'
    <3>1. PICK a \in Bookings : Owns(a, s)
      BY <1>2, <2>1 DEF BookedIsOwned
    <3>2. a # b
      BY <1>2, <2>1, <3>1
    <3> QED
      BY <3>1, <3>2
  <2> QED
    BY <2>1
<1>3. ASSUME NEW a \in Bookings, NEW s \in Slots, Owns(a, s)', booking'[a].status # "spent"
      PROVE  slot'[s] = "booked"
  <2>1. CASE a # b
    <3>1. Owns(a, s) /\ slot[s] = "booked"
      BY <1>3, <2>1 DEF OwnedIsBooked
    <3>2. ~Owns(b, s)
      BY <2>1, <3>1 DEF OwnedOnce
    <3> QED
      BY <3>1, <3>2
  <2> QED
    BY <1>3, <2>1
<1> QED
  BY <1>1, <1>2, <1>3 DEF OwnedOnce, BookedIsOwned, OwnedIsBooked

\* And what is over stays so.
LEMMA SpentStays ==
    ASSUME Sound, OwnedOnce, SpentIsOver, script'.at = script.at, NEW b \in Bookings,
           \A a \in Bookings \ {b} : /\ booking'[a] = booking[a]
                                     /\ booking[a].status = "spent" => Serving(a) \subseteq Serving(a)',
           \A s \in Slots : Owns(b, s)' /\ ~Owns(b, s) => \A a \in Bookings : ~Owns(a, s),
           \A s \in Slots : slot'[s] = "booked" /\ ~Owns(b, s)' => ~Owns(b, s) /\ slot[s] = "booked",
           booking'[b].status = "spent" /\ Serving(b)' = {} => slot'[booking'[b].slot] # "booked"
    PROVE  SpentIsOver'
<1>1. ASSUME NEW a \in Bookings \ {b}, booking'[a].status = "spent", Serving(a)' = {},
             script.at \notin {"spent", "close"}
      PROVE  slot'[booking'[a].slot] # "booked"
  <2>1. PICK s \in Slots : s = booking[a].slot
    BY <1>1, SoundParts, IndexedMeans DEF BookingsFit, Placed
  <2>2. Serving(a) = {} /\ slot[s] # "booked"
    BY <1>1, <2>1 DEF SpentIsOver
  <2>3. Owns(a, s)
    BY <1>1, <2>1, <2>2, IndexedMeans DEF Owns, At
  <2>4. ~Owns(b, s)
    BY <2>3 DEF OwnedOnce
  <2>5. ~Owns(b, s)'
    BY <2>3, <2>4
  <2> QED
    BY <1>1, <2>1, <2>2, <2>5
<1> QED
  BY <1>1 DEF SpentIsOver

----------------------------------------------------------------------------
(* A step of a call under way                                               *)

\* The call goes on with its reservation, is over, or goes on with its claim.
Stays(c, b) == call'[c].at # "idle" /\ call'[c].booking = b /\ call'[c].then = call[c].then
Ends(c) == call'[c].at = "idle" /\ call[c].then = None
GoesOn(c) ==
    /\ call[c].then # None
    /\ call'[c].at = "look" /\ call'[c].booking = call[c].then /\ call'[c].then = None

LEMMA HandCases ==
    ASSUME NEW r
    PROVE  /\ r.at \in {"lapse", "save", "free", "spend"} => Hand(r) = {r.slot}
           /\ r.at \in {"target", "repoint", "take", "putback"} => Hand(r) = {r.prev}
           /\ r.at = "leave" => Hand(r) = {r.slot, r.prev}
           /\ r.at \in {"look", "create", "flip", "undo"} => Hand(r) = {}
  BY DEF Hand

\* What is known of a call that moves, in the notation the steps use.
LEMMA Mover ==
    ASSUME Sound, Alone, InStep, NEW c \in Busy
    PROVE  /\ c \in Calls /\ script.at = "idle" /\ Finds(call[c], booking)
           /\ call[c].booking \in Bookings /\ call[c].slot \in Slots
           /\ booking[call[c].booking] \in BookingRecords
           /\ call[c].at \in Moving => call[c].prev \in Slots /\ call[c].prev # call[c].slot
           /\ call[c].then \in Bookings \cup {None} /\ call[c].then # call[c].booking
<1>1. /\ c \in Calls /\ script.at = "idle" /\ Finds(call[c], booking)
      /\ call[c].booking \in Bookings /\ call[c].slot \in Slots
      /\ call[c].at \in Moving => call[c].prev \in Slots /\ call[c].prev # call[c].slot
  BY SoundParts DEF Alone, InStep, Busy, CallsFit
<1>2. booking[call[c].booking] \in BookingRecords
  BY <1>1, SoundParts DEF BookingsFit
<1>3. call[c].then \in Bookings \cup {None}
  BY <1>1, SoundParts DEF Typed, CallRecords
<1>4. call[c].then # call[c].booking
  BY <1>1, NoneIsNothing DEF Finds
<1> QED
  BY <1>1, <1>2, <1>3, <1>4

LEMMA ServingNext ==
    ASSUME Apart, NEW c \in Busy, NEW b \in Bookings, b = call[c].booking,
           call[c].then \in Bookings \cup {None}, call[c].then # b,
           \A d \in Calls \ {c} : call'[d] = call[d],
           Stays(c, b) \/ Ends(c) \/ GoesOn(c)
    PROVE  /\ Serving(b) = {c} /\ \A a \in Bookings \ {b} : Serving(a)' = Serving(a)
           /\ Stays(c, b) => c \in Serving(b)'
           /\ ~Stays(c, b) => Serving(b)' = {}
           /\ Apart'
<1>1. c \in Calls /\ c \in Serving(b) /\ Serving(b) = {c}
  BY DEF Apart, Serving, Busy
<1>2. ASSUME NEW a \in Bookings
      PROVE  /\ Serving(a)' \ {c} = Serving(a) \ {c}
             /\ c \in Serving(a) <=> a \in {b, call[c].then}
             /\ c \in Serving(a)' <=> call'[c].at # "idle" /\ a \in {call'[c].booking, call'[c].then}
  BY <1>1 DEF Serving, Busy
<1>3. ASSUME NEW a \in Bookings \ {b}
      PROVE  Serving(a)' = Serving(a)
  <2>1. c \in Serving(a)' <=> c \in Serving(a)
    BY <1>2, NoneIsNothing DEF Stays, Ends, GoesOn
  <2> QED
    BY <1>2, <2>1
<1>4. /\ Stays(c, b) => c \in Serving(b)'
      /\ ~Stays(c, b) => Serving(b)' = {}
  BY <1>1, <1>2, NoneIsNothing DEF Stays, Ends, GoesOn
<1>5. \A a \in Bookings : Serving(a)' \subseteq Serving(a)
  BY <1>1, <1>2, <1>3
<1>6. \A a \in Bookings : Serving(a) \subseteq Busy
  BY DEF Serving
<1>7. Apart'
  BY <1>5, <1>6 DEF Apart
<1> QED
  BY <1>1, <1>3, <1>4, <1>7

\* Nobody else's intervals pass to anybody.
LEMMA OwnsNext ==
    ASSUME Apart, NEW c \in Busy, NEW b \in Bookings, b = call[c].booking,
           call[c].then \in Bookings \cup {None}, call[c].then # b,
           \A d \in Calls \ {c} : call'[d] = call[d],
           \A a \in Bookings \ {b} : booking'[a] = booking[a],
           Stays(c, b) \/ Ends(c) \/ GoesOn(c)
    PROVE  \A s \in Slots :
              /\ Owns(b, s) <=> s \in Hand(call[c])
              /\ Stays(c, b) => (Owns(b, s)' <=> s \in Hand(call'[c]))
              /\ ~Stays(c, b) => (Owns(b, s)' <=> b \in At(s, Indexed)')
              /\ \A a \in Bookings \ {b} : Owns(a, s)' <=> Owns(a, s)
<1> TAKE s \in Slots
<1>1. /\ Serving(b) = {c} /\ \A a \in Bookings \ {b} : Serving(a)' = Serving(a)
      /\ Stays(c, b) => c \in Serving(b)'
      /\ ~Stays(c, b) => Serving(b)' = {}
      /\ Apart'
  BY ServingNext
<1>2. c \in Calls /\ Busy' \ {c} = Busy \ {c} /\ (c \in Busy' <=> call'[c].at # "idle")
  BY DEF Busy
<1>3. \A d \in Busy : call[d].booking = b => d = c
  BY <1>1 DEF Serving
<1>4. \A d \in Busy' : call'[d].booking = b => d \in Serving(b)'
  BY DEF Serving
<1>5. Owns(b, s) <=> s \in Hand(call[c])
  BY <1>1, <1>3 DEF Owns
<1>6. ASSUME Stays(c, b)
      PROVE  Owns(b, s)' <=> s \in Hand(call'[c])
  <2>1. \A d \in Busy' : call'[d].booking = b => d = c
    BY <1>2, <1>3 DEF Busy
  <2> QED
    BY <1>1, <1>2, <1>6, <2>1 DEF Owns, Stays
<1>7. ASSUME ~Stays(c, b)
      PROVE  Owns(b, s)' <=> b \in At(s, Indexed)'
  BY <1>1, <1>4, <1>7 DEF Owns
<1>8. ASSUME NEW a \in Bookings \ {b}
      PROVE  Owns(a, s)' <=> Owns(a, s)
  <2>1. (a \in At(s, Indexed))' <=> a \in At(s, Indexed)
    BY DEF At
  <2>2. ASSUME NEW d \in Calls \ {c}
        PROVE  d \in Busy' /\ call'[d].booking = a /\ s \in Hand(call'[d])
               <=> d \in Busy /\ call[d].booking = a /\ s \in Hand(call[d])
    BY <1>2
  <2>3. ~(c \in Busy' /\ call'[c].booking = a /\ s \in Hand(call'[c]))
    <3>1. CASE GoesOn(c)
      BY <3>1, HandCases DEF GoesOn
    <3>2. CASE Stays(c, b) \/ Ends(c)
      BY <1>2, <3>2 DEF Stays, Ends
    <3> QED
      BY <3>1, <3>2
  <2> DEFINE Mine(d) == d \in Busy /\ call[d].booking = a /\ s \in Hand(call[d])
  <2>4. (\E d \in Busy' : call'[d].booking = a /\ s \in Hand(call'[d]))
        <=> (\E d \in Busy : call[d].booking = a /\ s \in Hand(call[d]))
    BY <1>2, <2>2, <2>3 DEF Busy
  <2> QED
    BY <1>1, <2>1, <2>4 DEF Owns
<1> QED
  BY <1>5, <1>6, <1>7, <1>8

\* What is left to show of each step: what its call answers for before it, in
\* held, and what it or its reservation answers for after it, in next.
LEMMA WorkBalances ==
    ASSUME Sound, Alone, InStep, Balanced, NEW c \in Busy,
           NEW b \in Bookings, b = call[c].booking, UNCHANGED script,
           \A d \in Calls \ {c} : call'[d] = call[d],
           \A a \in Bookings \ {b} : booking'[a] = booking[a],
           Stays(c, b) \/ Ends(c) \/ GoesOn(c),
           Stays(c, b) => Finds(call'[c], booking'),
           NEW held, held = Hand(call[c]),
           NEW next, Stays(c, b) => Hand(call'[c]) = next,
           ~Stays(c, b) => \A s \in Slots : b \in At(s, Indexed)' <=> s \in next,
           \A s \in next \cap Slots : s \notin held => \A a \in Bookings : ~Owns(a, s),
           \A s \in Slots : slot'[s] = "booked" /\ s \notin next
                              => s \notin held /\ slot[s] = "booked",
           \A s \in Slots : slot[s] = "booked" /\ slot'[s] # "booked" => s \in held,
           booking'[b].status # "spent" => \A s \in next \cap Slots : slot'[s] = "booked",
           ~Stays(c, b) /\ booking'[b].status = "spent" => slot'[booking'[b].slot] # "booked"
    PROVE  InStep' /\ Balanced'
<1>1. /\ c \in Calls /\ script.at = "idle" /\ Finds(call[c], booking)
      /\ call[c].then \in Bookings \cup {None} /\ call[c].then # b
  BY Mover
<1>2. /\ Serving(b) = {c} /\ \A a \in Bookings \ {b} : Serving(a)' = Serving(a)
      /\ Stays(c, b) => c \in Serving(b)'
      /\ ~Stays(c, b) => Serving(b)' = {}
      /\ Apart'
  BY <1>1, ServingNext DEF InStep
<1>3. \A s \in Slots :
          /\ Owns(b, s) <=> s \in held
          /\ Owns(b, s)' <=> s \in next
          /\ \A a \in Bookings \ {b} : Owns(a, s)' <=> Owns(a, s)
  BY <1>1, OwnsNext DEF InStep
<1>4. OwnedOnce' /\ BookedIsOwned' /\ OwnedIsBooked'
  BY <1>3, Balance DEF Balanced
<1>5. SpentIsOver'
  BY <1>2, <1>3, SpentStays DEF Balanced
<1>6. ASSUME NEW d \in Busy' \ {c}
      PROVE  Finds(call'[d], booking')
  <2>1. d \in Busy /\ call'[d] = call[d] /\ Finds(call[d], booking)
    BY <1>6 DEF Busy, InStep
  <2>2. call[d].booking \in Bookings /\ call[d].then \in Bookings \cup {None}
    BY <2>1, Mover
  <2>3. d \notin Serving(b)
    BY <1>2, <1>6
  <2>4. call[d].booking # b /\ call[d].then # b
    BY <2>1, <2>3 DEF Serving
  <2>5. /\ booking'[call[d].booking] = booking[call[d].booking]
        /\ call[d].then # None => booking'[call[d].then] = booking[call[d].then]
    BY <2>2, <2>4
  <2> QED
    BY <2>1, <2>5 DEF Finds
<1>7. c \in Busy' => Finds(call'[c], booking')
  <2>1. CASE GoesOn(c)
    <3>1. /\ booking[call[c].then].status = "none" /\ call[c].then \in Bookings \ {b}
      BY <1>1, <2>1 DEF Finds, GoesOn
    <3> QED
      BY <2>1, <3>1 DEF Finds, GoesOn
  <2> QED
    BY <2>1 DEF Busy, Ends
<1>8. InStep'
  BY <1>1, <1>2, <1>6, <1>7 DEF InStep
<1> QED
  BY <1>4, <1>5, <1>8 DEF Balanced

LEMMA FindsCases ==
    ASSUME NEW r, NEW bookings, Finds(r, bookings)
    PROVE  /\ r.at \in {"look", "create"} => bookings[r.booking].status = "none"
           /\ r.at \in {"lapse", "free", "spend", "save", "flip", "undo", "take", "putback", "leave"}
                => bookings[r.booking].slot = r.slot
           /\ r.at \in {"target", "repoint"} => bookings[r.booking].slot = r.prev
           /\ r.at = "lapse" => bookings[r.booking].status = "pending"
           /\ r.at = "free" => bookings[r.booking].status = "cancelled"
           /\ r.at = "spend" => bookings[r.booking].status = "spent"
           /\ r.at \in {"flip", "undo", "target", "repoint", "take", "putback", "leave"}
                => bookings[r.booking].status \in Holding
           /\ r.at = "save" => /\ bookings[r.booking].status = r.status
                               /\ \/ r.set = "confirmed" /\ r.status = "pending"
                                  \/ r.set = "cancelled" /\ r.status \in Holding
                                  \/ r.set = "spent" /\ r.status \in Indexed
           /\ r.at \notin {"lapse", "free"} => r.then = None
  BY DEF Finds

\* Whoever is spent answers for no interval but its own.
LEMMA SpentOwnsItsOwn ==
    ASSUME Sound, InStep, NEW a \in Bookings, NEW s \in Slots, Owns(a, s),
           booking[a].status = "spent"
    PROVE  booking[a].slot = s
<1>1. CASE a \in At(s, Indexed)
  BY <1>1 DEF At
<1>2. ASSUME NEW d \in Busy, call[d].booking = a, s \in Hand(call[d])
      PROVE  booking[a].slot = s
  <2>1. Finds(call[d], booking) /\ call[d] \in CallRecords
    BY <1>2, SoundParts DEF InStep, Typed, Busy
  <2>2. call[d].at \in {"save", "spend"}
    BY <1>2, <2>1, FindsCases, HandCases, IndexedMeans DEF CallRecords, Steps, Busy
  <2> QED
    BY <1>2, <2>1, <2>2, FindsCases, HandCases
<1> QED
  BY <1>1, <1>2 DEF Owns

\* A free interval that a reservation names, nobody answers for.
LEMMA NobodyOwns ==
    ASSUME Sound, InStep, OwnedIsBooked, NEW b \in Bookings, booking[b].status \in Holding,
           NEW s \in Slots, booking[b].slot = s, slot[s] # "booked"
    PROVE  \A a \in Bookings : ~Owns(a, s)
<1>1. ASSUME NEW a \in Bookings, Owns(a, s)
      PROVE  FALSE
  <2>1. booking[a].status = "spent"
    BY <1>1 DEF OwnedIsBooked
  <2>2. booking[a].slot = s
    BY <1>1, <2>1, SpentOwnsItsOwn
  <2> QED
    BY <2>1, <2>2, IndexedMeans, SoundParts DEF BookingsFit, Unique
<1> QED
  BY <1>1

\* A step that writes no slot and leaves its call answerable as before.
LEMMA SameHand ==
    ASSUME Sound, Alone, InStep, Balanced, NEW c \in Busy,
           NEW b \in Bookings, b = call[c].booking, UNCHANGED <<slot, script>>,
           \A d \in Calls \ {c} : call'[d] = call[d],
           \A a \in Bookings \ {b} : booking'[a] = booking[a],
           Stays(c, b) \/ Ends(c) \/ GoesOn(c),
           Stays(c, b) => Finds(call'[c], booking'),
           NEW held, held = Hand(call[c]), Stays(c, b) => Hand(call'[c]) = held,
           ~Stays(c, b) => \A s \in Slots : b \in At(s, Indexed)' <=> s \in held,
           booking'[b].status # "spent" => booking[b].status # "spent",
           ~Stays(c, b) => booking'[b].status # "spent"
    PROVE  InStep' /\ Balanced'
<1>1. call[c].then \in Bookings \cup {None} /\ call[c].then # b
  BY Mover
<1>2. \A s \in Slots : Owns(b, s) <=> s \in held
  BY <1>1, OwnsNext DEF InStep
<1>3. booking'[b].status # "spent" => \A s \in held \cap Slots : slot'[s] = "booked"
  BY <1>2 DEF Balanced, OwnedIsBooked
<1> QED
  BY <1>3, WorkBalances

LEMMA LapseKept ==
    ASSUME Sound, Alone, InStep, Balanced, NEW c \in Calls, Lapse(c)
    PROVE  InStep' /\ Balanced'
<1>1. c \in Busy /\ call[c].at = "lapse"
  BY DEF Lapse, Busy
<1>2. PICK b \in Bookings : b = call[c].booking
  BY <1>1, Mover
<1>3. /\ Finds(call[c], booking) /\ booking[b].status = "pending" /\ booking[b].slot = call[c].slot
      /\ call[c].then # None => call[c].then \in Bookings \ {b} /\ booking[call[c].then].status = "none"
  BY <1>1, <1>2, Mover DEF Finds
<1>4. /\ booking' = [booking EXCEPT ![b].status = "cancelled"] /\ Goes(c, "free")
      /\ UNCHANGED <<slot, script>>
  BY <1>2, <1>3 DEF Lapse, Unmoved
<1>5. Moves(c, "free")
  BY <1>4, SoundParts, GoesMoves DEF Steps
<1>6. /\ booking'[b].status = "cancelled" /\ booking'[b].slot = booking[b].slot
      /\ \A a \in Bookings \ {b} : booking'[a] = booking[a]
  BY <1>4, SoundParts DEF BookingsFit, BookingRecords
<1>7. Stays(c, b) /\ \A d \in Calls \ {c} : call'[d] = call[d]
  BY <1>2, <1>5 DEF Stays, Moves
<1>8. Finds(call'[c], booking')
  BY <1>2, <1>3, <1>5, <1>6 DEF Finds, Moves
<1>9. Hand(call'[c]) = Hand(call[c])
  BY <1>1, <1>5, HandCases DEF Moves
<1> QED
  BY <1>1, <1>2, <1>3, <1>4, <1>6, <1>7, <1>8, <1>9, SameHand

\* A call that serves no claim moves to its next step, or is over.
LEMMA MovesForms ==
    ASSUME Sound, Alone, InStep, NEW c \in Busy, call[c].at \notin {"lapse", "free"},
           NEW b \in Bookings, b = call[c].booking, NEW at \in Steps, Goes(c, at)
    PROVE  /\ Moves(c, at) /\ call[c].then = None
           /\ \A d \in Calls \ {c} : call'[d] = call[d]
           /\ at # "idle" => Stays(c, b)
           /\ at = "idle" => ~Stays(c, b) /\ Ends(c)
<1>1. c \in Calls /\ call[c].then = None
  BY Mover, FindsCases
<1>2. Moves(c, at)
  BY <1>1, SoundParts, GoesMoves
<1> QED
  BY <1>1, <1>2 DEF Moves, Stays, Ends

LEMMA AtNext ==
    ASSUME NEW b \in Bookings
    PROVE  \A s \in Slots : b \in At(s, Indexed)' <=> /\ booking'[b].slot = s
                                                      /\ booking'[b].status \in Indexed
  BY DEF At

LEMMA LookKept ==
    ASSUME Sound, Alone, InStep, Balanced, NEW c \in Calls, Look(c)
    PROVE  InStep' /\ Balanced'
<1>1. c \in Busy /\ call[c].at = "look" /\ UNCHANGED <<slot, booking, script>>
  BY DEF Look, Busy, Unmoved
<1>2. PICK b \in Bookings : b = call[c].booking
  BY <1>1, Mover
<1>3. booking[b].status = "none" /\ Hand(call[c]) = {}
  BY <1>1, <1>2, Mover, FindsCases, HandCases
<1>4. \A s \in Slots : ~(b \in At(s, Indexed)')
  BY <1>1, <1>3, AtNext, IndexedMeans
<1>5. CASE slot[call[c].slot] = "available"
  <2>1. Goes(c, "create") /\ "create" \in Steps
    BY <1>5 DEF Look, Steps
  <2>2. Moves(c, "create") /\ Stays(c, b) /\ \A d \in Calls \ {c} : call'[d] = call[d]
    BY <1>1, <1>2, <2>1, MovesForms
  <2>3. call[c].then = None
    BY <1>1, Mover, FindsCases
  <2>4. Finds(call'[c], booking') /\ Hand(call'[c]) = {}
    BY <1>1, <1>2, <1>3, <2>2, <2>3, HandCases DEF Finds, Moves
  <2> QED
    BY <1>1, <1>2, <1>3, <2>2, <2>4, SameHand
<1>6. CASE slot[call[c].slot] # "available"
  <2>1. Goes(c, "idle") /\ "idle" \in Steps
    BY <1>6 DEF Look, Steps
  <2>2. ~Stays(c, b) /\ Ends(c) /\ \A d \in Calls \ {c} : call'[d] = call[d]
    BY <1>1, <1>2, <2>1, MovesForms
  <2> QED
    BY <1>1, <1>2, <1>3, <1>4, <2>2, SameHand
<1> QED
  BY <1>5, <1>6

LEMMA CreateKept ==
    ASSUME Sound, Alone, InStep, Balanced, NEW c \in Calls, Create(c)
    PROVE  InStep' /\ Balanced'
<1>1. c \in Busy /\ call[c].at = "create" /\ UNCHANGED <<slot, script>>
  BY DEF Create, Busy, Unmoved
<1>2. PICK b \in Bookings : b = call[c].booking
  BY <1>1, Mover
<1>3. booking[b].status = "none" /\ Hand(call[c]) = {} /\ call[c].then = None
  BY <1>1, <1>2, Mover, FindsCases, HandCases
<1>4. CASE At(call[c].slot, Indexed) = {}
  <2>1. PICK status \in Holding :
             booking' = [booking EXCEPT ![b] = [status |-> status, slot |-> call[c].slot]]
    BY <1>2, <1>4 DEF Create
  <2>2. /\ booking'[b].status \in Holding /\ booking'[b].slot = call[c].slot
        /\ \A a \in Bookings \ {b} : booking'[a] = booking[a]
    BY <2>1, SoundParts DEF BookingsFit
  <2>3. Goes(c, "flip") /\ "flip" \in Steps
    BY <1>4 DEF Create, Steps
  <2>4. Moves(c, "flip") /\ Stays(c, b) /\ \A d \in Calls \ {c} : call'[d] = call[d]
    BY <1>1, <1>2, <2>3, MovesForms
  <2>5. Finds(call'[c], booking') /\ Hand(call'[c]) = {}
    BY <1>1, <1>2, <1>3, <2>2, <2>4, HandCases DEF Finds, Moves
  <2> QED
    BY <1>1, <1>2, <1>3, <2>2, <2>4, <2>5, SameHand
<1>5. CASE At(call[c].slot, Indexed) # {}
  <2>1. Goes(c, "idle") /\ "idle" \in Steps /\ UNCHANGED booking
    BY <1>5 DEF Create, Steps
  <2>2. ~Stays(c, b) /\ Ends(c) /\ \A d \in Calls \ {c} : call'[d] = call[d]
    BY <1>1, <1>2, <2>1, MovesForms
  <2>3. \A s \in Slots : ~(b \in At(s, Indexed)')
    BY <1>3, <2>1, AtNext, IndexedMeans
  <2> QED
    BY <1>1, <1>2, <1>3, <2>1, <2>2, <2>3, SameHand
<1> QED
  BY <1>4, <1>5

LEMMA UndoKept ==
    ASSUME Sound, Alone, InStep, Balanced, NEW c \in Calls, Undo(c)
    PROVE  InStep' /\ Balanced'
<1>1. c \in Busy /\ call[c].at = "undo" /\ UNCHANGED <<slot, script>> /\ Goes(c, "idle")
      /\ "idle" \in Steps
  BY DEF Undo, Busy, Unmoved, Steps
<1>2. PICK b \in Bookings : b = call[c].booking
  BY <1>1, Mover
<1>3. booking[b].status \in Holding /\ Hand(call[c]) = {}
  BY <1>1, <1>2, Mover, FindsCases, HandCases
<1>4. /\ booking'[b].status = "deleted"
      /\ \A a \in Bookings \ {b} : booking'[a] = booking[a]
  BY <1>2, SoundParts DEF BookingsFit, Undo
<1>5. ~Stays(c, b) /\ Ends(c) /\ \A d \in Calls \ {c} : call'[d] = call[d]
  BY <1>1, <1>2, MovesForms
<1>6. \A s \in Slots : ~(b \in At(s, Indexed)')
  BY <1>4, AtNext, IndexedMeans
<1> QED
  BY <1>1, <1>2, <1>3, <1>4, <1>5, <1>6, SameHand, IndexedMeans

\* While calls keep apart the index refuses no save.
LEMMA SaveKept ==
    ASSUME Sound, Alone, InStep, Balanced, NEW c \in Calls, Save(c)
    PROVE  InStep' /\ Balanced'
<1> USE IndexedMeans
<1>1. c \in Busy /\ call[c].at = "save" /\ UNCHANGED <<slot, script>>
  BY DEF Save, Busy, Unmoved
<1>2. PICK b \in Bookings : b = call[c].booking
  BY <1>1, Mover
<1>3. /\ booking[b].slot = call[c].slot /\ booking[b].status = call[c].status
      /\ Hand(call[c]) = {call[c].slot} /\ call[c].slot \in Slots /\ call[c].then = None
      /\ \/ call[c].set = "confirmed" /\ call[c].status = "pending"
         \/ call[c].set = "cancelled" /\ call[c].status \in Holding
         \/ call[c].set = "spent" /\ call[c].status \in Indexed
  BY <1>1, <1>2, Mover, FindsCases, HandCases
<1>4. At(booking[b].slot, Indexed) \ {b} = {}
  BY <1>3, SoundParts DEF BookingsFit, Unique, At
<1>5. /\ booking' = IF call[c].set # call[c].status
                    THEN [booking EXCEPT ![b].status = call[c].set] ELSE booking
      /\ Goes(c, CASE call[c].set = "cancelled" -> "free"
                   [] call[c].set = "spent" -> "spend"
                   [] OTHER -> "idle")
  BY <1>2, <1>3, <1>4 DEF Save
<1>6. /\ booking'[b].status = call[c].set /\ booking'[b].slot = call[c].slot
      /\ \A a \in Bookings \ {b} : booking'[a] = booking[a]
  BY <1>3, <1>5, SoundParts DEF BookingsFit, BookingRecords
<1>7. CASE call[c].set = "confirmed"
  <2>1. Goes(c, "idle") /\ "idle" \in Steps
    BY <1>5, <1>7 DEF Steps, Goes
  <2>2. ~Stays(c, b) /\ Ends(c) /\ \A d \in Calls \ {c} : call'[d] = call[d]
    BY <1>1, <1>2, <2>1, MovesForms
  <2>3. \A s \in Slots : b \in At(s, Indexed)' <=> s \in {call[c].slot}
    BY <1>6, <1>7, AtNext
  <2> QED
    BY <1>1, <1>2, <1>3, <1>6, <1>7, <2>2, <2>3, SameHand
<1>8. ASSUME NEW at \in {"free", "spend"}, Goes(c, at),
             at = "free" => call[c].set = "cancelled", at = "spend" => call[c].set = "spent"
      PROVE  InStep' /\ Balanced'
  <2>1. at \in Steps
    BY DEF Steps
  <2>2. Moves(c, at) /\ Stays(c, b) /\ \A d \in Calls \ {c} : call'[d] = call[d]
    BY <1>1, <1>2, <1>8, <2>1, MovesForms
  <2>3. Finds(call'[c], booking') /\ Hand(call'[c]) = {call[c].slot}
    BY <1>1, <1>2, <1>3, <1>6, <1>8, <2>2, HandCases DEF Finds, Moves
  <2> QED
    BY <1>1, <1>2, <1>3, <1>6, <1>8, <2>2, <2>3, SameHand
<1> QED
  BY <1>3, <1>5, <1>7, <1>8 DEF Goes

\* A move that has not taken its target leaves the call answerable for the
\* interval it came from.
LEMMA MoveKept ==
    ASSUME Sound, Alone, InStep, Balanced, NEW c \in Calls, order' = "kept",
           LookAtTarget(c) \/ Repoint(c) \/ PutBack(c)
    PROVE  InStep' /\ Balanced'
<1> USE IndexedMeans
<1>1. /\ c \in Busy /\ call[c].at \in {"target", "repoint", "putback"} /\ UNCHANGED <<slot, script>>
  BY DEF LookAtTarget, Repoint, PutBack, Busy, Unmoved
<1>2. PICK b \in Bookings : b = call[c].booking
  BY <1>1, Mover
<1>3. /\ booking[b].slot = IF call[c].at = "putback" THEN call[c].slot ELSE call[c].prev
      /\ booking[b].status \in Holding /\ Hand(call[c]) = {call[c].prev} /\ call[c].then = None
      /\ call[c].slot \in Slots /\ call[c].prev \in Slots
  BY <1>1, <1>2, Mover, FindsCases, HandCases DEF Moving
<1>4. ASSUME Goes(c, "idle"), booking'[b].status = booking[b].status,
             booking'[b].slot = call[c].prev,
             \A a \in Bookings \ {b} : booking'[a] = booking[a]
      PROVE  InStep' /\ Balanced'
  <2>1. ~Stays(c, b) /\ Ends(c) /\ \A d \in Calls \ {c} : call'[d] = call[d]
    BY <1>1, <1>2, <1>4, MovesForms DEF Steps
  <2>2. \A s \in Slots : b \in At(s, Indexed)' <=> s \in {call[c].prev}
    BY <1>3, <1>4, AtNext
  <2> QED
    BY <1>1, <1>2, <1>3, <1>4, <2>1, <2>2, SameHand
<1>5. ASSUME NEW at \in {"repoint", "take"}, Goes(c, at), booking'[b].status = booking[b].status,
             booking'[b].slot = IF at = "repoint" THEN call[c].prev ELSE call[c].slot,
             \A a \in Bookings \ {b} : booking'[a] = booking[a]
      PROVE  InStep' /\ Balanced'
  <2>1. at \in Steps
    BY DEF Steps
  <2>2. Moves(c, at) /\ Stays(c, b) /\ \A d \in Calls \ {c} : call'[d] = call[d]
    BY <1>1, <1>2, <1>5, <2>1, MovesForms
  <2>3. Finds(call'[c], booking') /\ Hand(call'[c]) = {call[c].prev}
    BY <1>1, <1>2, <1>3, <1>5, <2>2, HandCases DEF Finds, Moves
  <2> QED
    BY <1>1, <1>2, <1>3, <1>5, <2>2, <2>3, SameHand
<1>6. CASE LookAtTarget(c)
  <2>1. UNCHANGED booking /\ call[c].at = "target" /\ (Goes(c, "repoint") \/ Goes(c, "idle"))
    BY <1>6 DEF LookAtTarget, Goes
  <2> QED
    BY <1>3, <1>4, <1>5, <2>1
<1>7. CASE Repoint(c)
  <2>1. CASE UNCHANGED booking /\ Goes(c, "idle")
    <3>1. call[c].at = "repoint"
      BY <1>7 DEF Repoint
    <3> QED
      BY <1>3, <1>4, <2>1, <3>1
  <2>2. CASE booking' = [booking EXCEPT ![b].slot = call[c].slot] /\ Goes(c, "take")
    <3>1. /\ booking'[b].status = booking[b].status /\ booking'[b].slot = call[c].slot
          /\ \A a \in Bookings \ {b} : booking'[a] = booking[a]
      BY <2>2, SoundParts DEF BookingsFit, BookingRecords
    <3> QED
      BY <1>5, <2>2, <3>1
  <2> QED
    BY <1>2, <1>7, <2>1, <2>2 DEF Repoint, Goes
<1>8. CASE PutBack(c)
  <2>1. booking' = [booking EXCEPT ![b].slot = call[c].prev] /\ Goes(c, "idle")
    BY <1>2, <1>8 DEF PutBack, LostIf
  <2>2. /\ booking'[b].status = booking[b].status /\ booking'[b].slot = call[c].prev
        /\ \A a \in Bookings \ {b} : booking'[a] = booking[a]
    BY <2>1, SoundParts DEF BookingsFit, BookingRecords
  <2> QED
    BY <1>4, <2>1, <2>2
<1> QED
  BY <1>6, <1>7, <1>8

\* What a claim or a move takes was free, so nobody answered for it.
LEMMA TakeKept ==
    ASSUME Sound, Alone, InStep, Balanced, NEW c \in Calls, Flip(c) \/ Take(c)
    PROVE  InStep' /\ Balanced'
<1> USE IndexedMeans
<1>1. c \in Busy /\ call[c].at \in {"flip", "take"} /\ UNCHANGED <<booking, script>>
  BY DEF Flip, Take, Busy, Unmoved
<1>2. PICK b \in Bookings : b = call[c].booking
  BY <1>1, Mover
<1>3. PICK s \in Slots : s = call[c].slot
  BY <1>1, Mover
<1>4. /\ booking[b].slot = s /\ booking[b].status \in Holding /\ call[c].then = None
      /\ call[c].at = "flip" => Hand(call[c]) = {}
      /\ call[c].at = "take" => /\ Hand(call[c]) = {call[c].prev} /\ call[c].prev \in Slots
                                /\ call[c].prev # s
  BY <1>1, <1>2, <1>3, Mover, FindsCases, HandCases DEF Moving
<1>5. \A q \in Slots : slot'[q] = IF q = s /\ slot[q] = "available" THEN "booked" ELSE slot[q]
  BY <1>3, SoundParts, SetSlotTyped DEF Flip, Take, SlotStatuses
<1>6. CASE slot[s] # "available"
  <2>1. \A q \in Slots : slot'[q] = slot[q]
    BY <1>5, <1>6
  <2>2. slot' = slot
    BY <1>3, <1>6, NoneIsNothing DEF Flip, Take, SetSlot
  <2>3. PICK at \in {"undo", "putback"} :
             Goes(c, at) /\ (at = "putback" <=> call[c].at = "take")
    BY <1>3, <1>6 DEF Flip, Take, Goes
  <2>4. at \in Steps
    BY DEF Steps
  <2>5. Moves(c, at) /\ Stays(c, b) /\ \A d \in Calls \ {c} : call'[d] = call[d]
    BY <1>1, <1>2, <2>3, <2>4, MovesForms
  <2>6. Finds(call'[c], booking') /\ Hand(call'[c]) = Hand(call[c])
    BY <1>1, <1>2, <1>3, <1>4, <2>3, <2>5, HandCases DEF Finds, Moves
  <2> QED
    BY <1>1, <1>2, <1>4, <2>2, <2>5, <2>6, SameHand
<1>7. CASE slot[s] = "available"
  <2>1. \A a \in Bookings : ~Owns(a, s)
    BY <1>4, <1>7, NobodyOwns DEF Balanced
  <2>2. OwnedIsBooked
    BY DEF Balanced
  <2>3. CASE call[c].at = "flip"
    <3>1. Goes(c, "idle") /\ "idle" \in Steps
      BY <1>3, <1>7, <2>3 DEF Flip, Take, Steps
    <3>2. ~Stays(c, b) /\ Ends(c) /\ \A d \in Calls \ {c} : call'[d] = call[d]
      BY <1>1, <1>2, <3>1, MovesForms
    <3>3. \A q \in Slots : b \in At(q, Indexed)' <=> q \in {s}
      BY <1>1, <1>4, AtNext
    <3> DEFINE held == {}
               next == {s}
    <3>4. /\ \A q \in next \cap Slots : q \notin held => \A a \in Bookings : ~Owns(a, q)
          /\ \A q \in Slots : slot'[q] = "booked" /\ q \notin next
                                => q \notin held /\ slot[q] = "booked"
          /\ \A q \in Slots : slot[q] = "booked" => slot'[q] = "booked"
          /\ \A q \in next \cap Slots : slot'[q] = "booked"
      BY <1>5, <1>7, <2>1
    <3>5. /\ held = Hand(call[c]) /\ \A q \in Slots : b \in At(q, Indexed)' <=> q \in next
          /\ booking'[b].status # "spent" /\ \A a \in Bookings \ {b} : booking'[a] = booking[a]
      BY <1>1, <1>4, <2>3, <3>3
    <3> HIDE DEF held, next
    <3> QED
      BY <1>1, <1>2, <3>2, <3>4, <3>5, WorkBalances
  <2>4. CASE call[c].at = "take"
    <3>1. Goes(c, "leave") /\ "leave" \in Steps
      BY <1>3, <1>7, <2>4 DEF Flip, Take, Steps
    <3>2. Moves(c, "leave") /\ Stays(c, b) /\ \A d \in Calls \ {c} : call'[d] = call[d]
      BY <1>1, <1>2, <3>1, MovesForms
    <3>3. Finds(call'[c], booking') /\ Hand(call'[c]) = {s, call[c].prev}
      BY <1>1, <1>2, <1>3, <1>4, <3>2, HandCases DEF Finds, Moves
    <3>4. slot[call[c].prev] = "booked"
      <4>1. Owns(b, call[c].prev)
        BY <1>1, <1>2, <1>4, <2>4 DEF Owns
      <4> QED
        BY <1>4, <2>2, <2>4, <4>1 DEF OwnedIsBooked
    <3> QED
      BY <1>1, <1>2, <1>4, <1>5, <1>7, <2>1, <2>4, <3>2, <3>3, <3>4, WorkBalances
  <2> QED
    BY <1>1, <2>3, <2>4
<1> QED
  BY <1>6, <1>7

\* What a cancelled reservation held is free again.
LEMMA FreeKept ==
    ASSUME Sound, Alone, InStep, Balanced, NEW c \in Calls, Free(c)
    PROVE  InStep' /\ Balanced'
<1> USE IndexedMeans
<1>1. c \in Busy /\ call[c].at = "free" /\ UNCHANGED <<booking, script>> /\ Resumes(c)
  BY DEF Free, Busy, Unmoved
<1>2. PICK b \in Bookings : b = call[c].booking
  BY <1>1, Mover
<1>3. PICK s \in Slots : s = call[c].slot
  BY <1>1, Mover
<1>4. booking[b].status = "cancelled" /\ Hand(call[c]) = {s} /\ call[c].then # b
  BY <1>1, <1>2, <1>3, Mover, FindsCases, HandCases
<1>5. \A q \in Slots : slot'[q] = IF q = s /\ slot[q] = "booked" THEN "available" ELSE slot[q]
  BY <1>3, SoundParts, SetSlotTyped DEF Free, SlotStatuses
<1>6. /\ \A d \in Calls \ {c} : call'[d] = call[d]
      /\ Ends(c) \/ GoesOn(c)
  BY <1>1, SoundParts, ResumesFits, BookingsSame DEF Ends, GoesOn
<1>7. ~Stays(c, b)
  BY <1>4, <1>6, NoneIsNothing DEF Stays, Ends, GoesOn
<1>8. \A q \in Slots : ~(b \in At(q, Indexed)')
  BY <1>1, <1>4, AtNext
<1> DEFINE held == {s}
           next == {}
<1>9. /\ held = Hand(call[c]) /\ \A q \in Slots : b \in At(q, Indexed)' <=> q \in next
      /\ \A q \in next \cap Slots : FALSE
      /\ \A q \in Slots : slot'[q] = "booked" /\ q \notin next => q \notin held /\ slot[q] = "booked"
      /\ \A q \in Slots : slot[q] = "booked" /\ slot'[q] # "booked" => q \in held
      /\ booking'[b].status # "spent" /\ \A a \in Bookings \ {b} : booking'[a] = booking[a]
  BY <1>1, <1>4, <1>5, <1>8
<1> HIDE DEF held, next
<1> QED
  BY <1>1, <1>2, <1>6, <1>7, <1>9, WorkBalances

\* What a spent reservation held is completed.
LEMMA SpendKept ==
    ASSUME Sound, Alone, InStep, Balanced, NEW c \in Calls, Spend(c)
    PROVE  InStep' /\ Balanced'
<1> USE IndexedMeans
<1>1. c \in Busy /\ call[c].at = "spend" /\ UNCHANGED <<booking, script>> /\ Goes(c, "idle")
  BY DEF Spend, Busy, Unmoved
<1>2. PICK b \in Bookings : b = call[c].booking
  BY <1>1, Mover
<1>3. PICK s \in Slots : s = call[c].slot
  BY <1>1, Mover
<1>4. booking[b].status = "spent" /\ booking[b].slot = s /\ Hand(call[c]) = {s}
  BY <1>1, <1>2, <1>3, Mover, FindsCases, HandCases
<1>5. \A q \in Slots : slot'[q] = IF q = s /\ slot[q] = "booked" THEN "completed" ELSE slot[q]
  BY <1>3, SoundParts, SetSlotTyped DEF Spend, SlotStatuses
<1>6. ~Stays(c, b) /\ Ends(c) /\ \A d \in Calls \ {c} : call'[d] = call[d]
  BY <1>1, <1>2, MovesForms DEF Steps
<1>7. \A q \in Slots : b \in At(q, Indexed)' <=> q \in {s}
  BY <1>1, <1>4, AtNext
<1> DEFINE held == {s}
<1>8. /\ held = Hand(call[c]) /\ \A q \in Slots : b \in At(q, Indexed)' <=> q \in held
      /\ \A q \in Slots : slot'[q] = "booked" /\ q \notin held => slot[q] = "booked"
      /\ \A q \in Slots : slot[q] = "booked" /\ slot'[q] # "booked" => q \in held
      /\ booking'[b].status = "spent" /\ slot'[booking'[b].slot] # "booked"
      /\ \A a \in Bookings \ {b} : booking'[a] = booking[a]
  BY <1>1, <1>4, <1>5, <1>7
<1> HIDE DEF held
<1> QED
  BY <1>1, <1>2, <1>6, <1>8, WorkBalances

\* What a reservation moved away from is free again.
LEMMA LeaveKept ==
    ASSUME Sound, Alone, InStep, Balanced, NEW c \in Calls, Leave(c)
    PROVE  InStep' /\ Balanced'
<1> USE IndexedMeans
<1>1. c \in Busy /\ call[c].at = "leave" /\ UNCHANGED <<booking, script>> /\ Goes(c, "idle")
  BY DEF Leave, Busy, Unmoved
<1>2. PICK b \in Bookings : b = call[c].booking
  BY <1>1, Mover
<1>3. PICK s \in Slots, p \in Slots : s = call[c].slot /\ p = call[c].prev /\ p # s
  BY <1>1, Mover DEF Moving
<1>4. booking[b].status \in Holding /\ booking[b].slot = s /\ Hand(call[c]) = {s, p}
  BY <1>1, <1>2, <1>3, Mover, FindsCases, HandCases
<1>5. \A q \in Slots : slot'[q] = IF q = p /\ slot[q] = "booked" THEN "available" ELSE slot[q]
  BY <1>3, SoundParts, SetSlotTyped DEF Leave, SlotStatuses
<1>6. ~Stays(c, b) /\ Ends(c) /\ \A d \in Calls \ {c} : call'[d] = call[d]
  BY <1>1, <1>2, MovesForms DEF Steps
<1>7. \A q \in Slots : b \in At(q, Indexed)' <=> q \in {s}
  BY <1>1, <1>4, AtNext
<1>8. slot[s] = "booked"
  <2>1. Owns(b, s)
    BY <1>1, <1>2, <1>4 DEF Owns
  <2> QED
    BY <1>4, <2>1 DEF Balanced, OwnedIsBooked
<1> DEFINE held == {s, p}
           next == {s}
<1>9. /\ held = Hand(call[c]) /\ \A q \in Slots : b \in At(q, Indexed)' <=> q \in next
      /\ \A q \in next : q \in held
      /\ \A q \in Slots : slot'[q] = "booked" /\ q \notin next => q \notin held /\ slot[q] = "booked"
      /\ \A q \in Slots : slot[q] = "booked" /\ slot'[q] # "booked" => q \in held
      /\ booking'[b].status # "spent" /\ \A q \in next \cap Slots : slot'[q] = "booked"
      /\ \A a \in Bookings \ {b} : booking'[a] = booking[a]
  BY <1>1, <1>3, <1>4, <1>5, <1>7, <1>8
<1> HIDE DEF held, next
<1> QED
  BY <1>1, <1>2, <1>6, <1>9, WorkBalances

LEMMA WorkKept ==
    ASSUME Sound, Alone, InStep, Balanced, NEW c \in Calls, Work(c), order' = "kept"
    PROVE  InStep' /\ Balanced'
  BY LapseKept, LookKept, CreateKept, UndoKept, SaveKept, MoveKept, TakeKept, FreeKept, SpendKept,
     LeaveKept DEF Work

----------------------------------------------------------------------------
(* The steps that no call takes                                             *)

\* A call begins: it answers for what its reservation answered for.
LEMMA EnterKept ==
    ASSUME Sound, InStep, Balanced, NEW c \in Calls, NEW n \in CallRecords, NEW b \in Bookings,
           b = n.booking, n.at # "idle", NEW served, served = {b, n.then} \ {None},
           Enter(c, served, n), order' = "kept", Finds(n, booking),
           \A s \in Slots : s \in Hand(n) <=> b \in At(s, Indexed)
    PROVE  InStep' /\ Balanced'
<1>1. /\ script.at = "idle" /\ script'.at = "idle" /\ \A a \in served : Serving(a) = {}
      /\ UNCHANGED <<slot, booking>> /\ c \notin Busy
  BY SoundParts, NoticedTyped DEF Enter, Busy
<1>2. call'[c] = n /\ \A d \in Calls \ {c} : call'[d] = call[d]
  BY SoundParts DEF Enter, Typed
<1>3. Busy' = Busy \cup {c}
  BY <1>1, <1>2 DEF Busy
<1>4. ASSUME NEW a \in Bookings
      PROVE  Serving(a)' = IF a \in served THEN {c} ELSE Serving(a)
  <2>1. a \in served <=> a \in {b, n.then}
    BY NoneIsNothing
  <2> QED
    BY <1>1, <1>2, <1>3, <2>1 DEF Serving, Busy
<1>5. \A a \in served \ {b} : a = n.then /\ booking[a].status = "none"
  BY DEF Finds
<1>6. ASSUME NEW s \in Slots
      PROVE  /\ Owns(b, s)' <=> Owns(b, s)
             /\ \A a \in Bookings \ {b} : Owns(a, s)' <=> Owns(a, s)
  <2>1. Owns(b, s) <=> b \in At(s, Indexed)
    <3>1. Serving(b) = {}
      BY <1>1, NoneIsNothing
    <3>2. \A d \in Busy : call[d].booking # b
      BY <3>1 DEF Serving
    <3> QED
      BY <3>1, <3>2 DEF Owns
  <2>2. Owns(b, s)' <=> s \in Hand(n)
    <3>1. \A d \in Busy' : call'[d].booking = b => d \in Serving(b)'
      BY DEF Serving
    <3> QED
      BY <1>2, <1>3, <1>4, <3>1, NoneIsNothing DEF Owns
  <2>3. ASSUME NEW a \in Bookings \ {b}
        PROVE  Owns(a, s)' <=> Owns(a, s)
    <3>1. (a \in At(s, Indexed))' <=> a \in At(s, Indexed)
      BY <1>1 DEF At
    <3>2. (\E d \in Busy' : call'[d].booking = a /\ s \in Hand(call'[d]))
          <=> (\E d \in Busy : call[d].booking = a /\ s \in Hand(call[d]))
      BY <1>1, <1>2, <1>3 DEF Busy
    <3>3. CASE a \in served
      <4>1. ~(a \in At(s, Indexed))
        BY <1>5, <3>3, IndexedMeans DEF At
      <4> QED
        BY <3>1, <3>2, <4>1 DEF Owns
    <3>4. CASE a \notin served
      BY <1>4, <3>1, <3>2, <3>4 DEF Owns
    <3> QED
      BY <3>3, <3>4
  <2> QED
    BY <2>1, <2>2, <2>3
<1>7. OwnedOnce' /\ BookedIsOwned' /\ OwnedIsBooked'
  BY <1>1, <1>6, Balance DEF Balanced, OwnedIsBooked
<1>8. SpentIsOver'
  BY <1>1, <1>4 DEF Balanced, SpentIsOver
<1>9. Apart'
  <2>1. ASSUME NEW d \in Busy', NEW e \in Busy', NEW a \in Bookings, {d, e} \subseteq Serving(a)'
        PROVE  d = e
    <3>1. CASE a \in served
      BY <1>4, <2>1, <3>1
    <3>2. CASE a \notin served
      <4>1. {d, e} \subseteq Serving(a)
        BY <1>4, <2>1, <3>2
      <4>2. {d, e} \subseteq Busy
        BY <4>1 DEF Serving
      <4> QED
        BY <4>1, <4>2 DEF InStep, Apart
    <3> QED
      BY <3>1, <3>2
  <2> QED
    BY <2>1 DEF Apart
<1>10. \A d \in Busy' : Finds(call'[d], booking')
  BY <1>1, <1>2, <1>3 DEF InStep, Busy
<1> QED
  BY <1>1, <1>7, <1>8, <1>9, <1>10 DEF InStep, Balanced

LEMMA BeginKept ==
    ASSUME Sound, InStep, Balanced, NEW c \in Calls, Begin(c), order' = "kept"
    PROVE  InStep' /\ Balanced'
<1> USE IndexedMeans
<1>1. /\ BookingsFit
      /\ \A b \in Bookings : booking[b].status \in Indexed \cup {"cancelled"}
                               => booking[b].slot \in Slots
  BY SoundParts DEF BookingsFit, Placed
<1>2. ASSUME NEW b \in Bookings, NEW s \in Slots, booking[b].status = "none",
             Enter(c, {b}, Claiming(b, s))
      PROVE  InStep' /\ Balanced'
  <2> DEFINE n == Claiming(b, s)
  <2>1. /\ n \in CallRecords /\ n.booking = b /\ n.at = "look" /\ n.then = None
    BY <1>1, RecordsTyped DEF Claiming, Idle
  <2> HIDE DEF n
  <2>2. Finds(n, booking) /\ {b} = {b, n.then} \ {None}
    BY <1>2, <2>1, NoneIsNothing DEF Finds
  <2>3. \A q \in Slots : q \in Hand(n) <=> b \in At(q, Indexed)
    BY <1>2, <2>1, HandCases DEF At
  <2> QED
    BY <1>2, <2>1, <2>2, <2>3, EnterKept DEF n
<1>3. ASSUME NEW b \in Bookings, NEW s \in Slots, NEW e \in At(s, {"pending"}),
             booking[b].status = "none", Enter(c, {b, e}, Clearing(e, b, s))
      PROVE  InStep' /\ Balanced'
  <2> DEFINE n == Clearing(e, b, s)
  <2>1. /\ n \in CallRecords /\ n.booking = e /\ n.at = "lapse" /\ n.then = b /\ n.slot = s
        /\ e \in Bookings /\ booking[e].status = "pending" /\ booking[e].slot = s
    BY <1>1, RecordsTyped DEF Clearing, Idle, At
  <2> HIDE DEF n
  <2>2. Finds(n, booking) /\ {b, e} = {e, n.then} \ {None}
    BY <1>3, <2>1, NoneIsNothing DEF Finds
  <2>3. \A q \in Slots : q \in Hand(n) <=> e \in At(q, Indexed)
    BY <2>1, HandCases DEF At
  <2> QED
    BY <1>3, <2>1, <2>2, <2>3, EnterKept DEF n
<1>4. ASSUME NEW b \in Bookings, booking[b].status = "pending",
             Enter(c, {b}, Expiring(b, booking[b].slot))
      PROVE  InStep' /\ Balanced'
  <2>1. PICK s \in Slots : s = booking[b].slot
    BY <1>1, <1>4
  <2> DEFINE n == Expiring(b, s)
  <2>2. /\ n \in CallRecords /\ n.booking = b /\ n.at = "lapse" /\ n.then = None /\ n.slot = s
    BY <1>1, RecordsTyped DEF Expiring, Idle
  <2>3. Enter(c, {b}, n)
    BY <1>4, <2>1
  <2> HIDE DEF n
  <2>4. Finds(n, booking) /\ {b} = {b, n.then} \ {None}
    BY <1>4, <2>1, <2>2, NoneIsNothing DEF Finds
  <2>5. \A q \in Slots : q \in Hand(n) <=> b \in At(q, Indexed)
    BY <1>4, <2>1, <2>2, HandCases DEF At
  <2> QED
    BY <2>2, <2>3, <2>4, <2>5, EnterKept
<1>5. ASSUME NEW b \in Bookings, NEW next \in {"confirmed", "cancelled", "spent"},
             next = "confirmed" => booking[b].status = "pending",
             next = "cancelled" => booking[b].status \in Holding \cup {"cancelled"},
             next = "spent" => booking[b].status \in Indexed,
             Enter(c, {b}, Editing(b, next))
      PROVE  InStep' /\ Balanced'
  <2> DEFINE n == Editing(b, next)
  <2>1. \E s \in Slots : TRUE
    BY <1>1, <1>5
  <2>2. /\ n \in CallRecords /\ n.booking = b /\ n.at = "save" /\ n.then = None
        /\ n.slot = booking[b].slot /\ n.status = booking[b].status /\ n.set = next
    BY <1>1, <2>1, RecordsTyped DEF Editing, Idle
  <2> HIDE DEF n
  <2>3. Enter(c, {b}, n)
    BY <1>5 DEF n
  <2>4. {n.status, n.set} # {"cancelled"}
    BY <2>3 DEF Enter
  <2>5. booking[b].status \in Indexed /\ (next = "cancelled" => booking[b].status \in Holding)
    BY <1>5, <2>2, <2>4
  <2>6. Finds(n, booking) /\ {b} = {b, n.then} \ {None}
    BY <1>5, <2>2, <2>5, NoneIsNothing DEF Finds
  <2>7. \A q \in Slots : q \in Hand(n) <=> b \in At(q, Indexed)
    BY <2>2, <2>5, HandCases DEF At
  <2> QED
    BY <2>2, <2>3, <2>6, <2>7, EnterKept
<1>6. ASSUME NEW b \in Bookings, NEW s \in Slots, booking[b].status \in Holding,
             Enter(c, {b}, MovingTo(b, s))
      PROVE  InStep' /\ Balanced'
  <2> DEFINE n == MovingTo(b, s)
  <2>1. /\ n \in CallRecords /\ n.booking = b /\ n.at = "target" /\ n.then = None
        /\ n.slot = s /\ n.prev = booking[b].slot
    BY <1>1, RecordsTyped DEF MovingTo, Idle
  <2> HIDE DEF n
  <2>2. Finds(n, booking) /\ {b} = {b, n.then} \ {None}
    BY <1>6, <2>1, NoneIsNothing DEF Finds
  <2>3. \A q \in Slots : q \in Hand(n) <=> b \in At(q, Indexed)
    BY <1>6, <2>1, HandCases DEF At
  <2> QED
    BY <1>6, <2>1, <2>2, <2>3, EnterKept DEF n
<1> QED
  BY <1>2, <1>3, <1>4, <1>5, <1>6, BeginForms

\* Without a step of a call the same calls answer for the same intervals.
LEMMA CallsAnswerSame ==
    ASSUME UNCHANGED call
    PROVE  /\ Busy' = Busy /\ \A b \in Bookings : Serving(b)' = Serving(b)
           /\ Apart => Apart'
           /\ \A b \in Bookings, s \in Slots :
                 (b \in At(s, Indexed) <=> b \in At(s, Indexed)') => (Owns(b, s) <=> Owns(b, s)')
<1>1. Busy' = Busy /\ \A b \in Bookings : Serving(b)' = Serving(b)
  BY DEF Busy, Serving
<1>2. \A b \in Bookings, s \in Slots :
         (b \in At(s, Indexed) <=> b \in At(s, Indexed)') => (Owns(b, s) <=> Owns(b, s)')
  BY <1>1 DEF Owns
<1> QED
  BY <1>1, <1>2 DEF Apart

LEMMA SweepKept ==
    ASSUME Sound, Alone, InStep, Balanced, NEW b \in Bookings, SweepNoShow(b), order' = "kept"
    PROVE  InStep' /\ Balanced'
<1> USE IndexedMeans
<1>1. /\ Serving(b) = {} /\ script.at = "idle" /\ script'.at = "idle" /\ UNCHANGED call
      /\ booking[b].status = "confirmed"
      /\ booking' = [booking EXCEPT ![b].status = "spent"]
  BY SoundParts, NoticedTyped DEF SweepNoShow, LostIf
<1>2. PICK s \in Slots : s = booking[b].slot
  BY <1>1, SoundParts DEF BookingsFit, Placed
<1>3. /\ booking'[b].status = "spent" /\ booking'[b].slot = s
      /\ \A a \in Bookings \ {b} : booking'[a] = booking[a]
  BY <1>1, <1>2, SoundParts DEF BookingsFit, BookingRecords
<1>4. \A q \in Slots : slot'[q] = IF q = s /\ slot[q] = "booked" THEN "completed" ELSE slot[q]
  BY <1>2, SoundParts, SetSlotTyped DEF SweepNoShow, SlotStatuses
<1>5. /\ Busy' = Busy /\ Apart' /\ \A a \in Bookings : Serving(a)' = Serving(a)
      /\ \A a \in Bookings, q \in Slots : Owns(a, q) <=> Owns(a, q)'
  <2>1. \A a \in Bookings, q \in Slots : a \in At(q, Indexed) <=> a \in At(q, Indexed)'
    BY <1>1, <1>2, <1>3 DEF At
  <2> QED
    BY <1>1, <2>1, CallsAnswerSame DEF InStep
<1>6. \A q \in Slots : Owns(b, q) <=> q = s
  <2>1. \A d \in Busy : call[d].booking # b
    BY <1>1 DEF Serving
  <2> QED
    BY <1>1, <1>2, <2>1 DEF Owns, At
<1>7. OwnedOnce' /\ BookedIsOwned' /\ OwnedIsBooked'
  BY <1>3, <1>4, <1>5, <1>6, Balance DEF Balanced
<1>8. SpentIsOver'
  BY <1>1, <1>3, <1>4, <1>5, <1>6, SpentStays DEF Balanced
<1>9. ASSUME NEW d \in Busy'
      PROVE  Finds(call'[d], booking')
  <2>1. d \in Busy /\ call'[d] = call[d] /\ Finds(call[d], booking)
    BY <1>1, <1>5, <1>9 DEF InStep
  <2>2. d \in Calls /\ call[d].booking \in Bookings /\ call[d].then \in Bookings \cup {None}
    BY <2>1, Mover
  <2>3. call[d].booking # b /\ call[d].then # b
    BY <1>1, <2>1 DEF Serving
  <2>4. /\ booking'[call[d].booking] = booking[call[d].booking]
        /\ call[d].then # None => booking'[call[d].then] = booking[call[d].then]
    BY <1>3, <2>2, <2>3
  <2> QED
    BY <2>1, <2>4 DEF Finds
<1> QED
  BY <1>1, <1>5, <1>7, <1>8, <1>9 DEF InStep, Balanced

\* Reservations and calls stay, and no slot becomes booked or, if somebody
\* answers for it who is not spent, ceases to be.
LEMMA SlotsWritten ==
    ASSUME InStep, Balanced, UNCHANGED <<booking, call>>,
           script'.at # "idle" => script'.quiet,
           \A s \in Slots : slot'[s] = "booked" => slot[s] = "booked",
           \A b \in Bookings, s \in Slots :
               Owns(b, s) /\ booking[b].status # "spent" /\ slot[s] = "booked" => slot'[s] = "booked",
           SpentIsOver'
    PROVE  InStep' /\ Balanced'
<1>1. \A b \in Bookings, s \in Slots : b \in At(s, Indexed) <=> b \in At(s, Indexed)'
  BY DEF At
<1>2. /\ Busy' = Busy /\ Apart'
      /\ \A b \in Bookings, s \in Slots : Owns(b, s) <=> Owns(b, s)'
  BY <1>1, CallsAnswerSame DEF InStep
<1>3. \A d \in Busy' : Finds(call'[d], booking')
  BY <1>2 DEF InStep
<1>4. OwnedOnce' /\ BookedIsOwned' /\ OwnedIsBooked'
  BY <1>2 DEF Balanced, OwnedOnce, BookedIsOwned, OwnedIsBooked
<1> QED
  BY <1>2, <1>3, <1>4 DEF InStep, Balanced

\* What is over stays over when the script does no more than free slots.
LEMMA SpentFreed ==
    ASSUME Sound, SpentIsOver, UNCHANGED <<booking, call>>,
           script'.at \in {"spent", "close"} \/ script.at \notin {"spent", "close"},
           \A s \in Slots : slot'[s] = "booked" => slot[s] = "booked"
    PROVE  SpentIsOver'
<1>1. \A b \in Bookings : Serving(b)' = Serving(b)
  BY CallsAnswerSame
<1>2. \A b \in Bookings : booking[b].status = "spent" => booking[b].slot \in Slots
  BY SoundParts, IndexedMeans DEF BookingsFit, Placed
<1> QED
  BY <1>1, <1>2 DEF SpentIsOver

LEMMA AdminKept ==
    ASSUME Sound, InStep, Balanced, NEW s \in Slots, NEW status \in {"available", "blocked"},
           Admin(s, status), order' = "kept"
    PROVE  InStep' /\ Balanced'
<1>1. /\ UNCHANGED <<booking, call, script>> /\ slot[s] # "booked"
      /\ \A q \in Slots : slot'[q] = "booked" <=> slot[q] = "booked"
  BY SoundParts DEF Admin, LostIf
<1>2. SpentIsOver'
  BY <1>1, SpentFreed DEF Balanced
<1> QED
  BY <1>1, <1>2, SlotsWritten DEF InStep

\* Alone with the database, the script serves no reservation.
LEMMA QuietOwns ==
    ASSUME Busy = {}
    PROVE  \A b \in Bookings, s \in Slots : Owns(b, s) <=> b \in At(s, Indexed)
<1>1. \A b \in Bookings : Serving(b) = {}
  BY DEF Serving
<1> QED
  BY <1>1 DEF Owns

LEMMA CloseExpiredKept ==
    ASSUME Sound, InStep, Balanced, CloseExpired, order' = "kept"
    PROVE  InStep' /\ Balanced'
<1>1. Busy = {} /\ UNCHANGED <<slot, call>> /\ script'.at = "spent" /\ script'.quiet
  BY DEF CloseExpired, LostIf
<1>2. PICK past \in SUBSET {b \in Bookings : booking[b].status = "confirmed"} :
           booking' = [b \in Bookings |->
                         IF b \in past THEN [booking[b] EXCEPT !.status = "spent"]
                         ELSE booking[b]]
  BY DEF CloseExpired
<1>3. ASSUME NEW b \in Bookings
      PROVE  /\ booking'[b].slot = booking[b].slot
             /\ booking'[b].status = IF b \in past THEN "spent" ELSE booking[b].status
             /\ b \in past => booking[b].status = "confirmed"
  <2>1. booking[b] \in BookingRecords
    BY SoundParts DEF BookingsFit
  <2> QED
    BY <1>2, <2>1 DEF BookingRecords
<1>4. \A b \in Bookings, s \in Slots : b \in At(s, Indexed) <=> b \in At(s, Indexed)'
  BY <1>3, IndexedMeans DEF At
<1>5. /\ Busy' = Busy /\ Apart'
      /\ \A b \in Bookings, s \in Slots : Owns(b, s) <=> Owns(b, s)'
  BY <1>1, <1>4, CallsAnswerSame DEF InStep
<1>6. OwnedOnce' /\ BookedIsOwned' /\ OwnedIsBooked'
  BY <1>1, <1>3, <1>5 DEF Balanced, OwnedOnce, BookedIsOwned, OwnedIsBooked
<1> QED
  BY <1>1, <1>5, <1>6 DEF InStep, Balanced, SpentIsOver

LEMMA ScriptKept ==
    ASSUME Sound, Alone, InStep, Balanced, Script, order' = "kept"
    PROVE  InStep' /\ Balanced'
<1>1. ASSUME script.at # "idle"
      PROVE  script.quiet /\ Busy = {} /\ \A b \in Bookings, s \in Slots :
                                            Owns(b, s) <=> b \in At(s, Indexed)
  BY <1>1, QuietOwns DEF InStep, Alone
<1>2. CASE ReadSpent \/ ReadLive
  <2>1. /\ UNCHANGED <<slot, booking, call>> /\ script.at \in {"spent", "live"}
        /\ script'.at = (IF script.at = "spent" THEN "close" ELSE "free")
        /\ script'.quiet = script.quiet
    BY <1>2, ScriptParts DEF ReadSpent, ReadLive
  <2>2. SpentIsOver'
    BY <2>1, SpentFreed DEF Balanced
  <2> QED
    BY <1>1, <2>1, <2>2, SlotsWritten
<1>3. CASE CloseSpent
  <2>1. /\ UNCHANGED <<booking, call>> /\ script.at = "close" /\ script'.at = "live"
        /\ script'.quiet = script.quiet /\ script.found = SpentAt
    BY <1>1, <1>3, ScriptParts DEF CloseSpent, Alone
  <2>2. /\ \A s \in Slots : slot'[s] = "booked" => slot[s] = "booked" /\ s \notin SpentAt
        /\ \A s \in Slots : slot[s] = "booked" /\ slot'[s] # "booked" => s \in SpentAt
    BY <1>3, <2>1 DEF CloseSpent
  <2>3. ASSUME NEW b \in Bookings, NEW s \in Slots, Owns(b, s), booking[b].status # "spent"
        PROVE  s \notin SpentAt
    <3>1. booking[b].status \in Indexed /\ booking[b].slot = s
      BY <1>1, <2>1, <2>3 DEF At
    <3> QED
      BY <2>3, <3>1, SoundParts, IndexedMeans DEF SpentAt, At, BookingsFit, Unique
  <2>4. SpentIsOver'
    <3>1. ASSUME NEW b \in Bookings, booking[b].status = "spent"
          PROVE  slot'[booking[b].slot] # "booked"
      <4>1. booking[b].slot \in SpentAt
        BY <3>1, SoundParts, IndexedMeans DEF BookingsFit, Placed, SpentAt, At
      <4> QED
        BY <2>2, <4>1 DEF SpentAt
    <3> QED
      BY <2>1, <3>1 DEF SpentIsOver
  <2> QED
    BY <1>1, <2>1, <2>2, <2>3, <2>4, SlotsWritten
<1>4. CASE FreePhantoms
  <2>1. /\ UNCHANGED <<booking, call>> /\ script.at = "free" /\ script'.at = "idle"
        /\ script.found = {s \in Slots : At(s, Indexed) # {}}
    BY <1>1, <1>4, RestingTyped DEF FreePhantoms, Alone
  <2>2. /\ \A s \in Slots : slot'[s] = "booked" => slot[s] = "booked"
        /\ \A s \in Slots : slot[s] = "booked" /\ slot'[s] # "booked" => At(s, Indexed) = {}
    BY <1>4, <2>1 DEF FreePhantoms
  <2>3. SpentIsOver'
    BY <2>1, <2>2, SpentFreed DEF Balanced
  <2> QED
    BY <1>1, <2>1, <2>2, <2>3, SlotsWritten
<1>5. ~ScriptDies
  BY DEF ScriptDies, LostIf
<1> QED
  BY <1>2, <1>3, <1>4, <1>5, CloseExpiredKept DEF Script

----------------------------------------------------------------------------
(* The invariant, and what it says of slots at rest                         *)

SlotsInv == Sound /\ Alone /\ Kept

\* Order once gone does not return.
LEMMA OrderGoes ==
    ASSUME [SlotsNext]_slotsVars, order' = "kept"
    PROVE  order = "kept"
<1>1. ASSUME NEW c \in Calls, Begin(c)
      PROVE  order = "kept"
  <2>1. \E served, n : Enter(c, served, n)
    BY <1>1, BeginForms
  <2> QED
    BY <2>1 DEF Enter
<1>2. ASSUME NEW c \in Calls, Work(c) \/ Crash(c)
      PROVE  order = "kept"
  BY <1>2 DEF Work, Lapse, Look, Create, Flip, Undo, Save, Free, Spend, LookAtTarget, Repoint,
              Take, PutBack, Leave, Crash, LostIf, Unmoved
<1>3. ASSUME Script \/ (\E b \in Bookings : SweepNoShow(b))
             \/ (\E s \in Slots, status \in {"available", "blocked"} : Admin(s, status))
      PROVE  order = "kept"
  BY <1>3 DEF SweepNoShow, Admin, Script, CloseExpired, ReadSpent, CloseSpent, ReadLive,
              FreePhantoms, ScriptDies, LostIf
<1> QED
  BY <1>1, <1>2, <1>3 DEF SlotsNext, slotsVars

LEMMA KeptHolds ==
    ASSUME SlotsInv, [SlotsNext]_slotsVars
    PROVE  Kept'
<1>1. ASSUME order' = "kept"
      PROVE  InStep' /\ Balanced'
  <2>1. order = "kept"
    BY <1>1, OrderGoes
  <2>2. Sound /\ Alone /\ InStep /\ Balanced
    BY <2>1 DEF SlotsInv, Kept
  <2>3. CASE UNCHANGED slotsVars
    <3>1. SpentIsOver'
      BY <2>2, <2>3, SpentFreed DEF slotsVars, Balanced
    <3> QED
      BY <2>2, <2>3, <3>1, SlotsWritten DEF slotsVars, InStep
  <2>4. ASSUME NEW c \in Calls, Begin(c) \/ Work(c) \/ Crash(c)
        PROVE  InStep' /\ Balanced'
    BY <1>1, <2>2, <2>4, BeginKept, WorkKept DEF Crash, LostIf
  <2> QED
    BY <1>1, <2>2, <2>3, <2>4, SweepKept, AdminKept, ScriptKept DEF SlotsNext
<1> QED
  BY <1>1 DEF Kept

LEMMA KeptInit ==
    ASSUME SlotsInit
    PROVE  Kept
<1>1. Busy = {} /\ script.at = "idle"
  BY IdleTyped, RestingTyped DEF SlotsInit, Busy
<1>2. \A b \in Bookings : booking[b].status = "none" /\ Serving(b) = {}
  BY <1>1 DEF SlotsInit, Serving
<1>3. \A b \in Bookings, s \in Slots : ~Owns(b, s)
  BY <1>1, <1>2, IndexedMeans DEF Owns, At
<1>4. \A s \in Slots : slot[s] # "booked"
  BY DEF SlotsInit
<1> QED
  BY <1>1, <1>2, <1>3, <1>4
  DEF Kept, InStep, Apart, Balanced, OwnedOnce, BookedIsOwned, OwnedIsBooked, SpentIsOver

\* The ledger of the intervals: of every history of claims, expiries, moves, saves
\* and repairs, the documents fit the index, a script that is alone reads what
\* is true, and until order is lost every booked slot has one to answer for it.
THEOREM SlotsInvAlways == SlotsSpec => []SlotsInv
<1>1. SlotsInit => SlotsInv
  BY SoundInit, AloneInit, KeptInit DEF SlotsInv
<1>2. SlotsInv /\ [SlotsNext]_slotsVars => SlotsInv'
  BY SoundHolds, AloneHolds, KeptHolds DEF SlotsInv
<1> QED
  BY <1>1, <1>2, PTL DEF SlotsSpec

LEMMA InvAgrees ==
    ASSUME SlotsInv
    PROVE  SlotsAgree
<1> USE IndexedMeans
<1> SUFFICES ASSUME order = "kept", script.at = "idle"
             PROVE  HoldersAreBooked /\ BookedAreHeld
  BY DEF SlotsAgree
<1>1. Sound /\ InStep /\ Balanced
  BY DEF SlotsInv, Kept
<1>2. ASSUME NEW b \in Bookings, booking[b].status \in Holding, Serving(b) = {}
      PROVE  booking[b].slot # None /\ slot[booking[b].slot] = "booked"
  <2>1. booking[b].slot \in Slots
    BY <1>1, <1>2, SoundParts DEF BookingsFit, Placed
  <2>2. Owns(b, booking[b].slot)
    BY <1>2 DEF Owns, At
  <2> QED
    BY <1>1, <1>2, <2>1, <2>2, NoneIsNothing DEF Balanced, OwnedIsBooked
<1>3. ASSUME NEW s \in Slots, slot[s] = "booked"
      PROVE  At(s, Holding) # {} \/ \E c \in Busy : s \in {call[c].slot, call[c].prev}
  <2>1. PICK b \in Bookings : Owns(b, s)
    BY <1>1, <1>3 DEF Balanced, BookedIsOwned
  <2>2. CASE Serving(b) = {} /\ b \in At(s, Indexed)
    <3>1. booking[b].status # "spent"
      BY <1>1, <1>3, <2>2 DEF Balanced, SpentIsOver, At
    <3> QED
      BY <2>2, <3>1 DEF At
  <2>3. ASSUME NEW c \in Busy, s \in Hand(call[c])
        PROVE  s \in {call[c].slot, call[c].prev}
    BY <2>3 DEF Hand
  <2> QED
    BY <2>1, <2>2, <2>3 DEF Owns
<1> QED
  BY <1>2, <1>3 DEF HoldersAreBooked, BookedAreHeld

\* Holders and booked slots agree whenever the script is not between its writes,
\* for any number of calls, unless one reservation was served twice at once, a
\* call died, a slot was forced or a reservation was cancelled twice.
THEOREM HoldersAndSlotsAgree == SlotsSpec => []SlotsAgree
<1> QED
  BY SlotsInvAlways, InvAgrees, PTL

\* Reservations, slots, calls and the script stay well formed.
THEOREM SlotsTyped == SlotsSpec => []SlotsTypeOK
<1>1. SlotsInv => SlotsTypeOK
  BY DEF SlotsInv, Sound
<1> QED
  BY SlotsInvAlways, <1>1, PTL
=============================================================================
