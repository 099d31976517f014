----------------------------- MODULE Occupancy -----------------------------
(***************************************************************************)
(* The charger-time lease of services/occupancy.service.ts, driven the way *)
(* booking.service.ts (claimRangeReservation) and recommendation.service.ts*)
(* (issue, accept, retire, sweep) drive it.                                *)
(*                                                                         *)
(* One document of `reservationoccupancy` is one cell: a charger and one   *)
(* 15-minute atom.  The unique index on (chargerId, atomStart) is the      *)
(* function `holder`: a cell has at most one.  Nothing else is atomic: an  *)
(* insertMany or updateMany touches one document at a time, and every      *)
(* await of a handler is a point where another handler runs.  deleteMany   *)
(* is one step, because each of its per-document deletions re-tests the    *)
(* filter and so commutes with what other holders do.                      *)
(***************************************************************************)
EXTENDS Naturals, FiniteSets

CONSTANTS Bookings,   \* one per call of claimRangeReservation
          Offers,     \* one per call of issueRecommendation
          Cells,      \* (charger, atom) pairs
          Ranges,     \* the cell sets a request may ask for (atomsForRange)
          Nobody,     \* a cell with no document
          HoldTicks,  \* length of the offer window (RECOMMENDATION_HOLD_MINUTES)
          MaxClock    \* bound on the clock

Holders == Bookings \cup Offers

ASSUME HoldersAreDistinct ==
    /\ Bookings \cap Offers = {}
    /\ Nobody \notin Bookings \cup Offers
ASSUME RangesAreFinite ==
    \A r \in Ranges : r \subseteq Cells /\ IsFiniteSet(r) /\ r # {}
ASSUME TicksAreNatural == HoldTicks \in Nat \ {0} /\ MaxClock \in Nat

VARIABLES
    holder,    \* bookingId / recommendationId of each cell's document
    expiresAt, \* holdExpiresAt carried by every document of an offer
    atoms,     \* the cells a holder's call asked for
    todo,      \* cells its insertMany / updateMany has not reached yet
    collided,  \* its insertMany met a duplicate key
    converted, \* cells its convertHoldToBooking rewrote (modifiedCount)
    source,    \* fromRecommendationId of a reservation, or Nobody
    pc,        \* where the holder's call stands
    doc,       \* the reservation document: none, holding, ending, ended
    offer,     \* the offer document's status: pending, releasing (retiring), settled
    clock

vars == <<holder, expiresAt, atoms, todo, collided, converted, source, pc, doc,
          offer, clock>>

CallStates == {"idle", "purge", "insert", "convert", "undo", "unbook",
               "granted", "refused", "crashed"}

TypeOK ==
    /\ holder \in [Cells -> Holders \cup {Nobody}]
    /\ expiresAt \in [Offers -> Nat]
    /\ atoms \in [Holders -> SUBSET Cells]
    /\ todo \in [Holders -> SUBSET Cells]
    /\ collided \in [Holders -> BOOLEAN]
    /\ converted \in [Bookings -> SUBSET Cells]
    /\ source \in [Bookings -> Offers \cup {Nobody}]
    /\ pc \in [Holders -> CallStates]
    /\ doc \in [Bookings -> {"none", "holding", "ending", "ended"}]
    /\ offer \in [Offers -> {"pending", "releasing", "settled"}]
    /\ clock \in Nat

Init ==
    /\ holder = [c \in Cells |-> Nobody]
    /\ expiresAt = [o \in Offers |-> 0]
    /\ atoms = [h \in Holders |-> {}]
    /\ todo = [h \in Holders |-> {}]
    /\ collided = [h \in Holders |-> FALSE]
    /\ converted = [b \in Bookings |-> {}]
    /\ source = [b \in Bookings |-> Nobody]
    /\ pc = [h \in Holders |-> "idle"]
    /\ doc = [b \in Bookings |-> "none"]
    /\ offer = [o \in Offers |-> "pending"]
    /\ clock = 0

----------------------------------------------------------------------------
(* Reads and bulk writes on the collection                                  *)

RowsOf(h) == {c \in Cells : holder[c] = h}

\* Mutants: the purge tests the offer's window with `<=`; or a conversion
\* forgets to clear holdExpiresAt, so reservations lapse as offers do.
LapsedAtExpiry(c) == holder[c] \in Offers /\ expiresAt[holder[c]] <= clock

LapsedKeepsExpiry(c) ==
    \/ holder[c] \in Offers /\ expiresAt[holder[c]] < clock
    \/ /\ holder[c] \in Bookings
       /\ source[holder[c]] \in Offers
       /\ expiresAt[source[holder[c]]] < clock

\* The filter of purgeLapsedHolds: a document with an expiry strictly in the
\* past.  A reservation's document has no expiry and never matches.
Lapsed(c) == holder[c] \in Offers /\ expiresAt[holder[c]] < clock

\* The `holder` table after a deleteMany of the given cells.
Without(cells) == [c \in Cells |-> IF c \in cells THEN Nobody ELSE holder[c]]

\* countHeldAtoms equals the number of atoms the offer was made for.
HoldIntact(o) == Cardinality(RowsOf(o)) = Cardinality(atoms[o])

Intact(h) == \A c \in atoms[h] : holder[c] = h

----------------------------------------------------------------------------
(* claimRangeReservation: write the reservation, then take the time         *)

StartClaim(b, range) ==
    /\ pc[b] = "idle"
    /\ doc' = [doc EXCEPT ![b] = "holding"]
    /\ atoms' = [atoms EXCEPT ![b] = range]
    /\ pc' = [pc EXCEPT ![b] = "purge"]
    /\ UNCHANGED <<holder, expiresAt, todo, collided, converted, source, offer, clock>>

\* acceptRecommendation: pending, not past expiresAt and with every atom still
\* held, so claimRangeReservation is called with fromRecommendationId.
StartAccept(b, o) ==
    /\ pc[b] = "idle"
    /\ pc[o] = "granted"
    /\ offer[o] # "settled"
    /\ clock <= expiresAt[o]
    /\ HoldIntact(o)
    /\ doc' = [doc EXCEPT ![b] = "holding"]
    /\ atoms' = [atoms EXCEPT ![b] = atoms[o]]
    /\ todo' = [todo EXCEPT ![b] = atoms[o]]
    /\ source' = [source EXCEPT ![b] = o]
    /\ pc' = [pc EXCEPT ![b] = "convert"]
    /\ UNCHANGED <<holder, expiresAt, collided, converted, offer, clock>>

\* issueRecommendation writes the offer, then holdOccupancy takes the range.
Issue(o, range) ==
    /\ pc[o] = "idle"
    /\ clock + HoldTicks < MaxClock
    /\ atoms' = [atoms EXCEPT ![o] = range]
    /\ expiresAt' = [expiresAt EXCEPT ![o] = clock + HoldTicks]
    /\ pc' = [pc EXCEPT ![o] = "purge"]
    /\ UNCHANGED <<holder, todo, collided, converted, source, doc, offer, clock>>

\* Mutant: the purge before a claim forgets to test the expiry.
PurgeRangeOfHolds(h) ==
    /\ pc[h] = "purge"
    /\ holder' = Without({c \in atoms[h] : holder[c] \in Offers})
    /\ todo' = [todo EXCEPT ![h] = atoms[h]]
    /\ pc' = [pc EXCEPT ![h] = "insert"]
    /\ UNCHANGED <<expiresAt, atoms, collided, converted, source, doc, offer, clock>>

\* purgeLapsedHolds on this call's own range, before it inserts.
PurgeRange(h) ==
    /\ pc[h] = "purge"
    /\ holder' = Without({c \in atoms[h] : Lapsed(c)})
    /\ todo' = [todo EXCEPT ![h] = atoms[h]]
    /\ pc' = [pc EXCEPT ![h] = "insert"]
    /\ UNCHANGED <<expiresAt, atoms, collided, converted, source, doc, offer, clock>>

\* Mutant: only the last document's duplicate key is reported.
InsertRowForgets(h, c) ==
    LET lost == holder[c] # Nobody IN
    /\ pc[h] = "insert"
    /\ c \in todo[h]
    /\ holder' = [holder EXCEPT ![c] = IF @ = Nobody THEN h ELSE @]
    /\ todo' = [todo EXCEPT ![h] = @ \ {c}]
    /\ IF todo[h] = {c}
       THEN pc' = [pc EXCEPT ![h] = IF lost THEN "undo" ELSE "granted"]
       ELSE UNCHANGED pc
    /\ UNCHANGED <<expiresAt, atoms, collided, converted, source, doc, offer, clock>>

\* insertMany with ordered: false attempts every document, in any order, and a
\* duplicate key does not stop the rest.  The last attempt settles the call.
InsertRow(h, c) ==
    LET lost == collided[h] \/ holder[c] # Nobody IN
    /\ pc[h] = "insert"
    /\ c \in todo[h]
    /\ holder' = [holder EXCEPT ![c] = IF @ = Nobody THEN h ELSE @]
    /\ todo' = [todo EXCEPT ![h] = @ \ {c}]
    /\ IF todo[h] = {c}
       THEN /\ pc' = [pc EXCEPT ![h] = IF lost THEN "undo" ELSE "granted"]
            /\ collided' = [collided EXCEPT ![h] = FALSE]
       ELSE /\ collided' = [collided EXCEPT ![h] = lost]
            /\ UNCHANGED pc
    /\ UNCHANGED <<expiresAt, atoms, converted, source, doc, offer, clock>>

\* Mutant: modifiedCount is not compared with the atoms that were needed.
ConvertRowUncounted(b, c) ==
    /\ pc[b] = "convert"
    /\ c \in todo[b]
    /\ holder' = [holder EXCEPT ![c] = IF @ = source[b] THEN b ELSE @]
    /\ todo' = [todo EXCEPT ![b] = @ \ {c}]
    /\ pc' = IF todo[b] = {c} THEN [pc EXCEPT ![b] = "granted"] ELSE pc
    /\ UNCHANGED <<expiresAt, atoms, collided, converted, source, doc, offer, clock>>

\* convertHoldToBooking: an updateMany that rewrites one document at a time,
\* and only those that still name the offer.  modifiedCount is compared with
\* atomCountFor(durationMinutes): a shortfall is HOLD_LOST.
ConvertRow(b, c) ==
    LET rewritten == IF holder[c] = source[b] THEN converted[b] \cup {c}
                     ELSE converted[b] IN
    /\ pc[b] = "convert"
    /\ c \in todo[b]
    /\ holder' = [holder EXCEPT ![c] = IF @ = source[b] THEN b ELSE @]
    /\ todo' = [todo EXCEPT ![b] = @ \ {c}]
    /\ IF todo[b] = {c}
       THEN /\ pc' = [pc EXCEPT ![b] =
                        IF Cardinality(rewritten) # Cardinality(atoms[b])
                        THEN "undo" ELSE "granted"]
            /\ converted' = [converted EXCEPT ![b] = {}]
       ELSE /\ converted' = [converted EXCEPT ![b] = rewritten]
            /\ UNCHANGED pc
    /\ UNCHANGED <<expiresAt, atoms, collided, source, doc, offer, clock>>

\* Mutant: the duplicate key is reported with the inserted documents left, as
\* moveOccupancy does (occupancy.service.ts:335-342).
UndoNothing(h) ==
    /\ pc[h] = "undo"
    /\ pc' = [pc EXCEPT ![h] = IF h \in Bookings THEN "unbook" ELSE "refused"]
    /\ UNCHANGED <<holder, expiresAt, atoms, todo, collided, converted, source, doc,
                   offer, clock>>

\* Mutant: the cleanup deletes by range instead of by holder.
UndoRange(h) ==
    /\ pc[h] = "undo"
    /\ holder' = Without(atoms[h])
    /\ pc' = [pc EXCEPT ![h] = IF h \in Bookings THEN "unbook" ELSE "refused"]
    /\ UNCHANGED <<expiresAt, atoms, todo, collided, converted, source, doc, offer, clock>>

\* The catch blocks: everything tagged with this holder is deleted.
Undo(h) ==
    /\ pc[h] = "undo"
    /\ holder' = Without(RowsOf(h))
    /\ pc' = [pc EXCEPT ![h] = IF h \in Bookings THEN "unbook" ELSE "refused"]
    /\ UNCHANGED <<expiresAt, atoms, todo, collided, converted, source, doc, offer, clock>>

Unbook(b) ==
    /\ pc[b] = "unbook"
    /\ doc' = [doc EXCEPT ![b] = "none"]
    /\ pc' = [pc EXCEPT ![b] = "refused"]
    /\ UNCHANGED <<holder, expiresAt, atoms, todo, collided, converted, source,
                   offer, clock>>

----------------------------------------------------------------------------
(* Everything that gives time back                                          *)

\* Cancellation, expiry, no-show and the end of a session all save the
\* reservation first.  The document is visible from StartClaim on, so this can
\* happen while the claim is still inserting.
EndBooking(b) ==
    /\ doc[b] = "holding"
    /\ doc' = [doc EXCEPT ![b] = "ending"]
    /\ UNCHANGED <<holder, expiresAt, atoms, todo, collided, converted, source, pc,
                   offer, clock>>

ReleaseOccupancy(b) ==
    /\ doc[b] = "ending"
    /\ holder' = Without(RowsOf(b))
    /\ doc' = [doc EXCEPT ![b] = "ended"]
    /\ UNCHANGED <<expiresAt, atoms, todo, collided, converted, source, pc, offer, clock>>

\* retireRecommendation, for a rejected, superseded or expired offer: releaseHold
\* deletes the offer's documents first and its status is saved after.
ReleaseHold(o) ==
    /\ pc[o] \notin {"idle", "refused"}
    /\ offer' = [offer EXCEPT ![o] = IF @ = "pending" THEN "releasing" ELSE @]
    /\ holder' = Without(RowsOf(o))
    /\ UNCHANGED <<expiresAt, atoms, todo, collided, converted, source, pc, doc, clock>>

\* That save, or the one that marks the offer accepted.
SettleOffer(o) ==
    /\ \/ offer[o] = "releasing"
       \/ \E b \in Bookings : source[b] = o /\ pc[b] = "granted"
    /\ offer' = [offer EXCEPT ![o] = "settled"]
    /\ UNCHANGED <<holder, expiresAt, atoms, todo, collided, converted, source, pc, doc,
                   clock>>

\* sweepExpiredRecommendations flips the status before it releases the hold.
ExpireOffer(o) ==
    /\ pc[o] \notin {"idle", "refused"}
    /\ offer[o] # "settled"
    /\ expiresAt[o] < clock
    /\ offer' = [offer EXCEPT ![o] = "settled"]
    /\ UNCHANGED <<holder, expiresAt, atoms, todo, collided, converted, source, pc, doc,
                   clock>>

\* Mutant: the sweep only purges offers that are still pending.
SweepPendingOnly ==
    /\ \E c \in Cells : Lapsed(c) /\ offer[holder[c]] # "settled"
    /\ holder' = Without({c \in Cells : Lapsed(c) /\ offer[holder[c]] # "settled"})
    /\ UNCHANGED <<expiresAt, atoms, todo, collided, converted, source, pc, doc,
                   offer, clock>>

\* The unscoped purgeLapsedHolds at the end of sweepExpiredRecommendations.
SweepLapsedHolds ==
    /\ \E c \in Cells : Lapsed(c)
    /\ holder' = Without({c \in Cells : Lapsed(c)})
    /\ UNCHANGED <<expiresAt, atoms, todo, collided, converted, source, pc, doc,
                   offer, clock>>

\* The process serving the call dies, or (second action) dies between saving
\* the ended reservation and releasing its time.
Crash(h) ==
    /\ pc[h] \in {"purge", "insert", "convert", "undo", "unbook"}
    /\ pc' = [pc EXCEPT ![h] = "crashed"]
    /\ todo' = [todo EXCEPT ![h] = {}]
    /\ collided' = [collided EXCEPT ![h] = FALSE]
    /\ converted' = [b \in Bookings |-> IF b = h THEN {} ELSE converted[b]]
    /\ UNCHANGED <<holder, expiresAt, atoms, source, doc, offer, clock>>

CrashBeforeRelease(b) ==
    /\ doc[b] = "ending"
    /\ doc' = [doc EXCEPT ![b] = "ended"]
    /\ UNCHANGED <<holder, expiresAt, atoms, todo, collided, converted, source, pc,
                   offer, clock>>

Tick ==
    /\ clock < MaxClock
    /\ clock' = clock + 1
    /\ UNCHANGED <<holder, expiresAt, atoms, todo, collided, converted, source, pc, doc,
                   offer>>

----------------------------------------------------------------------------

BookingStep(b) ==
    \/ \E range \in Ranges : StartClaim(b, range)
    \/ \E o \in Offers : StartAccept(b, o)
    \/ \E c \in Cells : ConvertRow(b, c)
    \/ Unbook(b)
    \/ EndBooking(b)
    \/ ReleaseOccupancy(b)
    \/ CrashBeforeRelease(b)

OfferStep(o) ==
    \/ \E range \in Ranges : Issue(o, range)
    \/ ReleaseHold(o)
    \/ SettleOffer(o)
    \/ ExpireOffer(o)

ClaimStep(h) ==
    \/ PurgeRange(h)
    \/ \E c \in Cells : InsertRow(h, c)
    \/ Undo(h)
    \/ Crash(h)

Next ==
    \/ \E b \in Bookings : BookingStep(b)
    \/ \E o \in Offers : OfferStep(o)
    \/ \E h \in Holders : ClaimStep(h)
    \/ SweepLapsedHolds
    \/ Tick

Spec == Init /\ [][Next]_vars

\* Time passes, and ops:sweep-recommendations runs on a schedule.  Nothing
\* else is assumed: a driver may never answer and a call may die.
FairSpec == Spec /\ WF_vars(Tick) /\ WF_vars(SweepLapsedHolds)
----------------------------------------------------------------------------
(* Properties                                                               *)

Confirmed(b) == pc[b] = "granted" /\ doc[b] = "holding"

\* A reservation whose claim returned holds every atom of its range until it
\* is ended: no purge, sweep, failed rival, other acceptance or retired offer
\* takes a document of a live reservation (occupancy.service.ts:58-62).
FirmLease == \A b \in Bookings : Confirmed(b) => Intact(b)

\* Charger time is never sold twice: two live reservations share no atom
\* ("a partial lease is a double booking waiting to be reported", 258-259).
NoDoubleSale ==
    \A b1, b2 \in Bookings :
        b1 # b2 /\ Confirmed(b1) /\ Confirmed(b2) => atoms[b1] \cap atoms[b2] = {}

\* An offer that was made, not retired, not past its window and that nobody
\* has begun to accept still owns all of its range, whatever rivals claim.
HoldHonoured ==
    \A o \in Offers :
        /\ pc[o] = "granted"
        /\ offer[o] = "pending"
        /\ clock <= expiresAt[o]
        /\ \A b \in Bookings : source[b] # o
        => Intact(o)

\* "Accepting an offer cannot lose a race" (booking.service.ts:1178-1179): an
\* acceptance ends in HOLD_LOST only if the offer was retired or lapsed under
\* it, a second acceptance of the same offer split it, or the reservation was
\* itself ended half way.
AcceptCannotLose ==
    \A b \in Bookings :
        /\ source[b] # Nobody
        /\ pc[b] \in {"undo", "unbook", "refused"}
        /\ doc[b] \in {"none", "holding"}
        => \/ offer[source[b]] # "pending"
           \/ expiresAt[source[b]] < clock
           \/ \E other \in Bookings \ {b} : source[other] = source[b]

\* A refused claim leaves no partial lease behind, although every document of
\* it was inserted on its own and the rivals interleaved (81-96).
NoPartialLease ==
    \A h \in Holders : pc[h] \in {"unbook", "refused"} => RowsOf(h) = {}

\* A provisional hold cannot freeze inventory: whatever happens to its offer
\* and to the process that took it, its documents are converted or reclaimed.
HoldsAreReclaimed == \A o \in Offers : RowsOf(o) # {} ~> RowsOf(o) = {}

\* The strengthening that makes FirmLease and HoldHonoured inductive: what is
\* true of a claim at every one of its writes.
Undisturbed(h) ==
    IF h \in Bookings THEN doc[h] = "holding" ELSE offer[h] = "pending" /\ clock <= expiresAt[h]

RowsBelong ==
    \A c \in Cells, h \in Holders :
        holder[c] = h => /\ c \in atoms[h]
                         /\ pc[h] \notin {"idle", "purge", "unbook", "refused"}

CallsAreWellFormed ==
    /\ \A h \in Holders : /\ todo[h] \subseteq atoms[h]
                          /\ pc[h] # "idle" => atoms[h] \in Ranges
                          /\ pc[h] = "idle" => todo[h] = {}
                          /\ pc[h] \in {"insert", "convert"} => todo[h] # {}
    /\ \A b \in Bookings : /\ pc[b] = "idle" => doc[b] = "none"
                           /\ pc[b] = "refused" => doc[b] # "holding"
                           /\ pc[b] = "idle" => source[b] = Nobody
                           /\ pc[b] = "convert" => source[b] \in Offers
                           /\ pc[b] # "convert" => converted[b] = {}
                           /\ source[b] # Nobody => pc[source[b]] = "granted"
    /\ \A o \in Offers : pc[o] \notin {"convert", "unbook"}

InsertProgress ==
    \A h \in Holders :
        pc[h] = "insert" /\ ~collided[h] /\ Undisturbed(h) =>
            \A c \in atoms[h] \ todo[h] : holder[c] = h

ConvertProgress ==
    \A b \in Bookings :
        pc[b] = "convert" =>
            /\ converted[b] \subseteq atoms[b] \ todo[b]
            /\ doc[b] = "holding" => \A c \in converted[b] : holder[c] = b

LeaseInv ==
    /\ TypeOK
    /\ RowsBelong
    /\ CallsAreWellFormed
    /\ InsertProgress
    /\ ConvertProgress
    /\ FirmLease
    /\ HoldHonoured

\* The abstract lease of a holder.  An offer keeps its range, as a whole,
\* while reservations are rewriting its documents one by one.
OwnedForOffer(o, c) ==
    \/ holder[c] = o
    \/ holder[c] \in Bookings /\ source[holder[c]] = o /\ pc[holder[c]] = "convert"

LeaseOf(h) ==
    IF h \in Bookings
    THEN IF Confirmed(h) THEN atoms[h] ELSE {}
    ELSE IF pc[h] = "granted" /\ \A c \in atoms[h] : OwnedForOffer(h, c)
         THEN atoms[h] ELSE {}

Lease == INSTANCE ChargerLease WITH lease <- [h \in Holders |-> LeaseOf(h)]

\* Per-document writes, unordered inserts, compensating deletes and crashes
\* implement an atomic all-or-nothing range lease.
ImplementsLease == Lease!Spec
=============================================================================
