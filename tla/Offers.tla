------------------------------- MODULE Offers -------------------------------
(***************************************************************************)
(* The offers made for one reservation request: recommendation.service.ts  *)
(* (issue, accept, reject, retire, sweep), the request it moves along      *)
(* (reservationRequest.service.ts) and the optimizer pass that calls it    *)
(* (optimization/runner.ts).                                               *)
(*                                                                         *)
(* Every await of a handler is a point where the others run.  A handler    *)
(* keeps the documents it loaded: save() updates by _id the fields that    *)
(* differ from what was loaded.  Charger time is taken, handed over and    *)
(* given back by the actions of ChargerLease, which module Occupancy       *)
(* implements.                                                             *)
(***************************************************************************)
EXTENDS Naturals, FiniteSets

CONSTANTS Passes,    \* optimizer passes, numbered as they begin, each making at most
                     \* one offer: the offer's id
          Replies,   \* calls of the customer: accept, reject, cancel, pick
          Sweeper,   \* the scheduled sweepExpiredRecommendations
          Bays,      \* the ranges an offer or a pick may take
          MaxOffers, \* MAX_OFFERS_PER_REQUEST
          Overlap,   \* bound on the handlers in flight at one time
          Mortal,    \* the handlers that may die half way
          None

ASSUME HandlersAreDistinct ==
    /\ Passes \cap Replies = {}
    /\ Sweeper \notin Passes \cup Replies
    /\ None \notin Passes \cup Replies

ASSUME PassesAreNumbered == Passes \subseteq Nat

ASSUME CapIsNatural == MaxOffers \in Nat

Handlers == Passes \cup Replies \cup {Sweeper}

VARIABLES
    request,   \* status of the ReservationRequest
    active,    \* its activeRecommendationId
    count,     \* its recommendationCount
    fulfilled, \* its fulfilledBookingId: the reply that made the reservation
    status,    \* status of each Recommendation
    lapsed,    \* now is past its expiresAt
    accepted,  \* its bookingId
    strayed,   \* offers under which a late answer to another reopened the request
    lease,     \* the ranges offers hold and reservations own
    call,      \* each handler: where it stands and what it has loaded
    serial     \* no two handlers have overlapped, and none has died, so far

requestDoc == <<request, active, count, fulfilled>>
offerDocs == <<status, lapsed, accepted, strayed>>
vars == <<requestDoc, offerDocs, lease, call, serial>>

Lease == INSTANCE ChargerLease WITH Bookings <- Replies, Offers <- Passes, Cells <- Bays

Active == {"OPEN", "WAITLISTED"}
Closed == {"FULFILLED", "EXPIRED", "CANCELLED"}
RequestStates == Active \cup Closed \cup {"PENDING"}
OfferStates == {"none", "PENDING", "ACCEPTED", "REJECTED", "EXPIRED", "SUPERSEDED", "deleted"}
Steps == {"idle", "waitlist", "load", "count", "find", "create", "hold", "remove", "save",
          "retire", "mark", "reopen", "request", "held", "convert", "accept", "fulfil",
          "live", "cancel", "claim", "flip", "done"}

\* A handler: the step it is at; status, activeRecommendationId and count of
\* the request document it loaded; the offer it is about and the status it
\* loaded for it; the offers it has still to retire, as what, and then what.
Calls == [at : Steps, status : RequestStates, active : Passes \cup {None},
          count : 0..MaxOffers, offer : Passes \cup {None},
          seen : OfferStates \cup {"LATE"}, todo : SUBSET Passes,
          verdict : OfferStates, then : Steps]

Fresh == [at |-> "idle", status |-> "OPEN", active |-> None, count |-> 0, offer |-> None,
          seen |-> "none", todo |-> {}, verdict |-> "none", then |-> "done"]

TypeOK ==
    /\ request \in RequestStates
    /\ active \in Passes \cup {None}
    /\ count \in 0..MaxOffers
    /\ fulfilled \in Replies \cup {None}
    /\ status \in [Passes -> OfferStates]
    /\ lapsed \in [Passes -> BOOLEAN]
    /\ accepted \in [Passes -> Replies \cup {None}]
    /\ strayed \subseteq Passes
    /\ Lease!TypeOK
    /\ DOMAIN call = Handlers /\ \A h \in Handlers : call[h] \in Calls
    /\ serial \in BOOLEAN

Init ==
    /\ request = "OPEN" /\ active = None /\ count = 0 /\ fulfilled = None
    /\ status = [o \in Passes |-> "none"]
    /\ lapsed = [o \in Passes |-> FALSE]
    /\ accepted = [o \in Passes |-> None]
    /\ strayed = {}
    /\ Lease!Init
    /\ call = [h \in Handlers |-> Fresh]
    /\ serial = TRUE

----------------------------------------------------------------------------
(* Control of a handler                                                     *)

At(h, step) == call[h].at = step

InFlight(h) == call[h].at \notin {"idle", "done"}
Busy == {h \in Handlers : InFlight(h)}

\* A handler that returns forgets what it loaded; the sweep is run again.
Goto(h, step) ==
    call' = [call EXCEPT ![h] = IF step # "done" THEN [@ EXCEPT !.at = step]
                                ELSE IF h = Sweeper THEN Fresh ELSE [Fresh EXCEPT !.at = step]]

Begin(h, with) ==
    /\ At(h, "idle")
    /\ Cardinality(Busy) < Overlap
    /\ call' = [call EXCEPT ![h] = with]
    /\ serial' = (serial /\ Busy = {})

\* From here h retires these offers, loaded with status `was`, one by one.
RetireThese(h, offers, was, as) ==
    call' = [call EXCEPT ![h] = [@ EXCEPT !.at = "retire", !.todo = offers, !.seen = was,
                                          !.verdict = as]]

Loaded(c, step) == [c EXCEPT !.at = step, !.status = request, !.active = active, !.count = count]

----------------------------------------------------------------------------
(* retireRecommendation and reopenRequest                                   *)

Release(h, o) ==
    /\ At(h, "retire")
    /\ o \in call[h].todo
    /\ Lease!Release({o})
    /\ call' = [call EXCEPT ![h] = [@ EXCEPT !.at = "mark", !.offer = o,
                                          !.todo = call[h].todo \ {o}]]
    /\ UNCHANGED <<requestDoc, offerDocs, serial>>

\* The status is written if it differs from the one loaded.  A document deleted
\* meanwhile makes save() throw, which ends the handler.
Mark(h) ==
    LET c == call[h] IN
    /\ At(h, "mark")
    /\ IF status[c.offer] = "deleted"
       THEN Goto(h, "done") /\ UNCHANGED status
       ELSE /\ status' = IF c.seen = c.verdict THEN status
                         ELSE [status EXCEPT ![c.offer] = c.verdict]
            /\ Goto(h, IF c.verdict = "SUPERSEDED" THEN c.then ELSE "reopen")
    /\ UNCHANGED <<requestDoc, lapsed, accepted, strayed, lease, serial>>

\* The offer the request names, when the answer that reopens it is about another:
\* it stays live, and nothing names it any more.
Stray(h) ==
    IF request = "PENDING" /\ active \notin {None, call[h].offer} THEN {active} ELSE {}

\* Mutant of Reopen: it forgets a request that was never waitlisted.
ReopenWaitlisted(h) ==
    /\ At(h, "reopen")
    /\ IF request = "WAITLISTED" THEN request' = "OPEN" /\ active' = None
       ELSE UNCHANGED <<request, active>>
    /\ Goto(h, IF call[h].todo = {} THEN call[h].then ELSE "retire")
    /\ UNCHANGED <<count, fulfilled, offerDocs, lease, serial>>

\* findOneAndUpdate on the request's status, whichever offer it names.
Reopen(h) ==
    /\ At(h, "reopen")
    /\ IF request \in {"PENDING", "WAITLISTED"}
       THEN request' = "OPEN" /\ active' = None
       ELSE UNCHANGED <<request, active>>
    /\ strayed' = strayed \cup Stray(h)
    /\ Goto(h, IF call[h].todo = {} THEN call[h].then ELSE "retire")
    /\ UNCHANGED <<count, fulfilled, status, lapsed, accepted, lease, serial>>

----------------------------------------------------------------------------
(* runOptimization for this request: issueRecommendation or waitlistRequest *)

\* The snapshot takes requests that are OPEN or WAITLISTED; the plan either
\* places this one or does not.
Plan(p) ==
    /\ request \in Active
    /\ \A earlier \in Passes : earlier < p => ~At(earlier, "idle")
    /\ \E step \in {"load", "waitlist"} : Begin(p, [Fresh EXCEPT !.at = step])
    /\ UNCHANGED <<requestDoc, offerDocs, lease>>

Waitlist(p) ==
    /\ At(p, "waitlist")
    /\ IF request \in Active \cup {"PENDING"}
       THEN request' = "WAITLISTED" /\ active' = None
       ELSE UNCHANGED <<request, active>>
    /\ Goto(p, "done")
    /\ UNCHANGED <<count, fulfilled, offerDocs, lease, serial>>

\* Mutant of LoadRequest: the cap is off by one.
LoadRequestOver(p) ==
    /\ At(p, "load")
    /\ IF count > MaxOffers THEN Goto(p, "done")
       ELSE call' = [call EXCEPT ![p] = Loaded(@, "count")]
    /\ UNCHANGED <<requestDoc, offerDocs, lease, serial>>

LoadRequest(p) ==
    /\ At(p, "load")
    /\ IF count >= MaxOffers THEN Goto(p, "done")
       ELSE call' = [call EXCEPT ![p] = Loaded(@, "count")]
    /\ UNCHANGED <<requestDoc, offerDocs, lease, serial>>

Live(o) == status[o] = "PENDING" /\ ~lapsed[o]

\* Mutant of CountLive: the live offer is always taken for the one replaced.
CountLiveAsOwn(p) ==
    LET own == IF call[p].active = None THEN 0 ELSE 1 IN
    /\ At(p, "count")
    /\ Goto(p, IF Cardinality({o \in Passes : Live(o)}) >= 2 THEN "done"
               ELSE IF own = 0 THEN "create" ELSE "find")
    /\ UNCHANGED <<requestDoc, offerDocs, lease, serial>>

\* One live offer per customer, not counting the one about to be replaced.
CountLive(p) ==
    LET own == IF call[p].active = None THEN 0 ELSE 1 IN
    /\ At(p, "count")
    /\ Goto(p, IF Cardinality({o \in Passes : Live(o)}) >= 1 + own THEN "done"
               ELSE IF own = 0 THEN "create" ELSE "find")
    /\ UNCHANGED <<requestDoc, offerDocs, lease, serial>>

\* supersedeRecommendation: nothing to do unless the old offer is pending.
FindOld(p) ==
    LET old == call[p].active IN
    /\ At(p, "find")
    /\ call' = [call EXCEPT ![p] =
                  IF status[old] = "PENDING"
                  THEN [@ EXCEPT !.at = "retire", !.todo = {old}, !.seen = "PENDING",
                                 !.verdict = "SUPERSEDED", !.then = "create"]
                  ELSE [@ EXCEPT !.at = "create"]]
    /\ UNCHANGED <<requestDoc, offerDocs, lease, serial>>

\* Document first, capacity second.
Create(p) ==
    /\ At(p, "create")
    /\ status' = [status EXCEPT ![p] = "PENDING"]
    /\ Goto(p, "hold")
    /\ UNCHANGED <<requestDoc, lapsed, accepted, strayed, lease, serial>>

Hold(p) ==
    /\ At(p, "hold")
    /\ \E bay \in Bays : Lease!Acquire(p, {bay})
    /\ Goto(p, "save")
    /\ UNCHANGED <<requestDoc, offerDocs, serial>>

\* Another driver holds part of the range: the offer is taken back.
HoldFails(p) ==
    /\ At(p, "hold")
    /\ Goto(p, "remove")
    /\ UNCHANGED <<requestDoc, offerDocs, lease, serial>>

RemoveOffer(p) ==
    /\ At(p, "remove")
    /\ status' = [status EXCEPT ![p] = "deleted"]
    /\ Goto(p, "done")
    /\ UNCHANGED <<requestDoc, lapsed, accepted, strayed, lease, serial>>

\* Mutant of SaveOffer: the offer is not counted.
SaveOfferUncounted(p) ==
    /\ At(p, "save")
    /\ request' = IF call[p].status = "PENDING" THEN request ELSE "PENDING"
    /\ active' = p
    /\ Goto(p, "done")
    /\ UNCHANGED <<count, fulfilled, offerDocs, lease, serial>>

SaveOffer(p) ==
    /\ At(p, "save")
    /\ request' = IF call[p].status = "PENDING" THEN request ELSE "PENDING"
    /\ active' = p
    /\ count' = call[p].count + 1
    /\ Goto(p, "done")
    /\ UNCHANGED <<fulfilled, offerDocs, lease, serial>>

----------------------------------------------------------------------------
(* acceptRecommendation                                                     *)

Offered(o) == status[o] \notin {"none", "deleted"}

\* The offer is loaded, and found late or not by the clock at entry.  A reply
\* that retires it asks for a new pass before it returns (reoptimizeFor): that
\* pass is a Plan, which may begin at any time.
Accept(r, o) ==
    /\ Offered(o)
    /\ Begin(r, [Fresh EXCEPT !.at = "request", !.offer = o,
                              !.seen = IF status[o] = "PENDING" /\ lapsed[o] THEN "LATE"
                                       ELSE status[o]])
    /\ UNCHANGED <<requestDoc, offerDocs, lease>>

\* Mutant of ReadRequest: a declined offer is treated like a lapsed one.
ReadRequestAnyway(r) ==
    LET was == call[r].seen IN
    /\ At(r, "request")
    /\ \/ /\ was = "ACCEPTED"
          /\ Goto(r, "done")
       \/ /\ was = "PENDING"
          /\ call' = [call EXCEPT ![r] = Loaded(@, "held")]
       \/ /\ was \in {"EXPIRED", "SUPERSEDED", "LATE", "REJECTED"}
          /\ RetireThese(r, {call[r].offer}, was, "EXPIRED")
    /\ UNCHANGED <<requestDoc, offerDocs, lease, serial>>

\* The request is loaded, and the offer answered: already accepted, declined,
\* no longer live, or to be converted.
ReadRequest(r) ==
    LET was == call[r].seen IN
    /\ At(r, "request")
    /\ \/ /\ was \in {"ACCEPTED", "REJECTED"}
          /\ Goto(r, "done")
       \/ /\ was = "PENDING"
          /\ call' = [call EXCEPT ![r] = Loaded(@, "held")]
       \/ /\ was \in {"EXPIRED", "SUPERSEDED", "LATE"}
          /\ RetireThese(r, {call[r].offer}, was, "EXPIRED")
    /\ UNCHANGED <<requestDoc, offerDocs, lease, serial>>

CountHeld(r) ==
    /\ At(r, "held")
    /\ IF lease[call[r].offer] = {}
       THEN RetireThese(r, {call[r].offer}, "PENDING", "EXPIRED")
       ELSE Goto(r, "convert")
    /\ UNCHANGED <<requestDoc, offerDocs, lease, serial>>

\* Mutant of Convert: the reservation's documents are added, the hold stays.
ConvertKeepsHold(r) ==
    /\ At(r, "convert")
    /\ lease[call[r].offer] # {}
    /\ lease' = [lease EXCEPT ![r] = lease[call[r].offer]]
    /\ Goto(r, "accept")
    /\ UNCHANGED <<requestDoc, offerDocs, serial>>

Convert(r) ==
    /\ At(r, "convert")
    /\ Lease!Transfer(call[r].offer, r)
    /\ Goto(r, "accept")
    /\ UNCHANGED <<requestDoc, offerDocs, serial>>

\* HOLD_LOST: the hold is gone, or two conversions of it split its documents
\* and each gives up its part.
ConvertLost(r) ==
    LET o == call[r].offer IN
    /\ At(r, "convert")
    /\ \/ lease[o] = {}
       \/ \E other \in Replies \ {r} : At(other, "convert") /\ call[other].offer = o
    /\ Lease!Release({o})
    /\ RetireThese(r, {o}, "PENDING", "EXPIRED")
    /\ UNCHANGED <<requestDoc, offerDocs, serial>>

\* claimRangeReservation refuses before it writes: the charger left service,
\* the start passed, the vehicle changed.
ConvertRefused(r) ==
    /\ At(r, "convert")
    /\ Goto(r, "done")
    /\ UNCHANGED <<requestDoc, offerDocs, lease, serial>>

MarkAccepted(r) ==
    /\ At(r, "accept")
    /\ status' = [status EXCEPT ![call[r].offer] = "ACCEPTED"]
    /\ accepted' = [accepted EXCEPT ![call[r].offer] = r]
    /\ Goto(r, "fulfil")
    /\ UNCHANGED <<requestDoc, lapsed, strayed, lease, serial>>

\* Also the end of fulfillRequest.
Fulfil(r) ==
    /\ At(r, "fulfil")
    /\ request' = IF call[r].status = "FULFILLED" THEN request ELSE "FULFILLED"
    /\ active' = IF call[r].active = None THEN active ELSE None
    /\ fulfilled' = r
    /\ Goto(r, "done")
    /\ UNCHANGED <<count, offerDocs, lease, serial>>

----------------------------------------------------------------------------
(* rejectRecommendation, cancelRequest, fulfillRequest                      *)

\* A repeated decline and a decline of an accepted offer change nothing.
Reject(r, o) ==
    /\ Offered(o)
    /\ status[o] \notin {"REJECTED", "ACCEPTED"}
    /\ Begin(r, [Fresh EXCEPT !.at = "retire", !.todo = {o}, !.seen = status[o],
                              !.verdict = "REJECTED"])
    /\ UNCHANGED <<requestDoc, offerDocs, lease>>

\* Mutant of Withdraw: the live offer is not released first.
WithdrawKeepsOffer(r, then) ==
    /\ request \in Active \cup {"PENDING"}
    /\ Begin(r, Loaded([Fresh EXCEPT !.then = then], then))
    /\ UNCHANGED <<requestDoc, offerDocs, lease>>

\* Both load the request, and retire its offers only if it names one.
Withdraw(r, then) ==
    /\ request \in Active \cup {"PENDING"}
    /\ Begin(r, Loaded([Fresh EXCEPT !.then = then], IF active = None THEN then ELSE "live"))
    /\ UNCHANGED <<requestDoc, offerDocs, lease>>

CancelRequest(r) == Withdraw(r, "cancel")
PickInterval(r) == Withdraw(r, "claim")

\* releaseActiveRecommendation
FindLive(r) ==
    LET live == {o \in Passes : status[o] = "PENDING"} IN
    /\ At(r, "live")
    /\ IF live = {} THEN Goto(r, call[r].then)
       ELSE RetireThese(r, live, "PENDING", "REJECTED")
    /\ UNCHANGED <<requestDoc, offerDocs, lease, serial>>

SaveCancelled(r) ==
    /\ At(r, "cancel")
    /\ request' = "CANCELLED"
    /\ active' = IF call[r].active = None THEN active ELSE None
    /\ Goto(r, "done")
    /\ UNCHANGED <<count, fulfilled, offerDocs, lease, serial>>

Claim(r) ==
    /\ At(r, "claim")
    /\ \E bay \in Bays : Lease!Acquire(r, {bay})
    /\ Goto(r, "fulfil")
    /\ UNCHANGED <<requestDoc, offerDocs, serial>>

\* Mutant of ClaimFails: the request is fulfilled whatever the claim returned.
ClaimFailsUnnoticed(r) ==
    /\ At(r, "claim")
    /\ Goto(r, "fulfil")
    /\ UNCHANGED <<requestDoc, offerDocs, lease, serial>>

ClaimFails(r) ==
    /\ At(r, "claim")
    /\ Goto(r, "done")
    /\ UNCHANGED <<requestDoc, offerDocs, lease, serial>>

----------------------------------------------------------------------------
(* Time, the sweeps, and crashes                                            *)

Lapse(o) ==
    /\ ~lapsed[o]
    /\ status[o] = "PENDING" \/ lease[o] # {}
    /\ lapsed' = [lapsed EXCEPT ![o] = TRUE]
    /\ UNCHANGED <<requestDoc, status, accepted, strayed, lease, call, serial>>

\* Any claim of the range, and the sweep itself, purges a lapsed hold.
PurgeLapsed(o) ==
    /\ lapsed[o]
    /\ lease[o] # {}
    /\ Lease!Release({o})
    /\ UNCHANGED <<requestDoc, offerDocs, call, serial>>

\* Mutant of FindStale: only offers that still hold something are expired.
FindStaleHeld(o) ==
    /\ status[o] = "PENDING"
    /\ lapsed[o]
    /\ lease[o] # {}
    /\ Begin(Sweeper, [Fresh EXCEPT !.at = "flip", !.offer = o])
    /\ UNCHANGED <<requestDoc, offerDocs, lease>>

FindStale(o) ==
    /\ status[o] = "PENDING"
    /\ lapsed[o]
    /\ Begin(Sweeper, [Fresh EXCEPT !.at = "flip", !.offer = o])
    /\ UNCHANGED <<requestDoc, offerDocs, lease>>

\* findOneAndUpdate on the offer's status, then the same retirement.
Flip ==
    LET o == call[Sweeper].offer IN
    /\ At(Sweeper, "flip")
    /\ IF status[o] = "PENDING"
       THEN /\ status' = [status EXCEPT ![o] = "EXPIRED"]
            /\ RetireThese(Sweeper, {o}, "PENDING", "EXPIRED")
       ELSE Goto(Sweeper, "done") /\ UNCHANGED status
    /\ UNCHANGED <<requestDoc, lapsed, accepted, strayed, lease, serial>>

\* expireRequests: one conditional update.
ExpireRequest ==
    /\ request \in Active
    /\ request' = "EXPIRED"
    /\ UNCHANGED <<active, count, fulfilled, offerDocs, lease, call, serial>>

Crash(h) ==
    /\ h \in Mortal
    /\ InFlight(h)
    /\ Goto(h, "done")
    /\ serial' = FALSE
    /\ UNCHANGED <<requestDoc, offerDocs, lease>>

----------------------------------------------------------------------------

Retiring(h) == (\E o \in Passes : Release(h, o)) \/ Mark(h) \/ Reopen(h)

Passing(p) ==
    \/ Waitlist(p) \/ LoadRequest(p) \/ CountLive(p) \/ FindOld(p) \/ Create(p)
    \/ Hold(p) \/ HoldFails(p) \/ RemoveOffer(p) \/ SaveOffer(p)

Replying(r) ==
    \/ ReadRequest(r) \/ CountHeld(r) \/ Convert(r) \/ ConvertLost(r) \/ ConvertRefused(r)
    \/ MarkAccepted(r) \/ Fulfil(r) \/ FindLive(r) \/ SaveCancelled(r)
    \/ Claim(r) \/ ClaimFails(r)

Begins(r) ==
    \/ \E o \in Passes : Accept(r, o) \/ Reject(r, o)
    \/ CancelRequest(r)
    \/ PickInterval(r)

Next ==
    \/ \E p \in Passes : Plan(p) \/ Passing(p)
    \/ \E r \in Replies : Begins(r) \/ Replying(r)
    \/ \E h \in Handlers : Retiring(h) \/ Crash(h)
    \/ \E o \in Passes : Lapse(o) \/ PurgeLapsed(o) \/ FindStale(o)
    \/ Flip
    \/ ExpireRequest

Spec == Init /\ [][Next]_vars

\* Time passes, ops:sweep-recommendations is scheduled, and a handler that was
\* entered runs on.  The customer and the optimizer owe nothing.
FairSpec ==
    /\ Spec
    /\ \A o \in Passes : WF_vars(Lapse(o)) /\ WF_vars(FindStale(o))
    /\ WF_vars(Flip)
    /\ \A p \in Passes : WF_vars(Passing(p))
    /\ \A r \in Replies : WF_vars(Replying(r))
    /\ \A h \in Handlers : WF_vars(Retiring(h))

----------------------------------------------------------------------------
(* Properties                                                               *)

\* The replies that turned offer o into a reservation.
Takers(o) ==
    {r \in Replies :
        \/ r = accepted[o]
        \/ call[r].offer = o /\ call[r].then # "claim" /\ call[r].at \in {"accept", "fulfil"}}

\* "A double tap on a slow connection must not produce a second reservation
\* for the same offer" (recommendation.service.ts:243-244): however two
\* acceptances interleave with each other, the sweep and a crash, one hold
\* becomes at most one reservation.
OneReservationPerOffer == \A o \in Passes : Cardinality(Takers(o)) <= 1

\* An offer or a request that names a reservation names one that owns charger
\* time, also after late saves and crashes (reservationRequest.service.ts:303).
ReservationsAreBacked ==
    /\ \A o \in Passes : accepted[o] # None => lease[accepted[o]] # {}
    /\ request = "FULFILLED" => fulfilled # None
    /\ fulfilled # None => lease[fulfilled] # {}

\* As long as handlers take turns, one customer is offered one bay at a time,
\* also when an answer to an old offer has reopened the request under a newer
\* one (recommendation.service.ts:104-114).
OneLiveOffer == serial => Cardinality({o \in Passes : Live(o) /\ lease[o] # {}}) <= 1

\* As long as handlers take turns, no request is left "frozen behind a dead
\* offer" (recommendation.service.ts:25): at rest, a pending request names an
\* offer that is pending too.
PendingIsOffered ==
    serial /\ Busy = {} /\ request = "PENDING" => active # None /\ status[active] = "PENDING"

\* As long as handlers take turns, a request is "PENDING_ACCEPTANCE for exactly
\* as long as one of its offers holds capacity" (recommendation.service.ts:25):
\* at rest, a live offer is the one a pending request names, so a request that
\* was cancelled, picked for, fulfilled, waitlisted or expired has none left to
\* accept.  The one exception is an offer whose request a late answer to another
\* offer has reopened: reopenRequest does not ask which one
\* (reservationRequest.service.ts:507).
LiveOfferIsNamed ==
    serial /\ Busy = {} =>
        \A o \in Passes : Live(o) => o \in strayed \/ (request = "PENDING" /\ active = o)

\* As long as handlers take turns, expire, reopen, offer and expire again ends
\* at the cap (recommendation.service.ts:98-102).
CapRespected == serial => Cardinality({o \in Passes : Offered(o)}) <= MaxOffers

\* "A declined offer is a decision, not a lapse" (recommendation.service.ts:251):
\* accepting it, sweeping it or closing the request afterwards does not undo it.
RejectionStands ==
    [][serial => \A o \in Passes : status[o] = "REJECTED" => status'[o] = "REJECTED"]_vars

\* The sweep brings every pending request back into the pool or sees it closed,
\* whatever the customer does, also when the hold was purged by someone else,
\* unless handlers overlap or die.
PendingEnds == request = "PENDING" /\ serial ~> request # "PENDING" \/ ~serial

=============================================================================
