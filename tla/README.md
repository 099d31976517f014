# EVCharging-System: a TLA+ verification of the reservation core

The backend (`src/backend/src`, Next.js handlers over MongoDB) sells charger time. A driver
reserves a range of 15-minute *atoms* on a charger (or, on the older path, a published interval, a
*slot*), pays a deposit inside a window, checks in, charges, perhaps asks for more time, and leaves;
a driver without a fixed time files a *request*, for which an optimizer makes *offers* that hold time
provisionally, again whenever time is freed. Incidents take chargers out of service, and the delay
they cause is propagated through the queue behind them. Everything is one Node process or several,
with no lock between them: two HTTP handlers, a webhook, a driver's double tap and the `ops:*`
scripts interleave at every `await`, and apart from the no-show sweep no operation that
writes several documents is a transaction. What keeps the data right are unique indexes, a few
conditional updates, document versions, and the order in which documents are written. That is what
this project models.

In the first part of this file: the system, what can go wrong in it, and which module models
what. Then the runs with their bounds and fairness, the proofs, the disagreements found between
comments and code, what is left out, and what could come next.

Paths below are relative to `src/backend/src`; `occ`, `bk`, `com`, `rec`, `req`, `ext`, `inc`,
`delay` and `move` stand for `services/` `occupancy`, `booking`, `commitment`, `recommendation`,
`reservationRequest`, `extension`, `incident`, `delayPropagation` and
`reservationMove.service.ts`, `consumer` for `services/optimization/consumer.ts`.

## 1. The system

### Components

| component | state | operations | talks to |
|---|---|---|---|
| occupancy lease (occ) | `reservationoccupancy`: one document per (charger, atom), unique index, `bookingId` or `recommendationId` + `holdExpiresAt` | claim, hold, convert, release, purge, move, count | called by all of the below |
| reservation claim and end (bk) | `Booking` (`status` and `lifecycle`, deposit fields, stamps) | claim by range or slot, cancel, complete, no-show | occ, com, `Slot`, event log |
| charging session and no-show (bk) | the same document | checkIn, startCharging, endCharging, sweepNoShows | occ, overstay |
| commitment (com) | `PaymentIntent`, `Refund`, deposit fields of the booking | open, confirm, gateway verdict, expiry sweep, settlement | gateway, occ, bk |
| payment gateway (`payments/`) | the provider's | createIntent, confirmIntent, webhook | com |
| optimizer offers (rec) | `Recommendation` | issue, accept, reject, supersede, retire, sweep | occ, req, bk |
| reservation requests (req) | `ReservationRequest` | create, pick directly, cancel, waitlist, reopen, expire | rec, bk |
| optimizer passes (`optimization/runner`, `scheduler`, `scoring`, `snapshot`) | `OptimizationRun` | plan a snapshot, record the run, issue or waitlist each request | rec, req |
| capacity-release consumer (`optimization/consumer`) | cursor in `OptimizationRun` | read release events, run the optimizer | event log, runner |
| extensions (ext) and overstay | extension and overstay fields of the booking | request, override, top up, end; sweep of the tiers | occ (`moveOccupancy`), consumer |
| reservation move and slots (`reservationMove`, `slot`, `reconcile-inventory`) | `Slot` | claim, move, release, reconcile | bk |
| incidents (inc) | `Incident`, charger status | report, transition, restore chargers | `Charger` |
| delay propagation (delay) | `DelayPropagation`: one record per incident | sweep, recalculate at the desk, file recovery requests, finalise | inc, bk, req |
| staff desk | - | desk reservation, desk check-in, desk deposit | bk, com |
| event log | `ReservationEvent`, append only | emit, best effort | read by the consumer and the scorers |
| policies (`models/*Policy.ts`) | - | pure functions: refund, arrival, atoms, windows | everyone |
| reliability, behaviour, schedule quality; notifications; vehicle telemetry; accounts; frontend | scores, messages, users | folds of the log, presentation, I/O | - |

### What is hard about it, and what would make each part correct

The list is in `PROJECT.json` under `hazards`, each at its line. In short:

* **Occupancy.** A range is several documents. `insertMany({ordered: false})` wins some atoms
  and loses others, `updateMany` rewrites a hold one document at a time while a purge or a
  retirement deletes them, and a process may die in the middle. *Correct* means: a range is taken
  as a whole or not at all, no atom is sold twice, a live reservation is never purged, a live
  offer is honoured, and no provisional hold freezes a bay.
* **Commitment.** Webhooks come late, twice or never; the expiry sweep and a cancellation run
  between the reads and the two saves of a verdict. *Correct* means: paid implies a succeeded
  intent, no success is forgotten, "refunded" has a refund on record, a reserved one has its time,
  unpaid ones do not last, a cancelled one gives its time back.
* **Offers and requests.** One request, its `activeRecommendationId`, the offers and their holds are
  four kinds of documents written in sequence by five handlers. *Correct* means: one offer gives one reservation,
  a reservation named by an offer or request owns time, a pending
  request names a pending offer and does not stay pending for ever, a live offer is the one its request
  names, one live offer at a time, at most `MAX_OFFERS_PER_REQUEST` of them, a declined offer is not revived.
* **Session.** `status` and `lifecycle` are guarded apart and saved blindly by `_id`.
  *Correct* means: they agree, what ended stays ended, whoever holds the bay has its time, whoever does
  not use it is settled and gives it back.
* **Slots.** A reservation and its `Slot` are two documents. The claim writes the one and then the
  other, a move writes three times, and every path that ends a reservation frees the slot it *loaded*.
  *Correct* means: a slot is booked exactly while a live reservation names it, and what
  crashes leave is repaired by `reconcile-inventory`.
* **Extensions.** The length of a live session is in the booking and, atom by atom, in the occupancy rows; a
  driver, the desk and the optimizer change both, each from a copy it read before it looked for free time.
  *Correct* means: booked time is never lost, what was granted is what the session grew by,
  the rows are those of the recorded length, and the end of the window is not crossed by a request.
* **Consumer.** The cursor over the event log is the creation time of the consumer's last run, events are
  stamped before they are appended, one pass reads at most 1000 of them, and the run is written before its offers.
  *Correct* means: no release is skipped, and one somebody waits for is planned in the end.
* **Incidents.** Several incidents name one charger; the chargers and the incident are written one by
  one by several members of staff. *Correct* means: out of service exactly while an open incident says so.
* **Delay.** Each pass recomputes a chain from an incident and a queue that change under it, saves it
  under a version, and files requests that only the chain remembers. *Correct* means: a
  reservation is helped once, everybody late enough is helped in the end, and the last word is the final one.

## 2. The modules

| module | models | state to code |
|---|---|---|
| `ChargerLease` | the promise of the occupancy layer: atomic, all-or-nothing leases | `lease[h]`: the atoms a reservation or an offer owns |
| `Occupancy` | `occ`, driven as `bk.claimRangeReservation`, `bk.updateReservation` and `rec` drive it | `holder[c]`: the document under the unique index; `expiresAt`: `holdExpiresAt`; `todo`, `collided`, `converted`: how far a bulk write got; `pc`, `doc`, `offer`: the call, the reservation, the offer |
| `Commitment` | `com` against one reservation, with the cancellation of `bk` and the gateway | `lifecycle`, `payment`, `capacity`: the reservation and its time; `intent`, `outcome`, `refunds`: our record, the provider's decision, the statuses of the `Refund` documents; `delivery`, `cancel`, `sweep`: handlers |
| `Offers` | `rec`, `req` and the pass of `optimization/runner` for one request | `request`, `active`, `count`, `fulfilled`: the request; `status`, `lapsed`, `accepted`: the offers; `lease`; `call[h]`: where a handler stands and what it loaded |
| `Session` | `bk` from the claim to the end of one reservation, with the promotion and the expiry of `com` as writers beside it | `booking`: six fields; `lease`; `call[c].set`: the fields the pending `save()` will write |
| `Extension` | `ext`, `moveOccupancy` and `endCharging` on one live session | `rows[a]`: who holds each atom; `doc`: lifecycle, length and the extension fields; `call[c]`: the loaded copy, the decision, the atoms kept and still to insert |
| `Consumer` | `consumer`, `optimization/runner` around its pool, the event log | `flight`, `log`: stamped and appended events; `lastRun`: the newest committed run of this trigger; `pass[p]`: what was read and is being planned for |
| `Planner` | `optimization/scheduler.ts` and the range arithmetic of `models/occupancyPolicy.ts`; no state | `Plans`: every plan some scores and time budget lead to |
| `Slots` | the slot path of `bk` and `com`, `move`, `scripts/reconcile-inventory.ts`, `PATCH /api/slots` | `slot[s]`, `booking[b]`: the two documents; `call[c]`: what a handler loaded; `script`: the reconciliation |
| `Incidents` | `inc`, `models/incidentPolicy.ts`, `PATCH /api/chargers` | `incident[i]`, `charger[c]`: the documents; `call[k]`: a report or a transition under way |
| `Delay` | `delay`: one incident, its queue, its record | `record`: status, delays and request ids of the chain; `filed`: recovery requests; `pass[k]`: the loaded copy and the version it is based on |
| `...Proofs` | the theorems about the module of that name (`Occupancy`, `Offers`, `Session`, `Extension`, `Consumer`, `Incidents`, `Delay`); `ReservationProofs` about `Commitment` and `Slots`, which is why the specification of `Slots` is called `SlotsSpec` | |
| `MC...` | small instances for TLC; `MCConsumer` and `MCDelay` also compare `Planner` and the cascade with reference definitions | |

How they fit together. `Occupancy` implements `ChargerLease` (property and theorem `ImplementsLease`,
with the lease of a holder computed from the documents). `Offers` then uses the *actions* of
`ChargerLease` (`INSTANCE ChargerLease WITH Bookings <- Replies, Offers <- Passes, Cells <- Bays`)
wherever the code calls the occupancy service: the cost of single documents is paid once, in
`Occupancy`. `Extension` has the documents again, because `moveOccupancy` is not one of the lease's steps:
it deletes and inserts within one lease. `Session` and `Commitment` need only whether *their* reservation
has its time; the two share the cancellation: `Commitment` follows its money (it may race a
verdict), `Session` its status (it may race check-in, charging and no-show). They share the promotion and the expiry as well:
`Commitment` has the reads and the intent before the save, `Session` what that save meets. `Consumer` decides
*that* a station is planned for, `Planner` *what* is planned, `Offers` what comes of it, and
`Delay` relies on the lease for its assumption that reservations of a charger do not overlap.

Conventions, the same in every module:

* an action stands for the code from one `await` to the next; a guard is the handler's own
  condition or early return. What a handler read before an `await` is kept in variables of its
  own (`loaded`, `call[h]`, `pass[k]`), because the code goes on using it after;
* Mongoose's `save()` is an update by `_id` of the fields that differ from what was loaded. It tests
  nothing, and fields that did not change are left as the database has them by now. Only
  `findOneAndUpdate` and `updateMany` test stored values. An array that is overwritten or
  indexed into is the exception: it is saved at the document version it was loaded at (`Delay`);
* `insertMany` and `updateMany` touch one document per step. `deleteMany` is a single step: each of
  its deletions re-tests its filter, so it commutes with what others write. `Occupancy` keeps the
  loop of documents; other modules use the lease it implements;
* crashes are actions: a handler stops where it stands and what it wrote stays;
* notifications are best effort and read by nobody here; events are read by the consumer, which is where their loss matters;
* a definition called a *mutant* in its comment is a wrong version of the definition below it. It
  is not reachable from the specification; each mutant, put in place of the original,
  makes one of the properties fail (`PROJECT.json`, `mutants`), so no property holds idly.

### Variables that only record

Some promises of the code hold only while nothing of a certain kind has happened. The modules
remember that it has, in variables no action's guard reads except where the table says so:

| variable | becomes true when | read by |
|---|---|---|
| `Offers.serial`, `Session.serial`, `Extension.serial` (false) | two calls overlapped or one died | properties about handlers that take turns |
| `Commitment.cancel`, `sweep`, `delivery` (`crashed`, `dead`, `halfway`) | that handler died | `CancelledGivesBack`, `RefundIsRecorded`, `NoDepositForgotten` |
| `Commitment.crossed` | a promotion and a cancellation (or the sweep's claim) overlapped on the reservation: one saved while the other stood between its test and its save | `NoDepositForgotten`, `RefundIsRecorded`, `ReservedHasTime` |
| `Session.crossed` | a promotion was saved while a call that had found the reservation unpaid was about to save its end | `SettledWhenGone` |
| `Extension.erased` | a first decision that granted nothing was saved over a grant | `GrantMatchesLength` |
| `Offers.strayed` | per offer: an answer to another offer reopened the request that named it | `LiveOfferIsNamed` |
| `Slots.order` | one reservation was served twice at once, a call died or a slot was forced (`lost`); a cancelled reservation was cancelled again (`twice`) | `SlotsAgree`, `GuardMaintains` |
| `Incidents.raced`, `byHand` | per charger: two requests had it in hand at once or one died; an operator set it last | `ChargersAgree` |
| `Consumer.excused` | per event: a limit of the cursor applied to it | `SkipsNothing`, `ReleaseIsPlanned` |
| `Delay.doubt` | per reservation: its entry dropped out of the chain with its request id, or a request was filed and not stamped, or two passes worked on the chain and one did not know of the request | `FiledOnce`, and the count in `filed`, which stops at two |

They are kept per charger, event or reservation where the code allows it, so that a property goes on
speaking of everything else after one of them was disturbed.

### Details worth knowing

* `Occupancy.StartClaim` writes the reservation *before* the time is taken, as the code does:
  `EndBooking` can hit a claim in the middle of its inserts. `LeaseInv` allows it, and
  `FirmLease` speaks of reservations that are still holding.
* At the instant `now = holdExpiresAt` a hold neither is purged (`<`) nor refuses acceptance
  (`>`). The clock of `Occupancy` reaches that instant.
* In `Commitment` a desk reservation, born committed, is an initial state.
* The gateway may fail a refund. `issueRefund` then stores a `Refund` that says `failed` (`com:508`) and tells nobody:
  the reservation still says refunded (`com:587`), and nothing tries again. `refunds[i]` therefore holds statuses,
  and a property that asks for a refund asks that one is on record, not that money moved.
* `approvedExtensionMinutes` is null before the first decision (`models/Booking.ts:163`). For the arithmetic that
  is 0 (`ext:110`); for `save()` it is not: a first decision that grants nothing writes 0. `Extension.Null` keeps the two apart.
* `Offers` numbers its passes in the order they begin; that is only a name for "the next pass".
* `Offers.ConvertLost` covers both ways to `HOLD_LOST`: the hold is gone, or two acceptances
  of one offer each rewrote some of its documents. The second needs documents to be seen in `Occupancy`;
  here it is a choice that is enabled only while two conversions of one offer overlap.
* An acceptance that comes too late, and a decline, end by running the optimizer for the request
  (`reoptimizeFor`). That pass is one of `Passes`: since a pass may begin whenever the request is active, the
  one that follows a reply is among them.
* In `Session` and `Slots` the sweep for no-shows is a single action because the code runs it in a transaction
  (`bk:365-404`). The manual no-show is not one, and is modelled as load, save, release.
* `Extension.Insert` takes the new row out of what *another* call has decided to keep: `moveOccupancy`
  keeps documents by their id, and a row written again is another document. That is how two
  moves of one lease can lose rows, and why `RowsMatchInTurn` needs turns while `BookedTimeIsSafe` does not.
* `Slots.Claim` may first expire a lapsed hold on the interval it wants (`call[c].then` is the claim that goes on
  afterwards), as `claimReservation` does. `script.quiet` says that no handler ran since the script began.
* In `Delay` a pass reads the incident and the queue in one step. Both are only read, and the
  pass may be as late as it likes before it uses them. Of the version number only one bit is
  kept, whether a loaded copy is *behind* the stored chain: a stale version is never current again.
* `Planner` gives a *set* of plans. The score chooses among candidates and may refuse a swap, the time budget
  may cut the repair short; both are left open, so what is checked of a plan holds for all weights.

## 3. The runs

Every run checks deadlock off: a reservation, a request or an incident comes to an end, and so does its model.

| run | instance | shows |
|---|---|---|
| `occupancy` | 2 reservations, 1 offer, atoms {1,2}, ranges {1,2} and {2}, hold 1 tick, clock to 2, fairness | the lease: no double sale, no partial lease, firm reservations, honoured offers, acceptances that cannot lose, the refinement of `ChargerLease`, and that every hold is converted or reclaimed |
| `commitment` | 2 attempts, 2 verdict deliveries, 1 cancellation, sweep, fairness | the deposit |
| `offers` | 2 passes, 2 answers, 2 bays, 2 handlers at a time, everyone mortal | what survives arbitrary overlap and crashes |
| `offer_turns` | 4 passes, 2 answers, 2 bays, cap 3, one handler at a time, fairness | what the code promises when handlers take turns, over longer histories of offers |
| `session` | 2 callers, any number of calls, the promotion and the expiry among them, crashes, fairness | the reservation's status |
| `extension` | 2 calls, 1 booked atom, window of 2, day of 3, requests for up to 2 atoms, 2 requests, rivals, crashes | the length of a live session against its rows |
| `consumer` | 2 stations, 1 pass, limit 1, lookback 1, 2 releases, clock to 2, fairness; the planner over 46,656 snapshots | the cursor over the event log; the plans |
| `slots` | 2 reservations, 2 slots, 2 handlers, the script, crashes | reservations and slots agree, and what the script repairs |
| `incidents` | 2 incidents, 2 chargers, 2 members of staff, an operator, crashes | chargers and incidents agree |
| `delay` | 1 reservation late at once and later at the next tick, the job and the desk, clock to 1, fairness; the cascade over every queue of up to 3 | requests filed once, and in the end; the final record |
| `late_success` | 1 attempt, 1 delivery, 1 cancellation | refutes a comment, section 5 |
| `recancelled` | 2 reservations, 2 slots, one handler at a time | refutes a comment, section 5 |

### Properties by run

`occupancy`. `FirmLease`: a live, granted reservation holds every atom of its range.
`NoDoubleSale`: two of them share none. `HoldHonoured`: an offer that was made, neither retired
nor past its window nor being accepted, has its whole range. `AcceptCannotLose`: an
acceptance fails only for one of three named reasons. `NoPartialLease`: a refused claim leaves no
document. `LeaseInv` is the inductive invariant of the proofs, checked here first.
`ImplementsLease` maps every write to a step of `ChargerLease` or to nothing; an offer keeps its
range while documents of it are being rewritten, and the reservation acquires it all at once with the last.
`HoldsAreReclaimed`: documents of an offer never stay, with only time and the sweep assumed.

`commitment`. `PaidIsBacked`, `NoDepositForgotten`, `RefundIsRecorded` relate the reservation to
intents and refunds at every interleaving. A deposit that was recorded is what the reservation stands on, was
forfeited, or has a refund on record; the code has three ways to lose one, and they are the exceptions: the handler dies between
its two saves, two attempts were charged and one is refunded, or a promotion and a cancellation overlap (`crossed`).
`RefundIsRecorded` has both directions: "refunded" has a refund on record, and nobody stands on a deposit that
was sent back. `ReservedHasTime`: a reserved reservation still has its charger time, again but for `crossed`. It is
what the test of the lifecycle in the verdict handler buys, and the clock alone does not.
`UnpaidHoldEnds` and `CancelledGivesBack` are its liveness.

`offers`. `OneReservationPerOffer` against double taps; `ReservationsAreBacked` against late saves of
a retirement over an acceptance.

`offer_turns`. `OneLiveOffer`, `PendingIsOffered`, `CapRespected`, `RejectionStands`, and the liveness
property `PendingEnds`. `LiveOfferIsNamed` is the promise of `rec:25` read from the side of the offer: one that can be
accepted is the one its pending request names, so nothing is left to accept behind a request that was cancelled or
picked for; the exception, an answer to another offer, is described in section 5. All of them are guarded by `serial`: overlapping passes do break the first
(two counts before two creates), overlapping saves the second. The bound on overlap is set to 1
in that run, which makes `serial` constant and the run cheap; nothing is lost by it, since the
properties say nothing of other states.

`session`. `SettledWhenGone` and `EndedWasStarted` hold at every overlap of stale saves. The first has one exception, and
the run shows that there is no other: the promotion is saved under a call that loaded the reservation unpaid and
ends it, which leaves it cancelled and paid.
`StatusFollowsInTurn`, `SessionHasBay` and `EndedStays` hold while calls take turns, crashes included.
`EndGivesBack`: whatever ends a reservation, its time comes back unless a call died.

`extension`. `GrantMatchesLength`: the session is never shorter than what was booked and approved, whichever
stale copies are saved over each other, and exactly as long unless a first decision that granted nothing was saved over a grant (`erased`). `BookedTimeIsSafe`: a driver who is charging never loses
an atom that was booked. `CeilingHolds`: the decision that makes a session longer and longer than its window is one
of staff, or found it already as long, also when it was made on a stale copy. `RowsMatchInTurn`: while calls take turns the rows cover the
recorded length and a session that ended leaves none, whatever rivals take between two steps.

`consumer`. `SkipsNothing`: the cursor passes no logged release that nobody planned for, but for those
its limits excuse, which are named one by one. `ReleaseIsPlanned`: a release somebody keeps waiting for is
planned in the end. The plans themselves are checked by `ASSUME PlansAreSound` in `MCConsumer`, for
three requests (one of them urgent, one whose customer is elsewhere at first) and two chargers (one of them held
at the end of the day), with every choice of chargers, window and length: each placement is what was
asked for and no atom is promised twice, also not after a swap; the repair drops nobody, and whoever
the greedy phase left out had no candidate; an urgent request is served as if nobody else asked.

`slots`. `SlotsAgree`: in both directions, a live reservation that nobody is serving holds a booked slot, and a
booked slot is held or in somebody's hands. `PhantomsAreReleased`: a reconciliation that has the database to
itself leaves no slot booked that no live reservation holds, whatever crashes and forced slots left.

`incidents`. `ChargersAgree`: a charger that nobody has in hand is out of service exactly while an open
incident names it, unless two requests had *that charger* at once or an operator set it since.

`delay`. `FiledOnce`: a reservation gets a second recovery request only in the three ways that put it
in doubt. `RecoveryComes`: whoever is late enough gets one, through refused requests, deaths
of the job and chains that the desk overwrites under it. `FinalInTheEnd`: an incident that
stays resolved ends with a RESOLVED record, also when a pass that began before saves its status last.
`ASSUME CascadeIsTheQueue` in `MCDelay` compares the recursive cascade with a closed form: the delay of the
root, minus the time until a reservation starts, plus all that is to be served before it.

### Why the bounds are enough

* *Occupancy.* A conflict needs two holders and one shared atom; a partial win needs a range of two
  atoms. {1,2} against {2} is both: the long range may win atom 1 and lose atom 2. A third holder, the
  offer, gives every pair of kinds (claim/claim, claim/hold, two acceptances of one hold). The window
  of one tick and a clock to 2 give an offer three instants: inside, at expiry, past it. Everything but
  the liveness is proved for every number of holders, atoms and ticks.
* *Commitment.* Two attempts because a declined one may be retried and because find-then-create may
  produce two; two deliveries because a verdict may come twice, or two verdicts race. The loss of a verdict
  is a delivery that never happens.
* *Offers.* Any pair of handlers that overlap is among two passes, two answers and the sweep, and the
  pairs that share an offer or the request are all there. Longer histories matter for the cap and
  for an answer to an old offer: the run that takes turns has four passes and a cap of three,
  so one more than the cap is tried. A bay lost to some other driver is `HoldFails` and `ClaimFails`, which
  are always possible.
* *Session.* Two callers: one loads, the other changes what was loaded, the first saves over it. The number of calls is not
  bounded, so each may act again on what came of it. The safety half is proved for any number of callers.
* *Extension.* One atom booked, one more inside the window, one outside it: a request can be granted in part,
  in full or not at all, and an override can cross the window. Two calls are a decision and a stale copy of it.
  A move that collides half way needs two new atoms, which an override has. Proved for all values.
* *Consumer.* A limit of one and two releases: one is always cut off. Two stations, because an event is
  excused or covered by station. One pass at a time keeps the liveness within reach; the safety half was
  also checked with two passes that overlap (1,561,000 states), and is proved for any number.
* *Slots.* Two reservations and two slots are a move into a slot that is being claimed, and back. With two
  handlers any two operations overlap, the script and the no-show transaction run beside them. The number of calls per
  reservation is not bounded. Proved for all numbers.
* *Incidents.* Two incidents over the same two chargers are all the ways to overlap (same, part, none). Proved for all numbers.
* *Delay.* The protocol of a pass is about single entries; the order of the queue matters in the cascade, which is checked
  apart over 7,168 queues. One reservation that is filed for at once, becomes later, may leave and
  whose incident is resolved and reopened gives every way of the chain to change. With two reservations and two
  passes of the job the safety half was also checked (5,330,000 states), and it is proved for all queues.

### Fairness and why the code justifies it

Nothing is assumed of drivers, of staff, of the gateway or of the optimizer's callers: an answer, a call, a
verdict or a pass may never come. Assumed are: time (`Tick`, `CloseWindow`, `Lapse`); the scripts that
`package.json` defines to be scheduled (`ops:sweep-recommendations`: `SweepLapsedHolds`,
`FindStale`, `Flip`; `ops:expire-commitments`: `Sweep`; the consumer: `Begin` of a pass; the delay job: `Begin` of a sweeper,
never of the desk); and that a handler that was entered goes on
to its next `await` (`Handle`, `Cancelling`, `Passing`, `Replying`, `Retiring`, `Save`, `Release`, the steps of a pass).
In `Consumer` and `Delay` the steps of a pass are *strongly* fair: a pass may die at any
step and any number of times, but as the job is started again and again it does not die at the same step for ever; and in `Delay`
a recovery request is not refused for ever.
Crashes stay possible and are never fair. Where a property cannot survive one it names it (`Crashed`, `died`,
`serial`, `excused`), because the code has no repair: a process that dies between the save and the release leaves the
time taken.

## 4. The proofs

Checked by TLAPS for every value of the constants, from the assumptions the modules name: that the sets of
holders, handlers and `None` are distinct (`HoldersAreDistinct`, `HandlersAreDistinct`, `IntentsAreReal`, `FleetAssumption`),
that ranges and fleets are finite, that numbers are naturals (`TicksAreNatural`, `CapIsNatural`, `WindowAssumption`,
`CeilingAssumption`), that passes are numbered, and that two reservations of a charger do not overlap (`QueueAssumption`, which is what
`NeverSoldTwice` provides). TLC evaluates each of them in its run. Every property that is not about
fairness is a theorem: every invariant and every action property of the passing runs.

**OccupancyProofs.** `FirmLease` is not inductive: whether the last insert grants a whole range
depends on the earlier ones. `LeaseInv` adds what is true of a claim at each of its writes.
`RowsBelong`: a document lies in the range its holder asked for, and only holders that have begun
inserting and have not given up have any. `CallsAreWellFormed` ties `pc`, `todo`, `source` and `doc`.
`InsertProgress`: a claim without a collision, whose reservation is live or whose offer is inside its
window, owns every atom it has passed. `ConvertProgress`: the atoms counted by a conversion are
owned by the reservation; with the comparison of `modifiedCount` (a fact about
cardinalities of finite sets) the last one therefore completes the range. One lemma per action
shows that it keeps `LeaseInv`. From it `TypeCorrect`, `LeaseIsFirm`,
`NeverSoldTwice` (two firm leases share no atom because an atom has one holder), `OfferIsHonoured`
and `RefusalLeavesNothing`. `AcceptInv` says of an acceptance nobody disturbs (`Alone`) that what is
still to be rewritten is the offer's and the rest is converted; `AloneBefore` shows that no step makes one undisturbed
again, and `AcceptanceIsSafe` follows. `DocumentsImplementLease` maps each step under `LeaseInv` to a step of `ChargerLease` or
to a stutter; `LeasesAreExclusive` is the promise of the abstract module, proved there once.

**ReservationProofs, the deposit.** The invariant says what each handler has established by the step it stands at:
a succeeded intent has a succeeded outcome (`VerdictInv`), a handler about to refund or promote has saved a success
(`DeliveryInv`), a cancellation that will save "refunded" has issued a refund (`SettlementInv`), a refund has the handler that
issued it (`RefundsHaveIssuers`), and what says paid was charged (`PaidWasCharged`). That successes and refunds never go away makes old reads of them safe.
`OrderInv` says what the order of tests and saves still guarantees while nothing has `crossed`: a cancelled reservation stays
cancelled, a reserved one has its time, and a cancellation under way has seen the deposit. `GivesBackOne` and `StandsOnDeposit` follow a deposit from there.
`NoDepositForgotten` and `RefundIsRecorded` are then inductive with it, and `ReservedHasTime` (theorem `ReservedIsHeld`) is read off `OrderInv`.

**ReservationProofs, the interval.** `SlotsAgree` speaks only of reservations that nobody serves, and so says nothing of the
steps that lead there. The invariant `SlotsInv` has three parts, each needed for the next.

* `Sound` holds whatever overlaps, dies or is forced: the types, what a call has loaded is fit for its next step (`CallsFit`), and
  the index was never bypassed (`Unique`; `WriteFits` is the lemma about any write of one reservation under it).
* `Alone`: a script that no handler has disturbed has read what is still true, and what is spent it has completed before it
  reads who is live. `PhantomsAreFreed` follows from these two, so it holds after any crash and any overlap.
* `Kept`: as long as `order` is kept, every interval has one to answer for it. `Owns(b, s)` is the ledger: reservation `b`
  answers for `s` if nobody serves it and it names `s`, or if the call that serves it has `s` in hand (`Hand`, by its step: the interval it will free, the
  one a move came from, both of them just before a move leaves). `OwnedOnce`, `BookedIsOwned` and `OwnedIsBooked` relate the ledger to the
  slots; `Finds` says that a call finds its reservation as it left it, because calls that serve one reservation are `Apart`.
  Spent reservations are the exception in both directions, and have a clause of their own (`SpentIsOver`).

Every step is then an entry in the ledger (`Balance`): one reservation is given what nobody answered for, or gives up what is no longer
booked, and all others are untouched (`OwnsNext`). For a claim and for a move the first needs `NobodyOwns`: an interval that is
free and that a reservation names has no other owner, since an owner would have it booked, or be spent and break the index. That the ledger balances
also shows that while `order` is kept the index refuses no save (`SaveKept`). `HoldersAndSlotsAgree` reads `SlotsAgree` off the ledger.

**OffersProofs.** `CallsFit` lists, for each step, the offers and counts a handler may stand there with; `Backed` that an
offer or request that names a reservation names one that owns time, and that a handler about to write such a name
already has the lease. `TakeInv` is the heart of `OneReservationPerOffer`: a lease of an offer exists only when its pass is
past the step that takes one (so it is never taken again), once somebody converted it the offer's lease is gone, and therefore
two takers of one offer are the same.
`TurnInv` carries what holds while handlers take turns (`serial`). With none in flight the documents are right: one live offer at most (`Single`), a pending request
and its pending offer name each other (`Paired`), and the count kept on the request is that of the offers made (`Counted`). With one in
flight `PassRight` or `ReplyRight` says by its step what is short: a pass that has created its offer but not yet named it is one ahead of the count, and has
retired what was live before; an answer or a sweep may expire only what was offered, and never what the driver declined. The count is of a set of
passes whose finiteness no assumption gives; it is part of the invariant. From it `OfferIsSingle`, `PendingIsAnswerable`,
`CapHolds` and, as an action property, `RejectionIsFinal`.
`NameInv` rests on it for `LiveOffersAreNamed`: at every step of the one handler in flight, what is live is named or has strayed, but for
the offer a pass is about to name; and a handler that closes the request has left only strayed offers behind.
`BaysAreExclusive` says over offers and reservations what `LeasesAreExclusive` says of the abstract lease. No theorem composes `Offers` with
the documents of `Occupancy`; that it uses the lease only through its actions is how the module is written.

**SessionProofs.** The difficulty is a `save()` that is still pending: it was prepared from a document
that others have changed since. `IInv` says of each pending save that it is *sound on its own*:
it carries values of the right type; if it sets a status that is gone it either carries a settled
deposit or was loaded when there was none to settle, and then the reservation is still unpaid or the promotion that paid it has `crossed` it; and a stamp is
only set by a call that saw or sets the stamp before it. Stamps are never cleared, which
makes old reads of them safe. `TurnInv` is the second invariant, for calls that take turns: at most one is busy, the document is
consistent, and the pending save, laid over the document, is consistent again or will release its time (`WillRelease`).
Theorems: `GoneIsSettled`, `StampsAreOrdered`, and from `TurnInv` `StatusFollows`, `HoldersHaveBay`, `EndIsFinal`.

**ExtensionProofs.** `GrantInv` says that every *copy* of the document is consistent, as the document is: a decision that moves the length
saves both, so a stale save replaces one consistent pair by another; the one that writes minutes without a length (null to 0) can only lower them, and is in `erased`. `KeepsBooked`: what a move is going to keep contains the booked atoms, also
after another call has re-inserted rows. `TurnInv` follows one call through its rows (`CallRight`).

**ConsumerProofs.** `CursorInv` says what a pass may have missed at each step: before it reads, only what is later than its own
`now`; then only what it did not read and somebody has settled; then only what it does not cover; and what is in flight is ahead of the cursor.

**IncidentsProofs.** `Standing` says how far a request has come with a charger nobody else has in hand; two requests share only raced chargers,
so a step of one leaves the standing of the other alone.

**DelayProofs.** `FileInv`: a reservation that is not in doubt and was filed for is known to the record *and to every copy of it in use*
(`OnRecord`), or the one pass that filed is about to stamp it (`BeingStamped`), so nobody files again.

Type correctness is a theorem of each of the nine state machines that are proved about (`TypeCorrect`, `SlotsTyped`), and no run checks it again.

**Only model-checked.** Liveness (`HoldsAreReclaimed`, `UnpaidHoldEnds`, `CancelledGivesBack`,
`PendingEnds`, `EndGivesBack`, `ReleaseIsPlanned`, `RecoveryComes`, `FinalInTheEnd`), which needs fairness and ENABLED and is beyond the prover,
and the two comparisons by `ASSUME`, since what a recursive definition computes for every input needs an induction the prover has no form for.

## 5. Disagreements between comments and code

Two are runs that TLC ends with a counterexample, and entries under `findings`.

* `late_success`. `com:210` promises that a late success is refunded. The sweep, however, voids
  intents that are processing (`com:387-391`), and a verdict for an intent that is not processing is
  ignored (`com:229`). A success that arrives after the sweep is neither recorded nor
  refunded. Only the success that arrives between the end of the window and the sweep gets its refund.
* `recancelled`. `scripts/reconcile-inventory.ts:4` says that the claim path and the lifecycle guard maintain the agreement
  of slots and reservations. A status that does not change is not checked against the transitions (`bk:490`): cancelling a
  cancelled reservation passes, and frees the slot it named once more, under whoever booked it since.
  One handler at a time is enough.

Others were met while modelling. No run is spent on them; the model has the behaviour, and the
properties are stated so that they hold with it.

* `com:212` and `com:364-365`: a late confirmation and the sweep are said to exclude each other. The handler tests the lifecycle, awaits
  `intent.save()`, then saves RESERVED by `_id`; a sweep in between has cancelled the reservation and released its time.
* `req:409`: the offer is released first so that no bay is stranded. Answering an *expired* offer reopens the request under a
  newer live offer (`req:507` does not ask which offer the request names), and a cancellation or a direct pick then finds none to
  release: that offer stays live behind a closed request, until its window ends (`HoldsAreReclaimed`). `strayed` marks it.
* `req:406`: withdrawing a request is terminal. The pass that issues an offer saves the request it loaded before the offer was created and
  held (`rec:162-168`), by `_id`: a request cancelled or fulfilled in between is PENDING_ACCEPTANCE again, and goes
  back into the pool when the offer lapses. Retirement and waitlisting test the status they write over; this save does not.
* `com:561-563`: the caller saves once, so that there is no "window where the reservation's lifecycle and payment state disagree". A cancellation that loaded the reservation unpaid and saves
  after the promotion leaves it cancelled and paid, and nobody refunds (`crossed`). A refund that the gateway failed is recorded as
  failed while the reservation says refunded.
* `ext:114`, `ext:146`: a request that is rejected on a copy without any decision writes approved minutes 0, also over a grant that was
  saved since. The session keeps the longer length, and from then on counts it as booked.
* `models/reservationLifecycle.ts:7`: lifecycle and status can never disagree. A check-in that loaded RESERVED before the no-show sweep
  saves ARRIVED after it, with the status still `no_show`.
* `move:287-288`: a driver whose move lost "keeps exactly what they had". The put-back is refused when the old interval was
  taken over in the meantime by someone who saw the reservation gone from it. And `move:18-22` leaves a live reservation over a free interval to the
  reconciliation, which only frees and completes slots, never books one.
* `occ:282`: the new range is claimed before the old one is released, so that whoever fails still holds what they had. The rows the new range does not
  keep are deleted first, and the rows that were inserted before a collision stay.
* `ext:48`: the ceiling "an extension can never cross" is not looked at by the staff override. `ext:133-137`: the price is recomputed
  if the booking has it, which a top-up never selects (`ext:424`). `ext:14-16`: a second request that is
  rejected takes the session back to its booked length.
* `consumer:17` says that a lost run is processed again. A run that died after it was written, and events that are appended late or beyond the
  limit, are behind the cursor: the excuses of `SkipsNothing`.
* `inc:116-118`: a status an operator set is never overwritten; restoring (`inc:150`) overwrites any. Two incidents resolved at once each see the other open,
  and the charger they share stays out of service.
* `models/DelayPropagation.ts:32`: a recovery request is never filed twice. It is when an entry leaves the chain and comes back (`delay:189-200`), and in the other two
  ways of `doubt`. `models/DelayPropagation.ts:14-16`: the record stops changing after the resolution. The desk rewrites the chain of a RESOLVED record, and
  an incident that is reopened and resolved between two sweeps keeps the old numbers.
  `delay:103-106`: "how long its charger has been out of service" is measured from the reservation's start.
* `models/occupancyPolicy.ts:87`: a time with nothing but seconds past an atom is snapped down, not up.
* `optimization/scheduler.ts`: a request that the time budget or the scores leave unrepaired is waitlisted as `no_free_capacity`, though a swap before it made room.

Hazards that no property covers, with the reason, are in `PROJECT.json`: things the code does not prevent and does
not claim to (two attempts to pay that both succeed; a second refund by a second cancellation; two live offers of two passes that overlap; a request left pending
by a sweep that died).

## 6. Not modelled

* *Scores* (`optimization/scoring`), the reading of the snapshot and the counterfactual of first come first served: weighted sums over
  real numbers, one large read, and a figure for display. `Planner` holds for every score.
* *Overstay tiers, punctuality of an arrival, flexibility* (`models/overstayPolicy`, `reservationPolicy`, `flexibilityPolicy`): stamped on the booking or shown;
  no handler that is modelled decides by them.
* *Publishing slots, the search for move targets and for direct picks*: inserts of fresh documents, and reads.
* *The projections of the event log; reliability, behaviour, schedule quality*: folds over real numbers with no state a handler depends on.
* *Notifications, telemetry, accounts, frontend, demo data and document builders*: presentation, HTTP clients, single-document reads and writes.
  They are most of the lines of the repository.
* *Gateway internals*: only the contract that a sent attempt gets one verdict, delivered zero or more times.
* *The deposit taken at the desk*, and the checks of vehicle and opening hours before a claim.
* *Authorization*: who may call what has no effect on the state a permitted call produces.
* *Concrete time* outside `Planner`, `Extension` and `Delay`: a window is open, at its end, or over.

## 7. Plan

Done, in the order of what depends on what: `ChargerLease`, `Occupancy`, `Commitment`, `Offers`, `Session`; then `Slots`, `Extension`, `Consumer`, `Incidents`,
`Delay`, `Planner`; the proofs of all safety properties of the runs.

What could come next:

1. `moveOccupancy` as a step of `ChargerLease` of its own, with `Extension` shown to implement it while calls take turns;
2. the pure policies (refund, flexibility, overstay) as operators over small integers.

## 8. Running it

    tlc -workers 2 -config occupancy.cfg MCOccupancy.tla
    tlc -workers 2 -config slots.cfg MCSlots.tla
    tlapm OccupancyProofs.tla
    tlapm ReservationProofs.tla

The module of each `.cfg` is in `PROJECT.json` under `runs`. With two workers the largest runs (`slots`, `offers` and `incidents`, around two
million states each; `occupancy` with its liveness) take up to two minutes, the others less; the proofs take some minutes in all.
