---------------------------- MODULE OffersProofs ----------------------------
(***************************************************************************)
(* Proofs about Offers, for any number of passes and replies that overlap  *)
(* in any way and die anywhere.  What protects an offer from a second      *)
(* acceptance is not its document, which is saved blindly, but its lease:  *)
(* it is handed over once, and the pass that took it never takes another   *)
(* (TakeInv).  What a handler may do next is in the step it stands at      *)
(* (CallsFit); Moves says what every action does to the handlers.          *)
(* What holds while handlers take turns needs more: where the documents    *)
(* stand at each await of the one handler in flight (TurnInv), and what it *)
(* knows there of the offers that are live (NameInv).                      *)
(***************************************************************************)
EXTENDS Offers, FiniteSetTheorems, TLAPS

\* Only handler h moves, and this is where it then stands.
Moves(h, at, then, offer, loaded) ==
    /\ DOMAIN call' = Handlers
    /\ \A x \in Handlers \ {h} : call'[x] = call[x]
    /\ call'[h] \in Calls
    /\ call'[h].at = at /\ call'[h].then = then
    /\ call'[h].offer = offer /\ call'[h].count = loaded

CallsTyped == DOMAIN call = Handlers /\ \A h \in Handlers : call[h] \in Calls

----------------------------------------------------------------------------
(* The forms in which a handler's record is written                         *)

LEMMA FreshTyped ==
    /\ Fresh \in Calls /\ Fresh.at = "idle" /\ Fresh.then = "done" /\ Fresh.offer = None
    /\ Fresh.count = 0
  BY CapIsNatural DEF Fresh, Calls, Steps, RequestStates, Active, OfferStates

\* Each form by name; all of them keep a record a Call.
Step(c, step) == [c EXCEPT !.at = step]
Retired(c, offers, was, as) ==
    [c EXCEPT !.at = "retire", !.todo = offers, !.seen = was, !.verdict = as]
Superseding(c, old) ==
    [c EXCEPT !.at = "retire", !.todo = {old}, !.seen = "PENDING",
              !.verdict = "SUPERSEDED", !.then = "create"]
Releasing(c, o) == [c EXCEPT !.at = "mark", !.offer = o, !.todo = c.todo \ {o}]
About(c, step, o) == [c EXCEPT !.at = step, !.offer = o]
Answering(c, o, was) == [c EXCEPT !.at = "request", !.offer = o, !.seen = was]
Then(c, then) == [c EXCEPT !.then = then]

\* A record of the right type that stands here.
Stands(n, at, then, offer, loaded) ==
    n \in Calls /\ n.at = at /\ n.then = then /\ n.offer = offer /\ n.count = loaded

LEMMA FreshStands == Stands(Fresh, "idle", "done", None, 0)
  BY FreshTyped DEF Stands

LEMMA StepStands ==
    ASSUME NEW c \in Calls, NEW step \in Steps
    PROVE  Stands(Step(c, step), step, c.then, c.offer, c.count)
  BY DEF Calls, Step, Stands

LEMMA ThenStands ==
    ASSUME NEW c \in Calls, NEW then \in Steps
    PROVE  Stands(Then(c, then), c.at, then, c.offer, c.count)
  BY DEF Calls, Then, Stands

LEMMA AboutStands ==
    ASSUME NEW c \in Calls, NEW step \in Steps, NEW o \in Passes
    PROVE  Stands(About(c, step, o), step, c.then, o, c.count)
  BY DEF Calls, About, Stands

LEMMA AnsweringStands ==
    ASSUME NEW c \in Calls, NEW o \in Passes, NEW was \in OfferStates \cup {"LATE"}
    PROVE  Stands(Answering(c, o, was), "request", c.then, o, c.count)
  BY DEF Calls, Steps, Answering, Stands

LEMMA RetiredStands ==
    ASSUME NEW c \in Calls, NEW offers \in SUBSET Passes, NEW was \in OfferStates \cup {"LATE"},
           NEW as \in OfferStates
    PROVE  Stands(Retired(c, offers, was, as), "retire", c.then, c.offer, c.count)
  BY DEF Calls, Steps, Retired, Stands

LEMMA SupersedingStands ==
    ASSUME NEW c \in Calls, NEW old \in Passes
    PROVE  Stands(Superseding(c, old), "retire", "create", c.offer, c.count)
<1>1. Superseding(c, old) = Then(Retired(c, {old}, "PENDING", "SUPERSEDED"), "create")
  BY DEF Superseding, Then, Retired
<1>2. Stands(Retired(c, {old}, "PENDING", "SUPERSEDED"), "retire", c.then, c.offer, c.count)
  BY RetiredStands DEF OfferStates
<1>3. "create" \in Steps
  BY DEF Steps
<1> QED
  BY <1>1, <1>2, <1>3, ThenStands DEF Stands

LEMMA ReleasingStands ==
    ASSUME NEW c \in Calls, NEW o \in Passes
    PROVE  Stands(Releasing(c, o), "mark", c.then, o, c.count)
  BY DEF Calls, Steps, Releasing, Stands

LEMMA LoadedStands ==
    ASSUME NEW c \in Calls, NEW step \in Steps, request \in RequestStates,
           active \in Passes \cup {None}, count \in 0..MaxOffers
    PROVE  Stands(Loaded(c, step), step, c.then, c.offer, count)
  BY DEF Calls, Loaded, Stands

----------------------------------------------------------------------------
(* What each action does to the handler that takes it                       *)

LEMMA MovesTo ==
    ASSUME CallsTyped, NEW h \in Handlers, NEW n, NEW at, NEW then, NEW offer, NEW loaded,
           Stands(n, at, then, offer, loaded), call' = [call EXCEPT ![h] = n]
    PROVE  Moves(h, at, then, offer, loaded)
  BY DEF CallsTyped, Stands, Moves

LEMMA GotoMoves ==
    ASSUME CallsTyped, NEW h \in Handlers, NEW step \in Steps, Goto(h, step)
    PROVE  /\ step # "done" =>
                Moves(h, step, call[h].then, call[h].offer, call[h].count)
           /\ step = "done" =>
                Moves(h, IF h = Sweeper THEN "idle" ELSE "done", "done", None, 0)
<1>1. call[h] \in Calls /\ "done" \in Steps
  BY DEF CallsTyped, Steps
<1>2. CASE step # "done"
  <2>1. call' = [call EXCEPT ![h] = Step(call[h], step)]
    BY <1>2 DEF Goto, Step
  <2> QED
    BY <1>1, <1>2, <2>1, StepStands, MovesTo
<1>3. CASE step = "done" /\ h = Sweeper
  <2>1. call' = [call EXCEPT ![h] = Fresh]
    BY <1>3 DEF Goto
  <2> QED
    BY <1>3, <2>1, FreshStands, MovesTo
<1>4. CASE step = "done" /\ h # Sweeper
  <2>1. call' = [call EXCEPT ![h] = Step(Fresh, "done")]
    BY <1>4 DEF Goto, Step
  <2>2. Stands(Step(Fresh, "done"), "done", "done", None, 0)
    BY <1>1, FreshTyped, StepStands
  <2> QED
    BY <1>4, <2>1, <2>2, MovesTo
<1> QED
  BY <1>2, <1>3, <1>4

LEMMA RetireMoves ==
    ASSUME CallsTyped, NEW h \in Handlers, NEW offers \in SUBSET Passes,
           NEW was \in OfferStates \cup {"LATE"}, NEW as \in OfferStates,
           RetireThese(h, offers, was, as)
    PROVE  Moves(h, "retire", call[h].then, call[h].offer, call[h].count)
<1>1. call' = [call EXCEPT ![h] = Retired(call[h], offers, was, as)]
  BY DEF RetireThese, Retired
<1>2. call[h] \in Calls
  BY DEF CallsTyped
<1> QED
  BY <1>1, <1>2, RetiredStands, MovesTo

----------------------------------------------------------------------------
(* Which steps belong to whom                                               *)

PassSteps == {"idle", "waitlist", "load", "count", "find", "create", "hold", "remove",
              "save", "retire", "mark", "reopen", "done"}
Uncounted == {"idle", "waitlist", "load", "done"}
ReplySteps == {"idle", "request", "held", "convert", "accept", "fulfil", "live", "cancel",
               "claim", "retire", "mark", "reopen", "done"}
SweepSteps == {"idle", "flip", "retire", "mark", "reopen"}

\* A pass beyond its cap test loaded a count below the cap; a reply that
\* accepts is about an offer and never ends in a claim of its own.
Fits(h, at, then, offer, loaded) ==
    /\ h \in Passes => /\ at \in PassSteps /\ then \in {"done", "create"}
                       /\ at \notin Uncounted => loaded < MaxOffers
    /\ h \in Replies => /\ at \in ReplySteps /\ then \in {"done", "cancel", "claim"}
                        /\ at = "claim" => then = "claim"
                        /\ at \in {"request", "held", "convert", "accept"}
                             => then = "done" /\ offer \in Passes
    /\ h = Sweeper => /\ at \in SweepSteps /\ then = "done"
                      /\ at = "flip" => offer \in Passes
    /\ at = "mark" => offer \in Passes

CallsFit ==
    /\ CallsTyped
    /\ \A h \in Handlers :
         /\ Fits(h, call[h].at, call[h].then, call[h].offer, call[h].count)
         /\ call[h].at = "find" => call[h].active \in Passes

\* The pass of an offer is past the step that may take time for it.
Past(at) == at \in {"save", "done"}

\* A pass that is past stays past, and no reply comes to hold a reservation.
Calm ==
    /\ \A o \in Passes : Past(call[o].at) => Past(call'[o].at)
    /\ \A r \in Replies : call'[r].at \in {"accept", "fulfil"} => call'[r] = call[r]

LEMMA MovesKeep ==
    ASSUME CallsFit, NEW h \in Handlers, NEW at, NEW then, NEW offer, NEW loaded,
           Moves(h, at, then, offer, loaded), Fits(h, at, then, offer, loaded),
           at = "find" => call'[h].active \in Passes
    PROVE  /\ CallsFit'
           /\ (at \notin {"accept", "fulfil"} /\ (Past(call[h].at) => Past(at))) => Calm
<1>1. CallsTyped'
  BY DEF CallsFit, CallsTyped, Moves
<1>2. ASSUME NEW x \in Handlers
      PROVE  /\ Fits(x, call'[x].at, call'[x].then, call'[x].offer, call'[x].count)
             /\ call'[x].at = "find" => call'[x].active \in Passes
  BY DEF CallsFit, Moves
<1>3. CallsFit'
  BY <1>1, <1>2 DEF CallsFit, Fits
<1>4. ASSUME at \notin {"accept", "fulfil"}, Past(call[h].at) => Past(at) PROVE Calm
  BY <1>4, HandlersAreDistinct DEF Calm, Moves, Handlers
<1> QED
  BY <1>3, <1>4

DocsTyped ==
    /\ request \in RequestStates
    /\ active \in Passes \cup {None}
    /\ count \in 0..MaxOffers
    /\ fulfilled \in Replies \cup {None}
    /\ status \in [Passes -> OfferStates]
    /\ lapsed \in [Passes -> BOOLEAN]
    /\ accepted \in [Passes -> Replies \cup {None}]
    /\ strayed \subseteq Passes
    /\ Lease!TypeOK
    /\ serial \in BOOLEAN

LEMMA TypeIsDocs == TypeOK <=> DocsTyped /\ CallsTyped
  BY DEF TypeOK, DocsTyped, CallsTyped

\* The records handlers begin with.
LEMMA BeginMoves ==
    ASSUME CallsTyped, NEW h \in Handlers, NEW with, NEW at, NEW then, NEW offer, NEW loaded,
           Begin(h, with), Stands(with, at, then, offer, loaded)
    PROVE  Moves(h, at, then, offer, loaded) /\ call[h].at = "idle"
  BY MovesTo DEF Begin, At

LEMMA PassSteps1 ==
    ASSUME DocsTyped, CallsFit, NEW p \in Passes,
           Plan(p) \/ Waitlist(p) \/ LoadRequest(p) \/ CountLive(p) \/ FindOld(p)
    PROVE  CallsFit' /\ Calm
<1> USE DEF Past, At
<1>0. p \in Handlers /\ p # Sweeper /\ p \notin Replies /\ call[p] \in Calls /\ CallsTyped
      /\ Fits(p, call[p].at, call[p].then, call[p].offer, call[p].count)
  BY HandlersAreDistinct DEF Handlers, CallsFit, CallsTyped
<1>a. {"done", "find", "create", "count", "load", "waitlist", "retire"} \subseteq Steps
  BY DEF Steps
<1>1. CASE Plan(p)
  <2>1. PICK step \in {"load", "waitlist"} : Begin(p, [Fresh EXCEPT !.at = step])
    BY <1>1 DEF Plan
  <2>2. Stands(Step(Fresh, step), step, "done", None, 0)
    BY <1>a, FreshTyped, StepStands
  <2>3. Moves(p, step, "done", None, 0) /\ call[p].at = "idle"
    BY <1>0, <2>1, <2>2, BeginMoves DEF Step
  <2>4. Fits(p, step, "done", None, 0)
    BY <1>0 DEF Fits, PassSteps, Uncounted
  <2> QED
    BY <1>0, <2>3, <2>4, MovesKeep
<1>2. ASSUME Moves(p, "done", "done", None, 0) PROVE CallsFit' /\ Calm
  <2>1. Fits(p, "done", "done", None, 0)
    BY <1>0 DEF Fits, PassSteps, Uncounted
  <2> QED
    BY <1>0, <1>2, <2>1, MovesKeep
<1>3. CASE Waitlist(p)
  BY <1>0, <1>2, <1>3, <1>a, GotoMoves DEF Waitlist
<1>4. CASE LoadRequest(p)
  <2>1. CASE Goto(p, "done")
    BY <1>0, <1>2, <1>a, <2>1, GotoMoves
  <2>2. CASE call' = [call EXCEPT ![p] = Loaded(@, "count")] /\ ~(count >= MaxOffers)
    <3>1. Stands(Loaded(call[p], "count"), "count", call[p].then, call[p].offer, count)
      BY <1>0, <1>a, LoadedStands DEF DocsTyped
    <3>2. Moves(p, "count", call[p].then, call[p].offer, count)
      BY <1>0, <2>2, <3>1, MovesTo
    <3>3. Fits(p, "count", call[p].then, call[p].offer, count)
      BY <1>0, <2>2, CapIsNatural DEF Fits, PassSteps, Uncounted, DocsTyped
    <3> QED
      BY <1>0, <1>4, <3>2, <3>3, MovesKeep DEF LoadRequest
  <2> QED
    BY <1>4, <2>1, <2>2 DEF LoadRequest
<1>5. CASE CountLive(p)
  <2>1. CASE Goto(p, "done")
    BY <1>0, <1>2, <1>a, <2>1, GotoMoves
  <2>2. ASSUME NEW step \in {"create", "find"}, Goto(p, step),
               step = "find" => call[p].active # None
        PROVE  CallsFit' /\ Calm
    <3>1. Moves(p, step, call[p].then, call[p].offer, call[p].count)
      BY <1>0, <1>a, <2>2, GotoMoves
    <3>2. Fits(p, step, call[p].then, call[p].offer, call[p].count)
      BY <1>0, <1>5 DEF Fits, PassSteps, Uncounted, CountLive
    <3>3. call'[p].active = call[p].active
      BY <1>0, <2>2 DEF Goto, Calls, CallsTyped
    <3>4. step = "find" => call'[p].active \in Passes
      BY <1>0, <2>2, <3>3 DEF Calls
    <3> QED
      BY <1>0, <1>5, <3>1, <3>2, <3>4, MovesKeep DEF CountLive
  <2>3. Goto(p, "done") \/ (Goto(p, "create")) \/ (Goto(p, "find") /\ call[p].active # None)
    BY <1>5 DEF CountLive
  <2> QED
    BY <2>1, <2>2, <2>3
<1>6. CASE FindOld(p)
  <2> DEFINE old == call[p].active
  <2>1. old \in Passes
    BY <1>0, <1>6 DEF FindOld, CallsFit
  <2>2. CASE status[old] = "PENDING"
    <3>1. call' = [call EXCEPT ![p] = Superseding(call[p], old)]
      BY <1>6, <2>2 DEF FindOld, Superseding
    <3>2. Moves(p, "retire", "create", call[p].offer, call[p].count)
      BY <1>0, <2>1, <3>1, SupersedingStands, MovesTo
    <3>3. Fits(p, "retire", "create", call[p].offer, call[p].count)
      BY <1>0, <1>6 DEF Fits, PassSteps, Uncounted, FindOld
    <3> QED
      BY <1>0, <1>6, <3>2, <3>3, MovesKeep DEF FindOld
  <2>3. CASE status[old] # "PENDING"
    <3>1. call' = [call EXCEPT ![p] = Step(call[p], "create")]
      BY <1>6, <2>3 DEF FindOld, Step
    <3>2. Moves(p, "create", call[p].then, call[p].offer, call[p].count)
      BY <1>0, <1>a, <3>1, StepStands, MovesTo
    <3>3. Fits(p, "create", call[p].then, call[p].offer, call[p].count)
      BY <1>0, <1>6 DEF Fits, PassSteps, Uncounted, FindOld
    <3> QED
      BY <1>0, <1>6, <3>2, <3>3, MovesKeep DEF FindOld
  <2> QED
    BY <2>2, <2>3
<1> QED
  BY <1>1, <1>3, <1>4, <1>5, <1>6

\* A handler that goes to a step it may stand at keeps every handler fit.
LEMMA GotoKeeps ==
    ASSUME CallsFit, NEW h \in Handlers, NEW step \in Steps, step # "find", Goto(h, step),
           step # "done" => Fits(h, step, call[h].then, call[h].offer, call[h].count)
    PROVE  /\ CallsFit'
           /\ (step \notin {"accept", "fulfil"} /\ (Past(call[h].at) => Past(step))) => Calm
<1>1. CallsTyped /\ Fits(h, call[h].at, call[h].then, call[h].offer, call[h].count)
  BY DEF CallsFit
<1>2. CASE step # "done"
  BY <1>1, <1>2, GotoMoves, MovesKeep
<1>3. CASE step = "done"
  <2> DEFINE at == IF h = Sweeper THEN "idle" ELSE "done"
  <2>1. Moves(h, at, "done", None, 0)
    BY <1>1, <1>3, GotoMoves
  <2>2. Fits(h, at, "done", None, 0)
    BY HandlersAreDistinct DEF Fits, PassSteps, ReplySteps, SweepSteps, Uncounted, Handlers
  <2>3. Past(call[h].at) => Past(at)
    BY <1>1, HandlersAreDistinct DEF Fits, SweepSteps, Past
  <2>4. at \notin {"accept", "fulfil", "find"}
    OBVIOUS
  <2> HIDE DEF at
  <2> QED
    BY <2>1, <2>2, <2>3, <2>4, MovesKeep
<1> QED
  BY <1>2, <1>3

LEMMA RetireKeeps ==
    ASSUME CallsFit, NEW h \in Handlers, NEW offers \in SUBSET Passes,
           NEW was \in OfferStates \cup {"LATE"}, NEW as \in OfferStates,
           RetireThese(h, offers, was, as), h \notin Passes
    PROVE  CallsFit' /\ Calm
<1>1. CallsTyped /\ Fits(h, call[h].at, call[h].then, call[h].offer, call[h].count)
  BY DEF CallsFit
<1>2. Moves(h, "retire", call[h].then, call[h].offer, call[h].count)
  BY <1>1, RetireMoves
<1>3. Fits(h, "retire", call[h].then, call[h].offer, call[h].count)
  BY <1>1 DEF Fits, ReplySteps, SweepSteps
<1>4. \A o \in Passes : o # h
  OBVIOUS
<1>5. Calm
  BY <1>2, <1>4, HandlersAreDistinct DEF Calm, Moves, Handlers
<1> QED
  BY <1>2, <1>3, <1>5, MovesKeep

LEMMA PassSteps2 ==
    ASSUME CallsFit, NEW p \in Passes,
           Create(p) \/ Hold(p) \/ HoldFails(p) \/ RemoveOffer(p) \/ SaveOffer(p)
    PROVE  CallsFit' /\ Calm
<1> USE DEF Past, At
<1>0. p \in Handlers /\ p # Sweeper /\ p \notin Replies
      /\ Fits(p, call[p].at, call[p].then, call[p].offer, call[p].count)
  BY HandlersAreDistinct DEF Handlers, CallsFit
<1>a. {"done", "hold", "save", "remove"} \subseteq Steps
  BY DEF Steps
<1>1. CASE Create(p)
  <2>1. Fits(p, "hold", call[p].then, call[p].offer, call[p].count)
    BY <1>0, <1>1 DEF Create, Fits, PassSteps, Uncounted
  <2> QED
    BY <1>0, <1>1, <1>a, <2>1, GotoKeeps DEF Create
<1>2. CASE Hold(p)
  <2>1. Fits(p, "save", call[p].then, call[p].offer, call[p].count)
    BY <1>0, <1>2 DEF Hold, Fits, PassSteps, Uncounted
  <2> QED
    BY <1>0, <1>2, <1>a, <2>1, GotoKeeps DEF Hold
<1>3. CASE HoldFails(p)
  <2>1. Fits(p, "remove", call[p].then, call[p].offer, call[p].count)
    BY <1>0, <1>3 DEF HoldFails, Fits, PassSteps, Uncounted
  <2> QED
    BY <1>0, <1>3, <1>a, <2>1, GotoKeeps DEF HoldFails
<1>4. CASE RemoveOffer(p)
  BY <1>0, <1>4, <1>a, GotoKeeps DEF RemoveOffer
<1>5. CASE SaveOffer(p)
  BY <1>0, <1>5, <1>a, GotoKeeps DEF SaveOffer
<1> QED
  BY <1>1, <1>2, <1>3, <1>4, <1>5

LEMMA ReplyBegins ==
    ASSUME DocsTyped, CallsFit, NEW r \in Replies, Begins(r)
    PROVE  CallsFit' /\ Calm
<1> USE DEF Past, At
<1>0. r \in Handlers /\ r # Sweeper /\ r \notin Passes /\ call[r] \in Calls /\ CallsTyped
  BY HandlersAreDistinct DEF Handlers, CallsFit, CallsTyped
<1>a. {"done", "request", "retire", "live", "cancel", "claim"} \subseteq Steps
  BY DEF Steps
<1>1. ASSUME NEW at, NEW then, NEW offer, NEW loaded, NEW with,
             Begin(r, with), Stands(with, at, then, offer, loaded),
             Fits(r, at, then, offer, loaded), at \notin {"accept", "fulfil", "find"}
      PROVE  CallsFit' /\ Calm
  BY <1>0, <1>1, BeginMoves, MovesKeep
<1>2. ASSUME NEW o \in Passes, Accept(r, o) PROVE CallsFit' /\ Calm
  <2> DEFINE was == IF status[o] = "PENDING" /\ lapsed[o] THEN "LATE" ELSE status[o]
  <2>1. was \in OfferStates \cup {"LATE"}
    BY DEF DocsTyped
  <2>2. Begin(r, Answering(Fresh, o, was))
    BY <1>2 DEF Accept, Answering
  <2> HIDE DEF was
  <2>3. Stands(Answering(Fresh, o, was), "request", "done", o, 0)
    BY <2>1, FreshTyped, AnsweringStands
  <2>4. Fits(r, "request", "done", o, 0)
    BY <1>0 DEF Fits, ReplySteps
  <2> QED
    BY <1>1, <2>2, <2>3, <2>4
<1>3. ASSUME NEW o \in Passes, Reject(r, o) PROVE CallsFit' /\ Calm
  <2>1. Begin(r, Retired(Fresh, {o}, status[o], "REJECTED"))
    BY <1>3 DEF Reject, Retired
  <2>2. status[o] \in OfferStates \cup {"LATE"} /\ "REJECTED" \in OfferStates
    BY DEF DocsTyped, OfferStates
  <2>3. Stands(Retired(Fresh, {o}, status[o], "REJECTED"), "retire", "done", None, 0)
    BY <2>2, FreshTyped, RetiredStands
  <2>4. Fits(r, "retire", "done", None, 0)
    BY <1>0 DEF Fits, ReplySteps
  <2> QED
    BY <1>1, <2>1, <2>3, <2>4
<1>4. ASSUME NEW then \in {"cancel", "claim"}, Withdraw(r, then) PROVE CallsFit' /\ Calm
  <2>1. PICK at \in {then, "live"} : Begin(r, Loaded(Then(Fresh, then), at))
    BY <1>4 DEF Withdraw, Then
  <2>2. Stands(Then(Fresh, then), "idle", then, None, 0)
    BY <1>a, FreshTyped, ThenStands
  <2>3. Stands(Loaded(Then(Fresh, then), at), at, then, None, count)
    <3>1. /\ Then(Fresh, then) \in Calls /\ Then(Fresh, then).then = then
          /\ Then(Fresh, then).offer = None
      BY <2>2 DEF Stands
    <3>2. at \in Steps
      BY <1>a
    <3>3. request \in RequestStates /\ active \in Passes \cup {None} /\ count \in 0..MaxOffers
      BY DEF DocsTyped
    <3>4. Stands(Loaded(Then(Fresh, then), at), at, Then(Fresh, then).then,
                 Then(Fresh, then).offer, count)
      BY <3>1, <3>2, <3>3, LoadedStands
    <3> QED
      BY <3>1, <3>4
  <2>4. Fits(r, at, then, None, count)
    BY <1>0 DEF Fits, ReplySteps
  <2> QED
    BY <1>1, <2>1, <2>3, <2>4
<1> QED
  BY <1>2, <1>3, <1>4 DEF Begins, CancelRequest, PickInterval

LEMMA ReplySteps1 ==
    ASSUME DocsTyped, CallsFit, NEW r \in Replies,
           ReadRequest(r) \/ CountHeld(r) \/ ConvertLost(r) \/ FindLive(r)
    PROVE  CallsFit' /\ Calm
<1> USE DEF Past, At
<1>0. r \in Handlers /\ r # Sweeper /\ r \notin Passes /\ call[r] \in Calls /\ CallsTyped
      /\ Fits(r, call[r].at, call[r].then, call[r].offer, call[r].count)
  BY HandlersAreDistinct DEF Handlers, CallsFit, CallsTyped
<1>a. {"done", "held", "convert", "cancel", "claim"} \subseteq Steps
  BY DEF Steps
<1>b. {"PENDING", "EXPIRED", "SUPERSEDED", "REJECTED"} \subseteq OfferStates
  BY DEF OfferStates
<1>1. CASE ReadRequest(r)
  <2>0. call[r].offer \in Passes
    BY <1>0, <1>1 DEF ReadRequest, Fits
  <2>1. CASE Goto(r, "done")
    BY <1>0, <1>a, <2>1, GotoKeeps
  <2>2. CASE call' = [call EXCEPT ![r] = Loaded(@, "held")]
    <3>1. Stands(Loaded(call[r], "held"), "held", call[r].then, call[r].offer, count)
      BY <1>0, <1>a, LoadedStands DEF DocsTyped
    <3>2. Moves(r, "held", call[r].then, call[r].offer, count)
      BY <1>0, <2>2, <3>1, MovesTo
    <3>3. Fits(r, "held", call[r].then, call[r].offer, count)
      BY <1>0, <1>1 DEF Fits, ReplySteps, ReadRequest
    <3> QED
      BY <1>0, <1>1, <3>2, <3>3, MovesKeep DEF ReadRequest
  <2>3. ASSUME NEW was \in {"EXPIRED", "SUPERSEDED", "LATE"},
               RetireThese(r, {call[r].offer}, was, "EXPIRED")
        PROVE  CallsFit' /\ Calm
    BY <1>0, <1>b, <2>0, <2>3, RetireKeeps
  <2> QED
    BY <1>1, <2>1, <2>2, <2>3 DEF ReadRequest
<1>2. CASE CountHeld(r)
  <2>0. call[r].offer \in Passes
    BY <1>0, <1>2 DEF CountHeld, Fits
  <2>1. CASE RetireThese(r, {call[r].offer}, "PENDING", "EXPIRED")
    BY <1>0, <1>b, <2>0, <2>1, RetireKeeps
  <2>2. CASE Goto(r, "convert")
    <3>1. Fits(r, "convert", call[r].then, call[r].offer, call[r].count)
      BY <1>0, <1>2 DEF Fits, ReplySteps, CountHeld
    <3> QED
      BY <1>0, <1>2, <1>a, <2>2, <3>1, GotoKeeps DEF CountHeld
  <2> QED
    BY <1>2, <2>1, <2>2 DEF CountHeld
<1>3. CASE ConvertLost(r)
  <2>0. call[r].offer \in Passes
    BY <1>0, <1>3 DEF ConvertLost, Fits
  <2> QED
    BY <1>0, <1>3, <1>b, <2>0, RetireKeeps DEF ConvertLost
<1>4. CASE FindLive(r)
  <2>1. CASE Goto(r, call[r].then)
    <3>1. Fits(r, call[r].then, call[r].then, call[r].offer, call[r].count)
      BY <1>0 DEF Fits, ReplySteps
    <3> QED
      BY <1>0, <1>4, <1>a, <2>1, <3>1, GotoKeeps DEF FindLive, Fits
  <2>2. CASE RetireThese(r, {o \in Passes : status[o] = "PENDING"}, "PENDING", "REJECTED")
    BY <1>0, <1>b, <2>2, RetireKeeps
  <2> QED
    BY <1>4, <2>1, <2>2 DEF FindLive
<1> QED
  BY <1>1, <1>2, <1>3, <1>4

LEMMA ReplySteps2 ==
    ASSUME CallsFit, NEW r \in Replies,
           ConvertRefused(r) \/ Fulfil(r) \/ SaveCancelled(r) \/ ClaimFails(r)
    PROVE  CallsFit' /\ Calm
<1>1. r \in Handlers /\ "done" \in Steps /\ Goto(r, "done")
  BY DEF Handlers, Steps, ConvertRefused, Fulfil, SaveCancelled, ClaimFails
<1> QED
  BY <1>1, GotoKeeps DEF Past

\* The three steps after which a reply holds a reservation.
LEMMA TakingSteps ==
    ASSUME CallsFit, NEW r \in Replies
    PROVE  /\ Convert(r) => CallsFit' /\ Moves(r, "accept", "done", call[r].offer, call[r].count)
                            /\ call[r].offer \in Passes
           /\ MarkAccepted(r) =>
                CallsFit' /\ Moves(r, "fulfil", "done", call[r].offer, call[r].count)
                /\ call[r].offer \in Passes /\ call[r].then = "done"
           /\ Claim(r) => CallsFit' /\ Moves(r, "fulfil", "claim", call[r].offer, call[r].count)
<1> USE DEF At
<1>0. r \in Handlers /\ r # Sweeper /\ r \notin Passes /\ CallsTyped
      /\ Fits(r, call[r].at, call[r].then, call[r].offer, call[r].count)
      /\ {"accept", "fulfil"} \subseteq Steps
  BY HandlersAreDistinct DEF Handlers, CallsFit, Steps
<1>1. ASSUME Convert(r)
      PROVE  CallsFit' /\ Moves(r, "accept", "done", call[r].offer, call[r].count)
             /\ call[r].offer \in Passes
  <2>1. Fits(r, "accept", call[r].then, call[r].offer, call[r].count)
        /\ call[r].offer \in Passes /\ call[r].then = "done"
    BY <1>0, <1>1 DEF Convert, Fits, ReplySteps
  <2> QED
    BY <1>0, <1>1, <2>1, GotoKeeps, GotoMoves DEF Convert
<1>2. ASSUME MarkAccepted(r)
      PROVE  CallsFit' /\ Moves(r, "fulfil", "done", call[r].offer, call[r].count)
             /\ call[r].offer \in Passes /\ call[r].then = "done"
  <2>1. Fits(r, "fulfil", call[r].then, call[r].offer, call[r].count)
        /\ call[r].offer \in Passes /\ call[r].then = "done"
    BY <1>0, <1>2 DEF MarkAccepted, Fits, ReplySteps
  <2> QED
    BY <1>0, <1>2, <2>1, GotoKeeps, GotoMoves DEF MarkAccepted
<1>3. ASSUME Claim(r)
      PROVE  CallsFit' /\ Moves(r, "fulfil", "claim", call[r].offer, call[r].count)
  <2>1. Fits(r, "fulfil", call[r].then, call[r].offer, call[r].count) /\ call[r].then = "claim"
    BY <1>0, <1>3 DEF Claim, Fits, ReplySteps
  <2> QED
    BY <1>0, <1>3, <2>1, GotoKeeps, GotoMoves DEF Claim
<1> QED
  BY <1>1, <1>2, <1>3

LEMMA RetiringKeeps ==
    ASSUME CallsFit, NEW h \in Handlers, Retiring(h)
    PROVE  CallsFit' /\ Calm
<1> USE DEF At
<1>0. call[h] \in Calls /\ CallsTyped
      /\ Fits(h, call[h].at, call[h].then, call[h].offer, call[h].count)
  BY DEF CallsFit, CallsTyped
<1>a. {"mark", "reopen", "retire", "done", "create", "cancel", "claim"} \subseteq Steps
  BY DEF Steps
<1>b. call[h].at \in {"retire", "mark", "reopen"} /\ ~Past(call[h].at)
  BY DEF Retiring, Release, Mark, Reopen, Past
<1>c. ASSUME NEW step \in {call[h].then, "reopen", "retire", "done"}, Goto(h, step)
      PROVE  CallsFit' /\ Calm
  <2>1. step \in Steps /\ step \notin {"find", "accept", "fulfil"}
    BY <1>0, <1>a DEF Fits, Handlers
  <2>2. step # "done" => Fits(h, step, call[h].then, call[h].offer, call[h].count)
    BY <1>0, <1>b, HandlersAreDistinct
    DEF Fits, PassSteps, ReplySteps, SweepSteps, Uncounted, Handlers
  <2> QED
    BY <1>b, <1>c, <2>1, <2>2, GotoKeeps
<1>1. ASSUME NEW o \in Passes, Release(h, o) PROVE CallsFit' /\ Calm
  <2>1. call' = [call EXCEPT ![h] = Releasing(call[h], o)]
    BY <1>1 DEF Release, Releasing
  <2>2. Moves(h, "mark", call[h].then, o, call[h].count)
    BY <1>0, <2>1, ReleasingStands, MovesTo
  <2>3. Fits(h, "mark", call[h].then, o, call[h].count)
    BY <1>0, <1>b, HandlersAreDistinct
    DEF Fits, PassSteps, ReplySteps, SweepSteps, Uncounted, Handlers
  <2> QED
    BY <1>b, <2>2, <2>3, MovesKeep
<1>2. CASE Mark(h)
  BY <1>2, <1>c DEF Mark
<1>3. CASE Reopen(h)
  BY <1>3, <1>c DEF Reopen
<1> QED
  BY <1>1, <1>2, <1>3 DEF Retiring

LEMMA SweepKeeps ==
    ASSUME CallsFit, (\E o \in Passes : FindStale(o)) \/ Flip
    PROVE  CallsFit' /\ Calm
<1> USE DEF At
<1>0. Sweeper \in Handlers /\ Sweeper \notin Passes /\ Sweeper \notin Replies
      /\ call[Sweeper] \in Calls /\ CallsTyped
      /\ Fits(Sweeper, call[Sweeper].at, call[Sweeper].then, call[Sweeper].offer,
              call[Sweeper].count)
  BY HandlersAreDistinct DEF Handlers, CallsFit, CallsTyped
<1>1. ASSUME NEW o \in Passes, FindStale(o) PROVE CallsFit' /\ Calm
  <2>1. Begin(Sweeper, About(Fresh, "flip", o))
    BY <1>1 DEF FindStale, About
  <2>2. "flip" \in Steps
    BY DEF Steps
  <2>3. Stands(About(Fresh, "flip", o), "flip", "done", o, 0)
    BY <2>2, FreshTyped, AboutStands
  <2>4. Fits(Sweeper, "flip", "done", o, 0)
    BY <1>0 DEF Fits, SweepSteps
  <2> QED
    BY <1>0, <2>1, <2>3, <2>4, BeginMoves, MovesKeep DEF Past
<1>2. CASE Flip
  <2>1. call[Sweeper].offer \in Passes
    BY <1>0, <1>2 DEF Flip, Fits
  <2>2. CASE Goto(Sweeper, "done")
    BY <1>0, <1>2, <2>2, GotoKeeps DEF Flip, Past, Steps
  <2>3. CASE RetireThese(Sweeper, {call[Sweeper].offer}, "PENDING", "EXPIRED")
    BY <1>0, <2>1, <2>3, RetireKeeps DEF OfferStates
  <2> QED
    BY <1>2, <2>2, <2>3 DEF Flip
<1> QED
  BY <1>1, <1>2

LEMMA CrashKeeps ==
    ASSUME CallsFit, NEW h \in Handlers, Crash(h)
    PROVE  CallsFit' /\ Calm
  BY GotoKeeps DEF Crash, Past, Steps

\* The steps that touch no handler.
LEMMA QuietKeeps ==
    ASSUME CallsFit, UNCHANGED call
    PROVE  CallsFit' /\ Calm
  BY DEF CallsFit, CallsTyped, Calm, Fits

\* What every step does to the handlers.
Takes == \E r \in Replies : Convert(r) \/ MarkAccepted(r) \/ Claim(r)

LEMMA StepFits ==
    ASSUME DocsTyped, CallsFit, [Next]_vars
    PROVE  CallsFit' /\ (Calm \/ Takes)
<1>1. ASSUME NEW p \in Passes, Plan(p) \/ Passing(p) PROVE CallsFit' /\ Calm
  BY <1>1, PassSteps1, PassSteps2 DEF Passing
<1>2. ASSUME NEW r \in Replies, Begins(r) \/ Replying(r) PROVE CallsFit' /\ (Calm \/ Takes)
  BY <1>2, ReplyBegins, ReplySteps1, ReplySteps2, TakingSteps DEF Replying, Takes
<1>3. ASSUME NEW h \in Handlers, Retiring(h) \/ Crash(h) PROVE CallsFit' /\ Calm
  BY <1>3, RetiringKeeps, CrashKeeps
<1>4. CASE (\E o \in Passes : FindStale(o)) \/ Flip
  BY <1>4, SweepKeeps
<1>5. CASE UNCHANGED call
  BY <1>5, QuietKeeps
<1> QED
  BY <1>1, <1>2, <1>3, <1>4, <1>5 DEF Next, Lapse, PurgeLapsed, ExpireRequest, vars

----------------------------------------------------------------------------
(* The documents and the lease keep their types                             *)

LEMMA LeaseTyped ==
    ASSUME Lease!TypeOK
    PROVE  /\ \A r \in Replies : lease[r] \in SUBSET Bays
           /\ \A o \in Passes : lease[o] \in SUBSET Bays
           /\ \A o \in Passes : Lease!Release({o}) =>
                /\ Lease!TypeOK'
                /\ \A r \in Replies : lease'[r] = lease[r]
                /\ \A p \in Passes : lease'[p] # {} => lease[p] # {}
           /\ \A h \in Passes \cup Replies, bay \in Bays : Lease!Acquire(h, {bay}) =>
                /\ Lease!TypeOK'
                /\ lease'[h] # {}
                /\ \A x \in Passes \cup Replies : x # h => lease'[x] = lease[x]
           /\ \A o \in Passes, r \in Replies : Lease!Transfer(o, r) =>
                /\ Lease!TypeOK'
                /\ lease[o] # {} /\ lease'[o] = {} /\ lease'[r] # {}
                /\ \A x \in Passes \cup Replies : x \notin {o, r} => lease'[x] = lease[x]
<1> USE DEF Lease!TypeOK, Lease!Holders
<1>1. (\A r \in Replies : lease[r] \in SUBSET Bays) /\ (\A o \in Passes : lease[o] \in SUBSET Bays)
  OBVIOUS
<1>2. ASSUME NEW o \in Passes, Lease!Release({o})
      PROVE  /\ Lease!TypeOK'
             /\ \A r \in Replies : lease'[r] = lease[r]
             /\ \A p \in Passes : lease'[p] # {} => lease[p] # {}
  BY <1>2, HandlersAreDistinct DEF Lease!Release
<1>3. ASSUME NEW h \in Passes \cup Replies, NEW bay \in Bays, Lease!Acquire(h, {bay})
      PROVE  /\ Lease!TypeOK'
             /\ lease'[h] # {}
             /\ \A x \in Passes \cup Replies : x # h => lease'[x] = lease[x]
  BY <1>3 DEF Lease!Acquire
<1>4. ASSUME NEW o \in Passes, NEW r \in Replies, Lease!Transfer(o, r)
      PROVE  /\ Lease!TypeOK'
             /\ lease[o] # {} /\ lease'[o] = {} /\ lease'[r] # {}
             /\ \A x \in Passes \cup Replies : x \notin {o, r} => lease'[x] = lease[x]
  <2>1. o # r
    BY HandlersAreDistinct
  <2> QED
    BY <1>4, <2>1 DEF Lease!Transfer
<1> QED
  BY <1>1, <1>2, <1>3, <1>4

\* The steps that change the lease, and how.
LeaseSteps ==
    \/ UNCHANGED lease
    \/ \E o \in Passes : Lease!Release({o})
    \/ \E p \in Passes, bay \in Bays : Hold(p) /\ Lease!Acquire(p, {bay})
    \/ \E r \in Replies, bay \in Bays : Claim(r) /\ Lease!Acquire(r, {bay})
    \/ \E r \in Replies : Convert(r) /\ Lease!Transfer(call[r].offer, r)

LEMMA StepLeases ==
    ASSUME DocsTyped, CallsFit, [Next]_vars
    PROVE  LeaseSteps
<1> USE DEF LeaseSteps
<1>1. ASSUME NEW p \in Passes, Plan(p) \/ Passing(p) PROVE LeaseSteps
  <2>1. CASE Hold(p)
    BY <2>1 DEF Hold
  <2> QED
    BY <1>1, <2>1 DEF Plan, Passing, Waitlist, LoadRequest, CountLive, FindOld, Create,
                      HoldFails, RemoveOffer, SaveOffer
<1>2. ASSUME NEW r \in Replies, Begins(r) PROVE LeaseSteps
  BY <1>2 DEF Begins, Accept, Reject, CancelRequest, PickInterval, Withdraw
<1>3. ASSUME NEW r \in Replies, Replying(r) PROVE LeaseSteps
  <2>1. CASE Convert(r)
    BY <2>1 DEF Convert
  <2>2. CASE Claim(r)
    BY <2>2 DEF Claim
  <2>3. CASE ConvertLost(r)
    <3>1. call[r].offer \in Passes
      BY <2>3 DEF ConvertLost, CallsFit, Fits, At, Handlers
    <3> QED
      BY <2>3, <3>1 DEF ConvertLost
  <2> QED
    BY <1>3, <2>1, <2>2, <2>3 DEF Replying, ReadRequest, CountHeld, ConvertRefused,
         MarkAccepted, Fulfil, FindLive, SaveCancelled, ClaimFails
<1>4. ASSUME NEW h \in Handlers, Retiring(h) \/ Crash(h) PROVE LeaseSteps
  BY <1>4 DEF Retiring, Release, Mark, Reopen, Crash
<1>5. ASSUME NEW o \in Passes, Lapse(o) \/ PurgeLapsed(o) \/ FindStale(o) PROVE LeaseSteps
  BY <1>5 DEF Lapse, PurgeLapsed, FindStale
<1>6. CASE Flip \/ ExpireRequest \/ UNCHANGED vars
  BY <1>6 DEF Flip, ExpireRequest, vars
<1> QED
  BY <1>1, <1>2, <1>3, <1>4, <1>5, <1>6 DEF Next

LEMMA StepLeaseTyped ==
    ASSUME DocsTyped, CallsFit, [Next]_vars
    PROVE  Lease!TypeOK'
<1>1. Lease!TypeOK /\ LeaseSteps
  BY StepLeases DEF DocsTyped
<1>2. CASE UNCHANGED lease
  BY <1>1, <1>2 DEF Lease!TypeOK
<1>3. ASSUME NEW r \in Replies, Convert(r) PROVE call[r].offer \in Passes
  BY <1>3, TakingSteps
<1> QED
  BY <1>1, <1>2, <1>3, LeaseTyped DEF LeaseSteps

\* The documents alone, without the lease.
Documents ==
    /\ request \in RequestStates
    /\ active \in Passes \cup {None}
    /\ count \in 0..MaxOffers
    /\ fulfilled \in Replies \cup {None}
    /\ status \in [Passes -> OfferStates]
    /\ lapsed \in [Passes -> BOOLEAN]
    /\ accepted \in [Passes -> Replies \cup {None}]
    /\ strayed \subseteq Passes

LEMMA DocumentsSame ==
    ASSUME Documents, UNCHANGED <<requestDoc, offerDocs>>
    PROVE  Documents'
  BY DEF Documents, requestDoc, offerDocs

LEMMA StatusTyped ==
    ASSUME Documents, NEW o \in Passes, NEW as \in OfferStates,
           status' \in {status, [status EXCEPT ![o] = as]},
           UNCHANGED <<requestDoc, lapsed, accepted, strayed>>
    PROVE  Documents'
  BY DEF Documents, requestDoc

LEMMA RequestTyped ==
    ASSUME Documents, request' \in RequestStates, active' \in Passes \cup {None},
           UNCHANGED <<count, fulfilled, status, lapsed, accepted>>, strayed' \subseteq Passes
    PROVE  Documents'
  BY DEF Documents

LEMMA PassDocs ==
    ASSUME Documents, CallsFit, NEW p \in Passes, Plan(p) \/ Passing(p)
    PROVE  Documents'
<1> USE DEF At
<1>1. CASE Waitlist(p)
  BY <1>1, RequestTyped DEF Waitlist, RequestStates, Active, Documents, offerDocs
<1>2. CASE Create(p)
  BY <1>2, StatusTyped DEF Create, OfferStates
<1>3. CASE RemoveOffer(p)
  BY <1>3, StatusTyped DEF RemoveOffer, OfferStates
<1>4. CASE SaveOffer(p)
  <2>1. call[p].count \in 0..MaxOffers /\ call[p].count < MaxOffers
    BY <1>4 DEF SaveOffer, CallsFit, CallsTyped, Fits, Uncounted, Handlers, Calls
  <2>2. call[p].count + 1 \in 0..MaxOffers
    BY <2>1, CapIsNatural
  <2> QED
    BY <1>4, <2>2 DEF SaveOffer, Documents, offerDocs, RequestStates
<1> QED
  BY <1>1, <1>2, <1>3, <1>4, DocumentsSame
  DEF Plan, Passing, LoadRequest, CountLive, FindOld, Hold, HoldFails

LEMMA ReplyDocs ==
    ASSUME Documents, CallsFit, NEW r \in Replies, Begins(r) \/ Replying(r)
    PROVE  Documents'
<1> USE DEF At
<1>1. CASE MarkAccepted(r)
  <2>1. call[r].offer \in Passes
    BY <1>1, TakingSteps
  <2> QED
    BY <1>1, <2>1 DEF MarkAccepted, Documents, OfferStates, requestDoc
<1>2. CASE Fulfil(r)
  BY <1>2 DEF Fulfil, Documents, RequestStates, Closed, offerDocs
<1>3. CASE SaveCancelled(r)
  BY <1>3, RequestTyped DEF SaveCancelled, Documents, RequestStates, Closed, offerDocs
<1>4. CASE Begins(r)
  BY <1>4, DocumentsSame DEF Begins, Accept, Reject, CancelRequest, PickInterval, Withdraw
<1> QED
  BY <1>1, <1>2, <1>3, <1>4, DocumentsSame
  DEF Replying, ReadRequest, CountHeld, Convert, ConvertLost, ConvertRefused, FindLive,
      Claim, ClaimFails

LEMMA RetiringDocs ==
    ASSUME Documents, CallsFit, NEW h \in Handlers, Retiring(h) \/ Crash(h)
    PROVE  Documents'
<1> USE DEF At
<1>1. CASE Mark(h)
  <2>1. call[h].offer \in Passes /\ call[h].verdict \in OfferStates
    BY <1>1 DEF Mark, CallsFit, CallsTyped, Fits, Calls
  <2>2. status' \in {status, [status EXCEPT ![call[h].offer] = call[h].verdict]}
        /\ UNCHANGED <<requestDoc, lapsed, accepted, strayed>>
    BY <1>1 DEF Mark
  <2> QED
    BY <2>1, <2>2, StatusTyped
<1>2. CASE Reopen(h)
  BY <1>2, RequestTyped DEF Reopen, Stray, RequestStates, Active, Documents
<1> QED
  BY <1>1, <1>2, DocumentsSame DEF Retiring, Release, Crash

LEMMA OtherDocs ==
    ASSUME Documents, CallsFit,
           \/ \E o \in Passes : Lapse(o) \/ PurgeLapsed(o) \/ FindStale(o)
           \/ Flip \/ ExpireRequest \/ UNCHANGED vars
    PROVE  Documents'
<1>1. ASSUME NEW o \in Passes, Lapse(o) PROVE Documents'
  BY <1>1 DEF Lapse, Documents, requestDoc
<1>2. CASE Flip
  <2>1. call[Sweeper].offer \in Passes
    BY <1>2 DEF Flip, CallsFit, Fits, Handlers, At
  <2> QED
    BY <1>2, <2>1, StatusTyped DEF Flip, OfferStates
<1>3. CASE ExpireRequest
  BY <1>3, RequestTyped DEF ExpireRequest, RequestStates, Closed, Documents, offerDocs
<1> QED
  BY <1>1, <1>2, <1>3, DocumentsSame DEF PurgeLapsed, FindStale, vars

LEMMA StepDocs ==
    ASSUME DocsTyped, CallsFit, [Next]_vars
    PROVE  DocsTyped'
<1>1. Documents
  BY DEF DocsTyped, Documents
<1>2. Documents'
  BY <1>1, PassDocs, ReplyDocs, RetiringDocs, OtherDocs DEF Next
<1>3. serial' \in BOOLEAN
  <2>1. CASE \/ \E p \in Passes : Plan(p) \/ Passing(p)
             \/ \E r \in Replies : Begins(r) \/ Replying(r)
    BY <2>1 DEF DocsTyped, Plan, Passing, Waitlist, LoadRequest, CountLive, FindOld, Create,
         Hold, HoldFails, RemoveOffer, SaveOffer, Begins, Accept, Reject, CancelRequest,
         PickInterval, Withdraw, Begin, Replying, ReadRequest, CountHeld, Convert,
         ConvertLost, ConvertRefused, MarkAccepted, Fulfil, FindLive, SaveCancelled, Claim,
         ClaimFails
  <2>2. CASE \/ \E h \in Handlers : Retiring(h) \/ Crash(h)
             \/ \E o \in Passes : Lapse(o) \/ PurgeLapsed(o) \/ FindStale(o)
             \/ Flip \/ ExpireRequest \/ UNCHANGED vars
    BY <2>2 DEF DocsTyped, Retiring, Release, Mark, Reopen, Crash, Lapse, PurgeLapsed,
         FindStale, Begin, Flip, ExpireRequest, vars
  <2> QED
    BY <2>1, <2>2 DEF Next
<1> QED
  BY <1>2, <1>3, StepLeaseTyped DEF Documents, DocsTyped

LEMMA InitFits == Init => DocsTyped /\ CallsFit
<1> SUFFICES ASSUME Init PROVE DocsTyped /\ CallsFit
  OBVIOUS
<1>1. DocsTyped
  BY CapIsNatural DEF Init, DocsTyped, RequestStates, Active, OfferStates, Lease!TypeOK,
     Lease!Init
<1>2. CallsFit
  <2>1. DOMAIN call = Handlers /\ \A h \in Handlers : call[h] = Fresh
    BY DEF Init
  <2> QED
    BY <2>1, FreshTyped, HandlersAreDistinct
    DEF CallsFit, CallsTyped, Fits, PassSteps, ReplySteps, SweepSteps, Uncounted, Handlers
<1> QED
  BY <1>1, <1>2

----------------------------------------------------------------------------
(* The invariant: one hold becomes at most one reservation                  *)

\* Whoever stands for a reservation owns its time.
Backed ==
    /\ \A r \in Replies : call[r].at \in {"accept", "fulfil"} => lease[r] # {}
    /\ ReservationsAreBacked

\* A hold is taken by a pass that takes no other, and what was handed over is
\* gone from the offer for good: there is nothing a second reply could take.
TakeInv ==
    /\ \A o \in Passes : lease[o] # {} => Past(call[o].at)
    /\ \A o \in Passes : Takers(o) # {} => lease[o] = {} /\ Past(call[o].at)
    /\ \A o \in Passes : \A a, b \in Takers(o) : a = b

IInv == DocsTyped /\ CallsFit /\ Backed /\ TakeInv

\* The steps that name a reservation.
LEMMA StepNames ==
    ASSUME [Next]_vars
    PROVE  /\ UNCHANGED accepted \/ \E r \in Replies : MarkAccepted(r)
           /\ \/ UNCHANGED fulfilled /\ (request' = "FULFILLED" => request = "FULFILLED")
              \/ \E r \in Replies : Fulfil(r)
<1> DEFINE A == UNCHANGED accepted \/ \E r \in Replies : MarkAccepted(r)
           F == \/ UNCHANGED fulfilled /\ (request' = "FULFILLED" => request = "FULFILLED")
                \/ \E r \in Replies : Fulfil(r)
<1>1. ASSUME NEW p \in Passes, Plan(p) \/ Passing(p) PROVE A /\ F
  BY <1>1 DEF Plan, Passing, Waitlist, LoadRequest, CountLive, FindOld, Create, Hold,
       HoldFails, RemoveOffer, SaveOffer, requestDoc, offerDocs
<1>2. ASSUME NEW r \in Replies, Begins(r) \/ Replying(r) PROVE A /\ F
  <2>1. CASE MarkAccepted(r)
    <3>1. UNCHANGED requestDoc
      BY <2>1 DEF MarkAccepted
    <3> QED
      BY <2>1, <3>1 DEF requestDoc
  <2>2. CASE Fulfil(r)
    <3>1. UNCHANGED offerDocs
      BY <2>2 DEF Fulfil
    <3> QED
      BY <2>2, <3>1 DEF offerDocs
  <2>3. CASE Begins(r)
    BY <2>3 DEF Begins, Accept, Reject, CancelRequest, PickInterval, Withdraw, requestDoc,
         offerDocs
  <2> QED
    BY <1>2, <2>1, <2>2, <2>3 DEF Replying, ReadRequest, CountHeld, Convert, ConvertLost,
         ConvertRefused, FindLive, SaveCancelled, Claim, ClaimFails, requestDoc, offerDocs
<1>3. ASSUME NEW h \in Handlers, Retiring(h) \/ Crash(h) PROVE A /\ F
  BY <1>3 DEF Retiring, Release, Mark, Reopen, Crash, requestDoc, offerDocs
<1>4. ASSUME NEW o \in Passes, Lapse(o) \/ PurgeLapsed(o) \/ FindStale(o) PROVE A /\ F
  BY <1>4 DEF Lapse, PurgeLapsed, FindStale, requestDoc, offerDocs
<1>5. CASE Flip \/ ExpireRequest \/ UNCHANGED vars
  BY <1>5 DEF Flip, ExpireRequest, vars, requestDoc, offerDocs
<1> QED
  BY <1>1, <1>2, <1>3, <1>4, <1>5 DEF Next

\* Within this module a reservation that owns time keeps it.
LEMMA ReservationsStay ==
    ASSUME DocsTyped, CallsFit, [Next]_vars, NEW r \in Replies, lease[r] # {}
    PROVE  lease'[r] # {}
<1>1. LeaseSteps /\ Lease!TypeOK
  BY StepLeases DEF DocsTyped
<1>2. \A x \in Replies : Convert(x) => call[x].offer \in Passes
  BY TakingSteps
<1>3. \A o \in Passes : o # r
  BY HandlersAreDistinct
<1>4. ASSUME NEW o \in Passes, Lease!Release({o}) PROVE lease'[r] # {}
  BY <1>1, <1>4, LeaseTyped
<1>5. ASSUME NEW h \in Passes \cup Replies, NEW bay \in Bays, Lease!Acquire(h, {bay})
      PROVE  lease'[r] # {}
  <2>1. lease'[h] # {} /\ \A x \in Passes \cup Replies : x # h => lease'[x] = lease[x]
    BY <1>1, <1>5, LeaseTyped
  <2> QED
    BY <2>1
<1>6. ASSUME NEW x \in Replies, NEW o \in Passes, Lease!Transfer(o, x) PROVE lease'[r] # {}
  <2>1. lease'[x] # {} /\ \A y \in Passes \cup Replies : y \notin {o, x} => lease'[y] = lease[y]
    BY <1>1, <1>6, LeaseTyped
  <2> QED
    BY <1>3, <2>1
<1> QED
  BY <1>1, <1>2, <1>4, <1>5, <1>6 DEF LeaseSteps

LEMMA StepBacked ==
    ASSUME IInv, [Next]_vars
    PROVE  Backed'
<1>0. DocsTyped /\ CallsFit /\ Backed /\ Documents'
  BY StepDocs DEF IInv, DocsTyped, Documents
<1>1. ASSUME NEW r \in Replies, call'[r].at \in {"accept", "fulfil"} PROVE lease'[r] # {}
  <2>1. CASE call'[r] = call[r]
    BY <1>0, <1>1, <2>1, ReservationsStay DEF Backed
  <2>2. CASE Convert(r)
    <3>1. call[r].offer \in Passes /\ Lease!Transfer(call[r].offer, r)
      BY <1>0, <2>2, TakingSteps DEF Convert
    <3> QED
      BY <1>0, <3>1, LeaseTyped DEF DocsTyped
  <2>3. CASE MarkAccepted(r)
    BY <1>0, <2>3, ReservationsStay DEF Backed, MarkAccepted, At
  <2>4. CASE Claim(r)
    BY <1>0, <2>4, LeaseTyped DEF DocsTyped, Claim
  <2>5. ASSUME NEW x \in Replies \ {r}, Convert(x) \/ MarkAccepted(x) \/ Claim(x)
        PROVE  call'[r] = call[r]
    BY <1>0, <2>5, TakingSteps DEF Moves, Handlers
  <2> QED
    BY <1>0, <1>1, <2>1, <2>2, <2>3, <2>4, <2>5, StepFits DEF Calm, Takes
<1>2. ASSUME NEW o \in Passes, accepted'[o] # None PROVE lease'[accepted'[o]] # {}
  <2>1. CASE accepted'[o] = accepted[o]
    <3>1. accepted[o] \in Replies /\ lease[accepted[o]] # {}
      BY <1>0, <1>2, <2>1 DEF Backed, ReservationsAreBacked, DocsTyped
    <3> QED
      BY <1>0, <2>1, <3>1, ReservationsStay
  <2>2. ASSUME NEW r \in Replies, MarkAccepted(r), accepted'[o] # accepted[o]
        PROVE  lease'[accepted'[o]] # {}
    <3>1. accepted'[o] = r
      BY <1>0, <2>2 DEF MarkAccepted, DocsTyped
    <3>2. lease[r] # {}
      BY <1>0, <2>2 DEF Backed, MarkAccepted, At
    <3> QED
      BY <1>0, <3>1, <3>2, ReservationsStay
  <2> QED
    BY <2>1, <2>2, StepNames
<1>3. /\ request' = "FULFILLED" => fulfilled' # None
      /\ fulfilled' # None => lease'[fulfilled'] # {}
  <2>1. ASSUME NEW r \in Replies, Fulfil(r) PROVE fulfilled' = r /\ lease[r] # {} /\ r # None
    BY <1>0, <2>1, HandlersAreDistinct DEF Fulfil, Backed, At
  <2>2. ASSUME NEW r \in Replies, Fulfil(r)
        PROVE  fulfilled' # None /\ lease'[fulfilled'] # {}
    BY <1>0, <2>1, <2>2, ReservationsStay
  <2>3. CASE UNCHANGED fulfilled /\ (request' = "FULFILLED" => request = "FULFILLED")
    <3>1. fulfilled # None => fulfilled \in Replies /\ lease[fulfilled] # {}
      BY <1>0 DEF Backed, ReservationsAreBacked, DocsTyped
    <3>2. request = "FULFILLED" => fulfilled # None
      BY <1>0 DEF Backed, ReservationsAreBacked
    <3> QED
      BY <1>0, <2>3, <3>1, <3>2, ReservationsStay
  <2> QED
    BY <2>2, <2>3, StepNames
<1> QED
  BY <1>1, <1>2, <1>3 DEF Backed, ReservationsAreBacked

LEMMA PastStays ==
    ASSUME DocsTyped, CallsFit, [Next]_vars, NEW o \in Passes, Past(call[o].at)
    PROVE  Past(call'[o].at)
<1>1. ASSUME NEW r \in Replies, Convert(r) \/ MarkAccepted(r) \/ Claim(r)
      PROVE  call'[o] = call[o]
  <2>1. o \in Handlers \ {r}
    BY HandlersAreDistinct DEF Handlers
  <2> QED
    BY <1>1, <2>1, TakingSteps DEF Moves
<1> QED
  BY <1>1, StepFits DEF Takes, Calm

\* An offer comes to hold time only by the hold of its own pass.
LEMMA OffersHold ==
    ASSUME DocsTyped, CallsFit, [Next]_vars, NEW o \in Passes, lease'[o] # {}, ~Hold(o)
    PROVE  lease[o] # {}
<1>1. LeaseSteps /\ Lease!TypeOK
  BY StepLeases DEF DocsTyped
<1>2. ASSUME NEW p \in Passes, Lease!Release({p}) PROVE lease[o] # {}
  BY <1>1, <1>2, LeaseTyped
<1>3. ASSUME NEW h \in Passes \cup Replies, NEW bay \in Bays, Lease!Acquire(h, {bay}), h # o
      PROVE  lease[o] # {}
  <2>1. \A x \in Passes \cup Replies : x # h => lease'[x] = lease[x]
    BY <1>1, <1>3, LeaseTyped
  <2> QED
    BY <1>3, <2>1
<1>4. ASSUME NEW r \in Replies, Convert(r), Lease!Transfer(call[r].offer, r)
      PROVE  lease[o] # {}
  <2>1. PICK p \in Passes : p = call[r].offer
    BY <1>4, TakingSteps
  <2>2. lease'[p] = {} /\ \A x \in Passes \cup Replies : x \notin {p, r} => lease'[x] = lease[x]
    BY <1>1, <1>4, <2>1, LeaseTyped
  <2> QED
    BY <2>2, HandlersAreDistinct
<1>5. \A r \in Replies : r # o
  BY HandlersAreDistinct
<1> QED
  BY <1>1, <1>2, <1>3, <1>4, <1>5 DEF LeaseSteps

\* A reply becomes a taker of an offer only by converting its hold.
LEMMA TakersGrow ==
    ASSUME DocsTyped, CallsFit, [Next]_vars, NEW o \in Passes, NEW x \in Takers(o)'
    PROVE  x \in Takers(o) \/ (Convert(x) /\ call[x].offer = o)
<1>0. x \in Replies
  BY DEF Takers
<1>1. CASE x = accepted'[o]
  <2>1. CASE accepted' = accepted
    BY <1>0, <1>1, <2>1 DEF Takers
  <2>2. ASSUME NEW r \in Replies, MarkAccepted(r) PROVE x \in Takers(o)
    <3>1. call[r].offer \in Passes /\ call[r].then = "done" /\ call[r].at = "accept"
      BY <2>2, TakingSteps DEF MarkAccepted, At
    <3>2. accepted' = [accepted EXCEPT ![call[r].offer] = r]
      BY <2>2 DEF MarkAccepted
    <3>3. CASE call[r].offer = o
      BY <1>0, <1>1, <3>1, <3>2, <3>3 DEF Takers, DocsTyped
    <3>4. CASE call[r].offer # o
      BY <1>0, <1>1, <3>1, <3>2, <3>4 DEF Takers, DocsTyped
    <3> QED
      BY <3>3, <3>4
  <2> QED
    BY <2>1, <2>2, StepNames
<1>2. CASE call'[x].offer = o /\ call'[x].then # "claim" /\ call'[x].at \in {"accept", "fulfil"}
  <2>1. CASE call'[x] = call[x]
    BY <1>0, <1>2, <2>1 DEF Takers
  <2>2. CASE Convert(x)
    BY <1>0, <1>2, <2>2, TakingSteps DEF Moves
  <2>3. CASE MarkAccepted(x)
    BY <1>0, <1>2, <2>3, TakingSteps DEF Moves, MarkAccepted, At, Takers
  <2>4. CASE Claim(x)
    BY <1>0, <1>2, <2>4, TakingSteps DEF Moves
  <2>5. ASSUME NEW r \in Replies, r # x, Convert(r) \/ MarkAccepted(r) \/ Claim(r)
        PROVE  call'[x] = call[x]
    BY <1>0, <2>5, TakingSteps DEF Moves, Handlers
  <2> QED
    BY <1>0, <1>2, <2>1, <2>2, <2>3, <2>4, <2>5, StepFits DEF Takes, Calm
<1> QED
  BY <1>1, <1>2 DEF Takers

LEMMA StepTakes ==
    ASSUME IInv, [Next]_vars
    PROVE  TakeInv'
<1>0. DocsTyped /\ CallsFit /\ TakeInv
  BY DEF IInv
<1>1. ASSUME NEW o \in Passes, Hold(o) PROVE ~Past(call[o].at) /\ Past(call'[o].at)
  <2>1. o \in Handlers /\ "save" \in Steps /\ CallsTyped
    BY <1>0 DEF Handlers, Steps, CallsFit
  <2>2. call'[o].at = "save"
    BY <1>1, <2>1, GotoMoves DEF Hold, Moves
  <2> QED
    BY <1>1, <2>2 DEF Hold, At, Past
<1>2. ASSUME NEW r \in Replies, NEW o \in Passes, Convert(r), call[r].offer = o
      PROVE  lease[o] # {} /\ lease'[o] = {}
  <2>1. Lease!Transfer(o, r) /\ Lease!TypeOK
    BY <1>0, <1>2 DEF Convert, DocsTyped
  <2> QED
    BY <2>1, LeaseTyped
<1>3. ASSUME NEW o \in Passes, lease'[o] # {} PROVE Past(call'[o].at)
  BY <1>0, <1>1, <1>3, OffersHold, PastStays DEF TakeInv
<1>4. ASSUME NEW o \in Passes, NEW x \in Takers(o)'
      PROVE  lease'[o] = {} /\ Past(call'[o].at)
  <2>0. x \in Replies
    BY DEF Takers
  <2>1. CASE x \in Takers(o)
    <3>1. lease[o] = {} /\ Past(call[o].at)
      BY <1>0, <2>1 DEF TakeInv
    <3> QED
      BY <1>0, <1>1, <3>1, OffersHold, PastStays
  <2>2. CASE Convert(x) /\ call[x].offer = o
    BY <1>0, <1>2, <2>0, <2>2, PastStays DEF TakeInv
  <2> QED
    BY <1>0, <2>1, <2>2, TakersGrow
<1>5. ASSUME NEW o \in Passes, NEW a \in Takers(o)', NEW b \in Takers(o)' PROVE a = b
  <2>0. a \in Replies /\ b \in Replies
    BY DEF Takers
  <2>1. ASSUME NEW x \in Replies, Convert(x), call[x].offer = o PROVE Takers(o) = {}
    BY <1>0, <1>2, <2>1 DEF TakeInv
  <2>2. ASSUME Convert(a), Convert(b), a # b PROVE FALSE
    <3>1. call[b].at = "convert" /\ call'[b].at = "accept"
      BY <1>0, <2>0, <2>2, TakingSteps DEF Convert, At, Moves
    <3>2. call'[b] = call[b]
      BY <1>0, <2>0, <2>2, TakingSteps DEF Moves, Handlers
    <3> QED
      BY <3>1, <3>2
  <2>3. CASE a \in Takers(o) /\ b \in Takers(o)
    BY <1>0, <2>3 DEF TakeInv
  <2> QED
    BY <1>0, <2>0, <2>1, <2>2, <2>3, TakersGrow
<1> QED
  BY <1>3, <1>4, <1>5 DEF TakeInv

\* The invariant holds throughout, whatever overlaps and whatever dies.
THEOREM OffersAlways == Spec => []IInv
<1>1. Init => IInv
  <2> SUFFICES ASSUME Init PROVE IInv
    OBVIOUS
  <2>1. DocsTyped /\ CallsFit
    BY InitFits
  <2>2. \A h \in Handlers : call[h].at = "idle"
    BY FreshTyped DEF Init
  <2>3. Backed
    BY <2>2 DEF Init, Backed, ReservationsAreBacked, Handlers
  <2>4. \A o \in Passes : Takers(o) = {} /\ lease[o] = {}
    BY <2>2, HandlersAreDistinct DEF Init, Takers, Handlers, Lease!Init, Lease!Holders
  <2> QED
    BY <2>1, <2>3, <2>4 DEF IInv, TakeInv
<1>2. IInv /\ [Next]_vars => IInv'
  BY StepFits, StepDocs, StepBacked, StepTakes DEF IInv
<1> QED
  BY <1>1, <1>2, PTL DEF Spec

\* Every document, every handler and the lease keep their types.
THEOREM TypeCorrect == Spec => []TypeOK
<1>1. IInv => TypeOK
  BY TypeIsDocs DEF IInv, CallsFit
<1> QED
  BY <1>1, OffersAlways, PTL

LEMMA AtMostOne ==
    ASSUME NEW S, \A a, b \in S : a = b
    PROVE  Cardinality(S) <= 1
<1>1. CASE S = {}
  BY <1>1, FS_EmptySet
<1>2. ASSUME NEW a \in S PROVE Cardinality(S) <= 1
  <2>1. S = {a}
    BY <1>2
  <2> QED
    BY <2>1, FS_Singleton
<1> QED
  BY <1>1, <1>2

\* However many acceptances, sweeps and crashes interleave, one hold becomes at
\* most one reservation.
THEOREM AcceptanceIsOnce == Spec => []OneReservationPerOffer
<1>1. IInv => OneReservationPerOffer
  <2> SUFFICES ASSUME IInv, NEW o \in Passes PROVE Cardinality(Takers(o)) <= 1
    BY DEF OneReservationPerOffer
  <2>1. \A a, b \in Takers(o) : a = b
    BY DEF IInv, TakeInv
  <2> QED
    BY <2>1, AtMostOne
<1> QED
  BY <1>1, OffersAlways, PTL

\* An offer or a request that names a reservation names one that owns time.
THEOREM NamesAreBacked == Spec => []ReservationsAreBacked
<1>1. IInv => ReservationsAreBacked
  BY DEF IInv, Backed
<1> QED
  BY <1>1, OffersAlways, PTL

----------------------------------------------------------------------------
(* One handler at a time                                                    *)

\* While handlers take turns, one of them is in flight at most, and the
\* documents are right except for what that handler has still to write.
LiveOffers == {o \in Passes : Live(o)}
Made == {o \in Passes : Offered(o)}

\* One offer is live, and it is the one the request names.
Single == /\ \A o, q \in LiveOffers : o = q
          /\ active # None => LiveOffers \subseteq {active}
Paired == request = "PENDING" => active # None /\ status[active] = "PENDING"
Counted == Cardinality(Made) <= count
AtRest == Single /\ Paired /\ Counted

\* A pass whose document exists, and is not yet named by the request.
Making == {"hold", "remove", "save"}
Retreating == {"retire", "mark"}

PassRight(p) ==
    LET c == call[p] IN
    /\ request # "PENDING" /\ c.status # "PENDING"
    /\ c.at # "reopen"
    /\ c.at \notin Uncounted => c.count = count
    /\ c.at \in Making => /\ status[p] = "PENDING" /\ LiveOffers \subseteq {p}
                          /\ Cardinality(Made \ {p}) <= count
    /\ c.at \notin Making => status[p] = "none" /\ Single /\ Counted
    /\ c.at \in {"count", "find"} => c.active = active
    /\ c.at = "create" => LiveOffers = {}
    /\ c.at \in Retreating =>
         /\ c.seen = "PENDING" /\ c.verdict = "SUPERSEDED"
         /\ c.active \in Passes /\ status[c.active] = "PENDING"
         /\ LiveOffers \subseteq {c.active}
    /\ c.at = "retire" => c.todo = {c.active}
    /\ c.at = "mark" => c.offer = c.active

\* What a reply or the sweep has still to retire was offered, and is not saved
\* as expired once the customer has declined it.
Due(c) == c.todo \cup (IF c.at = "mark" THEN {c.offer} ELSE {})

ReplyRight(h) ==
    LET c == call[h] IN
    /\ Single /\ Counted
    /\ c.status = "FULFILLED" => request = "FULFILLED"
    /\ c.at \notin {"retire", "mark", "reopen", "fulfil"} => Paired
    /\ c.at = "request" =>
         Offered(c.offer) /\ status[c.offer] = IF c.seen = "LATE" THEN "PENDING" ELSE c.seen
    /\ c.at \in {"held", "convert", "accept"} => status[c.offer] = "PENDING"
    /\ c.at \in {"retire", "mark", "reopen"} =>
         /\ c.verdict \in {"EXPIRED", "REJECTED"}
         /\ \A o \in Due(c) : Offered(o) /\ (status[o] = "REJECTED" => c.verdict = "REJECTED")

Right(h) == IF h \in Passes THEN PassRight(h) ELSE ReplyRight(h)

TurnInv ==
    serial => /\ IsFiniteSet(Made)
              /\ \A p \in Passes : At(p, "idle") => status[p] = "none"
              /\ Busy = {} => AtRest
              /\ \A h \in Busy : Busy = {h} /\ Right(h)

----------------------------------------------------------------------------
(* What a handler remembers across a step                                   *)

\* A handler that goes on keeps what it loaded and what it has still to do.
Remembers(n, c) ==
    /\ n.status = c.status /\ n.active = c.active /\ n.count = c.count
    /\ n.offer = c.offer /\ n.seen = c.seen /\ n.todo = c.todo
    /\ n.verdict = c.verdict /\ n.then = c.then

LEMMA GotoReads ==
    ASSUME CallsTyped, NEW h \in Handlers, NEW step \in Steps, Goto(h, step)
    PROVE  /\ \A x \in Handlers \ {h} : call'[x] = call[x]
           /\ step # "done" => call'[h].at = step /\ Remembers(call'[h], call[h])
           /\ step = "done" => ~InFlight(h)' /\ (h # Sweeper => call'[h].at = "done")
<1>1. call[h] \in Calls
  BY DEF CallsTyped
<1>2. Goto(h, step) => Moves(h, call'[h].at, call'[h].then, call'[h].offer, call'[h].count)
  BY GotoMoves DEF Moves
<1>3. ASSUME step # "done" PROVE call'[h].at = step /\ Remembers(call'[h], call[h])
  <2>1. call'[h] = [call[h] EXCEPT !.at = step]
    BY <1>3 DEF Goto, CallsTyped
  <2> QED
    BY <1>1, <2>1 DEF Calls, Remembers
<1>4. ASSUME step = "done" PROVE ~InFlight(h)' /\ (h # Sweeper => call'[h].at = "done")
  BY <1>4, GotoMoves DEF Moves, InFlight
<1> QED
  BY <1>2, <1>3, <1>4 DEF Moves

LEMMA RetireReads ==
    ASSUME CallsTyped, NEW h \in Handlers, NEW offers, NEW was, NEW as,
           RetireThese(h, offers, was, as)
    PROVE  /\ \A x \in Handlers \ {h} : call'[x] = call[x]
           /\ call'[h].at = "retire" /\ call'[h].status = call[h].status
           /\ call'[h].todo = offers /\ call'[h].verdict = as
<1>1. call[h] \in Calls
  BY DEF CallsTyped
<1>2. call' = [call EXCEPT ![h] = Retired(call[h], offers, was, as)]
  BY DEF RetireThese, Retired
<1> QED
  BY <1>1, <1>2 DEF CallsTyped, Calls, Retired

LEMMA LoadReads ==
    ASSUME CallsTyped, NEW h \in Handlers, NEW step,
           call' = [call EXCEPT ![h] = Loaded(@, step)]
    PROVE  /\ \A x \in Handlers \ {h} : call'[x] = call[x]
           /\ call'[h].at = step /\ call'[h].status = request
           /\ call'[h].active = active /\ call'[h].count = count
           /\ call'[h].offer = call[h].offer
<1>1. call[h] \in Calls
  BY DEF CallsTyped
<1> QED
  BY <1>1 DEF CallsTyped, Calls, Loaded

----------------------------------------------------------------------------
(* What a write to an offer's status does to the two sets                   *)

LEMMA StatusKept ==
    ASSUME UNCHANGED <<status, lapsed>>
    PROVE  Made' = Made /\ LiveOffers' = LiveOffers
  BY DEF Made, Offered, LiveOffers, Live

\* A retirement: the offer stays made, and is live no longer.
LEMMA StatusRetired ==
    ASSUME status \in [Passes -> OfferStates], NEW o \in Passes, Offered(o),
           NEW as \in OfferStates \ {"none", "deleted", "PENDING"},
           status' = [status EXCEPT ![o] = as], lapsed' = lapsed
    PROVE  /\ Made' = Made /\ LiveOffers' = LiveOffers \ {o}
           /\ status'[o] = as /\ \A p \in Passes \ {o} : status'[p] = status[p]
<1>1. status'[o] = as /\ \A p \in Passes \ {o} : status'[p] = status[p]
  OBVIOUS
<1>2. \A p \in Passes : Offered(p)' <=> Offered(p)
  BY <1>1 DEF Offered
<1>3. \A p \in Passes : Live(p)' <=> Live(p) /\ p # o
  BY <1>1 DEF Live
<1> QED
  BY <1>1, <1>2, <1>3 DEF Made, LiveOffers

LEMMA SinglyFewer ==
    ASSUME Single, LiveOffers' \subseteq LiveOffers, active' \in {active, None}
    PROVE  Single'
  BY DEF Single

----------------------------------------------------------------------------
(* How the turn passes                                                      *)

LEMMA Mover ==
    ASSUME TurnInv, serial, NEW h \in Handlers, InFlight(h)
    PROVE  Busy = {h} /\ Right(h)
  BY DEF TurnInv, Busy

LEMMA TurnPasses ==
    ASSUME TurnInv, serial, NEW h \in Handlers, Busy \subseteq {h},
           \A x \in Handlers \ {h} : call'[x] = call[x],
           IsFiniteSet(Made'),
           \A p \in Passes \ {h} : status[p] = "none" => status'[p] = "none",
           h \in Passes => call'[h].at # "idle",
           InFlight(h)' => Right(h)',
           ~InFlight(h)' => AtRest'
    PROVE  TurnInv'
<1>1. \A x \in Handlers : InFlight(x)' => x = h
  BY DEF Busy, InFlight
<1>2. Busy' = IF InFlight(h)' THEN {h} ELSE {}
  BY <1>1 DEF Busy
<1>3. ASSUME NEW p \in Passes, call'[p].at = "idle" PROVE status'[p] = "none"
  <2>1. p # h /\ p \in Handlers
    BY <1>3 DEF Handlers
  <2> QED
    BY <1>3, <2>1 DEF TurnInv, At
<1> QED
  BY <1>2, <1>3 DEF TurnInv, At

\* Steps that write no offer and end the turn, or leave the mover right.
LEMMA TurnKept ==
    ASSUME TurnInv, serial, NEW h \in Handlers, Busy \subseteq {h},
           \A x \in Handlers \ {h} : call'[x] = call[x],
           UNCHANGED status,
           h \in Passes => call'[h].at # "idle",
           InFlight(h)' => Right(h)',
           ~InFlight(h)' => AtRest'
    PROVE  TurnInv'
<1>1. IsFiniteSet(Made') /\ \A p \in Passes : status[p] = "none" => status'[p] = "none"
  BY DEF TurnInv, Made, Offered
<1> QED
  BY <1>1, TurnPasses

----------------------------------------------------------------------------
(* The optimizer pass in turn                                               *)

InTurn == DocsTyped /\ CallsFit /\ TurnInv /\ serial

LEMMA PassInTurn ==
    ASSUME InTurn, NEW p \in Passes, InFlight(p)
    PROVE  /\ p \in Handlers /\ p # Sweeper /\ CallsTyped /\ call[p] \in Calls
           /\ Busy = {p} /\ PassRight(p)
  BY Mover, HandlersAreDistinct DEF InTurn, CallsFit, CallsTyped, Handlers, Right

\* The step of a pass that ends it: the documents must be at rest.
LEMMA PassEnds ==
    ASSUME InTurn, NEW p \in Passes, InFlight(p), Goto(p, "done"), UNCHANGED status, AtRest'
    PROVE  TurnInv'
<1>1. p \in Handlers /\ p # Sweeper /\ CallsTyped /\ Busy = {p} /\ "done" \in Steps
  BY PassInTurn DEF Steps
<1>2. ~InFlight(p)' /\ call'[p].at = "done" /\ \A x \in Handlers \ {p} : call'[x] = call[x]
  BY <1>1, GotoReads
<1> QED
  BY <1>1, <1>2, TurnKept DEF InTurn

LEMMA PlanInTurn ==
    ASSUME InTurn, NEW p \in Passes, Plan(p), serial'
    PROVE  TurnInv'
<1>1. PICK step \in {"load", "waitlist"} : Begin(p, [Fresh EXCEPT !.at = step])
  BY DEF Plan
<1>2. p \in Handlers /\ CallsTyped /\ Busy = {} /\ call[p].at = "idle"
  BY <1>1 DEF Handlers, InTurn, CallsFit, Begin, At
<1>3. AtRest /\ status[p] = "none"
  BY <1>2 DEF InTurn, TurnInv, At
<1>4. /\ \A x \in Handlers \ {p} : call'[x] = call[x]
      /\ call'[p].at = step /\ call'[p].status = "OPEN"
  BY <1>1, <1>2 DEF Begin, CallsTyped, Fresh
<1>5. /\ request' = request /\ status' = status /\ lapsed' = lapsed /\ active' = active
      /\ count' = count /\ request # "PENDING"
  BY DEF Plan, requestDoc, offerDocs, Active
<1>6. Right(p)'
  BY <1>3, <1>4, <1>5, StatusKept
  DEF Right, PassRight, AtRest, Single, Counted, Uncounted, Making, Retreating
<1> QED
  BY <1>2, <1>4, <1>5, <1>6, TurnKept DEF InTurn, InFlight

LEMMA WaitlistInTurn ==
    ASSUME InTurn, NEW p \in Passes, Waitlist(p)
    PROVE  TurnInv'
<1>1. InFlight(p)
  BY DEF Waitlist, At, InFlight
<1>2. PassRight(p) /\ call[p].at = "waitlist"
  BY <1>1, PassInTurn DEF Waitlist, At
<1>3. Single /\ Counted /\ request # "PENDING"
  BY <1>2 DEF PassRight, Making
<1>4. request' # "PENDING" /\ active' \in {active, None} /\ UNCHANGED <<count, status, lapsed>>
  BY <1>3 DEF Waitlist, offerDocs
<1>5. AtRest'
  BY <1>3, <1>4, StatusKept, SinglyFewer DEF AtRest, Paired, Counted
<1> QED
  BY <1>1, <1>4, <1>5, PassEnds DEF Waitlist

\* A pass that gives up before it has made anything.
LEMMA PassGivesUp ==
    ASSUME InTurn, NEW p \in Passes, InFlight(p), call[p].at \notin Making, Goto(p, "done"),
           UNCHANGED <<requestDoc, offerDocs>>
    PROVE  TurnInv'
<1>1. Single /\ Counted /\ request # "PENDING"
  BY PassInTurn DEF PassRight
<1>2. UNCHANGED <<request, active, count, status, lapsed>>
  BY DEF requestDoc, offerDocs
<1>3. AtRest'
  BY <1>1, <1>2, StatusKept DEF AtRest, Single, Paired, Counted
<1> QED
  BY <1>2, <1>3, PassEnds

LEMMA LoadInTurn ==
    ASSUME InTurn, NEW p \in Passes, LoadRequest(p)
    PROVE  TurnInv'
<1>1. InFlight(p) /\ call[p].at = "load"
  BY DEF LoadRequest, At, InFlight
<1>2. CASE Goto(p, "done")
  BY <1>1, <1>2, PassGivesUp DEF LoadRequest, Making
<1>3. CASE call' = [call EXCEPT ![p] = Loaded(@, "count")]
  <2>1. p \in Handlers /\ CallsTyped /\ Busy = {p} /\ PassRight(p)
    BY <1>1, PassInTurn
  <2>2. /\ \A x \in Handlers \ {p} : call'[x] = call[x]
        /\ call'[p].at = "count" /\ call'[p].status = request
        /\ call'[p].active = active /\ call'[p].count = count
    BY <1>3, <2>1, LoadReads
  <2>3. UNCHANGED <<request, active, count, status, lapsed>>
    BY DEF LoadRequest, requestDoc, offerDocs
  <2>4. Right(p)'
    BY <1>1, <2>1, <2>2, <2>3, StatusKept
    DEF Right, PassRight, Single, Counted, Uncounted, Making, Retreating
  <2> QED
    BY <2>1, <2>2, <2>3, <2>4, TurnKept DEF InTurn, InFlight
<1> QED
  BY <1>2, <1>3 DEF LoadRequest

LEMMA CountInTurn ==
    ASSUME InTurn, NEW p \in Passes, CountLive(p)
    PROVE  TurnInv'
<1>1. InFlight(p) /\ call[p].at = "count"
  BY DEF CountLive, At, InFlight
<1>2. p \in Handlers /\ CallsTyped /\ Busy = {p} /\ PassRight(p)
  BY <1>1, PassInTurn
<1>3. UNCHANGED <<request, active, count, status, lapsed>>
  BY DEF CountLive, requestDoc, offerDocs
<1>4. LiveOffers = {o \in Passes : Live(o)}
  BY DEF LiveOffers
<1>5. CASE Goto(p, "done")
  BY <1>1, <1>5, PassGivesUp DEF CountLive, Making
<1>6. ASSUME NEW step \in {"create", "find"}, Goto(p, step),
             step = "create" => LiveOffers = {}
      PROVE  TurnInv'
  <2>1. step \in Steps
    BY DEF Steps
  <2>2. /\ \A x \in Handlers \ {p} : call'[x] = call[x]
        /\ call'[p].at = step /\ Remembers(call'[p], call[p])
    BY <1>2, <1>6, <2>1, GotoReads
  <2>3. Right(p)'
    BY <1>1, <1>2, <1>3, <1>6, <2>2, StatusKept
    DEF Right, PassRight, Remembers, Single, Counted, Uncounted, Making, Retreating
  <2> QED
    BY <1>2, <1>3, <2>2, <2>3, TurnKept DEF InTurn, InFlight
<1>7. IsFiniteSet(LiveOffers)
  <2>1. IsFiniteSet(Made) /\ LiveOffers \subseteq Made
    BY DEF InTurn, TurnInv, LiveOffers, Made, Live, Offered
  <2> QED
    BY <2>1, FS_Subset
<1>8. Cardinality(LiveOffers) \in Nat /\ (Cardinality(LiveOffers) = 0 => LiveOffers = {})
  BY <1>7, FS_CardinalityType, FS_EmptySet
<1>9. \/ Goto(p, "done")
      \/ Goto(p, "create") /\ Cardinality(LiveOffers) < 1
      \/ Goto(p, "find")
  BY <1>4, <1>8 DEF CountLive
<1> QED
  BY <1>5, <1>6, <1>8, <1>9

LEMMA FindInTurn ==
    ASSUME InTurn, NEW p \in Passes, FindOld(p)
    PROVE  TurnInv'
<1>1. InFlight(p) /\ call[p].at = "find"
  BY DEF FindOld, At, InFlight
<1>2. /\ p \in Handlers /\ CallsTyped /\ call[p] \in Calls /\ Busy = {p} /\ PassRight(p)
      /\ call[p].active \in Passes /\ call[p].active # None
  BY <1>1, PassInTurn, HandlersAreDistinct DEF InTurn, CallsFit
<1>3. UNCHANGED <<request, active, count, status, lapsed>>
  BY DEF FindOld, requestDoc, offerDocs
<1> DEFINE old == call[p].active
<1>4. LiveOffers \subseteq {old}
  BY <1>1, <1>2 DEF PassRight, Single, Making
<1>5. \A x \in Handlers \ {p} : call'[x] = call[x]
  BY <1>2 DEF FindOld, CallsTyped
<1>6. CASE status[old] = "PENDING"
  <2>1. call' = [call EXCEPT ![p] = Superseding(call[p], old)]
    BY <1>6 DEF FindOld, Superseding
  <2>2. /\ call'[p].at = "retire" /\ call'[p].status = call[p].status
        /\ call'[p].count = call[p].count /\ call'[p].active = old
        /\ call'[p].seen = "PENDING" /\ call'[p].verdict = "SUPERSEDED"
        /\ call'[p].todo = {old}
    BY <1>2, <2>1 DEF Superseding, Calls, CallsTyped
  <2>3. Right(p)'
    BY <1>1, <1>2, <1>3, <1>4, <1>6, <2>2, StatusKept
    DEF Right, PassRight, Single, Counted, Uncounted, Making, Retreating
  <2> QED
    BY <1>2, <1>3, <1>5, <2>2, <2>3, TurnKept DEF InTurn, InFlight
<1>7. CASE status[old] # "PENDING"
  <2>1. LiveOffers = {}
    BY <1>4, <1>7 DEF LiveOffers, Live
  <2>2. call' = [call EXCEPT ![p] = Step(call[p], "create")]
    BY <1>7 DEF FindOld, Step
  <2>3. call'[p].at = "create" /\ Remembers(call'[p], call[p])
    BY <1>2, <2>2 DEF Step, Calls, CallsTyped, Remembers
  <2>4. Right(p)'
    BY <1>1, <1>2, <1>3, <2>1, <2>3, StatusKept
    DEF Right, PassRight, Remembers, Single, Counted, Uncounted, Making, Retreating
  <2> QED
    BY <1>2, <1>3, <1>5, <2>3, <2>4, TurnKept DEF InTurn, InFlight
<1> QED
  BY <1>6, <1>7

LEMMA CreateInTurn ==
    ASSUME InTurn, NEW p \in Passes, Create(p)
    PROVE  TurnInv'
<1>1. InFlight(p) /\ call[p].at = "create" /\ "hold" \in Steps
  BY DEF Create, At, InFlight, Steps
<1>2. p \in Handlers /\ CallsTyped /\ Busy = {p} /\ PassRight(p)
  BY <1>1, PassInTurn
<1>3. /\ \A x \in Handlers \ {p} : call'[x] = call[x]
      /\ call'[p].at = "hold" /\ Remembers(call'[p], call[p])
  BY <1>1, <1>2, GotoReads DEF Create
<1>4. /\ UNCHANGED <<request, active, count, lapsed>>
      /\ status'[p] = "PENDING" /\ \A o \in Passes \ {p} : status'[o] = status[o]
  BY DEF Create, requestDoc, InTurn, DocsTyped
<1>5. LiveOffers = {} /\ Counted /\ status[p] = "none"
  BY <1>1, <1>2 DEF PassRight, Making
<1>6. LiveOffers' \subseteq {p}
  BY <1>4, <1>5 DEF LiveOffers, Live
<1>7. Made' = Made \cup {p} /\ p \notin Made
  BY <1>4, <1>5 DEF Made, Offered
<1>8. IsFiniteSet(Made') /\ Made' \ {p} = Made
  BY <1>7, FS_AddElement DEF InTurn, TurnInv
<1>9. Cardinality(Made' \ {p}) <= count'
  BY <1>4, <1>5, <1>8 DEF Counted
<1>10. Right(p)'
  BY <1>1, <1>2, <1>3, <1>4, <1>6, <1>9
  DEF Right, PassRight, Remembers, Uncounted, Making, Retreating
<1> QED
  BY <1>2, <1>3, <1>4, <1>8, <1>10, TurnPasses DEF InTurn, InFlight

LEMMA HoldInTurn ==
    ASSUME InTurn, NEW p \in Passes, Hold(p) \/ HoldFails(p)
    PROVE  TurnInv'
<1>1. InFlight(p) /\ call[p].at = "hold"
  BY DEF Hold, HoldFails, At, InFlight
<1>2. p \in Handlers /\ CallsTyped /\ Busy = {p} /\ PassRight(p)
  BY <1>1, PassInTurn
<1>3. PICK step \in {"save", "remove"} : Goto(p, step)
  BY DEF Hold, HoldFails
<1>4. step \in Steps /\ step # "done"
  BY DEF Steps
<1>5. /\ \A x \in Handlers \ {p} : call'[x] = call[x]
      /\ call'[p].at = step /\ Remembers(call'[p], call[p])
  BY <1>2, <1>3, <1>4, GotoReads
<1>6. UNCHANGED <<request, active, count, status, lapsed>>
  BY DEF Hold, HoldFails, requestDoc, offerDocs
<1>7. Right(p)'
  BY <1>1, <1>2, <1>5, <1>6, StatusKept
  DEF Right, PassRight, Remembers, Uncounted, Making, Retreating
<1> QED
  BY <1>2, <1>5, <1>6, <1>7, TurnKept DEF InTurn, InFlight

LEMMA RemoveInTurn ==
    ASSUME InTurn, NEW p \in Passes, RemoveOffer(p)
    PROVE  TurnInv'
<1>1. InFlight(p) /\ call[p].at = "remove" /\ "done" \in Steps
  BY DEF RemoveOffer, At, InFlight, Steps
<1>2. p \in Handlers /\ p # Sweeper /\ CallsTyped /\ Busy = {p} /\ PassRight(p)
  BY <1>1, PassInTurn
<1>3. /\ \A x \in Handlers \ {p} : call'[x] = call[x]
      /\ ~InFlight(p)' /\ call'[p].at = "done"
  BY <1>1, <1>2, GotoReads DEF RemoveOffer
<1>4. /\ UNCHANGED <<request, active, count, lapsed>>
      /\ status'[p] = "deleted" /\ \A o \in Passes \ {p} : status'[o] = status[o]
  BY DEF RemoveOffer, requestDoc, InTurn, DocsTyped
<1>5. /\ LiveOffers \subseteq {p} /\ Cardinality(Made \ {p}) <= count
      /\ request # "PENDING"
  BY <1>1, <1>2 DEF PassRight, Making
<1>6. LiveOffers' = {}
  BY <1>4, <1>5 DEF LiveOffers, Live
<1>7. Made' = Made \ {p}
  BY <1>4 DEF Made, Offered
<1>8. IsFiniteSet(Made')
  BY <1>7, FS_Subset DEF InTurn, TurnInv
<1>9. AtRest'
  BY <1>4, <1>5, <1>6, <1>7 DEF AtRest, Single, Paired, Counted
<1> QED
  BY <1>2, <1>3, <1>4, <1>8, <1>9, TurnPasses DEF InTurn

LEMMA SaveInTurn ==
    ASSUME InTurn, NEW p \in Passes, SaveOffer(p)
    PROVE  TurnInv'
<1>1. InFlight(p) /\ call[p].at = "save"
  BY DEF SaveOffer, At, InFlight
<1>2. p \in Handlers /\ p # Sweeper /\ CallsTyped /\ Busy = {p} /\ PassRight(p)
  BY <1>1, PassInTurn
<1>3. /\ status[p] = "PENDING" /\ LiveOffers \subseteq {p}
      /\ Cardinality(Made \ {p}) <= count /\ call[p].count = count
  BY <1>1, <1>2 DEF PassRight, Making, Uncounted
<1>4. active' = p /\ count' = count + 1 /\ UNCHANGED <<status, lapsed>>
  BY <1>3 DEF SaveOffer, offerDocs
<1>5. Made' = Made /\ LiveOffers' = LiveOffers
  BY <1>4, StatusKept
<1>6. Cardinality(Made) <= count + 1
  <2>1. IsFiniteSet(Made) /\ IsFiniteSet(Made \ {p}) /\ p \in Made
    BY <1>3, FS_RemoveElement DEF InTurn, TurnInv, Made, Offered
  <2>2. Cardinality(Made \ {p}) = Cardinality(Made) - 1 /\ Cardinality(Made) \in Nat
    BY <2>1, FS_RemoveElement, FS_CardinalityType
  <2> QED
    BY <1>3, <2>2 DEF InTurn, DocsTyped
<1>7. p # None
  BY HandlersAreDistinct
<1>8. AtRest'
  BY <1>3, <1>4, <1>5, <1>6, <1>7 DEF AtRest, Single, Paired, Counted
<1> QED
  BY <1>1, <1>4, <1>8, PassEnds DEF SaveOffer

----------------------------------------------------------------------------
(* Retirement in turn, by a pass and by a reply or the sweep                *)

LEMMA PassRetires ==
    ASSUME InTurn, NEW p \in Passes, Retiring(p)
    PROVE  TurnInv'
<1>1. InFlight(p)
  BY DEF Retiring, Release, Mark, Reopen, At, InFlight
<1>2. /\ p \in Handlers /\ CallsTyped /\ call[p] \in Calls /\ Busy = {p} /\ PassRight(p)
      /\ Fits(p, call[p].at, call[p].then, call[p].offer, call[p].count)
  BY <1>1, PassInTurn DEF InTurn, CallsFit
<1> DEFINE old == call[p].active
<1>3. CASE \E o \in Passes : Release(p, o)
  <2>1. PICK o \in Passes : Release(p, o)
    BY <1>3
  <2>2. call[p].at = "retire" /\ o = old
    BY <1>2, <2>1 DEF Release, At, PassRight
  <2>3. /\ \A x \in Handlers \ {p} : call'[x] = call[x]
        /\ call'[p].at = "mark" /\ call'[p].offer = o /\ call'[p].active = old
        /\ call'[p].status = call[p].status /\ call'[p].count = call[p].count
        /\ call'[p].seen = call[p].seen /\ call'[p].verdict = call[p].verdict
    BY <1>2, <2>1 DEF Release, CallsTyped, Calls
  <2>4. UNCHANGED <<request, active, count, status, lapsed>>
    BY <2>1 DEF Release, requestDoc, offerDocs
  <2>5. Right(p)'
    BY <1>2, <2>2, <2>3, <2>4, StatusKept
    DEF Right, PassRight, Single, Counted, Uncounted, Making, Retreating
  <2> QED
    BY <1>2, <2>3, <2>4, <2>5, TurnKept DEF InTurn, InFlight
<1>4. CASE Mark(p)
  <2>1. /\ call[p].at = "mark" /\ call[p].offer = old /\ old \in Passes
        /\ status[old] = "PENDING" /\ LiveOffers \subseteq {old}
        /\ call[p].seen = "PENDING" /\ call[p].verdict = "SUPERSEDED"
        /\ status[p] = "none" /\ Single /\ Counted /\ request # "PENDING"
    BY <1>2, <1>4 DEF Mark, At, PassRight, Retreating, Making
  <2>2. /\ status' = [status EXCEPT ![old] = "SUPERSEDED"] /\ Goto(p, call[p].then)
        /\ UNCHANGED <<request, active, count, lapsed>>
    BY <1>4, <2>1 DEF Mark, requestDoc
  <2>3. Offered(old) /\ "SUPERSEDED" \in OfferStates \ {"none", "deleted", "PENDING"}
        /\ status \in [Passes -> OfferStates]
    BY <2>1 DEF Offered, OfferStates, InTurn, DocsTyped
  <2>4. /\ Made' = Made /\ LiveOffers' = LiveOffers \ {old}
        /\ \A o \in Passes \ {old} : status'[o] = status[o]
    BY <2>1, <2>2, <2>3, StatusRetired
  <2>5. LiveOffers' = {} /\ status'[p] = "none" /\ p # old
    BY <2>1, <2>4
  <2>6. Single' /\ Counted' /\ Paired'
    BY <2>1, <2>2, <2>4, <2>5 DEF Single, Counted, Paired
  <2>7. \A o \in Passes \ {p} : status[o] = "none" => status'[o] = "none"
    BY <2>1, <2>4
  <2>8. call[p].then \in {"create", "done"} /\ {"create", "done"} \subseteq Steps
    BY <1>2 DEF Fits, Steps
  <2>9. /\ \A x \in Handlers \ {p} : call'[x] = call[x]
        /\ call[p].then = "create" => call'[p].at = "create" /\ Remembers(call'[p], call[p])
        /\ call[p].then = "done" => ~InFlight(p)' /\ call'[p].at = "done"
    BY <1>1, <1>2, <2>2, <2>8, HandlersAreDistinct, GotoReads
  <2>10. call[p].then = "create" => Right(p)'
    BY <1>2, <2>1, <2>2, <2>5, <2>6, <2>9
    DEF Right, PassRight, Remembers, Uncounted, Making, Retreating
  <2>11. IsFiniteSet(Made')
    BY <2>4 DEF InTurn, TurnInv
  <2> QED
    BY <1>2, <2>6, <2>7, <2>8, <2>9, <2>10, <2>11, TurnPasses DEF InTurn, AtRest
<1>5. CASE Reopen(p)
  BY <1>2, <1>5 DEF Reopen, At, PassRight
<1> QED
  BY <1>3, <1>4, <1>5 DEF Retiring

LEMMA ReplyInTurn ==
    ASSUME InTurn, NEW h \in Handlers \ Passes, InFlight(h)
    PROVE  /\ CallsTyped /\ call[h] \in Calls /\ Busy = {h} /\ ReplyRight(h)
           /\ Fits(h, call[h].at, call[h].then, call[h].offer, call[h].count)
  BY Mover DEF InTurn, CallsFit, CallsTyped, Right

\* A reply or the sweep goes on, and no offer was written.
LEMMA ReplyGoes ==
    ASSUME InTurn, NEW h \in Handlers \ Passes, Busy \subseteq {h},
           \A x \in Handlers \ {h} : call'[x] = call[x],
           UNCHANGED status,
           InFlight(h)' => ReplyRight(h)',
           ~InFlight(h)' => AtRest'
    PROVE  TurnInv'
  BY TurnKept DEF InTurn, Right

\* It takes the next step, and no document was written.
LEMMA ReplyGoesOn ==
    ASSUME InTurn, NEW h \in Handlers \ Passes, InFlight(h), NEW step \in Steps,
           Goto(h, step), UNCHANGED <<requestDoc, offerDocs>>,
           call[h].at \notin {"retire", "mark", "reopen", "fulfil"},
           step \notin {"request", "retire", "mark", "reopen"},
           step \in {"held", "convert", "accept"} => status[call[h].offer] = "PENDING"
    PROVE  TurnInv'
<1>1. CallsTyped /\ Busy = {h} /\ ReplyRight(h)
  BY ReplyInTurn
<1>2. /\ \A x \in Handlers \ {h} : call'[x] = call[x]
      /\ step # "done" => call'[h].at = step /\ Remembers(call'[h], call[h])
      /\ step = "done" => ~InFlight(h)'
  BY <1>1, GotoReads
<1>3. UNCHANGED <<request, active, count, status, lapsed>>
  BY DEF requestDoc, offerDocs
<1>4. Single' /\ Counted' /\ Paired'
  BY <1>1, <1>3, StatusKept DEF ReplyRight, Single, Counted, Paired
<1>5. step # "done" => ReplyRight(h)'
  BY <1>1, <1>2, <1>3, <1>4 DEF ReplyRight, Remembers
<1> QED
  BY <1>1, <1>2, <1>3, <1>4, <1>5, ReplyGoes DEF AtRest

\* It starts to retire these offers.
LEMMA ReplyRetires ==
    ASSUME InTurn, NEW h \in Handlers \ Passes, Busy \subseteq {h},
           \A x \in Handlers \ {h} : call'[x] = call[x],
           Single, Counted,
           UNCHANGED <<request, active, count, status, lapsed>>,
           call'[h].at = "retire",
           call'[h].status = "FULFILLED" => request = "FULFILLED",
           call'[h].verdict \in {"EXPIRED", "REJECTED"},
           \A o \in call'[h].todo :
             Offered(o) /\ (status[o] = "REJECTED" => call'[h].verdict = "REJECTED")
    PROVE  TurnInv'
<1>1. Single' /\ Counted'
  BY StatusKept DEF Single, Counted
<1>2. ReplyRight(h)'
  BY <1>1 DEF ReplyRight, Due, Offered
<1> QED
  BY <1>2, ReplyGoes DEF InFlight

LEMMA ReleaseInTurn ==
    ASSUME InTurn, NEW h \in Handlers \ Passes, NEW o \in Passes, Release(h, o)
    PROVE  TurnInv'
<1>1. InFlight(h) /\ call[h].at = "retire" /\ o \in call[h].todo
  BY DEF Release, At, InFlight
<1>2. CallsTyped /\ call[h] \in Calls /\ Busy = {h} /\ ReplyRight(h)
  BY <1>1, ReplyInTurn
<1>3. /\ \A x \in Handlers \ {h} : call'[x] = call[x]
      /\ call'[h].at = "mark" /\ call'[h].offer = o /\ call'[h].todo = call[h].todo \ {o}
      /\ call'[h].status = call[h].status /\ call'[h].verdict = call[h].verdict
  BY <1>2 DEF Release, CallsTyped, Calls
<1>4. UNCHANGED <<request, active, count, status, lapsed>>
  BY DEF Release, requestDoc, offerDocs
<1>5. Due(call'[h]) = Due(call[h])
  BY <1>1, <1>3 DEF Due
<1>6. Single' /\ Counted'
  BY <1>2, <1>4, StatusKept DEF ReplyRight, Single, Counted
<1>7. ReplyRight(h)'
  BY <1>1, <1>2, <1>3, <1>4, <1>5, <1>6 DEF ReplyRight, Offered
<1> QED
  BY <1>2, <1>3, <1>4, <1>7, ReplyGoes DEF InFlight

\* What marking an offer does to it: its status is written, or was that already.
LEMMA MarkWrites ==
    ASSUME InTurn, NEW h \in Handlers \ Passes, Mark(h), NEW o, o = call[h].offer
    PROVE  /\ o \in Passes /\ Offered(o) /\ Goto(h, "reopen")
           /\ Made' = Made /\ LiveOffers' \subseteq LiveOffers
           /\ status'[o] \in {status[o], call[h].verdict} /\ Offered(o)'
           /\ status[o] = "REJECTED" => status'[o] = "REJECTED"
           /\ \A p \in Passes \ {o} : status'[p] = status[p]
<1>1. InFlight(h) /\ call[h].at = "mark"
  BY DEF Mark, At, InFlight
<1>2. ReplyRight(h) /\ Fits(h, "mark", call[h].then, o, call[h].count)
  BY <1>1, ReplyInTurn
<1>3. /\ o \in Passes /\ Offered(o) /\ call[h].verdict \in {"EXPIRED", "REJECTED"}
      /\ status[o] = "REJECTED" => call[h].verdict = "REJECTED"
  BY <1>1, <1>2 DEF Fits, ReplyRight, Due
<1>4. /\ lapsed' = lapsed /\ Goto(h, "reopen")
      /\ status' \in {status, [status EXCEPT ![o] = call[h].verdict]}
  BY <1>3 DEF Mark, Offered
<1>5. CASE status' = status
  BY <1>3, <1>4, <1>5, StatusKept DEF Offered
<1>6. CASE status' = [status EXCEPT ![o] = call[h].verdict]
  <2>1. call[h].verdict \in OfferStates \ {"none", "deleted", "PENDING"}
        /\ status \in [Passes -> OfferStates]
    BY <1>3 DEF OfferStates, InTurn, DocsTyped
  <2>2. /\ Made' = Made /\ LiveOffers' = LiveOffers \ {o}
        /\ status'[o] = call[h].verdict /\ \A p \in Passes \ {o} : status'[p] = status[p]
    BY <1>3, <1>4, <1>6, <2>1, StatusRetired
  <2> QED
    BY <1>3, <1>4, <2>2 DEF Offered
<1> QED
  BY <1>3, <1>4, <1>5, <1>6

LEMMA MarkInTurn ==
    ASSUME InTurn, NEW h \in Handlers \ Passes, Mark(h)
    PROVE  TurnInv'
<1>0. PICK o : o = call[h].offer
  OBVIOUS
<1>1. InFlight(h) /\ call[h].at = "mark" /\ "reopen" \in Steps
  BY DEF Mark, At, InFlight, Steps
<1>2. CallsTyped /\ Busy = {h} /\ ReplyRight(h)
  BY <1>1, ReplyInTurn
<1>3. /\ o \in Passes /\ Offered(o) /\ Goto(h, "reopen")
      /\ Made' = Made /\ LiveOffers' \subseteq LiveOffers
      /\ status'[o] \in {status[o], call[h].verdict} /\ Offered(o)'
      /\ \A p \in Passes \ {o} : status'[p] = status[p]
  BY <1>0, MarkWrites
<1>4. UNCHANGED <<request, active, count>>
  BY DEF Mark, requestDoc
<1>5. /\ \A x \in Handlers \ {h} : call'[x] = call[x]
      /\ call'[h].at = "reopen" /\ Remembers(call'[h], call[h])
  BY <1>1, <1>2, <1>3, GotoReads
<1>6. Single' /\ Counted'
  BY <1>2, <1>3, <1>4, SinglyFewer DEF ReplyRight, Counted
<1>7. Due(call'[h]) \subseteq Due(call[h]) /\ Due(call'[h]) \subseteq Passes
  <2>1. call[h].todo \subseteq Passes
    BY <1>2 DEF CallsTyped, Calls
  <2> QED
    BY <1>5, <2>1 DEF Due, Remembers
<1>8. \A q \in Due(call'[h]) :
        Offered(q)' /\ (status'[q] = "REJECTED" => call[h].verdict = "REJECTED")
  BY <1>0, <1>1, <1>2, <1>3, <1>7 DEF ReplyRight, Offered
<1>9. ReplyRight(h)'
  BY <1>1, <1>2, <1>4, <1>5, <1>6, <1>8 DEF ReplyRight, Remembers
<1>10. IsFiniteSet(Made') /\ \A p \in Passes : status[p] = "none" => status'[p] = "none"
  BY <1>3 DEF InTurn, TurnInv, Offered
<1> QED
  BY <1>2, <1>5, <1>9, <1>10, TurnPasses DEF InTurn, InFlight, Right

LEMMA ReopenInTurn ==
    ASSUME InTurn, NEW h \in Handlers \ Passes, Reopen(h)
    PROVE  TurnInv'
<1>1. InFlight(h) /\ call[h].at = "reopen"
  BY DEF Reopen, At, InFlight
<1>2. /\ CallsTyped /\ Busy = {h} /\ ReplyRight(h)
      /\ Fits(h, call[h].at, call[h].then, call[h].offer, call[h].count)
  BY <1>1, ReplyInTurn
<1>3. /\ request' # "PENDING" /\ active' \in {active, None} /\ UNCHANGED <<count, status, lapsed>>
      /\ request = "FULFILLED" => request' = "FULFILLED"
  BY DEF Reopen, offerDocs
<1>4. Single' /\ Counted' /\ Paired'
  BY <1>2, <1>3, StatusKept, SinglyFewer DEF ReplyRight, Counted, Paired
<1>5. PICK step \in {call[h].then, "retire"} : Goto(h, step)
  BY DEF Reopen
<1>6. step \in {"done", "cancel", "claim", "retire"} /\ step \in Steps
  BY <1>2, <1>5 DEF Fits, Handlers, Steps
<1>7. /\ \A x \in Handlers \ {h} : call'[x] = call[x]
      /\ step # "done" => call'[h].at = step /\ Remembers(call'[h], call[h])
      /\ step = "done" => ~InFlight(h)'
  BY <1>2, <1>5, <1>6, GotoReads
<1>8. step = "retire" => Due(call'[h]) = Due(call[h])
  BY <1>1, <1>7 DEF Due, Remembers
<1>9. step # "done" => ReplyRight(h)'
  BY <1>1, <1>2, <1>3, <1>4, <1>6, <1>7, <1>8 DEF ReplyRight, Remembers, Offered
<1> QED
  BY <1>2, <1>3, <1>4, <1>7, <1>9, ReplyGoes DEF AtRest

----------------------------------------------------------------------------
(* The customer's replies, the sweep and time in turn                       *)

LEMMA BeginReads ==
    ASSUME InTurn, NEW h \in Handlers \ Passes, NEW with, Begin(h, with), serial'
    PROVE  /\ CallsTyped /\ Busy = {} /\ AtRest
           /\ call'[h] = with /\ \A x \in Handlers \ {h} : call'[x] = call[x]
  BY DEF InTurn, CallsFit, CallsTyped, Begin, TurnInv

LEMMA BeginsInTurn ==
    ASSUME InTurn, NEW r \in Replies, Begins(r), serial'
    PROVE  TurnInv'
<1>0. r \in Handlers \ Passes
  BY HandlersAreDistinct DEF Handlers
<1>1. UNCHANGED <<request, active, count, status, lapsed>>
  BY DEF Begins, Accept, Reject, CancelRequest, PickInterval, Withdraw, requestDoc, offerDocs
<1>2. ASSUME NEW o \in Passes, Accept(r, o) PROVE TurnInv'
  <2> DEFINE was == IF status[o] = "PENDING" /\ lapsed[o] THEN "LATE" ELSE status[o]
  <2>1. Begin(r, Answering(Fresh, o, was)) /\ Offered(o)
    BY <1>2 DEF Accept, Answering
  <2>2. /\ Busy = {} /\ AtRest
        /\ call'[r] = Answering(Fresh, o, was) /\ \A x \in Handlers \ {r} : call'[x] = call[x]
    BY <1>0, <2>1, BeginReads
  <2>3. /\ call'[r].at = "request" /\ call'[r].offer = o /\ call'[r].seen = was
        /\ call'[r].status = "OPEN"
    BY <2>2 DEF Answering, Fresh
  <2>4. status[o] = (IF was = "LATE" THEN "PENDING" ELSE was) /\ status[o] # "LATE"
    <3>1. status[o] # "LATE"
      BY DEF InTurn, DocsTyped, OfferStates
    <3> QED
      BY <3>1
  <2> HIDE DEF was
  <2>5. Single' /\ Counted' /\ Paired'
    BY <1>1, <2>2, StatusKept DEF AtRest, Single, Counted, Paired
  <2>6. ReplyRight(r)'
    BY <1>1, <2>1, <2>3, <2>4, <2>5 DEF ReplyRight, Offered
  <2> QED
    BY <1>0, <1>1, <2>2, <2>3, <2>6, ReplyGoes DEF InFlight
<1>3. ASSUME NEW o \in Passes, Reject(r, o) PROVE TurnInv'
  <2>1. Begin(r, Retired(Fresh, {o}, status[o], "REJECTED")) /\ Offered(o)
    BY <1>3 DEF Reject, Retired
  <2>2. /\ Busy = {} /\ AtRest /\ \A x \in Handlers \ {r} : call'[x] = call[x]
        /\ call'[r] = Retired(Fresh, {o}, status[o], "REJECTED")
    BY <1>0, <2>1, BeginReads
  <2>3. /\ call'[r].at = "retire" /\ call'[r].status = "OPEN"
        /\ call'[r].verdict = "REJECTED" /\ call'[r].todo = {o}
    BY <2>2 DEF Retired, Fresh
  <2> QED
    BY <1>0, <1>1, <2>1, <2>2, <2>3, ReplyRetires DEF AtRest
<1>4. ASSUME NEW then \in {"cancel", "claim"}, Withdraw(r, then) PROVE TurnInv'
  <2>1. PICK at \in {then, "live"} : Begin(r, Loaded(Then(Fresh, then), at))
    BY <1>4 DEF Withdraw, Then
  <2>2. /\ Busy = {} /\ AtRest /\ \A x \in Handlers \ {r} : call'[x] = call[x]
        /\ call'[r] = Loaded(Then(Fresh, then), at)
    BY <1>0, <2>1, BeginReads
  <2>3. call'[r].at = at /\ call'[r].status = request
    BY <2>2 DEF Loaded, Then, Fresh
  <2>4. Single' /\ Counted' /\ Paired'
    BY <1>1, <2>2, StatusKept DEF AtRest, Single, Counted, Paired
  <2>5. ReplyRight(r)'
    BY <1>1, <2>3, <2>4 DEF ReplyRight
  <2> QED
    BY <1>0, <1>1, <2>2, <2>3, <2>5, ReplyGoes DEF InFlight
<1> QED
  BY <1>2, <1>3, <1>4 DEF Begins, CancelRequest, PickInterval

LEMMA AnswersInTurn ==
    ASSUME InTurn, NEW r \in Replies,
           ReadRequest(r) \/ CountHeld(r) \/ ConvertLost(r) \/ FindLive(r)
    PROVE  TurnInv'
<1> USE DEF At
<1>0. r \in Handlers \ Passes
  BY HandlersAreDistinct DEF Handlers
<1>1. /\ InFlight(r) /\ call[r].at \in {"request", "held", "convert", "live"}
      /\ UNCHANGED <<requestDoc, offerDocs>>
      /\ UNCHANGED <<request, active, count, status, lapsed>>
  BY DEF ReadRequest, CountHeld, ConvertLost, FindLive, InFlight, requestDoc, offerDocs
<1>2. /\ CallsTyped /\ Busy = {r} /\ ReplyRight(r) /\ call[r] \in Calls
      /\ Fits(r, call[r].at, call[r].then, call[r].offer, call[r].count)
  BY <1>0, <1>1, ReplyInTurn
<1>3. Single /\ Counted /\ Paired
  BY <1>1, <1>2 DEF ReplyRight
<1>4. {"done", "convert", "cancel", "claim"} \subseteq Steps
  BY DEF Steps
<1>5. ASSUME NEW offers, NEW was, NEW as \in {"EXPIRED", "REJECTED"},
             RetireThese(r, offers, was, as),
             \A o \in offers : Offered(o) /\ status[o] # "REJECTED"
      PROVE  TurnInv'
  <2>1. /\ \A x \in Handlers \ {r} : call'[x] = call[x]
        /\ call'[r].at = "retire" /\ call'[r].status = call[r].status
        /\ call'[r].todo = offers /\ call'[r].verdict = as
    BY <1>0, <1>2, <1>5, RetireReads
  <2> QED
    BY <1>0, <1>1, <1>2, <1>3, <1>5, <2>1, ReplyRetires DEF ReplyRight
<1>6. CASE ReadRequest(r)
  <2>1. /\ Offered(call[r].offer)
        /\ status[call[r].offer] = IF call[r].seen = "LATE" THEN "PENDING" ELSE call[r].seen
    BY <1>2, <1>6 DEF ReadRequest, ReplyRight
  <2>2. CASE Goto(r, "done")
    BY <1>0, <1>1, <1>4, <2>2, ReplyGoesOn
  <2>3. CASE call[r].seen = "PENDING" /\ call' = [call EXCEPT ![r] = Loaded(@, "held")]
    <3>1. /\ \A x \in Handlers \ {r} : call'[x] = call[x]
          /\ call'[r].at = "held" /\ call'[r].status = request
          /\ call'[r].offer = call[r].offer
      BY <1>0, <1>2, <2>3, LoadReads
    <3>2. Single' /\ Counted' /\ Paired'
      BY <1>1, <1>3, StatusKept DEF Single, Counted, Paired
    <3>3. ReplyRight(r)'
      BY <1>1, <2>1, <2>3, <3>1, <3>2 DEF ReplyRight
    <3> QED
      BY <1>0, <1>1, <1>2, <3>1, <3>3, ReplyGoes DEF InFlight
  <2>4. ASSUME NEW was \in {"EXPIRED", "SUPERSEDED", "LATE"}, call[r].seen = was,
               RetireThese(r, {call[r].offer}, was, "EXPIRED")
        PROVE  TurnInv'
    BY <1>5, <2>1, <2>4
  <2> QED
    BY <1>6, <2>2, <2>3, <2>4 DEF ReadRequest
<1>7. ASSUME status[call[r].offer] = "PENDING",
             RetireThese(r, {call[r].offer}, "PENDING", "EXPIRED")
      PROVE  TurnInv'
  BY <1>5, <1>7 DEF Offered
<1>8. CASE CountHeld(r)
  <2>1. status[call[r].offer] = "PENDING"
    BY <1>2, <1>8 DEF CountHeld, ReplyRight
  <2>2. CASE Goto(r, "convert")
    BY <1>0, <1>1, <1>4, <2>1, <2>2, ReplyGoesOn
  <2> QED
    BY <1>7, <1>8, <2>1, <2>2 DEF CountHeld
<1>9. CASE ConvertLost(r)
  <2>1. status[call[r].offer] = "PENDING"
    BY <1>2, <1>9 DEF ConvertLost, ReplyRight
  <2> QED
    BY <1>7, <1>9, <2>1 DEF ConvertLost
<1>10. CASE FindLive(r)
  <2>1. call[r].then \in {"done", "cancel", "claim"}
    BY <1>0, <1>2 DEF Fits
  <2>2. CASE Goto(r, call[r].then)
    BY <1>0, <1>1, <1>4, <2>1, <2>2, ReplyGoesOn
  <2>3. CASE RetireThese(r, {o \in Passes : status[o] = "PENDING"}, "PENDING", "REJECTED")
    BY <1>5, <2>3 DEF Offered
  <2> QED
    BY <1>10, <2>2, <2>3 DEF FindLive
<1> QED
  BY <1>6, <1>8, <1>9, <1>10

LEMMA GoesOnInTurn ==
    ASSUME InTurn, NEW r \in Replies,
           Convert(r) \/ ConvertRefused(r) \/ Claim(r) \/ ClaimFails(r)
    PROVE  TurnInv'
<1> USE DEF At
<1>0. r \in Handlers \ Passes /\ {"accept", "fulfil", "done"} \subseteq Steps
  BY HandlersAreDistinct DEF Handlers, Steps
<1>1. /\ InFlight(r) /\ call[r].at \in {"convert", "claim"}
      /\ UNCHANGED <<requestDoc, offerDocs>>
  BY DEF Convert, ConvertRefused, Claim, ClaimFails, InFlight
<1>2. call[r].at = "convert" => status[call[r].offer] = "PENDING"
  BY <1>0, <1>1, ReplyInTurn DEF ReplyRight
<1>3. PICK step \in {"accept", "fulfil", "done"} :
        Goto(r, step) /\ (step = "accept" => call[r].at = "convert")
  BY DEF Convert, ConvertRefused, Claim, ClaimFails
<1> QED
  BY <1>0, <1>1, <1>2, <1>3, ReplyGoesOn

LEMMA MarkAcceptedInTurn ==
    ASSUME InTurn, NEW r \in Replies, MarkAccepted(r)
    PROVE  TurnInv'
<1>0. r \in Handlers \ Passes /\ "fulfil" \in Steps
  BY HandlersAreDistinct DEF Handlers, Steps
<1>1. InFlight(r) /\ call[r].at = "accept"
  BY DEF MarkAccepted, At, InFlight
<1>2. CallsTyped /\ Busy = {r} /\ ReplyRight(r)
  BY <1>0, <1>1, ReplyInTurn
<1>3. PICK o \in Passes : o = call[r].offer
  BY TakingSteps DEF InTurn
<1>4. status[o] = "PENDING" /\ status \in [Passes -> OfferStates]
  BY <1>1, <1>2, <1>3 DEF ReplyRight, InTurn, DocsTyped
<1>5. /\ status' = [status EXCEPT ![o] = "ACCEPTED"] /\ Goto(r, "fulfil")
      /\ UNCHANGED <<request, active, count, lapsed>>
  BY <1>3 DEF MarkAccepted, requestDoc
<1>6. "ACCEPTED" \in OfferStates \ {"none", "deleted", "PENDING"} /\ Offered(o)
  BY <1>4 DEF OfferStates, Offered
<1>7. /\ Made' = Made /\ LiveOffers' = LiveOffers \ {o}
      /\ status'[o] = "ACCEPTED" /\ \A p \in Passes \ {o} : status'[p] = status[p]
  BY <1>4, <1>5, <1>6, StatusRetired
<1>8. /\ \A x \in Handlers \ {r} : call'[x] = call[x]
      /\ call'[r].at = "fulfil" /\ Remembers(call'[r], call[r])
  BY <1>0, <1>2, <1>5, GotoReads
<1>9. Single' /\ Counted'
  BY <1>2, <1>5, <1>7, SinglyFewer DEF ReplyRight, Counted
<1>10. ReplyRight(r)'
  BY <1>2, <1>5, <1>8, <1>9 DEF ReplyRight, Remembers
<1>11. IsFiniteSet(Made') /\ \A p \in Passes : status[p] = "none" => status'[p] = "none"
  BY <1>4, <1>7 DEF InTurn, TurnInv
<1> QED
  BY <1>0, <1>2, <1>8, <1>10, <1>11, TurnPasses DEF InTurn, InFlight, Right

LEMMA ClosesInTurn ==
    ASSUME InTurn, NEW r \in Replies, Fulfil(r) \/ SaveCancelled(r)
    PROVE  TurnInv'
<1>0. r \in Handlers \ Passes /\ "done" \in Steps
  BY HandlersAreDistinct DEF Handlers, Steps
<1>1. InFlight(r) /\ call[r].at \in {"fulfil", "cancel"} /\ Goto(r, "done")
  BY DEF Fulfil, SaveCancelled, At, InFlight
<1>2. CallsTyped /\ Busy = {r} /\ ReplyRight(r)
  BY <1>0, <1>1, ReplyInTurn
<1>3. ~InFlight(r)' /\ \A x \in Handlers \ {r} : call'[x] = call[x]
  BY <1>0, <1>1, <1>2, GotoReads
<1>4. /\ request' # "PENDING" /\ active' \in {active, None}
      /\ UNCHANGED <<count, status, lapsed>>
  BY <1>2 DEF Fulfil, SaveCancelled, ReplyRight, offerDocs
<1>5. AtRest'
  BY <1>2, <1>4, StatusKept, SinglyFewer DEF ReplyRight, AtRest, Counted, Paired
<1> QED
  BY <1>0, <1>2, <1>3, <1>4, <1>5, ReplyGoes

LEMMA SweepInTurn ==
    ASSUME InTurn, (\E o \in Passes : FindStale(o)) \/ Flip, serial'
    PROVE  TurnInv'
<1>0. Sweeper \in Handlers \ Passes /\ "done" \in Steps
  BY HandlersAreDistinct DEF Handlers, Steps
<1>1. ASSUME NEW o \in Passes, FindStale(o) PROVE TurnInv'
  <2>1. Begin(Sweeper, About(Fresh, "flip", o))
    BY <1>1 DEF FindStale, About
  <2>2. /\ Busy = {} /\ AtRest /\ \A x \in Handlers \ {Sweeper} : call'[x] = call[x]
        /\ call'[Sweeper] = About(Fresh, "flip", o)
    BY <1>0, <2>1, BeginReads
  <2>3. call'[Sweeper].at = "flip" /\ call'[Sweeper].status = "OPEN"
    BY <2>2 DEF About, Fresh
  <2>4. UNCHANGED <<request, active, count, status, lapsed>>
    BY <1>1 DEF FindStale, requestDoc, offerDocs
  <2>5. Single' /\ Counted' /\ Paired'
    BY <2>2, <2>4, StatusKept DEF AtRest, Single, Counted, Paired
  <2>6. ReplyRight(Sweeper)'
    BY <2>3, <2>5 DEF ReplyRight
  <2> QED
    BY <1>0, <2>2, <2>3, <2>4, <2>6, ReplyGoes DEF InFlight
<1>2. CASE Flip
  <2>1. InFlight(Sweeper) /\ call[Sweeper].at = "flip"
    BY <1>2 DEF Flip, At, InFlight
  <2>2. /\ CallsTyped /\ Busy = {Sweeper} /\ ReplyRight(Sweeper)
        /\ Fits(Sweeper, "flip", call[Sweeper].then, call[Sweeper].offer, call[Sweeper].count)
    BY <1>0, <2>1, ReplyInTurn
  <2>3. PICK o \in Passes : o = call[Sweeper].offer
    BY <2>2 DEF Fits
  <2>4. CASE Goto(Sweeper, "done") /\ UNCHANGED status
    <3>1. UNCHANGED <<requestDoc, offerDocs>>
      BY <1>2, <2>4 DEF Flip, offerDocs
    <3> QED
      BY <1>0, <2>1, <2>4, <3>1, ReplyGoesOn
  <2>5. CASE /\ status[o] = "PENDING" /\ status' = [status EXCEPT ![o] = "EXPIRED"]
             /\ RetireThese(Sweeper, {o}, "PENDING", "EXPIRED")
    <3>1. /\ Offered(o) /\ "EXPIRED" \in OfferStates \ {"none", "deleted", "PENDING"}
          /\ status \in [Passes -> OfferStates] /\ UNCHANGED <<request, active, count, lapsed>>
      BY <1>2, <2>5 DEF Offered, OfferStates, InTurn, DocsTyped, Flip, requestDoc
    <3>2. /\ Made' = Made /\ LiveOffers' = LiveOffers \ {o}
          /\ status'[o] = "EXPIRED" /\ \A p \in Passes \ {o} : status'[p] = status[p]
      BY <2>5, <3>1, StatusRetired
    <3>3. /\ \A x \in Handlers \ {Sweeper} : call'[x] = call[x]
          /\ call'[Sweeper].at = "retire" /\ call'[Sweeper].status = call[Sweeper].status
          /\ call'[Sweeper].todo = {o} /\ call'[Sweeper].verdict = "EXPIRED"
      BY <1>0, <2>2, <2>5, RetireReads
    <3>4. Single' /\ Counted'
      BY <2>2, <3>1, <3>2, SinglyFewer DEF ReplyRight, Counted
    <3>5. ReplyRight(Sweeper)'
      BY <2>2, <3>1, <3>2, <3>3, <3>4 DEF ReplyRight, Due, Offered
    <3>6. IsFiniteSet(Made') /\ \A p \in Passes : status[p] = "none" => status'[p] = "none"
      BY <2>5, <3>2 DEF InTurn, TurnInv
    <3> QED
      BY <1>0, <2>2, <3>3, <3>5, <3>6, TurnPasses DEF InTurn, InFlight, Right
  <2> QED
    BY <1>2, <2>3, <2>4, <2>5 DEF Flip
<1> QED
  BY <1>1, <1>2

\* Time passes, holds are purged, requests age out: no handler moves, and no
\* document comes to promise more than it did.
LEMMA QuietInTurn ==
    ASSUME InTurn,
           \/ \E o \in Passes : Lapse(o) \/ PurgeLapsed(o)
           \/ ExpireRequest \/ UNCHANGED vars
    PROVE  TurnInv'
<1>1. /\ UNCHANGED <<active, count, status, call>>
      /\ request' = request \/ (request \in Active /\ request' = "EXPIRED")
  BY DEF Lapse, PurgeLapsed, ExpireRequest, vars, requestDoc, offerDocs
<1>2. LiveOffers' \subseteq LiveOffers /\ Made' = Made
  <2>1. ASSUME NEW o \in Passes, Live(o)' PROVE Live(o)
    <3>1. \A p \in Passes : lapsed[p] => lapsed'[p]
      BY DEF Lapse, PurgeLapsed, ExpireRequest, vars, offerDocs, InTurn, DocsTyped
    <3> QED
      BY <1>1, <2>1, <3>1 DEF Live
  <2> QED
    BY <1>1, <2>1 DEF LiveOffers, Made, Offered
<1>3. (Single => Single') /\ (Paired => Paired') /\ (Counted => Counted')
  BY <1>1, <1>2, SinglyFewer DEF Paired, Counted, Active
<1>4. ASSUME NEW p \in Passes, PassRight(p) PROVE PassRight(p)'
  BY <1>1, <1>2, <1>3, <1>4 DEF PassRight, Active
<1>5. ASSUME NEW h \in Handlers, ReplyRight(h) PROVE ReplyRight(h)'
  BY <1>1, <1>3, <1>5 DEF ReplyRight, Due, Offered, Active
<1>6. Busy' = Busy
  BY <1>1 DEF Busy, InFlight
<1>7. Busy \subseteq Handlers
  BY DEF Busy
<1> QED
  BY <1>1, <1>2, <1>3, <1>4, <1>5, <1>6, <1>7 DEF InTurn, TurnInv, Right, AtRest, At

\* A flag that only falls: a handler that begins under another, or dies, ends it.
LEMMA StepSerial ==
    ASSUME DocsTyped, [Next]_vars
    PROVE  serial' \in {serial, FALSE}
<1>1. ASSUME NEW p \in Passes, Plan(p) \/ Passing(p) PROVE serial' \in {serial, FALSE}
  BY <1>1 DEF DocsTyped, Plan, Passing, Waitlist, LoadRequest, CountLive, FindOld, Create,
       Hold, HoldFails, RemoveOffer, SaveOffer, Begin
<1>2. ASSUME NEW r \in Replies, Begins(r) \/ Replying(r) PROVE serial' \in {serial, FALSE}
  BY <1>2 DEF DocsTyped, Begins, Accept, Reject, CancelRequest, PickInterval, Withdraw, Begin,
       Replying, ReadRequest, CountHeld, Convert, ConvertLost, ConvertRefused, MarkAccepted,
       Fulfil, FindLive, SaveCancelled, Claim, ClaimFails
<1>3. ASSUME NEW h \in Handlers, Retiring(h) \/ Crash(h) PROVE serial' \in {serial, FALSE}
  BY <1>3 DEF Retiring, Release, Mark, Reopen, Crash
<1>4. CASE \/ \E o \in Passes : Lapse(o) \/ PurgeLapsed(o) \/ FindStale(o)
           \/ Flip \/ ExpireRequest \/ UNCHANGED vars
  BY <1>4 DEF DocsTyped, Lapse, PurgeLapsed, FindStale, Begin, Flip, ExpireRequest, vars
<1> QED
  BY <1>1, <1>2, <1>3, <1>4 DEF Next

LEMMA StepTurn ==
    ASSUME IInv, TurnInv, [Next]_vars
    PROVE  TurnInv'
<1>0. DocsTyped /\ CallsFit
  BY DEF IInv
<1> SUFFICES ASSUME serial' = TRUE PROVE TurnInv'
  BY StepDocs, <1>0 DEF TurnInv, DocsTyped
<1>1. serial /\ ~\E h \in Handlers : Crash(h)
  <2>1. (\E h \in Handlers : Crash(h)) => serial' = FALSE
    BY DEF Crash
  <2>2. serial \in BOOLEAN /\ serial' \in {serial, FALSE}
    BY <1>0, StepSerial DEF DocsTyped
  <2> QED
    BY <2>1, <2>2
<1>2. InTurn
  BY <1>0, <1>1 DEF InTurn
<1>3. ASSUME NEW p \in Passes, Plan(p) \/ Passing(p) PROVE TurnInv'
  BY <1>2, <1>3, PlanInTurn, WaitlistInTurn, LoadInTurn, CountInTurn, FindInTurn,
     CreateInTurn, HoldInTurn, RemoveInTurn, SaveInTurn DEF Passing
<1>4. ASSUME NEW r \in Replies, Begins(r) \/ Replying(r) PROVE TurnInv'
  BY <1>2, <1>4, BeginsInTurn, AnswersInTurn, GoesOnInTurn, MarkAcceptedInTurn, ClosesInTurn
  DEF Replying
<1>5. ASSUME NEW h \in Handlers, Retiring(h) PROVE TurnInv'
  BY <1>2, <1>5, PassRetires, ReleaseInTurn, MarkInTurn, ReopenInTurn DEF Retiring
<1>6. CASE (\E o \in Passes : FindStale(o)) \/ Flip
  BY <1>2, <1>6, SweepInTurn
<1>7. CASE (\E o \in Passes : Lapse(o) \/ PurgeLapsed(o)) \/ ExpireRequest \/ UNCHANGED vars
  BY <1>2, <1>7, QuietInTurn
<1> QED
  BY <1>1, <1>3, <1>4, <1>5, <1>6, <1>7 DEF Next

\* While handlers take turns, the documents are right whenever none is in
\* flight, and short only of what the one in flight has still to write.
THEOREM TurnsAlways == Spec => [](IInv /\ TurnInv)
<1>1. Init => TurnInv
  <2> SUFFICES ASSUME Init PROVE TurnInv
    OBVIOUS
  <2>1. Busy = {} /\ Made = {} /\ LiveOffers = {}
    BY FreshTyped DEF Init, Busy, InFlight, Made, Offered, LiveOffers, Live
  <2>2. IsFiniteSet(Made) /\ Cardinality(Made) = 0
    BY <2>1, FS_EmptySet
  <2> QED
    BY <2>1, <2>2 DEF Init, TurnInv, AtRest, Single, Paired, Counted
<1>2. IInv /\ TurnInv /\ [Next]_vars => TurnInv'
  BY StepTurn
<1> QED
  BY <1>1, <1>2, OffersAlways, PTL DEF Spec

\* While handlers take turns, one customer is offered one bay at a time
\* (recommendation.service.ts:104-114).
THEOREM OfferIsSingle == Spec => []OneLiveOffer
<1>1. IInv /\ TurnInv => OneLiveOffer
  <2> SUFFICES ASSUME IInv, TurnInv, serial
               PROVE  Cardinality({o \in Passes : Live(o) /\ lease[o] # {}}) <= 1
    BY DEF OneLiveOffer
  <2>1. \A o, q \in LiveOffers : o = q
    <3>1. CASE Busy = {}
      BY <3>1 DEF TurnInv, AtRest, Single
    <3>2. ASSUME NEW h \in Busy PROVE \A o, q \in LiveOffers : o = q
      <4>1. Right(h)
        BY <3>2 DEF TurnInv
      <4>2. Single \/ LiveOffers \subseteq {h}
        BY <4>1 DEF Right, PassRight, ReplyRight
      <4> QED
        BY <4>2 DEF Single
    <3> QED
      BY <3>1, <3>2
  <2>2. \A a, b \in {o \in Passes : Live(o) /\ lease[o] # {}} : a = b
    BY <2>1 DEF LiveOffers
  <2> QED
    BY <2>2, AtMostOne
<1> QED
  BY <1>1, TurnsAlways, PTL

\* While handlers take turns, no request is left frozen behind a dead offer
\* (recommendation.service.ts:25).
THEOREM PendingIsAnswerable == Spec => []PendingIsOffered
<1>1. TurnInv => PendingIsOffered
  BY DEF TurnInv, PendingIsOffered, AtRest, Paired
<1> QED
  BY <1>1, TurnsAlways, PTL

\* While handlers take turns, expire, reopen, offer and expire again ends at
\* the cap (recommendation.service.ts:98-102).
THEOREM CapHolds == Spec => []CapRespected
<1>1. IInv /\ TurnInv => CapRespected
  <2> SUFFICES ASSUME IInv, TurnInv, serial PROVE Cardinality(Made) <= MaxOffers
    BY DEF CapRespected, Made
  <2>1. /\ count \in 0..MaxOffers /\ MaxOffers \in Nat
        /\ IsFiniteSet(Made) /\ Cardinality(Made) \in Nat
    BY CapIsNatural, FS_CardinalityType DEF IInv, DocsTyped, TurnInv
  <2>2. CASE Counted
    BY <2>1, <2>2 DEF Counted
  <2>3. ASSUME NEW p \in Passes, PassRight(p), call[p].at \in Making
        PROVE  Cardinality(Made) <= MaxOffers
    <3>1. call[p].count < MaxOffers /\ call[p].count = count
      BY <2>3 DEF IInv, CallsFit, Fits, Handlers, PassRight, Making, Uncounted
    <3>2. Cardinality(Made \ {p}) <= count /\ p \in Made
      BY <2>3 DEF PassRight, Making, Made, Offered
    <3>3. Cardinality(Made \ {p}) = Cardinality(Made) - 1
      BY <2>1, <3>2, FS_RemoveElement
    <3> QED
      BY <2>1, <3>1, <3>2, <3>3
  <2>4. Counted \/ \E p \in Passes : PassRight(p) /\ call[p].at \in Making
    <3>1. CASE Busy = {}
      BY <3>1 DEF TurnInv, AtRest
    <3>2. ASSUME NEW h \in Busy
          PROVE  Counted \/ \E p \in Passes : PassRight(p) /\ call[p].at \in Making
      BY <3>2 DEF TurnInv, Right, PassRight, ReplyRight
    <3> QED
      BY <3>1, <3>2
  <2> QED
    BY <2>2, <2>3, <2>4
<1> QED
  BY <1>1, TurnsAlways, PTL

\* What a step may write over a declined offer: nothing but the same.
LEMMA StepRejects ==
    ASSUME IInv, TurnInv, serial, [Next]_vars, NEW o \in Passes, status[o] = "REJECTED"
    PROVE  status'[o] = "REJECTED"
<1>0. InTurn /\ status \in [Passes -> OfferStates]
  BY DEF InTurn, IInv, DocsTyped
<1>1. ASSUME NEW p \in Passes, Plan(p) \/ Passing(p) PROVE status'[o] = "REJECTED"
  <2>1. CASE Create(p) \/ RemoveOffer(p)
    <3>1. status[p] # "REJECTED" /\ \A q \in Passes \ {p} : status'[q] = status[q]
      <4>1. InFlight(p) /\ call[p].at \in {"create", "remove"}
        BY <2>1 DEF Create, RemoveOffer, At, InFlight
      <4>2. PassRight(p)
        BY <1>0, <4>1, PassInTurn
      <4> QED
        BY <1>0, <2>1, <4>1, <4>2 DEF PassRight, Making, Create, RemoveOffer
    <3> QED
      BY <3>1
  <2>2. CASE UNCHANGED status
    BY <2>2
  <2> QED
    BY <1>1, <2>1, <2>2 DEF Plan, Passing, Waitlist, LoadRequest, CountLive, FindOld, Hold,
         HoldFails, SaveOffer, offerDocs
<1>2. ASSUME NEW r \in Replies, Begins(r) \/ Replying(r) PROVE status'[o] = "REJECTED"
  <2>1. CASE MarkAccepted(r)
    <3>1. r \in Handlers \ Passes /\ InFlight(r) /\ call[r].at = "accept"
      BY <2>1, HandlersAreDistinct DEF Handlers, MarkAccepted, At, InFlight
    <3>2. status[call[r].offer] = "PENDING"
      BY <1>0, <3>1, ReplyInTurn DEF ReplyRight
    <3> QED
      BY <1>0, <2>1, <3>2 DEF MarkAccepted
  <2>2. CASE UNCHANGED status
    BY <2>2
  <2> QED
    BY <1>2, <2>1, <2>2 DEF Begins, Accept, Reject, CancelRequest, PickInterval, Withdraw,
         Replying, ReadRequest, CountHeld, Convert, ConvertLost, ConvertRefused, Fulfil,
         FindLive, SaveCancelled, Claim, ClaimFails, offerDocs
<1>3. ASSUME NEW h \in Handlers, Mark(h) PROVE status'[o] = "REJECTED"
  <2>1. CASE h \in Passes
    <3>1. InFlight(h) /\ call[h].at = "mark"
      BY <1>3 DEF Mark, At, InFlight
    <3>2. PassRight(h)
      BY <1>0, <2>1, <3>1, PassInTurn
    <3>3. /\ status[call[h].active] = "PENDING" /\ call[h].active \in Passes
          /\ call[h].offer = call[h].active
      BY <3>1, <3>2 DEF PassRight, Retreating
    <3> QED
      BY <1>0, <1>3, <3>3 DEF Mark
  <2>2. CASE h \notin Passes
    BY <1>0, <1>3, <2>2, MarkWrites
  <2> QED
    BY <2>1, <2>2
<1>4. CASE Flip
  BY <1>0, <1>4 DEF Flip
<1> QED
  BY <1>1, <1>2, <1>3, <1>4 DEF Next, Retiring, Release, Reopen, Crash, Lapse, PurgeLapsed,
       FindStale, ExpireRequest, vars, offerDocs

\* While handlers take turns, a declined offer stays declined
\* (recommendation.service.ts:251).
THEOREM RejectionIsFinal == Spec => RejectionStands
<1>1. IInv /\ TurnInv /\ [Next]_vars
        => [serial => \A o \in Passes : status[o] = "REJECTED" => status'[o] = "REJECTED"]_vars
  BY StepRejects
<1> QED
  BY <1>1, TurnsAlways, PTL DEF Spec, RejectionStands

----------------------------------------------------------------------------
(* A live offer is named by its request                                     *)

\* What the documents owe, at rest and at every await of the one handler in
\* flight, and what the handler knows of the offers it is about.
Named == \A o \in LiveOffers : o \in strayed \/ (request = "PENDING" /\ active = o)

Taking(c) == c.at \in {"held", "convert", "accept"} \/ (c.at = "request" /\ c.seen = "PENDING")

ReplyNames(c) ==
    /\ Named
    /\ Taking(c) => LiveOffers \subseteq {c.offer}
    /\ c.at \in {"retire", "mark", "reopen"} /\ c.seen = c.verdict =>
         \A o \in Due(c) : ~Live(o)
    /\ c.at = "reopen" => c.offer \notin LiveOffers
    /\ c.at \in {"cancel", "claim", "fulfil"} => LiveOffers \subseteq strayed

Names(h) == IF h \in Passes THEN call[h].at \notin Making => Named ELSE ReplyNames(call[h])

NameInv == serial => /\ Busy = {} => Named
                     /\ \A h \in Busy : Names(h)

\* Nothing becomes live, and the request names what it named, or named nothing.
LEMMA NamedStays ==
    ASSUME Named, LiveOffers' \subseteq LiveOffers, strayed \subseteq strayed',
           request # "PENDING" \/ UNCHANGED <<request, active>>
    PROVE  Named'
  BY DEF Named

LEMMA NamePasses ==
    ASSUME NEW h \in Handlers, Busy \subseteq {h},
           \A x \in Handlers \ {h} : call'[x] = call[x],
           InFlight(h)' => Names(h)',
           ~InFlight(h)' => Named'
    PROVE  NameInv'
<1>1. \A x \in Handlers : InFlight(x)' => x = h
  BY DEF Busy, InFlight
<1>2. Busy' = IF InFlight(h)' THEN {h} ELSE {}
  BY <1>1 DEF Busy
<1> QED
  BY <1>2 DEF NameInv

\* A write that leaves an offer other than pending makes none live.
LEMMA LiveFalls ==
    ASSUME status \in [Passes -> OfferStates], NEW o, NEW as, as # "PENDING",
           status' \in {status, [status EXCEPT ![o] = as]}, lapsed' = lapsed
    PROVE  /\ LiveOffers' \subseteq LiveOffers
           /\ o \in Passes /\ status' # status => o \notin LiveOffers'
<1>1. \A p \in Passes : status'[p] = status[p] \/ (p = o /\ status'[p] = as)
  OBVIOUS
<1>2. LiveOffers' \subseteq LiveOffers
  BY <1>1 DEF LiveOffers, Live
<1>3. ASSUME o \in Passes, status' # status PROVE o \notin LiveOffers'
  <2>1. status'[o] = as
    BY <1>3
  <2> QED
    BY <2>1 DEF LiveOffers, Live
<1> QED
  BY <1>2, <1>3

\* A step of a handler in flight moves that handler alone.
LEMMA GotoMovesOne ==
    ASSUME CallsTyped, NEW h, NEW step, Goto(h, step)
    PROVE  \A x \in Handlers \ {h} : call'[x] = call[x]
  BY DEF CallsTyped, Goto

LEMMA RetiringMoves ==
    ASSUME CallsTyped, NEW h \in Handlers, Retiring(h)
    PROVE  /\ call[h].at \in {"retire", "mark", "reopen"}
           /\ \A x \in Handlers \ {h} : call'[x] = call[x]
<1>1. ASSUME NEW o \in Passes, Release(h, o)
      PROVE  call[h].at = "retire" /\ \A x \in Handlers \ {h} : call'[x] = call[x]
  BY <1>1 DEF Release, At, CallsTyped
<1>2. ASSUME Mark(h)
      PROVE  call[h].at = "mark" /\ \A x \in Handlers \ {h} : call'[x] = call[x]
  BY <1>2, GotoMovesOne DEF Mark, At
<1>3. ASSUME Reopen(h)
      PROVE  call[h].at = "reopen" /\ \A x \in Handlers \ {h} : call'[x] = call[x]
  BY <1>3, GotoMovesOne DEF Reopen, At
<1> QED
  BY <1>1, <1>2, <1>3 DEF Retiring

LEMMA PassingMoves ==
    ASSUME CallsTyped, NEW p \in Passes, Passing(p)
    PROVE  InFlight(p) /\ \A x \in Handlers \ {p} : call'[x] = call[x]
<1> USE DEF At, InFlight
<1>1. CASE Waitlist(p) \/ Create(p) \/ Hold(p) \/ HoldFails(p) \/ RemoveOffer(p) \/ SaveOffer(p)
  BY <1>1, GotoMovesOne DEF Waitlist, Create, Hold, HoldFails, RemoveOffer, SaveOffer
<1>2. CASE LoadRequest(p)
  BY <1>2, GotoMovesOne DEF LoadRequest, CallsTyped
<1>3. CASE CountLive(p)
  BY <1>3, GotoMovesOne DEF CountLive
<1>4. CASE FindOld(p)
  BY <1>4 DEF FindOld, CallsTyped
<1> QED
  BY <1>1, <1>2, <1>3, <1>4 DEF Passing

LEMMA PassNames ==
    ASSUME InTurn, NameInv, NEW p \in Passes, Plan(p) \/ Passing(p) \/ Retiring(p), serial'
    PROVE  NameInv'
<1>1. p \in Handlers /\ CallsTyped /\ status \in [Passes -> OfferStates]
  BY DEF Handlers, InTurn, CallsFit, DocsTyped
<1>2. /\ \A x \in Handlers \ {p} : call'[x] = call[x]
      /\ Plan(p) \/ InFlight(p)
  <2>1. CASE Plan(p)
    BY <1>1, <2>1 DEF CallsTyped, Plan, Begin
  <2> QED
    BY <1>1, <2>1, PassingMoves, RetiringMoves DEF InFlight
<1>3. ASSUME Named' PROVE NameInv'
  <2>1. CASE Plan(p)
    BY <1>1, <1>2, <1>3, <2>1, NamePasses DEF Plan, Begin, InTurn, Names
  <2>2. CASE InFlight(p)
    <3>1. Busy \subseteq {p}
      BY <2>2, PassInTurn
    <3> QED
      BY <1>1, <1>2, <1>3, <3>1, NamePasses DEF Names
  <2> QED
    BY <1>2, <2>1, <2>2
<1>4. CASE Plan(p)
  <2>1. Busy = {} /\ request # "PENDING" /\ UNCHANGED <<requestDoc, offerDocs>>
    BY <1>4 DEF Plan, Begin, InTurn, Active
  <2>2. Named /\ LiveOffers' = LiveOffers /\ strayed' = strayed
    BY <2>1, StatusKept DEF NameInv, InTurn, offerDocs
  <2> QED
    BY <1>3, <2>1, <2>2, NamedStays
<1>5. ASSUME InFlight(p)
      PROVE  /\ Busy = {p} /\ PassRight(p) /\ request # "PENDING"
             /\ call[p].at \notin Making => Named
  BY <1>5, PassInTurn DEF PassRight, NameInv, Names, InTurn
<1>6. ASSUME InFlight(p), call[p].at \notin Making,
             LiveOffers' \subseteq LiveOffers, strayed' = strayed
      PROVE  NameInv'
  BY <1>3, <1>5, <1>6, NamedStays
<1>7. CASE Waitlist(p) \/ LoadRequest(p) \/ CountLive(p) \/ FindOld(p)
           \/ \E o \in Passes : Release(p, o)
  <2>1. /\ call[p].at \in {"waitlist", "load", "count", "find", "retire"}
        /\ UNCHANGED offerDocs
    <3>1. CASE \E o \in Passes : Release(p, o)
      BY <3>1 DEF Release, At
    <3>2. CASE Waitlist(p) \/ LoadRequest(p) \/ CountLive(p) \/ FindOld(p)
      BY <3>2 DEF Waitlist, LoadRequest, CountLive, FindOld, At
    <3> QED
      BY <1>7, <3>1, <3>2
  <2>2. LiveOffers' = LiveOffers /\ strayed' = strayed
    BY <2>1, StatusKept DEF offerDocs
  <2> QED
    BY <1>6, <2>1, <2>2 DEF InFlight, Making
<1>8. CASE Mark(p)
  <2>1. call[p].at = "mark" /\ strayed' = strayed /\ lapsed' = lapsed
    BY <1>8 DEF Mark, At
  <2>2. call[p].verdict = "SUPERSEDED"
    BY <1>5, <2>1 DEF PassRight, Retreating, InFlight
  <2>3. status' \in {status, [status EXCEPT ![call[p].offer] = "SUPERSEDED"]}
    BY <1>8, <2>2 DEF Mark
  <2> QED
    BY <1>1, <1>6, <2>1, <2>3, LiveFalls DEF InFlight, Making
<1>9. CASE Reopen(p)
  BY <1>5, <1>9 DEF Reopen, At, InFlight, PassRight
<1>10. CASE Create(p) \/ Hold(p) \/ HoldFails(p)
  <2>1. /\ InFlight(p) /\ {"hold", "save", "remove"} \subseteq Steps
        /\ \E step \in {"hold", "save", "remove"} : Goto(p, step)
    BY <1>10 DEF Create, Hold, HoldFails, At, InFlight, Steps
  <2>2. call'[p].at \in Making
    BY <1>1, <2>1, GotoReads DEF Making
  <2>3. Names(p)' /\ InFlight(p)'
    BY <2>2 DEF Names, InFlight, Making
  <2> QED
    BY <1>1, <1>2, <1>5, <2>1, <2>3, NamePasses
<1>11. CASE RemoveOffer(p)
  <2>1. call[p].at = "remove" /\ lapsed' = lapsed
        /\ status' = [status EXCEPT ![p] = "deleted"]
    BY <1>11 DEF RemoveOffer, At
  <2>2. LiveOffers \subseteq {p}
    BY <1>5, <2>1 DEF PassRight, Making, InFlight
  <2>3. LiveOffers' = {}
    BY <1>1, <2>1, <2>2 DEF LiveOffers, Live
  <2> QED
    BY <1>3, <2>3 DEF Named
<1>12. CASE SaveOffer(p)
  <2>1. call[p].at = "save" /\ active' = p /\ UNCHANGED <<status, lapsed>>
        /\ request' = IF call[p].status = "PENDING" THEN request ELSE "PENDING"
    BY <1>12 DEF SaveOffer, At, offerDocs
  <2>2. LiveOffers \subseteq {p} /\ call[p].status # "PENDING"
    BY <1>5, <2>1 DEF PassRight, Making, InFlight
  <2>3. LiveOffers' = LiveOffers
    BY <2>1, StatusKept
  <2> QED
    BY <1>3, <2>1, <2>2, <2>3 DEF Named
<1> QED
  BY <1>4, <1>7, <1>8, <1>9, <1>10, <1>11, <1>12 DEF Passing, Retiring

\* A reply or the sweep moves, or ends.
LEMMA ReplyNamed ==
    ASSUME NEW h \in Handlers \ Passes, Busy \subseteq {h},
           \A x \in Handlers \ {h} : call'[x] = call[x],
           InFlight(h)' => ReplyNames(call[h])',
           ~InFlight(h)' => Named'
    PROVE  NameInv'
  BY NamePasses DEF Names

LEMMA ReplyKnows ==
    ASSUME InTurn, NameInv, NEW h \in Handlers \ Passes, InFlight(h)
    PROVE  /\ CallsTyped /\ call[h] \in Calls /\ Busy = {h} /\ ReplyRight(h)
           /\ ReplyNames(call[h])
           /\ Fits(h, call[h].at, call[h].then, call[h].offer, call[h].count)
  BY ReplyInTurn DEF NameInv, InTurn, Names

\* The offers and what names them stay as they are.
LEMMA NamesKept ==
    ASSUME UNCHANGED <<request, active, status, lapsed, strayed>>
    PROVE  LiveOffers' = LiveOffers /\ (Named => Named')
  BY StatusKept DEF Named

LEMMA BeginsNamed ==
    ASSUME InTurn, NameInv, NEW r \in Replies, Begins(r), serial'
    PROVE  NameInv'
<1>0. r \in Handlers \ Passes
  BY HandlersAreDistinct DEF Handlers
<1>1. UNCHANGED <<request, active, status, lapsed, strayed>>
  <2>1. UNCHANGED <<requestDoc, offerDocs>>
    <3>1. CASE \E o \in Passes : Accept(r, o) \/ Reject(r, o)
      BY <3>1 DEF Accept, Reject
    <3>2. CASE CancelRequest(r) \/ PickInterval(r)
      BY <3>2 DEF CancelRequest, PickInterval, Withdraw
    <3> QED
      BY <3>1, <3>2 DEF Begins
  <2> QED
    BY <2>1 DEF requestDoc, offerDocs
<1>2. ASSUME Busy = {} PROVE LiveOffers' = LiveOffers /\ Named /\ Named'
  BY <1>1, <1>2, NamesKept DEF NameInv, InTurn
<1>3. ASSUME NEW o \in Passes, Accept(r, o) PROVE NameInv'
  <2> DEFINE was == IF status[o] = "PENDING" /\ lapsed[o] THEN "LATE" ELSE status[o]
  <2>1. Begin(r, Answering(Fresh, o, was))
    BY <1>3 DEF Accept, Answering
  <2>2. /\ Busy = {} /\ AtRest /\ \A x \in Handlers \ {r} : call'[x] = call[x]
        /\ call'[r] = Answering(Fresh, o, was)
    BY <1>0, <2>1, BeginReads
  <2>3. call'[r].at = "request" /\ call'[r].offer = o /\ call'[r].seen = was
    BY <2>2 DEF Answering, Fresh
  <2>4. was = "PENDING" => LiveOffers \subseteq {o}
    BY <2>2 DEF AtRest, Single, LiveOffers, Live
  <2> HIDE DEF was
  <2>5. ReplyNames(call[r])'
    BY <1>2, <2>2, <2>3, <2>4 DEF ReplyNames, Taking
  <2> QED
    BY <1>0, <2>2, <2>3, <2>5, ReplyNamed DEF InFlight
<1>4. ASSUME NEW o \in Passes, Reject(r, o) PROVE NameInv'
  <2>1. Begin(r, Retired(Fresh, {o}, status[o], "REJECTED")) /\ status[o] # "REJECTED"
    BY <1>4 DEF Reject, Retired
  <2>2. /\ Busy = {} /\ \A x \in Handlers \ {r} : call'[x] = call[x]
        /\ call'[r] = Retired(Fresh, {o}, status[o], "REJECTED")
    BY <1>0, <2>1, BeginReads
  <2>3. /\ call'[r].at = "retire" /\ call'[r].seen = status[o]
        /\ call'[r].verdict = "REJECTED"
    BY <2>2 DEF Retired, Fresh
  <2>4. ReplyNames(call[r])'
    BY <1>2, <2>1, <2>2, <2>3 DEF ReplyNames, Taking
  <2> QED
    BY <1>0, <2>2, <2>3, <2>4, ReplyNamed DEF InFlight
<1>5. ASSUME NEW then \in {"cancel", "claim"}, Withdraw(r, then) PROVE NameInv'
  <2>1. PICK at \in {then, "live"} : /\ Begin(r, Loaded(Then(Fresh, then), at))
                                     /\ at = then => active = None
    BY <1>5 DEF Withdraw, Then
  <2>2. /\ Busy = {} /\ AtRest /\ \A x \in Handlers \ {r} : call'[x] = call[x]
        /\ call'[r] = Loaded(Then(Fresh, then), at)
    BY <1>0, <2>1, BeginReads
  <2>3. call'[r].at = at
    BY <2>2 DEF Loaded, Then, Fresh
  <2>4. at = then => LiveOffers \subseteq strayed
    BY <1>2, <2>1, <2>2 DEF AtRest, Paired, Named
  <2>5. ReplyNames(call[r])'
    BY <1>1, <1>2, <2>2, <2>3, <2>4 DEF ReplyNames, Taking
  <2> QED
    BY <1>0, <2>2, <2>3, <2>5, ReplyNamed DEF InFlight
<1> QED
  BY <1>3, <1>4, <1>5 DEF Begins, CancelRequest, PickInterval

\* The steps of a reply that write no document of the offer or the request.
LEMMA AnswersNamed ==
    ASSUME InTurn, NameInv, NEW r \in Replies,
           \/ ReadRequest(r) \/ CountHeld(r) \/ ConvertLost(r) \/ FindLive(r)
           \/ Convert(r) \/ ConvertRefused(r) \/ Claim(r) \/ ClaimFails(r)
    PROVE  NameInv'
<1> USE DEF At
<1>0. r \in Handlers \ Passes
  BY HandlersAreDistinct DEF Handlers
<1>1. /\ InFlight(r) /\ call[r].at \in {"request", "held", "convert", "live", "claim"}
      /\ UNCHANGED <<request, active, status, lapsed, strayed>>
  BY DEF ReadRequest, CountHeld, ConvertLost, FindLive, Convert, ConvertRefused, Claim,
     ClaimFails, InFlight, requestDoc, offerDocs
<1>2. /\ CallsTyped /\ Busy = {r} /\ ReplyRight(r) /\ ReplyNames(call[r])
      /\ Fits(r, call[r].at, call[r].then, call[r].offer, call[r].count)
  BY <1>0, <1>1, ReplyKnows
<1>3. Named' /\ LiveOffers' = LiveOffers
  BY <1>1, <1>2, NamesKept DEF ReplyNames
<1>4. {"done", "convert", "accept", "fulfil", "cancel", "claim"} \subseteq Steps
  BY DEF Steps
<1>5. ASSUME NEW offers, NEW was, NEW as, RetireThese(r, offers, was, as),
             was = as => \A o \in offers : ~Live(o)
      PROVE  NameInv'
  <2>1. /\ \A x \in Handlers \ {r} : call'[x] = call[x]
        /\ call'[r].at = "retire" /\ call'[r].seen = was
        /\ call'[r].todo = offers /\ call'[r].verdict = as
    <3>1. call' = [call EXCEPT ![r] = Retired(call[r], offers, was, as)] /\ call[r] \in Calls
      BY <1>0, <1>2, <1>5 DEF RetireThese, Retired, CallsTyped
    <3> QED
      BY <1>0, <1>2, <3>1 DEF CallsTyped, Calls, Retired
  <2>2. ReplyNames(call[r])'
    BY <1>1, <1>3, <1>5, <2>1 DEF ReplyNames, Taking, Due, Live
  <2> QED
    BY <1>0, <1>2, <2>1, <2>2, ReplyNamed DEF InFlight
<1>6. ASSUME NEW step \in {"done", "convert", "accept", "fulfil", "cancel", "claim"},
             Goto(r, step),
             step \in {"convert", "accept"} => LiveOffers \subseteq {call[r].offer},
             step \in {"fulfil", "cancel", "claim"} => LiveOffers \subseteq strayed
      PROVE  NameInv'
  <2>1. /\ \A x \in Handlers \ {r} : call'[x] = call[x]
        /\ step # "done" => call'[r].at = step /\ Remembers(call'[r], call[r])
        /\ step = "done" => ~InFlight(r)'
    BY <1>0, <1>2, <1>4, <1>6, GotoReads
  <2>2. step # "done" => ReplyNames(call[r])'
    BY <1>1, <1>3, <1>6, <2>1 DEF ReplyNames, Taking, Remembers
  <2> QED
    BY <1>0, <1>2, <1>3, <2>1, <2>2, ReplyNamed
<1>7. CASE ReadRequest(r)
  <2>1. CASE Goto(r, "done")
    BY <1>6, <2>1
  <2>2. CASE call[r].seen = "PENDING" /\ call' = [call EXCEPT ![r] = Loaded(@, "held")]
    <3>1. /\ \A x \in Handlers \ {r} : call'[x] = call[x]
          /\ call'[r].at = "held" /\ call'[r].offer = call[r].offer
      BY <1>0, <1>2, <2>2, LoadReads
    <3>2. LiveOffers \subseteq {call[r].offer}
      BY <1>2, <1>7, <2>2 DEF ReadRequest, ReplyNames, Taking
    <3>3. ReplyNames(call[r])'
      BY <1>3, <3>1, <3>2 DEF ReplyNames, Taking
    <3> QED
      BY <1>0, <1>2, <3>1, <3>3, ReplyNamed DEF InFlight
  <2>3. ASSUME NEW was \in {"EXPIRED", "SUPERSEDED", "LATE"}, call[r].seen = was,
               RetireThese(r, {call[r].offer}, was, "EXPIRED")
        PROVE  NameInv'
    <3>1. was = "EXPIRED" => status[call[r].offer] = "EXPIRED"
      BY <1>2, <1>7, <2>3 DEF ReadRequest, ReplyRight
    <3>2. was = "EXPIRED" => ~Live(call[r].offer)
      BY <3>1 DEF Live
    <3> QED
      BY <1>5, <2>3, <3>2
  <2> QED
    BY <1>7, <2>1, <2>2, <2>3 DEF ReadRequest
<1>8. CASE CountHeld(r)
  <2>1. LiveOffers \subseteq {call[r].offer}
    BY <1>2, <1>8 DEF CountHeld, ReplyNames, Taking
  <2> QED
    BY <1>5, <1>6, <1>8, <2>1 DEF CountHeld
<1>9. CASE ConvertLost(r)
  BY <1>5, <1>9 DEF ConvertLost
<1>10. CASE Convert(r) \/ ConvertRefused(r)
  <2>1. LiveOffers \subseteq {call[r].offer}
    BY <1>2, <1>10 DEF Convert, ConvertRefused, ReplyNames, Taking
  <2> QED
    BY <1>6, <1>10, <2>1 DEF Convert, ConvertRefused
<1>11. CASE Claim(r) \/ ClaimFails(r)
  <2>1. LiveOffers \subseteq strayed
    BY <1>2, <1>11 DEF Claim, ClaimFails, ReplyNames
  <2> QED
    BY <1>6, <1>11, <2>1 DEF Claim, ClaimFails
<1>12. CASE FindLive(r)
  <2>1. call[r].then \in {"done", "cancel", "claim"}
    BY <1>0, <1>2 DEF Fits
  <2>2. CASE {o \in Passes : status[o] = "PENDING"} = {} /\ Goto(r, call[r].then)
    <3>1. LiveOffers = {}
      BY <2>2 DEF LiveOffers, Live
    <3> QED
      BY <1>6, <2>1, <2>2, <3>1
  <2>3. CASE RetireThese(r, {o \in Passes : status[o] = "PENDING"}, "PENDING", "REJECTED")
    BY <1>5, <2>3
  <2> QED
    BY <1>12, <2>2, <2>3 DEF FindLive
<1> QED
  BY <1>7, <1>8, <1>9, <1>10, <1>11, <1>12

LEMMA ClosesNamed ==
    ASSUME InTurn, NameInv, NEW r \in Replies,
           MarkAccepted(r) \/ Fulfil(r) \/ SaveCancelled(r)
    PROVE  NameInv'
<1>0. r \in Handlers \ Passes /\ {"fulfil", "done"} \subseteq Steps
  BY HandlersAreDistinct DEF Handlers, Steps
<1>1. InFlight(r) /\ call[r].at \in {"accept", "fulfil", "cancel"}
  BY DEF MarkAccepted, Fulfil, SaveCancelled, At, InFlight
<1>2. CallsTyped /\ Busy = {r} /\ ReplyNames(call[r])
  BY <1>0, <1>1, ReplyKnows
<1>3. CASE MarkAccepted(r)
  <2>1. call[r].at = "accept" /\ call[r].offer \in Passes /\ Goto(r, "fulfil")
    BY <1>3, TakingSteps DEF MarkAccepted, At, InTurn
  <2>2. /\ LiveOffers \subseteq {call[r].offer} /\ status \in [Passes -> OfferStates]
        /\ status' = [status EXCEPT ![call[r].offer] = "ACCEPTED"]
    BY <1>2, <1>3, <2>1 DEF MarkAccepted, ReplyNames, Taking, InTurn, DocsTyped
  <2>3. LiveOffers' = {}
    <3>1. LiveOffers' \subseteq LiveOffers
      BY <1>3, <2>2, LiveFalls DEF MarkAccepted
    <3>2. status'[call[r].offer] = "ACCEPTED"
      BY <2>1, <2>2
    <3> QED
      BY <2>2, <3>1, <3>2 DEF LiveOffers, Live
  <2>4. /\ \A x \in Handlers \ {r} : call'[x] = call[x]
        /\ call'[r].at = "fulfil"
    BY <1>0, <1>2, <2>1, GotoReads
  <2>5. ReplyNames(call[r])'
    BY <2>3, <2>4 DEF ReplyNames, Taking, Named
  <2> QED
    BY <1>0, <1>2, <2>4, <2>5, ReplyNamed DEF InFlight
<1>4. CASE Fulfil(r) \/ SaveCancelled(r)
  <2>1. call[r].at \in {"fulfil", "cancel"} /\ Goto(r, "done") /\ UNCHANGED offerDocs
    BY <1>4 DEF Fulfil, SaveCancelled, At
  <2>2. LiveOffers \subseteq strayed
    BY <1>2, <2>1 DEF ReplyNames
  <2>3. LiveOffers' = LiveOffers /\ strayed' = strayed
    BY <2>1, StatusKept DEF offerDocs
  <2>4. Named' /\ ~InFlight(r)' /\ \A x \in Handlers \ {r} : call'[x] = call[x]
    BY <1>0, <1>2, <2>1, <2>2, <2>3, GotoReads DEF Named
  <2> QED
    BY <1>0, <1>2, <2>4, ReplyNamed
<1> QED
  BY <1>3, <1>4

LEMMA RetiringNamed ==
    ASSUME InTurn, NameInv, NEW h \in Handlers \ Passes, Retiring(h)
    PROVE  NameInv'
<1>1. /\ InFlight(h) /\ call[h].at \in {"retire", "mark", "reopen"}
      /\ \A x \in Handlers \ {h} : call'[x] = call[x]
  BY RetiringMoves DEF InTurn, CallsFit, InFlight
<1>2. /\ CallsTyped /\ call[h] \in Calls /\ Busy = {h} /\ ReplyRight(h)
      /\ ReplyNames(call[h]) /\ Named
      /\ Fits(h, call[h].at, call[h].then, call[h].offer, call[h].count)
  BY <1>1, ReplyKnows DEF ReplyNames
<1>3. CASE \E o \in Passes : Release(h, o)
  <2>1. PICK o \in Passes : Release(h, o)
    BY <1>3
  <2>2. /\ call[h].at = "retire" /\ o \in call[h].todo
        /\ UNCHANGED <<request, active, status, lapsed, strayed>>
    BY <2>1 DEF Release, At, requestDoc, offerDocs
  <2>3. /\ call'[h].at = "mark" /\ call'[h].offer = o /\ call'[h].todo = call[h].todo \ {o}
        /\ call'[h].seen = call[h].seen /\ call'[h].verdict = call[h].verdict
    BY <1>2, <2>1 DEF Release, CallsTyped, Calls
  <2>4. Due(call'[h]) = Due(call[h])
    BY <2>2, <2>3 DEF Due
  <2>5. ReplyNames(call[h])'
    BY <1>2, <2>2, <2>3, <2>4, NamesKept DEF ReplyNames, Taking, Live
  <2> QED
    BY <1>1, <1>2, <2>3, <2>5, ReplyNamed DEF InFlight
<1>4. CASE Mark(h)
  <2> DEFINE o == call[h].offer
  <2>1. call[h].at = "mark" /\ lapsed' = lapsed /\ UNCHANGED <<request, active, strayed>>
    BY <1>4 DEF Mark, At, requestDoc
  <2>2. /\ o \in Passes /\ Offered(o) /\ Goto(h, "reopen") /\ LiveOffers' \subseteq LiveOffers
    BY <1>4, MarkWrites
  <2>3. "reopen" \in Steps /\ call[h].verdict \in {"EXPIRED", "REJECTED"}
        /\ status \in [Passes -> OfferStates]
    BY <1>2, <2>1 DEF Steps, ReplyRight, InTurn, DocsTyped
  <2>4. call'[h].at = "reopen" /\ Remembers(call'[h], call[h])
    BY <1>2, <2>2, <2>3, GotoReads
  <2>5. o \notin LiveOffers'
    <3>1. CASE call[h].seen = call[h].verdict
      BY <1>2, <2>1, <2>2, <3>1 DEF ReplyNames, Due, LiveOffers
    <3>2. CASE call[h].seen # call[h].verdict
      <4>1. status'[o] = call[h].verdict
        BY <1>4, <2>2, <2>3, <3>2 DEF Mark, Offered
      <4> QED
        BY <2>3, <4>1 DEF LiveOffers, Live
    <3> QED
      BY <3>1, <3>2
  <2>6. Named'
    BY <1>2, <2>1, <2>2, NamedStays
  <2>7. ASSUME call[h].seen = call[h].verdict PROVE \A q \in Due(call'[h]) : ~Live(q)'
    <3>1. Due(call'[h]) \subseteq Due(call[h]) /\ Due(call'[h]) \subseteq Passes
      BY <1>2, <2>4 DEF Due, Remembers, Calls
    <3>2. \A q \in Due(call[h]) : ~Live(q)
      BY <1>2, <2>1, <2>7 DEF ReplyNames
    <3> QED
      BY <2>2, <3>1, <3>2 DEF LiveOffers
  <2>8. ReplyNames(call[h])'
    BY <2>4, <2>5, <2>6, <2>7 DEF ReplyNames, Taking, Remembers
  <2> QED
    BY <1>1, <1>2, <2>4, <2>8, ReplyNamed DEF InFlight
<1>5. CASE Reopen(h)
  <2>1. /\ call[h].at = "reopen" /\ UNCHANGED <<status, lapsed>>
        /\ request' # "PENDING" /\ strayed' = strayed \cup Stray(h)
    BY <1>5 DEF Reopen, At
  <2>2. LiveOffers' = LiveOffers /\ call[h].offer \notin LiveOffers
    BY <1>2, <2>1, StatusKept DEF ReplyNames
  <2>3. None \notin LiveOffers
    BY HandlersAreDistinct DEF LiveOffers
  <2>4. LiveOffers' \subseteq strayed' /\ Named'
    BY <1>2, <2>1, <2>2, <2>3 DEF Named, Stray
  <2>5. PICK step \in {call[h].then, "retire"} : Goto(h, step)
    BY <1>5 DEF Reopen
  <2>6. step \in {"done", "cancel", "claim", "retire"} /\ step \in Steps
    BY <1>2, <2>1, <2>5 DEF Fits, Handlers, Steps
  <2>7. /\ step # "done" => call'[h].at = step /\ Remembers(call'[h], call[h])
        /\ step = "done" => ~InFlight(h)'
    BY <1>2, <2>5, <2>6, GotoReads
  <2>8. step # "done" => ReplyNames(call[h])'
    <3>1. ASSUME step = "retire", call[h].seen = call[h].verdict
          PROVE  \A q \in Due(call'[h]) : ~Live(q)'
      BY <1>2, <2>1, <2>7, <3>1 DEF ReplyNames, Due, Remembers, Live
    <3> QED
      BY <2>4, <2>6, <2>7, <3>1 DEF ReplyNames, Taking, Remembers
  <2> QED
    BY <1>1, <1>2, <2>4, <2>7, <2>8, ReplyNamed
<1> QED
  BY <1>3, <1>4, <1>5 DEF Retiring

LEMMA SweepNamed ==
    ASSUME InTurn, NameInv, (\E o \in Passes : FindStale(o)) \/ Flip, serial'
    PROVE  NameInv'
<1>0. Sweeper \in Handlers \ Passes /\ "done" \in Steps
  BY HandlersAreDistinct DEF Handlers, Steps
<1>1. ASSUME NEW o \in Passes, FindStale(o) PROVE NameInv'
  <2>1. Begin(Sweeper, About(Fresh, "flip", o))
    BY <1>1 DEF FindStale, About
  <2>2. /\ Busy = {} /\ \A x \in Handlers \ {Sweeper} : call'[x] = call[x]
        /\ call'[Sweeper] = About(Fresh, "flip", o)
    BY <1>0, <2>1, BeginReads
  <2>3. call'[Sweeper].at = "flip"
    BY <2>2 DEF About, Fresh
  <2>4. Named'
    <3>1. UNCHANGED <<request, active, status, lapsed, strayed>>
      BY <1>1 DEF FindStale, requestDoc, offerDocs
    <3> QED
      BY <2>2, <3>1, NamesKept DEF NameInv, InTurn
  <2>5. ReplyNames(call[Sweeper])'
    BY <2>3, <2>4 DEF ReplyNames, Taking
  <2> QED
    BY <1>0, <2>2, <2>3, <2>5, ReplyNamed DEF InFlight
<1>2. CASE Flip
  <2>1. InFlight(Sweeper) /\ UNCHANGED <<request, active, lapsed, strayed>>
    BY <1>2 DEF Flip, At, InFlight, requestDoc
  <2>2. /\ CallsTyped /\ Busy = {Sweeper} /\ Named /\ call[Sweeper] \in Calls
        /\ status \in [Passes -> OfferStates]
    BY <1>0, <2>1, ReplyKnows DEF ReplyNames, InTurn, DocsTyped
  <2>3. status' \in {status, [status EXCEPT ![call[Sweeper].offer] = "EXPIRED"]}
    BY <1>2 DEF Flip
  <2>4. Named'
    BY <2>1, <2>2, <2>3, LiveFalls, NamedStays
  <2>5. CASE Goto(Sweeper, "done")
    BY <1>0, <2>2, <2>4, <2>5, GotoReads, ReplyNamed
  <2>6. ASSUME NEW o, RetireThese(Sweeper, {o}, "PENDING", "EXPIRED") PROVE NameInv'
    <3>1. call' = [call EXCEPT ![Sweeper] = Retired(call[Sweeper], {o}, "PENDING", "EXPIRED")]
      BY <2>6 DEF RetireThese, Retired
    <3>2. /\ \A x \in Handlers \ {Sweeper} : call'[x] = call[x]
          /\ call'[Sweeper].at = "retire" /\ call'[Sweeper].seen = "PENDING"
          /\ call'[Sweeper].verdict = "EXPIRED"
      BY <1>0, <2>2, <3>1 DEF CallsTyped, Calls, Retired
    <3>3. ReplyNames(call[Sweeper])'
      BY <2>4, <3>2 DEF ReplyNames, Taking
    <3> QED
      BY <1>0, <2>2, <3>2, <3>3, ReplyNamed DEF InFlight
  <2> QED
    BY <1>2, <2>5, <2>6 DEF Flip
<1> QED
  BY <1>1, <1>2

\* Time passes, holds are purged, requests age out: less is live, and no request
\* that names an offer is touched.
LEMMA QuietNamed ==
    ASSUME InTurn, NameInv,
           \/ \E o \in Passes : Lapse(o) \/ PurgeLapsed(o)
           \/ ExpireRequest \/ UNCHANGED vars
    PROVE  NameInv'
<1>1. /\ UNCHANGED <<active, status, strayed, call>>
      /\ request' = request \/ request # "PENDING"
  BY DEF Lapse, PurgeLapsed, ExpireRequest, vars, requestDoc, offerDocs, Active
<1>2. \A p \in Passes : lapsed[p] => lapsed'[p]
  BY DEF Lapse, PurgeLapsed, ExpireRequest, vars, offerDocs, InTurn, DocsTyped
<1>3. (\A p \in Passes : Live(p)' => Live(p)) /\ LiveOffers' \subseteq LiveOffers
  BY <1>1, <1>2 DEF Live, LiveOffers
<1>4. Named => Named'
  BY <1>1, <1>3, NamedStays
<1>5. ASSUME NEW h \in Handlers, h \notin Passes, ReplyNames(call[h]) PROVE ReplyNames(call[h])'
  <2> DEFINE c == call[h]
  <2>1. Due(c) \subseteq Passes
    BY DEF Due, InTurn, CallsFit, CallsTyped, Calls, Fits
  <2>2. c' = c /\ Named' /\ Due(c)' = Due(c)
    BY <1>1, <1>4, <1>5 DEF ReplyNames, Due
  <2>3. ASSUME c.at \in {"retire", "mark", "reopen"}, c.seen = c.verdict, NEW o \in Due(c)
        PROVE  ~Live(o)'
    BY <1>3, <1>5, <2>1, <2>3 DEF ReplyNames
  <2>4. /\ Taking(c) => LiveOffers' \subseteq {c.offer}
        /\ c.at = "reopen" => c.offer \notin LiveOffers'
        /\ c.at \in {"cancel", "claim", "fulfil"} => LiveOffers' \subseteq strayed'
    BY <1>1, <1>3, <1>5 DEF ReplyNames
  <2> QED
    BY <2>2, <2>3, <2>4 DEF ReplyNames, Taking
<1>6. \A h \in Handlers : Names(h) => Names(h)'
  BY <1>1, <1>4, <1>5 DEF Names
<1>7. Busy' = Busy /\ Busy \subseteq Handlers
  BY <1>1 DEF Busy, InFlight
<1> QED
  BY <1>4, <1>6, <1>7 DEF NameInv, InTurn

LEMMA StepNamed ==
    ASSUME IInv, TurnInv, NameInv, [Next]_vars
    PROVE  NameInv'
<1>0. DocsTyped /\ CallsFit
  BY DEF IInv
<1> SUFFICES ASSUME serial' = TRUE PROVE NameInv'
  BY StepDocs, <1>0 DEF NameInv, DocsTyped
<1>1. serial /\ ~\E h \in Handlers : Crash(h)
  <2>1. (\E h \in Handlers : Crash(h)) => serial' = FALSE
    BY DEF Crash
  <2>2. serial \in BOOLEAN /\ serial' \in {serial, FALSE}
    BY <1>0, StepSerial DEF DocsTyped
  <2> QED
    BY <2>1, <2>2
<1>2. InTurn
  BY <1>0, <1>1 DEF InTurn
<1>3. ASSUME NEW p \in Passes, Plan(p) \/ Passing(p) PROVE NameInv'
  BY <1>2, <1>3, PassNames
<1>4. ASSUME NEW r \in Replies, Begins(r) \/ Replying(r) PROVE NameInv'
  BY <1>2, <1>4, BeginsNamed, AnswersNamed, ClosesNamed DEF Replying
<1>5. ASSUME NEW h \in Handlers, Retiring(h) PROVE NameInv'
  BY <1>2, <1>5, PassNames, RetiringNamed
<1>6. CASE (\E o \in Passes : FindStale(o)) \/ Flip
  BY <1>2, <1>6, SweepNamed
<1>7. CASE (\E o \in Passes : Lapse(o) \/ PurgeLapsed(o)) \/ ExpireRequest \/ UNCHANGED vars
  BY <1>2, <1>7, QuietNamed
<1> QED
  BY <1>1, <1>3, <1>4, <1>5, <1>6, <1>7 DEF Next

\* While handlers take turns, a live offer at rest is the one its pending request
\* names, unless a late answer to another offer has reopened that request
\* (recommendation.service.ts:25, reservationRequest.service.ts:409-411 and 507).
THEOREM LiveOffersAreNamed == Spec => []LiveOfferIsNamed
<1>1. Init => NameInv
  BY FreshTyped DEF Init, NameInv, Named, LiveOffers, Live, Busy, InFlight
<1>2. IInv /\ TurnInv /\ NameInv /\ [Next]_vars => NameInv'
  BY StepNamed
<1>3. NameInv => LiveOfferIsNamed
  BY DEF NameInv, LiveOfferIsNamed, Named, LiveOffers
<1> QED
  BY <1>1, <1>2, <1>3, TurnsAlways, PTL DEF Spec

----------------------------------------------------------------------------
(* Offers over the abstract lease                                           *)

\* Whatever overlaps and whatever dies, the handlers of requests and offers
\* touch charger time only through the promises of occupancy.service.ts: an
\* acceptance converts an offer that exists, into a reply that has no time yet.
LEMMA LeaseFollows ==
    ASSUME DocsTyped, CallsFit, [Next]_vars
    PROVE  [Lease!Next]_lease
<1> USE DEF Lease!Next, Lease!Holders
<1>1. LeaseSteps
  BY StepLeases
<1>2. ASSUME NEW o \in Passes, Lease!Release({o}) PROVE Lease!Next
  <2>1. {o} \in SUBSET (Replies \cup Passes)
    OBVIOUS
  <2> QED
    BY <1>2, <2>1
<1>3. ASSUME NEW h \in Passes \cup Replies, NEW bay \in Bays, Lease!Acquire(h, {bay})
      PROVE  Lease!Next
  <2>1. {bay} \in SUBSET Bays
    OBVIOUS
  <2> QED
    BY <1>3, <2>1
<1>4. ASSUME NEW r \in Replies, Convert(r), Lease!Transfer(call[r].offer, r) PROVE Lease!Next
  <2>1. call[r].offer \in Passes
    BY <1>4 DEF Convert, CallsFit, Fits, At, Handlers
  <2> QED
    BY <1>4, <2>1
<1> QED
  BY <1>1, <1>2, <1>3, <1>4 DEF LeaseSteps

LEMMA StepExcludes ==
    ASSUME Lease!TypeOK, Lease!Exclusive, [Lease!Next]_lease
    PROVE  Lease!Exclusive'
<1> USE DEF Lease!Exclusive, Lease!TypeOK, Lease!Holders
<1>1. ASSUME NEW h \in Lease!Holders, NEW range \in SUBSET Bays, Lease!Acquire(h, range)
      PROVE  Lease!Exclusive'
  BY <1>1 DEF Lease!Acquire
<1>2. ASSUME NEW o \in Passes, NEW r \in Replies, Lease!Transfer(o, r)
      PROVE  Lease!Exclusive'
  <2>1. \A x \in Lease!Holders : lease'[x] = IF x = r THEN lease[o]
                                            ELSE IF x = o THEN {} ELSE lease[x]
    BY <1>2 DEF Lease!Transfer
  <2> QED
    BY <2>1
<1>3. ASSUME NEW some \in SUBSET Lease!Holders, Lease!Release(some)
      PROVE  Lease!Exclusive'
  BY <1>3 DEF Lease!Release
<1> QED
  BY <1>1, <1>2, <1>3 DEF Lease!Next

\* No bay is owned twice, by two offers, two reservations or one of each.
THEOREM BaysAreExclusive == Spec => []Lease!Exclusive
<1>1. Init => Lease!Exclusive
  BY DEF Init, Lease!Init, Lease!Exclusive, Lease!Holders
<1>2. IInv => Lease!TypeOK
  BY DEF IInv, DocsTyped
<1>3. IInv /\ Lease!Exclusive /\ [Next]_vars => Lease!Exclusive'
  BY <1>2, LeaseFollows, StepExcludes DEF IInv
<1> QED
  BY <1>1, <1>3, OffersAlways, PTL DEF Spec
=============================================================================
