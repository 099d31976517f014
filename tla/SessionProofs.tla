--------------------------- MODULE SessionProofs ---------------------------
(***************************************************************************)
(* Proofs about Session, for any number of callers.                        *)
(*                                                                         *)
(* A pending save carries an old decision into a document that has moved   *)
(* on, so the properties are not inductive as they stand: Sound says of    *)
(* every pending save what it may set, given the document as it is now.    *)
(***************************************************************************)
EXTENDS Session, TLAPS

Fields == {"lifecycle", "status", "payment", "arrived", "started", "ended"}

\* A pending save puts nothing back to pending, says paid only of what it
\* confirms, settles what it ends, unless a promotion went between, and only
\* adds stamps whose predecessors are there or are added with them.
Sound(c) ==
    /\ Sets(c, "lifecycle") => call[c].set.lifecycle # "PENDING_PAYMENT"
    /\ Sets(c, "status") \/ Sets(c, "payment") =>
         Sets(c, "lifecycle") \/ booking.lifecycle # "PENDING_PAYMENT"
    /\ Sets(c, "payment") /\ call[c].set.payment = "paid" =>
         Sets(c, "status") /\ call[c].set.status = "confirmed"
    /\ EndsUnsettled(c) => booking.payment # "paid" \/ crossed
    /\ Sets(c, "arrived") => call[c].set.arrived = TRUE
    /\ Sets(c, "started") =>
         call[c].set.started = TRUE /\ (booking.arrived = TRUE \/ Sets(c, "arrived"))
    /\ Sets(c, "ended") => call[c].set.ended = TRUE /\ booking.started = TRUE
    /\ Sets(c, "lifecycle") /\ call[c].set.lifecycle = "CHARGING" =>
         booking.started = TRUE \/ Sets(c, "started")

\* What a charging document and an ended one have behind them.
Stamped(d) ==
    /\ d.lifecycle = "CHARGING" => d.started = TRUE
    /\ d.ended = TRUE => d.started = TRUE
    /\ d.started = TRUE => d.arrived = TRUE

Settled(d) == d.status \in Gone => d.payment # "paid"

\* A reservation whose deposit is outstanding.
Unpaid(d) ==
    d.lifecycle = "PENDING_PAYMENT" => d.status = "pending" /\ d.payment # "paid"

IInv ==
    /\ TypeOK
    /\ Settled(booking) \/ crossed
    /\ Unpaid(booking)
    /\ Stamped(booking)
    /\ \A c \in Calls : call[c].at = "save" => Sound(c)

\* What a handler's copy may differ in from the document it loaded.
Fit(new) ==
    /\ new \in Documents
    /\ new.lifecycle # booking.lifecycle => new.lifecycle # "PENDING_PAYMENT"
    /\ new.status # booking.status \/ new.payment # booking.payment =>
         new.lifecycle # booking.lifecycle \/ booking.lifecycle # "PENDING_PAYMENT"
    /\ new.payment # booking.payment /\ new.payment = "paid" =>
         new.status # booking.status /\ new.status = "confirmed"
    /\ new.status # booking.status => Settled(new)
    /\ new.arrived # booking.arrived => new.arrived = TRUE
    /\ new.started # booking.started => new.started = TRUE /\ new.arrived = TRUE
    /\ new.ended # booking.ended => new.ended = TRUE /\ booking.started = TRUE
    /\ new.lifecycle = "CHARGING" => new.started = TRUE

\* Every document has exactly the six fields.
LEMMA DocumentFields == ASSUME NEW d \in Documents PROVE DOMAIN d = Fields
BY DEF Documents, Fields

\* Over the document it was loaded from, a save writes the whole copy.
LEMMA FreshSaveWritesCopy ==
    ASSUME booking \in Documents, NEW c \in Calls, NEW new \in Documents, NEW set,
           set = [f \in {g \in DOMAIN booking : new[g] # booking[g]} |-> new[f]]
    PROVE  [f \in DOMAIN booking |-> IF f \in DOMAIN set THEN set[f] ELSE booking[f]] = new
<1>1. DOMAIN booking = Fields /\ DOMAIN new = Fields
  BY DocumentFields
<1>2. \A f \in Fields : (IF f \in DOMAIN set THEN set[f] ELSE booking[f]) = new[f]
  BY <1>1
<1>3. new = [f \in Fields |-> new[f]]
  BY <1>1 DEF Documents, Fields
<1> QED
  BY <1>1, <1>2, <1>3

\* Loading and editing a copy keeps the invariant if the copy is fit.
LEMMA EditKeeps ==
    ASSUME IInv, NEW c \in Calls, NEW new, NEW releases \in BOOLEAN, Fit(new),
           Edit(c, new, releases)
    PROVE  IInv'
<1> DEFINE set == [f \in {g \in DOMAIN booking : new[g] # booking[g]} |-> new[f]]
<1>1. /\ booking' = booking /\ lease' = lease /\ died' = died /\ crossed' = crossed
      /\ call' = [call EXCEPT ![c] = [at |-> "save", releases |-> releases, set |-> set]]
      /\ serial' = (serial /\ Busy = {})
  BY DEF Edit
<1>2. booking \in Documents /\ new \in Documents /\ DOMAIN booking = Fields /\ DOMAIN call = Calls
  BY DocumentFields DEF IInv, TypeOK, Fit
<1>3. /\ call'[c].at = "save" /\ call'[c].set = set
      /\ DOMAIN call' = Calls
      /\ \A o \in Calls \ {c} : call'[o] = call[o]
  BY <1>1, <1>2
<1>4. TypeOK'
  <2>1. Saved(c)' \in Documents
    BY <1>1, <1>2, <1>3, FreshSaveWritesCopy DEF Saved
  <2>2. \A o \in Calls \ {c} : Saved(o)' = Saved(o)
    BY <1>1, <1>3 DEF Saved
  <2> QED
    BY <1>1, <1>2, <1>3, <2>1, <2>2 DEF IInv, TypeOK
<1>5. Sound(c)'
  <2>1. \A f \in Fields : f \in DOMAIN set <=> new[f] # booking[f]
    BY <1>2
  <2>2. \A f \in DOMAIN set : set[f] = new[f]
    OBVIOUS
  <2>3. /\ booking.arrived \in BOOLEAN /\ new.arrived \in BOOLEAN
        /\ booking.started \in BOOLEAN /\ new.started \in BOOLEAN
    BY <1>2 DEF Documents
  <2> HIDE DEF set
  <2> QED
    BY <1>1, <1>3, <2>1, <2>2, <2>3 DEF Sound, EndsUnsettled, Sets, Fit, Settled, Fields
<1>6. \A o \in Calls \ {c} : call'[o].at = "save" => Sound(o)'
  BY <1>1, <1>3 DEF IInv, Sound, EndsUnsettled, Sets
<1> QED
  BY <1>1, <1>3, <1>4, <1>5, <1>6 DEF IInv, Settled, Unpaid, Stamped

\* Every operation prepares a copy that fits.
LEMMA OperationsFit ==
    ASSUME IInv, NEW c \in Calls, Begin(c)
    PROVE  \E new, releases : releases \in BOOLEAN /\ Fit(new) /\ Edit(c, new, releases)
<1> USE DEF Fit, Settled, Documents, Lifecycles, Statuses, Holding, Startable, CheckInable,
            Terminal, Gone
<1>1. /\ booking \in Documents /\ Unpaid(booking) /\ Stamped(booking)
  BY DEF IInv, TypeOK
<1>0. CASE Promote(c)
  <2> DEFINE new == [booking EXCEPT !.lifecycle = "RESERVED", !.status = "confirmed",
                                    !.payment = "paid"]
  <2>1. Fit(new)
    BY <1>0, <1>1 DEF Promote, Unpaid
  <2> QED
    BY <1>0, <2>1 DEF Promote
<1>2. CASE CheckIn(c)
  <2> DEFINE new == [booking EXCEPT !.lifecycle = "ARRIVED", !.arrived = TRUE]
  <2>1. Fit(new)
    BY <1>1
  <2> QED
    BY <1>2, <2>1 DEF CheckIn
<1>3. CASE StartCharging(c)
  <2> DEFINE new == [booking EXCEPT !.lifecycle = "CHARGING", !.arrived = TRUE, !.started = TRUE]
  <2>1. Fit(new)
    BY <1>1
  <2> QED
    BY <1>3, <2>1 DEF StartCharging
<1>4. CASE EndCharging(c)
  <2> DEFINE new == [booking EXCEPT !.lifecycle = "COMPLETED", !.status = "completed",
                                    !.ended = TRUE]
  <2>1. booking.started = TRUE
    BY <1>1, <1>4 DEF EndCharging, Stamped
  <2>2. Fit(new)
    BY <1>1, <2>1
  <2> QED
    BY <1>4, <2>2 DEF EndCharging
<1>5. CASE Cancel(c)
  <2>1. PICK payment \in Settlements :
          Edit(c, [booking EXCEPT !.lifecycle = "CANCELLED", !.status = "cancelled",
                                  !.payment = payment], TRUE)
    BY <1>5 DEF Cancel
  <2>2. Fit([booking EXCEPT !.lifecycle = "CANCELLED", !.status = "cancelled",
                            !.payment = payment])
    BY <1>1 DEF Settlements
  <2> QED
    BY <2>1, <2>2
<1>6. CASE Complete(c)
  <2> DEFINE new == [booking EXCEPT !.lifecycle = "COMPLETED", !.status = "completed"]
  <2>1. Fit(new)
    BY <1>1
  <2> QED
    BY <1>6, <2>1 DEF Complete
<1>7. CASE NoShow(c)
  <2>1. PICK payment \in Settlements :
          Edit(c, [booking EXCEPT !.lifecycle = "NO_SHOW", !.status = "no_show",
                                  !.payment = payment], TRUE)
    BY <1>7 DEF NoShow
  <2>2. Fit([booking EXCEPT !.lifecycle = "NO_SHOW", !.status = "no_show",
                            !.payment = payment])
    BY <1>1 DEF Settlements
  <2> QED
    BY <2>1, <2>2
<1> QED
  BY <1>0, <1>2, <1>3, <1>4, <1>5, <1>6, <1>7 DEF Begin

\* What another step may do to the document under a pending save: it is not
\* pending again, becomes paid under an unsettled end only by crossing it, and
\* its stamps stay.
OnlyGrows ==
    /\ booking' \in Documents
    /\ crossed' \in BOOLEAN /\ (crossed => crossed')
    /\ booking.lifecycle # "PENDING_PAYMENT" => booking'.lifecycle # "PENDING_PAYMENT"
    /\ booking.payment # "paid" /\ booking'.payment = "paid" =>
         crossed' \/ ~\E o \in Calls : EndsUnsettled(o)
    /\ booking.arrived = TRUE => booking'.arrived = TRUE
    /\ booking.started = TRUE => booking'.started = TRUE

\* A pending save stays typed and sound when the document only grows.
LEMMA PendingStays ==
    ASSUME IInv, OnlyGrows, NEW o \in Calls, call'[o] = call[o], call[o].at = "save",
           Saved(o) \in Documents
    PROVE  Saved(o)' \in Documents /\ Sound(o)'
<1>1. DOMAIN booking = Fields /\ DOMAIN booking' = Fields
  BY DocumentFields DEF IInv, TypeOK, OnlyGrows
<1>2. Saved(o)' \in Documents
  BY <1>1 DEF IInv, TypeOK, Saved, OnlyGrows, Documents, Fields
<1>3. Sound(o)'
  BY DEF IInv, OnlyGrows, Sound, EndsUnsettled, Sets
<1> QED
  BY <1>2, <1>3

\* A save writes what is sound, so the properties hold of the document it
\* leaves and of the saves still to come.
LEMMA SaveKeeps == ASSUME IInv, NEW c \in Calls, Save(c) PROVE IInv'
<1> DEFINE set == call[c].set
<1>1. /\ booking \in Documents /\ DOMAIN booking = Fields /\ DOMAIN call = Calls
      /\ call[c].at = "save" /\ Sound(c)
      /\ (Settled(booking) \/ crossed) /\ Unpaid(booking) /\ Stamped(booking)
  BY DocumentFields DEF IInv, TypeOK, Save
<1>2. /\ booking' = [f \in Fields |-> IF f \in DOMAIN set THEN set[f] ELSE booking[f]]
      /\ call' = [call EXCEPT ![c] = Returning(call[c].releases)]
      /\ UNCHANGED <<lease, serial, died>>
      /\ crossed' \in BOOLEAN /\ (crossed => crossed')
      /\ Sets(c, "payment") /\ call[c].set.payment = "paid"
           => crossed' \/ ~\E o \in Calls : EndsUnsettled(o)
  BY <1>1 DEF Save, Saved, IInv, TypeOK
<1>3. booking' \in Documents
  BY <1>1 DEF IInv, TypeOK, Save, Returned
<1>4. (Settled(booking') \/ crossed') /\ Unpaid(booking')
  <2>1. Settled(booking') \/ crossed'
    BY <1>1, <1>2 DEF Settled, Sound, EndsUnsettled, Sets, Fields, Gone
  <2>2. Unpaid(booking')
    BY <1>1, <1>2 DEF Unpaid, Sound, Sets, Fields
  <2> QED
    BY <2>1, <2>2
<1>5. OnlyGrows
  BY <1>1, <1>2, <1>3 DEF OnlyGrows, Sound, Sets, Fields
<1>6. Stamped(booking')
  <2>1. booking'.lifecycle = "CHARGING" => booking'.started = TRUE
    BY <1>1, <1>2 DEF Stamped, Sound, Sets, Fields
  <2>2. booking'.ended = TRUE => booking'.started = TRUE
    BY <1>1, <1>2 DEF Stamped, Sound, Sets, Fields
  <2>3. booking'.started = TRUE => booking'.arrived = TRUE
    BY <1>1, <1>2 DEF Stamped, Sound, Sets, Fields
  <2> QED
    BY <2>1, <2>2, <2>3 DEF Stamped
<1>7. /\ DOMAIN call' = Calls
      /\ call'[c] \in Returned /\ call'[c].at # "save"
      /\ \A o \in Calls \ {c} : call'[o] = call[o]
  BY <1>1, <1>2 DEF Returning, Returned
<1>8. \A o \in Calls \ {c} : call[o].at = "save" => Saved(o)' \in Documents /\ Sound(o)'
  <2>1. \A o \in Calls : call[o].at = "save" => Saved(o) \in Documents
    BY DEF IInv, TypeOK, Returned
  <2> QED
    BY <1>5, <1>7, <2>1, PendingStays
<1>9. TypeOK'
  BY <1>2, <1>3, <1>7, <1>8 DEF IInv, TypeOK
<1> QED
  BY <1>4, <1>6, <1>7, <1>8, <1>9 DEF IInv

\* The no-show transaction settles the deposit with the status.
LEMMA SweepKeeps == ASSUME IInv, SweepNoShow PROVE IInv'
<1>1. /\ booking \in Documents /\ (Settled(booking) \/ crossed) /\ Stamped(booking)
      /\ crossed \in BOOLEAN
  BY DEF IInv, TypeOK
<1>2. /\ booking' = [booking EXCEPT !.lifecycle = "NO_SHOW", !.status = "no_show",
                                    !.payment = IF @ = "paid" THEN "forfeited" ELSE @]
      /\ lease' = FALSE /\ serial' \in BOOLEAN /\ UNCHANGED <<call, crossed, died>>
  BY DEF SweepNoShow, IInv, TypeOK
<1>3. /\ OnlyGrows /\ Settled(booking') /\ Unpaid(booking') /\ Stamped(booking')
  BY <1>1, <1>2 DEF OnlyGrows, Settled, Unpaid, Stamped, Documents, Lifecycles, Statuses, Holding,
                    Startable, CheckInable, Terminal, Gone
<1>4. \A o \in Calls : call[o].at = "save" => Saved(o)' \in Documents /\ Sound(o)'
  <2>1. \A o \in Calls : call[o].at = "save" => Saved(o) \in Documents
    BY DEF IInv, TypeOK, Returned
  <2> QED
    BY <1>2, <1>3, <2>1, PendingStays
<1> QED
  BY <1>2, <1>3, <1>4 DEF IInv, TypeOK, OnlyGrows

\* The expiry ends a reservation that is not paid, in one write.
LEMMA ExpireKeeps == ASSUME IInv, NEW c \in Calls, Expire(c) PROVE IInv'
<1>1. /\ booking \in Documents /\ Unpaid(booking) /\ Stamped(booking)
      /\ booking.lifecycle = "PENDING_PAYMENT" /\ crossed \in BOOLEAN /\ DOMAIN call = Calls
  BY DEF IInv, TypeOK, Expire
<1>2. /\ booking' = [booking EXCEPT !.lifecycle = "CANCELLED", !.status = "cancelled"]
      /\ call' = [call EXCEPT ![c] = Returning(TRUE)]
      /\ serial' \in BOOLEAN /\ UNCHANGED <<lease, crossed, died>>
  BY DEF Expire, IInv, TypeOK
<1>3. /\ OnlyGrows /\ Settled(booking') /\ Unpaid(booking') /\ Stamped(booking')
  BY <1>1, <1>2 DEF OnlyGrows, Settled, Unpaid, Stamped, Documents, Lifecycles, Statuses,
                    Holding, Startable, CheckInable, Terminal, Gone
<1>4. /\ DOMAIN call' = Calls
      /\ call'[c] \in Returned /\ call'[c].at # "save"
      /\ \A o \in Calls \ {c} : call'[o] = call[o]
  BY <1>1, <1>2 DEF Returning, Returned
<1>5. \A o \in Calls \ {c} : call[o].at = "save" => Saved(o)' \in Documents /\ Sound(o)'
  <2>1. \A o \in Calls : call[o].at = "save" => Saved(o) \in Documents
    BY DEF IInv, TypeOK, Returned
  <2> QED
    BY <1>3, <1>4, <2>1, PendingStays
<1> QED
  BY <1>2, <1>3, <1>4, <1>5 DEF IInv, TypeOK, OnlyGrows

\* Releasing and dying touch neither the document nor a pending save.
LEMMA ReturnKeeps == ASSUME IInv, NEW c \in Calls, Release(c) \/ Crash(c) PROVE IInv'
<1>1. /\ booking' = booking /\ lease' \in BOOLEAN /\ serial' = serial /\ died' \in BOOLEAN
      /\ crossed' = crossed
      /\ call' = [call EXCEPT ![c] = Returning(FALSE)]
  BY DEF Release, Crash, IInv, TypeOK
<1>2. /\ DOMAIN call' = Calls
      /\ call'[c] \in Returned /\ call'[c].at # "save"
      /\ \A o \in Calls \ {c} : call'[o] = call[o]
  BY <1>1 DEF Returning, Returned, IInv, TypeOK
<1>3. \A o \in Calls \ {c} : Saved(o)' = Saved(o) /\ (Sound(o) => Sound(o)')
  BY <1>1, <1>2 DEF Saved, Sound, EndsUnsettled, Sets
<1>4. TypeOK'
  BY <1>1, <1>2, <1>3 DEF IInv, TypeOK
<1>5. (Settled(booking) \/ crossed)' /\ Unpaid(booking') /\ Stamped(booking')
  BY <1>1 DEF IInv
<1>6. \A o \in Calls : call'[o].at = "save" => Sound(o)'
  BY <1>2, <1>3 DEF IInv
<1> QED
  BY <1>4, <1>5, <1>6 DEF IInv

LEMMA InitHolds == Init => IInv
<1> SUFFICES ASSUME Init PROVE IInv
  OBVIOUS
<1>1. Legacy("PENDING_PAYMENT") = "pending" /\ Legacy("RESERVED") = "confirmed"
  BY DEF Legacy
<1>2. /\ booking \in Documents
      /\ booking.status \notin Gone /\ booking.lifecycle # "CHARGING" /\ Unpaid(booking)
      /\ booking.started = FALSE /\ booking.ended = FALSE
  <2> USE DEF Documents, Lifecycles, Statuses, Holding, Startable, CheckInable, Terminal, Gone,
              Unpaid
  <2>1. CASE booking = Claimed("PENDING_PAYMENT", "pending")
    <3>1. booking = [lifecycle |-> "PENDING_PAYMENT", status |-> "pending",
                     payment |-> "pending", arrived |-> FALSE, started |-> FALSE,
                     ended |-> FALSE]
      BY <1>1, <2>1 DEF Claimed
    <3> QED
      BY <3>1
  <2>2. CASE booking = Claimed("RESERVED", "paid")
    <3>1. booking = [lifecycle |-> "RESERVED", status |-> "confirmed", payment |-> "paid",
                     arrived |-> FALSE, started |-> FALSE, ended |-> FALSE]
      BY <1>1, <2>2 DEF Claimed
    <3> QED
      BY <3>1
  <2> QED
    BY <2>1, <2>2 DEF Init
<1>3. DOMAIN call = Calls /\ \A c \in Calls : call[c] \in Returned /\ call[c].at # "save"
  BY DEF Init, Returning, Returned
<1> QED
  BY <1>2, <1>3 DEF Init, IInv, TypeOK, Settled, Stamped

LEMMA NextKeeps == IInv /\ [Next]_vars => IInv'
<1> SUFFICES ASSUME IInv, [Next]_vars PROVE IInv'
  OBVIOUS
<1>1. ASSUME NEW c \in Calls, Begin(c) PROVE IInv'
  BY <1>1, OperationsFit, EditKeeps
<1>2. ASSUME NEW c \in Calls, Save(c) PROVE IInv'
  BY <1>2, SaveKeeps
<1>3. ASSUME NEW c \in Calls, Release(c) \/ Crash(c) PROVE IInv'
  BY <1>3, ReturnKeeps
<1>4. ASSUME NEW c \in Calls, Expire(c) PROVE IInv'
  BY <1>4, ExpireKeeps
<1>5. CASE SweepNoShow
  BY <1>5, SweepKeeps
<1>6. CASE UNCHANGED vars
  BY <1>6 DEF vars, IInv, TypeOK, Saved, Sound, EndsUnsettled, Sets, Settled, Unpaid, Stamped
<1> QED
  BY <1>1, <1>2, <1>3, <1>4, <1>5, <1>6 DEF Next

\* The strengthened invariant holds of every state, whatever races.
THEOREM SessionAlways == Spec => []IInv
BY InitHolds, NextKeeps, PTL DEF Spec

\* Type correctness: no late save writes a field its document cannot hold.
THEOREM TypeCorrect == Spec => []TypeOK
<1>1. IInv => TypeOK
  BY DEF IInv
<1> QED
  BY <1>1, SessionAlways, PTL

\* A reservation that was cancelled or not used keeps its deposit as paid only if
\* a promotion was saved under a call that had found it unpaid
\* (commitment.service.ts:293-299, 561-563), for any number of racing calls.
THEOREM GoneIsSettled == Spec => []SettledWhenGone
<1>1. IInv => SettledWhenGone
  BY DEF IInv, Settled, SettledWhenGone
<1> QED
  BY <1>1, SessionAlways, PTL

\* No session ends that did not begin, or begins without an arrival
\* (booking.service.ts:851, 923), for any number of racing calls.
THEOREM StampsAreOrdered == Spec => []EndedWasStarted
<1>1. IInv => EndedWasStarted
  BY DEF IInv, TypeOK, Documents, Stamped, EndedWasStarted
<1> QED
  BY <1>1, SessionAlways, PTL

----------------------------------------------------------------------------
(* Calls that take turns                                                    *)

Follows(d) == d.status = Legacy(d.lifecycle)

\* What a call that was alone may leave behind: the two fields agree, a
\* reservation that still holds time did before and is not about to lose it,
\* and one that had ended is as it was.
InTurn(new, releases) ==
    /\ Follows(new)
    /\ new.lifecycle \in Holding => booking.lifecycle \in Holding /\ ~releases
    /\ booking.status \in Terminal =>
         new.status = booking.status /\ new.lifecycle = booking.lifecycle
             /\ new.payment = booking.payment

WillRelease(c) == Returning(call[c].releases).at = "release"

TurnInv ==
    serial =>
      /\ ~crossed
      /\ \A c, o \in Busy : c = o
      /\ Follows(booking)
      /\ booking.lifecycle \in Holding => lease
      /\ \A c \in Calls :
           /\ call[c].at = "save" => InTurn(Saved(c), WillRelease(c))
           /\ call[c].at = "release" => booking.lifecycle \notin Holding

Expected == CheckInable \cup {"ARRIVED", "CHARGING", "EXTENSION_REQUESTED"}

LEMMA LegacyTable ==
    /\ Legacy("PENDING_PAYMENT") = "pending"
    /\ Legacy("COMPLETED") = "completed"
    /\ Legacy("CANCELLED") = "cancelled"
    /\ Legacy("NO_SHOW") = "no_show"
    /\ \A l \in Expected : Legacy(l) = "confirmed"
  BY DEF Legacy, Expected, CheckInable

\* Only the three final lifecycles have a terminal status.
LEMMA TerminalIsFinal ==
    ASSUME booking \in Documents, Follows(booking)
    PROVE  /\ booking.lifecycle \in Holding => booking.status \in {"pending", "confirmed"}
           /\ booking.status = "completed" => booking.lifecycle = "COMPLETED"
           /\ booking.status = "cancelled" => booking.lifecycle = "CANCELLED"
           /\ booking.status = "no_show" => booking.lifecycle = "NO_SHOW"
<1>1. booking.lifecycle \in Lifecycles
  BY DEF Documents
<1>2. Lifecycles = Expected \cup {"PENDING_PAYMENT", "COMPLETED", "CANCELLED", "NO_SHOW"}
  BY DEF Lifecycles, Holding, Startable, CheckInable, Expected
<1>3. Holding = Expected \cup {"PENDING_PAYMENT"}
  BY DEF Holding, Startable, Expected
<1>4. {"COMPLETED", "CANCELLED", "NO_SHOW"} \cap Expected = {}
  BY DEF Expected, CheckInable
<1> QED
  BY <1>1, <1>2, <1>3, <1>4, LegacyTable DEF Follows

\* Every operation prepares a copy that a call alone may leave behind; a
\* settled deposit (Settled) is what makes ending a second time change nothing.
LEMMA OperationsTakeTurns ==
    ASSUME IInv, ~crossed, Follows(booking), NEW c \in Calls, Begin(c)
    PROVE  \E new, releases : /\ releases \in BOOLEAN /\ new \in Documents
                              /\ InTurn(new, releases) /\ Edit(c, new, releases)
<1>1. /\ booking \in Documents /\ Settled(booking)
  BY DEF IInv, TypeOK
<1>0. CASE Promote(c)
  <2> DEFINE new == [booking EXCEPT !.lifecycle = "RESERVED", !.status = "confirmed",
                                    !.payment = "paid"]
  <2>1. new \in Documents
    BY <1>1 DEF Documents, Lifecycles, Statuses, Holding, Startable, CheckInable
  <2>2. InTurn(new, FALSE)
    BY <1>0, <1>1, LegacyTable
       DEF InTurn, Follows, Documents, Promote, Holding, Startable, CheckInable, Expected,
           Terminal, Gone
  <2> QED
    BY <1>0, <2>1, <2>2 DEF Promote
<1> USE LegacyTable, TerminalIsFinal
    DEF InTurn, Follows, Documents, Lifecycles, Statuses, Holding, Startable, CheckInable,
        Expected, Terminal, Gone
<1>2. CASE CheckIn(c)
  <2> DEFINE new == [booking EXCEPT !.lifecycle = "ARRIVED", !.arrived = TRUE]
  <2>1. new \in Documents /\ InTurn(new, FALSE)
    BY <1>1, <1>2 DEF CheckIn
  <2> QED
    BY <1>2, <2>1 DEF CheckIn
<1>3. CASE StartCharging(c)
  <2> DEFINE new == [booking EXCEPT !.lifecycle = "CHARGING", !.arrived = TRUE, !.started = TRUE]
  <2>1. new \in Documents /\ InTurn(new, FALSE)
    BY <1>1, <1>3 DEF StartCharging
  <2> QED
    BY <1>3, <2>1 DEF StartCharging
<1>4. CASE EndCharging(c)
  <2> DEFINE new == [booking EXCEPT !.lifecycle = "COMPLETED", !.status = "completed",
                                    !.ended = TRUE]
  <2>1. new \in Documents /\ InTurn(new, TRUE)
    BY <1>1, <1>4 DEF EndCharging
  <2> QED
    BY <1>4, <2>1 DEF EndCharging
<1>5. CASE Cancel(c)
  <2>1. PICK payment \in Settlements :
          Edit(c, [booking EXCEPT !.lifecycle = "CANCELLED", !.status = "cancelled",
                                  !.payment = payment], TRUE)
    BY <1>5 DEF Cancel
  <2> DEFINE new == [booking EXCEPT !.lifecycle = "CANCELLED", !.status = "cancelled",
                                    !.payment = payment]
  <2>2. new \in Documents /\ InTurn(new, TRUE)
    BY <1>1, <1>5 DEF Settlements, Settled, Cancel, Permitted
  <2> QED
    BY <2>1, <2>2
<1>6. CASE Complete(c)
  <2> DEFINE new == [booking EXCEPT !.lifecycle = "COMPLETED", !.status = "completed"]
  <2>1. new \in Documents /\ InTurn(new, TRUE)
    BY <1>1, <1>6 DEF Complete, Permitted
  <2> QED
    BY <1>6, <2>1 DEF Complete
<1>7. CASE NoShow(c)
  <2>1. PICK payment \in Settlements :
          Edit(c, [booking EXCEPT !.lifecycle = "NO_SHOW", !.status = "no_show",
                                  !.payment = payment], TRUE)
    BY <1>7 DEF NoShow
  <2> DEFINE new == [booking EXCEPT !.lifecycle = "NO_SHOW", !.status = "no_show",
                                    !.payment = payment]
  <2>2. new \in Documents /\ InTurn(new, TRUE)
    BY <1>1, <1>7 DEF Settlements, Settled, NoShow, Permitted
  <2> QED
    BY <2>1, <2>2
<1> QED
  BY <1>0, <1>2, <1>3, <1>4, <1>5, <1>6, <1>7 DEF Begin

LEMMA BeginTakesTurn ==
    ASSUME IInv, TurnInv, NEW c \in Calls, Begin(c)
    PROVE  TurnInv'
<1> SUFFICES ASSUME serial' PROVE TurnInv'
  BY DEF TurnInv
<1>1. /\ booking' = booking /\ lease' = lease /\ crossed' = crossed /\ serial /\ Busy = {}
      /\ call[c].at = "idle" /\ DOMAIN call = Calls
  BY DEF Begin, Promote, CheckIn, StartCharging, EndCharging, Cancel, Complete, NoShow, Edit, IInv,
         TypeOK
<1>2. /\ ~crossed /\ Follows(booking) /\ (booking.lifecycle \in Holding => lease)
      /\ \A o \in Calls : call[o].at = "idle"
  BY <1>1 DEF TurnInv, Busy
<1>3. PICK new, releases : /\ releases \in BOOLEAN /\ new \in Documents
                           /\ InTurn(new, releases) /\ Edit(c, new, releases)
  BY <1>2, OperationsTakeTurns
<1> DEFINE set == [f \in {g \in DOMAIN booking : new[g] # booking[g]} |-> new[f]]
<1>4. call' = [call EXCEPT ![c] = [at |-> "save", releases |-> releases, set |-> set]]
  BY <1>3 DEF Edit
<1>5. /\ call'[c].at = "save" /\ call'[c].set = set /\ call'[c].releases = releases
      /\ \A o \in Calls \ {c} : call'[o].at = "idle"
  BY <1>1, <1>2, <1>4
<1>6. Saved(c)' = new
  <2>1. booking \in Documents
    BY DEF IInv, TypeOK
  <2> QED
    BY <1>1, <1>3, <1>5, <2>1, FreshSaveWritesCopy DEF Saved
<1>7. WillRelease(c)' = releases
  BY <1>3, <1>5 DEF WillRelease, Returning
<1>8. InTurn(Saved(c), WillRelease(c))'
  BY <1>1, <1>3, <1>6, <1>7 DEF InTurn, Follows
<1>9. \A o, p \in Busy' : o = p
  BY <1>5 DEF Busy
<1> QED
  BY <1>1, <1>2, <1>5, <1>8, <1>9 DEF TurnInv, Follows

\* While calls take turns, no other call is under way when one saves.
LEMMA SaveTakesTurn ==
    ASSUME IInv, TurnInv, NEW c \in Calls, Save(c)
    PROVE  TurnInv'
<1> SUFFICES ASSUME serial' PROVE TurnInv'
  BY DEF TurnInv
<1>1. /\ booking' = Saved(c) /\ UNCHANGED <<lease, serial>> /\ serial
      /\ call' = [call EXCEPT ![c] = Returning(call[c].releases)]
      /\ call[c].at = "save" /\ DOMAIN call = Calls
  BY DEF Save, IInv, TypeOK
<1>2. /\ InTurn(Saved(c), WillRelease(c)) /\ (booking.lifecycle \in Holding => lease)
      /\ \A o \in Calls \ {c} : call[o].at = "idle"
      /\ ~crossed'
  <2>1. \A o \in Calls \ {c} : call[o].at = "idle"
    BY <1>1 DEF TurnInv, Busy
  <2>2. ~crossed'
    BY <1>1, <2>1 DEF TurnInv, Save, EndsUnsettled
  <2> QED
    BY <1>1, <2>1, <2>2 DEF TurnInv
<1>3. /\ call'[c].at # "save" /\ (call'[c].at = "release" => WillRelease(c))
      /\ \A o \in Calls \ {c} : call'[o].at = "idle"
  BY <1>1, <1>2 DEF WillRelease, Returning
<1> QED
  BY <1>1, <1>2, <1>3 DEF TurnInv, InTurn, Follows, Busy

LEMMA TurnStep == IInv /\ TurnInv /\ [Next]_vars => TurnInv'
<1> SUFFICES ASSUME IInv, TurnInv, [Next]_vars PROVE TurnInv'
  OBVIOUS
<1>1. ASSUME NEW c \in Calls, Begin(c) PROVE TurnInv'
  BY <1>1, BeginTakesTurn
<1>2. ASSUME NEW c \in Calls, Save(c) PROVE TurnInv'
  BY <1>2, SaveTakesTurn
<1>3. ASSUME NEW c \in Calls, Release(c) \/ Crash(c) PROVE TurnInv'
  <2> SUFFICES ASSUME serial' PROVE TurnInv'
    BY DEF TurnInv
  <2>1. /\ UNCHANGED <<booking, serial, crossed>> /\ serial
        /\ call' = [call EXCEPT ![c] = Returning(FALSE)]
        /\ call[c].at # "idle" /\ DOMAIN call = Calls
    BY <1>3 DEF Release, Crash, Busy, IInv, TypeOK
  <2>2. /\ call'[c].at = "idle"
        /\ \A o \in Calls \ {c} : call[o].at = "idle" /\ call'[o].at = "idle"
    BY <2>1 DEF TurnInv, Busy, Returning
  <2>3. booking.lifecycle \in Holding => lease'
    BY <1>3, <2>1 DEF Release, Crash, TurnInv
  <2> QED
    BY <2>1, <2>2, <2>3 DEF TurnInv, Follows, Busy
<1>4. CASE SweepNoShow
  <2> SUFFICES ASSUME serial' PROVE TurnInv'
    BY DEF TurnInv
  <2>1. /\ Busy = {} /\ call' = call /\ serial /\ crossed' = crossed
        /\ booking'.lifecycle = "NO_SHOW" /\ booking'.status = "no_show"
    BY <1>4 DEF SweepNoShow, IInv, TypeOK, Documents
  <2>2. "NO_SHOW" \notin Holding
    BY DEF Holding, Startable, CheckInable
  <2> QED
    BY <2>1, <2>2, LegacyTable DEF TurnInv, Follows, Busy
<1>5. ASSUME NEW c \in Calls, Expire(c) PROVE TurnInv'
  <2> SUFFICES ASSUME serial' PROVE TurnInv'
    BY DEF TurnInv
  <2>1. /\ Busy = {} /\ serial /\ crossed' = crossed
        /\ call' = [call EXCEPT ![c] = Returning(TRUE)] /\ DOMAIN call = Calls
        /\ booking'.lifecycle = "CANCELLED" /\ booking'.status = "cancelled"
    BY <1>5 DEF Expire, IInv, TypeOK, Documents
  <2>2. /\ call'[c].at = "release"
        /\ \A o \in Calls \ {c} : call'[o].at = "idle"
    BY <2>1 DEF Busy, Returning
  <2>3. "CANCELLED" \notin Holding
    BY DEF Holding, Startable, CheckInable
  <2> QED
    BY <2>1, <2>2, <2>3, LegacyTable DEF TurnInv, Follows, Busy
<1>6. CASE UNCHANGED vars
  BY <1>6 DEF vars, TurnInv, InTurn, Follows, Saved, WillRelease, Busy
<1> QED
  BY <1>1, <1>2, <1>3, <1>4, <1>5, <1>6 DEF Next

LEMMA TurnInit == Init => TurnInv
<1> SUFFICES ASSUME Init PROVE TurnInv
  OBVIOUS
<1>1. booking.status = Legacy(booking.lifecycle)
  BY DEF Init, Claimed
<1> QED
  BY <1>1 DEF Init, TurnInv, Follows, Returning, Busy

\* As long as calls take turns, status and lifecycle agree
\* (models/reservationLifecycle.ts:7), for any number of callers.
THEOREM StatusFollows == Spec => []StatusFollowsInTurn
<1>1. TurnInv => StatusFollowsInTurn
  BY DEF TurnInv, Follows, StatusFollowsInTurn
<1> QED
  BY <1>1, InitHolds, NextKeeps, TurnInit, TurnStep, PTL DEF Spec

\* As long as calls take turns, a reservation that has not ended has its time,
\* also after crashes between the save and the release.
THEOREM HoldersHaveBay == Spec => []SessionHasBay
<1>1. TurnInv => SessionHasBay
  BY DEF TurnInv, SessionHasBay
<1> QED
  BY <1>1, InitHolds, NextKeeps, TurnInit, TurnStep, PTL DEF Spec

\* As long as calls take turns, a reservation that has ended stays as it ended.
THEOREM EndIsFinal == Spec => EndedStays
<1>1. IInv /\ TurnInv /\ [Next]_vars
        => [serial' /\ booking.status \in Terminal
              => UNCHANGED <<booking.status, booking.lifecycle, booking.payment>>]_vars
  <2> SUFFICES ASSUME IInv, TurnInv, [Next]_vars, serial', booking.status \in Terminal
               PROVE  UNCHANGED <<booking.status, booking.lifecycle, booking.payment>>
    OBVIOUS
  <2>1. ASSUME booking' = booking
        PROVE  UNCHANGED <<booking.status, booking.lifecycle, booking.payment>>
    BY <2>1
  <2>2. ASSUME NEW c \in Calls, Save(c)
        PROVE  UNCHANGED <<booking.status, booking.lifecycle, booking.payment>>
    BY <2>2 DEF Save, TurnInv, InTurn
  <2>3. ASSUME SweepNoShow PROVE FALSE
    <3>1. booking.lifecycle \in Holding /\ serial
      BY <2>3 DEF SweepNoShow, Holding, Startable
    <3>2. booking.status \in {"pending", "confirmed"}
      BY <3>1, TerminalIsFinal DEF TurnInv, IInv, TypeOK
    <3> QED
      BY <3>2 DEF Terminal, Gone
  <2>4. ASSUME NEW c \in Calls, Expire(c) PROVE FALSE
    <3>1. booking.lifecycle \in Holding /\ serial
      BY <2>4 DEF Expire, Holding
    <3>2. booking.status \in {"pending", "confirmed"}
      BY <3>1, TerminalIsFinal DEF TurnInv, IInv, TypeOK
    <3> QED
      BY <3>2 DEF Terminal, Gone
  <2> QED
    BY <2>1, <2>2, <2>3, <2>4
       DEF Next, Begin, Promote, CheckIn, StartCharging, EndCharging, Cancel, Complete, NoShow, Edit,
           Release, Crash, vars
<1> QED
  BY <1>1, InitHolds, NextKeeps, TurnInit, TurnStep, PTL DEF Spec, EndedStays

=============================================================================
