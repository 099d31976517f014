--------------------------- MODULE OccupancyProofs ---------------------------
(***************************************************************************)
(* Theorems about Occupancy for every set of reservations, offers and      *)
(* cells, every length of the offer window and every bound on the clock.   *)
(***************************************************************************)
EXTENDS Occupancy, FiniteSetTheorems, TLAPS

LEMMA InitLease == Init => LeaseInv
<1> SUFFICES ASSUME Init PROVE LeaseInv
  OBVIOUS
<1> USE HoldersAreDistinct DEF Init, Holders
<1>1. TypeOK
  BY DEF TypeOK, CallStates
<1>2. RowsBelong
  BY DEF RowsBelong
<1>3. CallsAreWellFormed
  BY DEF CallsAreWellFormed
<1>4. InsertProgress /\ ConvertProgress
  BY DEF InsertProgress, ConvertProgress
<1>5. FirmLease /\ HoldHonoured
  BY DEF FirmLease, HoldHonoured, Confirmed
<1> QED
  BY <1>1, <1>2, <1>3, <1>4, <1>5 DEF LeaseInv

LEMMA TypeStep == TypeOK /\ CallsAreWellFormed /\ [Next]_vars => TypeOK'
<1> SUFFICES ASSUME TypeOK, CallsAreWellFormed, [Next]_vars PROVE TypeOK'
  OBVIOUS
<1> USE HoldersAreDistinct, RangesAreFinite, TicksAreNatural
    DEF TypeOK, Holders, CallStates
<1>1. ASSUME NEW b \in Bookings, BookingStep(b) PROVE TypeOK'
  <2>1. ASSUME NEW range \in Ranges, StartClaim(b, range) PROVE TypeOK'
    BY <2>1 DEF StartClaim
  <2>2. ASSUME NEW o \in Offers, StartAccept(b, o) PROVE TypeOK'
    BY <2>2 DEF StartAccept
  <2>3. ASSUME NEW c \in Cells, ConvertRow(b, c) PROVE TypeOK'
    <3>1. holder' \in [Cells -> Holders \cup {Nobody}]
      BY <2>3 DEF ConvertRow
    <3>2. todo' \in [Holders -> SUBSET Cells] /\ converted' \in [Bookings -> SUBSET Cells]
      BY <2>3 DEF ConvertRow
    <3>3. pc' \in [Holders -> CallStates]
      BY <2>3 DEF ConvertRow
    <3> QED
      BY <2>3, <3>1, <3>2, <3>3 DEF ConvertRow
  <2>4. CASE Unbook(b)
    BY <2>4 DEF Unbook
  <2>5. CASE EndBooking(b)
    BY <2>5 DEF EndBooking
  <2>6. CASE ReleaseOccupancy(b)
    BY <2>6 DEF ReleaseOccupancy, Without, RowsOf
  <2>7. CASE CrashBeforeRelease(b)
    BY <2>7 DEF CrashBeforeRelease
  <2> QED
    BY <1>1, <2>1, <2>2, <2>3, <2>4, <2>5, <2>6, <2>7 DEF BookingStep
<1>2. ASSUME NEW o \in Offers, OfferStep(o) PROVE TypeOK'
  <2>1. ASSUME NEW range \in Ranges, Issue(o, range) PROVE TypeOK'
    BY <2>1 DEF Issue
  <2>2. CASE ReleaseHold(o)
    BY <2>2 DEF ReleaseHold, Without, RowsOf
  <2>3. CASE SettleOffer(o)
    BY <2>3 DEF SettleOffer
  <2>4. CASE ExpireOffer(o)
    BY <2>4 DEF ExpireOffer
  <2> QED
    BY <1>2, <2>1, <2>2, <2>3, <2>4 DEF OfferStep
<1>3. ASSUME NEW h \in Holders, ClaimStep(h) PROVE TypeOK'
  <2>1. CASE PurgeRange(h)
    BY <2>1 DEF PurgeRange, Without
  <2>2. ASSUME NEW c \in Cells, InsertRow(h, c) PROVE TypeOK'
    BY <2>2 DEF InsertRow
  <2>3. CASE Undo(h)
    BY <2>3 DEF Undo, Without, RowsOf
  <2>4. CASE Crash(h)
    BY <2>4 DEF Crash
  <2> QED
    BY <1>3, <2>1, <2>2, <2>3, <2>4 DEF ClaimStep
<1>4. CASE SweepLapsedHolds
  BY <1>4 DEF SweepLapsedHolds, Without
<1>5. CASE Tick
  BY <1>5 DEF Tick
<1>6. CASE UNCHANGED vars
  BY <1>6 DEF vars
<1> QED
  BY <1>1, <1>2, <1>3, <1>4, <1>5, <1>6 DEF Next

LEMMA StartClaimKeeps ==
  ASSUME LeaseInv, TypeOK', NEW b \in Bookings, NEW range \in Ranges, StartClaim(b, range)
  PROVE  LeaseInv'
<1> USE HoldersAreDistinct, RangesAreFinite
    DEF LeaseInv, TypeOK, Holders, CallStates, StartClaim
<1>1. RowsBelong'
  BY DEF RowsBelong, CallsAreWellFormed
<1>2. CallsAreWellFormed'
  BY DEF CallsAreWellFormed
<1>3. InsertProgress'
  BY DEF InsertProgress, Undisturbed, CallsAreWellFormed, RowsBelong
<1>4. ConvertProgress'
  BY DEF ConvertProgress, CallsAreWellFormed, RowsBelong
<1>5. FirmLease'
  BY DEF FirmLease, Confirmed, Intact, CallsAreWellFormed, RowsBelong, InsertProgress, Undisturbed
<1>6. HoldHonoured'
  BY DEF HoldHonoured, Intact, CallsAreWellFormed, RowsBelong, InsertProgress, Undisturbed
<1> QED
  BY <1>1, <1>2, <1>3, <1>4, <1>5, <1>6 DEF LeaseInv

LEMMA StartAcceptKeeps ==
  ASSUME LeaseInv, TypeOK', NEW b \in Bookings, NEW o \in Offers, StartAccept(b, o)
  PROVE  LeaseInv'
<1> USE HoldersAreDistinct, RangesAreFinite
    DEF LeaseInv, TypeOK, Holders, CallStates, StartAccept
<1>1. RowsBelong'
  BY DEF RowsBelong, CallsAreWellFormed
<1>2. CallsAreWellFormed'
  <2>1. atoms[o] \in Ranges /\ atoms[o] # {} /\ o # b /\ o # Nobody
    BY DEF CallsAreWellFormed
  <2>2. pc' = [pc EXCEPT ![b] = "convert"] /\ source' = [source EXCEPT ![b] = o]
    OBVIOUS
  <2>3. \A h \in Holders : /\ todo'[h] \subseteq atoms'[h]
                           /\ pc'[h] # "idle" => atoms'[h] \in Ranges
                           /\ pc'[h] = "idle" => todo'[h] = {}
                           /\ pc'[h] \in {"insert", "convert"} => todo'[h] # {}
    BY <2>1 DEF CallsAreWellFormed
  <2>4. \A x \in Bookings : /\ pc'[x] = "idle" => doc'[x] = "none"
                            /\ pc'[x] = "refused" => doc'[x] # "holding"
                            /\ pc'[x] = "idle" => source'[x] = Nobody
                            /\ pc'[x] = "convert" => source'[x] \in Offers
                            /\ pc'[x] # "convert" => converted'[x] = {}
    BY <2>1, <2>2 DEF CallsAreWellFormed
  <2>5. \A x \in Bookings : source'[x] # Nobody => pc'[source'[x]] = "granted"
    BY <2>1, <2>2 DEF CallsAreWellFormed
  <2>6. \A x \in Offers : pc'[x] \notin {"convert", "unbook"}
    BY <2>2 DEF CallsAreWellFormed
  <2> QED
    BY <2>3, <2>4, <2>5, <2>6 DEF CallsAreWellFormed
<1>3. InsertProgress'
  BY DEF InsertProgress, Undisturbed, CallsAreWellFormed, RowsBelong
<1>4. ConvertProgress'
  BY DEF ConvertProgress, CallsAreWellFormed, RowsBelong
<1>5. FirmLease'
  BY DEF FirmLease, Confirmed, Intact, CallsAreWellFormed, RowsBelong, InsertProgress, Undisturbed
<1>6. HoldHonoured'
  BY DEF HoldHonoured, Intact, CallsAreWellFormed, RowsBelong, InsertProgress, Undisturbed
<1> QED
  BY <1>1, <1>2, <1>3, <1>4, <1>5, <1>6 DEF LeaseInv

LEMMA IssueKeeps ==
  ASSUME LeaseInv, TypeOK', NEW o \in Offers, NEW range \in Ranges, Issue(o, range)
  PROVE  LeaseInv'
<1> USE HoldersAreDistinct, RangesAreFinite
    DEF LeaseInv, TypeOK, Holders, CallStates, Issue
<1>1. RowsBelong'
  BY DEF RowsBelong, CallsAreWellFormed
<1>2. CallsAreWellFormed'
  BY DEF CallsAreWellFormed
<1>3. InsertProgress'
  BY DEF InsertProgress, Undisturbed, CallsAreWellFormed, RowsBelong
<1>4. ConvertProgress'
  BY DEF ConvertProgress, CallsAreWellFormed, RowsBelong
<1>5. FirmLease'
  BY DEF FirmLease, Confirmed, Intact, CallsAreWellFormed, RowsBelong, InsertProgress, Undisturbed
<1>6. HoldHonoured'
  BY DEF HoldHonoured, Intact, CallsAreWellFormed, RowsBelong, InsertProgress, Undisturbed
<1> QED
  BY <1>1, <1>2, <1>3, <1>4, <1>5, <1>6 DEF LeaseInv

LEMMA PurgeRangeKeeps ==
  ASSUME LeaseInv, TypeOK', NEW h \in Holders, PurgeRange(h)
  PROVE  LeaseInv'
<1> USE HoldersAreDistinct, RangesAreFinite
    DEF LeaseInv, TypeOK, Holders, CallStates, PurgeRange, Without, Lapsed
<1>1. RowsBelong'
  BY DEF RowsBelong, CallsAreWellFormed
<1>2. CallsAreWellFormed'
  BY DEF CallsAreWellFormed
<1>3. InsertProgress'
  BY DEF InsertProgress, Undisturbed, CallsAreWellFormed, RowsBelong
<1>4. ConvertProgress'
  BY DEF ConvertProgress, CallsAreWellFormed, RowsBelong
<1>5. FirmLease'
  BY DEF FirmLease, Confirmed, Intact, CallsAreWellFormed, RowsBelong, InsertProgress, Undisturbed
<1>6. HoldHonoured'
  BY DEF HoldHonoured, Intact, CallsAreWellFormed, RowsBelong, InsertProgress, Undisturbed
<1> QED
  BY <1>1, <1>2, <1>3, <1>4, <1>5, <1>6 DEF LeaseInv

LEMMA InsertRowKeeps ==
  ASSUME LeaseInv, TypeOK', NEW h \in Holders, NEW c \in Cells, InsertRow(h, c)
  PROVE  LeaseInv'
<1> USE HoldersAreDistinct, RangesAreFinite
    DEF LeaseInv, TypeOK, Holders, CallStates, InsertRow
<1>1. RowsBelong'
  BY DEF RowsBelong, CallsAreWellFormed
<1>2. CallsAreWellFormed'
  BY DEF CallsAreWellFormed
<1>3. InsertProgress'
  BY DEF InsertProgress, Undisturbed, CallsAreWellFormed, RowsBelong
<1>4. ConvertProgress'
  BY DEF ConvertProgress, CallsAreWellFormed, RowsBelong
<1>5. FirmLease'
  BY DEF FirmLease, Confirmed, Intact, CallsAreWellFormed, RowsBelong, InsertProgress, Undisturbed
<1>6. HoldHonoured'
  BY DEF HoldHonoured, Intact, CallsAreWellFormed, RowsBelong, InsertProgress, Undisturbed
<1> QED
  BY <1>1, <1>2, <1>3, <1>4, <1>5, <1>6 DEF LeaseInv

LEMMA ConvertRowKeeps ==
  ASSUME LeaseInv, TypeOK', NEW b \in Bookings, NEW c \in Cells, ConvertRow(b, c)
  PROVE  LeaseInv'
<1> USE HoldersAreDistinct, RangesAreFinite
    DEF LeaseInv, TypeOK, Holders, CallStates, ConvertRow
<1>1. RowsBelong'
  BY DEF RowsBelong, CallsAreWellFormed
<1>2. CallsAreWellFormed'
  BY DEF CallsAreWellFormed
<1>3. InsertProgress'
  BY DEF InsertProgress, Undisturbed, CallsAreWellFormed, RowsBelong
<1>4. ConvertProgress'
  BY DEF ConvertProgress, CallsAreWellFormed, RowsBelong
<1>5. FirmLease'
  <2> SUFFICES ASSUME NEW x \in Bookings, Confirmed(x)' PROVE Intact(x)'
    BY DEF FirmLease
  <2>1. CASE x # b
    BY <2>1 DEF FirmLease, Confirmed, Intact, CallsAreWellFormed
  <2>2. CASE x = b
    <3> DEFINE rewritten == IF holder[c] = source[b] THEN converted[b] \cup {c}
                            ELSE converted[b]
    <3>1. pc[b] = "convert" /\ todo[b] = {c} /\ doc[b] = "holding"
      BY <2>2 DEF Confirmed
    <3>2. Cardinality(rewritten) = Cardinality(atoms[b])
      BY <2>2, <3>1 DEF Confirmed
    <3>3. rewritten \subseteq atoms[b] /\ IsFiniteSet(atoms[b])
      BY <3>1 DEF ConvertProgress, CallsAreWellFormed
    <3>4. rewritten = atoms[b]
      BY <3>2, <3>3, FS_Subset
    <3>5. \A d \in rewritten : holder'[d] = b
      BY <3>1 DEF ConvertProgress, CallsAreWellFormed
    <3> QED
      BY <2>2, <3>4, <3>5 DEF Intact
  <2> QED
    BY <2>1, <2>2
<1>6. HoldHonoured'
  BY DEF HoldHonoured, Intact, CallsAreWellFormed, RowsBelong, InsertProgress, Undisturbed
<1> QED
  BY <1>1, <1>2, <1>3, <1>4, <1>5, <1>6 DEF LeaseInv

LEMMA UndoKeeps ==
  ASSUME LeaseInv, TypeOK', NEW h \in Holders, Undo(h)
  PROVE  LeaseInv'
<1> USE HoldersAreDistinct, RangesAreFinite
    DEF LeaseInv, TypeOK, Holders, CallStates, Undo, Without, RowsOf
<1>1. RowsBelong'
  BY DEF RowsBelong, CallsAreWellFormed
<1>2. CallsAreWellFormed'
  BY DEF CallsAreWellFormed
<1>3. InsertProgress'
  BY DEF InsertProgress, Undisturbed, CallsAreWellFormed, RowsBelong
<1>4. ConvertProgress'
  BY DEF ConvertProgress, CallsAreWellFormed, RowsBelong
<1>5. FirmLease'
  BY DEF FirmLease, Confirmed, Intact, CallsAreWellFormed, RowsBelong, InsertProgress, Undisturbed
<1>6. HoldHonoured'
  BY DEF HoldHonoured, Intact, CallsAreWellFormed, RowsBelong, InsertProgress, Undisturbed
<1> QED
  BY <1>1, <1>2, <1>3, <1>4, <1>5, <1>6 DEF LeaseInv

LEMMA UnbookKeeps ==
  ASSUME LeaseInv, TypeOK', NEW b \in Bookings, Unbook(b)
  PROVE  LeaseInv'
<1> USE HoldersAreDistinct, RangesAreFinite
    DEF LeaseInv, TypeOK, Holders, CallStates, Unbook
<1>1. RowsBelong'
  BY DEF RowsBelong, CallsAreWellFormed
<1>2. CallsAreWellFormed'
  BY DEF CallsAreWellFormed
<1>3. InsertProgress'
  BY DEF InsertProgress, Undisturbed, CallsAreWellFormed, RowsBelong
<1>4. ConvertProgress'
  BY DEF ConvertProgress, CallsAreWellFormed, RowsBelong
<1>5. FirmLease'
  BY DEF FirmLease, Confirmed, Intact, CallsAreWellFormed, RowsBelong, InsertProgress, Undisturbed
<1>6. HoldHonoured'
  BY DEF HoldHonoured, Intact, CallsAreWellFormed, RowsBelong, InsertProgress, Undisturbed
<1> QED
  BY <1>1, <1>2, <1>3, <1>4, <1>5, <1>6 DEF LeaseInv

LEMMA EndBookingKeeps ==
  ASSUME LeaseInv, TypeOK', NEW b \in Bookings, EndBooking(b)
  PROVE  LeaseInv'
<1> USE HoldersAreDistinct, RangesAreFinite
    DEF LeaseInv, TypeOK, Holders, CallStates, EndBooking
<1>1. RowsBelong'
  BY DEF RowsBelong, CallsAreWellFormed
<1>2. CallsAreWellFormed'
  BY DEF CallsAreWellFormed
<1>3. InsertProgress'
  BY DEF InsertProgress, Undisturbed, CallsAreWellFormed, RowsBelong
<1>4. ConvertProgress'
  BY DEF ConvertProgress, CallsAreWellFormed, RowsBelong
<1>5. FirmLease'
  BY DEF FirmLease, Confirmed, Intact, CallsAreWellFormed, RowsBelong, InsertProgress, Undisturbed
<1>6. HoldHonoured'
  BY DEF HoldHonoured, Intact, CallsAreWellFormed, RowsBelong, InsertProgress, Undisturbed
<1> QED
  BY <1>1, <1>2, <1>3, <1>4, <1>5, <1>6 DEF LeaseInv

LEMMA ReleaseOccupancyKeeps ==
  ASSUME LeaseInv, TypeOK', NEW b \in Bookings, ReleaseOccupancy(b)
  PROVE  LeaseInv'
<1> USE HoldersAreDistinct, RangesAreFinite
    DEF LeaseInv, TypeOK, Holders, CallStates, ReleaseOccupancy, Without, RowsOf
<1>1. RowsBelong'
  BY DEF RowsBelong, CallsAreWellFormed
<1>2. CallsAreWellFormed'
  BY DEF CallsAreWellFormed
<1>3. InsertProgress'
  BY DEF InsertProgress, Undisturbed, CallsAreWellFormed, RowsBelong
<1>4. ConvertProgress'
  BY DEF ConvertProgress, CallsAreWellFormed, RowsBelong
<1>5. FirmLease'
  BY DEF FirmLease, Confirmed, Intact, CallsAreWellFormed, RowsBelong, InsertProgress, Undisturbed
<1>6. HoldHonoured'
  BY DEF HoldHonoured, Intact, CallsAreWellFormed, RowsBelong, InsertProgress, Undisturbed
<1> QED
  BY <1>1, <1>2, <1>3, <1>4, <1>5, <1>6 DEF LeaseInv

LEMMA ReleaseHoldKeeps ==
  ASSUME LeaseInv, TypeOK', NEW o \in Offers, ReleaseHold(o)
  PROVE  LeaseInv'
<1> USE HoldersAreDistinct, RangesAreFinite
    DEF LeaseInv, TypeOK, Holders, CallStates, ReleaseHold, Without, RowsOf
<1>1. RowsBelong'
  BY DEF RowsBelong, CallsAreWellFormed
<1>2. CallsAreWellFormed'
  BY DEF CallsAreWellFormed
<1>3. InsertProgress'
  BY DEF InsertProgress, Undisturbed, CallsAreWellFormed, RowsBelong
<1>4. ConvertProgress'
  BY DEF ConvertProgress, CallsAreWellFormed, RowsBelong
<1>5. FirmLease'
  BY DEF FirmLease, Confirmed, Intact, CallsAreWellFormed, RowsBelong, InsertProgress, Undisturbed
<1>6. HoldHonoured'
  BY DEF HoldHonoured, Intact, CallsAreWellFormed, RowsBelong, InsertProgress, Undisturbed
<1> QED
  BY <1>1, <1>2, <1>3, <1>4, <1>5, <1>6 DEF LeaseInv

LEMMA SettleOfferKeeps ==
  ASSUME LeaseInv, TypeOK', NEW o \in Offers, SettleOffer(o)
  PROVE  LeaseInv'
<1> USE HoldersAreDistinct, RangesAreFinite
    DEF LeaseInv, TypeOK, Holders, CallStates, SettleOffer
<1>1. RowsBelong'
  BY DEF RowsBelong, CallsAreWellFormed
<1>2. CallsAreWellFormed'
  BY DEF CallsAreWellFormed
<1>3. InsertProgress'
  BY DEF InsertProgress, Undisturbed, CallsAreWellFormed, RowsBelong
<1>4. ConvertProgress'
  BY DEF ConvertProgress, CallsAreWellFormed, RowsBelong
<1>5. FirmLease'
  BY DEF FirmLease, Confirmed, Intact, CallsAreWellFormed, RowsBelong, InsertProgress, Undisturbed
<1>6. HoldHonoured'
  BY DEF HoldHonoured, Intact, CallsAreWellFormed, RowsBelong, InsertProgress, Undisturbed
<1> QED
  BY <1>1, <1>2, <1>3, <1>4, <1>5, <1>6 DEF LeaseInv

LEMMA ExpireOfferKeeps ==
  ASSUME LeaseInv, TypeOK', NEW o \in Offers, ExpireOffer(o)
  PROVE  LeaseInv'
<1> USE HoldersAreDistinct, RangesAreFinite
    DEF LeaseInv, TypeOK, Holders, CallStates, ExpireOffer
<1>1. RowsBelong'
  BY DEF RowsBelong, CallsAreWellFormed
<1>2. CallsAreWellFormed'
  BY DEF CallsAreWellFormed
<1>3. InsertProgress'
  BY DEF InsertProgress, Undisturbed, CallsAreWellFormed, RowsBelong
<1>4. ConvertProgress'
  BY DEF ConvertProgress, CallsAreWellFormed, RowsBelong
<1>5. FirmLease'
  BY DEF FirmLease, Confirmed, Intact, CallsAreWellFormed, RowsBelong, InsertProgress, Undisturbed
<1>6. HoldHonoured'
  BY DEF HoldHonoured, Intact, CallsAreWellFormed, RowsBelong, InsertProgress, Undisturbed
<1> QED
  BY <1>1, <1>2, <1>3, <1>4, <1>5, <1>6 DEF LeaseInv

LEMMA SweepLapsedHoldsKeeps ==
  ASSUME LeaseInv, TypeOK', SweepLapsedHolds
  PROVE  LeaseInv'
<1> USE HoldersAreDistinct, RangesAreFinite
    DEF LeaseInv, TypeOK, Holders, CallStates, SweepLapsedHolds, Without, Lapsed
<1>1. RowsBelong'
  BY DEF RowsBelong, CallsAreWellFormed
<1>2. CallsAreWellFormed'
  BY DEF CallsAreWellFormed
<1>3. InsertProgress'
  BY DEF InsertProgress, Undisturbed, CallsAreWellFormed, RowsBelong
<1>4. ConvertProgress'
  BY DEF ConvertProgress, CallsAreWellFormed, RowsBelong
<1>5. FirmLease'
  BY DEF FirmLease, Confirmed, Intact, CallsAreWellFormed, RowsBelong, InsertProgress, Undisturbed
<1>6. HoldHonoured'
  BY DEF HoldHonoured, Intact, CallsAreWellFormed, RowsBelong, InsertProgress, Undisturbed
<1> QED
  BY <1>1, <1>2, <1>3, <1>4, <1>5, <1>6 DEF LeaseInv

LEMMA CrashKeeps ==
  ASSUME LeaseInv, TypeOK', NEW h \in Holders, Crash(h)
  PROVE  LeaseInv'
<1> USE HoldersAreDistinct, RangesAreFinite
    DEF LeaseInv, TypeOK, Holders, CallStates, Crash
<1>1. RowsBelong'
  BY DEF RowsBelong, CallsAreWellFormed
<1>2. CallsAreWellFormed'
  BY DEF CallsAreWellFormed
<1>3. InsertProgress'
  BY DEF InsertProgress, Undisturbed, CallsAreWellFormed, RowsBelong
<1>4. ConvertProgress'
  BY DEF ConvertProgress, CallsAreWellFormed, RowsBelong
<1>5. FirmLease'
  BY DEF FirmLease, Confirmed, Intact, CallsAreWellFormed, RowsBelong, InsertProgress, Undisturbed
<1>6. HoldHonoured'
  BY DEF HoldHonoured, Intact, CallsAreWellFormed, RowsBelong, InsertProgress, Undisturbed
<1> QED
  BY <1>1, <1>2, <1>3, <1>4, <1>5, <1>6 DEF LeaseInv

LEMMA CrashBeforeReleaseKeeps ==
  ASSUME LeaseInv, TypeOK', NEW b \in Bookings, CrashBeforeRelease(b)
  PROVE  LeaseInv'
<1> USE HoldersAreDistinct, RangesAreFinite
    DEF LeaseInv, TypeOK, Holders, CallStates, CrashBeforeRelease
<1>1. RowsBelong'
  BY DEF RowsBelong, CallsAreWellFormed
<1>2. CallsAreWellFormed'
  BY DEF CallsAreWellFormed
<1>3. InsertProgress'
  BY DEF InsertProgress, Undisturbed, CallsAreWellFormed, RowsBelong
<1>4. ConvertProgress'
  BY DEF ConvertProgress, CallsAreWellFormed, RowsBelong
<1>5. FirmLease'
  BY DEF FirmLease, Confirmed, Intact, CallsAreWellFormed, RowsBelong, InsertProgress, Undisturbed
<1>6. HoldHonoured'
  BY DEF HoldHonoured, Intact, CallsAreWellFormed, RowsBelong, InsertProgress, Undisturbed
<1> QED
  BY <1>1, <1>2, <1>3, <1>4, <1>5, <1>6 DEF LeaseInv

LEMMA TickKeeps ==
  ASSUME LeaseInv, TypeOK', Tick
  PROVE  LeaseInv'
<1> USE HoldersAreDistinct, RangesAreFinite
    DEF LeaseInv, TypeOK, Holders, CallStates, Tick
<1>1. RowsBelong'
  BY DEF RowsBelong, CallsAreWellFormed
<1>2. CallsAreWellFormed'
  BY DEF CallsAreWellFormed
<1>3. InsertProgress'
  BY DEF InsertProgress, Undisturbed, CallsAreWellFormed, RowsBelong
<1>4. ConvertProgress'
  BY DEF ConvertProgress, CallsAreWellFormed, RowsBelong
<1>5. FirmLease'
  BY DEF FirmLease, Confirmed, Intact, CallsAreWellFormed, RowsBelong, InsertProgress, Undisturbed
<1>6. HoldHonoured'
  BY DEF HoldHonoured, Intact, CallsAreWellFormed, RowsBelong, InsertProgress, Undisturbed
<1> QED
  BY <1>1, <1>2, <1>3, <1>4, <1>5, <1>6 DEF LeaseInv

LEMMA LeaseStep == LeaseInv /\ [Next]_vars => LeaseInv'
<1> SUFFICES ASSUME LeaseInv, [Next]_vars PROVE LeaseInv'
  OBVIOUS
<1>1. TypeOK'
  BY TypeStep DEF LeaseInv
<1>2. ASSUME NEW b \in Bookings, BookingStep(b) PROVE LeaseInv'
  BY <1>1, <1>2, StartClaimKeeps, StartAcceptKeeps, ConvertRowKeeps, UnbookKeeps,
     EndBookingKeeps, ReleaseOccupancyKeeps, CrashBeforeReleaseKeeps DEF BookingStep
<1>3. ASSUME NEW o \in Offers, OfferStep(o) PROVE LeaseInv'
  BY <1>1, <1>3, IssueKeeps, ReleaseHoldKeeps, SettleOfferKeeps, ExpireOfferKeeps DEF OfferStep
<1>4. ASSUME NEW h \in Holders, ClaimStep(h) PROVE LeaseInv'
  BY <1>1, <1>4, PurgeRangeKeeps, InsertRowKeeps, UndoKeeps, CrashKeeps DEF ClaimStep
<1>5. CASE SweepLapsedHolds
  BY <1>1, <1>5, SweepLapsedHoldsKeeps
<1>6. CASE Tick
  BY <1>1, <1>6, TickKeeps
<1>7. CASE UNCHANGED vars
  BY <1>7 DEF vars, LeaseInv, TypeOK, RowsBelong, CallsAreWellFormed, InsertProgress,
       ConvertProgress, FirmLease, HoldHonoured, Undisturbed, Confirmed, Intact
<1> QED
  BY <1>2, <1>3, <1>4, <1>5, <1>6, <1>7 DEF Next

\* The strengthened invariant holds in every reachable state: what each call
\* has written so far, document by document, is what its progress says.
THEOREM LeaseAlways == Spec => []LeaseInv
BY InitLease, LeaseStep, PTL DEF Spec

\* Every variable keeps its type: in particular no cell ever has a document
\* of a holder that is neither a reservation nor an offer.
THEOREM TypeCorrect == Spec => []TypeOK
<1>1. LeaseInv => TypeOK
  BY DEF LeaseInv
<1> QED
  BY <1>1, LeaseAlways, PTL

\* A reservation whose claim returned keeps every atom of its range until it
\* ends, for any number of rivals, offers, sweeps and crashes.
THEOREM LeaseIsFirm == Spec => []FirmLease
<1>1. LeaseInv => FirmLease
  BY DEF LeaseInv
<1> QED
  BY <1>1, LeaseAlways, PTL

\* Two live reservations never share an atom: both would have to be the one
\* holder of its document.
THEOREM NeverSoldTwice == Spec => []NoDoubleSale
<1>1. LeaseInv => NoDoubleSale
  <2> SUFFICES ASSUME LeaseInv, NEW x \in Bookings, NEW y \in Bookings, x # y,
                      Confirmed(x), Confirmed(y), NEW c \in atoms[x] \cap atoms[y]
               PROVE  FALSE
    BY DEF NoDoubleSale
  <2> QED
    BY DEF LeaseInv, FirmLease, Intact
<1> QED
  BY <1>1, LeaseAlways, PTL

\* An offer inside its window that nobody retired or began to accept owns all
\* of its range: the promise the customer was shown is backed by documents.
THEOREM OfferIsHonoured == Spec => []HoldHonoured
<1>1. LeaseInv => HoldHonoured
  BY DEF LeaseInv
<1> QED
  BY <1>1, LeaseAlways, PTL

\* A claim that was refused has no document left, whatever was interleaved
\* with its inserts and its compensating delete.
THEOREM RefusalLeavesNothing == Spec => []NoPartialLease
<1>1. LeaseInv => NoPartialLease
  BY DEF LeaseInv, RowsBelong, NoPartialLease, RowsOf
<1> QED
  BY <1>1, LeaseAlways, PTL

----------------------------------------------------------------------------
(* An acceptance that nothing disturbs                                      *)

\* The offer of b is pending and inside its window, and only b accepts it.
Alone(b) ==
    /\ offer[source[b]] = "pending"
    /\ clock <= expiresAt[source[b]]
    /\ \A other \in Bookings \ {b} : source[other] # source[b]

\* What an undisturbed acceptance has yet to rewrite still names the offer,
\* and it has counted everything else.
AcceptInv ==
    \A b \in Bookings :
        source[b] # Nobody =>
          /\ pc[b] \notin {"idle", "purge", "insert"}
          /\ Alone(b) =>
               /\ pc[b] \notin {"undo", "unbook", "refused"}
               /\ pc[b] = "convert" =>
                    \A c \in atoms[b] : IF c \in todo[b] THEN holder[c] = source[b]
                                                         ELSE c \in converted[b]

\* No step makes an acceptance undisturbed again.
LEMMA AloneBefore ==
    ASSUME LeaseInv, [Next]_vars, NEW b \in Bookings, source[b] # Nobody, Alone(b)'
    PROVE  source'[b] = source[b] /\ Alone(b)
<1> USE HoldersAreDistinct DEF LeaseInv, TypeOK, Holders
<1>1. source[b] \in Offers /\ pc[source[b]] = "granted" /\ pc[b] # "idle"
  BY DEF CallsAreWellFormed
<1>2. \A x \in Bookings : source[x] # Nobody => source'[x] = source[x]
  <2>1. ASSUME NEW y \in Bookings, NEW o \in Offers, StartAccept(y, o)
        PROVE  \A x \in Bookings : source[x] # Nobody => source'[x] = source[x]
    BY <2>1 DEF StartAccept, CallsAreWellFormed
  <2>2. CASE source' = source
    BY <2>2
  <2> QED
    BY <2>1, <2>2
       DEF Next, BookingStep, OfferStep, ClaimStep, StartClaim, ConvertRow, Unbook,
           EndBooking, ReleaseOccupancy, CrashBeforeRelease, Issue, ReleaseHold,
           SettleOffer, ExpireOffer, PurgeRange, InsertRow, Undo, Crash, SweepLapsedHolds,
           Tick, vars
<1>3. expiresAt'[source[b]] = expiresAt[source[b]]
  <2>1. ASSUME NEW o \in Offers, NEW range \in Ranges, Issue(o, range)
        PROVE  expiresAt'[source[b]] = expiresAt[source[b]]
    BY <1>1, <2>1 DEF Issue
  <2>2. CASE expiresAt' = expiresAt
    BY <2>2
  <2> QED
    BY <2>1, <2>2
       DEF Next, BookingStep, OfferStep, ClaimStep, StartClaim, StartAccept, ConvertRow,
           Unbook, EndBooking, ReleaseOccupancy, CrashBeforeRelease, ReleaseHold,
           SettleOffer, ExpireOffer, PurgeRange, InsertRow, Undo, Crash, SweepLapsedHolds,
           Tick, vars
<1>4. clock <= clock'
  <2>1. CASE Tick
    BY <2>1 DEF Tick
  <2>2. CASE clock' = clock
    BY <2>2
  <2> QED
    BY <2>1, <2>2
       DEF Next, BookingStep, OfferStep, ClaimStep, StartClaim, StartAccept, ConvertRow,
           Unbook, EndBooking, ReleaseOccupancy, CrashBeforeRelease, Issue, ReleaseHold,
           SettleOffer, ExpireOffer, PurgeRange, InsertRow, Undo, Crash, SweepLapsedHolds,
           vars
<1>5. offer'[source[b]] = "pending" => offer[source[b]] = "pending"
  BY <1>1
     DEF Next, BookingStep, OfferStep, ClaimStep, StartClaim, StartAccept, ConvertRow,
         Unbook, EndBooking, ReleaseOccupancy, CrashBeforeRelease, Issue, ReleaseHold,
         SettleOffer, ExpireOffer, PurgeRange, InsertRow, Undo, Crash, SweepLapsedHolds,
         Tick, vars
<1>6. clock <= expiresAt[source[b]]
  <2>1. clock' <= expiresAt[source[b]]
    BY <1>2, <1>3 DEF Alone
  <2>2. clock' \in Nat /\ clock \in Nat /\ expiresAt[source[b]] \in Nat
    <3>1. TypeOK'
      BY TypeStep
    <3> QED
      BY <1>1, <3>1
  <2> QED
    BY <1>4, <2>1, <2>2
<1>7. \A other \in Bookings \ {b} : source[other] # source[b]
  BY <1>1, <1>2 DEF Alone
<1> QED
  BY <1>2, <1>5, <1>6, <1>7 DEF Alone

\* Every purge, rival, retirement and acceptance leaves the documents of an
\* offer that is pending, inside its window and not theirs.
LEMMA OfferRowStays ==
    ASSUME LeaseInv, [Next]_vars, NEW b \in Bookings, source[b] \in Offers,
           Alone(b), Alone(b)', source'[b] = source[b],
           NEW c \in Cells, holder[c] = source[b],
           ~ConvertRow(b, c)
    PROVE  holder'[c] = holder[c]
<1> USE HoldersAreDistinct DEF LeaseInv, TypeOK, Holders
<1>1. source[b] \in Offers /\ pc[source[b]] = "granted" /\ source[b] # Nobody
  BY DEF CallsAreWellFormed
<1>2. offer[source[b]] = "pending" /\ clock <= expiresAt[source[b]]
      /\ offer'[source[b]] = "pending"
  BY DEF Alone
<1>3. ~Lapsed(c)
  BY <1>1, <1>2 DEF Lapsed
<1>4. ASSUME NEW x \in Bookings, BookingStep(x) PROVE holder'[c] = holder[c]
  <2>1. ASSUME NEW d \in Cells, ConvertRow(x, d) PROVE holder'[c] = holder[c]
    <3>1. CASE x = b
      BY <2>1, <3>1 DEF ConvertRow
    <3>2. CASE x # b
      BY <2>1, <3>2 DEF ConvertRow, Alone
    <3> QED
      BY <3>1, <3>2
  <2> QED
    BY <1>1, <1>4, <2>1
       DEF BookingStep, StartClaim, StartAccept, Unbook, EndBooking, ReleaseOccupancy,
           CrashBeforeRelease, Without, RowsOf
<1>5. ASSUME NEW o \in Offers, OfferStep(o) PROVE holder'[c] = holder[c]
  BY <1>1, <1>2, <1>5
     DEF OfferStep, Issue, ReleaseHold, SettleOffer, ExpireOffer, Without, RowsOf
<1>6. ASSUME NEW h \in Holders, ClaimStep(h) PROVE holder'[c] = holder[c]
  BY <1>1, <1>3, <1>6
     DEF ClaimStep, PurgeRange, InsertRow, Undo, Crash, Without, RowsOf
<1>7. CASE SweepLapsedHolds
  BY <1>3, <1>7 DEF SweepLapsedHolds, Without
<1> QED
  BY <1>4, <1>5, <1>6, <1>7 DEF Next, Tick, vars

\* An acceptance begins with its whole range held by the offer: countHeldAtoms
\* is a number, but the offer has no document outside its range.
LEMMA AcceptBegins ==
    ASSUME LeaseInv, NEW b \in Bookings, NEW o \in Offers, StartAccept(b, o)
    PROVE  /\ pc'[b] = "convert" /\ source'[b] = o /\ atoms'[b] = atoms[o]
           /\ todo'[b] = atoms[o] /\ holder' = holder
           /\ \A c \in atoms[o] : holder[c] = o
<1> USE HoldersAreDistinct, RangesAreFinite DEF LeaseInv, TypeOK, Holders, StartAccept
<1>1. RowsOf(o) \subseteq atoms[o]
  BY DEF RowsBelong, RowsOf
<1>2. IsFiniteSet(atoms[o])
  BY DEF CallsAreWellFormed
<1>3. RowsOf(o) = atoms[o]
  BY <1>1, <1>2, FS_Subset DEF HoldIntact
<1>4. \A c \in atoms[o] : holder[c] = o
  BY <1>3 DEF RowsOf
<1> QED
  BY <1>4

\* One document more: what is left still names the offer, and with the last
\* one the count is the length of the range.
LEMMA AcceptContinues ==
    ASSUME LeaseInv, AcceptInv, [Next]_vars, NEW b \in Bookings, NEW c \in Cells,
           ConvertRow(b, c), Alone(b), Alone(b)'
    PROVE  /\ pc'[b] \in {"convert", "granted"}
           /\ pc'[b] = "convert" =>
                \A d \in atoms'[b] : IF d \in todo'[b] THEN holder'[d] = source'[b]
                                                       ELSE d \in converted'[b]
<1> USE HoldersAreDistinct, RangesAreFinite DEF LeaseInv, TypeOK, Holders
<1> DEFINE rewritten == converted[b] \cup {c}
<1>1. /\ pc[b] = "convert" /\ c \in todo[b] /\ source[b] \in Offers /\ source[b] # Nobody
      /\ todo[b] \subseteq atoms[b]
  BY DEF ConvertRow, CallsAreWellFormed
<1>2. \A d \in atoms[b] : IF d \in todo[b] THEN holder[d] = source[b] ELSE d \in converted[b]
  BY <1>1 DEF AcceptInv
<1>3. holder[c] = source[b]
  BY <1>1, <1>2
<1>4. /\ source' = source /\ atoms' = atoms /\ todo'[b] = todo[b] \ {c}
      /\ \A d \in Cells \ {c} : holder'[d] = holder[d]
  BY DEF ConvertRow
<1>5. CASE todo[b] = {c}
  <2>1. atoms[b] \subseteq rewritten
    BY <1>2, <1>5
  <2>2. rewritten \subseteq atoms[b]
    BY <1>1 DEF ConvertProgress
  <2>3. Cardinality(rewritten) = Cardinality(atoms[b])
    BY <2>1, <2>2
  <2> QED
    BY <1>3, <1>5, <2>3 DEF ConvertRow
<1>6. CASE todo[b] # {c}
  <2>1. pc'[b] = "convert" /\ converted'[b] = rewritten
    BY <1>1, <1>3, <1>6 DEF ConvertRow
  <2>2. ASSUME NEW d \in atoms[b]
        PROVE  IF d \in todo'[b] THEN holder'[d] = source[b] ELSE d \in converted'[b]
    BY <1>1, <1>2, <1>4, <2>1
  <2> QED
    BY <1>4, <2>1, <2>2
<1> QED
  BY <1>5, <1>6

LEMMA AcceptStep == LeaseInv /\ AcceptInv /\ [Next]_vars => AcceptInv'
<1> SUFFICES ASSUME LeaseInv, AcceptInv, [Next]_vars, NEW b \in Bookings, source'[b] # Nobody
             PROVE  /\ pc'[b] \notin {"idle", "purge", "insert"}
                    /\ Alone(b)' =>
                         /\ pc'[b] \notin {"undo", "unbook", "refused"}
                         /\ pc'[b] = "convert" =>
                              \A c \in atoms'[b] : IF c \in todo'[b]
                                                   THEN holder'[c] = source'[b]
                                                   ELSE c \in converted'[b]
  BY DEF AcceptInv
<1> USE HoldersAreDistinct DEF Holders
<1>1. CASE \E o \in Offers : StartAccept(b, o)
  BY <1>1, AcceptBegins
<1>2. CASE /\ ~\E o \in Offers : StartAccept(b, o)
           /\ \E c \in Cells : ConvertRow(b, c)
  <2>1. PICK c \in Cells : ConvertRow(b, c)
    BY <1>2
  <2>2. source' = source /\ pc'[b] \in {"convert", "granted", "undo"}
    BY <2>1 DEF ConvertRow, LeaseInv, TypeOK
  <2> QED
    BY <2>1, <2>2, AloneBefore, AcceptContinues
<1>3. CASE /\ ~\E o \in Offers : StartAccept(b, o)
           /\ ~\E c \in Cells : ConvertRow(b, c)
  <2>1. source'[b] = source[b]
    BY <1>3
       DEF Next, BookingStep, OfferStep, ClaimStep, StartClaim, StartAccept, ConvertRow,
           Unbook, EndBooking, ReleaseOccupancy, CrashBeforeRelease, Issue, ReleaseHold,
           SettleOffer, ExpireOffer, PurgeRange, InsertRow, Undo, Crash, SweepLapsedHolds,
           Tick, vars, LeaseInv, TypeOK
  <2>2. pc[b] \notin {"idle", "purge", "insert"}
    BY <2>1 DEF AcceptInv
  <2>3. /\ atoms'[b] = atoms[b]
        /\ \/ pc'[b] = "crashed"
           \/ pc[b] \in {"undo", "unbook"} /\ pc'[b] \in {"unbook", "refused"}
           \/ pc'[b] = pc[b] /\ todo'[b] = todo[b] /\ converted'[b] = converted[b]
    <3>1. ASSUME NEW x \in Bookings, BookingStep(x) PROVE <2>3!:
      <4> USE DEF LeaseInv, TypeOK
      <4>1. ASSUME NEW range \in Ranges, StartClaim(x, range) PROVE <2>3!:
        BY <2>2, <4>1 DEF StartClaim
      <4>2. ASSUME NEW o \in Offers, StartAccept(x, o) PROVE <2>3!:
        BY <1>3, <4>2 DEF StartAccept
      <4>3. ASSUME NEW c \in Cells, ConvertRow(x, c) PROVE <2>3!:
        BY <1>3, <4>3 DEF ConvertRow
      <4>4. CASE Unbook(x)
        BY <4>4 DEF Unbook
      <4> QED
        BY <3>1, <4>1, <4>2, <4>3, <4>4
           DEF BookingStep, EndBooking, ReleaseOccupancy, CrashBeforeRelease
    <3>2. ASSUME NEW o \in Offers, OfferStep(o) PROVE <2>3!:
      BY <3>2 DEF OfferStep, Issue, ReleaseHold, SettleOffer, ExpireOffer, LeaseInv, TypeOK
    <3>3. ASSUME NEW h \in Holders, ClaimStep(h) PROVE <2>3!:
      BY <2>2, <3>3 DEF ClaimStep, PurgeRange, InsertRow, Undo, Crash, LeaseInv, TypeOK
    <3> QED
      BY <3>1, <3>2, <3>3 DEF Next, SweepLapsedHolds, Tick, vars
  <2>4. ASSUME Alone(b)' PROVE Alone(b)
    BY <2>1, <2>4, AloneBefore
  <2>5. ASSUME Alone(b)', pc'[b] = pc[b], pc[b] = "convert", NEW c \in atoms[b],
               c \in todo[b]
        PROVE  holder'[c] = source[b]
    <3>1. source[b] \in Offers /\ c \in Cells /\ holder[c] = source[b]
      BY <2>1, <2>4, <2>5 DEF AcceptInv, LeaseInv, TypeOK, CallsAreWellFormed
    <3> QED
      BY <1>3, <2>1, <2>4, <2>5, <3>1, OfferRowStays
  <2> QED
    BY <2>1, <2>2, <2>3, <2>4, <2>5 DEF AcceptInv
<1> QED
  BY <1>1, <1>2, <1>3

\* Accepting an offer cannot lose a race (booking.service.ts:1178-1179): an
\* acceptance fails only over an offer that was retired, lapsed or accepted
\* twice, for any number of rivals, purges, sweeps and crashes.
THEOREM AcceptanceIsSafe == Spec => []AcceptCannotLose
<1>1. Init => AcceptInv
  BY DEF Init, AcceptInv
<1>2. LeaseInv /\ AcceptInv => AcceptCannotLose
  <2> SUFFICES ASSUME LeaseInv, AcceptInv, NEW b \in Bookings, source[b] # Nobody,
                      pc[b] \in {"undo", "unbook", "refused"},
                      offer[source[b]] = "pending",
                      \A other \in Bookings \ {b} : source[other] # source[b]
               PROVE  expiresAt[source[b]] < clock
    BY DEF AcceptCannotLose
  <2>1. ~(clock <= expiresAt[source[b]])
    BY DEF AcceptInv, Alone
  <2>2. clock \in Nat /\ expiresAt[source[b]] \in Nat
    BY DEF LeaseInv, TypeOK
  <2> QED
    BY <2>1, <2>2
<1> QED
  BY <1>1, <1>2, InitLease, LeaseStep, AcceptStep, PTL DEF Spec

----------------------------------------------------------------------------
(* The documents implement the lease                                        *)

\* An acceptance asks for the range of its offer.
SameRange == \A b \in Bookings : source[b] # Nobody => atoms[b] = atoms[source[b]]

LEMMA SameRangeStep == LeaseInv /\ SameRange /\ [Next]_vars => SameRange'
<1> SUFFICES ASSUME LeaseInv, SameRange, [Next]_vars PROVE SameRange'
  OBVIOUS
<1> USE HoldersAreDistinct DEF LeaseInv, TypeOK, Holders, SameRange
<1>1. ASSUME NEW b \in Bookings, NEW range \in Ranges, StartClaim(b, range) PROVE SameRange'
  BY <1>1 DEF StartClaim, CallsAreWellFormed
<1>2. ASSUME NEW b \in Bookings, NEW o \in Offers, StartAccept(b, o) PROVE SameRange'
  BY <1>2 DEF StartAccept, CallsAreWellFormed
<1>3. ASSUME NEW o \in Offers, NEW range \in Ranges, Issue(o, range) PROVE SameRange'
  BY <1>3 DEF Issue, CallsAreWellFormed
<1>4. CASE UNCHANGED <<atoms, source>>
  BY <1>4
<1> QED
  BY <1>1, <1>2, <1>3, <1>4
     DEF Next, BookingStep, OfferStep, ClaimStep, ConvertRow, Unbook, EndBooking,
         ReleaseOccupancy, CrashBeforeRelease, ReleaseHold, SettleOffer, ExpireOffer,
         PurgeRange, InsertRow, Undo, Crash, SweepLapsedHolds, Tick, vars

\* Nobody's lease grows: each holder keeps what it has or loses all of it.
Shrinks == \A h \in Holders : LeaseOf(h)' = LeaseOf(h) \/ LeaseOf(h)' = {}

LEMMA ShrinkingIsRelease == ASSUME Shrinks PROVE Lease!Next
<1> DEFINE some == {h \in Holders : LeaseOf(h)' = {}}
<1>1. Lease!Holders = Holders
  BY DEF Lease!Holders, Holders
<1>2. Lease!Release(some)
  BY <1>1 DEF Shrinks, Lease!Release
<1> QED
  BY <1>1, <1>2 DEF Lease!Next

\* A lease shrinks when no claim is granted and no document comes to stand for
\* an offer that did not already.
LEMMA ShrinksWhen ==
    ASSUME \A b \in Bookings : Confirmed(b)' => Confirmed(b) /\ atoms'[b] = atoms[b],
           \A o \in Offers : pc'[o] = "granted" => pc[o] = "granted" /\ atoms'[o] = atoms[o],
           \A o \in Offers : \A c \in atoms[o] :
               pc[o] = "granted" /\ OwnedForOffer(o, c)' => OwnedForOffer(o, c)
    PROVE  Shrinks
<1>1. ASSUME NEW b \in Bookings PROVE LeaseOf(b)' = LeaseOf(b) \/ LeaseOf(b)' = {}
  BY DEF LeaseOf
<1>2. ASSUME NEW o \in Offers PROVE LeaseOf(o)' = LeaseOf(o) \/ LeaseOf(o)' = {}
  <2>1. o \notin Bookings
    BY HoldersAreDistinct
  <2>2. CASE LeaseOf(o)' = {}
    BY <2>2
  <2>3. CASE LeaseOf(o)' # {}
    <3>1. pc'[o] = "granted" /\ \A c \in atoms'[o] : OwnedForOffer(o, c)'
      BY <2>1, <2>3 DEF LeaseOf
    <3>2. pc[o] = "granted" /\ atoms'[o] = atoms[o] /\ \A c \in atoms[o] : OwnedForOffer(o, c)
      BY <3>1
    <3> QED
      BY <2>1, <3>1, <3>2 DEF LeaseOf
  <2> QED
    BY <2>2, <2>3
<1> QED
  BY <1>1, <1>2 DEF Shrinks, Holders

LEMMA ReservationShrinks ==
    ASSUME LeaseInv, NEW b \in Bookings, BookingStep(b), ~\E c \in Cells : ConvertRow(b, c)
    PROVE  Shrinks
<1> USE HoldersAreDistinct DEF LeaseInv, TypeOK, Holders
<1>1. ASSUME NEW range \in Ranges, StartClaim(b, range) PROVE Shrinks
  BY <1>1, ShrinksWhen DEF StartClaim, Confirmed, OwnedForOffer
<1>2. ASSUME NEW o \in Offers, StartAccept(b, o) PROVE Shrinks
  <2>1. \A c \in Cells : holder[c] # b
    BY <1>2 DEF StartAccept, RowsBelong
  <2>2. \A x \in Offers : \A c \in atoms[x] : OwnedForOffer(x, c)' => OwnedForOffer(x, c)
    BY <1>2, <2>1 DEF StartAccept, OwnedForOffer
  <2> QED
    BY <1>2, <2>2, ShrinksWhen DEF StartAccept, Confirmed
<1>3. CASE Unbook(b)
  BY <1>3, ShrinksWhen DEF Unbook, Confirmed, OwnedForOffer
<1>4. CASE EndBooking(b)
  BY <1>4, ShrinksWhen DEF EndBooking, Confirmed, OwnedForOffer
<1>5. CASE ReleaseOccupancy(b)
  BY <1>5, ShrinksWhen DEF ReleaseOccupancy, Without, RowsOf, Confirmed, OwnedForOffer
<1>6. CASE CrashBeforeRelease(b)
  BY <1>6, ShrinksWhen DEF CrashBeforeRelease, Confirmed, OwnedForOffer
<1> QED
  BY <1>1, <1>2, <1>3, <1>4, <1>5, <1>6 DEF BookingStep

LEMMA OfferShrinks ==
    ASSUME LeaseInv, NEW o \in Offers, OfferStep(o)
    PROVE  Shrinks
<1> USE HoldersAreDistinct DEF LeaseInv, TypeOK, Holders
<1>1. ASSUME NEW range \in Ranges, Issue(o, range) PROVE Shrinks
  BY <1>1, ShrinksWhen DEF Issue, Confirmed, OwnedForOffer
<1>2. CASE ReleaseHold(o)
  BY <1>2, ShrinksWhen DEF ReleaseHold, Without, RowsOf, Confirmed, OwnedForOffer
<1>3. CASE SettleOffer(o)
  BY <1>3, ShrinksWhen DEF SettleOffer, Confirmed, OwnedForOffer
<1>4. CASE ExpireOffer(o)
  BY <1>4, ShrinksWhen DEF ExpireOffer, Confirmed, OwnedForOffer
<1> QED
  BY <1>1, <1>2, <1>3, <1>4 DEF OfferStep

LEMMA CleanupShrinks ==
    ASSUME LeaseInv,
           SweepLapsedHolds \/ \E h \in Holders : PurgeRange(h) \/ Undo(h) \/ Crash(h)
    PROVE  Shrinks
<1> USE HoldersAreDistinct DEF LeaseInv, TypeOK, Holders
<1>1. CASE SweepLapsedHolds
  BY <1>1, ShrinksWhen DEF SweepLapsedHolds, Without, Confirmed, OwnedForOffer
<1>2. ASSUME NEW h \in Holders, PurgeRange(h) PROVE Shrinks
  BY <1>2, ShrinksWhen DEF PurgeRange, Without, Confirmed, OwnedForOffer
<1>3. ASSUME NEW h \in Holders, Undo(h) PROVE Shrinks
  BY <1>3, ShrinksWhen DEF Undo, Without, RowsOf, Confirmed, OwnedForOffer
<1>4. ASSUME NEW h \in Holders, Crash(h) PROVE Shrinks
  BY <1>4, ShrinksWhen DEF Crash, Confirmed, OwnedForOffer
<1> QED
  BY <1>1, <1>2, <1>3, <1>4

\* A document that a reservation holds is in no other holder's lease.
LEMMA LeasesAreHeld ==
    ASSUME LeaseInv, NEW h \in Holders, NEW c \in LeaseOf(h)
    PROVE  /\ c \in Cells /\ c \in atoms[h] /\ pc[h] = "granted"
           /\ h \in Bookings => holder[c] = h
           /\ h \in Offers => OwnedForOffer(h, c)
<1> USE HoldersAreDistinct DEF LeaseInv, TypeOK, Holders
<1>1. CASE h \in Bookings
  BY <1>1 DEF LeaseOf, Confirmed, FirmLease, Intact
<1>2. CASE h \in Offers
  BY <1>2 DEF LeaseOf
<1> QED
  BY <1>1, <1>2

\* An insert that completes a range acquires it; any other changes no lease.
LEMMA InsertImplements ==
    ASSUME LeaseInv, LeaseInv', NEW h \in Holders, NEW c \in Cells, InsertRow(h, c)
    PROVE  Lease!Next
<1> USE HoldersAreDistinct DEF LeaseInv, TypeOK, Holders
<1>1. /\ pc[h] = "insert" /\ c \in todo[h] /\ pc'[h] \in {"insert", "undo", "granted"}
      /\ \A x \in Holders \ {h} : pc'[x] = pc[x]
      /\ \A d \in Cells \ {c} : holder'[d] = holder[d]
      /\ holder[c] # Nobody => holder'[c] = holder[c]
      /\ holder[c] = Nobody => holder'[c] = h
      /\ UNCHANGED <<atoms, source, doc>>
  BY DEF InsertRow
<1>2. \A b \in Bookings : source[b] # h
  BY <1>1 DEF CallsAreWellFormed
<1>3. \A o \in Offers \ {h} : \A d \in Cells : OwnedForOffer(o, d)' <=> OwnedForOffer(o, d)
  BY <1>1 DEF OwnedForOffer
<1>4. \A x \in Holders \ {h} : LeaseOf(x)' = LeaseOf(x)
  <2>1. ASSUME NEW b \in Bookings \ {h} PROVE LeaseOf(b)' = LeaseOf(b)
    BY <1>1 DEF LeaseOf, Confirmed
  <2>2. ASSUME NEW o \in Offers \ {h} PROVE LeaseOf(o)' = LeaseOf(o)
    <3>1. atoms[o] \subseteq Cells
      OBVIOUS
    <3> QED
      BY <1>1, <1>3, <3>1 DEF LeaseOf
  <2> QED
    BY <2>1, <2>2
<1>5. LeaseOf(h) = {}
  BY <1>1 DEF LeaseOf, Confirmed
<1>6. CASE LeaseOf(h)' = {}
  BY <1>4, <1>5, <1>6, ShrinkingIsRelease DEF Shrinks
<1>7. CASE LeaseOf(h)' # {}
  <2>1. /\ LeaseOf(h)' = atoms[h] /\ pc'[h] = "granted"
        /\ \A d \in atoms[h] : holder'[d] = h
    <3>1. CASE h \in Bookings
      BY <1>1, <1>7, <3>1 DEF LeaseOf, Confirmed, FirmLease, Intact
    <3>2. CASE h \in Offers
      BY <1>1, <1>2, <1>7, <3>2 DEF LeaseOf, OwnedForOffer
    <3> QED
      BY <3>1, <3>2
  <2>2. \A d \in atoms[h] : holder[d] \in {Nobody, h}
    BY <1>1, <2>1
  <2>3. ASSUME NEW x \in Holders \ {h}, NEW d \in LeaseOf(x), d \in atoms[h] PROVE FALSE
    <3>1. holder[d] \in {Nobody, h}
      BY <2>2, <2>3
    <3>2. CASE x \in Bookings
      BY <2>3, <3>1, <3>2, LeasesAreHeld
    <3>3. CASE x \in Offers
      <4>1. OwnedForOffer(x, d)
        BY <3>3, LeasesAreHeld
      <4> QED
        BY <1>1, <2>3, <3>1, <3>3, <4>1 DEF OwnedForOffer
    <3> QED
      BY <3>2, <3>3
  <2> DEFINE lease == [x \in Holders |-> LeaseOf(x)]
  <2>4. [x \in Holders |-> LeaseOf(x)'] = [lease EXCEPT ![h] = atoms[h]]
    BY <1>4, <2>1
  <2>5. \A x \in Holders \ {h} : LeaseOf(x) \cap atoms[h] = {}
    BY <2>3
  <2>6. Lease!Acquire(h, atoms[h])
    BY <1>5, <2>4, <2>5 DEF Lease!Acquire, Lease!Holders
  <2> QED
    BY <2>6 DEF Lease!Next, Lease!Holders
<1> QED
  BY <1>6, <1>7

\* A conversion transfers the offer's range with its last document, unless the
\* reservation was ended meanwhile; until then the offer is the owner.
LEMMA ConvertImplements ==
    ASSUME LeaseInv, SameRange, LeaseInv', NEW b \in Bookings, NEW c \in Cells,
           ConvertRow(b, c)
    PROVE  Lease!Next
<1> USE HoldersAreDistinct, RangesAreFinite DEF LeaseInv, TypeOK, Holders
<1>0. PICK o \in Offers : source[b] = o
  BY DEF ConvertRow, CallsAreWellFormed
<1>1. /\ pc[b] = "convert" /\ c \in todo[b] /\ o \in Offers /\ pc[o] = "granted"
      /\ o # b /\ o # Nobody /\ atoms[b] = atoms[o] /\ atoms[o] \in Ranges
      /\ todo[b] \subseteq atoms[b]
  BY <1>0 DEF ConvertRow, CallsAreWellFormed, SameRange
<1>2. /\ \A x \in Holders \ {b} : pc'[x] = pc[x]
      /\ pc'[b] \in {"convert", "undo", "granted"}
      /\ \A d \in Cells \ {c} : holder'[d] = holder[d]
      /\ holder[c] = o => holder'[c] = b
      /\ holder[c] # o => holder'[c] = holder[c]
      /\ UNCHANGED <<atoms, source, doc>>
  BY <1>0 DEF ConvertRow
<1>3. \A p \in Offers : \A d \in Cells : OwnedForOffer(p, d)' => OwnedForOffer(p, d)
  BY <1>0, <1>1, <1>2 DEF OwnedForOffer
<1>4. CASE ~Confirmed(b)'
  <2>1. \A x \in Bookings : Confirmed(x)' => Confirmed(x) /\ atoms'[x] = atoms[x]
    BY <1>2, <1>4 DEF Confirmed
  <2>2. \A p \in Offers : pc'[p] = "granted" => pc[p] = "granted" /\ atoms'[p] = atoms[p]
    BY <1>2
  <2>3. \A p \in Offers : \A d \in atoms[p] :
            pc[p] = "granted" /\ OwnedForOffer(p, d)' => OwnedForOffer(p, d)
    BY <1>3
  <2> QED
    BY <2>1, <2>2, <2>3, ShrinksWhen, ShrinkingIsRelease
<1>5. CASE Confirmed(b)'
  <2>1. \A d \in atoms[b] : holder'[d] = b
    BY <1>2, <1>5 DEF FirmLease, Intact
  <2>2. pc'[b] = "granted" /\ doc[b] = "holding"
    BY <1>2, <1>5 DEF Confirmed
  <2>3. \A d \in atoms[o] : OwnedForOffer(o, d)
    BY <1>0, <1>1, <1>2, <2>1 DEF OwnedForOffer
  <2>4. LeaseOf(o) = atoms[o] /\ LeaseOf(b) = {} /\ atoms[o] # {}
    BY <1>1, <2>3 DEF LeaseOf, Confirmed
  <2>5. LeaseOf(b)' = atoms[o]
    BY <1>1, <1>2, <1>5 DEF LeaseOf
  <2>6. LeaseOf(o)' = {}
    <3>1. PICK d \in atoms[o] : TRUE
      BY <2>4
    <3>2. holder'[d] = b /\ b # o
      BY <1>1, <2>1, <3>1
    <3>3. ~OwnedForOffer(o, d)'
      BY <2>2, <3>2 DEF OwnedForOffer
    <3>4. o \notin Bookings /\ atoms'[o] = atoms[o]
      BY <1>1, <1>2
    <3> QED
      BY <3>1, <3>3, <3>4, Zenon DEF LeaseOf
  <2>7. ASSUME NEW x \in Holders, x # o, x # b PROVE LeaseOf(x)' = LeaseOf(x)
    <3>1. CASE x \in Bookings
      BY <1>2, <2>7, <3>1 DEF LeaseOf, Confirmed
    <3>2. CASE x \in Offers
      <4>1. \A d \in Cells : OwnedForOffer(x, d) => OwnedForOffer(x, d)'
        BY <1>0, <1>1, <1>2, <2>2, <2>7 DEF OwnedForOffer
      <4>2. \A d \in atoms[x] : OwnedForOffer(x, d)' <=> OwnedForOffer(x, d)
        BY <1>3, <3>2, <4>1
      <4> QED
        BY <1>2, <2>7, <3>2, <4>2 DEF LeaseOf
    <3> QED
      BY <3>1, <3>2
  <2> DEFINE lease == [x \in Holders |-> LeaseOf(x)]
  <2>8. [x \in Holders |-> LeaseOf(x)'] = [lease EXCEPT ![o] = {}, ![b] = lease[o]]
    BY <1>1, <2>4, <2>5, <2>6, <2>7
  <2>9. Lease!Transfer(o, b)
    BY <1>1, <2>4, <2>8 DEF Lease!Transfer, Lease!Holders
  <2> QED
    BY <1>1, <2>9 DEF Lease!Next
<1> QED
  BY <1>4, <1>5

LEMMA StepImplements ==
    ASSUME LeaseInv, SameRange, LeaseInv', [Next]_vars
    PROVE  Lease!Next \/ UNCHANGED [h \in Holders |-> LeaseOf(h)]
<1>1. ASSUME NEW b \in Bookings, BookingStep(b) PROVE Lease!Next
  BY <1>1, ReservationShrinks, ShrinkingIsRelease, ConvertImplements
<1>2. ASSUME NEW o \in Offers, OfferStep(o) PROVE Lease!Next
  BY <1>2, OfferShrinks, ShrinkingIsRelease
<1>3. ASSUME NEW h \in Holders, ClaimStep(h) PROVE Lease!Next
  BY <1>3, CleanupShrinks, ShrinkingIsRelease, InsertImplements DEF ClaimStep
<1>4. CASE SweepLapsedHolds
  BY <1>4, CleanupShrinks, ShrinkingIsRelease
<1>5. CASE Tick \/ UNCHANGED vars
  <2>1. UNCHANGED <<holder, source, pc, doc, atoms>>
    BY <1>5 DEF Tick, vars
  <2> QED
    BY <2>1 DEF LeaseOf, Confirmed, OwnedForOffer
<1> QED
  BY <1>1, <1>2, <1>3, <1>4, <1>5 DEF Next

\* One document per atom, unordered inserts, counted updates and compensating
\* deletes implement the all-or-nothing lease (occupancy.service.ts:58-96).
THEOREM DocumentsImplementLease == Spec => ImplementsLease
<1>1. Init => Lease!Init
  <2> SUFFICES ASSUME Init PROVE Lease!Init
    OBVIOUS
  <2>1. \A h \in Holders : LeaseOf(h) = {}
    BY DEF Init, LeaseOf, Confirmed
  <2> QED
    BY <2>1 DEF Lease!Init, Lease!Holders, Holders
<1>2. Init => SameRange
  BY DEF Init, SameRange
<1>3. LeaseInv /\ SameRange /\ LeaseInv' /\ [Next]_vars
        => [Lease!Next]_([h \in Holders |-> LeaseOf(h)])
  BY StepImplements
<1> QED
  BY <1>1, <1>2, <1>3, InitLease, LeaseStep, SameRangeStep, PTL
     DEF Spec, ImplementsLease, Lease!Spec

\* No atom is leased twice, to reservations or to offers, half converted
\* offers included.
THEOREM LeasesAreExclusive == Spec => []Lease!Exclusive
<1>1. LeaseInv => Lease!Exclusive
  <2> SUFFICES ASSUME LeaseInv, NEW x \in Holders, NEW y \in Holders, x # y,
                      NEW c \in LeaseOf(x) \cap LeaseOf(y)
               PROVE  FALSE
    BY DEF Lease!Exclusive, Lease!Holders, Holders
  <2>1. /\ x \in Bookings => holder[c] = x /\ pc[x] = "granted"
        /\ y \in Bookings => holder[c] = y /\ pc[y] = "granted"
        /\ x \in Offers => OwnedForOffer(x, c)
        /\ y \in Offers => OwnedForOffer(y, c)
    BY LeasesAreHeld
  <2> QED
    BY <2>1, HoldersAreDistinct DEF OwnedForOffer, Holders
<1> QED
  BY <1>1, LeaseAlways, PTL
=============================================================================
