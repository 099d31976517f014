---------------------------- MODULE ChargerLease ----------------------------
(***************************************************************************)
(* What the occupancy layer promises its callers, with no rows, no         *)
(* intermediate writes and no clock: every holder (a reservation or an     *)
(* optimizer offer) owns either nothing or one whole range of charger      *)
(* atoms, and no atom is owned twice.  occupancy.service.ts keeps this     *)
(* promise with one document per atom, an unordered insertMany and a       *)
(* compensating delete; module Occupancy models that and implements this.  *)
(***************************************************************************)
EXTENDS Naturals

CONSTANTS Bookings, \* reservations that may hold charger time
          Offers,   \* optimizer offers that may hold it provisionally
          Cells     \* (charger, 15-minute atom) pairs

Holders == Bookings \cup Offers

VARIABLE lease      \* the cells each holder owns as a whole

TypeOK == lease \in [Holders -> SUBSET Cells]

Init == lease = [h \in Holders |-> {}]

\* A holder with nothing takes a whole range that nobody owns any part of.
Acquire(h, range) ==
    /\ lease[h] = {}
    /\ \A other \in Holders \ {h} : lease[other] \cap range = {}
    /\ lease' = [lease EXCEPT ![h] = range]

\* Acceptance hands an offer's whole range over to one reservation, with no
\* moment at which the range is free.
Transfer(o, b) ==
    /\ lease[o] # {}
    /\ lease[b] = {}
    /\ lease' = [lease EXCEPT ![o] = {}, ![b] = lease[o]]

\* Some holders give up everything they own: a reservation ends, an offer is
\* retired, or offers lapse and are purged together.
Release(some) == lease' = [h \in Holders |-> IF h \in some THEN {} ELSE lease[h]]

Next ==
    \/ \E h \in Holders, range \in SUBSET Cells : Acquire(h, range)
    \/ \E o \in Offers, b \in Bookings : Transfer(o, b)
    \/ \E some \in SUBSET Holders : Release(some)

Spec == Init /\ [][Next]_lease

\* No (charger, atom) pair is owned by two holders.
Exclusive == \A h1, h2 \in Holders : h1 # h2 => lease[h1] \cap lease[h2] = {}
=============================================================================
