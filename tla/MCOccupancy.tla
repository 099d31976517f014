---------------------------- MODULE MCOccupancy ----------------------------
(* A small instance of Occupancy: two reservations and one offer compete    *)
(* for two consecutive atoms of one charger through overlapping ranges.   *)
EXTENDS Occupancy

CONSTANTS b1, b2, o1

MCBookings == {b1, b2}
MCOffers == {o1}
MCCells == 1..2
MCRanges == {{1, 2}, {2}}
=============================================================================
