---------------------------- MODULE MCCommitment ----------------------------
(* Small instances of Commitment: attempts to pay, verdict deliveries and    *)
(* cancellations of one reservation.                                        *)
EXTENDS Commitment

CONSTANTS i1, i2, d1, d2, c1

TwoIntents == {i1, i2}
TwoDeliveries == {d1, d2}
OneCancel == {c1}

\* For the runs that look for one way to break a claim.
OneIntent == {i1}
OneDelivery == {d1}
=============================================================================
