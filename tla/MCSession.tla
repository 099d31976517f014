------------------------------ MODULE MCSession ------------------------------
(* A small instance of Session: two callers, any number of calls.             *)
EXTENDS Session

CONSTANTS c1, c2

TwoCallers == {c1, c2}
==============================================================================
