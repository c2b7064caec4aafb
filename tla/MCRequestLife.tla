---------------------------- MODULE MCRequestLife ----------------------------
(* A small instance of RequestLife: two requests that may overlap. *)
EXTENDS RequestLife, TLC

CONSTANTS r1, r2

MCRequests == {r1, r2}
=============================================================================
