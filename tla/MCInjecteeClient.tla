-------------------------- MODULE MCInjecteeClient --------------------------
(* The client with room for one more writer() than sessions that can be     *)
(* lost, a report queue that overflows at once, and a budget of a few       *)
(* backoffs.  No symmetry: the run checks liveness.                         *)
EXTENDS InjecteeClient

CONSTANTS w1, w2, w3

MCPoppers == {w1, w2, w3}
=============================================================================
