------------------------------ MODULE MCCoCall ------------------------------
(* One client that calls twice and reconnects, and one that calls once, on *)
(* the coroutines of one thread.                                           *)
EXTENDS CoCall, TLC

CONSTANTS c1, c2

Bound == (c1 :> 2) @@ (c2 :> 1)
=============================================================================
