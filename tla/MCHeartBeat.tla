---------------------------- MODULE MCHeartBeat ----------------------------
(* A connector and an accepted socket, in two buckets. *)
EXTENDS HeartBeat, TLC

CONSTANTS connector, accepted

MCBucket == (connector :> 1) @@ (accepted :> 2)
=============================================================================
