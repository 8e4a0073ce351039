---------------------------- MODULE MCRedisPool ----------------------------
(* A dotted address and two names, two databases, and handles that share. *)
EXTENDS RedisPool
=============================================================================
