---------------------------- MODULE MCAppServer -----------------------------
(* Instances of AppServer for TLC.                                         *)
EXTENDS AppServer, TLC

CONSTANTS s1, s2, c1, f1, f2

\* For the tables: connections that compete for descriptors.
TwoSocks == {s1, s2}
NoConns == {}

\* For the queues and the caches: one connection of each kind.
OneSock == {s1}
OneConn == {c1}

TwoFds == {f1, f2}
OneFd == {f1}

Symmetry == Permutations(TwoSocks) \cup Permutations(TwoFds)
=============================================================================
