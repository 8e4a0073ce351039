------------------------------ MODULE MCLogger ------------------------------
(* Instances of Logger for TLC.                                            *)
EXTENDS Logger

\* Buffers of four bytes hold three one-byte entries, or one of two bytes and
\* one of one: both kinds of overflow of a buffer happen.
MCLens == {1, 2}
=============================================================================
