---------------------------- MODULE MCTcpSocket ----------------------------
(* Instances of TcpSocket for TLC.                                         *)
EXTENDS TcpSocket

\* A one-byte and a two-byte frame: partial writes can split the second, and
\* the order of the bytes tells every mix-up of the buffers apart.
MCByte == {1, 2, 3}
MCFrames == {<<1>>, <<2, 3>>}
MCAllKinds == {"accepted", "async", "sync"}
============================================================================
