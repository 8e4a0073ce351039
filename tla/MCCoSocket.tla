---------------------------- MODULE MCCoSocket -----------------------------
(* An instance of CoSocket for TLC.                                         *)
EXTENDS CoSocket

MCByte == {1, 2, 3}
MCFrames == {<<1>>, <<2, 3>>}
MCAllKinds == {"accepted", "async", "sync"}
============================================================================
