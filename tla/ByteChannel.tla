---------------------------- MODULE ByteChannel ----------------------------
(***************************************************************************)
(* What a TcpBaseSocket promises the code that writes to it: the bytes of  *)
(* the frames it accepts are handed to the kernel in order, none twice and *)
(* none skipped, and Close() takes effect only once all of them are out,   *)
(* unless the connection breaks.  TcpSocket is shown to implement it.      *)
(***************************************************************************)
EXTENDS Naturals, Sequences

CONSTANT Frames   \* what one Send may write: a set of non-empty byte sequences

VARIABLES accepted,  \* the bytes of every Send that returned true
          sent,      \* the bytes handed to the kernel
          status,    \* "open", "draining" (Close asked for), "closed"
          broken     \* closed because the connection failed

chan == <<accepted, sent, status, broken>>

Init ==
  /\ accepted = <<>>
  /\ sent = <<>>
  /\ status = "open"
  /\ broken = FALSE

Accept ==
  /\ status = "open"
  /\ \E f \in Frames : accepted' = accepted \o f
  /\ UNCHANGED <<sent, status, broken>>

Transmit ==
  /\ status # "closed"
  /\ \E k \in (Len(sent) + 1)..Len(accepted) : sent' = SubSeq(accepted, 1, k)
  /\ UNCHANGED <<accepted, status, broken>>

\* Close() while bytes are still to go: nothing more is accepted.
Drain ==
  /\ status = "open"
  /\ status' = "draining"
  /\ UNCHANGED <<accepted, sent, broken>>

Close ==
  /\ status # "closed"
  /\ sent = accepted
  /\ status' = "closed"
  /\ UNCHANGED <<accepted, sent, broken>>

\* The connection fails; a Send under way may still be told it was accepted.
Abort ==
  /\ status # "closed"
  /\ status' = "closed"
  /\ broken' = TRUE
  /\ \/ UNCHANGED accepted
     \/ status = "open" /\ \E f \in Frames : accepted' = accepted \o f
  /\ UNCHANGED sent

Next == Accept \/ Transmit \/ Drain \/ Close \/ Abort

Spec == Init /\ [][Next]_chan
============================================================================
