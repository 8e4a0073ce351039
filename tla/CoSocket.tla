------------------------------ MODULE CoSocket ------------------------------
(***************************************************************************)
(* The socket of TcpSocket in coroutine mode (NetIo::Start(n, true)): the  *)
(* io thread runs every completion in a coroutine of its own, so that the  *)
(* application's OnReceiveData may yield, say in a CoScClient::SyncCall,   *)
(* and goes on with its loop.  The coroutine is resumed between two waits, *)
(* and still holds a pointer to its entry of the array of events.          *)
(*                                                                         *)
(* The socket is the only one of its thread: the entry is the first of the *)
(* array, and what a later epoll_wait leaves in it is about this socket.   *)
(***************************************************************************)
EXTENDS TcpSocket

VARIABLES
  susp,   \* what _CutMsgPack still has to do when its OnReceiveData is resumed
  stale   \* the completion was resumed: ev is not the event it was started for

covars == <<susp, stale>>
NotSuspended == [on |-> FALSE, batch |-> 0, bad |-> FALSE]

CoInit == Init /\ susp = NotSuspended /\ stale = FALSE

\* OnReceiveData is called and yields: _ExecOp returns to the loop.
YieldInHandler ==
  /\ pc = "deliver" /\ WholeMessage
  /\ log' = Append(log, "data")
  /\ susp' = [on |-> TRUE, batch |-> batch - 1, bad |-> bad]
  /\ pc' = "top" /\ batch' = 0 /\ bad' = FALSE
  /\ UNCHANGED <<sock, impl, post, start, ev, done, closereqs, reg, peer,
                 accepted, sent, ioerr, early, stale>>

\* doThrResume: OnReceiveData returns to _CutMsgPack.
ResumeHandler ==
  /\ pc = "top" /\ susp.on
  /\ pc' = "deliver" /\ batch' = susp.batch /\ bad' = susp.bad
  /\ susp' = NotSuspended /\ stale' = TRUE
  /\ UNCHANGED <<sock, impl, post, start, ev, done, closereqs, reg, peer, hist,
                 early>>

\* g_send for an event of another round: the kernel may have no room, and
\* _WriteHandler gets 0 bytes.
KernelFull ==
  /\ pc = "send" /\ stale
  /\ pc' = "whandle" /\ wop' = <<>> /\ done' = 0
  /\ UNCHANGED <<sock, fd, epoll, state, optype, post, start, ev, batch, bad,
                 closereqs, reg, peer, hist, early, covars>>

\* The io thread clears the array before it waits.
CoNext ==
  \/ Next /\ stale' = (stale /\ pc' # "wait") /\ UNCHANGED susp
  \/ YieldInHandler \/ ResumeHandler \/ KernelFull

CoSpec == CoInit /\ [][CoNext]_<<vars, covars>>
=============================================================================
