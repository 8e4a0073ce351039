----------------------------- MODULE TcpSocket -----------------------------
(***************************************************************************)
(* One framed TCP connection of the netio library on Linux: the writer,    *)
(* reader and life cycle of TcpBaseSocket / TcpStreamSocket                *)
(* (netio/tsocket_impl.hpp), the SocketImpl it drives and the io thread    *)
(* that runs its completions (socket/epoll_access.hpp, socket/ioaccess.ipp)*)
(* in plain mode (NetIo::Start(n, false)).                                 *)
(*                                                                         *)
(* Four actors interleave: application threads calling Send and Close, the *)
(* thread that starts the connection (acceptor thread, connecting thread,  *)
(* or the io thread itself), the io thread the descriptor is registered    *)
(* with, and the peer together with the kernel.                            *)
(*                                                                         *)
(* Locks: _writer.lock covers Send, Close and _WriteHandler; the mutex of  *)
(* the SocketImpl covers AsyncSendSome, AsyncRecvSome, the first half of   *)
(* Complete(), IoAccess::Close and the close in _DoClose.  A section under *)
(* a lock is one step, except the posting of an operation: it stores       *)
(* OperationSet::_type twice, and the io thread reads _type with no lock,  *)
(* so a thread between the two stores is a state of its own (post).        *)
(***************************************************************************)
EXTENDS Naturals, Sequences

CONSTANTS
  Byte,       \* byte values
  Frames,     \* what one Send may write, header included
  Kinds,      \* how connections start: "accepted", "async", "sync"
  MaxBuf,     \* E_MAX_BUFFER_SIZE: the limit of msgbuffer2
  MaxBytes,   \* model bound: bytes accepted in one behaviour
  MaxLog      \* model bound: callbacks before OnDisconnected

ASSUME FramesAssumption == Frames \subseteq Seq(Byte) \ {<<>>}
ASSUME KindsAssumption == Kinds \subseteq {"accepted", "async", "sync"}
ASSUME BoundsAssumption ==
  /\ MaxBuf \in Nat
  /\ MaxBytes \in Nat
  /\ MaxLog \in Nat

VARIABLES
  \* TcpBaseSocket
  flag,       \* _flag: E_STATE_START, E_STATE_STOP, E_STATE_CLOSE
  writing,    \* _writer.writing
  buf1, buf2, \* _writer.msgbuffer1 (being sent) and msgbuffer2 (waiting)
  \* SocketImpl::core
  fd,         \* _fd is a valid descriptor
  epoll,      \* _epoll names the epoll set of an io thread
  state,      \* the bits of _state
  optype,     \* _op._type
  wop,        \* _op._wop: the bytes its _wsabuf covers
  \* threads
  post,       \* which posting is between its two stores of _type
  kind, st,   \* how the connection starts, and how far the start has come
  pc,         \* the io thread
  ev,         \* the epoll_event_t it is dispatching
  batch, bad, \* what _CutMsgPack still finds: messages, and a bad header after them
  done,       \* tran_byte of the write completion that _WriteHandler gets
  closereqs,  \* IoServiceImpl::_closereqs: requests for this socket
  \* kernel and peer
  reg,        \* events the descriptor is registered for
  peer,
  \* history
  accepted,   \* bytes of every Send that returned true
  sent,       \* bytes g_send took
  ioerr,      \* a write failed or could not be posted
  log,        \* callbacks of NetIo, in order
  early       \* Close() was called before AsyncConnect was through

sock == <<flag, writing, buf1, buf2>>
impl == <<fd, epoll, state, optype, wop>>
start == <<kind, st>>
loop == <<pc, ev, batch, bad, done>>
hist == <<accepted, sent, ioerr, log>>
vars == <<sock, impl, post, start, loop, closereqs, reg, peer, hist, early>>

-----------------------------------------------------------------------------
(* Initial states                                                          *)

\* A socket just accepted, or just connected by the blocking Connect(), is in
\* block mode and in no epoll set; one that AsyncConnect started is already
\* registered, for one EPOLLOUT.
Init ==
  /\ kind \in Kinds
  /\ st = "begin"
  /\ flag = "stop" /\ writing = FALSE /\ buf1 = <<>> /\ buf2 = <<>>
  /\ fd = TRUE
  /\ epoll = (kind = "async")
  /\ state = IF kind = "async" THEN {"bind", "connect"} ELSE {"block"}
  /\ optype = IF kind = "async" THEN {"C"} ELSE {}
  /\ reg = IF kind = "async" THEN {"OUT"} ELSE {}
  /\ wop = <<>>
  /\ post = "none"
  /\ pc = "top" /\ ev = {} /\ batch = 0 /\ bad = FALSE /\ done = 0
  /\ closereqs = 0
  /\ peer = "open"
  /\ accepted = <<>> /\ sent = <<>> /\ ioerr = FALSE /\ log = <<>>
  /\ early = FALSE

-----------------------------------------------------------------------------
(* Closing                                                                 *)

\* IoAccess::Close on a SocketImpl whose bits are s and whose epoll is e: a
\* socket in block mode is closed on the spot; any other is only marked, and
\* the io thread it belongs to, if it belongs to one, is asked to close it.
ImplCloseUnqueued(s, e) ==  \* mutant: the io thread is never asked
  /\ IF "block" \in s THEN fd' = FALSE /\ state' = {}
                      ELSE fd' = fd /\ state' = s \cup {"close"}
  /\ UNCHANGED closereqs
ImplClose(s, e) ==
  IF fd /\ "close" \notin s
  THEN /\ closereqs' = IF e THEN closereqs + 1 ELSE closereqs
       /\ IF "block" \in s THEN fd' = FALSE /\ state' = {}
                           ELSE fd' = fd /\ state' = s \cup {"close"}
  ELSE state' = s /\ UNCHANGED <<fd, closereqs>>

\* _Close() can run: _writer.lock is free, and so is the mutex of the
\* SocketImpl, or a write on its way keeps _Close() from needing it.
CanClose == post = "none" \/ (post = "recv" /\ writing)

\* _Close(), with the values w, s and e that writing, _state and _epoll have
\* by then: while a write is on its way the socket only stops.
CloseAtOnce(w, s, e) ==  \* mutant: does not look at writing
  IF flag = "close"
  THEN state' = s /\ UNCHANGED <<flag, fd, closereqs>>
  ELSE flag' = "close" /\ ImplClose(s, e)
CloseLocked(w, s, e) ==
  IF flag = "close"
  THEN state' = s /\ UNCHANGED <<flag, fd, closereqs>>
  ELSE IF w
       THEN flag' = "stop" /\ state' = s /\ UNCHANGED <<fd, closereqs>>
       ELSE flag' = "close" /\ ImplClose(s, e)

-----------------------------------------------------------------------------
(* Posting operations                                                      *)

\* _type and the epoll events for the operations whose bits are set in s.
OpBitsNoWrite(s) ==  \* mutant: AsyncRecvSome forgets a posted write
  IF "read" \in s THEN {"R"} ELSE IF "write" \in s THEN {"W"} ELSE {}
OpBitsNoRead(s) ==   \* mutant: AsyncSendSome forgets a posted read
  IF "write" \in s THEN {"W"} ELSE IF "read" \in s THEN {"R"} ELSE {}
OpBits(s) == {t \in {"R", "W"} : \/ t = "R" /\ "read" \in s
                                 \/ t = "W" /\ "write" \in s}
Interest(t) == {e \in {"IN", "OUT"} : \/ e = "IN" /\ "R" \in t
                                      \/ e = "OUT" /\ "W" \in t}

\* AsyncSendSome and AsyncRecvSome return an error at once.
SendRefused == ~fd \/ "write" \in state
RecvRefused == ~fd \/ "read" \in state

\* Up to the first store of _type.
PostSend(data) ==
  /\ state' = (state \ {"block"}) \cup {"write"}
  /\ optype' = {"W"}
  /\ wop' = data
  /\ post' = "send"

PostRecv ==
  /\ state' = (state \ {"block"}) \cup {"read"}
  /\ optype' = {"R"}
  /\ post' = "recv"

\* _TrySendData with b1 and b2 in the buffers and no write on its way: the
\* waiting bytes move over when msgbuffer1 is empty.
Front(b1, b2) == IF b1 = <<>> THEN b2 ELSE b1
BackCleared(b1, b2) == <<>>  \* mutant: msgbuffer2 is cleared whether or not it moved
Back(b1, b2) == IF b1 = <<>> THEN <<>> ELSE b2
MoreInFront(b1, b2) == b1 # <<>>  \* mutant: forgets msgbuffer2
MoreToSend(b1, b2) == Front(b1, b2) # <<>>

TrySendData(b1, b2) ==
  /\ buf1' = Front(b1, b2)
  /\ buf2' = Back(b1, b2)
  /\ writing' = FALSE
  /\ \/ /\ ~SendRefused
        /\ PostSend(Front(b1, b2))
        /\ UNCHANGED <<flag, fd, closereqs, ioerr>>
     \/ /\ SendRefused
        /\ ioerr' = TRUE
        /\ CloseLocked(FALSE, state, epoll)
        /\ wop' = <<>>
        /\ UNCHANGED <<optype, post>>

\* _epoll after an EPOLL_CTL_ADD that failed.  CtlEpoll first picks an io
\* thread; there may be none only for a Connect() before NetIo::Start: an
\* accepted socket is started by an io thread.
AddFails == IF kind = "sync" THEN {epoll, TRUE} ELSE {TRUE}

\* The rest of AsyncSendSome: the second store of _type, epoll_ctl, and back
\* in _TrySendData.  Only EPOLL_CTL_ADD can fail: no io thread runs, or the
\* kernel refuses the descriptor.
SendPosted ==
  /\ post = "send"
  /\ post' = "none"
  /\ optype' = OpBits(state)
  /\ pc' = IF pc = "wposting" THEN "top" ELSE pc
  /\ \/ /\ writing' = TRUE
        /\ state' = state \cup {"bind"}
        /\ epoll' = TRUE
        /\ reg' = Interest(OpBits(state))
        /\ UNCHANGED <<flag, fd, wop, closereqs, ioerr>>
     \/ /\ "bind" \notin state
        /\ epoll' \in AddFails
        /\ wop' = <<>>
        /\ ioerr' = TRUE
        /\ CloseLocked(FALSE, state \ {"write"}, epoll')
        /\ UNCHANGED <<writing, reg>>
  /\ UNCHANGED <<buf1, buf2, start, ev, batch, bad, done, peer,
                 accepted, sent, log>>

\* The rest of AsyncRecvSome.  TcpSocket::Init closes the socket when it
\* fails; a connector only records the error.
RecvPosted ==
  /\ post = "recv"
  /\ post' = "none"
  /\ optype' = OpBits(state)
  /\ pc' = IF pc # "rposting" THEN pc
           ELSE IF st = "posting" THEN "top" ELSE "dispatchW"
  /\ \/ /\ state' = state \cup {"bind"}
        /\ epoll' = TRUE
        /\ reg' = Interest(OpBits(state))
        /\ st' = IF st = "posting" THEN "done" ELSE st
     \/ /\ "bind" \notin state
        /\ epoll' \in AddFails
        /\ state' = state \ {"read"}
        /\ st' = IF kind = "accepted" THEN "closing" ELSE "failed"
        /\ UNCHANGED reg
  /\ UNCHANGED <<sock, fd, wop, kind, ev, batch, bad, done, closereqs, peer, hist>>

-----------------------------------------------------------------------------
(* Starting the connection                                                 *)

\* TcpSocket::Init up to OnConnected.  RemoteEndPoint() throws when the peer
\* is already gone: the socket is dropped and nobody hears of it.
InitAccepted ==
  /\ kind = "accepted" /\ st = "begin"
  /\ \/ flag' = "start" /\ log' = Append(log, "connected") /\ st' = "posting"
     \/ peer = "reset" /\ st' = "dropped" /\ UNCHANGED <<flag, log>>
  /\ UNCHANGED <<writing, buf1, buf2, impl, post, kind, loop, closereqs, reg,
                 peer, accepted, sent, ioerr>>

\* TcpConnector::Connect: no callback; the caller has the socket only when
\* it returns.  RemoteEndPoint() may throw here too.
ConnectSync ==
  /\ kind = "sync" /\ st = "begin"
  /\ flag' = "start"
  /\ st' = "posting" \/ (peer = "reset" /\ st' = "failed")
  /\ UNCHANGED <<writing, buf1, buf2, impl, post, kind, loop, closereqs, reg,
                 peer, hist>>

\* The first AsyncRecvSome of an accepted or blockingly connected socket.
FirstRecv ==
  /\ kind # "async" /\ st = "posting" /\ post = "none"
  /\ \/ ~RecvRefused /\ PostRecv /\ UNCHANGED st
     \/ /\ RecvRefused
        /\ st' = IF kind = "accepted" THEN "closing" ELSE "failed"
        /\ UNCHANGED <<state, optype, post>>
  /\ UNCHANGED <<sock, fd, epoll, wop, kind, loop, closereqs, reg, peer, hist>>

\* _PostClose after a failed _TryRecvData in Init.
InitClose ==
  /\ st = "closing" /\ CanClose
  /\ st' = "done"
  /\ CloseLocked(writing, state, epoll)
  /\ UNCHANGED <<writing, buf1, buf2, epoll, optype, wop, post, kind, loop, reg,
                 peer, hist>>

\* ConnectOperation::Complete and _ConnectHandler, on the io thread: up to
\* OnConnected, or all of it when the connection failed, then or before
\* RemoteEndPoint().
ConnectComplete ==
  /\ pc = "connect" /\ post = "none"
  /\ optype' = optype \ {"C"}
  /\ state' = state \ {"connect"}
  /\ reg' = {}  \* EPOLLONESHOT
  /\ \/ /\ log' = Append(log, "connected")
        /\ flag' = "start" /\ st' = "posting" /\ pc' = "tryrecv"
     \/ /\ log' = Append(log, "connected")
        /\ UNCHANGED flag /\ st' = "failed" /\ pc' = "top"
     \/ /\ peer = "reset"
        /\ UNCHANGED <<log, flag>> /\ st' = "dropped" /\ pc' = "top"
  /\ UNCHANGED <<writing, buf1, buf2, fd, epoll, wop, post, kind, ev, batch,
                 bad, done, closereqs, peer, accepted, sent, ioerr>>

-----------------------------------------------------------------------------
(* The application                                                         *)

\* Who may use the socket: whoever OnConnected gave it to, or the caller
\* Connect() returned to.  The caller of AsyncConnect holds it earlier; then
\* Send returns false, and what Close does is CloseEarly.
Usable == log # <<>> \/ (kind = "sync" /\ st \in {"done", "failed"})

IsNotClosed == flag # "close"  \* mutant: accepts while draining
IsConnected == flag = "start"

\* Send() that returns true.  One that returns false changes nothing.
Send ==
  /\ Usable /\ post # "send"
  /\ IsConnected
  /\ \E f \in Frames :
       /\ Len(accepted) + Len(f) <= MaxBytes
       /\ Len(buf2) + Len(f) <= MaxBuf
       /\ accepted' = accepted \o f
       /\ \/ /\ writing
             /\ buf2' = buf2 \o f
             /\ UNCHANGED <<flag, writing, buf1, fd, state, optype, wop, post,
                            closereqs, ioerr>>
          \/ ~writing /\ post = "none" /\ TrySendData(buf1, buf2 \o f)
  /\ UNCHANGED <<epoll, start, loop, reg, peer, sent, log>>

Close ==
  /\ Usable /\ CanClose
  /\ CloseLocked(writing, state, epoll)
  /\ UNCHANGED <<writing, buf1, buf2, epoll, optype, wop, post, start, loop,
                 reg, peer, hist>>

\* Close() by the caller of AsyncConnect before OnConnected: it has the
\* descriptor closed, and takes no notice of a connect that completes first.
CloseEarly ==
  /\ kind = "async" /\ log = <<>> /\ CanClose
  /\ CloseLocked(writing, state, epoll)
  /\ early' = TRUE
  /\ UNCHANGED <<writing, buf1, buf2, epoll, optype, wop, post, start, loop,
                 reg, peer, hist>>

-----------------------------------------------------------------------------
(* The io thread: EpollService::Access::_DoRun                             *)

\* _DoClose: close the descriptor, which also leaves the epoll set ...
CloseFdUnpopped ==  \* mutant: the request stays queued
  /\ pc = "top" /\ closereqs > 0 /\ post = "none"
  /\ fd' = FALSE /\ state' = {} /\ reg' = {}
  /\ pc' = "closed"
  /\ UNCHANGED <<sock, epoll, optype, wop, post, start, ev, batch, bad, done,
                 closereqs, peer, hist>>
CloseFd ==
  /\ pc = "top" /\ closereqs > 0 /\ post = "none"
  /\ closereqs' = closereqs - 1
  /\ fd' = FALSE /\ state' = {} /\ reg' = {}
  /\ pc' = "closed"
  /\ UNCHANGED <<sock, epoll, optype, wop, post, start, ev, batch, bad, done,
                 peer, hist>>

\* ... and call the request's handler: _CloseHandler, OnDisconnected.
CloseHandler ==
  /\ pc = "closed"
  /\ log' = Append(log, "disconnected")
  /\ pc' = "top"
  /\ UNCHANGED <<sock, impl, post, start, ev, batch, bad, done, closereqs, reg,
                 peer, accepted, sent, ioerr>>

\* What epoll_wait may report: EPOLLERR and EPOLLHUP need no registration of
\* their own, and are "HUP" here.
Ready ==
  {e \in {"IN", "OUT", "HUP"} :
     \/ e = "IN" /\ "IN" \in reg /\ (Len(log) < MaxLog \/ peer # "open")
     \/ e = "OUT" /\ "OUT" \in reg
     \/ e = "HUP" /\ "bind" \in state /\ peer = "reset"}

\* epoll_wait, which times out after 20 ms.
Wait ==
  /\ pc = "top" /\ closereqs = 0
  /\ pc' = "wait" /\ ev' = {}
  /\ UNCHANGED <<sock, impl, post, start, batch, bad, done, closereqs, reg,
                 peer, hist>>

Timeout ==
  /\ pc = "wait"
  /\ pc' = "top"
  /\ UNCHANGED <<sock, impl, post, start, ev, batch, bad, done, closereqs, reg,
                 peer, hist>>

Event ==
  /\ pc = "wait"
  /\ ev' \in (SUBSET Ready) \ {{}}
  /\ pc' = "dispatch"
  /\ UNCHANGED <<sock, impl, post, start, batch, bad, done, closereqs, reg,
                 peer, hist>>

\* _DoExecOp, up to the read operation.  _type is read without the mutex.
Dispatch ==
  /\ pc = "dispatch"
  /\ pc' = IF "C" \in optype THEN "connect"
           ELSE IF "R" \in optype /\ ev \cap {"IN", "HUP"} # {} THEN "rcomplete"
           ELSE "dispatchW"
  /\ UNCHANGED <<sock, impl, post, start, ev, batch, bad, done, closereqs, reg,
                 peer, hist>>

\* ReadOperation::Complete, under the mutex.
ReadComplete ==
  /\ pc = "rcomplete" /\ post = "none"
  /\ IF fd
     THEN /\ state' = state \ {"read"}
          /\ optype' = optype \ {"R"}
          /\ reg' = Interest(optype')
          /\ pc' = "recv"
     ELSE pc' = "dispatchW" /\ UNCHANGED <<state, optype, reg>>
  /\ UNCHANGED <<sock, fd, epoll, wop, post, start, ev, batch, bad, done,
                 closereqs, peer, hist>>

\* g_recv, and _ReadHandler up to _CutMsgPack.
Recv ==
  /\ pc = "recv"
  /\ \/ /\ peer # "reset" /\ flag = "start"
        /\ batch' \in 0..(MaxLog - Len(log))
        /\ bad' \in BOOLEAN
        /\ pc' = "deliver"
     \/ /\ peer # "open" \/ flag # "start"
        /\ pc' = "rclose"
        /\ UNCHANGED <<batch, bad>>
  /\ UNCHANGED <<sock, impl, post, start, ev, done, closereqs, reg, peer, hist>>

\* The bytes read hold one more whole message.
WholeMessageOrLess == batch >= 0  \* mutant: off by one
WholeMessage == batch > 0

\* _CutMsgPack: OnReceiveData for one message; a header that is too large
\* ends the connection.
CutMsgPack ==
  /\ pc = "deliver"
  /\ \/ /\ WholeMessage
        /\ batch' = batch - 1
        /\ log' = Append(log, "data")
        /\ UNCHANGED <<pc, bad>>
     \/ /\ batch = 0
        /\ pc' = IF bad THEN "rclose" ELSE "tryrecv"
        /\ bad' = FALSE
        /\ UNCHANGED <<batch, log>>
  /\ UNCHANGED <<sock, impl, post, start, ev, done, closereqs, reg, peer,
                 accepted, sent, ioerr>>

\* _TryRecvData of _ReadHandler, or the AsyncRecvSome of _ConnectHandler.
TryRecvData ==
  /\ pc = "tryrecv" /\ post = "none"
  /\ \/ ~RecvRefused /\ PostRecv /\ pc' = "rposting" /\ UNCHANGED st
     \/ /\ RecvRefused
        /\ IF st = "posting" THEN st' = "failed" /\ pc' = "top"
                             ELSE pc' = "rclose" /\ UNCHANGED st
        /\ UNCHANGED <<state, optype, post>>
  /\ UNCHANGED <<sock, fd, epoll, wop, kind, ev, batch, bad, done, closereqs,
                 reg, peer, hist>>

\* _PostClose at the end of _ReadHandler.
ReadClose ==
  /\ pc = "rclose" /\ CanClose
  /\ CloseLocked(writing, state, epoll)
  /\ pc' = "dispatchW"
  /\ UNCHANGED <<writing, buf1, buf2, epoll, optype, wop, post, start, ev, batch,
                 bad, done, reg, peer, hist>>

\* _DoExecOp, the write operation.
DispatchW ==
  /\ pc = "dispatchW"
  /\ pc' = IF "W" \in optype /\ ev \cap {"OUT", "HUP"} # {} THEN "wcomplete" ELSE "top"
  /\ UNCHANGED <<sock, impl, post, start, ev, batch, bad, done, closereqs, reg,
                 peer, hist>>

\* WriteOperation::Complete, under the mutex ...
WriteComplete ==
  /\ pc = "wcomplete" /\ post = "none"
  /\ optype' = optype \ {"W"}
  /\ IF fd
     THEN /\ state' = state \ {"write"}
          /\ reg' = Interest(optype')
          /\ pc' = "send"
     ELSE pc' = "top" /\ UNCHANGED <<state, reg>>
  /\ UNCHANGED <<sock, fd, epoll, wop, post, start, ev, batch, bad, done,
                 closereqs, peer, hist>>

\* ... and g_send, which may take only some of the bytes.
KernelSend ==
  /\ pc = "send"
  /\ pc' = "whandle"
  /\ wop' = <<>>
  /\ \/ /\ peer # "reset"
        /\ done' \in 1..Len(wop)
        /\ sent' = sent \o SubSeq(wop, 1, done')
     \/ peer = "reset" /\ done' = 0 /\ UNCHANGED sent
  /\ UNCHANGED <<sock, fd, epoll, state, optype, post, start, ev, batch, bad,
                 closereqs, reg, peer, accepted, ioerr, log>>

\* msgbuffer1.CutData(tran_byte)
CutNothing(b, n) == b  \* mutant: CutData is not called
Cut(b, n) == SubSeq(b, n + 1, Len(b))

\* _WriteHandler.
WriteHandler ==
  /\ pc = "whandle" /\ post = "none"
  /\ done' = 0
  /\ LET b1 == Cut(buf1, done) IN
     \/ /\ done = 0
        /\ ioerr' = TRUE
        /\ writing' = FALSE
        /\ CloseLocked(FALSE, state, epoll)
        /\ pc' = "top"
        /\ UNCHANGED <<buf1, buf2, optype, wop, post>>
     \/ /\ done > 0 /\ MoreToSend(b1, buf2)
        /\ TrySendData(b1, buf2)
        /\ pc' = IF SendRefused THEN "top" ELSE "wposting"
     \/ /\ done > 0 /\ ~MoreToSend(b1, buf2)
        /\ writing' = FALSE
        /\ buf1' = Front(b1, buf2) /\ buf2' = Back(b1, buf2)
        /\ IF flag = "start" THEN UNCHANGED <<flag, fd, state, closereqs>>
                             ELSE CloseLocked(FALSE, state, epoll)
        /\ pc' = "top"
        /\ UNCHANGED <<optype, wop, post, ioerr>>
  /\ UNCHANGED <<epoll, start, ev, batch, bad, reg, peer, accepted, sent, log>>

-----------------------------------------------------------------------------
(* The peer                                                                *)

PeerShutdown ==
  /\ peer = "open" /\ peer' = "fin"
  /\ UNCHANGED <<sock, impl, post, start, loop, closereqs, reg, hist>>

PeerReset ==
  /\ peer # "reset" /\ peer' = "reset"
  /\ UNCHANGED <<sock, impl, post, start, loop, closereqs, reg, hist>>

-----------------------------------------------------------------------------
Starter == InitAccepted \/ ConnectSync \/ FirstRecv \/ InitClose
Posted == SendPosted \/ RecvPosted
Application == Send \/ Close
Completion ==
  \/ Dispatch \/ ConnectComplete
  \/ ReadComplete \/ Recv \/ CutMsgPack \/ TryRecvData \/ ReadClose
  \/ DispatchW \/ WriteComplete \/ KernelSend \/ WriteHandler
IoThread == CloseFd \/ CloseHandler \/ Wait \/ Timeout \/ Event \/ Completion
Peer == PeerShutdown \/ PeerReset

Step == Starter \/ Posted \/ Application \/ IoThread \/ Peer
Next == (Step /\ UNCHANGED early) \/ CloseEarly

Spec == Init /\ [][Next]_vars

-----------------------------------------------------------------------------
(* Properties                                                              *)

Bits == {"block", "bind", "connect", "read", "write", "close"}
Callbacks == {"connected", "data", "disconnected"}

TypeOK ==
  /\ flag \in {"start", "stop", "close"}
  /\ writing \in BOOLEAN
  /\ buf1 \in Seq(Byte) /\ buf2 \in Seq(Byte) /\ wop \in Seq(Byte)
  /\ fd \in BOOLEAN /\ epoll \in BOOLEAN
  /\ state \subseteq Bits
  /\ optype \subseteq {"C", "R", "W"}
  /\ post \in {"none", "send", "recv"}
  /\ kind \in Kinds
  /\ st \in {"begin", "posting", "closing", "done", "failed", "dropped"}
  /\ pc \in {"top", "closed", "wait", "dispatch", "connect", "rcomplete",
             "recv", "deliver", "tryrecv", "rposting", "rclose", "dispatchW",
             "wcomplete", "send", "whandle", "wposting"}
  /\ ev \subseteq {"IN", "OUT", "HUP"}
  /\ batch \in Nat /\ bad \in BOOLEAN /\ done \in Nat
  /\ closereqs \in Nat
  /\ reg \subseteq {"IN", "OUT"}
  /\ peer \in {"open", "fin", "reset"}
  /\ accepted \in Seq(Byte) /\ sent \in Seq(Byte)
  /\ ioerr \in BOOLEAN
  /\ log \in Seq(Callbacks)
  /\ early \in BOOLEAN

\* The bytes a Send was told are accepted are, in order, on the wire, in
\* msgbuffer1 or in msgbuffer2: the swap of the two buffers, partial writes
\* and the closing of the socket neither lose, repeat nor reorder any.
NothingLost == accepted = sent \o Cut(buf1, done) \o buf2

\* Close() "waits until all the data has been sent before disconnecting"
\* (tsocket_impl.hpp, Close): once the socket is closed every accepted byte
\* was sent, whoever closed it, unless a write failed.
GracefulClose == flag = "close" /\ ~ioerr => sent = accepted

\* The operation whose completion will clear writing exists: it is
\* registered with the io thread for EPOLLOUT, or the io thread is at it.
\* Without it writing stays set: nothing is sent any more and Close() never
\* ends.  (So it is with a connector closed before OnConnected and opened
\* again by _ConnectHandler: _DoClose takes the descriptor from under the
\* write.)
WritePending ==
  writing /\ post = "none" /\ ~early =>
    \/ fd /\ "W" \in optype /\ "OUT" \in reg /\ wop = buf1
    \/ pc \in {"send", "whandle"}

\* No byte waits in the buffers with nobody to send it.
NoIdleBacklog ==
  ~writing /\ post # "send" /\ ~ioerr => buf1 = <<>> /\ buf2 = <<>>

\* While the io thread is in epoll_wait, a connection that has been started
\* and not closed is registered for EPOLLIN: no completion, and no Send
\* from another thread, leaves it deaf.  (Connectors whose first
\* AsyncRecvSome failed are deaf from the start, and those closed before
\* OnConnected soon have no descriptor.)
Listening ==
  flag = "start" /\ st = "done" /\ post = "none" /\ pc = "wait" /\ ~early
    => "IN" \in reg

\* "For one socket the callbacks keep the order OnConnected ->
\* OnReceiveData -> OnDisconnected" (netio.hpp, class NetIo).  Connect()
\* calls no OnConnected.  The code breaks its word in one case only: when
\* AsyncConnect's caller closes before the connect completes, OnDisconnected
\* may come alone.
CallbackOrder ==
  /\ \A i, j \in 1..Len(log) :
       i < j => log[i] # "disconnected" /\ log[j] # "connected"
  /\ kind # "sync" /\ log # <<>> =>
       log[1] = "connected" \/ (early /\ log = <<"disconnected">>)

\* A request to close is only queued for an open descriptor, and only one:
\* _DoClose never closes a number the kernel may have given away again.
\* (Only a connector closed before OnConnected may be in use meanwhile.)
ClosedOnce == closereqs > 0 => closereqs = 1 /\ fd /\ (flag = "close" \/ early)

\* A closed socket that an io thread knows of, and that OnDisconnected was
\* not called for, has its request queued or the io thread is at it: a close
\* during a post, after one that failed or by a late completion is not lost.
ReportPending ==
  flag = "close" /\ epoll =>
    closereqs > 0 \/ pc = "closed" \/ (\E i \in 1..Len(log) : log[i] = "disconnected")

\* _flag leaves E_STATE_CLOSE in one place only, and there only once: when
\* _ConnectHandler finds connected what AsyncConnect's caller has closed, it
\* stores E_STATE_START all the same.  Nothing is accepted while the socket
\* is stopped or closed.
NoReopen == [][/\ flag = "close" => \/ flag' = "close"
                                    \/ early /\ log = <<>> /\ ConnectComplete
               /\ flag # "start" => accepted' = accepted]_vars

-----------------------------------------------------------------------------
(* The channel it implements                                               *)

\* A connector closed before OnConnected is not closed for good until that
\* or OnDisconnected is called: _ConnectHandler may still open it.
Status == IF flag = "close" /\ ~(early /\ log = <<>>) THEN "closed"
          ELSE IF flag = "stop" /\ (writing \/ post = "send") THEN "draining"
          ELSE "open"

Channel == INSTANCE ByteChannel WITH status <- Status, broken <- ioerr

\* Every behaviour of the socket is one of the channel's.
ImplementsChannel == Channel!Spec

-----------------------------------------------------------------------------
(* Liveness                                                                *)

\* Threads run; the io thread keeps coming back from epoll_wait; and the
\* kernel reports EPOLLOUT again and again while it is asked for, because
\* the peer reads or the connection breaks.
FairSpec ==
  /\ Spec
  /\ WF_vars(Starter /\ UNCHANGED early)
  /\ WF_vars(Posted /\ UNCHANGED early)
  /\ WF_vars(IoThread /\ UNCHANGED early)
  /\ SF_vars(Event /\ "OUT" \in ev' /\ UNCHANGED early)

\* A closed socket that an io thread knows of is reported: OnDisconnected.
CloseReported == (flag = "close" /\ epoll) ~> (\E i \in 1..Len(log) : log[i] = "disconnected")

\* Close() on a socket with bytes to send ends: they go out or a write
\* fails, and then the socket is closed (see WritePending for ~early).
DrainEnds == (flag = "stop" /\ writing /\ ~early) ~> (flag = "close")
============================================================================
