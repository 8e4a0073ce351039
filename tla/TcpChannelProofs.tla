-------------------------- MODULE TcpChannelProofs --------------------------
(***************************************************************************)
(* TLAPS proof that TcpSocket implements ByteChannel: under the mapping of *)
(* Status every step of the socket is a step of the channel or none.  The  *)
(* same for CoSocket, the socket in coroutine mode.                        *)
(***************************************************************************)
EXTENDS CoSocket, TcpSocketProofs

-----------------------------------------------------------------------------
(* Bytes                                                                   *)

\* The bytes sent and the first d of those that follow are a longer beginning
\* of the whole.
LEMMA NextBytes ==
  ASSUME NEW s \in Seq(Byte), NEW b \in Seq(Byte), NEW c \in Seq(Byte), NEW d \in 1..Len(b)
  PROVE  /\ Len(s) + d \in (Len(s) + 1)..Len((s \o b) \o c)
         /\ s \o SubSeq(b, 1, d) = SubSeq((s \o b) \o c, 1, Len(s) + d)
<1>1. /\ s \o b \in Seq(Byte) /\ Len(s \o b) = Len(s) + Len(b)
      /\ (s \o b) \o c \in Seq(Byte) /\ Len((s \o b) \o c) = (Len(s) + Len(b)) + Len(c)
      /\ Len(s) \in Nat /\ Len(b) \in Nat /\ Len(c) \in Nat
  OBVIOUS
<1>2. Len(s) + d \in (Len(s) + 1)..Len((s \o b) \o c)
  BY <1>1
<1>. DEFINE l == s \o SubSeq(b, 1, d)
            r == SubSeq((s \o b) \o c, 1, Len(s) + d)
<1>3. SubSeq(b, 1, d) \in Seq(Byte) /\ Len(SubSeq(b, 1, d)) = d
  BY SubSeqProperties
<1>4. l \in Seq(Byte) /\ Len(l) = Len(s) + d
  BY <1>3
<1>5. r \in Seq(Byte) /\ Len(r) = Len(s) + d
  BY <1>1, SubSeqProperties
<1>6. ASSUME NEW i \in 1..(Len(s) + d) PROVE l[i] = r[i]
  <2>1. r[i] = (s \o b)[i]
    BY <1>1
  <2>. QED
    BY <1>3, <2>1
<1>7. l = r
  BY <1>4, <1>5, <1>6, SeqEqual
<1>. QED
  BY <1>2, <1>7

-----------------------------------------------------------------------------
(* The steps of the channel                                                *)

\* The flag means what it says: only a connector closed before OnConnected, and
\* not reported yet, may be opened again.
Settled == ~(early /\ log = <<>>)

\* A step that keeps the flag, and does not touch the bytes or whether a write
\* is on its way, is not seen.
LEMMA Unseen ==
  ASSUME UNCHANGED <<accepted, sent, ioerr, flag>>,
         flag = "close" => (Settled' <=> Settled),
         (writing \/ post = "send")' <=> (writing \/ post = "send")
  PROVE  UNCHANGED Channel!chan
<1>1. Status' = Status
  BY DEF Status, Settled
<1>. QED
  BY <1>1 DEF Channel!chan

\* _Close() is Drain while a write is on its way, and Close otherwise: then
\* nothing is left in the buffers.
LEMMA CloseSeen ==
  ASSUME TypeOK, NothingLost, NoIdleBacklog, ~writing => done = 0, Settled, Settled',
         ioerr => flag = "close", CanClose, CloseLocked(writing, state, epoll),
         UNCHANGED <<accepted, sent, ioerr, writing, post>>
  PROVE  [Channel!Next]_(Channel!chan)
<1>1. post # "send" /\ post' # "send"
  BY DEF CanClose
<1>2. CASE flag = "close"
  <2>1. UNCHANGED flag
    BY <1>2 DEF CloseLocked
  <2>. QED
    BY <2>1, Unseen
<1>3. CASE flag # "close" /\ writing
  <2>1. flag' = "stop" /\ flag \in {"start", "stop"}
    BY <1>3 DEF CloseLocked, TypeOK
  <2>2. CASE flag = "stop"
    BY <2>1, <2>2, Unseen
  <2>3. CASE flag = "start"
    <3>1. Status = "open" /\ Status' = "draining"
      BY <1>3, <2>1, <2>3 DEF Status
    <3>. QED
      BY <3>1 DEF Channel!Next, Channel!Drain
  <2>. QED
    BY <2>1, <2>2, <2>3
<1>4. CASE flag # "close" /\ ~writing
  <2>1. flag' = "close"
    BY <1>4 DEF CloseLocked
  <2>2. sent = accepted
    BY <1>1, <1>4, AllSent DEF NoIdleBacklog
  <2>3. Status # "closed" /\ Status' = "closed"
    BY <1>4, <2>1 DEF Status, Settled
  <2>. QED
    BY <2>2, <2>3 DEF Channel!Next, Channel!Close
<1>. QED
  BY <1>2, <1>3, <1>4

\* A write that failed is Abort.
LEMMA AbortSeen ==
  ASSUME flag # "close", flag' = "close", ioerr' = TRUE, Settled', UNCHANGED <<accepted, sent>>
  PROVE  [Channel!Next]_(Channel!chan)
<1>1. Status # "closed" /\ Status' = "closed"
  BY DEF Status, Settled
<1>. QED
  BY <1>1 DEF Channel!Next, Channel!Abort

\* Send is Accept.
LEMMA SendSeen == ASSUME Shared, Send PROVE [Channel!Next]_(Channel!chan)
<1>1. PICK f \in Frames :
        /\ accepted' = accepted \o f
        /\ \/ writing /\ UNCHANGED <<flag, ioerr>>
           \/ ~writing /\ post = "none" /\ TrySendData(buf1, buf2 \o f)
  BY DEF Send
<1>2. flag = "start" /\ ~ioerr /\ fd /\ UNCHANGED sent
  BY DEF Send, IsConnected, hist, Shared, WriterInv, ImplInv
<1>3. CASE writing /\ UNCHANGED <<flag, ioerr>>
  BY <1>1, <1>2, <1>3 DEF Status, Channel!Next, Channel!Accept
<1>4. CASE ~writing /\ post = "none" /\ TrySendData(buf1, buf2 \o f)
  <2>1. "write" \notin state
    BY <1>4 DEF Shared, WriterInv
  <2>2. UNCHANGED <<flag, ioerr>>
    BY <1>2, <1>4, <2>1 DEF TrySendData, SendRefused
  <2>. QED
    BY <1>1, <1>2, <2>2 DEF Status, Channel!Next, Channel!Accept
<1>. QED
  BY <1>1, <1>3, <1>4

\* g_send is Transmit: what it takes are the accepted bytes that come next.
LEMMA KernelSendSeen == ASSUME Shared, KernelSend PROVE [Channel!Next]_(Channel!chan)
<1>1. /\ pc = "send" /\ UNCHANGED <<flag, writing, post, accepted, ioerr>> /\ writing
      /\ flag # "close" /\ wop = buf1 /\ done = 0
  BY DEF KernelSend, sock, hist, Shared, WriterInv
<1>2. Status' = Status /\ Status # "closed"
  BY <1>1 DEF Status
<1>3. CASE UNCHANGED sent
  BY <1>1, <1>3, Unseen
<1>4. CASE done' \in 1..Len(buf1) /\ sent' = sent \o SubSeq(buf1, 1, done')
  <2>. DEFINE k == Len(sent) + done'
  <2>1. sent \in Seq(Byte) /\ buf1 \in Seq(Byte) /\ buf2 \in Seq(Byte)
    BY DEF Shared, TypeOK
  <2>2. accepted = (sent \o buf1) \o buf2
    <3>1. Cut(buf1, 0) = buf1
      BY <2>1, CutZero
    <3>. QED
      BY <1>1, <3>1 DEF Shared, NothingLost
  <2>3. k \in (Len(sent) + 1)..Len(accepted) /\ sent' = SubSeq(accepted, 1, k)
    <3>1. /\ k \in (Len(sent) + 1)..Len((sent \o buf1) \o buf2)
          /\ sent \o SubSeq(buf1, 1, done') = SubSeq((sent \o buf1) \o buf2, 1, k)
      BY <1>4, <2>1, NextBytes
    <3>. QED
      BY <1>4, <2>2, <3>1
  <2>4. Channel!Transmit
    BY <1>1, <1>2, <2>3 DEF Channel!Transmit
  <2>. QED
    BY <2>4 DEF Channel!Next
<1>. QED
  BY <1>1, <1>3, <1>4 DEF KernelSend

\* _WriteHandler posts the next write unseen; the last write of a socket that
\* was told to close is Close, one that failed Abort.
LEMMA WriteHandlerSeen ==
  ASSUME Shared, WriteHandler, Settled' PROVE [Channel!Next]_(Channel!chan)
<1>1. /\ pc = "whandle" /\ post = "none" /\ writing /\ flag # "close" /\ "write" \notin state /\ fd
      /\ UNCHANGED <<accepted, sent>>
  BY DEF WriteHandler, hist, Shared, WriterInv, ImplInv
<1>. DEFINE b1 == Cut(buf1, done)
<1>2. CASE done = 0
  <2>1. ~(done > 0)
    BY <1>2
  <2>2. ioerr' = TRUE /\ flag' = "close"
    BY <1>1, <2>1 DEF WriteHandler, CloseLocked
  <2>. QED
    BY <1>1, <2>2, AbortSeen
<1>3. CASE done # 0 /\ MoreToSend(b1, buf2)
  <2>1. TrySendData(b1, buf2)
    BY <1>3 DEF WriteHandler
  <2>2. post' = "send" /\ UNCHANGED <<flag, ioerr>>
    BY <1>1, <2>1 DEF TrySendData, SendRefused, PostSend
  <2>. QED
    BY <1>1, <2>2, Unseen
<1>4. CASE done # 0 /\ ~MoreToSend(b1, buf2)
  <2>1. /\ writing' = FALSE /\ UNCHANGED <<post, ioerr>>
        /\ IF flag = "start" THEN UNCHANGED flag ELSE CloseLocked(FALSE, state, epoll)
    BY <1>4 DEF WriteHandler
  <2>2. CASE flag = "start"
    <3>1. Status = "open" /\ Status' = "open"
      BY <2>1, <2>2 DEF Status
    <3>. QED
      BY <1>1, <2>1, <3>1 DEF Channel!chan
  <2>3. CASE flag # "start"
    <3>1. flag' = "close"
      BY <1>1, <2>1, <2>3 DEF CloseLocked
    <3>2. b1 = <<>> /\ buf2 = <<>>
      BY <1>4 DEF MoreToSend, Front
    <3>3. accepted = (sent \o <<>>) \o <<>> /\ sent \in Seq(Byte)
      BY <3>2 DEF Shared, NothingLost, TypeOK
    <3>4. sent = accepted
      BY <3>3
    <3>5. Status # "closed" /\ Status' = "closed"
      BY <1>1, <3>1 DEF Status, Settled
    <3>. QED
      BY <1>1, <2>1, <3>4, <3>5 DEF Channel!Next, Channel!Close
  <2>. QED
    BY <2>2, <2>3
<1>. QED
  BY <1>2, <1>3, <1>4

\* The second store of AsyncSendSome is unseen, or Abort.
LEMMA SendPostedSeen ==
  ASSUME Shared, SendPosted, Settled' PROVE [Channel!Next]_(Channel!chan)
<1>1. /\ post = "send" /\ flag # "close" /\ UNCHANGED <<accepted, sent>>
  BY DEF SendPosted, hist, Shared, WriterInv
<1>2. CASE writing' = TRUE /\ UNCHANGED <<flag, ioerr>>
  BY <1>1, <1>2, Unseen
<1>3. CASE ioerr' = TRUE /\ CloseLocked(FALSE, state \ {"write"}, epoll')
  <2>1. flag' = "close"
    BY <1>1, <1>3 DEF CloseLocked
  <2>. QED
    BY <1>1, <1>3, <2>1, AbortSeen
<1>. QED
  BY <1>2, <1>3 DEF SendPosted

\* Starting the connection is unseen: the channel is open from the beginning.
LEMMA StartSeen ==
  ASSUME Shared, st = "begin", flag' \in {"start", flag},
         UNCHANGED <<accepted, sent, ioerr, writing, post>>
  PROVE  UNCHANGED Channel!chan
<1>1. flag = "stop" /\ ~writing /\ post = "none"
  BY DEF Shared, StartInv
<1>2. Status = "open" /\ Status' = "open"
  BY <1>1 DEF Status
<1>. QED
  BY <1>2 DEF Channel!chan

-----------------------------------------------------------------------------
(* The refinement                                                          *)

\* A connection that has just come up is an open channel.
LEMMA InitSeen == Init => Channel!Init
BY DEF Init, Channel!Init, Status

\* Every step of the socket is a step of the channel or leaves it unchanged ...
LEMMA PlainSeen ==
  ASSUME Shared, ~early, UNCHANGED early, [Step]_vars
  PROVE  [Channel!Next]_(Channel!chan)
<1>0. Settled /\ Settled'
  BY DEF Settled
<1>. USE DEF sock, impl, start, loop, hist
<1>1. CASE InitAccepted \/ ConnectSync \/ ConnectComplete
  <2>1. pc = "connect" => st = "begin"
    BY DEF Shared, StartInv
  <2>2. /\ st = "begin" /\ flag' \in {"start", flag}
        /\ UNCHANGED <<accepted, sent, ioerr, writing, post>>
    BY <1>1, <2>1 DEF InitAccepted, ConnectSync, ConnectComplete
  <2>. QED
    BY <2>2, StartSeen
<1>2. CASE FirstRecv \/ RecvPosted \/ TryRecvData
  <2>1. /\ UNCHANGED <<accepted, sent, ioerr, flag, writing>>
        /\ post # "send" /\ post' # "send"
    BY <1>2 DEF FirstRecv, RecvPosted, TryRecvData, PostRecv
  <2>. QED
    BY <1>0, <2>1, Unseen
<1>3. CASE InitClose \/ Close \/ ReadClose
  <2>1. /\ CanClose /\ CloseLocked(writing, state, epoll)
        /\ UNCHANGED <<accepted, sent, ioerr, writing, post>>
    BY <1>3 DEF InitClose, Close, ReadClose
  <2>2. /\ TypeOK /\ NothingLost /\ NoIdleBacklog /\ (~writing => done = 0)
        /\ ioerr => flag = "close"
    BY DEF Shared, WriterInv
  <2>. QED
    BY <1>0, <2>1, <2>2, CloseSeen
<1>4. CASE SendPosted
  BY <1>0, <1>4, SendPostedSeen
<1>5. CASE Send
  BY <1>5, SendSeen
<1>6. CASE KernelSend
  BY <1>6, KernelSendSeen
<1>7. CASE WriteHandler
  BY <1>0, <1>7, WriteHandlerSeen
<1>8. CASE \/ CloseFd \/ CloseHandler \/ Wait \/ Timeout \/ Event \/ Dispatch
           \/ ReadComplete \/ Recv \/ CutMsgPack \/ DispatchW \/ WriteComplete \/ Peer
           \/ UNCHANGED vars
  <2>1. UNCHANGED <<accepted, sent, ioerr, flag, writing, post>>
    BY <1>8 DEF CloseFd, CloseHandler, Wait, Timeout, Event, Dispatch, ReadComplete, Recv,
       CutMsgPack, DispatchW, WriteComplete, Peer, PeerShutdown, PeerReset, vars
  <2>. QED
    BY <1>0, <2>1, Unseen
<1>. QED
  BY <1>1, <1>2, <1>3, <1>4, <1>5, <1>6, <1>7, <1>8
  DEF Step, Starter, Posted, Application, Completion, IoThread

\* ... also after CloseEarly: the connector stays open until _ConnectHandler or
\* _CloseHandler has run, and a Send that finds no descriptor is Abort.
LEMMA EarlySeen ==
  ASSUME EarlyInv, early, UNCHANGED early, [Step]_vars
  PROVE  [Channel!Next]_(Channel!chan)
<1>. USE DEF sock, impl, start, loop, hist
<1>0. TypeOK /\ NothingLost /\ EarlyState
  BY DEF EarlyInv
<1>1. ~(\/ Starter \/ ReadComplete \/ Recv \/ CutMsgPack \/ ReadClose
        \/ WriteComplete \/ KernelSend \/ WriteHandler)
  BY <1>0 DEF EarlyState, Starter, InitAccepted, ConnectSync, FirstRecv, InitClose,
     ReadComplete, Recv, CutMsgPack, ReadClose, WriteComplete, KernelSend, WriteHandler
<1>2. CASE SendPosted
  <2>1. post = "send" /\ fd /\ "bind" \in state
    BY <1>0, <1>2 DEF SendPosted, EarlyState
  <2>2. post' = "none" /\ writing' = TRUE /\ UNCHANGED <<flag, ioerr, accepted, sent, log>>
    BY <1>2, <2>1 DEF SendPosted
  <2>. QED
    BY <2>1, <2>2, Unseen DEF Settled
<1>3. CASE \/ RecvPosted \/ TryRecvData \/ CloseFd \/ Wait \/ Timeout \/ Event \/ Dispatch
           \/ DispatchW \/ Peer \/ UNCHANGED vars
  <2>1. /\ UNCHANGED <<flag, writing, ioerr, accepted, sent, log>>
        /\ post' = "send" <=> post = "send"
    BY <1>3 DEF RecvPosted, TryRecvData, PostRecv, CloseFd, Wait, Timeout, Event, Dispatch,
       DispatchW, Peer, PeerShutdown, PeerReset, vars
  <2>. QED
    BY <2>1, Unseen DEF Settled
<1>4. CASE Send
  <2>1. /\ flag = "start" /\ log # <<>> /\ ~ioerr /\ UNCHANGED <<sent, log>>
    BY <1>0, <1>4 DEF Send, IsConnected, EarlyState
  <2>2. PICK f \in Frames :
          /\ accepted' = accepted \o f
          /\ \/ UNCHANGED <<flag, ioerr>>
             \/ ioerr' = TRUE /\ CloseLocked(FALSE, state, epoll)
    BY <1>4 DEF Send, TrySendData
  <2>3. Status = "open"
    BY <2>1 DEF Status
  <2>4. CASE UNCHANGED <<flag, ioerr>>
    <3>1. Status' = "open"
      BY <2>1, <2>4 DEF Status
    <3>. QED
      BY <2>1, <2>2, <2>3, <2>4, <3>1 DEF Channel!Next, Channel!Accept
  <2>5. CASE ioerr' = TRUE /\ CloseLocked(FALSE, state, epoll)
    <3>1. flag' = "close"
      BY <2>1, <2>5 DEF CloseLocked
    <3>2. Status' = "closed"
      BY <2>1, <3>1 DEF Status
    <3>. QED
      BY <2>1, <2>2, <2>3, <2>5, <3>2 DEF Channel!Next, Channel!Abort
  <2>. QED
    BY <2>2, <2>4, <2>5
<1>5. CASE Close
  <2>1. /\ log # <<>> /\ CanClose /\ CloseLocked(writing, state, epoll)
        /\ UNCHANGED <<accepted, sent, ioerr, writing, post, log>>
    BY <1>0, <1>5 DEF Close, Usable, EarlyState
  <2>2. NoIdleBacklog /\ done = 0 /\ (ioerr => flag = "close") /\ Settled /\ Settled'
    BY <1>0, <2>1 DEF EarlyState, Settled
  <2>. QED
    BY <1>0, <2>1, <2>2, CloseSeen
<1>6. CASE CloseHandler \/ ConnectComplete
  <2>1. /\ UNCHANGED <<accepted, sent, ioerr, writing, post>>
        /\ CloseHandler => UNCHANGED flag
    BY <1>6 DEF CloseHandler, ConnectComplete
  <2>2. CASE log # <<>>
    <3>1. CloseHandler /\ log' = Append(log, "disconnected")
      BY <1>0, <1>6, <2>2 DEF CloseHandler, ConnectComplete, EarlyState
    <3>2. log' # <<>>
      BY <1>0, <3>1 DEF TypeOK, Callbacks
    <3>. QED
      BY <2>1, <2>2, <3>1, <3>2, Unseen DEF Settled
  <2>3. CASE log = <<>>
    <3>1. flag = "close" /\ ~writing /\ ~ioerr /\ post = "none" /\ done = 0
      BY <1>0, <2>3 DEF EarlyState
    <3>2. sent = accepted
      BY <1>0, <3>1, AllSent DEF EarlyState, NoIdleBacklog
    <3>3. Status = "open"
      BY <2>3, <3>1 DEF Status
    <3>4. \/ log' = <<>> /\ flag' = "close"
          \/ flag' = "start"
          \/ log' # <<>> /\ flag' = "close"
      BY <1>6, <3>1 DEF CloseHandler, ConnectComplete
    <3>5. Status' = "open" \/ Status' = "closed"
      BY <2>1, <3>1, <3>4 DEF Status
    <3>6. CASE Status' = "open"
      BY <2>1, <3>3, <3>6 DEF Channel!chan
    <3>7. CASE Status' = "closed"
      BY <2>1, <3>2, <3>3, <3>7 DEF Channel!Next, Channel!Close
    <3>. QED
      BY <3>5, <3>6, <3>7
  <2>. QED
    BY <2>2, <2>3
<1>. QED
  BY <1>1, <1>2, <1>3, <1>4, <1>5, <1>6
  DEF Step, Posted, Application, Completion, IoThread

\* CloseEarly itself is not seen.
LEMMA CloseEarlySeen ==
  ASSUME TypeOK, CloseEarly,
         IF early THEN EarlyState
                  ELSE ImplInv /\ StartInv /\ WriterInv /\ ReportInv
  PROVE  UNCHANGED Channel!chan
<1>1. /\ flag' = "close" /\ ~writing /\ log = <<>> /\ post = "none"
      /\ flag = IF early THEN "close" ELSE "stop"
  BY FirstClose
<1>2. early' = TRUE /\ UNCHANGED <<accepted, sent, ioerr, log, writing, post>>
  BY DEF CloseEarly, hist
<1>3. Status = "open" /\ Status' = "open"
  BY <1>1, <1>2 DEF Status
<1>. QED
  BY <1>2, <1>3 DEF Channel!chan

\* To the code that writes to it a TcpBaseSocket is a byte channel, for every
\* set of frames: it transmits what Send accepted, in order and once, and
\* closes only when all of it is out or a write failed; also when it is a
\* connector that was closed before OnConnected.
THEOREM Implementation == Spec => ImplementsChannel
<1>1. SocketInv /\ [Next]_vars => [Channel!Next]_(Channel!chan)
  <2>. SUFFICES ASSUME SocketInv, [Next]_vars PROVE [Channel!Next]_(Channel!chan)
    OBVIOUS
  <2>1. CASE [Step]_vars /\ UNCHANGED early
    BY <2>1, PlainSeen, EarlySeen DEF SocketInv, IInv
  <2>2. CASE CloseEarly
    BY <2>2, CloseEarlySeen DEF SocketInv, EarlyInv, IInv, Shared
  <2>. QED
    BY <2>1, <2>2 DEF Next, vars
<1>. QED
  BY <1>1, Invariance, InitSeen, PTL DEF Spec, ImplementsChannel, Channel!Spec

-----------------------------------------------------------------------------
(* Coroutine mode                                                          *)

\* A suspended OnReceiveData belongs to a connection that was started, and that
\* stays registered until its descriptor is closed.
SuspInv ==
  /\ susp \in [on : BOOLEAN, batch : Nat, bad : BOOLEAN]
  /\ susp.on => st \notin {"begin", "dropped"} /\ (fd => "bind" \in state)

\* A started connection keeps its read, unless the handler that has it is
\* suspended.
CoReaderInv == ReadBits /\ (susp.on \/ Reading)

\* What is left of the order of the callbacks when OnReceiveData may yield:
\* OnConnected comes first, OnDisconnected comes once, and the messages of a
\* read that is resumed are all that can follow it.
LateOrder ==
  /\ \A i, j \in 1..Len(log) :
       i < j => (log[i] = "disconnected" => log[j] = "data") /\ log[j] # "connected"
  /\ kind # "sync" /\ log # <<>> => log[1] = "connected"

\* The same with the exception that CallbackOrder has.
LateDataOnly == LateOrder \/ (early /\ log = <<"disconnected">>)

\* OnDisconnected is reported for a descriptor that is closed, and was not
\* reported before.
CoLogInv ==
  /\ pc = "closed" => ~fd
  /\ pc = "closed" \/ fd => \A i \in 1..Len(log) : log[i] # "disconnected"
  /\ LateOrder

YieldInv == Shared /\ SuspInv /\ CoReaderInv /\ CoLogInv

\* A connector closed before OnConnected never gets to OnReceiveData.
CoInv == IF early THEN EarlyInv /\ ~susp.on ELSE YieldInv

\* Nothing is suspended when the connection comes up.
LEMMA CoInitInv == CoInit => CoInv
<1>. SUFFICES ASSUME CoInit PROVE CoInv
  OBVIOUS
<1>1. Init /\ IInv /\ susp = NotSuspended /\ ~early
  BY InitInv DEF CoInit, Init
<1>2. SuspInv /\ CoReaderInv
  BY <1>1 DEF SuspInv, NotSuspended, CoReaderInv, IInv, ReaderInv
<1>3. CoLogInv
  <2>1. log = <<>> /\ Len(log) = 0 /\ pc # "closed"
    BY <1>1 DEF Init
  <2>. QED
    BY <2>1 DEF CoLogInv, LateOrder
<1>. QED
  BY <1>1, <1>2, <1>3 DEF CoInv, YieldInv, IInv

\* A step of plain mode leaves what is suspended alone: the start is over, and
\* only closing the descriptor takes it out of the epoll set.
LEMMA PlainSusp ==
  ASSUME Shared, SuspInv, [Step]_vars, UNCHANGED susp
  PROVE  SuspInv'
<1>. SUFFICES ASSUME susp.on
              PROVE  st' \notin {"begin", "dropped"} /\ (fd' => "bind" \in state')
  BY DEF SuspInv
<1>. USE DEF sock, impl, start, loop, hist
<1>0. st \notin {"begin", "dropped"} /\ (fd => "bind" \in state) /\ pc # "connect"
  BY DEF SuspInv, Shared, StartInv
<1>1. ASSUME NEW w, NEW s, NEW e, CloseLocked(w, s, e), fd /\ "bind" \in state => "bind" \in s,
             "block" \in s => "block" \in state
      PROVE  fd' => "bind" \in state'
  BY <1>0, <1>1 DEF CloseLocked, ImplClose
<1>2. CASE InitAccepted \/ ConnectSync \/ ConnectComplete
  BY <1>0, <1>2 DEF InitAccepted, ConnectSync, ConnectComplete
<1>3. CASE FirstRecv \/ RecvPosted \/ TryRecvData
  <2>1. UNCHANGED fd /\ ("bind" \in state => "bind" \in state')
    BY <1>3 DEF FirstRecv, RecvPosted, TryRecvData, PostRecv
  <2>2. st' \notin {"begin", "dropped"}
    BY <1>0, <1>3 DEF FirstRecv, RecvPosted, TryRecvData
  <2>. QED
    BY <1>0, <2>1, <2>2
<1>4. CASE InitClose \/ Close \/ ReadClose
  BY <1>0, <1>1, <1>4 DEF InitClose, Close, ReadClose
<1>5. CASE SendPosted
  <2>1. UNCHANGED st
    BY <1>5 DEF SendPosted
  <2>2. CASE state' = state \cup {"bind"}
    BY <1>0, <2>1, <2>2
  <2>3. CASE CloseLocked(FALSE, state \ {"write"}, epoll')
    BY <1>0, <1>1, <2>1, <2>3
  <2>. QED
    BY <1>5, <2>2, <2>3 DEF SendPosted
<1>6. CASE Send \/ WriteHandler
  <2>1. UNCHANGED st
    BY <1>6 DEF Send, WriteHandler
  <2>2. \/ UNCHANGED <<fd, state>>
        \/ UNCHANGED fd /\ state' = (state \ {"block"}) \cup {"write"}
        \/ CloseLocked(FALSE, state, epoll)
    BY <1>6 DEF Send, WriteHandler, TrySendData, PostSend
  <2>3. CASE CloseLocked(FALSE, state, epoll)
    BY <1>0, <1>1, <2>1, <2>3
  <2>4. CASE \/ UNCHANGED <<fd, state>>
             \/ UNCHANGED fd /\ state' = (state \ {"block"}) \cup {"write"}
    <3>1. UNCHANGED fd /\ ("bind" \in state => "bind" \in state')
      BY <2>4
    <3>. QED
      BY <1>0, <2>1, <3>1
  <2>. QED
    BY <2>2, <2>3, <2>4
<1>7. CASE \/ CloseFd \/ CloseHandler \/ Wait \/ Timeout \/ Event \/ Dispatch
           \/ ReadComplete \/ Recv \/ CutMsgPack \/ DispatchW \/ WriteComplete \/ KernelSend
           \/ Peer \/ UNCHANGED vars
  <2>1. UNCHANGED st /\ (fd' => fd)
    BY <1>7 DEF CloseFd, CloseHandler, Wait, Timeout, Event, Dispatch, ReadComplete, Recv,
       CutMsgPack, DispatchW, WriteComplete, KernelSend, Peer, PeerShutdown, PeerReset, vars
  <2>2. fd' => ("bind" \in state => "bind" \in state')
    BY <1>7 DEF CloseFd, CloseHandler, Wait, Timeout, Event, Dispatch, ReadComplete, Recv,
       CutMsgPack, DispatchW, WriteComplete, KernelSend, Peer, PeerShutdown, PeerReset, vars
  <2>. QED
    BY <1>0, <2>1, <2>2
<1>. QED
  BY <1>2, <1>3, <1>4, <1>5, <1>6, <1>7
  DEF Step, Starter, Posted, Application, Completion, IoThread

\* A step that calls no callback, opens no descriptor and closes none.
LEMMA NoCallback ==
  ASSUME CoLogInv, UNCHANGED <<log, kind>>, fd' => fd, pc' = "closed" => pc = "closed" /\ ~fd'
  PROVE  CoLogInv'
BY DEF CoLogInv, LateOrder

\* OnReceiveData may be called at any time after OnConnected.
LEMMA DataCallback ==
  ASSUME CoLogInv, log \in Seq(Callbacks), kind # "sync" => log # <<>>,
         log' = Append(log, "data"), UNCHANGED <<kind, fd>>, pc # "closed", pc' # "closed"
  PROVE  CoLogInv'
<1>1. /\ Len(log') = Len(log) + 1 /\ log'[Len(log) + 1] = "data"
      /\ \A i \in 1..Len(log) : log'[i] = log[i]
  BY LogAppend DEF Callbacks
<1>2. Len(log) \in Nat /\ (log # <<>> => 1 \in 1..Len(log))
  OBVIOUS
<1>3. fd' => \A i \in 1..Len(log') : log'[i] # "disconnected"
  BY <1>1, <1>2 DEF CoLogInv
<1>4. ASSUME NEW i \in 1..Len(log'), NEW j \in 1..Len(log'), i < j
      PROVE  (log'[i] = "disconnected" => log'[j] = "data") /\ log'[j] # "connected"
  <2>1. CASE j = Len(log) + 1
    BY <1>1, <2>1
  <2>2. CASE j # Len(log) + 1
    <3>1. i \in 1..Len(log) /\ j \in 1..Len(log)
      BY <1>1, <1>2, <1>4, <2>2
    <3>. QED
      BY <1>1, <1>4, <3>1 DEF CoLogInv, LateOrder
  <2>. QED
    BY <2>1, <2>2
<1>5. kind' # "sync" => log'[1] = "connected"
  BY <1>1, <1>2 DEF CoLogInv, LateOrder
<1>. QED
  BY <1>3, <1>4, <1>5 DEF CoLogInv, LateOrder

\* The steps of plain mode keep what coroutine mode keeps of the order, also
\* when the descriptor was closed under a completion.
LEMMA PlainLog == ASSUME Shared, CoLogInv, [Step]_vars PROVE CoLogInv'
<1>. USE DEF sock, impl, start, loop, hist
<1>0. TypeOK /\ ImplInv /\ StartInv
  BY DEF Shared
<1>1. ASSUME NEW w, NEW s, NEW e, CloseLocked(w, s, e) PROVE fd' => fd
  BY <1>0, <1>1 DEF CloseLocked, ImplClose, TypeOK
<1>2. CASE InitAccepted \/ ConnectComplete
  <2>1. log = <<>> /\ UNCHANGED <<kind, fd>> /\ pc' # "closed"
    BY <1>0, <1>2 DEF InitAccepted, ConnectComplete, StartInv
  <2>2. log' = <<>> \/ log' = <<"connected">>
    BY <1>2, <2>1 DEF InitAccepted, ConnectComplete
  <2>3. CASE log' = <<>>
    BY <2>1, <2>3 DEF CoLogInv, LateOrder
  <2>4. CASE log' = <<"connected">>
    <3>1. Len(log') = 1 /\ log'[1] = "connected"
      BY <2>4
    <3>. QED
      BY <2>1, <3>1 DEF CoLogInv, LateOrder
  <2>. QED
    BY <2>2, <2>3, <2>4
<1>3. CASE CloseFd
  <2>1. fd /\ ~fd' /\ UNCHANGED <<log, kind>>
    BY <1>0, <1>3 DEF CloseFd, ImplInv
  <2>. QED
    BY <2>1 DEF CoLogInv, LateOrder
<1>4. CASE CloseHandler
  <2>1. pc = "closed" /\ ~fd /\ UNCHANGED <<fd, kind>> /\ pc' # "closed"
    BY <1>4 DEF CloseHandler, CoLogInv
  <2>2. kind # "sync" => log # <<>>
    BY <1>0, <2>1 DEF ImplInv, StartInv
  <2>3. log \in Seq(Callbacks) /\ "disconnected" \in Callbacks
    BY <1>0 DEF TypeOK, Callbacks
  <2>4. /\ Len(log') = Len(log) + 1 /\ log'[Len(log) + 1] = "disconnected"
        /\ \A i \in 1..Len(log) : log'[i] = log[i]
    BY <1>4, <2>3, LogAppend DEF CloseHandler
  <2>5. \A i \in 1..Len(log) : log[i] # "disconnected"
    BY <2>1 DEF CoLogInv
  <2>. QED
    BY <2>1, <2>2, <2>3, <2>4, <2>5 DEF CoLogInv, LateOrder
<1>5. CASE CutMsgPack
  <2>1. pc = "deliver" /\ UNCHANGED <<fd, kind>> /\ pc' # "closed" /\ log \in Seq(Callbacks)
    BY <1>0, <1>5 DEF CutMsgPack, TypeOK
  <2>2. kind # "sync" => log # <<>>
    BY <1>0, <2>1 DEF StartInv
  <2>. QED
    BY <1>5, <2>1, <2>2, NoCallback, DataCallback DEF CutMsgPack
<1>6. CASE InitClose \/ Close \/ ReadClose
  <2>1. /\ UNCHANGED <<log, kind>> /\ CloseLocked(writing, state, epoll)
        /\ (pc' = "closed" => pc = "closed")
    BY <1>6 DEF InitClose, Close, ReadClose
  <2>. QED
    BY <1>1, <2>1, NoCallback DEF CoLogInv
<1>7. CASE SendPosted \/ Send \/ WriteHandler
  <2>1. UNCHANGED <<log, kind>> /\ (pc' = "closed" => pc = "closed")
    BY <1>7 DEF SendPosted, Send, WriteHandler
  <2>2. UNCHANGED fd \/ \E w, s, e : CloseLocked(w, s, e)
    <3>1. CASE SendPosted
      BY <3>1 DEF SendPosted
    <3>2. CASE Send
      BY <3>2 DEF Send, TrySendData
    <3>3. CASE WriteHandler
      BY <3>3 DEF WriteHandler, TrySendData
    <3>. QED
      BY <1>7, <3>1, <3>2, <3>3
  <2>. QED
    BY <1>1, <2>1, <2>2, NoCallback DEF CoLogInv
<1>8. CASE \/ ConnectSync \/ FirstRecv \/ RecvPosted \/ Wait \/ Timeout \/ Event \/ Dispatch
           \/ ReadComplete \/ Recv \/ TryRecvData \/ DispatchW \/ WriteComplete \/ KernelSend
           \/ Peer \/ UNCHANGED vars
  <2>1. UNCHANGED <<log, kind, fd>> /\ (pc' = "closed" => pc = "closed")
    BY <1>8 DEF ConnectSync, FirstRecv, RecvPosted, Wait, Timeout, Event, Dispatch,
       ReadComplete, Recv, TryRecvData, DispatchW, WriteComplete, KernelSend, Peer,
       PeerShutdown, PeerReset, vars
  <2>. QED
    BY <2>1, NoCallback DEF CoLogInv
<1>. QED
  BY <1>2, <1>3, <1>4, <1>5, <1>6, <1>7, <1>8
  DEF Step, Starter, Posted, Application, Completion, IoThread

\* The steps that coroutine mode adds touch neither the buffers nor the flag;
\* the io thread is where a completion may be.
LEMMA CoSteps ==
  ASSUME YieldInv, ~early, YieldInHandler \/ ResumeHandler \/ KernelFull
  PROVE  YieldInv' /\ UNCHANGED early /\ UNCHANGED Channel!chan
<1>. USE DEF sock, impl, start, loop, hist, covars
<1>1. /\ TypeOK /\ ImplInv /\ StartInv /\ WriterInv /\ ReportInv /\ NothingLost /\ SuspInv
      /\ ReadBits /\ CoLogInv
  BY DEF YieldInv, Shared, CoReaderInv
<1>2. /\ UNCHANGED <<flag, writing, buf1, buf2, fd, epoll, state, optype, post, kind, st, ev,
                     closereqs, reg, peer, accepted, sent, ioerr, early>>
      /\ UNCHANGED done /\ done = 0
  BY <1>1 DEF YieldInHandler, ResumeHandler, KernelFull, WriterInv
<1>3. UNCHANGED Channel!chan
  BY <1>2, Unseen DEF Settled
<1>4. NothingLost'
  BY <1>1, <1>2 DEF NothingLost
<1>0. ReadBits'
  BY <1>1, <1>2 DEF ReadBits
<1>5. CASE YieldInHandler
  <2>1. /\ pc = "deliver" /\ pc' = "top" /\ UNCHANGED wop /\ log' = Append(log, "data")
        /\ batch' = 0 /\ bad' = FALSE /\ batch > 0
        /\ susp' = [on |-> TRUE, batch |-> batch - 1, bad |-> bad]
    BY <1>5 DEF YieldInHandler, WholeMessage
  <2>2. log' \in Seq(Callbacks) /\ log' # <<>>
    <3>1. log \in Seq(Callbacks) /\ "data" \in Callbacks
      BY <1>1 DEF TypeOK, Callbacks
    <3>. QED
      BY <2>1, <3>1
  <2>0. batch' \in Nat /\ bad' \in BOOLEAN
    BY <2>1
  <2>3. TypeOK'
    BY <1>1, <1>2, <2>0, <2>1, <2>2 DEF TypeOK
  <2>4. ImplInv' /\ WriterInv'
    BY <1>1, <1>2, <2>1 DEF ImplInv, WriterInv, NoIdleBacklog
  <2>5. StartInv'
    BY <1>1, <1>2, <2>1, <2>2 DEF StartInv
  <2>6. SuspInv'
    <3>1. batch - 1 \in Nat /\ bad \in BOOLEAN
      BY <1>1, <2>1 DEF TypeOK
    <3>2. st \notin {"begin", "dropped"} /\ (fd => "bind" \in state)
      BY <1>1, <2>1 DEF StartInv, ImplInv
    <3>. QED
      BY <1>2, <2>1, <3>1, <3>2 DEF SuspInv
  <2>7. CoReaderInv'
    BY <1>0, <2>1 DEF CoReaderInv
  <2>8. CoLogInv'
    <3>1. kind # "sync" => log # <<>>
      BY <1>1, <2>1 DEF StartInv
    <3>. QED
      BY <1>1, <1>2, <2>1, <3>1, DataCallback DEF TypeOK
  <2>9. ReportInv'
    <3>1. Reported => Reported'
      BY <1>1, <2>1, ReportKept DEF TypeOK, Callbacks
    <3>2. ~(kind = "sync" /\ st = "posting")
      BY <1>1, <2>1 DEF ImplInv, ReportInv
    <3>. QED
      BY <1>1, <1>2, <2>1, <3>1, <3>2 DEF ReportInv
  <2>. QED
    BY <1>2, <1>3, <1>4, <2>3, <2>4, <2>5, <2>6, <2>7, <2>8, <2>9 DEF YieldInv, Shared
<1>6. CASE ResumeHandler
  <2>1. /\ pc = "top" /\ pc' = "deliver" /\ susp.on /\ UNCHANGED <<wop, log>>
        /\ batch' = susp.batch /\ bad' = susp.bad /\ susp' = NotSuspended
    BY <1>6 DEF ResumeHandler
  <2>2. batch' \in Nat /\ bad' \in BOOLEAN
    BY <1>1, <2>1 DEF SuspInv
  <2>3. TypeOK'
    BY <1>1, <1>2, <2>1, <2>2 DEF TypeOK
  <2>4. ImplInv' /\ WriterInv' /\ StartInv'
    BY <1>1, <1>2, <2>1 DEF ImplInv, WriterInv, NoIdleBacklog, StartInv, SuspInv
  <2>5. SuspInv'
    BY <2>1 DEF SuspInv, NotSuspended
  <2>6. CoReaderInv'
    BY <1>0, <2>1 DEF CoReaderInv, Reading
  <2>7. CoLogInv' /\ ReportInv'
    BY <1>1, <1>2, <2>1, NoCallback, ReportSame
  <2>. QED
    BY <1>2, <1>3, <1>4, <2>3, <2>4, <2>5, <2>6, <2>7 DEF YieldInv, Shared
<1>7. CASE KernelFull
  <2>1. /\ pc = "send" /\ pc' = "whandle" /\ wop' = <<>>
        /\ UNCHANGED <<batch, bad, log, susp>>
    BY <1>7 DEF KernelFull
  <2>2. TypeOK'
    BY <1>1, <1>2, <2>1 DEF TypeOK
  <2>3. ImplInv' /\ StartInv' /\ SuspInv'
    BY <1>1, <1>2, <2>1 DEF ImplInv, StartInv, SuspInv
  <2>4. WriterInv'
    BY <1>1, <1>2, <2>1 DEF WriterInv, NoIdleBacklog, TypeOK
  <2>5. CoReaderInv'
    <3>1. susp.on \/ Reading
      BY DEF YieldInv, CoReaderInv
    <3>. QED
      BY <1>0, <1>2, <2>1, <3>1 DEF CoReaderInv, Reading
  <2>6. CoLogInv' /\ ReportInv'
    BY <1>1, <1>2, <2>1, NoCallback, ReportSame
  <2>. QED
    BY <1>2, <1>3, <1>4, <2>2, <2>3, <2>4, <2>5, <2>6 DEF YieldInv, Shared
<1>. QED
  BY <1>2, <1>5, <1>6, <1>7

\* Every step keeps the invariant and is a step of the channel or none.
LEMMA CoNextInv ==
  CoInv /\ [CoNext]_<<vars, covars>> => CoInv' /\ [Channel!Next]_(Channel!chan)
<1>. SUFFICES ASSUME CoInv, [CoNext]_<<vars, covars>>
              PROVE  CoInv' /\ [Channel!Next]_(Channel!chan)
  OBVIOUS
<1>1. CASE ~early /\ [Step]_vars /\ UNCHANGED <<early, susp>>
  <2>1. /\ Shared /\ SuspInv /\ ReadBits /\ (susp.on \/ Reading) /\ CoLogInv
        /\ TypeOK /\ ImplInv /\ StartInv /\ WriterInv
    BY <1>1 DEF CoInv, YieldInv, CoReaderInv, Shared
  <2>2. Shared' /\ SuspInv' /\ CoLogInv' /\ [Channel!Next]_(Channel!chan)
    BY <1>1, <2>1, SharedStep, PlainSusp, PlainLog, PlainSeen
  <2>3. ReadBits' /\ (Reading => Reading')
    BY <1>1, <2>1, ReadBitsStep, ReadingStep
  <2>. QED
    BY <1>1, <2>1, <2>2, <2>3 DEF CoInv, YieldInv, CoReaderInv
<1>2. CASE early /\ [Step]_vars /\ UNCHANGED <<early, susp>>
  <2>1. EarlyInv /\ ~susp.on /\ early' \in BOOLEAN
    BY <1>2 DEF CoInv, EarlyInv, TypeOK
  <2>. QED
    BY <1>2, <2>1, EarlyStep, EarlySeen DEF CoInv
<1>3. CASE CloseEarly /\ UNCHANGED susp
  <2>1. /\ TypeOK /\ NothingLost
        /\ IF early THEN EarlyState
                    ELSE ImplInv /\ StartInv /\ WriterInv /\ ReportInv
    BY DEF CoInv, YieldInv, EarlyInv, Shared
  <2>2. ~susp.on
    BY <1>3, <2>1 DEF CloseEarly, CoInv, YieldInv, SuspInv, StartInv
  <2>. QED
    BY <1>3, <2>1, <2>2, FirstClose, CloseEarlyKept, CloseEarlySeen DEF CoInv, EarlyInv
<1>4. CASE YieldInHandler \/ ResumeHandler \/ KernelFull
  <2>1. ~early
    BY <1>4 DEF YieldInHandler, ResumeHandler, KernelFull, CoInv, EarlyInv, EarlyState
  <2>. QED
    BY <1>4, <2>1, CoSteps DEF CoInv
<1>. QED
  BY <1>1, <1>2, <1>3, <1>4 DEF CoNext, Next, vars, covars

\* It holds in every state coroutine mode reaches.
LEMMA CoInvariance == CoSpec => []CoInv
BY CoInitInv, CoNextInv, PTL DEF CoSpec

\* In coroutine mode, whose callbacks may come out of order, the stream is kept
\* all the same: handlers that yield, writes dispatched for an event of another
\* round and descriptors closed under a suspended handler neither repeat nor
\* reorder a byte, and none leaves the buffers without being sent.
THEOREM CoStreamIntact == CoSpec => []NothingLost
<1>1. CoInv => NothingLost
  BY DEF CoInv, EarlyInv, YieldInv, Shared
<1>. QED
  BY <1>1, CoInvariance, PTL

\* A socket closed while a handler is suspended had sent what it accepted, or a
\* write had failed.
THEOREM CoClosesGracefully == CoSpec => []GracefulClose
<1>1. CoInv => GracefulClose
  BY ClosedSent DEF CoInv, YieldInv
<1>. QED
  BY <1>1, CoInvariance, PTL

\* A write on its way is registered or with the io thread, whatever is suspended.
THEOREM CoWriteIsPending == CoSpec => []WritePending
<1>1. CoInv => WritePending
  BY DEF CoInv, YieldInv, Shared, WriterInv, ImplInv, WritePending
<1>. QED
  BY <1>1, CoInvariance, PTL

\* A descriptor is closed once, also by the handler that is resumed after it.
THEOREM CoDescriptorClosedOnce == CoSpec => []ClosedOnce
<1>1. CoInv => ClosedOnce
  <2>1. EarlyInv /\ early => ClosedOnce
    BY DEF EarlyInv, EarlyState, ClosedOnce
  <2>2. YieldInv => ClosedOnce
    BY DEF YieldInv, Shared, ImplInv, ClosedOnce
  <2>. QED
    BY <2>1, <2>2 DEF CoInv
<1>. QED
  BY <1>1, CoInvariance, PTL

\* Bytes never wait in the buffers of an unbroken socket with nobody to send
\* them, whatever is suspended.
THEOREM CoBacklogIsServed == CoSpec => []NoIdleBacklog
<1>1. CoInv => NoIdleBacklog
  BY DEF CoInv, EarlyInv, EarlyState, YieldInv, Shared, WriterInv
<1>. QED
  BY <1>1, CoInvariance, PTL

\* A started connection is registered for EPOLLIN whenever the io thread waits,
\* unless its OnReceiveData is suspended: the handler that returns posts the
\* read again, also when the events of another round came in between.
THEOREM CoStaysListening == CoSpec => [](susp.on \/ Listening)
<1>1. CoInv => susp.on \/ Listening
  BY DEF CoInv, YieldInv, CoReaderInv, ReadBits, Reading, Listening
<1>. QED
  BY <1>1, CoInvariance, PTL

\* A handler that is resumed late can only add messages of its own read:
\* OnConnected stays the first callback, OnDisconnected is called once, and
\* nothing but OnReceiveData follows it.  The one exception is that of plain mode,
\* a lone OnDisconnected after Close() came before OnConnected.
THEOREM CoCallbacks == CoSpec => []LateDataOnly
<1>1. CoInv => LateDataOnly
  <2>. SUFFICES ASSUME CoInv PROVE LateDataOnly
    OBVIOUS
  <2>1. CASE early
    <3>1. log \in {<<>>, <<"connected">>, <<"disconnected">>, <<"connected", "disconnected">>}
      BY <2>1, EarlyLog DEF CoInv
    <3>2. CASE log \in {<<>>, <<"connected">>, <<"disconnected">>}
      BY <2>1, <3>2 DEF LateDataOnly, LateOrder
    <3>3. CASE log = <<"connected", "disconnected">>
      <4>1. Len(log) = 2 /\ log[1] = "connected" /\ log[2] = "disconnected"
        BY <3>3
      <4>. QED
        BY <4>1 DEF LateDataOnly, LateOrder
    <3>. QED
      BY <3>1, <3>2, <3>3
  <2>2. CASE ~early
    BY <2>2 DEF CoInv, YieldInv, CoLogInv, LateDataOnly
  <2>. QED
    BY <2>1, <2>2
<1>. QED
  BY <1>1, CoInvariance, PTL

\* A closed socket is reported in coroutine mode too, or its request is with the
\* io thread, also when the handler that was resumed closed it.
THEOREM CoReportNotLost == CoSpec => []ReportPending
<1>1. CoInv => ReportPending
  <2>1. YieldInv => ReportPending
    BY DEF YieldInv, Shared, ReportInv, Reported, ReportPending
  <2>. QED
    BY <2>1, EarlyReport DEF CoInv
<1>. QED
  BY <1>1, CoInvariance, PTL

\* E_STATE_CLOSE is final in coroutine mode too, with the same exception, and a
\* socket that stopped accepts nothing, also from a handler that is resumed.
THEOREM CoStaysClosed == CoSpec => NoReopen
<1>1. CoInv /\ [CoNext]_<<vars, covars>> =>
        [/\ flag = "close" => flag' = "close" \/ (early /\ log = <<>> /\ ConnectComplete)
         /\ flag # "start" => accepted' = accepted]_vars
  <2>. SUFFICES ASSUME CoInv, [CoNext]_<<vars, covars>>
                PROVE  /\ \/ flag # "close" \/ flag' = "close"
                          \/ early /\ log = <<>> /\ ConnectComplete
                       /\ flag # "start" => accepted' = accepted
    OBVIOUS
  <2>1. CASE [Next]_vars
    BY <2>1, ReopenStep DEF CoInv, YieldInv
  <2>2. CASE YieldInHandler \/ ResumeHandler \/ KernelFull
    BY <2>2 DEF YieldInHandler, ResumeHandler, KernelFull, sock, hist
  <2>. QED
    BY <2>1, <2>2 DEF CoNext
<1>. QED
  BY <1>1, CoInvariance, PTL DEF CoSpec, NoReopen

\* The socket is the same byte channel in coroutine mode: a write that an event
\* of another round made fail is Abort, everything else as in plain mode.
THEOREM CoImplementation == CoSpec => ImplementsChannel
<1>1. CoInit => Channel!Init
  BY InitSeen DEF CoInit
<1>2. CoInv /\ [CoNext]_<<vars, covars>> => [Channel!Next]_(Channel!chan)
  BY CoNextInv
<1>. QED
  BY <1>1, <1>2, CoInvariance, PTL DEF CoSpec, ImplementsChannel, Channel!Spec
=============================================================================
