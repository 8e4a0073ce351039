-------------------------- MODULE TcpSocketProofs --------------------------
(***************************************************************************)
(* TLAPS proofs about TcpSocket, for every set of frames and every bound.  *)
(***************************************************************************)
EXTENDS TcpSocket, SequenceTheorems, TLAPS

-----------------------------------------------------------------------------
(* The inductive invariant                                                 *)

\* The descriptor and its registration.
ImplInv ==
  /\ "bind" \in state => "block" \notin state
  /\ "block" \in state => ~epoll
  /\ post # "none" => fd /\ "block" \notin state
  /\ reg # {} => "bind" \in state
  /\ fd /\ pc \notin {"top", "wait", "closed"} => "bind" \in state
  /\ ~fd => state = {} /\ flag = "close"
  /\ closereqs > 0 => closereqs = 1 /\ fd /\ flag = "close" /\ "close" \in state

\* Until the connection is started, and for good when it never is, nothing
\* has happened to the socket.
StartInv ==
  /\ st \in {"begin", "dropped"} =>
       /\ flag = "stop" /\ log = <<>> /\ post = "none" /\ ~writing
       /\ optype \subseteq {"C"}
       /\ pc \in {"top", "wait", "dispatch", "connect", "dispatchW"}
       /\ "bind" \in state <=> kind = "async"
  /\ st = "begin" => optype = IF kind = "async" THEN {"C"} ELSE {}
  /\ st = "dropped" => kind # "sync"
  /\ "C" \in optype => st = "begin"
  /\ pc = "connect" => "C" \in optype
  /\ kind # "sync" /\ log = <<>> => st \in {"begin", "dropped"}

\* writing, the write bit, the registered operation and the io thread agree
\* on whether, and where, a write is on its way.
WriterInv ==
  /\ post = "send" => ~writing /\ "write" \in state /\ flag # "close" /\ wop = buf1
  /\ "write" \in state /\ post # "send" => writing /\ wop = buf1 /\ "bind" \in state
  /\ "write" \in state /\ post = "none" => "W" \in optype /\ "OUT" \in reg
  /\ "bind" \in state /\ "W" \in optype => "write" \in state
  /\ writing => flag # "close" /\ ("write" \in state \/ pc \in {"send", "whandle"})
  /\ fd /\ pc = "wcomplete" => "write" \in state
  /\ pc \in {"send", "whandle"} => writing /\ "write" \notin state
  /\ pc = "send" => wop = buf1
  /\ pc = "whandle" => done <= Len(buf1)
  /\ pc # "whandle" => done = 0
  /\ writing \/ post = "send" => buf1 # <<>>
  /\ ioerr => flag = "close"
  /\ NoIdleBacklog

\* So do the read bit and the registered operation ...
ReadBits ==
  /\ post = "recv" => "read" \in state
  /\ "read" \in state /\ post # "recv" => "bind" \in state
  /\ "read" \in state /\ post = "none" => "R" \in optype /\ "IN" \in reg
  /\ "bind" \in state /\ "R" \in optype => "read" \in state

\* ... and the io thread, on where the read of a started connection is.
Reading ==
  flag = "start" /\ st = "done" =>
    "read" \in state \/ pc \in {"recv", "deliver", "tryrecv", "rclose"}

ReaderInv == ReadBits /\ Reading

\* CallbackOrder without its exception.
Ordered ==
  /\ \A i, j \in 1..Len(log) :
       i < j => log[i] # "disconnected" /\ log[j] # "connected"
  /\ kind # "sync" /\ log # <<>> => log[1] = "connected"

\* After OnDisconnected the descriptor is gone, and with it every source of
\* further callbacks.
LogInv ==
  /\ pc = "closed" => ~fd
  /\ pc = "closed" \/ fd => \A i \in 1..Len(log) : log[i] # "disconnected"
  /\ Ordered

\* OnDisconnected was called.
Reported == \E i \in 1..Len(log) : log[i] = "disconnected"

\* Whoever closes the socket finds _epoll set if it ever will be: a socket that
\* is in the epoll set has one, so has one whose EPOLL_CTL_ADD failed, but for a
\* connector without io threads; and nobody has that one before its first read
\* was posted.
ReportInv ==
  /\ "close" \in state => flag = "close"
  /\ "block" \in state => flag # "close"
  /\ "bind" \in state => epoll
  /\ pc = "closed" => ~fd
  /\ flag = "close" /\ fd /\ epoll => closereqs > 0
  /\ ~fd /\ epoll => pc = "closed" \/ Reported
  /\ post = "recv" /\ flag = "close" => epoll
  /\ fd /\ kind # "sync" /\ post = "none" /\ "block" \notin state => epoll
  /\ kind = "sync" /\ st = "posting" =>
       flag = "start" /\ log = <<>> /\ "bind" \notin state /\ fd /\ ~writing /\ post # "send"

\* In plain mode the io thread has the descriptor open while it completes its
\* operations: it closes it between two rounds.
OpenInRound == pc \notin {"top", "wait", "closed"} => fd

\* What holds in coroutine mode too ...
Shared == TypeOK /\ ImplInv /\ StartInv /\ WriterInv /\ ReportInv /\ NothingLost

\* ... and all of it, unless AsyncConnect's caller closed the connector before
\* OnConnected.
IInv == Shared /\ OpenInRound /\ ReaderInv /\ LogInv

\* After CloseEarly the io thread closes the descriptor before it waits again.
\* Until then it completes at most the connect: the flag is set again, Send may
\* accept bytes and a write may be posted, and none of that undoes the request.
EarlyState ==
  /\ NoIdleBacklog
  /\ kind = "async" /\ done = 0 /\ st # "closing"
  /\ pc \in {"top", "closed", "wait", "dispatch", "connect", "tryrecv",
            "rposting", "dispatchW"}
  /\ fd => /\ closereqs = 1 /\ {"bind", "close"} \subseteq state /\ "block" \notin state
           /\ pc # "closed" /\ log \in {<<>>, <<"connected">>}
           /\ log # <<>> => pc \in {"tryrecv", "rposting", "top"}
  /\ ~fd => /\ closereqs = 0 /\ state = {} /\ reg = {} /\ post = "none"
            /\ pc \in {"top", "wait", "closed"}
            /\ log \in IF pc = "closed" THEN {<<>>, <<"connected">>}
                      ELSE {<<"disconnected">>, <<"connected", "disconnected">>}
  /\ log = <<>> => /\ flag = "close" /\ post = "none" /\ ~writing /\ ~ioerr
                   /\ optype \subseteq {"C"} /\ st \in {"begin", "dropped"}
                   /\ pc \notin {"tryrecv", "rposting"}
  /\ log = <<"disconnected">> => flag = "close"
  /\ pc \in {"tryrecv", "rposting"} => st = "posting"
  /\ post = "recv" => pc = "rposting"
  /\ post = "send" => flag = "start"
  /\ writing => flag # "close"
  /\ flag = "stop" => writing
  /\ ioerr => flag = "close"

EarlyInv == TypeOK /\ NothingLost /\ EarlyState

SocketInv == IF early THEN EarlyInv ELSE IInv

-----------------------------------------------------------------------------
(* Sequences                                                               *)

\* CutData leaves a byte sequence, shorter by what was cut.
LEMMA CutType ==
  ASSUME NEW S, NEW b \in Seq(S), NEW n \in Nat, n <= Len(b)
  PROVE  Cut(b, n) \in Seq(S) /\ Len(Cut(b, n)) = Len(b) - n
BY SubSeqProperties DEF Cut

\* Nothing cut, nothing changed.
LEMMA CutZero ==
  ASSUME NEW S, NEW b \in Seq(S)
  PROVE  Cut(b, 0) = b
BY SubSeqFull DEF Cut

\* What g_send takes and what _WriteHandler keeps make up the buffer.
LEMMA CutSplit ==
  ASSUME NEW S, NEW b \in Seq(S), NEW n \in 1..Len(b)
  PROVE  /\ SubSeq(b, 1, n) \in Seq(S)
         /\ SubSeq(b, 1, n) \o Cut(b, n) = b
<1>1. SubSeq(b, 1, n) \in Seq(S)
  BY SubSeqProperties
<1>2. SubSeq(b, 1, n) \o SubSeq(b, n + 1, Len(b)) = SubSeq(b, 1, Len(b))
  BY ConcatAdjacentSubSeq
<1>3. SubSeq(b, 1, Len(b)) = b
  BY SubSeqFull
<1>. QED
  BY <1>1, <1>2, <1>3 DEF Cut

\* Recording a callback leaves the earlier ones in place.
LEMMA LogAppend ==
  ASSUME NEW l \in Seq(Callbacks), NEW c \in Callbacks
  PROVE  /\ Len(Append(l, c)) = Len(l) + 1
         /\ \A i \in 1..Len(l) : Append(l, c)[i] = l[i]
         /\ Append(l, c)[Len(l) + 1] = c
BY AppendProperties

\* The log of a connector that was opened and closed.
LEMMA OpenedAndClosed ==
  /\ Append(<<"connected">>, "disconnected") = <<"connected", "disconnected">>
  /\ <<"connected", "disconnected">> \notin {<<>>, <<"disconnected">>}
<1>. DEFINE l == <<"connected">>
            a == Append(l, "disconnected")
            t == <<"connected", "disconnected">>
<1>1. l \in Seq(Callbacks) /\ Len(l) = 1 /\ l[1] = "connected" /\ "disconnected" \in Callbacks
  BY DEF Callbacks
<1>2. t \in Seq(Callbacks) /\ Len(t) = 2 /\ t[1] = "connected" /\ t[2] = "disconnected"
  BY DEF Callbacks
<1>. HIDE DEF l, t
<1>3. a \in Seq(Callbacks) /\ Len(a) = 2 /\ a[1] = "connected" /\ a[2] = "disconnected"
  <2>1. Append(l, "disconnected") \in Seq(Callbacks)
    BY <1>1
  <2>2. /\ Len(Append(l, "disconnected")) = Len(l) + 1
        /\ \A i \in 1..Len(l) : Append(l, "disconnected")[i] = l[i]
        /\ Append(l, "disconnected")[Len(l) + 1] = "disconnected"
    BY <1>1, LogAppend
  <2>. QED
    BY <1>1, <2>1, <2>2
<1>. HIDE DEF a
<1>4. a = t
  <2>1. \A i \in 1..Len(a) : a[i] = t[i]
    BY <1>2, <1>3
  <2>. QED
    BY <1>2, <1>3, <2>1, SeqEqual
<1>5. t \notin {<<>>, <<"disconnected">>}
  <2>1. Len(<<>>) = 0 /\ Len(<<"disconnected">>) = 1
    OBVIOUS
  <2>. QED
    BY <1>2, <2>1
<1>. QED
  BY <1>4, <1>5 DEF a, t, l

-----------------------------------------------------------------------------
(* Type correctness                                                        *)

\* _Close() keeps what it may change in its type.
LEMMA CloseType ==
  ASSUME TypeOK, NEW w, NEW s \in SUBSET Bits, NEW e, CloseLocked(w, s, e)
  PROVE  /\ flag' \in {"start", "stop", "close"}
         /\ fd' \in BOOLEAN
         /\ state' \subseteq Bits
         /\ closereqs' \in Nat
<1>. "close" \in Bits
  BY DEF Bits
<1>1. CASE flag = "close"
  BY <1>1 DEF CloseLocked, TypeOK
<1>2. CASE flag # "close" /\ w
  BY <1>2 DEF CloseLocked, TypeOK
<1>3. CASE flag # "close" /\ ~w
  <2>1. flag' = "close" /\ ImplClose(s, e)
    BY <1>3 DEF CloseLocked
  <2>2. CASE fd /\ "close" \notin s
    <3>1. fd' \in BOOLEAN
      BY <2>1, <2>2 DEF ImplClose
    <3>2. closereqs' \in Nat
      BY <2>1, <2>2 DEF ImplClose, TypeOK
    <3>3. state' \subseteq Bits
      BY <2>1, <2>2 DEF ImplClose
    <3>. QED
      BY <2>1, <3>1, <3>2, <3>3
  <2>3. CASE ~(fd /\ "close" \notin s)
    BY <2>1, <2>3 DEF ImplClose, TypeOK
  <2>. QED
    BY <2>2, <2>3
<1>. QED
  BY <1>1, <1>2, <1>3

\* So does recording a callback.
LEMMA LogType ==
  ASSUME TypeOK, NEW c \in Callbacks, log' = Append(log, c)
  PROVE  log' \in Seq(Callbacks)
<1>1. log \in Seq(Callbacks) 
  BY DEF TypeOK
<1>. QED
  BY <1>1, AppendProperties

\* And _TrySendData.
LEMMA TrySendType ==
  ASSUME TypeOK, NEW b1 \in Seq(Byte), NEW b2 \in Seq(Byte), TrySendData(b1, b2)
  PROVE  /\ flag' \in {"start", "stop", "close"}
         /\ writing' \in BOOLEAN
         /\ buf1' \in Seq(Byte) /\ buf2' \in Seq(Byte) /\ wop' \in Seq(Byte)
         /\ fd' \in BOOLEAN
         /\ state' \subseteq Bits
         /\ optype' \subseteq {"C", "R", "W"}
         /\ post' \in {"none", "send", "recv"}
         /\ closereqs' \in Nat
         /\ ioerr' \in BOOLEAN
<1>1. /\ Front(b1, b2) \in Seq(Byte) /\ Back(b1, b2) \in Seq(Byte)
      /\ buf1' = Front(b1, b2) /\ buf2' = Back(b1, b2) /\ writing' = FALSE
  BY DEF TrySendData, Front, Back
<1>2. CASE SendRefused
  <2>1. /\ ioerr' = TRUE /\ wop' = <<>> /\ UNCHANGED <<optype, post>>
        /\ CloseLocked(FALSE, state, epoll)
    BY <1>2 DEF TrySendData
  <2>2. state \in SUBSET Bits
    BY DEF TypeOK
  <2>3. /\ flag' \in {"start", "stop", "close"} /\ fd' \in BOOLEAN
        /\ state' \subseteq Bits /\ closereqs' \in Nat
    BY <2>1, <2>2, CloseType
  <2>4. /\ wop' \in Seq(Byte) /\ optype' \subseteq {"C", "R", "W"}
        /\ post' \in {"none", "send", "recv"} /\ ioerr' \in BOOLEAN
    BY <2>1 DEF TypeOK
  <2>. QED
    BY <1>1, <2>3, <2>4
<1>3. CASE ~SendRefused
  <2>1. PostSend(Front(b1, b2)) /\ UNCHANGED <<flag, fd, closereqs, ioerr>>
    BY <1>3 DEF TrySendData
  <2>2. state' \subseteq Bits
    BY <2>1 DEF PostSend, TypeOK, Bits
  <2>3. optype' \subseteq {"C", "R", "W"}
    BY <2>1 DEF PostSend
  <2>. QED
    BY <1>1, <2>1, <2>2, <2>3 DEF PostSend, TypeOK
<1>. QED
  BY <1>2, <1>3

\* Every action keeps every variable in its type.
LEMMA TypeStep ==
  TypeOK /\ done <= Len(buf1) /\ [Step]_vars /\ early' \in BOOLEAN => TypeOK'
<1>. SUFFICES ASSUME TypeOK, done <= Len(buf1), [Step]_vars, early' \in BOOLEAN
              PROVE  TypeOK'
  OBVIOUS
<1>. USE DEF sock, impl, start, loop, hist
<1>1. CASE InitAccepted
  <2>1. log' \in Seq(Callbacks)
    BY <1>1, LogType DEF InitAccepted, TypeOK, Callbacks
  <2>. QED
    BY <1>1, <2>1 DEF InitAccepted, TypeOK
<1>2. CASE ConnectSync
  BY <1>2 DEF ConnectSync, TypeOK
<1>3. CASE FirstRecv
  <2>1. state' \subseteq Bits
    BY <1>3 DEF FirstRecv, PostRecv, TypeOK, Bits
  <2>2. optype' \subseteq {"C", "R", "W"}
    BY <1>3 DEF FirstRecv, PostRecv, TypeOK
  <2>3. post' \in {"none", "send", "recv"}
    BY <1>3 DEF FirstRecv, PostRecv, TypeOK
  <2>. QED
    BY <1>3, <2>1, <2>2, <2>3 DEF FirstRecv, TypeOK
<1>4. CASE InitClose
  <2>1. /\ flag' \in {"start", "stop", "close"} /\ fd' \in BOOLEAN
        /\ state' \subseteq Bits /\ closereqs' \in Nat
    BY <1>4, CloseType DEF InitClose, TypeOK
  <2>. QED
    BY <1>4, <2>1 DEF InitClose, TypeOK
<1>5. CASE SendPosted
  <2>1. optype' \subseteq {"C", "R", "W"} /\ Interest(OpBits(state)) \subseteq {"IN", "OUT"}
    BY <1>5 DEF SendPosted, OpBits, Interest
  <2>2. CASE writing' = TRUE /\ state' = state \cup {"bind"} /\ epoll' = TRUE
             /\ reg' = Interest(OpBits(state)) /\ UNCHANGED <<flag, fd, wop, closereqs, ioerr>>
    <3>1. state' \subseteq Bits
      BY <2>2 DEF TypeOK, Bits
    <3>. QED
      BY <1>5, <2>1, <2>2, <3>1 DEF SendPosted, TypeOK
  <2>3. CASE /\ epoll' \in AddFails /\ wop' = <<>> /\ ioerr' = TRUE
             /\ CloseLocked(FALSE, state \ {"write"}, epoll') /\ UNCHANGED <<writing, reg>>
    <3>1. state \ {"write"} \in SUBSET Bits /\ epoll' \in BOOLEAN
      BY <2>3 DEF TypeOK, AddFails
    <3>2. /\ flag' \in {"start", "stop", "close"} /\ fd' \in BOOLEAN
        /\ state' \subseteq Bits /\ closereqs' \in Nat
      BY <2>3, <3>1, CloseType
    <3>. QED
      BY <1>5, <2>1, <2>3, <3>1, <3>2 DEF SendPosted, TypeOK
  <2>. QED
    BY <1>5, <2>2, <2>3 DEF SendPosted
<1>6. CASE RecvPosted
  <2>1. state' \subseteq Bits
    BY <1>6 DEF RecvPosted, TypeOK, Bits
  <2>2. optype' \subseteq {"C", "R", "W"}
    BY <1>6 DEF RecvPosted, OpBits
  <2>3. reg' \subseteq {"IN", "OUT"}
    BY <1>6 DEF RecvPosted, OpBits, Interest, TypeOK
  <2>4. epoll' \in BOOLEAN
    BY <1>6 DEF RecvPosted, AddFails, TypeOK
  <2>. QED
    BY <1>6, <2>1, <2>2, <2>3, <2>4 DEF RecvPosted, TypeOK
<1>7. CASE Send
  <2>1. PICK f \in Frames :
          /\ accepted' = accepted \o f
          /\ \/ /\ buf2' = buf2 \o f
                /\ UNCHANGED <<flag, writing, buf1, fd, state, optype, wop, post,
                               closereqs, ioerr>>
             \/ TrySendData(buf1, buf2 \o f)
    BY <1>7 DEF Send
  <2>2. f \in Seq(Byte) /\ accepted \o f \in Seq(Byte) /\ buf2 \o f \in Seq(Byte)
    BY FramesAssumption DEF TypeOK
  <2>3. CASE buf2' = buf2 \o f /\ UNCHANGED <<flag, writing, buf1, fd, state, optype,
                                             wop, post, closereqs, ioerr>>
    BY <1>7, <2>1, <2>2, <2>3 DEF Send, TypeOK
  <2>4. CASE TrySendData(buf1, buf2 \o f)
    <3>1. buf1 \in Seq(Byte)
      BY DEF TypeOK
    <3>2. /\ flag' \in {"start", "stop", "close"} /\ writing' \in BOOLEAN
          /\ buf1' \in Seq(Byte) /\ buf2' \in Seq(Byte) /\ wop' \in Seq(Byte)
          /\ fd' \in BOOLEAN /\ state' \subseteq Bits
          /\ optype' \subseteq {"C", "R", "W"}
          /\ post' \in {"none", "send", "recv"}
          /\ closereqs' \in Nat /\ ioerr' \in BOOLEAN
      BY <2>2, <2>4, <3>1, TrySendType
    <3>3. accepted' \in Seq(Byte)
      BY <2>1, <2>2
    <3>4. UNCHANGED <<epoll, start, loop, reg, peer, sent, log>>
      BY <1>7 DEF Send
    <3>. QED
      BY <3>2, <3>3, <3>4 DEF TypeOK
  <2>. QED
    BY <2>1, <2>3, <2>4
<1>8. CASE Close
  <2>1. /\ flag' \in {"start", "stop", "close"} /\ fd' \in BOOLEAN
        /\ state' \subseteq Bits /\ closereqs' \in Nat
    BY <1>8, CloseType DEF Close, TypeOK
  <2>. QED
    BY <1>8, <2>1 DEF Close, TypeOK
<1>9. CASE CloseFd
  <2>1. closereqs' \in Nat
    BY <1>9 DEF CloseFd, TypeOK
  <2>2. state' \subseteq Bits /\ reg' \subseteq {"IN", "OUT"}
    BY <1>9 DEF CloseFd
  <2>3. fd' \in BOOLEAN /\ pc' = "closed"
    BY <1>9 DEF CloseFd
  <2>4. UNCHANGED <<sock, epoll, optype, wop, post, start, ev, batch, bad, done, peer, hist>>
    BY <1>9 DEF CloseFd
  <2>. QED
    BY <2>1, <2>2, <2>3, <2>4 DEF TypeOK
<1>10. CASE CloseHandler
  <2>1. log' \in Seq(Callbacks)
    BY <1>10, LogType DEF CloseHandler, TypeOK, Callbacks
  <2>. QED
    BY <1>10, <2>1 DEF CloseHandler, TypeOK
<1>11. CASE Wait
  BY <1>11 DEF Wait, TypeOK
<1>12. CASE Timeout
  BY <1>12 DEF Timeout, TypeOK
<1>13. CASE Event
  <2>1. ev' \subseteq {"IN", "OUT", "HUP"}
    BY <1>13 DEF Event, Ready
  <2>. QED
    BY <1>13, <2>1 DEF Event, TypeOK
<1>14. CASE Dispatch
  BY <1>14 DEF Dispatch, TypeOK
<1>15. CASE ConnectComplete
  <2>1. log' \in Seq(Callbacks)
    BY <1>15, LogType DEF ConnectComplete, TypeOK, Callbacks
  <2>2. state' \subseteq Bits /\ optype' \subseteq {"C", "R", "W"} /\ reg' \subseteq {"IN", "OUT"}
    BY <1>15 DEF ConnectComplete, TypeOK
  <2>. QED
    BY <1>15, <2>1, <2>2 DEF ConnectComplete, TypeOK
<1>16. CASE ReadComplete
  <2>1. state' \subseteq Bits /\ optype' \subseteq {"C", "R", "W"} /\ reg' \subseteq {"IN", "OUT"}
    BY <1>16 DEF ReadComplete, TypeOK, Interest
  <2>. QED
    BY <1>16, <2>1 DEF ReadComplete, TypeOK
<1>17. CASE Recv
  <2>1. batch' \in Nat /\ bad' \in BOOLEAN
    BY <1>17, BoundsAssumption DEF Recv, TypeOK
  <2>. QED
    BY <1>17, <2>1 DEF Recv, TypeOK
<1>18. CASE CutMsgPack
  <2>1. log' \in Seq(Callbacks)
    BY <1>18, LogType DEF CutMsgPack, TypeOK, Callbacks
  <2>2. batch' \in Nat
    BY <1>18 DEF CutMsgPack, WholeMessage, TypeOK
  <2>3. bad' \in BOOLEAN
    BY <1>18 DEF CutMsgPack, TypeOK
  <2>. QED
    BY <1>18, <2>1, <2>2, <2>3 DEF CutMsgPack, TypeOK
<1>19. CASE TryRecvData
  <2>1. state' \subseteq Bits
    BY <1>19 DEF TryRecvData, PostRecv, TypeOK, Bits
  <2>2. optype' \subseteq {"C", "R", "W"}
    BY <1>19 DEF TryRecvData, PostRecv, TypeOK
  <2>3. post' \in {"none", "send", "recv"}
    BY <1>19 DEF TryRecvData, PostRecv, TypeOK
  <2>. QED
    BY <1>19, <2>1, <2>2, <2>3 DEF TryRecvData, TypeOK
<1>20. CASE ReadClose
  <2>1. /\ flag' \in {"start", "stop", "close"} /\ fd' \in BOOLEAN
        /\ state' \subseteq Bits /\ closereqs' \in Nat
    BY <1>20, CloseType DEF ReadClose, TypeOK
  <2>. QED
    BY <1>20, <2>1 DEF ReadClose, TypeOK
<1>21. CASE DispatchW
  BY <1>21 DEF DispatchW, TypeOK
<1>22. CASE WriteComplete
  <2>1. state' \subseteq Bits /\ optype' \subseteq {"C", "R", "W"} /\ reg' \subseteq {"IN", "OUT"}
    BY <1>22 DEF WriteComplete, TypeOK, Interest
  <2>. QED
    BY <1>22, <2>1 DEF WriteComplete, TypeOK
<1>23. CASE KernelSend
  <2>1. wop \in Seq(Byte) /\ sent \in Seq(Byte)
    BY DEF TypeOK
  <2>2. done' \in Nat /\ sent' \in Seq(Byte)
    <3>1. CASE done' \in 1..Len(wop) /\ sent' = sent \o SubSeq(wop, 1, done')
      BY <2>1, <3>1, CutSplit
    <3>2. CASE done' = 0 /\ UNCHANGED sent
      BY <2>1, <3>2
    <3>. QED
      BY <1>23, <3>1, <3>2 DEF KernelSend
  <2>. QED
    BY <1>23, <2>2 DEF KernelSend, TypeOK
<1>24. CASE WriteHandler
  <2>1. /\ Cut(buf1, done) \in Seq(Byte) /\ buf2 \in Seq(Byte)
        /\ state \in SUBSET Bits
    BY CutType DEF TypeOK
  <2>2. CASE /\ ioerr' = TRUE /\ writing' = FALSE /\ pc' = "top"
             /\ CloseLocked(FALSE, state, epoll)
             /\ UNCHANGED <<buf1, buf2, optype, wop, post>>
    <3>1. /\ flag' \in {"start", "stop", "close"} /\ fd' \in BOOLEAN
        /\ state' \subseteq Bits /\ closereqs' \in Nat
      BY <2>1, <2>2, CloseType
    <3>. QED
      BY <1>24, <2>2, <3>1 DEF WriteHandler, TypeOK
  <2>3. CASE TrySendData(Cut(buf1, done), buf2) /\ pc' \in {"top", "wposting"}
    <3>1. /\ flag' \in {"start", "stop", "close"} /\ writing' \in BOOLEAN
          /\ buf1' \in Seq(Byte) /\ buf2' \in Seq(Byte) /\ wop' \in Seq(Byte)
          /\ fd' \in BOOLEAN /\ state' \subseteq Bits
          /\ optype' \subseteq {"C", "R", "W"}
          /\ post' \in {"none", "send", "recv"}
          /\ closereqs' \in Nat /\ ioerr' \in BOOLEAN
      BY <2>1, <2>3, TrySendType
    <3>2. /\ done' = 0 /\ pc' \in {"top", "wposting"}
          /\ UNCHANGED <<epoll, start, ev, batch, bad, reg, peer, accepted, sent, log>>
      BY <1>24, <2>3 DEF WriteHandler
    <3>. QED
      BY <3>1, <3>2 DEF TypeOK
  <2>4. CASE /\ writing' = FALSE /\ pc' = "top"
             /\ buf1' = Front(Cut(buf1, done), buf2) /\ buf2' = Back(Cut(buf1, done), buf2)
             /\ IF flag = "start" THEN UNCHANGED <<flag, fd, state, closereqs>>
                                  ELSE CloseLocked(FALSE, state, epoll)
             /\ UNCHANGED <<optype, wop, post, ioerr>>
    <3>1. buf1' \in Seq(Byte) /\ buf2' \in Seq(Byte)
      BY <2>1, <2>4 DEF Front, Back
    <3>2. /\ flag' \in {"start", "stop", "close"} /\ fd' \in BOOLEAN
        /\ state' \subseteq Bits /\ closereqs' \in Nat
      BY <2>1, <2>4, CloseType DEF TypeOK
    <3>. QED
      BY <1>24, <2>4, <3>1, <3>2 DEF WriteHandler, TypeOK
  <2>. QED
    BY <1>24, <2>2, <2>3, <2>4 DEF WriteHandler
<1>25. CASE PeerShutdown
  BY <1>25 DEF PeerShutdown, TypeOK
<1>26. CASE PeerReset
  BY <1>26 DEF PeerReset, TypeOK
<1>27. CASE UNCHANGED vars
  BY <1>27 DEF vars, TypeOK
<1>. QED
  BY <1>1, <1>2, <1>3, <1>4, <1>5, <1>6, <1>7, <1>8, <1>9, <1>10, <1>11, <1>12, <1>13, <1>14,
     <1>15, <1>16, <1>17, <1>18, <1>19, <1>20, <1>21, <1>22, <1>23, <1>24, <1>25, <1>26, <1>27
  DEF Step, Starter, Posted, Application, Completion, IoThread, Peer

-----------------------------------------------------------------------------
(* The invariant is inductive                                              *)

\* A descriptor is closed once, by the io thread or on the spot, and a request
\* to close it is queued at most once.
LEMMA ImplStep == TypeOK /\ ImplInv /\ StartInv /\ WriterInv /\ [Step]_vars => ImplInv'
<1>. SUFFICES ASSUME TypeOK, ImplInv, StartInv, WriterInv, [Step]_vars
              PROVE  ImplInv'
  OBVIOUS
<1>. USE DEF sock, impl, start, loop, hist
<1>1. CASE InitAccepted
  BY <1>1 DEF InitAccepted, TypeOK, ImplInv, StartInv, WriterInv
<1>2. CASE ConnectSync
  BY <1>2 DEF ConnectSync, TypeOK, ImplInv, StartInv, WriterInv
<1>3. CASE FirstRecv
  BY <1>3 DEF FirstRecv, RecvRefused, PostRecv, TypeOK, ImplInv, StartInv, WriterInv
<1>4. CASE InitClose
  BY <1>4 DEF InitClose, CanClose, CloseLocked, ImplClose, TypeOK, ImplInv
<1>5. CASE SendPosted
  <2>1. post = "send" /\ fd /\ flag # "close" /\ "block" \notin state /\ closereqs = 0
    BY <1>5 DEF SendPosted, TypeOK, ImplInv, WriterInv
  <2>2. CASE writing' /\ state' = state \cup {"bind"} /\ UNCHANGED <<flag, fd, closereqs>>
    BY <1>5, <2>1, <2>2 DEF SendPosted, TypeOK, ImplInv, Interest
  <2>3. CASE /\ "bind" \notin state /\ UNCHANGED <<writing, reg>>
             /\ CloseLocked(FALSE, state \ {"write"}, epoll')
    <3>1. flag' = "close" /\ ImplClose(state \ {"write"}, epoll')
      BY <2>1, <2>3 DEF CloseLocked
    <3>2. post' = "none" /\ pc \notin {"wposting"} /\ pc' = pc
      BY <1>5, <2>3 DEF SendPosted, ImplInv
    <3>3. CASE "close" \in state
      <4>1. state' = state \ {"write"} /\ UNCHANGED <<fd, closereqs>>
        BY <3>1, <3>3 DEF ImplClose
      <4>. QED
        BY <2>1, <2>3, <3>1, <3>2, <4>1 DEF ImplInv
    <3>4. CASE "close" \notin state
      <4>1. /\ state' = (state \ {"write"}) \cup {"close"} /\ fd' = fd
            /\ closereqs' = IF epoll' THEN closereqs + 1 ELSE closereqs
        BY <2>1, <3>1, <3>4 DEF ImplClose
      <4>. QED
        BY <2>1, <2>3, <3>1, <3>2, <4>1 DEF ImplInv
    <3>. QED
      BY <3>3, <3>4
  <2>. QED
    BY <1>5, <2>2, <2>3 DEF SendPosted
<1>6. CASE RecvPosted
  BY <1>6 DEF RecvPosted, AddFails, OpBits, Interest, TypeOK, ImplInv, StartInv, WriterInv
<1>7. CASE Send
  BY <1>7 DEF Send, IsConnected, Usable, TrySendData, SendRefused, PostSend, CloseLocked,
     ImplClose, TypeOK, ImplInv, StartInv, WriterInv
<1>8. CASE Close
  BY <1>8 DEF Close, Usable, CanClose, CloseLocked, ImplClose, TypeOK, ImplInv
<1>9. CASE CloseFd
  BY <1>9 DEF CloseFd, TypeOK, ImplInv, StartInv, WriterInv
<1>10. CASE CloseHandler
  BY <1>10 DEF CloseHandler, TypeOK, ImplInv, StartInv, WriterInv
<1>11. CASE Wait
  BY <1>11 DEF Wait, TypeOK, ImplInv, StartInv, WriterInv
<1>12. CASE Timeout
  BY <1>12 DEF Timeout, TypeOK, ImplInv, StartInv, WriterInv
<1>13. CASE Event
  BY <1>13 DEF Event, Ready, TypeOK, ImplInv, StartInv, WriterInv
<1>14. CASE Dispatch
  BY <1>14 DEF Dispatch, TypeOK, ImplInv, StartInv, WriterInv
<1>15. CASE ConnectComplete
  BY <1>15 DEF ConnectComplete, TypeOK, ImplInv, StartInv, WriterInv
<1>16. CASE ReadComplete
  BY <1>16 DEF ReadComplete, Interest, TypeOK, ImplInv, StartInv, WriterInv
<1>17. CASE Recv
  BY <1>17 DEF Recv, TypeOK, ImplInv, StartInv, WriterInv
<1>18. CASE CutMsgPack
  BY <1>18 DEF CutMsgPack, TypeOK, ImplInv, StartInv, WriterInv
<1>19. CASE TryRecvData
  BY <1>19 DEF TryRecvData, RecvRefused, PostRecv, TypeOK, ImplInv, StartInv, WriterInv
<1>20. CASE ReadClose
  BY <1>20 DEF ReadClose, CanClose, CloseLocked, ImplClose, TypeOK, ImplInv, StartInv, WriterInv
<1>21. CASE DispatchW
  BY <1>21 DEF DispatchW, TypeOK, ImplInv, StartInv, WriterInv
<1>22. CASE WriteComplete
  BY <1>22 DEF WriteComplete, Interest, TypeOK, ImplInv, StartInv, WriterInv
<1>23. CASE KernelSend
  BY <1>23 DEF KernelSend, TypeOK, ImplInv, StartInv, WriterInv
<1>24. CASE WriteHandler
  BY <1>24 DEF WriteHandler, TrySendData, SendRefused, PostSend, CloseLocked, ImplClose, TypeOK,
     ImplInv, StartInv, WriterInv
<1>25. CASE PeerShutdown
  BY <1>25 DEF PeerShutdown, TypeOK, ImplInv, StartInv, WriterInv
<1>26. CASE PeerReset
  BY <1>26 DEF PeerReset, TypeOK, ImplInv, StartInv, WriterInv
<1>27. CASE UNCHANGED vars
  BY <1>27 DEF vars, TypeOK, ImplInv, StartInv, WriterInv
<1>. QED
  BY <1>1, <1>2, <1>3, <1>4, <1>5, <1>6, <1>7, <1>8, <1>9, <1>10, <1>11, <1>12, <1>13, <1>14,
     <1>15, <1>16, <1>17, <1>18, <1>19, <1>20, <1>21, <1>22, <1>23, <1>24, <1>25, <1>26, <1>27
  DEF Step, Starter, Posted, Application, Completion, IoThread, Peer

\* Nothing touches a connection before it is started.
LEMMA StartStep == TypeOK /\ ImplInv /\ StartInv /\ WriterInv /\ [Step]_vars => StartInv'
<1>. SUFFICES ASSUME TypeOK, ImplInv, StartInv, WriterInv, [Step]_vars
              PROVE  StartInv'
  OBVIOUS
<1>. USE DEF sock, impl, start, loop, hist
<1>1. CASE InitAccepted
  BY <1>1 DEF InitAccepted, TypeOK, ImplInv, StartInv
<1>2. CASE ConnectSync
  BY <1>2 DEF ConnectSync, TypeOK, ImplInv, StartInv
<1>3. CASE FirstRecv
  BY <1>3 DEF FirstRecv, RecvRefused, PostRecv, TypeOK, ImplInv, StartInv
<1>4. CASE InitClose
  BY <1>4 DEF InitClose, CanClose, CloseLocked, ImplClose, TypeOK, ImplInv, StartInv
<1>5. CASE SendPosted
  BY <1>5 DEF SendPosted, CloseLocked, ImplClose, AddFails, OpBits, TypeOK, ImplInv, StartInv
<1>6. CASE RecvPosted
  BY <1>6 DEF RecvPosted, AddFails, OpBits, TypeOK, ImplInv, StartInv
<1>7. CASE Send
  BY <1>7 DEF Send, IsConnected, Usable, TrySendData, SendRefused, PostSend, CloseLocked,
     ImplClose, TypeOK, ImplInv, StartInv
<1>8. CASE Close
  BY <1>8 DEF Close, Usable, CanClose, CloseLocked, ImplClose, TypeOK, ImplInv, StartInv
<1>9. CASE CloseFd
  BY <1>9 DEF CloseFd, TypeOK, ImplInv, StartInv
<1>10. CASE CloseHandler
  <2>1. pc = "closed" /\ pc' = "top" /\ UNCHANGED <<kind, st, flag, post, writing, optype, state>>
    BY <1>10 DEF CloseHandler
  <2>2. st \notin {"begin", "dropped"} /\ "C" \notin optype /\ (kind # "sync" => log # <<>>)
    BY <2>1 DEF StartInv
  <2>3. log' # <<>>
    <3>1. log \in Seq(Callbacks) /\ "disconnected" \in Callbacks
      BY DEF TypeOK, Callbacks
    <3>2. Len(log') = Len(log) + 1 /\ Len(log) \in Nat
      BY <1>10, <3>1, LogAppend DEF CloseHandler
    <3>. QED
      BY <3>2
  <2>. QED
    BY <2>1, <2>2, <2>3 DEF StartInv
<1>11. CASE Wait
  BY <1>11 DEF Wait, TypeOK, ImplInv, StartInv
<1>12. CASE Timeout
  BY <1>12 DEF Timeout, TypeOK, ImplInv, StartInv
<1>13. CASE Event
  BY <1>13 DEF Event, Ready, TypeOK, ImplInv, StartInv
<1>14. CASE Dispatch
  BY <1>14 DEF Dispatch, TypeOK, ImplInv, StartInv
<1>15. CASE ConnectComplete
  BY <1>15 DEF ConnectComplete, TypeOK, ImplInv, StartInv
<1>16. CASE ReadComplete
  BY <1>16 DEF ReadComplete, TypeOK, ImplInv, StartInv
<1>17. CASE Recv
  BY <1>17 DEF Recv, TypeOK, ImplInv, StartInv
<1>18. CASE CutMsgPack
  BY <1>18 DEF CutMsgPack, TypeOK, ImplInv, StartInv
<1>19. CASE TryRecvData
  BY <1>19 DEF TryRecvData, RecvRefused, PostRecv, TypeOK, ImplInv, StartInv
<1>20. CASE ReadClose
  BY <1>20 DEF ReadClose, CanClose, CloseLocked, ImplClose, TypeOK, ImplInv, StartInv
<1>21. CASE DispatchW
  BY <1>21 DEF DispatchW, TypeOK, ImplInv, StartInv
<1>22. CASE WriteComplete
  BY <1>22 DEF WriteComplete, TypeOK, ImplInv, StartInv
<1>23. CASE KernelSend
  BY <1>23 DEF KernelSend, TypeOK, ImplInv, StartInv
<1>24. CASE WriteHandler
  BY <1>24 DEF WriteHandler, TrySendData, SendRefused, PostSend, CloseLocked, ImplClose, TypeOK,
     ImplInv, StartInv
<1>25. CASE PeerShutdown
  BY <1>25 DEF PeerShutdown, TypeOK, ImplInv, StartInv
<1>26. CASE PeerReset
  BY <1>26 DEF PeerReset, TypeOK, ImplInv, StartInv
<1>27. CASE UNCHANGED vars
  BY <1>27 DEF vars, TypeOK, ImplInv, StartInv
<1>. QED
  BY <1>1, <1>2, <1>3, <1>4, <1>5, <1>6, <1>7, <1>8, <1>9, <1>10, <1>11, <1>12, <1>13, <1>14,
     <1>15, <1>16, <1>17, <1>18, <1>19, <1>20, <1>21, <1>22, <1>23, <1>24, <1>25, <1>26, <1>27
  DEF Step, Starter, Posted, Application, Completion, IoThread, Peer

\* A write that is on its way stays on its way until the io thread completes it.
LEMMA WriterStep == TypeOK /\ ImplInv /\ StartInv /\ WriterInv /\ [Step]_vars => WriterInv'
<1>. SUFFICES ASSUME TypeOK, ImplInv, StartInv, WriterInv, [Step]_vars
              PROVE  WriterInv'
  OBVIOUS
<1>. USE DEF sock, impl, start, loop, hist
<1>1. CASE InitAccepted
  BY <1>1 DEF InitAccepted, TypeOK, ImplInv, StartInv, WriterInv, NoIdleBacklog
<1>2. CASE ConnectSync
  BY <1>2 DEF ConnectSync, TypeOK, ImplInv, StartInv, WriterInv, NoIdleBacklog
<1>3. CASE FirstRecv
  BY <1>3 DEF FirstRecv, RecvRefused, PostRecv, TypeOK, ImplInv, StartInv, WriterInv,
     NoIdleBacklog
<1>4. CASE InitClose
  BY <1>4 DEF InitClose, CanClose, CloseLocked, ImplClose, TypeOK, ImplInv, StartInv, WriterInv,
     NoIdleBacklog
<1>5. CASE SendPosted
  <2>1. /\ post = "send" /\ post' = "none" /\ ~writing /\ "write" \in state /\ wop = buf1
        /\ flag # "close" /\ ~ioerr /\ buf1 # <<>> /\ done = 0 /\ optype' = OpBits(state)
        /\ pc \notin {"send", "whandle", "wcomplete"} \/ "write" \in state
        /\ pc \notin {"send", "whandle"} /\ pc' \notin {"send", "whandle"}
        /\ pc' \in {pc, "top"}
        /\ UNCHANGED <<buf1, buf2, done>>
    BY <1>5 DEF SendPosted, TypeOK, WriterInv
  <2>2. CASE /\ writing' = TRUE /\ state' = state \cup {"bind"} /\ reg' = Interest(OpBits(state))
             /\ UNCHANGED <<flag, wop, ioerr>>
    <3>1. "W" \in optype' /\ "OUT" \in reg'
      BY <2>1, <2>2 DEF OpBits, Interest
    <3>. QED
      BY <2>1, <2>2, <3>1 DEF WriterInv, NoIdleBacklog
  <2>3. CASE /\ "bind" \notin state /\ ioerr' = TRUE /\ UNCHANGED writing
             /\ CloseLocked(FALSE, state \ {"write"}, epoll')
    <3>1. flag' = "close" /\ ImplClose(state \ {"write"}, epoll')
      BY <2>1, <2>3 DEF CloseLocked
    <3>2. fd /\ "block" \notin state
      BY <2>1 DEF ImplInv
    <3>3. state' = state \ {"write"} \/ state' = (state \ {"write"}) \cup {"close"}
      BY <3>1, <3>2 DEF ImplClose
    <3>4. "write" \notin state' /\ "bind" \notin state'
      BY <2>3, <3>3
    <3>5. pc' # "wcomplete"
      BY <1>5, <2>3 DEF SendPosted, ImplInv
    <3>. QED
      BY <2>1, <2>3, <3>1, <3>4, <3>5 DEF WriterInv, NoIdleBacklog
  <2>. QED
    BY <1>5, <2>2, <2>3 DEF SendPosted
<1>6. CASE RecvPosted
  BY <1>6 DEF RecvPosted, AddFails, OpBits, Interest, TypeOK, ImplInv, StartInv, WriterInv,
     NoIdleBacklog
<1>7. CASE Send
  <2>1. PICK f \in Frames :
          \/ /\ writing /\ buf2' = buf2 \o f
             /\ UNCHANGED <<flag, writing, buf1, state, optype, wop, post, ioerr>>
          \/ ~writing /\ post = "none" /\ TrySendData(buf1, buf2 \o f)
    BY <1>7 DEF Send
  <2>2. flag = "start" /\ ~ioerr /\ UNCHANGED <<pc, done, reg>>
    BY <1>7 DEF Send, IsConnected, WriterInv
  <2>3. CASE /\ writing /\ buf2' = buf2 \o f
             /\ UNCHANGED <<flag, writing, buf1, state, optype, wop, post, ioerr>>
    BY <2>2, <2>3 DEF WriterInv, NoIdleBacklog
  <2>4. CASE ~writing /\ post = "none" /\ TrySendData(buf1, buf2 \o f)
    <3>1. /\ buf1 = <<>> /\ buf2 = <<>> /\ "write" \notin state /\ done = 0
          /\ pc \notin {"send", "whandle", "wcomplete"}
      BY <2>2, <2>4 DEF ImplInv, WriterInv, NoIdleBacklog
    <3>2. f \in Seq(Byte) /\ f # <<>> /\ buf2 \o f = f
      BY <3>1, FramesAssumption
    <3>3. fd
      BY <2>2 DEF ImplInv
    <3>4. /\ buf1' = f /\ buf2' = <<>> /\ writing' = FALSE
          /\ PostSend(f) /\ UNCHANGED <<flag, ioerr>>
      BY <2>4, <3>1, <3>2, <3>3 DEF TrySendData, SendRefused, Front, Back
    <3>. QED
      BY <2>2, <3>1, <3>2, <3>4 DEF PostSend, WriterInv, NoIdleBacklog
  <2>. QED
    BY <2>1, <2>3, <2>4
<1>8. CASE Close
  BY <1>8 DEF Close, Usable, CanClose, CloseLocked, ImplClose, TypeOK, ImplInv, StartInv,
     WriterInv, NoIdleBacklog
<1>9. CASE CloseFd
  BY <1>9 DEF CloseFd, TypeOK, ImplInv, StartInv, WriterInv, NoIdleBacklog
<1>10. CASE CloseHandler
  BY <1>10 DEF CloseHandler, TypeOK, ImplInv, StartInv, WriterInv, NoIdleBacklog
<1>11. CASE Wait
  BY <1>11 DEF Wait, TypeOK, ImplInv, StartInv, WriterInv, NoIdleBacklog
<1>12. CASE Timeout
  BY <1>12 DEF Timeout, TypeOK, ImplInv, StartInv, WriterInv, NoIdleBacklog
<1>13. CASE Event
  BY <1>13 DEF Event, Ready, TypeOK, ImplInv, StartInv, WriterInv, NoIdleBacklog
<1>14. CASE Dispatch
  BY <1>14 DEF Dispatch, TypeOK, ImplInv, StartInv, WriterInv, NoIdleBacklog
<1>15. CASE ConnectComplete
  BY <1>15 DEF ConnectComplete, TypeOK, ImplInv, StartInv, WriterInv, NoIdleBacklog
<1>16. CASE ReadComplete
  BY <1>16 DEF ReadComplete, Interest, TypeOK, ImplInv, StartInv, WriterInv, NoIdleBacklog
<1>17. CASE Recv
  BY <1>17 DEF Recv, TypeOK, ImplInv, StartInv, WriterInv, NoIdleBacklog
<1>18. CASE CutMsgPack
  BY <1>18 DEF CutMsgPack, TypeOK, ImplInv, StartInv, WriterInv, NoIdleBacklog
<1>19. CASE TryRecvData
  BY <1>19 DEF TryRecvData, RecvRefused, PostRecv, TypeOK, ImplInv, StartInv, WriterInv,
     NoIdleBacklog
<1>20. CASE ReadClose
  BY <1>20 DEF ReadClose, CanClose, CloseLocked, ImplClose, TypeOK, ImplInv, StartInv,
     WriterInv, NoIdleBacklog
<1>21. CASE DispatchW
  BY <1>21 DEF DispatchW, TypeOK, ImplInv, StartInv, WriterInv, NoIdleBacklog
<1>22. CASE WriteComplete
  BY <1>22 DEF WriteComplete, Interest, TypeOK, ImplInv, StartInv, WriterInv, NoIdleBacklog
<1>23. CASE KernelSend
  BY <1>23 DEF KernelSend, TypeOK, ImplInv, StartInv, WriterInv, NoIdleBacklog
<1>24. CASE WriteHandler
  BY <1>24 DEF WriteHandler, TrySendData, SendRefused, PostSend, CloseLocked, ImplClose, Front,
     Back, MoreToSend, TypeOK, ImplInv, StartInv, WriterInv, NoIdleBacklog
<1>25. CASE PeerShutdown
  BY <1>25 DEF PeerShutdown, TypeOK, ImplInv, StartInv, WriterInv, NoIdleBacklog
<1>26. CASE PeerReset
  BY <1>26 DEF PeerReset, TypeOK, ImplInv, StartInv, WriterInv, NoIdleBacklog
<1>27. CASE UNCHANGED vars
  BY <1>27 DEF vars, TypeOK, ImplInv, StartInv, WriterInv, NoIdleBacklog
<1>. QED
  BY <1>1, <1>2, <1>3, <1>4, <1>5, <1>6, <1>7, <1>8, <1>9, <1>10, <1>11, <1>12, <1>13, <1>14,
     <1>15, <1>16, <1>17, <1>18, <1>19, <1>20, <1>21, <1>22, <1>23, <1>24, <1>25, <1>26, <1>27
  DEF Step, Starter, Posted, Application, Completion, IoThread, Peer

\* The io thread closes the descriptor only between two rounds, and a socket
\* that is closed on the spot is in no epoll set.
LEMMA OpenStep ==
  TypeOK /\ ImplInv /\ OpenInRound /\ [Step]_vars => OpenInRound'
<1>. SUFFICES ASSUME TypeOK, ImplInv, OpenInRound, [Step]_vars
              PROVE  OpenInRound'
  OBVIOUS
<1>. USE DEF sock, impl, start, loop, hist, OpenInRound
<1>0. ASSUME NEW w, NEW s, NEW e, CloseLocked(w, s, e), s \subseteq state,
             pc \notin {"top", "wait", "closed"}
      PROVE  fd'
  <2>1. fd /\ "block" \notin s
    BY <1>0 DEF ImplInv
  <2>. QED
    BY <1>0, <2>1 DEF CloseLocked, ImplClose
<1>1. CASE InitClose \/ Close \/ ReadClose
  BY <1>0, <1>1 DEF InitClose, Close, ReadClose
<1>2. CASE SendPosted
  <2>1. pc' \in {pc, "top"}
    BY <1>2 DEF SendPosted
  <2>2. UNCHANGED fd \/ CloseLocked(FALSE, state \ {"write"}, epoll')
    BY <1>2 DEF SendPosted
  <2>. QED
    BY <1>0, <2>1, <2>2
<1>3. CASE Send
  <2>1. UNCHANGED pc /\ (UNCHANGED fd \/ CloseLocked(FALSE, state, epoll))
    BY <1>3 DEF Send, TrySendData
  <2>. QED
    BY <1>0, <2>1
<1>4. CASE WriteHandler
  <2>1. pc = "whandle" /\ (UNCHANGED fd \/ CloseLocked(FALSE, state, epoll))
    BY <1>4 DEF WriteHandler, TrySendData
  <2>. QED
    BY <1>0, <2>1
<1>5. CASE Event
  BY <1>5 DEF Event, Ready, ImplInv
<1>6. CASE \/ InitAccepted \/ ConnectSync \/ FirstRecv \/ RecvPosted \/ CloseFd \/ CloseHandler
           \/ Wait \/ Timeout \/ Dispatch \/ ConnectComplete \/ ReadComplete \/ Recv \/ CutMsgPack
           \/ TryRecvData \/ DispatchW \/ WriteComplete \/ KernelSend \/ Peer \/ UNCHANGED vars
  BY <1>6 DEF InitAccepted, ConnectSync, FirstRecv, RecvPosted, CloseFd, CloseHandler, Wait,
     Timeout, Dispatch, ConnectComplete, ReadComplete, Recv, CutMsgPack, TryRecvData, DispatchW,
     WriteComplete, KernelSend, Peer, PeerShutdown, PeerReset, vars
<1>. QED
  BY <1>1, <1>2, <1>3, <1>4, <1>5, <1>6
  DEF Step, Starter, Posted, Application, Completion, IoThread

\* The read bit, the registration and _type agree through every write and close.
LEMMA ReadBitsStep ==
  TypeOK /\ ImplInv /\ StartInv /\ WriterInv /\ ReadBits /\ [Step]_vars => ReadBits'
<1>. SUFFICES ASSUME TypeOK, ImplInv, StartInv, WriterInv, ReadBits, [Step]_vars
              PROVE  ReadBits'
  OBVIOUS
<1>. USE DEF sock, impl, start, loop, hist
<1>1. CASE InitAccepted
  BY <1>1 DEF InitAccepted, TypeOK, StartInv, ImplInv, ReadBits
<1>2. CASE ConnectSync
  BY <1>2 DEF ConnectSync, TypeOK, StartInv, ImplInv, ReadBits
<1>3. CASE FirstRecv
  BY <1>3 DEF FirstRecv, RecvRefused, PostRecv, TypeOK, ImplInv, ReadBits
<1>4. CASE InitClose
  BY <1>4 DEF InitClose, CanClose, CloseLocked, ImplClose, TypeOK, ImplInv, ReadBits
<1>5. CASE SendPosted
  <2>1. /\ post = "send" /\ post' = "none" /\ fd /\ "block" \notin state /\ flag # "close"
        /\ optype' = OpBits(state)
        /\ ("read" \in state => "bind" \in state)
    BY <1>5 DEF SendPosted, ImplInv, WriterInv, ReadBits
  <2>2. CASE state' = state \cup {"bind"} /\ reg' = Interest(OpBits(state)) /\ UNCHANGED flag
    BY <2>1, <2>2 DEF OpBits, Interest, ReadBits
  <2>3. CASE "bind" \notin state /\ CloseLocked(FALSE, state \ {"write"}, epoll')
    <3>1. flag' = "close" /\ ImplClose(state \ {"write"}, epoll')
      BY <2>1, <2>3 DEF CloseLocked
    <3>2. "read" \notin state' /\ "bind" \notin state'
      <4>1. state' = state \ {"write"} \/ state' = (state \ {"write"}) \cup {"close"}
        BY <2>1, <3>1 DEF ImplClose
      <4>. QED
        BY <2>1, <2>3, <4>1
    <3>. QED
      BY <2>1, <3>1, <3>2 DEF ReadBits
  <2>. QED
    BY <1>5, <2>2, <2>3 DEF SendPosted
<1>6. CASE RecvPosted
  BY <1>6 DEF RecvPosted, AddFails, OpBits, Interest, TypeOK, ImplInv, ReadBits
<1>7. CASE Send
  BY <1>7 DEF Send, TrySendData, SendRefused, PostSend, CloseLocked, ImplClose, TypeOK,
     ImplInv, ReadBits
<1>8. CASE Close
  BY <1>8 DEF Close, CanClose, CloseLocked, ImplClose, TypeOK, ImplInv, ReadBits
<1>9. CASE CloseFd
  BY <1>9 DEF CloseFd, TypeOK, ImplInv, ReadBits
<1>10. CASE CloseHandler
  BY <1>10 DEF CloseHandler, ReadBits
<1>11. CASE Wait
  BY <1>11 DEF Wait, ReadBits
<1>12. CASE Timeout
  BY <1>12 DEF Timeout, ReadBits
<1>13. CASE Event
  BY <1>13 DEF Event, ReadBits
<1>14. CASE Dispatch
  BY <1>14 DEF Dispatch, ReadBits
<1>15. CASE ConnectComplete
  BY <1>15 DEF ConnectComplete, TypeOK, StartInv, ImplInv, ReadBits
<1>16. CASE ReadComplete
  BY <1>16 DEF ReadComplete, Interest, TypeOK, ImplInv, ReadBits
<1>17. CASE Recv
  BY <1>17 DEF Recv, ReadBits
<1>18. CASE CutMsgPack
  BY <1>18 DEF CutMsgPack, ReadBits
<1>19. CASE TryRecvData
  BY <1>19 DEF TryRecvData, RecvRefused, PostRecv, TypeOK, ImplInv, ReadBits
<1>20. CASE ReadClose
  BY <1>20 DEF ReadClose, CanClose, CloseLocked, ImplClose, TypeOK, ImplInv, ReadBits
<1>21. CASE DispatchW
  BY <1>21 DEF DispatchW, ReadBits
<1>22. CASE WriteComplete
  BY <1>22 DEF WriteComplete, Interest, TypeOK, ImplInv, ReadBits
<1>23. CASE KernelSend
  BY <1>23 DEF KernelSend, ReadBits
<1>24. CASE WriteHandler
  BY <1>24 DEF WriteHandler, TrySendData, SendRefused, PostSend, CloseLocked, ImplClose,
     TypeOK, ImplInv, ReadBits
<1>25. CASE PeerShutdown
  BY <1>25 DEF PeerShutdown, ReadBits
<1>26. CASE PeerReset
  BY <1>26 DEF PeerReset, ReadBits
<1>27. CASE UNCHANGED vars
  BY <1>27 DEF vars, ReadBits
<1>. QED
  BY <1>1, <1>2, <1>3, <1>4, <1>5, <1>6, <1>7, <1>8, <1>9, <1>10, <1>11, <1>12, <1>13, <1>14,
     <1>15, <1>16, <1>17, <1>18, <1>19, <1>20, <1>21, <1>22, <1>23, <1>24, <1>25, <1>26, <1>27
  DEF Step, Starter, Posted, Application, Completion, IoThread, Peer

\* A started connection keeps its read, posted or in the hands of the io
\* thread.
LEMMA ReadingStep ==
  /\ TypeOK /\ ImplInv /\ StartInv /\ WriterInv /\ ReadBits /\ Reading
  /\ [Step]_vars
  => Reading'
<1>. SUFFICES ASSUME TypeOK, ImplInv, StartInv, WriterInv, ReadBits, Reading, [Step]_vars
              PROVE  Reading'
  OBVIOUS
<1>. USE DEF sock, impl, start, loop, hist
<1>1. CASE InitAccepted
  BY <1>1 DEF InitAccepted, TypeOK, StartInv, ImplInv, Reading
<1>2. CASE ConnectSync
  BY <1>2 DEF ConnectSync, TypeOK, StartInv, ImplInv, Reading
<1>3. CASE FirstRecv
  BY <1>3 DEF FirstRecv, RecvRefused, PostRecv, TypeOK, ImplInv, Reading
<1>4. CASE InitClose
  BY <1>4 DEF InitClose, CanClose, CloseLocked, ImplClose, TypeOK, ImplInv, Reading
<1>5. CASE SendPosted
  <2>1. /\ UNCHANGED st /\ flag # "close"
        /\ (pc \in {"recv", "deliver", "tryrecv", "rclose"} => pc' = pc)
    BY <1>5 DEF SendPosted, WriterInv
  <2>2. \/ state' = state \cup {"bind"} /\ UNCHANGED flag
        \/ flag' = "close"
    BY <1>5, <2>1 DEF SendPosted, CloseLocked
  <2>. QED
    BY <2>1, <2>2 DEF Reading
<1>6. CASE RecvPosted
  BY <1>6 DEF RecvPosted, ReadBits, Reading
<1>7. CASE Send
  BY <1>7 DEF Send, TrySendData, SendRefused, PostSend, CloseLocked, ImplClose, TypeOK,
     ImplInv, Reading
<1>8. CASE Close
  BY <1>8 DEF Close, CanClose, CloseLocked, ImplClose, TypeOK, ImplInv, Reading
<1>9. CASE CloseFd
  BY <1>9 DEF CloseFd, TypeOK, ImplInv, Reading
<1>10. CASE CloseHandler
  BY <1>10 DEF CloseHandler, Reading
<1>11. CASE Wait
  BY <1>11 DEF Wait, Reading
<1>12. CASE Timeout
  BY <1>12 DEF Timeout, Reading
<1>13. CASE Event
  BY <1>13 DEF Event, Reading
<1>14. CASE Dispatch
  BY <1>14 DEF Dispatch, Reading
<1>15. CASE ConnectComplete
  BY <1>15 DEF ConnectComplete, TypeOK, StartInv, ImplInv, Reading
<1>16. CASE ReadComplete
  BY <1>16 DEF ReadComplete, ImplInv, Reading
<1>17. CASE Recv
  BY <1>17 DEF Recv, Reading
<1>18. CASE CutMsgPack
  BY <1>18 DEF CutMsgPack, Reading
<1>19. CASE TryRecvData
  BY <1>19 DEF TryRecvData, RecvRefused, PostRecv, TypeOK, ImplInv, Reading
<1>20. CASE ReadClose
  BY <1>20 DEF ReadClose, CanClose, CloseLocked, ImplClose, TypeOK, ImplInv, Reading
<1>21. CASE DispatchW
  BY <1>21 DEF DispatchW, Reading
<1>22. CASE WriteComplete
  BY <1>22 DEF WriteComplete, Reading
<1>23. CASE KernelSend
  BY <1>23 DEF KernelSend, Reading
<1>24. CASE WriteHandler
  BY <1>24 DEF WriteHandler, TrySendData, SendRefused, PostSend, CloseLocked, ImplClose,
     TypeOK, ImplInv, Reading
<1>25. CASE PeerShutdown
  BY <1>25 DEF PeerShutdown, Reading
<1>26. CASE PeerReset
  BY <1>26 DEF PeerReset, Reading
<1>27. CASE UNCHANGED vars
  BY <1>27 DEF vars, Reading
<1>. QED
  BY <1>1, <1>2, <1>3, <1>4, <1>5, <1>6, <1>7, <1>8, <1>9, <1>10, <1>11, <1>12, <1>13, <1>14,
     <1>15, <1>16, <1>17, <1>18, <1>19, <1>20, <1>21, <1>22, <1>23, <1>24, <1>25, <1>26, <1>27
  DEF Step, Starter, Posted, Application, Completion, IoThread, Peer

\* The callbacks keep their order.
LEMMA LogStep ==
  TypeOK /\ ImplInv /\ StartInv /\ OpenInRound /\ LogInv /\ [Step]_vars => LogInv'
<1>. SUFFICES ASSUME TypeOK, ImplInv, StartInv, OpenInRound, LogInv, [Step]_vars
              PROVE  LogInv'
  OBVIOUS
<1>. USE DEF sock, impl, start, loop, hist
<1>1. CASE InitAccepted
  BY <1>1 DEF InitAccepted, TypeOK, ImplInv, StartInv, LogInv, Ordered
<1>2. CASE ConnectSync
  BY <1>2 DEF ConnectSync, TypeOK, ImplInv, StartInv, LogInv, Ordered
<1>3. CASE FirstRecv
  BY <1>3 DEF FirstRecv, RecvRefused, PostRecv, TypeOK, ImplInv, StartInv, LogInv, Ordered
<1>4. CASE InitClose
  BY <1>4 DEF InitClose, CanClose, CloseLocked, ImplClose, TypeOK, ImplInv, StartInv, LogInv,
     Ordered
<1>5. CASE SendPosted
  BY <1>5 DEF SendPosted, CloseLocked, ImplClose, AddFails, TypeOK, ImplInv, StartInv, LogInv,
     Ordered
<1>6. CASE RecvPosted
  BY <1>6 DEF RecvPosted, AddFails, TypeOK, ImplInv, StartInv, LogInv, Ordered
<1>7. CASE Send
  BY <1>7 DEF Send, IsConnected, Usable, TrySendData, SendRefused, PostSend, CloseLocked,
     ImplClose, TypeOK, ImplInv, StartInv, LogInv, Ordered
<1>8. CASE Close
  BY <1>8 DEF Close, Usable, CanClose, CloseLocked, ImplClose, TypeOK, ImplInv, StartInv,
     LogInv, Ordered
<1>9. CASE CloseFd
  BY <1>9 DEF CloseFd, TypeOK, ImplInv, StartInv, LogInv, Ordered
<1>10. CASE CloseHandler
  <2>1. pc = "closed" /\ ~fd /\ UNCHANGED <<fd, kind, st>> /\ pc' # "closed"
    BY <1>10 DEF CloseHandler, LogInv
  <2>2. kind # "sync" => log # <<>>
    BY <2>1 DEF ImplInv, StartInv, TypeOK
  <2>3. log \in Seq(Callbacks) /\ "disconnected" \in Callbacks
    BY DEF TypeOK, Callbacks
  <2>4. /\ Len(log') = Len(log) + 1 /\ log'[Len(log) + 1] = "disconnected"
        /\ \A i \in 1..Len(log) : log'[i] = log[i]
    BY <1>10, <2>3, LogAppend DEF CloseHandler
  <2>5. \A i \in 1..Len(log) : log[i] # "disconnected"
    BY <2>1 DEF LogInv
  <2>. QED
    BY <2>1, <2>2, <2>3, <2>4, <2>5 DEF LogInv, Ordered
<1>11. CASE Wait
  BY <1>11 DEF Wait, TypeOK, ImplInv, StartInv, LogInv, Ordered
<1>12. CASE Timeout
  BY <1>12 DEF Timeout, TypeOK, ImplInv, StartInv, LogInv, Ordered
<1>13. CASE Event
  BY <1>13 DEF Event, Ready, TypeOK, ImplInv, StartInv, LogInv, Ordered
<1>14. CASE Dispatch
  BY <1>14 DEF Dispatch, TypeOK, ImplInv, StartInv, LogInv, Ordered
<1>15. CASE ConnectComplete
  BY <1>15 DEF ConnectComplete, TypeOK, ImplInv, StartInv, LogInv, Ordered
<1>16. CASE ReadComplete
  BY <1>16 DEF ReadComplete, TypeOK, ImplInv, StartInv, LogInv, Ordered
<1>17. CASE Recv
  BY <1>17 DEF Recv, TypeOK, ImplInv, StartInv, LogInv, Ordered
<1>18. CASE CutMsgPack
  <2>1. pc = "deliver" /\ UNCHANGED <<fd, kind, st>> /\ pc' # "closed"
    BY <1>18 DEF CutMsgPack
  <2>2. fd /\ (kind # "sync" => log # <<>>)
    BY <2>1 DEF OpenInRound, StartInv, TypeOK
  <2>3. CASE UNCHANGED log
    BY <2>1, <2>3 DEF LogInv, Ordered
  <2>4. CASE log' = Append(log, "data")
    <3>1. log \in Seq(Callbacks) /\ "data" \in Callbacks
      BY DEF TypeOK, Callbacks
    <3>2. /\ Len(log') = Len(log) + 1 /\ log'[Len(log) + 1] = "data"
          /\ \A i \in 1..Len(log) : log'[i] = log[i]
      BY <2>4, <3>1, LogAppend
    <3>3. \A i \in 1..Len(log) : log[i] # "disconnected"
      BY <2>2 DEF LogInv
    <3>. QED
      BY <2>1, <2>2, <3>1, <3>2, <3>3 DEF LogInv, Ordered
  <2>. QED
    BY <1>18, <2>3, <2>4 DEF CutMsgPack
<1>19. CASE TryRecvData
  BY <1>19 DEF TryRecvData, RecvRefused, PostRecv, TypeOK, ImplInv, StartInv, LogInv,
     Ordered
<1>20. CASE ReadClose
  BY <1>20 DEF ReadClose, CanClose, CloseLocked, ImplClose, TypeOK, ImplInv, StartInv, LogInv,
     Ordered
<1>21. CASE DispatchW
  BY <1>21 DEF DispatchW, TypeOK, ImplInv, StartInv, LogInv, Ordered
<1>22. CASE WriteComplete
  BY <1>22 DEF WriteComplete, TypeOK, ImplInv, StartInv, LogInv, Ordered
<1>23. CASE KernelSend
  BY <1>23 DEF KernelSend, TypeOK, ImplInv, StartInv, LogInv, Ordered
<1>24. CASE WriteHandler
  BY <1>24 DEF WriteHandler, TrySendData, SendRefused, PostSend, CloseLocked, ImplClose, TypeOK,
     ImplInv, StartInv, LogInv, Ordered
<1>25. CASE PeerShutdown
  BY <1>25 DEF PeerShutdown, TypeOK, ImplInv, StartInv, LogInv, Ordered
<1>26. CASE PeerReset
  BY <1>26 DEF PeerReset, TypeOK, ImplInv, StartInv, LogInv, Ordered
<1>27. CASE UNCHANGED vars
  BY <1>27 DEF vars, TypeOK, ImplInv, StartInv, LogInv, Ordered
<1>. QED
  BY <1>1, <1>2, <1>3, <1>4, <1>5, <1>6, <1>7, <1>8, <1>9, <1>10, <1>11, <1>12, <1>13, <1>14,
     <1>15, <1>16, <1>17, <1>18, <1>19, <1>20, <1>21, <1>22, <1>23, <1>24, <1>25, <1>26, <1>27
  DEF Step, Starter, Posted, Application, Completion, IoThread, Peer

\* What OnDisconnected was called for stays reported.
LEMMA ReportKept ==
  ASSUME log \in Seq(Callbacks), NEW c \in Callbacks, log' = log \/ log' = Append(log, c)
  PROVE  /\ Reported => Reported'
         /\ c = "disconnected" /\ log' = Append(log, c) => Reported'
<1>1. CASE log' = log
  <2>1. log' # Append(log, c)
    BY <1>1, LogAppend
  <2>. QED
    BY <1>1, <2>1 DEF Reported
<1>2. CASE log' = Append(log, c)
  <2>1. /\ Len(log') = Len(log) + 1 /\ log'[Len(log) + 1] = c
        /\ \A i \in 1..Len(log) : log'[i] = log[i]
    BY <1>2, LogAppend
  <2>2. Len(log) \in Nat
    OBVIOUS
  <2>. QED
    BY <2>1, <2>2 DEF Reported
<1>. QED
  BY <1>1, <1>2

\* A socket that is closed by bits s and the io thread e: the request is queued,
\* unless the descriptor belonged to no io thread or is closed already.
LEMMA CloseRequested ==
  ASSUME TypeOK, ImplInv, ReportInv, NEW s, s \subseteq state, NEW e \in BOOLEAN,
         CloseLocked(FALSE, s, e), "block" \in s => ~e, epoll' = e, flag = "close" => e = epoll,
         UNCHANGED log, pc' = "closed" <=> pc = "closed"
  PROVE  /\ flag' = "close" /\ state' \subseteq s \cup {"close"}
         /\ fd' /\ epoll' => closereqs' > 0
         /\ ~fd' /\ epoll' => pc' = "closed" \/ Reported'
         /\ (fd' => fd /\ "block" \notin s) /\ "block" \notin state'
<1>1. Reported => Reported'
  BY DEF Reported
<1>2. CASE flag = "close"
  BY <1>1, <1>2 DEF CloseLocked, ReportInv
<1>3. CASE flag # "close"
  <2>1. fd /\ "close" \notin s /\ flag' = "close" /\ ImplClose(s, e)
    BY <1>3 DEF CloseLocked, ImplInv, ReportInv
  <2>2. closereqs' = (IF e THEN closereqs + 1 ELSE closereqs) /\ closereqs \in Nat
    BY <2>1 DEF ImplClose, TypeOK
  <2>3. CASE "block" \in s
    BY <2>1, <2>2, <2>3 DEF ImplClose
  <2>4. CASE "block" \notin s
    BY <2>1, <2>2, <2>4 DEF ImplClose
  <2>. QED
    BY <2>3, <2>4
<1>. QED
  BY <1>2, <1>3

\* A step that touches none of it.
LEMMA ReportSame ==
  ASSUME ReportInv, UNCHANGED <<flag, fd, epoll, closereqs, post, kind, st, writing, log>>,
         state' \subseteq state, "block" \in state => "block" \in state',
         pc' = "closed" <=> pc = "closed"
  PROVE  ReportInv'
<1>1. Reported' <=> Reported
  BY DEF Reported
<1>. QED
  BY <1>1 DEF ReportInv

\* No step loses the request to close.
LEMMA ReportStep ==
  TypeOK /\ ImplInv /\ StartInv /\ WriterInv /\ ReportInv /\ [Step]_vars => ReportInv'
<1>. SUFFICES ASSUME TypeOK, ImplInv, StartInv, WriterInv, ReportInv, [Step]_vars
              PROVE  ReportInv'
  OBVIOUS
<1>. USE DEF sock, impl, start, loop, hist
<1>1. CASE InitAccepted \/ ConnectSync
  <2>1. /\ st = "begin" /\ kind # "async" /\ UNCHANGED <<fd, epoll, state, post, closereqs, kind>>
        /\ flag' \in {"start", "stop"} /\ UNCHANGED <<pc, writing>>
        /\ (kind = "sync" => flag' = "start" /\ UNCHANGED log)
    BY <1>1 DEF InitAccepted, ConnectSync, StartInv
  <2>2. flag = "stop" /\ log = <<>> /\ post = "none" /\ ~writing /\ "bind" \notin state /\ fd
    BY <2>1 DEF StartInv, ImplInv
  <2>. QED
    BY <2>1, <2>2 DEF ReportInv
<1>2. CASE ConnectComplete
  <2>1. /\ st = "begin" /\ flag = "stop" /\ kind = "async" /\ fd
        /\ UNCHANGED <<fd, epoll, post, closereqs, kind, writing>> /\ post = "none"
        /\ flag' \in {"start", "stop"} /\ state' = state \ {"connect"}
        /\ pc' # "closed"
    BY <1>2 DEF ConnectComplete, StartInv, ImplInv
  <2>2. "bind" \in state /\ epoll
    BY <2>1 DEF StartInv, ReportInv
  <2>. QED
    BY <2>1, <2>2 DEF ReportInv
<1>3. CASE FirstRecv \/ TryRecvData
  <2>0. Reported' <=> Reported
    BY <1>3 DEF FirstRecv, TryRecvData, Reported
  <2>1. /\ UNCHANGED <<flag, fd, epoll, closereqs, kind, writing, log>> /\ post = "none"
        /\ pc # "closed" => pc' # "closed"
        /\ pc = "closed" => pc' = "closed"
        /\ st' = "posting" => st = "posting"
    BY <1>3 DEF FirstRecv, TryRecvData
  <2>2. CASE UNCHANGED <<state, post>>
    BY <2>0, <2>1, <2>2 DEF ReportInv
  <2>3. CASE fd /\ PostRecv
    <3>1. flag = "close" => epoll
      <4>1. CASE FirstRecv
        <5>1. st = "posting"
          BY <4>1 DEF FirstRecv
        <5>2. CASE kind = "sync"
          BY <5>1, <5>2 DEF ReportInv
        <5>3. CASE kind # "sync"
          <6>1. CASE "block" \notin state
            BY <2>1, <2>3, <5>3, <6>1 DEF ReportInv
          <6>2. CASE "block" \in state /\ flag = "close"
            BY <6>2 DEF ReportInv
          <6>. QED
            BY <6>1, <6>2
        <5>. QED
          BY <5>2, <5>3
      <4>2. CASE TryRecvData
        BY <2>3, <4>2 DEF TryRecvData, ImplInv, ReportInv
      <4>. QED
        BY <1>3, <4>1, <4>2
    <3>2. state' = (state \ {"block"}) \cup {"read"} /\ post' = "recv"
      BY <2>3 DEF PostRecv
    <3>. QED
      BY <2>0, <2>1, <2>3, <3>1, <3>2 DEF ReportInv
  <2>. QED
    BY <1>3, <2>2, <2>3 DEF FirstRecv, TryRecvData, RecvRefused
<1>4. CASE RecvPosted
  <2>0. Reported' <=> Reported
    BY <1>4 DEF RecvPosted, Reported
  <2>1. /\ UNCHANGED <<flag, fd, closereqs, kind, writing, log>> /\ post = "recv" /\ post' = "none"
        /\ fd /\ "block" \notin state /\ pc # "closed" /\ pc' # "closed"
        /\ (flag = "close" => closereqs > 0)
    BY <1>4 DEF RecvPosted, ImplInv, ReportInv
  <2>2. /\ state' \subseteq state \cup {"bind"} /\ st' # "posting"
        /\ ("bind" \in state' \/ kind # "sync" => epoll')
    BY <1>4 DEF RecvPosted, AddFails
  <2>. QED
    BY <2>0, <2>1, <2>2 DEF ReportInv
<1>5. ASSUME NEW s, s \subseteq state, NEW e \in BOOLEAN, CloseLocked(FALSE, s, e), epoll' = e,
             "block" \in s => ~e, flag = "close" => e = epoll,
             "bind" \in s => e, kind # "sync" /\ "block" \notin s /\ fd => e,
             UNCHANGED <<log, kind>>, pc' = "closed" <=> pc = "closed", post' = "none",
             ~(kind = "sync" /\ st' = "posting")
      PROVE  ReportInv'
  <2>1. /\ flag' = "close" /\ state' \subseteq s \cup {"close"}
        /\ fd' /\ epoll' => closereqs' > 0
        /\ ~fd' /\ epoll' => pc' = "closed" \/ Reported'
        /\ (fd' => fd /\ "block" \notin s) /\ "block" \notin state'
    BY <1>5, CloseRequested
  <2>. QED
    BY <1>5, <2>1 DEF ReportInv
<1>6. CASE InitClose \/ Close \/ ReadClose
  <2>1. /\ CanClose /\ CloseLocked(writing, state, epoll)
        /\ UNCHANGED <<epoll, post, kind, log, writing>>
        /\ pc' = "closed" <=> pc = "closed"
    BY <1>6 DEF InitClose, Close, ReadClose
  <2>2. ~(kind = "sync" /\ st' = "posting")
    <3>1. CASE InitClose
      BY <3>1 DEF InitClose
    <3>2. CASE Close
      BY <3>2 DEF Close, Usable, ReportInv
    <3>3. CASE ReadClose
      BY <3>3 DEF ReadClose, ImplInv, ReportInv
    <3>. QED
      BY <1>6, <3>1, <3>2, <3>3
  <2>3. CASE writing
    <3>1. flag # "close" /\ flag' = "stop" /\ UNCHANGED <<state, fd, closereqs>>
      BY <2>1, <2>3 DEF CloseLocked, WriterInv
    <3>2. Reported' <=> Reported
      BY <2>1 DEF Reported
    <3>. QED
      BY <2>1, <2>2, <3>1, <3>2 DEF ReportInv
  <2>4. CASE ~writing
    <3>1. post = "none" /\ writing = FALSE /\ epoll \in BOOLEAN
      BY <2>1, <2>4 DEF CanClose, TypeOK
    <3>2. CloseLocked(FALSE, state, epoll)
      BY <2>1, <3>1
    <3>3. /\ "block" \in state => ~epoll
          /\ "bind" \in state => epoll
          /\ kind # "sync" /\ "block" \notin state /\ fd => epoll
      BY <3>1 DEF ImplInv, ReportInv
    <3>. QED
      BY <1>5, <2>1, <2>2, <3>1, <3>2, <3>3
  <2>. QED
    BY <2>3, <2>4
<1>7. CASE SendPosted
  <2>1. /\ post = "send" /\ post' = "none" /\ flag # "close" /\ fd /\ "block" \notin state
        /\ UNCHANGED <<kind, st, log>> /\ (pc' = "closed" <=> pc = "closed")
        /\ ~(kind = "sync" /\ st = "posting")
    BY <1>7 DEF SendPosted, WriterInv, ImplInv, ReportInv
  <2>2. CASE state' = state \cup {"bind"} /\ epoll' = TRUE /\ UNCHANGED <<flag, fd, closereqs>>
    BY <2>1, <2>2 DEF ReportInv
  <2>3. CASE "bind" \notin state /\ epoll' \in AddFails /\ CloseLocked(FALSE, state \ {"write"}, epoll')
    <3>1. epoll' \in BOOLEAN /\ (kind # "sync" => epoll')
      BY <2>3 DEF AddFails, TypeOK
    <3>. QED
      BY <1>5, <2>1, <2>3, <3>1
  <2>. QED
    BY <1>7, <2>2, <2>3 DEF SendPosted
<1>8. CASE Send \/ WriteHandler
  <2>1. /\ UNCHANGED <<kind, st, log, epoll>> /\ (pc' = "closed" <=> pc = "closed")
        /\ ~(kind = "sync" /\ st = "posting")
    BY <1>8 DEF Send, Usable, WriteHandler, WriterInv, ReportInv
  <2>2. \/ UNCHANGED <<flag, fd, state, closereqs, post>>
        \/ /\ post' = "send" /\ flag # "close" /\ state' = (state \ {"block"}) \cup {"write"}
           /\ UNCHANGED <<flag, fd, closereqs>>
        \/ post = "none" /\ post' = "none" /\ CloseLocked(FALSE, state, epoll)
    <3>1. CASE Send
      BY <3>1 DEF Send, IsConnected, TrySendData, PostSend
    <3>2. CASE WriteHandler
      BY <3>2 DEF WriteHandler, TrySendData, PostSend, WriterInv
    <3>. QED
      BY <1>8, <3>1, <3>2
  <2>0. Reported' <=> Reported
    BY <2>1 DEF Reported
  <2>3. CASE UNCHANGED <<flag, fd, state, closereqs, post>>
    BY <2>0, <2>1, <2>3 DEF ReportInv
  <2>4. CASE /\ post' = "send" /\ flag # "close" /\ state' = (state \ {"block"}) \cup {"write"}
             /\ UNCHANGED <<flag, fd, closereqs>>
    BY <2>0, <2>1, <2>4 DEF ReportInv
  <2>5. CASE post = "none" /\ post' = "none" /\ CloseLocked(FALSE, state, epoll)
    <3>1. /\ "block" \in state => ~epoll
          /\ "bind" \in state => epoll
          /\ kind # "sync" /\ "block" \notin state /\ fd => epoll
      BY <2>5 DEF ImplInv, ReportInv
    <3>2. epoll \in BOOLEAN
      BY DEF TypeOK
    <3>. QED
      BY <1>5, <2>1, <2>5, <3>1, <3>2
  <2>. QED
    BY <2>2, <2>3, <2>4, <2>5
<1>9. CASE CloseFd
  <2>1. /\ flag = "close" /\ state' = {} /\ fd' = FALSE /\ pc' = "closed" /\ post' = "none"
        /\ UNCHANGED <<flag, kind, st>>
    BY <1>9 DEF CloseFd, ImplInv
  <2>. QED
    BY <2>1 DEF ReportInv
<1>10. CASE CloseHandler
  <2>1. /\ pc = "closed" /\ log' = Append(log, "disconnected") /\ pc' = "top" /\ ~fd
        /\ UNCHANGED <<flag, fd, epoll, state, closereqs, post, kind, st, writing>>
    BY <1>10 DEF CloseHandler, ReportInv
  <2>2. Reported'
    BY <2>1, ReportKept DEF TypeOK, Callbacks
  <2>. QED
    BY <2>1, <2>2 DEF ReportInv
<1>11. CASE CutMsgPack
  <2>1. /\ pc = "deliver" /\ (log' = log \/ log' = Append(log, "data")) /\ pc' # "closed"
        /\ UNCHANGED <<flag, fd, epoll, state, closereqs, post, kind, st, writing>>
    BY <1>11 DEF CutMsgPack
  <2>2. Reported => Reported'
    BY <2>1, ReportKept DEF TypeOK, Callbacks
  <2>3. ~(kind = "sync" /\ st = "posting")
    BY <2>1 DEF ImplInv, ReportInv
  <2>. QED
    BY <2>1, <2>2, <2>3 DEF ReportInv
<1>12. CASE \/ Wait \/ Timeout \/ Event \/ Dispatch \/ ReadComplete \/ Recv \/ DispatchW
            \/ WriteComplete \/ KernelSend \/ Peer \/ UNCHANGED vars
  <2>1. /\ UNCHANGED <<flag, fd, epoll, closereqs, post, kind, st, writing, log>>
        /\ pc' = "closed" <=> pc = "closed"
    BY <1>12 DEF Wait, Timeout, Event, Dispatch, ReadComplete, Recv, DispatchW, WriteComplete,
       KernelSend, Peer, PeerShutdown, PeerReset, vars
  <2>2. state' \subseteq state /\ ("block" \in state => "block" \in state')
    BY <1>12 DEF Wait, Timeout, Event, Dispatch, ReadComplete, Recv, DispatchW, WriteComplete,
       KernelSend, Peer, PeerShutdown, PeerReset, vars
  <2>. QED
    BY <2>1, <2>2, ReportSame
<1>. QED
  BY <1>1, <1>2, <1>3, <1>4, <1>6, <1>7, <1>8, <1>9, <1>10, <1>11, <1>12
  DEF Step, Starter, Posted, Application, Completion, IoThread

\* Joining byte sequences.
LEMMA JoinType == \A a, b \in Seq(Byte) : a \o b \in Seq(Byte)
BY ConcatProperties

\* Joining is associative.
LEMMA JoinAssoc == \A a, b, c \in Seq(Byte) : (a \o b) \o c = a \o (b \o c)
BY ConcatAssociative

\* The swap of the buffers keeps what they hold.
LEMMA FrontBack ==
  ASSUME NEW b1 \in Seq(Byte), NEW b2 \in Seq(Byte)
  PROVE  Front(b1, b2) \o Back(b1, b2) = b1 \o b2
BY DEF Front, Back

\* Where the count of the bytes sent is kept until _WriteHandler cuts them off.
DoneInv ==
  /\ pc = "send" => wop = buf1
  /\ pc = "whandle" => writing /\ done <= Len(buf1)
  /\ pc # "whandle" => done = 0

\* No byte is lost, repeated or moved.
LEMMA StreamStep == TypeOK /\ DoneInv /\ NothingLost /\ [Step]_vars => NothingLost'
<1>. SUFFICES ASSUME TypeOK, DoneInv, NothingLost, [Step]_vars
              PROVE  NothingLost'
  OBVIOUS
<1>. USE DEF sock, impl, start, loop, hist
<1>1. CASE InitAccepted
  BY <1>1 DEF InitAccepted, NothingLost
<1>2. CASE ConnectSync
  BY <1>2 DEF ConnectSync, NothingLost
<1>3. CASE FirstRecv
  BY <1>3 DEF FirstRecv, NothingLost
<1>4. CASE InitClose
  BY <1>4 DEF InitClose, NothingLost
<1>5. CASE SendPosted
  BY <1>5 DEF SendPosted, NothingLost
<1>6. CASE RecvPosted
  BY <1>6 DEF RecvPosted, NothingLost
<1>7. CASE Send
  <2>1. PICK f \in Frames :
          /\ accepted' = accepted \o f
          /\ \/ writing /\ buf2' = buf2 \o f /\ UNCHANGED buf1
             \/ ~writing /\ TrySendData(buf1, buf2 \o f)
    BY <1>7 DEF Send
  <2>2. UNCHANGED <<sent, done>>
    BY <1>7 DEF Send
  <2>t. /\ f \in Seq(Byte) /\ sent \in Seq(Byte) /\ buf1 \in Seq(Byte) /\ buf2 \in Seq(Byte)
        /\ buf2 \o f \in Seq(Byte)
    BY FramesAssumption DEF TypeOK
  <2>3. CASE buf2' = buf2 \o f /\ UNCHANGED buf1
    <3>1. Cut(buf1, done) \in Seq(Byte)
      BY <2>t, CutType DEF DoneInv, TypeOK
    <3>2. sent \o Cut(buf1, done) \in Seq(Byte)
      BY <2>t, <3>1, JoinType, ZenonT(60)
    <3>3. (sent \o Cut(buf1, done)) \o (buf2 \o f) = ((sent \o Cut(buf1, done)) \o buf2) \o f
      BY <2>t, <3>2, JoinAssoc, ZenonT(60)
    <3>. QED
      BY <2>1, <2>2, <2>3, <3>3 DEF NothingLost
  <2>4. CASE ~writing /\ TrySendData(buf1, buf2 \o f)
    <3>1. done = 0
      BY <2>4 DEF DoneInv
    <3>2. buf1' \in Seq(Byte) /\ buf2' \in Seq(Byte)
      BY <2>t, <2>4 DEF TrySendData, Front, Back
    <3>3. buf1' \o buf2' = buf1 \o (buf2 \o f)
      BY <2>t, <2>4, FrontBack DEF TrySendData
    <3>4. (sent \o buf1') \o buf2' = sent \o (buf1' \o buf2')
      <4>1. sent \in Seq(Byte)
        BY <2>t
      <4>. QED
        BY <3>2, <4>1, JoinAssoc, ZenonT(60)
    <3>5. (sent \o buf1) \o (buf2 \o f) = sent \o (buf1 \o (buf2 \o f))
      BY <2>t, JoinAssoc, ZenonT(60)
    <3>6. sent \o buf1 \in Seq(Byte)
      BY <2>t, JoinType, ZenonT(60)
    <3>7. (sent \o buf1) \o (buf2 \o f) = ((sent \o buf1) \o buf2) \o f
      BY <2>t, <3>6, JoinAssoc, ZenonT(60)
    <3>8. accepted = (sent \o buf1) \o buf2
      BY <2>t, <3>1, CutZero DEF NothingLost
    <3>9. Cut(buf1', done') = buf1'
      BY <2>2, <3>1, <3>2, CutZero
    <3>. QED
      BY <2>1, <2>2, <3>3, <3>4, <3>5, <3>7, <3>8, <3>9 DEF NothingLost
  <2>. QED
    BY <2>1, <2>3, <2>4
<1>8. CASE Close
  BY <1>8 DEF Close, NothingLost
<1>9. CASE CloseFd
  BY <1>9 DEF CloseFd, NothingLost
<1>10. CASE CloseHandler
  BY <1>10 DEF CloseHandler, NothingLost
<1>11. CASE Wait
  BY <1>11 DEF Wait, NothingLost
<1>12. CASE Timeout
  BY <1>12 DEF Timeout, NothingLost
<1>13. CASE Event
  BY <1>13 DEF Event, NothingLost
<1>14. CASE Dispatch
  BY <1>14 DEF Dispatch, NothingLost
<1>15. CASE ConnectComplete
  BY <1>15 DEF ConnectComplete, NothingLost
<1>16. CASE ReadComplete
  BY <1>16 DEF ReadComplete, NothingLost
<1>17. CASE Recv
  BY <1>17 DEF Recv, NothingLost
<1>18. CASE CutMsgPack
  BY <1>18 DEF CutMsgPack, NothingLost
<1>19. CASE TryRecvData
  BY <1>19 DEF TryRecvData, NothingLost
<1>20. CASE ReadClose
  BY <1>20 DEF ReadClose, NothingLost
<1>21. CASE DispatchW
  BY <1>21 DEF DispatchW, NothingLost
<1>22. CASE WriteComplete
  BY <1>22 DEF WriteComplete, NothingLost
<1>23. CASE KernelSend
  <2>1. pc = "send" /\ wop = buf1 /\ done = 0 /\ UNCHANGED <<accepted, buf1, buf2>>
    BY <1>23 DEF KernelSend, DoneInv
  <2>t. buf1 \in Seq(Byte) /\ buf2 \in Seq(Byte) /\ sent \in Seq(Byte)
    BY DEF TypeOK
  <2>2. accepted = (sent \o buf1) \o buf2
    BY <2>1, <2>t, CutZero DEF NothingLost
  <2>3. CASE done' = 0 /\ UNCHANGED sent
    BY <2>1, <2>3 DEF NothingLost
  <2>4. CASE done' \in 1..Len(buf1) /\ sent' = sent \o SubSeq(buf1, 1, done')
    <3>1. SubSeq(buf1, 1, done') \in Seq(Byte)
      BY <2>t, <2>4, CutSplit
    <3>2. Cut(buf1, done') \in Seq(Byte)
      BY <2>t, <2>4, CutType
    <3>3. SubSeq(buf1, 1, done') \o Cut(buf1, done') = buf1
      BY <2>t, <2>4, CutSplit
    <3>4. (sent \o SubSeq(buf1, 1, done')) \o Cut(buf1, done')
            = sent \o (SubSeq(buf1, 1, done') \o Cut(buf1, done'))
      BY <2>t, <3>1, <3>2, JoinAssoc, ZenonT(60)
    <3>. QED
      BY <2>1, <2>2, <2>4, <3>3, <3>4 DEF NothingLost
  <2>. QED
    BY <1>23, <2>1, <2>3, <2>4 DEF KernelSend
<1>24. CASE WriteHandler
  <2>1. done' = 0 /\ UNCHANGED <<accepted, sent>>
    BY <1>24 DEF WriteHandler
  <2>t. /\ buf1 \in Seq(Byte) /\ buf2 \in Seq(Byte) /\ sent \in Seq(Byte)
        /\ Cut(buf1, done) \in Seq(Byte)
    BY <1>24, CutType DEF WriteHandler, DoneInv, TypeOK
  <2>2. CASE done = 0 /\ UNCHANGED <<buf1, buf2>>
    BY <2>1, <2>2 DEF NothingLost
  <2>3. CASE buf1' = Front(Cut(buf1, done), buf2) /\ buf2' = Back(Cut(buf1, done), buf2)
    <3>1. buf1' \in Seq(Byte) /\ buf2' \in Seq(Byte)
      BY <2>t, <2>3 DEF Front, Back
    <3>2. buf1' \o buf2' = Cut(buf1, done) \o buf2
      BY <2>t, <2>3, FrontBack
    <3>3. Cut(buf1', done') = buf1'
      BY <2>1, <3>1, CutZero
    <3>4. (sent \o buf1') \o buf2' = sent \o (buf1' \o buf2')
      BY <2>t, <3>1, JoinAssoc, ZenonT(60)
    <3>5. (sent \o Cut(buf1, done)) \o buf2 = sent \o (Cut(buf1, done) \o buf2)
      BY <2>t, JoinAssoc, ZenonT(60)
    <3>. QED
      BY <2>1, <3>2, <3>3, <3>4, <3>5 DEF NothingLost
  <2>. QED
    BY <1>24, <2>2, <2>3 DEF WriteHandler, TrySendData
<1>25. CASE PeerShutdown
  BY <1>25 DEF PeerShutdown, NothingLost
<1>26. CASE PeerReset
  BY <1>26 DEF PeerReset, NothingLost
<1>27. CASE UNCHANGED vars
  BY <1>27 DEF vars, NothingLost
<1>. QED
  BY <1>1, <1>2, <1>3, <1>4, <1>5, <1>6, <1>7, <1>8, <1>9, <1>10, <1>11, <1>12, <1>13, <1>14,
     <1>15, <1>16, <1>17, <1>18, <1>19, <1>20, <1>21, <1>22, <1>23, <1>24, <1>25, <1>26, <1>27
  DEF Step, Starter, Posted, Application, Completion, IoThread, Peer

-----------------------------------------------------------------------------
(* The theorems                                                            *)

\* A connection that has just come up satisfies the invariant.
LEMMA InitInv == Init => IInv
<1>. SUFFICES ASSUME Init PROVE IInv
  OBVIOUS
<1>1. TypeOK
  <2>1. state \subseteq Bits
    BY DEF Init, Bits
  <2>2. optype \subseteq {"C", "R", "W"} /\ reg \subseteq {"IN", "OUT"} /\ epoll \in BOOLEAN
    BY DEF Init
  <2>3. /\ buf1 \in Seq(Byte) /\ buf2 \in Seq(Byte) /\ wop \in Seq(Byte)
        /\ accepted \in Seq(Byte) /\ sent \in Seq(Byte) /\ log \in Seq(Callbacks)
    BY DEF Init
  <2>4. writing \in BOOLEAN /\ fd \in BOOLEAN /\ bad \in BOOLEAN /\ ioerr \in BOOLEAN
    BY DEF Init
  <2>5. /\ ev \subseteq {"IN", "OUT", "HUP"} /\ batch \in Nat /\ done \in Nat
        /\ closereqs \in Nat /\ kind \in Kinds
    BY DEF Init
  <2>6. flag = "stop" /\ post = "none" /\ st = "begin" /\ pc = "top" /\ peer = "open"
    BY DEF Init
  <2>7. early \in BOOLEAN
    BY DEF Init
  <2>. QED
    BY <2>1, <2>2, <2>3, <2>4, <2>5, <2>6, <2>7 DEF TypeOK
<1>2. ImplInv
  <2>1. CASE kind = "async"
    BY <2>1 DEF Init, ImplInv
  <2>2. CASE kind # "async"
    <3>1. /\ state = {"block"} /\ reg = {} /\ epoll = FALSE /\ post = "none" /\ pc = "top"
          /\ fd = TRUE /\ closereqs = 0
      BY <2>2 DEF Init
    <3>. QED
      BY <3>1 DEF ImplInv
  <2>. QED
    BY <2>1, <2>2
<1>3. StartInv
  BY DEF Init, StartInv
<1>4. WriterInv
  BY DEF Init, WriterInv, NoIdleBacklog
<1>5. NothingLost
  BY DEF Init, NothingLost, Cut
<1>9. ReportInv
  <2>1. /\ flag = "stop" /\ fd /\ post = "none" /\ pc = "top" /\ st = "begin" /\ epoll = (kind = "async")
        /\ state = IF kind = "async" THEN {"bind", "connect"} ELSE {"block"}
    BY DEF Init
  <2>. QED
    BY <2>1 DEF ReportInv
<1>6. LogInv
  BY DEF Init, LogInv, Ordered
<1>7. ReaderInv
  BY DEF Init, ReaderInv, ReadBits, Reading
<1>8. OpenInRound
  BY DEF Init, OpenInRound
<1>. QED
  BY <1>1, <1>2, <1>3, <1>4, <1>5, <1>6, <1>7, <1>8, <1>9 DEF IInv, Shared

\* Every step keeps what the modes share ...
LEMMA SharedStep == Shared /\ [Step]_vars /\ UNCHANGED early => Shared'
<1>. SUFFICES ASSUME Shared, [Step]_vars, UNCHANGED early PROVE Shared'
  OBVIOUS
<1>1. TypeOK /\ ImplInv /\ StartInv /\ WriterInv /\ ReportInv /\ NothingLost
  BY DEF Shared
<1>2. done <= Len(buf1) /\ DoneInv /\ early' \in BOOLEAN
  BY <1>1 DEF WriterInv, DoneInv, TypeOK
<1>3. TypeOK'
  BY <1>1, <1>2, TypeStep
<1>4. ImplInv' /\ StartInv' /\ WriterInv' /\ ReportInv' /\ NothingLost'
  BY <1>1, <1>2, ImplStep, StartStep, WriterStep, ReportStep, StreamStep
<1>. QED
  BY <1>3, <1>4 DEF Shared

\* ... and the rest.
LEMMA PlainStep == IInv /\ [Step]_vars /\ UNCHANGED early => IInv'
<1>. SUFFICES ASSUME IInv, [Step]_vars, UNCHANGED early PROVE IInv'
  OBVIOUS
<1>1. /\ Shared /\ OpenInRound /\ ReadBits /\ Reading /\ LogInv
      /\ TypeOK /\ ImplInv /\ StartInv /\ WriterInv
  BY DEF IInv, Shared, ReaderInv
<1>2. Shared'
  BY <1>1, SharedStep
<1>3. OpenInRound' /\ ReaderInv' /\ LogInv'
  BY <1>1, OpenStep, ReadBitsStep, ReadingStep, LogStep DEF ReaderInv
<1>. QED
  BY <1>2, <1>3 DEF IInv

\* So does a connector that was closed before OnConnected.
LEMMA EarlyStep ==
  ASSUME EarlyInv, [Step]_vars, early' \in BOOLEAN
  PROVE  EarlyInv'
<1>. USE DEF sock, impl, start, loop, hist
<1>0. TypeOK /\ NothingLost /\ EarlyState
  BY DEF EarlyInv
<1>1. TypeOK' /\ NothingLost'
  <2>1. done <= Len(buf1) /\ DoneInv
    BY <1>0 DEF EarlyState, DoneInv, TypeOK
  <2>. QED
    BY <1>0, <2>1, TypeStep, StreamStep
<1>2. EarlyState'
  <2>1. ~(\/ Starter \/ ReadComplete \/ Recv \/ CutMsgPack \/ ReadClose
          \/ WriteComplete \/ KernelSend \/ WriteHandler)
    BY <1>0 DEF EarlyState, Starter, InitAccepted, ConnectSync, FirstRecv, InitClose,
       ReadComplete, Recv, CutMsgPack, ReadClose, WriteComplete, KernelSend, WriteHandler
  <2>2. CASE SendPosted
    <3>1. /\ post = "send" /\ fd /\ "bind" \in state /\ log # <<>> /\ flag = "start"
          /\ pc # "wposting"
      BY <1>0, <2>2 DEF SendPosted, EarlyState
    <3>2. /\ post' = "none" /\ writing' = TRUE /\ state' = state /\ pc' = pc
          /\ UNCHANGED <<flag, fd, closereqs, ioerr, kind, st, done, log>>
      BY <2>2, <3>1 DEF SendPosted
    <3>. QED
      BY <1>0, <3>1, <3>2 DEF EarlyState, NoIdleBacklog
  <2>3. CASE RecvPosted
    <3>1. /\ post = "recv" /\ fd /\ "bind" \in state /\ log # <<>> /\ pc = "rposting"
          /\ st = "posting"
      BY <1>0, <2>3 DEF RecvPosted, EarlyState
    <3>2. /\ post' = "none" /\ state' = state /\ pc' = "top" /\ st' = "done"
          /\ UNCHANGED <<flag, writing, buf1, buf2, fd, closereqs, ioerr, kind, done, log>>
      BY <2>3, <3>1 DEF RecvPosted
    <3>. QED
      BY <1>0, <3>1, <3>2 DEF EarlyState, NoIdleBacklog
  <2>4. CASE Send
    <3>1. /\ flag = "start" /\ log # <<>> /\ post # "send"
          /\ UNCHANGED <<pc, kind, st, done, reg, log>>
      BY <1>0, <2>4 DEF Send, IsConnected, EarlyState
    <3>2. CASE writing /\ UNCHANGED <<flag, writing, fd, state, post, closereqs, ioerr>>
      BY <1>0, <3>1, <3>2 DEF EarlyState, NoIdleBacklog
    <3>3. CASE ~writing /\ post = "none" /\ \E f \in Frames : TrySendData(buf1, buf2 \o f)
      <4>1. CASE ~SendRefused
        <5>1. /\ fd /\ writing' = FALSE /\ post' = "send"
              /\ state' = (state \ {"block"}) \cup {"write"}
              /\ UNCHANGED <<flag, fd, closereqs, ioerr>>
          BY <3>3, <4>1 DEF TrySendData, PostSend, SendRefused
        <5>. QED
          BY <1>0, <3>1, <3>3, <5>1 DEF EarlyState, NoIdleBacklog
      <4>2. CASE SendRefused
        <5>1. /\ writing' = FALSE /\ post' = "none" /\ ioerr' = TRUE
              /\ CloseLocked(FALSE, state, epoll)
          BY <3>3, <4>2 DEF TrySendData
        <5>2. flag' = "close" /\ UNCHANGED <<fd, state, closereqs>>
          BY <1>0, <3>1, <5>1 DEF CloseLocked, ImplClose, EarlyState
        <5>. QED
          BY <1>0, <3>1, <5>1, <5>2 DEF EarlyState, NoIdleBacklog
      <4>. QED
        BY <4>1, <4>2
    <3>. QED
      BY <2>4, <3>2, <3>3 DEF Send
  <2>5. CASE Close
    <3>1. /\ log # <<>> /\ CanClose /\ CloseLocked(writing, state, epoll)
          /\ UNCHANGED <<writing, buf1, buf2, post, pc, kind, st, done, reg, ioerr, log>>
      BY <1>0, <2>5 DEF Close, Usable, EarlyState
    <3>2. /\ UNCHANGED <<fd, state, closereqs>> /\ post # "send"
          /\ flag' = IF writing THEN "stop" ELSE "close"
      BY <1>0, <3>1 DEF CloseLocked, ImplClose, CanClose, EarlyState
    <3>. QED
      BY <1>0, <3>1, <3>2 DEF EarlyState, NoIdleBacklog
  <2>6. CASE CloseFd
    <3>1. /\ pc = "top" /\ pc' = "closed" /\ closereqs > 0 /\ closereqs' = closereqs - 1
          /\ fd' = FALSE /\ state' = {} /\ reg' = {} /\ post = "none" /\ post' = "none"
          /\ UNCHANGED <<flag, writing, buf1, buf2, kind, st, done, ioerr, log, optype>>
      BY <2>6 DEF CloseFd
    <3>2. fd
      BY <1>0, <3>1 DEF EarlyState
    <3>. QED
      BY <1>0, <3>1, <3>2 DEF EarlyState, NoIdleBacklog
  <2>7. CASE CloseHandler
    <3>1. /\ pc = "closed" /\ pc' = "top" /\ log' = Append(log, "disconnected")
          /\ UNCHANGED <<flag, writing, buf1, buf2, fd, state, optype, post, kind, st, done,
                         closereqs, reg, ioerr>>
      BY <2>7 DEF CloseHandler
    <3>2. ~fd /\ log \in {<<>>, <<"connected">>}
      BY <1>0, <3>1 DEF EarlyState
    <3>3. CASE log = <<>>
      <4>1. log' = <<"disconnected">> /\ log' # <<>>
        BY <3>1, <3>3
      <4>. QED
        BY <1>0, <3>1, <3>2, <3>3, <4>1 DEF EarlyState, NoIdleBacklog
    <3>4. CASE log = <<"connected">>
      <4>1. log' = <<"connected", "disconnected">>
        BY <3>1, <3>4, OpenedAndClosed
      <4>2. log' # <<>> /\ log' # <<"disconnected">>
        BY <4>1, OpenedAndClosed
      <4>. QED
        BY <1>0, <3>1, <3>2, <4>1, <4>2 DEF EarlyState, NoIdleBacklog
    <3>. QED
      BY <3>2, <3>3, <3>4
  <2>8. CASE Wait \/ Timeout \/ Event \/ Dispatch \/ DispatchW
    <3>1. /\ UNCHANGED <<flag, writing, buf1, buf2, fd, state, optype, post, kind, st, done,
                         closereqs, reg, ioerr, log>>
      BY <2>8 DEF Wait, Timeout, Event, Dispatch, DispatchW
    <3>0. fd => log = <<>> /\ closereqs = 1 /\ "R" \notin optype /\ "W" \notin optype
      <4>1. pc \in {"top", "wait", "dispatch", "dispatchW"} /\ (pc = "top" => closereqs = 0)
        BY <2>8 DEF Wait, Timeout, Event, Dispatch, DispatchW
      <4>2. fd => closereqs = 1 /\ log = <<>>
        BY <1>0, <4>1 DEF EarlyState
      <4>3. log = <<>> => "R" \notin optype /\ "W" \notin optype
        BY <1>0 DEF EarlyState
      <4>. QED
        BY <4>2, <4>3
    <3>2. fd => log = <<>> /\ pc' \in {"top", "wait", "dispatch", "connect", "dispatchW"}
      BY <2>8, <3>0 DEF Wait, Timeout, Event, Dispatch, DispatchW
    <3>3. ~fd => pc' \in {"top", "wait"} /\ pc # "closed"
      BY <1>0, <2>8 DEF Wait, Timeout, Event, Ready, Dispatch, DispatchW, EarlyState
    <3>. QED
      BY <1>0, <3>1, <3>2, <3>3 DEF EarlyState, NoIdleBacklog
  <2>9. CASE ConnectComplete
    <3>1. /\ pc = "connect" /\ fd /\ log = <<>> /\ flag = "close" /\ st \in {"begin", "dropped"}
          /\ post = "none" /\ ~writing /\ ~ioerr
      BY <1>0, <2>9 DEF ConnectComplete, EarlyState
    <3>2. /\ state' = state \ {"connect"} /\ optype' \subseteq optype
          /\ UNCHANGED <<writing, buf1, buf2, fd, post, kind, done, closereqs, ioerr>>
      BY <2>9 DEF ConnectComplete
    <3>3. \/ log' = <<"connected">> /\ flag' = "start" /\ st' = "posting" /\ pc' = "tryrecv"
          \/ log' = <<"connected">> /\ UNCHANGED flag /\ st' = "failed" /\ pc' = "top"
          \/ UNCHANGED <<log, flag>> /\ st' = "dropped" /\ pc' = "top"
      BY <2>9, <3>1 DEF ConnectComplete
    <3>4. <<"connected">> # <<>> /\ <<"connected">> # <<"disconnected">>
      OBVIOUS
    <3>. QED
      BY <1>0, <3>1, <3>2, <3>3, <3>4 DEF EarlyState, NoIdleBacklog
  <2>10. CASE TryRecvData
    <3>1. /\ pc = "tryrecv" /\ fd /\ log # <<>> /\ st = "posting" /\ post = "none"
      BY <1>0, <2>10 DEF TryRecvData, EarlyState
    <3>2. /\ \/ post' = "recv" /\ state' = (state \ {"block"}) \cup {"read"}
                /\ pc' = "rposting" /\ UNCHANGED st
             \/ UNCHANGED <<state, post>> /\ st' = "failed" /\ pc' = "top"
          /\ UNCHANGED <<flag, writing, buf1, buf2, fd, kind, done, closereqs, ioerr, log>>
      BY <2>10, <3>1 DEF TryRecvData, PostRecv
    <3>. QED
      BY <1>0, <3>1, <3>2 DEF EarlyState, NoIdleBacklog
  <2>11. CASE Peer \/ UNCHANGED vars
    <3>1. /\ UNCHANGED <<flag, writing, buf1, buf2, fd, state, optype, post, pc, kind, st, done,
                         closereqs, reg, ioerr, log>>
      BY <2>11 DEF Peer, PeerShutdown, PeerReset, vars
    <3>. QED
      BY <1>0, <3>1 DEF EarlyState, NoIdleBacklog
  <2>. QED
    BY <2>1, <2>2, <2>3, <2>4, <2>5, <2>6, <2>7, <2>8, <2>9, <2>10, <2>11
    DEF Step, Posted, Application, Completion, IoThread
<1>. QED
  BY <1>1, <1>2 DEF EarlyInv

\* Until OnConnected nothing has happened to the connector: its Close() finds it
\* registered, and has it closed; and a second one finds it closed.
LEMMA FirstClose ==
  ASSUME TypeOK, CloseEarly,
         IF early THEN EarlyState
                  ELSE ImplInv /\ StartInv /\ WriterInv /\ ReportInv
  PROVE  /\ flag' = "close" /\ ~writing /\ ~ioerr /\ buf1 = <<>> /\ buf2 = <<>> /\ log = <<>>
         /\ post = "none" /\ EarlyState' /\ flag = IF early THEN "close" ELSE "stop"
<1>. USE DEF sock, impl, start, loop, hist
<1>0. /\ kind = "async" /\ log = <<>> /\ CloseLocked(writing, state, epoll)
      /\ UNCHANGED <<writing, buf1, buf2, epoll, optype, wop, post, kind, st, pc, done,
                     reg, ioerr, log>>
  BY DEF CloseEarly
<1>1. CASE early
  <2>1. EarlyState /\ flag = "close" /\ post = "none" /\ ~writing /\ ~ioerr
    BY <1>0, <1>1 DEF EarlyState
  <2>2. UNCHANGED <<flag, fd, state, closereqs>>
    BY <1>0, <2>1 DEF CloseLocked
  <2>3. buf1 = <<>> /\ buf2 = <<>>
    BY <2>1 DEF EarlyState, NoIdleBacklog
  <2>4. EarlyState'
    BY <1>0, <2>1, <2>2 DEF EarlyState, NoIdleBacklog
  <2>. QED
    BY <1>0, <1>1, <2>1, <2>2, <2>3, <2>4
<1>2. CASE ~early
  <2>1. /\ st \in {"begin", "dropped"} /\ flag = "stop" /\ post = "none" /\ ~writing
        /\ optype \subseteq {"C"} /\ "bind" \in state
        /\ pc \in {"top", "wait", "dispatch", "connect", "dispatchW"}
    BY <1>0, <1>2 DEF StartInv
  <2>2. fd /\ "block" \notin state /\ ~(closereqs > 0)
    BY <1>2, <2>1 DEF ImplInv
  <2>3. "close" \notin state /\ epoll
    BY <1>2, <2>1 DEF ReportInv
  <2>4. ~ioerr /\ done = 0 /\ buf1 = <<>> /\ buf2 = <<>>
    BY <1>2, <2>1 DEF WriterInv, NoIdleBacklog
  <2>5. closereqs = 0
    BY <2>2 DEF TypeOK
  <2>6. /\ flag' = "close" /\ UNCHANGED fd /\ state' = state \cup {"close"}
        /\ closereqs' = 1
    BY <1>0, <2>1, <2>2, <2>3, <2>5 DEF CloseLocked, ImplClose
  <2>7. EarlyState'
    BY <1>0, <2>1, <2>2, <2>4, <2>6 DEF EarlyState, NoIdleBacklog
  <2>. QED
    BY <1>0, <1>2, <2>1, <2>4, <2>6, <2>7
<1>. QED
  BY <1>1, <1>2

\* CloseEarly leaves the types and the bytes alone.
LEMMA CloseEarlyKept ==
  ASSUME TypeOK, NothingLost, CloseEarly
  PROVE  TypeOK' /\ NothingLost' /\ early' = TRUE
<1>. USE DEF sock, impl, start, loop, hist
<1>1. /\ flag' \in {"start", "stop", "close"} /\ fd' \in BOOLEAN
      /\ state' \subseteq Bits /\ closereqs' \in Nat
  BY CloseType DEF CloseEarly, TypeOK
<1>2. TypeOK'
  BY <1>1 DEF CloseEarly, TypeOK
<1>3. NothingLost'
  BY DEF CloseEarly, NothingLost
<1>. QED
  BY <1>2, <1>3 DEF CloseEarly

\* Every step keeps the invariant.
LEMMA NextInv == SocketInv /\ [Next]_vars => SocketInv'
<1>. SUFFICES ASSUME SocketInv, [Next]_vars PROVE SocketInv'
  OBVIOUS
<1>1. CASE [Step]_vars /\ UNCHANGED early
  <2>1. early' \in BOOLEAN
    BY <1>1 DEF SocketInv, EarlyInv, IInv, Shared, TypeOK
  <2>. QED
    BY <1>1, <2>1, PlainStep, EarlyStep DEF SocketInv
<1>2. CASE CloseEarly
  <2>1. /\ TypeOK /\ NothingLost
        /\ IF early THEN EarlyState
                    ELSE ImplInv /\ StartInv /\ WriterInv /\ ReportInv
    BY DEF SocketInv, EarlyInv, IInv, Shared
  <2>. QED
    BY <1>2, <2>1, FirstClose, CloseEarlyKept DEF SocketInv, EarlyInv
<1>. QED
  BY <1>1, <1>2 DEF Next, vars

\* With nothing in the buffers everything accepted was sent.
LEMMA AllSent ==
  ASSUME TypeOK, NothingLost, done = 0, buf1 = <<>>, buf2 = <<>>
  PROVE  sent = accepted
<1>1. sent \in Seq(Byte) /\ accepted = (sent \o Cut(<<>>, 0)) \o <<>>
  BY DEF TypeOK, NothingLost
<1>2. Cut(<<>>, 0) = <<>>
  BY DEF Cut
<1>. QED
  BY <1>1, <1>2

\* A closed socket has no write on its way, so nothing is in its buffers.
LEMMA ClosedSent == Shared \/ EarlyInv => GracefulClose
<1>. SUFFICES ASSUME Shared \/ EarlyInv, flag = "close", ~ioerr PROVE sent = accepted
  BY DEF GracefulClose
<1>1. CASE Shared
  BY <1>1, AllSent DEF Shared, TypeOK, WriterInv, NoIdleBacklog
<1>2. CASE EarlyInv
  BY <1>2, AllSent DEF EarlyInv, EarlyState, NoIdleBacklog
<1>. QED
  BY <1>1, <1>2

\* What the callbacks of a connector closed before OnConnected can be.
LEMMA EarlyLog ==
  ASSUME EarlyInv
  PROVE  log \in {<<>>, <<"connected">>, <<"disconnected">>, <<"connected", "disconnected">>}
BY DEF EarlyInv, EarlyState

\* The invariant holds in every reachable state of the socket, whatever the
\* frames, the bounds and the ways connections start.
THEOREM Invariance == Spec => []SocketInv
<1>1. Init => SocketInv
  BY InitInv DEF Init, SocketInv
<1>. QED
  BY <1>1, NextInv, PTL DEF Spec

\* Every variable stays in its type.
THEOREM TypeCorrect == Spec => []TypeOK
<1>1. SocketInv => TypeOK
  BY DEF SocketInv, EarlyInv, IInv, Shared
<1>. QED
  BY <1>1, Invariance, PTL

\* Whatever _TrySendData and _WriteHandler do with the two buffers, however
\* the kernel splits the writes and whoever closes the socket, the accepted
\* bytes are the sent ones followed by the buffered ones.
THEOREM StreamIntact == Spec => []NothingLost
<1>1. SocketInv => NothingLost
  BY DEF SocketInv, EarlyInv, IInv, Shared
<1>. QED
  BY <1>1, Invariance, PTL

\* _Close() takes effect only when every accepted byte was sent or a write
\* failed.
THEOREM ClosesGracefully == Spec => []GracefulClose
<1>1. SocketInv => GracefulClose
  BY ClosedSent DEF SocketInv, IInv
<1>. QED
  BY <1>1, Invariance, PTL

\* While _writer.writing is set the io thread will complete a write: no
\* interleaving of Send, AsyncRecvSome and the unlocked reads of _type
\* forgets the registered operation.  (A connector closed before OnConnected
\* loses its descriptor, and with it a write posted meanwhile.)
THEOREM WriteIsPending == Spec => []WritePending
<1>1. SocketInv => WritePending
  BY DEF SocketInv, IInv, Shared, WriterInv, ImplInv, WritePending
<1>. QED
  BY <1>1, Invariance, PTL

\* Bytes in the buffers always have a write on its way.
THEOREM BacklogIsServed == Spec => []NoIdleBacklog
<1>1. SocketInv => NoIdleBacklog
  BY DEF SocketInv, EarlyInv, EarlyState, IInv, Shared, WriterInv
<1>. QED
  BY <1>1, Invariance, PTL

\* While the io thread waits, a started connection is registered for EPOLLIN:
\* no completion of a write, no Send of another thread between the two stores
\* of _type and no unlocked read of _type takes its read away.
THEOREM StaysListening == Spec => []Listening
<1>1. SocketInv => Listening
  BY DEF SocketInv, IInv, Shared, ReaderInv, ReadBits, Reading, Listening
<1>. QED
  BY <1>1, Invariance, PTL

\* OnConnected, OnReceiveData, OnDisconnected come in this order, and the one
\* exception is the lone OnDisconnected of a connector that AsyncConnect's caller
\* closed before the connect completed.
THEOREM CallbacksOrdered == Spec => []CallbackOrder
<1>1. SocketInv => CallbackOrder
  <2>. SUFFICES ASSUME SocketInv PROVE CallbackOrder
    OBVIOUS
  <2>1. CASE early
    <3>1. log \in {<<>>, <<"connected">>, <<"disconnected">>, <<"connected", "disconnected">>}
      BY <2>1, EarlyLog DEF SocketInv
    <3>2. CASE log \in {<<>>, <<"connected">>, <<"disconnected">>}
      BY <2>1, <3>2 DEF CallbackOrder
    <3>3. CASE log = <<"connected", "disconnected">>
      <4>1. Len(log) = 2 /\ log[1] = "connected" /\ log[2] = "disconnected"
        BY <3>3
      <4>. QED
        BY <4>1 DEF CallbackOrder
    <3>. QED
      BY <3>1, <3>2, <3>3
  <2>2. CASE ~early
    BY <2>2 DEF SocketInv, IInv, LogInv, Ordered, CallbackOrder
  <2>. QED
    BY <2>1, <2>2
<1>. QED
  BY <1>1, Invariance, PTL

\* The io thread closes a descriptor at most once, also that of a connector that
\* was opened again after its Close().
THEOREM DescriptorClosedOnce == Spec => []ClosedOnce
<1>1. SocketInv => ClosedOnce
  <2>1. EarlyInv /\ early => ClosedOnce
    BY DEF EarlyInv, EarlyState, ClosedOnce
  <2>2. IInv => ClosedOnce
    BY DEF IInv, Shared, ImplInv, ClosedOnce
  <2>. QED
    BY <2>1, <2>2 DEF SocketInv
<1>. QED
  BY <1>1, Invariance, PTL

\* The request of a connector closed early is queued until it is reported.
LEMMA EarlyReport == EarlyInv => ReportPending
<1>. SUFFICES ASSUME EarlyInv PROVE closereqs > 0 \/ pc = "closed" \/ Reported
  BY DEF ReportPending, Reported
<1>1. CASE fd \/ pc = "closed"
  BY <1>1 DEF EarlyInv, EarlyState
<1>2. CASE ~fd /\ pc # "closed"
  <2>1. log \in {<<"disconnected">>, <<"connected", "disconnected">>}
    BY <1>2 DEF EarlyInv, EarlyState
  <2>2. CASE log = <<"disconnected">>
    <3>1. Len(log) = 1 /\ log[1] = "disconnected"
      BY <2>2
    <3>. QED
      BY <3>1 DEF Reported
  <2>3. CASE log = <<"connected", "disconnected">>
    <3>1. Len(log) = 2 /\ log[2] = "disconnected"
      BY <2>3
    <3>. QED
      BY <3>1 DEF Reported
  <2>. QED
    BY <2>1, <2>2, <2>3
<1>. QED
  BY <1>1, <1>2

\* OnDisconnected is called for a closed socket, or its request is with the io
\* thread: it is never lost, not even when the close came before OnConnected.
THEOREM ReportNotLost == Spec => []ReportPending
<1>1. SocketInv => ReportPending
  <2>1. IInv => ReportPending
    BY DEF IInv, Shared, ReportInv, Reported, ReportPending
  <2>. QED
    BY <2>1, EarlyReport DEF SocketInv
<1>. QED
  BY <1>1, Invariance, PTL

\* No step takes a socket out of E_STATE_CLOSE, but for _ConnectHandler one that
\* was closed before OnConnected, and none accepts bytes after Close().
LEMMA ReopenStep ==
  ASSUME Shared \/ (early /\ EarlyInv), [Next]_vars
  PROVE  /\ flag = "close" => flag' = "close" \/ (early /\ log = <<>> /\ ConnectComplete)
         /\ flag # "start" => accepted' = accepted
<1>. USE DEF sock, hist
<1>0. /\ StartInv \/ (early /\ EarlyState)
      /\ flag = "close" => st # "begin" \/ (early /\ kind = "async")
      /\ flag = "close" /\ pc = "connect" => early /\ log = <<>>
  <2>1. CASE Shared
    BY <2>1 DEF Shared, StartInv
  <2>2. CASE early /\ EarlyInv
    BY <2>2 DEF EarlyInv, EarlyState, TypeOK
  <2>. QED
    BY <2>1, <2>2
<1>1. CASE Starter
  BY <1>0, <1>1 DEF Starter, InitAccepted, ConnectSync, FirstRecv, InitClose, CloseLocked
<1>2. CASE Posted
  BY <1>2 DEF Posted, SendPosted, RecvPosted, CloseLocked
<1>3. CASE Application
  BY <1>3 DEF Application, Send, Close, IsConnected, CloseLocked
<1>4. CASE ConnectComplete
  BY <1>0, <1>4 DEF ConnectComplete
<1>5. CASE IoThread /\ ~ConnectComplete
  BY <1>5 DEF IoThread, Completion, CloseFd, CloseHandler, Wait, Timeout, Event,
              Dispatch, ReadComplete, Recv, CutMsgPack, TryRecvData, ReadClose,
              DispatchW, WriteComplete, KernelSend, WriteHandler, TrySendData, CloseLocked
<1>6. CASE Peer \/ CloseEarly \/ UNCHANGED vars
  BY <1>6 DEF Peer, PeerShutdown, PeerReset, CloseEarly, CloseLocked, vars
<1>. QED
  BY <1>1, <1>2, <1>3, <1>4, <1>5, <1>6 DEF Next, Step

\* E_STATE_CLOSE is final, but for the one store of _ConnectHandler, and a socket
\* that stopped accepts nothing.
THEOREM StaysClosed == Spec => NoReopen
<1>1. SocketInv /\ [Next]_vars =>
        [/\ flag = "close" => flag' = "close" \/ (early /\ log = <<>> /\ ConnectComplete)
         /\ flag # "start" => accepted' = accepted]_vars
  BY ReopenStep DEF SocketInv, IInv
<1>. QED
  BY <1>1, Invariance, PTL DEF Spec, NoReopen
============================================================================
