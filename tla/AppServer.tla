----------------------------- MODULE AppServer ------------------------------
(***************************************************************************)
(* The message pump of ApplicationBase (commonlib/svr_base).  The io       *)
(* threads queue a message for every callback of a connection, under       *)
(* _msg_lock; the main loop takes the queues, keeps a table of connections *)
(* by descriptor and calls OnProc.  Messages that were handled go back to  *)
(* a cache, and the next callbacks reuse them.                             *)
(*                                                                         *)
(* The code has every list twice, for accepted sockets and for connectors: *)
(* here they are indexed by the kind of connection.                        *)
(***************************************************************************)
EXTENDS Naturals, Sequences, SList

CONSTANTS
  Socks, Conns,    \* accepted connections, connectors (TcpSocketPtr, TcpConnectorPtr)
  Fds, NoFd,       \* descriptor numbers of the kernel, M_INVALID_SOCKET
  CacheSize,       \* _msg_cache_size
  Expire, Period,  \* ten seconds, fifteen seconds, in ticks of the clock
  MaxPosts,        \* model bound: callbacks of the io threads
  MaxTime          \* model bound: ticks of the clock

Kinds == {"conn", "sock"}
All == Socks \cup Conns

ASSUME ConnAssumption == Socks \cap Conns = {}
ASSUME FdAssumption == NoFd \notin Fds
ASSUME SizeAssumption == {CacheSize, Expire, Period, MaxPosts, MaxTime} \subseteq Nat

VARIABLES
  phase,       \* of a connection: new, open, closing, closed (OnDisconnected due), gone
  fd,          \* GetSocket().GetFd()
  queue,       \* _tcp_connector_msg_list, _tcp_socket_msg_list
  pool,        \* _tcp_connector_msg_list2, _tcp_socket_msg_list2
  tmp, tmp2,   \* the lists of the same names in Run()
  ctx,         \* _tcp_connector_container, _tcp_socket_container
  run, pc,     \* the process; where the main loop is
  clock, now, last,  \* the time; _now; last_check_time
  posted, handled    \* history: messages queued, messages handled

net == <<phase, fd>>
lists == <<queue, pool, tmp, tmp2>>
time == <<clock, now, last>>
vars == <<phase, fd, queue, pool, tmp, tmp2, ctx, run, pc, clock, now, last, posted, handled>>

KindOf(s) == IF s \in Conns THEN "conn" ELSE "sock"

\* A message: buf is what was ever written to its Buffer, pkt (not in the
\* code) the packet that the callback was given.
Msg == [sock : All, type : {"in", "out", "data"}, err : BOOLEAN,
        buf : Seq(Nat), pkt : Nat]

\* The first OnTick was at time 0: it constructs last_check_time.
Init ==
  /\ phase = [s \in All |-> "new"] /\ fd = [s \in All |-> NoFd]
  /\ queue = [k \in Kinds |-> EmptyList] /\ pool = [k \in Kinds |-> EmptyList]
  /\ tmp = [k \in Kinds |-> EmptyList] /\ tmp2 = [k \in Kinds |-> EmptyList]
  /\ ctx = [k \in Kinds |-> {}]
  /\ run = "up" /\ pc = "swap"
  /\ clock = 0 /\ now = 0 /\ last = 0
  /\ posted = [k \in Kinds |-> <<>>] /\ handled = [k \in Kinds |-> <<>>]

-----------------------------------------------------------------------------
(* The io threads                                                          *)

Posts == Len(posted["conn"]) + Len(posted["sock"])

\* The buffer of a message taken from the cache, or of a new one.
Reused(k) == IF pool[k].count > 0 THEN front(pool[k]).buf ELSE <<>>

\* What OnReceiveData does to it: Buffer::Write appends.
Write(buf, pkt) == Append(buf, pkt)

\* OnConnected, OnReceiveData and OnDisconnected.  front() of a cache that
\* counts messages it does not have is a read through a null pointer.
Post(s, type, err) ==
  LET k   == KindOf(s)
      pkt == IF type = "data" THEN Posts + 1 ELSE 0
  IN  /\ run = "up" /\ Posts < MaxPosts
      /\ \/ /\ pool[k].count > 0 /\ ~HasFront(pool[k])
            /\ run' = "crashed"
            /\ UNCHANGED <<queue, pool, posted>>
         \/ /\ pool[k].count > 0 => HasFront(pool[k])
            /\ LET m == [sock |-> s, type |-> type, err |-> err, pkt |-> pkt,
                         buf |-> IF type = "data" THEN Write(Reused(k), pkt)
                                                  ELSE Reused(k)]
               IN  /\ queue' = [queue EXCEPT ![k] = push_back(@, m)]
                   /\ posted' = [posted EXCEPT ![k] = Append(@, m)]
            /\ pool' = IF pool[k].count > 0
                       THEN [pool EXCEPT ![k] = pop_front(@)] ELSE pool
            /\ UNCHANGED run
      /\ UNCHANGED <<tmp, tmp2, ctx, pc, time, handled>>

\* A connection is up: the kernel gave it a descriptor that nobody has.
Connected(s) ==
  /\ phase[s] = "new"
  /\ \E f \in Fds :
       /\ \A t \in All : fd[t] # f
       /\ fd' = [fd EXCEPT ![s] = f]
  /\ phase' = [phase EXCEPT ![s] = "open"]
  /\ Post(s, "in", FALSE)

ConnectFailed(s) ==
  /\ s \in Conns /\ phase[s] = "new"
  /\ phase' = [phase EXCEPT ![s] = "gone"]
  /\ Post(s, "in", TRUE)
  /\ UNCHANGED fd

ReceiveData(s) ==
  /\ phase[s] \in {"open", "closing"}
  /\ Post(s, "data", FALSE)
  /\ UNCHANGED net

\* Close() of a connection: it is not IsConnected() any more.
Closed(p, S) == [s \in All |-> IF s \in S /\ p[s] = "open" THEN "closing" ELSE p[s]]

\* The peer, an error or the application (in OnProc) ends a connection.
BeginClose(s) ==
  /\ run = "up" /\ phase[s] = "open"
  /\ phase' = Closed(phase, {s})
  /\ UNCHANGED <<fd, lists, ctx, run, pc, time, posted, handled>>

\* IoAccess::_DoClose: the descriptor is invalid before the handler runs.
CloseFd(s) ==
  /\ run = "up" /\ phase[s] = "closing"
  /\ phase' = [phase EXCEPT ![s] = "closed"]
  /\ fd' = [fd EXCEPT ![s] = NoFd]
  /\ UNCHANGED <<lists, ctx, run, pc, time, posted, handled>>

Disconnected(s) ==
  /\ phase[s] = "closed"
  /\ phase' = [phase EXCEPT ![s] = "gone"]
  /\ Post(s, "out", FALSE)
  /\ UNCHANGED fd

IoThreads ==
  \E s \in All :
    \/ Connected(s) \/ ConnectFailed(s) \/ ReceiveData(s)
    \/ BeginClose(s) \/ CloseFd(s) \/ Disconnected(s)

-----------------------------------------------------------------------------
(* The main loop                                                           *)

\* A context at which the walk of CheckTcpSocketExpire stops, at time t.
Stops(c, t) == ~(t - c.tt >= Expire /\ phase[c.sock] = "open")

\* The contexts the walk may close: it goes by tt, in either order where
\* they are equal, up to the first that stops it.
Expired(t) ==
  LET C == ctx["sock"]
      S == {c \in C : Stops(c, t)}
  IN  {X \in SUBSET (C \ S) :
         /\ \A c \in X, d \in S : c.tt <= d.tt
         /\ \A c \in (C \ S) \ X : \E d \in S : c.tt >= d.tt}

\* The head of the loop and OnTick.
Tick ==
  /\ run = "up" /\ pc = "top"
  /\ now' = clock
  /\ \/ /\ clock > now /\ clock - last >= Period
        /\ \E X \in Expired(clock) : phase' = Closed(phase, {c.sock : c \in X})
        /\ last' = clock
     \/ /\ ~(clock > now /\ clock - last >= Period)
        /\ UNCHANGED <<phase, last>>
  /\ pc' = "swap"
  /\ UNCHANGED <<fd, lists, ctx, run, clock, posted, handled>>

\* gAppExist, set by a signal, is seen at the head of the loop.
Exit ==
  /\ run = "up" /\ pc = "top"
  /\ run' = "ended"
  /\ UNCHANGED <<net, lists, ctx, pc, time, posted, handled>>

PendingBoth(q) == q["conn"].count > 0 /\ q["sock"].count > 0  \* mutant: && for ||
Pending(q) == q["conn"].count > 0 \/ q["sock"].count > 0
QueueLeft(q, t) == q  \* mutant: the queue is copied, not swapped
Left(q, t) == t
Swap ==
  /\ run = "up" /\ pc = "swap"
  /\ pc' = "handle"
  /\ IF Pending(queue) THEN tmp' = queue /\ queue' = Left(queue, tmp)
                       ELSE UNCHANGED <<tmp, queue>>
  /\ UNCHANGED <<net, pool, tmp2, ctx, run, time, posted, handled>>

\* The contexts of kind k under descriptor f: at most one.
Found(k, f) == {c \in ctx[k] : c.fd = f}

\* M_SOCKET_DATA: the packet is for the context of the descriptor, if any.
Data(k, m) ==
  /\ ctx' = [ctx EXCEPT ![k] = {IF c.fd = fd[m.sock] THEN [c EXCEPT !.tt = now] ELSE c : c \in @}]
  /\ UNCHANGED phase

\* OnConnection: a connection whose descriptor is taken is closed.
OnConnectionKept(k, m) ==  \* mutant: a refused connection stays open
  LET f == fd[m.sock] IN
  IF m.err \/ Found(k, f) # {}
  THEN UNCHANGED <<ctx, phase>>
  ELSE /\ ctx' = [ctx EXCEPT ![k] = @ \cup {[fd |-> f, sock |-> m.sock, tt |-> now]}]
       /\ UNCHANGED phase
OnConnection(k, m) ==
  LET f == fd[m.sock] IN
  \/ m.err /\ UNCHANGED <<ctx, phase>>
  \/ /\ ~m.err /\ Found(k, f) # {}
     /\ phase' = Closed(phase, {m.sock})
     /\ UNCHANGED ctx
  \/ /\ ~m.err /\ Found(k, f) = {}
     /\ ctx' = [ctx EXCEPT ![k] = @ \cup {[fd |-> f, sock |-> m.sock, tt |-> now]}]
     /\ UNCHANGED phase

OnDisConnection(k, m) ==
  /\ ctx' = [ctx EXCEPT ![k] = @ \ Found(k, fd[m.sock])]
  /\ UNCHANGED phase

\* One message; connectors come first.
Handle ==
  /\ run = "up" /\ pc = "handle"
  /\ \E k \in Kinds :
       /\ tmp[k].count > 0
       /\ k = "sock" => tmp["conn"].count = 0
       /\ LET m == front(tmp[k]) IN
          /\ \/ m.type = "data" /\ Data(k, m)
             \/ m.type = "in" /\ OnConnection(k, m)
             \/ m.type = "out" /\ OnDisConnection(k, m)
          /\ tmp' = [tmp EXCEPT ![k] = pop_front(@)]
          /\ tmp2' = [tmp2 EXCEPT ![k] = push_back(@, m)]
          /\ handled' = [handled EXCEPT ![k] = Append(@, m)]
  /\ UNCHANGED <<fd, queue, pool, run, pc, time, posted>>

\* Messages go back to the cache p; those it has no room for are deleted.
RecycledAll(p, t) == join(p, t)  \* mutant: no bound
Recycled(p, t) ==
  IF t.count + p.count <= CacheSize THEN join(p, t)
  ELSE Pushed(p, SubSeq(t.items, 1, CacheSize - p.count))

\* The end of the loop; with nothing handled it sleeps for a millisecond.
Recycle ==
  /\ run = "up" /\ pc = "handle"
  /\ \A k \in Kinds : tmp[k].count = 0
  /\ IF \E k \in Kinds : tmp2[k].count > 0
     THEN /\ pool' = [k \in Kinds |-> Recycled(pool[k], tmp2[k])]
          /\ tmp2' = [k \in Kinds |-> EmptyList]
     ELSE UNCHANGED <<pool, tmp2>>
  /\ pc' = "top"
  /\ UNCHANGED <<net, queue, tmp, ctx, run, time, posted, handled>>

MainLoop == Tick \/ Swap \/ Handle \/ Recycle

\* The clock.
Advance ==
  /\ run = "up" /\ clock < MaxTime
  /\ clock' = clock + 1
  /\ UNCHANGED <<net, lists, ctx, run, pc, now, last, posted, handled>>

Next == IoThreads \/ MainLoop \/ Exit \/ Advance

Spec == Init /\ [][Next]_vars

\* The main loop runs on.
FairSpec == Spec /\ WF_vars(MainLoop)
-----------------------------------------------------------------------------
(* Properties                                                              *)

Contexts == [fd : Fds \cup {NoFd}, sock : All, tt : Nat]

\* The lists of the loop are sequences of messages; the caches are lists.
TypeOK ==
  /\ \A k \in Kinds : IsSequence(queue[k]) /\ IsSequence(tmp[k]) /\ IsSequence(tmp2[k])
  /\ phase \in [All -> {"new", "open", "closing", "closed", "gone"}]
  /\ fd \in [All -> Fds \cup {NoFd}]
  /\ queue \in [Kinds -> Lists(Msg)] /\ pool \in [Kinds -> Lists(Msg)]
  /\ tmp \in [Kinds -> Lists(Msg)] /\ tmp2 \in [Kinds -> Lists(Msg)]
  /\ ctx \in [Kinds -> SUBSET Contexts]
  /\ run \in {"up", "ended", "crashed"} /\ pc \in {"top", "swap", "handle"}
  /\ clock \in Nat /\ now \in 0..clock /\ last \in 0..now
  /\ posted \in [Kinds -> Seq(Msg)] /\ handled \in [Kinds -> Seq(Msg)]

\* The callbacks of a kind reach the main loop in the order in which they
\* came, none lost and none twice, however the swap of the queues falls
\* between them.
InOrder == \A k \in Kinds : posted[k] = handled[k] \o tmp[k].items \o queue[k].items

\* Neither cache ever holds more messages than _msg_cache_size, and none
\* counts fewer than it holds.
CacheBounded ==
  \A k \in Kinds : pool[k].count <= CacheSize /\ Len(pool[k].items) <= pool[k].count

\* A connection that the loop has taken in and that is still open is the one
\* its descriptor finds, so that GetTcpSocketContext(fd) answers the right
\* peer; a connection that is refused, its number being taken, is closed.
Registered ==
  \A k \in Kinds : \A i \in 1..Len(handled[k]) :
    LET m == handled[k][i] IN
    m.type = "in" /\ phase[m.sock] = "open" => {c.sock : c \in Found(k, fd[m.sock])} = {m.sock}

\* Every callback is handled in the end, while the process is up.
Served ==
  \A k \in Kinds, n \in 1..MaxPosts :
    Len(posted[k]) >= n ~> (Len(handled[k]) >= n \/ run # "up")

\* OnDisConnection erases the context of the connection; that it finds none
\* "is a big bug" (its LogError).
ForgetsDisconnected ==
  \A k \in Kinds : \A i \in 1..Len(handled[k]) :
    handled[k][i].type = "out" => \A c \in ctx[k] : c.sock # handled[k][i].sock

\* The packet that OnProc is given, at the start of the buffer, is the one
\* OnReceiveData was given ("recycle msg buffer" in Run()).
OwnPacket ==
  \A k \in Kinds : \A i \in 1..Len(handled[k]) :
    handled[k][i].type = "data" => Head(handled[k][i].buf) = handled[k][i].pkt

\* A cache whose size() is not 0 has a message to take.
CacheHasFront == \A k \in Kinds : pool[k].count > 0 => HasFront(pool[k])
=============================================================================
