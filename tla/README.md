# Verification of slience

slience is a C++ framework for network servers: an asynchronous socket library
(`slience/socket`), a layer of framed connections on top of it
(`slience/netio`), stackful coroutines (`slience/coroutine`), synchronous calls
over a connection (`slience/synccall`), base utilities with an asynchronous
logger (`slience/base`), a server skeleton (`commonlib/svr_base`) and a wrapper
of hiredis (`hiredis_wrapper/wrapper`). This directory holds TLA+ models of the
parts whose correctness depends on how threads, the kernel and the peer
interleave, the TLC runs that check them and the TLAPS proofs.

## Inventory

| component | state | operations | talks to | what is hard | what makes it correct |
|---|---|---|---|---|---|
| `TcpBaseSocket`, `TcpStreamSocket`, `TcpSocket`, `TcpConnector` (netio) | `_flag`, `_writer` (lock, `writing`, two buffers), `_reader` | `Init`, `Connect`, `AsyncConnect`, `Send`, `Close`; `_ReadHandler`, `_WriteHandler`, `_ConnectHandler`, `_CloseHandler` | posts operations on its `SocketImpl`; calls `NetIo::OnConnected/OnReceiveData/OnDisconnected` | any thread may send and close while the io thread completes | no accepted byte lost or reordered; close after the last byte; callback order; descriptor closed once |
| epoll reactor (`EpollService`, `IoAccess`, `SocketImpl`) | `_fd`, `_epoll`, `_state` bits, `_op._type`, per thread `_closereqs` | `AsyncConnect/Accept/RecvSome/SendSome`, `Close`, `Run`, `CoRun`, `Stop` | kernel; handlers of the layer above | `_type` is read without the lock; epoll registrations are recomputed from two threads | an operation that was posted is registered until it completes |
| `NetIo`, acceptor | threads, acceptor | `Start`, `Stop`, `ListenOne`, `_AcceptHandler` | reactor | start and stop against live connections | every connection accepted is started or dropped |
| coroutine mode of the reactor | `CoEventTask` pool | `_ExecOp`, `_DoExecCoOp` | `CoroutineTask` | a handler may yield and be resumed after its event is gone | order of callbacks, no use of recycled tasks |
| `Coroutine`, `CoroutineTask` | per thread schedule, free ids, task and wrapper pools, cross-thread resume queues | `create`, `resume`, `yield`, `destroy`, `doTask`, `addResume`, `doThrResume` | reactor loop, synccall | late and duplicate resumes; a resume may come before the yield | one task per coroutine, every resume reaches the task it was meant for |
| synccall (`ScClient`, `CoScClient`, `ScServer`), `SyncConnector` | `_socket`, `_packidx`; per connector `_CoScInfo_` (whom to resume, the reply) | `SyncCall`, `_Sync`, `_Reconnect`; `OnReceiveData`, `OnDisconnected` | netio, `CoroutineTask` | two threads at the `_CoScInfo_`, one of them without its lock; retry after a broken connection | a reply answers its own request; a call is resumed once, and returns |
| heart beat (`HeartBeatMng`) | per bucket: lists of news, maps of last activity | `OnConnected`, `OnReceiveData`, `_Run` | netio | expiry races with data | a live connection is not expired |
| logger | ring of buffers, `_producer`, `_consumer`, `_run`, log file | `log`, `stop`, `dump` | every thread; the file | buffers are written without the lock; the ring overflows | accepted entries reach the file once, in order |
| `ApplicationBase` | two queues and two caches of messages, two tables of connections by descriptor | `OnConnected`, `OnReceiveData`, `OnDisconnected`; `Run`, `OnConnection`, `OnDisConnection`, `CheckTcpSocketExpire` | netio callbacks on one side, `OnProc` on the other | descriptor numbers are reused, messages are recycled, queues are swapped under the feet of the io threads | callbacks are handled once and in order; a descriptor finds its own connection |
| containers, buffer, timer | - | - | all of the above | boundaries | behave as sequences |
| redis pool | per thread: context of an address and address of a context; handles that share contexts | `GetConnection`, `ReleaseConnection`, `w_redisCommand` | hiredis | shared and stale handles, reconnect and retry in the middle of a command | open connections and the pool agree; freed once; the right server |
| HTTP sockets and parser, socket wrappers, Windows back end, vendored code | - | - | - | - | not modelled (see PROJECT.json) |

PROJECT.json lists every component with its status and every hazard with the
line where it bites and the properties that cover it.

## Modules

`ByteChannel` is the abstract specification of the sending half of a
connection: accepted frames come out as one byte stream, in order, and `Close`
takes effect when the stream is out or the connection broke. When it breaks, a
`Send` under way may still be told that its frame was accepted (`Abort`).

`TcpSocket` models one connection in plain mode (`NetIo::Start(n, false)`) on
Linux. Its variables are the fields of `TcpBaseSocket` and of
`SocketImpl::core` plus the control state of the threads:

| variable | code |
|---|---|
| `flag`, `writing`, `buf1`, `buf2` | `_flag`, `_writer.writing`, `msgbuffer1`, `msgbuffer2` |
| `fd`, `epoll`, `state`, `optype`, `wop` | `_fd`, `_epoll`, `_state`, `_op._type`, the buffer of `_op._wop` |
| `post` | which posting (`AsyncSendSome`, `AsyncRecvSome`) is between its two stores of `_type` |
| `kind`, `st` | how the connection starts (accepted, `AsyncConnect`, `Connect`) and how far |
| `pc`, `ev`, `batch`, `bad`, `done` | the io thread in `_DoRun`, `_DoExecOp`, `Complete` and the handlers |
| `closereqs` | `IoServiceImpl::_closereqs`, this socket's part |
| `reg`, `peer` | kernel: registered events, what the peer did |
| `accepted`, `sent`, `ioerr`, `log`, `early` | history; `early`: `Close()` was called while `AsyncConnect` was under way |

`Send` and `Close` are open to whoever was given the socket: the callee of
OnConnected and the thread `Connect()` returned to (`Usable`). The caller of
`AsyncConnect` holds it earlier, and may `Close()` before the connect completes
(`CloseEarly`). `_ConnectHandler` takes no notice of that: either the request to
close is executed first, and OnDisconnected comes alone, or the connect completes
first, and `_flag` goes from `E_STATE_CLOSE` back to `E_STATE_START`
(tcp_connector.cpp:59) with the request to close still queued, so that
OnConnected, perhaps a `Send`, and OnDisconnected follow. The first is not the
order that netio.hpp:92 promises. `CallbackOrder` and `NoReopen` allow exactly
these two steps and no others; `WritePending`, `Listening` and `DrainEnds` leave
such connectors out, because `_DoClose` takes the descriptor from under a write
that was posted in between. All other properties hold of them as of the rest. Not
in the model: a second thread that closes a connector during a blocking
`Connect()` of the first.

A section under `_writer.lock` or the mutex of the `SocketImpl` is one action,
with one exception: between the two stores of `_type` the io thread can read
it, so a posting is two actions (`PostSend`/`SendPosted`,
`PostRecv`/`RecvPosted`), and while it lasts the actions that need the lock it
holds are disabled. The completion of an operation is one action per section:
the locked half of `Complete`, the system call, the handler. Bytes are real
sequences, because the swap and the cut of the buffers are what could go wrong;
received data is only a number of whole messages.

`Logger` models the ring of buffers, `log()`, `stop()` and the dump thread. An
entry is its number and its length; `node` holds status, bytes used and entries
of each buffer. The write of a buffer is an action of its own because it
happens with no lock held. Opening and writing the file may fail, and a file
that could not be opened is never retried, as in the code.

`SList` is `base::slist` with its head, tail and count as three separate things,
because they can come apart: `items` is what is linked from `_head`, `tail` says
whether `_tail` points at the last of them.

`AppServer` models the message pump of `ApplicationBase`. The lists the code has
twice, for accepted sockets and for connectors, are functions of the kind.

| variable | code |
|---|---|
| `queue`, `pool` | `_tcp_..._msg_list`, `_tcp_..._msg_list2` (guarded by `_msg_lock`) |
| `tmp`, `tmp2` | the local lists of `Run()` |
| `ctx` | `_tcp_socket_container`, `_tcp_connector_container` |
| `pc`, `now`, `last`, `clock` | where `Run()` is, `_now`, `last_check_time`, the time in ticks |
| `phase`, `fd` | the connection as `TcpSocket` leaves it: open (`IsConnected()`), closing, closed (descriptor invalid, handler due), gone |
| `run` | whether the process is up; a read through a null head is a crash |
| `posted`, `handled` | history |

A callback of an io thread is one action (it runs under `_msg_lock`); the loop
has one action for its head with `OnTick`, one for the swap, one per message and
one for the recycling. The look at the queues without the lock is part of the
swap: only the loop takes messages away, so a queue that looked non-empty still is,
and one that looked empty is met again in the next round. `OnProc` belongs to the application: what it can do to
the state is close connections, which `BeginClose` allows at any time. A
callback's buffer is the sequence of packets ever written to it.

`CoSocket` is `TcpSocket` in coroutine mode: `OnReceiveData` may yield, the io
thread goes on, and the completion is resumed between two waits. `susp` is what
`_CutMsgPack` still had to do, `stale` says that the event it holds a pointer to
is not the one it was started for.

`CoTask` models the coroutines of the threads that run tasks, and the resumes
that other threads leave for them.

| variable | code |
|---|---|
| `nco`, `cur`, `status` | `_schedule_::_nco`, `_curco`, `_coroutine_::_status` |
| `job` | whose task a coroutine is in; `Idle` at the yield of `_co_task_func_` |
| `free` | `gfreecovec` |
| `queued`, `tmp` | `_queue_map[thread]`, the local list of `doThrResume` |
| `ub` | a coroutine that waits for a task was resumed and read `*(wrapper->task)` |

`CoCall` composes it with `CoScClient` and the callbacks of `ScServer`.

| variable | code |
|---|---|
| `pc`, `cnt`, `code` | where `_Sync` is, its loop counter, its result |
| `sock`, `packidx` | `_socket` (as the number of the connector), `_packidx` |
| `at` | thread and coroutine of the call |
| `link` | the connector as `TcpSocket` leaves it: open, closing (`OnDisconnected` due), gone |
| `info` | `_CoScInfo_`: `valid`, `thr_id`, `co_id`, `buffer` |
| `recv` | the ids an `OnReceiveData` has read and not used yet |
| `wire` | the request or the reply on its way |
| `calls`, `got`, `runs`, `broke`, `lost` | history: the call, the call its reply answers, how often the server ran it, whether a connection broke, whether the request of the attempt was not sent or is not answered |

A connector never changes its number: the callbacks of an old one come when the
client has gone on to the next. A locked section is one action; `OnReceiveData`,
which takes no lock, is two. `_Reconnect` is two, since the connector is live
before `valid` is set. `Send` may refuse a request on an open connector as well
(a packet over `M_SOCKET_PACK_SIZE`, a full `msgbuffer2`), and `_Sync`, which does
not look at its result, yields all the same. The server is what the client sees
of it: it executes a request, also one whose connection broke meanwhile, and
answers with its `pack_idx`, or its own `Send` refuses the reply (`Serve`); or it
returns early without executing anything, for want of a `_ScInfo_`, of a handler
or of a `way_type` it knows (`Ignore`). The caller may leave bytes of the reply in
the connector's buffer. `ReceiveData` needs an open link; in the code it may still
be called just after `Close()`, but a client closes only when its ticket is used
up, so the two steps commute.

`HeartBeat` models `HeartBeatMng`. `colist` and `datalist` are the lists of news,
`info` the three maps (an accepted socket has only a `rcv_time`, its `updtime`),
`idx` and `now` the pass under way. Time counts seconds; `Lag` is how long after
the beginning of a pass the next may begin. The peers are assumptions, not code:
one that is alive answers a keep-alive within `Delay`, and is not silent for more
than `Gap` on an accepted socket. A socket keeps its bucket; in the code one that
was closed before `OnConnected` is put in the bucket of descriptor -1, where its
entry ends in the same way.

`RedisPool` models the pool of one thread: `info` and `revinfo` are the two maps,
`live` the contexts whose `_context` is not null, `handle` what each
`RedisConnection` points to. A command is up to three steps, with the reply lost
before or after the server executed it, and the reconnect in between.

The `MC` modules give the constants values; the `Proofs` modules hold the
theorems. Operators whose comment begins with "mutant" are plausible bugs;
nothing uses them, and each property is shown to fail when one of them takes the
place of the definition after it.

## Runs

| run | instance | shows |
|---|---|---|
| `tcp` | frames of one and two bytes, `MaxBuf` 3, `MaxBytes` 5, `MaxLog` 3, all three kinds of connection | the invariants and action properties below, `ByteChannel` as a refinement, `CloseReported`, `DrainEnds` |
| `tcp_coroutine_order` | frames as above, `MaxBytes` 2 | a violation: `OnReceiveData` after `OnDisconnected` in coroutine mode |
| `logger` | three buffers of four bytes, entries of one and two bytes, eight entries | `LogIntact`, `NoRace`, `Flushed`, `Resumes` |
| `cocall` | one thread with two coroutines, a client with two calls and two connectors, another with one of each | `ResumeOwned`, `OwnReply`, `TwiceOnlyIfBroken`, `WakeUpDue`, `ReturnsUnlessStranded` |
| `cocall_hang` | the same | a violation: a call that never returns, though its request was not refused or ignored on an open connection |
| `heartbeat` | a connector and an accepted socket in two buckets, one of them connected; beat 6, idle 2, answers within 1, silence up to 4, a pass every second, 16 seconds | `KeptAlive`, `SilentDropped` |
| `redis` | one dotted address and two names, two databases, two handles, three contexts | `FreedOnce`, `PoolIsOpen`, `RightServer`, `TwiceOnlyIfLost` |
| `app_registry` | two sockets, two descriptors, five callbacks, three ticks | `Registered`, with expiry and reuse of descriptors |
| `app_pump` | a socket and a connector, cache of two, five callbacks | `InOrder`, `CacheBounded`, `Served` |
| `app_context` | one socket | a violation: the context of an ended connection stays |
| `app_buffer` | one socket | a violation: `OnProc` is given an old packet |
| `app_cache` | as `app_pump` | a violation: a cache that counts messages it does not hold |

Properties of a connection: `NothingLost` (accepted = sent, then `msgbuffer1`,
then `msgbuffer2`), `GracefulClose` (closed only when all is sent or a write
failed), `WritePending` (while `writing` is set somebody will clear it),
`ReportPending` (the end of a connection that the io thread knows was reported,
is being reported, or has its request to close queued), `NoIdleBacklog` (bytes never wait with nobody to send them), `Listening` (a
started connection is registered for input whenever the io thread waits),
`CallbackOrder`, `ClosedOnce`, `NoReopen` (with what was said above of a connector
closed during `AsyncConnect`), `ImplementsChannel`. To the channel such a connector
counts as open until OnConnected or OnDisconnected is called (`Status`), since
`_ConnectHandler` may still open it.

Properties of the pump: `InOrder` (posted = handled, then what the loop holds,
then the queue), `CacheBounded`, `Registered` (an open connection that was taken
in is the one its descriptor finds; one whose number was taken is closed),
`Served`.

Properties of the calls: `ResumeOwned` (a resume under way is the only one for
its coroutine and is for a call that has registered and not been resumed),
`OwnReply`, `TwiceOnlyIfBroken`, `WakeUpDue` (whoever waits has a resume on its
way, or is registered with a connector that still has a message or its
OnDisconnected to deliver), `ReturnsUnlessStranded` (every call returns). Both
except two kinds of calls (`Stranded`): one that waits on a connector declared
valid after its end (`Revalidated`), and one that waits on an open connector
although its request was refused or goes without a reply (`Unanswered`), which
only the end of that connection resumes. `CallReturns`, the property of
`cocall_hang`, excepts the second kind only, so that what it shows is the first.

Properties of the heart beat: `KeptAlive` (a connection whose peer is alive is
never closed by it), `SilentDropped` (no entry outlives the last sign of life by
more than the beat and three passes). Of the pool: `PoolIsOpen` (it holds the
connections that are open and no others), `FreedOnce`, `RightServer`,
`TwiceOnlyIfLost`.

Bounds. `MaxBytes` 5 with frames of one and two bytes lets a partial write
split a frame, a second frame wait in `msgbuffer2` and a third be refused at
`MaxBuf`. `MaxLog` bounds only how much data the peer sends: three callbacks
are OnConnected and two messages, so one read can deliver none, one or two.
Eight entries wrap the ring of three buffers and overflow it. Five callbacks are
a whole connection with data and a second one on the descriptor that the first
has left; three ticks reach a check (every 3) with a connection that was silent
(for 2) and one that was not. Five callbacks of two kinds with a cache of two
fill the cache and exceed it, and four are enough to break it and crash.
Two connectors and two calls of a client let a callback of the first connector
meet the second, a request be sent twice and a reply left in the buffer meet the
next call; the second client takes over the coroutine of the first. The settings
of the heart beat are the smallest that meet its assumption: with one second
less of beat TLC finds a live connection closed, and with one second less in
`SilentDropped` an entry that stays longer. One connection is enough because
sockets meet only in the buckets they share with the pass. Three contexts are
one that was released, one in its place and one of another database; two names
share the entry of INADDR_NONE.

Deadlock is checked for the socket (the io thread always comes back from
`epoll_wait`) and not for the logger, whose dump thread ends after `stop()`, nor
for the pump, whose process ends or crashes, nor for calls, heart beat and pool,
whose behaviours end at the bounds.

Fairness. The starting thread, a thread that is posting an operation, the io
thread and the dump thread run when they can: nothing in the code makes them
wait for anything but locks that are held for a few statements, `epoll_wait`
has a timeout of 20 ms and the wait of `dump()` one of `_flushtime`. Strong
fairness of an event with EPOLLOUT says that the kernel reports a writable
socket again and again while it is asked to: the peer reads, or the connection
breaks. `DrainEnds` would be false for a peer that never reads and never goes
away; the code has no timer for that. The main
loop of `Run()` runs on: it waits for nothing but `_msg_lock` and a sleep of a
millisecond. In `CoCall` the thread that runs a client, its loop of resumes, and
the io thread of a client's connectors together with the server are weakly fair:
the server deals with what arrives, which need not be an answer. A request that is
refused, ignored or not answered on a connection that never breaks keeps its call
waiting, and the code has no timer against it either. Breaking a connection is
not fair, nor are the application and the peer of a socket.

Findings.
- `netio.hpp` promises OnConnected -> OnReceiveData -> OnDisconnected. In
  coroutine mode an OnReceiveData that yields is overtaken: the io thread closes
  the socket and reports OnDisconnected, and when the coroutine is resumed it
  delivers the next message of its read.
- The same promise fails in plain mode for a connector whose `AsyncConnect` caller
  closes it before the connect completes: OnDisconnected may come without
  OnConnected. `CallbackOrder` names the exception, and run `tcp` shows that there
  is no other.
- A `CoScClient` call can wait for ever. The connector is live before
  `_Reconnect` sets `valid`; when it breaks at once, OnDisconnected comes first
  and is overruled. The call registers with a connector that nobody will call
  back for, and there is no time limit although the result has a code for one.
  The same lack of a limit leaves a call waiting whose `Send` was refused, or
  whose request the server ignores, as long as the connection holds.
- `OnDisConnection` erases the context of descriptor -1, since `_DoClose` has
  invalidated the descriptor before the callback: contexts of ended connections
  stay, and a new connection that is given such a number is refused. The code
  calls this "a big bug" when it logs it.
- A recycled message keeps its buffer, `Write` appends, and `OnProc` reads from
  the start: it is given the packet of the first use again.
- `slist::join` of an empty list clears `_tail`. `Run()` does so to the cache of
  one kind whenever only messages of the other kind were handled; the second
  time the cached messages are dropped and still counted, and the next callback
  reads through a null head.

## Proofs

`TcpSocketProofs` proves, for every set of frames, every set of start kinds and
all bounds, that `TypeOK`, `NothingLost`, `GracefulClose`, `WritePending`,
`ReportPending`, `NoIdleBacklog`, `Listening`, `CallbackOrder`, `ClosedOnce` are
invariants of `Spec` and that `NoReopen` holds. The assumptions are those of `TcpSocket`: frames are
non-empty byte sequences, kinds are the three the code has, bounds are naturals.

None of these is inductive alone. `IInv` adds
- `ImplInv`: the bits of `_state`, the registration and the close requests
  agree (a descriptor in block mode is in no epoll set, the io thread works only
  on a registered one or one that is closed, a queued request means an open
  descriptor);
- `StartInv`: before the connection is started nothing else happens to it;
- `WriterInv`: `writing`, the write bit, `_type`, the registration and the io
  thread agree on where the write is: posted and not yet registered, registered,
  or being completed; and a socket with a failed write is closed;
- `ReaderInv`: the same for the read of a started connection, which is what
  `Listening` needs: a `Send` between its two stores of `_type`, and a completion
  that read `_type` meanwhile, leave the read bit, and the second store goes by
  the bits (`ReadBits`); the read is posted or with the io thread (`Reading`);
- `ReportInv`: whoever closes the socket finds `_epoll` set if it ever will be,
  so that the request to close is queued and not taken for a socket that no io
  thread knows. A socket in the epoll set has it, so has one whose registration
  failed, but for a connector without io threads, which nobody else can reach
  before its first read is posted;
- `OpenInRound`: in plain mode the descriptor stays open while the io thread
  completes operations;
- `LogInv`: after OnDisconnected the descriptor is closed for good.

This is what holds of a connection that was not closed during `AsyncConnect`. One
that was is in one of three situations (`EarlyState`): the connect is still under
way, it completed and the request to close is queued, or the descriptor is closed
and OnDisconnected is due or was called. `EarlyInv` says what each leaves of the
above, and the invariant of `Spec` is `SocketInv`: `EarlyInv` if `early`, otherwise
`IInv` (`FirstClose` leads from the one to the other).

The step lemmas (`TypeStep`, `ImplStep`, `StartStep`, `WriterStep`, `ReadBitsStep`,
`ReadingStep`, `ReportStep`, `OpenStep`, `LogStep`, `StreamStep`, `ReopenStep`) go
through the actions. `GracefulClose` follows
because a closed socket has no write on its way, so `NoIdleBacklog` empties the
buffers and `NothingLost` gives `sent = accepted`.

`TcpChannelProofs` proves the refinement, `Spec => ImplementsChannel`. Under the
mapping (`Status` from the flag and from whether a write is on its way, `ioerr` as
`broken`) a `Send` is `Accept`; `g_send` is `Transmit`, because what it takes is the
front of `msgbuffer1` and so, by `NothingLost`, comes next after what was sent
(`NextBytes`); `_Close()` is `Drain` while a write is on its way and otherwise
`Close`, when nothing is buffered; the last write of a socket that is draining is
`Close`; a write that failed or could not be posted is `Abort`. All else is a
stutter, the moment between the two stores of `_type` included.

The same module proves it for coroutine mode, `CoSpec => ImplementsChannel`, and
with it `NothingLost`, `GracefulClose`, `WritePending`, `ReportPending`,
`NoIdleBacklog`, `ClosedOnce` and `NoReopen` of `CoSpec`. There `OpenInRound` and
`CallbackOrder` fail (run `tcp_coroutine_order`), but the part of the invariant
that speaks of the stream and of the report (`Shared`) does not depend on them
(and a connector closed during `AsyncConnect` has no handler to suspend): a
handler that is resumed after its descriptor was closed finds `_state` empty.
`SuspInv` says what a suspended handler may rely on. So a late handler disturbs
the callbacks and not the stream. How far it does is a theorem too
(`CoCallbacks`): OnConnected still comes first, OnDisconnected once, and only
messages of the read that was resumed can follow it (`LateDataOnly`). `Listening`
holds unless a handler is suspended: it has the read, and posts it again when it
returns (`CoStaysListening`). What coroutine mode does add is one
more way to `Abort`: `g_send` for an event of another round may find no room, which
`_WriteHandler` takes for an error (`KernelFull`). The theorems are about a thread
with one descriptor, as `CoSocket` is.

`LoggerProofs` proves `TypeOK`, `NoRace` and `LogIntact` for every number and size of
buffers. `NoRace`: the buffer the dump thread writes is marked full (`Marked`), and
`log()` changes free buffers only. `LogIntact` needs the shape of the ring
(`RingInv`): from the consumer on, some number `m` of buffers are full and those
beyond the next hold nothing; the producer is at the next one, or the dump thread
took the buffer it was writing to, and it waits there, full, to be moved on. So an
entry that `log()` accepts is put behind all that the ring holds (`HeldAppend`),
writing takes the first buffer (`HeldWritten`), and giving it back adds an empty
one at the end (`HeldReleased`). What is held is the concatenation of the buffers,
which the community modules define by recursion. The lemmas `FlattenJoins` and
`JoinsExist` give it a closed form, the function of the partial joins; they argue
by the least counterexample (`LeastNat`), which is a set and needs no induction
scheme.

`AppServerProofs` proves `TypeOK`, `InOrder`, `CacheBounded` and `Registered` for
any number of connections and descriptors, any cache size and all bounds, from
the assumptions that a connection is of one kind, `NoFd` is no descriptor and
the sizes are naturals. Lemmas on `SList` say what `push_back` and `pop_front`
do to a list that is a sequence (`PushSeq`, `Pop`) and that recycling keeps the
bound even on a cache that is not one (`Recycling`). `InOrder` needs `LoopInv`:
the loop's lists are empty whenever it swaps. `Registered` needs four more:
`FdInv` (a descriptor has one connection, and exactly the connections that are
open or closing have one), `MsgInv` (a message that a connection came or went is
only posted when it has), `CtxInv` (one context to a descriptor) and `RegInv`
(an open connection that was taken in has a context). A message that a
connection went erases only contexts of descriptor -1, and no open connection
has that one: what makes contexts stay is also why none is lost.

`CoCallProofs` proves `TypeOK` and `ResumeOwned` for any number of threads,
coroutines, clients, connectors and calls. The argument is a ticket: a call that
has registered has its ids in the `_CoScInfo_` of its connector, or one resume on
its way, never both and never neither (`Ticket`). `OnReceiveData` may read the
ids without the lock because nobody else can take them then: a message is on an
open connector only while its call waits, and only the present connector of a
client is open (`Link`, `Present`). That two calls never hold the same ticket
comes from the table of coroutines (`Table`: a coroutine works for exactly one
client or waits for a task), and with it `ub` is never set.

`CoCallReplyProofs` proves `OwnReply`, `TwiceOnlyIfBroken` and `WakeUpDue` on top of
it. What is
on the connector of a waiting call is its own (`Carried`), so that a ticket that
is back means its own reply or a buffer that OnDisconnected cleared (`Replied`).
Executions and the requests still under way together are at most the attempts
made (`Sent`, with the cardinality of the set of connectors that carry one), and
without a broken connection there is only one (`Unbroken`). `WakeUpDue` adds to
the ticket that the one who holds it has a reason to give it back: `Send` puts a
request on an open connector, and the message and the ids are taken together, so
a registered call has a message under way as long as its connector is open
(`Due`); a connector that is not open still owes its OnDisconnected, unless that
came before the connector was declared valid. A request that `Send` refuses, or
that the server lets go, is recorded in `lost`, and `Due` allows for it.

`HeartBeatProofs` proves `TypeOK`, `KeptAlive` and `SilentDropped` for any number of
sockets and buckets and all settings with `Delay + Lag <= Idle`,
`Idle + Delay + 3 * Lag <= Beat` and `Gap + 2 * Lag <= Beat`. The inductive
invariant follows a sign of life along its way, from the peer through the list to
the entry, with the greatest delay of each part: how old a keep-alive that is not
answered, a note in a list and an entry can be.

`RedisPoolProofs` proves all five properties of the pool for any hosts, databases,
handles and bounds. `IInv` reads the two maps together: a context is found under
its own number exactly while it is live (`Found`, `Known`), a handle points to a
context made for what it was asked for (`Attached`), and a command that
reconnects does so for the address it was on (`OnWay`).

Left to TLC: the liveness properties (`CloseReported`, `DrainEnds`, `Flushed`,
`Resumes`, `ReturnsUnlessStranded`, `Served`); liveness under fairness is beyond the
prover. What is proved of three of them is that what they wait for is always on
its way: `ReportPending` for `CloseReported`, `WritePending` for `DrainEnds` and
`WakeUpDue` for `ReturnsUnlessStranded`. Every other property of the passing runs
is a theorem.

## Not modelled, and the plan

Modelled are the connection with its reactor in both modes, the logger, the
message pump of a server, coroutines with synchronous calls, the heart beat and
the redis pool. Left out, in the order in which it is worth adding:

1. Two descriptors in coroutine mode, whose events share the array of the io
   thread: a completion that is resumed may take another socket's
   `OperationSet` from its slot. It is listed as a hazard.
2. `Framing`: `_CutMsgPack` against a reference decoder, for every way the
   stream is cut into reads.
3. Start and stop of the service, of the io threads and of the heart beat; the
   accept loop.
4. `SyncConnector` and `ScClient`, which block one thread and share nothing;
   `circular_queue`, `svector` and the timer, which nothing above uses but the
   resume queue of the own thread, itself unused.

Windows twins, socket wrappers without state, HTTP text parsing, the text of the
redis commands, formatting, start-up of the process and third-party code (boost,
protobuf, google, hiredis, the MySQL headers) stay out: they have no state that
several actors share, or are not this program's.
