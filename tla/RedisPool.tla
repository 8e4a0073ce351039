----------------------------- MODULE RedisPool -----------------------------
(***************************************************************************)
(* One thread's pool of Redis connections and the commands run on them     *)
(* (hiredis_wrapper/wrapper/redis_pool.cpp, redis_wrapper_config.hpp).     *)
(* The pool is thread local, and handles stay in their thread as           *)
(* redis_pool.hpp asks, so everything here happens in one thread; what     *)
(* comes in between is the network and the server.                         *)
(*                                                                         *)
(* Handles (RedisConnection) share the context of their address.  A host   *)
(* stands for an ip and a port; a host that is a name and not a dotted     *)
(* address has no number of its own (inet_addr).                           *)
(***************************************************************************)
EXTENDS Naturals

CONSTANTS
  Hosts,     \* what a handle may be asked for
  Dotted,    \* those of them that are dotted addresses
  NoHost,    \* INADDR_NONE
  Dbs,       \* databases
  Handles,   \* RedisConnection objects
  MaxCtx     \* model bound: contexts made in one behaviour

ASSUME HostsAssumption == Dotted \subseteq Hosts /\ NoHost \notin Hosts
ASSUME BoundsAssumption == Dbs \subseteq Nat /\ 0 \in Dbs /\ MaxCtx \in Nat

Ctxs == 1..MaxCtx
Addrs == [host : Hosts, db : Dbs]
AllIds == [host : Dotted \cup {NoHost}, db : Dbs]
NoAddr == [host |-> NoHost, db |-> 0]

VARIABLES
  info,     \* _redisinfo_::_info: the context of an id, 0 when there is none
  revinfo,  \* _redisinfo_::_revinfo: the ids (at most one) of a context
  live,     \* _rediscontext_::_context is not null
  addr,     \* _rediscontext_::_ip, _port, _db: where the context is connected
  made,     \* contexts made so far
  handle,   \* RedisConnection::_context, 0 when it is null
  stage,    \* the command under way: "none", "again" (reply lost), "retry"
  by, to,   \* its handle, and the address it reconnects to
  \* history
  asked,    \* what a handle was last asked for
  freed,    \* how often redisFree got the connection of a context
  execs,    \* how often the server executed the last command
  lost      \* replies to it that were lost

pool == <<info, revinfo, live, addr, made>>
command == <<stage, by, to, execs, lost>>
vars == <<pool, command, handle, asked, freed>>

\* _redisaddr_::three_only_id(inet_addr(ip), port, database).
TwoOnlyId(a) ==  \* mutant: two_only_id, which leaves the database out
  [host |-> IF a.host \in Dotted THEN a.host ELSE NoHost, db |-> 0]
Id(a) == [host |-> IF a.host \in Dotted THEN a.host ELSE NoHost, db |-> a.db]

Init ==
  /\ info = [i \in AllIds |-> 0]
  /\ revinfo = [c \in Ctxs |-> {}]
  /\ live = {}
  /\ addr = [c \in Ctxs |-> NoAddr]
  /\ made = 0
  /\ handle = [h \in Handles |-> 0]
  /\ stage = "none" /\ by \in Handles /\ to = NoAddr
  /\ asked = [h \in Handles |-> NoAddr]
  /\ freed = [c \in Ctxs |-> 0]
  /\ execs = 0 /\ lost = 0

-----------------------------------------------------------------------------
(* The pool                                                                *)

\* GetConnection(a) for handle h: the context in the pool, or a new one that
\* has connected and selected its database.
Get(h, a) ==
  \/ /\ info[Id(a)] # 0
     /\ handle' = [handle EXCEPT ![h] = info[Id(a)]]
     /\ UNCHANGED pool
  \/ /\ info[Id(a)] = 0 /\ made < MaxCtx
     /\ made' = made + 1
     /\ live' = live \cup {made + 1}
     /\ addr' = [addr EXCEPT ![made + 1] = a]
     /\ info' = [info EXCEPT ![Id(a)] = made + 1]
     /\ revinfo' = [revinfo EXCEPT ![made + 1] = {Id(a)}]
     /\ handle' = [handle EXCEPT ![h] = made + 1]

\* One that cannot connect or select throws and leaves nothing behind.
GetConnection(h, a) ==
  /\ stage = "none"
  /\ Get(h, a)
  /\ asked' = [asked EXCEPT ![h] = a]
  /\ UNCHANGED <<command, freed>>

\* _releaseConnection(c): out of both maps if it is in them, freed, and null
\* for every handle that shares it.  redisFree ignores a null pointer.
KeepsInfo(c) ==  \* mutant: _info is not erased
  /\ info' = info
  /\ revinfo' = [revinfo EXCEPT ![c] = {}]
  /\ freed' = [freed EXCEPT ![c] = IF c \in live THEN @ + 1 ELSE @]
  /\ live' = live \ {c}
KeepsPointer(c) ==  \* mutant: _context is not set to null
  /\ info' = [i \in AllIds |-> IF i \in revinfo[c] THEN 0 ELSE info[i]]
  /\ revinfo' = [revinfo EXCEPT ![c] = {}]
  /\ freed' = [freed EXCEPT ![c] = IF c \in live THEN @ + 1 ELSE @]
  /\ live' = live
Release(c) ==
  /\ info' = [i \in AllIds |-> IF i \in revinfo[c] THEN 0 ELSE info[i]]
  /\ revinfo' = [revinfo EXCEPT ![c] = {}]
  /\ freed' = [freed EXCEPT ![c] = IF c \in live THEN @ + 1 ELSE @]
  /\ live' = live \ {c}

\* ReleaseConnection(h), of a handle that has a context.
LetGo(h) ==
  /\ Release(handle[h])
  /\ handle' = [handle EXCEPT ![h] = 0]
  /\ UNCHANGED <<addr, made>>

ReleaseConnection(h) ==
  /\ stage = "none" /\ handle[h] # 0
  /\ LetGo(h)
  /\ UNCHANGED <<command, asked>>

\* Handles are copied.
Copy(h, g) ==
  /\ stage = "none" /\ handle[g] # 0
  /\ handle' = [handle EXCEPT ![h] = handle[g]]
  /\ asked' = [asked EXCEPT ![h] = asked[g]]
  /\ UNCHANGED <<pool, command, freed>>

-----------------------------------------------------------------------------
(* A command: M_CHECK_REDIS_CONTEXT, w_redisCommand, M_CLOSE_CONNECTION    *)

\* M_CHECK_REDIS_CONTEXT: any other handle throws "redis is not connected".
Connected(h) == handle[h] # 0 /\ handle[h] \in live

\* The server answers.
Reply(h) ==
  /\ stage = "none" /\ Connected(h)
  /\ by' = h /\ execs' = 1 /\ lost' = 0
  /\ UNCHANGED <<pool, handle, asked, freed, stage, to>>

\* There is no reply, whether or not the server executed the command: the
\* connection is let go of, to try again on a new one.
ErrorReply(h) ==  \* mutant: tries again after a reply that is an error
  /\ stage = "none" /\ Connected(h)
  /\ by' = h /\ to' = addr[handle[h]] /\ stage' = "again"
  /\ execs' = 1 /\ lost' = 0
  /\ LetGo(h)
  /\ UNCHANGED asked
NoReply(h) ==
  /\ stage = "none" /\ Connected(h)
  /\ by' = h /\ to' = addr[handle[h]] /\ stage' = "again"
  /\ execs' \in {0, 1} /\ lost' = execs'
  /\ LetGo(h)
  /\ UNCHANGED asked

\* GetConnection throws ...
Again ==
  /\ stage = "again"
  /\ stage' = "none" /\ to' = NoAddr
  /\ UNCHANGED <<pool, handle, asked, freed, by, execs, lost>>

\* ... or the handle gets a connection, and redisvCommand runs a second time,
\* on the va_list that the first one has consumed: what it sends is left open
\* here.
Reconnect ==
  /\ stage = "again"
  /\ Get(by, to)
  /\ stage' = "retry" /\ to' = NoAddr
  /\ UNCHANGED <<asked, freed, by, execs, lost>>

RetriedForever ==  \* mutant: a command without reply is tried until it has one
  /\ stage = "retry"
  /\ \/ stage' = "none" /\ execs' = execs + 1 /\ UNCHANGED <<pool, handle, freed, lost, to>>
     \/ /\ stage' = "again" /\ to' = addr[handle[by]]
        /\ execs' \in {execs, execs + 1} /\ lost' = lost + execs' - execs
        /\ LetGo(by)
  /\ UNCHANGED <<asked, by>>
Retried ==
  /\ stage = "retry"
  /\ stage' = "none"
  /\ \/ execs' = execs + 1 /\ UNCHANGED <<pool, handle, freed, lost>>
     \/ /\ execs' \in {execs, execs + 1} /\ lost' = lost + execs' - execs
        /\ LetGo(by)  \* M_CLOSE_CONNECTION
  /\ UNCHANGED <<asked, by, to>>

-----------------------------------------------------------------------------
Next ==
  \/ \E h \in Handles, a \in Addrs : GetConnection(h, a)
  \/ \E h \in Handles : ReleaseConnection(h) \/ Reply(h) \/ NoReply(h)
  \/ \E h, g \in Handles : Copy(h, g)
  \/ Again \/ Reconnect \/ Retried

Spec == Init /\ [][Next]_vars

-----------------------------------------------------------------------------
(* Properties                                                              *)

TypeOK ==
  /\ info \in [AllIds -> Ctxs \cup {0}]
  /\ revinfo \in [Ctxs -> SUBSET AllIds]
  /\ live \subseteq Ctxs
  /\ addr \in [Ctxs -> Addrs \cup {NoAddr}]
  /\ made \in 0..MaxCtx
  /\ handle \in [Handles -> Ctxs \cup {0}]
  /\ stage \in {"none", "again", "retry"}
  /\ by \in Handles /\ to \in Addrs \cup {NoAddr}
  /\ asked \in [Handles -> Addrs \cup {NoAddr}]
  /\ freed \in [Ctxs -> Nat]
  /\ execs \in 0..2 /\ lost \in 0..2

\* The pool holds the connections that are open and no others: a released
\* one is never handed out again, and none is open that the pool has lost,
\* so two handles for one address that both work share a connection.
PoolIsOpen ==
  /\ \A i \in AllIds : info[i] # 0 => info[i] \in live
  /\ \A c \in live : info[Id(addr[c])] = c

\* No connection is freed twice, whichever of the handles that share it lets
\* go of it, and how often; and none is used after it was freed.
FreedOnce ==
  \A c \in Ctxs : freed[c] <= 1 /\ (c \in live => freed[c] = 0)

\* A handle that was asked for a dotted address is at that host and in that
\* database, also after a command that reconnected.
RightServer ==
  \A h \in Handles : asked[h].host \in Dotted /\ handle[h] # 0 => addr[handle[h]] = asked[h]

\* A command is executed at most twice, and a second time only when the reply
\* to the first was lost.
TwiceOnlyIfLost == execs <= 2 /\ (execs = 2 => lost >= 1)
=============================================================================
