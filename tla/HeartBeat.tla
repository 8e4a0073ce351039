----------------------------- MODULE HeartBeat -----------------------------
(***************************************************************************)
(* The heart beat (netio/heartbeat.hpp): one thread goes over the sockets  *)
(* of each bucket again and again, closes those that have been silent for  *)
(* _beat seconds, and sends on connectors that have been idle.  The        *)
(* callbacks of NetIo only leave a note for it, under the bucket's lock.   *)
(*                                                                         *)
(* Accepted TCP and HTTP sockets and connectors differ only in that        *)
(* connectors are asked for an answer.  One bucket is one step: what it    *)
(* works on after the lists were swapped is the thread's own.  The clock   *)
(* counts seconds and goes on while a pass lasts, but a pass uses the time *)
(* it began at.                                                            *)
(***************************************************************************)
EXTENDS Naturals, FiniteSets

CONSTANTS
  Socks,     \* sockets
  Keep,      \* those of them that are connectors
  Cnt,       \* _svr_cnt
  Bucket,    \* GetFd() % _svr_cnt + 1
  Beat,      \* _beat
  Idle,      \* ConnSocketInfo::idle
  Delay,     \* how long a peer that is alive may take to answer
  Gap,       \* how long the peer of an accepted socket may be silent
  Lag,       \* the next pass begins at most this long after a pass began
  MaxConn,   \* model bound: connections in one behaviour
  MaxClock   \* model bound

ASSUME SocksAssumption == Keep \subseteq Socks /\ Bucket \in [Socks -> 1..Cnt]
ASSUME NatAssumption ==
  /\ Cnt \in Nat \ {0} /\ Beat \in Nat /\ Idle \in Nat /\ Delay \in Nat
  /\ Gap \in Nat /\ Lag \in Nat /\ MaxConn \in Nat /\ MaxClock \in Nat
\* An answer is back before the next keep-alive is due, and both settings
\* leave the beat room for the passes it takes to notice.
ASSUME SlackAssumption ==
  /\ Delay + Lag <= Idle
  /\ Idle + Delay + 3 * Lag <= Beat
  /\ Gap + 2 * Lag <= Beat

VARIABLES
  clock,
  now,       \* now, of the present or the last pass
  idx,       \* the bucket that is next, 0 while the thread sleeps
  colist,    \* sockets in the co_ lists
  datalist,  \* sockets in the data_ lists
  info,      \* tcp_info, http_info, conn_tcp_info
  conn,      \* the connection: "none", "up", "closed"
  told,      \* sockets OnConnected was called for
  \* peer
  alive,     \* the peer answers
  asked,     \* when the keep-alives it has not answered yet were sent
  \* history
  last,      \* when the socket connected, or the heart beat was last told of it
  seen,      \* the time of the last pass over a bucket
  beaten     \* closed by the heart beat while its peer was alive

vars == <<clock, now, idx, colist, datalist, info, conn, told, alive, asked, last, seen, beaten>>

NoInfo == [on |-> FALSE, rcv_time |-> 0, snd_time |-> 0]

Init ==
  /\ clock = 0 /\ now = 0 /\ idx = 0
  /\ colist = {} /\ datalist = {}
  /\ info = [s \in Socks |-> NoInfo]
  /\ conn = [s \in Socks |-> "none"]
  /\ told = {}
  /\ alive = [s \in Socks |-> TRUE]
  /\ asked = [s \in Socks |-> {}]
  /\ last = [s \in Socks |-> 0]
  /\ seen = [i \in 1..Cnt |-> 0]
  /\ beaten = {}

-----------------------------------------------------------------------------
(* The callbacks                                                           *)

\* A connection comes up.  Data may arrive before the heart beat is told.
Connect(s) ==
  /\ conn[s] = "none" /\ Cardinality({c \in Socks : conn[c] # "none"}) < MaxConn
  /\ conn' = [conn EXCEPT ![s] = "up"]
  /\ last' = [last EXCEPT ![s] = clock]
  /\ UNCHANGED <<clock, now, idx, colist, datalist, info, told, alive, asked, seen, beaten>>

\* HeartBeatMng::OnConnected, once.
OnConnected(s) ==
  /\ conn[s] # "none" /\ s \notin told
  /\ told' = told \cup {s}
  /\ last' = [last EXCEPT ![s] = clock]
  /\ colist' = colist \cup {s}
  /\ UNCHANGED <<clock, now, idx, datalist, info, conn, alive, asked, seen, beaten>>

\* HeartBeatMng::OnReceiveData.
Data(s) ==
  /\ conn[s] = "up"
  /\ datalist' = datalist \cup {s}
  /\ last' = [last EXCEPT ![s] = clock]

OnReceiveData(s) ==
  /\ Data(s) /\ UNCHANGED asked
  /\ UNCHANGED <<clock, now, idx, colist, info, conn, told, alive, seen, beaten>>

-----------------------------------------------------------------------------
(* The thread: _Run                                                        *)

Begin ==
  /\ idx = 0
  /\ now' = clock /\ idx' = 1
  /\ UNCHANGED <<clock, colist, datalist, info, conn, told, alive, asked, last, seen, beaten>>

\* The sockets of the bucket whose time is over ...
Expired(i) ==
  {s \in Socks : Bucket[s] = i /\ info[s].on /\ info[s].rcv_time + Beat < now}

\* ... and those that get a keep-alive.
RareAsk(i) ==  \* mutant: waits for _beat instead of idle
  {s \in Keep \ Expired(i) :
     Bucket[s] = i /\ info[s].on /\ info[s].snd_time + Beat < now}
Ask(i) ==
  {s \in Keep \ Expired(i) :
     Bucket[s] = i /\ info[s].on /\ info[s].snd_time + Idle < now}

\* The entry of a socket of the bucket at the end of the pass: it is looked
\* at first, and only then the lists are worked through.
Held(s, i) == s \in colist \/ (info[s].on /\ s \notin Expired(i))
Touched(s, i) ==  \* mutant: a keep-alive counts as a sign of life
  IF Held(s, i)
  THEN [on       |-> TRUE,
        rcv_time |-> IF s \in colist \cup datalist \cup Ask(i) THEN now ELSE info[s].rcv_time,
        snd_time |-> IF s \in colist \cup Ask(i) THEN now ELSE info[s].snd_time]
  ELSE NoInfo
Entry(s, i) ==
  IF Held(s, i)
  THEN [on       |-> TRUE,
        rcv_time |-> IF s \in colist \cup datalist THEN now ELSE info[s].rcv_time,
        snd_time |-> IF s \in colist \cup Ask(i) THEN now ELSE info[s].snd_time]
  ELSE NoInfo

\* The next bucket, or the sleep between two passes.
OneMore == IF idx > Cnt THEN 0 ELSE idx + 1  \* mutant: <= _svr_cnt in the loop
NextBucket == IF idx = Cnt THEN 0 ELSE idx + 1

Pass ==
  /\ idx # 0
  /\ LET mine == {s \in Socks : Bucket[s] = idx} IN
     /\ colist' = colist \ mine
     /\ datalist' = datalist \ mine
     /\ info' = [s \in Socks |-> IF s \in mine THEN Entry(s, idx) ELSE info[s]]
  /\ conn' = [s \in Socks |-> IF s \in Expired(idx) THEN "closed" ELSE conn[s]]
  /\ beaten' = beaten \cup {s \in Expired(idx) : conn[s] = "up" /\ alive[s]}
  /\ asked' = [s \in Socks |-> IF s \in Ask(idx) /\ conn[s] = "up"
                               THEN asked[s] \cup {clock} ELSE asked[s]]
  /\ idx' = NextBucket
  /\ seen' = [seen EXCEPT ![idx] = now]
  /\ UNCHANGED <<clock, now, told, alive, last>>

-----------------------------------------------------------------------------
(* Peers and time                                                          *)

Answer(s) ==
  /\ alive[s] /\ Data(s)
  /\ \E t \in asked[s] : asked' = [asked EXCEPT ![s] = @ \ {t}]
  /\ UNCHANGED <<clock, now, idx, colist, info, conn, told, alive, seen, beaten>>

\* The peer stops answering, and nobody is told.
Die(s) ==
  /\ alive[s]
  /\ alive' = [alive EXCEPT ![s] = FALSE]
  /\ UNCHANGED <<clock, now, idx, colist, datalist, info, conn, told, asked, last, seen, beaten>>

\* The application or the peer closes the connection.
Close(s) ==
  /\ conn[s] = "up"
  /\ conn' = [conn EXCEPT ![s] = "closed"]
  /\ UNCHANGED <<clock, now, idx, colist, datalist, info, told, alive, asked, last, seen, beaten>>

\* A peer that is alive answers in time, or is never silent for too long.
InTime(s) ==
  alive[s] /\ conn[s] = "up" =>
    IF s \in Keep THEN \A t \in asked[s] : clock < t + Delay ELSE clock < last[s] + Gap

Tick ==
  /\ clock < MaxClock
  /\ clock < now + Lag
  /\ \A s \in Socks : InTime(s)
  /\ clock' = clock + 1
  /\ UNCHANGED <<now, idx, colist, datalist, info, conn, told, alive, asked, last, seen, beaten>>

-----------------------------------------------------------------------------
Next ==
  \/ \E s \in Socks : \/ Connect(s) \/ OnConnected(s) \/ OnReceiveData(s)
                      \/ Answer(s) \/ Die(s) \/ Close(s)
  \/ Begin \/ Pass \/ Tick

Spec == Init /\ [][Next]_vars

-----------------------------------------------------------------------------
(* Properties                                                              *)

TypeOK ==
  /\ clock \in Nat /\ now \in Nat /\ idx \in 0..Cnt
  /\ colist \subseteq Socks /\ datalist \subseteq Socks
  /\ told \subseteq Socks /\ beaten \subseteq Socks
  /\ info \in [Socks -> [on : BOOLEAN, rcv_time : Nat, snd_time : Nat]]
  /\ conn \in [Socks -> {"none", "up", "closed"}]
  /\ alive \in [Socks -> BOOLEAN]
  /\ asked \in [Socks -> SUBSET Nat]
  /\ last \in [Socks -> Nat]
  /\ seen \in [1..Cnt -> Nat]

\* The heart beat never closes a connection whose peer is alive, although it
\* expires a socket before it takes in the data that has arrived, works with
\* a time that is already past, and may miss data that came before
\* OnConnected.
KeptAlive == beaten = {}

\* A socket that has been silent is closed, and let go of, in time: no entry
\* outlives the last sign of life by more than the beat and three passes,
\* however many keep-alives were sent on it.
SilentDropped ==
  \A s \in Socks : info[s].on => clock <= last[s] + Beat + 3 * Lag
=============================================================================
