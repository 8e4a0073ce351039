------------------------------- MODULE CoCall -------------------------------
(***************************************************************************)
(* Synchronous calls from coroutines: CoScClient                           *)
(* (synccall/synccall_coclient.hpp) on the threads of CoTask, the          *)
(* callbacks of its connector (ScServer, synccall/synccall_svr.hpp) on the *)
(* io thread the connector belongs to, and the server at the other end.    *)
(*                                                                         *)
(* A client is used by one task at a time.  Every connector it ever makes  *)
(* is a generation of its own: its callbacks may come when the client has  *)
(* long gone on to the next.  The connector is what TcpSocket promises:    *)
(* data only while it is open, OnDisconnected once after it was closed.    *)
(***************************************************************************)
EXTENDS CoTask

CONSTANTS
  Clients,   \* CoScClient objects
  MaxGen,    \* model bound: connectors of any client
  Connects,  \* model bound: connectors of each client
  MaxCalls   \* model bound: calls on each client

ASSUME ClientsAssumption == Clients = Jobs
ASSUME BoundsAssumption ==
  MaxGen \in Nat /\ Connects \in [Clients -> 0..MaxGen] /\ MaxCalls \in [Clients -> Nat]

Gens == 1..MaxGen
NoThr == 0        \* the thr_id of a _CoScInfo_ nobody waits on
ASSUME NoThrAssumption == NoThr \notin Threads
Nothing == [idx |-> 0, call |-> 0]  \* an empty buffer: pack_idx reads as 0

VARIABLES
  \* CoScClient
  pc,       \* where _Sync is
  cnt,      \* its loop counter
  code,     \* its result so far
  sock,     \* _socket: the generation, 0 when there is none
  packidx,  \* _packidx
  at,       \* the coroutine the call runs in
  gens,     \* connectors made so far
  \* per connector
  link,     \* "none", "open" (IsConnected), "closing" (OnDisconnected is due), "gone"
  info,     \* _CoScInfo_
  recv,     \* ids that OnReceiveData has read and not used yet
  wire,     \* the request or reply on its way
  \* history
  calls,    \* calls begun on the client
  got,      \* the call that the reply of a call that succeeded answers
  runs,     \* how often the server executed the present call
  broke,    \* a connection of the client broke during the present call
  lost      \* the request of the present attempt was not sent, or is not answered

client == <<pc, cnt, code, sock, packidx, at, gens>>
conn == <<link, info, recv, wire>>
hist == <<calls, got, runs, broke, lost>>
vars == <<covars, client, conn, hist>>

NoIds == [thr |-> NoThr, co |-> NoCo]
Fresh == [valid |-> FALSE, thr |-> NoThr, co |-> NoCo, buffer |-> Nothing]
NoMsg == [kind |-> "none", idx |-> 0, call |-> 0]

Init ==
  /\ CoInit
  /\ pc = [c \in Clients |-> "out"]
  /\ cnt = [c \in Clients |-> 0]
  /\ code = [c \in Clients |-> 0]
  /\ sock = [c \in Clients |-> 0]
  /\ packidx = [c \in Clients |-> 0]
  /\ at = [c \in Clients |-> NoIds]
  /\ gens = [c \in Clients |-> 0]
  /\ link = [c \in Clients |-> [g \in Gens |-> "none"]]
  /\ info = [c \in Clients |-> [g \in Gens |-> Fresh]]
  /\ recv = [c \in Clients |-> [g \in Gens |-> NoIds]]
  /\ wire = [c \in Clients |-> [g \in Gens |-> NoMsg]]
  /\ calls = [c \in Clients |-> 0]
  /\ got = [c \in Clients |-> 0]
  /\ runs = [c \in Clients |-> 0]
  /\ broke = [c \in Clients |-> FALSE]
  /\ lost = [c \in Clients |-> FALSE]

-----------------------------------------------------------------------------
(* CoScClient::_Sync                                                       *)

\* The client's coroutine is the one its thread runs.
Running(c) == cur[at[c].thr] = at[c].co

\* A task of thread t begins a call.
Begin(c, t, i) ==
  /\ pc[c] = "out" /\ calls[c] < MaxCalls[c]
  /\ DoTask(t, i, c)
  /\ at' = [at EXCEPT ![c] = [thr |-> t, co |-> i]]
  /\ pc' = [pc EXCEPT ![c] = "top"]
  /\ calls' = [calls EXCEPT ![c] = @ + 1]
  /\ runs' = [runs EXCEPT ![c] = 0]
  /\ broke' = [broke EXCEPT ![c] = FALSE]
  /\ UNCHANGED <<cnt, code, sock, packidx, gens, conn, got, lost>>

\* The head of the loop: is there a connector, and is it connected?
Attempts == 2
TopOnceMore(c) ==  \* mutant: <= for < in the loop
  /\ pc[c] = "top"
  /\ pc' = [pc EXCEPT ![c] =
       IF cnt[c] > Attempts THEN "return"
       ELSE IF sock[c] # 0 /\ link[c][sock[c]] = "open" THEN "lock" ELSE "connect"]
  /\ UNCHANGED <<covars, cnt, code, sock, packidx, at, gens, conn, hist>>
Top(c) ==
  /\ pc[c] = "top"
  /\ pc' = [pc EXCEPT ![c] =
       IF cnt[c] >= Attempts THEN "return"
       ELSE IF sock[c] # 0 /\ link[c][sock[c]] = "open" THEN "lock" ELSE "connect"]
  /\ UNCHANGED <<covars, cnt, code, sock, packidx, at, gens, conn, hist>>

\* The attempt failed with code e: the loop goes round.
Fail(c, e) ==
  /\ code' = [code EXCEPT ![c] = e]
  /\ cnt' = [cnt EXCEPT ![c] = @ + 1]
  /\ pc' = [pc EXCEPT ![c] = "top"]

\* _Reconnect: a new connector with a new _CoScInfo_ takes the place of the
\* old one.  Connect() fails ...
ConnectFails(c) ==
  /\ pc[c] = "connect"
  /\ sock' = [sock EXCEPT ![c] = 0]
  /\ Fail(c, -2)
  /\ UNCHANGED <<covars, packidx, at, gens, conn, hist>>

\* ... or succeeds.  From here on the io thread calls back.
Connect(c) ==
  /\ pc[c] = "connect" /\ gens[c] < Connects[c]
  /\ gens' = [gens EXCEPT ![c] = @ + 1]
  /\ sock' = [sock EXCEPT ![c] = gens[c] + 1]
  /\ link' = [link EXCEPT ![c][gens[c] + 1] = "open"]
  /\ info' = [info EXCEPT ![c][gens[c] + 1] = Fresh]
  /\ pc' = [pc EXCEPT ![c] = "valid"]
  /\ UNCHANGED <<covars, cnt, code, packidx, at, recv, wire, hist>>

\* valid = true, with no lock; then the heart beat is told.
SetValid(c) ==
  /\ pc[c] = "valid"
  /\ info' = [info EXCEPT ![c][sock[c]].valid = TRUE]
  /\ pc' = [pc EXCEPT ![c] = "lock"]
  /\ UNCHANGED <<covars, cnt, code, sock, packidx, at, gens, link, recv, wire, hist>>

\* CoScClient::Close: the connector is closed and let go of.
Close(c) ==
  /\ link' = [link EXCEPT ![c][sock[c]] = IF @ = "open" THEN "closing" ELSE @]
  /\ sock' = [sock EXCEPT ![c] = 0]

\* The locked section: whom to resume.
Lock(c) ==
  /\ pc[c] = "lock"
  /\ IF info[c][sock[c]].valid
     THEN /\ info' = [info EXCEPT ![c][sock[c]].thr = at[c].thr,
                                  ![c][sock[c]].co = at[c].co]
          /\ pc' = [pc EXCEPT ![c] = "send"]
          /\ UNCHANGED <<cnt, code, sock, link>>
     ELSE Close(c) /\ Fail(c, -3) /\ UNCHANGED info
  /\ UNCHANGED <<covars, packidx, at, gens, recv, wire, hist>>

\* _FillRequest and Send.  Send refuses a packet when the connector is not
\* connected, and also when the packet is too large or msgbuffer2 is full.
\* What it returns is not looked at.
Send(c) ==
  /\ pc[c] = "send"
  /\ packidx' = [packidx EXCEPT ![c] = @ + 1]
  /\ \/ /\ link[c][sock[c]] = "open"
        /\ wire' = [wire EXCEPT ![c][sock[c]] =
                     [kind |-> "request", idx |-> packidx[c] + 1, call |-> calls[c]]]
        /\ UNCHANGED lost
     \/ UNCHANGED wire /\ lost' = [lost EXCEPT ![c] = TRUE]
  /\ pc' = [pc EXCEPT ![c] = "yield"]
  /\ UNCHANGED <<covars, cnt, code, sock, at, gens, link, info, recv, calls, got,
                 runs, broke>>

\* Coroutine::yield.
Wait(c) ==
  /\ pc[c] = "yield"
  /\ Yield(at[c].thr)
  /\ pc' = [pc EXCEPT ![c] = "waiting"]
  /\ UNCHANGED <<cnt, code, sock, packidx, at, gens, conn, hist>>

\* _CheckReply.
NextReply(c) ==  \* mutant: compares with the index of the next request
  info[c][sock[c]].buffer.idx = packidx[c] + 1
CheckReply(c) == info[c][sock[c]].buffer.idx = packidx[c]

\* Resumed: the reply is looked at; one that does not fit ends the attempt.
\* preply is the connector's own buffer.  Nothing clears it when the caller
\* leaves bytes in it, and they might read as the header of the next reply.
LeftOver(c) == {Nothing, [idx |-> packidx[c] + 1, call |-> calls[c]]}
Answer(c) ==
  /\ pc[c] = "waiting" /\ Running(c)
  /\ lost' = [lost EXCEPT ![c] = FALSE]
  /\ IF CheckReply(c)
     THEN /\ got' = [got EXCEPT ![c] = info[c][sock[c]].buffer.call]
          /\ \E rest \in LeftOver(c) : info' = [info EXCEPT ![c][sock[c]].buffer = rest]
          /\ code' = [code EXCEPT ![c] = 0]
          /\ pc' = [pc EXCEPT ![c] = "return"]
          /\ UNCHANGED <<cnt, sock, link>>
     ELSE Close(c) /\ Fail(c, -3) /\ UNCHANGED <<got, info>>
  /\ UNCHANGED <<covars, packidx, at, gens, recv, wire, calls, runs, broke>>

\* SyncCall returns, its variables go, and the task ends.
Return(c) ==
  /\ pc[c] = "return"
  /\ EndTask(at[c].thr)
  /\ pc' = [pc EXCEPT ![c] = "out"]
  /\ at' = [at EXCEPT ![c] = NoIds]
  /\ cnt' = [cnt EXCEPT ![c] = 0]
  /\ code' = [code EXCEPT ![c] = 0]
  /\ got' = [got EXCEPT ![c] = 0]
  /\ UNCHANGED <<sock, packidx, gens, conn, calls, runs, broke, lost>>

-----------------------------------------------------------------------------
(* The connector's callbacks, on its io thread                             *)

\* Whom to resume.
LateIds(c, g) == NoIds  \* mutant: read after they were reset
ResumeIds(c, g) == [thr |-> info[c][g].thr, co |-> info[c][g].co]

\* ScServer::OnReceiveData(connector) reads whom to resume, with no lock ...
ReceiveData(c, g) ==
  /\ link[c][g] = "open" /\ wire[c][g].kind = "reply" /\ recv[c][g] = NoIds
  /\ recv' = [recv EXCEPT ![c][g] = ResumeIds(c, g)]
  /\ UNCHANGED <<covars, client, link, info, wire, hist>>

\* ... then takes the reply and leaves the resume.
ReplyKept(c, g) == [info[c][g] EXCEPT  \* mutant: the ids stay
  !.buffer = [idx |-> wire[c][g].idx, call |-> wire[c][g].call]]
ReplyTaken(c, g) == [info[c][g] EXCEPT !.thr = NoThr, !.co = NoCo,
  !.buffer = [idx |-> wire[c][g].idx, call |-> wire[c][g].call]]
TakeReply(c, g) ==
  /\ recv[c][g] # NoIds
  /\ info' = [info EXCEPT ![c][g] = ReplyTaken(c, g)]
  /\ wire' = [wire EXCEPT ![c][g] = NoMsg]
  /\ recv' = [recv EXCEPT ![c][g] = NoIds]
  /\ AddResume(recv[c][g].thr, recv[c][g].co)
  /\ UNCHANGED <<nco, cur, status, job, free, tmp, ub, client, link, hist>>

\* ScServer::OnDisconnected(connector).
KeepBuffer(c, g) ==  \* mutant: the buffer is not cleared
  [Fresh EXCEPT !.buffer = info[c][g].buffer]
Reset(c, g) == Fresh
Disconnected(c, g) ==
  /\ link[c][g] = "closing" /\ recv[c][g] = NoIds
  /\ link' = [link EXCEPT ![c][g] = "gone"]
  /\ info' = [info EXCEPT ![c][g] = Reset(c, g)]
  /\ AddResume(ResumeIds(c, g).thr, ResumeIds(c, g).co)
  /\ UNCHANGED <<nco, cur, status, job, free, tmp, ub, client, recv, wire, hist>>

\* The peer, or the heart beat, closes the connection.
Break(c, g) ==
  /\ link[c][g] = "open"
  /\ link' = [link EXCEPT ![c][g] = "closing"]
  /\ broke' = [broke EXCEPT ![c] = TRUE]
  /\ UNCHANGED <<covars, client, info, recv, wire, calls, got, runs, lost>>

\* The request goes without a reply.
Drop(c, g) ==
  /\ wire' = [wire EXCEPT ![c][g] = NoMsg]
  /\ lost' = [lost EXCEPT ![c] = @ \/ g = sock[c]]

\* ScServer::OnReceiveData(socket) at the other end: the handler runs and the
\* reply carries the pack_idx of the request, unless Send refuses it.  A request
\* that is on its way when the connection breaks may still arrive.
Serve(c, g) ==
  /\ wire[c][g].kind = "request"
  /\ runs' = [runs EXCEPT ![c] = IF wire[c][g].call = calls[c] THEN @ + 1 ELSE @]
  /\ \/ wire' = [wire EXCEPT ![c][g].kind = "reply"] /\ UNCHANGED lost
     \/ Drop(c, g)
  /\ UNCHANGED <<covars, client, link, info, recv, calls, got, broke>>

\* Its early returns: no _ScInfo_, no handler for the port, a bad way_type.
Ignore(c, g) ==
  /\ wire[c][g].kind = "request"
  /\ Drop(c, g)
  /\ UNCHANGED <<covars, client, link, info, recv, calls, got, runs, broke>>

-----------------------------------------------------------------------------
Sync(c) ==
  \/ Top(c) \/ ConnectFails(c) \/ Connect(c) \/ SetValid(c) \/ Lock(c)
  \/ Send(c) \/ Wait(c) \/ Answer(c) \/ Return(c)
Callback(c, g) == ReceiveData(c, g) \/ TakeReply(c, g) \/ Disconnected(c, g)
Server(c, g) == Serve(c, g) \/ Ignore(c, g)
Take(t) == DoThrResume(t) /\ UNCHANGED <<client, conn, hist>>
Resume(t) == \E i \in Ids : ResumeNext(t, i) /\ UNCHANGED <<client, conn, hist>>

Next ==
  \/ \E c \in Clients : Sync(c)
  \/ \E c \in Clients, t \in Threads, i \in Ids : Begin(c, t, i)
  \/ \E c \in Clients, g \in Gens : Callback(c, g) \/ Break(c, g) \/ Server(c, g)
  \/ \E t \in Threads : Take(t) \/ Resume(t)

Spec == Init /\ [][Next]_vars

\* Threads run, io threads call back, and the server deals with what arrives.
FairSpec ==
  /\ Spec
  /\ \A c \in Clients : WF_vars(Sync(c))
  /\ \A c \in Clients : WF_vars(\E g \in Gens : Callback(c, g) \/ Server(c, g))
  /\ \A t \in Threads : WF_vars(Take(t) \/ Resume(t))

-----------------------------------------------------------------------------
(* Properties                                                              *)

PCs == {"out", "top", "connect", "valid", "lock", "send", "yield", "waiting", "return"}
Ids2 == [thr : Threads \cup {NoThr}, co : Ids \cup {NoCo}]
Buffers == [idx : Nat, call : Nat]

TypeOK ==
  /\ CoTypeOK
  /\ pc \in [Clients -> PCs]
  /\ cnt \in [Clients -> 0..Attempts]
  /\ code \in [Clients -> {0, -2, -3}]
  /\ sock \in [Clients -> Gens \cup {0}]
  /\ packidx \in [Clients -> Nat]
  /\ at \in [Clients -> Ids2]
  /\ gens \in [Clients -> 0..MaxGen]
  /\ link \in [Clients -> [Gens -> {"none", "open", "closing", "gone"}]]
  /\ info \in [Clients -> [Gens -> [valid : BOOLEAN, thr : Threads \cup {NoThr},
                                   co : Ids \cup {NoCo}, buffer : Buffers]]]
  /\ recv \in [Clients -> [Gens -> Ids2]]
  /\ wire \in [Clients -> [Gens -> [kind : {"none", "request", "reply"},
                                   idx : Nat, call : Nat]]]
  /\ calls \in [Clients -> Nat]
  /\ got \in [Clients -> Nat]
  /\ runs \in [Clients -> Nat]
  /\ broke \in [Clients -> BOOLEAN]
  /\ lost \in [Clients -> BOOLEAN]

\* A resume that is under way (held by an OnReceiveData, which has no lock,
\* listed, or taken by doThrResume) is the only one for its coroutine, and is
\* for a call that has left the locked section and has not been resumed: never
\* for a coroutine that another task has taken over, that waits for a task, or
\* that has gone past its yield.  So the unlocked OnReceiveData never meets
\* the call at the fields of the _CoScInfo_ either.
Pending(t, i) == queued[t][i] + tmp[t][i]
Awaits(c) == pc[c] \in {"send", "yield"} \/ (pc[c] = "waiting" /\ ~Running(c))
ResumeOwned ==
  /\ \A t \in Threads, i \in Ids : Pending(t, i) > 0 =>
       /\ Pending(t, i) = 1
       /\ \E c \in Clients : at[c] = [thr |-> t, co |-> i] /\ Awaits(c)
  /\ \A c \in Clients, g \in Gens : recv[c][g] # NoIds =>
       /\ sock[c] = g /\ recv[c][g] = at[c] /\ Awaits(c) /\ pc[c] # "send"
       /\ Pending(at[c].thr, at[c].co) = 0
  /\ ~ub

\* A call that reports success hands out the reply to its own request, never
\* what an earlier reply left in the buffer of the connector.
OwnReply == \A c \in Clients : pc[c] = "return" /\ cnt[c] < Attempts => got[c] = calls[c]

\* The server executes a call a second time only when a connection was lost
\* in the course of it, and never a third time.
TwiceOnlyIfBroken ==
  \A c \in Clients : runs[c] <= Attempts /\ (runs[c] > 1 => broke[c])

\* The connector was declared valid after its OnDisconnected: whoever waits
\* on it is never resumed.
Revalidated(c) ==
  /\ pc[c] = "waiting" /\ link[c][sock[c]] = "gone"
  /\ ResumeIds(c, sock[c]) = at[c]

\* The request was refused by Send, or was not answered, and the connection
\* holds: whoever waits on it is resumed only if it breaks.
Unanswered(c) ==
  /\ pc[c] = "waiting" /\ link[c][sock[c]] = "open" /\ lost[c]
  /\ ResumeIds(c, sock[c]) = at[c]

Stranded(c) == Revalidated(c) \/ Unanswered(c)

\* Whoever waits will be resumed: one resume is on its way, or his ids are with
\* a connector that will use them, because a message is under way on it or
\* because its OnDisconnected is due.  The two exceptions are a connector that
\* was declared valid after its OnDisconnected, and an open one with no reply
\* to come.
WakeUpDue ==
  \A c \in Clients : pc[c] = "waiting" /\ ~Running(c) =>
    \/ Pending(at[c].thr, at[c].co) = 1
    \/ /\ ResumeIds(c, sock[c]) = at[c]
       /\ \/ link[c][sock[c]] = "open" /\ wire[c][sock[c]].kind # "none"
          \/ link[c][sock[c]] = "closing"
    \/ Stranded(c)

\* Every other call returns: the resume is never lost between the locked
\* section, the two callbacks and the yield.
ReturnsUnlessStranded ==
  \A c \in Clients : pc[c] # "out" ~> (pc[c] = "out" \/ Stranded(c))

\* "0==ok, -1==time out,-2==connect invalid ,-3 == other error": a call ends
\* with one of these (synccall_coclient.hpp:19).  Asked here only of the calls
\* whose request was sent and is answered, so that the ignored result of Send
\* is not what breaks it.
CallReturns ==
  \A c \in Clients : pc[c] # "out" ~> (pc[c] = "out" \/ Unanswered(c))
=============================================================================
