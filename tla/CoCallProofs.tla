---------------------------- MODULE CoCallProofs ----------------------------
(***************************************************************************)
(* ResumeOwned for any number of threads, coroutines, clients and          *)
(* connectors.                                                             *)
(*                                                                         *)
(* A call that waits holds one ticket: its ids are registered with its     *)
(* connector, or one resume is on its way back, never both and never       *)
(* neither (Ticket).  That no other call can hold the same ticket comes    *)
(* from the table of coroutines (Table), and that nobody uses it late from *)
(* what the connectors of the past hold: nothing (Link).                   *)
(***************************************************************************)
EXTENDS CoCall, TLAPS

\* The table of coroutines: who is running, who waits for a task, and which
\* client each of the others works for.
Table(t, i) ==
  /\ status[t][i] = "running" <=> cur[t] = i
  /\ status[t][i] = "none" <=> i >= nco[t]
  /\ i \in free[t] <=> i < nco[t] /\ job[t][i] = Idle
  /\ cur[t] = i => job[t][i] # Idle
  /\ i >= nco[t] => job[t][i] = Idle
  /\ \A c \in Clients : job[t][i] = c <=> at[c] = [thr |-> t, co |-> i]

\* A resume on its way is for a coroutine that is in a task.
Owned(t, i) == Pending(t, i) > 0 => job[t][i] # Idle

\* A call has a coroutine, which runs unless the call waits.
Place(c) == at[c].thr \in Threads /\ at[c].co \in Ids
Caller(c) ==
  /\ pc[c] = "out" => at[c] = NoIds
  /\ pc[c] # "out" => Place(c)
  /\ pc[c] \notin {"out", "waiting"} => Running(c)
  /\ pc[c] \notin {"out", "top", "return"} => cnt[c] < Attempts

\* Only the present connector may be open.
Present(c) ==
  /\ sock[c] <= gens[c] /\ gens[c] <= Connects[c]
  /\ pc[c] \in {"valid", "lock", "send", "yield", "waiting"} => sock[c] # 0
  /\ pc[c] = "connect" => sock[c] = 0 \/ link[c][sock[c]] # "open"

\* A connector knows whom to resume only while its call waits, and a message
\* is on an open one only then.
Link(c, g) ==
  /\ link[c][g] = "open" => g = sock[c]
  /\ g > gens[c] => link[c][g] = "none" /\ wire[c][g] = NoMsg
  /\ g # sock[c] => ResumeIds(c, g) = NoIds
  /\ link[c][g] = "open" /\ wire[c][g].kind # "none" =>
       pc[c] \in {"yield", "waiting"} /\ ResumeIds(c, g) = at[c]
  /\ link[c][g] = "open" /\ pc[c] = "send" => ResumeIds(c, g) = at[c]
  /\ recv[c][g] # NoIds =>
       /\ g = sock[c] /\ pc[c] \in {"yield", "waiting"}
       /\ recv[c][g] = at[c] /\ ResumeIds(c, g) = at[c]

\* The ticket of a call that waits: registered, or on its way back.
Ticket(c) ==
  /\ Awaits(c) =>
       \/ ResumeIds(c, sock[c]) = at[c] /\ Pending(at[c].thr, at[c].co) = 0
       \/ ResumeIds(c, sock[c]) = NoIds /\ Pending(at[c].thr, at[c].co) = 1
  /\ ~Awaits(c) => /\ sock[c] # 0 => ResumeIds(c, sock[c]) = NoIds
                   /\ pc[c] # "out" => Pending(at[c].thr, at[c].co) = 0

Coroutines == \A t \in Threads, i \in Ids : Table(t, i) /\ Owned(t, i)
Calling(c) == Caller(c) /\ Present(c) /\ Ticket(c) /\ \A g \in Gens : Link(c, g)

IInv == TypeOK /\ ~ub /\ Coroutines /\ \A c \in Clients : Calling(c)

-----------------------------------------------------------------------------
LEMMA Constants ==
  /\ MaxCo \in Nat /\ MaxGen \in Nat /\ Ids \subseteq Nat /\ NoCo \notin Ids
  /\ Gens \subseteq Nat /\ 0 \notin Gens /\ Clients = Jobs /\ Idle \notin Clients
  /\ NoThr \notin Threads /\ Attempts = 2
  /\ Connects \in [Clients -> 0..MaxGen] /\ MaxCalls \in [Clients -> Nat]
  BY MaxCoAssumption, JobsAssumption, ClientsAssumption, BoundsAssumption, NoThrAssumption
     DEF Ids, NoCo, Gens, Attempts

\* Setting one entry of a table of tables.
LEMMA Update ==
  ASSUME NEW S, NEW T, NEW V, NEW f \in [S -> [T -> V]], NEW s \in S, NEW t \in T, NEW v \in V
  PROVE  /\ [f EXCEPT ![s][t] = v] \in [S -> [T -> V]]
         /\ \A x \in S, y \in T : [f EXCEPT ![s][t] = v][x][y] =
              IF x = s /\ y = t THEN v ELSE f[x][y]
  OBVIOUS

\* What the invariant says of a client depends on nothing else.
Same(c) ==
  /\ pc'[c] = pc[c] /\ at'[c] = at[c] /\ sock'[c] = sock[c] /\ gens'[c] = gens[c]
  /\ cnt'[c] = cnt[c] /\ link'[c] = link[c] /\ info'[c] = info[c]
  /\ recv'[c] = recv[c] /\ wire'[c] = wire[c]

LEMMA SameCalling ==
  ASSUME NEW c \in Clients, Calling(c), Same(c),
         pc[c] # "out" => (Running(c)' <=> Running(c)),
         pc[c] # "out" => Pending(at[c].thr, at[c].co)' = Pending(at[c].thr, at[c].co)
  PROVE  Calling(c)'
<1>1. Caller(c)'
  BY DEF Calling, Same, Caller, Place
<1>2. Present(c)'
  BY DEF Calling, Same, Present
<1>3. \A g \in Gens : Link(c, g)'
  BY DEF Calling, Same, Link, ResumeIds
<1>4. Ticket(c)'
  <2>1. Awaits(c)' <=> Awaits(c)
    BY DEF Same, Awaits
  <2>2. ResumeIds(c, sock[c])' = ResumeIds(c, sock[c])
    BY DEF Same, ResumeIds
  <2>3. Awaits(c) => pc[c] # "out"
    BY DEF Awaits
  <2> QED
    BY <2>1, <2>2, <2>3 DEF Calling, Same, Ticket
<1> QED
  BY <1>1, <1>2, <1>3, <1>4 DEF Calling

\* A step that leaves the coroutines and the places of the calls alone.
LEMMA CoroutinesKept ==
  ASSUME Coroutines, ~ub, UNCHANGED <<covars, at>>
  PROVE  /\ Coroutines' /\ ~ub'
         /\ \A c \in Clients : /\ Running(c)' <=> Running(c)
                               /\ Pending(at[c].thr, at[c].co)' = Pending(at[c].thr, at[c].co)
<1>1. UNCHANGED <<nco, cur, status, job, free, queued, tmp, ub, at>>
  BY DEF covars
<1>2. \A t \in Threads, i \in Ids : Table(t, i)' /\ Owned(t, i)'
  BY <1>1 DEF Coroutines, Table, Owned, Pending
<1> QED
  BY <1>1, <1>2 DEF Coroutines, Running, Pending

\* Such a step of one client keeps the invariant if it keeps that client's
\* part and the types.
LEMMA LocalStep ==
  ASSUME IInv, NEW c \in Clients, UNCHANGED <<covars, at>>,
         \A d \in Clients \ {c} : Same(d),
         TypeOK', Calling(c)'
  PROVE  IInv'
<1>1. Coroutines' /\ ~ub'
  BY CoroutinesKept DEF IInv
<1>2. \A d \in Clients \ {c} : Calling(d)'
  BY CoroutinesKept, SameCalling DEF IInv
<1> QED
  BY <1>1, <1>2 DEF IInv

\* The types that no step of _Sync between two yields touches.
LEMMA CoTypeKept == ASSUME CoTypeOK, UNCHANGED covars PROVE CoTypeOK'
  BY DEF covars, CoTypeOK

-----------------------------------------------------------------------------
(* _Sync, but for its yield and its end                                    *)

LEMMA TopStep ==
  ASSUME IInv, NEW c \in Clients, Top(c)
  PROVE  IInv'
<1>0. pc \in [Clients -> PCs] /\ cnt[c] \in 0..Attempts /\ pc[c] = "top"
  BY DEF IInv, TypeOK, Top
<1>1. /\ UNCHANGED <<covars, at>>
      /\ UNCHANGED <<cnt, code, sock, packidx, gens, link, info, recv, wire, calls, got, runs, broke, lost>>
      /\ pc' = [pc EXCEPT ![c] = pc'[c]]
      /\ \/ pc'[c] = "return"
         \/ pc'[c] = "lock" /\ sock[c] # 0 /\ cnt[c] < Attempts
         \/ pc'[c] = "connect" /\ (sock[c] = 0 \/ link[c][sock[c]] # "open") /\ cnt[c] < Attempts
  <2>1. /\ UNCHANGED <<covars, at>>
        /\ UNCHANGED <<cnt, code, sock, packidx, gens, link, info, recv, wire, calls, got, runs, broke, lost>>
    BY DEF Top, conn, hist
  <2>2. pc'[c] = IF cnt[c] >= Attempts THEN "return"
                 ELSE IF sock[c] # 0 /\ link[c][sock[c]] = "open" THEN "lock" ELSE "connect"
    BY <1>0 DEF Top
  <2>3. pc' = [pc EXCEPT ![c] = pc'[c]]
    BY <1>0 DEF Top
  <2>4. cnt[c] >= Attempts \/ cnt[c] < Attempts
    BY <1>0 DEF Attempts
  <2> QED
    BY <2>1, <2>2, <2>3, <2>4
<1>2. TypeOK'
  BY <1>0, <1>1, CoTypeKept, ZenonT(90) DEF IInv, TypeOK, PCs
<1>3. \A d \in Clients \ {c} : Same(d)
  BY <1>0, <1>1 DEF Same
<1>4. Calling(c) /\ (Running(c)' <=> Running(c))
      /\ Pending(at[c].thr, at[c].co)' = Pending(at[c].thr, at[c].co)
  BY <1>1, CoroutinesKept DEF IInv
<1>5. Caller(c)' /\ Present(c)'
  BY <1>0, <1>1, <1>4 DEF Calling, Caller, Place, Present
<1>6. \A g \in Gens : Link(c, g)'
  BY <1>0, <1>1, <1>4 DEF Calling, Link, ResumeIds
<1>7. Ticket(c)'
  BY <1>0, <1>1, <1>4 DEF Calling, Ticket, Awaits, ResumeIds
<1> QED
  BY <1>1, <1>2, <1>3, <1>5, <1>6, <1>7, LocalStep DEF Calling

\* An attempt that failed, in a call whose ticket is used up: the connector
\* is let go of, and it holds nothing of the call.
LEMMA GiveUp ==
  ASSUME IInv, NEW c \in Clients, ~Awaits(c), Running(c),
         pc[c] \notin {"out", "top", "return"},
         NEW e \in {-2, -3}, Fail(c, e),
         sock' = [sock EXCEPT ![c] = 0],
         link' \in [Clients -> [Gens -> {"none", "open", "closing", "gone"}]],
         \A d \in Clients \ {c} : link'[d] = link[d],
         \A g \in Gens : link'[c][g] # "open" /\ (g > gens[c] => link'[c][g] = link[c][g]),
         UNCHANGED <<covars, packidx, at, gens, info, recv, wire, calls, got, runs, broke>>,
         lost' \in [Clients -> BOOLEAN]
  PROVE  IInv'
<1>0. /\ pc \in [Clients -> PCs] /\ cnt \in [Clients -> 0..Attempts]
      /\ sock \in [Clients -> Gens \cup {0}] /\ code \in [Clients -> {0, -2, -3}]
  BY DEF IInv, TypeOK
<1>1. /\ pc' = [pc EXCEPT ![c] = "top"]
      /\ cnt' = [cnt EXCEPT ![c] = cnt[c] + 1]
      /\ code' = [code EXCEPT ![c] = e]
  BY DEF Fail
<1>2. Calling(c) /\ (Running(c)' <=> Running(c))
      /\ Pending(at[c].thr, at[c].co)' = Pending(at[c].thr, at[c].co)
  BY CoroutinesKept DEF IInv
<1>3. TypeOK'
  <2>1. cnt[c] < Attempts
    BY <1>2 DEF Calling, Caller
  <2>2. cnt' \in [Clients -> 0..Attempts]
    BY <1>0, <1>1, <2>1 DEF Attempts
  <2>3. pc' \in [Clients -> PCs] /\ sock' \in [Clients -> Gens \cup {0}] /\ code' \in [Clients -> {0, -2, -3}]
    BY <1>0, <1>1 DEF PCs
  <2> QED
    BY <1>1, <2>2, <2>3, CoTypeKept DEF IInv, TypeOK
<1>4. \A d \in Clients \ {c} : Same(d)
  BY <1>0, <1>1 DEF Same
<1>5. pc'[c] = "top" /\ sock'[c] = 0 /\ at'[c] = at[c] /\ at[c] # NoIds
  <2>1. at[c] # NoIds
    BY <1>2, Constants DEF Calling, Caller, Place, NoIds
  <2> QED
    BY <1>0, <1>1, <2>1
<1>6. Caller(c)' /\ Present(c)'
  <2>1. 0 <= gens[c] /\ gens[c] <= Connects[c]
    BY <1>2, Constants DEF Calling, Present, IInv, TypeOK
  <2> QED
    BY <1>2, <1>5, <2>1 DEF Calling, Caller, Place, Present
<1>7. ASSUME NEW g \in Gens PROVE Link(c, g)'
  <2>1. ResumeIds(c, g) = NoIds
    BY <1>2, Constants DEF Calling, Link, Ticket
  <2>2. recv[c][g] = NoIds
    BY <1>2, <1>5, <2>1 DEF Calling, Link
  <2> QED
    BY <1>2, <1>5, <2>1, <2>2 DEF Calling, Link, ResumeIds
<1>8. Ticket(c)'
  BY <1>2, <1>5 DEF Calling, Ticket, Awaits
<1> QED
  BY <1>3, <1>4, <1>6, <1>7, <1>8, LocalStep DEF Calling

\* Close() of the present connector leaves none of the client's open.
LEMMA CloseLink ==
  ASSUME IInv, NEW c \in Clients, sock[c] # 0, Close(c)
  PROVE  /\ sock' = [sock EXCEPT ![c] = 0]
         /\ link' \in [Clients -> [Gens -> {"none", "open", "closing", "gone"}]]
         /\ \A d \in Clients \ {c} : link'[d] = link[d]
         /\ \A g \in Gens : link'[c][g] # "open" /\ (g > gens[c] => link'[c][g] = link[c][g])
<1>1. /\ link \in [Clients -> [Gens -> {"none", "open", "closing", "gone"}]]
      /\ sock[c] \in Gens /\ gens[c] \in Nat
  BY DEF IInv, TypeOK
<1>2. sock[c] <= gens[c] /\ \A g \in Gens : link[c][g] = "open" => g = sock[c]
  BY DEF IInv, Calling, Present, Link
<1>3. /\ link' \in [Clients -> [Gens -> {"none", "open", "closing", "gone"}]]
      /\ \A d \in Clients \ {c} : link'[d] = link[d]
      /\ \A g \in Gens : g # sock[c] => link'[c][g] = link[c][g]
      /\ link'[c][sock[c]] # "open"
  BY <1>1 DEF Close
<1>4. \A g \in Gens : link'[c][g] # "open"
  BY <1>2, <1>3
<1>5. \A g \in Gens : g > gens[c] => g # sock[c]
  BY <1>1, <1>2 DEF Gens
<1> QED
  BY <1>3, <1>4, <1>5 DEF Close

LEMMA ConnectFailsStep ==
  ASSUME IInv, NEW c \in Clients, ConnectFails(c)
  PROVE  IInv'
<1>1. /\ pc[c] = "connect" /\ Fail(c, -2) /\ sock' = [sock EXCEPT ![c] = 0]
      /\ UNCHANGED <<covars, packidx, at, gens, link, info, recv, wire, calls, got, runs, broke, lost>>
  BY DEF ConnectFails, conn, hist
<1>2. Running(c) /\ ~Awaits(c)
  BY <1>1 DEF IInv, Calling, Caller, Awaits
<1>3. \A g \in Gens : link[c][g] # "open"
  BY <1>1, Constants DEF IInv, Calling, Present, Link
<1>4. /\ link' \in [Clients -> [Gens -> {"none", "open", "closing", "gone"}]]
      /\ lost' \in [Clients -> BOOLEAN]
  BY <1>1 DEF IInv, TypeOK
<1> QED
  BY <1>1, <1>2, <1>3, <1>4, GiveUp

InfoType == [valid : BOOLEAN, thr : Threads \cup {NoThr}, co : Ids \cup {NoCo}, buffer : Buffers]

LEMMA ConnectStep ==
  ASSUME IInv, NEW c \in Clients, Connect(c)
  PROVE  IInv'
<1> DEFINE n == gens[c] + 1
<1>0. /\ pc \in [Clients -> PCs] /\ gens \in [Clients -> 0..MaxGen]
      /\ sock \in [Clients -> Gens \cup {0}]
      /\ link \in [Clients -> [Gens -> {"none", "open", "closing", "gone"}]]
      /\ info \in [Clients -> [Gens -> InfoType]]
      /\ gens[c] < Connects[c] /\ Connects[c] \in 0..MaxGen /\ pc[c] = "connect"
  BY Constants DEF IInv, TypeOK, Connect, InfoType
<1>1. n \in Gens /\ n \in 0..MaxGen /\ n <= Connects[c] /\ n # 0 /\ n > gens[c]
  BY <1>0, Constants DEF Gens
<1>2. /\ pc' = [pc EXCEPT ![c] = "valid"] /\ gens' = [gens EXCEPT ![c] = n]
      /\ sock' = [sock EXCEPT ![c] = n]
      /\ link' = [link EXCEPT ![c][n] = "open"]
      /\ info' = [info EXCEPT ![c][n] = Fresh]
      /\ UNCHANGED <<covars, at>>
      /\ UNCHANGED <<cnt, code, packidx, recv, wire, calls, got, runs, broke, lost>>
  BY DEF Connect, hist
<1> HIDE DEF n
<1>3. Fresh \in InfoType
  BY DEF Fresh, InfoType, Nothing, Buffers
<1>4. /\ link' \in [Clients -> [Gens -> {"none", "open", "closing", "gone"}]]
      /\ \A g \in Gens : link'[c][g] = IF g = n THEN "open" ELSE link[c][g]
  BY <1>0, <1>1, <1>2, Update
<1>5. /\ info' \in [Clients -> [Gens -> InfoType]]
      /\ \A g \in Gens : info'[c][g] = IF g = n THEN Fresh ELSE info[c][g]
  BY <1>0, <1>1, <1>2, <1>3, Update
<1>6. TypeOK'
  <2>1. pc' \in [Clients -> PCs] /\ gens' \in [Clients -> 0..MaxGen] /\ sock' \in [Clients -> Gens \cup {0}]
    BY <1>0, <1>1, <1>2 DEF PCs
  <2> QED
    BY <1>2, <1>4, <1>5, <2>1, CoTypeKept DEF IInv, TypeOK, InfoType
<1>7. \A d \in Clients \ {c} : Same(d)
  BY <1>0, <1>2 DEF Same
<1>8. Calling(c) /\ (Running(c)' <=> Running(c))
      /\ Pending(at[c].thr, at[c].co)' = Pending(at[c].thr, at[c].co)
  BY <1>2, CoroutinesKept DEF IInv
<1>9. pc'[c] = "valid" /\ sock'[c] = n /\ gens'[c] = n /\ at'[c] = at[c] /\ cnt'[c] = cnt[c]
      /\ at[c] # NoIds
  <2>1. at[c] # NoIds
    BY <1>0, <1>8, Constants DEF Calling, Caller, Place, NoIds
  <2> QED
    BY <1>0, <1>2, <2>1
<1>10. Caller(c)' /\ Present(c)'
  BY <1>0, <1>1, <1>8, <1>9 DEF Calling, Caller, Place, Present
<1>11. ASSUME NEW g \in Gens PROVE Link(c, g)'
  <2>1. CASE g = n
    <3>1. ResumeIds(c, g)' = NoIds
      BY <1>5, <2>1 DEF ResumeIds, Fresh, NoIds
    <3>2. wire'[c][g] = NoMsg /\ recv'[c][g] = NoIds
      BY <1>0, <1>1, <1>2, <1>8, <2>1 DEF Calling, Link
    <3>3. ~(g > gens'[c])
      BY <1>0, <1>1, <1>9, <2>1
    <3> QED
      BY <1>9, <2>1, <3>1, <3>2, <3>3 DEF Link, NoMsg
  <2>2. CASE g # n
    <3>1. ResumeIds(c, g)' = ResumeIds(c, g) /\ ResumeIds(c, g) = NoIds
      <4>1. ResumeIds(c, g) = NoIds
        BY <1>0, <1>8, Constants DEF Calling, Link, Ticket, Awaits
      <4> QED
        BY <1>5, <2>2, <4>1 DEF ResumeIds
    <3>2. link'[c][g] = link[c][g] /\ link[c][g] # "open"
      BY <1>0, <1>4, <1>8, <2>2, Constants DEF Calling, Link, Present
    <3>3. recv'[c][g] = NoIds /\ wire'[c][g] = wire[c][g]
      BY <1>0, <1>2, <1>8 DEF Calling, Link
    <3>4. g > gens'[c] => g > gens[c]
      BY <1>0, <1>1, <1>9 DEF Gens, n
    <3> QED
      BY <1>8, <1>9, <3>1, <3>2, <3>3, <3>4 DEF Calling, Link
  <2> QED
    BY <2>1, <2>2
<1>12. Ticket(c)'
  <2>2. Pending(at[c].thr, at[c].co) = 0
    BY <1>0, <1>8 DEF Calling, Ticket, Awaits
  <2>3. ResumeIds(c, sock[c])' = NoIds
    BY <1>1, <1>5, <1>9 DEF ResumeIds, Fresh, NoIds
  <2> QED
    BY <1>8, <1>9, <2>2, <2>3 DEF Ticket, Awaits
<1> QED
  BY <1>2, <1>6, <1>7, <1>10, <1>11, <1>12, LocalStep DEF Calling

LEMMA SetValidStep ==
  ASSUME IInv, NEW c \in Clients, SetValid(c)
  PROVE  IInv'
<1> DEFINE s == sock[c]
           v == [info[c][s] EXCEPT !.valid = TRUE]
<1>0. /\ pc \in [Clients -> PCs] /\ info \in [Clients -> [Gens -> InfoType]]
      /\ pc[c] = "valid" /\ s \in Gens
  BY DEF IInv, TypeOK, SetValid, InfoType, Calling, Present
<1>1. /\ pc' = [pc EXCEPT ![c] = "lock"] /\ info' = [info EXCEPT ![c][s] = v]
      /\ UNCHANGED <<covars, at>>
      /\ UNCHANGED <<cnt, code, sock, packidx, gens, link, recv, wire, calls, got, runs, broke, lost>>
  BY DEF SetValid, hist
<1>2. v \in InfoType
  <2>1. info[c][s] \in InfoType
    BY <1>0
  <2> QED
    BY <2>1 DEF InfoType
<1>3. info' \in [Clients -> [Gens -> InfoType]]
      /\ \A d \in Clients, g \in Gens : info'[d][g] = IF d = c /\ g = s THEN v ELSE info[d][g]
  BY <1>0, <1>1, <1>2, Update
<1>4. TypeOK'
  BY <1>0, <1>1, <1>3, CoTypeKept DEF IInv, TypeOK, InfoType, PCs
<1>5. \A d \in Clients \ {c} : Same(d)
  BY <1>0, <1>1 DEF Same
<1>6. Calling(c) /\ (Running(c)' <=> Running(c))
      /\ Pending(at[c].thr, at[c].co)' = Pending(at[c].thr, at[c].co)
  BY <1>1, CoroutinesKept DEF IInv
<1>7. pc'[c] = "lock"
  BY <1>0, <1>1
<1>8. \A g \in Gens : ResumeIds(c, g)' = ResumeIds(c, g)
  <2>1. v.thr = info[c][s].thr /\ v.co = info[c][s].co
    BY <1>0 DEF InfoType
  <2> QED
    BY <1>3, <2>1 DEF ResumeIds
<1>9. Caller(c)' /\ Present(c)'
  BY <1>0, <1>1, <1>6, <1>7 DEF Calling, Caller, Place, Present
<1>10. \A g \in Gens : Link(c, g)'
  BY <1>0, <1>1, <1>6, <1>7, <1>8 DEF Calling, Link
<1>11. Ticket(c)'
  <2>1. ResumeIds(c, sock[c])' = ResumeIds(c, sock[c])
    BY <1>0, <1>1, <1>8
  <2> QED
    BY <1>0, <1>1, <1>6, <1>7, <2>1 DEF Calling, Ticket, Awaits
<1> QED
  BY <1>1, <1>4, <1>5, <1>9, <1>10, <1>11, LocalStep DEF Calling

LEMMA LockStep ==
  ASSUME IInv, NEW c \in Clients, Lock(c)
  PROVE  IInv'
<1> DEFINE s == sock[c]
           v == [info[c][s] EXCEPT !.thr = at[c].thr, !.co = at[c].co]
<1>0. /\ pc \in [Clients -> PCs] /\ info \in [Clients -> [Gens -> InfoType]]
      /\ pc[c] = "lock" /\ s \in Gens /\ s # 0 /\ Calling(c) /\ Running(c) /\ ~Awaits(c)
      /\ at[c] \in Ids2
  BY DEF IInv, TypeOK, Lock, InfoType, Calling, Present, Caller, Awaits
<1>1. CASE info[c][s].valid
  <2>1. /\ pc' = [pc EXCEPT ![c] = "send"]
        /\ info' = [info EXCEPT ![c][s].thr = at[c].thr, ![c][s].co = at[c].co]
        /\ UNCHANGED <<covars, at>>
        /\ UNCHANGED <<cnt, code, sock, packidx, gens, link, recv, wire, calls, got, runs, broke, lost>>
    BY <1>1 DEF Lock, hist
  <2>2. info[c][s] \in InfoType /\ v \in InfoType /\ v.thr = at[c].thr /\ v.co = at[c].co
    <3>1. info[c][s] \in InfoType
      BY <1>0
    <3> QED
      BY <1>0, <3>1 DEF InfoType, Ids2
  <2>3. info' \in [Clients -> [Gens -> InfoType]]
        /\ \A d \in Clients, g \in Gens : info'[d][g] = IF d = c /\ g = s THEN v ELSE info[d][g]
    <3>1. info' = [info EXCEPT ![c][s] = v]
      BY <1>0, <2>1
    <3> QED
      BY <1>0, <2>2, <3>1, Update
  <2>4. TypeOK'
    BY <1>0, <2>1, <2>3, CoTypeKept DEF IInv, TypeOK, InfoType, PCs
  <2>5. \A d \in Clients \ {c} : Same(d)
    BY <1>0, <2>1 DEF Same
  <2>6. (Running(c)' <=> Running(c))
        /\ Pending(at[c].thr, at[c].co)' = Pending(at[c].thr, at[c].co)
    BY <2>1, CoroutinesKept DEF IInv
  <2>7. pc'[c] = "send" /\ sock'[c] = s /\ at'[c] = at[c]
    BY <1>0, <2>1
  <2>8. ResumeIds(c, s)' = at[c]
    <3>1. ResumeIds(c, s)' = [thr |-> at[c].thr, co |-> at[c].co]
      BY <1>0, <2>1, <2>2, <2>3 DEF ResumeIds
    <3> QED
      BY <1>0, <3>1 DEF Ids2
  <2>9. Caller(c)' /\ Present(c)'
    BY <1>0, <2>1, <2>6, <2>7 DEF Calling, Caller, Place, Present
  <2>10. ASSUME NEW g \in Gens PROVE Link(c, g)'
    <3>1. CASE g = s
      <4>1. recv[c][g] = NoIds /\ ~(link[c][g] = "open" /\ wire[c][g].kind # "none")
        BY <1>0 DEF Calling, Link
      <4> QED
        BY <1>0, <2>1, <2>7, <2>8, <3>1, <4>1 DEF Calling, Link
    <3>2. CASE g # s
      <4>1. ResumeIds(c, g)' = ResumeIds(c, g)
        BY <2>3, <3>2 DEF ResumeIds
      <4> QED
        BY <1>0, <2>1, <2>7, <3>2, <4>1 DEF Calling, Link
    <3> QED
      BY <3>1, <3>2
  <2>11. Ticket(c)'
    <3>1. ResumeIds(c, sock[c])' = at[c] /\ Awaits(c)'
      BY <2>1, <2>7, <2>8 DEF Awaits
    <3>2. Pending(at[c].thr, at[c].co) = 0
      BY <1>0 DEF Calling, Ticket
    <3> QED
      BY <2>6, <2>7, <3>1, <3>2 DEF Ticket
  <2> QED
    BY <2>1, <2>4, <2>5, <2>9, <2>10, <2>11, LocalStep DEF Calling
<1>2. CASE ~info[c][s].valid
  <2>1. /\ Close(c) /\ Fail(c, -3)
        /\ UNCHANGED <<covars, packidx, at, gens, info, recv, wire, calls, got, runs, broke, lost>>
    BY <1>2 DEF Lock, hist
  <2>2. lost' \in [Clients -> BOOLEAN]
    BY <2>1 DEF IInv, TypeOK
  <2> QED
    BY <1>0, <2>1, <2>2, CloseLink, GiveUp
<1> QED
  BY <1>1, <1>2

LEMMA SendStep ==
  ASSUME IInv, NEW c \in Clients, Send(c)
  PROVE  IInv'
<1> DEFINE s == sock[c]
           m == [kind |-> "request", idx |-> packidx[c] + 1, call |-> calls[c]]
<1>0. /\ pc \in [Clients -> PCs] /\ packidx \in [Clients -> Nat] /\ calls[c] \in Nat
      /\ wire \in [Clients -> [Gens -> [kind : {"none", "request", "reply"}, idx : Nat, call : Nat]]]
      /\ pc[c] = "send" /\ s \in Gens /\ s <= gens[c] /\ gens[c] \in Nat /\ Calling(c)
  BY DEF IInv, TypeOK, Send, Calling, Present
<1>1. /\ pc' = [pc EXCEPT ![c] = "yield"] /\ packidx' = [packidx EXCEPT ![c] = @ + 1]
      /\ \/ link[c][s] = "open" /\ wire' = [wire EXCEPT ![c][s] = m] /\ lost' = lost
         \/ wire' = wire /\ lost' = [lost EXCEPT ![c] = TRUE]
      /\ UNCHANGED <<covars, at>>
      /\ UNCHANGED <<cnt, code, sock, gens, link, info, recv, calls, got, runs, broke>>
  BY DEF Send
<1>2. m \in [kind : {"none", "request", "reply"}, idx : Nat, call : Nat]
  BY <1>0
<1>3. /\ wire' \in [Clients -> [Gens -> [kind : {"none", "request", "reply"}, idx : Nat, call : Nat]]]
      /\ \A d \in Clients, g \in Gens : d # c \/ g # s => wire'[d][g] = wire[d][g]
      /\ link[c][s] # "open" => wire' = wire
      /\ \A d \in Clients \ {c} : wire'[d] = wire[d]
  <2>1. CASE link[c][s] = "open" /\ wire' = [wire EXCEPT ![c][s] = m]
    BY <1>0, <1>2, <2>1, Update
  <2>2. CASE wire' = wire
    BY <1>0, <2>2
  <2> QED
    BY <1>1, <2>1, <2>2
<1>4. TypeOK'
  <2>1. pc' \in [Clients -> PCs] /\ packidx' \in [Clients -> Nat]
    BY <1>0, <1>1 DEF PCs
  <2>2. lost' \in [Clients -> BOOLEAN]
    <3>1. lost \in [Clients -> BOOLEAN]
      BY DEF IInv, TypeOK
    <3> QED
      BY <1>1, <3>1, Zenon
  <2> QED
    BY <1>1, <1>3, <2>1, <2>2, CoTypeKept DEF IInv, TypeOK
<1>5. \A d \in Clients \ {c} : Same(d)
  BY <1>0, <1>1, <1>3 DEF Same
<1>6. (Running(c)' <=> Running(c))
      /\ Pending(at[c].thr, at[c].co)' = Pending(at[c].thr, at[c].co)
  BY <1>1, CoroutinesKept DEF IInv
<1>7. pc'[c] = "yield"
  BY <1>0, <1>1
<1>8. Caller(c)' /\ Present(c)'
  BY <1>0, <1>1, <1>6, <1>7 DEF Calling, Caller, Place, Present
<1>9. ASSUME NEW g \in Gens PROVE Link(c, g)'
  <2>1. ResumeIds(c, g)' = ResumeIds(c, g)
    BY <1>1 DEF ResumeIds
  <2>2. CASE g = s
    <3>1. ~(g > gens[c])
      BY <1>0, <2>2 DEF Gens
    <3>2. link[c][g] = "open" => ResumeIds(c, g) = at[c]
      BY <1>0 DEF Calling, Link
    <3> QED
      BY <1>0, <1>1, <1>7, <2>1, <2>2, <3>1, <3>2 DEF Calling, Link
  <2>3. CASE g # s
    BY <1>0, <1>1, <1>3, <1>7, <2>1, <2>3 DEF Calling, Link
  <2> QED
    BY <2>2, <2>3
<1>10. Ticket(c)'
  BY <1>0, <1>1, <1>6, <1>7 DEF Calling, Ticket, Awaits, ResumeIds
<1> QED
  BY <1>1, <1>4, <1>5, <1>8, <1>9, <1>10, LocalStep DEF Calling

LEMMA AnswerStep ==
  ASSUME IInv, NEW c \in Clients, Answer(c)
  PROVE  IInv'
<1> DEFINE s == sock[c]
<1>0. /\ pc \in [Clients -> PCs] /\ info \in [Clients -> [Gens -> InfoType]]
      /\ got \in [Clients -> Nat] /\ code \in [Clients -> {0, -2, -3}]
      /\ pc[c] = "waiting" /\ s \in Gens /\ s # 0 /\ Calling(c) /\ Running(c) /\ ~Awaits(c)
      /\ packidx[c] \in Nat /\ calls[c] \in Nat
  BY DEF IInv, TypeOK, Answer, InfoType, Calling, Present, Awaits
<1>lost. lost' \in [Clients -> BOOLEAN]
  <2>1. lost \in [Clients -> BOOLEAN] /\ lost' = [lost EXCEPT ![c] = FALSE]
    BY DEF IInv, TypeOK, Answer
  <2> QED
    BY <2>1, Zenon
<1>1. CASE CheckReply(c)
  <2>1. PICK rest \in LeftOver(c) : info' = [info EXCEPT ![c][s].buffer = rest]
    BY <1>1 DEF Answer
  <2> DEFINE v == [info[c][s] EXCEPT !.buffer = rest]
  <2>2. /\ pc' = [pc EXCEPT ![c] = "return"] /\ code' = [code EXCEPT ![c] = 0]
        /\ got' = [got EXCEPT ![c] = info[c][s].buffer.call]
        /\ UNCHANGED <<covars, at>>
        /\ UNCHANGED <<cnt, sock, packidx, gens, link, recv, wire, calls, runs, broke>>
    BY <1>1 DEF Answer
  <2>3. info[c][s] \in InfoType /\ v \in InfoType /\ v.thr = info[c][s].thr /\ v.co = info[c][s].co
    <3>1. info[c][s] \in InfoType
      BY <1>0
    <3>2. rest \in Buffers
      BY <1>0 DEF LeftOver, Nothing, Buffers
    <3> QED
      BY <3>1, <3>2 DEF InfoType
  <2>4. info' \in [Clients -> [Gens -> InfoType]]
        /\ \A d \in Clients, g \in Gens : info'[d][g] = IF d = c /\ g = s THEN v ELSE info[d][g]
    <3>1. info' = [info EXCEPT ![c][s] = v]
      BY <1>0, <2>1
    <3> QED
      BY <1>0, <2>3, <3>1, Update
  <2>5. TypeOK'
    <3>1. info[c][s].buffer.call \in Nat
      BY <2>3 DEF InfoType, Buffers
    <3>2. pc' \in [Clients -> PCs] /\ code' \in [Clients -> {0, -2, -3}] /\ got' \in [Clients -> Nat]
      BY <1>0, <2>2, <3>1 DEF PCs
    <3> QED
      BY <1>lost, <2>2, <2>4, <3>2, CoTypeKept DEF IInv, TypeOK, InfoType
  <2>6. \A d \in Clients \ {c} : Same(d)
    BY <1>0, <2>1, <2>2 DEF Same
  <2>7. (Running(c)' <=> Running(c))
        /\ Pending(at[c].thr, at[c].co)' = Pending(at[c].thr, at[c].co)
    BY <2>2, CoroutinesKept DEF IInv
  <2>8. pc'[c] = "return" /\ at[c] # NoIds
    <3>1. at[c] # NoIds
      BY <1>0, Constants DEF Calling, Caller, Place, NoIds
    <3> QED
      BY <1>0, <2>2, <3>1
  <2>9. \A g \in Gens : ResumeIds(c, g)' = ResumeIds(c, g)
    BY <2>3, <2>4 DEF ResumeIds
  <2>10. Caller(c)' /\ Present(c)'
    BY <1>0, <2>2, <2>7, <2>8 DEF Calling, Caller, Place, Present
  <2>11. ASSUME NEW g \in Gens PROVE Link(c, g)'
    <3>1. ResumeIds(c, g) = NoIds
      BY <1>0 DEF Calling, Link, Ticket
    <3>2. recv[c][g] = NoIds /\ ~(link[c][g] = "open" /\ wire[c][g].kind # "none")
      BY <1>0, <2>8, <3>1 DEF Calling, Link
    <3> QED
      BY <1>0, <2>2, <2>8, <2>9, <3>1, <3>2 DEF Calling, Link
  <2>12. Ticket(c)'
    <3>1. ResumeIds(c, sock[c])' = ResumeIds(c, sock[c])
      BY <1>0, <2>2, <2>9
    <3> QED
      BY <1>0, <2>2, <2>7, <2>8, <3>1 DEF Calling, Ticket, Awaits
  <2> QED
    BY <2>2, <2>5, <2>6, <2>10, <2>11, <2>12, LocalStep DEF Calling
<1>2. CASE ~CheckReply(c)
  <2>1. /\ Close(c) /\ Fail(c, -3)
        /\ UNCHANGED <<covars, packidx, at, gens, info, recv, wire, calls, got, runs, broke>>
    BY <1>2 DEF Answer
  <2> QED
    BY <1>0, <1>lost, <2>1, CloseLink, GiveUp
<1> QED
  BY <1>1, <1>2

-----------------------------------------------------------------------------
(* The network, and the callbacks                                          *)

LEMMA ReceiveDataStep ==
  ASSUME IInv, NEW c \in Clients, NEW g \in Gens, ReceiveData(c, g)
  PROVE  IInv'
<1>0. /\ recv \in [Clients -> [Gens -> Ids2]] /\ at[c] \in Ids2
      /\ Calling(c) /\ link[c][g] = "open" /\ wire[c][g].kind # "none"
  BY DEF IInv, TypeOK, ReceiveData
<1>1. ResumeIds(c, g) = at[c] /\ g = sock[c] /\ pc[c] \in {"yield", "waiting"}
  BY <1>0 DEF Calling, Link
<1>2. /\ recv' = [recv EXCEPT ![c][g] = at[c]]
      /\ UNCHANGED <<covars, at>>
      /\ UNCHANGED <<pc, cnt, code, sock, packidx, gens, link, info, wire, calls, got, runs, broke, lost>>
  BY <1>1 DEF ReceiveData, client, hist
<1>3. /\ recv' \in [Clients -> [Gens -> Ids2]]
      /\ \A d \in Clients, h \in Gens : recv'[d][h] = IF d = c /\ h = g THEN at[c] ELSE recv[d][h]
  BY <1>0, <1>2, Update
<1>4. TypeOK'
  BY <1>2, <1>3, CoTypeKept DEF IInv, TypeOK
<1>5. \A d \in Clients \ {c} : Same(d)
  BY <1>0, <1>2 DEF Same
<1>6. (Running(c)' <=> Running(c))
      /\ Pending(at[c].thr, at[c].co)' = Pending(at[c].thr, at[c].co)
  BY <1>2, CoroutinesKept DEF IInv
<1>7. Caller(c)' /\ Present(c)'
  BY <1>0, <1>2, <1>6 DEF Calling, Caller, Place, Present
<1>8. ASSUME NEW h \in Gens PROVE Link(c, h)'
  <2>1. ResumeIds(c, h)' = ResumeIds(c, h)
    BY <1>2 DEF ResumeIds
  <2> QED
    BY <1>0, <1>1, <1>2, <1>3, <2>1 DEF Calling, Link
<1>9. Ticket(c)'
  BY <1>0, <1>2, <1>6 DEF Calling, Ticket, Awaits, ResumeIds
<1> QED
  BY <1>2, <1>4, <1>5, <1>7, <1>8, <1>9, LocalStep DEF Calling

LEMMA BreakStep ==
  ASSUME IInv, NEW c \in Clients, NEW g \in Gens, Break(c, g)
  PROVE  IInv'
<1>0. /\ link \in [Clients -> [Gens -> {"none", "open", "closing", "gone"}]]
      /\ broke \in [Clients -> BOOLEAN] /\ Calling(c) /\ link[c][g] = "open"
  BY DEF IInv, TypeOK, Break
<1>1. /\ link' = [link EXCEPT ![c][g] = "closing"] /\ broke' = [broke EXCEPT ![c] = TRUE]
      /\ UNCHANGED <<covars, at>>
      /\ UNCHANGED <<pc, cnt, code, sock, packidx, gens, info, recv, wire, calls, got, runs, lost>>
  BY DEF Break, client
<1>2. /\ link' \in [Clients -> [Gens -> {"none", "open", "closing", "gone"}]]
      /\ \A d \in Clients, h \in Gens : link'[d][h] = IF d = c /\ h = g THEN "closing" ELSE link[d][h]
  BY <1>0, <1>1, Update
<1>3. broke' \in [Clients -> BOOLEAN]
  BY <1>0, <1>1, Zenon
<1>4. TypeOK'
  BY <1>1, <1>2, <1>3, CoTypeKept DEF IInv, TypeOK
<1>5. \A d \in Clients \ {c} : Same(d)
  BY <1>0, <1>1 DEF Same
<1>6. (Running(c)' <=> Running(c))
      /\ Pending(at[c].thr, at[c].co)' = Pending(at[c].thr, at[c].co)
  BY <1>1, CoroutinesKept DEF IInv
<1>7. Caller(c)' /\ Present(c)'
  <2>1. Caller(c)'
    BY <1>0, <1>1, <1>6 DEF Calling, Caller, Place
  <2>2. pc[c] = "connect" => sock'[c] = 0 \/ link'[c][sock[c]] # "open"
    BY <1>0, <1>1, <1>2 DEF IInv, TypeOK, Calling, Present
  <2> QED
    BY <1>0, <1>1, <2>1, <2>2 DEF Calling, Present
<1>8. ASSUME NEW h \in Gens PROVE Link(c, h)'
  <2>1. ResumeIds(c, h)' = ResumeIds(c, h)
    BY <1>1 DEF ResumeIds
  <2>2. h > gens[c] => h # g
    BY <1>0 DEF Calling, Link
  <2> QED
    BY <1>0, <1>1, <1>2, <2>1, <2>2 DEF Calling, Link
<1>9. Ticket(c)'
  BY <1>0, <1>1, <1>6 DEF Calling, Ticket, Awaits, ResumeIds
<1> QED
  BY <1>1, <1>4, <1>5, <1>7, <1>8, <1>9, LocalStep DEF Calling

\* The server answers a request or lets it go.
LEMMA ServerStep ==
  ASSUME IInv, NEW c \in Clients, NEW g \in Gens, Server(c, g)
  PROVE  IInv'
<1> DEFINE Msgs == [kind : {"none", "request", "reply"}, idx : Nat, call : Nat]
<1>0. /\ wire \in [Clients -> [Gens -> Msgs]] /\ runs \in [Clients -> Nat]
      /\ Calling(c) /\ wire[c][g].kind = "request" /\ wire[c][g] \in Msgs
  BY DEF IInv, TypeOK, Server, Serve, Ignore
<1>1. /\ UNCHANGED <<covars, at>>
      /\ UNCHANGED <<pc, cnt, code, sock, packidx, gens, link, info, recv, calls, got, broke>>
  BY DEF Server, Serve, Ignore, client
<1>2. PICK v \in Msgs : wire' = [wire EXCEPT ![c][g] = v]
  <2>1. [wire[c][g] EXCEPT !.kind = "reply"] \in Msgs /\ NoMsg \in Msgs
    BY <1>0 DEF NoMsg
  <2>2. \/ wire' = [wire EXCEPT ![c][g] = [wire[c][g] EXCEPT !.kind = "reply"]]
        \/ wire' = [wire EXCEPT ![c][g] = NoMsg]
    BY DEF Server, Serve, Ignore, Drop
  <2> QED
    BY <2>1, <2>2
<1>3. /\ wire' \in [Clients -> [Gens -> Msgs]]
      /\ \A d \in Clients, h \in Gens : wire'[d][h] = IF d = c /\ h = g THEN v ELSE wire[d][h]
  BY <1>0, <1>2, Update, SMTT(90)
<1>4. TypeOK'
  <2>1. runs' \in [Clients -> Nat]
    <3>1. PICK n \in {runs[c], runs[c] + 1} : runs' = runs \/ runs' = [runs EXCEPT ![c] = n]
      BY DEF Server, Serve, Ignore
    <3>2. runs \in [Clients -> Nat] /\ n \in Nat
      BY <3>1 DEF IInv, TypeOK
    <3>3. [runs EXCEPT ![c] = n] \in [Clients -> Nat]
      BY <3>2
    <3> QED
      BY <3>1, <3>2, <3>3
  <2>2. lost' \in [Clients -> BOOLEAN]
    <3>1. lost \in [Clients -> BOOLEAN]
      BY DEF IInv, TypeOK
    <3>2. lost' = lost \/ lost' = [lost EXCEPT ![c] = lost[c] \/ g = sock[c]]
      BY DEF Server, Serve, Ignore, Drop
    <3>3. (lost[c] \/ g = sock[c]) \in BOOLEAN
      OBVIOUS
    <3> QED
      BY <3>1, <3>2, <3>3, Zenon
  <2> QED
    BY <1>1, <1>3, <2>1, <2>2, CoTypeKept DEF IInv, TypeOK
<1>5. \A d \in Clients \ {c} : Same(d)
  BY <1>0, <1>1, <1>2 DEF Same
<1>6. (Running(c)' <=> Running(c))
      /\ Pending(at[c].thr, at[c].co)' = Pending(at[c].thr, at[c].co)
  BY <1>1, CoroutinesKept DEF IInv
<1>7. Caller(c)' /\ Present(c)'
  BY <1>0, <1>1, <1>6 DEF Calling, Caller, Place, Present
<1>8. ASSUME NEW h \in Gens PROVE Link(c, h)'
  <2>1. ResumeIds(c, h)' = ResumeIds(c, h)
    BY <1>1 DEF ResumeIds
  <2>2. h > gens[c] => h # g
    BY <1>0 DEF Calling, Link, NoMsg
  <2> QED
    BY <1>0, <1>1, <1>3, <2>1, <2>2 DEF Calling, Link
<1>9. Ticket(c)'
  BY <1>0, <1>1, <1>6 DEF Calling, Ticket, Awaits, ResumeIds
<1> QED
  BY <1>1, <1>4, <1>5, <1>7, <1>8, <1>9, LocalStep DEF Calling

-----------------------------------------------------------------------------
(* Steps of the threads                                                    *)

\* A call's coroutine is its own.
LEMMA OwnPlace ==
  ASSUME IInv, NEW c \in Clients, pc[c] # "out"
  PROVE  /\ at[c].thr \in Threads /\ at[c].co \in Ids /\ at[c] # NoIds
         /\ at[c] = [thr |-> at[c].thr, co |-> at[c].co]
         /\ job[at[c].thr][at[c].co] = c
         /\ at[c].co < nco[at[c].thr]
         /\ \A d \in Clients \ {c} : at[d] # at[c]
<1>1. at[c] \in Ids2 /\ Place(c)
  BY DEF IInv, TypeOK, Calling, Caller
<1>2. at[c] = [thr |-> at[c].thr, co |-> at[c].co] /\ at[c] # NoIds
  BY <1>1, Constants DEF Ids2, Place, NoIds
<1>3. Table(at[c].thr, at[c].co)
  BY <1>1 DEF IInv, Coroutines, Place
<1>4. job[at[c].thr][at[c].co] = c
  BY <1>2, <1>3 DEF Table
<1>5. ASSUME NEW d \in Clients \ {c} PROVE at[d] # at[c]
  BY <1>2, <1>3, <1>4 DEF Table
<1>6. ~(at[c].co >= nco[at[c].thr])
  BY <1>3, <1>4, Constants DEF Table
<1>7. nco[at[c].thr] \in Nat /\ at[c].co \in Nat
  <2>1. nco \in [Threads -> 0..MaxCo]
    BY DEF IInv, TypeOK, CoTypeOK
  <2>2. nco[at[c].thr] \in 0..MaxCo
    BY <1>1, <2>1 DEF Place
  <2>3. nco[at[c].thr] \in Nat
    BY <2>2, Constants
  <2>4. at[c].co \in Nat
    BY <1>1, Constants DEF Place
  <2> QED
    BY <2>3, <2>4
<1> QED
  BY <1>1, <1>2, <1>4, <1>5, <1>6, <1>7 DEF Place

\* A thread that changes hands only concerns the calls of that thread: the
\* others are told apart by their coroutines.
LEMMA OthersKept ==
  ASSUME IInv, NEW c \in Clients, NEW d \in Clients \ {c}, Same(d),
         NEW t \in Threads, NEW i \in Ids,
         at[d] # [thr |-> t, co |-> i],
         cur[t] \in {i, NoCo}, cur'[t] \in {i, NoCo},
         \A u \in Threads \ {t} : cur'[u] = cur[u],
         \A u \in Threads, j \in Ids : u # t \/ j # i => Pending(u, j)' = Pending(u, j)
  PROVE  Calling(d)'
<1>1. Calling(d)
  BY DEF IInv
<1>2. CASE pc[d] = "out"
  BY <1>1, <1>2, SameCalling
<1>3. CASE pc[d] # "out"
  <2>1. /\ at[d].thr \in Threads /\ at[d].co \in Ids /\ at'[d] = at[d]
        /\ at[d].thr # t \/ at[d].co # i
    BY <1>3, OwnPlace DEF Same
  <2>2. Running(d)' <=> Running(d)
    BY <2>1, Constants DEF Running
  <2>3. Pending(at[d].thr, at[d].co)' = Pending(at[d].thr, at[d].co)
    <3>1. Pending(at[d].thr, at[d].co)' = queued'[at[d].thr][at[d].co] + tmp'[at[d].thr][at[d].co]
      BY <2>1 DEF Pending
    <3>2. queued'[at[d].thr][at[d].co] + tmp'[at[d].thr][at[d].co]
            = queued[at[d].thr][at[d].co] + tmp[at[d].thr][at[d].co]
      BY <2>1 DEF Pending
    <3> QED
      BY <3>1, <3>2 DEF Pending
  <2> QED
    BY <1>1, <2>2, <2>3, SameCalling
<1> QED
  BY <1>2, <1>3

LEMMA WaitStep ==
  ASSUME IInv, NEW c \in Clients, Wait(c)
  PROVE  IInv'
<1> DEFINE t == at[c].thr
           i == at[c].co
<1>0. /\ pc \in [Clients -> PCs] /\ CoTypeOK /\ pc[c] = "yield" /\ Calling(c) /\ cur[t] = i
      /\ t \in Threads /\ i \in Ids /\ at[c] = [thr |-> t, co |-> i] /\ i < nco[t]
      /\ \A d \in Clients \ {c} : at[d] # at[c]
  <2>1. pc[c] = "yield"
    BY DEF Wait
  <2> QED
    BY <2>1, OwnPlace DEF IInv, TypeOK, Calling, Caller, Running
<1>1. /\ pc' = [pc EXCEPT ![c] = "waiting"]
      /\ status' = [status EXCEPT ![t][i] = "suspend"] /\ cur' = [cur EXCEPT ![t] = NoCo]
      /\ UNCHANGED <<nco, job, free, queued, tmp, ub>>
      /\ UNCHANGED <<cnt, code, sock, packidx, at, gens, link, info, recv, wire, calls, got, runs, broke, lost>>
  BY <1>0 DEF Wait, Yield, conn, hist
<1> HIDE DEF t, i
<1>2. /\ status' \in [Threads -> [Ids -> {"none", "running", "suspend"}]]
      /\ \A u \in Threads, j \in Ids : status'[u][j] = IF u = t /\ j = i THEN "suspend" ELSE status[u][j]
  BY <1>0, <1>1, Update, SMTT(90) DEF CoTypeOK
<1>3. TypeOK'
  <2>1. cur' \in [Threads -> Ids \cup {NoCo}] /\ pc' \in [Clients -> PCs]
    BY <1>0, <1>1 DEF CoTypeOK, PCs
  <2>2. CoTypeOK'
    BY <1>0, <1>1, <1>2, <2>1 DEF CoTypeOK
  <2> QED
    BY <1>1, <2>1, <2>2 DEF IInv, TypeOK
<1>4. /\ cur'[t] = NoCo /\ \A u \in Threads \ {t} : cur'[u] = cur[u]
      /\ \A u \in Threads, j \in Ids : Pending(u, j)' = Pending(u, j)
  BY <1>0, <1>1 DEF CoTypeOK, Pending
<1>5. ASSUME NEW u \in Threads, NEW j \in Ids PROVE Table(u, j)' /\ Owned(u, j)'
  <2>1. Table(u, j) /\ Owned(u, j)
    BY DEF IInv, Coroutines
  <2>2. status'[u][j] = "running" <=> cur'[u] = j
    BY <1>0, <1>2, <1>4, <2>1, Constants DEF Table
  <2>3. status'[u][j] = "none" <=> j >= nco[u]
    <3>1. CASE u = t /\ j = i
      <4>1. ~(j >= nco[u])
        BY <1>0, <3>1, Constants DEF CoTypeOK
      <4> QED
        BY <1>2, <3>1, <4>1
    <3>2. CASE ~(u = t /\ j = i)
      BY <1>2, <2>1, <3>2 DEF Table
    <3> QED
      BY <3>1, <3>2
  <2>4. cur'[u] = j => cur[u] = j
    BY <1>4, Constants
  <2>5. Owned(u, j)'
    BY <1>1, <2>1 DEF Owned, Pending
  <2> QED
    BY <1>1, <2>1, <2>2, <2>3, <2>4, <2>5 DEF Table
<1>6. ASSUME NEW d \in Clients \ {c} PROVE Calling(d)'
  <2>1. Same(d)
    BY <1>0, <1>1 DEF Same
  <2> QED
    BY <1>0, <1>4, <2>1, OthersKept
<1>7. pc'[c] = "waiting" /\ at'[c] = at[c] /\ ~Running(c)' /\ Awaits(c) /\ Awaits(c)'
      /\ Pending(at[c].thr, at[c].co)' = Pending(at[c].thr, at[c].co)
  <2>1. pc'[c] = "waiting" /\ at'[c] = at[c]
    BY <1>0, <1>1
  <2>2. ~Running(c)'
    BY <1>0, <1>4, <2>1, Constants DEF Running, t, i
  <2>3. Pending(at[c].thr, at[c].co)' = Pending(at[c].thr, at[c].co)
    BY <1>1 DEF Pending
  <2> QED
    BY <1>0, <2>1, <2>2, <2>3 DEF Awaits
<1>8. Caller(c)' /\ Present(c)'
  BY <1>0, <1>1, <1>7 DEF Calling, Caller, Place, Present
<1>9. ASSUME NEW g \in Gens PROVE Link(c, g)'
  <2>1. ResumeIds(c, g)' = ResumeIds(c, g)
    BY <1>1 DEF ResumeIds
  <2> QED
    BY <1>0, <1>1, <1>7, <2>1 DEF Calling, Link
<1>10. Ticket(c)'
  <2>1. ResumeIds(c, sock[c])' = ResumeIds(c, sock[c])
    BY <1>1 DEF ResumeIds
  <2> QED
    BY <1>0, <1>1, <1>7, <2>1 DEF Calling, Ticket
<1>11. ~ub'
  BY <1>1 DEF IInv
<1>12. Calling(c)'
  BY <1>8, <1>9, <1>10 DEF Calling
<1> QED
  BY <1>3, <1>5, <1>6, <1>11, <1>12 DEF IInv, Coroutines

LEMMA BeginStep ==
  ASSUME IInv, NEW c \in Clients, NEW t \in Threads, NEW i \in Ids, Begin(c, t, i)
  PROVE  IInv'
<1>0. /\ pc \in [Clients -> PCs] /\ CoTypeOK /\ pc[c] = "out" /\ Calling(c) /\ cur[t] = NoCo
      /\ at \in [Clients -> Ids2] /\ at[c] = NoIds /\ nco[t] \in Nat /\ i \in Nat
  <2>1. pc[c] = "out" /\ cur[t] = NoCo
    BY DEF Begin, DoTask, InLoop
  <2>2. nco[t] \in 0..MaxCo
    BY DEF IInv, TypeOK, CoTypeOK
  <2> QED
    BY <2>1, <2>2, Constants DEF IInv, TypeOK, Calling, Caller
<1>1. /\ pc' = [pc EXCEPT ![c] = "top"] /\ at' = [at EXCEPT ![c] = [thr |-> t, co |-> i]]
      /\ cur' = [cur EXCEPT ![t] = i]
      /\ status' = [status EXCEPT ![t][i] = "running"]
      /\ job' = [job EXCEPT ![t][i] = c]
      /\ calls' = [calls EXCEPT ![c] = @ + 1] /\ runs' = [runs EXCEPT ![c] = 0]
      /\ broke' = [broke EXCEPT ![c] = FALSE]
      /\ UNCHANGED <<queued, tmp, ub>>
      /\ UNCHANGED <<cnt, code, sock, packidx, gens, link, info, recv, wire, got, lost>>
      /\ GetWrapper(t, i)
  BY DEF Begin, DoTask, conn
<1>2. /\ Table(t, i) /\ Owned(t, i) /\ job[t][i] = Idle
      /\ nco' \in [Threads -> 0..MaxCo] /\ free' \in [Threads -> SUBSET Ids]
      /\ i < nco'[t] /\ i \notin free'[t]
      /\ \A u \in Threads, j \in Ids : u # t \/ j # i =>
           (j >= nco'[u] <=> j >= nco[u]) /\ (j < nco'[u] <=> j < nco[u])
           /\ (j \in free'[u] <=> j \in free[u])
  <2>1. Table(t, i) /\ Owned(t, i) /\ nco \in [Threads -> 0..MaxCo] /\ free \in [Threads -> SUBSET Ids]
    BY <1>0 DEF IInv, Coroutines, CoTypeOK
  <2>2. CASE i \in free[t] /\ free' = [free EXCEPT ![t] = @ \ {i}] /\ UNCHANGED nco
    BY <2>1, <2>2 DEF Table
  <2>3. CASE free[t] = {} /\ i = nco[t] /\ nco' = [nco EXCEPT ![t] = @ + 1] /\ UNCHANGED free
    <3>1. job[t][i] = Idle /\ i \notin free'[t]
      BY <1>0, <2>1, <2>3 DEF Table
    <3>2. nco'[t] = i + 1 /\ i + 1 \in 0..MaxCo /\ nco' \in [Threads -> 0..MaxCo]
      <4>1. i + 1 \in 0..MaxCo
        BY Constants DEF Ids
      <4> QED
        BY <2>1, <2>3, <4>1
    <3>3. ASSUME NEW u \in Threads, NEW j \in Ids, u # t \/ j # i
          PROVE  (j >= nco'[u] <=> j >= nco[u]) /\ (j < nco'[u] <=> j < nco[u])
      <4>1. CASE u # t
        BY <2>1, <2>3, <4>1
      <4>2. CASE u = t
        <5>1. j \in Nat /\ j # i
          BY <3>3, <4>2, Constants
        <5> QED
          BY <1>0, <2>3, <3>2, <4>2, <5>1
      <4> QED
        BY <4>1, <4>2
    <3> QED
      BY <1>0, <2>1, <2>3, <3>1, <3>2, <3>3
  <2> QED
    BY <1>1, <2>2, <2>3 DEF GetWrapper
<1>3. /\ status' \in [Threads -> [Ids -> {"none", "running", "suspend"}]]
      /\ \A u \in Threads, j \in Ids : status'[u][j] = IF u = t /\ j = i THEN "running" ELSE status[u][j]
  BY <1>0, <1>1, Update, SMTT(90) DEF CoTypeOK
<1>4. /\ job' \in [Threads -> [Ids -> Jobs \cup {Idle}]]
      /\ \A u \in Threads, j \in Ids : job'[u][j] = IF u = t /\ j = i THEN c ELSE job[u][j]
  <2>1. c \in Jobs \cup {Idle}
    BY Constants
  <2> QED
    BY <1>0, <1>1, <2>1, Update, SMTT(90) DEF CoTypeOK
<1>5. TypeOK'
  <2>1. [thr |-> t, co |-> i] \in Ids2
    BY DEF Ids2
  <2>2. /\ cur' \in [Threads -> Ids \cup {NoCo}] /\ pc' \in [Clients -> PCs]
        /\ at' \in [Clients -> Ids2] /\ calls' \in [Clients -> Nat] /\ runs' \in [Clients -> Nat]
    BY <1>0, <1>1, <2>1 DEF CoTypeOK, PCs, IInv, TypeOK
  <2>3. broke' \in [Clients -> BOOLEAN]
    <3>1. broke \in [Clients -> BOOLEAN]
      BY DEF IInv, TypeOK
    <3> QED
      BY <1>1, <3>1, Zenon
  <2>4. CoTypeOK'
    BY <1>0, <1>1, <1>2, <1>3, <1>4, <2>2 DEF CoTypeOK
  <2> QED
    BY <1>1, <2>2, <2>3, <2>4 DEF IInv, TypeOK
<1>6. /\ cur'[t] = i /\ \A u \in Threads \ {t} : cur'[u] = cur[u]
      /\ \A u \in Threads, j \in Ids : Pending(u, j)' = Pending(u, j)
  BY <1>0, <1>1 DEF CoTypeOK, Pending
<1>7. /\ at'[c] = [thr |-> t, co |-> i] /\ \A d \in Clients \ {c} : at'[d] = at[d]
  BY <1>0, <1>1
<1>8. \A d \in Clients : at[d] # [thr |-> t, co |-> i]
  BY <1>2, Constants DEF Table
<1>9. ASSUME NEW u \in Threads, NEW j \in Ids PROVE Table(u, j)' /\ Owned(u, j)'
  <2>1. Table(u, j) /\ Owned(u, j)
    BY DEF IInv, Coroutines
  <2>2. CASE u = t /\ j = i
    <3>1. \A d \in Clients : c = d <=> at'[d] = [thr |-> t, co |-> i]
      BY <1>7, <1>8
    <3>2. ~(i >= nco'[t])
      BY <1>0, <1>2
    <3>3. Table(u, j)'
      BY <1>2, <1>3, <1>4, <1>6, <2>2, <3>1, <3>2, Constants DEF Table
    <3> QED
      BY <1>4, <2>2, <3>3, Constants DEF Owned
  <2>3. CASE ~(u = t /\ j = i)
    <3>1. status'[u][j] = status[u][j] /\ job'[u][j] = job[u][j]
      BY <1>3, <1>4, <2>3
    <3>2. cur'[u] = j <=> cur[u] = j
      BY <1>0, <1>6, <2>3, Constants
    <3>3. \A d \in Clients : at'[d] = [thr |-> u, co |-> j] <=> at[d] = [thr |-> u, co |-> j]
      <4>1. at[c] # [thr |-> u, co |-> j] /\ at'[c] # [thr |-> u, co |-> j]
        BY <1>0, <1>7, <2>3, Constants DEF NoIds
      <4> QED
        BY <1>7, <4>1
    <3>4. Table(u, j)'
      BY <1>2, <2>1, <2>3, <3>1, <3>2, <3>3 DEF Table
    <3>5. Pending(u, j)' = Pending(u, j)
      BY <1>6
    <3> QED
      BY <2>1, <3>1, <3>4, <3>5 DEF Owned
  <2> QED
    BY <2>2, <2>3
<1>10. ASSUME NEW d \in Clients \ {c} PROVE Calling(d)'
  <2>1. Same(d)
    BY <1>0, <1>1 DEF Same
  <2> QED
    BY <1>0, <1>6, <1>8, <2>1, OthersKept
<1>11. pc'[c] = "top" /\ Running(c)' /\ ~Awaits(c) /\ ~Awaits(c)'
  <2>1. pc'[c] = "top"
    BY <1>0, <1>1
  <2> QED
    BY <1>0, <1>6, <1>7, <2>1 DEF Running, Awaits
<1>12. Caller(c)' /\ Present(c)'
  BY <1>0, <1>1, <1>7, <1>11 DEF Calling, Caller, Place, Present
<1>13. ASSUME NEW g \in Gens PROVE Link(c, g)'
  <2>1. ResumeIds(c, g)' = ResumeIds(c, g)
    BY <1>1 DEF ResumeIds
  <2>2. recv[c][g] = NoIds /\ ~(link[c][g] = "open" /\ wire[c][g].kind # "none")
    BY <1>0 DEF Calling, Link
  <2> QED
    BY <1>0, <1>1, <1>11, <2>1, <2>2 DEF Calling, Link
<1>14. Ticket(c)'
  <2>1. ResumeIds(c, sock[c])' = ResumeIds(c, sock[c])
    BY <1>1 DEF ResumeIds
  <2>2. Pending(t, i) = 0
    <3>1. Pending(t, i) \in Nat
      BY <1>0 DEF CoTypeOK, Pending
    <3> QED
      BY <1>2, <3>1 DEF Owned
  <2>3. Pending(at[c].thr, at[c].co)' = 0
    <3>1. Pending(t, i)' = 0
      BY <1>6, <2>2
    <3> QED
      BY <1>7, <3>1 DEF Pending
  <2> QED
    BY <1>0, <1>1, <1>11, <2>1, <2>3 DEF Calling, Ticket
<1>15. ~ub' /\ Calling(c)'
  BY <1>1, <1>12, <1>13, <1>14 DEF IInv, Calling
<1> QED
  BY <1>5, <1>9, <1>10, <1>15 DEF IInv, Coroutines

LEMMA ReturnStep ==
  ASSUME IInv, NEW c \in Clients, Return(c)
  PROVE  IInv'
<1> DEFINE t == at[c].thr
           i == at[c].co
<1>0. /\ pc \in [Clients -> PCs] /\ CoTypeOK /\ pc[c] = "return" /\ Calling(c) /\ cur[t] = i
      /\ t \in Threads /\ i \in Ids /\ at[c] = [thr |-> t, co |-> i] /\ i < nco[t]
      /\ \A d \in Clients \ {c} : at[d] # at[c]
      /\ at \in [Clients -> Ids2] /\ nco[t] \in Nat /\ i \in Nat
  <2>1. pc[c] = "return"
    BY DEF Return
  <2>2. t \in Threads
    BY <2>1, OwnPlace
  <2>3. nco[t] \in 0..MaxCo
    BY <2>2 DEF IInv, TypeOK, CoTypeOK
  <2> QED
    BY <2>1, <2>3, OwnPlace, Constants DEF IInv, TypeOK, Calling, Caller, Running
<1>1. /\ pc' = [pc EXCEPT ![c] = "out"] /\ at' = [at EXCEPT ![c] = NoIds]
      /\ status' = [status EXCEPT ![t][i] = "suspend"] /\ cur' = [cur EXCEPT ![t] = NoCo]
      /\ job' = [job EXCEPT ![t][i] = Idle] /\ free' = [free EXCEPT ![t] = free[t] \cup {i}]
      /\ cnt' = [cnt EXCEPT ![c] = 0] /\ code' = [code EXCEPT ![c] = 0]
      /\ got' = [got EXCEPT ![c] = 0]
      /\ UNCHANGED <<nco, queued, tmp, ub>>
      /\ UNCHANGED <<sock, packidx, gens, link, info, recv, wire, calls, runs, broke, lost>>
  BY <1>0 DEF Return, EndTask, conn
<1> HIDE DEF t, i
<1>2. /\ status' \in [Threads -> [Ids -> {"none", "running", "suspend"}]]
      /\ \A u \in Threads, j \in Ids : status'[u][j] = IF u = t /\ j = i THEN "suspend" ELSE status[u][j]
  BY <1>0, <1>1, Update, SMTT(90) DEF CoTypeOK
<1>3. /\ job' \in [Threads -> [Ids -> Jobs \cup {Idle}]]
      /\ \A u \in Threads, j \in Ids : job'[u][j] = IF u = t /\ j = i THEN Idle ELSE job[u][j]
  BY <1>0, <1>1, Update, SMTT(90) DEF CoTypeOK
<1>4. /\ free' \in [Threads -> SUBSET Ids] /\ cur' \in [Threads -> Ids \cup {NoCo}]
      /\ cur'[t] = NoCo /\ (\A u \in Threads \ {t} : cur'[u] = cur[u])
      /\ \A u \in Threads, j \in Ids : j \in free'[u] <=> j \in free[u] \/ (u = t /\ j = i)
  BY <1>0, <1>1 DEF CoTypeOK
<1>5. TypeOK'
  <2>1. NoIds \in Ids2 /\ 0 \in 0..Attempts
    BY DEF Ids2, NoIds, Attempts
  <2>2. /\ pc' \in [Clients -> PCs] /\ at' \in [Clients -> Ids2]
        /\ cnt' \in [Clients -> 0..Attempts] /\ code' \in [Clients -> {0, -2, -3}]
        /\ got' \in [Clients -> Nat]
    BY <1>0, <1>1, <2>1 DEF PCs, IInv, TypeOK
  <2>3. CoTypeOK'
    BY <1>0, <1>1, <1>2, <1>3, <1>4 DEF CoTypeOK
  <2> QED
    BY <1>1, <2>2, <2>3 DEF IInv, TypeOK
<1>6. /\ \A u \in Threads, j \in Ids : Pending(u, j)' = Pending(u, j)
      /\ at'[c] = NoIds /\ \A d \in Clients \ {c} : at'[d] = at[d]
  BY <1>0, <1>1 DEF Pending
<1>7. ~Awaits(c) /\ Pending(t, i) = 0
  BY <1>0 DEF Calling, Ticket, Awaits, t, i
<1>8. ASSUME NEW u \in Threads, NEW j \in Ids PROVE Table(u, j)' /\ Owned(u, j)'
  <2>1. Table(u, j) /\ Owned(u, j) /\ Pending(u, j)' = Pending(u, j)
    BY <1>6 DEF IInv, Coroutines
  <2>2. CASE u = t /\ j = i
    <3>1. \A d \in Clients : Idle # d /\ at'[d] # [thr |-> t, co |-> i]
      BY <1>0, <1>6, Constants DEF NoIds
    <3>2. ~(i >= nco[t])
      BY <1>0
    <3>3. cur'[u] # j
      BY <1>4, <2>2, Constants
    <3>4. Table(u, j)'
      BY <1>0, <1>1, <1>2, <1>3, <1>4, <2>2, <3>1, <3>2, <3>3 DEF Table
    <3> QED
      BY <1>7, <2>1, <2>2, <3>4 DEF Owned
  <2>3. CASE ~(u = t /\ j = i)
    <3>1. status'[u][j] = status[u][j] /\ job'[u][j] = job[u][j] /\ (j \in free'[u] <=> j \in free[u])
      BY <1>2, <1>3, <1>4, <2>3
    <3>2. cur'[u] = j <=> cur[u] = j
      BY <1>0, <1>4, <2>3, Constants
    <3>3. \A d \in Clients : at'[d] = [thr |-> u, co |-> j] <=> at[d] = [thr |-> u, co |-> j]
      <4>1. at[c] # [thr |-> u, co |-> j] /\ at'[c] # [thr |-> u, co |-> j]
        BY <1>0, <1>6, <2>3, Constants DEF NoIds
      <4> QED
        BY <1>6, <4>1
    <3>4. Table(u, j)'
      BY <1>1, <2>1, <3>1, <3>2, <3>3 DEF Table
    <3> QED
      BY <2>1, <3>1, <3>4 DEF Owned
  <2> QED
    BY <2>2, <2>3
<1>9. ASSUME NEW d \in Clients \ {c} PROVE Calling(d)'
  <2>1. Same(d) /\ cnt \in [Clients -> 0..Attempts]
    BY <1>0, <1>1 DEF Same, IInv, TypeOK
  <2>2. at[d] # [thr |-> t, co |-> i]
    BY <1>0
  <2>3. cur[t] \in {i, NoCo} /\ cur'[t] \in {i, NoCo}
    BY <1>0, <1>4
  <2>4. t \in Threads /\ i \in Ids /\ (\A u \in Threads \ {t} : cur'[u] = cur[u])
    BY <1>0, <1>4
  <2>5. \A u \in Threads, j \in Ids : u # t \/ j # i => Pending(u, j)' = Pending(u, j)
    BY <1>6
  <2> HIDE DEF t, i
  <2> QED
    BY <2>1, <2>2, <2>3, <2>4, <2>5, OthersKept
<1>10. pc'[c] = "out" /\ ~Awaits(c)'
  <2>1. pc'[c] = "out"
    BY <1>0, <1>1
  <2> QED
    BY <2>1 DEF Awaits
<1>11. Caller(c)' /\ Present(c)'
  BY <1>0, <1>1, <1>6, <1>10 DEF Calling, Caller, Present
<1>12. ASSUME NEW g \in Gens PROVE Link(c, g)'
  <2>1. ResumeIds(c, g)' = ResumeIds(c, g)
    BY <1>1 DEF ResumeIds
  <2>2. recv[c][g] = NoIds /\ ~(link[c][g] = "open" /\ wire[c][g].kind # "none")
    BY <1>0 DEF Calling, Link
  <2> QED
    BY <1>0, <1>1, <1>10, <2>1, <2>2 DEF Calling, Link
<1>13. Ticket(c)'
  <2>1. ResumeIds(c, sock[c])' = ResumeIds(c, sock[c])
    BY <1>1 DEF ResumeIds
  <2> QED
    BY <1>0, <1>1, <1>7, <1>10, <2>1 DEF Calling, Ticket
<1>14. ~ub' /\ Calling(c)'
  BY <1>1, <1>11, <1>12, <1>13 DEF IInv, Calling
<1> QED
  BY <1>5, <1>8, <1>9, <1>14 DEF IInv, Coroutines

\* A callback hands in the ticket: one resume is on its way and the ids are
\* no longer registered.
LEMMA HandIn ==
  ASSUME IInv, NEW c \in Clients, NEW g \in Gens, ResumeIds(c, g) = at[c], pc[c] # "out",
         AddResume(at[c].thr, at[c].co),
         UNCHANGED <<nco, cur, status, job, free, tmp, ub, pc, at, sock, gens, cnt>>,
         \A d \in Clients \ {c} : Same(d),
         \A h \in Gens : h # g => /\ link'[c][h] = link[c][h] /\ info'[c][h] = info[c][h]
                                  /\ recv'[c][h] = recv[c][h] /\ wire'[c][h] = wire[c][h],
         ResumeIds(c, g)' = NoIds, recv'[c][g] = NoIds,
         link'[c][g] = "open" => /\ link[c][g] = "open" /\ wire'[c][g].kind = "none"
                                 /\ pc[c] # "send",
         g > gens[c] => link'[c][g] = "none" /\ wire'[c][g] = NoMsg
  PROVE  /\ Coroutines' /\ ~ub' /\ \A d \in Clients : Calling(d)'
         /\ queued' \in [Threads -> [Ids -> Nat]]
<1>a. PICK t \in Threads, i \in Ids : t = at[c].thr /\ i = at[c].co
  BY OwnPlace
<1>0. /\ t \in Threads /\ i \in Ids /\ at[c] # NoIds /\ at[c] = [thr |-> t, co |-> i]
      /\ job[t][i] = c /\ (\A d \in Clients \ {c} : at[d] # at[c]) /\ Calling(c)
      /\ queued \in [Threads -> [Ids -> Nat]] /\ tmp \in [Threads -> [Ids -> Nat]]
  BY <1>a, OwnPlace DEF IInv, TypeOK, CoTypeOK
<1>1. queued' = [queued EXCEPT ![t][i] = queued[t][i] + 1]
  BY <1>a DEF AddResume
<1>2. g = sock[c] /\ Awaits(c) /\ Pending(t, i) = 0
  <2>1. g = sock[c]
    BY <1>0 DEF Calling, Link
  <2>2. Awaits(c)
    BY <1>0, <2>1, Constants DEF Calling, Ticket
  <2> QED
    BY <1>0, <1>a, <2>1, <2>2 DEF Calling, Ticket
<1>3. /\ queued' \in [Threads -> [Ids -> Nat]]
      /\ \A u \in Threads, j \in Ids : queued'[u][j] =
           IF u = t /\ j = i THEN queued[t][i] + 1 ELSE queued[u][j]
  <2>1. queued[t][i] + 1 \in Nat
    BY <1>0
  <2> QED
    BY <1>0, <1>1, <2>1
<1>4. /\ \A u \in Threads, j \in Ids : u # t \/ j # i => Pending(u, j)' = Pending(u, j)
      /\ Pending(t, i)' = 1
  <2>1. queued[t][i] \in Nat /\ tmp[t][i] \in Nat
    BY <1>0
  <2>2. Pending(t, i)' = queued[t][i] + 1 + tmp[t][i]
    BY <1>0, <1>3 DEF Pending
  <2> QED
    BY <1>2, <1>3, <2>1, <2>2 DEF Pending
<1>5. ASSUME NEW u \in Threads, NEW j \in Ids PROVE Table(u, j)' /\ Owned(u, j)'
  <2>1. Table(u, j) /\ Owned(u, j)
    BY DEF IInv, Coroutines
  <2>2. Table(u, j)'
    BY <2>1 DEF Table
  <2>3. CASE u = t /\ j = i
    BY <1>0, <2>2, <2>3, Constants DEF Owned
  <2>4. CASE ~(u = t /\ j = i)
    BY <1>4, <2>1, <2>2, <2>4 DEF Owned
  <2> QED
    BY <2>3, <2>4
<1>6. ASSUME NEW d \in Clients \ {c} PROVE Calling(d)'
  <2>1. Calling(d) /\ Same(d)
    BY DEF IInv
  <2>2. Running(d)' <=> Running(d)
    BY DEF Running
  <2>3. pc[d] # "out" => Pending(at[d].thr, at[d].co)' = Pending(at[d].thr, at[d].co)
    <3>1. SUFFICES ASSUME pc[d] # "out"
                   PROVE  Pending(at[d].thr, at[d].co)' = Pending(at[d].thr, at[d].co)
      OBVIOUS
    <3>2. at[d].thr \in Threads /\ at[d].co \in Ids /\ (at[d].thr # t \/ at[d].co # i)
      <4>1. /\ at[d].thr \in Threads /\ at[d].co \in Ids
            /\ at[d] = [thr |-> at[d].thr, co |-> at[d].co]
        BY <3>1, OwnPlace
      <4> QED
        BY <1>0, <4>1
    <3> QED
      BY <1>3, <3>2 DEF Pending
  <2> QED
    BY <2>1, <2>2, <2>3, SameCalling
<1>7. /\ Running(c)' <=> Running(c)
      /\ Awaits(c)' <=> Awaits(c)
      /\ Pending(at[c].thr, at[c].co)' = 1
  <2>1. Pending(at[c].thr, at[c].co)' = 1
    BY <1>4, <1>a DEF Pending
  <2> QED
    BY <2>1 DEF Running, Awaits
<1>8. Caller(c)'
  BY <1>0, <1>7 DEF Calling, Caller, Place
<1>9. Present(c)'
  <2>1. pc[c] # "connect"
    BY <1>2 DEF Awaits
  <2> QED
    BY <1>0, <2>1 DEF Calling, Present
<1>10. ASSUME NEW h \in Gens PROVE Link(c, h)'
  <2>1. CASE h = g
    BY <1>0, <1>2, <2>1 DEF Calling, Link
  <2>2. CASE h # g
    <3>1. ResumeIds(c, h)' = ResumeIds(c, h)
      BY <2>2 DEF ResumeIds
    <3> QED
      BY <1>0, <2>2, <3>1 DEF Calling, Link
  <2> QED
    BY <2>1, <2>2
<1>11. Ticket(c)'
  <2>1. ResumeIds(c, sock[c])' = NoIds
    BY <1>2 DEF ResumeIds
  <2> QED
    BY <1>2, <1>7, <2>1 DEF Ticket
<1>12. Calling(c)'
  BY <1>8, <1>9, <1>10, <1>11 DEF Calling
<1> QED
  BY <1>3, <1>5, <1>6, <1>12 DEF IInv, Coroutines

MsgType == [kind : {"none", "request", "reply"}, idx : Nat, call : Nat]

LEMMA TakeReplyStep ==
  ASSUME IInv, NEW c \in Clients, NEW g \in Gens, TakeReply(c, g)
  PROVE  IInv'
<1> DEFINE v == ReplyTaken(c, g)
<1>0. /\ info \in [Clients -> [Gens -> InfoType]] /\ wire \in [Clients -> [Gens -> MsgType]]
      /\ recv \in [Clients -> [Gens -> Ids2]] /\ info[c][g] \in InfoType /\ wire[c][g] \in MsgType
      /\ Calling(c) /\ recv[c][g] # NoIds
  BY DEF IInv, TypeOK, TakeReply, InfoType, MsgType
<1>1. /\ recv[c][g] = at[c] /\ ResumeIds(c, g) = at[c] /\ pc[c] \in {"yield", "waiting"}
      /\ g = sock[c]
  BY <1>0 DEF Calling, Link
<1>2. /\ info' = [info EXCEPT ![c][g] = v] /\ wire' = [wire EXCEPT ![c][g] = NoMsg]
      /\ recv' = [recv EXCEPT ![c][g] = NoIds]
      /\ AddResume(at[c].thr, at[c].co)
      /\ UNCHANGED <<nco, cur, status, job, free, tmp, ub>>
      /\ UNCHANGED <<pc, cnt, code, sock, packidx, at, gens, link, calls, got, runs, broke, lost>>
  BY <1>1 DEF TakeReply, client, hist
<1>3. v \in InfoType /\ v.thr = NoThr /\ v.co = NoCo
  BY <1>0 DEF InfoType, MsgType, ReplyTaken, Buffers
<1>4. NoMsg \in MsgType /\ NoIds \in Ids2
  BY DEF NoMsg, MsgType, NoIds, Ids2
<1> HIDE DEF v
<1>5. /\ info' \in [Clients -> [Gens -> InfoType]]
      /\ \A h \in Gens : info'[c][h] = IF h = g THEN v ELSE info[c][h]
  BY <1>0, <1>2, <1>3, Update
<1>6. /\ wire' \in [Clients -> [Gens -> MsgType]]
      /\ \A h \in Gens : wire'[c][h] = IF h = g THEN NoMsg ELSE wire[c][h]
  BY <1>0, <1>2, <1>4, Update
<1>7. /\ recv' \in [Clients -> [Gens -> Ids2]]
      /\ \A h \in Gens : recv'[c][h] = IF h = g THEN NoIds ELSE recv[c][h]
  BY <1>0, <1>2, <1>4, Update
<1>8. \A d \in Clients \ {c} : Same(d)
  BY <1>0, <1>2 DEF Same
<1>9. ResumeIds(c, g)' = NoIds
  BY <1>3, <1>5 DEF ResumeIds, NoIds
<1>10. g > gens[c] => link'[c][g] = "none" /\ wire'[c][g] = NoMsg
  BY <1>0, <1>2, <1>6 DEF Calling, Link
<1>11. link'[c][g] = "open" => link[c][g] = "open" /\ wire'[c][g].kind = "none" /\ pc[c] # "send"
  BY <1>1, <1>2, <1>6 DEF NoMsg
<1>12. /\ Coroutines' /\ ~ub' /\ \A d \in Clients : Calling(d)'
       /\ queued' \in [Threads -> [Ids -> Nat]]
  BY <1>1, <1>2, <1>5, <1>6, <1>7, <1>8, <1>9, <1>10, <1>11, HandIn
<1>13. TypeOK'
  <2>1. CoTypeOK'
    BY <1>2, <1>12 DEF IInv, TypeOK, CoTypeOK
  <2> QED
    BY <1>2, <1>5, <1>6, <1>7, <2>1 DEF IInv, TypeOK, InfoType, MsgType
<1> QED
  BY <1>12, <1>13 DEF IInv

LEMMA DisconnectedStep ==
  ASSUME IInv, NEW c \in Clients, NEW g \in Gens, Disconnected(c, g)
  PROVE  IInv'
<1>0. /\ info \in [Clients -> [Gens -> InfoType]]
      /\ link \in [Clients -> [Gens -> {"none", "open", "closing", "gone"}]]
      /\ Calling(c) /\ recv[c][g] = NoIds /\ link[c][g] = "closing"
  BY DEF IInv, TypeOK, Disconnected, InfoType
<1>1. /\ info' = [info EXCEPT ![c][g] = Fresh] /\ link' = [link EXCEPT ![c][g] = "gone"]
      /\ AddResume(ResumeIds(c, g).thr, ResumeIds(c, g).co)
      /\ UNCHANGED <<nco, cur, status, job, free, tmp, ub>>
      /\ UNCHANGED <<pc, cnt, code, sock, packidx, at, gens, recv, wire, calls, got, runs, broke, lost>>
  BY DEF Disconnected, client, hist, Reset
<1>2. Fresh \in InfoType /\ Fresh.thr = NoThr /\ Fresh.co = NoCo
  BY DEF Fresh, InfoType, Nothing, Buffers
<1>3. /\ info' \in [Clients -> [Gens -> InfoType]]
      /\ \A h \in Gens : info'[c][h] = IF h = g THEN Fresh ELSE info[c][h]
  BY <1>0, <1>1, <1>2, Update
<1>4. /\ link' \in [Clients -> [Gens -> {"none", "open", "closing", "gone"}]]
      /\ \A h \in Gens : link'[c][h] = IF h = g THEN "gone" ELSE link[c][h]
  BY <1>0, <1>1, Update
<1>5. \A d \in Clients \ {c} : Same(d)
  BY <1>0, <1>1 DEF Same
<1>6. ResumeIds(c, g)' = NoIds
  BY <1>2, <1>3 DEF ResumeIds, NoIds
<1>7. ~(g > gens[c])
  BY <1>0 DEF Calling, Link
<1>8. CASE ResumeIds(c, g) = NoIds
  <2>1. UNCHANGED <<covars, at>>
    BY <1>1, <1>8, Constants DEF AddResume, covars, NoIds
  <2>2. TypeOK'
    BY <1>1, <1>3, <1>4, <2>1, CoTypeKept DEF IInv, TypeOK, InfoType
  <2>3. (Running(c)' <=> Running(c))
        /\ Pending(at[c].thr, at[c].co)' = Pending(at[c].thr, at[c].co)
    BY <2>1, CoroutinesKept DEF IInv
  <2>4. \A h \in Gens : ResumeIds(c, h)' = ResumeIds(c, h)
    <3>1. \A h \in Gens : h # g => ResumeIds(c, h)' = ResumeIds(c, h)
      BY <1>3 DEF ResumeIds
    <3> QED
      BY <1>6, <1>8, <3>1
  <2>5. Caller(c)'
    BY <1>0, <1>1, <2>3 DEF Calling, Caller, Place
  <2>6. Present(c)'
    <3>1. sock[c] \in Gens \cup {0}
      BY DEF IInv, TypeOK
    <3>2. pc[c] = "connect" => sock[c] = 0 \/ link'[c][sock[c]] # "open"
      BY <1>0, <1>4, <3>1 DEF Calling, Present
    <3> QED
      BY <1>0, <1>1, <3>2 DEF Calling, Present
  <2>7. \A h \in Gens : Link(c, h)'
    BY <1>0, <1>1, <1>4, <1>7, <2>4 DEF Calling, Link
  <2>8. Ticket(c)'
    <3>1. sock[c] # 0 => ResumeIds(c, sock[c])' = ResumeIds(c, sock[c])
      <4>1. sock[c] \in Gens \cup {0}
        BY DEF IInv, TypeOK
      <4> QED
        BY <1>1, <2>4, <4>1
    <3>2. Awaits(c) => sock[c] # 0
      BY <1>0 DEF Calling, Present, Awaits
    <3>3. Awaits(c)' <=> Awaits(c)
      BY <1>1, <2>3 DEF Awaits
    <3> QED
      BY <1>0, <1>1, <2>3, <3>1, <3>2, <3>3 DEF Calling, Ticket
  <2> QED
    BY <1>5, <2>1, <2>2, <2>5, <2>6, <2>7, <2>8, LocalStep DEF Calling
<1>9. CASE ResumeIds(c, g) # NoIds
  <2>1. g = sock[c]
    BY <1>0, <1>9 DEF Calling, Link
  <2>2. ResumeIds(c, g) = at[c] /\ pc[c] # "out"
    BY <1>0, <1>9, <2>1, Constants DEF Calling, Ticket, Awaits
  <2>3. AddResume(at[c].thr, at[c].co)
    BY <1>1, <2>2
  <2>4. link'[c][g] = "gone" /\ recv'[c][g] = NoIds
    BY <1>0, <1>1, <1>4
  <2>5. /\ Coroutines' /\ ~ub' /\ \A d \in Clients : Calling(d)'
        /\ queued' \in [Threads -> [Ids -> Nat]]
    BY <1>1, <1>3, <1>4, <1>5, <1>6, <1>7, <2>2, <2>3, <2>4, HandIn
  <2>6. TypeOK'
    <3>1. CoTypeOK'
      BY <1>1, <2>5 DEF IInv, TypeOK, CoTypeOK
    <3> QED
      BY <1>1, <1>3, <1>4, <3>1 DEF IInv, TypeOK, InfoType
  <2> QED
    BY <2>5, <2>6 DEF IInv
<1> QED
  BY <1>8, <1>9

LEMMA TakeStep ==
  ASSUME IInv, NEW t \in Threads, Take(t)
  PROVE  IInv'
<1>0. /\ queued \in [Threads -> [Ids -> Nat]] /\ tmp \in [Threads -> [Ids -> Nat]]
      /\ \A i \in Ids : tmp[t][i] = 0
  BY DEF IInv, TypeOK, CoTypeOK, Take, DoThrResume, InLoop
<1>1. /\ tmp' = [tmp EXCEPT ![t] = queued[t]]
      /\ queued' = [queued EXCEPT ![t] = [i \in Ids |-> 0]]
      /\ UNCHANGED <<nco, cur, status, job, free, ub>>
      /\ UNCHANGED <<pc, cnt, code, sock, packidx, at, gens, link, info, recv, wire,
                     calls, got, runs, broke, lost>>
  BY DEF Take, DoThrResume, client, conn, hist
<1>2. queued' \in [Threads -> [Ids -> Nat]] /\ tmp' \in [Threads -> [Ids -> Nat]]
  BY <1>0, <1>1
<1>3. TypeOK'
  <2>1. CoTypeOK'
    BY <1>1, <1>2 DEF IInv, TypeOK, CoTypeOK
  <2> QED
    BY <1>1, <2>1 DEF IInv, TypeOK
<1>4. ASSUME NEW u \in Threads, NEW j \in Ids
      PROVE  queued'[u][j] + tmp'[u][j] = queued[u][j] + tmp[u][j]
  <2>1. queued[u][j] \in Nat /\ tmp[u][j] \in Nat
    BY <1>0
  <2>2. CASE u = t
    BY <1>0, <1>1, <2>1, <2>2
  <2>3. CASE u # t
    BY <1>0, <1>1, <2>3
  <2> QED
    BY <2>2, <2>3
<1>5. ASSUME NEW u \in Threads, NEW j \in Ids PROVE Table(u, j)' /\ Owned(u, j)'
  <2>1. Table(u, j) /\ Owned(u, j)
    BY DEF IInv, Coroutines
  <2>2. Pending(u, j)' = Pending(u, j)
    BY <1>4 DEF Pending
  <2> QED
    BY <1>1, <2>1, <2>2 DEF Table, Owned
<1>6. ASSUME NEW d \in Clients PROVE Calling(d)'
  <2>1. Same(d) /\ Calling(d) /\ (Running(d)' <=> Running(d))
    BY <1>1 DEF Same, IInv, Running
  <2>2. pc[d] # "out" => Pending(at[d].thr, at[d].co)' = Pending(at[d].thr, at[d].co)
    <3>1. pc[d] # "out" => at[d].thr \in Threads /\ at[d].co \in Ids
      BY OwnPlace
    <3> QED
      BY <1>1, <1>4, <3>1 DEF Pending
  <2> QED
    BY <2>1, <2>2, SameCalling
<1> QED
  BY <1>1, <1>3, <1>5, <1>6 DEF IInv, Coroutines

\* doThrResume resumes the coroutine of a call that waits: the ticket is
\* used up.
LEMMA ResumeStep ==
  ASSUME IInv, NEW t \in Threads, Resume(t)
  PROVE  IInv'
<1>1. PICK i \in Ids : ResumeNext(t, i) /\ UNCHANGED <<client, conn, hist>>
  BY DEF Resume
<1>2. /\ CoTypeOK /\ cur[t] = NoCo /\ tmp[t][i] > 0 /\ Table(t, i) /\ Owned(t, i)
      /\ tmp[t][i] \in Nat /\ queued[t][i] \in Nat /\ nco[t] \in Nat /\ i \in Nat
  <2>1. nco[t] \in 0..MaxCo
    BY DEF IInv, TypeOK, CoTypeOK
  <2>2. nco[t] \in Nat /\ i \in Nat
    BY <2>1, Constants
  <2> QED
    BY <1>1, <2>2 DEF IInv, TypeOK, CoTypeOK, Coroutines, ResumeNext
<1>3. PICK c \in Clients : job[t][i] = c /\ at[c] = [thr |-> t, co |-> i]
  <2>1. Pending(t, i) > 0
    BY <1>2 DEF Pending
  <2>2. job[t][i] \in Clients
    BY <1>2, <2>1, Constants DEF Owned, CoTypeOK
  <2> QED
    BY <1>2, <2>2 DEF Table
<1>4. /\ Calling(c) /\ pc[c] # "out" /\ Awaits(c) /\ Pending(t, i) = 1
      /\ ResumeIds(c, sock[c]) = NoIds /\ pc[c] = "waiting"
  <2>1. Calling(c) /\ pc[c] # "out" /\ Pending(t, i) > 0
    BY <1>2, <1>3, Constants DEF IInv, Calling, Caller, NoIds, Pending
  <2>2. Pending(at[c].thr, at[c].co) = Pending(t, i)
    BY <1>3
  <2>3. Awaits(c) /\ Pending(t, i) = 1 /\ ResumeIds(c, sock[c]) = NoIds
    BY <2>1, <2>2 DEF Calling, Ticket
  <2>4. ~Running(c)
    BY <1>2, <1>3, Constants DEF Running
  <2> QED
    BY <2>1, <2>3, <2>4 DEF Calling, Caller, Awaits
<1>5. status[t][i] = "suspend" /\ job[t][i] # Idle
  <2>1. status[t][i] \in {"none", "running", "suspend"} /\ job[t][i] # Idle
    BY <1>2, <1>3, Constants DEF CoTypeOK
  <2>2. status[t][i] # "running" /\ status[t][i] # "none"
    BY <1>2, <2>1, Constants DEF Table
  <2> QED
    BY <2>1, <2>2
<1>6. /\ tmp' = [tmp EXCEPT ![t][i] = tmp[t][i] - 1]
      /\ status' = [status EXCEPT ![t][i] = "running"] /\ cur' = [cur EXCEPT ![t] = i]
      /\ ub' = ub
      /\ UNCHANGED <<nco, job, free, queued>>
      /\ UNCHANGED <<pc, cnt, code, sock, packidx, at, gens, link, info, recv, wire,
                     calls, got, runs, broke, lost>>
  <2>1. ub' = (ub \/ (status[t][i] = "suspend" /\ job[t][i] = Idle))
    BY <1>1 DEF ResumeNext
  <2>2. ~ub' /\ ~ub
    BY <1>5, <2>1 DEF IInv
  <2>3. ub \in BOOLEAN /\ ub' \in BOOLEAN
    BY <1>2, <2>1 DEF CoTypeOK
  <2> QED
    BY <1>1, <1>5, <2>2, <2>3 DEF ResumeNext, client, conn, hist
<1>7. /\ status' \in [Threads -> [Ids -> {"none", "running", "suspend"}]]
      /\ \A u \in Threads, j \in Ids : status'[u][j] = IF u = t /\ j = i THEN "running" ELSE status[u][j]
  <2>1. status \in [Threads -> [Ids -> {"none", "running", "suspend"}]]
    BY <1>2 DEF CoTypeOK
  <2> QED
    BY <1>6, <2>1
<1>8. /\ tmp' \in [Threads -> [Ids -> Nat]]
      /\ \A u \in Threads, j \in Ids : tmp'[u][j] = IF u = t /\ j = i THEN tmp[t][i] - 1 ELSE tmp[u][j]
  <2>1. tmp[t][i] - 1 \in Nat /\ tmp \in [Threads -> [Ids -> Nat]]
    BY <1>2 DEF CoTypeOK
  <2> QED
    BY <1>6, <2>1
<1>9. /\ cur' \in [Threads -> Ids \cup {NoCo}] /\ cur'[t] = i
      /\ \A u \in Threads \ {t} : cur'[u] = cur[u]
  BY <1>2, <1>6 DEF CoTypeOK
<1>10. TypeOK'
  <2>1. CoTypeOK'
    BY <1>2, <1>6, <1>7, <1>8, <1>9 DEF CoTypeOK
  <2> QED
    BY <1>6, <2>1 DEF IInv, TypeOK
<1>11. /\ \A u \in Threads, j \in Ids : u # t \/ j # i => Pending(u, j)' = Pending(u, j)
       /\ Pending(t, i)' = 0
  <2>1. Pending(t, i)' = queued[t][i] + (tmp[t][i] - 1)
    BY <1>6, <1>8 DEF Pending
  <2>2. queued[t][i] + tmp[t][i] = 1
    BY <1>4 DEF Pending
  <2>3. Pending(t, i)' = 0
    BY <1>2, <2>1, <2>2
  <2> QED
    BY <1>6, <1>8, <2>3 DEF Pending
<1>12. ASSUME NEW u \in Threads, NEW j \in Ids PROVE Table(u, j)' /\ Owned(u, j)'
  <2>1. Table(u, j) /\ Owned(u, j)
    BY DEF IInv, Coroutines
  <2>2. CASE u = t /\ j = i
    <3>1. Table(u, j)'
      BY <1>2, <1>5, <1>6, <1>7, <1>9, <2>2 DEF Table
    <3> QED
      BY <1>5, <1>6, <2>2, <3>1 DEF Owned
  <2>3. CASE ~(u = t /\ j = i)
    <3>1. status'[u][j] = status[u][j] /\ (cur'[u] = j <=> cur[u] = j)
      BY <1>2, <1>7, <1>9, <2>3, Constants
    <3>2. Pending(u, j)' = Pending(u, j)
      BY <1>11, <2>3
    <3>3. Table(u, j)'
      BY <1>6, <2>1, <3>1 DEF Table
    <3> QED
      BY <1>6, <2>1, <3>2, <3>3 DEF Owned
  <2> QED
    BY <2>2, <2>3
<1>13. ASSUME NEW d \in Clients \ {c} PROVE Calling(d)'
  <2>1. Same(d)
    BY <1>6 DEF Same
  <2>2. at[d] # [thr |-> t, co |-> i]
    BY <1>3, <1>4, OwnPlace
  <2> QED
    BY <1>2, <1>9, <1>11, <2>1, <2>2, OthersKept
<1>14. Running(c)' /\ ~Awaits(c)' /\ Pending(at[c].thr, at[c].co)' = 0
  <2>1. at'[c].thr = t /\ at'[c].co = i /\ pc'[c] = "waiting"
    BY <1>3, <1>4, <1>6
  <2>2. Running(c)'
    BY <1>9, <2>1 DEF Running
  <2>3. Pending(at[c].thr, at[c].co)' = 0
    BY <1>11, <2>1 DEF Pending
  <2> QED
    BY <2>1, <2>2, <2>3 DEF Awaits
<1>15. Caller(c)' /\ Present(c)'
  BY <1>4, <1>6, <1>14 DEF Calling, Caller, Place, Present
<1>16. \A g \in Gens : Link(c, g)'
  BY <1>4, <1>6 DEF Calling, Link, ResumeIds
<1>17. Ticket(c)'
  <2>1. ResumeIds(c, sock[c])' = NoIds
    BY <1>4, <1>6 DEF ResumeIds
  <2> QED
    BY <1>14, <2>1 DEF Ticket
<1>18. ~ub' /\ Calling(c)'
  BY <1>6, <1>15, <1>16, <1>17 DEF IInv, Calling
<1> QED
  BY <1>10, <1>12, <1>13, <1>18 DEF IInv, Coroutines

-----------------------------------------------------------------------------
LEMMA InitIInv == Init => IInv
<1> SUFFICES ASSUME Init PROVE IInv
  OBVIOUS
<1> USE Constants
<1>1. CoTypeOK
  <2>1. 0 \in 0..MaxCo
    OBVIOUS
  <2>2. ub \in BOOLEAN
    BY DEF Init, CoInit
  <2> QED
    BY <2>1, <2>2 DEF Init, CoInit, CoTypeOK
<1>2. Fresh \in InfoType /\ NoIds \in Ids2 /\ NoMsg \in MsgType
  BY DEF Fresh, InfoType, Buffers, Nothing, NoIds, Ids2, NoMsg, MsgType
<1>3. TypeOK
  BY <1>1, <1>2 DEF Init, TypeOK, InfoType, MsgType, PCs, Attempts
<1>4. Coroutines
  <2>1. ASSUME NEW t \in Threads, NEW i \in Ids PROVE Table(t, i) /\ Owned(t, i)
    <3>1. /\ status[t][i] = "none" /\ cur[t] = NoCo /\ nco[t] = 0 /\ free[t] = {}
          /\ job[t][i] = Idle /\ Pending(t, i) = 0 /\ i \in Nat /\ i # NoCo
      BY DEF Init, CoInit, Pending
    <3>2. \A c \in Clients : at[c] # [thr |-> t, co |-> i]
      BY DEF Init, NoIds
    <3> QED
      BY <3>1, <3>2 DEF Table, Owned
  <2> QED
    BY <2>1 DEF Coroutines
<1>5. ASSUME NEW c \in Clients PROVE Calling(c)
  <2>1. /\ pc[c] = "out" /\ at[c] = NoIds /\ sock[c] = 0 /\ gens[c] = 0 /\ 0 <= Connects[c]
    BY DEF Init
  <2>2. ~Awaits(c)
    BY <2>1 DEF Awaits
  <2>3. ASSUME NEW g \in Gens PROVE Link(c, g)
    BY DEF Init, Link, Fresh, NoIds, ResumeIds
  <2> QED
    BY <2>1, <2>2, <2>3 DEF Calling, Caller, Present, Ticket
<1> QED
  BY <1>3, <1>4, <1>5 DEF IInv, Init, CoInit

LEMMA NextIInv == IInv /\ [Next]_vars => IInv'
<1> SUFFICES ASSUME IInv, [Next]_vars PROVE IInv'
  OBVIOUS
<1>1. ASSUME NEW c \in Clients, Sync(c) PROVE IInv'
  BY <1>1, TopStep, ConnectFailsStep, ConnectStep, SetValidStep, LockStep, SendStep,
     WaitStep, AnswerStep, ReturnStep DEF Sync
<1>2. ASSUME NEW c \in Clients, NEW g \in Gens, Callback(c, g) \/ Break(c, g) \/ Server(c, g)
      PROVE  IInv'
  BY <1>2, ReceiveDataStep, TakeReplyStep, DisconnectedStep, BreakStep, ServerStep DEF Callback
<1>3. CASE UNCHANGED vars
  <2>1. UNCHANGED <<covars, at>> /\ \A c \in Clients : Same(c)
    BY <1>3 DEF vars, client, conn, Same
  <2>2. TypeOK'
    BY <1>3, <2>1, CoTypeKept DEF vars, client, conn, hist, IInv, TypeOK
  <2> QED
    BY <2>1, <2>2, CoroutinesKept, SameCalling DEF IInv
<1> QED
  BY <1>1, <1>2, <1>3, BeginStep, TakeStep, ResumeStep DEF Next

LEMMA IInvAlways == Spec => []IInv
  BY InitIInv, NextIInv, PTL DEF Spec

\* The coroutines, the clients and their connectors keep their types.
THEOREM TypeCorrect == Spec => []TypeOK
<1>1. IInv => TypeOK
  BY DEF IInv
<1> QED
  BY <1>1, IInvAlways, PTL

\* A resume always finds the call it is for, for any number of threads,
\* coroutines and clients: the unlocked OnReceiveData, the late OnDisconnected
\* and the reuse of coroutines included.
THEOREM ResumesFindTheirCall == Spec => []ResumeOwned
<1>1. ASSUME IInv PROVE ResumeOwned
  <2>1. ASSUME NEW t \in Threads, NEW i \in Ids, Pending(t, i) > 0
        PROVE  /\ Pending(t, i) = 1
               /\ \E c \in Clients : at[c] = [thr |-> t, co |-> i] /\ Awaits(c)
    <3>1. job[t][i] \in Clients /\ at[job[t][i]] = [thr |-> t, co |-> i]
      BY <1>1, <2>1, Constants DEF IInv, Coroutines, Owned, Table, TypeOK, CoTypeOK
    <3>2. PICK c \in Clients : at[c] = [thr |-> t, co |-> i]
      BY <3>1
    <3>3. Calling(c) /\ pc[c] # "out" /\ Pending(at[c].thr, at[c].co) = Pending(t, i)
      BY <1>1, <3>2, Constants DEF IInv, Calling, Caller, NoIds
    <3>4. Awaits(c) /\ Pending(t, i) = 1
      BY <2>1, <3>3 DEF Calling, Ticket
    <3> QED
      BY <3>2, <3>4
  <2>2. ASSUME NEW c \in Clients, NEW g \in Gens, recv[c][g] # NoIds
        PROVE  /\ sock[c] = g /\ recv[c][g] = at[c] /\ Awaits(c) /\ pc[c] # "send"
               /\ Pending(at[c].thr, at[c].co) = 0
    <3>1. Calling(c) /\ sock[c] = g /\ recv[c][g] = at[c] /\ pc[c] # "send"
          /\ ResumeIds(c, sock[c]) = at[c] /\ at[c] # NoIds /\ sock[c] # 0
      BY <1>1, <2>2, Constants DEF IInv, Calling, Link
    <3> QED
      BY <3>1 DEF Calling, Ticket
  <2> QED
    BY <1>1, <2>1, <2>2 DEF ResumeOwned, IInv
<1> QED
  BY <1>1, IInvAlways, PTL
=============================================================================
