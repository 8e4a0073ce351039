------------------------- MODULE CoCallReplyProofs -------------------------
(***************************************************************************)
(* OwnReply, TwiceOnlyIfBroken and WakeUpDue, on top of CoCallProofs.      *)
(*                                                                         *)
(* What is on the connector of a call that waits is the call's own         *)
(* (Carried), so once the ticket is back the buffer holds its reply or was *)
(* cleared with the connection (Replied).  Requests of the present call    *)
(* that are still under way count against the attempts made (Sent), and a  *)
(* second one is sent only after the connection was lost (Unbroken).  As   *)
(* long as the ids of a call are with an open connector, a message is      *)
(* under way on it (Due), so its callbacks still have a resume to leave,   *)
(* unless Send refused the request or the server gave no reply.            *)
(***************************************************************************)
EXTENDS CoCallProofs, FiniteSetTheorems

Mine(c, m) == m.idx = packidx[c] /\ m.call = calls[c]

\* The reply of a call whose ticket is back.
Replied(c) ==
  /\ pc[c] = "send" /\ ResumeIds(c, sock[c]) # at[c] => info[c][sock[c]].buffer = Nothing
  /\ pc[c] \in {"yield", "waiting"} /\ ResumeIds(c, sock[c]) # at[c] =>
       \/ Mine(c, info[c][sock[c]].buffer)
       \/ info[c][sock[c]].buffer = Nothing /\ link[c][sock[c]] # "open"
  /\ pc[c] \in {"yield", "waiting"} => packidx[c] > 0
  /\ pc[c] = "return" => cnt[c] = Attempts \/ (got[c] = calls[c] /\ cnt[c] < Attempts)

Carried(c, g) ==
  /\ (link[c][g] = "open" /\ wire[c][g].kind # "none") \/ recv[c][g] # NoIds => Mine(c, wire[c][g])
  /\ recv[c][g] # NoIds => wire[c][g].kind = "reply"

\* Requests of the present call that the server may still execute.
Open(c) == {g \in Gens : wire[c][g].kind = "request" /\ wire[c][g].call = calls[c]}

\* The attempts that have sent something.
Tries(c) ==
  IF pc[c] = "out" THEN Attempts
  ELSE IF pc[c] \in {"yield", "waiting"} \/ (pc[c] = "return" /\ cnt[c] < Attempts)
       THEN cnt[c] + 1 ELSE cnt[c]
Sent(c) ==
  /\ runs[c] + Cardinality(Open(c)) <= Tries(c)
  /\ pc[c] = "out" => cnt[c] = 0
  /\ \A g \in Gens : wire[c][g].call <= calls[c]

\* While no connection broke, only one request was sent.
Unbroken(c) ==
  /\ runs[c] > 1 => broke[c]
  /\ pc[c] \in {"valid", "lock", "send", "yield", "waiting"} /\ ~broke[c] => link[c][sock[c]] = "open"
  /\ pc[c] \notin {"out", "yield", "waiting", "return"} /\ ~broke[c] => runs[c] = 0 /\ Open(c) = {}
  /\ ~broke[c] /\ Open(c) # {} => runs[c] = 0
  /\ ~broke[c] => \A g, h \in Open(c) : g = h

Accounted(c) ==
  Replied(c) /\ Sent(c) /\ Unbroken(c) /\ \A g \in Gens : Carried(c, g)
RInv == \A c \in Clients : Accounted(c)

-----------------------------------------------------------------------------
LEMMA Types ==
  ASSUME IInv, NEW c \in Clients
  PROVE  /\ cnt[c] \in 0..Attempts /\ cnt[c] \in Nat /\ Attempts \in Nat /\ runs[c] \in Nat
         /\ calls[c] \in Nat /\ packidx[c] \in Nat /\ sock[c] \in Gens \cup {0}
         /\ Tries(c) \in Nat /\ broke[c] \in BOOLEAN
         /\ \A g \in Gens : wire[c][g] \in MsgType /\ info[c][g] \in InfoType
<1>1. /\ cnt[c] \in 0..Attempts /\ cnt[c] \in Nat /\ Attempts \in Nat /\ runs[c] \in Nat
      /\ calls[c] \in Nat /\ packidx[c] \in Nat /\ sock[c] \in Gens \cup {0}
  BY DEF IInv, TypeOK, Attempts
<1>2. broke[c] \in BOOLEAN
  BY DEF IInv, TypeOK
<1>3. \A g \in Gens : wire[c][g] \in MsgType /\ info[c][g] \in InfoType
  BY DEF IInv, TypeOK, MsgType, InfoType
<1>4. Tries(c) \in Nat
  BY <1>1 DEF Tries
<1> QED
  BY <1>1, <1>2, <1>3, <1>4

\* The requests under way are finitely many.
LEMMA GensFinite == \A S \in SUBSET Gens : IsFiniteSet(S) /\ Cardinality(S) \in Nat
<1>1. IsFiniteSet(Gens)
  BY Constants, FS_Interval DEF Gens
<1> QED
  BY <1>1, FS_Subset, FS_CardinalityType

LEMMA OpenFinite ==
  ASSUME NEW c
  PROVE  /\ Open(c) \subseteq Gens /\ IsFiniteSet(Open(c)) /\ Cardinality(Open(c)) \in Nat
         /\ Open(c)' \subseteq Gens /\ IsFiniteSet(Open(c)') /\ Cardinality(Open(c)') \in Nat
<1>1. Open(c) \subseteq Gens /\ Open(c)' \subseteq Gens
  BY DEF Open
<1> QED
  BY <1>1, GensFinite

\* A message is on an open connector, or in the hands of OnReceiveData, only
\* while the call waits.
LEMMA CarriesNothing ==
  ASSUME IInv, NEW c \in Clients, pc[c] \notin {"yield", "waiting"}, NEW g \in Gens
  PROVE  Carried(c, g)
  BY DEF IInv, Calling, Link, Carried

\* What is accounted for depends on the client alone.
LEMMA SameAccounted ==
  ASSUME NEW c \in Clients, Accounted(c), Same(c),
         packidx'[c] = packidx[c], calls'[c] = calls[c], got'[c] = got[c],
         runs'[c] = runs[c], broke'[c] = broke[c]
  PROVE  Accounted(c)'
<1>1. Replied(c)'
  BY DEF Accounted, Replied, Same, Mine, ResumeIds
<1>2. \A g \in Gens : Carried(c, g)'
  BY DEF Accounted, Carried, Same, Mine
<1>3. Open(c)' = Open(c) /\ Tries(c)' = Tries(c)
  BY DEF Open, Tries, Same
<1>4. Sent(c)'
  BY <1>3 DEF Accounted, Sent, Same
<1>5. Unbroken(c)'
  BY <1>3 DEF Accounted, Unbroken, Same
<1> QED
  BY <1>1, <1>2, <1>4, <1>5 DEF Accounted

\* A step of the call that sends nothing and receives nothing.
LEMMA QuietAccounted ==
  ASSUME IInv, IInv', NEW c \in Clients, Accounted(c),
         wire'[c] = wire[c], calls'[c] = calls[c], runs'[c] = runs[c], broke'[c] = broke[c],
         Replied(c)', \A g \in Gens : Carried(c, g)',
         Tries(c) <= Tries(c)', pc'[c] = "out" => cnt'[c] = 0,
         pc'[c] \in {"valid", "lock", "send", "yield", "waiting"} /\ ~broke[c] =>
           link'[c][sock'[c]] = "open",
         pc'[c] \notin {"out", "yield", "waiting", "return"} /\ ~broke[c] =>
           runs[c] = 0 /\ Open(c) = {}
  PROVE  Accounted(c)'
<1>1. Open(c)' = Open(c)
  BY DEF Open
<1>2. Sent(c)'
  <2>1. Tries(c) \in Nat /\ Tries(c)' \in Nat /\ runs[c] \in Nat /\ Cardinality(Open(c)) \in Nat
    <3>1. Tries(c) \in Nat /\ runs[c] \in Nat
      BY Types
    <3>2. cnt'[c] \in 0..Attempts
      BY DEF IInv, TypeOK
    <3>3. Tries(c)' \in Nat
      BY <3>2 DEF Tries, Attempts
    <3> QED
      BY <3>1, <3>3, OpenFinite
  <2>2. runs[c] + Cardinality(Open(c)) <= Tries(c)'
    BY <2>1 DEF Accounted, Sent
  <2> QED
    BY <1>1, <2>2 DEF Accounted, Sent
<1>3. Unbroken(c)'
  BY <1>1 DEF Accounted, Unbroken
<1> QED
  BY <1>2, <1>3 DEF Accounted

\* The other clients of a step that is c's.
Others(c) ==
  \A d \in Clients \ {c} :
    /\ Same(d) /\ packidx'[d] = packidx[d] /\ calls'[d] = calls[d] /\ got'[d] = got[d]
    /\ runs'[d] = runs[d] /\ broke'[d] = broke[d]

LEMMA OwnStep ==
  ASSUME RInv, NEW c \in Clients, Others(c), Accounted(c)'
  PROVE  RInv'
  BY SameAccounted DEF RInv, Others

\* The types that make a step of c leave the others alone.
LEMMA Domains ==
  ASSUME IInv
  PROVE  /\ pc \in [Clients -> PCs] /\ cnt \in [Clients -> 0..Attempts]
         /\ code \in [Clients -> {0, -2, -3}] /\ sock \in [Clients -> Gens \cup {0}]
         /\ packidx \in [Clients -> Nat] /\ at \in [Clients -> Ids2]
         /\ gens \in [Clients -> 0..MaxGen]
         /\ link \in [Clients -> [Gens -> {"none", "open", "closing", "gone"}]]
         /\ info \in [Clients -> [Gens -> InfoType]] /\ recv \in [Clients -> [Gens -> Ids2]]
         /\ wire \in [Clients -> [Gens -> MsgType]] /\ calls \in [Clients -> Nat]
         /\ got \in [Clients -> Nat] /\ runs \in [Clients -> Nat]
  BY DEF IInv, TypeOK, InfoType, MsgType

LEMMA TopAccounted ==
  ASSUME IInv, IInv', RInv, NEW c \in Clients, Top(c)
  PROVE  RInv'
<1>1. /\ pc[c] = "top"
      /\ pc' = [pc EXCEPT ![c] = pc'[c]]
      /\ pc'[c] = IF cnt[c] >= Attempts THEN "return"
                  ELSE IF sock[c] # 0 /\ link[c][sock[c]] = "open" THEN "lock" ELSE "connect"
      /\ UNCHANGED <<cnt, code, sock, packidx, at, gens, link, info, recv, wire, calls, got, runs, broke>>
  <2>1. /\ pc[c] = "top"
        /\ pc' = [pc EXCEPT ![c] =
             IF cnt[c] >= Attempts THEN "return"
             ELSE IF sock[c] # 0 /\ link[c][sock[c]] = "open" THEN "lock" ELSE "connect"]
        /\ UNCHANGED <<cnt, code, sock, packidx, at, gens, link, info, recv, wire, calls, got, runs, broke>>
    BY DEF Top, conn, hist
  <2> QED
    BY <2>1, Domains
<1>2. Others(c)
  BY <1>1, Domains DEF Others, Same
<1>3. \A g \in Gens : Carried(c, g)'
  <2>1. pc'[c] \notin {"yield", "waiting"}
    BY <1>1
  <2> QED
    BY <2>1 DEF IInv, Calling, Link, Carried
<1>4. cnt[c] \in 0..Attempts /\ Attempts = 2
  BY Types, Constants
<1>5. Replied(c)'
  BY <1>1, <1>4 DEF Replied
<1>6. Tries(c) <= Tries(c)'
  BY <1>1, <1>4 DEF Tries
<1> QED
  BY <1>1, <1>2, <1>3, <1>5, <1>6, QuietAccounted, OwnStep DEF RInv, Accounted, Unbroken

\* An attempt fails: had something been sent, its connection is lost.
LEMMA GiveUpAccounted ==
  ASSUME IInv, IInv', RInv, NEW c \in Clients, NEW e, Fail(c, e),
         pc[c] \in {"connect", "lock", "waiting"},
         pc[c] = "waiting" => broke[c],
         sock' = [sock EXCEPT ![c] = 0],
         \A d \in Clients \ {c} : link'[d] = link[d],
         UNCHANGED <<packidx, at, gens, info, recv, wire, calls, got, runs, broke>>
  PROVE  RInv'
<1>1. /\ pc' = [pc EXCEPT ![c] = "top"] /\ cnt' = [cnt EXCEPT ![c] = cnt[c] + 1]
  BY DEF Fail
<1>2. Others(c) /\ pc'[c] = "top" /\ cnt'[c] = cnt[c] + 1
  BY <1>1, Domains DEF Others, Same
<1>3. \A g \in Gens : Carried(c, g)'
  BY <1>2 DEF IInv, Calling, Link, Carried
<1>4. Replied(c)'
  BY <1>2 DEF Replied
<1>5. Tries(c) <= Tries(c)'
  BY <1>2, Types DEF Tries
<1> QED
  BY <1>2, <1>3, <1>4, <1>5, QuietAccounted, OwnStep DEF RInv, Accounted, Unbroken

LEMMA ConnectFailsAccounted ==
  ASSUME IInv, IInv', RInv, NEW c \in Clients, ConnectFails(c)
  PROVE  RInv'
<1>1. /\ pc[c] = "connect" /\ Fail(c, -2) /\ sock' = [sock EXCEPT ![c] = 0]
      /\ UNCHANGED <<packidx, at, gens, link, info, recv, wire, calls, got, runs, broke>>
  BY DEF ConnectFails, conn, hist
<1> QED
  BY <1>1, GiveUpAccounted

LEMMA ConnectAccounted ==
  ASSUME IInv, IInv', RInv, NEW c \in Clients, Connect(c)
  PROVE  RInv'
<1>1. /\ pc[c] = "connect" /\ pc' = [pc EXCEPT ![c] = "valid"]
      /\ gens' = [gens EXCEPT ![c] = gens[c] + 1] /\ sock' = [sock EXCEPT ![c] = gens[c] + 1]
      /\ link' = [link EXCEPT ![c][gens[c] + 1] = "open"]
      /\ info' = [info EXCEPT ![c][gens[c] + 1] = Fresh]
      /\ UNCHANGED <<cnt, code, packidx, at, recv, wire, calls, got, runs, broke>>
  BY DEF Connect, hist
<1>2. Others(c) /\ pc'[c] = "valid" /\ sock'[c] = gens[c] + 1
  BY <1>1, Domains DEF Others, Same
<1>3. \A g \in Gens : Carried(c, g)'
  BY <1>2 DEF IInv, Calling, Link, Carried
<1>4. Replied(c)' /\ Tries(c)' = Tries(c)
  BY <1>1, <1>2 DEF Replied, Tries
<1>5. link'[c][gens[c] + 1] = "open"
  <2>1. gens[c] + 1 \in Gens
    <3>1. gens[c] \in 0..MaxGen /\ gens[c] < Connects[c] /\ Connects[c] \in 0..MaxGen
      BY Domains, Constants DEF Connect
    <3> QED
      BY <3>1, Constants DEF Gens
  <2> QED
    BY <1>1, <2>1, Domains
<1>6. Tries(c) <= Tries(c)'
  BY <1>4, Types
<1> QED
  BY <1>1, <1>2, <1>3, <1>4, <1>5, <1>6, QuietAccounted, OwnStep DEF RInv, Accounted, Unbroken

LEMMA SetValidAccounted ==
  ASSUME IInv, IInv', RInv, NEW c \in Clients, SetValid(c)
  PROVE  RInv'
<1>1. /\ pc[c] = "valid" /\ pc' = [pc EXCEPT ![c] = "lock"]
      /\ info' = [info EXCEPT ![c][sock[c]].valid = TRUE]
      /\ UNCHANGED <<cnt, code, sock, packidx, at, gens, link, recv, wire, calls, got, runs, broke>>
  BY DEF SetValid, hist
<1>2. Others(c) /\ pc'[c] = "lock"
  BY <1>1, Domains DEF Others, Same
<1>3. \A g \in Gens : Carried(c, g)'
  BY <1>2 DEF IInv, Calling, Link, Carried
<1>4. Replied(c)' /\ Tries(c)' = Tries(c)
  BY <1>1, <1>2 DEF Replied, Tries
<1>5. Tries(c) <= Tries(c)'
  BY <1>4, Types
<1> QED
  BY <1>1, <1>2, <1>3, <1>4, <1>5, QuietAccounted, OwnStep DEF RInv, Accounted, Unbroken

LEMMA LockAccounted ==
  ASSUME IInv, IInv', RInv, NEW c \in Clients, Lock(c)
  PROVE  RInv'
<1>0. pc[c] = "lock" /\ sock[c] \in Gens
  BY Types DEF Lock, IInv, Calling, Present
<1>1. CASE info[c][sock[c]].valid
  <2>1. /\ pc' = [pc EXCEPT ![c] = "send"]
        /\ info' = [info EXCEPT ![c][sock[c]].thr = at[c].thr, ![c][sock[c]].co = at[c].co]
        /\ UNCHANGED <<cnt, code, sock, packidx, at, gens, link, recv, wire, calls, got, runs, broke>>
    BY <1>1 DEF Lock, hist
  <2>2. Others(c) /\ pc'[c] = "send"
    BY <2>1, Domains DEF Others, Same
  <2>3. \A g \in Gens : Carried(c, g)'
    BY <2>2 DEF IInv, Calling, Link, Carried
  <2>4. Tries(c)' = Tries(c)
    BY <1>0, <2>1, <2>2 DEF Tries
  <2>5. ResumeIds(c, sock[c])' = at[c]
    <3>1. info[c][sock[c]] \in InfoType /\ at[c] \in Ids2
      BY <1>0, Domains
    <3>2. info'[c][sock[c]].thr = at[c].thr /\ info'[c][sock[c]].co = at[c].co
      BY <1>0, <2>1, <3>1, Domains DEF InfoType
    <3> QED
      BY <2>1, <3>1, <3>2 DEF ResumeIds, Ids2
  <2>6. Replied(c)'
    BY <2>1, <2>2, <2>5 DEF Replied
  <2>7. Tries(c) <= Tries(c)'
    BY <2>4, Types
  <2> QED
    BY <1>0, <2>1, <2>2, <2>3, <2>6, <2>7, QuietAccounted, OwnStep DEF RInv, Accounted, Unbroken
<1>2. CASE ~info[c][sock[c]].valid
  <2>1. Close(c) /\ Fail(c, -3)
        /\ UNCHANGED <<packidx, at, gens, info, recv, wire, calls, got, runs, broke>>
    BY <1>2 DEF Lock, hist
  <2>2. sock' = [sock EXCEPT ![c] = 0] /\ \A d \in Clients \ {c} : link'[d] = link[d]
    BY <2>1, Domains DEF Close
  <2> QED
    BY <1>0, <2>1, <2>2, GiveUpAccounted
<1> QED
  BY <1>1, <1>2

LEMMA SendAccounted ==
  ASSUME IInv, IInv', RInv, NEW c \in Clients, Send(c)
  PROVE  RInv'
<1> DEFINE s == sock[c]
           m == [kind |-> "request", idx |-> packidx[c] + 1, call |-> calls[c]]
<1>0. pc[c] = "send" /\ s \in Gens /\ Accounted(c) /\ Calling(c)
  BY Types DEF Send, IInv, Calling, Present, RInv
<1>1. /\ pc' = [pc EXCEPT ![c] = "yield"] /\ packidx' = [packidx EXCEPT ![c] = packidx[c] + 1]
      /\ wire' = [wire EXCEPT ![c][s] = m] \/ wire' = wire
      /\ UNCHANGED <<cnt, code, sock, at, gens, link, info, recv, calls, got, runs, broke>>
  BY DEF Send
<1>2. Others(c) /\ pc'[c] = "yield" /\ packidx'[c] = packidx[c] + 1
  BY <1>1, Domains DEF Others, Same
<1>3. /\ \A g \in Gens : g # s => wire'[c][g] = wire[c][g]
      /\ wire'[c][s] \in {m, wire[c][s]}
  BY <1>0, <1>1, Domains
<1>4. Replied(c)'
  <2>1. packidx'[c] > 0
    BY <1>2, Types
  <2>2. ResumeIds(c, sock[c])' = ResumeIds(c, sock[c])
    BY <1>1 DEF ResumeIds
  <2>3. ResumeIds(c, s) # at[c] => link[c][s] # "open"
    BY <1>0 DEF Calling, Link
  <2> QED
    BY <1>0, <1>1, <1>2, <2>1, <2>2, <2>3 DEF Replied, Accounted
<1>5. ASSUME NEW g \in Gens PROVE Carried(c, g)'
  <2>1. recv'[c][g] = NoIds /\ (link'[c][g] = "open" => g = s)
    BY <1>0, <1>1 DEF Calling, Link
  <2>2. link'[c][g] = "open" => wire'[c][g] = m \/ wire'[c][g].kind = "none"
    <3>1. link[c][g] = "open" => wire[c][g].kind = "none"
      BY <1>0 DEF Calling, Link
    <3> QED
      BY <1>1, <1>3, <2>1, <3>1
  <2>3. wire'[c][g] = m => Mine(c, wire[c][g])'
    BY <1>1, <1>2 DEF Mine
  <2> QED
    BY <2>1, <2>2, <2>3 DEF Carried
<1>6. Open(c)' \subseteq Open(c) \cup {s}
  BY <1>1, <1>3 DEF Open
<1>7. Sent(c)'
  <2>1. Cardinality(Open(c)') <= Cardinality(Open(c)) + 1
    <3>1. IsFiniteSet(Open(c) \cup {s}) /\ Cardinality(Open(c) \cup {s}) <= Cardinality(Open(c)) + 1
      BY OpenFinite, FS_AddElement
    <3>2. Cardinality(Open(c)') <= Cardinality(Open(c) \cup {s}) /\ Cardinality(Open(c) \cup {s}) \in Nat
      BY <1>6, <3>1, FS_Subset, FS_CardinalityType
    <3> QED
      BY <3>1, <3>2, OpenFinite
  <2>2. runs[c] + Cardinality(Open(c)) <= cnt[c] /\ Tries(c)' = cnt[c] + 1
    BY <1>0, <1>1, <1>2 DEF Accounted, Sent, Tries
  <2>3. runs'[c] + Cardinality(Open(c)') <= Tries(c)'
    BY <1>1, <2>1, <2>2, Types, OpenFinite
  <2>4. \A g \in Gens : wire'[c][g].call <= calls[c]
    BY <1>0, <1>3, Types DEF Accounted, Sent
  <2> QED
    BY <1>1, <1>2, <2>3, <2>4 DEF Sent
<1>8. Unbroken(c)'
  <2>1. ~broke[c] => runs[c] = 0 /\ Open(c) = {} /\ link[c][s] = "open"
    BY <1>0 DEF Accounted, Unbroken
  <2>2. runs[c] > 1 => broke[c]
    BY <1>0 DEF Accounted, Unbroken
  <2> QED
    BY <1>1, <1>2, <1>6, <2>1, <2>2 DEF Unbroken
<1> QED
  BY <1>2, <1>4, <1>5, <1>7, <1>8, OwnStep DEF Accounted

LEMMA WaitAccounted ==
  ASSUME IInv, IInv', RInv, NEW c \in Clients, Wait(c)
  PROVE  RInv'
<1>1. /\ pc[c] = "yield" /\ pc' = [pc EXCEPT ![c] = "waiting"]
      /\ UNCHANGED <<cnt, code, sock, packidx, at, gens, link, info, recv, wire, calls, got, runs, broke>>
  BY DEF Wait, conn, hist
<1>2. Others(c) /\ pc'[c] = "waiting" /\ Accounted(c)
  BY <1>1, Domains DEF Others, Same, RInv
<1>3. \A g \in Gens : Carried(c, g)'
  BY <1>1, <1>2 DEF Accounted, Carried, Mine
<1>4. Replied(c)'
  BY <1>1, <1>2 DEF Accounted, Replied, Mine, ResumeIds
<1>5. Tries(c)' = Tries(c)
  BY <1>1, <1>2 DEF Tries
<1>6. Tries(c) <= Tries(c)'
  BY <1>5, Types
<1> QED
  BY <1>1, <1>2, <1>3, <1>4, <1>6, QuietAccounted, OwnStep DEF Accounted, Unbroken

\* The reply that fits is the call's own; without one the connection is gone.
LEMMA AnswerAccounted ==
  ASSUME IInv, IInv', RInv, NEW c \in Clients, Answer(c)
  PROVE  RInv'
<1>0. /\ pc[c] = "waiting" /\ sock[c] \in Gens /\ Accounted(c) /\ Calling(c) /\ Running(c)
      /\ ResumeIds(c, sock[c]) # at[c] /\ packidx[c] > 0 /\ cnt[c] < Attempts
  <2>1. pc[c] = "waiting" /\ sock[c] \in Gens /\ sock[c] # 0 /\ Accounted(c) /\ Calling(c) /\ Running(c)
    BY Types, Constants DEF Answer, IInv, Calling, Present, RInv
  <2>2. ResumeIds(c, sock[c]) = NoIds /\ at[c] # NoIds
    BY <2>1, OwnPlace DEF Calling, Ticket, Awaits
  <2> QED
    BY <2>1, <2>2 DEF Accounted, Replied, Calling, Caller
<1>1. CASE CheckReply(c)
  <2>1. /\ pc' = [pc EXCEPT ![c] = "return"]
        /\ got' = [got EXCEPT ![c] = info[c][sock[c]].buffer.call]
        /\ \E rest \in LeftOver(c) : info' = [info EXCEPT ![c][sock[c]].buffer = rest]
        /\ UNCHANGED <<cnt, sock, packidx, at, gens, link, recv, wire, calls, runs, broke>>
    BY <1>1 DEF Answer
  <2>2. Others(c) /\ pc'[c] = "return" /\ got'[c] = info[c][sock[c]].buffer.call
    BY <2>1, Domains DEF Others, Same
  <2>3. info[c][sock[c]].buffer.call = calls[c]
    <3>1. info[c][sock[c]].buffer # Nothing
      BY <1>0, <1>1, Types DEF CheckReply, Nothing
    <3> QED
      BY <1>0, <3>1 DEF Accounted, Replied, Mine
  <2>4. Replied(c)'
    BY <1>0, <2>1, <2>2, <2>3 DEF Replied
  <2>5. \A g \in Gens : Carried(c, g)'
    BY <2>2 DEF IInv, Calling, Link, Carried
  <2>6. Tries(c)' = Tries(c)
    BY <1>0, <2>1, <2>2 DEF Tries
  <2>7. Tries(c) <= Tries(c)'
    BY <2>6, Types
  <2> QED
    BY <1>0, <2>1, <2>2, <2>4, <2>5, <2>7, QuietAccounted, OwnStep DEF Accounted, Unbroken
<1>2. CASE ~CheckReply(c)
  <2>1. Close(c) /\ Fail(c, -3)
        /\ UNCHANGED <<packidx, at, gens, info, recv, wire, calls, got, runs, broke>>
    BY <1>2 DEF Answer
  <2>2. sock' = [sock EXCEPT ![c] = 0] /\ \A d \in Clients \ {c} : link'[d] = link[d]
    BY <2>1, Domains DEF Close
  <2>3. broke[c]
    <3>1. link[c][sock[c]] # "open"
      BY <1>0, <1>2 DEF Accounted, Replied, Mine, CheckReply
    <3> QED
      BY <1>0, <3>1 DEF Accounted, Unbroken
  <2> QED
    BY <1>0, <2>1, <2>2, <2>3, GiveUpAccounted
<1> QED
  BY <1>1, <1>2

LEMMA ReturnAccounted ==
  ASSUME IInv, IInv', RInv, NEW c \in Clients, Return(c)
  PROVE  RInv'
<1>1. /\ pc[c] = "return" /\ pc' = [pc EXCEPT ![c] = "out"] /\ at' = [at EXCEPT ![c] = NoIds]
      /\ cnt' = [cnt EXCEPT ![c] = 0] /\ got' = [got EXCEPT ![c] = 0]
      /\ UNCHANGED <<sock, packidx, gens, link, info, recv, wire, calls, runs, broke>>
  BY DEF Return, conn
<1>2. Others(c) /\ pc'[c] = "out" /\ cnt'[c] = 0
  BY <1>1, Domains DEF Others, Same
<1>3. \A g \in Gens : Carried(c, g)'
  BY <1>2 DEF IInv, Calling, Link, Carried
<1>4. Replied(c)'
  BY <1>2 DEF Replied
<1>5. Tries(c) <= Tries(c)'
  <2>1. cnt[c] \in 0..Attempts /\ Attempts = 2
    BY Types, Constants
  <2> QED
    BY <1>1, <1>2, <2>1 DEF Tries
<1> QED
  BY <1>1, <1>2, <1>3, <1>4, <1>5, QuietAccounted, OwnStep DEF RInv

LEMMA BeginAccounted ==
  ASSUME IInv, IInv', RInv, NEW c \in Clients, NEW t \in Threads, NEW i \in Ids, Begin(c, t, i)
  PROVE  RInv'
<1>1. /\ pc[c] = "out" /\ pc' = [pc EXCEPT ![c] = "top"]
      /\ at' = [at EXCEPT ![c] = [thr |-> t, co |-> i]]
      /\ calls' = [calls EXCEPT ![c] = calls[c] + 1] /\ runs' = [runs EXCEPT ![c] = 0]
      /\ broke' = [broke EXCEPT ![c] = FALSE]
      /\ UNCHANGED <<cnt, code, sock, packidx, gens, link, info, recv, wire, got>>
  BY DEF Begin, conn
<1>2. Others(c) /\ pc'[c] = "top" /\ calls'[c] = calls[c] + 1 /\ runs'[c] = 0
  <2>1. \A d \in Clients \ {c} : broke'[d] = broke[d]
    <3>1. broke \in [Clients -> BOOLEAN]
      BY DEF IInv, TypeOK
    <3> QED
      BY <1>1, <3>1, Zenon
  <2> QED
    BY <1>1, <2>1, Domains DEF Others, Same
<1>3. \A g \in Gens : Carried(c, g)'
  BY <1>2 DEF IInv, Calling, Link, Carried
<1>4. Replied(c)'
  BY <1>2 DEF Replied
<1>5. cnt[c] = 0 /\ \A g \in Gens : wire[c][g].call <= calls[c] /\ wire[c][g].call \in Nat
  BY <1>1, Types DEF RInv, Accounted, Sent, MsgType
<1>6. Open(c)' = {} /\ Cardinality(Open(c)') = 0
  <2>1. \A g \in Gens : wire'[c][g].call # calls'[c]
    BY <1>1, <1>2, <1>5, Types
  <2>2. Open(c)' = {}
    BY <2>1 DEF Open
  <2> QED
    BY <2>2, FS_EmptySet
<1>7. Sent(c)'
  <2>1. Tries(c)' = 0
    BY <1>1, <1>2, <1>5 DEF Tries
  <2>2. \A g \in Gens : wire'[c][g].call <= calls'[c]
    BY <1>1, <1>2, <1>5, Types
  <2> QED
    BY <1>2, <1>6, <2>1, <2>2 DEF Sent
<1>8. Unbroken(c)'
  BY <1>2, <1>6 DEF Unbroken
<1> QED
  BY <1>2, <1>3, <1>4, <1>7, <1>8, OwnStep DEF Accounted

-----------------------------------------------------------------------------
(* The callbacks, and the other end                                        *)

LEMMA ReceiveDataAccounted ==
  ASSUME IInv, IInv', RInv, NEW c \in Clients, NEW g \in Gens, ReceiveData(c, g)
  PROVE  RInv'
<1>1. /\ link[c][g] = "open" /\ wire[c][g].kind = "reply" /\ Accounted(c)
      /\ recv' = [recv EXCEPT ![c][g] = ResumeIds(c, g)]
      /\ UNCHANGED <<pc, cnt, code, sock, packidx, at, gens, link, info, wire, calls, got, runs, broke>>
  BY DEF ReceiveData, client, hist, RInv
<1>2. Others(c) /\ \A h \in Gens : h # g => recv'[c][h] = recv[c][h]
  BY <1>1, Domains DEF Others, Same
<1>3. \A h \in Gens : Carried(c, h)'
  <2>1. Mine(c, wire[c][g])
    BY <1>1 DEF Accounted, Carried
  <2> QED
    BY <1>1, <1>2, <2>1 DEF Accounted, Carried, Mine
<1>4. Replied(c)' /\ Tries(c)' = Tries(c)
  BY <1>1 DEF Accounted, Replied, Mine, ResumeIds, Tries
<1>5. Tries(c) <= Tries(c)'
  BY <1>4, Types
<1> QED
  BY <1>1, <1>2, <1>3, <1>4, <1>5, QuietAccounted, OwnStep DEF Accounted, Sent, Unbroken

\* The reply that is taken is the call's own.
LEMMA TakeReplyAccounted ==
  ASSUME IInv, IInv', RInv, NEW c \in Clients, NEW g \in Gens, TakeReply(c, g)
  PROVE  RInv'
<1>0. /\ recv[c][g] # NoIds /\ Accounted(c) /\ Calling(c)
      /\ g = sock[c] /\ pc[c] \in {"yield", "waiting"} /\ Mine(c, wire[c][g])
  BY DEF TakeReply, RInv, IInv, Calling, Link, Accounted, Carried
<1>1. /\ info' = [info EXCEPT ![c][g] = ReplyTaken(c, g)]
      /\ wire' = [wire EXCEPT ![c][g] = NoMsg] /\ recv' = [recv EXCEPT ![c][g] = NoIds]
      /\ UNCHANGED <<pc, cnt, code, sock, packidx, at, gens, link, calls, got, runs, broke>>
  BY DEF TakeReply, client, hist
<1>2. Others(c)
  BY <1>1, Domains DEF Others, Same
<1>3. /\ info'[c][g].buffer.idx = wire[c][g].idx /\ info'[c][g].buffer.call = wire[c][g].call
  <2>1. info[c][g] \in InfoType
    BY Domains
  <2> QED
    BY <1>1, <2>1, Domains DEF ReplyTaken, InfoType
<1>4. /\ wire'[c][g] = NoMsg /\ recv'[c][g] = NoIds
      /\ \A h \in Gens : h # g => wire'[c][h] = wire[c][h] /\ recv'[c][h] = recv[c][h]
  BY <1>1, Domains
<1>5. Replied(c)'
  BY <1>0, <1>1, <1>3 DEF Replied, Accounted, Mine
<1>6. \A h \in Gens : Carried(c, h)'
  BY <1>0, <1>1, <1>4 DEF Accounted, Carried, Mine, NoMsg
<1>7. Open(c)' \subseteq Open(c)
  BY <1>1, <1>4 DEF Open, NoMsg
<1>8. Sent(c)'
  <2>1. Cardinality(Open(c)') <= Cardinality(Open(c))
    BY <1>7, OpenFinite, FS_Subset
  <2>2. Tries(c)' = Tries(c)
    BY <1>1 DEF Tries
  <2>3. runs'[c] + Cardinality(Open(c)') <= Tries(c)'
    BY <1>0, <1>1, <2>1, <2>2, Types, OpenFinite DEF Accounted, Sent
  <2>4. \A h \in Gens : wire'[c][h].call <= calls[c]
    BY <1>0, <1>4, Types DEF Accounted, Sent, NoMsg
  <2> QED
    BY <1>0, <1>1, <2>3, <2>4 DEF Accounted, Sent
<1>9. Unbroken(c)'
  BY <1>0, <1>1, <1>7 DEF Accounted, Unbroken
<1> QED
  BY <1>2, <1>5, <1>6, <1>8, <1>9, OwnStep DEF Accounted

\* What OnDisconnected leaves is an empty buffer on a connection that is gone.
LEMMA DisconnectedAccounted ==
  ASSUME IInv, IInv', RInv, NEW c \in Clients, NEW g \in Gens, Disconnected(c, g)
  PROVE  RInv'
<1>1. /\ link[c][g] = "closing" /\ recv[c][g] = NoIds /\ Accounted(c) /\ Calling(c)
      /\ link' = [link EXCEPT ![c][g] = "gone"] /\ info' = [info EXCEPT ![c][g] = Fresh]
      /\ UNCHANGED <<pc, cnt, code, sock, packidx, at, gens, recv, wire, calls, got, runs, broke>>
  BY DEF Disconnected, Reset, client, hist, RInv, IInv
<1>2. Others(c)
  BY <1>1, Domains DEF Others, Same
<1>3. /\ link'[c][g] = "gone" /\ info'[c][g].buffer = Nothing
      /\ \A h \in Gens : h # g => link'[c][h] = link[c][h] /\ info'[c][h] = info[c][h]
  BY <1>1, Domains DEF Fresh
<1>4. \A h \in Gens : Carried(c, h)'
  BY <1>1, <1>3 DEF Accounted, Carried, Mine
<1>5. Replied(c)'
  <2>1. pc[c] \in {"send", "yield", "waiting"} => sock[c] \in Gens
    BY <1>1, Types DEF Calling, Present
  <2>2. CASE sock[c] = g
    BY <1>1, <1>3, <2>2 DEF Accounted, Replied
  <2>3. CASE sock[c] # g
    BY <1>1, <1>3, <2>1, <2>3 DEF Accounted, Replied, Mine, ResumeIds
  <2> QED
    BY <2>2, <2>3
<1>6. pc[c] \in {"valid", "lock", "send", "yield", "waiting"} /\ ~broke[c] => link'[c][sock[c]] = "open"
  <2>1. pc[c] \in {"valid", "lock", "send", "yield", "waiting"} => sock[c] \in Gens
    BY <1>1, Types DEF Calling, Present
  <2> QED
    BY <1>1, <1>3, <2>1 DEF Accounted, Unbroken
<1>7. Tries(c)' = Tries(c)
  BY <1>1 DEF Tries
<1>8. Tries(c) <= Tries(c)'
  BY <1>7, Types
<1> QED
  BY <1>1, <1>2, <1>4, <1>5, <1>6, <1>8, QuietAccounted, OwnStep DEF Accounted, Sent, Unbroken

LEMMA BreakAccounted ==
  ASSUME IInv, IInv', RInv, NEW c \in Clients, NEW g \in Gens, Break(c, g)
  PROVE  RInv'
<1>1. /\ link[c][g] = "open" /\ Accounted(c)
      /\ link' = [link EXCEPT ![c][g] = "closing"] /\ broke' = [broke EXCEPT ![c] = TRUE]
      /\ UNCHANGED <<pc, cnt, code, sock, packidx, at, gens, info, recv, wire, calls, got, runs>>
  BY DEF Break, client, RInv
<1>2. broke'[c] /\ \A d \in Clients \ {c} : broke'[d] = broke[d]
  <2>1. broke \in [Clients -> BOOLEAN]
    BY DEF IInv, TypeOK
  <2> QED
    BY <1>1, <2>1, Zenon
<1>3. Others(c)
  BY <1>1, <1>2, Domains DEF Others, Same
<1>4. \A h \in Gens : link'[c][h] = "open" => link[c][h] = "open"
  BY <1>1, Domains
<1>5. \A h \in Gens : Carried(c, h)'
  BY <1>1, <1>4 DEF Accounted, Carried, Mine
<1>6. Replied(c)'
  <2>1. pc[c] \in {"yield", "waiting"} => sock[c] \in Gens
    BY Types DEF IInv, Calling, Present
  <2> QED
    BY <1>1, <1>4, <2>1 DEF Accounted, Replied, Mine, ResumeIds
<1>7. Open(c)' = Open(c) /\ Tries(c)' = Tries(c)
  BY <1>1 DEF Open, Tries
<1>8. Sent(c)'
  BY <1>1, <1>7 DEF Accounted, Sent
<1>9. Unbroken(c)'
  BY <1>2 DEF Unbroken
<1> QED
  BY <1>3, <1>5, <1>6, <1>8, <1>9, OwnStep DEF Accounted

\* The server executes one of the requests that were still to come, or lets
\* it go.
LEMMA ServerAccounted ==
  ASSUME IInv, IInv', RInv, NEW c \in Clients, NEW g \in Gens, Server(c, g)
  PROVE  RInv'
<1>1. /\ wire[c][g].kind = "request" /\ Accounted(c)
      /\ \/ wire' = [wire EXCEPT ![c][g].kind = "reply"]
         \/ wire' = [wire EXCEPT ![c][g] = NoMsg]
      /\ \/ runs' = [runs EXCEPT ![c] = IF wire[c][g].call = calls[c] THEN runs[c] + 1 ELSE runs[c]]
         \/ runs' = runs
      /\ UNCHANGED <<pc, cnt, code, sock, packidx, at, gens, link, info, recv, calls, got, broke>>
  BY DEF Server, Serve, Ignore, Drop, client, RInv
<1>2. Others(c)
  BY <1>1, Domains DEF Others, Same
<1>3. /\ wire'[c][g].kind # "request"
      /\ \/ /\ wire'[c][g].idx = wire[c][g].idx /\ wire'[c][g].call = wire[c][g].call
         \/ wire'[c][g] = NoMsg
      /\ \A h \in Gens : h # g => wire'[c][h] = wire[c][h]
  <2>1. wire[c][g] \in MsgType
    BY Domains
  <2> QED
    BY <1>1, <2>1, Domains DEF MsgType, NoMsg
<1>4. /\ wire[c][g].call = calls[c] => runs'[c] \in {runs[c], runs[c] + 1}
      /\ wire[c][g].call # calls[c] => runs'[c] = runs[c]
  BY <1>1, Domains
<1>5. Replied(c)'
  BY <1>1 DEF Accounted, Replied, Mine, ResumeIds
<1>6. ASSUME NEW h \in Gens PROVE Carried(c, h)'
  <2>1. CASE h = g
    <3>1. recv[c][g] = NoIds /\ (link[c][g] = "open" => Mine(c, wire[c][g]))
      BY <1>1 DEF Accounted, Carried
    <3> QED
      BY <1>1, <1>3, <2>1, <3>1 DEF Carried, Mine, NoMsg
  <2>2. CASE h # g
    BY <1>1, <1>3, <2>2 DEF Accounted, Carried, Mine
  <2> QED
    BY <2>1, <2>2
<1>7. Open(c)' = Open(c) \ {g} /\ (g \in Open(c) <=> wire[c][g].call = calls[c])
  BY <1>1, <1>3 DEF Open
<1>8. runs'[c] + Cardinality(Open(c)') <= runs[c] + Cardinality(Open(c))
  <2>1. CASE g \in Open(c)
    <3>1. Cardinality(Open(c)') = Cardinality(Open(c)) - 1
      BY <1>7, <2>1, OpenFinite, FS_RemoveElement
    <3> QED
      BY <1>4, <1>7, <2>1, <3>1, Types, OpenFinite
  <2>2. CASE g \notin Open(c)
    <3>1. Cardinality(Open(c)') = Cardinality(Open(c)) /\ runs'[c] = runs[c]
      BY <1>4, <1>7, <2>2
    <3> QED
      BY <3>1, Types, OpenFinite
  <2> QED
    BY <2>1, <2>2
<1>9. Sent(c)'
  <2>1. Tries(c)' = Tries(c)
    BY <1>1 DEF Tries
  <2>2. \A h \in Gens : wire'[c][h].call <= calls'[c]
    BY <1>1, <1>3, Types DEF Accounted, Sent, NoMsg
  <2>3. runs'[c] + Cardinality(Open(c)') <= Tries(c)
    <3>1. runs'[c] \in Nat
      BY <1>4, Types
    <3> QED
      BY <1>1, <1>8, <3>1, Types, OpenFinite DEF Accounted, Sent
  <2> QED
    BY <1>1, <2>1, <2>2, <2>3 DEF Accounted, Sent
<1>10. Unbroken(c)'
  <2>1. CASE g \in Open(c)
    <3>1. ~broke[c] => runs'[c] \in {0, 1} /\ Open(c)' = {}
                       /\ pc[c] \in {"out", "yield", "waiting", "return"}
      BY <1>1, <1>4, <1>7, <2>1 DEF Accounted, Unbroken
    <3> QED
      BY <1>1, <3>1 DEF Accounted, Unbroken
  <2>2. CASE g \notin Open(c)
    <3>1. Open(c)' = Open(c) /\ runs'[c] = runs[c]
      BY <1>4, <1>7, <2>2
    <3> QED
      BY <1>1, <3>1 DEF Accounted, Unbroken
  <2> QED
    BY <2>1, <2>2
<1> QED
  BY <1>2, <1>5, <1>6, <1>9, <1>10, OwnStep DEF Accounted

-----------------------------------------------------------------------------
LEMMA InitRInv == Init => RInv
<1> SUFFICES ASSUME Init, NEW c \in Clients PROVE Accounted(c)
  BY DEF RInv
<1>1. /\ pc[c] = "out" /\ cnt[c] = 0 /\ runs[c] = 0 /\ calls[c] = 0
      /\ \A g \in Gens : link[c][g] = "none" /\ recv[c][g] = NoIds /\ wire[c][g] = NoMsg
  BY DEF Init
<1>2. Open(c) = {} /\ Cardinality(Open(c)) = 0
  <2>1. Open(c) = {}
    BY <1>1 DEF Open, NoMsg
  <2> QED
    BY <2>1, FS_EmptySet
<1>3. Replied(c) /\ \A g \in Gens : Carried(c, g)
  BY <1>1 DEF Replied, Carried
<1>4. Sent(c)
  BY <1>1, <1>2 DEF Sent, Tries, Attempts, NoMsg
<1>5. Unbroken(c)
  BY <1>1, <1>2 DEF Unbroken
<1> QED
  BY <1>3, <1>4, <1>5 DEF Accounted

LEMMA NextRInv == IInv /\ IInv' /\ RInv /\ [Next]_vars => RInv'
<1> SUFFICES ASSUME IInv, IInv', RInv, [Next]_vars PROVE RInv'
  OBVIOUS
<1>1. ASSUME NEW c \in Clients, Sync(c) PROVE RInv'
  BY <1>1, TopAccounted, ConnectFailsAccounted, ConnectAccounted, SetValidAccounted,
     LockAccounted, SendAccounted, WaitAccounted, AnswerAccounted, ReturnAccounted DEF Sync
<1>2. ASSUME NEW c \in Clients, NEW g \in Gens, Callback(c, g) \/ Break(c, g) \/ Server(c, g)
      PROVE  RInv'
  BY <1>2, ReceiveDataAccounted, TakeReplyAccounted, DisconnectedAccounted, BreakAccounted,
     ServerAccounted DEF Callback
<1>3. ASSUME UNCHANGED <<client, conn, hist>> PROVE RInv'
  <2>1. \A c \in Clients : /\ Same(c) /\ packidx'[c] = packidx[c] /\ calls'[c] = calls[c]
                          /\ got'[c] = got[c] /\ runs'[c] = runs[c] /\ broke'[c] = broke[c]
    BY <1>3 DEF client, conn, hist, Same
  <2> QED
    BY <2>1, SameAccounted DEF RInv
<1>4. ASSUME NEW t \in Threads, Take(t) \/ Resume(t) PROVE RInv'
  BY <1>3, <1>4 DEF Take, Resume
<1>5. CASE UNCHANGED vars
  BY <1>3, <1>5 DEF vars
<1> QED
  BY <1>1, <1>2, <1>4, <1>5, BeginAccounted DEF Next

LEMMA RInvAlways == Spec => [](IInv /\ RInv)
<1>1. Init => IInv /\ RInv
  BY InitIInv, InitRInv
<1>2. IInv /\ RInv /\ [Next]_vars => IInv' /\ RInv'
  BY NextIInv, NextRInv
<1> QED
  BY <1>1, <1>2, PTL DEF Spec

\* A call that succeeds returns the reply to its own request, for any number
\* of clients, connectors and calls: whatever an earlier call left in the
\* connector's buffer, and however late the callbacks of _CoScInfo_ come.
THEOREM RepliesAreOwn == Spec => []OwnReply
<1>1. IInv /\ RInv => OwnReply
  BY Constants DEF RInv, Accounted, Replied, OwnReply
<1> QED
  BY <1>1, RInvAlways, PTL

\* The server executes a call at most twice, and twice only when a connection
\* was lost between the first Send of _Sync and the second.
THEOREM TwiceOnlyAfterBreak == Spec => []TwiceOnlyIfBroken
<1>1. ASSUME IInv, RInv, NEW c \in Clients PROVE runs[c] <= Attempts /\ (runs[c] > 1 => broke[c])
  <2>1. Tries(c) <= Attempts
    <3>1. pc[c] \in {"yield", "waiting"} => cnt[c] < Attempts
      BY <1>1 DEF IInv, Calling, Caller
    <3> QED
      BY <1>1, <3>1, Types DEF Tries
  <2>2. runs[c] + Cardinality(Open(c)) <= Tries(c)
    BY <1>1 DEF RInv, Accounted, Sent
  <2>3. runs[c] <= Attempts
    BY <1>1, <2>1, <2>2, Types, OpenFinite
  <2> QED
    BY <1>1, <2>3 DEF RInv, Accounted, Unbroken
<1>2. IInv /\ RInv => TwiceOnlyIfBroken
  BY <1>1 DEF TwiceOnlyIfBroken
<1> QED
  BY <1>2, RInvAlways, PTL

-----------------------------------------------------------------------------
(* No wake-up is lost                                                      *)

\* The present connector was connected, and while it is open a call that has
\* sent its request and is still registered has a message under way on it,
\* unless the request was refused or goes without a reply.
Due(c) ==
  /\ sock[c] # 0 => link[c][sock[c]] # "none"
  /\ /\ pc[c] \in {"yield", "waiting"} /\ link[c][sock[c]] = "open"
     /\ ResumeIds(c, sock[c]) = at[c]
     => wire[c][sock[c]].kind # "none" \/ lost[c]
DInv == \A c \in Clients : Due(c)

\* What it depends on.
Alike(c) == Same(c) /\ lost'[c] = lost[c]

LEMMA SameDue == ASSUME NEW c, Due(c), Alike(c) PROVE Due(c)'
  BY DEF Due, Alike, Same, ResumeIds

LEMMA OwnDue ==
  ASSUME DInv, NEW c \in Clients, \A d \in Clients \ {c} : Alike(d), Due(c)'
  PROVE  DInv'
  BY SameDue DEF DInv

\* A step of c says nothing of another's request.
LEMMA LostElsewhere ==
  ASSUME IInv, NEW c \in Clients,
         Sync(c) \/ (\E t, i : Begin(c, t, i))
           \/ (\E g \in Gens : Callback(c, g) \/ Break(c, g) \/ Server(c, g))
  PROVE  \A d \in Clients \ {c} : lost'[d] = lost[d]
<1>1. lost \in [Clients -> BOOLEAN]
  BY DEF IInv, TypeOK
<1>2. lost' = lost \/ \E b : lost' = [lost EXCEPT ![c] = b]
  BY DEF Sync, Top, ConnectFails, Connect, SetValid, Lock, Send, Wait, Answer, Return, Begin,
         Callback, ReceiveData, TakeReply, Disconnected, Break, Server, Serve, Ignore, Drop, hist
<1> QED
  BY <1>1, <1>2, Zenon

\* A step that ends with no call waiting for the connector.
LEMMA QuietDue ==
  ASSUME NEW c \in Clients, pc'[c] \notin {"yield", "waiting"},
         sock'[c] # 0 => link'[c][sock'[c]] # "none"
  PROVE  Due(c)'
  BY DEF Due

\* _Sync: Send is the one that gives Due something to hold for.
LEMMA SyncDue ==
  ASSUME IInv, DInv, NEW c \in Clients, Sync(c)
  PROVE  DInv'
<1>lost. \A d \in Clients \ {c} : lost'[d] = lost[d]
  BY LostElsewhere
<1>0. Due(c) /\ sock[c] \in Gens \cup {0} /\ 0 \notin Gens
  BY Types, Constants DEF DInv
<1>1. CASE Top(c)
  <2>1. /\ pc' = [pc EXCEPT ![c] = pc'[c]] /\ pc'[c] \in {"return", "lock", "connect"}
        /\ UNCHANGED <<cnt, sock, at, gens, link, info, recv, wire>>
    BY <1>1, Domains DEF Top, conn
  <2>2. \A d \in Clients \ {c} : Alike(d)
    BY <2>1, Domains, <1>lost DEF Alike, Same
  <2>3. Due(c)'
    BY <1>0, <2>1 DEF Due
  <2> QED
    BY <2>2, <2>3, OwnDue
<1>2. ASSUME NEW e, Fail(c, e), sock' = [sock EXCEPT ![c] = 0],
             \A d \in Clients \ {c} : link'[d] = link[d],
             UNCHANGED <<at, gens, info, recv, wire>>
      PROVE  DInv'
  <2>1. pc' = [pc EXCEPT ![c] = "top"] /\ cnt' = [cnt EXCEPT ![c] = cnt[c] + 1]
    BY <1>2 DEF Fail
  <2>2. /\ pc'[c] = "top" /\ sock'[c] = 0
        /\ \A d \in Clients \ {c} : Alike(d)
    BY <1>2, <2>1, Domains, <1>lost DEF Alike, Same
  <2>3. Due(c)'
    BY <2>2, QuietDue
  <2> QED
    BY <2>2, <2>3, OwnDue
<1>3. CASE ConnectFails(c)
  BY <1>2, <1>3 DEF ConnectFails, conn
<1>4. CASE Connect(c)
  <2>1. /\ pc' = [pc EXCEPT ![c] = "valid"]
        /\ gens' = [gens EXCEPT ![c] = gens[c] + 1] /\ sock' = [sock EXCEPT ![c] = gens[c] + 1]
        /\ link' = [link EXCEPT ![c][gens[c] + 1] = "open"]
        /\ info' = [info EXCEPT ![c][gens[c] + 1] = Fresh]
        /\ UNCHANGED <<cnt, at, recv, wire>>
    BY <1>4 DEF Connect
  <2>2. /\ pc'[c] = "valid" /\ sock'[c] = gens[c] + 1
        /\ \A d \in Clients \ {c} : Alike(d)
    BY <2>1, Domains, <1>lost DEF Alike, Same
  <2>3. gens[c] + 1 \in Gens
    <3>1. gens[c] \in 0..MaxGen /\ gens[c] < Connects[c] /\ Connects[c] \in 0..MaxGen
      BY <1>4, Domains, Constants DEF Connect
    <3> QED
      BY <3>1, Constants DEF Gens
  <2>4. link'[c][gens[c] + 1] = "open"
    BY <2>1, <2>3, Domains
  <2>5. Due(c)'
    BY <2>2, <2>4, QuietDue
  <2> QED
    BY <2>2, <2>5, OwnDue
<1>5. CASE SetValid(c)
  <2>1. /\ pc' = [pc EXCEPT ![c] = "lock"]
        /\ info' = [info EXCEPT ![c][sock[c]].valid = TRUE]
        /\ UNCHANGED <<cnt, sock, at, gens, link, recv, wire>>
    BY <1>5 DEF SetValid
  <2>2. pc'[c] = "lock" /\ \A d \in Clients \ {c} : Alike(d)
    BY <2>1, Domains, <1>lost DEF Alike, Same
  <2>3. Due(c)'
    BY <1>0, <2>1, <2>2, QuietDue DEF Due
  <2> QED
    BY <2>2, <2>3, OwnDue
<1>6. CASE Lock(c)
  <2>0. sock[c] # 0
    BY <1>6 DEF Lock, IInv, Calling, Present
  <2>1. CASE info[c][sock[c]].valid
    <3>1. /\ pc' = [pc EXCEPT ![c] = "send"]
          /\ info' = [info EXCEPT ![c][sock[c]].thr = at[c].thr, ![c][sock[c]].co = at[c].co]
          /\ UNCHANGED <<cnt, sock, at, gens, link, recv, wire>>
      BY <1>6, <2>1 DEF Lock
    <3>2. pc'[c] = "send" /\ \A d \in Clients \ {c} : Alike(d)
      BY <3>1, Domains, <1>lost DEF Alike, Same
    <3>3. Due(c)'
      BY <1>0, <3>1, <3>2, QuietDue DEF Due
    <3> QED
      BY <3>2, <3>3, OwnDue
  <2>2. CASE ~info[c][sock[c]].valid
    <3>1. Close(c) /\ Fail(c, -3) /\ UNCHANGED <<at, gens, info, recv, wire>>
      BY <1>6, <2>2 DEF Lock
    <3> QED
      BY <1>2, <2>0, <3>1, CloseLink
  <2> QED
    BY <2>1, <2>2
<1>7. CASE Send(c)
  <2>1. /\ pc' = [pc EXCEPT ![c] = "yield"]
        /\ \/ wire' = [wire EXCEPT ![c][sock[c]] =
                       [kind |-> "request", idx |-> packidx[c] + 1, call |-> calls[c]]]
           \/ wire' = wire /\ lost' = [lost EXCEPT ![c] = TRUE]
        /\ UNCHANGED <<cnt, sock, at, gens, link, info, recv>>
    BY <1>7 DEF Send
  <2>2. \A d \in Clients \ {c} : Alike(d)
    BY <2>1, Domains, <1>lost DEF Alike, Same
  <2>3. sock[c] \in Gens
    BY <1>0, <1>7 DEF Send, IInv, Calling, Present
  <2>4. wire'[c][sock[c]].kind = "request" \/ lost'[c]
    <3>1. lost \in [Clients -> BOOLEAN]
      BY DEF IInv, TypeOK
    <3>2. CASE wire' = wire /\ lost' = [lost EXCEPT ![c] = TRUE]
      BY <3>1, <3>2, Zenon
    <3> QED
      BY <2>1, <2>3, <3>2, Domains
  <2>5. Due(c)'
    BY <1>0, <2>1, <2>4 DEF Due
  <2> QED
    BY <2>2, <2>5, OwnDue
<1>8. CASE Wait(c)
  <2>1. /\ pc[c] = "yield" /\ pc' = [pc EXCEPT ![c] = "waiting"]
        /\ UNCHANGED <<cnt, sock, at, gens, link, info, recv, wire, lost>>
    BY <1>8 DEF Wait, conn, hist
  <2>2. \A d \in Clients \ {c} : Alike(d)
    BY <2>1, Domains, <1>lost DEF Alike, Same
  <2>3. Due(c)'
    BY <1>0, <2>1 DEF Due, ResumeIds
  <2> QED
    BY <2>2, <2>3, OwnDue
<1>9. CASE Answer(c)
  <2>0. sock[c] # 0
    BY <1>9 DEF Answer, IInv, Calling, Present
  <2>1. CASE CheckReply(c)
    <3>1. /\ pc' = [pc EXCEPT ![c] = "return"]
          /\ \E rest \in LeftOver(c) : info' = [info EXCEPT ![c][sock[c]].buffer = rest]
          /\ UNCHANGED <<cnt, sock, at, gens, link, recv, wire>>
      BY <1>9, <2>1 DEF Answer
    <3>2. pc'[c] = "return" /\ \A d \in Clients \ {c} : Alike(d)
      BY <3>1, Domains, <1>lost DEF Alike, Same
    <3>3. Due(c)'
      BY <1>0, <3>1, <3>2, QuietDue DEF Due
    <3> QED
      BY <3>2, <3>3, OwnDue
  <2>2. CASE ~CheckReply(c)
    <3>1. Close(c) /\ Fail(c, -3) /\ UNCHANGED <<at, gens, info, recv, wire>>
      BY <1>9, <2>2 DEF Answer
    <3> QED
      BY <1>2, <2>0, <3>1, CloseLink
  <2> QED
    BY <2>1, <2>2
<1>10. CASE Return(c)
  <2>1. /\ pc' = [pc EXCEPT ![c] = "out"] /\ at' = [at EXCEPT ![c] = NoIds]
        /\ cnt' = [cnt EXCEPT ![c] = 0]
        /\ UNCHANGED <<sock, gens, link, info, recv, wire>>
    BY <1>10 DEF Return, conn
  <2>2. pc'[c] = "out" /\ \A d \in Clients \ {c} : Alike(d)
    BY <2>1, Domains, <1>lost DEF Alike, Same
  <2>3. Due(c)'
    BY <1>0, <2>1, <2>2, QuietDue DEF Due
  <2> QED
    BY <2>2, <2>3, OwnDue
<1> QED
  BY <1>1, <1>3, <1>4, <1>5, <1>6, <1>7, <1>8, <1>9, <1>10 DEF Sync

LEMMA BeginDue ==
  ASSUME IInv, DInv, NEW c \in Clients, NEW t, NEW i, Begin(c, t, i)
  PROVE  DInv'
<1>lost. \A d \in Clients \ {c} : lost'[d] = lost[d]
  BY LostElsewhere
<1>1. /\ pc' = [pc EXCEPT ![c] = "top"] /\ at' = [at EXCEPT ![c] = [thr |-> t, co |-> i]]
      /\ UNCHANGED <<cnt, sock, gens, link, info, recv, wire>>
  BY DEF Begin, conn
<1>2. pc'[c] = "top" /\ \A d \in Clients \ {c} : Alike(d)
  BY <1>1, Domains, <1>lost DEF Alike, Same
<1>3. Due(c)'
  BY <1>1, <1>2, QuietDue DEF Due, DInv
<1> QED
  BY <1>2, <1>3, OwnDue

\* The io thread and the server: a message is taken together with the ids, and
\* a connection that closes owes its OnDisconnected.
LEMMA CallbackDue ==
  ASSUME IInv, DInv, NEW c \in Clients, NEW g \in Gens,
         Callback(c, g) \/ Break(c, g) \/ Server(c, g)
  PROVE  DInv'
<1>lost. \A d \in Clients \ {c} : lost'[d] = lost[d]
  BY LostElsewhere
<1>0. Due(c) /\ Calling(c) /\ sock[c] \in Gens \cup {0} /\ 0 \notin Gens
  BY Types, Constants DEF DInv, IInv
<1>sock. pc[c] \in {"yield", "waiting"} => sock[c] \in Gens
  BY <1>0 DEF Calling, Present
<1>1. CASE ReceiveData(c, g)
  <2>1. /\ recv' = [recv EXCEPT ![c][g] = ResumeIds(c, g)]
        /\ UNCHANGED <<pc, cnt, sock, at, gens, link, info, wire, lost>>
    BY <1>1 DEF ReceiveData, client, hist
  <2>2. \A d \in Clients \ {c} : Alike(d)
    BY <2>1, Domains, <1>lost DEF Alike, Same
  <2>3. Due(c)'
    BY <1>0, <2>1 DEF Due, ResumeIds
  <2> QED
    BY <2>2, <2>3, OwnDue
<1>2. CASE TakeReply(c, g)
  <2>1. /\ info' = [info EXCEPT ![c][g] = ReplyTaken(c, g)]
        /\ wire' = [wire EXCEPT ![c][g] = NoMsg] /\ recv' = [recv EXCEPT ![c][g] = NoIds]
        /\ UNCHANGED <<pc, cnt, sock, at, gens, link>>
    BY <1>2 DEF TakeReply, client
  <2>2. \A d \in Clients \ {c} : Alike(d)
    BY <2>1, Domains, <1>lost DEF Alike, Same
  <2>3. g = sock[c] /\ at[c].thr # NoThr
    BY <1>0, <1>2, Constants DEF TakeReply, Calling, Link, Caller, Place
  <2>4. info'[c][g].thr = NoThr
    BY <2>1, Domains DEF ReplyTaken, InfoType
  <2>5. ResumeIds(c, sock[c])' # at'[c]
    BY <2>1, <2>3, <2>4 DEF ResumeIds
  <2>6. Due(c)'
    BY <1>0, <2>1, <2>5 DEF Due
  <2> QED
    BY <2>2, <2>6, OwnDue
<1>3. CASE Disconnected(c, g)
  <2>1. /\ link' = [link EXCEPT ![c][g] = "gone"] /\ info' = [info EXCEPT ![c][g] = Fresh]
        /\ UNCHANGED <<pc, cnt, sock, at, gens, recv, wire, lost>>
    BY <1>3 DEF Disconnected, Reset, client, hist
  <2>2. \A d \in Clients \ {c} : Alike(d)
    BY <2>1, Domains, <1>lost DEF Alike, Same
  <2>3. /\ link'[c][g] = "gone"
        /\ \A h \in Gens \ {g} : link'[c][h] = link[c][h] /\ info'[c][h] = info[c][h]
    BY <2>1, Domains
  <2>4. Due(c)'
    <3>1. CASE sock[c] = g
      BY <2>1, <2>3, <3>1 DEF Due
    <3>2. CASE sock[c] # g
      BY <1>0, <1>sock, <2>1, <2>3, <3>2 DEF Due, ResumeIds
    <3> QED
      BY <3>1, <3>2
  <2> QED
    BY <2>2, <2>4, OwnDue
<1>4. CASE Break(c, g)
  <2>1. /\ link' = [link EXCEPT ![c][g] = "closing"]
        /\ UNCHANGED <<pc, cnt, sock, at, gens, info, recv, wire, lost>>
    BY <1>4 DEF Break, client
  <2>2. \A d \in Clients \ {c} : Alike(d)
    BY <2>1, Domains, <1>lost DEF Alike, Same
  <2>3. link'[c][g] = "closing" /\ \A h \in Gens \ {g} : link'[c][h] = link[c][h]
    BY <2>1, Domains
  <2>4. Due(c)'
    <3>1. CASE sock[c] = g
      BY <2>1, <2>3, <3>1 DEF Due
    <3>2. CASE sock[c] # g
      BY <1>0, <1>sock, <2>1, <2>3, <3>2 DEF Due, ResumeIds
    <3> QED
      BY <3>1, <3>2
  <2> QED
    BY <2>2, <2>4, OwnDue
<1>5. CASE Server(c, g)
  <2>1. /\ \/ wire' = [wire EXCEPT ![c][g].kind = "reply"] /\ lost' = lost
           \/ /\ wire' = [wire EXCEPT ![c][g] = NoMsg]
              /\ lost' = [lost EXCEPT ![c] = lost[c] \/ g = sock[c]]
        /\ UNCHANGED <<pc, cnt, sock, at, gens, link, info, recv>>
    BY <1>5 DEF Server, Serve, Ignore, Drop, client
  <2>2. \A d \in Clients \ {c} : Alike(d)
    BY <2>1, Domains, <1>lost DEF Alike, Same
  <2>3. /\ wire'[c][g].kind = "reply" \/ (g = sock[c] => lost'[c])
        /\ \A h \in Gens \ {g} : wire'[c][h] = wire[c][h]
        /\ lost[c] => lost'[c]
    <3>1. lost \in [Clients -> BOOLEAN]
      BY DEF IInv, TypeOK
    <3>2. CASE lost' = [lost EXCEPT ![c] = lost[c] \/ g = sock[c]]
      <4>1. lost'[c] = (lost[c] \/ g = sock[c])
        BY <3>1, <3>2, Zenon
      <4>2. (g = sock[c] => lost'[c]) /\ (lost[c] => lost'[c])
        BY <4>1, Zenon
      <4>3. \A h \in Gens \ {g} : wire'[c][h] = wire[c][h]
        BY <2>1, Domains
      <4> QED
        BY <4>2, <4>3, Zenon
    <3>3. CASE wire' = [wire EXCEPT ![c][g].kind = "reply"] /\ lost' = lost
      BY <3>3, Domains DEF MsgType
    <3> QED
      BY <2>1, <3>2, <3>3
  <2>4. Due(c)'
    <3>1. sock[c] = g => wire'[c][g].kind # "none" \/ lost'[c]
      BY <2>3
    <3>2. pc[c] \in {"yield", "waiting"} /\ sock[c] # g => wire'[c][sock[c]] = wire[c][sock[c]]
      BY <1>sock, <2>3
    <3> QED
      BY <1>0, <2>1, <2>3, <3>1, <3>2 DEF Due, ResumeIds
  <2> QED
    BY <2>2, <2>4, OwnDue
<1> QED
  BY <1>1, <1>2, <1>3, <1>4, <1>5 DEF Callback

LEMMA NextDInv == IInv /\ DInv /\ [Next]_vars => DInv'
<1> SUFFICES ASSUME IInv, DInv, [Next]_vars PROVE DInv'
  OBVIOUS
<1>1. ASSUME UNCHANGED <<client, conn, hist>> PROVE DInv'
  <2>1. \A c \in Clients : Alike(c)
    BY <1>1 DEF client, conn, hist, Alike, Same
  <2> QED
    BY <2>1, SameDue DEF DInv
<1>2. ASSUME NEW t \in Threads, Take(t) \/ Resume(t) PROVE DInv'
  BY <1>1, <1>2 DEF Take, Resume
<1>3. CASE UNCHANGED vars
  BY <1>1, <1>3 DEF vars
<1> QED
  BY <1>2, <1>3, SyncDue, BeginDue, CallbackDue DEF Next

\* A call that waits is resumed or is about to be, for any number of clients,
\* threads and connectors: no wake-up is lost between the locked section of
\* _Sync, the callbacks and the yield.  The exceptions are a connector that was
\* declared valid after its OnDisconnected, and an open one on which Send
\* refused the request (its result is ignored) or the server gave no reply.
THEOREM WakeUpsNotLost == Spec => []WakeUpDue
<1>1. Init => DInv
  BY DEF Init, DInv, Due
<1>2. ASSUME IInv, DInv, NEW c \in Clients, pc[c] = "waiting", ~Running(c)
      PROVE  \/ Pending(at[c].thr, at[c].co) = 1
             \/ /\ ResumeIds(c, sock[c]) = at[c]
                /\ \/ link[c][sock[c]] = "open" /\ wire[c][sock[c]].kind # "none"
                   \/ link[c][sock[c]] = "closing"
             \/ Stranded(c)
  <2>1. Awaits(c) /\ Calling(c) /\ Due(c)
    BY <1>2 DEF Awaits, IInv, DInv
  <2>2. sock[c] \in Gens /\ link[c][sock[c]] \in {"open", "closing", "gone"}
    BY <1>2, <2>1, Domains DEF Calling, Present, Due
  <2>3. Pending(at[c].thr, at[c].co) = 1 \/ ResumeIds(c, sock[c]) = at[c]
    BY <2>1 DEF Calling, Ticket
  <2> QED
    BY <1>2, <2>1, <2>2, <2>3 DEF Due, Stranded, Revalidated, Unanswered
<1>3. IInv /\ DInv => WakeUpDue
  BY <1>2 DEF WakeUpDue
<1> QED
  BY <1>1, <1>3, IInvAlways, NextDInv, PTL DEF Spec
=============================================================================
