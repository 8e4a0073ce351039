-------------------------- MODULE HeartBeatProofs --------------------------
(***************************************************************************)
(* KeptAlive and SilentDropped for any number of sockets and buckets and   *)
(* any settings that satisfy SlackAssumption.                              *)
(*                                                                         *)
(* Every bound is a chain of small delays: the clock runs at most Lag      *)
(* ahead of the pass, a pass at most Lag ahead of the last one over the    *)
(* same bucket (Paced), and what waits in a list was put there after that  *)
(* (Noted).  Answered and Heard say how far the wait of a peer that is     *)
(* alive can have come when the next pass looks at its socket.             *)
(***************************************************************************)
EXTENDS HeartBeat, TLAPS

\* The clock, the pass and the buckets.
Paced ==
  /\ now <= clock /\ clock <= now + Lag
  /\ \A i \in 1..Cnt : /\ seen[i] <= now /\ now <= seen[i] + Lag
                       /\ idx = 0 \/ i < idx => seen[i] = now

\* When the socket was seen last.
Seen(s) == seen[Bucket[s]]

\* What the lists and the entries of sockets may hold, and since when.
Noted(s) ==
  /\ last[s] <= clock
  /\ s \in colist \cup datalist => Seen(s) <= last[s]
  /\ conn[s] = "none" => ~info[s].on /\ s \notin colist /\ asked[s] = {}
  /\ info[s].on \/ s \in colist => s \in told
  /\ info[s].on => /\ info[s].rcv_time <= last[s] + Lag
                   /\ Seen(s) <= info[s].rcv_time + Beat

\* A connector's answers are due in time, and the one to the last keep-alive
\* has been taken in, waits in the list, or is still due.
Answered(s) ==
  /\ \A t \in asked[s] : clock <= t + Delay
  /\ info[s].on =>
       /\ info[s].snd_time <= Seen(s) /\ Seen(s) <= info[s].snd_time + Idle
       /\ \/ info[s].snd_time <= info[s].rcv_time
          \/ /\ info[s].snd_time <= info[s].rcv_time + Idle + Lag
             /\ \/ s \in datalist /\ Seen(s) <= info[s].snd_time + Lag + Delay
                \/ \E t \in asked[s] : t <= info[s].snd_time + Lag

\* An accepted socket's data keeps coming, and is taken in or waits.
Heard(s) ==
  /\ clock <= last[s] + Gap
  /\ info[s].on => IF s \in datalist THEN Seen(s) <= info[s].rcv_time + Lag + Gap
                                     ELSE last[s] <= info[s].rcv_time + Lag

Talks(s) == alive[s] /\ conn[s] = "up"

IInv ==
  /\ TypeOK /\ Paced /\ KeptAlive
  /\ \A s \in Socks : /\ Noted(s)
                      /\ Talks(s) /\ s \in Keep => Answered(s)
                      /\ Talks(s) /\ s \notin Keep => Heard(s)

-----------------------------------------------------------------------------
\* Entries are silent no longer than SilentDropped says: the chain of delays
\* from the last note to the clock.
LEMMA InvDropped == IInv => SilentDropped
<1> SUFFICES ASSUME IInv, NEW s \in Socks, info[s].on
             PROVE  clock <= last[s] + Beat + 3 * Lag
  BY DEF SilentDropped
<1>1. Bucket[s] \in 1..Cnt
  BY SocksAssumption
<1>2. /\ clock <= now + Lag /\ now <= Seen(s) + Lag
      /\ Seen(s) <= info[s].rcv_time + Beat
      /\ info[s].rcv_time <= last[s] + Lag
  BY <1>1 DEF IInv, Paced, Noted, Seen
<1>3. /\ clock \in Nat /\ now \in Nat /\ Seen(s) \in Nat /\ last[s] \in Nat
      /\ info[s].rcv_time \in Nat
  BY <1>1 DEF IInv, TypeOK, Seen
<1> QED
  BY <1>2, <1>3, NatAssumption

LEMMA InitIInv == Init => IInv
<1> SUFFICES ASSUME Init PROVE IInv
  OBVIOUS
<1>1. TypeOK
  BY NatAssumption DEF Init, TypeOK, NoInfo
<1>2. Paced
  BY NatAssumption DEF Init, Paced
<1>3. \A s \in Socks : Noted(s) /\ ~Talks(s)
  BY SocksAssumption, NatAssumption DEF Init, Noted, Talks, Seen, NoInfo
<1> QED
  BY <1>1, <1>2, <1>3 DEF IInv, KeptAlive, Init

-----------------------------------------------------------------------------
(* Steps that leave the pass alone                                         *)

\* The times of a socket, as numbers.
LEMMA Times ==
  ASSUME TypeOK, NEW s \in Socks
  PROVE  /\ Bucket[s] \in 1..Cnt /\ Seen(s) \in Nat
         /\ clock \in Nat /\ now \in Nat /\ last[s] \in Nat
         /\ info[s].rcv_time \in Nat /\ info[s].snd_time \in Nat
         /\ info[s].on \in BOOLEAN /\ asked[s] \subseteq Nat
  BY SocksAssumption DEF TypeOK, Seen

LEMMA SeenBefore ==
  ASSUME IInv, NEW s \in Socks
  PROVE  Seen(s) <= now /\ now <= clock /\ Seen(s) <= clock
<1>1. Seen(s) <= now /\ now <= clock
  BY Times DEF IInv, Paced, Seen
<1> QED
  BY <1>1, Times DEF IInv

LEMMA ConnectStep ==
  ASSUME IInv, NEW c \in Socks, Connect(c)
  PROVE  IInv'
<1> USE SocksAssumption, NatAssumption
<1>1. TypeOK' /\ Paced' /\ KeptAlive'
  BY DEF IInv, TypeOK, Paced, KeptAlive, Connect
<1>2. ASSUME NEW s \in Socks
      PROVE  /\ Noted(s)'
             /\ (Talks(s) /\ s \in Keep => Answered(s))'
             /\ (Talks(s) /\ s \notin Keep => Heard(s))'
  <2>1. CASE s # c
    BY <2>1 DEF IInv, TypeOK, Connect, Noted, Talks, Answered, Heard, Seen
  <2>2. CASE s = c
    <3>1. /\ last'[s] = clock /\ conn'[s] = "up" /\ conn[s] = "none"
          /\ ~info[s].on /\ s \notin colist /\ asked[s] = {}
          /\ Seen(s) <= clock
      BY <2>2, SeenBefore DEF IInv, TypeOK, Connect, Noted
    <3> QED
      BY <3>1, Times DEF IInv, Connect, Noted, Talks, Answered, Heard, Seen
  <2> QED
    BY <2>1, <2>2
<1> QED
  BY <1>1, <1>2 DEF IInv

LEMMA OnConnectedStep ==
  ASSUME IInv, NEW c \in Socks, OnConnected(c)
  PROVE  IInv'
<1> USE SocksAssumption, NatAssumption
<1>1. TypeOK' /\ Paced' /\ KeptAlive'
  BY DEF IInv, TypeOK, Paced, KeptAlive, OnConnected
<1>2. ASSUME NEW s \in Socks
      PROVE  /\ Noted(s)'
             /\ (Talks(s) /\ s \in Keep => Answered(s))'
             /\ (Talks(s) /\ s \notin Keep => Heard(s))'
  <2>1. CASE s # c
    BY <2>1 DEF IInv, TypeOK, OnConnected, Noted, Talks, Answered, Heard, Seen
  <2>2. CASE s = c
    <3>1. /\ last'[s] = clock /\ conn[s] # "none" /\ ~info[s].on
          /\ Seen(s) <= clock
      BY <2>2, SeenBefore DEF IInv, TypeOK, OnConnected, Noted
    <3> QED
      BY <3>1, <2>2, Times DEF IInv, OnConnected, Noted, Talks, Answered, Heard, Seen
  <2> QED
    BY <2>1, <2>2
<1> QED
  BY <1>1, <1>2 DEF IInv

\* OnReceiveData, whether or not what came is an answer.
LEMMA DataStep ==
  ASSUME IInv, NEW c \in Socks, Data(c), OnReceiveData(c) \/ Answer(c)
  PROVE  IInv'
<1> USE SocksAssumption, NatAssumption
<1>1. /\ UNCHANGED <<clock, now, idx, colist, info, conn, told, alive, seen, beaten>>
      /\ \A s \in Socks : asked'[s] \subseteq asked[s] /\ (s # c => asked'[s] = asked[s])
      /\ asked' \in [Socks -> SUBSET Nat]
  <2>1. CASE OnReceiveData(c)
    BY <2>1 DEF OnReceiveData, IInv, TypeOK
  <2>2. CASE Answer(c)
    BY <2>2 DEF Answer, IInv, TypeOK
  <2> QED
    BY <2>1, <2>2
<1>2. TypeOK' /\ Paced' /\ KeptAlive'
  BY <1>1 DEF IInv, TypeOK, Paced, KeptAlive, Data
<1>3. ASSUME NEW s \in Socks
      PROVE  /\ Noted(s)'
             /\ (Talks(s) /\ s \in Keep => Answered(s))'
             /\ (Talks(s) /\ s \notin Keep => Heard(s))'
  <2>1. CASE s # c
    BY <1>1, <2>1 DEF IInv, TypeOK, Data, Noted, Talks, Answered, Heard, Seen
  <2>2. CASE s = c
    <3>1. /\ last'[s] = clock /\ s \in datalist' /\ conn[s] = "up"
          /\ Seen(s) <= now /\ now <= clock /\ Seen(s)' = Seen(s)
      BY <1>1, <2>2, Times DEF IInv, TypeOK, Data, Paced, Seen
    <3>2. Noted(s)'
      BY <1>1, <3>1, Times DEF IInv, Noted
    <3>3. ASSUME Talks(s), s \in Keep PROVE Answered(s)'
      <4>1. Answered(s)
        BY <3>3 DEF IInv
      <4>2. \A t \in asked'[s] : clock <= t + Delay
        BY <1>1, <4>1 DEF Answered
      <4>3. ASSUME NEW t \in asked[s], t <= info[s].snd_time + Lag
            PROVE  Seen(s) <= info[s].snd_time + Lag + Delay
        <5>1. clock <= t + Delay /\ t \in Nat
          BY <4>1, Times DEF Answered, IInv
        <5> QED
          BY <5>1, <4>3, <3>1, Times DEF IInv
      <4> QED
        BY <1>1, <3>1, <4>1, <4>2, <4>3 DEF Answered
    <3>4. ASSUME Talks(s), s \notin Keep PROVE Heard(s)'
      <4>1. Heard(s)
        BY <3>4 DEF IInv
      <4> QED
        BY <1>1, <3>1, <4>1, Times DEF Heard, IInv
    <3> QED
      BY <1>1, <3>2, <3>3, <3>4 DEF Talks
  <2> QED
    BY <2>1, <2>2
<1> QED
  BY <1>2, <1>3 DEF IInv

\* A peer dies or a connection is closed: there is less to keep.
LEMMA QuietStep ==
  ASSUME IInv, NEW c \in Socks, Die(c) \/ Close(c)
  PROVE  IInv'
<1>1. TypeOK' /\ Paced' /\ KeptAlive'
  <2>1. TypeOK'
    BY DEF IInv, TypeOK, Die, Close
  <2>2. Paced' /\ KeptAlive'
    BY DEF IInv, Paced, KeptAlive, Die, Close
  <2> QED
    BY <2>1, <2>2
<1>2. ASSUME NEW s \in Socks
      PROVE  /\ Noted(s)'
             /\ Talks(s)' => Talks(s)
             /\ Answered(s)' <=> Answered(s)
             /\ Heard(s)' <=> Heard(s)
  <2>1. UNCHANGED <<clock, now, idx, colist, datalist, info, told, asked, last, seen>>
    BY DEF Die, Close
  <2>2. (Answered(s)' <=> Answered(s)) /\ (Heard(s)' <=> Heard(s))
    BY <2>1 DEF Answered, Heard, Seen
  <2>3. (conn'[s] = "none" => conn[s] = "none") /\ (Talks(s)' => Talks(s))
    BY DEF IInv, TypeOK, Die, Close, Talks
  <2>4. Noted(s)'
    BY <2>1, <2>3 DEF IInv, Noted, Seen
  <2> QED
    BY <2>2, <2>3, <2>4
<1> QED
  BY <1>1, <1>2 DEF IInv

LEMMA TickStep ==
  ASSUME IInv, Tick
  PROVE  IInv'
<1> USE SocksAssumption, NatAssumption
<1>1. TypeOK' /\ Paced' /\ KeptAlive'
  BY DEF IInv, TypeOK, Paced, KeptAlive, Tick
<1>2. ASSUME NEW s \in Socks
      PROVE  /\ Noted(s)'
             /\ (Talks(s) /\ s \in Keep => Answered(s))'
             /\ (Talks(s) /\ s \notin Keep => Heard(s))'
  <2>1. Noted(s)'
    BY Times DEF IInv, Tick, Noted, Seen
  <2>2. ASSUME Talks(s), s \in Keep PROVE Answered(s)'
    <3>1. \A t \in asked[s] : clock + 1 <= t + Delay
      BY <2>2, Times DEF Tick, InTime, Talks, IInv
    <3> QED
      BY <2>2, <3>1 DEF IInv, Tick, Answered, Seen
  <2>3. ASSUME Talks(s), s \notin Keep PROVE Heard(s)'
    BY <2>3, Times DEF IInv, Tick, InTime, Talks, Heard, Seen
  <2> QED
    BY <2>1, <2>2, <2>3 DEF Tick, Talks
<1> QED
  BY <1>1, <1>2 DEF IInv

-----------------------------------------------------------------------------
(* The pass                                                                *)

LEMMA BeginStep ==
  ASSUME IInv, Begin
  PROVE  IInv'
<1>1. TypeOK' /\ KeptAlive'
  BY NatAssumption DEF IInv, TypeOK, KeptAlive, Begin
<1>2. Paced'
  BY NatAssumption DEF IInv, TypeOK, Paced, Begin
<1>3. ASSUME NEW s \in Socks
      PROVE  /\ Noted(s)' <=> Noted(s)
             /\ Talks(s)' <=> Talks(s)
             /\ Answered(s)' <=> Answered(s)
             /\ Heard(s)' <=> Heard(s)
  BY DEF Begin, Noted, Talks, Answered, Heard, Seen
<1> QED
  BY <1>1, <1>2, <1>3 DEF IInv

\* Nobody who is talking is expired: whatever state the wait for the peer is
\* in, the pass comes before the beat is over.
LEMMA NotExpired ==
  ASSUME IInv, NEW s \in Socks, Talks(s), idx # 0, s \in Expired(idx)
  PROVE  FALSE
<1>1. /\ info[s].on /\ info[s].rcv_time + Beat < now /\ Bucket[s] = idx
  BY DEF Expired
<1>2. now <= Seen(s) + Lag /\ now <= clock
  BY Times DEF IInv, Paced, Seen
<1>3. CASE s \in Keep
  <2>1. Answered(s)
    BY <1>3 DEF IInv
  <2>2. CASE info[s].snd_time <= info[s].rcv_time
    BY <1>1, <1>2, <2>1, <2>2, Times, NatAssumption, SlackAssumption DEF Answered, IInv
  <2>3. CASE /\ info[s].snd_time <= info[s].rcv_time + Idle + Lag
             /\ Seen(s) <= info[s].snd_time + Lag + Delay
    BY <1>1, <1>2, <2>3, Times, NatAssumption, SlackAssumption DEF IInv
  <2>4. ASSUME info[s].snd_time <= info[s].rcv_time + Idle + Lag,
               NEW t \in asked[s], t <= info[s].snd_time + Lag
        PROVE  FALSE
    <3>1. clock <= t + Delay /\ t \in Nat
      BY <2>1, Times DEF Answered, IInv
    <3> QED
      BY <1>1, <1>2, <2>4, <3>1, Times, NatAssumption, SlackAssumption DEF IInv
  <2> QED
    BY <1>1, <2>1, <2>2, <2>3, <2>4 DEF Answered
<1>4. CASE s \notin Keep
  <2>1. Heard(s)
    BY <1>4 DEF IInv
  <2> QED
    BY <1>1, <1>2, <2>1, Times, NatAssumption, SlackAssumption DEF Heard, IInv
<1> QED
  BY <1>3, <1>4

LEMMA PassStep ==
  ASSUME IInv, Pass
  PROVE  IInv'
<1> USE NatAssumption
<1>1. /\ TypeOK /\ Paced /\ idx \in 1..Cnt /\ now \in Nat /\ clock \in Nat
      /\ UNCHANGED <<clock, now, told, alive, last>>
      /\ seen' = [seen EXCEPT ![idx] = now]
  BY DEF IInv, Pass, TypeOK
<1>2. ASSUME NEW s \in Socks
      PROVE  /\ info'[s] = IF Bucket[s] = idx THEN Entry(s, idx) ELSE info[s]
             /\ s \in colist' <=> s \in colist /\ Bucket[s] # idx
             /\ s \in datalist' <=> s \in datalist /\ Bucket[s] # idx
             /\ conn'[s] = IF s \in Expired(idx) THEN "closed" ELSE conn[s]
             /\ asked'[s] = IF s \in Ask(idx) /\ conn[s] = "up"
                            THEN asked[s] \cup {clock} ELSE asked[s]
  BY DEF Pass
<1>3. TypeOK'
  <2>1. idx' \in 0..Cnt
    BY <1>1 DEF Pass, NextBucket
  <2>2. info' \in [Socks -> [on : BOOLEAN, rcv_time : Nat, snd_time : Nat]]
    <3>1. \A s \in Socks : Entry(s, idx) \in [on : BOOLEAN, rcv_time : Nat, snd_time : Nat]
      BY <1>1, Times DEF Entry, NoInfo
    <3> QED
      BY <3>1 DEF Pass, IInv, TypeOK
  <2>3. conn' \in [Socks -> {"none", "up", "closed"}]
    BY DEF Pass, IInv, TypeOK
  <2>4. asked' \in [Socks -> SUBSET Nat]
    BY <1>1 DEF Pass, TypeOK
  <2>5. seen' \in [1..Cnt -> Nat]
    BY <1>1 DEF TypeOK
  <2>6. colist' \subseteq Socks /\ datalist' \subseteq Socks /\ beaten' \subseteq Socks
    BY DEF Pass, Expired, IInv, TypeOK
  <2> QED
    BY <1>1, <2>1, <2>2, <2>3, <2>4, <2>5, <2>6 DEF TypeOK
<1>4. Paced'
  <2>1. ASSUME NEW i \in 1..Cnt
        PROVE  /\ seen'[i] <= now /\ now <= seen'[i] + Lag
               /\ idx' = 0 \/ i < idx' => seen'[i] = now
    <3>1. CASE i = idx
      BY <1>1, <3>1 DEF TypeOK
    <3>2. CASE i # idx
      <4>1. seen'[i] = seen[i] /\ seen[i] <= now /\ now <= seen[i] + Lag
        BY <1>1, <3>2 DEF Paced, TypeOK
      <4>2. idx' = 0 \/ i < idx' => i < idx
        BY <1>1, <3>2 DEF Pass, NextBucket
      <4> QED
        BY <1>1, <4>1, <4>2 DEF Paced
    <3> QED
      BY <3>1, <3>2
  <2> QED
    BY <1>1, <2>1 DEF Paced
<1>5. KeptAlive'
  BY <1>1, NotExpired DEF IInv, KeptAlive, Pass, Expired, Talks
<1>6. ASSUME NEW s \in Socks, Bucket[s] # idx
      PROVE  /\ Noted(s)'
             /\ Talks(s)' <=> Talks(s)
             /\ Answered(s)' <=> Answered(s)
             /\ Heard(s)' <=> Heard(s)
  <2>1. s \notin Expired(idx) /\ s \notin Ask(idx)
    BY <1>6 DEF Expired, Ask
  <2>2. Seen(s)' = Seen(s)
    BY <1>1, <1>6, Times DEF Seen, TypeOK
  <2> QED
    BY <1>1, <1>2, <1>6, <2>1, <2>2 DEF IInv, Noted, Talks, Answered, Heard
<1>7. ASSUME NEW s \in Socks, Bucket[s] = idx
      PROVE  /\ Noted(s)'
             /\ (Talks(s) /\ s \in Keep => Answered(s))'
             /\ (Talks(s) /\ s \notin Keep => Heard(s))'
  <2>1. Seen(s)' = now
    BY <1>1, <1>7, Times DEF Seen, TypeOK
  <2>2. s \notin colist' /\ s \notin datalist' /\ info'[s] = Entry(s, idx)
    BY <1>2, <1>7
  <2>3. /\ Noted(s) /\ Seen(s) <= now /\ now <= Seen(s) + Lag
        /\ now <= clock /\ clock <= now + Lag
    BY <1>1, Times DEF IInv, Paced, Seen
  <2>4. Noted(s)'
    <3>1. info'[s].on => info'[s].rcv_time <= last[s] + Lag
      BY <1>1, <2>2, <2>3, Times DEF Entry, Held, NoInfo, Noted
    <3>2. info'[s].on => now <= info'[s].rcv_time + Beat
      BY <1>1, <1>7, <2>2, <2>3, Times DEF Entry, Held, NoInfo, Noted, Expired
    <3>3. info'[s].on => s \in told
      BY <2>2, <2>3 DEF Entry, Held, NoInfo, Noted
    <3>4. conn'[s] = "none" => ~info'[s].on /\ asked'[s] = {}
      <4>1. conn'[s] = "none" => conn[s] = "none"
        BY <1>2
      <4>2. conn[s] = "none" => ~info[s].on /\ s \notin colist /\ asked[s] = {}
        BY <2>3 DEF Noted
      <4>3. conn[s] = "none" => ~info'[s].on
        <5>1. conn[s] = "none" => ~Held(s, idx)
          BY <4>2 DEF Held
        <5> QED
          BY <2>2, <5>1 DEF Entry, NoInfo
      <4>4. conn[s] = "none" => asked'[s] = {}
        BY <1>2, <4>2
      <4> QED
        BY <4>1, <4>3, <4>4
    <3> QED
      BY <1>1, <2>1, <2>2, <2>3, <3>1, <3>2, <3>3, <3>4 DEF Noted
  <2>5. ASSUME Talks(s)', s \in Keep PROVE Answered(s)'
    <3>1. Talks(s) /\ conn[s] = "up" /\ Answered(s) /\ s \notin Expired(idx)
      BY <1>1, <1>2, <2>5, NotExpired DEF Talks, IInv
    <3>2. \A t \in asked'[s] : clock <= t + Delay
      <4>1. asked'[s] \subseteq asked[s] \cup {clock}
        BY <1>2
      <4>2. \A t \in asked[s] \cup {clock} : clock <= t + Delay
        BY <1>1, <3>1 DEF Answered
      <4> QED
        BY <4>1, <4>2
    <3>3. CASE ~Held(s, idx)
      BY <1>1, <2>2, <3>2, <3>3 DEF Answered, Entry, NoInfo
    <3>4. CASE s \in colist
      BY <1>1, <2>1, <2>2, <3>2, <3>4 DEF Answered, Entry, Held
    <3>5. CASE Held(s, idx) /\ s \notin colist
      <4>1. info[s].on
        BY <3>5 DEF Held
      <4>0. /\ info'[s].on
            /\ info'[s].rcv_time = IF s \in datalist THEN now ELSE info[s].rcv_time
            /\ info'[s].snd_time = IF s \in Ask(idx) THEN now ELSE info[s].snd_time
        BY <2>2, <3>5 DEF Entry
      <4>2. info'[s].snd_time <= now /\ now <= info'[s].snd_time + Idle
        <5>1. CASE s \in Ask(idx)
          BY <1>1, <4>0, <5>1
        <5>2. CASE s \notin Ask(idx)
          <6>1. ~(info[s].snd_time + Idle < now)
            BY <1>7, <2>5, <3>1, <4>1, <5>2 DEF Ask
          <6>2. info[s].snd_time <= Seen(s)
            BY <3>1, <4>1 DEF Answered
          <6> QED
            BY <1>1, <2>3, <4>0, <5>2, <6>1, <6>2, Times
        <5> QED
          BY <5>1, <5>2
      <4>3. CASE s \in datalist
        <5>1. info'[s].snd_time <= info'[s].rcv_time
          BY <4>0, <4>2, <4>3
        <5> QED
          BY <1>1, <2>1, <3>2, <4>2, <5>1 DEF Answered
      <4>4. CASE s \notin datalist /\ s \notin Ask(idx)
        <5>1. asked'[s] = asked[s]
          BY <1>2, <4>4
        <5>2. \/ info[s].snd_time <= info[s].rcv_time
              \/ /\ info[s].snd_time <= info[s].rcv_time + Idle + Lag
                 /\ \E t \in asked[s] : t <= info[s].snd_time + Lag
          BY <3>1, <4>1, <4>4 DEF Answered
        <5> QED
          BY <1>1, <2>1, <3>2, <4>0, <4>2, <4>4, <5>1, <5>2 DEF Answered
      <4>5. CASE s \notin datalist /\ s \in Ask(idx)
        <5>1. /\ info'[s].snd_time = now /\ info'[s].rcv_time = info[s].rcv_time
              /\ clock \in asked'[s] /\ info[s].snd_time + Idle < now
          BY <1>2, <3>1, <4>0, <4>5 DEF Ask
        <5>2. ASSUME NEW t \in asked[s], t <= info[s].snd_time + Lag PROVE FALSE
          <6>1. clock <= t + Delay /\ t \in Nat
            BY <1>1, <3>1, Times DEF Answered
          <6> QED
            BY <1>1, <2>3, <5>1, <5>2, <6>1, Times, SlackAssumption
        <5>3. info[s].snd_time <= info[s].rcv_time /\ Seen(s) <= info[s].snd_time + Idle
          BY <3>1, <4>1, <4>5, <5>2 DEF Answered
        <5>4. now <= info[s].rcv_time + Idle + Lag
          BY <1>1, <2>3, <5>3, Times
        <5> QED
          BY <1>1, <2>1, <2>3, <3>2, <4>2, <5>1, <5>4 DEF Answered
      <4> QED
        BY <4>3, <4>4, <4>5
    <3> QED
      BY <3>3, <3>4, <3>5
  <2>6. ASSUME Talks(s)', s \notin Keep PROVE Heard(s)'
    <3>1. Talks(s) /\ Heard(s)
      BY <1>1, <1>2, <2>6 DEF Talks, IInv
    <3>2. info'[s].on => last[s] <= info'[s].rcv_time + Lag
      BY <1>1, <2>2, <2>3, <3>1, Times DEF Heard, Entry, Held, NoInfo, Noted
    <3> QED
      BY <1>1, <2>2, <3>1, <3>2 DEF Heard
  <2> QED
    BY <2>4, <2>5, <2>6
<1> QED
  BY <1>3, <1>4, <1>5, <1>6, <1>7 DEF IInv

-----------------------------------------------------------------------------
LEMMA NextIInv == IInv /\ [Next]_vars => IInv'
<1> SUFFICES ASSUME IInv, [Next]_vars PROVE IInv'
  OBVIOUS
<1>1. ASSUME NEW s \in Socks, Connect(s) PROVE IInv'
  BY <1>1, ConnectStep
<1>2. ASSUME NEW s \in Socks, OnConnected(s) PROVE IInv'
  BY <1>2, OnConnectedStep
<1>3. ASSUME NEW s \in Socks, OnReceiveData(s) PROVE IInv'
  BY <1>3, DataStep DEF OnReceiveData
<1>4. ASSUME NEW s \in Socks, Answer(s) PROVE IInv'
  BY <1>4, DataStep DEF Answer
<1>5. ASSUME NEW s \in Socks, Die(s) \/ Close(s) PROVE IInv'
  BY <1>5, QuietStep
<1>6. CASE UNCHANGED vars
  BY <1>6 DEF vars, IInv, TypeOK, Paced, KeptAlive, Noted, Talks, Answered, Heard, Seen
<1> QED
  BY <1>1, <1>2, <1>3, <1>4, <1>5, <1>6, BeginStep, PassStep, TickStep DEF Next

LEMMA IInvAlways == Spec => []IInv
  BY InitIInv, NextIInv, PTL DEF Spec

\* The clocks, lists and entries of the heart beat keep their types.
THEOREM TypeCorrect == Spec => []TypeOK
<1>1. IInv => TypeOK
  BY DEF IInv
<1> QED
  BY <1>1, IInvAlways, PTL

\* With settings that leave it enough slack, the heart beat never closes a
\* connection whose peer is alive, for any number of sockets and buckets.
THEOREM NeverClosesAlive == Spec => []KeptAlive
<1>1. IInv => KeptAlive
  BY DEF IInv
<1> QED
  BY <1>1, IInvAlways, PTL

\* No entry outlives the last sign of life by more than the beat and three
\* passes.
THEOREM DropsSilent == Spec => []SilentDropped
  BY InvDropped, IInvAlways, PTL
=============================================================================
