-------------------------- MODULE AppServerProofs ---------------------------
(***************************************************************************)
(* Invariants of AppServer, for every number of connections and            *)
(* descriptors, every size of the cache and all bounds.                    *)
(***************************************************************************)
EXTENDS AppServer, SequenceTheorems, TLAPS

-----------------------------------------------------------------------------
(* Lists and sequences                                                     *)

\* push_back adds at the end of a list that is a sequence.
LEMMA PushSeq ==
  ASSUME NEW S, NEW l \in Lists(S), NEW x \in S, IsSequence(l)
  PROVE  /\ push_back(l, x) \in Lists(S) /\ IsSequence(push_back(l, x))
         /\ push_back(l, x).items = Append(l.items, x)
<1>1. l.items \in Seq(S) /\ l.count \in Nat /\ l.count = Len(l.items)
  BY DEF Lists, IsSequence
<1>2. push_back(l, x) = [items |-> l.items \o <<x>>, tail |-> "last", count |-> l.count + 1]
  BY DEF push_back, Pushed, IsSequence
<1>3. /\ l.items \o <<x>> = Append(l.items, x) /\ Append(l.items, x) \in Seq(S)
      /\ Len(Append(l.items, x)) = Len(l.items) + 1 /\ Append(l.items, x) # <<>>
  BY <1>1
<1>. QED
  BY <1>1, <1>2, <1>3 DEF Lists, IsSequence

\* pop_front takes the first item of a list that has one.
LEMMA Pop ==
  ASSUME NEW S, NEW l \in Lists(S), l.items # <<>>, Len(l.items) <= l.count
  PROVE  /\ pop_front(l) \in Lists(S)
         /\ pop_front(l).items = Tail(l.items) /\ pop_front(l).count = l.count - 1
         /\ Len(pop_front(l).items) <= pop_front(l).count
         /\ IsSequence(l) => IsSequence(pop_front(l))
<1>1. l.items \in Seq(S) /\ l.count \in Nat /\ l.tail \in {"null", "last", "stray"}
  BY DEF Lists
<1>2. /\ Tail(l.items) \in Seq(S) /\ Len(Tail(l.items)) = Len(l.items) - 1
      /\ Len(l.items) \in Nat \ {0}
      /\ (Tail(l.items) = <<>>) <=> (Len(l.items) = 1)
  <2>1. Tail(l.items) \in Seq(S) /\ Len(Tail(l.items)) = Len(l.items) - 1
    BY <1>1
  <2>2. Len(l.items) \in Nat /\ Len(l.items) # 0
    BY <1>1
  <2>3. (Tail(l.items) = <<>>) <=> (Len(Tail(l.items)) = 0)
    BY <2>1, EmptySeq
  <2>. QED
    BY <2>1, <2>2, <2>3
<1>3. pop_front(l) = [items |-> Tail(l.items),
                      tail  |-> IF l.tail = "last" /\ Len(l.items) = 1 THEN "null" ELSE l.tail,
                      count |-> l.count - 1]
  BY DEF pop_front
<1>4. pop_front(l) \in Lists(S)
  BY <1>1, <1>2, <1>3 DEF Lists
<1>. QED
  BY <1>1, <1>2, <1>3, <1>4 DEF IsSequence

\* Appending to the last of three sequences appends to them all.
AppendsLast(a, b, c, x) == Append(a \o b \o c, x) = a \o b \o Append(c, x)
LEMMA AppendJoined ==
  ASSUME NEW S, NEW a \in Seq(S), NEW b \in Seq(S), NEW c \in Seq(S), NEW x \in S
  PROVE  AppendsLast(a, b, c, x)
<1>1. a \o b \in Seq(S) /\ a \o b \o c \in Seq(S) /\ <<x>> \in Seq(S)
  BY ConcatProperties
<1>2. Append(a \o b \o c, x) = (a \o b \o c) \o <<x>>
  BY <1>1, AppendIsConcat
<1>3. (a \o b \o c) \o <<x>> = (a \o b) \o (c \o <<x>>)
  BY <1>1, ConcatAssociative
<1>4. c \o <<x>> = Append(c, x)
  BY AppendIsConcat
<1>. QED
  BY <1>2, <1>3, <1>4 DEF AppendsLast

\* The messages posted are those handled, those of the loop and those queued.
InOrderOf(p, h, l, q) == p = h \o l.items \o q.items

\* Posting a message and queueing it keeps the order.
LEMMA AppendLast ==
  ASSUME NEW S, NEW h \in Seq(S), NEW l \in Lists(S), NEW q \in Lists(S), NEW q2 \in Lists(S),
         NEW p \in Seq(S), NEW x \in S, InOrderOf(p, h, l, q), q2.items = Append(q.items, x)
  PROVE  InOrderOf(Append(p, x), h, l, q2)
<1>1. l.items \in Seq(S) /\ q.items \in Seq(S)
  BY DEF Lists
<1>2. AppendsLast(h, l.items, q.items, x)
  BY <1>1, AppendJoined
<1>. QED
  BY <1>2 DEF AppendsLast, InOrderOf

\* What goes back to a cache leaves it within its size.
LEMMA Recycling ==
  ASSUME NEW S, NEW p \in Lists(S), NEW t \in Lists(S), IsSequence(t),
         p.count <= CacheSize, Len(p.items) <= p.count
  PROVE  /\ Recycled(p, t) \in Lists(S)
         /\ Recycled(p, t).count <= CacheSize
         /\ Len(Recycled(p, t).items) <= Recycled(p, t).count
<1>1. /\ p.items \in Seq(S) /\ p.count \in Nat /\ p.tail \in {"null", "last", "stray"}
      /\ t.items \in Seq(S) /\ t.count = Len(t.items) /\ t.count \in Nat
      /\ t.tail \in {"null", "last", "stray"} /\ CacheSize \in Nat
  BY SizeAssumption DEF Lists, IsSequence
<1>2. CASE t.count + p.count <= CacheSize
  <2>1. Recycled(p, t) = join(p, t)
    BY <1>2 DEF Recycled
  <2>2. /\ join(p, t).items \in {p.items \o t.items, p.items, t.items}
        /\ join(p, t).tail \in {"null", "last", "stray"}
        /\ join(p, t).count = p.count + t.count
        /\ join(p, t) = [items |-> join(p, t).items, tail |-> join(p, t).tail,
                         count |-> join(p, t).count]
    BY <1>1 DEF join
  <2>3. p.items \o t.items \in Seq(S) /\ Len(p.items \o t.items) = Len(p.items) + Len(t.items)
    BY <1>1
  <2>4. join(p, t).items \in Seq(S) /\ Len(join(p, t).items) <= p.count + t.count
    <3>1. Len(p.items) \in Nat /\ Len(t.items) \in Nat
      BY <1>1
    <3>2. CASE join(p, t).items = p.items \o t.items
      <4>1. join(p, t).items \in Seq(S)
        BY <2>3, <3>2
      <4>2. Len(join(p, t).items) = Len(p.items) + Len(t.items)
        BY <2>3, <3>2
      <4>3. Len(p.items) + Len(t.items) <= p.count + t.count
        <5>1. \A a, b, c \in Nat : a <= c => a + b <= c + b
          OBVIOUS
        <5>. QED
          BY <1>1, <3>1, <5>1
      <4>. QED
        BY <4>1, <4>2, <4>3
    <3>3. CASE join(p, t).items = p.items
      BY <1>1, <3>1, <3>3
    <3>4. CASE join(p, t).items = t.items
      BY <1>1, <3>1, <3>4
    <3>. QED
      BY <2>2, <3>2, <3>3, <3>4
  <2>. QED
    BY <1>1, <1>2, <2>1, <2>2, <2>4 DEF Lists
<1>3. CASE ~(t.count + p.count <= CacheSize)
  <2>. DEFINE s == SubSeq(t.items, 1, CacheSize - p.count)
  <2>1. s \in Seq(S) /\ Len(s) = CacheSize - p.count
    BY <1>1, <1>3
  <2>2. Recycled(p, t) = Pushed(p, s)
    BY <1>3 DEF Recycled
  <2>. HIDE DEF s
  <2>3. p.items \o s \in Seq(S) /\ Len(p.items \o s) = Len(p.items) + Len(s)
    BY <1>1, <2>1, ConcatProperties, Zenon
  <2>4. CASE s = <<>>
    BY <1>1, <2>2, <2>4 DEF Pushed
  <2>5. CASE s # <<>>
    <3>1. Pushed(p, s) = [items |-> IF p.tail = "last" \/ p.items = <<>> THEN p.items \o s ELSE p.items,
                          tail  |-> IF p.tail = "last" \/ p.items = <<>> THEN "last" ELSE "stray",
                          count |-> p.count + Len(s)]
      BY <2>5 DEF Pushed
    <3>. QED
      BY <1>1, <2>1, <2>2, <2>3, <3>1 DEF Lists
  <2>. QED
    BY <2>4, <2>5
<1>. QED
  BY <1>2, <1>3

-----------------------------------------------------------------------------
(* The steps of the io threads and of the loop                             *)

\* A callback either finds a broken cache and crashes, or queues one message.
LEMMA Posting ==
  ASSUME TypeOK, CacheBounded, NEW s \in All, NEW type \in {"in", "out", "data"},
         NEW err \in BOOLEAN, Post(s, type, err)
  PROVE  /\ UNCHANGED <<tmp, tmp2, ctx, pc, time, handled>>
         /\ KindOf(s) \in Kinds
         /\ \/ run' = "crashed" /\ UNCHANGED <<queue, pool, posted>>
            \/ \E m \in Msg :
                 /\ m.sock = s /\ m.type = type /\ m.err = err
                 /\ queue' = [queue EXCEPT ![KindOf(s)] = push_back(@, m)]
                 /\ posted' = [posted EXCEPT ![KindOf(s)] = Append(@, m)]
                 /\ \/ pool' = pool
                    \/ /\ HasFront(pool[KindOf(s)])
                       /\ pool' = [pool EXCEPT ![KindOf(s)] = pop_front(@)]
                 /\ run' = run
<1>. DEFINE k == KindOf(s)
            pkt == IF type = "data" THEN Posts + 1 ELSE 0
            m == [sock |-> s, type |-> type, err |-> err, pkt |-> pkt,
                  buf |-> IF type = "data" THEN Write(Reused(k), pkt) ELSE Reused(k)]
<1>1. UNCHANGED <<tmp, tmp2, ctx, pc, time, handled>> /\ k \in Kinds
  BY DEF Post, KindOf, Kinds
<1>2. CASE pool[k].count > 0 /\ ~HasFront(pool[k])
  BY <1>1, <1>2 DEF Post
<1>3. CASE ~(pool[k].count > 0 /\ ~HasFront(pool[k]))
  <2>1. /\ queue' = [queue EXCEPT ![k] = push_back(@, m)]
        /\ posted' = [posted EXCEPT ![k] = Append(@, m)]
        /\ pool' = IF pool[k].count > 0 THEN [pool EXCEPT ![k] = pop_front(@)] ELSE pool
        /\ run' = run
    BY <1>3 DEF Post
  <2>2. pkt \in Nat
    <3>1. Len(posted["conn"]) \in Nat /\ Len(posted["sock"]) \in Nat
      BY DEF TypeOK, Kinds
    <3>2. \A a, b \in Nat : a + b \in Nat /\ a + b + 1 \in Nat
      OBVIOUS
    <3>. QED
      BY <3>1, <3>2 DEF Posts
  <2>3. Reused(k) \in Seq(Nat)
    <3>1. CASE pool[k].count > 0
      <4>1. pool[k].items \in Seq(Msg) /\ pool[k].items # <<>>
        BY <1>1, <1>3, <3>1 DEF TypeOK, Lists, HasFront
      <4>2. Head(pool[k].items) \in Msg
        BY <4>1
      <4>. QED
        BY <3>1, <4>2 DEF Reused, front, Msg
    <3>2. CASE ~(pool[k].count > 0)
      BY <3>2 DEF Reused
    <3>. QED
      BY <3>1, <3>2
  <2>4. m.buf \in Seq(Nat)
    <3>. HIDE DEF pkt
    <3>. QED
      BY <2>2, <2>3 DEF Write
  <2>5. m \in Msg
    <3>. DEFINE b == IF type = "data" THEN Write(Reused(k), pkt) ELSE Reused(k)
    <3>1. b \in Seq(Nat)
      BY <2>4
    <3>. HIDE DEF b, pkt
    <3>2. [sock |-> s, type |-> type, err |-> err, pkt |-> pkt, buf |-> b] \in Msg
      BY <2>2, <3>1 DEF Msg
    <3>. QED
      BY <3>2 DEF b, pkt
  <2>6. m.sock = s /\ m.type = type /\ m.err = err
    OBVIOUS
  <2>. HIDE DEF m
  <2>7. \/ pool' = pool
        \/ HasFront(pool[k]) /\ pool' = [pool EXCEPT ![k] = pop_front(@)]
    BY <1>3, <2>1
  <2>. QED
    BY <1>1, <2>1, <2>5, <2>6, <2>7
<1>. QED
  BY <1>2, <1>3

\* The part of TypeOK about lists and histories, with the properties of them.
ListInv ==
  /\ \A k \in Kinds : IsSequence(queue[k]) /\ IsSequence(tmp[k]) /\ IsSequence(tmp2[k])
  /\ queue \in [Kinds -> Lists(Msg)] /\ pool \in [Kinds -> Lists(Msg)]
  /\ tmp \in [Kinds -> Lists(Msg)] /\ tmp2 \in [Kinds -> Lists(Msg)]
  /\ posted \in [Kinds -> Seq(Msg)] /\ handled \in [Kinds -> Seq(Msg)]
  /\ CacheBounded
  /\ InOrder

\* A callback adds its message to the end of what was posted and of the queue.
LEMMA PostKeeps ==
  ASSUME TypeOK, ListInv, NEW s \in All, NEW type \in {"in", "out", "data"},
         NEW err \in BOOLEAN, Post(s, type, err)
  PROVE  ListInv' /\ run' \in {"up", "ended", "crashed"}
<1>. DEFINE k == KindOf(s)
<1>0. CacheBounded /\ run \in {"up", "ended", "crashed"}
  BY DEF ListInv, TypeOK
<1>1. UNCHANGED <<tmp, tmp2, handled>> /\ k \in Kinds
  BY <1>0, Posting DEF time
<1>2. CASE run' = "crashed" /\ UNCHANGED <<queue, pool, posted>>
  BY <1>1, <1>2 DEF ListInv, CacheBounded, InOrder
<1>3. CASE \E m \in Msg :
             /\ queue' = [queue EXCEPT ![k] = push_back(@, m)]
             /\ posted' = [posted EXCEPT ![k] = Append(@, m)]
             /\ \/ pool' = pool
                \/ HasFront(pool[k]) /\ pool' = [pool EXCEPT ![k] = pop_front(@)]
             /\ run' = run
  <2>1. PICK m \in Msg :
             /\ queue' = [queue EXCEPT ![k] = push_back(@, m)]
             /\ posted' = [posted EXCEPT ![k] = Append(@, m)]
             /\ \/ pool' = pool
                \/ HasFront(pool[k]) /\ pool' = [pool EXCEPT ![k] = pop_front(@)]
             /\ run' = run
    BY <1>3
  <2>. HIDE DEF k
  <2>2. /\ queue[k] \in Lists(Msg) /\ IsSequence(queue[k]) /\ pool[k] \in Lists(Msg)
        /\ posted[k] \in Seq(Msg) /\ handled[k] \in Seq(Msg) /\ tmp[k] \in Lists(Msg)
    BY <1>1 DEF ListInv
  <2>3. /\ push_back(queue[k], m) \in Lists(Msg) /\ IsSequence(push_back(queue[k], m))
        /\ push_back(queue[k], m).items = Append(queue[k].items, m)
    BY <2>2, PushSeq
  <2>4. /\ queue' \in [Kinds -> Lists(Msg)] /\ \A j \in Kinds : IsSequence(queue'[j])
        /\ posted' \in [Kinds -> Seq(Msg)]
    <3>1. Append(posted[k], m) \in Seq(Msg)
      BY <2>2
    <3>. QED
      BY <1>1, <2>1, <2>3, <3>1 DEF ListInv
  <2>5. pool' \in [Kinds -> Lists(Msg)] /\ CacheBounded'
    <3>1. CASE pool' = pool
      BY <3>1 DEF ListInv, CacheBounded
    <3>2. CASE HasFront(pool[k]) /\ pool' = [pool EXCEPT ![k] = pop_front(@)]
      <4>1. pool[k].items # <<>> /\ Len(pool[k].items) <= pool[k].count /\ pool[k].count <= CacheSize
        BY <1>0, <1>1, <3>2 DEF HasFront, CacheBounded
      <4>2. /\ pop_front(pool[k]) \in Lists(Msg) /\ pop_front(pool[k]).count = pool[k].count - 1
            /\ Len(pop_front(pool[k]).items) <= pop_front(pool[k]).count
        BY <2>2, <4>1, Pop
      <4>3. pop_front(pool[k]).count <= CacheSize
        BY <2>2, <4>1, <4>2, SizeAssumption DEF Lists
      <4>4. pool' \in [Kinds -> Lists(Msg)]
        BY <1>1, <3>2, <4>2 DEF ListInv
      <4>5. \A j \in Kinds : pool'[j] = IF j = k THEN pop_front(pool[k]) ELSE pool[j]
        BY <3>2 DEF ListInv
      <4>. QED
        BY <1>0, <4>2, <4>3, <4>4, <4>5 DEF CacheBounded
    <3>. QED
      BY <2>1, <3>1, <3>2
  <2>6. InOrder'
    <3>1. /\ \A j \in Kinds \ {k} : posted'[j] = posted[j] /\ queue'[j] = queue[j]
          /\ posted'[k] = Append(posted[k], m)
          /\ queue'[k].items = Append(queue[k].items, m)
      BY <1>1, <2>1, <2>3 DEF ListInv
    <3>2. InOrderOf(posted[k], handled[k], tmp[k], queue[k]) /\ queue'[k] \in Lists(Msg)
      BY <1>1, <2>4 DEF ListInv, InOrder, InOrderOf
    <3>3. InOrderOf(Append(posted[k], m), handled[k], tmp[k], queue'[k])
      BY <2>2, <3>1, <3>2, AppendLast
    <3>4. posted'[k] = handled[k] \o tmp[k].items \o queue'[k].items
      BY <3>1, <3>3 DEF InOrderOf
    <3>. QED
      BY <1>1, <3>1, <3>4 DEF ListInv, InOrder
  <2>. QED
    BY <1>0, <1>1, <2>1, <2>4, <2>5, <2>6 DEF ListInv
<1>. QED
  BY <1>0, <1>2, <1>3, Posting

\* The swap moves the queues to the lists of the loop, which are empty.
LEMMA SwapKeeps ==
  ASSUME TypeOK, ListInv, \A k \in Kinds : tmp[k].items = <<>>, Swap
  PROVE  ListInv'
<1>1. UNCHANGED <<pool, tmp2, posted, handled>>
  BY DEF Swap, time
<1>2. CASE UNCHANGED <<tmp, queue>>
  BY <1>1, <1>2 DEF ListInv, CacheBounded, InOrder
<1>3. CASE tmp' = queue /\ queue' = tmp
  <2>1. \A k \in Kinds : posted[k] = handled[k] \o queue[k].items \o tmp[k].items
    <3>1. TAKE k \in Kinds
    <3>2. posted[k] = handled[k] \o tmp[k].items \o queue[k].items
      BY DEF ListInv, InOrder
    <3>3. handled[k] \in Seq(Msg) /\ queue[k].items \in Seq(Msg) /\ tmp[k].items = <<>>
      BY DEF ListInv, Lists
    <3>4. \A a, b \in Seq(Msg) : a \o <<>> \o b = a \o b \o <<>>
      OBVIOUS
    <3>5. handled[k] \o <<>> \o queue[k].items = handled[k] \o queue[k].items \o <<>>
      BY <3>3, <3>4
    <3>. QED
      BY <3>2, <3>3, <3>5
  <2>2. InOrder'
    BY <1>1, <1>3, <2>1 DEF InOrder
  <2>. QED
    BY <1>1, <1>3, <2>2 DEF ListInv, CacheBounded
<1>. QED
  BY <1>2, <1>3 DEF Swap, Left

\* The loop takes the first message and keeps it for the cache.
LEMMA HandleKeeps ==
  ASSUME TypeOK, ListInv, Handle
  PROVE  ListInv'
<1>1. PICK k \in Kinds :
        /\ tmp[k].count > 0
        /\ tmp' = [tmp EXCEPT ![k] = pop_front(@)]
        /\ tmp2' = [tmp2 EXCEPT ![k] = push_back(@, front(tmp[k]))]
        /\ handled' = [handled EXCEPT ![k] = Append(@, front(tmp[k]))]
  BY DEF Handle
<1>2. UNCHANGED <<queue, pool, posted>>
  BY DEF Handle
<1>. DEFINE m == front(tmp[k])
<1>3. /\ tmp[k] \in Lists(Msg) /\ tmp2[k] \in Lists(Msg) /\ handled[k] \in Seq(Msg)
      /\ IsSequence(tmp[k]) /\ IsSequence(tmp2[k]) /\ queue[k] \in Lists(Msg)
  BY DEF ListInv
<1>4. /\ tmp[k].items \in Seq(Msg) /\ tmp[k].items # <<>> /\ queue[k].items \in Seq(Msg)
      /\ Len(tmp[k].items) <= tmp[k].count
  BY <1>1, <1>3 DEF Lists, IsSequence
<1>5. m = Head(tmp[k].items) /\ m \in Msg /\ tmp[k].items = <<m>> \o Tail(tmp[k].items)
      /\ Tail(tmp[k].items) \in Seq(Msg)
  BY <1>4 DEF front
<1>. HIDE DEF m
<1>6. /\ pop_front(tmp[k]) \in Lists(Msg) /\ IsSequence(pop_front(tmp[k]))
      /\ pop_front(tmp[k]).items = Tail(tmp[k].items)
  BY <1>3, <1>4, Pop
<1>7. push_back(tmp2[k], m) \in Lists(Msg) /\ IsSequence(push_back(tmp2[k], m))
  BY <1>3, <1>5, PushSeq
<1>8. Append(handled[k], m) \in Seq(Msg)
  BY <1>3, <1>5
<1>9. /\ \A j \in Kinds \ {k} : tmp'[j] = tmp[j] /\ tmp2'[j] = tmp2[j] /\ handled'[j] = handled[j]
      /\ tmp'[k] = pop_front(tmp[k]) /\ tmp2'[k] = push_back(tmp2[k], m)
      /\ handled'[k] = Append(handled[k], m)
  BY <1>1 DEF m, ListInv
<1>10. InOrder'
  <2>1. posted[k] = handled[k] \o tmp[k].items \o queue[k].items
    BY DEF ListInv, InOrder
  <2>2. \A a, b, c \in Seq(Msg) : a \o (<<m>> \o b) \o c = Append(a, m) \o b \o c
    BY <1>5
  <2>3. handled[k] \o (<<m>> \o Tail(tmp[k].items)) \o queue[k].items
          = Append(handled[k], m) \o Tail(tmp[k].items) \o queue[k].items
    BY <1>3, <1>4, <1>5, <2>2
  <2>4. posted[k] = handled'[k] \o tmp'[k].items \o queue[k].items
    BY <1>5, <1>6, <1>9, <2>1, <2>3
  <2>. QED
    BY <1>2, <1>9, <2>4 DEF ListInv, InOrder
<1>11. /\ tmp' \in [Kinds -> Lists(Msg)] /\ tmp2' \in [Kinds -> Lists(Msg)]
       /\ handled' \in [Kinds -> Seq(Msg)]
  BY <1>1, <1>6, <1>7, <1>8 DEF m, ListInv
<1>12. \A j \in Kinds : IsSequence(tmp'[j]) /\ IsSequence(tmp2'[j])
  BY <1>6, <1>7, <1>9 DEF ListInv
<1>. QED
  BY <1>2, <1>10, <1>11, <1>12 DEF ListInv, CacheBounded

\* The end of the loop refills the caches.
LEMMA RecycleKeeps ==
  ASSUME TypeOK, ListInv, Recycle
  PROVE  ListInv'
<1>1. UNCHANGED <<queue, tmp, posted, handled>>
  BY DEF Recycle
<1>2. CASE UNCHANGED <<pool, tmp2>>
  BY <1>1, <1>2 DEF ListInv, CacheBounded, InOrder
<1>3. CASE /\ pool' = [k \in Kinds |-> Recycled(pool[k], tmp2[k])]
           /\ tmp2' = [k \in Kinds |-> EmptyList]
  <2>1. \A k \in Kinds : /\ Recycled(pool[k], tmp2[k]) \in Lists(Msg)
                         /\ Recycled(pool[k], tmp2[k]).count <= CacheSize
                         /\ Len(Recycled(pool[k], tmp2[k]).items) <= Recycled(pool[k], tmp2[k]).count
    BY Recycling DEF ListInv, CacheBounded
  <2>2. pool' \in [Kinds -> Lists(Msg)]
    BY <1>3, <2>1
  <2>3. CacheBounded'
    BY <1>3, <2>1 DEF CacheBounded
  <2>4. EmptyList \in Lists(Msg) /\ IsSequence(EmptyList)
    BY DEF EmptyList, Lists, IsSequence
  <2>5. tmp2' \in [Kinds -> Lists(Msg)] /\ \A k \in Kinds : IsSequence(tmp2'[k])
    BY <1>3, <2>4
  <2>6. InOrder'
    BY <1>1 DEF ListInv, InOrder
  <2>. QED
    BY <1>1, <2>2, <2>3, <2>5, <2>6 DEF ListInv
<1>. QED
  BY <1>2, <1>3 DEF Recycle

\* The part of TypeOK about connections, contexts, the loop and the time.
NetType ==
  /\ phase \in [All -> {"new", "open", "closing", "closed", "gone"}]
  /\ fd \in [All -> Fds \cup {NoFd}]
  /\ ctx \in [Kinds -> SUBSET Contexts]
  /\ run \in {"up", "ended", "crashed"} /\ pc \in {"top", "swap", "handle"}
  /\ clock \in Nat /\ now \in 0..clock /\ last \in 0..now

\* The lists of the loop are empty whenever it takes the queues.
LoopInv == pc \in {"top", "swap"} => \A k \in Kinds : tmp[k].items = <<>>

\* Closing connections keeps the phases typed.
LEMMA ClosedType ==
  ASSUME NetType, NEW S
  PROVE  Closed(phase, S) \in [All -> {"new", "open", "closing", "closed", "gone"}]
BY DEF Closed, NetType

\* One message leaves the contexts and the phases typed.
LEMMA HandleType ==
  ASSUME NetType, NEW k \in Kinds, NEW m \in Msg,
         Data(k, m) \/ OnConnection(k, m) \/ OnDisConnection(k, m)
  PROVE  /\ ctx' \in [Kinds -> SUBSET Contexts]
         /\ phase' \in [All -> {"new", "open", "closing", "closed", "gone"}]
<1>1. m.sock \in All /\ fd[m.sock] \in Fds \cup {NoFd} /\ now \in Nat
  BY DEF Msg, NetType
<1>2. CASE Data(k, m)
  <2>1. \A c \in ctx[k] : [c EXCEPT !.tt = now] \in Contexts /\ c \in Contexts
    BY <1>1 DEF Contexts, NetType
  <2>2. {IF c.fd = fd[m.sock] THEN [c EXCEPT !.tt = now] ELSE c : c \in ctx[k]} \in SUBSET Contexts
    BY <2>1
  <2>3. /\ ctx' = [ctx EXCEPT ![k] = {IF c.fd = fd[m.sock] THEN [c EXCEPT !.tt = now] ELSE c : c \in ctx[k]}]
        /\ phase' = phase
    BY <1>2 DEF Data
  <2>. QED
    BY <2>2, <2>3 DEF NetType
<1>3. CASE OnConnection(k, m)
  <2>1. [fd |-> fd[m.sock], sock |-> m.sock, tt |-> now] \in Contexts
    BY <1>1 DEF Contexts
  <2>2. ctx[k] \in SUBSET Contexts
    BY DEF NetType
  <2>3. ctx[k] \cup {[fd |-> fd[m.sock], sock |-> m.sock, tt |-> now]} \in SUBSET Contexts
    BY <2>1, <2>2
  <2>4. phase' = phase \/ phase' = Closed(phase, {m.sock})
    BY <1>3 DEF OnConnection
  <2>5. \/ ctx' = ctx
        \/ ctx' = [ctx EXCEPT ![k] = ctx[k] \cup {[fd |-> fd[m.sock], sock |-> m.sock, tt |-> now]}]
    BY <1>3 DEF OnConnection
  <2>. QED
    BY <2>3, <2>4, <2>5, ClosedType DEF NetType
<1>4. CASE OnDisConnection(k, m)
  <2>1. ctx[k] \ Found(k, fd[m.sock]) \in SUBSET Contexts
    BY DEF NetType
  <2>. QED
    BY <1>4, <2>1 DEF OnDisConnection, NetType
<1>. QED
  BY <1>2, <1>3, <1>4

\* Every step keeps the types, the order of the messages and the caches.
LEMMA ListStep ==
  TypeOK /\ ListInv /\ LoopInv /\ [Next]_vars => NetType' /\ ListInv' /\ LoopInv'
<1>. SUFFICES ASSUME TypeOK, ListInv, LoopInv, [Next]_vars
              PROVE  NetType' /\ ListInv' /\ LoopInv'
  OBVIOUS
<1>. USE DEF net, lists, time
<1>0. NetType
  BY DEF TypeOK, NetType
<1>a. ASSUME UNCHANGED <<lists, posted, handled>> PROVE ListInv'
  BY <1>a DEF ListInv, CacheBounded, InOrder
<1>b. ASSUME NEW s \in All, NEW type \in {"in", "out", "data"}, NEW err \in BOOLEAN,
             Post(s, type, err)
      PROVE  /\ ListInv' /\ run' \in {"up", "ended", "crashed"}
             /\ UNCHANGED <<ctx, pc, clock, now, last, tmp>>
  BY <1>b, PostKeeps DEF Post
<1>1. CASE \E s \in All : Connected(s)
  <2>1. PICK s \in All : Connected(s)
    BY <1>1
  <2>2. Post(s, "in", FALSE)
    BY <2>1 DEF Connected
  <2>3. /\ fd' \in [All -> Fds \cup {NoFd}]
        /\ phase' \in [All -> {"new", "open", "closing", "closed", "gone"}]
    BY <1>0, <2>1 DEF Connected, NetType
  <2>. QED
    BY <1>0, <1>b, <2>2, <2>3 DEF NetType, LoopInv
<1>2. CASE \E s \in All : ConnectFailed(s)
  <2>1. PICK s \in All : ConnectFailed(s)
    BY <1>2
  <2>2. Post(s, "in", TRUE)
    BY <2>1 DEF ConnectFailed
  <2>3. /\ fd' = fd
        /\ phase' \in [All -> {"new", "open", "closing", "closed", "gone"}]
    BY <1>0, <2>1 DEF ConnectFailed, NetType
  <2>. QED
    BY <1>0, <1>b, <2>2, <2>3 DEF NetType, LoopInv
<1>3. CASE \E s \in All : ReceiveData(s)
  <2>1. PICK s \in All : ReceiveData(s)
    BY <1>3
  <2>2. Post(s, "data", FALSE) /\ UNCHANGED <<phase, fd>>
    BY <2>1 DEF ReceiveData
  <2>. QED
    BY <1>0, <1>b, <2>2 DEF NetType, LoopInv
<1>4. CASE \E s \in All : Disconnected(s)
  <2>1. PICK s \in All : Disconnected(s)
    BY <1>4
  <2>2. Post(s, "out", FALSE)
    BY <2>1 DEF Disconnected
  <2>3. /\ fd' = fd
        /\ phase' \in [All -> {"new", "open", "closing", "closed", "gone"}]
    BY <1>0, <2>1 DEF Disconnected, NetType
  <2>. QED
    BY <1>0, <1>b, <2>2, <2>3 DEF NetType, LoopInv
<1>5. CASE \E s \in All : BeginClose(s)
  <2>1. PICK s \in All : BeginClose(s)
    BY <1>5
  <2>2. phase' \in [All -> {"new", "open", "closing", "closed", "gone"}]
    BY <1>0, <2>1, ClosedType DEF BeginClose
  <2>. QED
    BY <1>0, <1>a, <2>1, <2>2 DEF BeginClose, NetType, LoopInv
<1>6. CASE \E s \in All : CloseFd(s)
  <2>1. PICK s \in All : CloseFd(s)
    BY <1>6
  <2>2. /\ phase' \in [All -> {"new", "open", "closing", "closed", "gone"}]
        /\ fd' \in [All -> Fds \cup {NoFd}]
    BY <1>0, <2>1 DEF CloseFd, NetType
  <2>. QED
    BY <1>0, <1>a, <2>1, <2>2 DEF CloseFd, NetType, LoopInv
<1>7. CASE Tick
  <2>1. phase' \in [All -> {"new", "open", "closing", "closed", "gone"}]
    BY <1>0, <1>7, ClosedType DEF Tick, NetType
  <2>2. now' = clock /\ last' \in {clock, last} /\ clock' = clock
    BY <1>7 DEF Tick
  <2>3. now' \in 0..clock' /\ last' \in 0..now'
    BY <1>0, <2>2 DEF NetType
  <2>. QED
    BY <1>0, <1>7, <1>a, <2>1, <2>3 DEF Tick, NetType, LoopInv
<1>8. CASE Swap
  <2>1. \A k \in Kinds : tmp[k].items = <<>>
    BY <1>8 DEF Swap, LoopInv
  <2>2. ListInv'
    BY <1>8, <2>1, SwapKeeps
  <2>. QED
    BY <1>0, <1>8, <2>2 DEF Swap, NetType, LoopInv
<1>9. CASE Handle
  <2>1. PICK k \in Kinds :
          /\ tmp[k].count > 0
          /\ LET m == front(tmp[k]) IN
             Data(k, m) \/ OnConnection(k, m) \/ OnDisConnection(k, m)
    BY <1>9 DEF Handle
  <2>2. front(tmp[k]) \in Msg
    <3>1. tmp[k].items \in Seq(Msg) /\ tmp[k].items # <<>>
      BY <2>1 DEF ListInv, IsSequence, Lists
    <3>. QED
      BY <3>1 DEF front
  <2>3. /\ ctx' \in [Kinds -> SUBSET Contexts]
        /\ phase' \in [All -> {"new", "open", "closing", "closed", "gone"}]
    BY <1>0, <2>1, <2>2, HandleType
  <2>4. pc' = "handle" /\ UNCHANGED <<fd, run, clock, now, last>>
    BY <1>9 DEF Handle
  <2>5. ListInv'
    BY <1>9, HandleKeeps
  <2>. QED
    BY <1>0, <2>3, <2>4, <2>5 DEF NetType, LoopInv
<1>10. CASE Recycle
  <2>1. \A k \in Kinds : tmp'[k].items = <<>>
    <3>1. \A k \in Kinds : tmp[k].count = 0 /\ IsSequence(tmp[k]) /\ tmp[k].items \in Seq(Msg)
      BY <1>10 DEF Recycle, ListInv, Lists
    <3>2. \A k \in Kinds : tmp[k].items = <<>>
      BY <3>1, EmptySeq DEF IsSequence
    <3>. QED
      BY <1>10, <3>2 DEF Recycle
  <2>2. ListInv'
    BY <1>10, RecycleKeeps
  <2>. QED
    BY <1>0, <1>10, <2>1, <2>2 DEF Recycle, NetType, LoopInv
<1>11. CASE Exit
  BY <1>0, <1>11, <1>a DEF Exit, NetType, LoopInv
<1>12. CASE Advance
  <2>1. clock' \in Nat /\ now \in 0..clock' /\ UNCHANGED <<now, last>>
    BY <1>0, <1>12 DEF Advance, NetType
  <2>. QED
    BY <1>0, <1>12, <1>a, <2>1 DEF Advance, NetType, LoopInv
<1>13. CASE UNCHANGED vars
  BY <1>0, <1>13, <1>a DEF vars, NetType, LoopInv
<1>. QED
  BY <1>1, <1>2, <1>3, <1>4, <1>5, <1>6, <1>7, <1>8, <1>9, <1>10, <1>11, <1>12, <1>13
  DEF Next, IoThreads, MainLoop

-----------------------------------------------------------------------------
(* Contexts                                                                *)

\* Open connections have a descriptor of their own, the others have none.
FdInv ==
  /\ \A s, t \in All : fd[s] = fd[t] /\ fd[s] # NoFd => s = t
  /\ \A s \in All : fd[s] = NoFd <=> phase[s] \in {"new", "closed", "gone"}

\* The connection of a message that says so has started, has ended.
MsgOK(m) ==
  /\ m.type = "in" => phase[m.sock] # "new"
  /\ m.type = "out" \/ m.err => phase[m.sock] = "gone"
MsgInv == \A k \in Kinds : \A i \in 1..Len(posted[k]) : MsgOK(posted[k][i])

\* A descriptor has one context.
CtxInv == \A k \in Kinds : \A c, d \in ctx[k] : c.fd = d.fd => c = d

\* The connection of m is not open, or it has a context.
HasContext(k, m) ==
  m.type = "in" /\ phase[m.sock] = "open" =>
    \E c \in ctx[k] : c.fd = fd[m.sock] /\ c.sock = m.sock
RegInv == \A k \in Kinds : \A i \in 1..Len(handled[k]) : HasContext(k, handled[k][i])

\* What was handled, and the next message, were posted.
LEMMA WasPosted ==
  ASSUME ListInv, NEW k \in Kinds
  PROVE  /\ \A i \in 1..Len(handled[k]) :
              /\ i \in 1..Len(posted[k]) /\ posted[k][i] = handled[k][i]
              /\ handled[k][i] \in Msg
         /\ tmp[k].count > 0 =>
              \E i \in 1..Len(posted[k]) : posted[k][i] = front(tmp[k]) /\ posted[k][i] \in Msg
<1>1. /\ posted[k] = handled[k] \o tmp[k].items \o queue[k].items
      /\ handled[k] \in Seq(Msg) /\ tmp[k].items \in Seq(Msg) /\ queue[k].items \in Seq(Msg)
      /\ tmp[k].count = Len(tmp[k].items)
  BY DEF ListInv, InOrder, Lists, IsSequence
<1>2. \A a, b, c \in Seq(Msg) : \A i \in 1..Len(a) :
        i \in 1..Len(a \o b \o c) /\ (a \o b \o c)[i] = a[i] /\ a[i] \in Msg
  OBVIOUS
<1>3. \A a, b, c \in Seq(Msg) : b # <<>> =>
        /\ Len(a) + 1 \in 1..Len(a \o b \o c)
        /\ (a \o b \o c)[Len(a) + 1] = Head(b) /\ Head(b) \in Msg
  OBVIOUS
<1>4. ASSUME tmp[k].count > 0
      PROVE  \E i \in 1..Len(posted[k]) : posted[k][i] = front(tmp[k]) /\ posted[k][i] \in Msg
  <2>1. tmp[k].items # <<>>
    BY <1>1, <1>4
  <2>. DEFINE all == handled[k] \o tmp[k].items \o queue[k].items
  <2>2. /\ Len(handled[k]) + 1 \in 1..Len(all)
        /\ all[Len(handled[k]) + 1] = Head(tmp[k].items) /\ Head(tmp[k].items) \in Msg
    BY <1>1, <1>3, <2>1
  <2>3. posted[k] = all
    BY <1>1
  <2>. HIDE DEF all
  <2>. QED
    BY <2>2, <2>3 DEF front
<1>5. \A i \in 1..Len(handled[k]) :
        i \in 1..Len(posted[k]) /\ posted[k][i] = handled[k][i] /\ handled[k][i] \in Msg
  <2>. DEFINE all == handled[k] \o tmp[k].items \o queue[k].items
  <2>1. \A i \in 1..Len(handled[k]) :
          i \in 1..Len(all) /\ all[i] = handled[k][i] /\ handled[k][i] \in Msg
    BY <1>1, <1>2
  <2>2. posted[k] = all
    BY <1>1
  <2>. HIDE DEF all
  <2>. QED
    BY <2>1, <2>2
<1>. QED
  BY <1>4, <1>5

\* A callback of s that leaves what MsgInv says of other messages alone.
LEMMA PostMsg ==
  ASSUME TypeOK, ListInv, MsgInv, NEW s \in All, NEW type \in {"in", "out", "data"},
         NEW err \in BOOLEAN, Post(s, type, err),
         type = "in" => phase'[s] # "new",
         type = "out" \/ err => phase'[s] = "gone",
         \A t \in All : phase[t] # "new" => phase'[t] # "new",
         \A t \in All : phase[t] = "gone" => phase'[t] = "gone"
  PROVE  MsgInv'
<1>. DEFINE k == KindOf(s)
<1>2. \A m \in Msg : MsgOK(m) =>
        /\ m.type = "in" => phase'[m.sock] # "new"
        /\ m.type = "out" \/ m.err => phase'[m.sock] = "gone"
  BY DEF MsgOK, Msg
<1>3. CacheBounded /\ \A j \in Kinds : posted[j] \in Seq(Msg)
  BY DEF ListInv
<1>4. CASE posted' = posted
  BY <1>2, <1>3, <1>4 DEF MsgInv, MsgOK
<1>5. CASE \E m \in Msg : /\ m.sock = s /\ m.type = type /\ m.err = err
                          /\ posted' = [posted EXCEPT ![k] = Append(@, m)]
  <2>1. PICK m \in Msg : /\ m.sock = s /\ m.type = type /\ m.err = err
                         /\ posted' = [posted EXCEPT ![k] = Append(@, m)]
    BY <1>5
  <2>2. k \in Kinds
    BY DEF KindOf, Kinds
  <2>. HIDE DEF k
  <2>3. SUFFICES ASSUME NEW j \in Kinds, NEW i \in 1..Len(posted'[j])
                 PROVE  /\ posted'[j][i].type = "in" => phase'[posted'[j][i].sock] # "new"
                        /\ posted'[j][i].type = "out" \/ posted'[j][i].err =>
                             phase'[posted'[j][i].sock] = "gone"
    BY DEF MsgInv, MsgOK
  <2>4. CASE j # k
    <3>1. posted'[j] = posted[j]
      BY <2>1, <2>4 DEF ListInv
    <3>2. posted[j][i] \in Msg /\ MsgOK(posted[j][i])
      BY <1>3, <2>3, <3>1 DEF MsgInv
    <3>. QED
      BY <1>2, <3>1, <3>2
  <2>5. CASE j = k
    <3>1. posted'[j] = Append(posted[j], m) /\ posted[j] \in Seq(Msg)
      BY <1>3, <2>1, <2>2, <2>5 DEF ListInv
    <3>2. CASE i = Len(posted[j]) + 1
      <4>1. posted'[j][i] = m
        BY <3>1, <3>2
      <4>. QED
        BY <2>1, <4>1
    <3>3. CASE i \in 1..Len(posted[j])
      <4>1. posted'[j][i] = posted[j][i] /\ posted[j][i] \in Msg /\ MsgOK(posted[j][i])
        BY <3>1, <3>3 DEF MsgInv
      <4>. QED
        BY <1>2, <4>1
    <3>4. i \in 1..Len(posted[j]) \/ i = Len(posted[j]) + 1
      BY <2>3, <3>1
    <3>. QED
      BY <3>2, <3>3, <3>4
  <2>. QED
    BY <2>4, <2>5
<1>. QED
  BY <1>3, <1>4, <1>5, Posting

\* Every step keeps FdInv and MsgInv.
LEMMA MsgStep ==
  TypeOK /\ ListInv /\ FdInv /\ MsgInv /\ [Next]_vars => FdInv' /\ MsgInv'
<1>. SUFFICES ASSUME TypeOK, ListInv, FdInv, MsgInv, [Next]_vars
              PROVE  FdInv' /\ MsgInv'
  OBVIOUS
<1>. USE DEF net, lists, time
<1>0. /\ phase \in [All -> {"new", "open", "closing", "closed", "gone"}]
      /\ fd \in [All -> Fds \cup {NoFd}]
      /\ \A k \in Kinds : \A i \in 1..Len(posted[k]) : posted[k][i] \in Msg
  BY DEF TypeOK
<1>a. ASSUME UNCHANGED posted,
             \A t \in All : phase[t] # "new" => phase'[t] # "new",
             \A t \in All : phase[t] = "gone" => phase'[t] = "gone"
      PROVE  MsgInv'
  BY <1>0, <1>a DEF MsgInv, MsgOK, Msg
<1>b. ASSUME NEW S, phase' = Closed(phase, S), UNCHANGED <<fd, posted>>
      PROVE  FdInv' /\ MsgInv'
  <2>1. \A t \in All : phase'[t] = IF t \in S /\ phase[t] = "open" THEN "closing" ELSE phase[t]
    BY <1>b DEF Closed
  <2>2. MsgInv'
    BY <1>a, <1>b, <2>1
  <2>. QED
    BY <1>b, <2>1, <2>2 DEF FdInv
<1>1. CASE \E s \in All : Connected(s)
  <2>1. PICK s \in All : Connected(s)
    BY <1>1
  <2>2. PICK f \in Fds : /\ \A t \in All : fd[t] # f
                         /\ fd' = [fd EXCEPT ![s] = f]
    BY <2>1 DEF Connected
  <2>3. phase' = [phase EXCEPT ![s] = "open"] /\ phase[s] = "new" /\ Post(s, "in", FALSE)
    BY <2>1 DEF Connected
  <2>4. FdInv'
    BY <1>0, <2>2, <2>3, FdAssumption DEF FdInv
  <2>5. MsgInv'
    <3>1. /\ phase'[s] # "new"
          /\ \A t \in All : phase[t] # "new" => phase'[t] # "new"
          /\ \A t \in All : phase[t] = "gone" => phase'[t] = "gone"
      BY <1>0, <2>3
    <3>. QED
      BY <2>3, <3>1, PostMsg
  <2>. QED
    BY <2>4, <2>5
<1>2. CASE \E s \in All : ConnectFailed(s)
  <2>1. PICK s \in All : ConnectFailed(s)
    BY <1>2
  <2>2. /\ phase' = [phase EXCEPT ![s] = "gone"] /\ phase[s] = "new" /\ fd' = fd
        /\ Post(s, "in", TRUE)
    BY <2>1 DEF ConnectFailed
  <2>3. FdInv'
    BY <1>0, <2>2 DEF FdInv
  <2>4. /\ phase'[s] = "gone"
        /\ \A t \in All : phase[t] # "new" => phase'[t] # "new"
        /\ \A t \in All : phase[t] = "gone" => phase'[t] = "gone"
    BY <1>0, <2>2
  <2>. QED
    BY <2>2, <2>3, <2>4, PostMsg
<1>3. CASE \E s \in All : ReceiveData(s)
  <2>1. PICK s \in All : Post(s, "data", FALSE) /\ UNCHANGED <<phase, fd>>
    BY <1>3 DEF ReceiveData
  <2>2. MsgInv'
    BY <2>1, PostMsg
  <2>. QED
    BY <2>1, <2>2 DEF FdInv
<1>4. CASE \E s \in All : Disconnected(s)
  <2>1. PICK s \in All : Disconnected(s)
    BY <1>4
  <2>2. /\ phase' = [phase EXCEPT ![s] = "gone"] /\ phase[s] = "closed" /\ fd' = fd
        /\ Post(s, "out", FALSE)
    BY <2>1 DEF Disconnected
  <2>3. FdInv'
    BY <1>0, <2>2 DEF FdInv
  <2>4. /\ phase'[s] = "gone"
        /\ \A t \in All : phase[t] # "new" => phase'[t] # "new"
        /\ \A t \in All : phase[t] = "gone" => phase'[t] = "gone"
    BY <1>0, <2>2
  <2>. QED
    BY <2>2, <2>3, <2>4, PostMsg
<1>5. CASE \E s \in All : BeginClose(s)
  BY <1>5, <1>b DEF BeginClose
<1>6. CASE \E s \in All : CloseFd(s)
  <2>1. PICK s \in All : CloseFd(s)
    BY <1>6
  <2>2. /\ phase' = [phase EXCEPT ![s] = "closed"] /\ phase[s] = "closing"
        /\ fd' = [fd EXCEPT ![s] = NoFd] /\ posted' = posted
    BY <2>1 DEF CloseFd
  <2>3. FdInv'
    BY <1>0, <2>2 DEF FdInv
  <2>4. MsgInv'
    BY <1>0, <1>a, <2>2
  <2>. QED
    BY <2>3, <2>4
<1>c. ASSUME UNCHANGED <<phase, fd, posted>> PROVE FdInv' /\ MsgInv'
  BY <1>a, <1>c DEF FdInv
<1>7. CASE Tick
  BY <1>7, <1>b, <1>c DEF Tick
<1>8. CASE Handle
  <2>1. PICK k \in Kinds :
          LET m == front(tmp[k]) IN Data(k, m) \/ OnConnection(k, m) \/ OnDisConnection(k, m)
    BY <1>8 DEF Handle
  <2>2. phase' = phase \/ phase' = Closed(phase, {front(tmp[k]).sock})
    BY <2>1 DEF Data, OnConnection, OnDisConnection
  <2>. QED
    BY <1>8, <1>b, <1>c, <2>2 DEF Handle
<1>9. CASE Swap \/ Recycle \/ Exit \/ Advance \/ UNCHANGED vars
  BY <1>9, <1>c DEF Swap, Recycle, Exit, Advance, vars
<1>. QED
  BY <1>1, <1>2, <1>3, <1>4, <1>5, <1>6, <1>7, <1>8, <1>9 DEF Next, IoThreads, MainLoop

\* A step of the io threads that opens no connection keeps RegInv.
LEMMA NoneOpened ==
  ASSUME TypeOK, ListInv, RegInv, UNCHANGED <<ctx, handled>>,
         \A s \in All : phase'[s] = "open" => phase[s] = "open" /\ fd'[s] = fd[s]
  PROVE  RegInv'
<1>1. \A k \in Kinds : \A i \in 1..Len(handled[k]) : handled[k][i].sock \in All
  <2>1. \A k \in Kinds : \A i \in 1..Len(handled[k]) : handled[k][i] \in Msg
    BY DEF TypeOK
  <2>. QED
    BY <2>1 DEF Msg
<1>. QED
  BY <1>1 DEF RegInv, HasContext

\* Taking a message keeps one context to a descriptor, and those of the
\* connections that are open.
LEMMA OneMessage ==
  ASSUME TypeOK, FdInv, CtxInv, NEW k \in Kinds, NEW m \in Msg, MsgOK(m),
         \/ m.type = "data" /\ Data(k, m)
         \/ m.type = "in" /\ OnConnection(k, m)
         \/ m.type = "out" /\ OnDisConnection(k, m),
         fd' = fd
  PROVE  /\ CtxInv'
         /\ HasContext(k, m)'
         /\ \A j \in Kinds, n \in Msg : HasContext(j, n) => HasContext(j, n)'
<1>0. /\ phase \in [All -> {"new", "open", "closing", "closed", "gone"}]
      /\ ctx \in [Kinds -> SUBSET Contexts]
      /\ m.sock \in All /\ \A n \in Msg : n.sock \in All
  BY DEF TypeOK, Msg
<1>1. CASE m.type = "data" /\ Data(k, m)
  <2>. DEFINE g(c) == IF c.fd = fd[m.sock] THEN [c EXCEPT !.tt = now] ELSE c
  <2>1. /\ phase' = phase
        /\ \A j \in Kinds : ctx'[j] = IF j = k THEN {g(c) : c \in ctx[k]} ELSE ctx[j]
    BY <1>0, <1>1 DEF Data
  <2>2. \A c \in Contexts : g(c).fd = c.fd /\ g(c).sock = c.sock
    BY DEF Contexts
  <2>. HIDE DEF g
  <2>3. CtxInv'
    <3>. SUFFICES ASSUME NEW j \in Kinds, NEW c \in ctx'[j], NEW d \in ctx'[j], c.fd = d.fd
                  PROVE  c = d
      BY DEF CtxInv
    <3>1. CASE j # k
      BY <2>1, <3>1 DEF CtxInv
    <3>2. CASE j = k
      <4>1. PICK a \in ctx[k] : c = g(a)
        BY <2>1, <3>2
      <4>2. PICK b \in ctx[k] : d = g(b)
        BY <2>1, <3>2
      <4>3. a.fd = b.fd
        BY <1>0, <2>2, <4>1, <4>2
      <4>4. a = b
        BY <4>3 DEF CtxInv
      <4>. QED
        BY <4>1, <4>2, <4>4
    <3>. QED
      BY <3>1, <3>2
  <2>4. ASSUME NEW j \in Kinds, NEW n \in Msg, HasContext(j, n),
               n.type = "in" /\ phase'[n.sock] = "open"
        PROVE  \E c \in ctx'[j] : c.fd = fd'[n.sock] /\ c.sock = n.sock
    <3>1. PICK c \in ctx[j] : c.fd = fd[n.sock] /\ c.sock = n.sock
      BY <2>1, <2>4 DEF HasContext
    <3>2. CASE j # k
      BY <2>1, <3>1, <3>2
    <3>3. CASE j = k
      <4>1. g(c) \in ctx'[j] /\ g(c).fd = c.fd /\ g(c).sock = c.sock
        BY <1>0, <2>1, <2>2, <3>3
      <4>. QED
        BY <3>1, <4>1
    <3>. QED
      BY <3>2, <3>3
  <2>. QED
    BY <1>1, <2>3, <2>4 DEF HasContext
<1>2. CASE m.type = "in" /\ OnConnection(k, m)
  <2>. DEFINE f == fd[m.sock]
              new == [fd |-> f, sock |-> m.sock, tt |-> now]
  <2>1. CASE m.err /\ UNCHANGED <<ctx, phase>>
    <3>1. phase'[m.sock] # "open"
      BY <2>1 DEF MsgOK
    <3>. QED
      BY <2>1, <3>1 DEF HasContext, CtxInv
  <2>2. CASE phase' = Closed(phase, {m.sock}) /\ UNCHANGED ctx
    <3>1. /\ phase'[m.sock] # "open"
          /\ \A s \in All : phase'[s] = "open" => phase[s] = "open"
      BY <1>0, <2>2 DEF Closed
    <3>. QED
      BY <1>0, <2>2, <3>1 DEF HasContext, CtxInv
  <2>3. CASE /\ Found(k, f) = {} /\ UNCHANGED phase
             /\ ctx' = [ctx EXCEPT ![k] = @ \cup {new}]
    <3>1. \A j \in Kinds : ctx'[j] = IF j = k THEN ctx[k] \cup {new} ELSE ctx[j]
      BY <1>0, <2>3
    <3>2. \A c \in ctx[k] : c.fd # f
      BY <2>3 DEF Found
    <3>3. new.fd = f /\ new.sock = m.sock
      OBVIOUS
    <3>. HIDE DEF new
    <3>4. CtxInv'
      BY <3>1, <3>2, <3>3 DEF CtxInv
    <3>5. HasContext(k, m)'
      BY <3>1, <3>3 DEF HasContext
    <3>6. \A j \in Kinds, n \in Msg : HasContext(j, n) => HasContext(j, n)'
      BY <2>3, <3>1 DEF HasContext
    <3>. QED
      BY <3>4, <3>5, <3>6
  <2>. QED
    BY <1>2, <2>1, <2>2, <2>3 DEF OnConnection
<1>3. CASE m.type = "out" /\ OnDisConnection(k, m)
  <2>1. /\ phase' = phase
        /\ \A j \in Kinds : ctx'[j] = IF j = k THEN ctx[k] \ Found(k, fd[m.sock]) ELSE ctx[j]
    BY <1>0, <1>3 DEF OnDisConnection
  <2>2. fd[m.sock] = NoFd
    BY <1>0, <1>3 DEF MsgOK, FdInv
  <2>3. \A s \in All : phase[s] = "open" => fd[s] # NoFd
    BY DEF FdInv
  <2>4. CtxInv'
    BY <2>1 DEF CtxInv
  <2>5. \A j \in Kinds, n \in Msg : HasContext(j, n) => HasContext(j, n)'
    BY <1>0, <2>1, <2>2, <2>3 DEF HasContext, Found
  <2>. QED
    BY <1>3, <2>4, <2>5 DEF HasContext
<1>. QED
  BY <1>1, <1>2, <1>3

\* Every step keeps the contexts right.
LEMMA CtxStep ==
  TypeOK /\ ListInv /\ FdInv /\ MsgInv /\ CtxInv /\ RegInv /\ [Next]_vars => CtxInv' /\ RegInv'
<1>. SUFFICES ASSUME TypeOK, ListInv, FdInv, MsgInv, CtxInv, RegInv, [Next]_vars
              PROVE  CtxInv' /\ RegInv'
  OBVIOUS
<1>. USE DEF net, lists, time
<1>0. /\ phase \in [All -> {"new", "open", "closing", "closed", "gone"}]
      /\ fd \in [All -> Fds \cup {NoFd}]
      /\ \A k \in Kinds : handled[k] \in Seq(Msg)
  BY DEF TypeOK
<1>a. ASSUME UNCHANGED <<ctx, handled>>,
             \A s \in All : phase'[s] = "open" => phase[s] = "open" /\ fd'[s] = fd[s]
      PROVE  CtxInv' /\ RegInv'
  BY <1>a, NoneOpened DEF CtxInv
<1>b. ASSUME NEW S, phase' = Closed(phase, S), UNCHANGED <<fd, ctx, handled>>
      PROVE  CtxInv' /\ RegInv'
  BY <1>0, <1>a, <1>b DEF Closed
<1>1. CASE \E s \in All : Connected(s)
  <2>1. PICK s \in All : Connected(s)
    BY <1>1
  <2>2. PICK f \in Fds : fd' = [fd EXCEPT ![s] = f]
    BY <2>1 DEF Connected
  <2>3. phase' = [phase EXCEPT ![s] = "open"] /\ phase[s] = "new" /\ UNCHANGED <<ctx, handled>>
    BY <2>1 DEF Connected, Post
  <2>4. ASSUME NEW k \in Kinds, NEW i \in 1..Len(handled[k])
        PROVE  HasContext(k, handled[k][i])'
    <3>. DEFINE m == handled[k][i]
    <3>1. m \in Msg /\ MsgOK(m)
      BY <2>4, WasPosted DEF MsgInv
    <3>2. HasContext(k, m)
      BY <2>4 DEF RegInv
    <3>3. m.sock \in All
      BY <3>1 DEF Msg
    <3>4. handled'[k][i] = m
      BY <2>3
    <3>. HIDE DEF m
    <3>5. CASE m.type = "in"
      <4>1. m.sock # s
        BY <2>3, <3>1, <3>5 DEF MsgOK
      <4>2. phase'[m.sock] = phase[m.sock] /\ fd'[m.sock] = fd[m.sock]
        BY <1>0, <2>2, <2>3, <3>3, <4>1
      <4>. QED
        BY <2>3, <3>2, <3>4, <4>2 DEF HasContext
    <3>6. CASE m.type # "in"
      BY <3>4, <3>6 DEF HasContext
    <3>. QED
      BY <3>5, <3>6
  <2>. QED
    BY <2>3, <2>4 DEF CtxInv, RegInv
<1>2. CASE \E s \in All : ConnectFailed(s) \/ Disconnected(s)
  <2>1. PICK s \in All : /\ phase' = [phase EXCEPT ![s] = "gone"] /\ UNCHANGED fd
                         /\ UNCHANGED <<ctx, handled>>
    BY <1>2 DEF ConnectFailed, Disconnected, Post
  <2>. QED
    BY <1>0, <1>a, <2>1
<1>3. CASE \E s \in All : ReceiveData(s)
  BY <1>3, <1>a DEF ReceiveData, Post
<1>4. CASE \E s \in All : BeginClose(s)
  BY <1>4, <1>b DEF BeginClose
<1>5. CASE \E s \in All : CloseFd(s)
  <2>1. PICK s \in All : /\ phase' = [phase EXCEPT ![s] = "closed"]
                         /\ fd' = [fd EXCEPT ![s] = NoFd] /\ UNCHANGED <<ctx, handled>>
    BY <1>5 DEF CloseFd
  <2>. QED
    BY <1>0, <1>a, <2>1
<1>6. CASE Tick
  BY <1>6, <1>a, <1>b DEF Tick
<1>7. CASE Handle
  <2>1. PICK k \in Kinds :
          /\ tmp[k].count > 0
          /\ LET m == front(tmp[k]) IN
             /\ \/ m.type = "data" /\ Data(k, m)
                \/ m.type = "in" /\ OnConnection(k, m)
                \/ m.type = "out" /\ OnDisConnection(k, m)
             /\ handled' = [handled EXCEPT ![k] = Append(@, m)]
    BY <1>7 DEF Handle
  <2>2. PICK m \in Msg : m = front(tmp[k]) /\ MsgOK(m)
    <3>1. PICK i \in 1..Len(posted[k]) : posted[k][i] = front(tmp[k]) /\ posted[k][i] \in Msg
      BY <2>1, WasPosted
    <3>. QED
      BY <3>1 DEF MsgInv
  <2>3. fd' = fd
    BY <1>7 DEF Handle
  <2>4. \A j \in Kinds : handled'[j] = IF j = k THEN Append(handled[k], m) ELSE handled[j]
    BY <2>1, <2>2 DEF ListInv
  <2>5. \/ m.type = "data" /\ Data(k, m)
        \/ m.type = "in" /\ OnConnection(k, m)
        \/ m.type = "out" /\ OnDisConnection(k, m)
    BY <2>1, <2>2
  <2>6. /\ CtxInv' /\ HasContext(k, m)'
        /\ \A j \in Kinds, n \in Msg : HasContext(j, n) => HasContext(j, n)'
    BY <2>2, <2>3, <2>5, OneMessage
  <2>7. ASSUME NEW j \in Kinds, NEW i \in 1..Len(handled'[j])
        PROVE  HasContext(j, handled[j][i])'
    <3>1. CASE i \in 1..Len(handled[j])
      <4>0. handled[j] \in Seq(Msg) /\ handled'[j] \in {handled[j], Append(handled[j], m)}
        BY <1>0, <2>4
      <4>1. handled'[j][i] = handled[j][i] /\ handled[j][i] \in Msg
        BY <2>2, <3>1, <4>0
      <4>2. HasContext(j, handled[j][i])
        BY <3>1 DEF RegInv
      <4>. QED
        BY <2>6, <4>1, <4>2 DEF HasContext
    <3>2. CASE ~(i \in 1..Len(handled[j]))
      <4>0. j = k
        BY <2>4, <2>7, <3>2
      <4>1. handled[j] \in Seq(Msg) /\ handled'[j] = Append(handled[j], m)
        BY <1>0, <2>4, <4>0
      <4>2. i = Len(handled[j]) + 1
        BY <2>2, <2>7, <3>2, <4>1
      <4>3. handled'[j][i] = m
        BY <2>2, <4>1, <4>2
      <4>. QED
        BY <2>6, <4>0, <4>3 DEF HasContext
    <3>. QED
      BY <3>1, <3>2
  <2>. QED
    BY <2>6, <2>7 DEF RegInv
<1>8. CASE Swap \/ Recycle \/ Exit \/ Advance \/ UNCHANGED vars
  BY <1>8, <1>a DEF Swap, Recycle, Exit, Advance, vars
<1>. QED
  BY <1>1, <1>2, <1>3, <1>4, <1>5, <1>6, <1>7, <1>8 DEF Next, IoThreads, MainLoop

-----------------------------------------------------------------------------
(* Theorems                                                                *)

\* The inductive invariant.
IInv == TypeOK /\ ListInv /\ LoopInv /\ FdInv /\ MsgInv /\ CtxInv /\ RegInv

\* The types are those of the two parts.
LEMMA TypeParts == NetType /\ ListInv => TypeOK
BY DEF NetType, ListInv, TypeOK

\* The invariant holds before the first callback.
LEMMA InitInv == Init => IInv
<1>. SUFFICES ASSUME Init PROVE IInv
  OBVIOUS
<1>1. /\ EmptyList \in Lists(Msg) /\ IsSequence(EmptyList)
      /\ EmptyList.items = <<>> /\ EmptyList.count = 0
  BY DEF EmptyList, Lists, IsSequence
<1>2. ListInv
  <2>1. CacheBounded
    BY <1>1, SizeAssumption DEF Init, CacheBounded
  <2>2. InOrder
    BY <1>1 DEF Init, InOrder
  <2>3. /\ posted \in [Kinds -> Seq(Msg)] /\ handled \in [Kinds -> Seq(Msg)]
    BY DEF Init
  <2>. QED
    BY <1>1, <2>1, <2>2, <2>3 DEF Init, ListInv
<1>3. NetType
  BY DEF Init, NetType
<1>4. LoopInv /\ FdInv /\ CtxInv
  BY <1>1 DEF Init, LoopInv, FdInv, CtxInv
<1>5. MsgInv /\ RegInv
  BY DEF Init, MsgInv, RegInv
<1>. QED
  BY <1>2, <1>3, <1>4, <1>5, TypeParts DEF IInv

\* Every step keeps it.
LEMMA StepInv == IInv /\ [Next]_vars => IInv'
<1>. SUFFICES ASSUME IInv, [Next]_vars PROVE IInv'
  OBVIOUS
<1>1. TypeOK /\ ListInv /\ LoopInv /\ FdInv /\ MsgInv /\ CtxInv /\ RegInv
  BY DEF IInv
<1>2. NetType' /\ ListInv' /\ LoopInv'
  BY <1>1, ListStep
<1>3. FdInv' /\ MsgInv'
  BY <1>1, MsgStep
<1>4. CtxInv' /\ RegInv'
  BY <1>1, CtxStep
<1>5. TypeOK'
  BY <1>2 DEF NetType, ListInv, TypeOK
<1>. QED
  BY <1>2, <1>3, <1>4, <1>5 DEF IInv

\* One context to a descriptor: the one a connection has is the one found.
LEMMA Finds == IInv => Registered
<1>. SUFFICES ASSUME IInv, NEW k \in Kinds, NEW i \in 1..Len(handled[k]),
                     handled[k][i].type = "in", phase[handled[k][i].sock] = "open"
              PROVE  {c.sock : c \in Found(k, fd[handled[k][i].sock])} = {handled[k][i].sock}
  BY DEF Registered
<1>. DEFINE m == handled[k][i]
<1>1. PICK c \in ctx[k] : c.fd = fd[m.sock] /\ c.sock = m.sock
  BY DEF IInv, RegInv, HasContext
<1>. HIDE DEF m
<1>2. \A d \in ctx[k] : d.fd = fd[m.sock] => d = c
  BY <1>1 DEF IInv, CtxInv
<1>3. Found(k, fd[m.sock]) = {c}
  BY <1>1, <1>2 DEF Found
<1>4. {d.sock : d \in Found(k, fd[m.sock])} = {m.sock}
  BY <1>1, <1>3
<1>. QED
  BY <1>4 DEF m

\* Whatever the callbacks and however they interleave with the loop, the
\* lists that Run() swaps stay sequences of messages and every variable
\* keeps its type.
THEOREM TypeCorrect == Spec => []TypeOK
<1>1. IInv => TypeOK
  BY DEF IInv
<1>. QED
  BY <1>1, InitInv, StepInv, PTL DEF Spec

\* The main loop takes the callbacks of the io threads in the order in which
\* they came, and neither loses one nor takes one twice.
THEOREM MessagesInOrder == Spec => []InOrder
<1>1. IInv => InOrder
  BY DEF IInv, ListInv
<1>. QED
  BY <1>1, InitInv, StepInv, PTL DEF Spec

\* The cache of messages never exceeds _msg_cache_size.
THEOREM CachesBounded == Spec => []CacheBounded
<1>1. IInv => CacheBounded
  BY DEF IInv, ListInv
<1>. QED
  BY <1>1, InitInv, StepInv, PTL DEF Spec

\* An open connection that OnConnection has taken in is the one that its
\* descriptor finds, however descriptors are reused: a stale context of the
\* same number never answers for it.
THEOREM ContextsRight == Spec => []Registered
<1>. QED
  BY Finds, InitInv, StepInv, PTL DEF Spec
=============================================================================
