---------------------------- MODULE LoggerProofs ----------------------------
(***************************************************************************)
(* TLAPS proofs about Logger, for every ring, buffer size and bound.       *)
(***************************************************************************)
EXTENDS Logger, SequenceTheorems, WellFoundedInduction, TLAPS

\* The buffer the dump thread writes is marked full, so log() leaves it alone.
Marked == pc \in {"write", "release"} => node[consumer].status = "full"

Inv == TypeOK /\ Marked

NodeType == [status : {"free", "full"}, used : 0..Size, items : Seq(Nat)]

-----------------------------------------------------------------------------
(* The operators                                                           *)

\* The ring closes on itself.
LEMMA NextType == \A i \in Nodes : next(i) \in Nodes
BY NAssumption DEF Nodes, next

\* Writing a buffer after another leaves a sequence of entries.
LEMMA JoinType == ASSUME NEW s \in Seq(Nat), NEW t \in Seq(Nat) PROVE s \o t \in Seq(Nat)
OBVIOUS

\* Appending an entry to a buffer leaves a buffer, and its status alone.
LEMMA PutType ==
  ASSUME NEW n \in NodeType, NEW e \in Nat, NEW len \in Lens
  PROVE  Put(n, e, len) \in NodeType /\ Put(n, e, len).status = n.status
<1>1. len \in Nat /\ Size \in Nat /\ n.used \in 0..Size /\ n.items \in Seq(Nat)
  BY SizeAssumption DEF NodeType
<1>2. CASE len <= Size - n.used
  <2>1. Put(n, e, len) = [n EXCEPT !.used = n.used + len, !.items = Append(n.items, e)]
    BY <1>2 DEF Put
  <2>2. n.used + len \in 0..Size /\ Append(n.items, e) \in Seq(Nat)
    BY <1>1, <1>2
  <2>. QED
    BY <2>1, <2>2 DEF NodeType
<1>3. CASE ~(len <= Size - n.used)
  BY <1>1, <1>3 DEF Put, NodeType
<1>. QED
  BY <1>2, <1>3

\* log() keeps the types; of the buffers it changes only free ones.
LEMMA LogStep ==
  ASSUME TypeOK, NEW len \in Lens, Log(len)
  PROVE  /\ TypeOK'
         /\ \A i \in Nodes : node[i].status = "full" => (node')[i] = node[i]
<1>. USE DEF NodeType
<1>1. /\ node \in [Nodes -> NodeType] /\ producer \in Nodes /\ consumer \in Nodes
      /\ accepted \in Seq(Nat) /\ dropped \in Nat
      /\ Entry \in Nat /\ Append(accepted, Entry) \in Seq(Nat)
  BY DEF TypeOK, Entry
<1>2. next(producer) \in Nodes
  BY <1>1, NextType
<1>3. UNCHANGED <<consumer, run, pc, file, disk, ioerr>>
  BY DEF Log
<1>4. CASE UNCHANGED <<node, producer, accepted>> /\ dropped' = dropped + 1
  BY <1>1, <1>3, <1>4 DEF TypeOK
<1>5. CASE /\ ~Full(node[producer])
           /\ node' = [node EXCEPT ![producer] = Put(node[producer], Entry, len)]
           /\ accepted' = Append(accepted, Entry)
           /\ UNCHANGED <<producer, dropped>>
  <2>1. node' \in [Nodes -> NodeType]
    BY <1>1, <1>5, PutType
  <2>2. \A i \in Nodes : node[i].status = "full" => (node')[i] = node[i]
    BY <1>1, <1>5 DEF Full
  <2>. QED
    BY <1>1, <1>3, <1>5, <2>1, <2>2 DEF TypeOK
<1>6. CASE ~Full(node[producer]) /\ ~Fits(node[producer], len)
  <2>. DEFINE marked == [node EXCEPT ![producer].status = "full"]
  <2>1. /\ producer' = next(producer)
        /\ \/ node' = marked /\ dropped' = dropped + 1 /\ UNCHANGED accepted
           \/ /\ ~Full(marked[producer'])
              /\ node' = [marked EXCEPT ![producer'] = Put(marked[producer'], Entry, len)]
              /\ accepted' = Append(accepted, Entry) /\ UNCHANGED dropped
    BY <1>6 DEF Log
  <2>2. /\ marked \in [Nodes -> NodeType]
        /\ \A i \in Nodes : node[i].status = "full" => marked[i] = node[i]
    BY <1>1, <1>6 DEF Full
  <2>3. producer' \in Nodes
    BY <1>2, <2>1
  <2>. HIDE DEF marked
  <2>4. CASE node' = marked /\ dropped' = dropped + 1 /\ UNCHANGED accepted
    BY <1>1, <1>3, <2>2, <2>3, <2>4 DEF TypeOK
  <2>5. CASE /\ ~Full(marked[producer'])
             /\ node' = [marked EXCEPT ![producer'] = Put(marked[producer'], Entry, len)]
             /\ accepted' = Append(accepted, Entry) /\ UNCHANGED dropped
    <3>1. Put(marked[producer'], Entry, len) \in NodeType
      BY <1>1, <2>2, <2>3, PutType
    <3>2. node' \in [Nodes -> NodeType]
      BY <2>2, <2>5, <3>1
    <3>3. \A i \in Nodes : node[i].status = "full" => (node')[i] = node[i]
      BY <2>2, <2>3, <2>5 DEF Full
    <3>. QED
      BY <1>1, <1>3, <2>3, <2>5, <3>2, <3>3 DEF TypeOK
  <2>. QED
    BY <2>1, <2>4, <2>5
<1>. QED
  BY <1>4, <1>5, <1>6 DEF Log

-----------------------------------------------------------------------------
(* FlattenSeq                                                              *)

\* A set of naturals has a least one.
LEMMA LeastNat ==
  ASSUME NEW T, T \subseteq Nat, T # {}
  PROVE  \E x \in T : \A y \in T : ~(y < x)
<1>1. PICK m \in T : \A k \in T : <<k, m>> \notin OpToRel(<, Nat)
  BY WFMin, NatLessThanWellFounded, Zenon
<1>. QED
  BY <1>1, Zenon DEF OpToRel

\* g holds the joins of the first buffers of s.
Joins(g, s, n) == \A i \in 1..n : g[i] = IF i = 1 THEN s[i] ELSE g[i - 1] \o s[i]

\* There are such joins.
LEMMA JoinsExist ==
  ASSUME NEW S, NEW n \in Nat, NEW s \in [1..n -> Seq(S)]
  PROVE  \A k \in 1..n : \E g \in [1..k -> Seq(S)] : Joins(g, s, k)
<1>. DEFINE T == {k \in 1..n : ~ \E g \in [1..k -> Seq(S)] : Joins(g, s, k)}
<1>1. SUFFICES ASSUME T # {} PROVE FALSE
  OBVIOUS
<1>2. /\ T \subseteq Nat
      /\ \A k \in 1..n : k \in T <=> ~ \E g \in [1..k -> Seq(S)] : Joins(g, s, k)
      /\ T \subseteq 1..n
  OBVIOUS
<1>. HIDE DEF T
<1>3. PICK m \in T : \A y \in T : ~(y < m)
  BY <1>1, <1>2, LeastNat
<1>4. m \in 1..n /\ ~ \E g \in [1..m -> Seq(S)] : Joins(g, s, m)
  BY <1>2
<1>5. CASE m = 1
  <2>1. [i \in 1..1 |-> s[1]] \in [1..1 -> Seq(S)] /\ Joins([i \in 1..1 |-> s[1]], s, 1)
    BY <1>4, <1>5 DEF Joins
  <2>. QED
    BY <1>4, <1>5, <2>1
<1>6. CASE m # 1
  <2>1. m - 1 \in 1..n /\ m - 1 < m /\ m > 1
    BY <1>4, <1>6
  <2>2. m - 1 \notin T
    BY <1>3, <2>1
  <2>3. PICK f \in [1..(m - 1) -> Seq(S)] : Joins(f, s, m - 1)
    BY <1>2, <2>1, <2>2
  <2>. DEFINE g == [i \in 1..m |-> IF i = m THEN f[m - 1] \o s[m] ELSE f[i]]
  <2>4. f[m - 1] \o s[m] \in Seq(S)
    BY <1>4, <2>1, <2>3, ConcatProperties
  <2>5. g \in [1..m -> Seq(S)]
    BY <1>4, <2>3, <2>4
  <2>6. ASSUME NEW i \in 1..m
        PROVE  g[i] = IF i = 1 THEN s[i] ELSE g[i - 1] \o s[i]
    <3>1. CASE i = m
      <4>1. m \in 1..m /\ m - 1 \in 1..m /\ m - 1 # m /\ m # 1
        BY <1>4, <2>1
      <4>2. g[m] = f[m - 1] \o s[m] /\ g[m - 1] = f[m - 1]
        BY <4>1
      <4>. QED
        BY <3>1, <4>1, <4>2
    <3>2. CASE i # m
      <4>1. i \in 1..(m - 1) /\ g[i] = f[i]
        BY <1>4, <3>2
      <4>2. f[i] = IF i = 1 THEN s[i] ELSE f[i - 1] \o s[i]
        BY <2>3, <4>1 DEF Joins
      <4>3. i # 1 => g[i - 1] = f[i - 1]
        BY <1>4, <4>1
      <4>. QED
        BY <4>1, <4>2, <4>3
    <3>. QED
      BY <3>1, <3>2
  <2>. HIDE DEF g
  <2>7. Joins(g, s, m)
    BY <2>6 DEF Joins
  <2>. QED
    BY <1>4, <2>5, <2>7
<1>. QED
  BY <1>5, <1>6

\* Whatever holds the joins of all buffers of s ends with FlattenSeq(s).
LEMMA FlattenJoins ==
  ASSUME NEW S, NEW n \in Nat \ {0}, NEW s \in [1..n -> Seq(S)], NEW g, Joins(g, s, n)
  PROVE  FlattenSeq(s) = g[n]
<1>. DEFINE f == CHOOSE h : h = [i \in 1..n |-> IF i = 1 THEN s[i] ELSE h[i - 1] \o s[i]]
            T == {i \in 1..n : f[i] # g[i]}
<1>0. Len(s) = n
  OBVIOUS
<1>1. FlattenSeq(s) = f[n]
  BY <1>0 DEF FlattenSeq
<1>2. \E h : h = [i \in 1..n |-> IF i = 1 THEN s[i] ELSE h[i - 1] \o s[i]]
  <2>1. PICK h \in [1..n -> Seq(S)] : Joins(h, s, n)
    BY JoinsExist
  <2>2. h = [i \in 1..n |-> IF i = 1 THEN s[i] ELSE h[i - 1] \o s[i]]
    BY <2>1 DEF Joins
  <2>. QED
    BY <2>2
<1>3. f = [i \in 1..n |-> IF i = 1 THEN s[i] ELSE f[i - 1] \o s[i]]
  BY <1>2, Zenon
<1>. HIDE DEF f
<1>4. Joins(f, s, n)
  BY <1>3 DEF Joins
<1>5. SUFFICES ASSUME T # {} PROVE FALSE
  BY <1>1
<1>6. /\ T \subseteq Nat /\ \A i \in T : i \in 1..n /\ f[i] # g[i]
      /\ \A i \in 1..n : i \notin T => f[i] = g[i]
  OBVIOUS
<1>. HIDE DEF T
<1>7. PICK m \in T : \A y \in T : ~(y < m)
  BY <1>5, <1>6, LeastNat
<1>8. m \in 1..n /\ f[m] # g[m]
  BY <1>6
<1>9. CASE m = 1
  BY <1>4, <1>8, <1>9 DEF Joins
<1>10. CASE m # 1
  <2>1. m - 1 \in 1..n /\ m - 1 \notin T
    BY <1>7, <1>8, <1>10
  <2>2. f[m - 1] = g[m - 1]
    BY <1>6, <2>1
  <2>. QED
    BY <1>4, <1>8, <1>10, <2>2 DEF Joins
<1>. QED
  BY <1>9, <1>10

\* No buffers hold nothing.
LEMMA FlattenNone == ASSUME NEW S, NEW s \in [1..0 -> Seq(S)] PROVE FlattenSeq(s) = <<>>
<1>1. Len(s) = 0 /\ s = <<>>
  OBVIOUS
<1>. QED
  BY <1>1 DEF FlattenSeq

\* Joining buffers gives a sequence of entries.
LEMMA FlattenType ==
  ASSUME NEW S, NEW n \in Nat, NEW s \in [1..n -> Seq(S)]
  PROVE  FlattenSeq(s) \in Seq(S)
<1>1. CASE n = 0
  <2>1. FlattenSeq(s) = <<>>
    BY <1>1, FlattenNone
  <2>2. <<>> \in Seq(S)
    OBVIOUS
  <2>. QED
    BY <2>1, <2>2, Zenon
<1>2. CASE n # 0
  <2>1. PICK g \in [1..n -> Seq(S)] : Joins(g, s, n)
    BY <1>2, JoinsExist
  <2>2. FlattenSeq(s) = g[n]
    BY <1>2, <2>1, FlattenJoins
  <2>. QED
    BY <1>2, <2>1, <2>2
<1>. QED
  BY <1>1, <1>2

\* Empty buffers hold nothing.
LEMMA FlattenEmpty ==
  ASSUME NEW S, NEW n \in Nat, NEW s \in [1..n -> Seq(S)], \A i \in 1..n : s[i] = <<>>
  PROVE  FlattenSeq(s) = <<>>
<1>1. CASE n = 0
  BY <1>1, FlattenNone
<1>2. CASE n # 0
  <2>1. <<>> \o <<>> = <<>>
    OBVIOUS
  <2>2. Joins(s, s, n)
    BY <2>1 DEF Joins
  <2>3. FlattenSeq(s) = s[n]
    BY <1>2, <2>2, FlattenJoins
  <2>. QED
    BY <1>2, <2>3
<1>. QED
  BY <1>1, <1>2

\* Appending to the second of two joined buffers.
LEMMA AppendJoin ==
  ASSUME NEW S, NEW e \in S
  PROVE  \A a, b \in Seq(S) : Append(a \o b, e) = a \o Append(b, e)
OBVIOUS

\* Joining nothing.
LEMMA JoinEmpty ==
  ASSUME NEW S
  PROVE  \A a \in Seq(S) : a \o <<>> = a /\ <<>> \o a = a
OBVIOUS

\* Joining is associative.
LEMMA JoinAssoc == \A a, b, c \in Seq(Nat) : (a \o b) \o c = a \o (b \o c)
BY ConcatAssociative, SMT

\* An entry added to a buffer with only empty ones after it is added at the end.
LEMMA EntryAppended ==
  \A n \in Nat : \A s, t \in [1..n -> Seq(Nat)] : \A m \in 1..n, e \in Nat :
    /\ t[m] = Append(s[m], e)
    /\ \A i \in 1..n : i # m => t[i] = s[i]
    /\ \A i \in 1..n : i > m => s[i] = <<>>
    => FlattenSeq(t) = Append(FlattenSeq(s), e)
<1>. SUFFICES ASSUME NEW n \in Nat, NEW s \in [1..n -> Seq(Nat)], NEW t \in [1..n -> Seq(Nat)],
                     NEW m \in 1..n, NEW e \in Nat, t[m] = Append(s[m], e),
                     \A i \in 1..n : i # m => t[i] = s[i],
                     \A i \in 1..n : i > m => s[i] = <<>>
              PROVE  FlattenSeq(t) = Append(FlattenSeq(s), e)
  BY Zenon
<1>0. m \in Nat /\ m <= n /\ n \in Nat \ {0} /\ n \in 1..n
  OBVIOUS
<1>1. PICK f \in [1..n -> Seq(Nat)] : Joins(f, s, n)
  BY <1>0, JoinsExist
<1>. DEFINE g == [i \in 1..n |-> IF i < m THEN f[i] ELSE Append(f[i], e)]
<1>2. ASSUME NEW i \in 1..n
      PROVE  g[i] = IF i = 1 THEN t[i] ELSE g[i - 1] \o t[i]
  <2>1. f[i] = IF i = 1 THEN s[i] ELSE f[i - 1] \o s[i]
    BY <1>1 DEF Joins
  <2>2. i # 1 => i - 1 \in 1..n /\ f[i - 1] \in Seq(Nat)
    BY <1>0
  <2>3. CASE i < m
    <3>1. g[i] = f[i] /\ t[i] = s[i] /\ (i # 1 => g[i - 1] = f[i - 1])
      BY <1>0, <2>2, <2>3
    <3>. QED
      BY <2>1, <3>1
  <2>4. CASE i = m
    <3>1. g[i] = Append(f[i], e) /\ t[i] = Append(s[i], e) /\ (i # 1 => g[i - 1] = f[i - 1])
      BY <1>0, <2>2, <2>4
    <3>2. s[i] \in Seq(Nat)
      OBVIOUS
    <3>3. i # 1 => Append(f[i - 1] \o s[i], e) = f[i - 1] \o Append(s[i], e)
      <4>1. \A a, b \in Seq(Nat) : Append(a \o b, e) = a \o Append(b, e)
        BY AppendJoin, Zenon
      <4>. QED
        BY <2>2, <3>2, <4>1, Zenon
    <3>. QED
      BY <2>1, <3>1, <3>3
  <2>5. CASE i > m
    <3>1. i # 1 /\ i - 1 >= m /\ ~(i - 1 < m) /\ ~(i < m) /\ i # m
      BY <1>0, <2>5
    <3>2. s[i] = <<>> /\ t[i] = <<>>
      BY <2>5, <3>1
    <3>3. g[i] = Append(f[i], e) /\ g[i - 1] = Append(f[i - 1], e)
      BY <2>2, <3>1
    <3>4. Append(f[i - 1], e) \in Seq(Nat)
      BY <2>2, <3>1
    <3>5. f[i - 1] \o <<>> = f[i - 1] /\ Append(f[i - 1], e) \o <<>> = Append(f[i - 1], e)
      BY <2>2, <3>1, <3>4, JoinEmpty
    <3>. QED
      BY <2>1, <3>1, <3>2, <3>3, <3>5
  <2>. QED
    BY <1>0, <2>3, <2>4, <2>5
<1>3. g[n] = Append(f[n], e)
  BY <1>0
<1>. HIDE DEF g
<1>4. Joins(g, t, n)
  BY <1>2 DEF Joins
<1>5. FlattenSeq(s) = f[n]
  BY <1>0, <1>1, FlattenJoins
<1>6. FlattenSeq(t) = g[n]
  BY <1>0, <1>4, FlattenJoins
<1>. QED
  BY <1>3, <1>5, <1>6

\* The first buffer comes first.
LEMMA FlattenHead ==
  ASSUME NEW n \in Nat, NEW s \in [1..(n + 1) -> Seq(Nat)], NEW t \in [1..n -> Seq(Nat)],
         \A i \in 1..n : t[i] = s[i + 1]
  PROVE  FlattenSeq(s) = s[1] \o FlattenSeq(t)
<1>0. n + 1 \in Nat \ {0} /\ 1 \in 1..(n + 1) /\ s[1] \in Seq(Nat)
  OBVIOUS
<1>1. CASE n = 0
  <2>1. FlattenSeq(t) = <<>>
    BY <1>1, FlattenNone
  <2>2. Joins(s, s, n + 1)
    BY <1>1 DEF Joins
  <2>3. FlattenSeq(s) = s[n + 1]
    BY <1>0, <2>2, FlattenJoins
  <2>4. s[1] \o <<>> = s[1]
    BY <1>0, JoinEmpty
  <2>. QED
    BY <1>1, <2>1, <2>3, <2>4
<1>2. CASE n # 0
  <2>0. n \in 1..n /\ n \in Nat \ {0} /\ 1 \in 1..n
    BY <1>2
  <2>1. PICK f \in [1..n -> Seq(Nat)] : Joins(f, t, n)
    BY <2>0, JoinsExist
  <2>. DEFINE g == [i \in 1..(n + 1) |-> IF i = 1 THEN s[1] ELSE s[1] \o f[i - 1]]
  <2>2. ASSUME NEW i \in 1..(n + 1)
        PROVE  g[i] = IF i = 1 THEN s[i] ELSE g[i - 1] \o s[i]
    <3>1. CASE i = 1
      BY <3>1
    <3>2. CASE i = 2
      <4>1. f[1] = t[1] /\ t[1] = s[2]
        BY <2>0, <2>1 DEF Joins
      <4>2. 2 \in 1..(n + 1) /\ 2 # 1 /\ 2 - 1 = 1
        BY <2>0
      <4>3. g[2] = s[1] \o f[2 - 1] /\ g[1] = s[1]
        BY <1>0, <4>2
      <4>. QED
        BY <3>2, <4>1, <4>2, <4>3
    <3>3. CASE i > 2
      <4>1. /\ i - 1 \in 1..n /\ i - 2 \in 1..n /\ i - 1 # 1 /\ (i - 1) - 1 = i - 2
            /\ i - 1 \in 1..(n + 1) /\ i # 1 /\ (i - 1) + 1 = i
        BY <3>3
      <4>2. f[i - 1] = f[i - 2] \o t[i - 1] /\ t[i - 1] = s[i]
        BY <2>1, <4>1 DEF Joins
      <4>3. f[i - 2] \in Seq(Nat) /\ s[i] \in Seq(Nat)
        BY <4>1
      <4>4. s[1] \o (f[i - 2] \o s[i]) = (s[1] \o f[i - 2]) \o s[i]
        <5>1. s[1] \in Seq(Nat)
          BY <1>0
        <5>. QED
          BY <4>3, <5>1, JoinAssoc, Zenon
      <4>5. g[i] = s[1] \o f[i - 1] /\ g[i - 1] = s[1] \o f[i - 2]
        BY <4>1
      <4>. QED
        BY <4>1, <4>2, <4>4, <4>5
    <3>. QED
      BY <3>1, <3>2, <3>3
  <2>3. g[n + 1] = s[1] \o f[n]
    <3>1. n + 1 \in 1..(n + 1) /\ n + 1 # 1 /\ (n + 1) - 1 = n
      BY <2>0
    <3>2. g[n + 1] = IF n + 1 = 1 THEN s[1] ELSE s[1] \o f[(n + 1) - 1]
      BY <3>1, Zenon
    <3>. QED
      BY <3>1, <3>2, Zenon
  <2>. HIDE DEF g
  <2>4. Joins(g, s, n + 1)
    BY <2>2 DEF Joins
  <2>5. FlattenSeq(t) = f[n]
    BY <2>0, <2>1, FlattenJoins
  <2>6. FlattenSeq(s) = g[n + 1]
    BY <1>0, <2>4, FlattenJoins
  <2>. QED
    BY <2>3, <2>5, <2>6
<1>. QED
  BY <1>1, <1>2

\* An empty buffer at the end adds nothing.
LEMMA EmptyAdded ==
  \A n \in Nat : \A s \in [1..n -> Seq(Nat)], t \in [1..(n + 1) -> Seq(Nat)] :
    (\A i \in 1..n : t[i] = s[i]) /\ t[n + 1] = <<>> => FlattenSeq(t) = FlattenSeq(s)
<1>. SUFFICES ASSUME NEW n \in Nat, NEW s \in [1..n -> Seq(Nat)],
                     NEW t \in [1..(n + 1) -> Seq(Nat)],
                     \A i \in 1..n : t[i] = s[i], t[n + 1] = <<>>
              PROVE  FlattenSeq(t) = FlattenSeq(s)
  BY Zenon
<1>0. n + 1 \in Nat \ {0}
  OBVIOUS
<1>1. CASE n = 0
  <2>1. FlattenSeq(s) = <<>>
    BY <1>1, FlattenNone
  <2>2. Joins(t, t, n + 1)
    BY <1>1 DEF Joins
  <2>3. FlattenSeq(t) = t[n + 1]
    BY <1>0, <2>2, FlattenJoins
  <2>. QED
    BY <2>1, <2>3
<1>2. CASE n # 0
  <2>0. n \in 1..n /\ n \in Nat \ {0}
    BY <1>2
  <2>1. PICK f \in [1..n -> Seq(Nat)] : Joins(f, s, n)
    BY <2>0, JoinsExist
  <2>. DEFINE g == [i \in 1..(n + 1) |-> IF i = n + 1 THEN f[n] ELSE f[i]]
  <2>2. ASSUME NEW i \in 1..(n + 1)
        PROVE  g[i] = IF i = 1 THEN t[i] ELSE g[i - 1] \o t[i]
    <3>1. CASE i = n + 1
      <4>1. i # 1 /\ i - 1 = n /\ n \in 1..(n + 1) /\ n # n + 1
        BY <2>0, <3>1
      <4>2. g[i] = f[n] /\ g[i - 1] = f[n] /\ f[n] \in Seq(Nat)
        BY <2>0, <3>1, <4>1
      <4>3. f[n] \o <<>> = f[n]
        BY <4>2, JoinEmpty
      <4>. QED
        BY <3>1, <4>1, <4>2, <4>3
    <3>2. CASE i # n + 1
      <4>1. i \in 1..n /\ (i # 1 => i - 1 \in 1..(n + 1) /\ i - 1 # n + 1)
        BY <3>2
      <4>2. f[i] = IF i = 1 THEN s[i] ELSE f[i - 1] \o s[i]
        BY <2>1, <4>1 DEF Joins
      <4>3. g[i] = f[i] /\ (i # 1 => g[i - 1] = f[i - 1]) /\ t[i] = s[i]
        BY <3>2, <4>1
      <4>. QED
        BY <4>2, <4>3
    <3>. QED
      BY <3>1, <3>2
  <2>3. g[n + 1] = f[n]
    BY <1>0
  <2>. HIDE DEF g
  <2>4. Joins(g, t, n + 1)
    BY <2>2 DEF Joins
  <2>5. FlattenSeq(s) = f[n]
    BY <2>0, <2>1, FlattenJoins
  <2>6. FlattenSeq(t) = g[n + 1]
    BY <1>0, <2>4, FlattenJoins
  <2>. QED
    BY <2>3, <2>5, <2>6
<1>. QED
  BY <1>1, <1>2

-----------------------------------------------------------------------------
(* The ring, read from the consumer                                        *)

\* The buffer k places after buffer c.
Pos(c, k) == IF c + k < N THEN c + k ELSE c + k - N
At(k) == node[Pos(consumer, k)]

\* The first m buffers from the consumer are full.  The producer is at the
\* next one, or was overtaken: it is at the consumer, whose buffer is full,
\* and waits for dump() to move it.  What lies beyond holds nothing.
Ring(m) ==
  /\ \A k \in 0..(m - 1) : Full(At(k))
  /\ \A k \in m..(N - 1) : ~Full(At(k))
  /\ \A k \in (m + 1)..(N - 1) : At(k) = EmptyNode
  /\ \/ m < N /\ producer = Pos(consumer, m)
     \/ m > 0 /\ producer = consumer /\ (m < N => At(m) = EmptyNode)
RingInv == \E m \in 0..N : Ring(m)

\* Places are the code's arithmetic modulo _node_cnt.
LEMMA PosMod == \A c \in Nodes, k \in 0..N : Pos(c, k) = (c + k) % N
<1>1. \A x \in 0..(N - 1) : x % N = x
  BY NAssumption
<1>. TAKE c \in Nodes, k \in 0..N
<1>3. CASE c + k < N
  <2>1. c + k \in 0..(N - 1)
    BY <1>3, NAssumption DEF Nodes
  <2>. QED
    BY <1>1, <1>3, <2>1 DEF Pos
<1>4. CASE ~(c + k < N)
  <2>1. PICK x : x = c + k
    OBVIOUS
  <2>2. x \in Nat /\ N <= x /\ x < N + N
    BY <1>4, <2>1, NAssumption DEF Nodes
  <2>3. x % N = x - N
    BY <2>2, NAssumption
  <2>. QED
    BY <1>4, <2>1, <2>2, <2>3, NAssumption DEF Nodes, Pos
<1>. QED
  BY <1>3, <1>4

\* Every place is a buffer, and different places are different buffers.
LEMMA PosNode ==
  ASSUME NEW c \in Nodes
  PROVE  /\ \A k \in 0..N : Pos(c, k) \in Nodes
         /\ \A k \in 0..(N - 1) : Pos(c, k) \in Nodes
         /\ \A k, j \in 0..(N - 1) : k # j => Pos(c, k) # Pos(c, j)
         /\ Pos(c, 0) = c /\ Pos(c, N) = c
BY NAssumption DEF Nodes, Pos

\* Every place but the j-th holds another buffer.
LEMMA PosOther ==
  ASSUME NEW c \in Nodes, NEW j \in 0..(N - 1)
  PROVE  \A k \in 0..(N - 1) : k # j => Pos(c, k) # Pos(c, j) /\ Pos(c, k) \in Nodes
BY PosNode

\* The producer and the consumer go on by one place.
LEMMA PosNext ==
  ASSUME NEW c \in Nodes
  PROVE  /\ \A k \in 0..(N - 1) : next(Pos(c, k)) = Pos(c, k + 1)
         /\ \A k \in 0..(N - 1) : Pos(next(c), k) = Pos(c, k + 1)
         /\ \A i \in Nodes : \E k \in 0..(N - 1) : i = Pos(c, k)
<1>1. \A i \in Nodes : next(i) = IF i + 1 = N THEN 0 ELSE i + 1
  <2>1. \A i \in Nodes : next(i) = Pos(i, 1)
    BY PosMod, NAssumption DEF next
  <2>. QED
    BY <2>1, NAssumption DEF Nodes, Pos
<1>2. \A k \in 0..(N - 1) : next(Pos(c, k)) = Pos(c, k + 1)
  BY <1>1, PosNode, NAssumption DEF Nodes, Pos
<1>3. \A k \in 0..(N - 1) : Pos(next(c), k) = Pos(c, k + 1)
  BY <1>1, NAssumption DEF Nodes, Pos
<1>4. ASSUME NEW i \in Nodes PROVE \E k \in 0..(N - 1) : i = Pos(c, k)
  <2>. DEFINE j == IF i < c THEN i - c + N ELSE i - c
  <2>1. j \in 0..(N - 1) /\ i = Pos(c, j)
    BY NAssumption DEF Nodes, Pos
  <2>. QED
    BY <2>1
<1>. QED
  BY <1>2, <1>3, <1>4

\* The entries of the ring nd with its consumer at c, buffer by buffer,
\* without the first from of them.
Items(nd, c, from) == [k \in 1..(N - from) |-> nd[Pos(c, from + k - 1)].items]
From == IF pc = "release" THEN 1 ELSE 0

\* Read with the code's arithmetic they are the same.
LEMMA ItemsMod ==
  ASSUME NEW nd \in [Nodes -> NodeType], NEW c \in Nodes, NEW from \in {0, 1}
  PROVE  /\ Items(nd, c, from) = [k \in 1..(N - from) |-> nd[(c + from + k - 1) % N].items]
         /\ Items(nd, c, from) \in [1..(N - from) -> Seq(Nat)]
<1>1. ASSUME NEW k \in 1..(N - from)
      PROVE  /\ nd[Pos(c, from + k - 1)] = nd[(c + from + k - 1) % N]
             /\ nd[Pos(c, from + k - 1)].items \in Seq(Nat)
  <2>1. from + k - 1 \in 0..N /\ c + (from + k - 1) = c + from + k - 1
    BY NAssumption DEF Nodes
  <2>2. Pos(c, from + k - 1) = (c + from + k - 1) % N
    BY <2>1, PosMod
  <2>3. Pos(c, from + k - 1) \in Nodes
    BY <2>1, PosNode
  <2>. QED
    BY <2>2, <2>3 DEF NodeType
<1>. QED
  BY <1>1 DEF Items

\* What LogIntact calls held is their join, before and after a step.
LEMMA HeldItems ==
  ASSUME TypeOK, TypeOK'
  PROVE  /\ Held = FlattenSeq(Items(node, consumer, From))
         /\ Items(node, consumer, From) \in [1..(N - From) -> Seq(Nat)]
         /\ Held' = FlattenSeq(Items(node', consumer', From'))
         /\ Items(node', consumer', From') \in [1..(N - From') -> Seq(Nat)]
<1>1. /\ node \in [Nodes -> NodeType] /\ consumer \in Nodes /\ From \in {0, 1}
      /\ node' \in [Nodes -> NodeType] /\ consumer' \in Nodes /\ From' \in {0, 1}
  BY DEF TypeOK, NodeType, From
<1>2. Held = FlattenSeq([k \in 1..(N - From) |-> node[(consumer + From + k - 1) % N].items])
  BY DEF Held, From
<1>3. Held' = FlattenSeq([k \in 1..(N - From') |->
                            node'[(consumer' + From' + k - 1) % N].items])
  BY DEF Held, From
<1>4. \A nd \in [Nodes -> NodeType], c \in Nodes, from \in {0, 1} :
        /\ Items(nd, c, from) = [k \in 1..(N - from) |-> nd[(c + from + k - 1) % N].items]
        /\ Items(nd, c, from) \in [1..(N - from) -> Seq(Nat)]
  BY ItemsMod, Zenon
<1>5. /\ Held = FlattenSeq(Items(node, consumer, From))
      /\ Items(node, consumer, From) \in [1..(N - From) -> Seq(Nat)]
  BY <1>1, <1>2, <1>4, Zenon
<1>6. /\ Held' = FlattenSeq(Items(node', consumer', From'))
      /\ Items(node', consumer', From') \in [1..(N - From') -> Seq(Nat)]
  BY <1>1, <1>3, <1>4, Zenon
<1>. QED
  BY <1>5, <1>6, Zenon

\* An entry put in the last buffer that is in use comes last.
LEMMA HeldAppend ==
  ASSUME TypeOK, TypeOK', UNCHANGED <<consumer, pc>>,
         NEW m \in 0..(N - 1), pc = "release" => m > 0,
         NEW e \in Nat,
         node'[Pos(consumer, m)].items = Append(node[Pos(consumer, m)].items, e),
         \A k \in 0..(N - 1) :
           k # m => node'[Pos(consumer, k)].items = node[Pos(consumer, k)].items,
         \A k \in (m + 1)..(N - 1) : node[Pos(consumer, k)].items = <<>>
  PROVE  Held' = Append(Held, e)
<1>. DEFINE from == From
            s == Items(node, consumer, from)
            t == Items(node', consumer, from)
            j == m + 1 - from
            n == N - from
<1>0. n \in Nat /\ from \in {0, 1} /\ j \in 1..n /\ From' = From
  BY NAssumption DEF From
<1>1. s \in [1..n -> Seq(Nat)] /\ t \in [1..n -> Seq(Nat)]
  BY <1>0, HeldItems
<1>2. Held = FlattenSeq(s) /\ Held' = FlattenSeq(t)
  BY <1>0, HeldItems
<1>3. \A k \in 1..n : /\ s[k] = node[Pos(consumer, from + k - 1)].items
                      /\ t[k] = node'[Pos(consumer, from + k - 1)].items
  BY DEF Items
<1>4. /\ \A k \in 1..n : from + k - 1 \in 0..(N - 1) /\ (k # j => from + k - 1 # m)
      /\ \A k \in 1..n : k > j => from + k - 1 \in (m + 1)..(N - 1)
      /\ from + j - 1 = m
  BY <1>0, NAssumption
<1>. HIDE DEF from, s, t, j, n
<1>5. t[j] = Append(s[j], e)
  BY <1>0, <1>3, <1>4
<1>6. \A k \in 1..n : k # j => t[k] = s[k]
  BY <1>3, <1>4
<1>7. \A k \in 1..n : k > j => s[k] = <<>>
  BY <1>3, <1>4
<1>8. FlattenSeq(t) = Append(FlattenSeq(s), e)
  BY <1>0, <1>1, <1>5, <1>6, <1>7, EntryAppended, Zenon
<1>. QED
  BY <1>2, <1>8

\* What the ring holds depends on the entries in it alone.
LEMMA HeldSame ==
  ASSUME TypeOK, TypeOK', UNCHANGED consumer, pc' = "release" <=> pc = "release",
         \A i \in Nodes : node'[i].items = node[i].items
  PROVE  Held' = Held
<1>1. From' = From /\ From \in {0, 1} /\ consumer \in Nodes
  BY DEF From, TypeOK
<1>2. \A k \in 1..(N - From) : Pos(consumer, From + k - 1) \in Nodes
  <2>1. \A k \in 1..(N - From) : From + k - 1 \in 0..N
    BY <1>1, NAssumption
  <2>. QED
    BY <1>1, <2>1, PosNode
<1>3. Items(node', consumer, From) = Items(node, consumer, From)
  BY <1>2 DEF Items
<1>. QED
  BY <1>1, <1>3, HeldItems

\* Writing the consumer's buffer takes its entries out of the ring ...
LEMMA HeldWritten ==
  ASSUME TypeOK, TypeOK', UNCHANGED <<node, consumer>>, pc # "release", pc' = "release"
  PROVE  Held = node[consumer].items \o Held'
<1>. DEFINE n == N - 1
            s == Items(node, consumer, 0)
            t == Items(node, consumer, 1)
<1>0. n \in Nat /\ n + 1 = N /\ From = 0 /\ From' = 1 /\ N - 0 = N
  BY NAssumption DEF From
<1>1. s \in [1..(n + 1) -> Seq(Nat)] /\ t \in [1..n -> Seq(Nat)]
  BY <1>0, HeldItems
<1>2. Held = FlattenSeq(s) /\ Held' = FlattenSeq(t)
  BY <1>0, HeldItems
<1>3. \A i \in 1..n : t[i] = s[i + 1]
  <2>1. \A i \in 1..n : i + 1 \in 1..(N - 0) /\ 1 + i - 1 = 0 + (i + 1) - 1
    BY <1>0
  <2>. QED
    BY <2>1 DEF Items
<1>4. s[1] = node[consumer].items
  <2>1. consumer \in Nodes /\ 1 \in 1..(N - 0) /\ 0 + 1 - 1 = 0
    BY NAssumption DEF TypeOK
  <2>. QED
    BY <2>1, PosNode DEF Items
<1>. HIDE DEF n, s, t
<1>5. FlattenSeq(s) = s[1] \o FlattenSeq(t)
  BY <1>0, <1>1, <1>3, FlattenHead
<1>. QED
  BY <1>2, <1>4, <1>5

\* ... and giving it back leaves the others.
LEMMA HeldReleased ==
  ASSUME TypeOK, TypeOK', pc = "release", pc' # "release", consumer' = next(consumer),
         node' = [node EXCEPT ![consumer] = EmptyNode]
  PROVE  Held' = Held
<1>. DEFINE n == N - 1
            s == Items(node, consumer, 1)
            t == Items(node', consumer', 0)
<1>0. n \in Nat /\ n + 1 = N /\ From = 1 /\ From' = 0 /\ N - 0 = N
  BY NAssumption DEF From
<1>1. s \in [1..n -> Seq(Nat)] /\ t \in [1..(n + 1) -> Seq(Nat)]
  BY <1>0, HeldItems
<1>2. Held = FlattenSeq(s) /\ Held' = FlattenSeq(t)
  BY <1>0, HeldItems
<1>c. consumer \in Nodes /\ node \in [Nodes -> NodeType]
  BY DEF TypeOK, NodeType
<1>3. ASSUME NEW i \in 1..(n + 1) PROVE t[i] = node'[Pos(consumer, i)].items
  <2>1. i - 1 \in 0..(N - 1) /\ 0 + i - 1 = i - 1 /\ (i - 1) + 1 = i /\ i \in 1..(N - 0)
    BY <1>0
  <2>2. Pos(consumer', i - 1) = Pos(consumer, i)
    BY <1>c, <2>1, PosNext
  <2>. QED
    BY <2>1, <2>2 DEF Items
<1>4. \A i \in 1..n : t[i] = s[i]
  <2>. TAKE i \in 1..n
  <2>1. i \in 0..(N - 1) /\ i # 0 /\ 0 \in 0..(N - 1) /\ 1 + i - 1 = i /\ i \in 1..(n + 1)
        /\ i \in 0..N
    BY <1>0
  <2>2. Pos(consumer, i) \in Nodes
    BY <1>c, <2>1, PosNode
  <2>5. Pos(consumer, 0) = consumer /\ Pos(consumer, i) # Pos(consumer, 0)
    BY <1>c, <2>1, PosNode
  <2>3. node'[Pos(consumer, i)] = node[Pos(consumer, i)]
    BY <1>c, <2>2, <2>5
  <2>4. s[i] = node[Pos(consumer, i)].items
    BY <2>1 DEF Items
  <2>. QED
    BY <1>3, <2>1, <2>3, <2>4
<1>5. t[n + 1] = <<>>
  <2>1. n + 1 \in 1..(n + 1) /\ Pos(consumer, n + 1) = consumer
    BY <1>0, <1>c, PosNode
  <2>2. t[n + 1] = node'[consumer].items
    BY <1>3, <2>1
  <2>. QED
    BY <1>c, <2>2 DEF EmptyNode
<1>. HIDE DEF n, s, t
<1>6. FlattenSeq(t) = FlattenSeq(s)
  BY <1>0, <1>1, <1>4, <1>5, EmptyAdded, Zenon
<1>. QED
  BY <1>2, <1>6

-----------------------------------------------------------------------------
(* The ring is kept, and with it the log                                   *)

\* What the producer may write to is not full, so it was not overtaken: it is
\* at the end of what is in use.
LEMMA ProducerPlace ==
  ASSUME TypeOK, NEW m \in 0..N, Ring(m), ~Full(node[producer])
  PROVE  /\ m \in 0..(N - 1) /\ producer = Pos(consumer, m)
         /\ pc = "release" /\ Marked => m > 0
<1>1. consumer \in Nodes /\ Pos(consumer, 0) = consumer
  BY PosNode DEF TypeOK
<1>2. m > 0 => Full(node[consumer])
  BY <1>1, NAssumption DEF Ring, At
<1>3. m < N /\ producer = Pos(consumer, m)
  BY <1>2 DEF Ring
<1>. QED
  BY <1>1, <1>3, NAssumption DEF Marked, Full

\* Put adds the entry when the buffer has room for it.
LEMMA PutItems ==
  ASSUME NEW n \in NodeType, NEW e \in Nat, NEW len \in Lens, Fits(n, len) \/ n = EmptyNode
  PROVE  Put(n, e, len).items = Append(n.items, e) /\ Put(n, e, len).status = n.status
<1>1. len \in Nat /\ len < Size /\ Size \in Nat /\ n.used \in Nat /\ n.items \in Seq(Nat)
  BY SizeAssumption DEF NodeType
<1>2. len <= Size - n.used
  BY <1>1 DEF Fits, EmptyNode
<1>3. Put(n, e, len) = [n EXCEPT !.used = n.used + len, !.items = Append(n.items, e)]
  BY <1>2 DEF Put
<1>. QED
  BY <1>3 DEF NodeType

\* log() keeps the ring, and adds at its end what it accepts.
LEMMA LogRing ==
  ASSUME TypeOK, Marked, RingInv, NEW len \in Lens, Log(len)
  PROVE  /\ RingInv'
         /\ \/ Held' = Held /\ UNCHANGED accepted
            \/ Held' = Append(Held, Entry) /\ accepted' = Append(accepted, Entry)
<1>. USE DEF NodeType
<1>1. /\ node \in [Nodes -> NodeType] /\ producer \in Nodes /\ consumer \in Nodes /\ Entry \in Nat
  BY DEF TypeOK, Entry
<1>2. TypeOK'
  BY LogStep
<1>3. UNCHANGED <<consumer, pc>>
  BY DEF Log
<1>4. PICK m \in 0..N : Ring(m)
  BY DEF RingInv
<1>5. CASE UNCHANGED <<node, producer, accepted>>
  <2>1. Held' = Held
    BY <1>2, <1>3, <1>5, HeldSame
  <2>2. RingInv'
    BY <1>3, <1>5 DEF RingInv, Ring, At, Full
  <2>. QED
    BY <1>5, <2>1, <2>2, Zenon
<1>6. CASE /\ ~Full(node[producer]) /\ Fits(node[producer], len)
           /\ node' = [node EXCEPT ![producer] = Put(node[producer], Entry, len)]
           /\ accepted' = Append(accepted, Entry)
           /\ UNCHANGED producer
  <2>1. m \in 0..(N - 1) /\ producer = Pos(consumer, m) /\ (pc = "release" => m > 0)
    BY <1>4, <1>6, ProducerPlace
  <2>2. /\ node'[producer].items = Append(node[producer].items, Entry)
        /\ node'[producer].status = node[producer].status
    BY <1>1, <1>6, PutItems
  <2>3. \A k \in 0..(N - 1) : k # m => Pos(consumer, k) # producer /\ Pos(consumer, k) \in Nodes
    BY <1>1, <2>1, PosNode, Zenon
  <2>4. \A k \in 0..(N - 1) : k # m => node'[Pos(consumer, k)] = node[Pos(consumer, k)]
    BY <1>1, <1>6, <2>3
  <2>5. \A k \in (m + 1)..(N - 1) : node[Pos(consumer, k)].items = <<>>
    BY <1>4 DEF Ring, At, EmptyNode
  <2>6. Held' = Append(Held, Entry)
    <3>1. \A k \in 0..(N - 1) :
            k # m => node'[Pos(consumer, k)].items = node[Pos(consumer, k)].items
      BY <2>4
    <3>. QED
      BY <1>1, <1>2, <1>3, <2>1, <2>2, <2>5, <3>1, HeldAppend
  <2>7. Ring(m)'
    BY <1>3, <1>4, <1>6, <2>1, <2>2, <2>4 DEF Ring, At, Full
  <2>. QED
    BY <1>6, <2>6, <2>7 DEF RingInv
<1>7. CASE ~Full(node[producer]) /\ ~Fits(node[producer], len)
  <2>. DEFINE marked == [node EXCEPT ![producer].status = "full"]
  <2>1. m \in 0..(N - 1) /\ producer = Pos(consumer, m) /\ (pc = "release" => m > 0)
    BY <1>4, <1>7, ProducerPlace
  <2>2. producer' = next(producer)
    BY <1>7 DEF Log
  <2>3. producer' = Pos(consumer, m + 1) /\ m + 1 \in 0..N /\ m \in Nat
    BY <1>1, <2>1, <2>2, PosNext, NAssumption
  <2>4. /\ marked \in [Nodes -> NodeType] /\ Full(marked[producer])
        /\ marked[producer].items = node[producer].items
        /\ \A i \in Nodes : i # producer => marked[i] = node[i]
    BY <1>1 DEF Full
  <2>5. \/ node' = marked /\ UNCHANGED accepted /\ Full(marked[producer'])
        \/ /\ ~Full(marked[producer'])
           /\ node' = [marked EXCEPT ![producer'] = Put(marked[producer'], Entry, len)]
           /\ accepted' = Append(accepted, Entry)
    BY <1>7 DEF Log
  <2>6. \A k \in 0..(N - 1) : k # m => Pos(consumer, k) # producer /\ Pos(consumer, k) \in Nodes
    <3>1. \A k \in 0..(N - 1) :
            k # m => Pos(consumer, k) # Pos(consumer, m) /\ Pos(consumer, k) \in Nodes
      BY <1>1, <2>1, PosOther
    <3>. QED
      BY <2>1, <3>1, Zenon
  <2>. HIDE DEF marked
  <2>7. /\ \A k \in 0..m : Full(marked[Pos(consumer, k)])
        /\ \A k \in (m + 1)..(N - 1) : marked[Pos(consumer, k)] = EmptyNode
    <3>0. \A k \in 0..(N - 1) : k # m => marked[Pos(consumer, k)] = node[Pos(consumer, k)]
      BY <2>4, <2>6
    <3>1. \A k \in 0..(m - 1) : Full(marked[Pos(consumer, k)])
      <4>1. \A k \in 0..(m - 1) : Full(node[Pos(consumer, k)])
        BY <1>4 DEF Ring, At
      <4>2. \A k \in 0..(m - 1) : k \in 0..(N - 1) /\ k # m
        BY <2>1, <2>3, NAssumption
      <4>. QED
        BY <3>0, <4>1, <4>2
    <3>2. \A k \in (m + 1)..(N - 1) : marked[Pos(consumer, k)] = EmptyNode
      <4>1. \A k \in (m + 1)..(N - 1) :
              node[Pos(consumer, k)] = EmptyNode /\ k \in 0..(N - 1) /\ k # m
        BY <1>4, <2>1 DEF Ring, At
      <4>. QED
        BY <3>0, <4>1
    <3>. QED
      BY <2>1, <2>4, <3>1, <3>2
  <2>8. CASE node' = marked /\ UNCHANGED accepted /\ Full(marked[producer'])
    <3>1. Held' = Held
      BY <1>1, <1>2, <1>3, <2>4, <2>8, HeldSame
    <3>2. m + 1 = N
      BY <2>1, <2>3, <2>7, <2>8, NAssumption DEF EmptyNode, Full
    <3>3. producer' = consumer'
      BY <1>1, <1>3, <2>3, <3>2, PosNode
    <3>4. Ring(N)'
      BY <1>3, <2>7, <2>8, <3>2, <3>3, NAssumption DEF Ring, At
    <3>5. RingInv'
      BY <3>4, NAssumption DEF RingInv
    <3>. QED
      BY <2>8, <3>1, <3>5, Zenon
  <2>9. CASE /\ ~Full(marked[producer'])
             /\ node' = [marked EXCEPT ![producer'] = Put(marked[producer'], Entry, len)]
             /\ accepted' = Append(accepted, Entry)
    <3>1. m + 1 < N
      <4>1. CASE m + 1 = N
        <5>1. producer' = Pos(consumer, 0)
          BY <1>1, <2>3, <4>1, PosNode
        <5>. QED
          BY <2>1, <2>3, <2>7, <2>9, <5>1
      <4>. QED
        BY <2>1, <4>1, NAssumption
    <3>2. marked[producer'] = EmptyNode /\ producer' \in Nodes /\ m + 1 \in 0..(N - 1)
      <4>1. m + 1 \in 0..(N - 1) /\ m + 1 \in (m + 1)..(N - 1)
        BY <2>1, <2>3, <3>1, NAssumption
      <4>2. producer' \in Nodes
        BY <1>1, <2>3, PosNode
      <4>. QED
        BY <2>3, <2>7, <4>1, <4>2
    <3>3. /\ node'[producer'].items = Append(<<>>, Entry)
          /\ node'[producer'].status = "free"
      <4>1. /\ Put(marked[producer'], Entry, len).items = Append(marked[producer'].items, Entry)
            /\ Put(marked[producer'], Entry, len).status = marked[producer'].status
        BY <1>1, <2>4, <3>2, PutItems
      <4>2. node'[producer'] = Put(marked[producer'], Entry, len)
        BY <2>4, <2>9, <3>2
      <4>3. marked[producer'].items = <<>> /\ marked[producer'].status = "free"
        BY <3>2 DEF EmptyNode
      <4>. QED
        BY <4>1, <4>2, <4>3, Zenon
    <3>4. \A k \in 0..(N - 1) :
            k # m + 1 => Pos(consumer, k) # producer' /\ Pos(consumer, k) \in Nodes
      <4>1. \A k \in 0..(N - 1) :
              k # m + 1 => Pos(consumer, k) # Pos(consumer, m + 1) /\ Pos(consumer, k) \in Nodes
        BY <1>1, <3>2, PosOther
      <4>. QED
        BY <2>3, <4>1, Zenon
    <3>5. \A k \in 0..(N - 1) : k # m + 1 => node'[Pos(consumer, k)] = marked[Pos(consumer, k)]
      BY <2>4, <2>9, <3>4
    <3>6. \A k \in 0..(N - 1) : marked[Pos(consumer, k)].items = node[Pos(consumer, k)].items
      BY <2>1, <2>4, <2>6
    <3>7. Held' = Append(Held, Entry)
      <4>1. \A k \in (m + 1)..(N - 1) : node[Pos(consumer, k)].items = <<>>
        BY <1>4 DEF Ring, At, EmptyNode
      <4>2. \A k \in ((m + 1) + 1)..(N - 1) : node[Pos(consumer, k)].items = <<>>
        BY <4>1, <2>3
      <4>3. node'[Pos(consumer, m + 1)].items = Append(node[Pos(consumer, m + 1)].items, Entry)
        BY <2>3, <3>1, <3>2, <3>3, <4>1
      <4>4. \A k \in 0..(N - 1) :
              k # m + 1 => node'[Pos(consumer, k)].items = node[Pos(consumer, k)].items
        BY <3>5, <3>6
      <4>5. pc = "release" => m + 1 > 0
        BY <2>3
      <4>. QED
        BY <1>1, <1>2, <1>3, <3>2, <4>2, <4>3, <4>4, <4>5, HeldAppend
    <3>8. Ring(m + 1)'
      <4>1. \A k \in 0..((m + 1) - 1) : Full(node'[Pos(consumer, k)])
        BY <2>3, <2>7, <3>1, <3>5, NAssumption
      <4>2. \A k \in ((m + 1) + 1)..(N - 1) : node'[Pos(consumer, k)] = EmptyNode
        BY <2>3, <2>7, <3>5, NAssumption
      <4>3. \A k \in (m + 1)..(N - 1) : ~Full(node'[Pos(consumer, k)])
        BY <2>3, <3>3, <4>2, NAssumption DEF Full, EmptyNode
      <4>. QED
        BY <1>3, <2>3, <3>1, <4>1, <4>2, <4>3 DEF Ring, At, Full
    <3>. QED
      BY <2>3, <2>9, <3>7, <3>8 DEF RingInv
  <2>. QED
    BY <2>5, <2>8, <2>9
<1>. QED
  BY <1>5, <1>6, <1>7 DEF Log

-----------------------------------------------------------------------------
(* The invariant                                                           *)

\* It holds when setfilename() returns.
LEMMA InitInv == Init => Inv
<1>. SUFFICES ASSUME Init PROVE Inv
  OBVIOUS
<1>1. 0 \in Nodes /\ EmptyNode \in NodeType
  BY NAssumption, SizeAssumption DEF Nodes, EmptyNode, NodeType
<1>2. TypeOK
  BY <1>1 DEF Init, TypeOK, NodeType
<1>. QED
  BY <1>2 DEF Init, Inv, Marked

\* Every step of the dump thread and of log() keeps it, and no step but the
\* last of a round touches the buffer the dump thread is writing.
LEMMA NextInv ==
  Inv /\ [Next]_vars
    => /\ Inv'
       /\ {pc, pc'} \subseteq {"write", "release"} => UNCHANGED node[consumer]
<1>. SUFFICES ASSUME Inv, [Next]_vars
              PROVE  /\ Inv'
                     /\ {pc, pc'} \subseteq {"write", "release"} => UNCHANGED node[consumer]
  OBVIOUS
<1>. USE DEF NodeType
<1>0. TypeOK /\ Marked /\ node \in [Nodes -> NodeType] /\ consumer \in Nodes /\ producer \in Nodes
  BY DEF Inv, TypeOK
<1>1. CASE DumpLoop
  BY <1>0, <1>1 DEF DumpLoop, Inv, TypeOK, Marked, Full
<1>2. CASE DumpWake
  <2>1. CASE UNCHANGED node /\ (pc' = "write" => Full(node[consumer]))
    BY <1>0, <1>2, <2>1 DEF DumpWake, Inv, TypeOK, Marked, Full
  <2>2. CASE node' = [node EXCEPT ![consumer] = Take(node[consumer])] /\ pc' = "write"
    <3>1. node' \in [Nodes -> NodeType] /\ (node')[consumer].status = "full"
      BY <1>0, <2>2 DEF Take
    <3>. QED
      BY <1>0, <1>2, <2>2, <3>1 DEF DumpWake, Inv, TypeOK, Marked
  <2>. QED
    BY <1>2, <2>1, <2>2 DEF DumpWake
<1>3. CASE DumpWrite
  <2>1. disk' \in Seq(Nat)
    <3>1. disk \in Seq(Nat) /\ node[consumer].items \in Seq(Nat)
      BY <1>0 DEF TypeOK
    <3>2. disk' = disk \/ disk' = disk \o node[consumer].items
      BY <1>3 DEF DumpWrite
    <3>. QED
      BY <3>1, <3>2, JoinType
  <2>2. ioerr' \in BOOLEAN /\ file' \in BOOLEAN
    BY <1>0, <1>3 DEF DumpWrite, TypeOK
  <2>. QED
    BY <1>0, <1>3, <2>1, <2>2 DEF DumpWrite, Inv, TypeOK, Marked
<1>4. CASE DumpRelease
  <2>1. EmptyNode \in NodeType
    BY SizeAssumption DEF EmptyNode
  <2>2. producer' \in Nodes /\ consumer' \in Nodes
    BY <1>0, <1>4, NextType DEF DumpRelease, Skip
  <2>3. node' \in [Nodes -> NodeType]
    BY <1>0, <1>4, <2>1 DEF DumpRelease
  <2>. QED
    BY <1>0, <1>4, <2>2, <2>3 DEF DumpRelease, Inv, TypeOK, Marked
<1>5. CASE Stop
  BY <1>0, <1>5 DEF Stop, Inv, TypeOK, Marked
<1>6. CASE \E len \in Lens : Log(len)
  <2>1. PICK len \in Lens : Log(len)
    BY <1>6
  <2>2. TypeOK' /\ (node[consumer].status = "full" => (node')[consumer] = node[consumer])
    BY <1>0, <2>1, LogStep
  <2>3. UNCHANGED <<pc, consumer>>
    BY <2>1 DEF Log
  <2>. QED
    BY <1>0, <2>2, <2>3 DEF Inv, Marked
<1>7. CASE UNCHANGED vars
  BY <1>0, <1>7 DEF vars, Inv, TypeOK, Marked
<1>. QED
  BY <1>1, <1>2, <1>3, <1>4, <1>5, <1>6, <1>7 DEF Next, Dump

\* The ring stays a ring of buffers, its two pointers inside it.
THEOREM TypeCorrect == Spec => []TypeOK
<1>1. Inv => TypeOK
  BY DEF Inv
<1>2. Inv /\ [Next]_vars => Inv'
  BY NextInv
<1>. QED
  BY <1>1, <1>2, InitInv, PTL DEF Spec

\* dump() reads the consumer's buffer with no lock held, and no log() changes
\* it before dump() gives it back.
THEOREM RaceFree == Spec => NoRace
<1>1. Inv /\ [Next]_vars => Inv'
  BY NextInv
<1>2. Inv /\ [Next]_vars
        => [{pc, pc'} \subseteq {"write", "release"} => UNCHANGED node[consumer]]_vars
  BY NextInv
<1>. QED
  BY <1>1, <1>2, InitInv, PTL DEF Spec, NoRace
-----------------------------------------------------------------------------
(* The log                                                                 *)

\* What the ring holds are entries.
LEMMA HeldType == ASSUME TypeOK, TypeOK' PROVE Held \in Seq(Nat) /\ Held' \in Seq(Nat)
<1>1. N - From \in Nat /\ N - From' \in Nat
  BY NAssumption DEF From
<1>2. /\ Items(node, consumer, From) \in [1..(N - From) -> Seq(Nat)]
      /\ Items(node', consumer', From') \in [1..(N - From') -> Seq(Nat)]
      /\ Held = FlattenSeq(Items(node, consumer, From))
      /\ Held' = FlattenSeq(Items(node', consumer', From'))
  BY HeldItems
<1>. QED
  BY <1>1, <1>2, FlattenType

\* The ring starts empty, and nothing was accepted.
LEMMA InitRing == Init => RingInv /\ LogIntact
<1>. SUFFICES ASSUME Init PROVE RingInv /\ LogIntact
  OBVIOUS
<1>1. /\ N \in Nat /\ 0 \in 0..N /\ N > 0 /\ N - 0 = N /\ consumer = 0 /\ consumer \in Nodes
      /\ \A i \in Nodes : node[i] = EmptyNode
  BY NAssumption DEF Init, Nodes
<1>2. node \in [Nodes -> NodeType] /\ 0 \in {0, 1}
  BY SizeAssumption DEF Init, EmptyNode, NodeType
<1>3. Ring(0)
  <2>1. \A k \in 0..(N - 1) : At(k) = EmptyNode
    BY <1>1, PosNode DEF At
  <2>2. producer = Pos(consumer, 0)
    BY <1>1, PosNode DEF Init
  <2>3. \A k \in 0..(N - 1) : ~Full(At(k))
    BY <2>1 DEF Full, EmptyNode
  <2>. QED
    BY <1>1, <2>1, <2>2, <2>3 DEF Ring
<1>4. Held = FlattenSeq(Items(node, consumer, 0))
  <2>1. Held = FlattenSeq([k \in 1..(N - 0) |-> node[(consumer + 0 + k - 1) % N].items])
    BY DEF Held, Init
  <2>. QED
    BY <1>1, <1>2, <2>1, ItemsMod
<1>5. Items(node, consumer, 0) \in [1..N -> Seq(Nat)]
  BY <1>1, <1>2, ItemsMod
<1>6. \A k \in 1..N : Items(node, consumer, 0)[k] = <<>>
  <2>. TAKE k \in 1..N
  <2>1. 0 + k - 1 \in 0..(N - 1) /\ k \in 1..(N - 0)
    BY <1>1
  <2>2. Pos(consumer, 0 + k - 1) \in Nodes
    BY <1>1, <2>1, PosNode
  <2>3. Items(node, consumer, 0)[k] = node[Pos(consumer, 0 + k - 1)].items
    BY <2>1 DEF Items
  <2>4. node[Pos(consumer, 0 + k - 1)] = EmptyNode
    BY <1>1, <2>2, Zenon
  <2>. QED
    BY <2>3, <2>4 DEF EmptyNode
<1>7. Held = <<>>
  BY <1>1, <1>4, <1>5, <1>6, FlattenEmpty
<1>8. <<>> \o <<>> = <<>>
  OBVIOUS
<1>. QED
  BY <1>1, <1>3, <1>7, <1>8 DEF RingInv, LogIntact, Init

\* dump() marks the buffer it is about to write; it is the producer's, if any
\* other is.
LEMMA WakeRing ==
  ASSUME TypeOK, RingInv, DumpWake
  PROVE  RingInv' /\ \A i \in Nodes : node'[i].items = node[i].items
<1>1. /\ node \in [Nodes -> NodeType] /\ consumer \in Nodes
      /\ UNCHANGED <<producer, consumer>> /\ Pos(consumer, 0) = consumer
  BY PosNode DEF TypeOK, NodeType, DumpWake
<1>2. PICK m \in 0..N : Ring(m)
  BY DEF RingInv
<1>3. CASE UNCHANGED node
  BY <1>1, <1>3 DEF RingInv, Ring, At, Full
<1>4. CASE ~Full(node[consumer]) /\ node' = [node EXCEPT ![consumer] = Take(node[consumer])]
  <2>1. m = 0 /\ producer = consumer
    BY <1>1, <1>2, <1>4, NAssumption DEF Ring, At
  <2>2. /\ node'[consumer].status = "full" /\ node'[consumer].items = node[consumer].items
        /\ \A i \in Nodes : i # consumer => node'[i] = node[i]
    BY <1>1, <1>4 DEF Take, NodeType
  <2>3. \A k \in 1..(N - 1) : node'[Pos(consumer, k)] = EmptyNode
    <3>. TAKE k \in 1..(N - 1)
    <3>1. k \in 0..(N - 1) /\ k # 0 /\ 0 \in 0..(N - 1) /\ k \in (0 + 1)..(N - 1)
      BY NAssumption
    <3>2. Pos(consumer, k) # consumer /\ Pos(consumer, k) \in Nodes
      BY <1>1, <3>1, PosNode
    <3>3. node[Pos(consumer, k)] = EmptyNode
      BY <1>2, <2>1, <3>1 DEF Ring, At
    <3>. QED
      BY <2>2, <3>2, <3>3
  <2>4. Ring(1)'
    <3>1. \A k \in 0..(1 - 1) : Full(node'[Pos(consumer, k)])
      BY <1>1, <2>2 DEF Full
    <3>2. \A k \in 1..(N - 1) : ~Full(node'[Pos(consumer, k)])
      BY <2>3 DEF Full, EmptyNode
    <3>3. \A k \in (1 + 1)..(N - 1) : node'[Pos(consumer, k)] = EmptyNode
      BY <2>3, NAssumption
    <3>4. 1 < N => node'[Pos(consumer, 1)] = EmptyNode
      BY <2>3, NAssumption
    <3>. QED
      BY <1>1, <2>1, <3>1, <3>2, <3>3, <3>4 DEF Ring, At, Full
  <2>. QED
    BY <2>2, <2>4, NAssumption DEF RingInv
<1>. QED
  BY <1>3, <1>4 DEF DumpWake

\* Giving the buffer back shortens what is full by one, and frees a producer
\* that was overtaken: the buffer it is moved to is the one after.
LEMMA ReleaseRing == ASSUME TypeOK, Marked, RingInv, DumpRelease PROVE RingInv'
<1>1. /\ node \in [Nodes -> NodeType] /\ consumer \in Nodes /\ Pos(consumer, 0) = consumer
      /\ consumer' = next(consumer) /\ producer' = Skip(producer, consumer)
      /\ node' = [node EXCEPT ![consumer] = EmptyNode] /\ Full(node[consumer])
      /\ Pos(consumer, N) = consumer
  BY PosNode DEF TypeOK, NodeType, DumpRelease, Marked, Full
<1>2. PICK m \in 0..N : Ring(m)
  BY DEF RingInv
<1>3. m > 0 /\ m - 1 \in 0..(N - 1) /\ m \in Nat /\ N \in Nat
  BY <1>1, <1>2, NAssumption DEF Ring, At
<1>. DEFINE new(k) == node'[Pos(consumer', k)]
<1>4. ASSUME NEW k \in 0..(N - 1), k + 1 < N
      PROVE  new(k) = node[Pos(consumer, k + 1)]
  <2>1. k + 1 \in 0..(N - 1) /\ k + 1 # 0 /\ 0 \in 0..(N - 1)
    BY <1>3, <1>4
  <2>2. Pos(consumer', k) = Pos(consumer, k + 1)
    BY <1>1, PosNext
  <2>3. Pos(consumer, k + 1) \in Nodes /\ Pos(consumer, k + 1) # consumer
    BY <1>1, <2>1, PosNode
  <2>. QED
    BY <1>1, <2>2, <2>3
<1>5. new(N - 1) = EmptyNode
  <2>1. N - 1 \in 0..(N - 1) /\ (N - 1) + 1 = N
    BY <1>3
  <2>2. Pos(consumer', N - 1) = consumer
    BY <1>1, <2>1, PosNext
  <2>. QED
    BY <1>1, <2>2
<1>. HIDE DEF new
<1>6. \A k \in 0..((m - 1) - 1) : Full(new(k))
  <2>. TAKE k \in 0..((m - 1) - 1)
  <2>1. k \in 0..(N - 1) /\ k + 1 < N /\ k + 1 \in 0..(m - 1)
    BY <1>3
  <2>. QED
    BY <1>2, <1>4, <2>1 DEF Ring, At
<1>7. \A k \in (m - 1)..(N - 1) : ~Full(new(k))
  <2>. TAKE k \in (m - 1)..(N - 1)
  <2>1. CASE k = N - 1
    BY <1>5, <2>1 DEF Full, EmptyNode
  <2>2. CASE k # N - 1
    <3>1. k \in 0..(N - 1) /\ k + 1 < N /\ k + 1 \in m..(N - 1)
      BY <1>3, <2>2
    <3>. QED
      BY <1>2, <1>4, <3>1 DEF Ring, At
  <2>. QED
    BY <2>1, <2>2
<1>8. \A k \in ((m - 1) + 1)..(N - 1) : new(k) = EmptyNode
  <2>. TAKE k \in ((m - 1) + 1)..(N - 1)
  <2>1. CASE k = N - 1
    BY <1>5, <2>1
  <2>2. CASE k # N - 1
    <3>1. k \in 0..(N - 1) /\ k + 1 < N /\ k + 1 \in (m + 1)..(N - 1)
      BY <1>3, <2>2
    <3>. QED
      BY <1>2, <1>4, <3>1 DEF Ring, At
  <2>. QED
    BY <2>1, <2>2
<1>9. \/ m - 1 < N /\ producer' = Pos(consumer', m - 1)
      \/ m - 1 > 0 /\ producer' = consumer' /\ (m - 1 < N => new(m - 1) = EmptyNode)
  <2>1. Pos(consumer', m - 1) = Pos(consumer, m) /\ Pos(consumer', 0) = consumer'
    <3>1. Pos(consumer', m - 1) = Pos(consumer, (m - 1) + 1)
      BY <1>1, <1>3, PosNext
    <3>2. consumer' \in Nodes
      BY <1>1, NextType
    <3>. QED
      BY <1>3, <3>1, <3>2, PosNode
  <2>2. CASE producer # consumer
    BY <1>1, <1>2, <1>3, <2>1, <2>2 DEF Ring, Skip
  <2>3. CASE producer = consumer
    <3>1. producer' = consumer'
      BY <1>1, <2>3 DEF Skip
    <3>2. CASE m = 1
      BY <1>3, <2>1, <3>1, <3>2
    <3>3. CASE m # 1
      <4>1. m < N => node[Pos(consumer, m)] = EmptyNode
        <5>1. m < N /\ producer = Pos(consumer, m) => FALSE
          <6>1. m < N => m \in 0..(N - 1) /\ 0 \in 0..(N - 1) /\ m # 0
            BY <1>3
          <6>2. m < N => Pos(consumer, m) # Pos(consumer, 0)
            BY <1>1, <6>1, PosNode, Zenon
          <6>. QED
            BY <1>1, <2>3, <6>2
        <5>. QED
          BY <1>2, <5>1 DEF Ring, At
      <4>2. new(m - 1) = EmptyNode
        <5>1. CASE m = N
          BY <1>5, <5>1
        <5>2. CASE m < N
          <6>1. m - 1 \in 0..(N - 1) /\ (m - 1) + 1 = m
            BY <1>3
          <6>. QED
            BY <1>4, <4>1, <5>2, <6>1
        <5>. QED
          BY <1>3, <5>1, <5>2
      <4>. QED
        BY <1>3, <3>1, <3>3, <4>2
    <3>. QED
      BY <3>2, <3>3
  <2>. QED
    BY <2>2, <2>3
<1>10. Ring(m - 1)'
  BY <1>6, <1>7, <1>8, <1>9 DEF new, Ring, At, Full
<1>. QED
  BY <1>3, <1>10 DEF RingInv

\* Every step keeps the ring, and loses no entry it held unless the file fails.
LEMMA NextRing ==
  ASSUME Inv, RingInv, LogIntact, [Next]_vars
  PROVE  RingInv' /\ LogIntact'
<1>1. TypeOK /\ TypeOK' /\ Marked
  BY NextInv DEF Inv
<1>2. Held \in Seq(Nat) /\ Held' \in Seq(Nat) /\ disk \in Seq(Nat) /\ accepted \in Seq(Nat)
  BY <1>1, HeldType DEF TypeOK
<1>3. ASSUME UNCHANGED <<accepted, disk, ioerr>>, Held' = Held PROVE LogIntact'
  BY <1>3 DEF LogIntact
<1>4. ASSUME UNCHANGED <<node, producer, consumer>> PROVE RingInv'
  BY <1>4 DEF RingInv, Ring, At, Full
<1>5. CASE DumpLoop \/ Stop \/ UNCHANGED vars
  <2>1. /\ UNCHANGED <<node, producer, consumer, accepted, disk, ioerr>>
        /\ pc' = "release" <=> pc = "release"
    BY <1>5 DEF DumpLoop, Stop, vars
  <2>2. Held' = Held
    BY <1>1, <2>1, HeldSame
  <2>. QED
    BY <1>3, <1>4, <2>1, <2>2
<1>6. CASE DumpWake
  <2>1. /\ UNCHANGED <<consumer, accepted, disk, ioerr>>
        /\ pc' = "release" <=> pc = "release"
    BY <1>6 DEF DumpWake
  <2>2. RingInv' /\ \A i \in Nodes : node'[i].items = node[i].items
    BY <1>1, <1>6, WakeRing
  <2>3. Held' = Held
    BY <1>1, <2>1, <2>2, HeldSame
  <2>. QED
    BY <1>3, <2>1, <2>2, <2>3
<1>7. CASE DumpWrite
  <2>1. UNCHANGED <<node, producer, consumer, accepted>> /\ pc # "release" /\ pc' = "release"
    BY <1>7 DEF DumpWrite
  <2>2. \/ disk' = disk \o node[consumer].items /\ ioerr' = ioerr
        \/ ioerr' = TRUE
    BY <1>7 DEF DumpWrite
  <2>3. CASE disk' = disk \o node[consumer].items /\ ioerr' = ioerr
    <3>1. Held = node[consumer].items \o Held' /\ node[consumer].items \in Seq(Nat)
      BY <1>1, <2>1, HeldWritten DEF TypeOK
    <3>2. disk \o (node[consumer].items \o Held') = (disk \o node[consumer].items) \o Held'
      <4>1. disk \in Seq(Nat) /\ node[consumer].items \in Seq(Nat) /\ Held' \in Seq(Nat)
        BY <1>2, <3>1
      <4>. QED
        BY <4>1, JoinAssoc, Zenon
    <3>. QED
      BY <1>4, <2>1, <2>3, <3>1, <3>2 DEF LogIntact
  <2>. QED
    BY <1>4, <2>1, <2>2, <2>3 DEF LogIntact
<1>8. CASE DumpRelease
  <2>1. /\ UNCHANGED <<accepted, disk, ioerr>> /\ pc = "release" /\ pc' # "release"
        /\ consumer' = next(consumer) /\ node' = [node EXCEPT ![consumer] = EmptyNode]
    BY <1>8 DEF DumpRelease
  <2>2. Held' = Held
    BY <1>1, <2>1, HeldReleased
  <2>3. RingInv'
    BY <1>1, <1>8, ReleaseRing
  <2>. QED
    BY <1>3, <2>1, <2>2, <2>3
<1>9. CASE \E len \in Lens : Log(len)
  <2>1. PICK len \in Lens : Log(len)
    BY <1>9
  <2>2. /\ RingInv'
        /\ \/ Held' = Held /\ UNCHANGED accepted
           \/ Held' = Append(Held, Entry) /\ accepted' = Append(accepted, Entry)
    BY <1>1, <2>1, LogRing
  <2>3. UNCHANGED <<disk, ioerr>> /\ Entry \in Nat
    <3>1. UNCHANGED <<disk, ioerr>>
      BY <2>1 DEF Log
    <3>2. Entry \in Nat
      BY <1>1 DEF Entry, TypeOK
    <3>. QED
      BY <3>1, <3>2
  <2>4. CASE Held' = Held /\ UNCHANGED accepted
    BY <1>3, <2>2, <2>3, <2>4
  <2>5. CASE Held' = Append(Held, Entry) /\ accepted' = Append(accepted, Entry)
    <3>1. Append(disk \o Held, Entry) = disk \o Append(Held, Entry)
      BY <1>2, <2>3, AppendJoin
    <3>. QED
      BY <2>2, <2>3, <2>5, <3>1 DEF LogIntact
  <2>. QED
    BY <2>2, <2>4, <2>5
<1>. QED
  BY <1>5, <1>6, <1>7, <1>8, <1>9 DEF Next, Dump

\* Whatever log() accepts is on the disk or in the ring, in order, none twice
\* and none cut, for every number and size of buffers: the ring wraps and the
\* dump thread overtakes the producer without an entry being lost.
THEOREM LogKept == Spec => []LogIntact
<1>1. Init => Inv /\ RingInv /\ LogIntact
  BY InitInv, InitRing
<1>2. Inv /\ RingInv /\ LogIntact /\ [Next]_vars => Inv' /\ RingInv' /\ LogIntact'
  BY NextInv, NextRing
<1>. QED
  BY <1>1, <1>2, PTL DEF Spec
=============================================================================
