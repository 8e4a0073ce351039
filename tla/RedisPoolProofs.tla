-------------------------- MODULE RedisPoolProofs --------------------------
(***************************************************************************)
(* The pool's properties for any hosts, databases, handles and number of   *)
(* contexts.  The two maps and the set of open contexts have to be read    *)
(* together (Entry, Ctx), and what a handle is attached to has to survive  *)
(* the reconnect of a command (OnWay).                                     *)
(***************************************************************************)
EXTENDS RedisPool, TLAPS

\* An id leads to an open context of that id.
Found(i) == info[i] # 0 => info[i] \in live /\ Id(addr[info[i]]) = i

\* A context is made, open, then freed for good.
Known(c) ==
  /\ c \in live => /\ c <= made /\ addr[c] \in Addrs
                   /\ revinfo[c] = {Id(addr[c])} /\ info[Id(addr[c])] = c
                   /\ freed[c] = 0
  /\ c \notin live => revinfo[c] = {}
  /\ c > made => freed[c] = 0
  /\ freed[c] <= 1

\* A handle's context was made, for the address it was asked for.
Attached(h) ==
  handle[h] # 0 => /\ handle[h] <= made
                   /\ addr[handle[h]] \in Addrs
                   /\ asked[h].host \in Dotted => addr[handle[h]] = asked[h]

\* The command under way remembers that address.
OnWay ==
  /\ stage = "again" => /\ to \in Addrs
                        /\ asked[by].host \in Dotted => to = asked[by]
  /\ stage = "retry" => handle[by] # 0

Counted ==
  /\ stage # "none" => execs = lost /\ execs <= 1
  /\ TwiceOnlyIfLost

IInv ==
  /\ TypeOK
  /\ \A i \in AllIds : Found(i)
  /\ \A c \in Ctxs : Known(c)
  /\ \A h \in Handles : Attached(h)
  /\ OnWay
  /\ Counted

-----------------------------------------------------------------------------
\* Every address has an id.
LEMMA IdType == \A a \in Addrs : Id(a) \in AllIds
  BY DEF Id, Addrs, AllIds

\* The id of a dotted address belongs to no other address.
LEMMA IdInjective ==
  ASSUME NEW a \in Addrs, NEW b \in Addrs, a.host \in Dotted, Id(a) = Id(b)
  PROVE  a = b
<1>1. a.host = b.host /\ a.db = b.db
  BY HostsAssumption DEF Id, Addrs
<1> QED
  BY <1>1 DEF Addrs

LEMMA InitIInv == Init => IInv
<1> SUFFICES ASSUME Init PROVE IInv
  OBVIOUS
<1>1. TypeOK
  BY BoundsAssumption DEF Init, TypeOK
<1>2. (\A i \in AllIds : Found(i)) /\ (\A h \in Handles : Attached(h)) /\ OnWay
  BY DEF Init, Found, Attached, OnWay
<1>3. \A c \in Ctxs : Known(c)
  BY DEF Init, Known
<1>4. Counted
  BY DEF Init, Counted, TwiceOnlyIfLost
<1> QED
  BY <1>1, <1>2, <1>3, <1>4 DEF IInv

\* The handle gets a context that was asked for.
Handed(h, a) ==
  \E c \in Ctxs : /\ handle' = [handle EXCEPT ![h] = c]
                  /\ c <= made' /\ addr'[c] \in Addrs
                  /\ a.host \in Dotted => addr'[c] = a

\* GetConnection keeps the maps, and the handle gets a context that fits.
LEMMA GetStep ==
  ASSUME IInv, NEW h \in Handles, NEW a \in Addrs, Get(h, a), UNCHANGED freed
  PROVE  /\ \A i \in AllIds : Found(i)'
         /\ \A c \in Ctxs : Known(c)'
         /\ info' \in [AllIds -> Ctxs \cup {0}] /\ revinfo' \in [Ctxs -> SUBSET AllIds]
         /\ live' \subseteq Ctxs /\ addr' \in [Ctxs -> Addrs \cup {NoAddr}]
         /\ made' \in 0..MaxCtx
         /\ Handed(h, a)
         /\ \A c \in Ctxs : c <= made => c <= made' /\ addr'[c] = addr[c]
<1> USE BoundsAssumption
<1>1. TypeOK /\ Id(a) \in AllIds /\ made \in Nat
  BY IdType DEF IInv, TypeOK
<1>2. CASE info[Id(a)] # 0 /\ handle' = [handle EXCEPT ![h] = info[Id(a)]] /\ UNCHANGED pool
  <2>1. info[Id(a)] \in Ctxs /\ info[Id(a)] \in live /\ Id(addr[info[Id(a)]]) = Id(a)
    BY <1>1, <1>2 DEF IInv, TypeOK, Found
  <2>2. info[Id(a)] <= made /\ addr[info[Id(a)]] \in Addrs
    BY <2>1 DEF IInv, Known
  <2>3. a.host \in Dotted => addr[info[Id(a)]] = a
    BY <2>1, <2>2, IdInjective
  <2>4. (\A i \in AllIds : Found(i)') /\ (\A c \in Ctxs : Known(c)')
    BY <1>2 DEF IInv, Found, Known, pool
  <2> QED
    BY <1>1, <1>2, <2>1, <2>2, <2>3, <2>4 DEF pool, TypeOK, Handed
<1>3. CASE /\ info[Id(a)] = 0 /\ made < MaxCtx
           /\ made' = made + 1
           /\ live' = live \cup {made + 1}
           /\ addr' = [addr EXCEPT ![made + 1] = a]
           /\ info' = [info EXCEPT ![Id(a)] = made + 1]
           /\ revinfo' = [revinfo EXCEPT ![made + 1] = {Id(a)}]
           /\ handle' = [handle EXCEPT ![h] = made + 1]
  <2>1. made + 1 \in Ctxs /\ made + 1 # 0 /\ made + 1 \notin live
    BY <1>1, <1>3 DEF IInv, Known, Ctxs
  <2>2. \A c \in Ctxs : c # made + 1 =>
          /\ addr'[c] = addr[c] /\ revinfo'[c] = revinfo[c] /\ (c \in live' <=> c \in live)
    BY <1>1, <1>3 DEF TypeOK
  <2>3. /\ addr'[made + 1] = a /\ revinfo'[made + 1] = {Id(a)} /\ made + 1 \in live'
        /\ info'[Id(a)] = made + 1
    BY <1>1, <1>3, <2>1 DEF TypeOK
  <2>4. ASSUME NEW i \in AllIds PROVE Found(i)'
    <3>1. CASE i = Id(a)
      BY <2>3, <3>1 DEF Found, Id
    <3>2. CASE i # Id(a)
      <4>1. info'[i] = info[i]
        BY <1>1, <1>3, <3>2 DEF TypeOK
      <4>2. info[i] # 0 => info[i] \in Ctxs /\ info[i] # made + 1 /\ info[i] \in live
        BY <1>1, <2>1 DEF IInv, Found, TypeOK
      <4>3. info[i] # 0 => Id(addr[info[i]]) = i /\ addr'[info[i]] = addr[info[i]]
        BY <2>2, <4>2 DEF IInv, Found
      <4>4. info[i] # 0 => info[i] \in live'
        BY <1>3, <4>2
      <4> QED
        BY <4>1, <4>3, <4>4 DEF Found, Id
    <3> QED
      BY <3>1, <3>2
  <2>5. ASSUME NEW c \in Ctxs PROVE Known(c)'
    <3>0. Known(c) /\ freed[c] \in Nat /\ c \in Nat
      BY <1>1 DEF IInv, TypeOK, Ctxs
    <3>1. CASE c = made + 1
      <4>1. freed[c] = 0
        BY <1>1, <3>0, <3>1 DEF Known
      <4>2. Id(addr[c])' = Id(a)
        BY <2>3, <3>1 DEF Id
      <4> QED
        BY <1>1, <1>3, <2>3, <3>1, <4>1, <4>2 DEF Known
    <3>2. CASE c # made + 1
      <4>1. addr'[c] = addr[c] /\ revinfo'[c] = revinfo[c] /\ (c \in live' <=> c \in live)
        BY <2>2, <3>2
      <4>2. Id(addr[c])' = Id(addr[c])
        BY <4>1 DEF Id
      <4>3. c \in live => info'[Id(addr[c])] = c
        <5>1. c \in live => Id(addr[c]) \in AllIds /\ info[Id(addr[c])] = c
          BY <3>0, IdType DEF Known
        <5>2. c # 0
          BY DEF Ctxs
        <5> QED
          BY <1>1, <1>3, <5>1, <5>2 DEF TypeOK
      <4>4. (c <= made => c <= made') /\ (c > made' => c > made)
        BY <1>1, <1>3, <3>0
      <4> QED
        BY <3>0, <4>1, <4>2, <4>3, <4>4 DEF Known
    <3> QED
      BY <3>1, <3>2
  <2>6. /\ info' \in [AllIds -> Ctxs \cup {0}] /\ revinfo' \in [Ctxs -> SUBSET AllIds]
        /\ live' \subseteq Ctxs /\ addr' \in [Ctxs -> Addrs \cup {NoAddr}]
        /\ made' \in 0..MaxCtx
    BY <1>1, <1>3, <2>1 DEF TypeOK
  <2>7. \A c \in Ctxs : c <= made => c <= made' /\ addr'[c] = addr[c]
    BY <1>1, <1>3, <2>2 DEF Ctxs
  <2>8. Handed(h, a)
    <3>1. made + 1 <= made'
      BY <1>1, <1>3
    <3> QED
      BY <1>3, <2>1, <2>3, <3>1 DEF Handed
  <2> QED
    BY <2>4, <2>5, <2>6, <2>7, <2>8
<1> QED
  BY <1>2, <1>3 DEF Get

\* A handle that is let go of takes its context out of both maps.
LEMMA LetGoStep ==
  ASSUME IInv, NEW h \in Handles, handle[h] # 0, LetGo(h)
  PROVE  /\ \A i \in AllIds : Found(i)'
         /\ \A c \in Ctxs : Known(c)'
         /\ info' \in [AllIds -> Ctxs \cup {0}] /\ revinfo' \in [Ctxs -> SUBSET AllIds]
         /\ live' \subseteq Ctxs /\ freed' \in [Ctxs -> Nat]
         /\ handle' = [handle EXCEPT ![h] = 0] /\ UNCHANGED <<addr, made>>
<1> DEFINE d == handle[h]
<1>1. TypeOK /\ d \in Ctxs /\ d <= made
  BY DEF IInv, TypeOK, Attached
<1>2. /\ info' = [i \in AllIds |-> IF i \in revinfo[d] THEN 0 ELSE info[i]]
      /\ revinfo' = [revinfo EXCEPT ![d] = {}]
      /\ freed' = [freed EXCEPT ![d] = IF d \in live THEN @ + 1 ELSE @]
      /\ live' = live \ {d}
      /\ handle' = [handle EXCEPT ![h] = 0]
      /\ UNCHANGED <<addr, made>>
  BY DEF LetGo, Release
<1> HIDE DEF d
<1>3. Known(d) /\ freed[d] \in Nat /\ made \in Nat /\ d \in Nat
  BY <1>1, BoundsAssumption DEF IInv, TypeOK, Ctxs
<1>4. ASSUME NEW i \in AllIds PROVE Found(i)'
  <2>1. info'[i] # 0 => info'[i] = info[i] /\ i \notin revinfo[d]
    BY <1>2
  <2>2. info[i] # 0 => info[i] \in live /\ Id(addr[info[i]]) = i
    BY DEF IInv, Found
  <2>3. info'[i] # 0 => info[i] # d
    BY <1>3, <2>1, <2>2 DEF Known
  <2> QED
    BY <1>2, <2>1, <2>2, <2>3 DEF Found, Id
<1>5. ASSUME NEW c \in Ctxs PROVE Known(c)'
  <2>1. Id(addr[c])' = Id(addr[c]) /\ Known(c)
    BY <1>2 DEF Id, IInv
  <2>2. CASE c = d
    <3>1. c \notin live' /\ revinfo'[c] = {} /\ ~(c > made') /\ freed'[c] <= 1
      BY <1>1, <1>2, <1>3, <2>2 DEF Known, TypeOK
    <3> QED
      BY <3>1 DEF Known
  <2>3. CASE c # d
    <3>1. /\ revinfo'[c] = revinfo[c] /\ freed'[c] = freed[c] /\ (c \in live' <=> c \in live)
          /\ UNCHANGED <<addr, made>>
      BY <1>1, <1>2, <2>3 DEF TypeOK
    <3>2. c \in live => info'[Id(addr[c])] = c
      <4>1. c \in live => Id(addr[c]) \in AllIds /\ info[Id(addr[c])] = c
        BY <2>1, IdType DEF Known
      <4>2. ASSUME Id(addr[c]) \in revinfo[d], c \in live PROVE FALSE
        <5>1. d \in live /\ Id(addr[d]) = Id(addr[c]) /\ info[Id(addr[d])] = d
          BY <1>3, <4>2 DEF Known
        <5> QED
          BY <2>3, <4>1, <4>2, <5>1
      <4> QED
        BY <1>2, <4>1, <4>2
    <3> QED
      BY <2>1, <3>1, <3>2 DEF Known
  <2> QED
    BY <2>2, <2>3
<1>6. /\ info' \in [AllIds -> Ctxs \cup {0}] /\ revinfo' \in [Ctxs -> SUBSET AllIds]
      /\ live' \subseteq Ctxs /\ freed' \in [Ctxs -> Nat]
  BY <1>1, <1>2 DEF TypeOK
<1> QED
  BY <1>2, <1>4, <1>5, <1>6

\* What LetGo leaves of the handles: one is empty, the others are as before.
LEMMA LetGoHandles ==
  ASSUME IInv, NEW h \in Handles, handle[h] # 0, LetGo(h), UNCHANGED asked
  PROVE  handle' \in [Handles -> Ctxs \cup {0}] /\ \A k \in Handles : Attached(k)'
<1>1. handle' = [handle EXCEPT ![h] = 0] /\ UNCHANGED <<addr, made>>
  BY DEF LetGo
<1>2. \A k \in Handles : Attached(k) /\ handle \in [Handles -> Ctxs \cup {0}]
  BY DEF IInv, TypeOK
<1> QED
  BY <1>1, <1>2 DEF Attached

LEMMA NextIInv == IInv /\ [Next]_vars => IInv'
<1> SUFFICES ASSUME IInv, [Next]_vars PROVE IInv'
  OBVIOUS
<1>0. TypeOK
  BY DEF IInv
<1>1. ASSUME NEW h \in Handles, NEW a \in Addrs, GetConnection(h, a) PROVE IInv'
  <2>1. /\ Get(h, a) /\ UNCHANGED <<freed, stage, by, to, execs, lost>>
        /\ asked' = [asked EXCEPT ![h] = a] /\ stage = "none"
    BY <1>1 DEF GetConnection, command
  <2>2. PICK c \in Ctxs : /\ handle' = [handle EXCEPT ![h] = c]
                          /\ c <= made' /\ addr'[c] \in Addrs
                          /\ a.host \in Dotted => addr'[c] = a
    BY <2>1, GetStep DEF Handed
  <2>3. TypeOK'
    BY <1>0, <2>1, <2>2, GetStep DEF TypeOK
  <2>4. ASSUME NEW k \in Handles PROVE Attached(k)'
    <3>1. CASE k = h
      BY <1>0, <2>1, <2>2, <3>1 DEF Attached, TypeOK
    <3>2. CASE k # h
      <4>1. handle'[k] = handle[k] /\ asked'[k] = asked[k] /\ Attached(k)
            /\ handle[k] \in Ctxs \cup {0}
        BY <1>0, <2>1, <2>2, <3>2 DEF TypeOK, IInv
      <4>2. handle[k] # 0 => handle[k] <= made' /\ addr'[handle[k]] = addr[handle[k]]
        BY <2>1, <4>1, GetStep DEF Attached
      <4> QED
        BY <4>1, <4>2 DEF Attached
    <3> QED
      BY <3>1, <3>2
  <2>5. OnWay' /\ Counted'
    BY <2>1 DEF IInv, OnWay, Counted, TwiceOnlyIfLost
  <2> QED
    BY <2>1, <2>3, <2>4, <2>5, GetStep DEF IInv
<1>2. ASSUME NEW h \in Handles, ReleaseConnection(h) PROVE IInv'
  <2>1. /\ LetGo(h) /\ handle[h] # 0 /\ stage = "none"
        /\ UNCHANGED <<asked, stage, by, to, execs, lost>>
    BY <1>2 DEF ReleaseConnection, command
  <2>2. TypeOK'
    BY <1>0, <2>1, LetGoStep, LetGoHandles DEF TypeOK
  <2>3. OnWay' /\ Counted'
    BY <2>1 DEF IInv, OnWay, Counted, TwiceOnlyIfLost
  <2> QED
    BY <2>1, <2>2, <2>3, LetGoStep, LetGoHandles DEF IInv
<1>3. ASSUME NEW h \in Handles, Reply(h) PROVE IInv'
  <2>1. /\ UNCHANGED <<info, revinfo, live, addr, made, handle, asked, freed, stage, to>>
        /\ stage = "none" /\ by' = h /\ execs' = 1 /\ lost' = 0
    BY <1>3 DEF Reply, pool
  <2>2. TypeOK'
    BY <1>0, <2>1 DEF TypeOK
  <2>3. (\A i \in AllIds : Found(i)') /\ (\A c \in Ctxs : Known(c)') /\ (\A k \in Handles : Attached(k)')
    BY <2>1 DEF IInv, Found, Known, Attached
  <2>4. OnWay' /\ Counted'
    BY <2>1 DEF OnWay, Counted, TwiceOnlyIfLost
  <2> QED
    BY <2>2, <2>3, <2>4 DEF IInv
<1>4. ASSUME NEW h \in Handles, NoReply(h) PROVE IInv'
  <2>1. /\ LetGo(h) /\ handle[h] # 0 /\ UNCHANGED asked
        /\ by' = h /\ to' = addr[handle[h]] /\ stage' = "again"
        /\ execs' \in {0, 1} /\ lost' = execs'
    BY <1>4 DEF NoReply, Connected
  <2>2. /\ addr[handle[h]] \in Addrs
        /\ asked[h].host \in Dotted => addr[handle[h]] = asked[h]
    BY <2>1 DEF IInv, Attached
  <2>3. TypeOK'
    BY <1>0, <2>1, <2>2, LetGoStep, LetGoHandles DEF TypeOK
  <2>4. OnWay'
    BY <2>1, <2>2 DEF OnWay
  <2>5. Counted'
    BY <2>1 DEF Counted, TwiceOnlyIfLost
  <2> QED
    BY <2>1, <2>3, <2>4, <2>5, LetGoStep, LetGoHandles DEF IInv
<1>5. ASSUME NEW h \in Handles, NEW g \in Handles, Copy(h, g) PROVE IInv'
  <2>1. /\ UNCHANGED <<info, revinfo, live, addr, made, freed, stage, by, to, execs, lost>>
        /\ handle' = [handle EXCEPT ![h] = handle[g]]
        /\ asked' = [asked EXCEPT ![h] = asked[g]] /\ stage = "none"
    BY <1>5 DEF Copy, pool, command
  <2>2. TypeOK'
    BY <1>0, <2>1 DEF TypeOK
  <2>3. (\A i \in AllIds : Found(i)') /\ (\A c \in Ctxs : Known(c)')
    BY <2>1 DEF IInv, Found, Known
  <2>4. ASSUME NEW k \in Handles PROVE Attached(k)'
    BY <1>0, <2>1 DEF IInv, Attached, TypeOK
  <2>5. OnWay' /\ Counted'
    BY <2>1 DEF IInv, OnWay, Counted, TwiceOnlyIfLost
  <2> QED
    BY <2>2, <2>3, <2>4, <2>5 DEF IInv
<1>6. CASE Again
  <2>1. /\ UNCHANGED <<info, revinfo, live, addr, made, handle, asked, freed, by, execs, lost>>
        /\ stage' = "none" /\ to' = NoAddr
    BY <1>6 DEF Again, pool
  <2>2. TypeOK'
    BY <1>0, <2>1 DEF TypeOK
  <2>3. (\A i \in AllIds : Found(i)') /\ (\A c \in Ctxs : Known(c)') /\ (\A k \in Handles : Attached(k)')
    BY <2>1 DEF IInv, Found, Known, Attached
  <2>4. OnWay' /\ Counted'
    BY <2>1 DEF IInv, OnWay, Counted, TwiceOnlyIfLost
  <2> QED
    BY <2>2, <2>3, <2>4 DEF IInv
<1>7. CASE Reconnect
  <2>1. /\ Get(by, to) /\ stage = "again" /\ stage' = "retry" /\ to' = NoAddr
        /\ UNCHANGED <<asked, freed, by, execs, lost>>
    BY <1>7 DEF Reconnect
  <2>2. by \in Handles /\ to \in Addrs /\ (asked[by].host \in Dotted => to = asked[by])
    BY <1>0, <2>1 DEF IInv, OnWay, TypeOK
  <2>3. PICK c \in Ctxs : /\ handle' = [handle EXCEPT ![by] = c]
                          /\ c <= made' /\ addr'[c] \in Addrs
                          /\ to.host \in Dotted => addr'[c] = to
    BY <2>1, <2>2, GetStep DEF Handed
  <2>4. TypeOK'
    BY <1>0, <2>1, <2>2, <2>3, GetStep DEF TypeOK
  <2>5. ASSUME NEW k \in Handles PROVE Attached(k)'
    <3>1. CASE k = by
      BY <1>0, <2>1, <2>2, <2>3, <3>1 DEF Attached, TypeOK
    <3>2. CASE k # by
      <4>1. handle'[k] = handle[k] /\ asked'[k] = asked[k] /\ Attached(k)
            /\ handle[k] \in Ctxs \cup {0}
        BY <1>0, <2>1, <2>3, <3>2 DEF TypeOK, IInv
      <4>2. handle[k] # 0 => handle[k] <= made' /\ addr'[handle[k]] = addr[handle[k]]
        BY <2>1, <2>2, <4>1, GetStep DEF Attached
      <4> QED
        BY <4>1, <4>2 DEF Attached
    <3> QED
      BY <3>1, <3>2
  <2>6. OnWay'
    BY <1>0, <2>1, <2>2, <2>3 DEF OnWay, TypeOK, Ctxs
  <2>7. Counted'
    BY <2>1 DEF IInv, Counted, TwiceOnlyIfLost
  <2> QED
    BY <2>1, <2>2, <2>4, <2>5, <2>6, <2>7, GetStep DEF IInv
<1>8. CASE Retried
  <2>1. /\ stage = "retry" /\ stage' = "none" /\ UNCHANGED <<asked, by, to>>
        /\ execs \in Nat /\ execs = lost /\ execs <= 1 /\ by \in Handles /\ handle[by] # 0
    BY <1>0, <1>8 DEF Retried, IInv, Counted, OnWay, TypeOK
  <2>2. OnWay'
    BY <2>1 DEF OnWay
  <2>3. CASE execs' = execs + 1 /\ UNCHANGED <<pool, handle, freed, lost>>
    <3>1. TypeOK'
      BY <1>0, <2>1, <2>3 DEF TypeOK, pool
    <3>2. (\A i \in AllIds : Found(i)') /\ (\A c \in Ctxs : Known(c)') /\ (\A k \in Handles : Attached(k)')
      BY <2>1, <2>3 DEF IInv, Found, Known, Attached, pool
    <3>3. Counted'
      BY <2>1, <2>3 DEF Counted, TwiceOnlyIfLost
    <3> QED
      BY <2>2, <3>1, <3>2, <3>3 DEF IInv
  <2>4. CASE execs' \in {execs, execs + 1} /\ lost' = lost + execs' - execs /\ LetGo(by)
    <3>1. execs' \in 0..2 /\ lost' = execs' /\ execs' <= 2
      <4>1. CASE execs' = execs
        BY <2>1, <2>4, <4>1
      <4>2. CASE execs' = execs + 1
        BY <2>1, <2>4, <4>2
      <4> QED
        BY <2>4, <4>1, <4>2
    <3>2. TypeOK'
      BY <1>0, <2>1, <2>4, <3>1, LetGoStep, LetGoHandles DEF TypeOK
    <3>3. Counted'
      BY <2>1, <3>1 DEF Counted, TwiceOnlyIfLost
    <3> QED
      BY <2>1, <2>2, <2>4, <3>2, <3>3, LetGoStep, LetGoHandles DEF IInv
  <2> QED
    BY <1>8, <2>3, <2>4 DEF Retried
<1>9. CASE UNCHANGED vars
  <2>1. TypeOK' /\ OnWay' /\ Counted'
    BY <1>0, <1>9 DEF IInv, vars, pool, command, TypeOK, OnWay, Counted, TwiceOnlyIfLost
  <2>2. (\A i \in AllIds : Found(i)') /\ (\A c \in Ctxs : Known(c)') /\ (\A k \in Handles : Attached(k)')
    BY <1>9 DEF IInv, vars, pool, Found, Known, Attached
  <2> QED
    BY <2>1, <2>2 DEF IInv
<1> QED
  BY <1>1, <1>2, <1>3, <1>4, <1>5, <1>6, <1>7, <1>8, <1>9 DEF Next

LEMMA IInvAlways == Spec => []IInv
  BY InitIInv, NextIInv, PTL DEF Spec

\* The maps of the pool, the handles and the command keep their types.
THEOREM TypeCorrect == Spec => []TypeOK
<1>1. IInv => TypeOK
  BY DEF IInv
<1> QED
  BY <1>1, IInvAlways, PTL

\* However many handles share connections and however they release them, the
\* pool hands out what is open and nothing that was released.
THEOREM PoolHoldsOpen == Spec => []PoolIsOpen
<1>1. IInv => PoolIsOpen
  BY DEF IInv, PoolIsOpen, Found, Known, TypeOK
<1> QED
  BY <1>1, IInvAlways, PTL

\* redisFree gets no connection twice.
THEOREM NoDoubleFree == Spec => []FreedOnce
<1>1. IInv => FreedOnce
  BY DEF IInv, FreedOnce, Known
<1> QED
  BY <1>1, IInvAlways, PTL

\* A handle stays with the server and the database it was asked for, through
\* copies, releases and reconnects.
THEOREM StaysWithServer == Spec => []RightServer
<1>1. IInv => RightServer
  BY DEF IInv, RightServer, Attached
<1> QED
  BY <1>1, IInvAlways, PTL

\* The retry of a command executes it twice only when a reply was lost.
THEOREM RetriesOnlyLost == Spec => []TwiceOnlyIfLost
<1>1. IInv => TwiceOnlyIfLost
  BY DEF IInv, Counted
<1> QED
  BY <1>1, IInvAlways, PTL
=============================================================================
