---------------------------- MODULE PeersProofs ----------------------------
(***************************************************************************)
(* The peers of a node agree with the map that holds them, with the slots  *)
(* of the switch, for every number of addresses and slots, every timing    *)
(* and every order of calls.                                               *)
(***************************************************************************)
EXTENDS Peers, FiniteSetTheorems, WellFoundedInduction, TLAPS

\* A set of naturals that is not empty has a least member.
LEMMA Least ==
    ASSUME NEW S \in SUBSET Nat, S # {}
    PROVE  \E i \in S : \A j \in S : i <= j
<1>1. PICK i \in S : \A j \in S : ~(<<j, i>> \in OpToRel(<, Nat))
    <2> HIDE DEF OpToRel
    <2> QED BY WFMin, NatLessThanWellFounded
<1>2. \A j \in S : ~(j < i)
    BY <1>1 DEF OpToRel
<1> QED BY <1>2

\* Min of a set of naturals is a member of it.
LEMMA MinIn ==
    ASSUME NEW S \in SUBSET Nat, S # {}
    PROVE  Min(S) \in S
BY Least DEF Min

-----------------------------------------------------------------------------
(* Map.h *)

Entry == [key : Addr, handle : Nat]

\* A map as its calls leave it: the handles rise, and the next one is above them all.
MapOK(map) ==
    /\ map \in [entries : Seq(Entry), nextHandle : Nat]
    /\ \A i, j \in 1..count(map) : i < j => map.entries[i].handle < map.entries[j].handle
    /\ \A i \in 1..count(map) : map.entries[i].handle < map.nextHandle

\* s holds the first n entries but for those with one of the keys, in their order.
Kept(s, n, keys, map) ==
    /\ s \in Seq(Entry)
    /\ \A k \in 1..Len(s) : \E i \in 1..n : s[k] = map.entries[i] /\ s[k].key \notin keys
    /\ \A i \in 1..n : map.entries[i].key \notin keys => \E k \in 1..Len(s) : s[k] = map.entries[i]
    /\ \A k, l \in 1..Len(s) : k < l => s[k].handle < s[l].handle

\* The loop that moves entries down leaves those that are not removed, in their order.
LEMMA RemoveKeeps ==
    ASSUME NEW map, MapOK(map), NEW keys
    PROVE  /\ Map_remove(keys, map) = [entries |-> Map_remove(keys, map).entries,
                                       nextHandle |-> map.nextHandle]
           /\ Kept(Map_remove(keys, map).entries, count(map), keys, map)
<1> DEFINE n == count(map)
           body(f, i) == IF i = 0 THEN << >>
                         ELSE IF map.entries[i].key \in keys THEN f[i - 1]
                         ELSE Append(f[i - 1], map.entries[i])
           Solves(f, k) == f = [i \in 0..k |-> body(f, i)]
<1>1. n \in Nat /\ map.entries \in Seq(Entry) /\ \A i \in 1..n : map.entries[i] \in Entry
    BY DEF MapOK, count
<1>2. \A k \in Nat : \E f : Solves(f, k)
    <2> DEFINE bad == {k \in Nat : ~\E f : Solves(f, k)}
    <2> SUFFICES ASSUME bad # {} PROVE FALSE
        OBVIOUS
    <2>1. PICK k \in bad : \A j \in bad : k <= j
        BY Least
    <2>2. CASE k = 0
        <3> DEFINE f == [i \in 0..0 |-> << >>]
        <3>1. /\ f = [i \in 0..0 |-> f[i]]
              /\ \A i \in 0..0 : f[i] = body(f, i)
            OBVIOUS
        <3>2. Solves(f, 0)
            <4> HIDE DEF body, f
            <4> QED BY <3>1
        <3> QED BY <2>1, <2>2, <3>2
    <2>3. CASE k # 0
        <3>1. k - 1 \in Nat /\ k - 1 \notin bad
            <4>1. k \in Nat /\ bad \in SUBSET Nat
                OBVIOUS
            <4> HIDE DEF bad
            <4> QED BY <4>1, <2>1, <2>3
        <3>2. PICK f : Solves(f, k - 1)
            BY <3>1
        <3> DEFINE g == [i \in 0..k |-> IF i = k THEN body(f, k) ELSE f[i]]
        <3>3. \A i \in 0..k : body(g, i) = body(f, i)
            BY <2>3, <3>1
        <3>4. \A i \in 0..k - 1 : f[i] = body(f, i)
            BY <3>2, <3>1
        <3>5. \A i \in 0..k : g[i] = body(g, i)
            <4> HIDE DEF body
            <4> QED BY <3>1, <3>3, <3>4
        <3>6. g = [i \in 0..k |-> g[i]]
            OBVIOUS
        <3>7. Solves(g, k)
            <4> HIDE DEF body, g
            <4> QED BY <3>5, <3>6
        <3> QED BY <2>1, <3>7
    <2> QED BY <2>2, <2>3
<1> DEFINE kept == CHOOSE f : Solves(f, n)
<1>3. Solves(kept, n)
    <2> HIDE DEF Solves
    <2> QED BY <1>1, <1>2
<1>4. Map_remove(keys, map) = [map EXCEPT !.entries = kept[n]]
    BY DEF Map_remove
<1>5. \A i \in 0..n : kept[i] = body(kept, i)
    <2> HIDE DEF body, kept
    <2> QED BY <1>3
<1> HIDE DEF kept
<1>6. \A i \in 0..n : Kept(kept[i], i, keys, map)
    <2> DEFINE bad == {i \in 0..n : ~Kept(kept[i], i, keys, map)}
    <2> SUFFICES ASSUME bad # {} PROVE FALSE
        OBVIOUS
    <2>0. bad \in SUBSET Nat
        BY <1>1
    <2>1. PICK i \in bad : \A j \in bad : i <= j
        BY <2>0, Least
    <2>2. CASE i = 0
        <3>1. kept[0] = << >>
            BY <1>1, <1>5
        <3>2. Kept(<< >>, 0, keys, map)
            BY DEF Kept
        <3> QED BY <2>1, <2>2, <3>1, <3>2
    <2>3. CASE i # 0
        <3>1. i - 1 \in 0..n /\ i - 1 \notin bad /\ i \in 1..n /\ i \in Nat
            BY <1>1, <2>1, <2>3
        <3> DEFINE s == kept[i - 1]
        <3>2. Kept(s, i - 1, keys, map)
            BY <3>1
        <3>3. CASE map.entries[i].key \in keys
            <4>1. kept[i] = s
                BY <1>5, <3>1, <3>3, <2>3
            <4>2. Kept(s, i, keys, map)
                BY <3>1, <3>2, <3>3 DEF Kept
            <4> QED BY <2>1, <4>1, <4>2
        <3>4. CASE map.entries[i].key \notin keys
            <4> DEFINE e == map.entries[i]
                       t == Append(s, e)
            <4>1. kept[i] = t
                BY <1>5, <3>1, <3>4, <2>3
            <4>2. e \in Entry /\ s \in Seq(Entry)
                BY <1>1, <3>1, <3>2 DEF Kept
            <4>3. /\ t \in Seq(Entry) /\ Len(t) = Len(s) + 1 /\ Len(s) \in Nat
                  /\ \A k \in 1..Len(s) : t[k] = s[k]
                  /\ t[Len(s) + 1] = e
                BY <4>2
            <4> HIDE DEF t, s
            <4>4. \A k \in 1..Len(t) : \E j \in 1..i : t[k] = map.entries[j] /\ t[k].key \notin keys
                <5> TAKE k \in 1..Len(t)
                <5>1. CASE k = Len(s) + 1
                    BY <5>1, <4>3, <3>1, <3>4
                <5>2. CASE k # Len(s) + 1
                    <6>1. k \in 1..Len(s) /\ t[k] = s[k]
                        BY <5>2, <4>3
                    <6>2. PICK j \in 1..(i - 1) : s[k] = map.entries[j] /\ s[k].key \notin keys
                        BY <6>1, <3>2 DEF Kept
                    <6> QED BY <6>1, <6>2, <3>1
                <5> QED BY <5>1, <5>2
            <4>5. \A j \in 1..i : map.entries[j].key \notin keys => \E k \in 1..Len(t) : t[k] = map.entries[j]
                <5> SUFFICES ASSUME NEW j \in 1..i, map.entries[j].key \notin keys
                             PROVE  \E k \in 1..Len(t) : t[k] = map.entries[j]
                    OBVIOUS
                <5>1. CASE j = i
                    BY <5>1, <4>3
                <5>2. CASE j # i
                    <6>1. j \in 1..(i - 1)
                        BY <5>2, <3>1
                    <6>2. PICK k \in 1..Len(s) : s[k] = map.entries[j]
                        BY <6>1, <3>2 DEF Kept
                    <6> QED BY <6>2, <4>3
                <5> QED BY <5>1, <5>2
            <4>6. \A k, l \in 1..Len(t) : k < l => t[k].handle < t[l].handle
                <5> SUFFICES ASSUME NEW k \in 1..Len(t), NEW l \in 1..Len(t), k < l
                             PROVE  t[k].handle < t[l].handle
                    OBVIOUS
                <5>1. k \in 1..Len(s) /\ t[k] = s[k]
                    BY <4>3
                <5>2. CASE l = Len(s) + 1
                    <6>1. PICK j \in 1..(i - 1) : s[k] = map.entries[j]
                        BY <5>1, <3>2 DEF Kept
                    <6>2. map.entries[j].handle < map.entries[i].handle
                        BY <3>1, <1>1 DEF MapOK, count
                    <6> QED BY <5>1, <5>2, <6>1, <6>2, <4>3
                <5>3. CASE l # Len(s) + 1
                    <6>1. l \in 1..Len(s) /\ t[l] = s[l]
                        BY <5>3, <4>3
                    <6> QED BY <5>1, <6>1, <3>2 DEF Kept
                <5> QED BY <5>2, <5>3
            <4>7. Kept(t, i, keys, map)
                BY <4>3, <4>4, <4>5, <4>6 DEF Kept
            <4> QED BY <2>1, <4>1, <4>7
        <3> QED BY <3>3, <3>4
    <2> QED BY <2>2, <2>3
<1>7. Kept(kept[n], n, keys, map)
    BY <1>1, <1>6
<1>8. Map_remove(keys, map) = [entries |-> kept[n], nextHandle |-> map.nextHandle]
    BY <1>4 DEF MapOK
<1> QED BY <1>7, <1>8

\* The binary search finds the entry that has the handle.
LEMMA SearchFinds ==
    ASSUME NEW map, MapOK(map), NEW t \in 1..count(map)
    PROVE  indexForHandle(map.entries[t].handle, map) = t
<1> DEFINE n == count(map)
           handle == map.entries[t].handle
           body(f, len, base) ==
               LET mid == base + len \div 2
                   currentHandle == map.entries[mid + 1].handle
               IN  IF len = 0 THEN -1
                   ELSE IF handle = currentHandle THEN mid + 1
                   ELSE IF handle > currentHandle THEN f[(len - 1) \div 2][mid + 1]
                   ELSE f[len \div 2][base]
           row(f, len) == [base \in Nat |-> body(f, len, base)]
           Solves(f, k) == f = [len \in 0..k |-> row(f, len)]
<1>1. n \in Nat /\ t \in 1..n /\ \A i \in 1..n : map.entries[i] \in Entry
    BY DEF MapOK, count
<1>2. \A k \in Nat : \E f : Solves(f, k)
    <2> DEFINE bad == {k \in Nat : ~\E f : Solves(f, k)}
    <2> SUFFICES ASSUME bad # {} PROVE FALSE
        OBVIOUS
    <2>1. PICK k \in bad : \A j \in bad : k <= j
        BY Least
    <2>2. CASE k = 0
        <3> DEFINE f == [len \in 0..0 |-> [base \in Nat |-> -1]]
        <3>1. f = [len \in 0..0 |-> f[len]]
            OBVIOUS
        <3>2. \A len \in 0..0 : f[len] = row(f, len)
            <4>1. \A base \in Nat : body(f, 0, base) = -1
                OBVIOUS
            <4>2. row(f, 0) = [base \in Nat |-> -1]
                <5> HIDE DEF body
                <5> QED BY <4>1
            <4> HIDE DEF row
            <4> QED BY <4>2
        <3>3. Solves(f, 0)
            <4> HIDE DEF row, f
            <4> QED BY <3>1, <3>2
        <3> QED BY <2>1, <2>2, <3>3
    <2>3. CASE k # 0
        <3>1. k - 1 \in Nat /\ k - 1 \notin bad
            <4>1. k \in Nat /\ bad \in SUBSET Nat
                OBVIOUS
            <4> HIDE DEF bad
            <4> QED BY <4>1, <2>1, <2>3
        <3>2. PICK f : Solves(f, k - 1)
            BY <3>1
        <3> DEFINE g == [len \in 0..k |-> IF len = k THEN row(f, k) ELSE f[len]]
        <3>3. \A len \in 0..k : len # 0 => /\ (len - 1) \div 2 \in 0..(k - 1)
                                          /\ len \div 2 \in 0..(k - 1)
            BY <3>1
        <3>4. \A len \in 0..(k - 1) : g[len] = f[len]
            <4> HIDE DEF row
            <4> QED BY <3>1
        <3>5. \A len \in 0..k : row(g, len) = row(f, len)
            <4> SUFFICES ASSUME NEW len \in 0..k
                         PROVE  \A base \in Nat : body(g, len, base) = body(f, len, base)
                <5> HIDE DEF body
                <5> QED OBVIOUS
            <4> HIDE DEF g
            <4> QED BY <3>3, <3>4
        <3>6. \A len \in 0..k - 1 : f[len] = row(f, len)
            <4> HIDE DEF row
            <4> QED BY <3>2, <3>1
        <3>7. \A len \in 0..k : g[len] = row(g, len)
            <4> HIDE DEF row
            <4> QED BY <3>1, <3>5, <3>6
        <3>8. g = [len \in 0..k |-> g[len]]
            <4> HIDE DEF row
            <4> QED OBVIOUS
        <3>9. Solves(g, k)
            <4> HIDE DEF row, g
            <4> QED BY <3>7, <3>8
        <3> QED BY <2>1, <3>9
    <2> QED BY <2>2, <2>3
<1> DEFINE search == CHOOSE f : Solves(f, n)
<1>3. Solves(search, n)
    <2> HIDE DEF Solves
    <2> QED BY <1>1, <1>2
<1>4. indexForHandle(handle, map) = search[n][0]
    BY DEF indexForHandle
<1>5. \A len \in 0..n : search[len] = row(search, len)
    <2> HIDE DEF row, search
    <2> QED BY <1>3
<1> HIDE DEF search
<1>6. \A len \in 0..n : \A base \in Nat : search[len][base] = body(search, len, base)
    <2> HIDE DEF body
    <2> QED BY <1>5
<1> DEFINE Found(len) == \A base \in Nat :
               base + len <= n /\ base < t /\ t <= base + len => search[len][base] = t
<1>7. \A len \in 0..n : Found(len)
    <2> DEFINE bad == {len \in 0..n : ~Found(len)}
    <2> SUFFICES ASSUME bad # {} PROVE FALSE
        OBVIOUS
    <2>0. bad \in SUBSET Nat /\ bad \in SUBSET (0..n)
        BY <1>1
    <2>1. PICK len \in bad : \A j \in bad : len <= j
        BY <2>0, Least
    <2>2. len \in 0..n /\ len \in Nat /\ ~Found(len)
        BY <2>0
    <2>3. \A l \in 0..n : l < len => Found(l)
        BY <2>1, <2>2, <1>1
    <2>4. PICK base \in Nat : /\ base + len <= n /\ base < t /\ t <= base + len
                              /\ search[len][base] # t
        BY <2>2
    <2> HIDE DEF bad
    <2> DEFINE mid == base + len \div 2
               right == (len - 1) \div 2
               left == len \div 2
    <2>5. /\ len # 0 /\ left \in 0..n /\ right \in 0..n /\ left < len /\ right < len
          /\ mid \in Nat /\ mid < n /\ left + right + 1 = len
        <3> HIDE DEF n
        <3>1. len \in Nat /\ len # 0 /\ base + len <= n
            BY <2>2, <2>4, <1>1
        <3>2. left \in Nat /\ right \in Nat /\ left + right + 1 = len
            BY <3>1
        <3> HIDE DEF left, right
        <3>3. mid = base + left
            BY DEF left
        <3> HIDE DEF mid
        <3> QED BY <3>1, <3>2, <3>3, <1>1
    <2>6. search[len][base] = body(search, len, base)
        BY <1>6, <2>2, <2>4
    <2>7. /\ map.entries[mid + 1].handle \in Nat
          /\ handle \in Nat
          /\ mid + 1 < t => map.entries[mid + 1].handle < handle
          /\ t < mid + 1 => handle < map.entries[mid + 1].handle
        <3>1. mid + 1 \in 1..n
            BY <2>5, <1>1
        <3> HIDE DEF mid
        <3> QED BY <3>1, <1>1 DEF MapOK, Entry
    <2>8. CASE t = mid + 1
        BY <2>4, <2>5, <2>6, <2>8
    <2>9. CASE t > mid + 1
        <3>1. search[len][base] = search[right][mid + 1]
            BY <1>1, <2>5, <2>6, <2>7, <2>9
        <3>2. Found(right)
            BY <2>3, <2>5
        <3>3. mid + 1 \in Nat /\ (mid + 1) + right <= n /\ mid + 1 < t /\ t <= (mid + 1) + right
            BY <1>1, <2>4, <2>5, <2>9
        <3> HIDE DEF mid, right
        <3> QED BY <2>4, <3>1, <3>2, <3>3
    <2>10. CASE t < mid + 1
        <3>1. search[len][base] = search[left][base]
            BY <1>1, <2>5, <2>6, <2>7, <2>10
        <3>2. Found(left)
            BY <2>3, <2>5
        <3>3. base + left <= n /\ t <= base + left
            BY <1>1, <2>4, <2>5, <2>10
        <3> HIDE DEF left
        <3> QED BY <2>4, <3>1, <3>2, <3>3
    <2> QED
        <3> HIDE DEF mid, n
        <3> QED BY <1>1, <2>5, <2>8, <2>9, <2>10
<1>8. Found(n)
    <2> HIDE DEF Found
    <2> QED BY <1>1, <1>7
<1> QED BY <1>1, <1>4, <1>8

-----------------------------------------------------------------------------
(* The inductive invariant, as a predicate of the state an operation starts *)
(* from or leaves.  In the middle of a call the peers in X are not yet, or   *)
(* no longer, what they should be.                                          *)

There(st, X, a) == a \in X \/ st.peer[a] # None

Shape(st) ==
    /\ st = [peerMap |-> st.peerMap, peer |-> st.peer, slot |-> st.slot,
             pingCount |-> st.pingCount]
    /\ st.peer = [a \in Addr |-> st.peer[a]]
    /\ st.slot \in [Addr -> Slot \union {None}]
    /\ st.pingCount \in 0..PingSkip - 1

\* A peer has the key of the node at its address, has begun a handshake and has the label
\* of its slot.
Known(st, X) ==
    \A a \in Addr \ X : st.peer[a] # None =>
        /\ st.peer[a] \in Peer
        /\ st.peer[a].key = KeyAt[a]
        /\ st.peer[a].state # UNAUTHENTICATED
        /\ st.peer[a].label = st.slot[a]

\* A slot is held by one peer.
Slotted(st, X) ==
    \A a \in Addr : st.slot[a] # None =>
        /\ There(st, X, a)
        /\ \A b \in Addr : st.slot[b] = st.slot[a] => b = a

\* The map has one entry for each peer, with the handle the peer was given.
Filed(st, X) ==
    /\ MapOK(st.peerMap) /\ st.peerMap.nextHandle <= MaxHandle
    /\ \A i \in 1..count(st.peerMap) :
          /\ There(st, X, st.peerMap.entries[i].key)
          /\ st.peer[st.peerMap.entries[i].key].handle = st.peerMap.entries[i].handle
    /\ \A a \in Addr : There(st, X, a) =>
          \E i \in 1..count(st.peerMap) : st.peerMap.entries[i].key = a

Good(st, X) == Shape(st) /\ Known(st, X) /\ Slotted(st, X) /\ Filed(st, X)

\* What freePeers leaves in each field.
LEMMA FreeFields ==
    ASSUME NEW st, Shape(st), NEW as
    PROVE  LET new == freePeers(st, as) IN
           /\ new = [peerMap |-> new.peerMap, peer |-> new.peer, slot |-> new.slot,
                     pingCount |-> new.pingCount]
           /\ new.peerMap = Map_remove(as, st.peerMap)
           /\ new.peer = [a \in Addr |-> IF a \in as THEN None ELSE st.peer[a]]
           /\ new.slot = [a \in Addr |-> IF a \in as THEN None ELSE st.slot[a]]
           /\ new.pingCount = st.pingCount
<1> DEFINE A == Map_remove(as, st.peerMap)
           B == [a \in Addr |-> IF a \in as THEN None ELSE st.peer[a]]
           C == [a \in Addr |-> IF a \in as THEN None ELSE st.slot[a]]
<1>1. freePeers(st, as) = [st EXCEPT !.peerMap = A, !.peer = B, !.slot = C]
    BY DEF freePeers
<1> HIDE DEF A, B, C
<1>2. freePeers(st, as) = [peerMap |-> A, peer |-> B, slot |-> C,
                           pingCount |-> st.pingCount]
    BY <1>1 DEF Shape
<1> DEFINE new == freePeers(st, as)
<1>3. /\ new = [peerMap |-> new.peerMap, peer |-> new.peer, slot |-> new.slot,
                pingCount |-> new.pingCount]
      /\ new.peerMap = A /\ new.peer = B /\ new.slot = C
      /\ new.pingCount = st.pingCount
    BY <1>2
<1> HIDE DEF new
<1> QED BY <1>3 DEF A, B, C, new

\* A peer that is not freed stays as it was.
LEMMA FreeOther ==
    ASSUME NEW st, Shape(st), NEW as, NEW a \in Addr, a \notin as
    PROVE  freePeers(st, as).peer[a] = st.peer[a] /\ freePeers(st, as).slot[a] = st.slot[a]
<1> DEFINE new == freePeers(st, as)
<1>1. /\ new = [peerMap |-> new.peerMap, peer |-> new.peer, slot |-> new.slot,
                pingCount |-> new.pingCount]
      /\ new.peerMap = Map_remove(as, st.peerMap)
      /\ new.peer = [b \in Addr |-> IF b \in as THEN None ELSE st.peer[b]]
      /\ new.slot = [b \in Addr |-> IF b \in as THEN None ELSE st.slot[b]]
      /\ new.pingCount = st.pingCount
    BY FreeFields
<1> HIDE DEF new
<1>2. new.peer[a] = st.peer[a] /\ new.slot[a] = st.slot[a]
    BY <1>1
<1> QED BY <1>2 DEF new

\* Freeing peers, among them those that are not what they should be, leaves the others as
\* they should be.
LEMMA FreeGood ==
    ASSUME NEW st, NEW X, Good(st, X), NEW as \in SUBSET Addr, X \subseteq as
    PROVE  Good(freePeers(st, as), {})
<1> DEFINE new == freePeers(st, as)
           none == {}
<1>1. Shape(st)
    BY DEF Good
<1>2. /\ new = [peerMap |-> new.peerMap, peer |-> new.peer, slot |-> new.slot,
                pingCount |-> new.pingCount]
      /\ new.peerMap = Map_remove(as, st.peerMap)
      /\ new.peer = [a \in Addr |-> IF a \in as THEN None ELSE st.peer[a]]
      /\ new.slot = [a \in Addr |-> IF a \in as THEN None ELSE st.slot[a]]
      /\ new.pingCount = st.pingCount
    BY <1>1, FreeFields
<1> HIDE DEF new
<1>4. \A a \in Addr : /\ There(new, none, a) <=> There(st, X, a) /\ a \notin as
                      /\ a \notin as => new.peer[a] = st.peer[a] /\ new.slot[a] = st.slot[a]
                      /\ a \in as => new.peer[a] = None /\ new.slot[a] = None
    BY <1>2 DEF There
<1>5. Shape(new)
    <2>1. new.slot \in [Addr -> Slot \union {None}]
        BY <1>1, <1>2 DEF Shape
    <2>2. new.peer = [a \in Addr |-> new.peer[a]]
        BY <1>2
    <2> QED BY <1>1, <1>2, <2>1, <2>2 DEF Shape
<1>6. Known(new, none)
    <2> SUFFICES ASSUME NEW a \in Addr, new.peer[a] # None
                 PROVE  /\ new.peer[a] \in Peer
                        /\ new.peer[a].key = KeyAt[a]
                        /\ new.peer[a].state # UNAUTHENTICATED
                        /\ new.peer[a].label = new.slot[a]
        BY DEF Known
    <2>1. a \notin as /\ a \notin X
        BY <1>4
    <2> QED BY <2>1, <1>4 DEF Good, Known
<1>7. Slotted(new, none)
    BY <1>4 DEF Good, Slotted
<1>8. Filed(new, none)
    <2> DEFINE m == st.peerMap
               r == new.peerMap
    <2>1. MapOK(m) /\ m.nextHandle <= MaxHandle /\ m.nextHandle \in Nat
        BY DEF Good, Filed, MapOK
    <2>2. r = Map_remove(as, m)
        BY <1>2
    <2> HIDE DEF m, r
    <2>20. r = [entries |-> r.entries, nextHandle |-> m.nextHandle] /\ Kept(r.entries, count(m), as, m)
        BY <2>1, <2>2, RemoveKeeps
    <2>3. \A k \in 1..count(r) : \E i \in 1..count(m) : r.entries[k] = m.entries[i] /\ r.entries[k].key \notin as
        BY <2>20 DEF Kept, count
    <2>4. MapOK(r) /\ r.nextHandle = m.nextHandle
        <3>1. r \in [entries : Seq(Entry), nextHandle : Nat]
            BY <2>1, <2>20 DEF Kept
        <3>2. \A i, j \in 1..count(r) : i < j => r.entries[i].handle < r.entries[j].handle
            BY <2>20 DEF Kept, count
        <3>3. \A i \in 1..count(r) : r.entries[i].handle < r.nextHandle
            <4>1. r.nextHandle = m.nextHandle
                BY <2>20
            <4> QED BY <4>1, <2>1, <2>3 DEF MapOK
        <3> QED BY <2>20, <3>1, <3>2, <3>3 DEF MapOK
    <2>5. \A i \in 1..count(m) : m.entries[i].key \in Addr
        <3>1. \A i \in 1..count(m) : m.entries[i] \in Entry
            BY <2>1 DEF MapOK, count
        <3> QED BY <3>1 DEF Entry
    <2>6. \A i \in 1..count(m) : /\ There(st, X, m.entries[i].key)
                                 /\ st.peer[m.entries[i].key].handle = m.entries[i].handle
        BY DEF Good, Filed, m
    <2>7. \A k \in 1..count(r) : /\ There(new, none, r.entries[k].key)
                                 /\ new.peer[r.entries[k].key].handle = r.entries[k].handle
        <3> TAKE k \in 1..count(r)
        <3>1. PICK i \in 1..count(m) : r.entries[k] = m.entries[i] /\ r.entries[k].key \notin as
            BY <2>3
        <3>2. r.entries[k].key \in Addr \ as /\ There(st, X, r.entries[k].key)
            BY <3>1, <2>5, <2>6
        <3> DEFINE a == r.entries[k].key
        <3>3. st.peer[a].handle = r.entries[k].handle
            BY <3>1, <2>6
        <3>4. There(new, none, a) /\ new.peer[a] = st.peer[a]
            <4> HIDE DEF a
            <4> QED BY <3>2, <1>4 DEF a
        <3> QED BY <3>3, <3>4
    <2>8. \A a \in Addr : There(new, none, a) => \E k \in 1..count(r) : r.entries[k].key = a
        <3> SUFFICES ASSUME NEW a \in Addr, There(new, none, a)
                     PROVE  \E k \in 1..count(r) : r.entries[k].key = a
            OBVIOUS
        <3>1. PICK i \in 1..count(m) : m.entries[i].key = a
            BY <1>4 DEF Good, Filed, m
        <3>2. a \notin as
            BY <1>4
        <3> QED BY <3>1, <3>2, <2>20 DEF Kept, count
    <2> QED BY <2>1, <2>4, <2>7, <2>8 DEF Filed, r
<1> QED BY <1>5, <1>6, <1>7, <1>8 DEF Good, new

\* What a state that is as it should be says of a peer.
LEMMA GoodPeer ==
    ASSUME NEW st, Good(st, {}), NEW a \in Addr, st.peer[a] # None
    PROVE  /\ st.peer[a] \in Peer
           /\ st.peer[a].key = KeyAt[a]
           /\ KeyAt[a] \in Range(KeyAt)
           /\ st.peer[a].state # UNAUTHENTICATED
           /\ st.peer[a].label = st.slot[a]
<1>1. KeyAt[a] \in Range(KeyAt)
    BY AddrAssumption DEF Range
<1>2. a \in Addr \ {}
    OBVIOUS
<1> QED BY <1>1, <1>2 DEF Good, Known

\* A call that registers and frees nobody and moves nobody to another slot: it may change
\* times and states.
LEMMA ChangeGood ==
    ASSUME NEW st, Good(st, {}), NEW new, Shape(new),
           new.peerMap = st.peerMap, new.slot = st.slot,
           \A a \in Addr : st.peer[a] = None => new.peer[a] = None,
           \A a \in Addr : st.peer[a] # None =>
               /\ new.peer[a] \in Peer
               /\ new.peer[a].handle = st.peer[a].handle
               /\ new.peer[a].key = st.peer[a].key
               /\ new.peer[a].label = st.peer[a].label
               /\ new.peer[a].state # UNAUTHENTICATED
    PROVE  Good(new, {})
<1> DEFINE none == {}
<1> HIDE DEF none
<1>0. none = {} /\ Good(st, none)
    BY DEF none
<1>1. \A a \in Addr : There(new, none, a) <=> There(st, none, a)
    BY <1>0, NoneAssumption DEF There
<1>2. \A a \in Addr : new.peer[a] # None => st.peer[a] # None
    OBVIOUS
<1>3. Known(new, none)
    BY <1>0, <1>2 DEF Good, Known
<1>4. Slotted(new, none)
    BY <1>0, <1>1 DEF Good, Slotted
<1>5. Filed(new, none)
    <2>1. \A i \in 1..count(st.peerMap) : st.peerMap.entries[i].key \in Addr
        <3>1. \A i \in 1..count(st.peerMap) : st.peerMap.entries[i] \in Entry
            BY DEF Good, Filed, MapOK, count
        <3> QED BY <3>1 DEF Entry
    <2>2. \A i \in 1..count(st.peerMap) :
              /\ There(new, none, st.peerMap.entries[i].key)
              /\ new.peer[st.peerMap.entries[i].key].handle = st.peerMap.entries[i].handle
        <3> TAKE i \in 1..count(st.peerMap)
        <3> DEFINE a == st.peerMap.entries[i].key
        <3>1. There(st, none, a) /\ st.peer[a].handle = st.peerMap.entries[i].handle
            BY <1>0 DEF Good, Filed
        <3>2. a \in Addr
            BY <2>1
        <3> HIDE DEF a
        <3>3. st.peer[a] # None
            BY <3>1, <1>0 DEF There
        <3> QED BY <3>1, <3>2, <3>3, <1>1 DEF a
    <2>3. \A a \in Addr : There(new, none, a) =>
              \E i \in 1..count(st.peerMap) : st.peerMap.entries[i].key = a
        BY <1>0, <1>1 DEF Good, Filed
    <2>4. MapOK(st.peerMap) /\ st.peerMap.nextHandle <= MaxHandle
        BY DEF Good, Filed
    <2> QED BY <2>2, <2>3, <2>4 DEF Filed
<1> QED BY <1>0, <1>3, <1>4, <1>5 DEF Good

\* The peers a scan looks at are in the map, and so are peers.
LEMMA ScannedLive ==
    ASSUME NEW st, Good(st, {}), NEW a \in scanned(st)
    PROVE  a \in Addr /\ st.peer[a] # None
<1>1. PICK i \in 1..count(st.peerMap) : a = st.peerMap.entries[i].key
    BY DEF scanned
<1>2. st.peerMap.entries[i] \in Entry
    BY DEF Good, Filed, MapOK, count
<1>3. a \in Addr
    BY <1>1, <1>2 DEF Entry
<1>4. There(st, {}, st.peerMap.entries[i].key)
    BY DEF Good, Filed
<1> QED BY <1>1, <1>3, <1>4 DEF There

\* A scan before it forgets anybody: it has marked the silent ones.
LEMMA PingMiddle ==
    ASSUME NEW st, Good(st, {})
    PROVE  LET next == [st EXCEPT !.pingCount = (@ + 1) % PingSkip]
               more == (st.pingCount + 1) % PingSkip
               silent == {a \in scanned(st) : unresponsive(st.peer[a]) /\ ~forgotten(st.peer[a])}
               marked == IF pingNow(next) THEN silent ELSE {}
               P == [a \in Addr |-> IF a \in marked THEN [st.peer[a] EXCEPT !.state = UNRESPONSIVE]
                                    ELSE st.peer[a]]
               gone == {a \in scanned(st) : forgotten(st.peer[a])}
               mid == [peerMap |-> st.peerMap, peer |-> P, slot |-> st.slot,
                       pingCount |-> more]
           IN  /\ pingCallback(st) = freePeers(mid, gone) /\ Good(mid, {}) /\ gone \subseteq Addr
<1> DEFINE next == [st EXCEPT !.pingCount = (@ + 1) % PingSkip]
           more == (st.pingCount + 1) % PingSkip
           silent == {a \in scanned(st) : unresponsive(st.peer[a]) /\ ~forgotten(st.peer[a])}
           marked == IF pingNow(next) THEN silent ELSE {}
           P == [a \in Addr |-> IF a \in marked THEN [st.peer[a] EXCEPT !.state = UNRESPONSIVE]
                                ELSE st.peer[a]]
           gone == {a \in scanned(st) : forgotten(st.peer[a])}
           mid == [peerMap |-> st.peerMap, peer |-> P, slot |-> st.slot,
                   pingCount |-> more]
<1>0. Shape(st)
    BY DEF Good
<1>1. pingCallback(st) = freePeers([next EXCEPT !.peer = P], gone)
    <2>1. next.peer = st.peer
        BY <1>0 DEF Shape
    <2> DEFINE P1 == [a \in Addr |-> IF a \in marked THEN [next.peer[a] EXCEPT !.state = UNRESPONSIVE]
                                     ELSE next.peer[a]]
    <2>2. pingCallback(st) = freePeers([next EXCEPT !.peer = P1], gone)
        BY DEF pingCallback
    <2>3. P1 = P
        <3> HIDE DEF next
        <3> QED BY <2>1
    <2> HIDE DEF P1, P, next, gone
    <2> QED BY <2>2, <2>3
<1>2. [next EXCEPT !.peer = P] = mid
    <2>1. next = [st EXCEPT !.pingCount = more]
        OBVIOUS
    <2> HIDE DEF P, next, more
    <2>2. next = [peerMap |-> st.peerMap, peer |-> st.peer, slot |-> st.slot,
                  pingCount |-> more]
        BY <1>0, <2>1 DEF Shape
    <2> DEFINE L == [next EXCEPT !.peer = P]
    <2>3. /\ DOMAIN L = {"peerMap", "peer", "slot", "pingCount"}
          /\ L = [x \in DOMAIN L |-> L[x]]
        BY <2>2
    <2>4. /\ L.peerMap = st.peerMap /\ L.slot = st.slot /\ L.pingCount = more
          /\ L.peer = P
        BY <2>2
    <2> HIDE DEF L
    <2>5. L = mid
        BY <2>3, <2>4
    <2> QED BY <2>5 DEF L
<1>3. \A a \in scanned(st) : a \in Addr /\ st.peer[a] # None
    BY ScannedLive
<1>4. marked \subseteq scanned(st) /\ gone \subseteq Addr
    BY <1>3
<1> HIDE DEF next, silent, marked, gone
<1>8. Shape(mid)
    <2>1. more \in 0..PingSkip - 1
        BY <1>0, TimesAssumption DEF Shape
    <2>2. P = [a \in Addr |-> P[a]]
        OBVIOUS
    <2> HIDE DEF P, more
    <2> QED BY <1>0, <2>1, <2>2 DEF Shape
<1>9. \A a \in Addr : /\ st.peer[a] = None => P[a] = None
                      /\ st.peer[a] # None =>
                            /\ P[a] \in Peer
                            /\ P[a].handle = st.peer[a].handle
                            /\ P[a].key = st.peer[a].key
                            /\ P[a].label = st.peer[a].label
                            /\ P[a].state # UNAUTHENTICATED
    <2> TAKE a \in Addr
    <2>1. CASE st.peer[a] = None
        BY <2>1, <1>3, <1>4
    <2>2. CASE st.peer[a] # None
        <3>1. st.peer[a] \in Peer /\ st.peer[a].state # UNAUTHENTICATED
            BY <2>2, GoodPeer
        <3> QED BY <2>2, <3>1 DEF Peer, UNRESPONSIVE, UNAUTHENTICATED
    <2> QED BY <2>1, <2>2
<1>10. Good(mid, {})
    <2>1. mid.peerMap = st.peerMap /\ mid.slot = st.slot /\ mid.peer = P
        OBVIOUS
    <2> HIDE DEF mid, P
    <2> QED BY <1>8, <1>9, <2>1, ChangeGood
<1>11. pingCallback(st) = freePeers(mid, gone)
    <2> HIDE DEF mid
    <2> QED BY <1>1, <1>2
<1> QED BY <1>4, <1>10, <1>11 DEF next, silent, marked, gone

\* A scan: marks the silent and forgets the transient ones of them.
LEMMA PingGood ==
    ASSUME NEW st, Good(st, {})
    PROVE  Good(pingCallback(st), {})
<1>1. \E mid, gone : /\ pingCallback(st) = freePeers(mid, gone)
                     /\ Good(mid, {}) /\ gone \subseteq Addr
    BY PingMiddle
<1> QED BY <1>1, FreeGood

\* The switch gives a new interface a slot that no other has, or none.
LEMMA NewSlotOK ==
    /\ NewSlot \in Slot \union {None}
    /\ NewSlot # None => \A b \in Addr : slot[b] # NewSlot
<1> DEFINE V == Slots!Vacant(slot)
<1>1. CASE V = {}
    BY <1>1 DEF NewSlot
<1>2. CASE V # {}
    <2>1. V \in SUBSET Nat
        BY AddrAssumption DEF Slots!Vacant
    <2> HIDE DEF V
    <2>2. Min(V) \in V
        BY <1>2, <2>1, MinIn
    <2>3. NewSlot = Min(V)
        BY <1>2 DEF NewSlot, V
    <2> QED BY <2>2, <2>3 DEF V, Slots!Vacant
<1> QED BY <1>1, <1>2

\* A new entry goes to the end of the map, with the next handle.
LEMMA PutAppends ==
    ASSUME NEW map, MapOK(map), NEW a \in Addr,
           \A i \in 1..count(map) : map.entries[i].key # a
    PROVE  LET m == Map_put(a, map) IN
           /\ MapOK(m)
           /\ m.nextHandle = map.nextHandle + 1
           /\ count(m) = count(map) + 1 /\ count(map) \in Nat
           /\ \A i \in 1..count(map) : m.entries[i] = map.entries[i]
           /\ m.entries[count(map) + 1] = [key |-> a, handle |-> map.nextHandle]
<1> DEFINE e == [key |-> a, handle |-> map.nextHandle]
           m == Map_put(a, map)
<1>1. map.entries \in Seq(Entry) /\ map.nextHandle \in Nat
    BY DEF MapOK
<1>2. e \in Entry /\ e.handle = map.nextHandle
    BY <1>1 DEF Entry
<1>3. indexForKey(a, map) = -1
    BY DEF indexForKey
<1>4. m = [entries |-> Append(map.entries, e), nextHandle |-> map.nextHandle + 1]
    BY <1>3 DEF Map_put
<1> HIDE DEF e, m
<1>5. /\ m.nextHandle = map.nextHandle + 1
      /\ count(m) = count(map) + 1 /\ count(map) \in Nat
      /\ \A i \in 1..count(map) : m.entries[i] = map.entries[i]
      /\ m.entries[count(map) + 1] = e
      /\ m \in [entries : Seq(Entry), nextHandle : Nat]
    BY <1>1, <1>2, <1>4 DEF count
<1>6. \A i \in 1..count(map) : map.entries[i].handle \in Nat
    <2>1. \A i \in 1..count(map) : map.entries[i] \in Entry
        BY <1>1 DEF count
    <2> QED BY <2>1 DEF Entry
<1>7. \A i \in 1..count(m) : m.entries[i].handle < m.nextHandle
    <2> TAKE i \in 1..count(m)
    <2>1. CASE i = count(map) + 1
        BY <2>1, <1>1, <1>2, <1>5
    <2>2. CASE i # count(map) + 1
        <3>1. i \in 1..count(map)
            BY <2>2, <1>5
        <3>2. map.entries[i].handle < map.nextHandle
            BY <3>1 DEF MapOK
        <3>3. m.entries[i] = map.entries[i] /\ m.nextHandle = map.nextHandle + 1
            BY <3>1, <1>5
        <3>4. map.entries[i].handle \in Nat /\ map.nextHandle \in Nat
            BY <3>1, <1>1, <1>6
        <3>5. map.entries[i].handle < map.nextHandle + 1
            BY <3>2, <3>4
        <3> QED BY <3>3, <3>5
    <2> QED BY <2>1, <2>2
<1>8. \A i, j \in 1..count(m) : i < j => m.entries[i].handle < m.entries[j].handle
    <2> SUFFICES ASSUME NEW i \in 1..count(m), NEW j \in 1..count(m), i < j
                 PROVE  m.entries[i].handle < m.entries[j].handle
        OBVIOUS
    <2>1. i \in 1..count(map)
        BY <1>5
    <2>2. CASE j = count(map) + 1
        <3>1. map.entries[i].handle < map.nextHandle
            BY <2>1 DEF MapOK
        <3> QED BY <2>1, <2>2, <3>1, <1>2, <1>5
    <2>3. CASE j # count(map) + 1
        <3>1. j \in 1..count(map)
            BY <2>3, <1>5
        <3> QED BY <2>1, <3>1, <1>5 DEF MapOK
    <2> QED BY <2>2, <2>3
<1>9. MapOK(m)
    BY <1>5, <1>7, <1>8 DEF MapOK
<1> QED BY <1>5, <1>9 DEF e, m

\* The struct registerPeer fills in.
NewPeer(key, requireAuth, transient) ==
    [handle |-> peerMap.nextHandle,
     state |-> IF requireAuth THEN UNAUTHENTICATED ELSE HANDSHAKE,
     key |-> key,
     transient |-> transient,
     label |-> NewSlot,
     age |-> IF NewSlot = None THEN MaxAge ELSE PingAfter + 1]

\* The state in which the peer is in the map and has a slot.
Registered(st, a, p) ==
    /\ Good(st, {a})
    /\ st.peer = [peer EXCEPT ![a] = p]
    /\ st.slot = [slot EXCEPT ![a] = NewSlot]

\* registerPeer files the peer and gives it a slot; what it says of the peer is not yet
\* what it should be if the key is not known.
LEMMA RegisterGood ==
    ASSUME Good(Now, {}), NEW a \in Addr, ~Live(a), peerMap.nextHandle < MaxHandle,
           NEW key, NEW requireAuth \in BOOLEAN, NEW transient \in BOOLEAN,
           NEW STATE st, st = registerPeer(Now, a, key, requireAuth, transient),
           NEW STATE p, p = NewPeer(key, requireAuth, transient)
    PROVE  Registered(st, a, p)
<1> DEFINE X == {a}
<1>0. /\ Now.peerMap = peerMap /\ Now.peer = peer /\ Now.slot = slot
      /\ Now.pingCount = pingCount
    BY DEF Now
<1>1. st = [peerMap |-> Map_put(a, peerMap), peer |-> [peer EXCEPT ![a] = p],
            slot |-> [slot EXCEPT ![a] = NewSlot], pingCount |-> pingCount]
    <2>1. st = [Now EXCEPT !.peerMap = Map_put(a, @), !.slot[a] = NewSlot, !.peer[a] = p]
        BY <1>0 DEF registerPeer, NewPeer
    <2> QED BY <2>1 DEF Now
<1>2. /\ peer = [b \in Addr |-> peer[b]] /\ slot \in [Addr -> Slot \union {None}]
      /\ pingCount \in 0..PingSkip - 1
    BY <1>0 DEF Good, Shape
<1>3. peer[a] = None
    BY DEF Live
<1>4. slot[a] = None
    BY <1>0, <1>3 DEF Good, Slotted, There
<1>5. p.handle = peerMap.nextHandle
    BY DEF NewPeer
<1>6. /\ st.peerMap = Map_put(a, peerMap)
      /\ st.peer[a] = p /\ st.slot[a] = NewSlot
      /\ \A b \in Addr \ {a} : st.peer[b] = peer[b] /\ st.slot[b] = slot[b]
    BY <1>1, <1>2
<1>7. Shape(st)
    BY <1>1, <1>2, NewSlotOK DEF Shape
<1>8. Known(st, X)
    <2> SUFFICES ASSUME NEW b \in Addr \ {a}, peer[b] # None
                 PROVE  /\ peer[b] \in Peer
                        /\ peer[b].key = KeyAt[b]
                        /\ peer[b].state # UNAUTHENTICATED
                        /\ peer[b].label = slot[b]
        BY <1>6 DEF Known
    <2>1. Now.peer[b] # None /\ b \in Addr
        BY <1>0
    <2> QED BY <2>1, <1>0, GoodPeer
<1>9. \A b \in Addr : There(st, X, b) <=> b = a \/ There(Now, {}, b)
    BY <1>0, <1>6 DEF There
<1>10. Slotted(st, X)
    <2> SUFFICES ASSUME NEW b \in Addr, st.slot[b] # None
                 PROVE  There(st, X, b) /\ \A c \in Addr : st.slot[c] = st.slot[b] => c = b
        BY DEF Slotted
    <2>1. \A c \in Addr : slot[c] # None =>
              There(Now, {}, c) /\ \A d \in Addr : slot[d] = slot[c] => d = c
        BY <1>0 DEF Good, Slotted
    <2> QED BY <2>1, <1>6, <1>9, NewSlotOK
<1>11. Filed(st, X)
    <2>1. /\ MapOK(peerMap) /\ peerMap.nextHandle \in Nat
          /\ \A i \in 1..count(peerMap) : /\ There(Now, {}, peerMap.entries[i].key)
                                          /\ peer[peerMap.entries[i].key].handle = peerMap.entries[i].handle
          /\ \A b \in Addr : There(Now, {}, b) =>
                \E i \in 1..count(peerMap) : peerMap.entries[i].key = b
        BY <1>0 DEF Good, Filed, MapOK
    <2>2. \A i \in 1..count(peerMap) : peerMap.entries[i].key \in Addr \ {a}
        <3>1. \A i \in 1..count(peerMap) : peerMap.entries[i] \in Entry
            BY <2>1 DEF MapOK, count
        <3>2. ~There(Now, {}, a)
            BY <1>0, <1>3 DEF There
        <3> QED BY <2>1, <3>1, <3>2 DEF Entry
    <2> DEFINE m == st.peerMap
    <2>3. /\ MapOK(m)
          /\ m.nextHandle = peerMap.nextHandle + 1
          /\ count(m) = count(peerMap) + 1 /\ count(peerMap) \in Nat
          /\ \A i \in 1..count(peerMap) : m.entries[i] = peerMap.entries[i]
          /\ m.entries[count(peerMap) + 1] = [key |-> a, handle |-> peerMap.nextHandle]
        BY <1>6, <2>1, <2>2, PutAppends
    <2> HIDE DEF m
    <2>4. \A i \in 1..count(m) : There(st, X, m.entries[i].key) /\ st.peer[m.entries[i].key].handle = m.entries[i].handle
        <3> TAKE i \in 1..count(m)
        <3>1. CASE i = count(peerMap) + 1
            <4>1. m.entries[i].key = a /\ m.entries[i].handle = peerMap.nextHandle
                BY <3>1, <2>3
            <4> QED BY <4>1, <1>5, <1>6, <1>9
        <3>2. CASE i # count(peerMap) + 1
            <4>1. i \in 1..count(peerMap)
                BY <3>2, <2>3
            <4>2. /\ m.entries[i] = peerMap.entries[i] /\ peerMap.entries[i].key \in Addr \ {a}
                  /\ There(Now, {}, peerMap.entries[i].key)
                  /\ peer[peerMap.entries[i].key].handle = peerMap.entries[i].handle
                BY <4>1, <2>1, <2>2, <2>3
            <4> QED BY <4>2, <1>6, <1>9
        <3> QED BY <3>1, <3>2
    <2>5. \A b \in Addr : There(st, X, b) => \E i \in 1..count(m) : m.entries[i].key = b
        <3> SUFFICES ASSUME NEW b \in Addr, There(st, X, b)
                     PROVE  \E i \in 1..count(m) : m.entries[i].key = b
            OBVIOUS
        <3>1. CASE b = a
            BY <3>1, <2>3
        <3>2. CASE b # a
            <4>1. PICK i \in 1..count(peerMap) : peerMap.entries[i].key = b
                BY <3>2, <1>9, <2>1
            <4> QED BY <4>1, <2>3
        <3> QED BY <3>1, <3>2
    <2>6. m.nextHandle <= MaxHandle
        BY <2>1, <2>3, HandleAssumption
    <2> QED BY <2>3, <2>4, <2>5, <2>6 DEF Filed, m
<1>12. Good(st, {a})
    BY <1>7, <1>8, <1>10, <1>11 DEF Good
<1> QED BY <1>1, <1>12 DEF Registered

\* A new peer whose key is known is as it should be.
LEMMA FillGood ==
    ASSUME NEW st, NEW a \in Addr, Good(st, {a}), NEW p \in Peer,
           p.handle = st.peer[a].handle, p.key = KeyAt[a], p.state # UNAUTHENTICATED,
           p.label = st.slot[a]
    PROVE  Good([st EXCEPT !.peer[a] = p], {})
<1> DEFINE new == [st EXCEPT !.peer[a] = p]
           none == {}
           X == {a}
<1>1. Shape(st)
    BY DEF Good
<1>2. new = [peerMap |-> st.peerMap, peer |-> [st.peer EXCEPT ![a] = p], slot |-> st.slot,
             pingCount |-> st.pingCount]
    BY <1>1 DEF Shape
<1> HIDE DEF new
<1>3. /\ new.peerMap = st.peerMap /\ new.slot = st.slot
      /\ new.peer[a] = p
      /\ \A b \in Addr \ {a} : new.peer[b] = st.peer[b]
    BY <1>1, <1>2 DEF Shape
<1>4. Shape(new)
    BY <1>1, <1>2 DEF Shape
<1>5. Known(new, none)
    <2> SUFFICES ASSUME NEW b \in Addr, new.peer[b] # None
                 PROVE  /\ new.peer[b] \in Peer
                        /\ new.peer[b].key = KeyAt[b]
                        /\ new.peer[b].state # UNAUTHENTICATED
                        /\ new.peer[b].label = new.slot[b]
        BY DEF Known
    <2>1. CASE b = a
        BY <2>1, <1>3
    <2>2. CASE b # a
        BY <2>2, <1>3 DEF Good, Known
    <2> QED BY <2>1, <2>2
<1>6. p # None
    BY NoneAssumption
<1>7. \A b \in Addr : There(new, none, b) <=> There(st, X, b)
    BY <1>3, <1>6 DEF There
<1>8. Slotted(new, none)
    BY <1>3, <1>7 DEF Good, Slotted
<1>9. \A b \in Addr : new.peer[b].handle = st.peer[b].handle
    BY <1>3
<1>10. Filed(new, none)
    <2>1. \A i \in 1..count(st.peerMap) : st.peerMap.entries[i].key \in Addr
        <3>1. \A i \in 1..count(st.peerMap) : st.peerMap.entries[i] \in Entry
            BY DEF Good, Filed, MapOK, count
        <3> QED BY <3>1 DEF Entry
    <2>2. \A i \in 1..count(st.peerMap) :
              /\ There(st, X, st.peerMap.entries[i].key)
              /\ st.peer[st.peerMap.entries[i].key].handle = st.peerMap.entries[i].handle
        BY DEF Good, Filed
    <2>3. \A i \in 1..count(st.peerMap) :
              /\ There(new, none, st.peerMap.entries[i].key)
              /\ new.peer[st.peerMap.entries[i].key].handle = st.peerMap.entries[i].handle
        BY <2>1, <2>2, <1>7, <1>9
    <2>4. \A b \in Addr : There(new, none, b) =>
              \E i \in 1..count(st.peerMap) : st.peerMap.entries[i].key = b
        BY <1>7 DEF Good, Filed
    <2>5. MapOK(st.peerMap) /\ st.peerMap.nextHandle <= MaxHandle
        BY DEF Good, Filed
    <2> QED BY <1>3, <2>3, <2>4, <2>5 DEF Filed
<1> QED BY <1>4, <1>5, <1>8, <1>10 DEF Good, new

\* A peer that takes over the slot of another is in the slot its label says; the other is
\* about to be freed.
LEMMA TakeOverGood ==
    ASSUME NEW st, Good(st, {}), NEW a \in Addr, NEW old \in Addr, a # old,
           st.peer[a] # None, st.peer[old] # None, st.slot[a] # None, st.slot[old] # None
    PROVE  Good(takeOver(st, a, old), {old})
<1> DEFINE q == [st.peer[a] EXCEPT !.label = st.peer[old].label]
           S == [st.slot EXCEPT ![a] = st.slot[old], ![old] = st.slot[a]]
           new == takeOver(st, a, old)
           X == {old}
           none == {}
<1>1. Shape(st)
    BY DEF Good
<1>2. new = [peerMap |-> st.peerMap, peer |-> [st.peer EXCEPT ![a] = q], slot |-> S,
             pingCount |-> st.pingCount]
    <2>1. new = [st EXCEPT !.peer[a].label = st.peer[old].label, !.slot = S]
        BY DEF takeOver, Slots!Swapped
    <2> HIDE DEF S, new
    <2>2. new = [st EXCEPT !.peer = [st.peer EXCEPT ![a] = q], !.slot = S]
        BY <2>1
    <2> HIDE DEF q
    <2> QED BY <2>2, <1>1 DEF Shape
<1> HIDE DEF new
<1>3. /\ new.peerMap = st.peerMap
      /\ new.peer[a] = q /\ new.slot = S
      /\ \A b \in Addr \ {a} : new.peer[b] = st.peer[b]
    <2> HIDE DEF q, S
    <2> QED BY <1>1, <1>2 DEF Shape
<1>4. /\ st.peer[a] \in Peer /\ st.peer[a].key = KeyAt[a] /\ st.peer[a].state # UNAUTHENTICATED
      /\ st.peer[a].label = st.slot[a] /\ st.peer[old].label = st.slot[old]
    BY GoodPeer
<1>5. /\ q \in Peer /\ q.key = KeyAt[a] /\ q.state # UNAUTHENTICATED
      /\ q.label = st.slot[old] /\ q.handle = st.peer[a].handle
    BY <1>1, <1>4 DEF Peer, Shape
<1>6. S \in [Addr -> Slot \union {None}]
    BY <1>1 DEF Shape
<1>7. /\ S[a] = st.slot[old] /\ S[old] = st.slot[a]
      /\ \A b \in Addr \ {a, old} : S[b] = st.slot[b]
    BY <1>1 DEF Shape
<1> HIDE DEF q, S
<1>8. Shape(new)
    BY <1>1, <1>2, <1>6 DEF Shape
<1>9. Known(new, X)
    <2> SUFFICES ASSUME NEW b \in Addr \ {old}, new.peer[b] # None
                 PROVE  /\ new.peer[b] \in Peer
                        /\ new.peer[b].key = KeyAt[b]
                        /\ new.peer[b].state # UNAUTHENTICATED
                        /\ new.peer[b].label = new.slot[b]
        BY DEF Known
    <2>1. CASE b = a
        BY <2>1, <1>3, <1>5, <1>7
    <2>2. CASE b # a
        <3>1. st.peer[b] # None /\ b \in Addr
            BY <2>2, <1>3
        <3> QED BY <2>2, <3>1, <1>3, <1>7, GoodPeer
    <2> QED BY <2>1, <2>2
<1>10. q # None
    BY <1>5, NoneAssumption
<1>11. \A b \in Addr : There(new, X, b) <=> There(st, none, b)
    BY <1>3, <1>10 DEF There
<1>12. Slotted(new, X)
    <2>1. \A b \in Addr : st.slot[b] # None =>
              There(st, none, b) /\ \A c \in Addr : st.slot[c] = st.slot[b] => c = b
        BY DEF Good, Slotted
    <2> SUFFICES ASSUME NEW b \in Addr, S[b] # None
                 PROVE  There(st, none, b) /\ \A c \in Addr : S[c] = S[b] => c = b
        BY <1>3, <1>11 DEF Slotted
    <2> QED BY <2>1, <1>7
<1>13. \A b \in Addr : new.peer[b].handle = st.peer[b].handle
    BY <1>3, <1>5
<1>14. Filed(new, X)
    <2>1. \A i \in 1..count(st.peerMap) : st.peerMap.entries[i].key \in Addr
        <3>1. \A i \in 1..count(st.peerMap) : st.peerMap.entries[i] \in Entry
            BY DEF Good, Filed, MapOK, count
        <3> QED BY <3>1 DEF Entry
    <2>2. \A i \in 1..count(st.peerMap) :
              /\ There(st, none, st.peerMap.entries[i].key)
              /\ st.peer[st.peerMap.entries[i].key].handle = st.peerMap.entries[i].handle
        BY DEF Good, Filed
    <2>3. \A i \in 1..count(st.peerMap) :
              /\ There(new, X, st.peerMap.entries[i].key)
              /\ new.peer[st.peerMap.entries[i].key].handle = st.peerMap.entries[i].handle
        BY <2>1, <2>2, <1>11, <1>13
    <2>4. \A b \in Addr : There(new, X, b) =>
              \E i \in 1..count(st.peerMap) : st.peerMap.entries[i].key = b
        BY <1>11 DEF Good, Filed
    <2>5. MapOK(st.peerMap) /\ st.peerMap.nextHandle <= MaxHandle
        BY DEF Good, Filed
    <2> QED BY <1>3, <2>3, <2>4, <2>5 DEF Filed
<1> QED BY <1>8, <1>9, <1>12, <1>14 DEF Good, new

\* moveEndpointIfNeeded, when the peer it swaps with has a slot.
LEMMA MoveGood ==
    ASSUME NEW st, Good(st, {}), NEW a \in Addr, st.peer[a] # None, st.slot[a] # None,
           sameKey(st, a) # {} => st.slot[firstOther(st, a)] # None
    PROVE  LET new == moveEndpointIfNeeded(st, a) IN
           /\ Good(new, {})
           /\ new.peer[a] # None
<1> DEFINE K1 == sameKey(st, a)
           old == firstOther(st, a)
           new == moveEndpointIfNeeded(st, a)
<1>1. CASE K1 = {}
    BY <1>1 DEF moveEndpointIfNeeded
<1>2. CASE K1 # {}
    <2>1. new = freePeers(takeOver(st, a, old), {old})
        BY <1>2 DEF moveEndpointIfNeeded
    <2>2. K1 \in SUBSET Nat
        BY DEF sameKey
    <2>3. Min(K1) \in K1
        <3> HIDE DEF K1
        <3> QED BY <1>2, <2>2, MinIn
    <2>4. /\ Min(K1) \in 1..count(st.peerMap) /\ old = st.peerMap.entries[Min(K1)].key
          /\ old # a /\ st.slot[old] # None
        BY <1>2, <2>3 DEF sameKey, firstOther
    <2>5. old \in Addr /\ st.peer[old] # None
        <3> HIDE DEF K1
        <3>1. st.peerMap.entries[Min(K1)] \in Entry
            BY <2>4 DEF Good, Filed, MapOK, count
        <3>2. There(st, {}, st.peerMap.entries[Min(K1)].key)
            BY <2>4 DEF Good, Filed
        <3> QED BY <2>4, <3>1, <3>2 DEF Entry, There
    <2> HIDE DEF old, new
    <2>6. Good(takeOver(st, a, old), {old})
        BY <2>4, <2>5, TakeOverGood
    <2>7. Good(new, {})
        BY <2>1, <2>5, <2>6, FreeGood
    <2>8. Shape(takeOver(st, a, old)) /\ Shape(st)
        BY <2>6 DEF Good
    <2>9. new.peer[a] = takeOver(st, a, old).peer[a]
        <3> DEFINE mid == takeOver(st, a, old)
        <3> HIDE DEF mid
        <3>1. Shape(mid) /\ new = freePeers(mid, {old})
            BY <2>1, <2>8 DEF mid
        <3> QED BY <2>4, <3>1, FreeOther DEF mid
    <2>10. takeOver(st, a, old).peer[a] = [st.peer[a] EXCEPT !.label = st.peer[old].label]
        BY <2>8 DEF takeOver, Shape
    <2>11. [st.peer[a] EXCEPT !.label = st.peer[old].label] \in Peer
        <3>1. st.peer[a] \in Peer /\ st.peer[old] \in Peer
            BY <2>5, GoodPeer
        <3> QED BY <3>1 DEF Peer
    <2> QED BY <2>7, <2>9, <2>10, <2>11, NoneAssumption DEF new
<1> QED BY <1>1, <1>2

IInv == Good(Now, {})

\* A state that a call leaves is the one the next call starts from.
LEMMA BecomeGood ==
    ASSUME NEW STATE st, Good(st, {}), Become(st)
    PROVE  IInv'
<1>1. Shape(st)
    BY DEF Good
<1>2. Now' = st
    BY <1>1 DEF Become, Now, Shape
<1> QED BY <1>2 DEF IInv

\* What the switch does with a packet.
LEMMA ForwardGood ==
    ASSUME NEW STATE st, Good(st, {}), NEW a \in Addr, forward(st, a)
    PROVE  IInv'
BY BecomeGood DEF forward

\* A peer with another state or time.
LEMMA SetGood ==
    ASSUME NEW st, Good(st, {}), NEW a \in Addr, st.peer[a] # None, NEW p \in Peer,
           p.handle = st.peer[a].handle, p.key = st.peer[a].key, p.label = st.peer[a].label,
           p.state # UNAUTHENTICATED
    PROVE  Good([st EXCEPT !.peer[a] = p], {})
<1> DEFINE new == [st EXCEPT !.peer[a] = p]
<1>1. Shape(st)
    BY DEF Good
<1>2. new = [peerMap |-> st.peerMap, peer |-> [st.peer EXCEPT ![a] = p], slot |-> st.slot,
             pingCount |-> st.pingCount]
    BY <1>1 DEF Shape
<1> HIDE DEF new
<1>3. Shape(new)
    BY <1>1, <1>2 DEF Shape
<1>4. \A b \in Addr : st.peer[b] # None => st.peer[b] \in Peer /\ st.peer[b].state # UNAUTHENTICATED
    BY GoodPeer
<1>6. /\ new.peerMap = st.peerMap /\ new.slot = st.slot
      /\ new.peer[a] = p /\ \A b \in Addr \ {a} : new.peer[b] = st.peer[b]
    BY <1>1, <1>2 DEF Shape
<1>7. \A b \in Addr : st.peer[b] = None => new.peer[b] = None
    BY <1>6
<1>8. \A b \in Addr : st.peer[b] # None =>
          /\ new.peer[b] \in Peer
          /\ new.peer[b].handle = st.peer[b].handle
          /\ new.peer[b].key = st.peer[b].key
          /\ new.peer[b].label = st.peer[b].label
          /\ new.peer[b].state # UNAUTHENTICATED
    BY <1>4, <1>6
<1>9. Good(new, {})
    BY <1>3, <1>6, <1>7, <1>8, ChangeGood
<1> QED BY <1>9 DEF new

\* A peer with a known key as registerPeer leaves it.
LEMMA KnownRegistered ==
    ASSUME Good(Now, {}), NEW a \in Addr, ~Live(a), peerMap.nextHandle < MaxHandle,
           NEW transient \in BOOLEAN
    PROVE  Registered(registerPeer(Now, a, KeyAt[a], FALSE, transient), a,
                      NewPeer(KeyAt[a], FALSE, transient))
<1> DEFINE key == KeyAt[a]
           auth == FALSE
<1>1. auth \in BOOLEAN
    OBVIOUS
<1> HIDE DEF key, auth
<1>2. Registered(registerPeer(Now, a, key, auth, transient), a, NewPeer(key, auth, transient))
    BY <1>1, RegisterGood, Zenon
<1> QED BY <1>2 DEF key, auth

\* A new peer with a known key, from the configuration or a beacon.
LEMMA KnownPeerGood ==
    ASSUME Good(Now, {}), NEW a \in Addr, ~Live(a), peerMap.nextHandle < MaxHandle,
           NEW transient \in BOOLEAN
    PROVE  Good(registerPeer(Now, a, KeyAt[a], FALSE, transient), {})
<1> DEFINE st == registerPeer(Now, a, KeyAt[a], FALSE, transient)
           p == NewPeer(KeyAt[a], FALSE, transient)
<1>1. /\ Good(st, {a})
      /\ st.peer[a] = p
      /\ st.slot[a] = NewSlot
    <2>2. Registered(st, a, p)
        BY KnownRegistered
    <2>6. peer = [b \in Addr |-> peer[b]] /\ slot \in [Addr -> Slot \union {None}]
        BY DEF Now, Good, Shape
    <2> HIDE DEF st, p
    <2> QED BY <2>2, <2>6 DEF Registered
<1>2. peerMap.nextHandle \in Nat
    BY DEF Good, Filed, MapOK, Now
<1>3. KeyAt[a] \in Range(KeyAt)
    BY AddrAssumption DEF Range
<1>4. /\ p \in Peer /\ p.handle = p.handle /\ p.key = KeyAt[a] /\ p.label = NewSlot
      /\ p.state # UNAUTHENTICATED
    BY <1>2, <1>3, NewSlotOK, TimesAssumption, HandleAssumption
       DEF NewPeer, Peer, HANDSHAKE, UNAUTHENTICATED, UNRESPONSIVE, MaxAge
<1> HIDE DEF st, p
<1>5. Good([st EXCEPT !.peer[a] = p], {})
    BY <1>1, <1>4, FillGood
<1>6. [st EXCEPT !.peer[a] = p] = st
    BY <1>1 DEF Good, Shape
<1> QED BY <1>5, <1>6 DEF st

\* Setting one field of a peer.
LEMMA FieldSet ==
    ASSUME NEW st, Shape(st), NEW a \in Addr, NEW x
    PROVE  /\ [st EXCEPT !.peer[a].state = x] = [st EXCEPT !.peer[a] = [st.peer[a] EXCEPT !.state = x]]
           /\ [st EXCEPT !.peer[a].age = x] = [st EXCEPT !.peer[a] = [st.peer[a] EXCEPT !.age = x]]
OBVIOUS

\* UDPInterface_beginConnection and ETHInterface_beginConnection.
LEMMA BeginConnectionGood ==
    ASSUME IInv, NEW a \in Addr, beginConnection(a)
    PROVE  IInv'
<1> DEFINE st == registerPeer(Now, a, KeyAt[a], FALSE, FALSE)
<1>1. Good(Now, {}) /\ ~Live(a) /\ peerMap.nextHandle < MaxHandle
    BY DEF IInv, beginConnection, MayRegister
<1>2. Good(st, {})
    BY <1>1, KnownPeerGood
<1>3. Become(IF NewSlot = None THEN freePeers(st, {a}) ELSE pingCallback(st))
    BY DEF beginConnection
<1> HIDE DEF st
<1>4. Good(freePeers(st, {a}), {}) /\ Good(pingCallback(st), {})
    BY <1>2, FreeGood, PingGood
<1>5. CASE NewSlot = None
    <2>1. Become(freePeers(st, {a}))
        BY <1>3, <1>5
    <2> QED BY <1>4, <2>1, BecomeGood
<1>6. CASE NewSlot # None
    <2>1. Become(pingCallback(st))
        BY <1>3, <1>6
    <2> QED BY <1>4, <2>1, BecomeGood
<1> QED BY <1>5, <1>6

\* handleBeacon.
LEMMA HandleBeaconGood ==
    ASSUME IInv, NEW a \in Addr, handleBeacon(a)
    PROVE  IInv'
<1> DEFINE st == registerPeer(Now, a, KeyAt[a], FALSE, TRUE)
<1>1. Good(Now, {}) /\ ~Live(a) /\ peerMap.nextHandle < MaxHandle
    BY DEF IInv, handleBeacon, MayRegister
<1>2. Good(st, {})
    BY <1>1, KnownPeerGood
<1>3. Become(IF NewSlot = None THEN st ELSE pingCallback(st))
    BY DEF handleBeacon
<1> HIDE DEF st
<1>4. Good(pingCallback(st), {})
    BY <1>2, PingGood
<1>5. CASE NewSlot = None
    <2>1. Become(st)
        BY <1>3, <1>5
    <2> QED BY <1>2, <2>1, BecomeGood
<1>6. CASE NewSlot # None
    <2>1. Become(pingCallback(st))
        BY <1>3, <1>6
    <2> QED BY <1>4, <2>1, BecomeGood
<1> QED BY <1>5, <1>6

\* A stranger's peer as registerPeer leaves it.
LEMMA StrangerRegistered ==
    ASSUME Good(Now, {}), NEW a \in Addr, ~Live(a), peerMap.nextHandle < MaxHandle
    PROVE  Registered(registerPeer(Now, a, None, TRUE, TRUE), a, NewPeer(None, TRUE, TRUE))
<1> DEFINE auth == TRUE
<1>1. auth \in BOOLEAN
    OBVIOUS
<1> HIDE DEF auth
<1>2. Registered(registerPeer(Now, a, None, auth, auth), a, NewPeer(None, auth, auth))
    BY <1>1, RegisterGood, Zenon
<1> QED BY <1>2 DEF auth

\* A packet that authenticates nobody leaves what was there.
LEMMA ReceiveDroppedGood ==
    ASSUME IInv, NEW a \in Addr, receiveDropped(a)
    PROVE  IInv'
<1>1. Good(Now, {}) /\ (Live(a) \/ peerMap.nextHandle < MaxHandle)
    BY DEF IInv, receiveDropped, MayReceive, MayRegister
<1>2. CASE Live(a)
    <2>1. PeerFor(a) = Now /\ Now.peer[a] # None
        BY <1>2 DEF PeerFor, Live, Now
    <2>2. Now.peer[a].state # UNAUTHENTICATED
        BY <1>1, <2>1, GoodPeer
    <2>3. Become(Now)
        BY <2>1, <2>2 DEF receiveDropped, afterReceive
    <2> QED BY <1>1, <2>3, BecomeGood
<1>3. CASE ~Live(a)
    <2> DEFINE st == registerPeer(Now, a, None, TRUE, TRUE)
    <2>1. PeerFor(a) = st
        BY <1>3 DEF PeerFor
    <2>2. Registered(st, a, NewPeer(None, TRUE, TRUE))
        BY <1>1, <1>3, StrangerRegistered
    <2>3. Become(afterReceive(st, a))
        BY <2>1 DEF receiveDropped
    <2> HIDE DEF st
    <2>4. peer = [b \in Addr |-> peer[b]]
        BY <1>1 DEF Now, Good, Shape
    <2>5. st.peer[a].state = UNAUTHENTICATED
        BY <2>2, <2>4 DEF Registered, NewPeer
    <2>6. Become(freePeers(st, {a}))
        BY <2>3, <2>5 DEF afterReceive
    <2>7. Good(freePeers(st, {a}), {})
        BY <2>2, FreeGood DEF Registered
    <2> QED BY <2>6, <2>7, BecomeGood
<1> QED BY <1>2, <1>3

\* A peer of which a packet of the handshake tells the key.
Keyed(q, key) == [q EXCEPT !.key = key, !.state = HANDSHAKE]

\* It is as it should be if the rest of it was.
LEMMA KeyedPeer ==
    ASSUME NEW q, NEW key \in Range(KeyAt),
           q = [handle |-> q.handle, state |-> q.state, key |-> q.key,
                transient |-> q.transient, label |-> q.label, age |-> q.age],
           q.handle \in 0..MaxHandle - 1, q.transient \in BOOLEAN,
           q.label \in Slot \union {None}, q.age \in 0..MaxAge
    PROVE  /\ Keyed(q, key) \in Peer
           /\ Keyed(q, key).handle = q.handle
           /\ Keyed(q, key).key = key
           /\ Keyed(q, key).label = q.label
           /\ Keyed(q, key).state # UNAUTHENTICATED
<1> DEFINE p == Keyed(q, key)
<1>1. HANDSHAKE \in UNAUTHENTICATED..UNRESPONSIVE /\ HANDSHAKE # UNAUTHENTICATED
    BY DEF HANDSHAKE, UNAUTHENTICATED, UNRESPONSIVE
<1>2. /\ DOMAIN p = {"handle", "state", "key", "transient", "label", "age"}
      /\ p = [f \in DOMAIN p |-> p[f]]
    BY DEF Keyed
<1>3. /\ p.handle = q.handle /\ p.state = HANDSHAKE /\ p.key = key
      /\ p.label = q.label /\ p.age = q.age
    BY DEF Keyed
<1>4. p.transient = q.transient
    BY DEF Keyed
<1>5. p.transient \in BOOLEAN
    BY <1>4, Zenon
<1> HIDE DEF p
<1>6. p \in Peer
    BY <1>1, <1>2, <1>3, <1>5 DEF Peer
<1> QED BY <1>1, <1>3, <1>6 DEF p

\* A packet of a handshake: the state the peer is in before the switch sees the packet.
LEMMA HandshakeGood ==
    ASSUME IInv, NEW a \in Addr, receiveHandshake(a)
    PROVE  Good([PeerFor(a) EXCEPT !.peer[a].key = KeyAt[a], !.peer[a].state = HANDSHAKE], {})
<1>1. Good(Now, {}) /\ (Live(a) \/ peerMap.nextHandle < MaxHandle)
    BY DEF IInv, receiveHandshake, MayReceive, MayRegister
<1>2. KeyAt[a] \in Range(KeyAt)
    BY AddrAssumption DEF Range
<1>3. CASE Live(a)
    <2> DEFINE q == peer[a]
               p == Keyed(q, KeyAt[a])
    <2>1. PeerFor(a) = Now /\ Now.peer = peer /\ peer[a] # None
        BY <1>3 DEF PeerFor, Live, Now
    <2>2. q \in Peer /\ q.key = KeyAt[a]
        BY <1>1, <2>1, GoodPeer
    <2>3. [Now EXCEPT !.peer[a].key = KeyAt[a], !.peer[a].state = HANDSHAKE] = [Now EXCEPT !.peer[a] = p]
        <3>1. peer = [b \in Addr |-> peer[b]]
            BY <1>1, <2>1 DEF Good, Shape
        <3> QED BY <2>1, <3>1 DEF Now, Keyed
    <2>4. Now.peer[a] = q
        BY <2>1
    <2> HIDE DEF q
    <2>5. /\ q = [handle |-> q.handle, state |-> q.state, key |-> q.key,
                  transient |-> q.transient, label |-> q.label, age |-> q.age]
          /\ q.handle \in 0..MaxHandle - 1
          /\ q.label \in Slot \union {None} /\ q.age \in 0..MaxAge
        BY <2>2 DEF Peer
    <2>6. q.transient \in BOOLEAN
        BY <2>2, Zenon DEF Peer
    <2>7. /\ p \in Peer /\ p.handle = q.handle /\ p.key = KeyAt[a] /\ p.label = q.label
          /\ p.state # UNAUTHENTICATED
        BY <1>2, <2>5, <2>6, KeyedPeer
    <2> HIDE DEF p
    <2>8. Good([Now EXCEPT !.peer[a] = p], {})
        BY <1>1, <2>1, <2>2, <2>4, <2>7, SetGood
    <2> QED BY <2>1, <2>3, <2>8
<1>4. CASE ~Live(a)
    <2> DEFINE st == registerPeer(Now, a, None, TRUE, TRUE)
               q == NewPeer(None, TRUE, TRUE)
               p == Keyed(q, KeyAt[a])
    <2>1. PeerFor(a) = st
        BY <1>4 DEF PeerFor
    <2>2. Registered(st, a, q)
        BY <1>1, <1>4, StrangerRegistered
    <2>3. peerMap.nextHandle \in Nat /\ peerMap.nextHandle < MaxHandle
        BY <1>1, <1>4 DEF Good, Filed, MapOK, Now
    <2>4. /\ p \in Peer /\ p.handle = q.handle /\ p.key = KeyAt[a] /\ p.label = NewSlot
          /\ p.state # UNAUTHENTICATED
        <3> DEFINE age == IF NewSlot = None THEN MaxAge ELSE PingAfter + 1
                   yes == TRUE
        <3>1. q = [handle |-> peerMap.nextHandle, state |-> UNAUTHENTICATED, key |-> None,
                   transient |-> yes, label |-> NewSlot, age |-> age]
            BY DEF NewPeer
        <3>2. age \in 0..MaxAge
            BY TimesAssumption DEF MaxAge
        <3>3. yes \in BOOLEAN
            OBVIOUS
        <3> HIDE DEF age, q, yes
        <3>4. /\ q = [handle |-> q.handle, state |-> q.state, key |-> q.key,
                      transient |-> q.transient, label |-> q.label, age |-> q.age]
              /\ q.handle = peerMap.nextHandle /\ q.label = NewSlot /\ q.age = age
            BY <3>1
        <3>5. q.transient = yes
            BY <3>1
        <3>6. q.transient \in BOOLEAN
            BY <3>3, <3>5, Zenon
        <3>7. /\ q.handle \in 0..MaxHandle - 1 /\ q.label \in Slot \union {None}
              /\ q.age \in 0..MaxAge
            BY <2>3, <3>2, <3>4, NewSlotOK, HandleAssumption
        <3> QED BY <1>2, <3>4, <3>6, <3>7, KeyedPeer
    <2> HIDE DEF st, q
    <2>5. peer = [b \in Addr |-> peer[b]] /\ slot \in [Addr -> Slot \union {None}]
        BY <1>1 DEF Now, Good, Shape
    <2>6. st.peer[a] = q /\ st.slot[a] = NewSlot /\ Good(st, {a})
        BY <2>2, <2>5 DEF Registered
    <2>7. [st EXCEPT !.peer[a].key = KeyAt[a], !.peer[a].state = HANDSHAKE] = [st EXCEPT !.peer[a] = p]
        BY <2>6 DEF Good, Shape, Keyed
    <2> HIDE DEF p
    <2>8. Good([st EXCEPT !.peer[a] = p], {})
        BY <2>4, <2>6, FillGood
    <2> QED BY <2>1, <2>7, <2>8
<1> QED BY <1>3, <1>4

\* A packet of a handshake.
LEMMA ReceiveHandshakeGood ==
    ASSUME IInv, NEW a \in Addr, receiveHandshake(a)
    PROVE  IInv'
<1> DEFINE st == [PeerFor(a) EXCEPT !.peer[a].key = KeyAt[a], !.peer[a].state = HANDSHAKE]
<1>1. Good(st, {})
    BY HandshakeGood
<1>2. Become(st) \/ forward(pingCallback(st), a)
    BY DEF receiveHandshake
<1> HIDE DEF st
<1>3. Good(pingCallback(st), {})
    BY <1>1, PingGood
<1>4. CASE Become(st)
    BY <1>1, <1>4, BecomeGood
<1>5. CASE forward(pingCallback(st), a)
    BY <1>3, <1>5, ForwardGood
<1> QED BY <1>2, <1>4, <1>5

\* A peer with another state is as it should be if the state is one of a session.
LEMMA StateSetGood ==
    ASSUME NEW st, Good(st, {}), NEW a \in Addr, st.peer[a] # None
    PROVE  Good([st EXCEPT !.peer[a].state = ESTABLISHED], {})
<1> DEFINE q == st.peer[a]
           p == [q EXCEPT !.state = ESTABLISHED]
<1>1. q \in Peer
    BY GoodPeer
<1>2. Shape(st)
    BY DEF Good
<1>3. [st EXCEPT !.peer[a].state = ESTABLISHED] = [st EXCEPT !.peer[a] = p]
    BY <1>2, FieldSet
<1> HIDE DEF q
<1>4. /\ p \in Peer /\ p.handle = q.handle /\ p.key = q.key /\ p.label = q.label
      /\ p.state # UNAUTHENTICATED
    BY <1>1 DEF Peer, ESTABLISHED, UNAUTHENTICATED, UNRESPONSIVE
<1> HIDE DEF p
<1>5. Good([st EXCEPT !.peer[a] = p], {})
    BY <1>4, SetGood DEF q
<1> QED BY <1>3, <1>5

\* A packet restarts the time.
LEMMA AgeSetGood ==
    ASSUME NEW st, Good(st, {}), NEW a \in Addr, st.peer[a] # None
    PROVE  Good([st EXCEPT !.peer[a].age = 0], {})
<1> DEFINE q == st.peer[a]
           p == [q EXCEPT !.age = 0]
<1>1. q \in Peer /\ q.state # UNAUTHENTICATED
    BY GoodPeer
<1>2. Shape(st)
    BY DEF Good
<1>3. [st EXCEPT !.peer[a].age = 0] = [st EXCEPT !.peer[a] = p]
    BY <1>2, FieldSet
<1> HIDE DEF q
<1>4. /\ p \in Peer /\ p.handle = q.handle /\ p.key = q.key /\ p.label = q.label
      /\ p.state # UNAUTHENTICATED
    BY <1>1, TimesAssumption DEF Peer, MaxAge
<1> HIDE DEF p
<1>5. Good([st EXCEPT !.peer[a] = p], {})
    BY <1>4, SetGood DEF q
<1> QED BY <1>3, <1>5

\* The packet that completes the handshake.
LEMMA ReceiveFirstGood ==
    ASSUME IInv, NEW a \in Addr, receiveFirst(a)
    PROVE  IInv'
<1> DEFINE st == moveEndpointIfNeeded(Now, a)
<1>1. /\ Good(Now, {}) /\ Now.peer[a] # None /\ Now.slot[a] # None
      /\ sameKey(Now, a) # {} => Now.slot[firstOther(Now, a)] # None
      /\ forward([st EXCEPT !.peer[a].state = ESTABLISHED], a)
    BY DEF IInv, receiveFirst, Live, Now
<1>2. Good(st, {}) /\ st.peer[a] # None
    BY <1>1, MoveGood
<1> HIDE DEF st
<1>3. Good([st EXCEPT !.peer[a].state = ESTABLISHED], {})
    BY <1>2, StateSetGood
<1> QED BY <1>1, <1>3, ForwardGood

\* Any later packet.
LEMMA ReceiveLaterGood ==
    ASSUME IInv, NEW a \in Addr, NEW established \in BOOLEAN, receiveLater(a, established)
    PROVE  IInv'
<1>1. Good(Now, {}) /\ Now.peer[a] # None
    BY DEF IInv, receiveLater, Live, Now
<1>2. \/ forward([Now EXCEPT !.peer[a].state = ESTABLISHED], a)
      \/ forward([Now EXCEPT !.peer[a].age = 0], a)
    BY Zenon DEF receiveLater
<1>3. Good([Now EXCEPT !.peer[a].state = ESTABLISHED], {})
    BY <1>1, StateSetGood
<1>4. Good([Now EXCEPT !.peer[a].age = 0], {})
    BY <1>1, AgeSetGood
<1>5. CASE forward([Now EXCEPT !.peer[a].state = ESTABLISHED], a)
    BY <1>3, <1>5, ForwardGood
<1>6. CASE forward([Now EXCEPT !.peer[a].age = 0], a)
    BY <1>4, <1>6, ForwardGood
<1> QED BY <1>2, <1>5, <1>6

\* The interval timer.
LEMMA PingIntervalGood ==
    ASSUME IInv, pingInterval
    PROVE  IInv'
<1>1. Good(pingCallback(Now), {})
    BY PingGood DEF IInv
<1>2. Become(pingCallback(Now))
    BY DEF pingInterval
<1> QED BY <1>1, <1>2, BecomeGood

\* Time passes.
LEMMA ElapseGood ==
    ASSUME IInv, Elapse
    PROVE  IInv'
<1> DEFINE older(b) == Min({b + 1, MaxAge})
           P == [a \in Addr |-> IF peer[a] # None THEN [peer[a] EXCEPT !.age = older(peer[a].age)]
                                ELSE None]
           st == [peerMap |-> peerMap, peer |-> P, slot |-> slot,
                  pingCount |-> pingCount]
<1>1. Good(Now, {})
    BY DEF IInv
<1>2. /\ Now.peerMap = peerMap /\ Now.peer = peer /\ Now.slot = slot
      /\ Now.pingCount = pingCount
    BY DEF Now
<1>3. slot \in [Addr -> Slot \union {None}] /\ pingCount \in 0..PingSkip - 1
    BY <1>1, <1>2 DEF Good, Shape
<1>6. \A b \in 0..MaxAge : older(b) \in 0..MaxAge
    <2> TAKE b \in 0..MaxAge
    <2>1. MaxAge \in Nat
        BY TimesAssumption DEF MaxAge
    <2>2. {b + 1, MaxAge} \in SUBSET Nat /\ {b + 1, MaxAge} # {}
        BY <2>1
    <2>3. older(b) \in {b + 1, MaxAge}
        BY <2>2, MinIn
    <2>4. \E i \in {b + 1, MaxAge} : \A j \in {b + 1, MaxAge} : i <= j
        BY <2>2, Least
    <2>5. older(b) <= MaxAge
        BY <2>1, <2>4 DEF Min
    <2> HIDE DEF older
    <2> QED BY <2>1, <2>3, <2>5
<1> HIDE DEF older
<1>7. \A a \in Addr : peer[a] # None =>
          /\ P[a] \in Peer
          /\ P[a].handle = peer[a].handle
          /\ P[a].key = peer[a].key
          /\ P[a].label = peer[a].label
          /\ P[a].state # UNAUTHENTICATED
    <2> SUFFICES ASSUME NEW a \in Addr, peer[a] # None
                 PROVE  /\ P[a] \in Peer
                        /\ P[a].handle = peer[a].handle
                        /\ P[a].key = peer[a].key
                        /\ P[a].label = peer[a].label
                        /\ P[a].state # UNAUTHENTICATED
        OBVIOUS
    <2> DEFINE q == peer[a]
    <2>1. q \in Peer /\ q.state # UNAUTHENTICATED
        BY <1>1, <1>2, GoodPeer
    <2>2. P[a] = [q EXCEPT !.age = older(q.age)]
        OBVIOUS
    <2> HIDE DEF q, P
    <2>3. older(q.age) \in 0..MaxAge
        BY <1>6, <2>1 DEF Peer
    <2>4. /\ P[a] \in Peer /\ P[a].handle = q.handle /\ P[a].key = q.key
          /\ P[a].label = q.label /\ P[a].state # UNAUTHENTICATED
        BY <2>1, <2>2, <2>3 DEF Peer
    <2> QED BY <2>4 DEF q
<1>8. \A a \in Addr : peer[a] = None => P[a] = None
    OBVIOUS
<1>9. Shape(st)
    <2>1. P = [a \in Addr |-> P[a]]
        OBVIOUS
    <2> HIDE DEF P
    <2> QED BY <1>3, <2>1 DEF Shape
<1>10. st.peerMap = peerMap /\ st.peer = P /\ st.slot = slot
    OBVIOUS
<1>11. Good(st, {})
    <2> HIDE DEF P, st
    <2> QED BY <1>1, <1>2, <1>7, <1>8, <1>9, <1>10, ChangeGood
<1>12. Become(st)
    <2>1. peer' = P
        BY DEF Elapse, Live, older
    <2>2. peerMap' = peerMap /\ slot' = slot /\ pingCount' = pingCount
        BY DEF Elapse
    <2> HIDE DEF P
    <2> QED BY <2>1, <2>2 DEF Become
<1> QED BY <1>11, <1>12, BecomeGood

\* Before any call there is no peer.
LEMMA InitGood == Init => IInv
<1> SUFFICES ASSUME Init PROVE IInv
    OBVIOUS
<1>0. /\ Now.peerMap = peerMap /\ Now.peer = peer /\ Now.slot = slot
      /\ Now.pingCount = pingCount
      /\ Now = [peerMap |-> Now.peerMap, peer |-> Now.peer, slot |-> Now.slot,
                pingCount |-> Now.pingCount]
    BY DEF Now
<1>1. /\ peerMap = Map_new /\ pingCount = 0
      /\ peer = [a \in Addr |-> None] /\ slot = [a \in Addr |-> None]
    BY DEF Init
<1>2. pingCount \in 0..PingSkip - 1
    BY <1>1, TimesAssumption
<1>3. Shape(Now)
    BY <1>0, <1>1, <1>2 DEF Shape
<1>4. \A a \in Addr : Now.peer[a] = None /\ Now.slot[a] = None /\ ~There(Now, {}, a)
    BY <1>0, <1>1 DEF There
<1>5. Known(Now, {}) /\ Slotted(Now, {})
    BY <1>4 DEF Known, Slotted
<1>6. MapOK(Map_new) /\ count(Map_new) = 0 /\ Map_new.nextHandle = 0
    <2>1. << >> \in Seq(Entry) /\ Len(<< >>) = 0
        OBVIOUS
    <2> QED BY <2>1 DEF MapOK, Map_new, count
<1>7. Filed(Now, {})
    <2>1. Now.peerMap = Map_new
        BY <1>0, <1>1
    <2> QED BY <1>4, <1>6, <2>1, HandleAssumption DEF Filed
<1> QED BY <1>3, <1>5, <1>7 DEF Good, IInv

\* Every step keeps the invariant.
LEMMA NextGood == IInv /\ [Next]_vars => IInv'
<1> SUFFICES ASSUME IInv, [Next]_vars PROVE IInv'
    OBVIOUS
<1>1. CASE UNCHANGED vars
    <2>1. Become(Now)
        BY <1>1 DEF vars, Become, Now
    <2> QED BY <2>1, BecomeGood DEF IInv
<1>2. ASSUME NEW a \in Addr, beginConnection(a) PROVE IInv'
    BY <1>2, BeginConnectionGood
<1>3. ASSUME NEW a \in Addr, handleBeacon(a) PROVE IInv'
    BY <1>3, HandleBeaconGood
<1>4. ASSUME NEW a \in Addr, receiveHandshake(a) PROVE IInv'
    BY <1>4, ReceiveHandshakeGood
<1>5. ASSUME NEW a \in Addr, receiveDropped(a) PROVE IInv'
    BY <1>5, ReceiveDroppedGood
<1>6. ASSUME NEW a \in Addr, receiveFirst(a) PROVE IInv'
    BY <1>6, ReceiveFirstGood
<1>7. ASSUME NEW a \in Addr, NEW established \in BOOLEAN, receiveLater(a, established) PROVE IInv'
    BY <1>7, ReceiveLaterGood
<1>8. CASE pingInterval
    BY <1>8, PingIntervalGood
<1>9. ASSUME NEW a \in Addr, refuseKey(a) PROVE IInv'
    <2>1. Become(Now)
        BY <1>9 DEF refuseKey
    <2> QED BY <2>1, BecomeGood DEF IInv
<1>10. CASE Elapse
    BY <1>10, ElapseGood
<1> QED BY <1>1, <1>2, <1>3, <1>4, <1>5, <1>6, <1>7, <1>8, <1>9, <1>10 DEF Next

\* The invariant holds throughout.
LEMMA AlwaysGood == Spec => []IInv
<1> QED BY InitGood, NextGood, PTL DEF Spec

\* Each fact of the invariant about the variables themselves.
LEMMA GoodNow ==
    ASSUME IInv
    PROVE  /\ peer = [a \in Addr |-> peer[a]] /\ slot \in [Addr -> Slot \union {None}]
           /\ pingCount \in 0..PingSkip - 1
           /\ \A a \in Addr : peer[a] # None =>
                 /\ peer[a] \in Peer /\ peer[a].key = KeyAt[a]
                 /\ peer[a].state # UNAUTHENTICATED /\ peer[a].label = slot[a]
           /\ \A a \in Addr : slot[a] # None =>
                 peer[a] # None /\ \A b \in Addr : slot[b] = slot[a] => b = a
           /\ MapOK(peerMap)
           /\ \A i \in 1..count(peerMap) :
                 /\ peer[peerMap.entries[i].key] # None
                 /\ peer[peerMap.entries[i].key].handle = peerMap.entries[i].handle
           /\ \A a \in Addr : peer[a] # None =>
                 \E i \in 1..count(peerMap) : peerMap.entries[i].key = a
<1>0. /\ Now.peerMap = peerMap /\ Now.peer = peer /\ Now.slot = slot
      /\ Now.pingCount = pingCount
    BY DEF Now
<1>1. Good(Now, {})
    BY DEF IInv
<1>2. /\ peer = [a \in Addr |-> peer[a]] /\ slot \in [Addr -> Slot \union {None}]
      /\ pingCount \in 0..PingSkip - 1
    BY <1>0, <1>1 DEF Good, Shape
<1>3. \A a \in Addr : peer[a] # None =>
          /\ peer[a] \in Peer /\ peer[a].key = KeyAt[a]
          /\ peer[a].state # UNAUTHENTICATED /\ peer[a].label = slot[a]
    BY <1>0, <1>1, GoodPeer
<1>4. \A a \in Addr : slot[a] # None =>
          peer[a] # None /\ \A b \in Addr : slot[b] = slot[a] => b = a
    BY <1>0, <1>1 DEF Good, Slotted, There
<1>5. /\ MapOK(peerMap)
      /\ \A i \in 1..count(peerMap) :
            /\ peer[peerMap.entries[i].key] # None
            /\ peer[peerMap.entries[i].key].handle = peerMap.entries[i].handle
    BY <1>0, <1>1 DEF Good, Filed, There
<1>6. \A a \in Addr : peer[a] # None =>
          \E i \in 1..count(peerMap) : peerMap.entries[i].key = a
    BY <1>0, <1>1 DEF Good, Filed, There
<1> QED BY <1>2, <1>3, <1>4, <1>5, <1>6

\* Only a beacon leaves a peer of MultiInterface that was never registered.
LEMMA AlwaysBeaconing == Spec => [](bare \subseteq Beaconing)
<1>1. Init => bare \subseteq Beaconing
    BY DEF Init
<1>2. bare \subseteq Beaconing /\ [Next]_vars => (bare \subseteq Beaconing)'
    BY DEF Next, vars, beginConnection, handleBeacon, refuseKey, receiveHandshake,
           receiveDropped, receiveFirst, receiveLater, pingInterval, Elapse
<1> QED BY <1>1, <1>2, PTL DEF Spec

\* Each field has its type: a peer always has a known key.
THEOREM TypeCorrect == Spec => []TypeOK
<1>1. IInv /\ bare \subseteq Beaconing => TypeOK
    <2> SUFFICES ASSUME IInv, bare \subseteq Beaconing PROVE TypeOK
        OBVIOUS
    <2>1. peer \in [Addr -> Peer \union {None}]
        BY GoodNow
    <2> QED BY <2>1, GoodNow DEF TypeOK
<1> QED BY <1>1, AlwaysGood, AlwaysBeaconing, PTL

\* The label a peer is pinged by is that of its slot, and no two peers share a slot, for
\* any number of addresses and slots.
THEOREM LabelOfSlot == Spec => []LabelIsSlot
<1>1. IInv => LabelIsSlot
    <2> SUFFICES ASSUME IInv, NEW a \in Addr
                 PROVE  /\ Live(a) => peer[a].label = slot[a]
                        /\ slot[a] # None => /\ Live(a)
                                             /\ \A b \in Addr : slot[b] = slot[a] => b = a
        BY DEF LabelIsSlot
    <2> QED BY GoodNow DEF Live
<1> QED BY <1>1, AlwaysGood, PTL

\* A sender that does not authenticate leaves no peer.
THEOREM NoStrangers == Spec => []StrangersLeaveNothing
<1>1. IInv => StrangersLeaveNothing
    BY GoodNow DEF StrangersLeaveNothing, Live
<1> QED BY <1>1, AlwaysGood, PTL

\* The binary search of the map finds each peer by its handle, and the map has no entry
\* besides those of the peers.
THEOREM MapAgrees == Spec => []MapFindsPeer
<1>1. IInv => MapFindsPeer
    <2> SUFFICES ASSUME IInv PROVE MapFindsPeer
        OBVIOUS
    <2>1. /\ MapOK(peerMap)
          /\ \A i \in 1..count(peerMap) :
                /\ peer[peerMap.entries[i].key] # None
                /\ peer[peerMap.entries[i].key].handle = peerMap.entries[i].handle
          /\ \A a \in Addr : peer[a] # None =>
                \E i \in 1..count(peerMap) : peerMap.entries[i].key = a
        BY GoodNow
    <2> DEFINE n == count(peerMap)
               live == {a \in Addr : Live(a)}
               at == [i \in 1..n |-> peerMap.entries[i].key]
    <2>2. n \in Nat /\ \A i \in 1..n : peerMap.entries[i] \in Entry
        BY <2>1 DEF MapOK, count
    <2>3. \A i \in 1..n : at[i] \in live
        BY <2>1, <2>2 DEF Entry, Live
    <2>4. \A i, j \in 1..n : at[i] = at[j] => i = j
        <3> SUFFICES ASSUME NEW i \in 1..n, NEW j \in 1..n, at[i] = at[j] PROVE i = j
            OBVIOUS
        <3>1. peerMap.entries[i].handle = peerMap.entries[j].handle
            BY <2>1
        <3>2. peerMap.entries[i].handle \in Nat
            BY <2>2 DEF Entry
        <3>3. ~(i < j) /\ ~(j < i)
            BY <2>1, <3>1, <3>2 DEF MapOK
        <3> QED BY <2>2, <3>3
    <2>5. \A a \in live : \E i \in 1..n : at[i] = a
        BY <2>1 DEF Live
    <2>6. at \in Bijection(1..n, live)
        <3> HIDE DEF n, live
        <3>1. at \in [1..n -> live]
            BY <2>3
        <3> HIDE DEF at
        <3> QED BY <3>1, <2>4, <2>5 DEF Bijection, Injection, Surjection, IsInjective
    <2>7. count(peerMap) = Cardinality(live)
        <3>1. ExistsBijection(1..n, live)
            BY <2>6 DEF ExistsBijection
        <3>2. IsFiniteSet(1..n) /\ Cardinality(1..n) = n
            <4> HIDE DEF n
            <4> QED BY <2>2, FS_Interval
        <3> HIDE DEF n, live
        <3>3. Cardinality(live) = n
            BY <3>1, <3>2, FS_Bijection
        <3> QED BY <3>3 DEF n
    <2>8. \A a \in Addr : Live(a) =>
              /\ indexForHandle(peer[a].handle, peerMap) \in 1..count(peerMap)
              /\ peerMap.entries[indexForHandle(peer[a].handle, peerMap)].key = a
        <3> SUFFICES ASSUME NEW a \in Addr, peer[a] # None
                     PROVE  /\ indexForHandle(peer[a].handle, peerMap) \in 1..count(peerMap)
                            /\ peerMap.entries[indexForHandle(peer[a].handle, peerMap)].key = a
            BY DEF Live
        <3>1. PICK i \in 1..count(peerMap) : peerMap.entries[i].key = a
            BY <2>1
        <3>2. peer[a].handle = peerMap.entries[i].handle
            BY <2>1, <3>1
        <3>3. indexForHandle(peerMap.entries[i].handle, peerMap) = i
            BY <2>1, SearchFinds
        <3> QED BY <3>1, <3>2, <3>3
    <2> QED BY <2>7, <2>8 DEF MapFindsPeer
<1> QED BY <1>1, AlwaysGood, PTL

=============================================================================
