---------------------------- MODULE SearchProofs ----------------------------
(***************************************************************************)
(* A search stays within its arrays and its number of requests, and what   *)
(* is sent for it leads each reply back to the node that was asked, for    *)
(* every number of nodes, slots and requests, whatever the lists of the    *)
(* replies and whenever they come.                                         *)
(***************************************************************************)
EXTENDS Search, FiniteSetTheorems, WellFoundedInduction, TLAPS

\* A set of naturals that is not empty has a least member.
LEMMA Least ==
    ASSUME NEW S \in SUBSET Nat, S # {}
    PROVE  \E i \in S : \A j \in S : i <= j
<1>1. PICK i \in S : \A j \in S : ~(<<j, i>> \in OpToRel(<, Nat))
    <2> HIDE DEF OpToRel
    <2> QED BY WFMin, NatLessThanWellFounded
<1>2. \A j \in S : ~(j < i)
    BY <1>1 DEF OpToRel
<1> QED BY <1>2

\* Min of a set of naturals is a member of it.
LEMMA MinIn ==
    ASSUME NEW S \in SUBSET Nat, S # {}
    PROVE  Min(S) \in S
BY Least DEF Min

\* A function that begins in S and never leaves it.
LEMMA Stays ==
    ASSUME NEW n \in Nat, NEW S, NEW f, f[0] \in S,
           \A i \in 1..n : f[i - 1] \in S => f[i] \in S
    PROVE  \A i \in 0..n : f[i] \in S
<1> DEFINE bad == {i \in 0..n : f[i] \notin S}
<1> SUFFICES ASSUME bad # {} PROVE FALSE
    OBVIOUS
<1>1. PICK i \in bad : \A j \in bad : i <= j
    <2>1. bad \in SUBSET Nat
        OBVIOUS
    <2> QED BY <2>1, Least
<1>2. i # 0 /\ i \in 1..n
    OBVIOUS
<1>3. i - 1 \in 0..n /\ i - 1 \notin bad
    BY <1>1, <1>2
<1> QED BY <1>2, <1>3

\* n steps in S, and what they leave one after the other.
Steps(step, n, S) == step \in [1..n -> [S -> S]]
Leaves(f, n, S, base, step) ==
    f \in [0..n -> S] /\ f[0] = base /\ \A i \in 1..n : f[i] = step[i][f[i - 1]]

\* Steps can be taken in turn, each from what the last one left.
LEMMA Iterate ==
    ASSUME NEW n \in Nat, NEW S, NEW base \in S, NEW step, Steps(step, n, S)
    PROVE  \E f : Leaves(f, n, S, base, step)
<1> USE DEF Steps
<1> DEFINE Solves(f, k) == /\ f \in [0..k -> S]
                           /\ f[0] = base
                           /\ \A i \in 1..k : f[i] = step[i][f[i - 1]]
           bad == {k \in 0..n : ~\E f : Solves(f, k)}
<1>1. bad = {}
    <2> SUFFICES ASSUME bad # {} PROVE FALSE
        OBVIOUS
    <2>1. PICK k \in bad : \A j \in bad : k <= j
        <3>1. bad \in SUBSET Nat
            OBVIOUS
        <3> QED BY <3>1, Least
    <2>2. k \in 0..n
        OBVIOUS
    <2>3. CASE k = 0
        <3>1. Solves([i \in 0..0 |-> base], 0)
            OBVIOUS
        <3> QED BY <2>3, <3>1
    <2>4. CASE k # 0
        <3>1. k - 1 \in 0..n /\ k - 1 \notin bad
            <4> HIDE DEF bad
            <4> QED BY <2>1, <2>2, <2>4
        <3>2. PICK f : Solves(f, k - 1)
            BY <3>1
        <3> DEFINE g == [i \in 0..k |-> IF i = k THEN step[k][f[k - 1]] ELSE f[i]]
        <3>3. f[k - 1] \in S /\ step[k] \in [S -> S]
            BY <2>2, <2>4, <3>1, <3>2
        <3>4. g \in [0..k -> S]
            BY <2>2, <3>2, <3>3
        <3>5. g[0] = base
            BY <2>2, <2>4, <3>2
        <3>6. \A i \in 1..k : g[i] = step[i][g[i - 1]]
            BY <2>2, <2>4, <3>2
        <3> HIDE DEF g
        <3>7. Solves(g, k)
            BY <3>4, <3>5, <3>6
        <3> QED BY <3>7
    <2> QED BY <2>3, <2>4
<1>2. n \in 0..n /\ n \notin bad
    <2> HIDE DEF bad
    <2> QED BY <1>1
<1>3. PICK f : Solves(f, n)
    BY <1>2
<1>4. Leaves(f, n, S, base, step)
    BY <1>3 DEF Leaves
<1> QED BY <1>4

-----------------------------------------------------------------------------
(* SearchStore.c *)

\* What a search may become while nodes are pushed on its stack.
Alike(search) ==
    {s \in Search : /\ Len(s.stack) <= SEARCH_NODES
                    /\ s.magic = search.magic
                    /\ s.asked = search.asked
                    /\ s.totalRequests = search.totalRequests}

\* A search with another stack that fits.
LEMMA StackSet ==
    ASSUME NEW search, NEW s \in Alike(search), NEW stack \in Seq(Node), Len(stack) <= SEARCH_NODES
    PROVE  [s EXCEPT !.stack = stack] \in Alike(search)
<1> DEFINE t == [s EXCEPT !.stack = stack]
<1>1. s \in Search
    BY DEF Alike
<1>2. t \in Search /\ t.stack = stack /\ t.magic = s.magic /\ t.asked = s.asked
      /\ t.totalRequests = s.totalRequests
    BY <1>1 DEF Search
<1> HIDE DEF t
<1>3. t \in Alike(search)
    BY <1>2 DEF Alike
<1> QED BY <1>3 DEF t

\* A node that is pushed: the stack never grows past its array, and a search that has asked
\* nobody has the node on it.
LEMMA PushFits ==
    ASSUME NEW search, NEW s \in Alike(search), NEW n \in Node
    PROVE  /\ addNodeToSearch(s, n) \in Alike(search)
           /\ search.asked = << >> => Len(addNodeToSearch(s, n).stack) > 0
<1>1. s \in Search /\ s.stack \in Seq(Node) /\ Len(s.stack) <= SEARCH_NODES
    BY DEF Alike, Search
<1>2. SEARCH_NODES \in Nat /\ SEARCH_NODES > 0
    BY SizeAssumption, AskedAssumption
<1>3. CASE n \in Range(s.asked)
    <2>1. search.asked # << >>
        BY <1>3 DEF Alike, Range
    <2> QED BY <1>3, <2>1 DEF addNodeToSearch
<1>4. CASE n \notin Range(s.asked) /\ Len(s.stack) < SEARCH_NODES
    <2> DEFINE t == Append(s.stack, n)
    <2>1. addNodeToSearch(s, n) = [s EXCEPT !.stack = t]
        BY <1>4 DEF addNodeToSearch
    <2>2. t \in Seq(Node) /\ Len(t) = Len(s.stack) + 1 /\ Len(s.stack) \in Nat
        BY <1>1
    <2>3. [s EXCEPT !.stack = t].stack = t
        BY <1>1 DEF Search
    <2> HIDE DEF t
    <2>4. Len(t) <= SEARCH_NODES /\ Len(t) > 0
        BY <1>2, <1>4, <2>2
    <2> QED BY <2>1, <2>2, <2>3, <2>4, StackSet
<1>5. CASE n \notin Range(s.asked) /\ ~(Len(s.stack) < SEARCH_NODES)
    <2> DEFINE t == [s.stack EXCEPT ![SEARCH_NODES] = n]
    <2>1. addNodeToSearch(s, n) = [s EXCEPT !.stack = t]
        BY <1>5 DEF addNodeToSearch
    <2>2. Len(s.stack) = SEARCH_NODES
        BY <1>1, <1>2, <1>5
    <2>3. t \in Seq(Node) /\ Len(t) = Len(s.stack)
        BY <1>1, <1>2, <2>2
    <2>4. [s EXCEPT !.stack = t].stack = t
        BY <1>1 DEF Search
    <2> HIDE DEF t
    <2>5. Len(t) <= SEARCH_NODES /\ Len(t) > 0
        BY <1>2, <2>2, <2>3
    <2> QED BY <2>1, <2>3, <2>4, <2>5, StackSet
<1> QED BY <1>3, <1>4, <1>5

\* Nodes that are pushed in turn.
LEMMA PushAllFits ==
    ASSUME NEW search, search \in Alike(search), NEW nodes \in Seq(Node)
    PROVE  /\ addNodesToSearch(search, nodes) \in Alike(search)
           /\ search.asked = << >> /\ Len(nodes) > 0 =>
                 Len(addNodesToSearch(search, nodes).stack) > 0
<1> DEFINE n == Len(nodes)
           S == Alike(search)
           Solves(f) == f = [i \in 0..n |-> IF i = 0 THEN search
                                            ELSE addNodeToSearch(f[i - 1], nodes[i])]
           pushed == CHOOSE f : Solves(f)
           step == [i \in 1..n |-> [s \in S |-> addNodeToSearch(s, nodes[i])]]
<1>0. search \in S
    OBVIOUS
<1>1. n \in Nat /\ \A i \in 1..n : nodes[i] \in Node
    OBVIOUS
<1>2. \A i \in 1..n : \A s \in S : addNodeToSearch(s, nodes[i]) \in S
    BY <1>1, PushFits
<1>3. Steps(step, n, S)
    <2> HIDE DEF S, n
    <2> QED BY <1>2 DEF Steps
<1>4. PICK h : h \in [0..n -> S] /\ h[0] = search /\ \A i \in 1..n : h[i] = step[i][h[i - 1]]
    <2> HIDE DEF S, n, step
    <2>1. PICK h : Leaves(h, n, S, search, step)
        BY <1>0, <1>1, <1>3, Iterate
    <2> QED BY <2>1 DEF Leaves
<1>5. \A i \in 1..n : h[i] = addNodeToSearch(h[i - 1], nodes[i])
    <2> SUFFICES ASSUME NEW i \in 1..n PROVE h[i] = addNodeToSearch(h[i - 1], nodes[i])
        OBVIOUS
    <2> HIDE DEF S, n
    <2>1. h[i - 1] \in S
        BY <1>1, <1>4
    <2> QED BY <1>4, <2>1
<1>6. Solves(h)
    <2> HIDE DEF S, n, step
    <2> QED BY <1>1, <1>4, <1>5
<1>7. Solves(pushed)
    <2> HIDE DEF Solves
    <2> QED BY <1>6
<1>8. addNodesToSearch(search, nodes) = pushed[n]
    BY DEF addNodesToSearch
<1>9. pushed[0] = search /\ \A i \in 1..n : pushed[i] = addNodeToSearch(pushed[i - 1], nodes[i])
    <2> HIDE DEF pushed, n
    <2> QED BY <1>1, <1>7
<1> HIDE DEF pushed, Solves, step, n
<1>10. \A i \in 0..n : pushed[i] \in S
    <2> HIDE DEF S
    <2> QED BY <1>0, <1>1, <1>2, <1>9, Stays
<1>11. ASSUME search.asked = << >>, n > 0 PROVE Len(pushed[n].stack) > 0
    <2>1. pushed[n - 1] \in S /\ nodes[n] \in Node /\ pushed[n] = addNodeToSearch(pushed[n - 1], nodes[n])
        BY <1>1, <1>9, <1>10, <1>11
    <2> QED BY <1>11, <2>1, PushFits
<1>12. pushed[n] \in S
    BY <1>1, <1>10
<1> QED BY <1>8, <1>11, <1>12 DEF n

\* A search as it is between two calls: the stack has room for one more node, and every
\* node that was asked but the first has been counted.
SearchOK(search) ==
    /\ search \in Search
    /\ Len(search.stack) < SEARCH_NODES
    /\ Len(search.asked) = search.totalRequests + 1

\* The stack of such a search fits its array.
LEMMA OKFits ==
    ASSUME NEW search, SearchOK(search)
    PROVE  /\ search \in Search
           /\ Len(search.stack) <= SEARCH_NODES
           /\ Len(search.asked) = search.totalRequests + 1
BY SizeAssumption DEF SearchOK, Search

\* The magic of a search is a number.
LEMMA MagicNumber ==
    ASSUME NEW search, SearchOK(search)
    PROVE  search.magic \in Nat
BY SizeAssumption DEF SearchOK, Search

\* The next node is taken off the stack and asked.
LEMMA NextFits ==
    ASSUME NEW s \in Search, Len(s.stack) > 0, Len(s.stack) <= SEARCH_NODES
    PROVE  LET next == getNextNode(s) IN
           /\ next \in Search
           /\ Len(next.stack) < SEARCH_NODES
           /\ next.magic = s.magic /\ next.totalRequests = s.totalRequests
           /\ Len(next.asked) = Len(s.asked) + 1 /\ Len(s.asked) \in Nat
           /\ \A i \in 1..Len(s.asked) : next.asked[i] = s.asked[i]
           /\ Last(next.asked) \in Node
<1> DEFINE next == getNextNode(s)
           stack == Front(s.stack)
           asked == Append(s.asked, Last(s.stack))
<1>1. s.stack \in Seq(Node) /\ s.asked \in Seq(Node) /\ SEARCH_NODES \in Nat
    BY SizeAssumption DEF Search
<1>2. Last(s.stack) \in Node
    BY <1>1 DEF Last
<1>3. stack \in Seq(Node) /\ Len(stack) = Len(s.stack) - 1 /\ Len(s.stack) \in Nat
    BY <1>1 DEF Front
<1>4. /\ asked \in Seq(Node) /\ Len(asked) = Len(s.asked) + 1 /\ Len(s.asked) \in Nat
      /\ \A i \in 1..Len(s.asked) : asked[i] = s.asked[i]
      /\ Last(asked) \in Node
    BY <1>1, <1>2 DEF Last
<1>5. next = [s EXCEPT !.stack = stack, !.asked = asked]
    BY DEF getNextNode
<1> HIDE DEF stack, asked, next
<1>6. /\ next \in Search /\ next.stack = stack /\ next.asked = asked
      /\ next.magic = s.magic /\ next.totalRequests = s.totalRequests
    BY <1>3, <1>4, <1>5 DEF Search
<1>7. Len(stack) < SEARCH_NODES
    BY <1>1, <1>3
<1> QED BY <1>4, <1>6, <1>7 DEF next

-----------------------------------------------------------------------------
(* NodeStore.c *)

Reach == [Node -> 0..3 \union {None}]

\* A node that is added or heard of.
LEMMA AddReach ==
    ASSUME NEW re \in Reach, NEW n \in Node, NEW diff \in Nat
    PROVE  addNode(re, n, diff) \in Reach
<1> DEFINE x == IF re[n] = None THEN 0 ELSE re[n]
<1>1. x \in Nat
    BY DEF Reach
<1>2. atMost3(x + diff) \in 0..3
    <2> HIDE DEF x
    <2> QED BY <1>1 DEF atMost3
<1>3. addNode(re, n, diff) = [re EXCEPT ![n] = atMost3(x + diff)]
    BY DEF addNode
<1> HIDE DEF x
<1> QED BY <1>2, <1>3 DEF Reach

\* A node of which the reach is set, with those behind and before it.
LEMMA UpdateReach ==
    ASSUME NEW re \in Reach, NEW n \in Node, NEW x \in 0..3
    PROVE  updateReach(re, n, x) \in Reach
BY DEF updateReach, Reach

\* A path that is broken.
LEMMA BreakReach ==
    ASSUME NEW re \in Reach, NEW path
    PROVE  brokenPath(re, path) \in Reach
BY DEF brokenPath, Reach

\* The reach of a node that has not answered.
LEMMA TimeoutReach ==
    ASSUME NEW x \in 0..3
    PROVE  reachAfterTimeout(x) \in 0..3
BY DEF reachAfterTimeout

\* The node to go through is a node: among those that are better there is one with the
\* shortest path.
LEMMA BestIn ==
    ASSUME NEW re \in Reach, NEW a
    PROVE  getBest(re, a) \in Node \union {None}
<1> DEFINE better == {n \in Node : re[n] \notin {None, 0} /\ Distance(n, a) < Distance(Me, a)}
           lengths == {Len(Path[n]) : n \in better}
<1>1. CASE a \in better \/ better = {}
    BY <1>1 DEF getBest
<1>2. CASE a \notin better /\ better # {}
    <2>1. \A n \in better : n \in Node /\ re[n] # 0 /\ Len(Path[n]) \in Nat
        BY PathAssumption
    <2> HIDE DEF better
    <2>2. lengths \in SUBSET Nat /\ lengths # {}
        BY <1>2, <2>1
    <2>3. PICK n \in better : \A l \in lengths : Len(Path[n]) <= l
        <3> HIDE DEF lengths
        <3>1. PICK k \in lengths : \A l \in lengths : k <= l
            BY <2>2, Least
        <3> QED BY <3>1 DEF lengths
    <2>4. \A m \in better : value(re, m) <= value(re, n)
        <3> TAKE m \in better
        <3>1. Len(Path[n]) <= Len(Path[m]) /\ Len(Path[n]) \in Nat /\ Len(Path[m]) \in Nat
            BY <2>1, <2>3
        <3>2. value(re, m) = 64 - Len(Path[m]) /\ value(re, n) = 64 - Len(Path[n])
            BY <2>1 DEF value
        <3> QED BY <3>1, <3>2
    <2> DEFINE best == CHOOSE k \in better : \A m \in better : value(re, m) <= value(re, k)
    <2>5. best \in better
        BY <2>4
    <2>6. getBest(re, a) = best
        BY <1>2 DEF getBest, better
    <2> HIDE DEF best
    <2> QED BY <2>1, <2>5, <2>6
<1> QED BY <1>1, <1>2

-----------------------------------------------------------------------------
(* RouterModule.c *)

\* What the entries of a reply may make of the table and the search.
Taken(search) == [reach : Reach, search : Alike(search)]

\* One entry of a reply.
LEMMA EntryFits ==
    ASSUME NEW search, NEW st \in Taken(search), NEW list \in Seq(Node \union {Me}),
           NEW i \in 1..Len(list), NEW parent
    PROVE  takeEntry(list, i, parent, st) \in Taken(search)
<1> DEFINE e == list[i]
           re == addNode(st.reach, e, 0)
           best == getBest(re, e)
           to == IF best = None THEN e ELSE best
           pushed == addNodeToSearch(st.search, to)
<1>1. e \in Node \union {Me} /\ st.reach \in Reach /\ st.search \in Alike(search)
    BY DEF Taken
<1>2. takeEntry(list, i, parent, st) \in
          {st, [st EXCEPT !.reach = brokenPath(@, LoopPath)]}
              \union (IF e = Me THEN {} ELSE {[st EXCEPT !.reach = re], [reach |-> re, search |-> pushed]})
    BY DEF takeEntry
<1>3. brokenPath(st.reach, LoopPath) \in Reach
    BY <1>1, BreakReach
<1>4. [st EXCEPT !.reach = brokenPath(@, LoopPath)] \in Taken(search)
    BY <1>3 DEF Taken
<1>5. ASSUME e # Me PROVE re \in Reach /\ pushed \in Alike(search)
    <2>1. e \in Node
        BY <1>1, <1>5
    <2>2. re \in Reach
        BY <1>1, <2>1, AddReach
    <2>3. to \in Node
        BY <2>1, <2>2, BestIn
    <2> QED BY <1>1, <2>2, <2>3, PushFits
<1> HIDE DEF re, pushed, e
<1>6. ASSUME e # Me PROVE {[st EXCEPT !.reach = re], [reach |-> re, search |-> pushed]} \subseteq Taken(search)
    BY <1>5, <1>6 DEF Taken
<1> QED BY <1>2, <1>4, <1>6

\* All entries of a reply in turn.
LEMMA ListFits ==
    ASSUME NEW search, NEW st \in Taken(search), NEW list \in Seq(Node \union {Me}), NEW parent
    PROVE  takeList(list, parent, st) \in Taken(search)
<1> DEFINE n == Len(list)
           S == Taken(search)
           Solves(f) == f = [i \in 0..n |-> IF i = 0 THEN st
                                            ELSE takeEntry(list, i, parent, f[i - 1])]
           taken == CHOOSE f : Solves(f)
           step == [i \in 1..n |-> [s \in S |-> takeEntry(list, i, parent, s)]]
<1>0. st \in S
    OBVIOUS
<1>1. n \in Nat
    OBVIOUS
<1>2. \A i \in 1..n : \A s \in S : takeEntry(list, i, parent, s) \in S
    BY EntryFits
<1>3. Steps(step, n, S)
    <2> HIDE DEF S, n
    <2> QED BY <1>2 DEF Steps
<1>4. PICK h : h \in [0..n -> S] /\ h[0] = st /\ \A i \in 1..n : h[i] = step[i][h[i - 1]]
    <2> HIDE DEF S, n, step
    <2>1. PICK h : Leaves(h, n, S, st, step)
        BY <1>0, <1>1, <1>3, Iterate
    <2> QED BY <2>1 DEF Leaves
<1>5. \A i \in 1..n : h[i] = takeEntry(list, i, parent, h[i - 1])
    <2> SUFFICES ASSUME NEW i \in 1..n PROVE h[i] = takeEntry(list, i, parent, h[i - 1])
        OBVIOUS
    <2> HIDE DEF S, n
    <2>1. h[i - 1] \in S
        BY <1>1, <1>4
    <2> QED BY <1>4, <2>1
<1>6. Solves(h)
    <2> HIDE DEF S, n, step
    <2> QED BY <1>1, <1>4, <1>5
<1>7. Solves(taken)
    <2> HIDE DEF Solves
    <2> QED BY <1>6
<1>8. takeList(list, parent, st) = taken[n]
    BY DEF takeList
<1>9. taken[0] = st /\ \A i \in 1..n : taken[i] = takeEntry(list, i, parent, taken[i - 1])
    <2> HIDE DEF taken, n
    <2> QED BY <1>1, <1>7
<1> HIDE DEF taken, Solves, step, n, S
<1>10. \A i \in 0..n : taken[i] \in S
    BY <1>0, <1>1, <1>2, <1>9, Stays
<1> QED BY <1>1, <1>8, <1>10 DEF S

\* A search that is begun begins with some nodes of the table.
LEMMA ClosestNodes ==
    ASSUME NEW t, known # {}, NEW nodes \in closestNodes(t)
    PROVE  nodes \in Seq(Node) /\ Len(nodes) > 0
<1>1. known \subseteq Node /\ IsFiniteSet(known)
    BY NodeAssumption, FS_Subset DEF known
<1>2. nodes \in SetToAllKPermutations(known) /\ Len(nodes) = Min({K, Cardinality(known)})
    BY DEF closestNodes
<1>3. PICK S \in SUBSET known : nodes \in [1..Cardinality(S) -> S]
    BY <1>2 DEF SetToAllKPermutations, SetToSeqs
<1>4. Cardinality(S) \in Nat
    BY <1>1, <1>3, FS_Subset, FS_CardinalityType
<1>5. nodes \in Seq(Node)
    <2> DEFINE n == Cardinality(S)
    <2>1. n \in Nat /\ nodes \in [1..n -> Node]
        BY <1>1, <1>3, <1>4
    <2> HIDE DEF n
    <2> QED BY <2>1
<1>6. Cardinality(known) \in Nat /\ Cardinality(known) # 0
    BY <1>1, FS_CardinalityType, FS_EmptySet
<1>7. Min({K, Cardinality(known)}) \in {K, Cardinality(known)}
    BY <1>6, SizeAssumption, MinIn
<1>8. Min({K, Cardinality(known)}) > 0
    BY <1>6, <1>7, SizeAssumption
<1> QED BY <1>2, <1>5, <1>8

-----------------------------------------------------------------------------
(* The invariant *)

\* The searches that run.
Searches ==
    /\ searches = [s \in Slot |-> searches[s]]
    /\ \A s \in Slot : searches[s] # None => SearchOK(searches[s]) /\ searches[s].magic <= begun

\* A request of the search that has its slot was sent to the node at its index.
Answerable ==
    \A r \in sent :
        /\ r.magic <= begun
        /\ searches[r.slot] # None /\ searches[r.slot].magic = r.magic =>
              /\ r.index \in 1..Len(searches[r.slot].asked)
              /\ searches[r.slot].asked[r.index] = r.node

IInv ==
    /\ Searches
    /\ begun \in 0..MaxBegun
    /\ reach \in Reach
    /\ sent \subseteq Request
    /\ Answerable

\* Before any call there is no search.
LEMMA InitSearch == Init => IInv
BY SizeAssumption DEF Init, IInv, Searches, Reach, Answerable

\* A search that has asked one more node than before: it is in order, and so is the request.
LEMMA Asked ==
    ASSUME IInv, NEW s \in Slot, NEW next, SearchOK(next), Last(next.asked) \in Node,
           searches' = [searches EXCEPT ![s] = next], sendRequest(s, next),
           begun' \in 0..MaxBegun, next.magic <= begun', begun <= begun',
           \A r \in sent : r.slot = s /\ r.magic = next.magic =>
               r.index \in 1..Len(next.asked) /\ next.asked[r.index] = r.node
    PROVE  Searches' /\ Answerable' /\ (sent \subseteq Request)'
<1> DEFINE new == [slot |-> s, index |-> Len(next.asked), magic |-> next.magic, node |-> Last(next.asked)]
<1>1. /\ searches = [u \in Slot |-> searches[u]]
      /\ \A u \in Slot : searches[u] # None => SearchOK(searches[u]) /\ searches[u].magic <= begun
    BY DEF IInv, Searches
<1>2. /\ searches' = [u \in Slot |-> searches'[u]] /\ searches'[s] = next
      /\ \A u \in Slot : u # s => searches'[u] = searches[u]
    BY <1>1
<1>3. Searches'
    <2>1. \A u \in Slot : searches[u] # None => searches[u].magic <= begun'
        <3> TAKE u \in Slot
        <3> HAVE searches[u] # None
        <3>1. SearchOK(searches[u]) /\ searches[u].magic <= begun
            BY <1>1
        <3>2. searches[u].magic \in Nat
            BY <3>1, MagicNumber
        <3>3. begun \in Nat /\ begun' \in Nat
            BY SizeAssumption DEF IInv
        <3> QED BY <3>1, <3>2, <3>3
    <2> QED BY <1>1, <1>2, <2>1 DEF Searches
<1>4. sent' = sent \union {new}
    BY DEF sendRequest
<1>5. Len(next.asked) \in 1..SEARCH_NODES /\ next.magic \in 1..MaxBegun
    BY SizeAssumption, AskedAssumption DEF SearchOK, Search
<1>6. new \in Request /\ new.slot = s /\ new.index = Len(next.asked) /\ new.magic = next.magic
      /\ new.node = next.asked[Len(next.asked)]
    BY <1>5 DEF Request, Last
<1> HIDE DEF new
<1>7. (sent \subseteq Request)'
    BY <1>4, <1>6 DEF IInv, Request, Slot
<1>8. ASSUME NEW r \in sent'
      PROVE  /\ r.magic <= begun'
             /\ searches'[r.slot] # None /\ searches'[r.slot].magic = r.magic =>
                   /\ r.index \in 1..Len(searches'[r.slot].asked)
                   /\ searches'[r.slot].asked[r.index] = r.node
    <2>1. CASE r = new
        BY <1>2, <1>5, <1>6, <2>1
    <2>2. CASE r \in sent
        <3>1. r.slot \in Slot /\ r.magic \in Nat /\ r.magic <= begun /\ begun \in Nat /\ begun' \in Nat
            BY <2>2, SizeAssumption DEF IInv, Request, Answerable
        <3>2. r.magic <= begun'
            BY <3>1
        <3>3. CASE r.slot = s
            BY <1>2, <2>2, <3>2, <3>3
        <3>4. CASE r.slot # s
            BY <1>2, <2>2, <3>1, <3>2, <3>4 DEF IInv, Answerable
        <3> QED BY <3>3, <3>4
    <2> QED BY <1>4, <2>1, <2>2
<1>9. Answerable'
    BY <1>8 DEF Answerable
<1> QED BY <1>3, <1>7, <1>9

\* A step of a search, from what its stack has become.
LEMMA StepKeeps ==
    ASSUME IInv, NEW s \in Slot, searches[s] # None, NEW search \in Alike(searches[s]),
           searchStep(s, search), begun' = begun
    PROVE  Searches' /\ Answerable' /\ (sent \subseteq Request)'
<1>1. /\ searches = [u \in Slot |-> searches[u]]
      /\ \A u \in Slot : searches[u] # None => SearchOK(searches[u]) /\ searches[u].magic <= begun
    BY DEF IInv, Searches
<1>2. /\ search \in Search /\ Len(search.stack) <= SEARCH_NODES
      /\ search.magic = searches[s].magic /\ search.asked = searches[s].asked
      /\ Len(search.asked) = search.totalRequests + 1
    BY <1>1 DEF Alike, SearchOK
<1>3. CASE search.stack = << >> \/ search.totalRequests >= MAX_REQUESTS
    <2>1. searches' = [searches EXCEPT ![s] = None] /\ sent' = sent
        BY <1>3 DEF searchStep
    <2>2. /\ searches' = [u \in Slot |-> searches'[u]] /\ searches'[s] = None
          /\ \A u \in Slot : u # s => searches'[u] = searches[u]
        BY <1>1, <2>1
    <2>3. Searches'
        BY <1>1, <2>2 DEF Searches
    <2>4. \A r \in sent : r.slot \in Slot
        BY DEF IInv, Request
    <2>5. Answerable'
        <3> SUFFICES ASSUME NEW r \in sent
                     PROVE  /\ r.magic <= begun
                            /\ searches'[r.slot] # None /\ searches'[r.slot].magic = r.magic =>
                                  /\ r.index \in 1..Len(searches'[r.slot].asked)
                                  /\ searches'[r.slot].asked[r.index] = r.node
            BY <2>1 DEF Answerable
        <3> QED BY <2>2, <2>4 DEF IInv, Answerable
    <2>6. (sent \subseteq Request)'
        BY <2>1 DEF IInv, Request, Slot
    <2> QED BY <2>3, <2>5, <2>6
<1>4. CASE search.stack # << >> /\ ~(search.totalRequests >= MAX_REQUESTS)
    <2> DEFINE taken == getNextNode(search)
               next == [taken EXCEPT !.totalRequests = @ + 1, !.armed = TRUE]
    <2>1. searches' = [searches EXCEPT ![s] = next] /\ sendRequest(s, next)
        BY <1>4 DEF searchStep
    <2>2. Len(search.stack) > 0
        BY <1>2, <1>4 DEF Search
    <2>3. /\ taken \in Search /\ Len(taken.stack) < SEARCH_NODES
          /\ taken.magic = search.magic /\ taken.totalRequests = search.totalRequests
          /\ Len(taken.asked) = Len(search.asked) + 1 /\ Len(search.asked) \in Nat
          /\ \A i \in 1..Len(search.asked) : taken.asked[i] = search.asked[i]
          /\ Last(taken.asked) \in Node
        BY <1>2, <2>2, NextFits
    <2> HIDE DEF taken
    <2>4. search.totalRequests \in Nat /\ search.totalRequests + 1 \in 0..MAX_REQUESTS
        BY <1>2, <1>4, SizeAssumption DEF Search
    <2>5. /\ next \in Search /\ next.stack = taken.stack /\ next.asked = taken.asked
          /\ next.magic = taken.magic /\ next.totalRequests = taken.totalRequests + 1
        BY <2>3, <2>4 DEF Search
    <2> HIDE DEF next
    <2>6. SearchOK(next)
        BY <1>2, <2>3, <2>4, <2>5 DEF SearchOK
    <2>7. \A r \in sent : r.slot = s /\ r.magic = next.magic =>
              r.index \in 1..Len(next.asked) /\ next.asked[r.index] = r.node
        <3> SUFFICES ASSUME NEW r \in sent, r.slot = s, r.magic = next.magic
                     PROVE  r.index \in 1..Len(next.asked) /\ next.asked[r.index] = r.node
            OBVIOUS
        <3>1. r.index \in 1..Len(search.asked) /\ search.asked[r.index] = r.node
            BY <1>2, <2>3, <2>5 DEF IInv, Answerable
        <3> QED BY <2>3, <2>5, <3>1
    <2>8. begun' \in 0..MaxBegun /\ begun <= begun'
        BY SizeAssumption DEF IInv
    <2>9. next.magic <= begun'
        <3> QED BY <1>1, <1>2, <2>3, <2>5 DEF IInv
    <2> QED BY <2>1, <2>3, <2>5, <2>6, <2>7, <2>8, <2>9, Asked
<1> QED BY <1>3, <1>4

\* Searches and requests stay as they are.
LEMMA OnlyReach ==
    ASSUME IInv, reach' \in Reach, UNCHANGED <<searches, begun, sent>>
    PROVE  IInv'
BY DEF IInv, Searches, Answerable, Request, Slot

\* RouterModule_beginSearch.
LEMMA BeginKeeps ==
    ASSUME IInv, NEW t \in Target, beginSearch(t)
    PROVE  IInv'
<1>1. PICK nodes \in closestNodes(t) :
          LET s == Min(freeSlots)
              new == [magic |-> begun + 1, target |-> t, stack |-> << >>, asked |-> << >>,
                      totalRequests |-> 0, armed |-> TRUE]
              first == getNextNode(addNodesToSearch(new, nodes))
          IN  searches' = [searches EXCEPT ![s] = first] /\ sendRequest(s, first)
    BY DEF beginSearch
<1> DEFINE s == Min(freeSlots)
           new == [magic |-> begun + 1, target |-> t, stack |-> << >>, asked |-> << >>,
                   totalRequests |-> 0, armed |-> TRUE]
           full == addNodesToSearch(new, nodes)
           first == getNextNode(full)
<1>2. /\ begun < MaxBegun /\ freeSlots # {} /\ known # {} /\ begun' = begun + 1
      /\ reach' = reach
    BY DEF beginSearch
<1>3. searches' = [searches EXCEPT ![s] = first] /\ sendRequest(s, first)
    BY <1>1
<1>4. begun \in Nat /\ begun + 1 \in 1..MaxBegun
    BY <1>2, SizeAssumption DEF IInv
<1>5. s \in Slot
    <2>1. freeSlots \in SUBSET Slot /\ Slot \in SUBSET Nat
        BY DEF freeSlots, Slot
    <2>2. Min(freeSlots) \in freeSlots
        BY <1>2, <2>1, MinIn
    <2> QED BY <2>1, <2>2
<1>6. /\ new \in Search /\ Len(new.stack) <= SEARCH_NODES /\ new.asked = << >>
      /\ new.magic = begun + 1 /\ new.totalRequests = 0
    <2>1. << >> \in Seq(Node) /\ Len(<< >>) = 0
        OBVIOUS
    <2>2. new.asked = << >> /\ new.stack = << >> /\ new.magic = begun + 1 /\ new.totalRequests = 0
        OBVIOUS
    <2>3. 0 \in 0..MAX_REQUESTS /\ 0 <= SEARCH_NODES
        BY SizeAssumption
    <2>4. new \in Search
        <3> DEFINE empty == << >>
        <3>1. empty \in Seq(Node)
            BY <2>1
        <3>2. new = [magic |-> begun + 1, target |-> t, stack |-> empty, asked |-> empty,
                     totalRequests |-> 0, armed |-> TRUE]
            OBVIOUS
        <3> HIDE DEF empty
        <3> QED BY <1>4, <2>3, <3>1, <3>2 DEF Search
    <2> QED BY <2>1, <2>2, <2>3, <2>4
<1> HIDE DEF s, new
<1>7. new \in Alike(new)
    BY <1>6 DEF Alike
<1>8. nodes \in Seq(Node) /\ Len(nodes) > 0
    BY <1>2, ClosestNodes
<1>9. full \in Alike(new) /\ Len(full.stack) > 0
    BY <1>6, <1>7, <1>8, PushAllFits
<1> HIDE DEF full
<1>10. /\ full \in Search /\ Len(full.stack) <= SEARCH_NODES /\ full.magic = begun + 1
       /\ full.asked = << >> /\ full.totalRequests = 0
    BY <1>6, <1>9 DEF Alike
<1>11. /\ first \in Search /\ Len(first.stack) < SEARCH_NODES
       /\ first.magic = begun + 1 /\ first.totalRequests = 0
       /\ Len(first.asked) = 1
       /\ Last(first.asked) \in Node
    <2>1. /\ first \in Search /\ Len(first.stack) < SEARCH_NODES
          /\ first.magic = full.magic /\ first.totalRequests = full.totalRequests
          /\ Len(first.asked) = Len(full.asked) + 1
          /\ Last(first.asked) \in Node
        BY <1>9, <1>10, NextFits
    <2>2. Len(full.asked) = 0
        BY <1>10
    <2> HIDE DEF first
    <2> QED BY <1>10, <2>1, <2>2
<1> HIDE DEF first
<1>12. SearchOK(first)
    BY <1>11 DEF SearchOK
<1>13. \A r \in sent : ~(r.magic = first.magic)
    <2> TAKE r \in sent
    <2>1. r.magic \in Nat /\ r.magic <= begun
        BY DEF IInv, Request, Answerable
    <2> QED BY <1>4, <1>11, <2>1
<1>14. begun' \in 0..MaxBegun /\ first.magic <= begun' /\ begun <= begun'
    BY <1>2, <1>4, <1>11, SizeAssumption
<1>15. Searches' /\ Answerable' /\ (sent \subseteq Request)'
    BY <1>3, <1>5, <1>11, <1>12, <1>13, <1>14, Asked
<1> QED BY <1>2, <1>14, <1>15 DEF IInv, Reach

\* searchRequestTimeout: the node that was asked last loses reach, and the search goes on.
LEMMA TimeoutKeeps ==
    ASSUME IInv, NEW s \in Slot, searchRequestTimeout(s)
    PROVE  IInv'
<1> DEFINE n == Last(searches[s].asked)
           after == reachAfterTimeout(reach[n])
           search == [searches[s] EXCEPT !.armed = FALSE]
<1>1. /\ searches[s] # None /\ searchStep(s, search)
      /\ begun' = begun
      /\ reach' = IF reach[n] = None THEN reach
                  ELSE updateReach(reach, n, IF after = 0 /\ n \in OneHop THEN 1 ELSE after)
    BY DEF searchRequestTimeout
<1>2. searches[s] \in Search /\ Len(searches[s].stack) <= SEARCH_NODES
      /\ Len(searches[s].asked) = searches[s].totalRequests + 1
    BY <1>1, OKFits DEF IInv, Searches
<1>3. n \in Node
    BY <1>2 DEF Search, Last
<1> HIDE DEF n
<1>4. reach' \in Reach
    <2>1. reach \in Reach /\ (reach[n] = None \/ reach[n] \in 0..3)
        BY <1>3 DEF IInv, Reach
    <2>2. CASE reach[n] = None
        BY <1>1, <2>1, <2>2
    <2>3. CASE reach[n] # None
        <3> DEFINE x == IF after = 0 /\ n \in OneHop THEN 1 ELSE after
        <3>1. x \in 0..3
            BY <2>1, <2>3, TimeoutReach
        <3>2. reach' = updateReach(reach, n, x)
            BY <1>1, <2>3
        <3> HIDE DEF x
        <3> QED BY <1>3, <2>1, <3>1, <3>2, UpdateReach
    <2> QED BY <2>2, <2>3
<1>5. search \in Alike(searches[s])
    <2> DEFINE q == searches[s]
               p == [q EXCEPT !.armed = FALSE]
    <2>1. q \in Search /\ Len(q.stack) <= SEARCH_NODES
        BY <1>2
    <2> HIDE DEF q
    <2>2. /\ p \in Search /\ p.stack = q.stack /\ p.magic = q.magic /\ p.asked = q.asked
          /\ p.totalRequests = q.totalRequests
        BY <2>1 DEF Search
    <2>3. p \in Alike(q)
        BY <2>1, <2>2 DEF Alike
    <2> QED BY <2>3 DEF q
<1> HIDE DEF search
<1>6. Searches' /\ Answerable' /\ (sent \subseteq Request)'
    BY <1>1, <1>5, StepKeeps
<1> QED BY <1>1, <1>4, <1>6 DEF IInv, Reach

\* A reply, of any search, at any time and with any list.
LEMMA ReplyKeeps ==
    ASSUME IInv, NEW r \in sent, NEW list \in Lists, NEW inTime \in BOOLEAN,
           handleReply(r, list, inTime)
    PROVE  IInv'
<1> DEFINE heard == addNode(reach, r.node, 2)
           rated == IF inTime THEN updateReach(heard, r.node, 3) ELSE heard
           search == searches[r.slot]
           start == [reach |-> rated, search |-> search]
           st == takeList(list, r.node, start)
<1>1. r.slot \in Slot /\ r.node \in Node /\ reach \in Reach /\ list \in Seq(Node \union {Me})
    BY NodeAssumption DEF IInv, Request
<1>2. heard \in Reach
    BY <1>1, AddReach
<1>3. rated \in Reach
    <2> HIDE DEF heard
    <2>1. updateReach(heard, r.node, 3) \in Reach
        BY <1>1, <1>2, UpdateReach
    <2> QED BY <1>2, <2>1
<1>4. begun' = begun
    BY DEF handleReply
<1>5. CASE getNode(r) /\ search.asked[r.index] = r.node
    <2>1. reach' = st.reach /\ searchStep(r.slot, st.search)
        BY <1>5 DEF handleReply
    <2>2. search # None
        BY <1>5 DEF getNode
    <2>3. SearchOK(search)
        BY <1>1, <2>2 DEF IInv, Searches
    <2>4. search \in Alike(search)
        BY <2>3, OKFits DEF Alike
    <2> HIDE DEF rated
    <2>5. start \in Taken(search)
        BY <1>3, <2>4 DEF Taken
    <2> HIDE DEF start
    <2>6. st \in Taken(search)
        BY <1>1, <2>5, ListFits
    <2> HIDE DEF st
    <2>7. st.reach \in Reach /\ st.search \in Alike(search)
        BY <2>6 DEF Taken
    <2>8. Searches' /\ Answerable' /\ (sent \subseteq Request)'
        BY <1>1, <1>4, <2>1, <2>2, <2>7, StepKeeps
    <2> QED BY <1>4, <2>1, <2>7, <2>8 DEF IInv, Reach
<1>6. CASE ~(getNode(r) /\ search.asked[r.index] = r.node)
    <2>1. reach' = heard /\ UNCHANGED <<searches, sent>>
        BY <1>6 DEF handleReply
    <2> QED BY <1>2, <1>4, <2>1, OnlyReach
<1> QED BY <1>5, <1>6

\* What the table learns by other ways.
LEMMA TableKeeps ==
    ASSUME IInv, NEW n \in Node,
           \/ \E inTime \in BOOLEAN : pongReceived(n, inTime)
           \/ pingTimeoutCallback(n)
           \/ peerFound(n)
           \/ handleQuery(n)
           \/ pathBreaks(n)
    PROVE  IInv'
<1> DEFINE heard == addNode(reach, n, 2)
           lower == reachAfterTimeout(reach[n])
<1>1. reach \in Reach /\ (reach[n] = None \/ reach[n] \in 0..3)
    BY DEF IInv, Reach
<1>2. heard \in Reach
    BY <1>1, AddReach
<1>3. ASSUME NEW inTime \in BOOLEAN, pongReceived(n, inTime) PROVE IInv'
    <2>1. reach' \in {heard, updateReach(heard, n, 3)} /\ UNCHANGED <<searches, begun, sent>>
        BY <1>3, Zenon DEF pongReceived
    <2> HIDE DEF heard
    <2>2. updateReach(heard, n, 3) \in Reach
        BY <1>2, UpdateReach
    <2> QED BY <1>2, <2>1, <2>2, OnlyReach
<1>4. CASE pingTimeoutCallback(n)
    <2>1. reach' = updateReach(reach, n, lower) /\ UNCHANGED <<searches, begun, sent>>
        BY <1>4 DEF pingTimeoutCallback
    <2>2. lower \in 0..3
        BY <1>1, <1>4, TimeoutReach DEF pingTimeoutCallback
    <2> HIDE DEF lower
    <2>3. reach' \in Reach
        BY <1>1, <2>1, <2>2, UpdateReach
    <2> QED BY <2>1, <2>3, OnlyReach
<1>5. CASE peerFound(n)
    <2>1. reach' \in Reach
        BY <1>1, <1>5, AddReach DEF peerFound
    <2> QED BY <1>5, <2>1, OnlyReach DEF peerFound
<1>6. CASE pathBreaks(n)
    <2>1. reach' \in Reach
        BY <1>1, <1>6, BreakReach DEF pathBreaks
    <2> QED BY <1>6, <2>1, OnlyReach DEF pathBreaks
<1>7. CASE handleQuery(n)
    <2>1. reach' \in Reach
        BY <1>1, <1>7, AddReach DEF handleQuery
    <2> QED BY <1>7, <2>1, OnlyReach DEF handleQuery
<1> QED BY <1>3, <1>4, <1>5, <1>6, <1>7

\* Every step keeps the invariant.
LEMMA NextKeeps == IInv /\ [Next]_vars => IInv'
<1> SUFFICES ASSUME IInv, [Next]_vars PROVE IInv'
    OBVIOUS
<1>1. CASE UNCHANGED vars
    BY <1>1, OnlyReach DEF vars, IInv
<1>2. ASSUME NEW t \in Target, beginSearch(t) PROVE IInv'
    BY <1>2, BeginKeeps
<1>3. ASSUME NEW s \in Slot, searchRequestTimeout(s) PROVE IInv'
    BY <1>3, TimeoutKeeps
<1>4. ASSUME NEW r \in sent, NEW list \in Lists, NEW inTime \in BOOLEAN, handleReply(r, list, inTime)
      PROVE  IInv'
    BY <1>4, ReplyKeeps
<1>5. ASSUME NEW n \in Node, NEW inTime \in BOOLEAN, pongReceived(n, inTime) PROVE IInv'
    BY <1>5, TableKeeps, Zenon
<1>6. ASSUME NEW n \in Node, pingTimeoutCallback(n) \/ peerFound(n) \/ handleQuery(n) \/ pathBreaks(n)
      PROVE  IInv'
    BY <1>6, TableKeeps
<1> QED BY <1>1, <1>2, <1>3, <1>4, <1>5, <1>6 DEF Next

\* The invariant holds throughout.
LEMMA AlwaysSearch == Spec => []IInv
<1> QED BY InitSearch, NextKeeps, PTL DEF Spec

\* A search never asks more than MAX_REQUESTS nodes after the first, and never writes past
\* the arrays of its stack and of the nodes it has asked, however often replies are
\* repeated and however long their lists are.
THEOREM ArraysHold == Spec => []TypeOK
<1>1. ASSUME NEW search, SearchOK(search)
      PROVE  search \in Search /\ Len(search.stack) < SEARCH_NODES /\ Len(search.asked) <= SEARCH_NODES
    BY <1>1, SizeAssumption, AskedAssumption DEF SearchOK, Search
<1>2. IInv => TypeOK
    BY <1>1 DEF IInv, Searches, Reach, TypeOK
<1> QED BY <1>2, AlwaysSearch, PTL

\* Requests that are answered late, more than once or out of order still lead to the node
\* they were sent to.
THEOREM FindsNode == Spec => []ReplyFindsNode
<1>1. IInv => ReplyFindsNode
    BY DEF IInv, Answerable, ReplyFindsNode, getNode
<1> QED BY <1>1, AlwaysSearch, PTL

=============================================================================
