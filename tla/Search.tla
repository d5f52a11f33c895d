------------------------------- MODULE Search -------------------------------
(***************************************************************************)
(* Searches of the distributed hash table: dht/dhtcore/SearchStore.c and   *)
(* the search part of dht/dhtcore/RouterModule.c, with what they read and  *)
(* write of dht/dhtcore/NodeStore.c.                                       *)
(*                                                                         *)
(* The other nodes are open: a request may be answered at any time, late,  *)
(* more than once or never, with any list.  A reach above 2 is kept as 3,  *)
(* which reachAfterTimeout never leaves and every comparison with 0, 1 and *)
(* 2 treats alike.  Each node is known by one path; the durations that     *)
(* AverageRoller computes are left open.                                   *)
(***************************************************************************)
EXTENDS Naturals, FiniteSets, SequencesExt

CONSTANTS
    Node,             \* other nodes
    Me,               \* this node, in the list of a reply
    Path,             \* [Node -> the hops of its label]
    OneHop,           \* nodes whose label is one hop
    LoopPath,         \* the label another node has for Me
    Target,           \* what is searched for: nodes, or other points of the key space
    Distance(_, _),   \* the XOR metric
    Lists,            \* lists of nodes a reply may carry; << >> when it has none
    K,                \* nodes a search begins with: RouterModule_K
    MAX_SEARCHES,     \* slots: SearchStore_MAX_SEARCHES
    SEARCH_NODES,     \* length of both arrays of a search: SearchStore_SEARCH_NODES
    MAX_REQUESTS,     \* MAX_REQUESTS_PER_SEARCH
    MaxBegun,         \* bound: searches that are begun
    None

ASSUME SizeAssumption ==
    {K, MAX_SEARCHES, SEARCH_NODES, MAX_REQUESTS, MaxBegun} \subseteq Nat /\ K > 0
\* nodesAsked never wraps: every node that is asked is counted, but for the first and
\* the one taken by the step that ends the search, which is freed with it.
ASSUME AskedAssumption == MAX_REQUESTS < SEARCH_NODES
\* The array order of NodeStore, which decides between paths of the same length, is not kept.
ASSUME PathAssumption ==
    Path \in [Node -> Seq(Nat)] /\ \A m, n \in Node : m # n => Len(Path[m]) # Len(Path[n])
ASSUME NodeAssumption == IsFiniteSet(Node) /\ Lists \subseteq Seq(Node \union {Me})

VARIABLES
    searches,   \* SearchStore.searches
    begun,      \* number of searches begun
    reach,      \* NodeStore: the reach of each node, None if it is not there
    sent        \* requests that were sent

vars == <<searches, begun, reach, sent>>

Slot == 1..MAX_SEARCHES
\* magic stands for the random numbers in the txids of a search: no other search has them.
Request == [slot : Slot, index : 1..SEARCH_NODES, magic : 1..MaxBegun, node : Node]
Search == [magic : 1..MaxBegun, target : Target, stack : Seq(Node), asked : Seq(Node),
           totalRequests : 0..MAX_REQUESTS, armed : BOOLEAN]

-----------------------------------------------------------------------------
(* NodeStore.c *)

known == {n \in Node : reach[n] # None}
atMost3(x) == IF x > 3 THEN 3 ELSE x
routesThrough(n, path) == IsPrefix(path, Path[n])

addNode(re, n, diff) == [re EXCEPT ![n] = atMost3((IF @ = None THEN 0 ELSE @) + diff)]

\* n has got the reach x: nodes behind it have no more, and nodes before it that have
\* some have no less.
updateReach(re, n, x) ==
    [m \in Node |->
        IF re[m] = None THEN None
        ELSE IF m = n THEN x
        ELSE IF routesThrough(m, Path[n]) /\ re[m] > x THEN x
        ELSE IF routesThrough(n, Path[m]) /\ re[m] < x /\ re[m] # 0 THEN x
        ELSE re[m]]

brokenPath(re, path) ==
    [n \in Node |-> IF re[n] = None \/ ~routesThrough(n, path) THEN re[n]
                    ELSE IF n \in OneHop THEN 0
                    ELSE None]

\* LinkStateNodeCollector_addNode: short paths are better, nodes of no reach worst.
value(re, n) == IF re[n] = 0 THEN 0 ELSE 64 - Len(Path[n])

\* The best nodes for a target, worst first; the target itself is better than any other.
closestNodes(t) ==
    LET worth(n) == IF n = t THEN 65 ELSE value(reach, n)
    IN  {o \in SetToAllKPermutations(known) :
            /\ Len(o) = Min({K, Cardinality(known)})
            /\ \A i, j \in DOMAIN o : i < j => worth(o[i]) <= worth(o[j])
            /\ \A n \in known \ Range(o), i \in DOMAIN o : worth(n) <= worth(o[i])}

\* The node to go through to a: a itself, or the one with the shortest path among those
\* nearer to it than this one.  A node without reach is passed over, a itself too.
getBest(re, a) ==
    LET better == {n \in Node : re[n] \notin {None, 0} /\ Distance(n, a) < Distance(Me, a)}
    IN  IF a \in better THEN a
        ELSE IF better = {} THEN None
        ELSE CHOOSE n \in better : \A m \in better : value(re, m) <= value(re, n)

-----------------------------------------------------------------------------
(* SearchStore.c *)

freeSlots == {s \in Slot : searches[s] = None}

\* Bug: a full stack grows.
addNodeToSearchOverfull(search, n) ==
    IF n \in Range(search.asked) THEN search ELSE [search EXCEPT !.stack = Append(@, n)]

\* A node that was asked is skipped; the last entry of a full stack is replaced.
addNodeToSearch(search, n) ==
    IF n \in Range(search.asked) THEN search
    ELSE IF Len(search.stack) < SEARCH_NODES THEN [search EXCEPT !.stack = Append(@, n)]
    ELSE [search EXCEPT !.stack[SEARCH_NODES] = n]

\* Nodes are pushed in turn.
addNodesToSearch(search, nodes) ==
    LET pushed[i \in 0..Len(nodes)] ==
            IF i = 0 THEN search ELSE addNodeToSearch(pushed[i - 1], nodes[i])
    IN  pushed[Len(nodes)]

getNextNode(search) ==
    [search EXCEPT !.stack = Front(@), !.asked = Append(@, Last(search.stack))]

\* Bug: any request of the search that had the slot will do.
getNodeAnyMagic(r) == searches[r.slot] # None /\ r.index \in DOMAIN searches[r.slot].asked

\* The request that is answered is one of the search in its slot.
getNode(r) ==
    /\ searches[r.slot] # None
    /\ r.index \in DOMAIN searches[r.slot].asked
    /\ r.magic = searches[r.slot].magic

-----------------------------------------------------------------------------
(* RouterModule.c *)

Init ==
    /\ searches = [s \in Slot |-> None]
    /\ begun = 0
    /\ reach = [n \in Node |-> None]
    /\ sent = {}

sendRequest(s, search) ==
    sent' = sent \union {[slot |-> s, index |-> Len(search.asked), magic |-> search.magic,
                          node |-> Last(search.asked)]}

\* Bug: the timer, which fires once, is not started again.
searchStepNoTimer(s, search) ==
    IF search.stack = << >> \/ search.totalRequests >= MAX_REQUESTS
    THEN searches' = [searches EXCEPT ![s] = None] /\ UNCHANGED sent
    ELSE LET next == [getNextNode(search) EXCEPT !.totalRequests = @ + 1]
         IN  searches' = [searches EXCEPT ![s] = next] /\ sendRequest(s, next)

\* Ask the next node, or end and free the search.
searchStep(s, search) ==
    IF search.stack = << >> \/ search.totalRequests >= MAX_REQUESTS
    THEN searches' = [searches EXCEPT ![s] = None] /\ UNCHANGED sent
    ELSE LET next == [getNextNode(search) EXCEPT !.totalRequests = @ + 1, !.armed = TRUE]
         IN  searches' = [searches EXCEPT ![s] = next] /\ sendRequest(s, next)

\* A search is refused, with no change, when no slot is free or no node is known.
beginSearch(t) ==
    /\ begun < MaxBegun
    /\ freeSlots # {}
    /\ known # {}
    /\ \E nodes \in closestNodes(t) :
         LET s == Min(freeSlots)
             new == [magic |-> begun + 1, target |-> t, stack |-> << >>, asked |-> << >>,
                     totalRequests |-> 0, armed |-> TRUE]
             first == getNextNode(addNodesToSearch(new, nodes))
         IN  searches' = [searches EXCEPT ![s] = first] /\ sendRequest(s, first)
    /\ begun' = begun + 1
    /\ UNCHANGED reach

reachAfterTimeout(old) == CASE old = 2 -> 1 [] old \in {0, 1} -> 0 [] OTHER -> old

\* The last node that was asked has not answered in time; a peer keeps some reach.
searchRequestTimeout(s) ==
    /\ searches[s] # None
    /\ searches[s].armed
    /\ LET n == Last(searches[s].asked)
           after == reachAfterTimeout(reach[n])
       IN  reach' = IF reach[n] = None THEN reach
                    ELSE updateReach(reach, n, IF after = 0 /\ n \in OneHop THEN 1 ELSE after)
    /\ searchStep(s, [searches[s] EXCEPT !.armed = FALSE])
    /\ UNCHANGED begun

\* What entry i of a reply does to the store and to the search.  Only the last of equal
\* entries counts.
takeEntry(list, i, parent, st) ==
    LET e == list[i]
        re == addNode(st.reach, e, 0)
        best == getBest(re, e)
    IN  IF \E j \in i + 1..Len(list) : list[j] = e THEN st
        ELSE IF e = Me THEN [st EXCEPT !.reach = brokenPath(@, LoopPath)]
        ELSE IF Distance(e, st.search.target) >= Distance(parent, st.search.target)
        THEN [st EXCEPT !.reach = re]
        ELSE [reach |-> re, search |-> addNodeToSearch(st.search, IF best = None THEN e ELSE best)]

\* All entries of a reply in turn.
takeList(list, parent, st) ==
    LET taken[i \in 0..Len(list)] ==
            IF i = 0 THEN st ELSE takeEntry(list, i, parent, taken[i - 1])
    IN  taken[Len(list)]

\* A reply of a node that is in the table.  inTime: it beats the time it is given.
handleReply(r, list, inTime) ==
    /\ reach[r.node] # None
    /\ LET heard == addNode(reach, r.node, 2)
           rated == IF inTime THEN updateReach(heard, r.node, 3) ELSE heard
           search == searches[r.slot]
           st == takeList(list, r.node, [reach |-> rated, search |-> search])
       IN  IF getNode(r) /\ search.asked[r.index] = r.node
           THEN /\ reach' = st.reach
                /\ searchStep(r.slot, st.search)
           ELSE reach' = heard /\ UNCHANGED <<searches, sent>>
    /\ UNCHANGED begun

\* A node has answered a ping of the router; pings are sent to any node of the table.
pongReceived(n, inTime) ==
    /\ reach[n] # None
    /\ LET heard == addNode(reach, n, 2)
       IN  reach' = IF inTime THEN updateReach(heard, n, 3) ELSE heard
    /\ UNCHANGED <<searches, begun, sent>>

\* A ping of the router has not been answered.  The node that pays for it is the one at
\* the place of the pinged node in the array by now, so it may be any.
pingTimeoutCallback(n) ==
    /\ reach[n] # None
    /\ reach' = updateReach(reach, n, reachAfterTimeout(reach[n]))
    /\ UNCHANGED <<searches, begun, sent>>

\* A peer has answered a ping of the switch (RouterModule_addNode).
peerFound(n) ==
    /\ n \in OneHop
    /\ reach' = addNode(reach, n, 1)
    /\ UNCHANGED <<searches, begun, sent>>

\* A node that is known or not has asked this one something.
handleQuery(n) ==
    /\ reach' = addNode(reach, n, 1)
    /\ UNCHANGED <<searches, begun, sent>>

\* An error packet has told that the path to n is broken (RouterModule_brokenPath).
pathBreaks(n) ==
    /\ reach[n] # None
    /\ reach' = brokenPath(reach, Path[n])
    /\ UNCHANGED <<searches, begun, sent>>

Next ==
    \/ \E t \in Target : beginSearch(t)
    \/ \E s \in Slot : searchRequestTimeout(s)
    \/ \E r \in sent, list \in Lists, inTime \in BOOLEAN : handleReply(r, list, inTime)
    \/ \E n \in Node, inTime \in BOOLEAN : pongReceived(n, inTime)
    \/ \E n \in Node : pingTimeoutCallback(n) \/ peerFound(n) \/ handleQuery(n) \/ pathBreaks(n)

\* Timers of the event loop fire; nothing else is promised, no reply either.
Fairness == \A s \in Slot : WF_vars(searchRequestTimeout(s))

Spec == Init /\ [][Next]_vars /\ Fairness

-----------------------------------------------------------------------------
\* A search stays within both its arrays and its limit of steps.  Between two steps the
\* last one has taken a node off a stack that was full at most.
TypeOK ==
    /\ \A s \in Slot : searches[s] # None =>
          /\ searches[s] \in Search
          /\ Len(searches[s].stack) < SEARCH_NODES
          /\ Len(searches[s].asked) <= SEARCH_NODES
    /\ begun \in 0..MaxBegun
    /\ \A n \in Node : reach[n] \in 0..3 \union {None}
    /\ sent \subseteq Request

\* A reply that SearchStore_getNode accepts, however late, is to the node at its index: no
\* search that has taken over the slot is given it, and the test that follows, for "another
\* search [...] in the same slot" (the comment at RouterModule.c:785), finds none.
ReplyFindsNode == \A r \in sent : getNode(r) => searches[r.slot].asked[r.index] = r.node

running(i) == \E s \in Slot : searches[s] # None /\ searches[s].magic = i

\* Every search ends and frees its slot, whatever the replies do to its timer.
EverySearchEnds == \A i \in 1..MaxBegun : running(i) ~> ~running(i)

=============================================================================
