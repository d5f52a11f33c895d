------------------------------- MODULE Labels -------------------------------
(***************************************************************************)
(* Source routing: how a label takes a packet through the switches         *)
(* (SwitchCore.c), how a packet's way back grows in the same label, and    *)
(* how routers build labels to nodes further away from labels they are     *)
(* told (LabelSplicer.h, and the parts of RouterModule.c, NodeStore.c and  *)
(* Ducttape.c that give labels to it).                                     *)
(*                                                                         *)
(* Nodes form a line, each a switch and a router.  Switches keep nothing   *)
(* of a packet, so one packet at a time is enough.  sent, to and origin    *)
(* are history of a packet: the label it or its cause was sent on, the     *)
(* node that was meant and the node it came from; asked is the label of    *)
(* the query that a reply answers.                                         *)
(***************************************************************************)
EXTENDS NumberCompress, FiniteSets

CONSTANTS
    Width,   \* bits of a label: 64 in the code
    Lines,   \* networks: sequences of switches, with a scheme, and a port to the
             \* node before and to the node after
    Asker,   \* nodes that send queries
    None     \* no packet, or no node in a reply

ASSUME NoneAssumption == None \notin Nat
ASSUME WidthAssumption == Width \in Nat /\ Width > 14

\* A switch: its ports are slots that are not the router's.
Switch ==
    {w \in [scheme : {"4", "8", "dyn"}, back : Nat \ {1}, fwd : Nat \ {1}] :
        /\ w.back < INTERFACES(w.scheme) /\ w.fwd < INTERFACES(w.scheme)
        /\ w.back # w.fwd}

ASSUME LinesAssumption == Lines \subseteq Seq(Switch)
ASSUME AskerAssumption == \A l \in Lines : Asker \subseteq DOMAIN l

VARIABLES
    line,    \* the network
    store,   \* [node -> its NodeStore: nodes and their paths]
    packet

vars == <<line, store, packet>>

RouterPort == 1
Node == DOMAIN line

zeros(n) == [i \in 1..n |-> 0]
ending(n) == [i \in 1..n |-> IF i = 1 THEN 1 ELSE 0]
xor(a, b) == SubSeq([i \in 1..Width |-> (a[i] + b[i]) % 2], 1, Width)
bitReverse64(label) == << >> \o Reverse(label)
one == ending(Width)
UINT64_MAX == [i \in 1..Width |-> 1]
shiftLeft(label, n) == SubSeq(zeros(n) \o label, 1, Width)

log2(label) == Max({i \in 2..Width : label[i] = 1} \union {1}) - 1

-----------------------------------------------------------------------------
(* LabelSplicer.h and the parts of NodeStore.c that compare labels *)

splice(goHere, viaHere) ==
    IF log2(goHere) + log2(viaHere) > Width - 4 THEN UINT64_MAX
    ELSE xor(shiftLeft(xor(goHere, one), log2(viaHere)), viaHere)

\* Bug: the label is handed out as it is stored.
getLabelForAsStored(scheme, target, whoIsAsking) == target

\* The first hop is written with at least as many bits as the way back to the asker has.
getLabelFor(scheme, target, whoIsAsking) ==
    LET targetBits == bitsUsedForLabel(scheme, target)
        askingBits == bitsUsedForLabel(scheme, whoIsAsking)
        port == getDecompressed(scheme, target, targetBits)
    IN  IF targetBits >= askingBits THEN target
        ELSE SubSeq(bitsOf(getCompressed(scheme, port, askingBits), askingBits)
                      \o SubSeq(target, targetBits + 1, Width), 1, Width)

isOneHop(scheme, label) == bitsUsedForLabel(scheme, label) = log2(label)

\* A label is greater if its highest bit that differs is 1.
greater(a, b) == \E i \in 1..Width : a[i] > b[i] /\ \A j \in i + 1..Width : a[j] = b[j]

\* Bug: one bit too many is compared.
routesThroughMark(destination, midPath) ==
    /\ ~greater(midPath, destination)
    /\ SubSeq(destination, 1, log2(midPath) + 1) = SubSeq(midPath, 1, log2(midPath) + 1)

routesThrough(destination, midPath) ==
    /\ ~greater(midPath, destination)
    /\ SubSeq(destination, 1, log2(midPath)) = SubSeq(midPath, 1, log2(midPath))

\* The label SwitchCore_addInterface gives to the peer in a slot.
labelOut(scheme, port) ==
    LET bits == bitsUsedForNumber(scheme, port)
    IN  bitsOf(getCompressed(scheme, port, bits), bits) \o ending(Width - bits)

getSwitchIndex(scheme, label) == getDecompressed(scheme, label, bitsUsedForLabel(scheme, label))

\* NodeStore_addNode, with reach above 0 if the node itself was heard.
addNode(nodes, new, heard) ==
    LET same == {e \in nodes : e.node = new.node}
        longer == {e \in same : routesThrough(e.path, new.path)}
        others == {e \in nodes \ same : e.path = new.path}
    IN  CASE \E e \in same : e.path = new.path \/ routesThrough(new.path, e.path) -> nodes
          [] others # {} -> IF heard THEN (nodes \ others) \union {new} ELSE nodes
          [] OTHER -> (nodes \ longer) \union {new}

\* NodeStore_brokenPath: a neighbour stays, with reach 0.
brokenPath(scheme, nodes, path) ==
    {e \in nodes : ~routesThrough(e.path, path) \/ isOneHop(scheme, e.path)}

-----------------------------------------------------------------------------
(* The switch *)

\* The ports of a switch that have an interface.
ports(i) ==
    {RouterPort} \union (IF i > 1 THEN {line[i].back} ELSE {})
                 \union (IF i < Len(line) THEN {line[i].fwd} ELSE {})

\* Where a packet is after it left through a port.
across(i, port) ==
    IF port = line[i].fwd THEN [at |-> i + 1, from |-> line[i + 1].back]
    ELSE [at |-> i - 1, from |-> line[i - 1].fwd]

\* A code of the source must fit where the destination's was; only for the router of this
\* node may it take the zeros above.  (A source that is the router never has more bits.)
fits(label, destIndex, sourceBits, bits) ==
    sourceBits > bits =>
        destIndex = RouterPort /\ \A b \in 2..sourceBits : label[b] = 0

\* Bug: the code of the source is put in as it is.
withSourceForward(scheme, label, from, bits) ==
    SubSeq(label, bits + 1, Width) \o bitsOf(getCompressed(scheme, from, bits), bits)

\* Bug: the code of the source has its own length, not that of the code it replaces.
withSourceOwnBits(scheme, label, from, bits) ==
    LET own == bitsUsedForNumber(scheme, from)
    IN  SubSeq(label, bits + 1, Width) \o Reverse(bitsOf(getCompressed(scheme, from, own), own))

\* The label a packet leaves with: the code used is shifted out and that of its source
\* comes in at the other end, reversed.
withSource(scheme, label, from, bits) ==
    SubSeq(label, bits + 1, Width) \o Reverse(bitsOf(getCompressed(scheme, from, bits), bits))

\* receiveMessage of SwitchCore.c up to sendMessage: whether the packet is refused with
\* MALFORMED_ADDRESS, else the port and the label it leaves with.
receiveMessage(i, from, label) ==
    LET scheme == line[i].scheme
        bits == bitsUsedForLabel(scheme, label)
        destIndex == getDecompressed(scheme, label, bits)
        sourceBits == bitsUsedForNumber(scheme, from)
    IN  [ok |-> /\ destIndex = RouterPort => field(label, 0, 4) = 1
                /\ fits(label, destIndex, sourceBits, bits)
                /\ destIndex \in ports(i),
         port |-> destIndex,
         label |-> withSource(scheme, label, from, Max({bits, sourceBits}))]

\* What the switch a packet is at makes of it.  The source address is what a router reads
\* from it (incomingFromSwitch of Ducttape.c): "bit reversing the label yields the source
\* address".
outcome ==
    LET out == receiveMessage(packet.at, packet.from, packet.label)
    IN  [ok |-> out.ok, port |-> out.port, label |-> out.label, source |-> bitReverse64(out.label)]

arrives(out) == out.ok /\ out.port = RouterPort

-----------------------------------------------------------------------------

\* Every node knows its neighbours, from the switch pings of their peers.
Init ==
    /\ line \in Lines
    /\ store = [i \in Node |->
          {[node |-> across(i, port).at, path |-> labelOut(line[i].scheme, port)] :
              port \in ports(i) \ {RouterPort}}]
    /\ packet = None

\* A search request of RouterModule.c to a node in the store.
sendQuery(i, e) ==
    /\ packet = None
    /\ packet' = [kind |-> "query", at |-> i, from |-> RouterPort, label |-> e.path,
                  origin |-> i, sent |-> e.path, to |-> e.node]
    /\ UNCHANGED <<line, store>>

\* sendMessage of the switch succeeds.
forward(out) ==
    /\ out.ok /\ out.port # RouterPort
    /\ LET next == across(packet.at, out.port)
       IN  packet' = [packet EXCEPT !.at = next.at, !.from = next.from, !.label = out.label]
    /\ UNCHANGED <<line, store>>

\* The router of node i learns from an error that a path is broken.
learnBroken(i, path) ==
    /\ store' = [store EXCEPT ![i] = brokenPath(line[i].scheme, @, path)]
    /\ packet' = None

\* sendError: the error leaves by the interface its cause came from, on the reversed label.
\* "Errors never cause other errors to be sent."
sendError ==
    /\ IF packet.kind = "error" THEN packet' = None /\ UNCHANGED store
       ELSE IF packet.from = RouterPort THEN learnBroken(packet.at, packet.label)
       ELSE /\ LET back == across(packet.at, packet.from)
               IN  packet' = [kind |-> "error", at |-> back.at, from |-> back.from,
                              label |-> bitReverse64(packet.label), origin |-> packet.origin,
                              sent |-> packet.sent, to |-> packet.to]
            /\ UNCHANGED store
    /\ UNCHANGED line

\* The switch finds no way for the packet.
refuse(out) == ~out.ok /\ sendError

\* The interface it is to leave by returns an error.
linkFails(out) == out.ok /\ out.port # RouterPort /\ sendError

\* handleQuery: the asker is added to the store and told of a node that is not down the
\* interface it asked from.
handleQuery(out) ==
    /\ arrives(out) /\ packet.kind = "query"
    /\ LET i == packet.at
           scheme == line[i].scheme
           known == addNode(store[i], [node |-> packet.origin, path |-> out.source], TRUE)
       IN  /\ store' = [store EXCEPT ![i] = known]
           /\ \E e \in known :
                /\ getSwitchIndex(scheme, e.path) # getSwitchIndex(scheme, out.source)
                /\ packet' = [kind |-> "reply", at |-> i, from |-> RouterPort, label |-> out.source,
                              origin |-> i, sent |-> out.source, to |-> packet.origin,
                              asked |-> packet.sent,
                              node |-> e.node, path |-> getLabelFor(scheme, e.path, out.source)]
    /\ UNCHANGED line

\* handleQuery where there is nobody to tell of: the reply is sent without nodes.
handleQueryNobody(out) ==
    /\ arrives(out) /\ packet.kind = "query"
    /\ LET i == packet.at
           known == addNode(store[i], [node |-> packet.origin, path |-> out.source], TRUE)
       IN  /\ store' = [store EXCEPT ![i] = known]
           /\ \A e \in known :
                getSwitchIndex(line[i].scheme, e.path) = getSwitchIndex(line[i].scheme, out.source)
           /\ packet' = [kind |-> "reply", at |-> i, from |-> RouterPort, label |-> out.source,
                         origin |-> i, sent |-> out.source, to |-> packet.origin,
                         asked |-> packet.sent, node |-> None, path |-> None]
    /\ UNCHANGED line

\* handleReply: the path told is spliced onto the path it came by, if the table has the
\* node that tells it on that path.  A node that is told of itself takes the path as broken.
handleReply(out) ==
    /\ arrives(out) /\ packet.kind = "reply"
    /\ LET i == packet.at
           path == splice(packet.path, out.source)
       IN  store' = [store EXCEPT ![i] =
                        CASE \/ packet.node = None
                             \/ [node |-> packet.origin, path |-> out.source] \notin @ -> @
                          [] packet.node = i -> brokenPath(line[i].scheme, @, packet.path)
                          [] packet.node # i /\ path = UINT64_MAX -> @
                          [] OTHER -> addNode(@, [node |-> packet.node, path |-> path], FALSE)]
    /\ packet' = None
    /\ UNCHANGED line

\* handleControlMessage of Ducttape.c for an error.
handleError(out) ==
    /\ arrives(out) /\ packet.kind = "error"
    /\ learnBroken(packet.at, out.source)
    /\ UNCHANGED line

\* Nothing comes of no packet.
Outcome == IF packet = None THEN {} ELSE {outcome}

Next ==
    \/ \E i \in Asker : \E e \in store[i] : sendQuery(i, e)
    \/ \E out \in Outcome : forward(out)
    \/ \E out \in Outcome : refuse(out)
    \/ \E out \in Outcome : linkFails(out)
    \/ \E out \in Outcome : handleQuery(out)
    \/ \E out \in Outcome : handleQueryNobody(out)
    \/ \E out \in Outcome : handleReply(out)
    \/ \E out \in Outcome : handleError(out)

Spec == Init /\ [][Next]_vars

-----------------------------------------------------------------------------

Label == [1..Width -> 0..1]

TypeOK ==
    /\ line \in Lines
    /\ DOMAIN store = Node
    /\ \A i \in Node : \A e \in store[i] : e.node \in Node \ {i} /\ e.path \in Label
    /\ packet # None =>
          /\ packet.kind \in {"query", "reply", "error"}
          /\ packet.at \in Node /\ packet.from \in ports(packet.at)
          /\ packet.label \in Label

\* A packet on a label of the store is let through by every switch on its way, whatever
\* schemes and slots they use, until it is at the node the label is stored for.  Only there
\* may it be refused (for want of room for the way back, SwitchCore.c:192).
QueryEndsAtNode ==
    packet # None /\ packet.kind = "query" =>
        LET out == outcome IN ~out.ok \/ out.port = RouterPort => packet.at = packet.to

\* What is sent back on a bit reversed label, a reply from the end of a path or an error from
\* the middle of it, is never refused.  It comes to the node that sent the query or the
\* cause, and its source address there is bit for bit the label that was used: otherwise
\* SwitchPinger.c:120 takes an answer for a mismatch, handleReply (RouterModule.c:717) does
\* not find the sender, and RouterModule_brokenPath breaks another path.
AnswersComeBack ==
    packet # None /\ packet.kind # "query" =>
        LET out == outcome
        IN  /\ out.ok
            /\ out.port = RouterPort =>
                  IF packet.kind = "reply"
                  THEN packet.at = packet.to /\ out.source = packet.asked
                  ELSE packet.at = packet.origin /\ out.source = packet.sent

\* LabelSplicer_routesThrough tells from two labels alone whether one node is on the way
\* to the other, and LabelSplicer_isOneHop whether a node is a peer.
LabelsTellTopology ==
    \A i \in Node : \A e, f \in store[i] :
        /\ routesThrough(e.path, f.path) <=> (i < f.node /\ f.node <= e.node) \/ (e.node <= f.node /\ f.node < i)
        /\ isOneHop(line[i].scheme, e.path) <=> e.node \in {i - 1, i + 1}

\* Where a packet is to arrive.
destination(p) == IF p.kind = "error" THEN p.origin ELSE p.to

distance(i, j) == IF i < j THEN j - i ELSE i - j

\* No switch passes a packet on in the wrong direction, so that none goes around for ever:
\* every hop takes it, its reply or its error nearer to the node it is for.
EveryHopIsNearer ==
    [][packet # None /\ packet' # None /\ packet'.kind = packet.kind =>
          distance(packet'.at, destination(packet)) < distance(packet.at, destination(packet))]_vars

=============================================================================
