------------------------------- MODULE Peers -------------------------------
(***************************************************************************)
(* The peers of a node: net/DefaultInterfaceController.c with the find or  *)
(* create of interface/MultiInterface.c under it, the callers that begin   *)
(* connections and the slots of the switch (as SwitchSlots, which          *)
(* SwitchCore implements).                                                 *)
(*                                                                         *)
(* A peer is named by its address, its key in the map of MultiInterface    *)
(* and the owner of its allocator.  Each C function is an operator on a    *)
(* record of the whole state, so that an action is one whole call with     *)
(* everything it frees on the way.  CryptoAuth is left open: it drops a    *)
(* packet or passes it up with its session established or not.  Pings are  *)
(* kept by SwitchPinger and not here: a response to one goes to the        *)
(* router and changes nothing of a peer.                                   *)
(***************************************************************************)
EXTENDS Map, FiniteSets, SequencesExt

CONSTANTS
    Addr,               \* addresses packets come from
    KeyAt,              \* [Addr -> the public key of the node there]
    Configured,         \* addresses of peers in the configuration
    Beaconing,          \* addresses that send beacons
    Slot,               \* slots of the switch for peers, and so their labels
    None,               \* NULL
    PingAfter,          \* pingAfterMilliseconds, in ticks
    UnresponsiveAfter,  \* unresponsiveAfterMilliseconds
    ForgetAfter,        \* forgetAfterMilliseconds
    PingSkip,           \* an unresponsive peer is pinged once in so many scans
    MaxHandle           \* bound: peers ever registered

ASSUME TimesAssumption ==
    /\ {PingAfter, UnresponsiveAfter, ForgetAfter} \subseteq Nat
    /\ PingAfter < UnresponsiveAfter /\ UnresponsiveAfter < ForgetAfter
    /\ PingSkip \in Nat \ {0}
ASSUME AddrAssumption == IsFiniteSet(Addr) /\ DOMAIN KeyAt = Addr /\ Slot \subseteq Nat
ASSUME HandleAssumption == MaxHandle \in Nat

UNAUTHENTICATED == 0
HANDSHAKE == 1
ESTABLISHED == 2
UNRESPONSIVE == 3

VARIABLES
    peerMap,    \* the map of DefaultInterfaceController, by address
    peer,       \* [Addr -> struct IFCPeer or None]
    slot,       \* [Addr -> the slot of its switchIf, or None]
    pingCount,  \* modulo PingSkip
    bare        \* addresses with a peer in the map of MultiInterface and no IFCPeer

vars == <<peerMap, peer, slot, pingCount, bare>>

MaxAge == ForgetAfter + 1

\* struct IFCPeer
Peer == [handle : 0..MaxHandle - 1, state : UNAUTHENTICATED..UNRESPONSIVE, key : Range(KeyAt),
         transient : BOOLEAN, label : Slot \union {None}, age : 0..MaxAge]

ASSUME NoneAssumption == None \notin Addr \union Slot \union Range(KeyAt) \union Peer

Live(a) == peer[a] # None

Slots == INSTANCE SwitchSlots WITH Iface <- Addr

\* The state an operation starts from.
Now == [peerMap |-> peerMap, peer |-> peer, slot |-> slot, pingCount |-> pingCount]

\* The state it leaves.
Become(st) ==
    /\ peerMap' = st.peerMap
    /\ peer' = st.peer
    /\ slot' = st.slot
    /\ pingCount' = st.pingCount

Init ==
    /\ peerMap = Map_new
    /\ peer = [a \in Addr |-> None]
    /\ slot = [a \in Addr |-> None]
    /\ pingCount = 0
    /\ bare = {}

-----------------------------------------------------------------------------
(* Operations as functions of the state *)

\* Allocators of peers are freed: closeInterface, removePeer of MultiInterface and
\* removeInterface of the switch run for each.
freePeers(st, as) ==
    [st EXCEPT !.peerMap = Map_remove(as, @),
               !.peer = [a \in Addr |-> IF a \in as THEN None ELSE @[a]],
               !.slot = [a \in Addr |-> IF a \in as THEN None ELSE @[a]]]

\* Bug: the wrong ones are dropped.
forgottenIfKept(p) == ~p.transient /\ p.age > ForgetAfter

forgotten(p) == p.transient /\ p.age > ForgetAfter

unresponsive(p) == p.age > UnresponsiveAfter

\* Bug: the remainder is compared with what it never reaches.
pingNowNever(st) == st.pingCount = PingSkip

\* "Lets skip 87% of pings when they're really down."
pingNow(st) == st.pingCount = 0

\* The peers the loop of pingCallback looks at: freeing the entry at an index moves the
\* rest down, and the loop goes on to the next index, past the one that moved there.
scanned(st) ==
    LET at(i) == st.peerMap.entries[i].key
        reached[i \in 1..count(st.peerMap)] ==
            i = 1 \/ ~(reached[i - 1] /\ forgotten(st.peer[at(i - 1)]))
    IN  {at(i) : i \in {j \in 1..count(st.peerMap) : reached[j]}}

\* pingCallback: forget, mark and ping the peers that are due.  The ping that follows a
\* forgotten peer finds its slot empty and ends with an error at once.
pingCallback(st) ==
    LET next == [st EXCEPT !.pingCount = (@ + 1) % PingSkip]
        silent == {a \in scanned(st) : unresponsive(st.peer[a]) /\ ~forgotten(st.peer[a])}
        marked == IF pingNow(next) THEN silent ELSE {}
    IN  freePeers(
          [next EXCEPT
             !.peer = [a \in Addr |-> IF a \in marked THEN [@[a] EXCEPT !.state = UNRESPONSIVE]
                                     ELSE @[a]]],
          {a \in scanned(st) : forgotten(st.peer[a])})

\* Bug: the label stays that of the slot given away.
takeOverSlotOnly(st, a, old) == [st EXCEPT !.slot = Slots!Swapped(@, a, old)]

\* The label and the slot of an older peer.
takeOver(st, a, old) ==
    [st EXCEPT !.peer[a].label = st.peer[old].label, !.slot = Slots!Swapped(@, a, old)]

sameKey(st, a) ==
    {i \in 1..count(st.peerMap) :
        LET b == st.peerMap.entries[i].key IN b # a /\ st.peer[b].key = st.peer[a].key}

firstOther(st, a) == st.peerMap.entries[Min(sameKey(st, a))].key

\* moveEndpointIfNeeded: the first other peer with the same key gives up its slot and is freed.
moveEndpointIfNeeded(st, a) ==
    IF sameKey(st, a) = {} THEN st
    ELSE freePeers(takeOver(st, a, firstOther(st, a)), {firstOther(st, a)})

\* What SwitchCore_addInterface gives: the lowest vacant slot, or None if there is none.
NewSlot == IF Slots!Vacant(slot) = {} THEN None ELSE Min(Slots!Vacant(slot))

\* registerPeer up to the ping of a peer with a known key.  When SwitchCore_addInterface
\* fails, label and time are left 0.
registerPeer(st, a, key, requireAuth, transient) ==
    [st EXCEPT !.peerMap = Map_put(a, @),
               !.slot[a] = NewSlot,
               !.peer[a] =
                  [handle |-> st.peerMap.nextHandle,
                   state |-> IF requireAuth THEN UNAUTHENTICATED ELSE HANDSHAKE,
                   key |-> key,
                   transient |-> transient,
                   label |-> NewSlot,
                   age |-> IF NewSlot = None THEN MaxAge ELSE PingAfter + 1]]

\* MultiInterface's peerForKey for a packet: the peer at this address, or a new one.
PeerFor(a) == IF Live(a) THEN Now ELSE registerPeer(Now, a, None, TRUE, TRUE)

MayRegister(a) == Live(a) \/ peerMap.nextHandle < MaxHandle

\* A packet goes through receiveMessage of the peer in the map of MultiInterface.  A peer
\* that was never registered has none, and the call ends the process.
MayReceive(a) == MayRegister(a) /\ a \notin bare

-----------------------------------------------------------------------------
(* Actions *)

\* UDPInterface_beginConnection, ETHInterface_beginConnection: a peer from the
\* configuration.  If there is no slot for it the caller frees it.
beginConnection(a) ==
    /\ a \in Configured /\ ~Live(a) /\ MayRegister(a)
    /\ LET st == registerPeer(Now, a, KeyAt[a], FALSE, FALSE)
       IN  Become(IF NewSlot = None THEN freePeers(st, {a}) ELSE pingCallback(st))
    /\ bare' = bare \ {a}

\* handleBeacon of ETHInterface_Linux.c: a failure is logged and the peer stays.
handleBeacon(a) ==
    /\ a \in Beaconing /\ ~Live(a) /\ MayRegister(a)
    /\ LET st == registerPeer(Now, a, KeyAt[a], FALSE, TRUE)
       IN  Become(IF NewSlot = None THEN st ELSE pingCallback(st))
    /\ bare' = bare \ {a}

\* registerPeer has been given a key that is the key of no address (BAD_KEY).  A caller that
\* begins a connection frees the peer of MultiInterface, handleBeacon leaves it as it is.
refuseKey(a) ==
    /\ ~Live(a)
    /\ \/ a \in Configured /\ bare' = bare \ {a}
       \/ a \in Beaconing /\ bare' = bare \union {a}
    /\ Become(Now)

\* Bug: the peer of a packet that authenticates nobody is kept.
afterReceiveKeeps(st, a) == st

\* The end of MultiInterface's receiveMessage.
afterReceive(st, a) == IF st.peer[a].state = UNAUTHENTICATED THEN freePeers(st, {a}) ELSE st

\* A packet that CryptoAuth drops.
receiveDropped(a) ==
    /\ MayReceive(a)
    /\ Become(afterReceive(PeerFor(a), a))
    /\ UNCHANGED bare

\* The switch takes a packet of this peer, unless the scan has freed it.  A call through
\* the interface of a peer without a slot ends the process and is no step.
forward(st, a) ==
    /\ st.peer[a] # None => st.slot[a] # None
    /\ Become(st)

\* A packet of a handshake, before the session stands: it is for this router and the
\* sender is pinged, with every other peer that is due, or it is dropped.
receiveHandshake(a) ==
    /\ MayReceive(a)
    /\ PeerFor(a).peer[a].state < ESTABLISHED
    /\ LET st == [PeerFor(a) EXCEPT !.peer[a].key = KeyAt[a], !.peer[a].state = HANDSHAKE]
       IN  Become(st) \/ forward(pingCallback(st), a)
    /\ UNCHANGED bare

\* The packet that completes the handshake; swapping with a peer that has no slot ends the process.
receiveFirst(a) ==
    /\ Live(a) /\ peer[a].state < ESTABLISHED
    /\ sameKey(Now, a) # {} => slot[firstOther(Now, a)] # None
    /\ slot[a] # None
    /\ forward([moveEndpointIfNeeded(Now, a) EXCEPT !.peer[a].state = ESTABLISHED], a)
    /\ UNCHANGED bare

\* Any later packet.  The one that ends UNRESPONSIVE leaves the time as it was.
receiveLater(a, established) ==
    /\ Live(a) /\ peer[a].state >= ESTABLISHED
    /\ forward(IF peer[a].state = UNRESPONSIVE /\ established
               THEN [Now EXCEPT !.peer[a].state = ESTABLISHED]
               ELSE [Now EXCEPT !.peer[a].age = 0], a)
    /\ UNCHANGED bare

\* The interval timer.
pingInterval ==
    /\ pingCount' = (pingCount + 1) % PingSkip
    /\ \E st \in {pingCallback(Now)} : Become(st)
    /\ UNCHANGED bare

Elapse ==
    /\ UNCHANGED <<peerMap, slot, pingCount, bare>>
    /\ peer' = [a \in Addr |-> IF Live(a) THEN [peer[a] EXCEPT !.age = Min({@ + 1, MaxAge})]
                              ELSE None]

Next ==
    \/ \E a \in Addr :
          \/ beginConnection(a)
          \/ handleBeacon(a)
          \/ refuseKey(a)
          \/ receiveHandshake(a)
          \/ receiveDropped(a)
          \/ receiveFirst(a)
          \/ \E established \in BOOLEAN : receiveLater(a, established)
    \/ pingInterval
    \/ Elapse

\* Timers run and time passes; nothing is assumed of other nodes.
Fairness ==
    /\ WF_vars(pingInterval)
    /\ WF_vars(Elapse)

Spec == Init /\ [][Next]_vars /\ Fairness

-----------------------------------------------------------------------------

TypeOK ==
    /\ peer \in [Addr -> Peer \union {None}]
    /\ slot \in [Addr -> Slot \union {None}]
    /\ pingCount \in 0..PingSkip - 1
    /\ bare \subseteq Beaconing

\* The label a peer is pinged by is that of the slot it is in, and no two peers share a
\* slot, however often peers were merged, freed and registered again in between.
LabelIsSlot ==
    \A a \in Addr :
        /\ Live(a) => peer[a].label = slot[a]
        /\ slot[a] # None => Live(a) /\ \A b \in Addr : slot[b] = slot[a] => b = a

\* closeInterface finds by its handle the peer that is freed (its assertion at
\* DefaultInterfaceController.c:328), although entries move when others are removed.
MapFindsPeer ==
    /\ \A a \in Addr : Live(a) =>
          LET i == indexForHandle(peer[a].handle, peerMap)
          IN  i \in 1..count(peerMap) /\ peerMap.entries[i].key = a
    /\ count(peerMap) = Cardinality({a \in Addr : Live(a)})

\* Nothing is kept of a sender that did not authenticate (DefaultInterfaceController.c:75).
StrangersLeaveNothing == \A a \in Addr : Live(a) => peer[a].state # UNAUTHENTICATED

\* Two peers that both have a session have different keys: "If a peer is registered and
\* it turns out to have the same cryptographic key as an existing peer, the existing one
\* will be freed by the IC and the new one will take it's place"
\* (interface/InterfaceController.h:53).
OneEndpointPerKey ==
    \A a, b \in Addr :
        /\ Live(a) /\ Live(b) /\ a # b
        /\ peer[a].state = ESTABLISHED /\ peer[b].state = ESTABLISHED
        => peer[a].key # peer[b].key

\* A transient peer that sends nothing is dropped, and so is one that never got a slot.
SilentTransientGoes ==
    \A a \in Addr : []<>(~Live(a) \/ ~peer[a].transient \/ peer[a].age = 0)

\* A peer that sends nothing is found unresponsive, also if most scans skip it.
SilentIsUnresponsive ==
    \A a \in Addr : []<>(Live(a) => peer[a].state = UNRESPONSIVE \/ peer[a].age <= UnresponsiveAfter)

=============================================================================
