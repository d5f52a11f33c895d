# Verification of the cjdns core

TLA+ models of the core of the network daemon in `src/include/cjdns`, the TLC
configurations that check them, and TLAPS proofs about them. Paths below are
relative to `src/include/cjdns` unless they begin with `src/`.

## The system

The repository is an overlay: a few installation scripts and notes
(`src/INSTALL.py`, `src/doc`), a vendored chat server (`src/include/psyced`), and
cjdns, a routing daemon for an encrypted IPv6 mesh, which is where the behaviour
is. cjdns is one process with one libuv event loop. There are no threads:
everything hard comes from packets (lost, duplicated, late, reordered), timers,
nested calls through the `Interface` callbacks, and memory that is freed by
allocator while something still points to it.

A packet from the wire goes UDP/ETH interface -> MultiInterface ->
DefaultInterfaceController -> CryptoAuth (peer session) -> SwitchCore -> another
peer, or slot 1, the router: Ducttape -> SessionManager -> CryptoAuth (end-to-end
session) -> TUN device, IpTunnel or the DHT.

| Component | State | Operations | What makes it correct | Hard because of |
|---|---|---|---|---|
| ReplayProtector | offset and 32 bit field | check and file a nonce, clear | a nonce passes at most once; nothing inside the window is refused wrongly | shifts at the width, jumps of the window |
| CryptoAuth | per wrapper: her key, secret, tempKey, nextNonce, role, window, buffered message, user, time of last packet | send, receive, getState, reset, wrap, setAuth; addUser, removeUsers | no data packet twice; no nonce twice with one secret; roles opposed; secret of two temporary keys; a user where one is required; packets of the session pass | loss, duplication, crossing handshakes, inactivity reset, a recreated end, state kept over a reset |
| SwitchCore | array of slots, count, router flag | add, remove (on free), swap, set router; forward by label; send error | slots and interfaces agree; slot 1 is the router's; full array is refused; reverse label leads back | any order of add/free/swap; count never goes down; bit arithmetic |
| NumberCompress, LabelSplicer | none | encode and decode a slot number, splice, compare labels | a label leads to the node it is stored for and back; labels tell who is behind whom | three schemes in one network, boundary values |
| DefaultInterfaceController | map of peers: state, label, time of last message | register, receive, send, ping timer, merge of endpoints, close | label, slot and map agree; one endpoint per node; silent peers are found out | free inside loops and callbacks, timers |
| MultiInterface, Map | map from address to peer, handles | find or create, free when unauthenticated | index and handle stay valid | positions move on removal |
| Pinger, SwitchPinger | slots of pings, last incoming label/version | new ping, pong, timeout | each ping completes once, by its own pong or its timeout | late pong in a reused slot, all slots taken |
| MallocAllocator | tree, onFree jobs, space left | child, allocate, free, onFree, notOnFree | jobs run once, space adds up | jobs that touch other allocators |
| SessionManager | map from address to session | getSession, by handle, cleanup | a handle finds its session or none | array moves, time |
| Ducttape | per-packet context fields | layers of encryption both ways | a packet is sent with its own hop and session | fields left from an earlier packet |
| RouterModule, NodeStore, SearchStore, Janitor, AverageRoller | node table, searches, pings, average response time | search step, timeout, reply, add, evict | every search ends; replies reach their own search; bounded requests | reply racing timeout, slots reused |
| IpTunnel | list of connections | allow, connect, remove, messages | right connection for a packet | array order |
| AuthorizedPasswords, Admin, Configurator, Angel, interfaces, encodings | - | requests, start-up, system calls, parsing | - | not core logic |

`PROJECT.json` lists every component with its status and every hazard at its line.

## Modules

| Module | Models |
|---|---|
| `ReplayProtector` | `crypto/ReplayProtector.h` as operators on its struct; `Window` and `Width` are 20 and 32 in the code |
| `ReplayWindow` | abstract: a set of accepted nonces, no bitfield |
| `ReplayFilter` | one session's calls of `ReplayProtector_checkNonce` and its resets; implements `ReplayWindow` |
| `CryptoAuth` | `crypto/CryptoAuth.c`: two wrappers and the network between them |
| `SwitchSlots` | abstract: every interface has a slot of its own or none |
| `SwitchCore` | the array of slots of `switch/SwitchCore.c`; implements `SwitchSlots` |
| `PingContract` | abstract: each accepted ping gets one response, OK only for its own pong |
| `SwitchPinger` | `net/SwitchPinger.c` and `util/Pinger.c`; implements `PingContract` |
| `Map` | `util/Map.h` as operators |
| `Peers` | `net/DefaultInterfaceController.c`, `interface/MultiInterface.c` and the callers that begin connections, over `Map` and `SwitchSlots` |
| `NumberCompress` | `switch/NumberCompress.h`, the three schemes, as operators on bits |
| `Labels` | forwarding of `switch/SwitchCore.c`, `switch/LabelSplicer.h`, and what `RouterModule.c`, `NodeStore.c` and `Ducttape.c` do with labels, over `NumberCompress` |
| `Search` | `dht/dhtcore/SearchStore.c`, the searches of `RouterModule.c`, the reach of nodes in `NodeStore.c` |
| `MC*` | values of the constants for TLC |
| `*Proofs` | theorems, one module per component |

How they compose: `Peers` takes its slots from `SwitchSlots`, which `SwitchCore` is shown to
implement. `Labels` joins the codes of `NumberCompress`, the switch and the tables of the
routers. `CryptoAuth` appears in `Peers` by its outcome only: a packet is dropped, or passed
up with the session established or not. What the callers of `SwitchPinger` may rely on is
`PingContract`.

### ReplayProtector, ReplayFilter

The bitfield is the set of its 1 bits, so that `>>` is a subtraction; a shift by
the width or more is undefined in C and modelled as the shift by nothing that a
processor with a 5 bit count performs. `FileNonce` is the whole function,
`NonceIsNew` its result. `accepted` and `verdict` in `ReplayFilter` are history
variables.

### CryptoAuth

Each C function is an operator from a wrapper to a record of the wrapper it
leaves, the packets it sends and whether it calls the upper layer. An action is
therefore one whole call: `Receive` includes the buffered message sent from
inside `decryptHandshake` and the reset after a failed final step, `Send`
includes the timeout check of `CryptoAuth_getState`.

* Cryptography is symbolic. A key pair is one term; `getSharedSecret` of two keys
  of the system is the unordered pair with the password, of anything else `Junk`,
  a secret nobody can open. A packet opens only with the secret, and for data the
  half of the nonce (`isInitiator`), it was sealed with.
* `Random_bytes` gives a key that occurs nowhere in the state, the lowest one.
* The network is a set from which nothing is removed: a packet may arrive any
  number of times, in any order, or never.
* Time is one flag, `idle`: `resetAfterInactivitySeconds` have passed. It is set by
  `Inactivity` and read by `refresh`.
* `Rewrap` is the upper layer forgetting the wrapper and making a new one
  (peer freed and registered again, session dropped and created again).
* `LearnKey` is SessionManager giving a key to a session without one.
* Data packets are shorter than a handshake header, so that one which reaches
  `decryptHandshake` is dropped as a runt; a longer one would fail decryption.
* Contents of handshake packets may be passed up again when a packet is repeated;
  the code leaves that to the upper layer (`net/DefaultInterfaceController.c:258`).
  `DataOnce` is about data packets.
* The list of authorized users is a constant; wrappers without
  `authenticatePackets` do not occur in the program.

### SwitchCore

A slot is the interface it points to. `onFree` is the set of slots that freeing an
interface's allocator clears. The memory behind the array is part of the model,
because the code can write there: its first word is `interfaceCount` itself,
which is not zero by then, the rest is anything.

### SwitchPinger

A slot holds a ping or nothing. Packets that were sent stay under way for ever, and so do
answers to an earlier process, which the initial states have: nothing tells them apart but
slot, data and label. `responses` and `heard` are history. The label of the last packet,
`incomingLabel`, is a field of the context in the code; it is set by every packet before it
is read, and after a timeout the callers look at the result first.

### Peers

A peer is named by its address. Each function is an operator on a record of the whole
state, so that an action is one packet, one timer or one call with everything it frees on
the way.

* Ages are ticks up to one past `ForgetAfter`.
* The packet that completes a handshake, and the one that ends UNRESPONSIVE, do not refresh
  the time, as in the code.
* A key whose address is not valid is refused before anything is registered (BAD_KEY,
  `net/DefaultInterfaceController.c:349`). `handleBeacon` only logs that
  (`interface/ETHInterface_Linux.c:175`), so that `MultiInterface` keeps a peer the controller
  does not know: `bare` has these. Its `receiveMessage` is NULL, and the next packet from that
  address ends the process; a later beacon with a valid key registers it.
* A call through the interface of a peer without a slot, a swap with one, and a packet from a
  bare peer end the process and are no step. A packet whose own peer is forgotten by the scan
  it starts (`net/DefaultInterfaceController.c:271`) ends there.
* Pings are not here. A scan pings the peers that are due, but a response tells the router of
  a node and changes nothing of a peer. It reads its peer through a pointer that is not
  cleared when the peer is freed (lines 157 to 165 and 219): what such a read yields is
  outside a model of this kind, so nothing is claimed about it (see hazards).
* `MultiInterface` has no module of its own: its find or create and its free are the two
  ends of each receive action.
* `Map` has the bisection and the removal as recursive functions on positions, so that
  they can be reasoned about.

### NumberCompress, Labels

A label is a sequence of `Width` bits, the least significant first, so that shifts are
`SubSeq` and concatenation. Nodes form a line; switches keep no state of a packet, so one
packet at a time is enough. A query is answered also when the node has nobody to tell of, by a
reply without nodes. Not there: the buffer and priority fields, capacity, reach and
versions of the node table. The branch for `1 == sourceIndex` (`switch/SwitchCore.c:208`)
cannot be taken, because the router's code is never the longer one.

### Search

* Requests stay under way for ever; a reply may come at any time, again, or never, with any
  of `Lists`. Durations are left open, so nothing depends on `AverageRoller`.
* A reach above 2 is kept as 3: `reachAfterTimeout` never takes it below, and the code
  compares it with 0, 1 and 2 only.
* `magic`, the random number in a transaction id, is fresh for every search.
* Each node has one path, and the order of two paths of the same length, which depends on
  places in the array, does not occur.
* A search that is refused changes nothing. The return value of the result callback, which
  `RouterModule.h:72` says ends a search, is not looked at by the code. No caller frees the
  allocator of a search to cancel it.
* Nodes enter the table by a reply, as a peer (`peerFound`) or by asking (`handleQuery`).
* The slots of router pings are not modelled: a pong or a timeout of one is an action on
  the reach of a node. Because the node is remembered by a pointer into an array that
  moves, the timeout may hit any node.

## Runs

| Run | Result | Shows |
|---|---|---|
| `replay` | passes, 106,497 states | with the code's numbers, all orders of 13 nonces chosen around 20, 32, 51/52 and 72, with resets: exact bitfield, no nonce twice, refinement of `ReplayWindow` |
| `peering` | passes, 431,741 states | a client with key and password (or none) and a server that requires a user, two faults: all safety properties |
| `session` | passes, 161,446 states | neither end knows a key: reverse handshake, buffered message, simultaneous hellos, one fault |
| `slots` | passes, 3,008 states | five peers, array of five, any order of calls; refinement of `SwitchSlots` |
| `pings` | passes, 215,399 states | four pings in two slots, from every set of earlier packets: refinement of `PingContract`, every ping completes |
| `peers` | passes, 204,256 states | four addresses of two nodes, two slots, four registrations, refused keys: labels, slots, map, silent peers |
| `labels` | passes, 266,816 states | all 256 lines of four switches of four kinds, two askers: delivery, return paths, errors, comparison of labels |
| `search` | passes, 63,445 states | two searches, two slots, three nodes, arrays of two: full stacks, replies that find the node asked, every search ends |
| `due` | violation | see findings |
| `delivered` | violation | see findings |
| `full` | violation | see findings |
| `merge` | violation | see findings |

Bounds. `MaxNet` packets on the network are enough for a full handshake and
several data packets each way (hello, key, data), and for the packets of an
earlier session to arrive in a later one. `MaxTemp = 2` key pairs in use per node let a
second session follow a first whose packets are still under way. `MaxFaults`
timeouts or recreated wrappers start these sessions. `NonceMod = 9` leaves data
nonces 4 to 8 before the counter wraps, where the code has 2^32. `Window = 1` makes
the window move within these nonces; the window itself is checked with the code's
numbers in `replay` and proved for all. In `slots` `MaxCount` is one less than the
array, so that the array fills and refuses but is not overrun; the overrun is `full`.
Symmetry in `MCSwitchCore` permutes peers, which no definition tells apart.
`slots` does not check for deadlock, because with the bound reached and every peer
freed nobody has a call left to make.

In `pings` two pings are alike, one goes to another label, one has other data: every verdict
and every confusion of a slot occurs; one more slot would only repeat this. In `peers` one
node has three addresses, so a merge may follow a merge, with fewer slots than addresses, so
the switch is full; one address is configured (not transient) and beacons too, one beacons,
two just send. `PingSkip = 2` stands for 8 and is enough for a scan that pings and one that
skips. With `MaxHandle = 4` every address may register once, or some again after they were
freed.
In `labels` the ports of the four kinds of switch need codes of 4, 7, 8 and 10 bits and
include the special values 0, 15, 16, 33, 240 and 256; `Width = 28` holds every path of the
four nodes. With `Width = 20` the run fails (see hazards, `switch/LabelSplicer.h:63`):
`getLabelFor` shifts labels up without a check, which in 64 bits needs more than
eight nodes (`LabelsDoFit`). In `search` one request beyond the first is made (8 in the code),
enough for a search to end by its count, by an empty stack, by a timeout and by a reply, and
both arrays have two places (256 in the code), so that a reply fills the stack of a search
that goes on.
`pings` does not check for deadlock: when every ping has completed nobody makes another.

Fairness. Only timers are fair, because the libuv loop runs every timer that is due: the
timeouts of pings (`SwitchPinger`), the scan and the clock (`Peers`), and the
timeout of a search (`Search`). Each is weak fairness of one action per slot or timer.
Nothing is assumed of the network or of other nodes: no packet, pong or reply need come.
`CryptoAuth`, `SwitchCore` and `Labels` have no timers, and are checked for safety only.

### What the properties say

* `NonceOnce`: the counter, the role and the secret never meet in a combination
  that was used before, over handshakes, resets and the wrap of the counter.
* `RolesOpposed`: of two ends established on one secret exactly one is initiator.
* `SessionKeyIsFinal`: an established end holds a secret of one temporary key of
  each end and no password.
* `HerTempKeyIsTemporary`: the repeated key packet that is computed from
  `wrapper->secret` (`crypto/CryptoAuth.c:465`) is never accepted when that field
  held something else than a temporary key.
* `SessionHasUser`: a wrapper with `requireAuth` is past the hello only with an
  authorized user.
* `DataOnce`: a packet passed up would not be passed up now.
* `DueDataAccepted`: a packet of the current session, new and inside the window,
  is passed up. It holds for a peering, where nothing is buffered, and fails with a
  buffered message.
* `SlotsAgree`, `RouterIsAtOne`: slots and interfaces point at each other, every allocator
  clears exactly its own slot, and slot 1 is the router's, in any order of add, free, swap.
* `WaitsOnce`, `EveryPingCompletes`: a ping is in one slot until its only response, which
  comes, if only as a timeout.
* `LabelIsSlot`: after any merges and registrations a peer's label is that of its slot.
* `MapFindsPeer`: the bisection by handle finds every live peer and no other.
* `StrangersLeaveNothing`: no peer of the controller outlives its packet without having
  authenticated.
* `SilentTransientGoes`, `SilentIsUnresponsive`: whatever the loop skips when it frees, a
  silent peer is marked, and dropped if transient.
* `QueryEndsAtNode`, `AnswersComeBack`, `EveryHopIsNearer`: packets on labels of the table
  arrive, their replies and errors come back, bit for bit on the label used, and no hop
  leads away.
* `LabelsTellTopology`: `LabelSplicer_routesThrough` and `LabelSplicer_isOneHop` decide from
  labels what is so in the network.
* `ReplyFindsNode`, `EverySearchEnds`: a late or repeated reply is matched to the very node
  that was asked, in the search that asked it, and nothing replies do to the timer of a search
  keeps it from ending. `TypeOK` of `Search`: neither they nor full stacks take a search past
  its arrays.

### Findings

* `due`: the early return at `crypto/CryptoAuth.c:817`, after the buffered message
  was sent, skips the reset of the replay window at 822. The new session's first
  data packet is then refused as a replay.
* `delivered`: `nextNonce += 3` at `crypto/CryptoAuth.c:861` is meant to make the
  session ESTABLISHED before the upper layer sees the packet. After a reset, which
  keeps the temporary keys, a late packet makes it HANDSHAKE2.
* `full`: `interfaceCount` is never decremented and compared with `==`
  (`switch/SwitchCore.c:317`); when peers come and go it passes the length of the
  array and the next peer is written behind it.
* `merge`: a scan marks a peer UNRESPONSIVE also in its handshake
  (`net/DefaultInterfaceController.c:204`). The handshake then completes by line 277, which
  does not look for an older endpoint of the same key, so that one node has two established
  peers in two slots. `interface/InterfaceController.h:53` says the older one is freed.
* Without a run: the whitepaper gives the window as 32 slots
  (`rfcs/Whitepaper.md:623`), code and its comment as 20
  (`crypto/ReplayProtector.h:32`); the code is what is modelled.
* Without a run: a search sends one request more than `MAX_REQUESTS_PER_SEARCH`, "the maximum
  number of requests to make before calling a search failed"
  (`dht/dhtcore/RouterModule.c:178`). `RouterModule_beginSearch` sends the first request and
  leaves `totalRequests`, "the number of requests which have been sent out so far" (line 467),
  at 0; each step counts its own and ends the search when 8 are counted, so that 9 are sent.
  `Search` has the same count, and no property that hides it: the lists of `search` hold two
  nodes asked with `MAX_REQUESTS = 1`.
* Without a run: `SearchStore_getNextNode` is said to give "the last node to be added to the
  search which has not been sent a request yet" (`dht/dhtcore/SearchStore.h:153`). Only
  `SearchStore_addNodeToSearch` looks at the nodes that were asked
  (`dht/dhtcore/SearchStore.c:147`), so a node that is on the stack twice is asked twice. With
  three places and `MAX_REQUESTS = 2` TLC finds it: two entries of one reply lead to the same
  better node, which is pushed for each.

## Proofs

| Theorem | States |
|---|---|
| `ReplayFilterProofs!BitfieldExact` | `Spec => []` of the type invariant, `WindowEndsAtHighest` and `BitfieldIsExact` |
| `ReplayFilterProofs!NonceAcceptedOnce` | `Spec => NoNonceTwice` |
| `ReplayFilterProofs!Refinement` | `Spec => ImplementsWindow`, the refinement of `ReplayWindow` |
| `CryptoAuthProofs!TypeCorrect` | `Spec => []TypeOK` |
| `CryptoAuthProofs!DataPassedUpOnce` | `Spec => []DataOnce` |
| `ReplayFilterProofs!TypeCorrect`, `WindowAtHighest` | `Spec => []TypeOK`, `Spec => []WindowEndsAtHighest` |
| `CryptoAuthProofs!HerKeyTemporary` | `Spec => []HerTempKeyIsTemporary` |
| `CryptoAuthProofs!SessionKeyFinal` | `Spec => []SessionKeyIsFinal` |
| `CryptoAuthProofs!SessionUser` | `Spec => []SessionHasUser` |
| `CryptoAuthProofs!OpposedRoles` | `Spec => []RolesOpposed` |
| `CryptoAuthProofs!NonceUsedOnce` | `Spec => []NonceOnce` |
| `CryptoAuthProofs!DueIsAccepted` | `NothingBuffered => (Spec => []DueDataAccepted)` |
| `SwitchPingerProofs!TypeCorrect` | `Spec => []TypeOK` |
| `SwitchPingerProofs!PingsWaitOnce` | `Spec => [](TypeOK /\ WaitsOnce)` |
| `SwitchPingerProofs!Refinement` | `Spec => ImplementsContract`, the refinement of `PingContract` |
| `SwitchCoreProofs!TypeCorrect` | `Spec => []TypeOK` |
| `SwitchCoreProofs!Refinement` | `Spec => ImplementsSwitchSlots`, the refinement of `SwitchSlots` |
| `SwitchCoreProofs!SlotsAlwaysAgree` | `Spec => []SlotsAgree` |
| `SwitchCoreProofs!RouterAlwaysAtOne` | `Spec => []RouterIsAtOne` |
| `PeersProofs!TypeCorrect` | `Spec => []TypeOK` |
| `PeersProofs!LabelOfSlot` | `Spec => []LabelIsSlot` |
| `PeersProofs!NoStrangers` | `Spec => []StrangersLeaveNothing` |
| `PeersProofs!MapAgrees` | `Spec => []MapFindsPeer` |
| `SearchProofs!ArraysHold` | `Spec => []TypeOK`: stack and list stay inside their arrays |
| `SearchProofs!FindsNode` | `Spec => []ReplyFindsNode`: a reply that `SearchStore_getNode` accepts is from the node asked at its index |
| `LabelsProofs!LabelsHaveTypes` | `LabelsFit => (Spec => []TypeOK)` |
| `LabelsProofs!LabelsLead` | `LabelsFit => (Spec => []QueryEndsAtNode)` |
| `LabelsProofs!LabelsLeadBack` | `LabelsFit => (Spec => []AnswersComeBack)` |
| `LabelsProofs!LabelsTell` | `LabelsFit => (Spec => []LabelsTellTopology)` |
| `LabelsProofs!HopsAreNearer` | `LabelsFit => (Spec => EveryHopIsNearer)` |
| `LabelsProofs!LabelsDoFit` | `(\A l \in Lines : Short(l) \/ Even(l)) => LabelsFit` |

Assumptions are those of the modules: the window is smaller than the width, there
are two nodes, the special values are not members of the sets they are special
to, the array has more than two slots; `RequireAuth` names nodes; addresses and nodes are
finite in number; paths are sequences of hops, no two of one length; the sizes of `Search`
are numbers and its list of asked nodes is longer than the requests a search may count (as
`SearchStore_SEARCH_NODES`, 256, and `MAX_REQUESTS_PER_SEARCH`, 8, are); a label has more than
14 bits, each port of a line is a slot that its switch has and not the router's, and the
askers are on the line. TLC evaluates all of them in the runs.
Some theorems have a hypothesis of their own: `NothingBuffered`, which the
constants of `peering` satisfy; and `LabelsFit`, of which `LabelsDoFit` says where it holds.

*Replay window.* The three checked invariants are inductive together. A bit above
`Window` would break exactness at the next shift, hence the first conjunct of
`BitfieldIsExact`; when the window slides by at most the width minus one the shift
drops exactly the nonces that fall out of it, and beyond that no accepted nonce is
left inside. `ReplayProtectorProofs` adds what a session needs: a refused nonce
stays refused, whatever is filed later, and a filed one is refused.

*DataOnce.* It is not inductive: nothing in it says why a packet heard earlier does
not open after a reset has cleared the window. `IInv` adds three parts. An
established wrapper holds a session secret and no temporary key
(`EstablishedHoldsSecret`). No temporary key a wrapper still holds is part of a
secret it was ever spoken to with (`HeardKeysAreSpent`), because the packet that is
heard replaces the key by the secret, and fresh keys are not in use. While it
holds such a secret, its window has filed every nonce heard with it
(`HeardNoncesAreFiled`): only a reset clears the window, which leaves the
established state, and the final step would have to form the secret again from a
key that is spent.

*Slots.* `SlotsAgree` needs that the index taken when nothing is vacant is not in
use (`UsedBelowFirst`): every peer's slot is below the first index the code tries.
That holds although the count is patched around slot 1, because the router adds
one to the count exactly when it removes the patch (`RouterCountKept`). The least
vacant slot exists because `<` is well founded on the naturals.

*Refinement of the slots.* The mapping sends an interface to the slot that points to it.
By `SlotsAgree` there is at most one, so that an added interface's slot was vacant, a freed
one's is cleared and a swap exchanges exactly two.

*Refinement of the pings.* The waiting pings are those in slots. `WaitsOnce` makes the step
that empties a slot take exactly one ping out of them, and a ping that is accepted is new.
That at most `MaxConcurrentPings` wait needs a count: the waiting pings are the image of the
slots, and a free slot leaves room for one more.

*Keys, roles and users.* None of the five invariants is
inductive: all of them depend on what may be on the network, where nothing is ever lost for
good. `Sound` has two parts. `KeyInv` says which keys each end and each packet may hold: a
key packet carries a temporary key of its sender, or is sealed so that the other end will
never open it (that is why a key packet that was recomputed from a session's secret does no
harm), and a key that a node has used in a session is never its key again. `RoleInv` says how
an end came to its role: for one secret only one end can lead, the one whose key was answered
with a key packet; the other one speaks only after it has heard the first. `HasRole` adds that
an end has counted all it sent under its present secret. Each function of `CryptoAuth.c` is
first shown to be one of seven moves (nothing changes, a hello, a key, the final step, ...),
and each move to preserve `Sound`; an action is then a move or two.

*Data that is due.* `DueDataAccepted` is false in general, as the run `due` shows: a buffered
message keeps the window of the previous session. `NothingBuffered` says that each node is given
the other's key or requires authentication, as the two ends of a peering do; then no wrapper
ever sends without a key, which is the only way to buffer. `FitInv`, on top of `Sound`, says
what each window may hold (`Fitting`): in an established session only nonces heard in that
session (`Exact`), and before that nothing, as long as the wrapper has a pair of keys that data
could be opened with. Without such a pair the window need not be empty: when the counter
wraps, or a late packet is heard after a reset, it stays filled until the next hello or key
is taken. That a nonce in the window is that of the very packet,
and not of another one, needs that no two data packets of a node have one secret and nonce
(`OnePerNonce`), which follows from `Sound`. TLC checked `FitInv` with the constants of
`peering` first.

*Peers.* `Good` is an invariant of a record of the whole state, because one action runs
through several operators (a handshake may register, merge, scan and free). It takes a set of
addresses that are exempt, for the states in the middle of a merge. Its parts: the shape of
the fields, each peer's key is the one at its address, slot and label agree and no two peers
share one, the handles in the map are the peers' and increase with position. That `Map_remove`
keeps the order, and that bisection of sorted handles ends at the right position, is shown for
every length by a least counterexample: the first position at which the recursive function
would go wrong.

*Searches.* `IInv` has the bounds of each search (`Searches`) and, for requests, that one
whose magic is that of the search in its slot has an index below the nodes asked, and the node
there is the one it went to (`Answerable`): asked nodes are only ever appended, and a new
search has a new magic. A search never overruns its arrays because every push goes through
`SearchStore_addNodeToSearch`, which overwrites the top of a full stack, and because the count
of requests, which is one behind the list, ends it when the list is full at the latest. The
loops over nodes and entries are functions on positions: `Iterate` shows that they have
values, `Stays` that what each step keeps is kept to the end.

*Labels.* For a line of any length and any mix of the three schemes. None of the four
invariants is inductive; what is, is which bits every label has. A label from one node to
another is determined by the line (`Path`): the code of the first port in some width, then for
each switch between them the code of its port onwards, in the wider of the widths its two
ports need, then the end mark and zeros. Every label of a table is a `Path` with the first
port as narrow as it goes (`Kept`), and every packet's label is, at each switch, the unread
rest of a `Path` followed by the reversed codes of the ports it came in by (`Going`, `Coming`,
`Turned` for the reply before its first hop). The first part of the proof is about codes: each
scheme reads back what it wrote, in the width it was written in, and the code of a source
that is padded to the width of the code it replaces is read backwards with just that width.
The second is about the operators on bits: what is at each place after a splice, a shift and
a reversal; `log2` and `greater` are places of highest bits, which exist because `<` is well
founded. The third composes them: one hop forward and one hop back keep `Forward`, the
splice of `Path`s is a `Path`, `getLabelFor` narrows or widens the first port of one.

The lengths of labels are sums over the switches of a line (`before`), a recursive function
of positions; that it has a value everywhere, and is additive, is shown by a least
counterexample. TLC checked `IInv` on lines of four nodes with 28 bits and of five with 16.

`LabelsFit` is needed because `LabelSplicer_splice` leaves no more than three bits free, while
`LabelSplicer_getLabelFor` may make the first code longer by up to six and shifts the end mark
out without a check. It says that a label which fits with the first port written as short
as possible still fits with it written as its longer port. `LabelsDoFit`: this holds for
lines of up to eight nodes, of any kinds, with the 64 bits of the code (and in the run, four
nodes and 28 bits), and for lines of any length whose inner switches need as many bits for
one port as for the other, which is so with both schemes of a fixed width.

Only model-checked:
* `EveryPingCompletes`, `SilentTransientGoes`, `SilentIsUnresponsive`, `EverySearchEnds`:
  liveness and `ENABLED` are beyond the prover.
* `DueDataAccepted` where a message may be buffered does not hold (run `due`).
* `OneEndpointPerKey` and the other properties of the violation runs do not hold.

## Plan

1. Proofs: action properties of `Peers` and `CryptoAuth` from the invariants there are; labels
   of a network that is not a line.
2. The slots of router pings in `Search`, with the array of nodes they point into.
3. `SessionManager` over `Map`, with the fields of Ducttape's context that keep pointers into
   it.

## Not modelled

* **`src/include/psyced`**, the vendored chat server and its LPC driver, nearly all of the
  repository's source lines (an interpreter, a compiler, PCRE, malloc). It is third-party
  code that the daemon neither links nor calls. The share of the repository's lines that the
  models cover is small for this reason alone; the models are of the daemon.
* Administration, configuration, start-up, network devices, encodings: system calls,
  parsing and formatting. Their effect on the models is a network that loses, repeats and
  reorders, and callers that may call at any time.
* `Ducttape`'s layers for data packets and `SessionManager`'s map: what can go wrong in them
  is a pointer or a field used after something else has changed it inside one call, which
  needs a model of the memory of one call and not of several actors.
* `MallocAllocator`: its jobs on free appear in the actions that free. Its accounting is not
  modelled.
* `CryptoAuth_addUser`, `CryptoAuth_removeUsers`, `IpTunnel`, `AverageRoller`, `VersionList`:
  array code and arithmetic of one process with no step of another in between; unit tests
  reach it.
* Liveness of a handshake: whether two ends agree depends on what their users send and on
  the network, for which the code justifies no fairness.
