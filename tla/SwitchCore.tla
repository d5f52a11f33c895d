----------------------------- MODULE SwitchCore -----------------------------
(***************************************************************************)
(* The interface slots of switch/SwitchCore.c: adding, removing and        *)
(* swapping the interfaces of peers, and the router's slot.                *)
(*                                                                         *)
(* interfaces is the array of struct SwitchInterface and the memory behind *)
(* it, because SwitchCore_addInterface indexes it by a counter that is     *)
(* never decremented.  Of a slot only its iface field is kept.             *)
(***************************************************************************)
EXTENDS Integers, FiniteSets

CONSTANTS
    Iface,       \* the switch interfaces of peers
    Router,      \* the interface given to SwitchCore_setRouterInterface
    None,        \* NULL
    Foreign,     \* memory behind the array that does not read as NULL
    Interfaces,  \* NumberCompress_INTERFACES, the length of the array
    MaxCount     \* bound: calls of SwitchCore_addInterface

ASSUME IfaceAssumption ==
    /\ Router \notin Iface /\ None \notin Iface \union {Router}
    /\ Foreign \notin Iface \union {Router, None}
ASSUME SizeAssumption ==
    Interfaces \in Nat /\ Interfaces > 2 /\ MaxCount \in Nat

VARIABLES
    interfaces,      \* [slot -> iface]
    interfaceCount,
    routerAdded,
    receiverContext, \* [Iface -> the slot it was given, or -1]
    onFree           \* [Iface -> slots to clear when its allocator is freed]

vars == <<interfaces, interfaceCount, routerAdded, receiverContext, onFree>>

RouterSlot == 1
Slots == 0..Interfaces - 1
Memory == 0..Interfaces + MaxCount + 1

Registered(iface) == receiverContext[iface] # -1

\* The word behind the array is interfaceCount itself, which is not 0 by then.
Init ==
    /\ interfaces \in [Memory -> {None, Foreign}]
    /\ \A i \in Memory : i \in Slots => interfaces[i] = None
    /\ interfaces[Interfaces] = Foreign
    /\ interfaceCount = 0
    /\ routerAdded = FALSE
    /\ receiverContext = [iface \in Iface |-> -1]
    /\ onFree = [iface \in Iface |-> {}]

\* Bug: the index is moved before the router's slot whatever the count.
firstIndexAlwaysBefore ==
    IF interfaceCount > 0 /\ ~routerAdded THEN interfaceCount + 1 ELSE interfaceCount - 1

\* The first index tried: the count, moved past or before the router's slot.
firstIndex ==
    IF interfaceCount > 0 /\ ~routerAdded THEN interfaceCount + 1
    ELSE IF interfaceCount = 1 THEN 0
    ELSE interfaceCount

\* Bug: the router's slot counts as vacant.
vacantAnywhere == {i \in 0..firstIndex - 1 : interfaces[i] = None}

\* Slots below the first index that another interface has left.
vacant == {i \in 0..firstIndex - 1 : interfaces[i] = None /\ i # RouterSlot}

\* The index SwitchCore_addInterface settles on: the lowest vacant one.
ifIndex ==
    IF vacant = {} THEN firstIndex
    ELSE CHOOSE i \in vacant : \A j \in vacant : i <= j

\* SwitchCore_addInterface, and its OUT_OF_SPACE return.
addInterface(iface) ==
    /\ ~Registered(iface)
    /\ interfaceCount <= MaxCount
    /\ ifIndex # Interfaces
    /\ interfaces' = [interfaces EXCEPT ![ifIndex] = iface]
    /\ receiverContext' = [receiverContext EXCEPT ![iface] = ifIndex]
    /\ onFree' = [onFree EXCEPT ![iface] = @ \union {ifIndex}]
    /\ interfaceCount' = interfaceCount + 1
    /\ UNCHANGED routerAdded

addInterfaceOutOfSpace(iface) ==
    /\ ~Registered(iface)
    /\ ifIndex = Interfaces
    /\ UNCHANGED vars

\* The allocator of a peer is freed: removeInterface runs for its slots.
freeInterface(iface) ==
    /\ Registered(iface)
    /\ interfaces' = [i \in Memory |-> IF i \in onFree[iface] THEN None ELSE interfaces[i]]
    /\ receiverContext' = [receiverContext EXCEPT ![iface] = -1]
    /\ onFree' = [onFree EXCEPT ![iface] = {}]
    /\ UNCHANGED <<interfaceCount, routerAdded>>

\* Bug: the removal jobs stay with the old slots.
swapInterfacesKeepJobs(if1, if2) ==
    LET si1 == receiverContext[if1]
        si2 == receiverContext[if2]
    IN  /\ if1 # if2 /\ Registered(if1) /\ Registered(if2)
        /\ interfaces' = [interfaces EXCEPT ![si1] = if2, ![si2] = if1]
        /\ receiverContext' = [receiverContext EXCEPT ![if1] = si2, ![if2] = si1]
        /\ UNCHANGED <<onFree, interfaceCount, routerAdded>>

\* SwitchCore_swapInterfaces: the slots trade their contents and the removal jobs
\* are taken from one allocator to the other.
swapInterfaces(if1, if2) ==
    LET si1 == receiverContext[if1]
        si2 == receiverContext[if2]
    IN  /\ if1 # if2 /\ Registered(if1) /\ Registered(if2)
        /\ interfaces' = [interfaces EXCEPT ![si1] = interfaces[si2], ![si2] = interfaces[si1]]
        /\ onFree' = [onFree EXCEPT ![if1] = (@ \ {si1}) \union {si2},
                                    ![if2] = (@ \ {si2}) \union {si1}]
        /\ receiverContext' = [receiverContext EXCEPT ![if1] = si2, ![if2] = si1]
        /\ UNCHANGED <<interfaceCount, routerAdded>>

\* SwitchCore_setRouterInterface, called once by Ducttape_register.
setRouterInterface ==
    /\ ~routerAdded
    /\ interfaces' = [interfaces EXCEPT ![RouterSlot] = Router]
    /\ interfaceCount' = interfaceCount + 1
    /\ routerAdded' = TRUE
    /\ UNCHANGED <<receiverContext, onFree>>

Next ==
    \/ setRouterInterface
    \/ \E iface \in Iface :
          \/ addInterface(iface)
          \/ addInterfaceOutOfSpace(iface)
          \/ freeInterface(iface)
    \/ \E if1, if2 \in Iface : swapInterfaces(if1, if2)

Spec == Init /\ [][Next]_vars

-----------------------------------------------------------------------------

\* The index given to a peer is one of the array or of the memory right behind it.
TypeOK ==
    /\ interfaces \in [Memory -> Iface \union {Router, None, Foreign}]
    /\ interfaceCount \in 0..MaxCount + 2
    /\ routerAdded \in BOOLEAN
    /\ receiverContext \in [Iface -> Memory \union {-1}]
    /\ onFree \in [Iface -> SUBSET Memory]

\* A slot and the interface in it point at each other, and freeing the interface
\* clears that slot and no other, however often interfaces were added, freed and
\* swapped: no slot is left with an interface whose memory is gone.
SlotsAgree ==
    /\ \A iface \in Iface :
          IF Registered(iface)
          THEN interfaces[receiverContext[iface]] = iface /\ onFree[iface] = {receiverContext[iface]}
          ELSE onFree[iface] = {}
    /\ \A i \in Memory : interfaces[i] \in Iface => receiverContext[interfaces[i]] = i

\* Whether the router is added before or after peers, it gets slot 1 and keeps it, and
\* no peer is ever put there ("some hackery to make sure the router interface is always
\* index 1", switch/SwitchCore.c:301).
RouterIsAtOne ==
    /\ interfaces[RouterSlot] = IF routerAdded THEN Router ELSE None
    /\ \A i \in Memory : interfaces[i] = Router => i = RouterSlot

\* No peer is at or above the first index SwitchCore_addInterface would try, so what
\* it takes when nothing is vacant is not in use.
UsedBelowFirst == \A i \in Memory : interfaces[i] \in Iface => i < firstIndex

\* The router is counted once, on top of the peers.
RouterCountKept == IF routerAdded THEN interfaceCount > 0 ELSE interfaceCount <= MaxCount + 1

Promise == INSTANCE SwitchSlots WITH Slot <- Memory \ {RouterSlot}, None <- -1,
                                     slot <- receiverContext

\* Behind the array, the count that is never decremented and the removal jobs, the switch
\* does what its header promises: SwitchCore_addInterface gives a slot no other peer has
\* and that is not the router's, and only a free or a swap takes it away again.
ImplementsSwitchSlots == Promise!Spec

\* The inductive invariant.
IInv == TypeOK /\ RouterCountKept /\ UsedBelowFirst /\ SlotsAgree /\ RouterIsAtOne

\* The comment of SwitchCore_addInterface (switch/SwitchCore.c:294, "@return 0 if all
\* goes well, -1 if the list is full"): the call that finds no slot fails, and so it never writes behind the array.
AddStaysInArray == \A iface \in Iface : receiverContext[iface] \in Slots \union {-1}

=============================================================================
