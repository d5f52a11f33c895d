-------------------------- MODULE SwitchCoreProofs --------------------------
(***************************************************************************)
(* The slots of the switch agree with their interfaces, and slot 1 is the  *)
(* router's, for every number of peers, every size of the array and every  *)
(* order of calls.                                                         *)
(***************************************************************************)
EXTENDS SwitchCore, WellFoundedInduction, TLAPS

\* A set of naturals that is not empty has a least member.
LEMMA LeastNatural ==
    ASSUME NEW S \in SUBSET Nat, S # {}
    PROVE  \E i \in S : \A j \in S : i <= j
<1>1. PICK i \in S : \A j \in S : ~(<<j, i>> \in OpToRel(<, Nat))
    <2> HIDE DEF OpToRel
    <2> QED BY WFMin, NatLessThanWellFounded
<1>2. \A j \in S : ~(j < i)
    BY <1>1 DEF OpToRel
<1> QED BY <1>2

\* SwitchCore_addInterface settles on an index that is in memory, is not the router's
\* and is either vacant or the first index itself.
LEMMA IfIndexOK ==
    ASSUME TypeOK, interfaceCount <= MaxCount
    PROVE  /\ ifIndex \in Memory
           /\ ifIndex # RouterSlot
           /\ ifIndex <= firstIndex
           /\ ifIndex = firstIndex \/ interfaces[ifIndex] = None
           /\ firstIndex \in 0..MaxCount + 1
<1> USE SizeAssumption
<1>1. firstIndex \in 0..MaxCount + 1 /\ firstIndex # 1
    BY DEF firstIndex, TypeOK
<1>2. vacant \in SUBSET Nat
    BY <1>1 DEF vacant
<1>3. CASE vacant = {}
    BY <1>1, <1>3 DEF ifIndex, Memory, RouterSlot
<1>4. CASE vacant # {}
    <2>1. ifIndex \in vacant
        BY <1>2, <1>4, LeastNatural DEF ifIndex
    <2> QED BY <1>1, <2>1 DEF vacant, Memory
<1> QED BY <1>3, <1>4

\* Before any call every slot is NULL and nothing is registered.
LEMMA InitIInv == Init => IInv
<1> SUFFICES ASSUME Init PROVE IInv
    OBVIOUS
<1> USE SizeAssumption, IfaceAssumption
<1>1. TypeOK
    <2>1. interfaceCount \in 0..MaxCount + 2
        <3>1. interfaceCount = 0
            BY DEF Init
        <3> QED BY <3>1
    <2>4. routerAdded \in BOOLEAN
        BY Zenon DEF Init
    <2>2. interfaces \in [Memory -> Iface \union {Router, None, Foreign}]
        BY DEF Init
    <2>3. receiverContext \in [Iface -> Memory \union {-1}] /\ onFree \in [Iface -> SUBSET Memory]
        BY DEF Init
    <2> QED BY <2>1, <2>2, <2>3, <2>4 DEF TypeOK
<1>2. \A i \in Memory : interfaces[i] \in {None, Foreign}
    BY DEF Init
<1>3. RouterIsAtOne
    <2>1. 1 \in Slots /\ 1 \in Memory
        BY DEF Slots, Memory
    <2> QED BY <1>2, <2>1 DEF Init, RouterIsAtOne, RouterSlot
<1>4. SlotsAgree /\ UsedBelowFirst
    BY <1>2 DEF Init, SlotsAgree, UsedBelowFirst, Registered
<1>5. RouterCountKept
    BY DEF Init, RouterCountKept
<1> QED BY <1>1, <1>3, <1>4, <1>5 DEF IInv

\* A peer added to the switch takes a slot nobody points at.
LEMMA AddKeeps ==
    ASSUME IInv, NEW iface \in Iface, addInterface(iface)
    PROVE  IInv'
<1> USE SizeAssumption, IfaceAssumption
<1>0. TypeOK /\ interfaceCount <= MaxCount
    BY DEF IInv, addInterface
<1>1. /\ ifIndex \in Memory /\ ifIndex # RouterSlot /\ ifIndex <= firstIndex
      /\ ifIndex = firstIndex \/ interfaces[ifIndex] = None
      /\ firstIndex \in 0..MaxCount + 1
    BY <1>0, IfIndexOK
<1> DEFINE x == ifIndex
<1>2. /\ interfaces' = [interfaces EXCEPT ![x] = iface]
      /\ receiverContext' = [receiverContext EXCEPT ![iface] = x]
      /\ onFree' = [onFree EXCEPT ![iface] = @ \union {x}]
      /\ interfaceCount' = interfaceCount + 1
      /\ routerAdded' = routerAdded
      /\ receiverContext[iface] = -1
    BY DEF addInterface, Registered
<1>3. x \in Memory /\ x # RouterSlot /\ interfaces[x] \notin Iface /\ x <= firstIndex
    BY <1>1 DEF IInv, UsedBelowFirst
<1>4. firstIndex < firstIndex'
    BY <1>0, <1>2 DEF firstIndex, TypeOK, IInv, RouterCountKept
<1> HIDE DEF x
<1>5. TypeOK'
    <2>1. interfaceCount' \in 0..MaxCount + 2 /\ routerAdded' \in BOOLEAN
        BY <1>0, <1>2 DEF TypeOK
    <2>2. interfaces' \in [Memory -> Iface \union {Router, None, Foreign}]
        BY <1>0, <1>2, <1>3 DEF TypeOK
    <2>3. receiverContext' \in [Iface -> Memory \union {-1}]
        BY <1>0, <1>2, <1>3 DEF TypeOK
    <2>4. onFree' \in [Iface -> SUBSET Memory]
        BY <1>0, <1>2, <1>3 DEF TypeOK
    <2> QED BY <2>1, <2>2, <2>3, <2>4 DEF TypeOK
<1>6. RouterCountKept'
    BY <1>0, <1>2 DEF RouterCountKept, TypeOK
<1>7. UsedBelowFirst'
    <2> SUFFICES ASSUME NEW i \in Memory, interfaces'[i] \in Iface PROVE i < firstIndex'
        BY DEF UsedBelowFirst
    <2>1. firstIndex' \in Int /\ i \in Int
        BY <1>5 DEF firstIndex, TypeOK, Memory
    <2>2. CASE i = x
        BY <1>1, <1>3, <1>4, <2>1, <2>2
    <2>3. CASE i # x
        <3>1. i < firstIndex
            BY <1>0, <1>2, <2>3 DEF IInv, UsedBelowFirst, TypeOK
        <3> QED BY <1>1, <1>4, <2>1, <3>1 DEF Memory
    <2> QED BY <2>2, <2>3
<1>8. SlotsAgree'
    <2>1. onFree[iface] = {}
        BY <1>2 DEF IInv, SlotsAgree, Registered
    <2> QED BY <1>0, <1>2, <1>3, <2>1 DEF IInv, SlotsAgree, Registered, TypeOK, Memory
<1>9. RouterIsAtOne'
    BY <1>0, <1>2, <1>3 DEF IInv, RouterIsAtOne, TypeOK, RouterSlot, Memory
<1> QED BY <1>5, <1>6, <1>7, <1>8, <1>9 DEF IInv

\* A peer that is freed leaves no slot that still points at it.
LEMMA FreeKeeps ==
    ASSUME IInv, NEW iface \in Iface, freeInterface(iface)
    PROVE  IInv'
<1> USE SizeAssumption, IfaceAssumption
<1>0. TypeOK
    BY DEF IInv
<1> DEFINE x == receiverContext[iface]
<1>1. x \in Memory /\ interfaces[x] = iface /\ onFree[iface] = {x}
    BY <1>0 DEF IInv, SlotsAgree, freeInterface, Registered, TypeOK
<1>2. /\ interfaces' = [i \in Memory |-> IF i = x THEN None ELSE interfaces[i]]
      /\ receiverContext' = [receiverContext EXCEPT ![iface] = -1]
      /\ onFree' = [onFree EXCEPT ![iface] = {}]
      /\ interfaceCount' = interfaceCount
      /\ routerAdded' = routerAdded
    BY <1>1 DEF freeInterface
<1> HIDE DEF x
<1>3. TypeOK' /\ RouterCountKept'
    BY <1>0, <1>2 DEF TypeOK, RouterCountKept, IInv
<1>4. UsedBelowFirst'
    BY <1>2 DEF IInv, UsedBelowFirst, firstIndex
<1>5. SlotsAgree'
    <2>1. \A other \in Iface \ {iface} : receiverContext[other] # x
        <3> SUFFICES ASSUME NEW other \in Iface \ {iface}, receiverContext[other] = x
                     PROVE  FALSE
            OBVIOUS
        <3>1. Registered(other)
            BY <1>1 DEF Registered, Memory
        <3> QED BY <1>1, <3>1 DEF IInv, SlotsAgree
    <2>2. \A i \in Memory : i # x => interfaces[i] # iface
        BY <1>1 DEF IInv, SlotsAgree, x
    <2>3. \A other \in Iface :
              IF receiverContext'[other] # -1
              THEN /\ interfaces'[receiverContext'[other]] = other
                   /\ onFree'[other] = {receiverContext'[other]}
              ELSE onFree'[other] = {}
        <3> SUFFICES ASSUME NEW other \in Iface
                     PROVE  IF receiverContext'[other] # -1
                            THEN /\ interfaces'[receiverContext'[other]] = other
                                 /\ onFree'[other] = {receiverContext'[other]}
                            ELSE onFree'[other] = {}
            OBVIOUS
        <3>1. CASE other = iface
            BY <1>0, <1>2, <3>1 DEF TypeOK
        <3>2. CASE other # iface
            BY <1>0, <1>2, <2>1, <3>2 DEF TypeOK, IInv, SlotsAgree, Registered
        <3> QED BY <3>1, <3>2
    <2>4. \A i \in Memory : interfaces'[i] \in Iface => receiverContext'[interfaces'[i]] = i
        BY <1>0, <1>2, <2>2 DEF TypeOK, IInv, SlotsAgree
    <2> QED BY <2>3, <2>4 DEF SlotsAgree, Registered
<1>6. RouterIsAtOne'
    <2>1. x # RouterSlot
        BY <1>1 DEF IInv, RouterIsAtOne, RouterSlot
    <2> QED BY <1>2, <2>1 DEF IInv, RouterIsAtOne, RouterSlot, Memory
<1> QED BY <1>3, <1>4, <1>5, <1>6 DEF IInv

\* Two peers that trade slots trade everything that belongs to a slot.
LEMMA SwapKeeps ==
    ASSUME IInv, NEW if1 \in Iface, NEW if2 \in Iface, swapInterfaces(if1, if2)
    PROVE  IInv'
<1> USE SizeAssumption, IfaceAssumption
<1>0. TypeOK
    BY DEF IInv
<1> DEFINE x == receiverContext[if1]
           y == receiverContext[if2]
<1>1. /\ if1 # if2
      /\ x \in Memory /\ interfaces[x] = if1 /\ onFree[if1] = {x}
      /\ y \in Memory /\ interfaces[y] = if2 /\ onFree[if2] = {y}
      /\ x # y
    BY <1>0 DEF IInv, SlotsAgree, swapInterfaces, Registered, TypeOK
<1>2. /\ interfaces' = [interfaces EXCEPT ![x] = if2, ![y] = if1]
      /\ receiverContext' = [receiverContext EXCEPT ![if1] = y, ![if2] = x]
      /\ onFree' = [onFree EXCEPT ![if1] = {y}, ![if2] = {x}]
      /\ interfaceCount' = interfaceCount
      /\ routerAdded' = routerAdded
    <2>1. /\ interfaces' = [interfaces EXCEPT ![x] = interfaces[y], ![y] = interfaces[x]]
          /\ receiverContext' = [receiverContext EXCEPT ![if1] = y, ![if2] = x]
          /\ onFree' = [onFree EXCEPT ![if1] = (@ \ {x}) \union {y}, ![if2] = (@ \ {y}) \union {x}]
          /\ interfaceCount' = interfaceCount
          /\ routerAdded' = routerAdded
        BY DEF swapInterfaces
    <2>2. onFree' = [onFree EXCEPT ![if1] = {y}, ![if2] = {x}]
        BY <1>0, <1>1, <2>1 DEF TypeOK
    <2> QED BY <1>1, <2>1, <2>2
<1>3. \A i \in Memory : (interfaces[i] = if1 => i = x) /\ (interfaces[i] = if2 => i = y)
    BY DEF IInv, SlotsAgree
<1>4. \A other \in Iface : receiverContext[other] = x => other = if1
    BY <1>1 DEF IInv, SlotsAgree, Registered, Memory
<1>5. \A other \in Iface : receiverContext[other] = y => other = if2
    BY <1>1 DEF IInv, SlotsAgree, Registered, Memory
<1> HIDE DEF x, y
<1>6. TypeOK' /\ RouterCountKept'
    <2>1. interfaces' \in [Memory -> Iface \union {Router, None, Foreign}]
        BY <1>0, <1>1, <1>2 DEF TypeOK
    <2>2. receiverContext' \in [Iface -> Memory \union {-1}]
        BY <1>0, <1>1, <1>2 DEF TypeOK
    <2>3. onFree' \in [Iface -> SUBSET Memory]
        BY <1>0, <1>1, <1>2 DEF TypeOK
    <2> QED BY <1>0, <1>2, <2>1, <2>2, <2>3 DEF TypeOK, RouterCountKept, IInv
<1>7. UsedBelowFirst'
    <2>1. x < firstIndex /\ y < firstIndex
        BY <1>1 DEF IInv, UsedBelowFirst
    <2>2. firstIndex' = firstIndex
        BY <1>2 DEF firstIndex
    <2> QED BY <1>0, <1>1, <1>2, <2>1, <2>2 DEF IInv, UsedBelowFirst, TypeOK
<1>8. SlotsAgree'
    <2>1. ASSUME NEW other \in Iface
          PROVE  IF receiverContext'[other] # -1
                 THEN /\ interfaces'[receiverContext'[other]] = other
                      /\ onFree'[other] = {receiverContext'[other]}
                 ELSE onFree'[other] = {}
        <3>1. CASE other = if1
            <4>1. receiverContext'[if1] = y /\ onFree'[if1] = {y}
                BY <1>0, <1>1, <1>2 DEF TypeOK
            <4>2. interfaces'[y] = if1 /\ y # -1
                BY <1>0, <1>1, <1>2 DEF TypeOK, Memory
            <4> QED BY <3>1, <4>1, <4>2
        <3>2. CASE other = if2
            <4>1. receiverContext'[if2] = x /\ onFree'[if2] = {x}
                BY <1>0, <1>1, <1>2 DEF TypeOK
            <4>2. interfaces'[x] = if2 /\ x # -1
                BY <1>0, <1>1, <1>2 DEF TypeOK, Memory
            <4> QED BY <3>2, <4>1, <4>2
        <3>3. CASE other # if1 /\ other # if2
            BY <1>0, <1>1, <1>2, <1>4, <1>5, <3>3 DEF TypeOK, IInv, SlotsAgree, Registered
        <3> QED BY <3>1, <3>2, <3>3
    <2>2. ASSUME NEW i \in Memory, interfaces'[i] \in Iface
          PROVE  receiverContext'[interfaces'[i]] = i
        <3>1. CASE i = x
            BY <1>0, <1>1, <1>2, <3>1 DEF TypeOK
        <3>2. CASE i = y
            BY <1>0, <1>1, <1>2, <3>2 DEF TypeOK
        <3>3. CASE i # x /\ i # y
            BY <1>0, <1>1, <1>2, <1>3, <2>2, <3>3 DEF TypeOK, IInv, SlotsAgree
        <3> QED BY <3>1, <3>2, <3>3
    <2> QED BY <2>1, <2>2 DEF SlotsAgree, Registered
<1>9. RouterIsAtOne'
    <2>1. x # RouterSlot /\ y # RouterSlot
        BY <1>1 DEF IInv, RouterIsAtOne, RouterSlot
    <2> QED BY <1>0, <1>1, <1>2, <2>1 DEF IInv, RouterIsAtOne, RouterSlot, Memory, TypeOK
<1> QED BY <1>6, <1>7, <1>8, <1>9 DEF IInv

\* The router takes slot 1, which no peer has, and every peer keeps its slot.
LEMMA RouterKeeps ==
    ASSUME IInv, setRouterInterface
    PROVE  IInv'
<1> USE SizeAssumption, IfaceAssumption
<1>0. TypeOK
    BY DEF IInv
<1>1. /\ 1 \in Memory
      /\ interfaces[1] = None
      /\ interfaces' = [interfaces EXCEPT ![1] = Router]
      /\ interfaceCount' = interfaceCount + 1
      /\ ~routerAdded /\ routerAdded' = TRUE
      /\ receiverContext' = receiverContext
      /\ onFree' = onFree
    BY DEF IInv, setRouterInterface, RouterIsAtOne, RouterSlot, Memory
<1>2. TypeOK' /\ RouterCountKept'
    BY <1>0, <1>1 DEF TypeOK, RouterCountKept, IInv
<1>3. UsedBelowFirst'
    <2>1. \A i \in Memory : interfaces'[i] \in Iface => interfaces[i] \in Iface
        BY <1>0, <1>1 DEF TypeOK
    <2>2. CASE interfaceCount = 0
        BY <1>1, <2>1, <2>2 DEF IInv, UsedBelowFirst, firstIndex, Memory
    <2>3. CASE interfaceCount > 0
        BY <1>0, <1>1, <2>1, <2>3 DEF IInv, UsedBelowFirst, firstIndex, TypeOK
    <2> QED BY <1>0, <2>2, <2>3 DEF TypeOK
<1>4. SlotsAgree'
    BY <1>0, <1>1 DEF IInv, SlotsAgree, Registered, TypeOK
<1>5. RouterIsAtOne'
    BY <1>0, <1>1 DEF IInv, RouterIsAtOne, RouterSlot, TypeOK
<1> QED BY <1>2, <1>3, <1>4, <1>5 DEF IInv

\* Every call keeps the inductive invariant.
LEMMA NextIInv == IInv /\ [Next]_vars => IInv'
<1> SUFFICES ASSUME IInv, [Next]_vars PROVE IInv'
    OBVIOUS
<1>1. CASE setRouterInterface
    BY <1>1, RouterKeeps
<1>2. ASSUME NEW iface \in Iface, addInterface(iface) PROVE IInv'
    BY <1>2, AddKeeps
<1>3. ASSUME NEW iface \in Iface, freeInterface(iface) PROVE IInv'
    BY <1>3, FreeKeeps
<1>4. ASSUME NEW if1 \in Iface, NEW if2 \in Iface, swapInterfaces(if1, if2) PROVE IInv'
    BY <1>4, SwapKeeps
<1>5. CASE UNCHANGED vars
    BY <1>5 DEF vars, IInv, TypeOK, RouterCountKept, UsedBelowFirst, SlotsAgree, RouterIsAtOne,
                Registered, firstIndex
<1> QED BY <1>1, <1>2, <1>3, <1>4, <1>5 DEF Next, addInterfaceOutOfSpace

\* Before any call no peer has a slot.
LEMMA InitPromise == Init => Promise!Init
BY DEF Init, Promise!Init

\* SwitchCore_addInterface gives a peer a slot that no other peer points at.
LEMMA AddPromise ==
    ASSUME IInv, NEW iface \in Iface, addInterface(iface)
    PROVE  Promise!Add(iface)
<1>0. TypeOK /\ interfaceCount <= MaxCount
    BY DEF IInv, addInterface
<1>1. /\ ifIndex \in Memory \ {RouterSlot}
      /\ ifIndex = firstIndex \/ interfaces[ifIndex] = None
    BY <1>0, IfIndexOK
<1>2. interfaces[ifIndex] \notin Iface
    BY <1>1, SizeAssumption, IfaceAssumption DEF IInv, UsedBelowFirst, Memory
<1>3. \A other \in Iface : receiverContext[other] # ifIndex
    BY <1>1, <1>2 DEF IInv, SlotsAgree, Registered, Memory
<1>4. ifIndex \in Promise!Vacant(receiverContext)
    BY <1>1, <1>3 DEF Promise!Vacant
<1>5. receiverContext' = [receiverContext EXCEPT ![iface] = ifIndex] /\ receiverContext[iface] = -1
    BY DEF addInterface, Registered
<1> QED BY <1>4, <1>5 DEF Promise!Add

\* Every call is a step of what the switch promises, or leaves the slots of peers alone.
LEMMA NextPromise == IInv /\ [Next]_vars => [Promise!Next]_receiverContext
<1> SUFFICES ASSUME IInv, [Next]_vars PROVE [Promise!Next]_receiverContext
    OBVIOUS
<1>1. CASE setRouterInterface
    BY <1>1 DEF setRouterInterface
<1>2. ASSUME NEW iface \in Iface, addInterface(iface) PROVE Promise!Next
    BY <1>2, AddPromise DEF Promise!Next
<1>3. ASSUME NEW iface \in Iface, freeInterface(iface) PROVE Promise!Next
    BY <1>3 DEF freeInterface, Registered, Promise!Next, Promise!Free, Promise!Freed
<1>4. ASSUME NEW if1 \in Iface, NEW if2 \in Iface, swapInterfaces(if1, if2) PROVE Promise!Next
    BY <1>4 DEF swapInterfaces, Registered, Promise!Next, Promise!Swap, Promise!Swapped
<1>5. CASE UNCHANGED vars
    BY <1>5 DEF vars
<1> QED BY <1>1, <1>2, <1>3, <1>4, <1>5 DEF Next, addInterfaceOutOfSpace, vars

\* The switch implements SwitchSlots: a peer that is added gets a slot of its own, which is
\* not the router's, until it is freed or swapped.
THEOREM Refinement == Spec => ImplementsSwitchSlots
<1> QED BY InitIInv, NextIInv, InitPromise, NextPromise, PTL
        DEF Spec, ImplementsSwitchSlots, Promise!Spec

\* The index given to a peer is one of the array or of the memory right behind it.
THEOREM TypeCorrect == Spec => []TypeOK
<1>1. IInv => TypeOK
    BY DEF IInv
<1> QED BY <1>1, InitIInv, NextIInv, PTL DEF Spec

\* A slot of the switch and the interface in it always point at each other, and freeing
\* an interface clears exactly its own slot, for any number of SwitchCore_addInterface,
\* SwitchCore_swapInterfaces and free calls.
THEOREM SlotsAlwaysAgree == Spec => []SlotsAgree
<1>1. IInv => SlotsAgree
    BY DEF IInv
<1> QED BY <1>1, InitIInv, NextIInv, PTL DEF Spec

\* Slot 1 is never given to a peer and the router, once set, stays in it.
THEOREM RouterAlwaysAtOne == Spec => []RouterIsAtOne
<1>1. IInv => RouterIsAtOne
    BY DEF IInv
<1> QED BY <1>1, InitIInv, NextIInv, PTL DEF Spec

=============================================================================
