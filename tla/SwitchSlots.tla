---------------------------- MODULE SwitchSlots ----------------------------
(***************************************************************************)
(* What the switch promises the peers' side (switch/SwitchCore.h): an      *)
(* interface that is added gets a slot no other interface has, keeps it    *)
(* until it is freed, and trades it when it is swapped.  There is no       *)
(* array, no count and no removal job here.                                *)
(***************************************************************************)
CONSTANTS
    Iface,   \* interfaces of peers
    Slot,    \* slots a peer may get
    None     \* no slot

VARIABLE slot   \* [Iface -> Slot or None]

Vacant(of) == {s \in Slot : \A i \in Iface : of[i] # s}

Freed(of, i) == [of EXCEPT ![i] = None]

Swapped(of, i, j) == [of EXCEPT ![i] = of[j], ![j] = of[i]]

Init == slot = [i \in Iface |-> None]

Add(i) ==
    /\ slot[i] = None
    /\ \E s \in Vacant(slot) : slot' = [slot EXCEPT ![i] = s]

Free(i) == slot[i] # None /\ slot' = Freed(slot, i)

Swap(i, j) == slot[i] # None /\ slot[j] # None /\ slot' = Swapped(slot, i, j)

Next ==
    \/ \E i \in Iface : Add(i) \/ Free(i)
    \/ \E i, j \in Iface : Swap(i, j)

Spec == Init /\ [][Next]_slot

=============================================================================
