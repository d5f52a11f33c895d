-------------------------------- MODULE Map --------------------------------
(***************************************************************************)
(* util/Map.h with keys and handles (Map_ENABLE_HANDLES): the arrays       *)
(* keys, handles and values as one sequence of entries, counted from 1,    *)
(* and nextHandle.  Entries stay sorted by handle, which is what           *)
(* indexForHandle searches by.                                             *)
(***************************************************************************)
EXTENDS Integers, Sequences

Map_new == [entries |-> << >>, nextHandle |-> 0]

count(map) == Len(map.entries)

indexForKey(key, map) ==
    LET found == {i \in 1..count(map) : map.entries[i].key = key}
    IN  IF found = {} THEN -1 ELSE CHOOSE i \in found : \A j \in found : i <= j

\* The loop over base and bufferLen.
indexForHandle(handle, map) ==
    LET search[bufferLen \in 0..count(map)] ==
          [base \in Nat |->
             LET mid == base + bufferLen \div 2
                 currentHandle == map.entries[mid + 1].handle
             IN  IF bufferLen = 0 THEN -1
                 ELSE IF handle = currentHandle THEN mid + 1
                 ELSE IF handle > currentHandle THEN search[(bufferLen - 1) \div 2][mid + 1]
                 ELSE search[bufferLen \div 2][base]]
    IN  search[count(map)][0]

\* Bug: the last entry is moved onto the one removed, as in a map without handles.
Map_removeFold(keys, map) ==
    [map EXCEPT !.entries =
        SelectSeq([i \in 1..Len(@) |-> IF @[i].key \in keys THEN @[Len(@)] ELSE @[i]],
                  LAMBDA e : e.key \notin keys)]

\* Entries are removed and the ones behind each move down.
Map_remove(keys, map) ==
    LET kept[i \in 0..count(map)] ==
          IF i = 0 THEN << >>
          ELSE IF map.entries[i].key \in keys THEN kept[i - 1]
          ELSE Append(kept[i - 1], map.entries[i])
    IN  [map EXCEPT !.entries = kept[count(map)]]

\* An entry with a key that is there keeps its handle.
Map_put(key, map) ==
    IF indexForKey(key, map) # -1 THEN map
    ELSE [entries |-> Append(map.entries, [key |-> key, handle |-> map.nextHandle]),
          nextHandle |-> map.nextHandle + 1]

=============================================================================
