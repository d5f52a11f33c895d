--------------------------- MODULE NumberCompress ---------------------------
(***************************************************************************)
(* How the number of a switch interface is written into a label:           *)
(* switch/NumberCompress.h.  Which of the three schemes a node uses was    *)
(* decided when it was compiled (CJDNS_MAX_PEERS), so the nodes of a       *)
(* network need not use the same.                                          *)
(*                                                                         *)
(* A label is a sequence of bits, the least significant one first.         *)
(***************************************************************************)
EXTENDS Integers, Sequences, SequencesExt

\* Slots of a switch: NumberCompress_INTERFACES.
INTERFACES(scheme) == CASE scheme = "4" -> 16 [] scheme = "8" -> 241 [] scheme = "dyn" -> 257

\* The number in n bits, at most 8, of a label from bit first on.
field(label, first, n) ==
    LET bit(i) == IF i < n THEN 2^i * label[first + i + 1] ELSE 0
    IN  bit(0) + bit(1) + bit(2) + bit(3) + bit(4) + bit(5) + bit(6) + bit(7)

\* A number in n bits.
bitsOf(number, n) == [i \in 1..n |-> (number \div 2^(i - 1)) % 2]

bitsUsedForLabel8(label) == IF field(label, 0, 4) = 1 THEN 4 ELSE 8
bitsUsedForNumber8(number) == IF number = 1 THEN 4 ELSE 8
bitsUsedForLabelDyn(label) == IF label[1] = 1 THEN 4 ELSE IF label[2] = 1 THEN 7 ELSE 10
bitsUsedForNumberDyn(number) == IF number < 8 THEN 4 ELSE IF number < 33 THEN 7 ELSE 10

bitsUsedForLabel(scheme, label) ==
    CASE scheme = "4" -> 4
      [] scheme = "8" -> bitsUsedForLabel8(label)
      [] scheme = "dyn" -> bitsUsedForLabelDyn(label)

bitsUsedForNumber(scheme, number) ==
    CASE scheme = "4" -> 4
      [] scheme = "8" -> bitsUsedForNumber8(number)
      [] scheme = "dyn" -> bitsUsedForNumberDyn(number)

\* Nibbles swapped, the high one moved past 1.
getCompressed8(number) ==
    CASE number = 1 -> 1
      [] number = 240 -> 16
      [] OTHER -> (number % 16) * 16 + (IF number < 16 THEN 0 ELSE number \div 16 + 1)

\* Numbers 0 and 1 swapped in 4 bits, 1 skipped in more.
getCompressedDyn(number, bitsUsed) ==
    CASE number = 1 -> 1
      [] bitsUsed = 4 /\ number # 1 -> (IF number = 0 THEN 1 ELSE number) * 2 + 1
      [] bitsUsed = 7 /\ number # 1 -> (IF number = 0 THEN 0 ELSE number - 1) * 4 + 2
      [] bitsUsed = 10 /\ number # 1 -> (IF number = 0 THEN 0 ELSE number - 1) * 4

getCompressed(scheme, number, bitsUsed) ==
    CASE scheme = "4" -> number
      [] scheme = "8" -> getCompressed8(number)
      [] scheme = "dyn" -> getCompressedDyn(number, bitsUsed)

getDecompressed8(label) ==
    LET low == field(label, 0, 4)
    IN  CASE low = 1 -> 1
          [] field(label, 0, 8) = 16 -> 240
          [] OTHER -> (IF low = 0 THEN 0 ELSE low - 1) * 16 + field(label, 4, 4)

\* Bug: the number 1 is not skipped.
getDecompressedDynPlain(label, bitsUsed) ==
    IF bitsUsed = 4 THEN field(label, 1, 3) ELSE field(label, 2, bitsUsed - 2)

getDecompressedDyn(label, bitsUsed) ==
    IF bitsUsed = 4
    THEN LET number == field(label, 1, 3) IN IF number < 2 THEN 1 - number ELSE number
    ELSE LET number == field(label, 2, bitsUsed - 2) IN IF number = 0 THEN 0 ELSE number + 1

getDecompressed(scheme, label, bitsUsed) ==
    CASE scheme = "4" -> field(label, 0, 4)
      [] scheme = "8" -> getDecompressed8(label)
      [] scheme = "dyn" -> getDecompressedDyn(label, bitsUsed)

=============================================================================
