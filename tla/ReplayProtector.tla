-------------------------- MODULE ReplayProtector --------------------------
(***************************************************************************)
(* The sliding window of crypto/ReplayProtector.h as operators on its      *)
(* state.  A protector is the struct ReplayProtector: baseOffset is the    *)
(* lowest nonce still inside the window and bitfield the nonces already    *)
(* seen, kept as the set of the positions of its 1 bits.                   *)
(*                                                                         *)
(* Window is 20 and Width 32 in the code.  The code's test offset > 51 is  *)
(* written offset > Width + Window - 1: beyond it the shift count would    *)
(* reach the width of the bitfield.                                        *)
(***************************************************************************)
EXTENDS Integers

CONSTANTS
    Window,  \* highest bit position the code ever sets
    Width    \* number of bits of the bitfield

ASSUME WindowAssumption == Window \in Nat /\ Width \in Nat /\ Window < Width

\* A protector after Bits_memset(&replayProtector, 0, ...).
ZeroProtector == [baseOffset |-> 0, bitfield |-> {}]

Protectors == [baseOffset : Nat, bitfield : SUBSET (0..Width - 1)]

\* bits >> count.  C leaves a count of Width or more undefined; a processor
\* that takes the count modulo 32 shifts by nothing, and so does this one.
ShiftRight(bits, count) ==
    IF count < Width THEN {b - count : b \in {c \in bits : c >= count}} ELSE bits

\* Bug: the position right at the end of the window counts as beyond it.
NonceIsNewShort(nonce, rp) ==
    /\ nonce >= rp.baseOffset
    /\ \/ nonce - rp.baseOffset >= Window
       \/ (nonce - rp.baseOffset) \notin rp.bitfield

\* What ReplayProtector_checkNonce returns.
NonceIsNew(nonce, rp) ==
    /\ nonce >= rp.baseOffset
    /\ \/ nonce - rp.baseOffset > Window
       \/ (nonce - rp.baseOffset) \notin rp.bitfield

\* Bug: the bitfield is cleared one shift too late, when the count is Width.
FileNonceLateClear(nonce, rp) ==
    LET offset == nonce - rp.baseOffset
        slide  == offset - Window
    IN  IF ~NonceIsNew(nonce, rp)
        THEN rp
        ELSE IF offset > Window
             THEN [baseOffset |-> rp.baseOffset + slide,
                   bitfield   |-> (IF offset > Width + Window
                                   THEN {}
                                   ELSE ShiftRight(rp.bitfield, slide)) \union {Window}]
             ELSE [rp EXCEPT !.bitfield = @ \union {offset}]

\* Bug: the nonce that moves the window is not marked in it.
FileNonceUnmarked(nonce, rp) ==
    LET offset == nonce - rp.baseOffset
        slide  == offset - Window
    IN  IF ~NonceIsNew(nonce, rp)
        THEN rp
        ELSE IF offset > Window
             THEN [baseOffset |-> rp.baseOffset + slide,
                   bitfield   |-> IF offset > Width + Window - 1
                                  THEN {}
                                  ELSE ShiftRight(rp.bitfield, slide)]
             ELSE [rp EXCEPT !.bitfield = @ \union {offset}]

\* Bug: the window never slides, and the bit is set at the offset itself.
FileNonceBaseKept(nonce, rp) ==
    LET offset == nonce - rp.baseOffset
    IN  IF ~NonceIsNew(nonce, rp)
        THEN rp
        ELSE [rp EXCEPT !.bitfield = @ \union {offset}]

\* The protector ReplayProtector_checkNonce leaves behind.
FileNonce(nonce, rp) ==
    LET offset == nonce - rp.baseOffset
        slide  == offset - Window
    IN  IF ~NonceIsNew(nonce, rp)
        THEN rp
        ELSE IF offset > Window
             THEN [baseOffset |-> rp.baseOffset + slide,
                   bitfield   |-> (IF offset > Width + Window - 1
                                   THEN {}
                                   ELSE ShiftRight(rp.bitfield, slide)) \union {Window}]
             ELSE [rp EXCEPT !.bitfield = @ \union {offset}]

=============================================================================
