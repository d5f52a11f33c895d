------------------------ MODULE ReplayProtectorProofs ------------------------
(***************************************************************************)
(* Facts about one call of ReplayProtector_checkNonce, for every window    *)
(* and width.                                                              *)
(***************************************************************************)
EXTENDS ReplayProtector, TLAPS

\* Where a right shift by less than the width puts a bit: position i of the
\* result holds what position i + count held (ReplayProtector.h:47).
LEMMA ShiftRightMember ==
    ASSUME NEW bits \in SUBSET (0..Width - 1), NEW count \in Nat, count < Width
    PROVE  /\ ShiftRight(bits, count) \subseteq 0..Width - 1
           /\ \A i \in Nat : i \in ShiftRight(bits, count) <=> i + count \in bits
<1>1. ShiftRight(bits, count) = {b - count : b \in {c \in bits : c >= count}}
    BY DEF ShiftRight
<1>2. Width \in Nat /\ \A b \in bits : b \in Int /\ 0 <= b /\ b <= Width - 1
    BY WindowAssumption
<1>3. ShiftRight(bits, count) \subseteq 0..Width - 1
    BY <1>1, <1>2
<1>4. ASSUME NEW i \in Nat
      PROVE  i \in ShiftRight(bits, count) <=> i + count \in bits
    <2>1. i + count >= count /\ (i + count) - count = i OBVIOUS
    <2> QED BY <2>1, <1>1, <1>2
<1> QED BY <1>3, <1>4

\* What ReplayProtector_checkNonce leaves behind is a protector again.
LEMMA FileNonceType ==
    ASSUME NEW rp \in Protectors, NEW nonce \in Nat
    PROVE  FileNonce(nonce, rp) \in Protectors
<1> DEFINE offset == nonce - rp.baseOffset
           slide  == offset - Window
<1>1. Window \in Nat /\ Width \in Nat /\ Window < Width BY WindowAssumption
<1>2. rp.baseOffset \in Nat /\ rp.bitfield \in SUBSET (0..Width - 1) BY DEF Protectors
<1>3. CASE ~NonceIsNew(nonce, rp)
    BY <1>3 DEF FileNonce
<1>4. CASE NonceIsNew(nonce, rp) /\ offset > Window
    <2>1. slide \in Nat /\ rp.baseOffset + slide \in Nat BY <1>1, <1>2, <1>4
    <2>2. ASSUME slide < Width PROVE ShiftRight(rp.bitfield, slide) \subseteq 0..Width - 1
        <3> HIDE DEF slide
        <3> QED BY <2>1, <2>2, <1>2, ShiftRightMember
    <2>3. ~(offset > Width + Window - 1) => slide < Width BY <1>1, <1>2, <2>1
    <2>4. (IF offset > Width + Window - 1 THEN {} ELSE ShiftRight(rp.bitfield, slide))
              \union {Window} \in SUBSET (0..Width - 1)
        BY <2>2, <2>3, <1>1
    <2>5. FileNonce(nonce, rp) =
             [baseOffset |-> rp.baseOffset + slide,
              bitfield |-> (IF offset > Width + Window - 1 THEN {} ELSE ShiftRight(rp.bitfield, slide))
                           \union {Window}]
        BY <1>4 DEF FileNonce
    <2> QED BY <2>1, <2>4, <2>5 DEF Protectors
<1>5. CASE NonceIsNew(nonce, rp) /\ ~(offset > Window)
    <2>1. offset \in 0..Width - 1 BY <1>1, <1>2, <1>5 DEF NonceIsNew
    <2>2. FileNonce(nonce, rp) = [rp EXCEPT !.bitfield = @ \union {offset}]
        BY <1>5 DEF FileNonce
    <2> QED BY <2>1, <2>2 DEF Protectors
<1> QED BY <1>3, <1>4, <1>5

\* ReplayProtector_checkNonce never forgets: a nonce it would refuse stays refused
\* whatever nonce it is called with, and however far the window slides
\* (ReplayProtector.h:36-54).
LEMMA RefusedStaysRefused ==
    ASSUME NEW rp \in Protectors, NEW nonce \in Nat, NEW old \in Nat,
           ~NonceIsNew(old, rp)
    PROVE  ~NonceIsNew(old, FileNonce(nonce, rp))
<1> DEFINE offset == nonce - rp.baseOffset
           slide  == offset - Window
<1>1. Window \in Nat /\ Width \in Nat /\ Window < Width BY WindowAssumption
<1>2. rp.baseOffset \in Nat /\ rp.bitfield \in SUBSET (0..Width - 1) BY DEF Protectors
<1>3. CASE ~NonceIsNew(nonce, rp)
    BY <1>3 DEF FileNonce
<1>4. CASE NonceIsNew(nonce, rp) /\ offset > Window
    <2> DEFINE bits == (IF offset > Width + Window - 1
                        THEN {} ELSE ShiftRight(rp.bitfield, slide)) \union {Window}
    <2>1. slide \in Nat /\ slide > 0 BY <1>1, <1>2, <1>4
    <2>2. FileNonce(nonce, rp) = [baseOffset |-> rp.baseOffset + slide, bitfield |-> bits]
        BY <1>4 DEF FileNonce
    <2>3. CASE old < rp.baseOffset + slide
        BY <2>2, <2>3, <2>1, <1>2 DEF NonceIsNew
    <2>4. CASE ~(old < rp.baseOffset + slide)
        <3>1. /\ old - rp.baseOffset \in rp.bitfield
              /\ old - rp.baseOffset <= Window
              /\ slide <= old - rp.baseOffset
            BY <2>4, <2>1, <1>1, <1>2 DEF NonceIsNew
        <3>2. slide < Width /\ ~(offset > Width + Window - 1) BY <3>1, <1>1, <1>2, <2>1
        <3>3. old - rp.baseOffset - slide \in Nat
              /\ (old - rp.baseOffset - slide) + slide = old - rp.baseOffset
            BY <3>1, <2>1, <1>2
        <3>4. old - rp.baseOffset - slide \in ShiftRight(rp.bitfield, slide)
            <4> HIDE DEF slide
            <4> QED BY <3>1, <3>2, <3>3, <2>1, <1>2, ShiftRightMember
        <3>5. old - (rp.baseOffset + slide) \in bits
            <4>1. old - (rp.baseOffset + slide) = old - rp.baseOffset - slide BY <1>2, <2>1
            <4> QED BY <4>1, <3>2, <3>4
        <3>6. old - (rp.baseOffset + slide) <= Window BY <3>1, <2>1, <1>1, <1>2
        <3> HIDE DEF bits, slide
        <3> QED BY <2>2, <3>5, <3>6, <2>1, <1>1, <1>2 DEF NonceIsNew
    <2> QED BY <2>3, <2>4
<1>5. CASE NonceIsNew(nonce, rp) /\ ~(offset > Window)
    <2>1. FileNonce(nonce, rp) = [rp EXCEPT !.bitfield = @ \union {offset}]
        BY <1>5 DEF FileNonce
    <2> QED BY <2>1, <1>2 DEF NonceIsNew, Protectors
<1> QED BY <1>3, <1>4, <1>5

\* ReplayProtector_checkNonce refuses the nonce it has just filed
\* (ReplayProtector.h:46, 54).
LEMMA FiledIsRefused ==
    ASSUME NEW rp \in Protectors, NEW nonce \in Nat
    PROVE  ~NonceIsNew(nonce, FileNonce(nonce, rp))
<1> DEFINE offset == nonce - rp.baseOffset
<1>1. Window \in Nat /\ Width \in Nat BY WindowAssumption
<1>2. rp.baseOffset \in Nat BY DEF Protectors
<1>3. CASE ~NonceIsNew(nonce, rp)
    BY <1>3 DEF FileNonce
<1>4. CASE NonceIsNew(nonce, rp) /\ offset > Window
    <2>1. /\ FileNonce(nonce, rp).baseOffset = rp.baseOffset + (offset - Window)
          /\ Window \in FileNonce(nonce, rp).bitfield
        BY <1>4 DEF FileNonce
    <2>2. nonce - (rp.baseOffset + (offset - Window)) = Window BY <1>1, <1>2
    <2> QED BY <2>1, <2>2, <1>1 DEF NonceIsNew
<1>5. CASE NonceIsNew(nonce, rp) /\ ~(offset > Window)
    BY <1>5, <1>1, <1>2 DEF FileNonce, NonceIsNew, Protectors
<1> QED BY <1>3, <1>4, <1>5

=============================================================================
