------------------------- MODULE ReplayFilterProofs -------------------------
(***************************************************************************)
(* Proofs, for every window and width, that the bitfield of                *)
(* crypto/ReplayProtector.h is an exact sliding-window filter.             *)
(***************************************************************************)
EXTENDS ReplayFilter, ReplayProtectorProofs, TLAPS

\* A session starts with an empty window that records nothing.
LEMMA InitIInv == Init => IInv
BY WindowAssumption DEF Init, IInv, TypeOK, WindowEndsAtHighest, BitfieldIsExact,
   ZeroProtector, Protectors

\* An accepted nonce above the window slides it (ReplayProtector.h:45-49).
LEMMA SlideStep ==
    ASSUME IInv, NEW nonce \in Nonces, CheckNonce(nonce),
           nonce - replayProtector.baseOffset > Window
    PROVE  WindowEndsAtHighest' /\ BitfieldIsExact'
<1> DEFINE base  == replayProtector.baseOffset
           slide == nonce - base - Window
<1>1. Window \in Nat /\ Width \in Nat /\ Window < Width /\ nonce \in Nat
    BY WindowAssumption, NoncesAssumption
<1>2. base \in Nat /\ replayProtector.bitfield \in SUBSET (0..Width - 1)
      /\ accepted \subseteq Nat
    BY NoncesAssumption DEF IInv, TypeOK, Protectors
<1>3. slide \in Nat /\ slide > 0 /\ base + slide = nonce - Window
    BY <1>1, <1>2
<1>4. NonceIsNew(nonce, replayProtector) BY <1>1, <1>2 DEF NonceIsNew
<1> DEFINE bits == (IF nonce - base > Width + Window - 1
                    THEN {} ELSE ShiftRight(replayProtector.bitfield, slide)) \union {Window}
<1>5. replayProtector' = [baseOffset |-> base + slide, bitfield |-> bits]
    BY <1>4 DEF CheckNonce, FileNonce
<1>6. accepted' = accepted \union {nonce} BY <1>4 DEF CheckNonce
<1>7. \A seen \in accepted : seen <= base + Window
    BY DEF IInv, WindowEndsAtHighest
<1>8. WindowEndsAtHighest'
    BY <1>1, <1>2, <1>3, <1>5, <1>6, <1>7 DEF WindowEndsAtHighest
<1>9. \A i \in 0..Window : i \in replayProtector.bitfield <=> base + i \in accepted
    BY DEF IInv, BitfieldIsExact
<1>10. replayProtector.bitfield \subseteq 0..Window
    BY DEF IInv, BitfieldIsExact
<1>11. ASSUME NEW i \in 0..Window
       PROVE  i \in bits <=> base + slide + i \in accepted \union {nonce}
    <2>1. CASE i = Window
        BY <2>1, <1>1, <1>2, <1>3
    <2>2. CASE i # Window /\ nonce - base > Width + Window - 1
        <3>1. i \notin bits BY <2>2
        <3>2. base + slide + i > base + Window BY <2>2, <1>1, <1>2
        <3>3. base + slide + i # nonce BY <2>2, <1>1, <1>2
        <3> QED BY <3>1, <3>2, <3>3, <1>7, <1>1, <1>2
    <2>3. CASE i # Window /\ ~(nonce - base > Width + Window - 1)
        <3>1. slide < Width BY <2>3, <1>1, <1>2
        <3>2. i \in bits <=> i + slide \in replayProtector.bitfield
            BY <3>1, <2>3, <1>1, <1>2, <1>3, ShiftRightMember
        <3>3. base + slide + i # nonce BY <2>3, <1>1, <1>2
        <3>4. CASE i + slide <= Window
            <4>1. i + slide \in 0..Window BY <3>4, <1>1, <1>3
            <4>2. i + slide \in replayProtector.bitfield <=> base + (i + slide) \in accepted
                BY <4>1, <1>9
            <4>3. base + (i + slide) = base + slide + i BY <1>1, <1>2, <1>3
            <4> QED BY <3>2, <3>3, <4>2, <4>3
        <3>5. CASE i + slide > Window
            <4>1. i + slide \notin replayProtector.bitfield BY <3>5, <1>10, <1>1, <1>3
            <4>2. base + slide + i \notin accepted BY <3>5, <1>7, <1>1, <1>2, <1>3
            <4> QED BY <3>2, <3>3, <4>1, <4>2
        <3> QED BY <3>4, <3>5, <1>1, <1>3
    <2> QED BY <2>1, <2>2, <2>3
<1>12. bits \subseteq 0..Window
    <2>1. ASSUME NEW b \in ShiftRight(replayProtector.bitfield, slide),
                 ~(nonce - base > Width + Window - 1)
          PROVE  b \in 0..Window
        <3>1. slide < Width BY <2>1, <1>1, <1>2
        <3>2. /\ ShiftRight(replayProtector.bitfield, slide) \subseteq 0..Width - 1
              /\ \A i \in Nat : i \in ShiftRight(replayProtector.bitfield, slide)
                                   <=> i + slide \in replayProtector.bitfield
            <4> HIDE DEF slide
            <4> QED BY <3>1, <1>2, <1>3, ShiftRightMember
        <3>3. b \in Nat BY <2>1, <3>2, <1>1
        <3>4. b + slide \in replayProtector.bitfield BY <2>1, <3>2, <3>3
        <3> QED BY <3>3, <3>4, <1>10, <1>1, <1>3
    <2> QED BY <2>1, <1>1
<1>13. BitfieldIsExact'
    BY <1>5, <1>6, <1>11, <1>12 DEF BitfieldIsExact
<1> QED BY <1>8, <1>13

\* A nonce inside the window is looked up in the bitfield (ReplayProtector.h:51-55).
LEMMA InsideStep ==
    ASSUME IInv, NEW nonce \in Nonces, CheckNonce(nonce),
           ~(nonce - replayProtector.baseOffset > Window)
    PROVE  WindowEndsAtHighest' /\ BitfieldIsExact'
<1> DEFINE base   == replayProtector.baseOffset
           offset == nonce - base
<1>1. Window \in Nat /\ Width \in Nat /\ Window < Width /\ nonce \in Nat
    BY WindowAssumption, NoncesAssumption
<1>2. base \in Nat /\ accepted \subseteq Nat /\ replayProtector \in Protectors
    BY NoncesAssumption DEF IInv, TypeOK, Protectors
<1>3. CASE ~NonceIsNew(nonce, replayProtector)
    <2>1. replayProtector' = replayProtector /\ accepted' = accepted
        BY <1>3 DEF CheckNonce, FileNonce
    <2> QED BY <2>1 DEF IInv, WindowEndsAtHighest, BitfieldIsExact
<1>4. CASE NonceIsNew(nonce, replayProtector)
    <2>1. offset \in 0..Window /\ offset \notin replayProtector.bitfield
        BY <1>4, <1>1, <1>2 DEF NonceIsNew
    <2>2. /\ replayProtector'.baseOffset = base
          /\ replayProtector'.bitfield = replayProtector.bitfield \union {offset}
        BY <1>4, <1>2 DEF CheckNonce, FileNonce, Protectors
    <2>3. accepted' = accepted \union {nonce} BY <1>4 DEF CheckNonce
    <2>4. \A i \in 0..Window : base + i = nonce <=> i = offset BY <1>1, <1>2
    <2>5. WindowEndsAtHighest'
        BY <1>1, <1>2, <2>1, <2>2, <2>3 DEF IInv, WindowEndsAtHighest
    <2>6. BitfieldIsExact'
        BY <2>1, <2>2, <2>3, <2>4 DEF IInv, BitfieldIsExact
    <2> QED BY <2>5, <2>6
<1> QED BY <1>3, <1>4

\* Every call of ReplayProtector_checkNonce and every reset keeps the invariant.
LEMMA NextIInv == IInv /\ [Next]_vars => IInv'
<1> SUFFICES ASSUME IInv, [Next]_vars PROVE IInv'
    OBVIOUS
<1>1. CASE Reset
    BY <1>1, WindowAssumption DEF Reset, IInv, TypeOK, WindowEndsAtHighest, BitfieldIsExact,
       ZeroProtector, Protectors
<1>2. ASSUME NEW nonce \in Nonces, CheckNonce(nonce) PROVE IInv'
    <2>1. replayProtector' \in Protectors
        BY <1>2, FileNonceType, NoncesAssumption DEF CheckNonce, IInv, TypeOK
    <2>2. accepted' \subseteq Nonces BY <1>2 DEF CheckNonce, IInv, TypeOK
    <2>3. verdict' \in Nonces \X BOOLEAN BY <1>2 DEF CheckNonce, NonceIsNew
    <2>4. WindowEndsAtHighest' /\ BitfieldIsExact'
        BY <1>2, SlideStep, InsideStep
    <2> QED BY <2>1, <2>2, <2>3, <2>4 DEF IInv, TypeOK
<1>3. CASE UNCHANGED vars
    BY <1>3 DEF vars, IInv, TypeOK, WindowEndsAtHighest, BitfieldIsExact
<1> QED BY <1>1, <1>2, <1>3 DEF Next

\* The bitfield is an exact record of the nonces accepted inside the window, for
\* every window, width and set of nonces.
THEOREM BitfieldExact == Spec => [](TypeOK /\ WindowEndsAtHighest /\ BitfieldIsExact)
<1>1. IInv => TypeOK /\ WindowEndsAtHighest /\ BitfieldIsExact BY DEF IInv
<1> QED BY InitIInv, NextIInv, <1>1, PTL DEF Spec

\* Offset and bitfield stay in the range of the code's integers, for every width.
THEOREM TypeCorrect == Spec => []TypeOK
<1>1. IInv => TypeOK BY DEF IInv
<1> QED BY InitIInv, NextIInv, <1>1, PTL DEF Spec

\* The window ends at the highest nonce accepted since the last reset, for every order
\* of nonces and every reset in between.
THEOREM WindowAtHighest == Spec => []WindowEndsAtHighest
<1>1. IInv => WindowEndsAtHighest BY DEF IInv
<1> QED BY InitIInv, NextIInv, <1>1, PTL DEF Spec

\* NonceIsNew decides exactly what the abstract window decides.
LEMMA NewIffAcceptable ==
    ASSUME IInv, NEW nonce \in Nonces
    PROVE  NonceIsNew(nonce, replayProtector) <=> Abstract!Acceptable(nonce)
<1> DEFINE base == replayProtector.baseOffset
<1>1. Window \in Nat /\ nonce \in Nat BY WindowAssumption, NoncesAssumption
<1>2. base \in Nat /\ accepted \subseteq Nat
    BY NoncesAssumption DEF IInv, TypeOK, Protectors
<1>3. /\ \A seen \in accepted : seen <= base + Window
      /\ base > 0 => base + Window \in accepted
      /\ \A i \in 0..Window : i \in replayProtector.bitfield <=> base + i \in accepted
    BY DEF IInv, WindowEndsAtHighest, BitfieldIsExact
<1>4. CASE nonce < base
    <2>1. base + Window \in accepted /\ ~(base + Window <= nonce + Window)
        BY <1>1, <1>2, <1>3, <1>4
    <2>2. ~NonceIsNew(nonce, replayProtector) BY <1>1, <1>2, <1>4 DEF NonceIsNew
    <2> QED BY <2>1, <2>2 DEF Abstract!Acceptable
<1>5. CASE nonce >= base /\ nonce - base <= Window
    <2>1. nonce - base \in 0..Window /\ base + (nonce - base) = nonce BY <1>1, <1>2, <1>5
    <2>2. NonceIsNew(nonce, replayProtector) <=> nonce \notin accepted
        BY <2>1, <1>1, <1>2, <1>3, <1>5 DEF NonceIsNew
    <2>3. \A seen \in accepted : seen <= nonce + Window BY <1>1, <1>2, <1>3, <1>5
    <2> QED BY <2>2, <2>3 DEF Abstract!Acceptable
<1>6. CASE nonce - base > Window
    <2>1. NonceIsNew(nonce, replayProtector) BY <1>1, <1>2, <1>6 DEF NonceIsNew
    <2>2. \A seen \in accepted : seen < nonce /\ seen <= nonce + Window BY <1>1, <1>2, <1>3, <1>6
    <2> QED BY <2>1, <2>2, <1>1, <1>2 DEF Abstract!Acceptable
<1> QED BY <1>1, <1>2, <1>4, <1>5, <1>6

\* A nonce that was accepted is not accepted again before the next reset.
THEOREM NonceAcceptedOnce == Spec => NoNonceTwice
<1>1. IInv /\ [Next]_vars
        => [\A nonce \in Nonces : verdict' = <<nonce, TRUE>> => nonce \notin accepted]_vars
    <2> SUFFICES ASSUME IInv, Next, NEW nonce \in Nonces, verdict' = <<nonce, TRUE>>
                 PROVE  nonce \notin accepted
        BY DEF vars
    <2>1. CASE Reset
        BY <2>1 DEF Reset
    <2>2. ASSUME NEW n \in Nonces, CheckNonce(n) PROVE nonce \notin accepted
        <3>1. verdict' = <<n, NonceIsNew(n, replayProtector)>> BY <2>2 DEF CheckNonce
        <3>2. NonceIsNew(n, replayProtector) \in BOOLEAN BY DEF NonceIsNew
        <3>3. NonceIsNew(n, replayProtector) = TRUE
            <4>1. ASSUME NonceIsNew(n, replayProtector) = FALSE PROVE FALSE
                <5>1. verdict' = <<n, FALSE>> BY <3>1, <4>1
                <5>2. <<n, FALSE>>[2] = <<nonce, TRUE>>[2] BY <5>1
                <5> QED BY <5>2
            <4> QED BY <3>2, <4>1
        <3>4. n = nonce
            <4>1. verdict' = <<n, TRUE>> BY <3>1, <3>3
            <4> QED BY <4>1
        <3>5. NonceIsNew(nonce, replayProtector) BY <3>3, <3>4
        <3> QED BY <3>5, NewIffAcceptable DEF Abstract!Acceptable
    <2> QED BY <2>1, <2>2 DEF Next
<1>2. Spec => []IInv BY InitIInv, NextIInv, PTL DEF Spec
<1> QED BY <1>1, <1>2, PTL DEF Spec, NoNonceTwice

\* The offset and the bitfield implement the abstract window, for every window,
\* width and set of nonces.
THEOREM Refinement == Spec => ImplementsWindow
<1>1. Init => Abstract!WInit BY DEF Init, Abstract!WInit
<1>2. IInv /\ [Next]_vars => [Abstract!WNext]_(Abstract!wvars)
    <2> SUFFICES ASSUME IInv, [Next]_vars PROVE [Abstract!WNext]_(Abstract!wvars)
        OBVIOUS
    <2>1. CASE Reset
        BY <2>1 DEF Reset, Abstract!WNext, Abstract!Restart
    <2>2. ASSUME NEW nonce \in Nonces, CheckNonce(nonce) PROVE Abstract!WNext
        <3>1. CASE NonceIsNew(nonce, replayProtector)
            <4>1. Abstract!Accept(nonce)
                BY <2>2, <3>1, NewIffAcceptable DEF CheckNonce, Abstract!Accept
            <4> QED BY <4>1 DEF Abstract!WNext
        <3>2. CASE ~NonceIsNew(nonce, replayProtector)
            <4>0. NonceIsNew(nonce, replayProtector) = FALSE BY <3>2 DEF NonceIsNew
            <4>1. ~Abstract!Acceptable(nonce) BY <3>2, NewIffAcceptable
            <4>2. Abstract!Reject(nonce)
                BY <2>2, <4>0, <4>1 DEF CheckNonce, Abstract!Reject
            <4> QED BY <4>2 DEF Abstract!WNext
        <3> QED BY <3>1, <3>2
    <2>3. CASE UNCHANGED vars
        BY <2>3 DEF vars, Abstract!wvars
    <2> QED BY <2>1, <2>2, <2>3 DEF Next
<1>3. Spec => []IInv BY InitIInv, NextIInv, PTL DEF Spec
<1> QED BY <1>1, <1>2, <1>3, PTL DEF Spec, ImplementsWindow, Abstract!WSpec

=============================================================================
