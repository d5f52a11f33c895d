---------------------------- MODULE ReplayFilter ----------------------------
(***************************************************************************)
(* One session's use of its protector: decryptMessage() calls              *)
(* ReplayProtector_checkNonce for every packet that authenticates, in any  *)
(* order the network likes, and a reset or a new handshake clears it.      *)
(***************************************************************************)
EXTENDS ReplayProtector

CONSTANT Nonces  \* nonces that packets may carry

ASSUME NoncesAssumption == Nonces \subseteq Nat

VARIABLES
    replayProtector,
    accepted,  \* history: nonces let through since the last reset
    verdict    \* history: the last call's nonce and result

vars == <<replayProtector, accepted, verdict>>

Init ==
    /\ replayProtector = ZeroProtector
    /\ accepted = {}
    /\ verdict = <<>>

CheckNonce(nonce) ==
    LET isNew == NonceIsNew(nonce, replayProtector)
    IN  /\ replayProtector' = FileNonce(nonce, replayProtector)
        /\ accepted' = IF isNew THEN accepted \union {nonce} ELSE accepted
        /\ verdict' = <<nonce, isNew>>

\* Bug: only the bitfield is cleared.
ResetKeepsBase ==
    /\ replayProtector' = [replayProtector EXCEPT !.bitfield = {}]
    /\ accepted' = {}
    /\ verdict' = <<>>

\* Bits_memset(&replayProtector, 0, ...) of CryptoAuth_reset and decryptHandshake.
Reset ==
    /\ replayProtector' = ZeroProtector
    /\ accepted' = {}
    /\ verdict' = <<>>

Next == Reset \/ \E nonce \in Nonces : CheckNonce(nonce)

Spec == Init /\ [][Next]_vars

-----------------------------------------------------------------------------

\* The bitfield keeps to its Width bits and the nonces are those of packets.
TypeOK ==
    /\ replayProtector \in Protectors
    /\ accepted \subseteq Nonces
    /\ verdict \in {<<>>} \union (Nonces \X BOOLEAN)

\* The window reaches from baseOffset to baseOffset + Window; it covers every
\* accepted nonce from above and moves only to end at one of them.
WindowEndsAtHighest ==
    /\ \A nonce \in accepted : nonce <= replayProtector.baseOffset + Window
    /\ replayProtector.baseOffset > 0 => replayProtector.baseOffset + Window \in accepted

\* Inside the window the bitfield is an exact record of the nonces that
\* ReplayProtector_checkNonce accepted, and no bit above Window is ever set,
\* so that no shift can bring a stray bit into the window.
BitfieldIsExact ==
    /\ replayProtector.bitfield \subseteq 0..Window
    /\ \A i \in 0..Window :
          i \in replayProtector.bitfield <=> replayProtector.baseOffset + i \in accepted

\* The inductive invariant.
IInv == TypeOK /\ WindowEndsAtHighest /\ BitfieldIsExact

\* ReplayProtector_checkNonce returns true at most once for a nonce between two
\* resets, however far the window has moved in the meantime.
NoNonceTwice == [][\A nonce \in Nonces : verdict' = <<nonce, TRUE>> => nonce \notin accepted]_vars

Abstract == INSTANCE ReplayWindow

\* ReplayProtector_checkNonce implements the abstract window: it refuses every
\* nonce it accepted before, and refuses no other nonce that is at most Window
\* behind the highest one ("numbers less than 20 minus the highest seen nonce
\* will be dropped erroniously", crypto/ReplayProtector.h:32).
ImplementsWindow == Abstract!WSpec

=============================================================================
