---------------------------- MODULE ReplayWindow ----------------------------
(***************************************************************************)
(* What the replay protection of one session promises, with no bitfield:   *)
(* a nonce is let through exactly when it was not let through before and   *)
(* no nonce more than Window higher was.                                   *)
(***************************************************************************)
EXTENDS Integers

CONSTANTS Window, Nonces

VARIABLES
    accepted,  \* nonces let through since the session began
    verdict    \* the last call: its nonce and what it returned

wvars == <<accepted, verdict>>

Acceptable(nonce) ==
    /\ nonce \notin accepted
    /\ \A seen \in accepted : seen <= nonce + Window

Accept(nonce) ==
    /\ Acceptable(nonce)
    /\ accepted' = accepted \union {nonce}
    /\ verdict' = <<nonce, TRUE>>

Reject(nonce) ==
    /\ ~Acceptable(nonce)
    /\ verdict' = <<nonce, FALSE>>
    /\ UNCHANGED accepted

Restart ==
    /\ accepted' = {}
    /\ verdict' = <<>>

WInit == accepted = {} /\ verdict = <<>>

WNext ==
    \/ Restart
    \/ \E nonce \in Nonces : Accept(nonce) \/ Reject(nonce)

WSpec == WInit /\ [][WNext]_wvars

=============================================================================
