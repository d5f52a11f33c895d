---------------------------- MODULE MCCryptoAuth ----------------------------
EXTENDS CryptoAuth, TLC

CONSTANTS alice, bob, pass, hi

\* A peering as DefaultInterfaceController makes it: alice connects with the
\* password bob gave her (or with none), bob waits for someone to.
PeeringSetAuth == (alice :> {pass, NoPassword}) @@ (bob :> {NoPassword})
PeeringUsers == (alice :> {}) @@ (bob :> {pass})

\* A session as SessionManager makes it: no passwords.
OpenSetAuth == [n \in Node |-> {NoPassword}]
OpenUsers == [n \in Node |-> {}]

=============================================================================
