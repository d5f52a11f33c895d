----------------------------- MODULE CryptoAuth -----------------------------
(***************************************************************************)
(* The CryptoAuth session of crypto/CryptoAuth.c between two nodes, each   *)
(* with one wrapper for the other, over a network that delays, reorders,   *)
(* duplicates and loses packets: a packet that was sent stays there, to be *)
(* received any number of times or never.                                  *)
(*                                                                         *)
(* A wrapper is the part of struct CryptoAuth_Wrapper that the session     *)
(* logic reads.  The functions of the C file are operators from a wrapper  *)
(* to the wrapper they leave behind and the packets they send, so that an  *)
(* action is one whole call into CryptoAuth.  Every wrapper has            *)
(* authenticatePackets set, as in both places that create wrappers         *)
(* (net/DefaultInterfaceController.c:373, interface/SessionManager.c:98).  *)
(*                                                                         *)
(* Cryptography is symbolic: a private key and its public key are the same *)
(* term, and a box opens only with the secret it was sealed with.          *)
(***************************************************************************)
EXTENDS ReplayProtector, FiniteSets

CONSTANTS
    Node,         \* the two nodes
    GivenKey,     \* nodes that wrap their interface with the other's key
    RequireAuth,  \* nodes whose wrapper has requireAuth
    Passwords,    \* all passwords
    SetAuth,      \* [Node -> what CryptoAuth_setAuth may be given: passwords, NoPassword]
    Users,        \* [Node -> passwords it authorizes]
    NoPassword,
    NoNode,       \* herPerminentPubKey is zero
    Payload,      \* contents the upper layer sends, never of length 0
    Empty,        \* the content of length 0
    NonceMod,     \* 2^32 in the code: nextNonce is a uint32_t
    MaxTemp,      \* bound: temporary key pairs of one node in use at a time
    MaxNet,       \* bound: packets on the network
    MaxFaults     \* bound: timeouts and recreated sessions in a behaviour

ASSUME NodeAssumption ==
    /\ NoNode \notin Node
    /\ \A n \in Node : \E m \in Node : m # n /\ Node = {n, m}
ASSUME AuthAssumption ==
    /\ RequireAuth \subseteq Node
    /\ NoPassword \notin Passwords
    /\ SetAuth \in [Node -> SUBSET (Passwords \union {NoPassword})]
    /\ Users \in [Node -> SUBSET Passwords]
ASSUME PayloadAssumption == Empty \notin Payload
ASSUME BoundAssumption ==
    /\ NonceMod \in Nat /\ NonceMod > 8
    /\ MaxTemp \in Nat /\ MaxNet \in Nat /\ MaxFaults \in Nat

VARIABLES
    ca,     \* [Node -> wrapper]
    net,    \* packets on the network
    heard,  \* history: [Node -> data packets passed to the upper layer]
    faults  \* timeouts and recreated sessions so far

vars == <<ca, net, heard, faults>>

Peer(n) == CHOOSE m \in Node : m # n

-----------------------------------------------------------------------------
(* Keys, secrets and packets                                               *)

PermKey(n) == <<"key", n, 0>>
TempKey(n, i) == <<"key", n, i>>
TempKeys == {"key"} \X Node \X (1..MaxTemp + 1)
Keys == {"key"} \X Node \X (0..MaxTemp + 1)
NoKey == <<"zero", NoNode, 0>>

\* A secret with an end that is not a key of this system; nobody else has it.
Junk == <<"junk", NoNode, 0>>

\* The secret of a private key, a public key and a password hash or NULL.
getSharedSecret(private, public, passwordHash) ==
    IF {private, public} \subseteq Keys
    THEN <<"shared", {private, public}, passwordHash>>
    ELSE Junk

\* Bug: the final secret mixes the password in.
finalSecretWithPassword(w) == getSharedSecret(w.secret, w.tempKey, w.password)

\* Bug: the final secret is the handshake's.
finalSecretSkipped(w) == w.secret

\* The secret of the session the handshake of wrapper w leads to.
finalSecret(w) == getSharedSecret(w.secret, w.tempKey, NoPassword)

\* nonce UINT32_MAX: a request to be connected to.
ConnectToMe == NonceMod - 1

\* A packet: its nonce field, the permanent key and the password its header
\* shows, the secret its box is sealed with and the half of the 64 bit nonce
\* that holds the counter, and what is inside: a temporary key and the content.
Packet(nonce, from, auth, secret, half, temp, content) ==
    [nonce |-> nonce, from |-> from, auth |-> auth, secret |-> secret, half |-> half,
     temp |-> temp, content |-> content]

IsData(p) == p.nonce > 3 /\ p.secret # NoKey

Holds(secret, key) == secret = key \/ (secret[1] = "shared" /\ key \in secret[2])

InUse(key) ==
    \/ \E p \in net : p.temp = key \/ Holds(p.secret, key)
    \/ \E m \in Node : Holds(ca[m].secret, key) \/ Holds(ca[m].tempKey, key)
    \/ \E m \in Node : \E p \in heard[m] : Holds(p.secret, key)

\* Random_bytes: a key that is not in use, the lowest one to keep TLC's state
\* space small.
FreshKeys(n) ==
    {key \in TempKeys :
        /\ key[2] = n
        /\ ~InUse(key)
        /\ \A i \in 1..key[3] - 1 : InUse(TempKey(n, i))}

-----------------------------------------------------------------------------
(* The wrapper                                                             *)

\* CryptoAuth_wrapInterface and CryptoAuth_setAuth.
NewWrapper(n, password) ==
    [herKey      |-> IF n \in GivenKey THEN Peer(n) ELSE NoNode,
     password    |-> password,
     nextNonce   |-> 0,
     isInitiator |-> FALSE,
     secret      |-> NoKey,
     tempKey     |-> NoKey,
     replay      |-> ZeroProtector,
     buffered    |-> Empty,
     hasBuffered |-> FALSE,
     user        |-> NoPassword,
     idle        |-> FALSE]  \* has resetAfterInactivitySeconds passed?

knowHerKey(w) == w.herKey # NoNode

\* CryptoAuth_reset.
reset(w) == [w EXCEPT !.nextNonce = 0, !.isInitiator = FALSE, !.replay = ZeroProtector]

\* What CryptoAuth_getState does to the wrapper.
refresh(w) == IF w.idle THEN reset([w EXCEPT !.idle = FALSE]) ELSE w

\* What CryptoAuth_getState returns.
State(w) ==
    CASE w.nextNonce = 0 -> "NEW"
      [] w.nextNonce = 1 -> "HANDSHAKE1"
      [] w.nextNonce \in {2, 3} -> "HANDSHAKE2"
      [] w.nextNonce = 4 -> "HANDSHAKE3"
      [] OTHER -> "ESTABLISHED"

\* What a call leaves behind: the wrapper, the packets it handed to the wrapped
\* interface and whether it passed the message to the upper layer.
Result(w, sent, up) == [w |-> w, sent |-> sent, up |-> up]
Drop(w) == Result(w, {}, FALSE)

-----------------------------------------------------------------------------
(* Sending                                                                 *)

\* Without her key: keep the content for later and ask to be connected to.
genReverseHandshake(n, w, content) ==
    Result([w EXCEPT !.nextNonce = 0, !.buffered = content, !.hasBuffered = TRUE],
           {Packet(ConnectToMe, n, NoPassword, NoKey, FALSE, NoKey, Empty)},
           FALSE)

\* Bug: the public key is taken to be cached in state 3 as it is in state 1.
encryptedTempKeyCached(w, private) == IF w.nextNonce \in {1, 3} THEN w.tempKey ELSE private

\* The public key a handshake packet carries: the cached one in state 1, else the
\* one of the private key.
encryptedTempKey(w, private) == IF w.nextNonce = 1 THEN w.tempKey ELSE private

\* A hello (nextNonce 0), a repeated hello (1), a key (2) or a repeated key (3).
encryptHandshake(n, w, content, fresh) ==
    LET private == IF w.nextNonce \in {0, 2} THEN fresh ELSE w.secret
        public  == encryptedTempKey(w, private)
        hers    == IF w.nextNonce < 2 THEN PermKey(w.herKey) ELSE w.tempKey
        after   == IF w.nextNonce < 2
                   THEN [w EXCEPT !.secret = private, !.tempKey = public,
                                  !.isInitiator = TRUE, !.nextNonce = 1]
                   ELSE [w EXCEPT !.secret = private, !.nextNonce = 3]
    IN  IF ~knowHerKey(w)
        THEN genReverseHandshake(n, w, content)
        ELSE Result(after,
                    {Packet(w.nextNonce, n, w.password,
                            getSharedSecret(PermKey(n), hers, w.password),
                            FALSE, public, content)},
                    FALSE)

\* Bug: the counter stays.
encryptMessageNoIncrement(n, w, content) ==
    Result(w,
           {Packet(w.nextNonce, n, NoPassword, w.secret, w.isInitiator, NoKey, content)},
           FALSE)

encryptMessage(n, w, content) ==
    Result([w EXCEPT !.nextNonce = (@ + 1) % NonceMod],
           {Packet(w.nextNonce, n, NoPassword, w.secret, w.isInitiator, NoKey, content)},
           FALSE)

sendMessage(n, w, content, fresh) ==
    LET r == refresh(w)
    IN  CASE r.nextNonce < 4 -> encryptHandshake(n, r, content, fresh)
          [] r.nextNonce = 4 -> encryptMessage(n, [r EXCEPT !.secret = finalSecret(r)], content)
          [] OTHER -> encryptMessage(n, r, content)

-----------------------------------------------------------------------------
(* Receiving                                                               *)

callReceivedMessage(w) == Result([w EXCEPT !.idle = FALSE], {}, TRUE)

\* Bug: no replay check.
decryptMessageNoReplayCheck(w, p, secret) ==
    p.secret = secret /\ secret # Junk /\ p.half # w.isInitiator

\* Bug: both directions use the same nonces.
decryptMessageAnyDirection(w, p, secret) ==
    p.secret = secret /\ secret # Junk /\ NonceIsNew(p.nonce, w.replay)

\* Authenticated decryption, then the replay check.
decryptMessage(w, p, secret) ==
    /\ p.secret = secret /\ secret # Junk
    /\ p.half # w.isInitiator
    /\ NonceIsNew(p.nonce, w.replay)

\* The hash of the password the header names, NoPassword for NULL.
tryAuth(n, p) == IF p.auth \in Users[n] THEN p.auth ELSE NoPassword

\* What a hello or key that decrypted changes in the wrapper.
takeTempKey(n, w, p, nextNonce) ==
    [w EXCEPT !.user = tryAuth(n, p), !.tempKey = p.temp, !.nextNonce = nextNonce,
              !.herKey = p.from,
              !.isInitiator = IF nextNonce = 2 THEN FALSE ELSE @]

\* Bug: the window of the previous session stays.
acceptHandshakeKeepWindow(n, w, p, nextNonce, fresh) ==
    LET opened == takeTempKey(n, w, p, nextNonce)
        flush  == sendMessage(n, opened, w.buffered, fresh)
    IN  IF w.hasBuffered /\ p.content = Empty
        THEN Result([flush.w EXCEPT !.hasBuffered = FALSE], flush.sent, FALSE)
        ELSE callReceivedMessage(opened)

\* A hello or key that decrypted: take its temporary key, then send the
\* buffered message if there is one and the handshake packet is empty, or else
\* pass the content up.
acceptHandshake(n, w, p, nextNonce, fresh) ==
    LET opened == takeTempKey(n, w, p, nextNonce)
        flush  == sendMessage(n, opened, w.buffered, fresh)
    IN  IF w.hasBuffered /\ p.content = Empty
        THEN Result([flush.w EXCEPT !.hasBuffered = FALSE], flush.sent, FALSE)
        ELSE callReceivedMessage([opened EXCEPT !.replay = ZeroProtector])

\* Bug: requireAuth is not looked at.
authRefusedNever(n, p) == tryAuth(n, p) = NoPassword /\ p.auth # NoPassword

\* Is a handshake packet dropped for its authenticator?
authRefused(n, p) ==
    /\ tryAuth(n, p) = NoPassword
    /\ n \in RequireAuth \/ p.auth # NoPassword

\* Is it dropped for its permanent key?
keyRefused(w, p) ==
    p.from # w.herKey /\ ~(p.nonce < 2 /\ (~knowHerKey(w) \/ w.nextNonce = 0))

\* A data packet is a runt here: contents are shorter than a handshake header.
decryptHandshake(n, w, p, fresh) ==
    LET mine         == IF p.nonce < 2 THEN PermKey(n) ELSE w.secret
        sharedSecret == getSharedSecret(mine, PermKey(p.from), tryAuth(n, p))
        answered     == [w EXCEPT !.herKey = IF knowHerKey(w) THEN @ ELSE p.from,
                                  !.nextNonce = 0, !.user = NoPassword]
    IN  CASE IsData(p) -> Drop(w)
          [] ~IsData(p) /\ p.nonce = ConnectToMe /\ w.nextNonce < 2 /\ n \notin RequireAuth ->
                encryptHandshake(n, answered, Empty, fresh)
          [] OTHER ->
                IF \/ authRefused(n, p) \/ keyRefused(w, p)
                   \/ p.secret # sharedSecret \/ sharedSecret = Junk
                THEN Drop(w)
                ELSE acceptHandshake(n, w, p, IF p.nonce < 2 THEN 2 ELSE 4, fresh)

receiveMessage(n, w, p, fresh) ==
    LET final == finalSecret(w)
    IN  CASE w.nextNonce < 5 /\ p.nonce > 3 /\ p.nonce # ConnectToMe /\ knowHerKey(w) ->
                IF decryptMessage(w, p, final)
                THEN callReceivedMessage([w EXCEPT !.nextNonce = @ + 3, !.secret = final,
                                                   !.replay = FileNonce(p.nonce, @)])
                ELSE Drop(reset(w))
          [] w.nextNonce >= 5 /\ p.nonce > 4 ->
                IF decryptMessage(w, p, w.secret)
                THEN callReceivedMessage([w EXCEPT !.replay = FileNonce(p.nonce, @)])
                ELSE Drop(w)
          [] OTHER -> decryptHandshake(n, w, p, fresh)

-----------------------------------------------------------------------------
(* Actions                                                                 *)

Init ==
    /\ \E password \in [Node -> Passwords \union {NoPassword}] :
          /\ \A n \in Node : password[n] \in SetAuth[n]
          /\ ca = [n \in Node |-> NewWrapper(n, password[n])]
    /\ net = {}
    /\ heard = [n \in Node |-> {}]
    /\ faults = 0

\* The bounds: no key beyond MaxTemp is used and no more than MaxNet packets are left.
Within(n, r) == r.w.secret # TempKey(n, MaxTemp + 1) /\ Cardinality(net') <= MaxNet

\* The upper layer sends a message through the wrapper.  A wrapper that requires
\* authentication is made for a packet that came in and removed again if that
\* packet is refused (interface/MultiInterface.c:168): it never sends blindly.
Send(n, content, fresh) ==
    LET r == sendMessage(n, ca[n], content, fresh)
    IN  /\ n \in RequireAuth => knowHerKey(ca[n])
        /\ ca' = [ca EXCEPT ![n] = r.w]
        /\ net' = net \union r.sent
        /\ Within(n, r)
        /\ UNCHANGED <<heard, faults>>

\* A packet of the other node arrives.
Receive(n, p, fresh) ==
    LET r == receiveMessage(n, ca[n], p, fresh)
    IN  /\ p.from # n
        /\ ca' = [ca EXCEPT ![n] = r.w]
        /\ net' = net \union r.sent
        /\ Within(n, r)
        /\ heard' = IF r.up /\ IsData(p)
                    THEN [heard EXCEPT ![n] = @ \union {p}] ELSE heard
        /\ UNCHANGED faults

\* Someone asks for the state, which resets a session that has timed out.
GetState(n) ==
    /\ ca' = [ca EXCEPT ![n] = refresh(@)]
    /\ UNCHANGED <<net, heard, faults>>

Fault ==
    /\ faults < MaxFaults
    /\ faults' = faults + 1

\* resetAfterInactivitySeconds pass with nothing received.
Inactivity(n) ==
    /\ Fault
    /\ ca' = [ca EXCEPT ![n].idle = TRUE]
    /\ UNCHANGED <<net, heard>>

\* The upper layer forgets the session and wraps the interface anew.
Rewrap(n, password) ==
    /\ Fault
    /\ ca' = [ca EXCEPT ![n] = NewWrapper(n, password)]
    /\ UNCHANGED <<net, heard>>

\* SessionManager_getSession gives a key to a session that had none; its
\* wrappers never require authentication.
LearnKey(n) ==
    /\ n \notin RequireAuth
    /\ ~knowHerKey(ca[n])
    /\ ca' = [ca EXCEPT ![n].herKey = Peer(n)]
    /\ UNCHANGED <<net, heard, faults>>

Next ==
    \E n \in Node :
        \/ \E fresh \in FreshKeys(n) :
              \/ \E content \in Payload : Send(n, content, fresh)
              \/ \E p \in net : Receive(n, p, fresh)
        \/ GetState(n)
        \/ Inactivity(n)
        \/ \E password \in SetAuth[n] : Rewrap(n, password)
        \/ LearnKey(n)

Spec == Init /\ [][Next]_vars

-----------------------------------------------------------------------------
(* Properties                                                              *)

\* Temporary keys, or what a wrapper may hold instead of one.
SessionSecrets == {"shared"} \X (SUBSET TempKeys) \X {NoPassword}
Terms == TempKeys \union SessionSecrets \union {NoKey, Junk}
HandshakeSecrets == {"shared"} \X (SUBSET Keys) \X (Passwords \union {NoPassword})

Wrappers ==
    [herKey : Node \union {NoNode}, password : Passwords \union {NoPassword},
     nextNonce : 0..NonceMod - 1, isInitiator : BOOLEAN, secret : Terms, tempKey : Terms,
     replay : Protectors, buffered : Payload \union {Empty}, hasBuffered : BOOLEAN,
     user : Passwords \union {NoPassword}, idle : BOOLEAN]

Packets ==
    [nonce : 0..NonceMod - 1, from : Node, auth : Passwords \union {NoPassword},
     secret : Terms \union HandshakeSecrets, half : BOOLEAN, temp : Terms,
     content : Payload \union {Empty}]

\* A packet that is not a handshake packet is sealed with temporary keys only.
TypeOK ==
    /\ ca \in [Node -> Wrappers]
    /\ net \subseteq Packets
    /\ \A p \in net : p.nonce > 3 => p.secret \in Terms
    /\ heard \in [Node -> SUBSET Packets]
    /\ faults \in 0..MaxFaults

\* What makes DataOnce inductive.  An established session holds no temporary key;
\* no temporary key a node holds is part of a secret it was ever spoken to with; and
\* while it holds such a secret, its window knows every nonce heard with it.
EstablishedHoldsSecret ==
    \A n \in Node : ca[n].nextNonce > 4 => ca[n].secret \in SessionSecrets \union {Junk}

HeardKeysAreSpent ==
    \A n \in Node : \A p \in heard[n] :
        /\ p.secret \in SessionSecrets
        /\ p.nonce > 3
        /\ ca[n].secret \in TempKeys => ca[n].secret \notin p.secret[2]

HeardNoncesAreFiled ==
    \A n \in Node : \A p \in heard[n] :
        ca[n].nextNonce > 4 /\ ca[n].secret = p.secret => ~NonceIsNew(p.nonce, ca[n].replay)

IInv == TypeOK /\ EstablishedHoldsSecret /\ HeardKeysAreSpent /\ HeardNoncesAreFiled

\* A wrapper never takes anything but a temporary key of the other end for one,
\* although a repeated key packet recomputes its key from wrapper->secret
\* (crypto/CryptoAuth.c:465), which after a reset may hold a session's secret.
HerTempKeyIsTemporary ==
    \A n \in Node : ca[n].nextNonce > 1 => ca[n].tempKey \in TempKeys /\ ca[n].tempKey[2] = Peer(n)

\* No data packet is passed to the upper layer twice, whatever resets, new
\* handshakes and recreated sessions lie between its copies: a packet that was
\* passed up would not be passed up if it arrived now (decryptMessage and the
\* changes of wrapper->secret around it).
DataOnce ==
    \A n \in Node : \A p \in heard[n] : ~receiveMessage(n, ca[n], p, NoKey).up

\* Two ends established on one secret never both believe to be its initiator, or
\* both not to be: isInitiator selects the half of the nonce each end encrypts with.
RolesOpposed ==
    \A n \in Node :
        /\ State(ca[n]) = "ESTABLISHED"
        /\ State(ca[Peer(n)]) = "ESTABLISHED"
        /\ ca[n].secret = ca[Peer(n)].secret
        => ca[n].isInitiator # ca[Peer(n)].isInitiator

\* An established session encrypts with a secret that mixes a temporary key of
\* each end and no password, whichever way it became established (the
\* "finalSec" row of the table in crypto/CryptoAuth_pvt.h:57).
SessionKeyIsFinal ==
    \A n \in Node : State(ca[n]) = "ESTABLISHED" =>
        \E i, j \in 1..MaxTemp :
            ca[n].secret = <<"shared", {TempKey(n, i), TempKey(Peer(n), j)}, NoPassword>>

\* A wrapper that requires authentication leaves the first half of the handshake
\* only with a user it authorizes, and a reset or a second handshake never leaves
\* it with a session and no user.
SessionHasUser ==
    \A n \in RequireAuth : ca[n].nextNonce > 1 => ca[n].user \in Users[n]

\* The secret with which the wrapper would open a data packet.
OpenKey(w) ==
    IF w.nextNonce < 5 THEN finalSecret(w) ELSE w.secret

\* The nonce that a node will encrypt its next data packet with was never used with
\* that secret, in either direction ("a number which is used only once",
\* crypto/CryptoAuth.c:268): resets, handshakes, the restart of the counter at 4
\* and its wrap around never lead back to one.
NonceOnce ==
    \A n \in Node : \A p \in net :
        ca[n].nextNonce > 3 /\ IsData(p) /\ p.secret = OpenKey(ca[n])
            => <<p.nonce, p.half>> # <<ca[n].nextNonce, ca[n].isInitiator>>

\* A data packet of the current session that has not arrived yet and is not older
\* than the window.
IsDue(n, p) ==
    /\ IsData(p) /\ p.from # n /\ p \notin heard[n] /\ p.nonce # ConnectToMe
    /\ p.secret = OpenKey(ca[n]) /\ p.half # ca[n].isInitiator
    /\ \A q \in heard[n] : q.secret = p.secret => q.nonce <= p.nonce + Window

\* The window of one session never refuses a packet of the next: a packet that is
\* due is passed up, except that an established session takes a late packet number
\* 4, the initiator's first, for a handshake packet (crypto/CryptoAuth.c:872).
DueDataAccepted ==
    \A n \in Node : \A p \in net :
        IsDue(n, p) /\ (p.nonce > 4 \/ ca[n].nextNonce < 5)
            => receiveMessage(n, ca[n], p, NoKey).up

\* The comment at crypto/CryptoAuth.c:857: when a data packet is passed up, also the
\* one that ends the handshake, the session is established.
DeliveredEstablished ==
    [][\A n \in Node : heard'[n] # heard[n] => State(ca'[n]) = "ESTABLISHED"]_vars

=============================================================================
