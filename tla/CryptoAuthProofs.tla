-------------------------- MODULE CryptoAuthProofs --------------------------
(***************************************************************************)
(* Proofs about CryptoAuth for all nodes, passwords, windows and bounds:   *)
(* the types, that no data packet is passed up twice, what a session is    *)
(* made of, and that data that is due is not refused.                      *)
(***************************************************************************)
EXTENDS CryptoAuth, ReplayProtectorProofs, TLAPS

\* Packets a node may send: all but handshake packets are sealed with temporary keys.
Sendable == {p \in Packets : p.nonce > 3 => p.secret \in Terms}

\* How a call may change a wrapper w into v when it passes no data packet up: the
\* secret stays and the session does not become established, or is fresh, or is
\* the final one.
Evolves(w, v, fresh) ==
    \/ v.secret = w.secret /\ (v.nextNonce > 4 => w.nextNonce > 4 /\ v.replay = w.replay)
    \/ v.secret = fresh /\ v.nextNonce < 5
    \/ v.secret = Junk
    \/ v.secret \in SessionSecrets /\ w.secret \in TempKeys /\ w.secret \in v.secret[2]

\* The kinds of secrets do not overlap: what is a key of the system and what a wrapper
\* may hold is a temporary key (struct CryptoAuth_Wrapper.secret, CryptoAuth_pvt.h).
LEMMA SecretKinds ==
    /\ \A k \in Keys \intersect Terms : k \in TempKeys
    /\ \A s \in SessionSecrets : s \notin TempKeys /\ s # Junk /\ s # NoKey
    /\ Junk \notin TempKeys /\ NoKey \notin TempKeys
    /\ TempKeys \subseteq Keys
<1>1. \A k \in Keys : k[1] = "key" BY DEF Keys
<1>2. \A s \in SessionSecrets : s[1] = "shared" BY DEF SessionSecrets
<1>3. Junk[1] = "junk" /\ NoKey[1] = "zero" BY DEF Junk, NoKey
<1>4. TempKeys \subseteq Keys BY BoundAssumption DEF TempKeys, Keys
<1> QED BY <1>1, <1>2, <1>3, <1>4 DEF Terms

\* The final step of the handshake leaves a secret that holds the temporary key it
\* was made from, or one that nobody shares (CryptoAuth.c:599-607, 850-855).
LEMMA FinalSecretKind ==
    ASSUME NEW w \in Wrappers
    PROVE  /\ finalSecret(w) \in SessionSecrets \union {Junk}
           /\ finalSecret(w) # Junk => w.secret \in TempKeys /\ w.secret \in finalSecret(w)[2]
<1>1. w.secret \in Terms /\ w.tempKey \in Terms BY DEF Wrappers
<1>2. CASE {w.secret, w.tempKey} \subseteq Keys
    <2>1. w.secret \in TempKeys /\ w.tempKey \in TempKeys BY <1>1, <1>2, SecretKinds
    <2>2. finalSecret(w) = <<"shared", {w.secret, w.tempKey}, NoPassword>>
        BY <1>2 DEF finalSecret, getSharedSecret
    <2>3. {w.secret, w.tempKey} \in SUBSET TempKeys BY <2>1
    <2>4. finalSecret(w) \in SessionSecrets BY <2>2, <2>3 DEF SessionSecrets
    <2>5. finalSecret(w)[2] = {w.secret, w.tempKey} BY <2>2
    <2> QED BY <2>1, <2>4, <2>5
<1>3. CASE ~({w.secret, w.tempKey} \subseteq Keys)
    BY <1>3 DEF finalSecret, getSharedSecret
<1> QED BY <1>2, <1>3

\* A handshake packet without or with a password hash is sealed with a secret of
\* permanent and temporary keys (getSharedSecret, CryptoAuth.c:83-121).
LEMMA SharedSecretType ==
    ASSUME NEW private, NEW public, NEW hash \in Passwords \union {NoPassword}
    PROVE  getSharedSecret(private, public, hash) \in HandshakeSecrets \union {Junk}
BY DEF getSharedSecret, HandshakeSecrets

\* A handshake packet that is sent (CryptoAuth.c:376-554) is well formed and its wrapper
\* keeps its secret or takes the fresh one.
LEMMA EncryptHandshakeOK ==
    ASSUME NEW n \in Node, NEW w \in Wrappers, w.nextNonce < 4,
           NEW content \in Payload \union {Empty}, NEW fresh \in TempKeys
    PROVE  LET r == encryptHandshake(n, w, content, fresh)
           IN  r.w \in Wrappers /\ r.sent \subseteq Sendable /\ ~r.up /\ r.w.nextNonce < 5
               /\ r.w.secret \in {w.secret, fresh}
<1> DEFINE r == encryptHandshake(n, w, content, fresh)
<1> SUFFICES r.w \in Wrappers /\ r.sent \subseteq Sendable /\ ~r.up /\ r.w.nextNonce < 5
             /\ r.w.secret \in {w.secret, fresh}
    OBVIOUS
<1>1. NonceMod \in Nat /\ NonceMod > 8 /\ \A k \in 0..3 : k \in 0..NonceMod - 1
    BY BoundAssumption
<1>2. /\ w.nextNonce \in 0..3 /\ w.secret \in Terms /\ w.tempKey \in Terms
      /\ w.password \in Passwords \union {NoPassword}
      /\ w.herKey \in Node \union {NoNode}
    BY <1>1 DEF Wrappers
<1>3. fresh \in Terms /\ NoKey \in Terms /\ Junk \in Terms BY DEF Terms
<1>4. CASE ~knowHerKey(w)
    <2> DEFINE q == Packet(ConnectToMe, n, NoPassword, NoKey, FALSE, NoKey, Empty)
               v == [w EXCEPT !.nextNonce = 0, !.buffered = content, !.hasBuffered = TRUE]
    <2>1. r = [w |-> v, sent |-> {q}, up |-> FALSE]
        BY <1>4 DEF encryptHandshake, genReverseHandshake, Result
    <2>2. q \in Sendable
        BY <1>1, <1>3 DEF Packet, Packets, Sendable, ConnectToMe
    <2>3. 0 \in 0..NonceMod - 1 BY <1>1
    <2>4. v \in Wrappers BY <2>3 DEF Wrappers
    <2>5. v.nextNonce = 0 /\ v.secret = w.secret BY DEF Wrappers
    <2> HIDE DEF v, q, r
    <2> QED BY <2>1, <2>2, <2>4, <2>5
<1>5. CASE knowHerKey(w)
    <2> DEFINE private == IF w.nextNonce \in {0, 2} THEN fresh ELSE w.secret
               public  == encryptedTempKey(w, private)
               hers    == IF w.nextNonce < 2 THEN PermKey(w.herKey) ELSE w.tempKey
               secret  == getSharedSecret(PermKey(n), hers, w.password)
               v       == IF w.nextNonce < 2
                          THEN [w EXCEPT !.secret = private, !.tempKey = public,
                                         !.isInitiator = TRUE, !.nextNonce = 1]
                          ELSE [w EXCEPT !.secret = private, !.nextNonce = 3]
               q       == Packet(w.nextNonce, n, w.password, secret, FALSE, public, content)
    <2>1. r = [w |-> v, sent |-> {q}, up |-> FALSE]
        BY <1>5 DEF encryptHandshake, Result
    <2>2. private \in Terms /\ public \in Terms /\ private \in {w.secret, fresh}
        BY <1>2, <1>3 DEF encryptedTempKey
    <2>3. secret \in HandshakeSecrets \union {Junk} BY <1>2, SharedSecretType
    <2>4. q \in Sendable
        <3> HIDE DEF private, public, hers, secret
        <3>1. secret \in Terms \union HandshakeSecrets BY <2>3, <1>3
        <3> QED BY <1>1, <1>2, <2>2, <3>1 DEF Packet, Packets, Sendable
    <2>5. v \in Wrappers /\ v.nextNonce < 5 /\ v.secret = private
        <3> HIDE DEF private, public
        <3>1. 1 \in 0..NonceMod - 1 /\ 3 \in 0..NonceMod - 1 BY <1>1
        <3> DEFINE hello == [w EXCEPT !.secret = private, !.tempKey = public,
                                      !.isInitiator = TRUE, !.nextNonce = 1]
                   key   == [w EXCEPT !.secret = private, !.nextNonce = 3]
        <3>2. hello \in Wrappers BY <3>1, <2>2 DEF Wrappers
        <3>3. hello.nextNonce = 1 /\ hello.secret = private BY DEF Wrappers
        <3>4. key \in Wrappers BY <3>1, <2>2 DEF Wrappers
        <3>5. key.nextNonce = 3 /\ key.secret = private BY DEF Wrappers
        <3>6. v = hello \/ v = key OBVIOUS
        <3> HIDE DEF hello, key, v
        <3> QED BY <3>2, <3>3, <3>4, <3>5, <3>6
    <2> HIDE DEF v, q, r, private
    <2> QED BY <2>1, <2>2, <2>4, <2>5
<1> QED BY <1>4, <1>5

\* Resetting a wrapper (CryptoAuth.c:1052-1077) keeps its secret.
LEMMA RefreshOK ==
    ASSUME NEW w \in Wrappers
    PROVE  /\ refresh(w) \in Wrappers /\ reset(w) \in Wrappers
           /\ refresh(w).secret = w.secret /\ reset(w).secret = w.secret
           /\ reset(w).nextNonce = 0
           /\ refresh(w).nextNonce = 0 \/ refresh(w) = w
           /\ refresh(w).herKey = w.herKey
<1>1. 0 \in 0..NonceMod - 1 BY BoundAssumption
<1>2. ZeroProtector \in Protectors BY DEF ZeroProtector, Protectors
<1>3. \A u \in Wrappers : reset(u) \in Wrappers /\ reset(u).secret = u.secret
                          /\ reset(u).nextNonce = 0 /\ reset(u).herKey = u.herKey
    BY <1>1, <1>2 DEF reset, Wrappers
<1>4. [w EXCEPT !.idle = FALSE] \in Wrappers BY DEF Wrappers
<1>5. /\ [w EXCEPT !.idle = FALSE].secret = w.secret
      /\ [w EXCEPT !.idle = FALSE].herKey = w.herKey
    BY DEF Wrappers
<1>6. CASE w.idle BY <1>6, <1>3, <1>4, <1>5 DEF refresh
<1>7. CASE ~w.idle BY <1>7, <1>3 DEF refresh
<1> QED BY <1>6, <1>7

\* A data packet that is sent (CryptoAuth.c:556-574) leaves the secret as it is.
LEMMA EncryptMessageOK ==
    ASSUME NEW n \in Node, NEW w \in Wrappers, w.nextNonce > 3,
           NEW content \in Payload \union {Empty}
    PROVE  LET r == encryptMessage(n, w, content)
           IN  /\ r.w \in Wrappers /\ r.sent \subseteq Sendable /\ ~r.up
               /\ r.w.secret = w.secret /\ r.w.replay = w.replay
<1> DEFINE k == (w.nextNonce + 1) % NonceMod
           v == [w EXCEPT !.nextNonce = k]
           q == Packet(w.nextNonce, n, NoPassword, w.secret, w.isInitiator, NoKey, content)
           r == encryptMessage(n, w, content)
<1>1. NonceMod \in Nat /\ NonceMod > 8 BY BoundAssumption
<1>2. w.nextNonce \in 0..NonceMod - 1 /\ w.secret \in Terms /\ w.isInitiator \in BOOLEAN
    BY DEF Wrappers
<1>3. k \in 0..NonceMod - 1 BY <1>1, <1>2
<1>4. r = [w |-> v, sent |-> {q}, up |-> FALSE]
    <2>1. v = [w EXCEPT !.nextNonce = (@ + 1) % NonceMod] BY DEF Wrappers
    <2> QED BY <2>1 DEF encryptMessage, Result
<1>5. v \in Wrappers /\ v.secret = w.secret /\ v.replay = w.replay
    <2> HIDE DEF k
    <2> QED BY <1>3 DEF Wrappers
<1>6. q \in Sendable
    <2>1. NoKey \in Terms BY DEF Terms
    <2> QED BY <1>2, <2>1 DEF Packet, Packets, Sendable
<1> HIDE DEF v, q, r
<1> QED BY <1>4, <1>5, <1>6 DEF r

\* A message that is sent (CryptoAuth.c:576-614).
LEMMA SendMessageOK ==
    ASSUME NEW n \in Node, NEW w \in Wrappers,
           NEW content \in Payload \union {Empty}, NEW fresh \in TempKeys
    PROVE  LET r == sendMessage(n, w, content, fresh)
           IN  r.w \in Wrappers /\ r.sent \subseteq Sendable /\ ~r.up /\ Evolves(w, r.w, fresh)
<1> DEFINE u == refresh(w)
           r == sendMessage(n, w, content, fresh)
<1>1. u \in Wrappers /\ u.secret = w.secret /\ (u.nextNonce = 0 \/ u = w) BY RefreshOK
<1>2. u.nextNonce \in 0..NonceMod - 1 /\ NonceMod \in Nat
    BY <1>1, BoundAssumption DEF Wrappers
<1> HIDE DEF u
<1>3. CASE u.nextNonce < 4
    <2>1. r = encryptHandshake(n, u, content, fresh) BY <1>3 DEF sendMessage, u
    <2> HIDE DEF r
    <2>2. /\ r.w \in Wrappers /\ r.sent \subseteq Sendable /\ ~r.up
          /\ r.w.nextNonce < 5 /\ r.w.secret \in {u.secret, fresh}
        BY <1>1, <1>3, <2>1, EncryptHandshakeOK
    <2>3. r.w.nextNonce \in Int BY <2>2, <1>2 DEF Wrappers
    <2> QED BY <1>1, <2>2, <2>3 DEF Evolves, r
<1>4. CASE u.nextNonce = 4
    <2> DEFINE v == [u EXCEPT !.secret = finalSecret(u)]
    <2>1. r = encryptMessage(n, v, content) BY <1>4 DEF sendMessage, u
    <2>2. /\ finalSecret(u) \in SessionSecrets \union {Junk}
          /\ finalSecret(u) # Junk => u.secret \in TempKeys /\ u.secret \in finalSecret(u)[2]
        BY <1>1, FinalSecretKind
    <2>3. finalSecret(u) \in Terms BY <2>2 DEF Terms
    <2>4. v \in Wrappers /\ v.secret = finalSecret(u) /\ v.nextNonce = 4
        BY <1>1, <1>4, <2>3 DEF Wrappers
    <2> HIDE DEF v, r
    <2>5. v.nextNonce > 3 BY <2>4
    <2>6. /\ r.w \in Wrappers /\ r.sent \subseteq Sendable /\ ~r.up
          /\ r.w.secret = v.secret /\ r.w.replay = v.replay
        BY <2>1, <2>4, <2>5, EncryptMessageOK
    <2> QED BY <1>1, <2>2, <2>4, <2>6 DEF Evolves, r
<1>5. CASE u.nextNonce > 4
    <2>1. r = encryptMessage(n, u, content) BY <1>2, <1>5 DEF sendMessage, u
    <2>2. u = w BY <1>1, <1>5
    <2>3. w.nextNonce > 3 /\ w.nextNonce > 4 BY <1>2, <1>5, <2>2
    <2> HIDE DEF r
    <2>4. /\ r.w \in Wrappers /\ r.sent \subseteq Sendable /\ ~r.up
          /\ r.w.secret = w.secret /\ r.w.replay = w.replay
        BY <2>1, <2>2, <2>3, EncryptMessageOK
    <2> QED BY <2>3, <2>4 DEF Evolves, r
<1> QED BY <1>2, <1>3, <1>4, <1>5

\* A hello or key that is accepted (CryptoAuth.c:787-825).
LEMMA AcceptHandshakeOK ==
    ASSUME NEW n \in Node, NEW w \in Wrappers, NEW p \in Packets,
           NEW nextNonce \in {2, 4}, NEW fresh \in TempKeys
    PROVE  LET r == acceptHandshake(n, w, p, nextNonce, fresh)
           IN  r.w \in Wrappers /\ r.sent \subseteq Sendable /\ Evolves(w, r.w, fresh)
<1> DEFINE opened == takeTempKey(n, w, p, nextNonce)
           flush  == sendMessage(n, opened, w.buffered, fresh)
           r      == acceptHandshake(n, w, p, nextNonce, fresh)
<1>1. nextNonce \in 0..NonceMod - 1 /\ nextNonce < 5 /\ nextNonce \in Int BY BoundAssumption
<1>2. tryAuth(n, p) \in Passwords \union {NoPassword} BY DEF tryAuth, Packets
<1>3. p.temp \in Terms /\ p.from \in Node \union {NoNode} BY DEF Packets
<1>4. (IF nextNonce = 2 THEN FALSE ELSE w.isInitiator) \in BOOLEAN BY DEF Wrappers
<1>5. opened \in Wrappers
    <2> DEFINE role == IF nextNonce = 2 THEN FALSE ELSE w.isInitiator
               auth == tryAuth(n, p)
    <2>1. opened = [w EXCEPT !.user = auth, !.tempKey = p.temp, !.nextNonce = nextNonce,
                             !.herKey = p.from, !.isInitiator = role]
        BY DEF takeTempKey, Wrappers
    <2> HIDE DEF opened, role, auth
    <2>2. auth \in Passwords \union {NoPassword} /\ role \in BOOLEAN BY <1>2, <1>4 DEF auth, role
    <2> QED BY <1>1, <1>3, <2>1, <2>2 DEF Wrappers
<1>6. opened.secret = w.secret /\ opened.nextNonce = nextNonce
    BY DEF takeTempKey, Wrappers
<1> HIDE DEF opened
<1>7. CASE w.hasBuffered /\ p.content = Empty
    <2> DEFINE v == [flush.w EXCEPT !.hasBuffered = FALSE]
    <2>1. w.buffered \in Payload \union {Empty} BY DEF Wrappers
    <2>2. flush.w \in Wrappers /\ flush.sent \subseteq Sendable
          /\ Evolves(opened, flush.w, fresh)
        BY <1>5, <2>1, SendMessageOK
    <2> HIDE DEF flush
    <2>3. r = [w |-> v, sent |-> flush.sent, up |-> FALSE]
        BY <1>7 DEF acceptHandshake, Result, flush, opened
    <2>4. v \in Wrappers BY <2>2 DEF Wrappers
    <2>5. v.secret = flush.w.secret /\ v.nextNonce = flush.w.nextNonce
        BY <2>2 DEF Wrappers
    <2>6. Evolves(w, v, fresh)
        <3> HIDE DEF v
        <3> QED BY <1>1, <1>6, <2>2, <2>5 DEF Evolves
    <2> HIDE DEF r, v
    <2> QED BY <2>2, <2>3, <2>4, <2>6 DEF r
<1>8. CASE ~(w.hasBuffered /\ p.content = Empty)
    <2> DEFINE u == [opened EXCEPT !.replay = ZeroProtector]
               v == [u EXCEPT !.idle = FALSE]
    <2>1. r = [w |-> v, sent |-> {}, up |-> TRUE]
        BY <1>8 DEF acceptHandshake, callReceivedMessage, Result, opened
    <2>2. ZeroProtector \in Protectors BY DEF ZeroProtector, Protectors
    <2>3. u \in Wrappers BY <1>5, <2>2 DEF Wrappers
    <2>4. u.secret = opened.secret /\ u.nextNonce = opened.nextNonce BY <1>5 DEF Wrappers
    <2> HIDE DEF u
    <2>5. v \in Wrappers BY <2>3 DEF Wrappers
    <2>6. v.secret = u.secret /\ v.nextNonce = u.nextNonce BY <2>3 DEF Wrappers
    <2> HIDE DEF v, r
    <2>7. Evolves(w, v, fresh) BY <1>1, <1>6, <2>4, <2>6 DEF Evolves
    <2> QED BY <2>1, <2>5, <2>7 DEF r
<1> QED BY <1>7, <1>8

\* A handshake packet that comes in, refused or accepted (CryptoAuth.c:655-826).
LEMMA DecryptHandshakeOK ==
    ASSUME NEW n \in Node, NEW w \in Wrappers, NEW p \in Packets, NEW fresh \in TempKeys
    PROVE  LET r == decryptHandshake(n, w, p, fresh)
           IN  r.w \in Wrappers /\ r.sent \subseteq Sendable /\ Evolves(w, r.w, fresh)
<1> DEFINE r == decryptHandshake(n, w, p, fresh)
           mine         == IF p.nonce < 2 THEN PermKey(n) ELSE w.secret
           sharedSecret == getSharedSecret(mine, PermKey(p.from), tryAuth(n, p))
           refused  == \/ authRefused(n, p) \/ keyRefused(w, p)
                       \/ p.secret # sharedSecret \/ sharedSecret = Junk
           answered == [w EXCEPT !.herKey = IF knowHerKey(w) THEN @ ELSE p.from,
                                 !.nextNonce = 0, !.user = NoPassword]
           next     == IF p.nonce < 2 THEN 2 ELSE 4
           connect  == p.nonce = ConnectToMe /\ w.nextNonce < 2 /\ n \notin RequireAuth
<1>1. Drop(w).w = w /\ Drop(w).sent = {} /\ Evolves(w, w, fresh)
    BY DEF Drop, Result, Evolves
<1>2. CASE IsData(p)
    <2>1. r = Drop(w) BY <1>2 DEF decryptHandshake
    <2> QED BY <1>1, <2>1
<1>3. CASE ~IsData(p) /\ connect
    <2>1. r = encryptHandshake(n, answered, Empty, fresh) BY <1>3 DEF decryptHandshake
    <2>2. 0 \in 0..NonceMod - 1 BY BoundAssumption
    <2>3. (IF knowHerKey(w) THEN w.herKey ELSE p.from) \in Node \union {NoNode}
        BY DEF Wrappers, Packets
    <2>4. answered \in Wrappers BY <2>2, <2>3 DEF Wrappers
    <2>5. answered.nextNonce = 0 /\ answered.secret = w.secret BY DEF Wrappers
    <2> HIDE DEF answered, r
    <2>6. /\ r.w \in Wrappers /\ r.sent \subseteq Sendable
          /\ r.w.nextNonce < 5 /\ r.w.secret \in {answered.secret, fresh}
        BY <2>1, <2>4, <2>5, EncryptHandshakeOK
    <2>7. r.w.nextNonce \in Int BY <2>6, BoundAssumption DEF Wrappers
    <2> QED BY <2>5, <2>6, <2>7 DEF Evolves, r
<1>4. CASE ~IsData(p) /\ ~connect /\ refused
    <2>1. r = Drop(w) BY <1>4 DEF decryptHandshake
    <2> QED BY <1>1, <2>1
<1>5. CASE ~IsData(p) /\ ~connect /\ ~refused
    <2>1. r = acceptHandshake(n, w, p, next, fresh) BY <1>5 DEF decryptHandshake
    <2>2. next \in {2, 4} OBVIOUS
    <2> HIDE DEF next
    <2> QED BY <2>1, <2>2, AcceptHandshakeOK
<1> QED BY <1>2, <1>3, <1>4, <1>5

\* How a data packet p that is passed up changes the wrapper: it was sealed with the
\* secret the handshake leads to or with the session's, and its nonce is filed.
Hears(w, v, p) ==
    /\ v.secret = p.secret
    /\ p.secret \in SessionSecrets
    /\ p.nonce > 3
    /\ v.replay = FileNonce(p.nonce, w.replay)
    /\ \/ w.secret \in TempKeys /\ w.secret \in p.secret[2]
       \/ w.nextNonce > 4 /\ w.secret = p.secret

\* A data packet is passed up only when it opens and its nonce is new
\* (CryptoAuth.c:847-876).
LEMMA UpIsOpened ==
    ASSUME NEW n \in Node, NEW w \in Wrappers, NEW p \in Packets, NEW fresh,
           IsData(p), receiveMessage(n, w, p, fresh).up
    PROVE  /\ NonceIsNew(p.nonce, w.replay)
           /\ p.secret # Junk
           /\ \/ w.nextNonce < 5 /\ p.secret = finalSecret(w)
              \/ w.nextNonce > 4 /\ p.secret = w.secret
<1> DEFINE r      == receiveMessage(n, w, p, fresh)
           first  == w.nextNonce < 5 /\ p.nonce > 3 /\ p.nonce # ConnectToMe /\ knowHerKey(w)
           second == w.nextNonce >= 5 /\ p.nonce > 4
<1>1. w.nextNonce \in Int BY BoundAssumption DEF Wrappers
<1>2. ~Drop(w).up /\ ~Drop(reset(w)).up BY DEF Drop, Result
<1>3. CASE first
    <2>1. decryptMessage(w, p, finalSecret(w)) BY <1>1, <1>2, <1>3 DEF receiveMessage
    <2> QED BY <1>3, <2>1 DEF decryptMessage
<1>4. CASE second /\ ~first
    <2>1. decryptMessage(w, p, w.secret) BY <1>1, <1>2, <1>4 DEF receiveMessage
    <2> QED BY <1>1, <1>4, <2>1 DEF decryptMessage
<1>5. CASE ~first /\ ~second
    <2>1. r = decryptHandshake(n, w, p, fresh) BY <1>5 DEF receiveMessage
    <2>2. decryptHandshake(n, w, p, fresh) = Drop(w) BY DEF decryptHandshake
    <2> QED BY <1>2, <2>1, <2>2
<1> QED BY <1>3, <1>4, <1>5

\* A packet that comes in (CryptoAuth.c:828-884).
LEMMA ReceiveMessageOK ==
    ASSUME NEW n \in Node, NEW w \in Wrappers, NEW p \in Packets, NEW fresh \in TempKeys,
           w.nextNonce > 4 => w.secret \in SessionSecrets \union {Junk}
    PROVE  LET r == receiveMessage(n, w, p, fresh)
           IN  /\ r.w \in Wrappers
               /\ r.sent \subseteq Sendable
               /\ IF r.up /\ IsData(p) THEN Hears(w, r.w, p) ELSE Evolves(w, r.w, fresh)
<1> DEFINE r      == receiveMessage(n, w, p, fresh)
           first  == w.nextNonce < 5 /\ p.nonce > 3 /\ p.nonce # ConnectToMe /\ knowHerKey(w)
           second == w.nextNonce >= 5 /\ p.nonce > 4
           final  == finalSecret(w)
<1>1. NonceMod \in Nat /\ NonceMod > 8 BY BoundAssumption
<1>2. /\ w.nextNonce \in 0..NonceMod - 1 /\ w.secret \in Terms /\ w.replay \in Protectors
      /\ p.nonce \in 0..NonceMod - 1 /\ p.nonce \in Nat
    BY <1>1 DEF Wrappers, Packets
<1>3. FileNonce(p.nonce, w.replay) \in Protectors BY <1>2, FileNonceType
<1>4. /\ final \in SessionSecrets \union {Junk}
      /\ final # Junk => w.secret \in TempKeys /\ w.secret \in final[2]
    BY FinalSecretKind
<1>5. final \in Terms BY <1>4 DEF Terms
<1>6. CASE first /\ decryptMessage(w, p, final)
    <2> DEFINE k == w.nextNonce + 3
               u == [w EXCEPT !.nextNonce = k, !.secret = final,
                              !.replay = FileNonce(p.nonce, w.replay)]
               v == [u EXCEPT !.idle = FALSE]
    <2>1. k \in 0..NonceMod - 1 BY <1>1, <1>2, <1>6
    <2>2. u = [w EXCEPT !.nextNonce = @ + 3, !.secret = final,
                        !.replay = FileNonce(p.nonce, @)]
        BY DEF Wrappers
    <2>3. r = [w |-> v, sent |-> {}, up |-> TRUE]
        BY <1>2, <1>6, <2>2 DEF receiveMessage, callReceivedMessage, Result
    <2> HIDE DEF k, final
    <2>4. u \in Wrappers BY <2>1, <1>3, <1>5 DEF Wrappers
    <2>5. u.secret = final /\ u.replay = FileNonce(p.nonce, w.replay) BY DEF Wrappers
    <2> HIDE DEF u
    <2>6. v \in Wrappers BY <2>4 DEF Wrappers
    <2>7. v.secret = u.secret /\ v.replay = u.replay BY <2>4 DEF Wrappers
    <2>8. p.secret = final /\ final # Junk BY <1>6 DEF decryptMessage
    <2>9. IsData(p) BY <1>6, <1>4, <2>8, SecretKinds DEF IsData
    <2>10. Hears(w, v, p)
        <3> HIDE DEF v
        <3> QED BY <1>4, <1>6, <2>5, <2>7, <2>8 DEF Hears
    <2> HIDE DEF v, r
    <2> QED BY <2>3, <2>6, <2>9, <2>10 DEF r
<1>7. CASE first /\ ~decryptMessage(w, p, final)
    <2>1. r = [w |-> reset(w), sent |-> {}, up |-> FALSE]
        BY <1>2, <1>7 DEF receiveMessage, Drop, Result
    <2>2. reset(w) \in Wrappers /\ reset(w).secret = w.secret /\ reset(w).nextNonce = 0
        BY RefreshOK
    <2>3. Evolves(w, reset(w), fresh) BY <2>2 DEF Evolves
    <2> HIDE DEF r
    <2> QED BY <2>1, <2>2, <2>3 DEF r
<1>8. CASE ~first /\ second /\ decryptMessage(w, p, w.secret)
    <2> DEFINE u == [w EXCEPT !.replay = FileNonce(p.nonce, w.replay)]
               v == [u EXCEPT !.idle = FALSE]
    <2>1. u = [w EXCEPT !.replay = FileNonce(p.nonce, @)] BY DEF Wrappers
    <2>2. r = [w |-> v, sent |-> {}, up |-> TRUE]
        BY <1>8, <2>1, <1>2 DEF receiveMessage, callReceivedMessage, Result
    <2>3. u \in Wrappers BY <1>3 DEF Wrappers
    <2>4. u.secret = w.secret /\ u.replay = FileNonce(p.nonce, w.replay) BY DEF Wrappers
    <2> HIDE DEF u
    <2>5. v \in Wrappers BY <2>3 DEF Wrappers
    <2>6. v.secret = u.secret /\ v.replay = u.replay BY <2>3 DEF Wrappers
    <2>7. p.secret = w.secret /\ w.secret # Junk BY <1>8 DEF decryptMessage
    <2>8. w.nextNonce > 4 /\ p.nonce > 3 BY <1>2, <1>8
    <2>9. p.secret \in SessionSecrets BY <2>7, <2>8
    <2>10. IsData(p) BY <2>8, <2>9, SecretKinds DEF IsData
    <2>11. Hears(w, v, p)
        <3> HIDE DEF v
        <3> QED BY <2>4, <2>6, <2>7, <2>8, <2>9 DEF Hears
    <2> HIDE DEF v, r
    <2> QED BY <2>2, <2>5, <2>10, <2>11 DEF r
<1>9. CASE ~first /\ second /\ ~decryptMessage(w, p, w.secret)
    <2>1. r = [w |-> w, sent |-> {}, up |-> FALSE]
        BY <1>9, <1>2 DEF receiveMessage, Drop, Result
    <2>2. Evolves(w, w, fresh) BY DEF Evolves
    <2> HIDE DEF r
    <2> QED BY <2>1, <2>2 DEF r
<1>10. CASE ~first /\ ~second
    <2>1. r = decryptHandshake(n, w, p, fresh) BY <1>10 DEF receiveMessage
    <2>2. IsData(p) => ~r.up
        BY <2>1 DEF decryptHandshake, Drop, Result
    <2> HIDE DEF r
    <2>3. r.w \in Wrappers /\ r.sent \subseteq Sendable /\ Evolves(w, r.w, fresh)
        BY <2>1, DecryptHandshakeOK
    <2> QED BY <2>2, <2>3 DEF r
<1> QED BY <1>6, <1>7, <1>8, <1>9, <1>10

\* CryptoAuth_wrapInterface makes a wrapper with no secret (CryptoAuth.c:999-1033).
LEMMA NewWrapperOK ==
    ASSUME NEW n \in Node, NEW password \in Passwords \union {NoPassword}
    PROVE  /\ NewWrapper(n, password) \in Wrappers
           /\ NewWrapper(n, password).nextNonce = 0
           /\ NewWrapper(n, password).secret = NoKey
<1>1. 0 \in 0..NonceMod - 1 BY BoundAssumption
<1>2. ZeroProtector \in Protectors BY DEF ZeroProtector, Protectors
<1>3. (IF n \in GivenKey THEN Peer(n) ELSE NoNode) \in Node \union {NoNode}
    <2>1. \E m \in Node : m # n BY NodeAssumption
    <2>2. Peer(n) \in Node BY <2>1 DEF Peer
    <2> QED BY <2>2
<1>4. NoKey \in Terms BY DEF Terms
<1> QED BY <1>1, <1>2, <1>3, <1>4 DEF NewWrapper, Wrappers

\* A key that Random_bytes has just made is part of no secret heard before
\* (CryptoAuth.c:446-447).
LEMMA FreshIsUnheard ==
    ASSUME HeardKeysAreSpent, NEW n \in Node, NEW fresh \in FreshKeys(n), NEW m \in Node
    PROVE  fresh \in TempKeys /\ \A p \in heard[m] : fresh \notin p.secret[2]
<1>1. fresh \in TempKeys /\ ~InUse(fresh) BY DEF FreshKeys
<1>2. ASSUME NEW p \in heard[m] PROVE fresh \notin p.secret[2]
    <2>1. p.secret \in SessionSecrets BY DEF HeardKeysAreSpent
    <2>2. p.secret[1] = "shared" BY <2>1 DEF SessionSecrets
    <2>3. ~Holds(p.secret, fresh) BY <1>1 DEF InUse
    <2> QED BY <2>2, <2>3 DEF Holds
<1> QED BY <1>1, <1>2

\* Before the first packet nothing was heard.
LEMMA InitIInv == Init => IInv
<1> SUFFICES ASSUME Init PROVE IInv OBVIOUS
<1>1. PICK password \in [Node -> Passwords \union {NoPassword}] :
          ca = [n \in Node |-> NewWrapper(n, password[n])]
    BY DEF Init
<1>2. net = {} /\ heard = [n \in Node |-> {}] /\ faults = 0 BY DEF Init
<1>3. ASSUME NEW n \in Node PROVE ca[n] \in Wrappers /\ ca[n].nextNonce = 0
    BY <1>1, NewWrapperOK
<1>4. ca \in [Node -> Wrappers] BY <1>1, <1>3
<1>5. faults \in 0..MaxFaults BY <1>2, BoundAssumption
<1>6. TypeOK BY <1>2, <1>4, <1>5 DEF TypeOK
<1>7. EstablishedHoldsSecret BY <1>3 DEF EstablishedHoldsSecret
<1>8. HeardKeysAreSpent /\ HeardNoncesAreFiled
    BY <1>2 DEF HeardKeysAreSpent, HeardNoncesAreFiled
<1> QED BY <1>6, <1>7, <1>8 DEF IInv

\* A step that passes no data packet up keeps the invariant.
LEMMA EvolveKeeps ==
    ASSUME IInv, NEW n \in Node, NEW v \in Wrappers, NEW fresh,
           fresh \in TempKeys => \A p \in heard[n] : fresh \notin p.secret[2],
           fresh \in TempKeys \union {NoKey},
           Evolves(ca[n], v, fresh),
           ca' = [ca EXCEPT ![n] = v], net' \subseteq net \union Sendable, heard' = heard,
           faults' \in 0..MaxFaults
    PROVE  IInv'
<1>1. ca \in [Node -> Wrappers] BY DEF IInv, TypeOK
<1>2. ca' \in [Node -> Wrappers] /\ ca'[n] = v BY <1>1
<1>3. \A m \in Node : m # n => ca'[m] = ca[m] BY <1>1
<1>4. net' \subseteq Packets /\ \A p \in net' : p.nonce > 3 => p.secret \in Terms
    BY DEF IInv, TypeOK, Sendable
<1>5. heard' \in [Node -> SUBSET Packets] BY DEF IInv, TypeOK
<1>6. TypeOK' BY <1>2, <1>4, <1>5 DEF TypeOK
<1>7. v.nextNonce \in Int /\ ca[n].nextNonce \in Int
    BY <1>1, BoundAssumption DEF Wrappers
<1>8. v.nextNonce > 4 => v.secret \in SessionSecrets \union {Junk}
    BY <1>7 DEF Evolves, IInv, EstablishedHoldsSecret
<1>9. EstablishedHoldsSecret'
    <2>1. ASSUME NEW m \in Node
          PROVE  ca'[m].nextNonce > 4 => ca'[m].secret \in SessionSecrets \union {Junk}
        BY <1>2, <1>3, <1>8 DEF IInv, EstablishedHoldsSecret
    <2> QED BY <2>1 DEF EstablishedHoldsSecret
<1>10. ASSUME NEW p \in heard[n]
       PROVE  /\ v.secret \in TempKeys => v.secret \notin p.secret[2]
              /\ v.nextNonce > 4 /\ v.secret = p.secret => ~NonceIsNew(p.nonce, v.replay)
    <2>1. p.secret \in SessionSecrets /\ (ca[n].secret \in TempKeys => ca[n].secret \notin p.secret[2])
        BY DEF IInv, HeardKeysAreSpent
    <2>2. CASE v.secret = ca[n].secret
               /\ (v.nextNonce > 4 => ca[n].nextNonce > 4 /\ v.replay = ca[n].replay)
        BY <2>1, <2>2 DEF IInv, HeardNoncesAreFiled
    <2>3. CASE v.secret = fresh /\ v.nextNonce < 5
        BY <1>7, <2>3
    <2>4. CASE v.secret = Junk
        BY <2>1, <2>4, SecretKinds
    <2>5. CASE v.secret \in SessionSecrets /\ ca[n].secret \in TempKeys /\ ca[n].secret \in v.secret[2]
        BY <2>1, <2>5, SecretKinds
    <2> QED BY <2>2, <2>3, <2>4, <2>5 DEF Evolves
<1>11. HeardKeysAreSpent'
    <2>1. ASSUME NEW m \in Node, NEW p \in heard[m]
          PROVE  /\ p.secret \in SessionSecrets /\ p.nonce > 3
                 /\ ca'[m].secret \in TempKeys => ca'[m].secret \notin p.secret[2]
        BY <1>2, <1>3, <1>10 DEF IInv, HeardKeysAreSpent
    <2> QED BY <2>1 DEF HeardKeysAreSpent
<1>12. HeardNoncesAreFiled'
    <2>1. ASSUME NEW m \in Node, NEW p \in heard[m]
          PROVE  ca'[m].nextNonce > 4 /\ ca'[m].secret = p.secret
                     => ~NonceIsNew(p.nonce, ca'[m].replay)
        BY <1>2, <1>3, <1>10 DEF IInv, HeardNoncesAreFiled
    <2> QED BY <2>1 DEF HeardNoncesAreFiled
<1> QED BY <1>6, <1>9, <1>11, <1>12 DEF IInv

\* A step that passes a data packet up keeps the invariant: the packet's nonce is
\* filed and the temporary key that opened it is gone (CryptoAuth.c:862-876).
LEMMA HearKeeps ==
    ASSUME IInv, NEW n \in Node, NEW v \in Wrappers, NEW p \in Packets,
           Hears(ca[n], v, p),
           ca' = [ca EXCEPT ![n] = v], net' \subseteq net \union Sendable,
           heard' = [heard EXCEPT ![n] = @ \union {p}],
           faults' \in 0..MaxFaults
    PROVE  IInv'
<1>1. ca \in [Node -> Wrappers] /\ heard \in [Node -> SUBSET Packets] BY DEF IInv, TypeOK
<1>2. ca' \in [Node -> Wrappers] /\ ca'[n] = v BY <1>1
<1>3. \A m \in Node : m # n => ca'[m] = ca[m] /\ heard'[m] = heard[m] BY <1>1
<1>4. net' \subseteq Packets /\ \A q \in net' : q.nonce > 3 => q.secret \in Terms
    BY DEF IInv, TypeOK, Sendable
<1>5. heard' \in [Node -> SUBSET Packets] /\ heard'[n] = heard[n] \union {p} BY <1>1
<1>6. TypeOK' BY <1>2, <1>4, <1>5 DEF TypeOK
<1>7. v.secret \in SessionSecrets /\ v.secret \notin TempKeys BY SecretKinds DEF Hears
<1>8. EstablishedHoldsSecret'
    <2>1. ASSUME NEW m \in Node
          PROVE  ca'[m].nextNonce > 4 => ca'[m].secret \in SessionSecrets \union {Junk}
        BY <1>2, <1>3, <1>7 DEF IInv, EstablishedHoldsSecret
    <2> QED BY <2>1 DEF EstablishedHoldsSecret
<1>9. HeardKeysAreSpent'
    <2>1. ASSUME NEW m \in Node, NEW q \in heard'[m]
          PROVE  /\ q.secret \in SessionSecrets /\ q.nonce > 3
                 /\ ca'[m].secret \in TempKeys => ca'[m].secret \notin q.secret[2]
        <3>1. CASE m # n
            BY <3>1, <1>3 DEF IInv, HeardKeysAreSpent
        <3>2. CASE m = n /\ q = p
            BY <3>2, <1>2, <1>7 DEF Hears
        <3>3. CASE m = n /\ q # p
            <4>1. q \in heard[n] BY <3>3, <1>5
            <4> QED BY <3>3, <4>1, <1>2, <1>7 DEF IInv, HeardKeysAreSpent
        <3> QED BY <3>1, <3>2, <3>3
    <2> QED BY <2>1 DEF HeardKeysAreSpent
<1>10. HeardNoncesAreFiled'
    <2>1. ca[n].replay \in Protectors /\ p.nonce \in Nat
        BY <1>1, BoundAssumption DEF Wrappers, Packets
    <2>2. ~NonceIsNew(p.nonce, v.replay) BY <2>1, FiledIsRefused DEF Hears
    <2>3. ASSUME NEW q \in heard[n], v.secret = q.secret
          PROVE  ~NonceIsNew(q.nonce, v.replay)
        <3>1. q.nonce \in Nat BY <1>1, BoundAssumption DEF Packets
        <3>2. ~(ca[n].secret \in TempKeys /\ ca[n].secret \in p.secret[2])
            BY <2>3 DEF Hears, IInv, HeardKeysAreSpent
        <3>3. ca[n].nextNonce > 4 /\ ca[n].secret = p.secret BY <3>2 DEF Hears
        <3>4. ~NonceIsNew(q.nonce, ca[n].replay)
            BY <2>3, <3>3 DEF Hears, IInv, HeardNoncesAreFiled
        <3> QED BY <2>1, <3>1, <3>4, RefusedStaysRefused DEF Hears
    <2>4. ASSUME NEW m \in Node, NEW q \in heard'[m]
          PROVE  ca'[m].nextNonce > 4 /\ ca'[m].secret = q.secret
                     => ~NonceIsNew(q.nonce, ca'[m].replay)
        <3>1. CASE m # n
            BY <3>1, <1>3 DEF IInv, HeardNoncesAreFiled
        <3>2. CASE m = n
            BY <3>2, <1>2, <1>5, <2>2, <2>3
        <3> QED BY <3>1, <3>2
    <2> QED BY <2>4 DEF HeardNoncesAreFiled
<1> QED BY <1>6, <1>8, <1>9, <1>10 DEF IInv

\* Every action keeps the invariant.
LEMMA NextIInv == IInv /\ [Next]_vars => IInv'
<1> SUFFICES ASSUME IInv, [Next]_vars PROVE IInv' OBVIOUS
<1>1. /\ ca \in [Node -> Wrappers] /\ net \subseteq Packets
      /\ heard \in [Node -> SUBSET Packets] /\ faults \in 0..MaxFaults
      /\ HeardKeysAreSpent /\ EstablishedHoldsSecret
    BY DEF IInv, TypeOK
<1>2. ASSUME NEW n \in Node, NEW fresh \in FreshKeys(n), NEW content \in Payload,
             Send(n, content, fresh)
      PROVE  IInv'
    <2>1. LET r == sendMessage(n, ca[n], content, fresh)
          IN  /\ ca' = [ca EXCEPT ![n] = r.w] /\ net' = net \union r.sent
              /\ UNCHANGED <<heard, faults>>
        BY <1>2 DEF Send
    <2> DEFINE r == sendMessage(n, ca[n], content, fresh)
    <2>2. fresh \in TempKeys /\ \A p \in heard[n] : fresh \notin p.secret[2]
        BY <1>1, FreshIsUnheard
    <2>3. ca[n] \in Wrappers /\ content \in Payload \union {Empty} BY <1>1
    <2>4. r.w \in Wrappers /\ r.sent \subseteq Sendable /\ Evolves(ca[n], r.w, fresh)
        BY <2>2, <2>3, SendMessageOK
    <2>5. ca' = [ca EXCEPT ![n] = r.w] /\ net' = net \union r.sent /\ heard' = heard
          /\ faults' = faults
        BY <2>1
    <2> HIDE DEF r
    <2> QED BY <1>1, <2>2, <2>4, <2>5, EvolveKeeps
<1>3. ASSUME NEW n \in Node, NEW fresh \in FreshKeys(n), NEW p \in net,
             Receive(n, p, fresh)
      PROVE  IInv'
    <2>1. LET r == receiveMessage(n, ca[n], p, fresh)
          IN  /\ ca' = [ca EXCEPT ![n] = r.w] /\ net' = net \union r.sent
              /\ heard' = IF r.up /\ IsData(p)
                          THEN [heard EXCEPT ![n] = @ \union {p}] ELSE heard
              /\ UNCHANGED faults
        BY <1>3 DEF Receive
    <2> DEFINE r == receiveMessage(n, ca[n], p, fresh)
    <2>2. fresh \in TempKeys /\ \A q \in heard[n] : fresh \notin q.secret[2]
        BY <1>1, FreshIsUnheard
    <2>3. ca[n] \in Wrappers /\ p \in Packets BY <1>1
    <2>4. ca[n].nextNonce > 4 => ca[n].secret \in SessionSecrets \union {Junk}
        BY <1>1 DEF EstablishedHoldsSecret
    <2>5. /\ r.w \in Wrappers /\ r.sent \subseteq Sendable
          /\ IF r.up /\ IsData(p) THEN Hears(ca[n], r.w, p) ELSE Evolves(ca[n], r.w, fresh)
        BY <2>2, <2>3, <2>4, ReceiveMessageOK
    <2>6. /\ ca' = [ca EXCEPT ![n] = r.w] /\ net' = net \union r.sent
          /\ heard' = IF r.up /\ IsData(p)
                      THEN [heard EXCEPT ![n] = @ \union {p}] ELSE heard
          /\ faults' = faults
        BY <2>1
    <2> HIDE DEF r
    <2>7. CASE r.up /\ IsData(p) BY <1>1, <2>3, <2>5, <2>6, <2>7, HearKeeps
    <2>8. CASE ~(r.up /\ IsData(p)) BY <1>1, <2>2, <2>5, <2>6, <2>8, EvolveKeeps
    <2> QED BY <2>7, <2>8
<1>4. NoKey \notin TempKeys BY SecretKinds
<1>5. ASSUME NEW n \in Node, NEW v \in Wrappers, Evolves(ca[n], v, NoKey),
             ca' = [ca EXCEPT ![n] = v], net' = net, heard' = heard, faults' \in 0..MaxFaults
      PROVE  IInv'
    BY <1>4, <1>5, EvolveKeeps
<1>6. Fault => faults' \in 0..MaxFaults BY <1>1, BoundAssumption DEF Fault
<1>7. ASSUME NEW n \in Node, GetState(n) PROVE IInv'
    <2>1. ca[n] \in Wrappers BY <1>1
    <2>2. /\ refresh(ca[n]) \in Wrappers /\ refresh(ca[n]).secret = ca[n].secret
          /\ refresh(ca[n]).nextNonce = 0 \/ refresh(ca[n]) = ca[n]
        BY <2>1, RefreshOK
    <2>3. Evolves(ca[n], refresh(ca[n]), NoKey) BY <2>2 DEF Evolves
    <2>4. ca' = [ca EXCEPT ![n] = refresh(ca[n])] /\ UNCHANGED <<net, heard, faults>>
        BY <1>1, <1>7 DEF GetState
    <2> QED BY <1>1, <1>5, <2>2, <2>3, <2>4
<1>8. ASSUME NEW n \in Node, Inactivity(n) PROVE IInv'
    <2> DEFINE v == [ca[n] EXCEPT !.idle = TRUE]
    <2>1. ca[n] \in Wrappers BY <1>1
    <2>2. v \in Wrappers BY <2>1 DEF Wrappers
    <2>3. v.secret = ca[n].secret /\ v.nextNonce = ca[n].nextNonce /\ v.replay = ca[n].replay
        BY <2>1 DEF Wrappers
    <2>4. ca' = [ca EXCEPT ![n] = v] /\ UNCHANGED <<net, heard>> /\ Fault
        BY <1>1, <1>8 DEF Inactivity
    <2> HIDE DEF v
    <2>5. Evolves(ca[n], v, NoKey) BY <2>3 DEF Evolves
    <2> QED BY <1>5, <1>6, <2>2, <2>4, <2>5
<1>9. ASSUME NEW n \in Node, NEW password \in SetAuth[n], Rewrap(n, password) PROVE IInv'
    <2>1. password \in Passwords \union {NoPassword} BY AuthAssumption
    <2>2. /\ NewWrapper(n, password) \in Wrappers
          /\ NewWrapper(n, password).nextNonce = 0 /\ NewWrapper(n, password).secret = NoKey
        BY <2>1, NewWrapperOK
    <2>3. Evolves(ca[n], NewWrapper(n, password), NoKey) BY <2>2 DEF Evolves
    <2>4. ca' = [ca EXCEPT ![n] = NewWrapper(n, password)] /\ UNCHANGED <<net, heard>> /\ Fault
        BY <1>9 DEF Rewrap
    <2> QED BY <1>5, <1>6, <2>2, <2>3, <2>4
<1>10. ASSUME NEW n \in Node, LearnKey(n) PROVE IInv'
    <2> DEFINE v == [ca[n] EXCEPT !.herKey = Peer(n)]
    <2>1. ca[n] \in Wrappers BY <1>1
    <2>2. \E m \in Node : m # n BY NodeAssumption
    <2>3. Peer(n) \in Node BY <2>2 DEF Peer
    <2>4. v \in Wrappers BY <2>1, <2>3 DEF Wrappers
    <2>5. v.secret = ca[n].secret /\ v.nextNonce = ca[n].nextNonce /\ v.replay = ca[n].replay
        BY <2>1 DEF Wrappers
    <2>6. ca' = [ca EXCEPT ![n] = v] /\ UNCHANGED <<net, heard, faults>>
        BY <1>1, <1>10 DEF LearnKey
    <2> HIDE DEF v
    <2>7. Evolves(ca[n], v, NoKey) BY <2>5 DEF Evolves
    <2> QED BY <1>1, <1>5, <2>4, <2>6, <2>7
<1>11. CASE UNCHANGED vars
    BY <1>11 DEF vars, IInv, TypeOK, EstablishedHoldsSecret, HeardKeysAreSpent,
       HeardNoncesAreFiled
<1> QED BY <1>2, <1>3, <1>7, <1>8, <1>9, <1>10, <1>11 DEF Next

\* Every wrapper and packet stays well formed, and a data packet is sealed with
\* temporary keys only (or with a secret that nobody shares): no permanent key and no
\* password is ever part of the secret that encryptMessage uses.
THEOREM TypeCorrect == Spec => []TypeOK
<1>1. IInv => TypeOK BY DEF IInv
<1> QED BY <1>1, InitIInv, NextIInv, PTL DEF Spec

\* The invariant says that a data packet that was passed up would now be refused.
LEMMA IInvDataOnce == IInv => DataOnce
<1> SUFFICES ASSUME IInv, NEW n \in Node, NEW p \in heard[n],
                    receiveMessage(n, ca[n], p, NoKey).up
             PROVE  FALSE
    BY DEF DataOnce
<1>1. ca[n] \in Wrappers /\ p \in Packets BY DEF IInv, TypeOK
<1>2. /\ p.secret \in SessionSecrets /\ p.nonce > 3
      /\ ca[n].secret \in TempKeys => ca[n].secret \notin p.secret[2]
    BY DEF IInv, HeardKeysAreSpent
<1>3. IsData(p) BY <1>2, SecretKinds DEF IsData
<1>4. /\ NonceIsNew(p.nonce, ca[n].replay)
      /\ p.secret # Junk
      /\ \/ ca[n].nextNonce < 5 /\ p.secret = finalSecret(ca[n])
         \/ ca[n].nextNonce > 4 /\ p.secret = ca[n].secret
    BY <1>1, <1>3, UpIsOpened
<1>5. CASE p.secret = finalSecret(ca[n])
    BY <1>1, <1>2, <1>4, <1>5, FinalSecretKind
<1>6. CASE ca[n].nextNonce > 4 /\ p.secret = ca[n].secret
    BY <1>4, <1>6 DEF IInv, HeardNoncesAreFiled
<1> QED BY <1>4, <1>5, <1>6

\* No data packet is passed to the upper layer twice (decryptMessage and every change
\* of wrapper->secret and wrapper->replayProtector around it), for every window,
\* counter width, number of keys, timeouts and recreated sessions.
THEOREM DataPassedUpOnce == Spec => []DataOnce
BY IInvDataOnce, InitIInv, NextIInv, PTL DEF Spec

-----------------------------------------------------------------------------
(***************************************************************************)
(* Sessions: which keys one is made of, that one which requires a user has *)
(* one, that the two ends of a session have opposed roles, and that no     *)
(* nonce is used twice with one secret.                                    *)
(*                                                                         *)
(* A call into CryptoAuth may be two moves of the handshake, one after the *)
(* other (a handshake packet is taken and the buffered message sent, or a  *)
(* timeout is noticed and a hello sent).  The invariants are therefore     *)
(* predicates of the wrappers c and the packets N, so that each move keeps *)
(* them on its own, also the first of two.                                 *)
(***************************************************************************)

\* Temporary keys that node n may come to use, and the secrets of two of them.
Own(n) == {TempKey(n, i) : i \in 1..MaxTemp}
Final(a, b) == <<"shared", {a, b}, NoPassword>>
FinalOf(n) == {Final(a, b) : a \in Own(n), b \in Own(Peer(n))}

\* Key is part of nothing that anybody has or could receive.
Unused(key, c, N) ==
    /\ \A p \in N : p.temp # key /\ ~Holds(p.secret, key)
    /\ \A m \in Node : ~Holds(c[m].secret, key) /\ ~Holds(c[m].tempKey, key)

\* What a wrapper holds in each state of the handshake (the table in CryptoAuth_pvt.h:45-65,
\* and the states the table does not have: 3 with a session's secret, after a late data packet).
HoldsItsKeys(n, w) ==
    /\ w.secret \in Own(n) \union FinalOf(n) \union {NoKey}
    /\ w.tempKey \in Own(n) \union Own(Peer(n)) \union {NoKey}
    /\ w.nextNonce = 1 => w.secret \in Own(n) /\ w.tempKey = w.secret
    /\ w.nextNonce > 1 => w.tempKey \in Own(Peer(n))
    /\ w.nextNonce = 3 => w.secret \in Own(n) \union FinalOf(n)
    /\ w.nextNonce = 4 => w.secret \in Own(n)
    /\ w.nextNonce > 4 => w.secret \in FinalOf(n)
    /\ n \in RequireAuth /\ w.user \notin Users[n] => w.nextNonce < 2 /\ w.tempKey \notin Own(Peer(n))

\* What is on the network: data sealed with a final secret; hellos with a temporary key;
\* key packets, sealed with a temporary key of the other end and with a temporary key inside,
\* or else with nothing that the other end would ever open.
SoundPacket(p, c) ==
    LET n == p.from
    IN  /\ p.nonce > 3 => p.secret \in FinalOf(n) \union {NoKey}
        /\ p.nonce < 2 => p.temp \in Own(n)
        /\ p.nonce \in {2, 3} =>
              /\ \E a \in Own(Peer(n)), auth \in Passwords \union {NoPassword} :
                    p.secret = <<"shared", {PermKey(n), a}, auth>>
              /\ p.temp \in Own(n) \/ ~Holds(p.secret, c[Peer(n)].secret)

\* A key that a node has used in a session is never its key again.
SentKeysAreSpent(c, N) ==
    \A p \in N : IsData(p) => ~Holds(p.secret, c[p.from].secret) \/ c[p.from].secret = p.secret

KeyInv(c, N) ==
    /\ \A n \in Node : HoldsItsKeys(n, c[n])
    /\ \A p \in N : SoundPacket(p, c)
    /\ SentKeysAreSpent(c, N)
    /\ \A n \in Node : c[n].nextNonce = 3 /\ c[n].secret \notin Own(n) => c[Peer(n)].secret # c[n].tempKey

\* Node n has sent its key a for the key b of the other end.
Keyed(n, a, b, N) ==
    \E p \in N : p.nonce \in {2, 3} /\ p.from = n /\ p.temp = a /\ Holds(p.secret, b)

\* The first data of secret s is from n: the other end has sent its key for that of n.
Leads(n, s, N) ==
    \E a \in Own(n), b \in Own(Peer(n)) : s = Final(a, b) /\ Keyed(Peer(n), b, a, N)

\* Data of node n with secret s and its counter in half h of the nonce.
DataSent(n, s, h, N) ==
    \E p \in N : IsData(p) /\ p.from = n /\ p.secret = s /\ p.half = h

\* A session's data is from the end that leads it, or in answer to data of that end in the
\* other half of the nonces.
Answered(n, s, h, N) ==
    \/ Leads(n, s, N)
    \/ Leads(Peer(n), s, N) /\ DataSent(Peer(n), s, ~h, N)

\* How node n with wrapper w came to where it is: a wrapper that waits for the answer to its
\* key has sent that key, one that has got the answer got it from the other end, and one with
\* a session leads it or was spoken to, and has counted all that it sent.
HasRole(n, w, N) ==
    /\ w.nextNonce = 3 /\ w.secret \in Own(n) => Keyed(n, w.secret, w.tempKey, N)
    /\ w.nextNonce = 4 => Keyed(Peer(n), w.tempKey, w.secret, N)
    /\ w.nextNonce > 4 =>
          /\ Answered(n, w.secret, w.isInitiator, N)
          /\ Leads(n, w.secret, N) => DataSent(n, w.secret, w.isInitiator, N)
          /\ \A p \in N : IsData(p) /\ p.from = n /\ p.secret = w.secret
                            => p.nonce < w.nextNonce /\ p.half = w.isInitiator

RoleInv(c, N) ==
    /\ \A n \in Node : \A s \in FinalOf(n) : ~(Leads(n, s, N) /\ Leads(Peer(n), s, N))
    /\ \A p \in N : IsData(p) => Answered(p.from, p.secret, p.half, N)
    /\ \A p, q \in N : IsData(p) /\ IsData(q) /\ p.from = q.from /\ p.secret = q.secret
                          => p.half = q.half
    /\ \A n \in Node : HasRole(n, c[n], N)

-----------------------------------------------------------------------------
(* Nodes, keys and secrets                                                 *)

\* There are two nodes (the two ends of one CryptoAuth session).
LEMMA PeerFacts ==
    ASSUME NEW n \in Node
    PROVE  /\ Peer(n) \in Node /\ Peer(n) # n /\ Peer(Peer(n)) = n
           /\ \A m \in Node : m = n \/ m = Peer(n)
<1>1. PICK m \in Node : m # n /\ Node = {n, m} BY NodeAssumption
<1>2. \A k \in Node : \E j \in Node : j # k BY NodeAssumption
<1>3. \A k \in Node : Peer(k) \in Node /\ Peer(k) # k BY <1>2 DEF Peer
<1> QED BY <1>1, <1>3

\* The temporary keys of the two ends differ, and none is a permanent key or the zero key.
LEMMA OwnFacts ==
    ASSUME NEW n \in Node
    PROVE  /\ Own(n) \subseteq TempKeys /\ Own(n) \subseteq Keys
           /\ \A k \in Own(n) : k[1] = "key" /\ k # NoKey /\ k \notin Own(Peer(n))
           /\ \A k \in Own(n), m \in Node : k # PermKey(m)
           /\ NoKey \notin Keys
<1>1. MaxTemp \in Nat BY BoundAssumption
<1>2. Peer(n) \in Node /\ Peer(n) # n BY PeerFacts
<1>3. ASSUME NEW k \in Own(n)
      PROVE  /\ k \in TempKeys /\ k \in Keys
             /\ k[1] = "key" /\ k # NoKey /\ k \notin Own(Peer(n))
             /\ \A m \in Node : k # PermKey(m)
    <2>1. PICK i \in 1..MaxTemp : k = <<"key", n, i>> BY DEF Own, TempKey
    <2>2. i \in 1..MaxTemp + 1 /\ i \in 0..MaxTemp + 1 /\ i # 0 BY <1>1
    <2>3. k \in TempKeys /\ k \in Keys BY <2>1, <2>2 DEF TempKeys, Keys
    <2>4. k[1] = "key" /\ k # NoKey BY <2>1 DEF NoKey
    <2>5. \A m \in Node : k # PermKey(m) BY <2>1, <2>2 DEF PermKey
    <2>6. k \notin Own(Peer(n)) BY <1>2, <2>1 DEF Own, TempKey
    <2> QED BY <2>3, <2>4, <2>5, <2>6
<1>4. NoKey \notin Keys
    <2>1. \A k \in Keys : k[1] = "key" BY DEF Keys
    <2> QED BY <2>1 DEF NoKey
<1> QED BY <1>3, <1>4

\* A final secret names the temporary key of each end (getSharedSecret, CryptoAuth.c:83-121,
\* without a password hash), and so is made in one way only.
LEMMA FinalFacts ==
    ASSUME NEW n \in Node, NEW a \in Own(n), NEW b \in Own(Peer(n))
    PROVE  /\ Final(a, b) \in FinalOf(n) /\ Final(a, b) = Final(b, a)
           /\ Final(a, b)[1] = "shared" /\ Final(a, b)[2] = {a, b}
           /\ \A x \in Own(n), y \in Own(Peer(n)) : Final(a, b) = Final(x, y) => x = a /\ y = b
           /\ Holds(Final(a, b), a) /\ Holds(Final(a, b), b)
           /\ \A x \in Own(n) : Holds(Final(a, b), x) => x = a
           /\ \A y \in Own(Peer(n)) : Holds(Final(a, b), y) => y = b
           /\ ~Holds(Final(a, b), NoKey)
<1>1. Peer(n) \in Node /\ Peer(Peer(n)) = n BY PeerFacts
<1>2. /\ \A k \in Own(n) : k[1] = "key" /\ k # NoKey /\ k \notin Own(Peer(n))
      /\ \A k \in Own(Peer(n)) : k[1] = "key" /\ k # NoKey /\ k \notin Own(n)
    BY <1>1, OwnFacts
<1>3. \A x, y : Final(x, y) = <<"shared", {x, y}, NoPassword>> /\ Final(x, y)[1] = "shared"
                /\ Final(x, y)[2] = {x, y}
    BY DEF Final
<1>4. Final(a, b) \in FinalOf(n) BY DEF FinalOf
<1>5. Final(a, b) = Final(b, a)
    <2>1. {a, b} = {b, a} OBVIOUS
    <2> QED BY <2>1 DEF Final
<1>6. \A x, y : Final(a, b) = Final(x, y) => {x, y} = {a, b} BY <1>3
<1>7. \A x \in Own(n), y \in Own(Peer(n)) : Final(a, b) = Final(x, y) => x = a /\ y = b
    BY <1>2, <1>6
<1>8. \A x : Holds(Final(a, b), x) <=> x = Final(a, b) \/ x \in {a, b} BY <1>3 DEF Holds
<1>9. NoKey[1] = "zero" BY DEF NoKey
<1> HIDE DEF Final
<1> QED BY <1>2, <1>3, <1>4, <1>5, <1>6, <1>7, <1>8, <1>9

\* The final secrets of a session are those of its two ends, and none is a key.
LEMMA FinalOfFacts ==
    ASSUME NEW n \in Node
    PROVE  /\ FinalOf(n) = FinalOf(Peer(n))
           /\ \A s \in FinalOf(n) :
                 /\ s[1] = "shared" /\ s \notin Keys /\ s # NoKey /\ s # Junk
                 /\ s \notin Own(n) /\ s \notin Own(Peer(n))
           /\ \A s, t \in FinalOf(n) : Holds(s, t) => s = t
<1>1. Peer(n) \in Node /\ Peer(Peer(n)) = n BY PeerFacts
<1>2. \A k \in Keys : k[1] = "key" BY DEF Keys
<1>3. Own(n) \subseteq Keys /\ Own(Peer(n)) \subseteq Keys BY <1>1, OwnFacts
<1>4. NoKey[1] = "zero" /\ Junk[1] = "junk" BY DEF NoKey, Junk
<1>5. \A s \in FinalOf(n) : \E a \in Own(n), b \in Own(Peer(n)) : s = Final(a, b)
    BY DEF FinalOf
<1>6. \A s \in FinalOf(Peer(n)) : \E a \in Own(n), b \in Own(Peer(n)) : s = Final(b, a)
    BY <1>1 DEF FinalOf
<1>7. \A a \in Own(n), b \in Own(Peer(n)) :
          /\ Final(a, b) \in FinalOf(n) /\ Final(a, b) = Final(b, a)
          /\ Final(a, b)[1] = "shared" /\ Final(a, b)[2] = {a, b}
    BY FinalFacts
<1>8. \A a \in Own(n), b \in Own(Peer(n)) : Final(b, a) \in FinalOf(Peer(n))
    BY <1>1, FinalFacts
<1> HIDE DEF Final, FinalOf
<1>9. FinalOf(n) = FinalOf(Peer(n))
    <2>1. \A s \in FinalOf(n) : s \in FinalOf(Peer(n)) BY <1>5, <1>7, <1>8
    <2>2. \A s \in FinalOf(Peer(n)) : s \in FinalOf(n) BY <1>6, <1>7
    <2> QED BY <2>1, <2>2
<1>10. \A s \in FinalOf(n) : s[1] = "shared" /\ s[2] \subseteq Keys BY <1>3, <1>5, <1>7
<1>11. \A s, t \in FinalOf(n) : Holds(s, t) => s = t BY <1>2, <1>10 DEF Holds
<1> QED BY <1>2, <1>3, <1>4, <1>9, <1>10, <1>11

\* What the secret of a key packet holds: a permanent key and the key it was made for
\* (CryptoAuth.c:468-489).
LEMMA KeyPacketHolds ==
    ASSUME NEW n \in Node, NEW m \in Node, NEW a \in Own(m), NEW auth
    PROVE  LET s == <<"shared", {PermKey(n), a}, auth>>
           IN  /\ Holds(s, a)
               /\ \A x \in Own(m) \union Own(Peer(m)) \union FinalOf(m) \union {NoKey} :
                     Holds(s, x) => x = a
<1> DEFINE s == <<"shared", {PermKey(n), a}, auth>>
<1>1. s[1] = "shared" /\ s[2] = {PermKey(n), a} OBVIOUS
<1>2. Peer(m) \in Node BY PeerFacts
<1>3. a[1] = "key" /\ PermKey(n)[1] = "key" BY OwnFacts DEF PermKey
<1>4. \A x \in Own(m) \union Own(Peer(m)) : x # PermKey(n) /\ x[1] = "key"
    BY <1>2, OwnFacts
<1>5. ASSUME NEW x \in FinalOf(m), Holds(s, x) PROVE FALSE
    <2>1. x[1] = "shared" BY FinalOfFacts
    <2>2. x = s BY <1>1, <1>3, <1>5, <2>1 DEF Holds
    <2>3. PICK b \in Own(m), d \in Own(Peer(m)) : x = Final(b, d) BY DEF FinalOf
    <2>4. x[2] = {b, d} BY <2>3 DEF Final
    <2> QED BY <1>1, <1>4, <2>2, <2>4
<1>6. NoKey[1] = "zero" BY DEF NoKey
<1>7. Holds(s, a) BY <1>1 DEF Holds
<1>8. \A x \in Own(m) \union Own(Peer(m)) \union {NoKey} : Holds(s, x) => x = a
    <2> HIDE DEF s
    <2> QED BY <1>1, <1>3, <1>4, <1>6 DEF Holds
<1> HIDE DEF s
<1>9. \A x \in Own(m) \union Own(Peer(m)) \union FinalOf(m) \union {NoKey} :
          Holds(s, x) => x = a
    BY <1>5, <1>8
<1> QED BY <1>7, <1>9 DEF s

-----------------------------------------------------------------------------
(* What a change of one wrapper has to keep                                *)

\* Node n gets wrapper v and sends some packets.  The keys stay in order if those of v and
\* of the packets are, and its secret is the one it had, none, a final one or a key that is
\* new.
LEMMA ChangeKeepsKeys ==
    ASSUME NEW c \in [Node -> Wrappers], NEW N, KeyInv(c, N),
           \A p \in N : p.from \in Node,
           NEW n \in Node, NEW v \in Wrappers, NEW sent,
           HoldsItsKeys(n, v),
           \A q \in sent : /\ q.from = n /\ SoundPacket(q, c)
                           /\ IsData(q) => q.secret = v.secret,
           v.secret \in {c[n].secret, NoKey} \union FinalOf(n) \/ Unused(v.secret, c, N),
           v.nextNonce = 3 /\ v.secret \notin Own(n) => c[Peer(n)].secret # v.tempKey
    PROVE  KeyInv([c EXCEPT ![n] = v], N \union sent)
<1> DEFINE d == [c EXCEPT ![n] = v]
           m == Peer(n)
<1>1. /\ m \in Node /\ m # n /\ Peer(m) = n /\ \A k \in Node : k = n \/ k = m
      /\ d[n] = v /\ d[m] = c[m]
    BY PeerFacts
<1> HIDE DEF d, m
<1>2. /\ HoldsItsKeys(n, c[n]) /\ HoldsItsKeys(m, c[m])
      /\ \A p \in N : SoundPacket(p, c)
      /\ SentKeysAreSpent(c, N)
    BY <1>1 DEF KeyInv
<1>3. \A k \in Node : HoldsItsKeys(k, d[k]) BY <1>1, <1>2
<1>4. FinalOf(n) = FinalOf(m) BY FinalOfFacts DEF m
<1>5. ASSUME NEW p \in N, p.from = m, p.nonce \in {2, 3},
             p.temp \notin Own(m)
      PROVE  ~Holds(p.secret, v.secret)
    <2>1. /\ ~Holds(p.secret, c[n].secret)
          /\ \E a \in Own(n), auth \in Passwords \union {NoPassword} :
                p.secret = <<"shared", {PermKey(m), a}, auth>>
        BY <1>1, <1>2, <1>5 DEF SoundPacket
    <2>2. PICK a \in Own(n), auth \in Passwords \union {NoPassword} :
                p.secret = <<"shared", {PermKey(m), a}, auth>>
        BY <2>1
    <2>3. \A x \in FinalOf(n) \union {NoKey} : Holds(p.secret, x) => x = a
        BY <1>1, <2>2, KeyPacketHolds
    <2>4. a \notin FinalOf(n) \union {NoKey} BY FinalOfFacts, OwnFacts
    <2> QED BY <2>1, <2>3, <2>4, <1>5 DEF Unused
<1>6. ASSUME NEW p \in N \union sent PROVE SoundPacket(p, d)
    <2>1. CASE p \in sent BY <1>1, <2>1 DEF SoundPacket, m
    <2>2. CASE p \in N /\ p.from = n BY <1>1, <1>2, <2>2 DEF SoundPacket, m
    <2>3. CASE p \in N /\ p.from = m BY <1>1, <1>2, <1>5, <2>3 DEF SoundPacket
    <2> QED BY <1>1, <2>1, <2>2, <2>3
<1>7. ASSUME NEW p \in N, p.from = n, IsData(p)
      PROVE  ~Holds(p.secret, v.secret) \/ v.secret = p.secret
    <2>1. p.secret \in FinalOf(n) BY <1>2, <1>7 DEF SoundPacket, IsData
    <2>2. CASE v.secret = c[n].secret BY <1>2, <1>7, <2>2 DEF SentKeysAreSpent
    <2>3. CASE v.secret = NoKey
        <3>1. PICK a \in Own(n), b \in Own(Peer(n)) : p.secret = Final(a, b)
            BY <2>1 DEF FinalOf
        <3> QED BY <2>3, <3>1, FinalFacts
    <2>4. CASE v.secret \in FinalOf(n) BY <2>1, <2>4, FinalOfFacts
    <2>5. CASE Unused(v.secret, c, N) BY <2>5 DEF Unused
    <2> QED BY <2>2, <2>3, <2>4, <2>5
<1>8. SentKeysAreSpent(d, N \union sent)
    <2>1. ASSUME NEW p \in N \union sent, IsData(p)
          PROVE  ~Holds(p.secret, d[p.from].secret) \/ d[p.from].secret = p.secret
        <3>1. CASE p \in sent BY <1>1, <2>1, <3>1
        <3>2. CASE p \in N /\ p.from = n BY <1>1, <1>7, <2>1, <3>2
        <3>3. CASE p \in N /\ p.from = m BY <1>1, <1>2, <2>1, <3>3 DEF SentKeysAreSpent
        <3> QED BY <1>1, <3>1, <3>2, <3>3
    <2> QED BY <2>1 DEF SentKeysAreSpent
<1>9. ASSUME c[m].nextNonce = 3, c[m].secret \notin Own(m) PROVE v.secret # c[m].tempKey
    <2>1. c[m].tempKey \in Own(n) BY <1>1, <1>2, <1>9 DEF HoldsItsKeys
    <2>2. c[n].secret # c[m].tempKey BY <1>1, <1>9 DEF KeyInv
    <2>3. c[m].tempKey \notin FinalOf(n) \union {NoKey} BY <2>1, FinalOfFacts, OwnFacts
    <2>4. Holds(c[m].tempKey, c[m].tempKey) BY DEF Holds
    <2> QED BY <1>1, <2>2, <2>3, <2>4 DEF Unused
<1>10. \A k \in Node : d[k].nextNonce = 3 /\ d[k].secret \notin Own(k)
                          => d[Peer(k)].secret # d[k].tempKey
    BY <1>1, <1>9 DEF m
<1> QED BY <1>3, <1>6, <1>8, <1>10 DEF KeyInv, d

\* Key packets that n may send: with a key it has sent for that of the other end before, or
\* with one that is new, or with none that leads to a session.
KeyedOnce(n, q, c, N) ==
    q.nonce \in {2, 3} /\ q.temp \in Own(n) =>
        \/ Unused(q.temp, c, N)
        \/ \A b \in Own(Peer(n)) : Holds(q.secret, b) => Keyed(n, q.temp, b, N)

\* More packets keep what earlier ones have shown.
LEMMA MorePackets ==
    ASSUME NEW N, NEW sent, NEW n \in Node, NEW s, NEW h
    PROVE  /\ \A a, b : Keyed(n, a, b, N) => Keyed(n, a, b, N \union sent)
           /\ Leads(n, s, N) => Leads(n, s, N \union sent)
           /\ DataSent(n, s, h, N) => DataSent(n, s, h, N \union sent)
           /\ Answered(n, s, h, N) => Answered(n, s, h, N \union sent)
<1>1. \A k \in Node : \A a, b : Keyed(k, a, b, N) => Keyed(k, a, b, N \union sent) BY DEF Keyed
<1>2. \A k \in Node : Leads(k, s, N) => Leads(k, s, N \union sent)
    <2>1. \A k \in Node : Peer(k) \in Node BY PeerFacts
    <2> QED BY <1>1, <2>1 DEF Leads
<1>3. \A k \in Node : \A g : DataSent(k, s, g, N) => DataSent(k, s, g, N \union sent) BY DEF DataSent
<1>4. Peer(n) \in Node BY PeerFacts
<1> QED BY <1>1, <1>2, <1>3, <1>4 DEF Answered

\* Only a new key makes somebody lead a session.
LEMMA NewLead ==
    ASSUME NEW c \in [Node -> Wrappers], NEW N, NEW n \in Node, NEW sent,
           \A q \in sent : q.from = n /\ KeyedOnce(n, q, c, N), NEW s
    PROVE  /\ Leads(n, s, N \union sent) => Leads(n, s, N)
           /\ Leads(Peer(n), s, N \union sent) =>
                 Leads(Peer(n), s, N) \/ \E a \in Own(n) : Unused(a, c, N) /\ Holds(s, a)
<1>1. Peer(n) \in Node /\ Peer(n) # n /\ Peer(Peer(n)) = n BY PeerFacts
<1>2. \A a, b : Keyed(Peer(n), b, a, N \union sent) => Keyed(Peer(n), b, a, N)
    BY <1>1 DEF Keyed
<1>3. Leads(n, s, N \union sent) => Leads(n, s, N) BY <1>2 DEF Leads
<1>4. ASSUME Leads(Peer(n), s, N \union sent), ~Leads(Peer(n), s, N)
      PROVE  \E a \in Own(n) : Unused(a, c, N) /\ Holds(s, a)
    <2>1. PICK b \in Own(Peer(n)), a \in Own(n) :
              s = Final(b, a) /\ Keyed(n, a, b, N \union sent)
        BY <1>1, <1>4 DEF Leads
    <2>2. ~Keyed(n, a, b, N) BY <1>1, <1>4, <2>1 DEF Leads
    <2>3. PICK q \in sent : q.nonce \in {2, 3} /\ q.temp = a /\ Holds(q.secret, b)
        BY <2>1, <2>2 DEF Keyed
    <2>4. Unused(a, c, N) BY <2>2, <2>3 DEF KeyedOnce
    <2>5. Holds(s, a) BY <2>1, FinalFacts
    <2> QED BY <2>4, <2>5
<1> QED BY <1>3, <1>4

\* Node n gets wrapper v and sends some packets.  The roles stay in order if v has a role,
\* the key packets are as above and the data packets are of the session of v.
LEMMA ChangeKeepsRoles ==
    ASSUME NEW c \in [Node -> Wrappers], NEW N, KeyInv(c, N), RoleInv(c, N),
           \A p \in N : p.from \in Node,
           NEW n \in Node, NEW v \in Wrappers, NEW sent,
           \A q \in sent :
              /\ q.from = n /\ KeyedOnce(n, q, c, N)
              /\ IsData(q) => /\ q.secret = v.secret /\ q.half = v.isInitiator
                              /\ Answered(n, v.secret, v.isInitiator, N)
                              /\ \A p \in N : IsData(p) /\ p.from = n /\ p.secret = v.secret
                                                 => p.half = v.isInitiator,
           HasRole(n, v, N \union sent)
    PROVE  RoleInv([c EXCEPT ![n] = v], N \union sent)
<1> DEFINE d == [c EXCEPT ![n] = v]
           m == Peer(n)
           M == N \union sent
<1>1. /\ m \in Node /\ m # n /\ Peer(m) = n /\ \A k \in Node : k = n \/ k = m
      /\ d[n] = v /\ d[m] = c[m]
    BY PeerFacts
<1> HIDE DEF d, m
<1>2. /\ HasRole(m, c[m], N) /\ HoldsItsKeys(m, c[m])
      /\ \A p \in N : IsData(p) => Answered(p.from, p.secret, p.half, N)
      /\ \A s \in FinalOf(n) : ~(Leads(n, s, N) /\ Leads(m, s, N))
    BY <1>1 DEF RoleInv, KeyInv, m
<1>3. FinalOf(n) = FinalOf(m) BY FinalOfFacts DEF m
<1>4. \A s : /\ Leads(n, s, M) => Leads(n, s, N)
             /\ Leads(m, s, M) =>
                   Leads(m, s, N) \/ \E a \in Own(n) : Unused(a, c, N) /\ Holds(s, a)
    BY NewLead DEF m
<1>5. /\ \A k \in Node : \A a, b : Keyed(k, a, b, N) => Keyed(k, a, b, M)
      /\ \A k \in Node : \A s : Leads(k, s, N) => Leads(k, s, M)
      /\ \A k \in Node : \A s, h : DataSent(k, s, h, N) => DataSent(k, s, h, M)
      /\ \A k \in Node : \A s, h : Answered(k, s, h, N) => Answered(k, s, h, M)
    BY MorePackets
<1> HIDE DEF M
<1>6. ASSUME NEW s \in FinalOf(n), Leads(n, s, M), Leads(m, s, M) PROVE FALSE
    <2>1. Leads(n, s, N) /\ ~Leads(m, s, N) BY <1>2, <1>4, <1>6
    <2>2. PICK x \in Own(n) : Unused(x, c, N) /\ Holds(s, x) BY <1>4, <1>6, <2>1
    <2>3. PICK a \in Own(n), b \in Own(m) : s = Final(a, b) /\ Keyed(m, b, a, N)
        BY <2>1 DEF Leads, m
    <2>4. x = a BY <2>2, <2>3, FinalFacts DEF m
    <2> QED BY <2>2, <2>3, <2>4 DEF Keyed, Unused
<1>7. \A k \in Node : \A s \in FinalOf(k) : ~(Leads(k, s, M) /\ Leads(Peer(k), s, M))
    BY <1>1, <1>3, <1>6 DEF m
<1>8. ASSUME NEW p \in M, IsData(p) PROVE Answered(p.from, p.secret, p.half, M)
    <2>1. CASE p \in N BY <1>2, <1>5, <1>8, <2>1
    <2>2. CASE p \in sent BY <1>5, <1>8, <2>2
    <2> QED BY <2>1, <2>2 DEF M
<1>9. ASSUME NEW p \in M, NEW q \in M, IsData(p), IsData(q), p.from = q.from,
             p.secret = q.secret
      PROVE  p.half = q.half
    <2>1. CASE p \in N /\ q \in N BY <1>9, <2>1 DEF RoleInv
    <2>2. CASE p \in sent /\ q \in sent BY <1>9, <2>2
    <2>3. CASE p \in N /\ q \in sent BY <1>9, <2>3
    <2>4. CASE p \in sent /\ q \in N BY <1>9, <2>4
    <2> QED BY <2>1, <2>2, <2>3, <2>4 DEF M
<1>10. HasRole(m, c[m], M)
    <2> DEFINE w == c[m]
    <2>1. w.nextNonce = 3 /\ w.secret \in Own(m) => Keyed(m, w.secret, w.tempKey, M)
        BY <1>1, <1>2, <1>5 DEF HasRole
    <2>2. w.nextNonce = 4 => Keyed(n, w.tempKey, w.secret, M)
        BY <1>1, <1>2, <1>5 DEF HasRole
    <2>3. w.nextNonce > 4 => Answered(m, w.secret, w.isInitiator, M)
        BY <1>1, <1>2, <1>5 DEF HasRole
    <2>4. ASSUME w.nextNonce > 4, Leads(m, w.secret, M)
          PROVE  DataSent(m, w.secret, w.isInitiator, M)
        <3>1. \A a : Unused(a, c, N) => ~Holds(w.secret, a) BY <1>1 DEF Unused
        <3>2. Leads(m, w.secret, N) BY <1>4, <2>4, <3>1
        <3> QED BY <1>1, <1>2, <1>5, <2>4, <3>2 DEF HasRole
    <2>5. ASSUME w.nextNonce > 4, NEW p \in M, IsData(p), p.from = m, p.secret = w.secret
          PROVE  p.nonce < w.nextNonce /\ p.half = w.isInitiator
        <3>1. p \in N BY <1>1, <2>5 DEF M
        <3> QED BY <1>2, <2>5, <3>1 DEF HasRole
    <2> QED BY <1>1, <2>1, <2>2, <2>3, <2>4, <2>5 DEF HasRole
<1>11. \A k \in Node : HasRole(k, d[k], M) BY <1>1, <1>10 DEF M
<1> QED BY <1>7, <1>8, <1>9, <1>11 DEF RoleInv, M, d

-----------------------------------------------------------------------------
(* The moves of the handshake                                              *)

\* Everything is in order with wrappers c and packets N.
Sound(c, N) ==
    /\ c \in [Node -> Wrappers] /\ N \subseteq Packets
    /\ KeyInv(c, N) /\ RoleInv(c, N)

\* A move that changes no key: a reset, a packet dropped, a request to be connected to, data
\* of an established session received (CryptoAuth.c:352-374, 1052-1077).
LEMMA KeepIsSound ==
    ASSUME NEW c, NEW N, Sound(c, N), NEW n \in Node, NEW v \in Wrappers,
           NEW sent \in SUBSET Packets,
           v.secret = c[n].secret, v.tempKey = c[n].tempKey,
           \/ v.nextNonce = 0
           \/ v.nextNonce = c[n].nextNonce /\ v.isInitiator = c[n].isInitiator,
           v.user = c[n].user \/ n \notin RequireAuth,
           \A q \in sent : q.from = n /\ q.nonce > 3 /\ q.secret = NoKey
    PROVE  Sound([c EXCEPT ![n] = v], N \union sent)
<1> DEFINE w == c[n]
<1>1. /\ c \in [Node -> Wrappers] /\ N \subseteq Packets /\ w \in Wrappers
      /\ KeyInv(c, N) /\ RoleInv(c, N) /\ HoldsItsKeys(n, w) /\ HasRole(n, w, N)
      /\ \A p \in N : p.from \in Node
    BY DEF Sound, KeyInv, RoleInv, Packets
<1>2. [c EXCEPT ![n] = v] \in [Node -> Wrappers] /\ N \union sent \subseteq Packets BY <1>1
<1>3. \A q \in sent : ~IsData(q) /\ SoundPacket(q, c) /\ KeyedOnce(n, q, c, N)
    <2>1. ASSUME NEW q \in sent PROVE ~IsData(q) /\ SoundPacket(q, c) /\ KeyedOnce(n, q, c, N)
        <3>1. q.nonce > 3 /\ q.secret = NoKey /\ q.nonce \in Int BY BoundAssumption DEF Packets
        <3>2. ~(q.nonce < 2) /\ q.nonce \notin {2, 3} BY <3>1
        <3> QED BY <3>1, <3>2 DEF IsData, SoundPacket, KeyedOnce
    <2> QED BY <2>1
<1>4. HoldsItsKeys(n, v) BY <1>1 DEF HoldsItsKeys
<1>5. v.nextNonce = 3 /\ v.secret \notin Own(n) => c[Peer(n)].secret # v.tempKey
    BY <1>1 DEF KeyInv
<1>6. KeyInv([c EXCEPT ![n] = v], N \union sent)
    BY <1>1, <1>3, <1>4, <1>5, ChangeKeepsKeys
<1>7. HasRole(n, v, N \union sent)
    <2>1. CASE v.nextNonce = 0 BY <2>1 DEF HasRole
    <2>2. CASE v.nextNonce = w.nextNonce /\ v.isInitiator = w.isInitiator
        <3>1. Peer(n) \in Node BY PeerFacts
        <3>2. Leads(n, w.secret, N \union sent) => Leads(n, w.secret, N)
            BY <1>1, <1>3, NewLead
        <3>3. /\ \A k \in Node : \A a, b : Keyed(k, a, b, N) => Keyed(k, a, b, N \union sent)
              /\ \A s, h : DataSent(n, s, h, N) => DataSent(n, s, h, N \union sent)
              /\ \A s, h : Answered(n, s, h, N) => Answered(n, s, h, N \union sent)
            BY MorePackets
        <3> QED BY <1>1, <1>3, <2>2, <3>1, <3>2, <3>3 DEF HasRole
    <2> QED BY <2>1, <2>2
<1>8. RoleInv([c EXCEPT ![n] = v], N \union sent)
    BY <1>1, <1>3, <1>7, ChangeKeepsRoles
<1> QED BY <1>2, <1>6, <1>8 DEF Sound

\* A wrapper made anew (CryptoAuth.c:999-1033).
LEMMA RenewIsSound ==
    ASSUME NEW c, NEW N, Sound(c, N), NEW n \in Node, NEW v \in Wrappers,
           v.secret = NoKey, v.tempKey = NoKey, v.nextNonce = 0
    PROVE  Sound([c EXCEPT ![n] = v], N)
<1>1. /\ c \in [Node -> Wrappers] /\ N \subseteq Packets
      /\ KeyInv(c, N) /\ RoleInv(c, N) /\ \A p \in N : p.from \in Node
    BY DEF Sound, Packets
<1>2. [c EXCEPT ![n] = v] \in [Node -> Wrappers] BY <1>1
<1>3. NoKey \notin Own(Peer(n)) BY PeerFacts, OwnFacts
<1>4. HoldsItsKeys(n, v) BY <1>3 DEF HoldsItsKeys
<1> DEFINE none == {}
<1>5. N \union none = N /\ \A q \in none : FALSE OBVIOUS
<1> HIDE DEF none
<1>6. KeyInv([c EXCEPT ![n] = v], N \union none)
    <2>1. v.nextNonce # 3 /\ v.secret \in {c[n].secret, NoKey} \union FinalOf(n) OBVIOUS
    <2>2. \A q \in none : /\ q.from = n /\ SoundPacket(q, c)
                          /\ IsData(q) => q.secret = v.secret
        BY <1>5
    <2> QED BY <1>1, <1>4, <2>1, <2>2, ChangeKeepsKeys
<1>7. HasRole(n, v, N \union none) BY DEF HasRole
<1>8. RoleInv([c EXCEPT ![n] = v], N \union none) BY <1>1, <1>5, <1>7, ChangeKeepsRoles
<1> QED BY <1>1, <1>2, <1>5, <1>6, <1>8 DEF Sound

\* A hello, with a new key or a repeated one (CryptoAuth.c:440-467, 543-552).
LEMMA HelloIsSound ==
    ASSUME NEW c, NEW N, Sound(c, N), NEW n \in Node, NEW v \in Wrappers, NEW q \in Packets,
           c[n].nextNonce < 2,
           v.secret \in Own(n), v.tempKey = v.secret, v.nextNonce = 1,
           v.secret = c[n].secret \/ Unused(v.secret, c, N),
           q.from = n, q.nonce < 2, q.temp = v.secret
    PROVE  Sound([c EXCEPT ![n] = v], N \union {q})
<1>1. /\ c \in [Node -> Wrappers] /\ N \subseteq Packets
      /\ KeyInv(c, N) /\ RoleInv(c, N) /\ \A p \in N : p.from \in Node
    BY DEF Sound, Packets
<1>2. [c EXCEPT ![n] = v] \in [Node -> Wrappers] /\ N \union {q} \subseteq Packets BY <1>1
<1>3. q.nonce \in Int BY BoundAssumption DEF Packets
<1>4. ~IsData(q) /\ SoundPacket(q, c) /\ KeyedOnce(n, q, c, N)
    BY <1>3 DEF IsData, SoundPacket, KeyedOnce
<1>5. v.secret \notin Own(Peer(n)) BY OwnFacts
<1>6. HoldsItsKeys(n, v) BY <1>5 DEF HoldsItsKeys
<1>7. KeyInv([c EXCEPT ![n] = v], N \union {q})
    BY <1>1, <1>4, <1>6, ChangeKeepsKeys
<1>8. HasRole(n, v, N \union {q}) BY DEF HasRole
<1>9. RoleInv([c EXCEPT ![n] = v], N \union {q})
    BY <1>1, <1>4, <1>8, ChangeKeepsRoles
<1> QED BY <1>2, <1>7, <1>9 DEF Sound

\* A key packet, with a new key or a repeated one (CryptoAuth.c:440-489, 543-552).  A repeated
\* one may carry what is no key, after late data for a wrapper that was reset
\* (CryptoAuth.c:465): then the other end has already left the key it was sealed for.
LEMMA KeyIsSound ==
    ASSUME NEW c, NEW N, Sound(c, N), NEW n \in Node, NEW v \in Wrappers, NEW q \in Packets,
           c[n].nextNonce \in {2, 3},
           v.tempKey = c[n].tempKey, v.nextNonce = 3, v.user = c[n].user,
           \/ c[n].nextNonce = 2 /\ v.secret \in Own(n) /\ Unused(v.secret, c, N)
           \/ c[n].nextNonce = 3 /\ v.secret = c[n].secret,
           NEW auth \in Passwords \union {NoPassword},
           q.from = n, q.nonce = c[n].nextNonce, q.temp = v.secret,
           q.secret = <<"shared", {PermKey(n), c[n].tempKey}, auth>>
    PROVE  Sound([c EXCEPT ![n] = v], N \union {q})
<1> DEFINE w == c[n]
           m == Peer(n)
<1>1. /\ c \in [Node -> Wrappers] /\ N \subseteq Packets /\ w \in Wrappers
      /\ KeyInv(c, N) /\ RoleInv(c, N) /\ HoldsItsKeys(n, w) /\ HasRole(n, w, N)
      /\ \A p \in N : p.from \in Node
    BY DEF Sound, KeyInv, RoleInv, Packets
<1>2. [c EXCEPT ![n] = v] \in [Node -> Wrappers] /\ N \union {q} \subseteq Packets BY <1>1
<1>3. m \in Node /\ Peer(m) = n /\ HoldsItsKeys(m, c[m]) BY <1>1, PeerFacts DEF KeyInv
<1>4. w.tempKey \in Own(m) BY <1>1 DEF HoldsItsKeys
<1>5. HoldsItsKeys(n, v) BY <1>1, <1>4 DEF HoldsItsKeys
<1>6. ~IsData(q) BY DEF IsData
<1>7. v.nextNonce = 3 /\ v.secret \notin Own(n) => c[m].secret # v.tempKey
    BY <1>1 DEF KeyInv
<1>8. /\ Holds(q.secret, w.tempKey)
      /\ \A x \in Own(m) \union Own(n) \union FinalOf(m) \union {NoKey} :
            Holds(q.secret, x) => x = w.tempKey
    BY <1>3, <1>4, KeyPacketHolds
<1>9. SoundPacket(q, c)
    <2>1. ~(q.nonce > 3) /\ ~(q.nonce < 2) OBVIOUS
    <2>2. \E a \in Own(Peer(n)), x \in Passwords \union {NoPassword} :
              q.secret = <<"shared", {PermKey(n), a}, x>>
        BY <1>4
    <2>3. c[m].secret \in Own(m) \union FinalOf(m) \union {NoKey} BY <1>3 DEF HoldsItsKeys
    <2>4. q.temp \in Own(n) \/ ~Holds(q.secret, c[m].secret) BY <1>7, <1>8, <2>3
    <2> QED BY <2>1, <2>2, <2>4 DEF SoundPacket
<1>10. KeyInv([c EXCEPT ![n] = v], N \union {q})
    BY <1>1, <1>5, <1>6, <1>7, <1>9, ChangeKeepsKeys
<1>11. KeyedOnce(n, q, c, N)
    <2>1. CASE Unused(v.secret, c, N) BY <2>1 DEF KeyedOnce
    <2>2. CASE w.nextNonce = 3 /\ v.secret = w.secret
        <3>1. w.secret \in Own(n) => Keyed(n, w.secret, w.tempKey, N)
            BY <1>1, <2>2 DEF HasRole
        <3> QED BY <1>8, <2>2, <3>1 DEF KeyedOnce
    <2> QED BY <2>1, <2>2
<1>12. HasRole(n, v, N \union {q})
    <2>1. Keyed(n, v.secret, v.tempKey, N \union {q}) BY <1>8 DEF Keyed
    <2> QED BY <2>1 DEF HasRole
<1>13. RoleInv([c EXCEPT ![n] = v], N \union {q})
    BY <1>1, <1>6, <1>11, <1>12, ChangeKeepsRoles
<1> QED BY <1>2, <1>10, <1>13 DEF Sound

\* A key of node n that is part of the secret s and that n still has: n has sent no data
\* with s.
LEMMA UnspentIsUnsent ==
    ASSUME NEW c, NEW N, Sound(c, N), NEW n \in Node, c[n].secret \in Own(n),
           NEW b \in Own(Peer(n))
    PROVE  \A p \in N : IsData(p) /\ p.from = n => p.secret # Final(c[n].secret, b)
<1>1. SentKeysAreSpent(c, N) BY DEF Sound, KeyInv
<1>2. /\ Holds(Final(c[n].secret, b), c[n].secret)
      /\ Final(c[n].secret, b) \in FinalOf(n)
    BY FinalFacts
<1>3. c[n].secret # Final(c[n].secret, b) BY <1>2, FinalOfFacts
<1> QED BY <1>1, <1>2, <1>3 DEF SentKeysAreSpent

\* A data packet, the first of a session or a later one (CryptoAuth.c:556-614).
LEMMA DataIsSound ==
    ASSUME NEW c, NEW N, Sound(c, N), NEW n \in Node, NEW v \in Wrappers, NEW q \in Packets,
           c[n].nextNonce > 3,
           v.secret = IF c[n].nextNonce = 4 THEN Final(c[n].secret, c[n].tempKey)
                      ELSE c[n].secret,
           v.tempKey = c[n].tempKey, v.isInitiator = c[n].isInitiator, v.user = c[n].user,
           v.nextNonce = 0 \/ v.nextNonce = c[n].nextNonce + 1,
           q.from = n, q.nonce = c[n].nextNonce, q.secret = v.secret,
           q.half = v.isInitiator
    PROVE  Sound([c EXCEPT ![n] = v], N \union {q})
<1> DEFINE w == c[n]
           m == Peer(n)
           s == v.secret
<1>1. /\ c \in [Node -> Wrappers] /\ N \subseteq Packets /\ w \in Wrappers
      /\ KeyInv(c, N) /\ RoleInv(c, N) /\ HoldsItsKeys(n, w) /\ HasRole(n, w, N)
      /\ \A p \in N : p.from \in Node
    BY DEF Sound, KeyInv, RoleInv, Packets
<1>2. [c EXCEPT ![n] = v] \in [Node -> Wrappers] /\ N \union {q} \subseteq Packets BY <1>1
<1>3. w.nextNonce \in Int /\ v.nextNonce \in Int BY <1>1, BoundAssumption DEF Wrappers
<1>4. m \in Node /\ m # n /\ Peer(m) = n BY PeerFacts
<1>5. w.tempKey \in Own(m) BY <1>1, <1>3 DEF HoldsItsKeys
<1>6. /\ s \in FinalOf(n) /\ Answered(n, s, v.isInitiator, N)
      /\ \A p \in N : IsData(p) /\ p.from = n /\ p.secret = s
                         => p.nonce < w.nextNonce /\ p.half = v.isInitiator
    <2>1. CASE w.nextNonce = 4
        <3>1. w.secret \in Own(n) /\ s = Final(w.secret, w.tempKey)
            BY <1>1, <2>1 DEF HoldsItsKeys
        <3>2. s \in FinalOf(n) BY <1>5, <3>1, FinalFacts
        <3>3. Leads(n, s, N) BY <1>1, <1>5, <2>1, <3>1 DEF HasRole, Leads
        <3>4. \A p \in N : IsData(p) /\ p.from = n => p.secret # s
            BY <1>5, <3>1, UnspentIsUnsent
        <3> QED BY <3>2, <3>3, <3>4 DEF Answered
    <2>2. CASE w.nextNonce > 4
        BY <1>1, <2>2 DEF HoldsItsKeys, HasRole
    <2> QED BY <1>3, <2>1, <2>2
<1>7. v.nextNonce = 0 \/ v.nextNonce > 4 BY <1>3
<1>8. s \notin Own(n) /\ s # NoKey BY <1>6, FinalOfFacts
<1>9. HoldsItsKeys(n, v) BY <1>1, <1>3, <1>5, <1>6, <1>7 DEF HoldsItsKeys
<1>10. IsData(q) /\ SoundPacket(q, c) /\ KeyedOnce(n, q, c, N)
    BY <1>3, <1>6, <1>8 DEF IsData, SoundPacket, KeyedOnce
<1>11. KeyInv([c EXCEPT ![n] = v], N \union {q})
    <2>1. v.nextNonce # 3 BY <1>7
    <2> QED BY <1>1, <1>6, <1>9, <1>10, <2>1, ChangeKeepsKeys
<1>12. HasRole(n, v, N \union {q})
    <2>1. Answered(n, s, v.isInitiator, N \union {q}) BY <1>6, MorePackets
    <2>2. DataSent(n, s, v.isInitiator, N \union {q}) BY <1>10 DEF DataSent
    <2>3. ASSUME v.nextNonce > 4, NEW p \in N \union {q}, IsData(p), p.from = n, p.secret = s
          PROVE  p.nonce < v.nextNonce /\ p.half = v.isInitiator
        <3>1. p \in Packets BY <1>2
        <3>2. p.nonce \in Int BY <3>1, BoundAssumption DEF Packets
        <3>3. v.nextNonce = w.nextNonce + 1 BY <1>3, <2>3
        <3> QED BY <1>3, <1>6, <2>3, <3>2, <3>3
    <2> QED BY <1>7, <2>1, <2>2, <2>3 DEF HasRole
<1>13. RoleInv([c EXCEPT ![n] = v], N \union {q})
    BY <1>1, <1>6, <1>10, <1>12, ChangeKeepsRoles
<1> QED BY <1>2, <1>11, <1>13 DEF Sound

\* A hello or a key of the other end is taken (CryptoAuth.c:787-825).  A key is taken only if
\* it is sealed with the temporary key that the wrapper still has.
LEMMA AcceptIsSound ==
    ASSUME NEW c, NEW N, Sound(c, N), NEW n \in Node, NEW v \in Wrappers, NEW p \in N,
           p.from = Peer(n),
           v.secret = c[n].secret, v.tempKey = p.temp,
           v.user \in Users[n] \/ n \notin RequireAuth,
           \/ p.nonce < 2 /\ v.nextNonce = 2
           \/ /\ p.nonce \in {2, 3} /\ v.nextNonce = 4
              /\ c[n].secret \in Keys /\ Holds(p.secret, c[n].secret)
    PROVE  Sound([c EXCEPT ![n] = v], N)
<1> DEFINE w == c[n]
           m == Peer(n)
           none == {}
<1>1. /\ c \in [Node -> Wrappers] /\ N \subseteq Packets /\ w \in Wrappers
      /\ KeyInv(c, N) /\ RoleInv(c, N) /\ HoldsItsKeys(n, w) /\ SoundPacket(p, c)
      /\ \A k \in N : k.from \in Node
    BY DEF Sound, KeyInv, RoleInv, Packets
<1>2. [c EXCEPT ![n] = v] \in [Node -> Wrappers] BY <1>1
<1>3. m \in Node /\ m # n /\ Peer(m) = n BY PeerFacts
<1>4. v.nextNonce = 4 => w.secret \in Own(n)
    <2>1. \A k \in FinalOf(n) : k \notin Keys BY FinalOfFacts
    <2>2. NoKey \notin Keys BY OwnFacts
    <2> QED BY <1>1, <2>1, <2>2 DEF HoldsItsKeys
<1>5. p.temp \in Own(m) BY <1>1, <1>3 DEF SoundPacket
<1>6. HoldsItsKeys(n, v) BY <1>1, <1>4, <1>5 DEF HoldsItsKeys
<1>7. N \union none = N /\ \A q \in none : FALSE OBVIOUS
<1> HIDE DEF none
<1>8. KeyInv([c EXCEPT ![n] = v], N \union none)
    <2>1. v.nextNonce # 3 OBVIOUS
    <2> QED BY <1>1, <1>6, <1>7, <2>1, ChangeKeepsKeys
<1>9. HasRole(n, v, N)
    <2>1. v.nextNonce = 4 => Keyed(m, v.tempKey, v.secret, N) BY <1>5 DEF Keyed
    <2> QED BY <2>1 DEF HasRole
<1>10. RoleInv([c EXCEPT ![n] = v], N \union none)
    BY <1>1, <1>7, <1>9, ChangeKeepsRoles
<1> QED BY <1>1, <1>2, <1>7, <1>8, <1>10 DEF Sound

\* The first data of a session is received (CryptoAuth.c:847-863).  From state 0 this leaves
\* the wrapper in state 3 with a session's secret.
LEMMA HearIsSound ==
    ASSUME NEW c, NEW N, Sound(c, N), NEW n \in Node, NEW v \in Wrappers, NEW p \in N,
           p.from = Peer(n), IsData(p), c[n].nextNonce < 5,
           p.secret = finalSecret(c[n]), p.secret # Junk, p.half # c[n].isInitiator,
           v.secret = p.secret, v.tempKey = c[n].tempKey, v.isInitiator = c[n].isInitiator,
           v.user = c[n].user, v.nextNonce = c[n].nextNonce + 3
    PROVE  Sound([c EXCEPT ![n] = v], N)
<1> DEFINE w == c[n]
           m == Peer(n)
           s == p.secret
           none == {}
<1>1. /\ c \in [Node -> Wrappers] /\ N \subseteq Packets /\ w \in Wrappers
      /\ KeyInv(c, N) /\ RoleInv(c, N) /\ HoldsItsKeys(n, w) /\ SoundPacket(p, c)
      /\ \A k \in N : k.from \in Node
    BY DEF Sound, KeyInv, RoleInv, Packets
<1>2. [c EXCEPT ![n] = v] \in [Node -> Wrappers] BY <1>1
<1>3. m \in Node /\ m # n /\ Peer(m) = n /\ FinalOf(m) = FinalOf(n) BY PeerFacts, FinalOfFacts
<1>4. s \in FinalOf(n) BY <1>1, <1>3 DEF SoundPacket, IsData
<1>5. w.secret \in Keys /\ w.tempKey \in Keys /\ s = Final(w.secret, w.tempKey)
    BY DEF finalSecret, getSharedSecret, Final
<1>6. w.secret \in Own(n)
    <2>1. \A k \in FinalOf(n) : k \notin Keys BY FinalOfFacts
    <2>2. NoKey \notin Keys BY OwnFacts
    <2> QED BY <1>1, <1>5, <2>1, <2>2 DEF HoldsItsKeys
<1>7. w.tempKey \in Own(m)
    <2>1. PICK a \in Own(n), b \in Own(m) : s = Final(a, b) BY <1>4 DEF FinalOf
    <2>2. {w.secret, w.tempKey} = {a, b}
        <3>1. s[2] = {a, b} BY <2>1 DEF Final
        <3>2. s[2] = {w.secret, w.tempKey} BY <1>5 DEF Final
        <3> QED BY <3>1, <3>2
    <2>3. \A k \in Own(n) : k \notin Own(m) BY OwnFacts
    <2> QED BY <1>6, <2>1, <2>2, <2>3
<1>8. w.nextNonce \in Nat /\ w.nextNonce # 1
    <2>1. w.nextNonce \in Nat BY <1>1, BoundAssumption DEF Wrappers
    <2>2. \A k \in Own(n) : k \notin Own(m) BY OwnFacts
    <2> QED BY <1>1, <1>7, <2>1, <2>2 DEF HoldsItsKeys
<1>9. v.nextNonce = 3 \/ v.nextNonce > 4 BY <1>8
<1>10. HoldsItsKeys(n, v)
    BY <1>1, <1>4, <1>7, <1>9 DEF HoldsItsKeys
<1>11. N \union none = N /\ \A q \in none : FALSE OBVIOUS
<1> HIDE DEF none
<1>12. c[m].secret # w.tempKey
    <2>1. ~Holds(s, c[m].secret) \/ c[m].secret = s BY <1>1 DEF KeyInv, SentKeysAreSpent
    <2>2. Holds(s, w.tempKey) BY <1>5, <1>6, <1>7, FinalFacts
    <2>3. s # w.tempKey BY <1>4, <1>7, FinalOfFacts
    <2> QED BY <2>1, <2>2, <2>3
<1>13. KeyInv([c EXCEPT ![n] = v], N \union none)
    BY <1>1, <1>4, <1>10, <1>11, <1>12, ChangeKeepsKeys
<1>14. HasRole(n, v, N)
    <2>1. \A q \in N : IsData(q) /\ q.from = n => q.secret # s
        BY <1>5, <1>6, <1>7, UnspentIsUnsent
    <2>2. Answered(m, s, p.half, N) /\ ~(Leads(n, s, N) /\ Leads(m, s, N))
        BY <1>1, <1>4 DEF RoleInv
    <2>3. ~DataSent(n, s, ~p.half, N) BY <2>1 DEF DataSent
    <2>4. Leads(m, s, N) /\ ~Leads(n, s, N) BY <1>3, <2>2, <2>3 DEF Answered
    <2>5. p.half = ~v.isInitiator BY <1>1 DEF Packets, Wrappers
    <2>6. DataSent(m, s, ~v.isInitiator, N) BY <2>5 DEF DataSent
    <2>7. Answered(n, s, v.isInitiator, N) BY <2>4, <2>6 DEF Answered
    <2>8. s \notin Own(n) BY <1>4, FinalOfFacts
    <2>9. v.nextNonce # 4 BY <1>9
    <2> QED BY <2>1, <2>4, <2>7, <2>8, <2>9 DEF HasRole
<1>15. RoleInv([c EXCEPT ![n] = v], N \union none)
    BY <1>1, <1>11, <1>14, ChangeKeepsRoles
<1> QED BY <1>1, <1>2, <1>11, <1>13, <1>15 DEF Sound

-----------------------------------------------------------------------------
(* The calls into CryptoAuth                                               *)

\* What Random_bytes may give: a key of n that is in no use, also one beyond the bound.
IsFresh(n, key, c, N) ==
    /\ key \in TempKeys
    /\ key \in Own(n) \/ key = TempKey(n, MaxTemp + 1)
    /\ Unused(key, c, N)

\* A move that changes no key and sends nothing.
LEMMA StayIsSound ==
    ASSUME NEW c, NEW N, Sound(c, N), NEW n \in Node, NEW v \in Wrappers,
           v.secret = c[n].secret, v.tempKey = c[n].tempKey,
           \/ v.nextNonce = 0
           \/ v.nextNonce = c[n].nextNonce /\ v.isInitiator = c[n].isInitiator,
           v.user = c[n].user \/ n \notin RequireAuth
    PROVE  /\ Sound([c EXCEPT ![n] = v], N)
           /\ \A key : Unused(key, c, N) => Unused(key, [c EXCEPT ![n] = v], N)
<1> DEFINE none == {}
<1>1. N \union none = N /\ none \in SUBSET Packets /\ \A q \in none : FALSE OBVIOUS
<1> HIDE DEF none
<1>2. Sound([c EXCEPT ![n] = v], N \union none) BY <1>1, KeepIsSound
<1>3. c \in [Node -> Wrappers] BY DEF Sound
<1>4. \A key : Unused(key, c, N) => Unused(key, [c EXCEPT ![n] = v], N)
    BY <1>3 DEF Unused
<1> QED BY <1>1, <1>2, <1>4

\* CryptoAuth_reset and CryptoAuth_getState (CryptoAuth.c:1052-1077).
LEMMA ResetFields ==
    ASSUME NEW w \in Wrappers
    PROVE  /\ refresh(w).tempKey = w.tempKey /\ refresh(w).user = w.user
           /\ reset(w).tempKey = w.tempKey /\ reset(w).user = w.user
<1>1. [w EXCEPT !.idle = FALSE] \in Wrappers
      /\ [w EXCEPT !.idle = FALSE].tempKey = w.tempKey
      /\ [w EXCEPT !.idle = FALSE].user = w.user
    BY DEF Wrappers
<1>2. \A u \in Wrappers : reset(u).tempKey = u.tempKey /\ reset(u).user = u.user
    BY DEF reset, Wrappers
<1> QED BY <1>1, <1>2 DEF refresh

\* A handshake packet is sent, or a request to be connected to (CryptoAuth.c:376-554).
LEMMA EncryptHandshakeIsSound ==
    ASSUME NEW c, NEW N, Sound(c, N), NEW n \in Node, c[n].nextNonce < 4,
           NEW content \in Payload \union {Empty},
           NEW fresh, IsFresh(n, fresh, c, N),
           encryptHandshake(n, c[n], content, fresh).w.secret # TempKey(n, MaxTemp + 1)
    PROVE  LET r == encryptHandshake(n, c[n], content, fresh)
           IN  Sound([c EXCEPT ![n] = r.w], N \union r.sent)
<1> DEFINE w == c[n]
           r == encryptHandshake(n, w, content, fresh)
<1>1. /\ w \in Wrappers /\ fresh \in TempKeys /\ HoldsItsKeys(n, w)
      /\ w.nextNonce \in Int /\ w.nextNonce \in {0, 1, 2, 3}
    <2>1. w \in Wrappers /\ fresh \in TempKeys /\ HoldsItsKeys(n, w)
        BY DEF Sound, KeyInv, IsFresh
    <2>2. w.nextNonce \in 0..NonceMod - 1 /\ NonceMod \in Nat
        BY <2>1, BoundAssumption DEF Wrappers
    <2> QED BY <2>1, <2>2
<1>2. r.w \in Wrappers /\ r.sent \subseteq Packets BY <1>1, EncryptHandshakeOK DEF Sendable
<1>3. CASE ~knowHerKey(w)
    <2> DEFINE q == Packet(ConnectToMe, n, NoPassword, NoKey, FALSE, NoKey, Empty)
               v == [w EXCEPT !.nextNonce = 0, !.buffered = content, !.hasBuffered = TRUE]
    <2>1. r = [w |-> v, sent |-> {q}, up |-> FALSE]
        BY <1>3 DEF encryptHandshake, genReverseHandshake, Result
    <2>2. v.secret = w.secret /\ v.tempKey = w.tempKey /\ v.nextNonce = 0 /\ v.user = w.user
        BY <1>1 DEF Wrappers
    <2>3. q.from = n /\ q.nonce > 3 /\ q.secret = NoKey
        BY BoundAssumption DEF Packet, ConnectToMe
    <2> HIDE DEF v, q, r
    <2>4. v \in Wrappers /\ {q} \in SUBSET Packets BY <1>2, <2>1
    <2>5. Sound([c EXCEPT ![n] = v], N \union {q}) BY <2>2, <2>3, <2>4, KeepIsSound
    <2> QED BY <2>1, <2>5 DEF r
<1>4. CASE knowHerKey(w) /\ w.nextNonce < 2
    <2> DEFINE private == IF w.nextNonce \in {0, 2} THEN fresh ELSE w.secret
               public  == encryptedTempKey(w, private)
               secret  == getSharedSecret(PermKey(n), PermKey(w.herKey), w.password)
               v == [w EXCEPT !.secret = private, !.tempKey = public,
                              !.isInitiator = TRUE, !.nextNonce = 1]
               q == Packet(w.nextNonce, n, w.password, secret, FALSE, public, content)
    <2>1. r = [w |-> v, sent |-> {q}, up |-> FALSE]
        BY <1>4 DEF encryptHandshake, Result
    <2>2. /\ public = private
          /\ \/ private = w.secret /\ w.secret \in Own(n)
             \/ private = fresh /\ w.nextNonce = 0
        BY <1>1, <1>4 DEF encryptedTempKey, HoldsItsKeys
    <2> HIDE DEF private, public
    <2>3. v.secret = private /\ v.tempKey = public /\ v.nextNonce = 1 BY <1>1 DEF Wrappers
    <2>4. q.from = n /\ q.nonce = w.nextNonce /\ q.temp = public BY DEF Packet
    <2> HIDE DEF v, q, r
    <2>5. v \in Wrappers /\ q \in Packets BY <1>2, <2>1
    <2>6. v.secret # TempKey(n, MaxTemp + 1) BY <2>1 DEF r
    <2>7. v.secret \in Own(n) /\ (v.secret = w.secret \/ Unused(v.secret, c, N))
        BY <2>2, <2>3, <2>6 DEF IsFresh
    <2>8. Sound([c EXCEPT ![n] = v], N \union {q})
        BY <1>4, <2>2, <2>3, <2>4, <2>5, <2>7, HelloIsSound
    <2> QED BY <2>1, <2>8 DEF r
<1>5. CASE knowHerKey(w) /\ ~(w.nextNonce < 2)
    <2> DEFINE private == IF w.nextNonce \in {0, 2} THEN fresh ELSE w.secret
               public  == encryptedTempKey(w, private)
               secret  == getSharedSecret(PermKey(n), w.tempKey, w.password)
               v == [w EXCEPT !.secret = private, !.nextNonce = 3]
               q == Packet(w.nextNonce, n, w.password, secret, FALSE, public, content)
    <2>1. r = [w |-> v, sent |-> {q}, up |-> FALSE]
        BY <1>5 DEF encryptHandshake, Result
    <2>2. w.nextNonce \in {2, 3} BY <1>1, <1>5
    <2>3. public = private BY <2>2 DEF encryptedTempKey
    <2>4. \/ w.nextNonce = 2 /\ private = fresh
          \/ w.nextNonce = 3 /\ private = w.secret
        BY <2>2
    <2>5. secret = <<"shared", {PermKey(n), w.tempKey}, w.password>>
        <3>1. PermKey(n) \in Keys BY BoundAssumption DEF PermKey, Keys
        <3>2. w.tempKey \in Own(Peer(n)) BY <1>1, <2>2 DEF HoldsItsKeys
        <3>3. w.tempKey \in Keys BY <3>2, PeerFacts, OwnFacts
        <3> QED BY <3>1, <3>3 DEF getSharedSecret
    <2> HIDE DEF private, public, secret
    <2>6. v.secret = private /\ v.tempKey = w.tempKey /\ v.nextNonce = 3 /\ v.user = w.user
        BY <1>1 DEF Wrappers
    <2>7. q.from = n /\ q.nonce = w.nextNonce /\ q.temp = public /\ q.secret = secret
        BY DEF Packet
    <2> HIDE DEF v, q, r
    <2>8. v \in Wrappers /\ q \in Packets BY <1>2, <2>1
    <2>9. v.secret # TempKey(n, MaxTemp + 1) BY <2>1 DEF r
    <2>10. \/ w.nextNonce = 2 /\ v.secret \in Own(n) /\ Unused(v.secret, c, N)
           \/ w.nextNonce = 3 /\ v.secret = w.secret
        BY <2>4, <2>6, <2>9 DEF IsFresh
    <2>11. w.password \in Passwords \union {NoPassword} BY <1>1 DEF Wrappers
    <2>12. Sound([c EXCEPT ![n] = v], N \union {q})
        BY <2>2, <2>3, <2>5, <2>6, <2>7, <2>8, <2>10, <2>11, KeyIsSound
    <2> QED BY <2>1, <2>12 DEF r
<1> QED BY <1>3, <1>4, <1>5

\* A message is sent (CryptoAuth.c:576-614).
LEMMA SendIsSound ==
    ASSUME NEW c, NEW N, Sound(c, N), NEW n \in Node,
           NEW content \in Payload \union {Empty},
           NEW fresh, IsFresh(n, fresh, c, N),
           sendMessage(n, c[n], content, fresh).w.secret # TempKey(n, MaxTemp + 1)
    PROVE  LET r == sendMessage(n, c[n], content, fresh)
           IN  Sound([c EXCEPT ![n] = r.w], N \union r.sent)
<1> DEFINE w == c[n]
           u == refresh(w)
           d == [c EXCEPT ![n] = u]
           r == sendMessage(n, w, content, fresh)
<1>1. c \in [Node -> Wrappers] /\ w \in Wrappers /\ fresh \in TempKeys BY DEF Sound, IsFresh
<1>2. u \in Wrappers /\ u.secret = w.secret /\ (u.nextNonce = 0 \/ u = w)
      /\ u.tempKey = w.tempKey /\ u.user = w.user
    BY <1>1, RefreshOK, ResetFields
<1> HIDE DEF u
<1>3. d[n] = u /\ \A v : [d EXCEPT ![n] = v] = [c EXCEPT ![n] = v] BY <1>1
<1> HIDE DEF d
<1>4. Sound(d, N) /\ IsFresh(n, fresh, d, N)
    <2>1. Sound(d, N) /\ (Unused(fresh, c, N) => Unused(fresh, d, N))
        BY <1>2, StayIsSound DEF d
    <2> QED BY <2>1 DEF IsFresh
<1>5. r.w \in Wrappers /\ r.sent \subseteq Packets BY <1>1, SendMessageOK DEF Sendable
<1>6. u.nextNonce \in 0..NonceMod - 1 /\ NonceMod \in Nat /\ NonceMod > 8
    BY <1>2, BoundAssumption DEF Wrappers
<1>7. CASE u.nextNonce < 4
    <2>1. r = encryptHandshake(n, d[n], content, fresh) BY <1>3, <1>7 DEF sendMessage, u
    <2>2. encryptHandshake(n, d[n], content, fresh).w.secret # TempKey(n, MaxTemp + 1)
        BY <2>1
    <2> HIDE DEF r
    <2>3. Sound([d EXCEPT ![n] = r.w], N \union r.sent)
        BY <1>3, <1>4, <1>7, <2>1, <2>2, EncryptHandshakeIsSound
    <2> QED BY <1>3, <2>3 DEF r
<1>8. CASE ~(u.nextNonce < 4)
    <2> DEFINE s == IF u.nextNonce = 4 THEN finalSecret(u) ELSE u.secret
               x == [u EXCEPT !.secret = s]
               k == (x.nextNonce + 1) % NonceMod
               v == [x EXCEPT !.nextNonce = k]
               q == Packet(x.nextNonce, n, NoPassword, x.secret, x.isInitiator, NoKey, content)
    <2>1. r = encryptMessage(n, x, content)
        <3>1. CASE u.nextNonce = 4 BY <1>8, <3>1 DEF sendMessage, u
        <3>2. CASE u.nextNonce # 4
            <4>1. [u EXCEPT !.secret = u.secret] = u BY <1>2 DEF Wrappers
            <4>2. r = encryptMessage(n, u, content) BY <1>8, <3>2 DEF sendMessage, u
            <4> QED BY <3>2, <4>1, <4>2
        <3> QED BY <3>1, <3>2
    <2> HIDE DEF s
    <2>2. /\ x.nextNonce = u.nextNonce /\ x.secret = s /\ x.tempKey = u.tempKey
          /\ x.isInitiator = u.isInitiator /\ x.user = u.user
          /\ x = [x EXCEPT !.secret = s]
        BY <1>2 DEF Wrappers
    <2>3. r = [w |-> v, sent |-> {q}, up |-> FALSE]
        <3>1. v = [x EXCEPT !.nextNonce = (@ + 1) % NonceMod] BY <1>2 DEF Wrappers
        <3> QED BY <2>1, <3>1 DEF encryptMessage, Result
    <2>4. /\ v.secret = x.secret /\ v.tempKey = x.tempKey /\ v.nextNonce = k
          /\ v.isInitiator = x.isInitiator /\ v.user = x.user
        BY <1>2 DEF Wrappers
    <2>5. q.from = n /\ q.nonce = x.nextNonce /\ q.secret = x.secret /\ q.half = x.isInitiator
        BY DEF Packet
    <2> HIDE DEF x, v, q, r
    <2>6. v \in Wrappers /\ q \in Packets BY <1>5, <2>3
    <2>7. k = 0 \/ k = u.nextNonce + 1
        <3>1. CASE u.nextNonce = NonceMod - 1 BY <1>6, <2>2, <3>1
        <3>2. CASE u.nextNonce # NonceMod - 1 BY <1>6, <2>2, <3>2
        <3> QED BY <3>1, <3>2
    <2> HIDE DEF k
    <2>8. u.nextNonce > 3 BY <1>6, <1>8
    <2>9. s = IF u.nextNonce = 4 THEN Final(u.secret, u.tempKey) ELSE u.secret
        <3>1. CASE u.nextNonce = 4
            <4>1. HoldsItsKeys(n, u) BY <1>3, <1>4 DEF Sound, KeyInv
            <4>2. u.secret \in Own(n) /\ u.tempKey \in Own(Peer(n))
                BY <3>1, <4>1 DEF HoldsItsKeys
            <4>3. u.secret \in Keys /\ u.tempKey \in Keys BY <4>2, PeerFacts, OwnFacts
            <4> QED BY <3>1, <4>3 DEF s, finalSecret, getSharedSecret, Final
        <3>2. CASE u.nextNonce # 4 BY <3>2 DEF s
        <3> QED BY <3>1, <3>2
    <2>10. Sound([d EXCEPT ![n] = v], N \union {q})
        BY <1>3, <1>4, <2>2, <2>4, <2>5, <2>6, <2>7, <2>8, <2>9, DataIsSound
    <2> QED BY <1>3, <2>3, <2>10 DEF r
<1> QED BY <1>7, <1>8

\* A hello or key that opens is taken, and the buffered message sent (CryptoAuth.c:787-825).
LEMMA AcceptHandshakeIsSound ==
    ASSUME NEW c, NEW N, Sound(c, N), NEW n \in Node, NEW p \in N, p.from = Peer(n),
           tryAuth(n, p) \in Users[n] \/ n \notin RequireAuth,
           NEW nextNonce,
           \/ p.nonce < 2 /\ nextNonce = 2
           \/ /\ p.nonce \in {2, 3} /\ nextNonce = 4
              /\ c[n].secret \in Keys /\ Holds(p.secret, c[n].secret),
           NEW fresh, IsFresh(n, fresh, c, N),
           acceptHandshake(n, c[n], p, nextNonce, fresh).w.secret # TempKey(n, MaxTemp + 1)
    PROVE  LET r == acceptHandshake(n, c[n], p, nextNonce, fresh)
           IN  Sound([c EXCEPT ![n] = r.w], N \union r.sent)
<1> DEFINE w      == c[n]
           opened == takeTempKey(n, w, p, nextNonce)
           flush  == sendMessage(n, opened, w.buffered, fresh)
           r      == acceptHandshake(n, w, p, nextNonce, fresh)
           d      == [c EXCEPT ![n] = opened]
<1>1. /\ c \in [Node -> Wrappers] /\ w \in Wrappers /\ N \subseteq Packets /\ p \in Packets
      /\ fresh \in TempKeys /\ nextNonce \in {2, 4}
    BY DEF Sound, IsFresh
<1>2. opened \in Wrappers
    <2>1. nextNonce \in 0..NonceMod - 1 BY <1>1, BoundAssumption
    <2>2. tryAuth(n, p) \in Passwords \union {NoPassword} BY <1>1 DEF tryAuth, Packets
    <2>3. p.temp \in Terms /\ p.from \in Node \union {NoNode} BY <1>1 DEF Packets
    <2>4. (IF nextNonce = 2 THEN FALSE ELSE w.isInitiator) \in BOOLEAN BY <1>1 DEF Wrappers
    <2> DEFINE role == IF nextNonce = 2 THEN FALSE ELSE w.isInitiator
               auth == tryAuth(n, p)
    <2>5. opened = [w EXCEPT !.user = auth, !.tempKey = p.temp, !.nextNonce = nextNonce,
                             !.herKey = p.from, !.isInitiator = role]
        BY <1>1 DEF takeTempKey, Wrappers
    <2> HIDE DEF opened, role, auth
    <2>6. auth \in Passwords \union {NoPassword} /\ role \in BOOLEAN BY <2>2, <2>4 DEF auth, role
    <2> QED BY <1>1, <2>1, <2>3, <2>5, <2>6 DEF Wrappers
<1>3. /\ opened.secret = w.secret /\ opened.nextNonce = nextNonce
      /\ opened.tempKey = p.temp /\ opened.user = tryAuth(n, p)
    BY <1>1 DEF takeTempKey, Wrappers
<1> HIDE DEF opened
<1>4. d[n] = opened /\ \A v : [d EXCEPT ![n] = v] = [c EXCEPT ![n] = v] BY <1>1
<1>5. Sound(d, N) BY <1>2, <1>3, AcceptIsSound
<1>6. IsFresh(n, fresh, d, N)
    <2>1. HoldsItsKeys(n, opened) BY <1>4, <1>5 DEF Sound, KeyInv
    <2>2. opened.nextNonce > 1 BY <1>1, <1>3
    <2>3. p.temp \in Own(Peer(n)) BY <1>3, <2>1, <2>2 DEF HoldsItsKeys
    <2>4. p.temp[1] = "key" BY <2>3, PeerFacts, OwnFacts
    <2>5. Unused(fresh, c, N) BY DEF IsFresh
    <2>6. ~Holds(p.temp, fresh) BY <2>4, <2>5 DEF Unused, Holds
    <2>7. Unused(fresh, d, N) BY <1>1, <1>3, <2>5, <2>6 DEF Unused
    <2> QED BY <2>7 DEF IsFresh
<1> HIDE DEF d
<1>7. CASE w.hasBuffered /\ p.content = Empty
    <2> DEFINE e == [d EXCEPT ![n] = flush.w]
               v == [flush.w EXCEPT !.hasBuffered = FALSE]
               M == N \union flush.sent
    <2>1. w.buffered \in Payload \union {Empty} BY <1>1 DEF Wrappers
    <2>2. flush.w \in Wrappers /\ flush.sent \subseteq Packets
        BY <1>1, <1>2, <2>1, SendMessageOK DEF Sendable
    <2>3. flush = sendMessage(n, d[n], w.buffered, fresh) BY <1>4
    <2> HIDE DEF flush
    <2>4. r = [w |-> v, sent |-> flush.sent, up |-> FALSE]
        BY <1>7 DEF acceptHandshake, Result, flush, opened
    <2>5. /\ v \in Wrappers /\ v.secret = flush.w.secret /\ v.nextNonce = flush.w.nextNonce
          /\ v.tempKey = flush.w.tempKey /\ v.isInitiator = flush.w.isInitiator
          /\ v.user = flush.w.user
        BY <2>2 DEF Wrappers
    <2>6. flush.w.secret # TempKey(n, MaxTemp + 1)
        <3> HIDE DEF v, r
        <3>1. r.w.secret # TempKey(n, MaxTemp + 1) BY DEF r
        <3>2. r.w = v BY <2>4
        <3> QED BY <2>5, <3>1, <3>2
    <2>7. Sound(e, M)
        <3>1. sendMessage(n, d[n], w.buffered, fresh).w.secret # TempKey(n, MaxTemp + 1)
            BY <2>3, <2>6
        <3> QED BY <1>5, <1>6, <2>1, <2>3, <3>1, SendIsSound
    <2>8. d \in [Node -> Wrappers] BY <1>5 DEF Sound
    <2>9. e[n] = flush.w /\ [e EXCEPT ![n] = v] = [d EXCEPT ![n] = v] BY <2>8
    <2> HIDE DEF e, v, M, r
    <2>10. Sound([e EXCEPT ![n] = v], M) BY <2>5, <2>7, <2>9, StayIsSound
    <2> QED BY <1>4, <2>4, <2>9, <2>10 DEF M, r
<1>8. CASE ~(w.hasBuffered /\ p.content = Empty)
    <2> DEFINE u == [opened EXCEPT !.replay = ZeroProtector]
               v == [u EXCEPT !.idle = FALSE]
    <2>1. r = [w |-> v, sent |-> {}, up |-> TRUE]
        BY <1>8 DEF acceptHandshake, callReceivedMessage, Result, opened
    <2>2. ZeroProtector \in Protectors BY DEF ZeroProtector, Protectors
    <2>3. /\ u \in Wrappers /\ u.secret = opened.secret /\ u.nextNonce = opened.nextNonce
          /\ u.tempKey = opened.tempKey /\ u.isInitiator = opened.isInitiator
          /\ u.user = opened.user
        BY <1>2, <2>2 DEF Wrappers
    <2> HIDE DEF u
    <2>4. /\ v \in Wrappers /\ v.secret = u.secret /\ v.nextNonce = u.nextNonce
          /\ v.tempKey = u.tempKey /\ v.isInitiator = u.isInitiator
          /\ v.user = u.user
        BY <2>3 DEF Wrappers
    <2> HIDE DEF v, r
    <2>5. Sound([d EXCEPT ![n] = v], N) BY <1>4, <1>5, <2>3, <2>4, StayIsSound
    <2>6. N \union r.sent = N /\ r.w = v BY <2>1
    <2> QED BY <1>4, <2>5, <2>6 DEF r
<1> QED BY <1>7, <1>8

\* A handshake packet is received (CryptoAuth.c:655-826).
LEMMA DecryptHandshakeIsSound ==
    ASSUME NEW c, NEW N, Sound(c, N), NEW n \in Node, NEW p \in N, p.from = Peer(n),
           NEW fresh, IsFresh(n, fresh, c, N),
           decryptHandshake(n, c[n], p, fresh).w.secret # TempKey(n, MaxTemp + 1)
    PROVE  LET r == decryptHandshake(n, c[n], p, fresh)
           IN  Sound([c EXCEPT ![n] = r.w], N \union r.sent)
<1> DEFINE w == c[n]
           r == decryptHandshake(n, w, p, fresh)
           mine         == IF p.nonce < 2 THEN PermKey(n) ELSE w.secret
           sharedSecret == getSharedSecret(mine, PermKey(p.from), tryAuth(n, p))
           refused  == \/ authRefused(n, p) \/ keyRefused(w, p)
                       \/ p.secret # sharedSecret \/ sharedSecret = Junk
           answered == [w EXCEPT !.herKey = IF knowHerKey(w) THEN @ ELSE p.from,
                                 !.nextNonce = 0, !.user = NoPassword]
           next     == IF p.nonce < 2 THEN 2 ELSE 4
           connect  == p.nonce = ConnectToMe /\ w.nextNonce < 2 /\ n \notin RequireAuth
<1>1. /\ c \in [Node -> Wrappers] /\ w \in Wrappers /\ N \subseteq Packets /\ p \in Packets
      /\ fresh \in TempKeys
    BY DEF Sound, IsFresh
<1>2. [c EXCEPT ![n] = w] = c BY <1>1
<1>3. CASE r = Drop(w)
    <2>1. r.w = w /\ N \union r.sent = N BY <1>3 DEF Drop, Result
    <2> HIDE DEF r
    <2> QED BY <1>2, <2>1 DEF r
<1>4. IsData(p) => r = Drop(w) BY DEF decryptHandshake
<1>5. CASE ~IsData(p) /\ connect
    <2> DEFINE d == [c EXCEPT ![n] = answered]
    <2>1. r = encryptHandshake(n, answered, Empty, fresh) BY <1>5 DEF decryptHandshake
    <2>2. 0 \in 0..NonceMod - 1 BY BoundAssumption
    <2>3. (IF knowHerKey(w) THEN w.herKey ELSE p.from) \in Node \union {NoNode}
        BY <1>1 DEF Wrappers, Packets
    <2>4. answered \in Wrappers BY <1>1, <2>2, <2>3 DEF Wrappers
    <2>5. answered.nextNonce = 0 /\ answered.secret = w.secret /\ answered.tempKey = w.tempKey
        BY <1>1 DEF Wrappers
    <2> HIDE DEF answered
    <2>6. d[n] = answered /\ \A v : [d EXCEPT ![n] = v] = [c EXCEPT ![n] = v] BY <1>1
    <2>7. Sound(d, N) /\ (Unused(fresh, c, N) => Unused(fresh, d, N))
        BY <1>5, <2>4, <2>5, StayIsSound
    <2>8. IsFresh(n, fresh, d, N) BY <2>7 DEF IsFresh
    <2> HIDE DEF d
    <2>9. r = encryptHandshake(n, d[n], Empty, fresh) BY <2>1, <2>6
    <2>10. encryptHandshake(n, d[n], Empty, fresh).w.secret # TempKey(n, MaxTemp + 1)
        BY <2>9
    <2> HIDE DEF r
    <2>11. d[n].nextNonce < 4 BY <2>5, <2>6
    <2>12. Sound([d EXCEPT ![n] = r.w], N \union r.sent)
        BY <2>7, <2>8, <2>9, <2>10, <2>11, EncryptHandshakeIsSound
    <2> QED BY <2>6, <2>12 DEF r
<1>6. ~IsData(p) /\ ~connect /\ refused => r = Drop(w) BY DEF decryptHandshake
<1>7. CASE ~IsData(p) /\ ~connect /\ ~refused
    <2>1. r = acceptHandshake(n, w, p, next, fresh) BY <1>7 DEF decryptHandshake
    <2>2. tryAuth(n, p) \in Users[n] \/ n \notin RequireAuth
        BY <1>7 DEF authRefused, tryAuth
    <2>3. /\ p.secret = <<"shared", {mine, PermKey(p.from)}, tryAuth(n, p)>>
          /\ mine \in Keys
        <3> HIDE DEF mine
        <3> QED BY <1>7 DEF getSharedSecret
    <2>4. p.secret # NoKey /\ Holds(p.secret, mine)
        <3>1. p.secret[1] = "shared" /\ p.secret[2] = {mine, PermKey(p.from)}
            <4> HIDE DEF mine
            <4> QED BY <2>3
        <3>2. NoKey[1] = "zero" BY DEF NoKey
        <3> HIDE DEF mine
        <3> QED BY <3>1, <3>2 DEF Holds
    <2>5. p.nonce \in Nat /\ ~(p.nonce > 3)
        BY <1>1, <1>7, <2>4, BoundAssumption DEF IsData, Packets
    <2>6. \/ p.nonce < 2 /\ next = 2
          \/ /\ p.nonce \in {2, 3} /\ next = 4
             /\ w.secret \in Keys /\ Holds(p.secret, w.secret)
        BY <2>3, <2>4, <2>5
    <2>7. acceptHandshake(n, w, p, next, fresh).w.secret # TempKey(n, MaxTemp + 1)
        BY <2>1
    <2> HIDE DEF next, r
    <2>8. Sound([c EXCEPT ![n] = r.w], N \union r.sent)
        BY <2>1, <2>2, <2>6, <2>7, AcceptHandshakeIsSound
    <2> QED BY <2>8 DEF r
<1> QED BY <1>3, <1>4, <1>5, <1>6, <1>7

\* A packet is received (CryptoAuth.c:828-884).
LEMMA ReceiveIsSound ==
    ASSUME NEW c, NEW N, Sound(c, N), NEW n \in Node, NEW p \in N, p.from = Peer(n),
           NEW fresh, IsFresh(n, fresh, c, N),
           receiveMessage(n, c[n], p, fresh).w.secret # TempKey(n, MaxTemp + 1)
    PROVE  LET r == receiveMessage(n, c[n], p, fresh)
           IN  Sound([c EXCEPT ![n] = r.w], N \union r.sent)
<1> DEFINE w == c[n]
           r      == receiveMessage(n, w, p, fresh)
           first  == w.nextNonce < 5 /\ p.nonce > 3 /\ p.nonce # ConnectToMe /\ knowHerKey(w)
           second == w.nextNonce >= 5 /\ p.nonce > 4
           final  == finalSecret(w)
<1>1. /\ c \in [Node -> Wrappers] /\ w \in Wrappers /\ N \subseteq Packets /\ p \in Packets
      /\ fresh \in TempKeys /\ HoldsItsKeys(n, w) /\ SoundPacket(p, c)
    BY DEF Sound, IsFresh, KeyInv
<1>2. /\ w.nextNonce \in Nat /\ p.nonce \in Nat
    BY <1>1, BoundAssumption DEF Wrappers, Packets
<1>3. r.w \in Wrappers
    <2>1. w.nextNonce > 4 => w.secret \in SessionSecrets \union {Junk}
        <3>1. ASSUME NEW s \in FinalOf(n) PROVE s \in SessionSecrets
            <4>1. PICK a \in Own(n), b \in Own(Peer(n)) : s = Final(a, b) BY DEF FinalOf
            <4>2. a \in TempKeys /\ b \in TempKeys BY PeerFacts, OwnFacts
            <4>3. {a, b} \in SUBSET TempKeys BY <4>2
            <4> QED BY <4>1, <4>3 DEF Final, SessionSecrets
        <3> QED BY <1>1, <3>1 DEF HoldsItsKeys
    <2> QED BY <1>1, <2>1, ReceiveMessageOK
<1>4. [c EXCEPT ![n] = w] = c BY <1>1
<1>5. CASE first /\ decryptMessage(w, p, final)
    <2> DEFINE k == w.nextNonce + 3
               u == [w EXCEPT !.nextNonce = k, !.secret = final,
                              !.replay = FileNonce(p.nonce, w.replay)]
               v == [u EXCEPT !.idle = FALSE]
    <2>1. u = [w EXCEPT !.nextNonce = @ + 3, !.secret = final,
                        !.replay = FileNonce(p.nonce, @)]
        BY <1>1 DEF Wrappers
    <2>2. r = [w |-> v, sent |-> {}, up |-> TRUE]
        BY <1>2, <1>5, <2>1 DEF receiveMessage, callReceivedMessage, Result
    <2>3. p.secret = final /\ final # Junk /\ p.half # w.isInitiator
        BY <1>5 DEF decryptMessage
    <2> HIDE DEF k, final
    <2>4. /\ v.nextNonce = k /\ v.secret = final /\ v.tempKey = w.tempKey
          /\ v.isInitiator = w.isInitiator /\ v.user = w.user
        BY <1>1 DEF Wrappers
    <2> HIDE DEF u, v, r
    <2>5. v \in Wrappers /\ N \union r.sent = N /\ r.w = v BY <1>3, <2>2
    <2>6. IsData(p)
        <3>1. p.secret # NoKey BY <1>1, <2>3, FinalSecretKind, SecretKinds DEF final, Junk, NoKey
        <3> QED BY <1>5, <3>1 DEF IsData
    <2>7. Sound([c EXCEPT ![n] = v], N)
        BY <1>5, <2>3, <2>4, <2>5, <2>6, HearIsSound DEF k, final
    <2> QED BY <2>5, <2>7 DEF r
<1>6. CASE first /\ ~decryptMessage(w, p, final)
    <2>1. r = [w |-> reset(w), sent |-> {}, up |-> FALSE]
        BY <1>2, <1>6 DEF receiveMessage, Drop, Result
    <2>2. /\ reset(w) \in Wrappers /\ reset(w).secret = w.secret /\ reset(w).nextNonce = 0
          /\ reset(w).tempKey = w.tempKey /\ reset(w).user = w.user
        BY <1>1, RefreshOK, ResetFields
    <2> HIDE DEF r
    <2>3. Sound([c EXCEPT ![n] = reset(w)], N) BY <2>2, StayIsSound
    <2>4. N \union r.sent = N /\ r.w = reset(w) BY <2>1
    <2> QED BY <2>3, <2>4 DEF r
<1>7. CASE ~first /\ second /\ decryptMessage(w, p, w.secret)
    <2> DEFINE u == [w EXCEPT !.replay = FileNonce(p.nonce, w.replay)]
               v == [u EXCEPT !.idle = FALSE]
    <2>1. u = [w EXCEPT !.replay = FileNonce(p.nonce, @)] BY <1>1 DEF Wrappers
    <2>2. r = [w |-> v, sent |-> {}, up |-> TRUE]
        BY <1>2, <1>7, <2>1 DEF receiveMessage, callReceivedMessage, Result
    <2>3. /\ v.nextNonce = w.nextNonce /\ v.secret = w.secret /\ v.tempKey = w.tempKey
          /\ v.isInitiator = w.isInitiator /\ v.user = w.user
        BY <1>1 DEF Wrappers
    <2> HIDE DEF u, v, r
    <2>4. v \in Wrappers /\ N \union r.sent = N /\ r.w = v BY <1>3, <2>2
    <2>5. Sound([c EXCEPT ![n] = v], N) BY <2>3, <2>4, StayIsSound
    <2> QED BY <2>4, <2>5 DEF r
<1>8. CASE ~first /\ second /\ ~decryptMessage(w, p, w.secret)
    <2>1. r = [w |-> w, sent |-> {}, up |-> FALSE]
        BY <1>8, <1>2 DEF receiveMessage, Drop, Result
    <2> HIDE DEF r
    <2>2. N \union r.sent = N /\ r.w = w BY <2>1
    <2> QED BY <1>4, <2>2 DEF r
<1>9. CASE ~first /\ ~second
    <2>1. r = decryptHandshake(n, w, p, fresh) BY <1>9 DEF receiveMessage
    <2>2. decryptHandshake(n, w, p, fresh).w.secret # TempKey(n, MaxTemp + 1) BY <2>1
    <2> HIDE DEF r
    <2>3. Sound([c EXCEPT ![n] = r.w], N \union r.sent)
        BY <2>1, <2>2, DecryptHandshakeIsSound
    <2> QED BY <2>3 DEF r
<1> QED BY <1>5, <1>6, <1>7, <1>8, <1>9

\* Random_bytes gives a key that is in no use (CryptoAuth.c:446-447).
LEMMA FreshIsFresh ==
    ASSUME NEW n \in Node, NEW fresh \in FreshKeys(n)
    PROVE  IsFresh(n, fresh, ca, net)
<1>1. fresh \in TempKeys /\ fresh[2] = n /\ ~InUse(fresh) BY DEF FreshKeys
<1>2. fresh \in Own(n) \/ fresh = TempKey(n, MaxTemp + 1)
    <2>1. MaxTemp \in Nat BY BoundAssumption
    <2>2. PICK i \in 1..MaxTemp + 1 : fresh = <<"key", n, i>> BY <1>1 DEF TempKeys
    <2>3. i \in 1..MaxTemp \/ i = MaxTemp + 1 BY <2>1
    <2> QED BY <2>2, <2>3 DEF Own, TempKey
<1>3. Unused(fresh, ca, net) BY <1>1 DEF InUse, Unused
<1> QED BY <1>1, <1>2, <1>3 DEF IsFresh

\* Before the first packet there are no keys.
LEMMA InitSound == Init => Sound(ca, net)
<1> SUFFICES ASSUME Init PROVE Sound(ca, net) OBVIOUS
<1>1. PICK password \in [Node -> Passwords \union {NoPassword}] :
          ca = [n \in Node |-> NewWrapper(n, password[n])]
    BY DEF Init
<1>2. net = {} BY DEF Init
<1>3. IInv BY InitIInv
<1>4. ca \in [Node -> Wrappers] /\ net \subseteq Packets BY <1>3 DEF IInv, TypeOK
<1>5. ASSUME NEW n \in Node
      PROVE  /\ ca[n].nextNonce = 0 /\ ca[n].secret = NoKey /\ ca[n].tempKey = NoKey
    BY <1>1 DEF NewWrapper
<1>6. \A n \in Node : HoldsItsKeys(n, ca[n])
    <2>1. \A n \in Node : NoKey \notin Own(Peer(n)) BY PeerFacts, OwnFacts
    <2> QED BY <1>5, <2>1 DEF HoldsItsKeys
<1>7. KeyInv(ca, net) BY <1>2, <1>5, <1>6 DEF KeyInv, SentKeysAreSpent
<1>8. RoleInv(ca, net)
    <2>1. \A n \in Node : HasRole(n, ca[n], net) BY <1>5 DEF HasRole
    <2>2. \A n \in Node : \A s : ~Leads(n, s, net) BY <1>2 DEF Leads, Keyed
    <2> QED BY <1>2, <2>1, <2>2 DEF RoleInv
<1> QED BY <1>4, <1>7, <1>8 DEF Sound

\* Every action keeps the keys and the roles in order.
LEMMA NextSound == Sound(ca, net) /\ [Next]_vars => Sound(ca, net)'
<1> SUFFICES ASSUME Sound(ca, net), [Next]_vars PROVE Sound(ca', net') OBVIOUS
<1>1. ca \in [Node -> Wrappers] /\ net \subseteq Packets BY DEF Sound
<1>2. ASSUME NEW n \in Node, NEW fresh \in FreshKeys(n), NEW content \in Payload,
             Send(n, content, fresh)
      PROVE  Sound(ca', net')
    <2> DEFINE r == sendMessage(n, ca[n], content, fresh)
    <2>1. /\ ca' = [ca EXCEPT ![n] = r.w] /\ net' = net \union r.sent
          /\ r.w.secret # TempKey(n, MaxTemp + 1)
        BY <1>2 DEF Send, Within
    <2>2. IsFresh(n, fresh, ca, net) BY FreshIsFresh
    <2>3. Sound([ca EXCEPT ![n] = r.w], net \union r.sent) BY <2>1, <2>2, SendIsSound
    <2> QED BY <2>1, <2>3
<1>3. ASSUME NEW n \in Node, NEW fresh \in FreshKeys(n), NEW p \in net,
             Receive(n, p, fresh)
      PROVE  Sound(ca', net')
    <2> DEFINE r == receiveMessage(n, ca[n], p, fresh)
    <2>1. /\ ca' = [ca EXCEPT ![n] = r.w] /\ net' = net \union r.sent
          /\ r.w.secret # TempKey(n, MaxTemp + 1) /\ p.from # n
        BY <1>3 DEF Receive, Within
    <2>2. IsFresh(n, fresh, ca, net) BY FreshIsFresh
    <2>3. p.from = Peer(n) BY <1>1, <2>1, PeerFacts DEF Packets
    <2>4. Sound([ca EXCEPT ![n] = r.w], net \union r.sent) BY <2>1, <2>2, <2>3, ReceiveIsSound
    <2> QED BY <2>1, <2>4
<1>4. ASSUME NEW n \in Node, GetState(n) PROVE Sound(ca', net')
    <2>1. ca[n] \in Wrappers BY <1>1
    <2>2. /\ refresh(ca[n]) \in Wrappers /\ refresh(ca[n]).secret = ca[n].secret
          /\ refresh(ca[n]).nextNonce = 0 \/ refresh(ca[n]) = ca[n]
          /\ refresh(ca[n]).tempKey = ca[n].tempKey /\ refresh(ca[n]).user = ca[n].user
        BY <2>1, RefreshOK, ResetFields
    <2>3. Sound([ca EXCEPT ![n] = refresh(ca[n])], net) BY <2>2, StayIsSound
    <2>4. ca' = [ca EXCEPT ![n] = refresh(ca[n])] /\ net' = net BY <1>1, <1>4 DEF GetState
    <2> QED BY <2>3, <2>4
<1>5. ASSUME NEW n \in Node, NEW v \in Wrappers,
             v.secret = ca[n].secret, v.tempKey = ca[n].tempKey, v.nextNonce = ca[n].nextNonce,
             v.isInitiator = ca[n].isInitiator, v.user = ca[n].user,
             ca' = [ca EXCEPT ![n] = v], net' = net
      PROVE  Sound(ca', net')
    <2>1. Sound([ca EXCEPT ![n] = v], net) BY <1>5, StayIsSound
    <2> QED BY <1>5, <2>1
<1>6. ASSUME NEW n \in Node, Inactivity(n) PROVE Sound(ca', net')
    <2> DEFINE v == [ca[n] EXCEPT !.idle = TRUE]
    <2>1. ca[n] \in Wrappers BY <1>1
    <2>2. /\ v \in Wrappers /\ v.secret = ca[n].secret /\ v.tempKey = ca[n].tempKey
          /\ v.nextNonce = ca[n].nextNonce /\ v.isInitiator = ca[n].isInitiator
          /\ v.user = ca[n].user
        BY <2>1 DEF Wrappers
    <2>3. ca' = [ca EXCEPT ![n] = v] /\ net' = net BY <1>1, <1>6 DEF Inactivity
    <2> HIDE DEF v
    <2> QED BY <1>5, <2>2, <2>3
<1>7. ASSUME NEW n \in Node, NEW password \in SetAuth[n], Rewrap(n, password)
      PROVE  Sound(ca', net')
    <2> DEFINE v == NewWrapper(n, password)
    <2>1. password \in Passwords \union {NoPassword} BY AuthAssumption
    <2>2. v \in Wrappers /\ v.nextNonce = 0 /\ v.secret = NoKey BY <2>1, NewWrapperOK
    <2>3. v.tempKey = NoKey BY DEF NewWrapper
    <2>4. ca' = [ca EXCEPT ![n] = v] /\ net' = net BY <1>7 DEF Rewrap
    <2> HIDE DEF v
    <2>5. Sound([ca EXCEPT ![n] = v], net) BY <2>2, <2>3, RenewIsSound
    <2> QED BY <2>4, <2>5
<1>8. ASSUME NEW n \in Node, LearnKey(n) PROVE Sound(ca', net')
    <2> DEFINE v == [ca[n] EXCEPT !.herKey = Peer(n)]
    <2>1. ca[n] \in Wrappers /\ Peer(n) \in Node BY <1>1, PeerFacts
    <2>2. /\ v \in Wrappers /\ v.secret = ca[n].secret /\ v.tempKey = ca[n].tempKey
          /\ v.nextNonce = ca[n].nextNonce /\ v.isInitiator = ca[n].isInitiator
          /\ v.user = ca[n].user
        BY <2>1 DEF Wrappers
    <2>3. ca' = [ca EXCEPT ![n] = v] /\ net' = net BY <1>1, <1>8 DEF LearnKey
    <2> HIDE DEF v
    <2> QED BY <1>5, <2>2, <2>3
<1>9. CASE UNCHANGED vars BY <1>9 DEF vars
<1> QED BY <1>2, <1>3, <1>4, <1>6, <1>7, <1>8, <1>9 DEF Next

\* The keys and the roles are always in order.
LEMMA AlwaysSound == Spec => []Sound(ca, net)
BY InitSound, NextSound, PTL DEF Spec

-----------------------------------------------------------------------------
(* What follows                                                            *)

\* In every state the tempKey of a wrapper that has got a hello or a key is a temporary key
\* of the other end, although a repeated key packet may carry a session's secret in its
\* place (CryptoAuth.c:465): whoever could open such a packet has already left the key it
\* was sealed for.
THEOREM HerKeyTemporary == Spec => []HerTempKeyIsTemporary
<1>1. ASSUME Sound(ca, net) PROVE HerTempKeyIsTemporary
    <2>1. ASSUME NEW n \in Node, ca[n].nextNonce > 1
          PROVE  ca[n].tempKey \in TempKeys /\ ca[n].tempKey[2] = Peer(n)
        <3>1. ca[n].tempKey \in Own(Peer(n)) BY <1>1, <2>1 DEF Sound, KeyInv, HoldsItsKeys
        <3>2. ca[n].tempKey \in TempKeys BY <3>1, PeerFacts, OwnFacts
        <3>3. \A k \in Own(Peer(n)) : k[2] = Peer(n) BY DEF Own, TempKey
        <3> QED BY <3>1, <3>2, <3>3
    <2> QED BY <2>1 DEF HerTempKeyIsTemporary
<1> QED BY <1>1, AlwaysSound, PTL

\* An established wrapper's secret is made of a temporary key of each end and no password,
\* whichever of the ways into State ESTABLISHED it came (CryptoAuth_pvt.h:57,
\* CryptoAuth.c:599-607, 847-863).
THEOREM SessionKeyFinal == Spec => []SessionKeyIsFinal
<1>1. ASSUME Sound(ca, net) PROVE SessionKeyIsFinal
    <2>1. ASSUME NEW n \in Node, State(ca[n]) = "ESTABLISHED"
          PROVE  \E i, j \in 1..MaxTemp :
                    ca[n].secret = <<"shared", {TempKey(n, i), TempKey(Peer(n), j)}, NoPassword>>
        <3>1. ca[n] \in Wrappers BY <1>1 DEF Sound
        <3>2. ca[n].nextNonce \in Nat BY <3>1, BoundAssumption DEF Wrappers
        <3>3. ca[n].nextNonce > 4 BY <2>1, <3>2 DEF State
        <3>4. ca[n].secret \in FinalOf(n) BY <1>1, <3>3 DEF Sound, KeyInv, HoldsItsKeys
        <3> QED BY <3>4 DEF FinalOf, Final, Own
    <2> QED BY <2>1 DEF SessionKeyIsFinal
<1> QED BY <1>1, AlwaysSound, PTL

\* A wrapper that requires authentication has a user it authorizes as soon as it has got a
\* hello, through every reset, repeated handshake and late data packet
\* (CryptoAuth.c:674-690, 787-825).
THEOREM SessionUser == Spec => []SessionHasUser
<1>1. ASSUME Sound(ca, net) PROVE SessionHasUser
    <2>1. ASSUME NEW n \in RequireAuth, ca[n].nextNonce > 1 PROVE ca[n].user \in Users[n]
        <3>1. ca[n] \in Wrappers /\ HoldsItsKeys(n, ca[n])
            BY <1>1, AuthAssumption DEF Sound, KeyInv
        <3>2. ca[n].nextNonce \in Nat BY <3>1, BoundAssumption DEF Wrappers
        <3> QED BY <2>1, <3>1, <3>2 DEF HoldsItsKeys
    <2> QED BY <2>1 DEF SessionHasUser
<1> QED BY <1>1, AlwaysSound, PTL

\* Data that the other end has sent with the secret of n's session has its counter in the
\* other half of the nonce than n's.
LEMMA OtherHalf ==
    ASSUME NEW c, NEW N, Sound(c, N), NEW n \in Node, c[n].nextNonce > 4,
           NEW h \in BOOLEAN, Answered(Peer(n), c[n].secret, h, N),
           Leads(n, c[n].secret, N) \/ DataSent(Peer(n), c[n].secret, h, N)
    PROVE  h # c[n].isInitiator
<1> DEFINE w == c[n]
           m == Peer(n)
           s == c[n].secret
<1>1. /\ w \in Wrappers /\ HoldsItsKeys(n, w) /\ HasRole(n, w, N) /\ RoleInv(c, N)
    BY DEF Sound, KeyInv, RoleInv
<1>2. m \in Node /\ Peer(m) = n BY PeerFacts
<1>3. s \in FinalOf(n) BY <1>1 DEF HoldsItsKeys
<1>4. ~(Leads(n, s, N) /\ Leads(m, s, N)) BY <1>1, <1>3 DEF RoleInv
<1>5. w.isInitiator \in BOOLEAN BY <1>1 DEF Wrappers
<1>6. CASE Leads(n, s, N)
    <2>1. DataSent(n, s, ~h, N) BY <1>2, <1>4, <1>6 DEF Answered
    <2>2. PICK p \in N : IsData(p) /\ p.from = n /\ p.secret = s /\ p.half = ~h
        BY <2>1 DEF DataSent
    <2>3. p.half = w.isInitiator BY <1>1, <2>2 DEF HasRole
    <2> QED BY <1>5, <2>2, <2>3
<1>7. CASE ~Leads(n, s, N)
    <2>1. DataSent(m, s, ~w.isInitiator, N) BY <1>1, <1>7 DEF HasRole, Answered
    <2>2. PICK p \in N : IsData(p) /\ p.from = m /\ p.secret = s /\ p.half = ~w.isInitiator
        BY <2>1 DEF DataSent
    <2>3. PICK q \in N : IsData(q) /\ q.from = m /\ q.secret = s /\ q.half = h
        BY <1>7 DEF DataSent
    <2>4. p.half = q.half BY <1>1, <2>2, <2>3 DEF RoleInv
    <2> QED BY <1>5, <2>2, <2>3, <2>4
<1> QED BY <1>6, <1>7

\* Two ends established on one secret have opposed roles (isInitiator, which selects the
\* half of the nonce that an end encrypts with, CryptoAuth.c:268-287): only one of them can
\* have sent the last key of the handshake, the other was spoken to first and could read that
\* only because its role was opposed.
THEOREM OpposedRoles == Spec => []RolesOpposed
<1>1. ASSUME Sound(ca, net) PROVE RolesOpposed
    <2>1. ASSUME NEW n \in Node, State(ca[n]) = "ESTABLISHED",
                 State(ca[Peer(n)]) = "ESTABLISHED", ca[n].secret = ca[Peer(n)].secret
          PROVE  ca[n].isInitiator # ca[Peer(n)].isInitiator
        <3> DEFINE m == Peer(n)
                   s == ca[n].secret
        <3>1. m \in Node /\ Peer(m) = n /\ ca[n] \in Wrappers /\ ca[m] \in Wrappers
              /\ RoleInv(ca, net) /\ HasRole(n, ca[n], net) /\ HasRole(m, ca[m], net)
            BY <1>1, PeerFacts DEF Sound, RoleInv
        <3>2. /\ ca[n].nextNonce \in Nat /\ ca[m].nextNonce \in Nat
              /\ ca[n].isInitiator \in BOOLEAN /\ ca[m].isInitiator \in BOOLEAN
            BY <3>1, BoundAssumption DEF Wrappers
        <3>3. ca[n].nextNonce > 4 /\ ca[m].nextNonce > 4 BY <2>1, <3>2 DEF State
        <3>4. /\ Answered(n, s, ca[n].isInitiator, net)
              /\ Answered(m, s, ca[m].isInitiator, net)
            BY <2>1, <3>1, <3>3 DEF HasRole
        <3>5. CASE Leads(n, s, net)
            BY <1>1, <3>2, <3>3, <3>4, <3>5, OtherHalf
        <3>6. CASE ~Leads(n, s, net)
            <4>1. Leads(m, s, net) BY <3>4, <3>6 DEF Answered
            <4>2. DataSent(m, s, ca[m].isInitiator, net) BY <2>1, <3>1, <3>3, <4>1 DEF HasRole
            <4> QED BY <1>1, <3>2, <3>3, <3>4, <4>2, OtherHalf
        <3> QED BY <3>5, <3>6
    <2> QED BY <2>1 DEF RolesOpposed
<1> QED BY <1>1, AlwaysSound, PTL

\* No nonce is used twice with one secret, in either direction: when encryptMessage runs,
\* no packet on the network was sealed with the same secret, counter and half
\* (CryptoAuth.c:268-287, 556-574).
THEOREM NonceUsedOnce == Spec => []NonceOnce
<1>1. ASSUME Sound(ca, net) PROVE NonceOnce
    <2>1. ASSUME NEW n \in Node, NEW p \in net, ca[n].nextNonce > 3, IsData(p),
                 p.secret = OpenKey(ca[n]),
                 p.nonce = ca[n].nextNonce, p.half = ca[n].isInitiator
          PROVE  FALSE
        <3> DEFINE w == ca[n]
                   m == Peer(n)
                   s == p.secret
        <3>1. /\ m \in Node /\ m # n /\ Peer(m) = n /\ w \in Wrappers /\ p \in Packets
              /\ RoleInv(ca, net) /\ HasRole(n, w, net) /\ HoldsItsKeys(n, w)
            BY <1>1, PeerFacts DEF Sound, RoleInv, KeyInv
        <3>2. w.nextNonce \in Nat /\ p.nonce \in Nat /\ p.half \in BOOLEAN
            BY <3>1, BoundAssumption DEF Wrappers, Packets
        <3>3. p.from = n \/ p.from = m BY <3>1, PeerFacts DEF Packets
        <3>4. Answered(p.from, s, p.half, net) BY <2>1, <3>1 DEF RoleInv
        <3>5. CASE w.nextNonce = 4
            <4>1. w.secret \in Own(n) /\ w.tempKey \in Own(m) BY <3>1, <3>5 DEF HoldsItsKeys
            <4>2. w.secret \in Keys /\ w.tempKey \in Keys BY <3>1, <4>1, OwnFacts
            <4>3. s = Final(w.secret, w.tempKey)
                BY <2>1, <3>5, <4>2 DEF OpenKey, finalSecret, getSharedSecret, Final
            <4>4. \A q \in net : IsData(q) /\ q.from = n => q.secret # s
                BY <1>1, <4>1, <4>3, UnspentIsUnsent
            <4>5. p.from = m BY <2>1, <3>3, <4>4
            <4>6. Leads(n, s, net) BY <3>1, <3>5, <4>1, <4>3 DEF HasRole, Leads
            <4>7. s \in FinalOf(n) BY <4>1, <4>3, FinalFacts
            <4>8. ~Leads(m, s, net) BY <3>1, <4>6, <4>7 DEF RoleInv
            <4>9. DataSent(n, s, ~p.half, net) BY <3>1, <3>4, <4>5, <4>8 DEF Answered
            <4> QED BY <4>4, <4>9 DEF DataSent
        <3>6. CASE w.nextNonce > 4
            <4>1. s = w.secret BY <2>1, <3>2, <3>6 DEF OpenKey
            <4>2. CASE p.from = n
                <5>1. p.nonce < w.nextNonce BY <2>1, <3>1, <3>6, <4>1, <4>2 DEF HasRole
                <5> QED BY <2>1, <3>2, <5>1
            <4>3. CASE p.from = m
                <5>1. DataSent(m, s, p.half, net) BY <2>1, <4>3 DEF DataSent
                <5> QED BY <1>1, <2>1, <3>2, <3>4, <3>6, <4>1, <4>3, <5>1, OtherHalf
            <4> QED BY <3>3, <4>2, <4>3
        <3> QED BY <2>1, <3>2, <3>5, <3>6
    <2> QED BY <2>1 DEF NonceOnce
<1> QED BY <1>1, AlwaysSound, PTL

-----------------------------------------------------------------------------
(* Nothing that is due is refused                                          *)

\* A window that knows no other nonces than S and is not ahead of them.
Exact(rp, S) ==
    /\ rp.bitfield \subseteq 0..Window
    /\ \A i \in rp.bitfield : rp.baseOffset + i \in S
    /\ rp.baseOffset > 0 => rp.baseOffset + Window \in S

\* The nonces of those of the packets H that are sealed with s.
Nonces(s, H) == {q.nonce : q \in {r \in H : r.secret = s}}

\* A wrapper w whose window refuses nothing that is due, when the packets H were passed up:
\* before a session is established the window is empty, or there is no pair of keys that data
\* could be opened with; then it has the nonces of that session only.
Fitting(n, w, H) ==
    /\ ~w.hasBuffered
    /\ n \in RequireAuth \/ knowHerKey(w)
    /\ w.tempKey # NoKey => knowHerKey(w)
    /\ w.nextNonce = 2 => w.replay = ZeroProtector
    /\ w.nextNonce < 5 /\ w.secret \in Own(n) /\ w.tempKey \in Own(Peer(n))
          => w.replay = ZeroProtector
    /\ w.nextNonce > 4 => Exact(w.replay, Nonces(w.secret, H))

\* No two data packets of a node have the same secret and nonce.
OnePerNonce(N) ==
    \A p, q \in N :
        /\ IsData(p) /\ IsData(q)
        /\ p.from = q.from /\ p.secret = q.secret /\ p.nonce = q.nonce
        => p = q

\* An empty window is exact (CryptoAuth.c:822).
LEMMA ZeroIsExact ==
    /\ ZeroProtector \in Protectors
    /\ \A S : Exact(ZeroProtector, S)
BY DEF ZeroProtector, Protectors, Exact

\* More packets keep a window exact.
LEMMA ExactOfMore ==
    ASSUME NEW rp, NEW S, NEW T, S \subseteq T, Exact(rp, S)
    PROVE  Exact(rp, T)
BY DEF Exact

\* A nonce that is filed keeps the window exact (ReplayProtector.h).
LEMMA FiledIsExact ==
    ASSUME NEW rp \in Protectors, NEW nonce \in Nat, NEW S, NEW T, S \subseteq T, nonce \in T,
           Exact(rp, S)
    PROVE  Exact(FileNonce(nonce, rp), T)
<1> DEFINE offset == nonce - rp.baseOffset
           slide  == offset - Window
           new == FileNonce(nonce, rp)
<1>1. Window \in Nat /\ Width \in Nat /\ Window < Width BY WindowAssumption
<1>2. rp.baseOffset \in Nat /\ rp.bitfield \in SUBSET (0..Width - 1) BY DEF Protectors
<1>3. /\ rp.bitfield \subseteq 0..Window
      /\ \A i \in rp.bitfield : rp.baseOffset + i \in T
      /\ rp.baseOffset > 0 => rp.baseOffset + Window \in T
    BY DEF Exact
<1>4. CASE ~NonceIsNew(nonce, rp)
    <2>1. new = rp BY <1>4 DEF FileNonce
    <2> QED BY <1>3, <2>1 DEF Exact
<1>5. CASE NonceIsNew(nonce, rp) /\ ~(offset > Window)
    <2>1. new = [rp EXCEPT !.bitfield = @ \union {offset}] BY <1>5 DEF FileNonce
    <2>2. new.baseOffset = rp.baseOffset /\ new.bitfield = rp.bitfield \union {offset}
        BY <2>1 DEF Protectors
    <2>3. nonce >= rp.baseOffset BY <1>5 DEF NonceIsNew
    <2>4. offset \in 0..Window /\ rp.baseOffset + offset = nonce BY <1>1, <1>2, <1>5, <2>3
    <2> HIDE DEF new, offset
    <2> QED BY <1>3, <2>2, <2>4 DEF Exact, new
<1>6. CASE NonceIsNew(nonce, rp) /\ offset > Window
    <2> DEFINE rest == IF offset > Width + Window - 1 THEN {} ELSE ShiftRight(rp.bitfield, slide)
    <2>1. new = [baseOffset |-> rp.baseOffset + slide, bitfield |-> rest \union {Window}]
        BY <1>6 DEF FileNonce
    <2>2. /\ slide \in Nat /\ slide > 0 /\ rp.baseOffset + slide + Window = nonce
          /\ ~(offset > Width + Window - 1) => slide < Width
        BY <1>1, <1>2, <1>6
    <2>3. \A i \in rest : i \in 0..Width - 1 /\ i + slide \in rp.bitfield
        <3>1. CASE offset > Width + Window - 1 BY <3>1
        <3>2. CASE ~(offset > Width + Window - 1)
            <4> HIDE DEF slide, offset
            <4>1. rest = ShiftRight(rp.bitfield, slide) BY <3>2
            <4>2. /\ ShiftRight(rp.bitfield, slide) \subseteq 0..Width - 1
                  /\ \A i \in Nat : i \in ShiftRight(rp.bitfield, slide) <=> i + slide \in rp.bitfield
                BY <1>2, <2>2, <3>2, ShiftRightMember
            <4>3. \A i \in 0..Width - 1 : i \in Nat BY <1>1
            <4> QED BY <4>1, <4>2, <4>3
        <3> QED BY <3>1, <3>2
    <2> HIDE DEF rest, slide, offset
    <2>4. ASSUME NEW i \in rest PROVE i \in 0..Window /\ rp.baseOffset + slide + i \in T
        <3>1. i \in Int /\ i >= 0 /\ i + slide \in 0..Window BY <1>1, <1>3, <2>3
        <3>2. i \in 0..Window BY <1>1, <2>2, <3>1
        <3>3. rp.baseOffset + (i + slide) \in T BY <1>3, <2>3
        <3>4. rp.baseOffset + (i + slide) = rp.baseOffset + slide + i BY <1>2, <2>2, <3>1
        <3> QED BY <3>2, <3>3, <3>4
    <2>5. Window \in 0..Window BY <1>1
    <2> HIDE DEF new
    <2>6. new.baseOffset = rp.baseOffset + slide /\ new.bitfield = rest \union {Window}
        BY <2>1
    <2> QED BY <2>2, <2>4, <2>5, <2>6 DEF Exact, new
<1> QED BY <1>4, <1>5, <1>6

\* An exact window refuses no nonce that is not in it and not too old.
LEMMA ExactIsFair ==
    ASSUME NEW rp \in Protectors, NEW S \in SUBSET Nat, Exact(rp, S), NEW nonce \in Nat,
           nonce \notin S, \A s \in S : s <= nonce + Window
    PROVE  NonceIsNew(nonce, rp)
<1>1. Window \in Nat BY WindowAssumption
<1>2. rp.baseOffset \in Nat BY DEF Protectors
<1>3. nonce >= rp.baseOffset
    <2>1. CASE rp.baseOffset > 0
        <3>1. rp.baseOffset + Window <= nonce + Window BY <2>1 DEF Exact
        <3> QED BY <1>1, <1>2, <3>1
    <2>2. CASE ~(rp.baseOffset > 0) BY <1>2, <2>2
    <2> QED BY <2>1, <2>2
<1>4. ASSUME nonce - rp.baseOffset \in rp.bitfield PROVE FALSE
    <2>1. rp.baseOffset + (nonce - rp.baseOffset) \in S BY <1>4 DEF Exact
    <2>2. rp.baseOffset + (nonce - rp.baseOffset) = nonce BY <1>2
    <2> QED BY <2>1, <2>2
<1> QED BY <1>3, <1>4 DEF NonceIsNew

\* A wrapper with an empty window.
LEMMA EmptyFits ==
    ASSUME NEW n, NEW v, NEW H, v.replay = ZeroProtector, ~v.hasBuffered,
           n \in RequireAuth \/ knowHerKey(v), v.tempKey # NoKey => knowHerKey(v)
    PROVE  Fitting(n, v, H)
BY ZeroIsExact DEF Fitting

\* CryptoAuth_reset and CryptoAuth_getState (CryptoAuth.c:1052-1077).
LEMMA ResetFits ==
    ASSUME NEW n, NEW w \in Wrappers, NEW H, Fitting(n, w, H)
    PROVE  Fitting(n, reset(w), H) /\ Fitting(n, refresh(w), H)
<1>1. ASSUME NEW u \in Wrappers, u.hasBuffered = w.hasBuffered, u.herKey = w.herKey,
             u.tempKey = w.tempKey
      PROVE  Fitting(n, reset(u), H)
    <2> DEFINE v == reset(u)
    <2>1. /\ v.replay = ZeroProtector /\ v.hasBuffered = u.hasBuffered
          /\ v.herKey = u.herKey /\ v.tempKey = u.tempKey
        BY DEF reset, Wrappers
    <2> HIDE DEF v
    <2>2. Fitting(n, v, H) BY <1>1, <2>1, EmptyFits DEF Fitting, knowHerKey
    <2> QED BY <2>2 DEF v
<1> DEFINE u == [w EXCEPT !.idle = FALSE]
<1>2. u \in Wrappers /\ u.hasBuffered = w.hasBuffered /\ u.herKey = w.herKey /\ u.tempKey = w.tempKey
    BY DEF Wrappers
<1> HIDE DEF u
<1>3. refresh(w) = IF w.idle THEN reset(u) ELSE w BY DEF refresh, u
<1> QED BY <1>1, <1>2, <1>3

\* A handshake packet is sent; without her key nothing would be (CryptoAuth.c:376-554).
LEMMA EncryptHandshakeFits ==
    ASSUME NEW n \in Node, NEW w \in Wrappers, NEW H, Fitting(n, w, H),
           knowHerKey(w), w.nextNonce < 4, w.nextNonce = 1 => w.tempKey \in Own(n),
           NEW content, NEW fresh \in TempKeys, fresh \notin Own(Peer(n))
    PROVE  LET r == encryptHandshake(n, w, content, fresh)
           IN  Fitting(n, r.w, H) /\ \A q \in r.sent : ~IsData(q)
<1> DEFINE r == encryptHandshake(n, w, content, fresh)
           private == IF w.nextNonce \in {0, 2} THEN fresh ELSE w.secret
           public  == encryptedTempKey(w, private)
           hers    == IF w.nextNonce < 2 THEN PermKey(w.herKey) ELSE w.tempKey
           secret  == getSharedSecret(PermKey(n), hers, w.password)
           hello   == [w EXCEPT !.secret = private, !.tempKey = public,
                                !.isInitiator = TRUE, !.nextNonce = 1]
           key     == [w EXCEPT !.secret = private, !.nextNonce = 3]
           q       == Packet(w.nextNonce, n, w.password, secret, FALSE, public, content)
<1>1. r = [w |-> IF w.nextNonce < 2 THEN hello ELSE key, sent |-> {q}, up |-> FALSE]
    BY DEF encryptHandshake, Result
<1>2. w.nextNonce \in {0, 1, 2, 3}
    <2>1. w.nextNonce \in 0..NonceMod - 1 /\ NonceMod \in Nat BY BoundAssumption DEF Wrappers
    <2> QED BY <2>1
<1>3. ~IsData(q)
    <2>1. q.nonce = w.nextNonce BY DEF Packet
    <2>2. ~(w.nextNonce > 3) BY <1>2
    <2> QED BY <2>1, <2>2 DEF IsData
<1>4. CASE w.nextNonce < 2
    <2>1. public \notin Own(Peer(n))
        <3>1. CASE w.nextNonce = 0 BY <3>1 DEF encryptedTempKey
        <3>2. CASE w.nextNonce = 1
            <4>1. w.tempKey \in Own(n) BY <3>2
            <4>2. public = w.tempKey BY <3>2 DEF encryptedTempKey
            <4> QED BY <4>1, <4>2, OwnFacts
        <3> QED BY <1>2, <1>4, <3>1, <3>2
    <2> HIDE DEF private, public
    <2>2. /\ hello.nextNonce = 1 /\ hello.tempKey = public
          /\ hello.hasBuffered = w.hasBuffered /\ hello.herKey = w.herKey
        BY DEF Wrappers
    <2> HIDE DEF hello, key, q, r
    <2>3. Fitting(n, hello, H) BY <2>1, <2>2 DEF Fitting, knowHerKey
    <2>4. r.w = hello /\ r.sent = {q} BY <1>1, <1>4
    <2> QED BY <1>3, <2>3, <2>4 DEF r
<1>5. CASE ~(w.nextNonce < 2)
    <2>1. w.nextNonce = 2 \/ (w.nextNonce = 3 /\ private = w.secret)
        <3>1. w.nextNonce = 2 \/ w.nextNonce = 3 BY <1>2, <1>5
        <3> QED BY <3>1
    <2> HIDE DEF private, public
    <2>2. /\ key.nextNonce = 3 /\ key.tempKey = w.tempKey /\ key.secret = private
          /\ key.hasBuffered = w.hasBuffered /\ key.herKey = w.herKey /\ key.replay = w.replay
        BY DEF Wrappers
    <2> HIDE DEF hello, key, q, r
    <2>3. Fitting(n, key, H) BY <2>1, <2>2 DEF Fitting, knowHerKey
    <2>4. r.w = key /\ r.sent = {q} BY <1>1, <1>5
    <2> QED BY <1>3, <2>3, <2>4 DEF r
<1> QED BY <1>4, <1>5

\* A new key of node n is not one of the other end.
LEMMA FreshIsOwn ==
    ASSUME NEW n \in Node, NEW c, NEW N, NEW fresh, IsFresh(n, fresh, c, N)
    PROVE  fresh \in TempKeys /\ fresh \notin Own(Peer(n))
<1>1. Peer(n) \in Node /\ Peer(n) # n BY PeerFacts
<1>2. fresh[2] = n BY DEF IsFresh, Own, TempKey
<1>3. \A k \in Own(Peer(n)) : k[2] = Peer(n) BY DEF Own, TempKey
<1> QED BY <1>1, <1>2, <1>3 DEF IsFresh

\* A message is sent: if it is data, its nonce is new for its secret (CryptoAuth.c:576-614).
LEMMA SendFits ==
    ASSUME NEW c, NEW N, Sound(c, N), NEW n \in Node, NEW H, Fitting(n, c[n], H),
           knowHerKey(c[n]), OnePerNonce(N),
           NEW content \in Payload \union {Empty},
           NEW fresh, IsFresh(n, fresh, c, N)
    PROVE  LET r == sendMessage(n, c[n], content, fresh)
           IN  Fitting(n, r.w, H) /\ OnePerNonce(N \union r.sent)
<1> DEFINE w == c[n]
           u == refresh(w)
           d == [c EXCEPT ![n] = u]
           r == sendMessage(n, w, content, fresh)
<1>1. c \in [Node -> Wrappers] /\ w \in Wrappers /\ fresh \in TempKeys BY DEF Sound, IsFresh
<1>2. u \in Wrappers /\ u.secret = w.secret /\ (u.nextNonce = 0 \/ u = w)
      /\ u.tempKey = w.tempKey /\ u.user = w.user /\ u.herKey = w.herKey /\ Fitting(n, u, H)
    BY <1>1, RefreshOK, ResetFields, ResetFits
<1> HIDE DEF u
<1>3. d[n] = u BY <1>1
<1> HIDE DEF d
<1>4. Sound(d, N) BY <1>2, StayIsSound DEF d
<1>5. HoldsItsKeys(n, u) /\ HasRole(n, u, N) BY <1>3, <1>4 DEF Sound, KeyInv, RoleInv
<1>6. u.nextNonce \in 0..NonceMod - 1 /\ NonceMod \in Nat /\ NonceMod > 8
    BY <1>2, BoundAssumption DEF Wrappers
<1>7. CASE u.nextNonce < 4
    <2>1. r = encryptHandshake(n, u, content, fresh) BY <1>7 DEF sendMessage, u
    <2>2. fresh \notin Own(Peer(n)) BY FreshIsOwn
    <2> HIDE DEF r
    <2>3. knowHerKey(u) BY <1>2 DEF knowHerKey
    <2>4. u.nextNonce = 1 => u.tempKey \in Own(n) BY <1>5 DEF HoldsItsKeys
    <2>5. Fitting(n, r.w, H) /\ \A q \in r.sent : ~IsData(q)
        BY <1>1, <1>2, <1>7, <2>1, <2>2, <2>3, <2>4, EncryptHandshakeFits
    <2>6. OnePerNonce(N \union r.sent) BY <2>5 DEF OnePerNonce
    <2> QED BY <2>5, <2>6 DEF r
<1>8. CASE ~(u.nextNonce < 4)
    <2> DEFINE s == IF u.nextNonce = 4 THEN finalSecret(u) ELSE u.secret
               x == [u EXCEPT !.secret = s]
               k == (x.nextNonce + 1) % NonceMod
               v == [x EXCEPT !.nextNonce = k]
               q == Packet(x.nextNonce, n, NoPassword, x.secret, x.isInitiator, NoKey, content)
    <2>1. r = encryptMessage(n, x, content)
        <3>1. CASE u.nextNonce = 4 BY <1>8, <3>1 DEF sendMessage, u
        <3>2. CASE u.nextNonce # 4
            <4>1. [u EXCEPT !.secret = u.secret] = u BY <1>2 DEF Wrappers
            <4>2. r = encryptMessage(n, u, content) BY <1>8, <3>2 DEF sendMessage, u
            <4> QED BY <3>2, <4>1, <4>2
        <3> QED BY <3>1, <3>2
    <2> HIDE DEF s
    <2>2. /\ x.nextNonce = u.nextNonce /\ x.secret = s /\ x.tempKey = u.tempKey
          /\ x.hasBuffered = u.hasBuffered /\ x.herKey = u.herKey /\ x.replay = u.replay
        BY <1>2 DEF Wrappers
    <2>3. r = [w |-> v, sent |-> {q}, up |-> FALSE]
        <3>1. v = [x EXCEPT !.nextNonce = (@ + 1) % NonceMod] BY <1>2 DEF Wrappers
        <3> QED BY <2>1, <3>1 DEF encryptMessage, Result
    <2>4. /\ v.secret = x.secret /\ v.tempKey = x.tempKey /\ v.nextNonce = k
          /\ v.hasBuffered = x.hasBuffered /\ v.herKey = x.herKey /\ v.replay = x.replay
        BY <1>2 DEF Wrappers
    <2>5. q.from = n /\ q.nonce = x.nextNonce /\ q.secret = x.secret BY DEF Packet
    <2>6. k = 0 \/ k = u.nextNonce + 1
        <3>1. CASE u.nextNonce = NonceMod - 1 BY <1>6, <2>2, <3>1
        <3>2. CASE u.nextNonce # NonceMod - 1 BY <1>6, <2>2, <3>2
        <3> QED BY <3>1, <3>2
    <2> HIDE DEF x, v, q, r, k
    <2>7. k = 0 \/ k > 4 BY <1>6, <1>8, <2>6
    <2>8. CASE u.nextNonce = 4
        <3>1. u.secret \in Own(n) /\ u.tempKey \in Own(Peer(n)) BY <1>5, <2>8 DEF HoldsItsKeys
        <3>2. u.secret \in Keys /\ u.tempKey \in Keys BY <3>1, PeerFacts, OwnFacts
        <3>3. s = Final(u.secret, u.tempKey)
            BY <2>8, <3>2 DEF s, finalSecret, getSharedSecret, Final
        <3>4. u.replay = ZeroProtector BY <1>2, <2>8, <3>1 DEF Fitting
        <3>5. Fitting(n, v, H)
            BY <1>2, <2>2, <2>4, <3>4, EmptyFits DEF Fitting, knowHerKey
        <3>6. \A p \in N : IsData(p) /\ p.from = n => p.secret # s
            BY <1>3, <1>4, <3>1, <3>3, UnspentIsUnsent
        <3>7. OnePerNonce(N \union {q}) BY <2>2, <2>5, <3>6 DEF OnePerNonce
        <3> QED BY <2>3, <3>5, <3>7 DEF r
    <2>9. CASE u.nextNonce # 4
        <3>1. u.nextNonce > 4 BY <1>6, <1>8, <2>9
        <3>2. s = u.secret BY <2>9 DEF s
        <3>3. s \in FinalOf(n) BY <1>5, <3>1, <3>2 DEF HoldsItsKeys
        <3>4. s \notin Own(n) BY <3>3, FinalOfFacts
        <3>5. Exact(u.replay, Nonces(s, H)) BY <1>2, <3>1, <3>2 DEF Fitting
        <3>6. k # 2 BY <2>7
        <3>7. Fitting(n, v, H)
            BY <1>2, <2>2, <2>4, <3>4, <3>5, <3>6 DEF Fitting, knowHerKey
        <3>8. ASSUME NEW p \in N, IsData(p), p.from = n, p.secret = s
              PROVE  p.nonce # u.nextNonce
            <4>1. p.nonce < u.nextNonce BY <1>5, <3>1, <3>2, <3>8 DEF HasRole
            <4>2. p.nonce \in Int BY <1>4, BoundAssumption DEF Sound, Packets
            <4> QED BY <1>6, <4>1, <4>2
        <3>9. OnePerNonce(N \union {q}) BY <2>2, <2>5, <3>8 DEF OnePerNonce
        <3> QED BY <2>3, <3>7, <3>9 DEF r
    <2> QED BY <2>8, <2>9
<1> QED BY <1>7, <1>8

\* A handshake packet is received, and nothing was buffered for it (CryptoAuth.c:655-826).
LEMMA DecryptHandshakeFits ==
    ASSUME NEW n \in Node, NEW w \in Wrappers, NEW p \in Packets, NEW H, Fitting(n, w, H),
           w.nextNonce = 1 => w.tempKey \in Own(n),
           NEW fresh \in TempKeys, fresh \notin Own(Peer(n))
    PROVE  LET r == decryptHandshake(n, w, p, fresh)
           IN  /\ Fitting(n, r.w, H) /\ \A q \in r.sent : ~IsData(q)
               /\ IsData(p) => ~r.up
<1> DEFINE r == decryptHandshake(n, w, p, fresh)
           mine         == IF p.nonce < 2 THEN PermKey(n) ELSE w.secret
           sharedSecret == getSharedSecret(mine, PermKey(p.from), tryAuth(n, p))
           refused  == \/ authRefused(n, p) \/ keyRefused(w, p)
                       \/ p.secret # sharedSecret \/ sharedSecret = Junk
           key      == IF knowHerKey(w) THEN w.herKey ELSE p.from
           answered == [w EXCEPT !.herKey = key, !.nextNonce = 0, !.user = NoPassword]
           next     == IF p.nonce < 2 THEN 2 ELSE 4
           connect  == p.nonce = ConnectToMe /\ w.nextNonce < 2 /\ n \notin RequireAuth
<1>1. w.nextNonce \in 0..NonceMod - 1 /\ NonceMod \in Nat BY BoundAssumption DEF Wrappers
<1>2. CASE r = Drop(w)
    <2>1. r.w = w /\ r.sent = {} /\ ~r.up BY <1>2 DEF Drop, Result
    <2> HIDE DEF r
    <2> QED BY <2>1 DEF r
<1>3. IsData(p) => r = Drop(w) BY DEF decryptHandshake
<1>4. CASE ~IsData(p) /\ connect
    <2>1. answered = [w EXCEPT !.herKey = IF knowHerKey(w) THEN @ ELSE p.from,
                               !.nextNonce = 0, !.user = NoPassword]
        BY DEF Wrappers
    <2>2. r = encryptHandshake(n, answered, Empty, fresh) BY <1>4, <2>1 DEF decryptHandshake
    <2>3. 0 \in 0..NonceMod - 1 BY BoundAssumption
    <2>4. key \in Node \union {NoNode} /\ key = w.herKey /\ key # NoNode
        BY <1>4 DEF Wrappers, Fitting, knowHerKey
    <2> HIDE DEF key
    <2>5. answered \in Wrappers BY <2>3, <2>4 DEF Wrappers
    <2>6. /\ answered.nextNonce = 0 /\ answered.secret = w.secret /\ answered.herKey = w.herKey
          /\ answered.tempKey = w.tempKey /\ answered.replay = w.replay
          /\ answered.hasBuffered = w.hasBuffered
        BY <2>4 DEF Wrappers
    <2> HIDE DEF answered, r
    <2>7. w.nextNonce < 5 /\ answered.nextNonce < 4 BY <1>1, <1>4, <2>6
    <2>8. Fitting(n, answered, H) /\ knowHerKey(answered)
        BY <2>4, <2>6, <2>7 DEF Fitting, knowHerKey
    <2>9. Fitting(n, r.w, H) /\ \A q \in r.sent : ~IsData(q)
        BY <2>2, <2>5, <2>6, <2>7, <2>8, EncryptHandshakeFits
    <2> QED BY <1>4, <2>9 DEF r
<1>5. ~IsData(p) /\ ~connect /\ refused => r = Drop(w) BY DEF decryptHandshake
<1>6. CASE ~IsData(p) /\ ~connect /\ ~refused
    <2> DEFINE opened == takeTempKey(n, w, p, next)
               u == [opened EXCEPT !.replay = ZeroProtector]
               v == [u EXCEPT !.idle = FALSE]
    <2>1. r = acceptHandshake(n, w, p, next, fresh) BY <1>6 DEF decryptHandshake
    <2>2. ~w.hasBuffered BY DEF Fitting
    <2>3. r = [w |-> v, sent |-> {}, up |-> TRUE]
        BY <2>1, <2>2 DEF acceptHandshake, callReceivedMessage, Result
    <2> HIDE DEF next
    <2>4. opened.herKey = p.from /\ opened.hasBuffered = w.hasBuffered
          /\ DOMAIN opened = DOMAIN w
        BY DEF takeTempKey, Wrappers
    <2>5. v.replay = ZeroProtector /\ v.herKey = p.from /\ v.hasBuffered = w.hasBuffered
        <3> HIDE DEF opened
        <3> QED BY <2>4 DEF Wrappers
    <2>6. p.from \in Node BY DEF Packets
    <2> HIDE DEF v, r
    <2>7. knowHerKey(v) BY <2>5, <2>6, NodeAssumption DEF knowHerKey
    <2>8. Fitting(n, v, H) BY <2>2, <2>5, <2>7, EmptyFits
    <2>9. r.w = v /\ r.sent = {} BY <2>3
    <2> QED BY <1>6, <2>8, <2>9 DEF r
<1> QED BY <1>2, <1>3, <1>4, <1>5, <1>6

\* A final secret that data came with is made of a key of either end, so that the window of
\* the wrapper that opens it is empty.
LEMMA FirstDataFits ==
    ASSUME NEW n \in Node, NEW w \in Wrappers, NEW H, HoldsItsKeys(n, w), Fitting(n, w, H),
           w.nextNonce < 5, finalSecret(w) \in FinalOf(n)
    PROVE  w.replay = ZeroProtector /\ knowHerKey(w)
<1>1. Peer(n) \in Node /\ Peer(Peer(n)) = n BY PeerFacts
<1>2. finalSecret(w) # Junk BY FinalOfFacts
<1>3. w.secret \in Keys /\ w.tempKey \in Keys
      /\ finalSecret(w) = <<"shared", {w.secret, w.tempKey}, NoPassword>>
    BY <1>2 DEF finalSecret, getSharedSecret
<1>4. w.secret \in Own(n)
    <2>1. \A s \in FinalOf(n) : s \notin Keys BY FinalOfFacts
    <2>2. NoKey \notin Keys BY OwnFacts
    <2> QED BY <1>3, <2>1, <2>2 DEF HoldsItsKeys
<1>5. PICK a \in Own(n), b \in Own(Peer(n)) : finalSecret(w) = Final(a, b) BY DEF FinalOf
<1>6. Final(a, b)[2] = {a, b} BY FinalFacts
<1>7. finalSecret(w)[2] = {w.secret, w.tempKey} BY <1>3
<1>8. b = w.secret \/ b = w.tempKey BY <1>5, <1>6, <1>7
<1>9. b # w.secret BY <1>1, <1>4, OwnFacts
<1>10. w.tempKey \in Own(Peer(n)) BY <1>8, <1>9
<1>11. w.tempKey # NoKey BY <1>1, <1>10, OwnFacts
<1> QED BY <1>4, <1>10, <1>11 DEF Fitting

\* A packet is received (CryptoAuth.c:828-884).
LEMMA ReceiveFits ==
    ASSUME NEW c, NEW N, Sound(c, N), NEW n \in Node, NEW p \in N, p.from = Peer(n),
           NEW H, Fitting(n, c[n], H),
           NEW fresh, IsFresh(n, fresh, c, N)
    PROVE  LET r == receiveMessage(n, c[n], p, fresh)
           IN  /\ Fitting(n, r.w, IF r.up /\ IsData(p) THEN H \union {p} ELSE H)
               /\ \A q \in r.sent : ~IsData(q)
<1> DEFINE w == c[n]
           r      == receiveMessage(n, w, p, fresh)
           first  == w.nextNonce < 5 /\ p.nonce > 3 /\ p.nonce # ConnectToMe /\ knowHerKey(w)
           second == w.nextNonce >= 5 /\ p.nonce > 4
           final  == finalSecret(w)
           more   == H \union {p}
<1>1. /\ c \in [Node -> Wrappers] /\ w \in Wrappers /\ N \subseteq Packets /\ p \in Packets
      /\ HoldsItsKeys(n, w) /\ SoundPacket(p, c)
    BY DEF Sound, KeyInv
<1>2. /\ w.nextNonce \in Nat /\ p.nonce \in Nat /\ w.replay \in Protectors
    BY <1>1, BoundAssumption DEF Wrappers, Packets
<1>3. fresh \in TempKeys /\ fresh \notin Own(Peer(n)) BY FreshIsOwn
<1>4. \A s : /\ Nonces(s, H) \subseteq Nonces(s, more)
             /\ s = p.secret => p.nonce \in Nonces(s, more)
    BY DEF Nonces
<1> HIDE DEF more
<1>5. CASE first /\ decryptMessage(w, p, final)
    <2> DEFINE k == w.nextNonce + 3
               u == [w EXCEPT !.nextNonce = k, !.secret = final,
                              !.replay = FileNonce(p.nonce, w.replay)]
               v == [u EXCEPT !.idle = FALSE]
    <2>1. u = [w EXCEPT !.nextNonce = @ + 3, !.secret = final,
                        !.replay = FileNonce(p.nonce, @)]
        BY <1>1 DEF Wrappers
    <2>2. r = [w |-> v, sent |-> {}, up |-> TRUE]
        BY <1>2, <1>5, <2>1 DEF receiveMessage, callReceivedMessage, Result
    <2>3. p.secret = final /\ final # Junk BY <1>5 DEF decryptMessage
    <2>4. p.secret # NoKey BY <1>1, <2>3, FinalSecretKind, SecretKinds
    <2>5. IsData(p) BY <1>5, <2>4 DEF IsData
    <2>6. final \in FinalOf(n)
        <3>1. p.secret \in FinalOf(Peer(n)) BY <1>1, <1>5, <2>4 DEF SoundPacket
        <3> QED BY <2>3, <3>1, FinalOfFacts
    <2>7. w.replay = ZeroProtector BY <1>1, <1>5, <2>6, FirstDataFits
    <2>8. final \notin Own(n) BY <2>6, FinalOfFacts
    <2>9. k # 2 BY <1>2
    <2> HIDE DEF k, final
    <2>10. /\ v.nextNonce = k /\ v.secret = final /\ v.tempKey = w.tempKey
           /\ v.hasBuffered = w.hasBuffered /\ v.herKey = w.herKey
           /\ v.replay = FileNonce(p.nonce, w.replay)
        BY <1>1 DEF Wrappers
    <2> HIDE DEF u, v, r
    <2>11. Exact(v.replay, Nonces(final, more))
        <3>1. Exact(w.replay, Nonces(final, H)) BY <2>7, ZeroIsExact
        <3>2. Exact(FileNonce(p.nonce, w.replay), Nonces(final, more))
            BY <1>2, <1>4, <2>3, <3>1, FiledIsExact
        <3> QED BY <2>10, <3>2
    <2>12. Fitting(n, v, more)
        BY <1>5, <2>8, <2>9, <2>10, <2>11 DEF Fitting, knowHerKey
    <2>13. r.w = v /\ r.sent = {} /\ r.up BY <2>2
    <2> QED BY <2>5, <2>12, <2>13 DEF r, more
<1>6. CASE first /\ ~decryptMessage(w, p, final)
    <2>1. r = [w |-> reset(w), sent |-> {}, up |-> FALSE]
        BY <1>2, <1>6 DEF receiveMessage, Drop, Result
    <2>2. Fitting(n, reset(w), H) BY <1>1, ResetFits
    <2> HIDE DEF r
    <2>3. r.w = reset(w) /\ r.sent = {} /\ ~r.up BY <2>1
    <2> QED BY <2>2, <2>3 DEF r
<1>7. CASE ~first /\ second /\ decryptMessage(w, p, w.secret)
    <2> DEFINE u == [w EXCEPT !.replay = FileNonce(p.nonce, w.replay)]
               v == [u EXCEPT !.idle = FALSE]
    <2>1. u = [w EXCEPT !.replay = FileNonce(p.nonce, @)] BY <1>1 DEF Wrappers
    <2>2. r = [w |-> v, sent |-> {}, up |-> TRUE]
        BY <1>2, <1>7, <2>1 DEF receiveMessage, callReceivedMessage, Result
    <2>3. /\ v.nextNonce = w.nextNonce /\ v.secret = w.secret /\ v.tempKey = w.tempKey
          /\ v.hasBuffered = w.hasBuffered /\ v.herKey = w.herKey
          /\ v.replay = FileNonce(p.nonce, w.replay)
        BY <1>1 DEF Wrappers
    <2> HIDE DEF u, v, r
    <2>4. p.secret = w.secret BY <1>7 DEF decryptMessage
    <2>5. w.nextNonce > 4 /\ ~(w.nextNonce < 5) /\ w.nextNonce # 2 /\ p.nonce > 3
        BY <1>2, <1>7
    <2>6. IsData(p)
        <3>1. w.secret \in FinalOf(n) BY <1>1, <2>5 DEF HoldsItsKeys
        <3>2. w.secret # NoKey BY <3>1, FinalOfFacts
        <3> QED BY <2>4, <2>5, <3>2 DEF IsData
    <2>7. Exact(v.replay, Nonces(v.secret, more))
        <3>1. Exact(w.replay, Nonces(w.secret, H)) BY <2>5 DEF Fitting
        <3>2. Exact(FileNonce(p.nonce, w.replay), Nonces(w.secret, more))
            BY <1>2, <1>4, <2>4, <3>1, FiledIsExact
        <3> QED BY <2>3, <3>2
    <2>8. Fitting(n, v, more) BY <2>3, <2>5, <2>7 DEF Fitting, knowHerKey
    <2>9. r.w = v /\ r.sent = {} /\ r.up BY <2>2
    <2> QED BY <2>6, <2>8, <2>9 DEF r, more
<1>8. CASE ~first /\ second /\ ~decryptMessage(w, p, w.secret)
    <2>1. r = [w |-> w, sent |-> {}, up |-> FALSE]
        BY <1>8, <1>2 DEF receiveMessage, Drop, Result
    <2> HIDE DEF r
    <2>2. r.w = w /\ r.sent = {} /\ ~r.up BY <2>1
    <2> QED BY <2>2 DEF r
<1>9. CASE ~first /\ ~second
    <2>1. r = decryptHandshake(n, w, p, fresh) BY <1>9 DEF receiveMessage
    <2>2. w.nextNonce = 1 => w.tempKey \in Own(n) BY <1>1 DEF HoldsItsKeys
    <2> HIDE DEF r
    <2>3. Fitting(n, r.w, H) /\ (\A q \in r.sent : ~IsData(q)) /\ (IsData(p) => ~r.up)
        BY <1>1, <1>3, <2>1, <2>2, DecryptHandshakeFits
    <2>4. (IF r.up /\ IsData(p) THEN H \union {p} ELSE H) = H BY <2>3
    <2> QED BY <2>3, <2>4 DEF r
<1> QED BY <1>5, <1>6, <1>7, <1>8, <1>9

\* The wrappers of a peering: one end was given the key of the other, or is made for a packet
\* that came in.  Only a wrapper that sends without her key buffers (CryptoAuth.c:352-374).
NothingBuffered == Node \subseteq GivenKey \union RequireAuth

\* Every window refuses nothing that is due, and what was passed up is on the network.
FitInv ==
    /\ \A n \in Node : Fitting(n, ca[n], heard[n])
    /\ OnePerNonce(net)
    /\ \A n \in Node : \A q \in heard[n] : q \in net /\ IsData(q) /\ q.from # n

\* A new wrapper (CryptoAuth.c:999-1033).
LEMMA NewFits ==
    ASSUME NothingBuffered, NEW n \in Node, NEW password, NEW H
    PROVE  Fitting(n, NewWrapper(n, password), H)
<1> DEFINE v == NewWrapper(n, password)
<1>1. v.replay = ZeroProtector /\ ~v.hasBuffered /\ v.tempKey = NoKey
      /\ v.herKey = IF n \in GivenKey THEN Peer(n) ELSE NoNode
    BY DEF NewWrapper
<1> HIDE DEF v
<1>2. n \in RequireAuth \/ knowHerKey(v)
    BY <1>1, PeerFacts, NodeAssumption DEF NothingBuffered, knowHerKey
<1>3. Fitting(n, v, H) BY <1>1, <1>2, EmptyFits
<1> QED BY <1>3 DEF v

\* Before the first packet.
LEMMA InitFits == ASSUME NothingBuffered PROVE Init => FitInv
<1> SUFFICES ASSUME Init PROVE FitInv OBVIOUS
<1>1. PICK password \in [Node -> Passwords \union {NoPassword}] :
          ca = [n \in Node |-> NewWrapper(n, password[n])]
    BY DEF Init
<1>2. net = {} /\ heard = [n \in Node |-> {}] BY DEF Init
<1>3. ASSUME NEW n \in Node PROVE Fitting(n, ca[n], heard[n])
    <2>1. ca[n] = NewWrapper(n, password[n]) BY <1>1
    <2> QED BY <2>1, NewFits
<1> QED BY <1>2, <1>3 DEF FitInv, OnePerNonce

\* One wrapper changes and nothing is passed up.
LEMMA ChangeFits ==
    ASSUME FitInv, ca \in [Node -> Wrappers], NEW n \in Node, NEW v, NEW sent,
           Fitting(n, v, heard[n]), OnePerNonce(net \union sent),
           ca' = [ca EXCEPT ![n] = v], net' = net \union sent, heard' = heard
    PROVE  FitInv'
<1>1. ASSUME NEW m \in Node PROVE Fitting(m, ca'[m], heard'[m])
    <2>1. CASE m = n BY <2>1
    <2>2. CASE m # n
        <3>1. ca'[m] = ca[m] BY <2>2
        <3> QED BY <3>1 DEF FitInv
    <2> QED BY <2>1, <2>2
<1>2. \A m \in Node : \A q \in heard'[m] : q \in net' /\ IsData(q) /\ q.from # m BY DEF FitInv
<1>3. OnePerNonce(net') OBVIOUS
<1> QED BY <1>1, <1>2, <1>3 DEF FitInv

\* Every action keeps the windows fit.
LEMMA NextFits ==
    ASSUME NothingBuffered, TypeOK, Sound(ca, net), FitInv, [Next]_vars
    PROVE  FitInv'
<1>1. /\ ca \in [Node -> Wrappers] /\ net \subseteq Packets /\ heard \in [Node -> SUBSET Packets]
      /\ OnePerNonce(net) /\ \A n \in Node : Fitting(n, ca[n], heard[n])
    BY DEF TypeOK, FitInv
<1>2. ASSUME NEW n \in Node, NEW fresh \in FreshKeys(n), NEW content \in Payload,
             Send(n, content, fresh)
      PROVE  FitInv'
    <2> DEFINE r == sendMessage(n, ca[n], content, fresh)
    <2>1. /\ ca' = [ca EXCEPT ![n] = r.w] /\ net' = net \union r.sent /\ heard' = heard
          /\ n \in RequireAuth => knowHerKey(ca[n])
        BY <1>2 DEF Send
    <2>2. IsFresh(n, fresh, ca, net) BY FreshIsFresh
    <2>3. knowHerKey(ca[n]) BY <1>1, <2>1 DEF Fitting
    <2>4. Fitting(n, r.w, heard[n]) /\ OnePerNonce(net \union r.sent)
        BY <1>1, <2>2, <2>3, SendFits
    <2> HIDE DEF r
    <2> QED BY <1>1, <2>1, <2>4, ChangeFits
<1>3. ASSUME NEW n \in Node, NEW fresh \in FreshKeys(n), NEW p \in net,
             Receive(n, p, fresh)
      PROVE  FitInv'
    <2> DEFINE r == receiveMessage(n, ca[n], p, fresh)
               H == IF r.up /\ IsData(p) THEN heard[n] \union {p} ELSE heard[n]
    <2>1. /\ ca' = [ca EXCEPT ![n] = r.w] /\ net' = net \union r.sent /\ p.from # n
          /\ heard' = IF r.up /\ IsData(p) THEN [heard EXCEPT ![n] = @ \union {p}] ELSE heard
        BY <1>3 DEF Receive
    <2>2. IsFresh(n, fresh, ca, net) BY FreshIsFresh
    <2>3. p.from = Peer(n) BY <1>1, <2>1, PeerFacts DEF Packets
    <2>4. Fitting(n, r.w, H) /\ \A q \in r.sent : ~IsData(q)
        BY <1>1, <2>2, <2>3, ReceiveFits
    <2>5. heard'[n] = H /\ \A m \in Node : m # n => heard'[m] = heard[m] /\ ca'[m] = ca[m]
        <3> HIDE DEF r
        <3>1. CASE r.up /\ IsData(p) BY <1>1, <2>1, <3>1
        <3>2. CASE ~(r.up /\ IsData(p)) BY <1>1, <2>1, <3>2
        <3> QED BY <3>1, <3>2
    <2>6. \A q \in H : q \in heard[n] \/ (q = p /\ IsData(p)) OBVIOUS
    <2> HIDE DEF r, H
    <2>7. ca'[n] = r.w BY <1>1, <2>1
    <2>8. ASSUME NEW m \in Node
          PROVE  /\ Fitting(m, ca'[m], heard'[m])
                 /\ \A q \in heard'[m] : q \in net' /\ IsData(q) /\ q.from # m
        <3>1. CASE m = n BY <2>1, <2>4, <2>5, <2>6, <2>7, <3>1 DEF FitInv
        <3>2. CASE m # n BY <2>1, <2>5, <3>2 DEF FitInv
        <3> QED BY <3>1, <3>2
    <2>9. OnePerNonce(net') BY <1>1, <2>1, <2>4 DEF OnePerNonce
    <2> QED BY <2>8, <2>9 DEF FitInv
<1> DEFINE none == {}
<1>4. net \union none = net OBVIOUS
<1> HIDE DEF none
<1>5. ASSUME NEW n \in Node, NEW v, Fitting(n, v, heard[n]),
             ca' = [ca EXCEPT ![n] = v], net' = net, heard' = heard
      PROVE  FitInv'
    <2>1. OnePerNonce(net \union none) /\ net' = net \union none BY <1>1, <1>4, <1>5
    <2> QED BY <1>1, <1>5, <2>1, ChangeFits
<1>6. ASSUME NEW n \in Node, GetState(n) PROVE FitInv'
    <2>1. Fitting(n, refresh(ca[n]), heard[n]) BY <1>1, ResetFits
    <2>2. ca' = [ca EXCEPT ![n] = refresh(ca[n])] /\ net' = net /\ heard' = heard
        BY <1>1, <1>6 DEF GetState
    <2> QED BY <1>5, <2>1, <2>2
<1>7. ASSUME NEW n \in Node, Inactivity(n) PROVE FitInv'
    <2> DEFINE v == [ca[n] EXCEPT !.idle = TRUE]
    <2>1. /\ v.secret = ca[n].secret /\ v.tempKey = ca[n].tempKey /\ v.nextNonce = ca[n].nextNonce
          /\ v.replay = ca[n].replay /\ v.hasBuffered = ca[n].hasBuffered
          /\ v.herKey = ca[n].herKey
        BY <1>1 DEF Wrappers
    <2>2. ca' = [ca EXCEPT ![n] = v] /\ net' = net /\ heard' = heard
        BY <1>1, <1>7 DEF Inactivity
    <2> HIDE DEF v
    <2>3. Fitting(n, v, heard[n]) BY <1>1, <2>1 DEF Fitting, knowHerKey
    <2> QED BY <1>5, <2>2, <2>3
<1>8. ASSUME NEW n \in Node, NEW password \in SetAuth[n], Rewrap(n, password) PROVE FitInv'
    <2>1. Fitting(n, NewWrapper(n, password), heard[n]) BY NewFits
    <2>2. ca' = [ca EXCEPT ![n] = NewWrapper(n, password)] /\ net' = net /\ heard' = heard
        BY <1>8 DEF Rewrap
    <2> QED BY <1>5, <2>1, <2>2
<1>9. ASSUME NEW n \in Node PROVE ~LearnKey(n)
    BY <1>1 DEF LearnKey, Fitting
<1>10. CASE UNCHANGED vars BY <1>10 DEF vars, FitInv
<1> QED BY <1>2, <1>3, <1>6, <1>7, <1>8, <1>9, <1>10 DEF Next

\* Where nothing is buffered, no window refuses a data packet of its session that is new and
\* not older than the window: not after a reset, which keeps the keys and clears the window,
\* nor in a session that follows another (CryptoAuth.c:822, 847-876).
THEOREM DueIsAccepted == NothingBuffered => (Spec => []DueDataAccepted)
<1> SUFFICES ASSUME NothingBuffered PROVE Spec => []DueDataAccepted OBVIOUS
<1>1. ASSUME TypeOK, Sound(ca, net), FitInv PROVE DueDataAccepted
    <2> SUFFICES ASSUME NEW n \in Node, NEW p \in net, IsDue(n, p),
                        p.nonce > 4 \/ ca[n].nextNonce < 5
                 PROVE  receiveMessage(n, ca[n], p, NoKey).up
        BY DEF DueDataAccepted
    <2> DEFINE w == ca[n]
    <2>1. /\ w \in Wrappers /\ p \in Packets /\ p.from \in Node
          /\ HoldsItsKeys(n, w) /\ SoundPacket(p, ca)
          /\ Fitting(n, w, heard[n]) /\ OnePerNonce(net) /\ heard[n] \subseteq Packets
        BY <1>1 DEF Sound, KeyInv, FitInv, TypeOK, Packets
    <2>2. w.nextNonce \in Nat /\ p.nonce \in Nat /\ w.replay \in Protectors
          /\ \A q \in heard[n] : q.nonce \in Nat
        BY <2>1, BoundAssumption DEF Wrappers, Packets
    <2>3. /\ IsData(p) /\ p.nonce > 3 /\ p.from # n /\ p \notin heard[n] /\ p.nonce # ConnectToMe
          /\ p.secret = OpenKey(w) /\ p.half # w.isInitiator
          /\ \A q \in heard[n] : q.secret = p.secret => q.nonce <= p.nonce + Window
        BY DEF IsDue, IsData
    <2>4. p.from = Peer(n) BY <2>1, <2>3, PeerFacts
    <2>5. p.secret \in FinalOf(n) /\ p.secret # Junk
        <3>1. p.secret \in FinalOf(Peer(n)) BY <2>1, <2>3, <2>4 DEF SoundPacket, IsData
        <3> QED BY <3>1, FinalOfFacts
    <2>6. \A x : callReceivedMessage(x).up BY DEF callReceivedMessage, Result
    <2>7. CASE w.nextNonce < 5
        <3>1. p.secret = finalSecret(w) BY <2>3, <2>7 DEF OpenKey
        <3>2. w.replay = ZeroProtector /\ knowHerKey(w)
            BY <2>1, <2>5, <2>7, <3>1, FirstDataFits
        <3>3. NonceIsNew(p.nonce, w.replay) BY <2>2, <3>2 DEF NonceIsNew, ZeroProtector
        <3>4. decryptMessage(w, p, finalSecret(w)) BY <2>3, <2>5, <3>1, <3>3 DEF decryptMessage
        <3> QED BY <2>2, <2>3, <2>6, <2>7, <3>2, <3>4 DEF receiveMessage
    <2>8. CASE ~(w.nextNonce < 5)
        <3>1. w.nextNonce > 4 /\ w.nextNonce >= 5 /\ p.nonce > 4 BY <2>2, <2>8
        <3>2. p.secret = w.secret BY <2>3, <2>8 DEF OpenKey
        <3> DEFINE S == Nonces(w.secret, heard[n])
        <3>3. Exact(w.replay, S) BY <2>1, <3>1 DEF Fitting
        <3>4. ASSUME NEW s \in S PROVE s \in Nat /\ s # p.nonce /\ s <= p.nonce + Window
            <4>1. PICK q \in heard[n] : q.secret = w.secret /\ s = q.nonce BY DEF Nonces
            <4>2. q \in net /\ IsData(q) /\ q.from # n /\ q.from \in Node
                BY <1>1, <2>1 DEF FitInv, Packets
            <4>3. q.from = Peer(n) BY <4>2, PeerFacts
            <4>4. q.nonce # p.nonce BY <2>1, <2>3, <2>4, <3>2, <4>1, <4>2, <4>3 DEF OnePerNonce
            <4> QED BY <2>2, <2>3, <3>2, <4>1, <4>4
        <3> HIDE DEF S
        <3>5. NonceIsNew(p.nonce, w.replay) BY <2>2, <3>3, <3>4, ExactIsFair
        <3>6. decryptMessage(w, p, w.secret) BY <2>3, <2>5, <3>2, <3>5 DEF decryptMessage
        <3> QED BY <2>6, <2>8, <3>1, <3>6 DEF receiveMessage
    <2> QED BY <2>7, <2>8
<1>2. Init => FitInv BY InitFits
<1>3. TypeOK /\ Sound(ca, net) /\ FitInv /\ [Next]_vars => FitInv' BY NextFits
<1> QED BY <1>1, <1>2, <1>3, TypeCorrect, AlwaysSound, PTL DEF Spec

=============================================================================
