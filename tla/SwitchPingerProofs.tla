------------------------- MODULE SwitchPingerProofs -------------------------
(***************************************************************************)
(* The pings of SwitchPinger keep what PingContract promises, for any      *)
(* number of slots, labels, contents and pings.                            *)
(***************************************************************************)
EXTENDS SwitchPinger, NaturalsInduction, WellFoundedInduction, FiniteSetTheorems, Functions, TLAPS

\* The inductive invariant: types, and every ping waiting in one slot without a response.
IInv == TypeOK /\ WaitsOnce

\* Some slot is the first free one if any is free, because < is well founded.
LEMMA LocationIsFree ==
    ASSUME \E s \in Slot : pings[s] = None
    PROVE  location \in Slot /\ pings[location] = None
PROOF
<1> DEFINE Free == {s \in Slot : pings[s] = None}
<1>1. Free # {} /\ Free \subseteq Nat
      BY MaxAssumption DEF Slot
<1>2. PICK s \in Free : \A t \in Free : <<t, s>> \notin OpToRel(<, Nat)
      <2> HIDE DEF Free
      <2> QED BY <1>1, NatLessThanWellFounded, WFMin
<1>3. \A t \in 0..s - 1 : pings[t] # None
      <2> SUFFICES ASSUME NEW t \in 0..s - 1, pings[t] = None PROVE FALSE
          OBVIOUS
      <2>1. s \in Nat /\ t \in Nat /\ t < s /\ t \in Free
            BY <1>1, MaxAssumption DEF Slot
      <2>2. <<t, s>> \in OpToRel(<, Nat)
            BY <2>1 DEF OpToRel
      <2> QED BY <1>2, <2>1, <2>2
<1> QED BY <1>2, <1>3 DEF location

\* At least one slot is free, so fewer pings wait than there are slots.
LEMMA WaitingBelowMax ==
    ASSUME TypeOK, NEW s \in Slot, pings[s] = None
    PROVE  Cardinality(Waiting) < MaxConcurrentPings
PROOF
<1> DEFINE Others == Slot \ {s}
           SlotOf == [p \in Waiting |-> CHOOSE t \in Slot : pings[t] = p]
<1>1. IsFiniteSet(Slot) /\ Cardinality(Slot) = MaxConcurrentPings
      <2>1. /\ IsFiniteSet(0..MaxConcurrentPings - 1)
            /\ Cardinality(0..MaxConcurrentPings - 1) =
                  IF 0 > MaxConcurrentPings - 1 THEN 0 ELSE (MaxConcurrentPings - 1) - 0 + 1
            BY MaxAssumption, FS_Interval
      <2> QED BY <2>1, MaxAssumption DEF Slot
<1>2. IsFiniteSet(Others) /\ Cardinality(Others) = MaxConcurrentPings - 1
      BY <1>1, FS_RemoveElement
<1>3. \A p \in Waiting : SlotOf[p] \in Others /\ pings[SlotOf[p]] = p
      BY PingAssumption DEF Waiting
<1>4. SlotOf \in Injection(Waiting, Others)
      <2>1. SlotOf \in [Waiting -> Others]
            BY <1>3
      <2>2. \A p, q \in Waiting : SlotOf[p] = SlotOf[q] => p = q
            <3> HIDE DEF SlotOf
            <3> QED BY <1>3
      <2>3. DOMAIN SlotOf = Waiting
            OBVIOUS
      <2> HIDE DEF SlotOf
      <2> QED BY <2>1, <2>2, <2>3 DEF Injection, IsInjective
<1>5. IsFiniteSet(Waiting) /\ Cardinality(Waiting) <= Cardinality(Others)
      <2> HIDE DEF SlotOf, Others
      <2> QED BY <1>2, <1>4, FS_Injection
<1>6. Cardinality(Waiting) \in Nat
      BY <1>5, FS_CardinalityType
<1> HIDE DEF Others
<1> QED BY <1>2, <1>5, <1>6, MaxAssumption

\* Before any call no ping waits (Pinger_new in util/Pinger.c).
LEMMA InitIInv == Init => IInv
PROOF BY DEF Init, IInv, TypeOK, WaitsOnce

\* What a response does: the ping that waited in the slot waits no more, has its one
\* response, and everything else is as it was.
LEMMA CallbackStep ==
    ASSUME IInv, NEW s \in Slot, pings[s] # None,
           NEW result \in Contract!Result, callback(s, result)
    PROVE  /\ pings[s] \in Waiting
           /\ Waiting' = Waiting \ {pings[s]}
           /\ pings' \in [Slot -> Ping \union {None}]
           /\ responses' \in [Ping -> Seq(Contract!Result)]
           /\ WaitsOnce'
PROOF
<1>1. pings \in [Slot -> Ping \union {None}] /\ pings[s] \in Ping
      BY DEF IInv, TypeOK
<1>2. pings' = [pings EXCEPT ![s] = None]
      BY DEF callback
<1>3. responses' = [responses EXCEPT ![pings[s]] = Append(@, result)]
      BY DEF callback
<1>4. responses \in [Ping -> Seq(Contract!Result)]
      BY DEF IInv, TypeOK
<1>5. responses' \in [Ping -> Seq(Contract!Result)]
      <2>1. Append(responses[pings[s]], result) \in Seq(Contract!Result)
            BY <1>1, <1>4
      <2> QED BY <1>1, <1>3, <1>4, <2>1
<1>6. pings' \in [Slot -> Ping \union {None}]
      BY <1>1, <1>2
<1>7. \A t \in Slot : t # s => pings'[t] = pings[t] /\ pings[t] # pings[s]
      <2>1. \A t \in Slot : pings[t] = pings[s] => t = s
            BY DEF IInv, WaitsOnce
      <2> QED BY <1>1, <1>2, <2>1
<1>8. pings'[s] = None
      BY <1>1, <1>2
<1>9. Waiting' = Waiting \ {pings[s]}
      BY <1>1, <1>7, <1>8, PingAssumption DEF Waiting
<1>10. WaitsOnce'
      <2> SUFFICES ASSUME NEW t \in Slot, pings'[t] # None
                   PROVE  /\ responses'[pings'[t]] = << >>
                          /\ \A u \in Slot : pings'[u] = pings'[t] => u = t
          BY DEF WaitsOnce
      <2>1. t # s /\ pings'[t] = pings[t] /\ pings[t] # pings[s]
            BY <1>7, <1>8
      <2>2. responses[pings[t]] = << >> /\ \A u \in Slot : pings[u] = pings[t] => u = t
            BY <2>1 DEF IInv, WaitsOnce
      <2>3. pings[t] \in Ping
            BY <1>1, <2>1
      <2>4. responses'[pings[t]] = << >>
            BY <1>3, <1>4, <2>1, <2>2, <2>3
      <2>5. ASSUME NEW u \in Slot, pings'[u] = pings'[t] PROVE u = t
            BY <1>7, <1>8, <2>1, <2>2, <2>5
      <2> QED BY <2>1, <2>4, <2>5
<1> QED BY <1>1, <1>5, <1>6, <1>9, <1>10 DEF Waiting

\* What a new ping does: it waits in a slot that was free.
LEMMA NewPingStep ==
    ASSUME IInv, NEW p \in Ping, newPing(p)
    PROVE  /\ Waiting' = Waiting \union {p}
           /\ Cardinality(Waiting) < MaxConcurrentPings
           /\ IInv'
PROOF
<1>1. location \in Slot /\ pings[location] = None
      BY LocationIsFree DEF newPing
<1>2. Cardinality(Waiting) < MaxConcurrentPings
      BY <1>1, WaitingBelowMax DEF IInv
<1>3. pings \in [Slot -> Ping \union {None}] /\ pings' = [pings EXCEPT ![location] = p]
      BY DEF IInv, TypeOK, newPing
<1>4. p \notin Waiting /\ responses[p] = << >> /\ p # None
      BY PingAssumption DEF newPing
<1>5. pings'[location] = p /\ \A t \in Slot : t # location => pings'[t] = pings[t]
      BY <1>1, <1>3
<1>6. Waiting' = Waiting \union {p}
      BY <1>1, <1>4, <1>5, PingAssumption DEF Waiting
<1>7. TypeOK'
      <2>1. pings' \in [Slot -> Ping \union {None}]
            BY <1>1, <1>3
      <2>2. [slot |-> location, data |-> p.data] \in Packet
            BY <1>1, PingAssumption DEF Packet
      <2>3. sent' \subseteq Packet
            BY <2>2 DEF IInv, TypeOK, newPing
      <2> QED BY <2>1, <2>3 DEF IInv, TypeOK, newPing
<1>8. WaitsOnce'
      <2> SUFFICES ASSUME NEW t \in Slot, pings'[t] # None
                   PROVE  /\ responses[pings'[t]] = << >>
                          /\ \A u \in Slot : pings'[u] = pings'[t] => u = t
          BY DEF WaitsOnce, newPing
      <2>1. \A u \in Slot : u # location => pings'[u] # p
            BY <1>4, <1>5 DEF Waiting
      <2>2. CASE t = location
            BY <1>4, <1>5, <2>1, <2>2
      <2>3. CASE t # location
            <3>1. pings'[t] = pings[t] /\ pings[t] # None
                  BY <1>5, <2>3
            <3>2. responses[pings[t]] = << >> /\ \A u \in Slot : pings[u] = pings[t] => u = t
                  BY <3>1 DEF IInv, WaitsOnce
            <3>3. pings'[t] # p
                  BY <2>1, <2>3
            <3> QED BY <1>5, <3>1, <3>2, <3>3
      <2> QED BY <2>2, <2>3
<1> QED BY <1>2, <1>6, <1>7, <1>8 DEF IInv

\* What an answer does: it is heard, and the ping in its slot, if any, is responded to,
\* with OK only if the answer is a pong from its label with its data.
LEMMA ReceiveStep ==
    ASSUME IInv, NEW packet \in sent, NEW label \in Label, NEW error \in BOOLEAN,
           receiveMessage(packet, label, error)
    PROVE  IInv' /\ Contract!Next
PROOF
<1>1. packet \in Packet /\ packet.slot \in Slot /\ packet.data \in Data
      BY DEF IInv, TypeOK, Packet
<1>2. heard \subseteq heard' /\ heard' \subseteq [label : Label, data : Data]
      BY <1>1 DEF IInv, TypeOK, receiveMessage
<1>3. CASE pings[packet.slot] = None
      <2>1. UNCHANGED <<pings, responses, sent>>
            BY <1>3 DEF receiveMessage
      <2>2. Waiting' = Waiting
            BY <2>1 DEF Waiting
      <2>3. IInv'
            BY <1>2, <2>1 DEF IInv, TypeOK, WaitsOnce
      <2> QED BY <1>2, <2>1, <2>2, <2>3 DEF Contract!Next
<1>4. CASE pings[packet.slot] # None
      <2> DEFINE p == pings[packet.slot]
                 result == resultOf(p, label, packet.data, error)
      <2>1. callback(packet.slot, result) /\ sent' = sent
            BY <1>4 DEF receiveMessage
      <2>2. result \in Contract!Result
            BY DEF resultOf, Contract!Result
      <2>3. /\ p \in Waiting
            /\ Waiting' = Waiting \ {p}
            /\ pings' \in [Slot -> Ping \union {None}]
            /\ responses' \in [Ping -> Seq(Contract!Result)]
            /\ WaitsOnce'
            <3> HIDE DEF result
            <3> QED BY <1>1, <1>4, <2>1, <2>2, CallbackStep
      <2>4. IInv'
            BY <1>2, <2>1, <2>3 DEF IInv, TypeOK
      <2>5. ASSUME result = "OK" PROVE [label |-> p.label, data |-> p.data] \in heard'
            <3>1. label = p.label /\ packet.data = p.data /\ ~error
                  BY <2>5 DEF resultOf
            <3>2. heard' = heard \union {[label |-> label, data |-> packet.data]}
                  BY <3>1 DEF receiveMessage
            <3> QED BY <3>1, <3>2
      <2>6. p \in Ping
            BY <2>3 DEF Waiting
      <2>7. responses' = [responses EXCEPT ![p] = Append(@, result)]
            BY <2>1 DEF callback
      <2>8. Contract!Respond(p, result)
            <3> HIDE DEF p, result
            <3> QED BY <2>3, <2>5, <2>7 DEF Contract!Respond
      <2> HIDE DEF p, result
      <2> QED BY <1>2, <2>2, <2>4, <2>6, <2>8 DEF Contract!Next
<1> QED BY <1>3, <1>4

\* A timeout is a response like any other.
LEMMA TimeoutStep ==
    ASSUME IInv, NEW s \in Slot, timeoutCallback(s)
    PROVE  IInv' /\ Contract!Next
PROOF
<1>1. pings[s] # None /\ callback(s, "TIMEOUT") /\ UNCHANGED <<sent, heard>>
      BY DEF timeoutCallback
<1>2. "TIMEOUT" \in Contract!Result
      BY DEF Contract!Result
<1>3. /\ pings[s] \in Waiting
      /\ Waiting' = Waiting \ {pings[s]}
      /\ pings' \in [Slot -> Ping \union {None}]
      /\ responses' \in [Ping -> Seq(Contract!Result)]
      /\ WaitsOnce'
      BY <1>1, <1>2, CallbackStep
<1>4. IInv'
      BY <1>1, <1>3 DEF IInv, TypeOK
<1>5. pings[s] \in Ping
      BY <1>3 DEF Waiting
<1>6. responses' = [responses EXCEPT ![pings[s]] = Append(@, "TIMEOUT")]
      BY <1>1 DEF callback
<1>7. Contract!Respond(pings[s], "TIMEOUT")
      BY <1>3, <1>6 DEF Contract!Respond
<1> QED BY <1>1, <1>2, <1>4, <1>5, <1>7 DEF Contract!Next

\* Every step keeps the invariant and is a step of the contract or none.
LEMMA Step == IInv /\ [Next]_vars => IInv' /\ [Contract!Next]_(Contract!vars)
PROOF
<1> SUFFICES ASSUME IInv, [Next]_vars PROVE IInv' /\ [Contract!Next]_(Contract!vars)
    OBVIOUS
<1>1. ASSUME NEW p \in Ping, newPing(p) PROVE IInv' /\ Contract!Next
      <2>1. /\ Waiting' = Waiting \union {p}
            /\ Cardinality(Waiting) < MaxConcurrentPings
            /\ IInv'
            BY <1>1, NewPingStep
      <2>2. p \notin Waiting /\ responses[p] = << >> /\ UNCHANGED <<responses, heard>>
            BY <1>1 DEF newPing
      <2>3. Contract!Accept(p)
            BY <2>1, <2>2 DEF Contract!Accept, Cardinality, Contract!Cardinality
      <2> QED BY <2>1, <2>3 DEF Contract!Next
<1>2. ASSUME UNCHANGED vars PROVE IInv' /\ UNCHANGED Contract!vars
      BY <1>2 DEF vars, IInv, TypeOK, WaitsOnce, Contract!vars, Waiting
<1>3. ASSUME NEW p \in Ping, newPingRefused(p) PROVE IInv' /\ UNCHANGED Contract!vars
      BY <1>2, <1>3 DEF newPingRefused
<1> QED BY <1>1, <1>2, <1>3, ReceiveStep, TimeoutStep DEF Next

\* Types are kept and every ping waits in one slot, responded to by nothing yet, for
\* any number of slots and pings.
THEOREM PingsWaitOnce == Spec => [](TypeOK /\ WaitsOnce)
PROOF
<1>1. Spec => []IInv
      BY InitIInv, Step, PTL DEF Spec, SafetySpec
<1>2. IInv => TypeOK /\ WaitsOnce
      BY DEF IInv
<1> QED BY <1>1, <1>2, PTL

\* A slot holds one ping or none, and what comes back is about slots and data that were sent
\* (Pinger_newPing, receiveMessage of SwitchPinger.c).
THEOREM TypeCorrect == Spec => []TypeOK
PROOF BY PingsWaitOnce, PTL

\* The slots of Pinger.c and the comparisons of SwitchPinger.c implement the contract:
\* one response for each ping, and OK only for a pong from its label with its data.
THEOREM Refinement == Spec => ImplementsContract
PROOF
<1>1. Init => Contract!Init
      BY PingAssumption DEF Init, Contract!Init, Waiting
<1>2. Spec => [][Contract!Next]_(Contract!vars)
      BY InitIInv, Step, PTL DEF Spec, SafetySpec
<1> QED BY <1>1, <1>2, PTL DEF Spec, SafetySpec, ImplementsContract, Contract!Spec

=============================================================================
