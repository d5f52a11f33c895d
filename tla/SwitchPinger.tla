---------------------------- MODULE SwitchPinger ----------------------------
(***************************************************************************)
(* The pings of net/SwitchPinger.c and the slots of util/Pinger.c that     *)
(* they wait in.                                                           *)
(*                                                                         *)
(* A ping packet carries the number of its slot and its data, and whoever  *)
(* answers sends both back.  The network loses, repeats and delays these   *)
(* packets, and an answer may come from another label than the one pinged. *)
(* incomingLabel and isError are parameters here: every packet sets them   *)
(* before they are read, and a timeout, which passes on old ones, is told  *)
(* by its result.  responses and heard are history: what the callbacks     *)
(* were told and which pongs came.                                         *)
(***************************************************************************)
EXTENDS Naturals, Sequences, FiniteSets

CONSTANTS
    Ping,                 \* the pings callers ask for: records with a label and data
    Label,                \* labels of this node's neighbourhood
    Data,                 \* contents of pings, at most Control_Ping_MAX_SIZE long
    None,                 \* NULL
    MaxConcurrentPings    \* Pinger_MAX_CONCURRENT_PINGS

ASSUME PingAssumption == Ping \subseteq [label : Label, data : Data, nr : Nat] /\ None \notin Ping
ASSUME MaxAssumption == MaxConcurrentPings \in Nat \ {0}

VARIABLES
    pings,           \* [slot -> the ping in it, or None]
    sent,            \* packets sent: slot and data
    responses,       \* [Ping -> results its onResponse was called with]
    heard            \* label and data of the pongs that came

vars == <<pings, sent, responses, heard>>

Slot == 0..MaxConcurrentPings - 1
Packet == [slot : Slot, data : Data]

Waiting == {p \in Ping : \E s \in Slot : pings[s] = p}

Contract == INSTANCE PingContract WITH
    Max <- MaxConcurrentPings, waiting <- Waiting

\* Answers to the pings of an earlier run of the process may still be under way.
Init ==
    /\ pings = [s \in Slot |-> None]
    /\ sent \in SUBSET Packet
    /\ responses = [p \in Ping |-> << >>]
    /\ heard = {}

\* Bug: the loop does not stop at the slot it finds.
locationPast == MaxConcurrentPings

\* The first slot that is NULL.
location == CHOOSE s \in Slot : pings[s] = None /\ \A t \in 0..s - 1 : pings[t] # None

\* SwitchPinger_newPing with Pinger_newPing, and SwitchPinger_sendPing, which both
\* callers call at once.
newPing(p) ==
    /\ p \notin Waiting /\ responses[p] = << >>
    /\ \E s \in Slot : pings[s] = None
    /\ pings' = [pings EXCEPT ![location] = p]
    /\ sent' = sent \union {[slot |-> location, data |-> p.data]}
    /\ UNCHANGED <<responses, heard>>

\* No slot is NULL: the caller gets NULL and nothing is sent.
newPingRefused(p) ==
    /\ p \notin Waiting /\ responses[p] = << >>
    /\ \A s \in Slot : pings[s] # None
    /\ UNCHANGED vars

\* Bug: the slot still points to the ping that was freed.
callbackKeepsSlot(s, result) ==
    /\ responses' = [responses EXCEPT ![pings[s]] = Append(@, result)]
    /\ UNCHANGED pings

\* callback of Pinger.c: the caller is told, the slot is emptied and the ping freed.
callback(s, result) ==
    /\ responses' = [responses EXCEPT ![pings[s]] = Append(@, result)]
    /\ pings' = [pings EXCEPT ![s] = None]

\* Bug: the label of the answer is not compared.
resultAnyLabel(p, label, data, error) ==
    IF data # p.data THEN "WRONG_DATA" ELSE IF error THEN "ERROR_RESPONSE" ELSE "OK"

\* onPingResponse of SwitchPinger.c for an answer.
resultOf(p, label, data, error) ==
    IF label # p.label THEN "LABEL_MISMATCH"
    ELSE IF data # p.data THEN "WRONG_DATA"
    ELSE IF error THEN "ERROR_RESPONSE"
    ELSE "OK"

\* receiveMessage of SwitchPinger.c for a pong or an error, and Pinger_pongReceived.
\* A pong whose slot is NULL is dropped, and so is one that is a runt or has no magic.
receiveMessage(packet, label, error) ==
    /\ heard' = IF error THEN heard ELSE heard \union {[label |-> label, data |-> packet.data]}
    /\ IF pings[packet.slot] = None
       THEN UNCHANGED <<pings, responses>>
       ELSE callback(packet.slot, resultOf(pings[packet.slot], label, packet.data, error))
    /\ UNCHANGED sent

\* Bug: the timeout of the ping in slot 0 is lost.
timeoutCallbackNotFirst(s) ==
    /\ pings[s] # None
    /\ s # 0
    /\ callback(s, "TIMEOUT")
    /\ UNCHANGED <<sent, heard>>

\* timeoutCallback of Pinger.c.
timeoutCallback(s) ==
    /\ pings[s] # None
    /\ callback(s, "TIMEOUT")
    /\ UNCHANGED <<sent, heard>>

Next ==
    \/ \E p \in Ping : newPing(p) \/ newPingRefused(p)
    \/ \E packet \in sent, label \in Label, error \in BOOLEAN : receiveMessage(packet, label, error)
    \/ \E s \in Slot : timeoutCallback(s)

\* The event loop runs the timer of a slot as long as a ping waits in it.
Fairness == \A s \in Slot : WF_vars(timeoutCallback(s))

SafetySpec == Init /\ [][Next]_vars
Spec == SafetySpec /\ Fairness

-----------------------------------------------------------------------------

TypeOK ==
    /\ pings \in [Slot -> Ping \union {None}]
    /\ sent \subseteq Packet
    /\ responses \in [Ping -> Seq(Contract!Result)]
    /\ heard \subseteq [label : Label, data : Data]

\* A ping waits in one slot only and was not responded to while it waits, so that the
\* callback that empties the slot frees it for the only time.
WaitsOnce ==
    \A s \in Slot : pings[s] # None =>
        /\ responses[pings[s]] = << >>
        /\ \A t \in Slot : pings[t] = pings[s] => t = s

\* Whatever answers are lost, late, repeated, or of an earlier ping in the same slot or
\* an earlier process, callers see what PingContract promises.
ImplementsContract == Contract!Spec

\* Every ping that was accepted is responded to, if only by its timeout.
EveryPingCompletes == \A p \in Ping : p \in Waiting ~> responses[p] # << >>

=============================================================================
