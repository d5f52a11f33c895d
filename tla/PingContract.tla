---------------------------- MODULE PingContract ----------------------------
(***************************************************************************)
(* What the pinger promises its callers (net/SwitchPinger.h, util/Pinger.h): *)
(* a ping that was accepted gets one response and no other, at most Max of *)
(* them wait at a time, and OK means that a pong with the data of the ping *)
(* has come from the label that was pinged.                                *)
(***************************************************************************)
EXTENDS Naturals, Sequences, FiniteSets

CONSTANTS
    Ping,     \* the pings callers ask for, records with a label and data
    Max       \* how many pings may wait at a time

VARIABLES
    waiting,    \* pings that were accepted and not responded to
    responses,  \* [Ping -> the results its callback was given, in order]
    heard       \* the pongs that came: their label and data

vars == <<waiting, responses, heard>>

\* enum SwitchPinger_Result
Result == {"OK", "LABEL_MISMATCH", "WRONG_DATA", "ERROR_RESPONSE", "TIMEOUT"}

Init ==
    /\ waiting = {}
    /\ responses = [p \in Ping |-> << >>]
    /\ heard = {}

Accept(p) ==
    /\ p \notin waiting
    /\ responses[p] = << >>
    /\ Cardinality(waiting) < Max
    /\ waiting' = waiting \union {p}
    /\ UNCHANGED <<responses, heard>>

Respond(p, result) ==
    /\ p \in waiting
    /\ result = "OK" => [label |-> p.label, data |-> p.data] \in heard'
    /\ waiting' = waiting \ {p}
    /\ responses' = [responses EXCEPT ![p] = Append(@, result)]

Next ==
    \/ \E p \in Ping : Accept(p)
    \/ /\ heard \subseteq heard'
       /\ \/ UNCHANGED <<waiting, responses>>
          \/ \E p \in Ping, result \in Result : Respond(p, result)

Spec == Init /\ [][Next]_vars

=============================================================================
