---------------------------- MODULE ClientRelay ----------------------------
(***************************************************************************)
(* What a SpeechlyClient is to the rest of the plugin: two first-in        *)
(* first-out relays, requests towards the server and responses back, that  *)
(* work until the client fails or is stopped.  Nothing is relayed while it *)
(* closes, and it closes for one of these two reasons only.                *)
(***************************************************************************)
EXTENDS Naturals, Sequences

CONSTANTS Config, Sources       \* the first request; where responses are from

VARIABLES
    phase,          \* "open", "closing" or "ended"
    failed, stopped,
    requests,       \* accepted and not on the wire yet
    wire,           \* what the server is sent
    responses,      \* relayed and not consumed yet
    accepted,       \* number of requests accepted
    made            \* per source, number of responses relayed

relayVars == <<phase, failed, stopped, requests, wire, responses, accepted, made>>

Init ==
    /\ phase = "open" /\ failed = FALSE /\ stopped = FALSE
    /\ requests = <<>> /\ wire = <<>> /\ responses = <<>>
    /\ accepted = 0 /\ made = [s \in Sources |-> 0]

(* A submitted request gets the next number.  A caller let in before the   *)
(* end may still be enqueueing afterwards.                                 *)
Submit ==
    /\ accepted' = accepted + 1
    /\ requests' = Append(requests, accepted')
    /\ UNCHANGED <<phase, failed, stopped, wire, responses, made>>

Configure ==
    /\ phase = "open" /\ wire = <<>> /\ wire' = <<Config>>
    /\ UNCHANGED <<phase, failed, stopped, requests, responses, accepted, made>>

Transmit ==
    /\ phase = "open" /\ wire # <<>> /\ requests # <<>>
    /\ wire' = Append(wire, Head(requests)) /\ requests' = Tail(requests)
    /\ UNCHANGED <<phase, failed, stopped, responses, accepted, made>>

Relayed(s) ==
    /\ s = "slu" => phase = "open" /\ ~failed
    /\ made' = [made EXCEPT ![s] = @ + 1]
    /\ responses' = Append(responses, [src |-> s, n |-> made'[s]])
    /\ UNCHANGED <<phase, failed, stopped, requests, wire, accepted>>

Consume ==
    /\ responses # <<>> /\ responses' = Tail(responses)
    /\ UNCHANGED <<phase, failed, stopped, requests, wire, accepted, made>>

Fail ==
    /\ phase = "open" /\ failed' = TRUE
    /\ UNCHANGED <<phase, stopped, requests, wire, responses, accepted, made>>

Stopped ==
    /\ ~stopped /\ stopped' = TRUE
    /\ UNCHANGED <<phase, failed, requests, wire, responses, accepted, made>>

(* A client whose login failed ends without closing a stream.              *)
Close ==
    /\ failed \/ stopped
    /\ \/ phase = "open" /\ phase' \in {"closing", "ended"}
       \/ phase = "closing" /\ phase' = "ended"
    /\ UNCHANGED <<failed, stopped, requests, wire, responses, accepted, made>>

Next ==
    \/ Submit \/ Configure \/ Transmit \/ Consume \/ Fail \/ Stopped \/ Close
    \/ \E s \in Sources : Relayed(s)

Spec == Init /\ [][Next]_relayVars
=============================================================================
