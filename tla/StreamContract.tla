--------------------------- MODULE StreamContract ---------------------------
(***************************************************************************)
(* What gRPC and the user of an asynchronous bidirectional stream owe each *)
(* other (the comments of async_stream_impl.h and completion_queue_impl.h).*)
(* The user waits for the open, has one operation of an op set outstanding *)
(* at a time and gives none to a queue that was shut down; gRPC returns    *)
(* the tag of every operation once, by way of the completion queue.        *)
(*                                                                         *)
(* Two rules are left out, because SpeechlyClient does not keep them (see  *)
(* its ShutdownWhenDrained).  Finish "Should not be     *)
(* used concurrently with other operations": here it may, and GrpcStream   *)
(* is shown to bear it.  A queue is shut down when it is drained: that is  *)
(* the client's own rule; gRPC lets Shutdown come first and drains then.   *)
(***************************************************************************)
EXTENDS Naturals, Sequences

VARIABLES
    call,           \* "none", "live" or "dead"
    pending,        \* operations gRPC has not completed
    ready,          \* completed operations in the queue
    begun,          \* kinds of operations begun so far
    cqShutdown      \* Shutdown was called

contractVars == <<call, pending, ready, begun, cqShutdown>>

(* The op set of ClientAsyncReaderWriter an operation is made of.          *)
Writes == {"open", "write", "write_last", "writes_done"}
Last   == {"write_last", "writes_done"}
Kinds  == Writes \union {"read", "meta", "finish"}
OpSet(kind) == CASE kind \in Writes -> "write_ops"
                 [] kind = "read"   -> "read_ops"
                 [] kind = "meta"   -> "meta_ops"
                 [] kind = "finish" -> "finish_ops"

Unreturned ==
    pending \union {[kind |-> ready[i].kind, tag |-> ready[i].tag] :
                        i \in DOMAIN ready}

Init ==
    /\ call = "none" /\ pending = {} /\ ready = <<>>
    /\ begun = {} /\ cqShutdown = FALSE

(* The call is started once, by StartCall, and used once that has          *)
(* returned; it is finished once; the initial metadata are read once,      *)
(* before any message; no write follows the last.                          *)
(* (The comments forget that Finish asks for the initial metadata, too.)   *)
MayBegin(kind) ==
    /\ ~cqShutdown
    /\ \A op \in Unreturned : OpSet(op.kind) # OpSet(kind)
    /\ \A op \in Unreturned : op.kind # "open"
    /\ (kind = "open") = (begun = {})
    /\ kind \in {"meta", "finish"} => kind \notin begun
    /\ kind = "meta" => begun \intersect {"read", "finish"} = {}
    /\ kind \in Writes => begun \intersect (Last \union {"finish"}) = {}

Begin(kind, tag) ==
    /\ MayBegin(kind) /\ \A op \in Unreturned : op.tag # tag
    /\ pending' = pending \union {[kind |-> kind, tag |-> tag]}
    /\ begun' = begun \union {kind}
    /\ call' = IF kind = "open" THEN "live" ELSE call
    /\ UNCHANGED <<ready, cqShutdown>>

(* A read fails also when its message does not parse.                      *)
MayEnd(kind, ok) ==
    /\ kind = "finish" => ok /\ call = "dead"
    /\ ok \/ call = "dead" \/ kind = "read"

End(op, ok) ==
    /\ op \in pending /\ MayEnd(op.kind, ok)
    /\ pending' = pending \ {op}
    /\ ready' = Append(ready, [kind |-> op.kind, tag |-> op.tag, ok |-> ok])
    /\ UNCHANGED <<call, begun, cqShutdown>>

Return ==
    /\ ready # <<>> /\ ready' = Tail(ready)
    /\ UNCHANGED <<call, pending, begun, cqShutdown>>

Die ==
    /\ call = "live" /\ call' = "dead"
    /\ UNCHANGED <<pending, ready, begun, cqShutdown>>

(* Also with operations outstanding: the queue returns them.               *)
Shutdown ==
    /\ ~cqShutdown /\ cqShutdown' = TRUE
    /\ UNCHANGED <<call, pending, ready, begun>>

Next ==
    \/ \E op \in pending' \ pending : Begin(op.kind, op.tag)
    \/ \E op \in pending, ok \in BOOLEAN : End(op, ok)
    \/ Return \/ Die \/ Shutdown

Spec == Init /\ [][Next]_contractVars
=============================================================================
