----------------------------- MODULE GrpcStream -----------------------------
(***************************************************************************)
(* ClientAsyncReaderWriter, the op sets it is made of and the completion   *)
(* queue (GrpcIncludes: async_stream_impl.h, call_op_set.h,                *)
(* completion_queue_impl.h): how calls of the stream become batches of     *)
(* core operations, and how finished batches become tags again.            *)
(*                                                                         *)
(* The four op sets are objects that every call reuses: what a call leaves *)
(* set in one becomes part of the next batch.  The core of gRPC, whose     *)
(* source is not in the repository, is the external part: it takes batches *)
(* and finishes them.  The calls come from one thread, which keeps its     *)
(* side of StreamContract.  No interceptors are registered, the initial    *)
(* metadata are not corked.                                                *)
(*                                                                         *)
(* A Bug... operator is a faulty variant of the definition after it.       *)
(***************************************************************************)
EXTENDS Integers, Sequences, FiniteSets

CONSTANTS
    MaxCalls,       \* bound on the calls of the stream
    MaxMessages     \* bound on the messages the server sends

ASSUME StreamAssumption == MaxCalls \in Nat /\ MaxMessages \in Nat

OpSets  == {"meta_ops", "read_ops", "write_ops", "finish_ops"}
Once    == {"SEND_INITIAL_METADATA", "RECV_INITIAL_METADATA", "SEND_CLOSE",
            "RECV_STATUS"}
CoreOps == Once \union {"SEND_MESSAGE", "RECV_MESSAGE"}
NoMessage == -1     \* no buffer was received
Garbled   == 0      \* a message that does not parse; messages count from 1

VARIABLES
    ops,            \* per op set, the operations AddOp would add
    return_tag,     \* per op set
    send_buf,       \* the message to send: the tag of its Write
    initial_metadata_received,  \* of the ClientContext
    Response,       \* where reads put their message
    refs,           \* references to the call, whose arena holds the op sets
    batches,        \* per op set, what the core works on; {}: nothing
    finished,       \* batches the core has finished, oldest first
    given,          \* operations the core has been given
    aborted,        \* a GPR_CODEGEN_ASSERT failed
    call,           \* "none", "live" or "dead"
    inbox,          \* messages that no batch has taken
    arrived,        \* number of messages that came and parse
    sent,           \* history: the messages the core was given
    context,        \* is the ClientContext alive?
    cqShutdown,     \* Shutdown was called
    calls,          \* calls made; also the tag of the last one
    asked,          \* history: the last call that used each op set
    begun,          \* history: the kinds of calls made
    owed,           \* tags the caller waits for
    got             \* history: reads that returned a message

setVars    == <<ops, return_tag, send_buf, initial_metadata_received, Response>>
coreVars   == <<batches, finished, given, aborted, sent>>
serverVars == <<call, inbox, arrived>>
callerVars == <<context, cqShutdown, calls, asked, begun, owed, got>>
vars == <<setVars, refs, coreVars, serverVars, callerVars>>

(* FinishOp of CallOpRecvMessage: without a message that parses, a read has *)
(* failed, whatever the core said.  No other FinishOp changes the status.  *)
BugStatus(f) == f.ok /\ (f.set = "read_ops" => f.msg # NoMessage)
Status(f) == f.ok /\ (f.set = "read_ops" => f.msg \notin {NoMessage, Garbled})

(* What the contract sees: the operations in the core, and in the queue.   *)
InFlight == {set \in OpSets : batches[set] # {}}
Pending  == {asked[set] : set \in InFlight}
Ready    == [i \in DOMAIN finished |->
                [kind |-> asked[finished[i].set].kind,
                 tag  |-> return_tag[finished[i].set],
                 ok   |-> Status(finished[i])]]
Contract == INSTANCE StreamContract WITH pending <- Pending, ready <- Ready

TypeOK ==
    /\ ops \in [OpSets -> SUBSET CoreOps] /\ batches \in [OpSets -> SUBSET CoreOps]
    /\ return_tag \in [OpSets -> 0..MaxCalls] /\ send_buf \in 0..MaxCalls
    /\ Response \in Garbled..MaxMessages /\ refs \in Nat /\ given \subseteq CoreOps
    /\ finished \in Seq([set : OpSets, ok : BOOLEAN, msg : NoMessage..MaxMessages])
    /\ initial_metadata_received \in BOOLEAN /\ aborted \in BOOLEAN
    /\ context \in BOOLEAN /\ cqShutdown \in BOOLEAN
    /\ call \in {"none", "live", "dead"} /\ arrived \in 0..MaxMessages
    /\ inbox \in Seq(0..MaxMessages) /\ sent \in Seq(0..MaxCalls)
    /\ calls \in 0..MaxCalls /\ owed \subseteq 1..MaxCalls /\ got \in Nat
    /\ asked \in [OpSets -> [kind : Contract!Kinds, tag : 0..MaxCalls]]
    /\ begun \subseteq Contract!Kinds

Init ==
    /\ ops = [set \in OpSets |-> {}] /\ batches = ops
    /\ return_tag = [set \in OpSets |-> 0] /\ send_buf = 0
    /\ initial_metadata_received = FALSE /\ Response = Garbled /\ refs = 1
    /\ finished = <<>> /\ given = {} /\ aborted = FALSE /\ sent = <<>>
    /\ call = "none" /\ inbox = <<>> /\ arrived = 0
    /\ context = TRUE /\ cqShutdown = FALSE
    /\ calls = 0 /\ begun = {} /\ owed = {} /\ got = 0
    /\ asked = [set \in OpSets |-> [kind |-> "open", tag |-> 0]]

(***************************************************************************)
(* The calls.                                                              *)
(***************************************************************************)
(* grpc_call_start_batch: one operation of a kind at a time, and some only *)
(* once in a call.                                                         *)
Refused(batch) ==
    \/ batch \intersect given \intersect Once # {}
    \/ \E set \in InFlight : batch \intersect batches[set] # {}

(* The caller's side of the contract.                                      *)
MayCall(kind) == context /\ calls < MaxCalls /\ Contract!MayBegin(kind)

(* Every call sets the op set's tag, and its batch holds the call.         *)
BugOutputTag(kind) ==
    IF kind = "writes_done" THEN return_tag["write_ops"] ELSE calls + 1
OutputTag(kind) == calls + 1
BugReferenced == IF initial_metadata_received THEN refs ELSE refs + 1
Referenced == refs + 1

(* set_output_tag, the setters of the operations added, PerformOps: FillOps *)
(* of the op set.                                                          *)
Perform(kind, added) ==
    LET set == Contract!OpSet(kind)
        batch == ops[set] \union added IN
    /\ ops' = [ops EXCEPT ![set] = batch]
    /\ return_tag' = [return_tag EXCEPT ![set] = OutputTag(kind)]
    /\ refs' = Referenced
    /\ aborted' = \/ aborted \/ Refused(batch)
                  \/ kind = "meta" /\ initial_metadata_received
    /\ batches' = [batches EXCEPT ![set] = batch]
    /\ given' = given \union batch
    /\ sent' = IF "SEND_MESSAGE" \in batch THEN Append(sent, send_buf') ELSE sent
    /\ calls' = calls + 1 /\ owed' = owed \union {calls + 1}
    /\ asked' = [asked EXCEPT ![set] = [kind |-> kind, tag |-> calls + 1]]
    /\ begun' = begun \union {kind}
    /\ call' = IF kind = "open" THEN "live" ELSE call
    /\ UNCHANGED <<Response, finished, inbox, arrived, context, cqShutdown, got>>

(* What a setter makes AddOp add to the batch.                             *)
SendInitialMetadata == {"SEND_INITIAL_METADATA"}
SendMessage         == {"SEND_MESSAGE"}
ClientSendClose     == {"SEND_CLOSE"}
RecvMessage         == {"RECV_MESSAGE"}
ClientRecvStatus    == {"RECV_STATUS"}
RecvInitialMetadata == {"RECV_INITIAL_METADATA"}

(* The first of Read and Finish asks for the initial metadata.             *)
BugMetadata == RecvInitialMetadata
Metadata == IF initial_metadata_received THEN {} ELSE RecvInitialMetadata

StartCall ==
    /\ MayCall("open") /\ UNCHANGED <<send_buf, initial_metadata_received>>
    /\ Perform("open", SendInitialMetadata)

(* Aborts if the metadata were asked for already.                          *)
ReadInitialMetadata ==
    /\ MayCall("meta") /\ UNCHANGED send_buf
    /\ initial_metadata_received' = TRUE
    /\ Perform("meta", RecvInitialMetadata)

Read ==
    /\ MayCall("read") /\ UNCHANGED send_buf
    /\ initial_metadata_received' = TRUE
    /\ Perform("read", Metadata \union RecvMessage)

Write ==
    /\ MayCall("write") /\ UNCHANGED initial_metadata_received
    /\ send_buf' = calls + 1
    /\ Perform("write", SendMessage)

(* Write with WriteOptions: the message and the close in one batch.        *)
WriteLast ==
    /\ MayCall("write_last") /\ UNCHANGED initial_metadata_received
    /\ send_buf' = calls + 1
    /\ Perform("write_last", SendMessage \union ClientSendClose)

WritesDone ==
    /\ MayCall("writes_done") /\ UNCHANGED <<send_buf, initial_metadata_received>>
    /\ Perform("writes_done", ClientSendClose)

Finish ==
    /\ MayCall("finish") /\ UNCHANGED send_buf
    /\ initial_metadata_received' = TRUE
    /\ Perform("finish", Metadata \union ClientRecvStatus)

(* What FinishOp and SetFinishInterceptionHookPoint leave set: message_,   *)
(* which every Read sets again.                                            *)
BugKept(set) == ops[set] \intersect {"RECV_MESSAGE", "SEND_INITIAL_METADATA"}
BugKeptMessage(set) == ops[set] \intersect {"RECV_MESSAGE", "SEND_MESSAGE"}
Kept(set) == ops[set] \intersect {"RECV_MESSAGE"}

(* FinalizeResult: FinishOp of each operation, then the op set's reference *)
(* is dropped and its tag returned.  A message that does not parse leaves  *)
(* part of itself in the Response.                                         *)
FinalizeResult(f) ==
    /\ ops' = [ops EXCEPT ![f.set] = Kept(f.set)]
    /\ send_buf' = IF "SEND_MESSAGE" \in ops'["write_ops"] THEN send_buf ELSE 0
    /\ Response' = IF f.msg = NoMessage \/ ~f.ok THEN Response ELSE f.msg
    /\ refs' = refs - 1
    /\ owed' = owed \ {return_tag[f.set]}
    /\ got' = IF f.set = "read_ops" /\ Status(f) THEN got + 1 ELSE got
    /\ UNCHANGED <<return_tag, initial_metadata_received>>

(* CompletionQueue::Next                                                   *)
NextEvent ==
    /\ finished # <<>> /\ FinalizeResult(Head(finished))
    /\ finished' = Tail(finished)
    /\ UNCHANGED <<batches, given, aborted, sent, serverVars, context,
                   cqShutdown, calls, asked, begun>>

Shutdown ==
    /\ ~cqShutdown /\ cqShutdown' = TRUE
    /\ UNCHANGED <<setVars, refs, coreVars, serverVars, context, calls, asked,
                   begun, owed, got>>

(* ~ClientContext drops its reference to the call.  The caller keeps the   *)
(* context while an operation has to fill it in.                           *)
ReleaseContext ==
    /\ context /\ context' = FALSE /\ refs' = refs - 1
    /\ \A op \in Contract!Unreturned : op.kind \notin {"meta", "read", "finish"}
    /\ UNCHANGED <<setVars, coreVars, serverVars, cqShutdown, calls, asked,
                   begun, owed, got>>

(***************************************************************************)
(* The core and the server.                                                *)
(***************************************************************************)
(* A live call sends what it is given; a dead one need not.  Receiving     *)
(* takes a message, or the end of the call; the status is the end of it.   *)
FinishBatch(set) ==
    /\ set \in InFlight
    /\ \E ok \in BOOLEAN, msg \in NoMessage..MaxMessages :
        /\ ok \/ call = "dead"
        /\ "RECV_STATUS" \in batches[set] => ok /\ call = "dead"
        /\ \/ /\ "RECV_MESSAGE" \in batches[set] /\ ok
              /\ inbox # <<>> /\ msg = Head(inbox) /\ inbox' = Tail(inbox)
           \/ /\ "RECV_MESSAGE" \in batches[set] => call = "dead"
              /\ msg = NoMessage /\ UNCHANGED inbox
        /\ finished' = Append(finished, [set |-> set, ok |-> ok, msg |-> msg])
    /\ batches' = [batches EXCEPT ![set] = {}]
    /\ UNCHANGED <<setVars, refs, given, aborted, sent, call, arrived, callerVars>>

ServerSends ==
    /\ call = "live" /\ arrived + Len(inbox) < MaxMessages
    /\ \/ inbox' = Append(inbox, arrived + 1) /\ arrived' = arrived + 1
       \/ inbox' = Append(inbox, Garbled) /\ UNCHANGED arrived
    /\ UNCHANGED <<setVars, refs, coreVars, call, callerVars>>

CallDies ==
    /\ call = "live" /\ call' = "dead"
    /\ UNCHANGED <<setVars, refs, coreVars, inbox, arrived, callerVars>>

Next ==
    \/ StartCall \/ ReadInitialMetadata \/ Read \/ Write \/ WriteLast
    \/ WritesDone \/ Finish
    \/ NextEvent \/ Shutdown \/ ReleaseContext
    \/ \E set \in OpSets : FinishBatch(set)
    \/ ServerSends \/ CallDies

(* The core finishes the batches of a dead call, and the caller drains the *)
(* completion queue.                                                       *)
Fairness ==
    /\ WF_vars(NextEvent)
    /\ \A set \in OpSets : WF_vars(FinishBatch(set))

Spec == Init /\ [][Next]_vars /\ Fairness

(***************************************************************************)
(* Properties.                                                             *)
(***************************************************************************)
(* A caller that keeps the contract never has a batch refused: no          *)
(* operation that an earlier call left in a reused op set goes out twice   *)
(* (GPR_CODEGEN_ASSERT in ContinueFillOpsAfterInterception).               *)
NeverAborts == ~aborted

(* Every message goes to the core once, in the order of the Writes: the    *)
(* buffer of a write_ops that is used again does not go out again.         *)
SentOnce == \A i, j \in DOMAIN sent : i < j => sent[i] < sent[j]

(* When a Read has returned ok, the Response holds the next message that   *)
(* came and parses.                                                        *)
ReadsInOrder == [][got' # got => Response' = got']_vars

(* Every batch keeps the call, and with it the op set that Next will read, *)
(* alive, also after the context has dropped its reference.                *)
OpSetsLive == InFlight # {} \/ finished # <<>> => refs > 0

(* Seen through the tags and the status Next will return, the stream and   *)
(* its op sets are what the contract promises.                             *)
ImplementsContract == Contract!Spec

(* Once the call is dead and the queue is shut down, every tag is returned: *)
(* a caller that waits for the queue to drain does not wait for ever.      *)
QueueDrains == call = "dead" /\ cqShutdown ~> owed = {}
=============================================================================
