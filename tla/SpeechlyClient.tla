--------------------------- MODULE SpeechlyClient ---------------------------
(***************************************************************************)
(* SpeechlyClient (SpeechlyClient.{h,cpp}): the thread that owns the       *)
(* bidirectional gRPC stream.  UE4's FRunnableThread runs Init, Run and    *)
(* Exit on it; the game thread and the audio capture thread reach it only  *)
(* through Write, Read, WLUSync, the two flags and the two queues.         *)
(*                                                                         *)
(* Granularity: one action per access to state another thread can see      *)
(* (the flags, the queues) and per call into gRPC.  What gRPC and the      *)
(* server do (completing operations, sending messages, ending the call)    *)
(* are actions of their own, modelled from how Run and Exit use them.      *)
(*                                                                         *)
(* An operator named Bug... is a faulty variant of the definition after    *)
(* it; no specification uses it, it shows that a property can fail.        *)
(***************************************************************************)
EXTENDS Integers, Sequences, FiniteSets

CONSTANTS
    Callers,        \* threads that call Write
    Owner,          \* the game thread: the caller that also reads and kills
    MaxRequests,    \* bound on the requests accepted by Write
    MaxMessages,    \* bound on the messages the server sends
    MaxFakes        \* bound on the responses WLUSync makes up

ASSUME ClientAssumption ==
    /\ Owner \in Callers
    /\ MaxRequests \in Nat /\ MaxMessages \in Nat /\ MaxFakes \in Nat

VARIABLES
    pc,             \* where the client thread is
    bIsRunning, bHasError, ErrorMessage,
    errorStores,    \* the flags SetError has still to store
    OpSeq,          \* Seq: the number of the last operation given to gRPC
    LastWriteSeq, LastReadSeq, bWriteAllowed, bReadAllowed,
    pending,        \* operations gRPC has not completed
    ready,          \* completed operations, in the completion queue
    cqShutdown,     \* CompletionQueue.Shutdown() was called
    expired,        \* the 5 s deadline of Exit has passed
    call,           \* the RPC behind Stream: "none" until Run opens it
    written,        \* requests given to Stream->Write, oldest first
    unread,         \* number of the server's messages no read has taken
    received,       \* number of those that reads have returned
    RequestQueue, ResponseQueue,
    admitted,       \* callers between Write's check and its Enqueue
    reading,        \* the owner is between Read's check and its Dequeue
    fakes,          \* responses the running WLUSync has still to enqueue
    killed,         \* the owner is in FRunnableThread::Kill
    accepted,       \* number of requests enqueued so far
    made,           \* per source, the number of responses enqueued so far
    taken           \* per source, the number of the last response read

flagVars  == <<bIsRunning, bHasError, ErrorMessage, errorStores>>
permVars  == <<bWriteAllowed, bReadAllowed>>
opVars    == <<OpSeq, LastWriteSeq, LastReadSeq, permVars>>
exitVars  == <<cqShutdown, expired>>
cqVars    == <<pending, ready, exitVars>>
wireVars  == <<call, unread, received>>
queueVars == <<RequestQueue, ResponseQueue>>
apiVars   == <<admitted, reading, fakes, killed, accepted, made, taken>>
clientVars == <<pc, flagVars, opVars, cqVars, wireVars, written>>
vars      == <<clientVars, queueVars, apiVars>>

Locations == {"login", "set_error", "open", "open_wait", "configure",
              "config_wait", "loop", "try_write", "try_read", "poll", "exit",
              "drain", "drain_wait", "finish", "finish_wait", "shutdown",
              "cq_drain", "ended"}
ExitLocations == {"drain", "drain_wait", "finish", "finish_wait", "shutdown",
                  "cq_drain"}
Kinds   == {"open", "write", "read", "finish"}
Sources == {"slu", "wlu"}
Config  == 0        \* the SLUConfig request; accepted requests are 1, 2, ...

Tags       == Nat \ {0}
Operations == [kind : Kinds, tag : Tags]
Events     == [kind : Kinds, tag : Tags, ok : BOOLEAN]
Responses  == [src : Sources, n : Nat]
ErrorFlags == {"bHasError", "bIsRunning"}

-----------------------------------------------------------------------------
(* Construction: the member initialisers of SpeechlyClient.h.              *)
Init ==
    /\ pc = "login"
    /\ bIsRunning = TRUE /\ bHasError = FALSE /\ ErrorMessage = FALSE
    /\ errorStores = {}
    /\ OpSeq = 0 /\ LastWriteSeq = 0 /\ LastReadSeq = 0
    /\ bWriteAllowed = TRUE /\ bReadAllowed = TRUE
    /\ pending = {} /\ ready = <<>>
    /\ cqShutdown = FALSE /\ expired = FALSE
    /\ call = "none" /\ written = <<>> /\ unread = 0 /\ received = 0
    /\ RequestQueue = <<>> /\ ResponseQueue = <<>>
    /\ admitted = {} /\ reading = FALSE /\ fakes = 0 /\ killed = FALSE
    /\ accepted = 0
    /\ made = [s \in Sources |-> 0] /\ taken = [s \in Sources |-> 0]

(* FRunnableThread::Create returns to the game thread once Init() has      *)
(* returned, so nobody calls the client before that.                       *)
InitReturned == pc # "login" /\ ~(pc = "set_error" /\ call = "none")

-----------------------------------------------------------------------------
(* CanWrite, CanRead, StreamWrite, StreamRead and HandleTag.               *)
CanWrite == bWriteAllowed
BugCanReadAlways == TRUE
CanRead  == bReadAllowed

BugNextTagPostIncrement == OpSeq
NextTag == OpSeq + 1            \* ++Seq

StartOp(kind) ==
    /\ OpSeq' = OpSeq + 1
    /\ pending' = pending \union {[kind |-> kind, tag |-> NextTag]}

StreamWrite(request) ==
    /\ StartOp("write")
    /\ LastWriteSeq' = NextTag /\ bWriteAllowed' = FALSE
    /\ written' = Append(written, request)
    /\ UNCHANGED <<LastReadSeq, bReadAllowed>>

BugStreamReadNoSeq ==
    /\ StartOp("read")
    /\ bReadAllowed' = FALSE
    /\ UNCHANGED <<LastReadSeq, LastWriteSeq, bWriteAllowed, written>>

StreamRead ==
    /\ StartOp("read")
    /\ LastReadSeq' = NextTag /\ bReadAllowed' = FALSE
    /\ UNCHANGED <<LastWriteSeq, bWriteAllowed, written>>

NoOp == UNCHANGED <<opVars, pending, written>>

IsWriteTag(tag) == tag = LastWriteSeq
IsReadTag(tag)  == tag # LastWriteSeq /\ tag = LastReadSeq

BugHandleTagAny(tag) ==         \* any tag allows both directions
    /\ bWriteAllowed' = TRUE /\ bReadAllowed' = TRUE
    /\ UNCHANGED <<OpSeq, LastWriteSeq, LastReadSeq>>

BugHandleTagKeepsWrite(tag) ==
    /\ bReadAllowed' = (bReadAllowed \/ IsReadTag(tag))
    /\ UNCHANGED <<OpSeq, LastWriteSeq, LastReadSeq, bWriteAllowed>>

HandleTag(tag) ==
    /\ bWriteAllowed' = (bWriteAllowed \/ IsWriteTag(tag))
    /\ bReadAllowed'  = (bReadAllowed \/ IsReadTag(tag))
    /\ UNCHANGED <<OpSeq, LastWriteSeq, LastReadSeq>>

(* CompletionQueue.Next and AsyncNext return the oldest completed          *)
(* operation; AsyncNext times out only when there is none.                 *)
Event    == Head(ready)
GotEvent == ready # <<>> /\ ready' = Tail(ready) /\ UNCHANGED pending
BugTimedOut == FALSE /\ UNCHANGED <<ready, pending>>        \* no deadline given
TimedOut == ready = <<>> /\ expired /\ UNCHANGED <<ready, pending>>

-----------------------------------------------------------------------------
(* SetError: the stores to the two flags are plain and unsynchronised, so  *)
(* another thread may see either first; the message is assigned last.      *)
BeginSetError == pc' = "set_error" /\ errorStores' = ErrorFlags

StoreErrorFlag(flag) ==
    /\ pc = "set_error" /\ flag \in errorStores
    /\ errorStores' = errorStores \ {flag}
    /\ bHasError'  = (bHasError \/ flag = "bHasError")
    /\ bIsRunning' = (bIsRunning /\ flag # "bIsRunning")
    /\ UNCHANGED <<pc, ErrorMessage, opVars, cqVars, wireVars, written>>
    /\ UNCHANGED <<queueVars, apiVars>>

(* After Init failed the thread ends without Exit; Run goes on to Exit.    *)
StoreErrorMessage ==
    /\ pc = "set_error" /\ errorStores = {}
    /\ ErrorMessage' = TRUE
    /\ pc' = IF call = "none" THEN "ended" ELSE "exit"
    /\ UNCHANGED <<bIsRunning, bHasError, errorStores, opVars, cqVars>>
    /\ UNCHANGED <<wireVars, written, queueVars, apiVars>>

-----------------------------------------------------------------------------
(* Init(): the blocking Login call succeeds or fails.                      *)
Login ==
    /\ pc = "login"
    /\ \/ pc' = "open" /\ UNCHANGED errorStores
       \/ BeginSetError
    /\ UNCHANGED <<bIsRunning, bHasError, ErrorMessage, opVars, cqVars>>
    /\ UNCHANGED <<wireVars, written, queueVars, apiVars>>

(* Run(): open the stream and wait for it.                                 *)
OpenStream ==
    /\ pc = "open" /\ pc' = "open_wait"
    /\ StartOp("open")
    /\ call' = "live"
    /\ UNCHANGED <<LastWriteSeq, LastReadSeq, permVars, flagVars, ready>>
    /\ UNCHANGED <<exitVars, unread, received, written, queueVars, apiVars>>

OpenFailed == ~Event.ok \/ Event.tag # OpSeq        \* OpSeq = StreamSeq

(* A failed open stores bHasError alone: no message, bIsRunning stays.     *)
BugOpenError == bHasError
OpenError == bHasError \/ OpenFailed

AwaitOpen ==
    /\ pc = "open_wait" /\ GotEvent
    /\ bHasError' = OpenError
    /\ pc' = IF OpenFailed THEN "exit" ELSE "configure"
    /\ UNCHANGED <<bIsRunning, ErrorMessage, errorStores, opVars, exitVars>>
    /\ UNCHANGED <<wireVars, written, queueVars, apiVars>>

(* Run(): send the configuration and wait for that write.                  *)
Configure ==
    /\ pc = "configure" /\ pc' = "config_wait"
    /\ StreamWrite(Config)
    /\ UNCHANGED <<flagVars, ready, exitVars, wireVars, queueVars, apiVars>>

AwaitConfig ==
    /\ pc = "config_wait" /\ GotEvent
    /\ HandleTag(Event.tag)
    /\ IF Event.ok /\ IsWriteTag(Event.tag)
       THEN pc' = "loop" /\ UNCHANGED errorStores
       ELSE BeginSetError
    /\ UNCHANGED <<bIsRunning, bHasError, ErrorMessage, exitVars>>
    /\ UNCHANGED <<wireVars, written, queueVars, apiVars>>

-----------------------------------------------------------------------------
(* Run(): the main loop.                                                   *)
BugLoopOn == ~bHasError
LoopOn == bIsRunning /\ ~bHasError

CheckLoop ==
    /\ pc = "loop"
    /\ pc' = IF LoopOn THEN "try_write" ELSE "exit"
    /\ UNCHANGED <<flagVars, opVars, cqVars, wireVars, written>>
    /\ UNCHANGED <<queueVars, apiVars>>

(* The dequeue is tried only while no write is outstanding.                *)
BugTryWriteDequeueFirst ==
    /\ pc = "try_write" /\ pc' = "try_read"
    /\ RequestQueue' = IF RequestQueue # <<>> THEN Tail(RequestQueue)
                                              ELSE RequestQueue
    /\ IF CanWrite /\ RequestQueue # <<>>
       THEN StreamWrite(Head(RequestQueue)) ELSE NoOp
    /\ UNCHANGED <<flagVars, ready, exitVars, wireVars>>
    /\ UNCHANGED <<ResponseQueue, apiVars>>

TryWrite ==
    /\ pc = "try_write" /\ pc' = "try_read"
    /\ IF CanWrite /\ RequestQueue # <<>>
       THEN /\ RequestQueue' = Tail(RequestQueue)
            /\ StreamWrite(Head(RequestQueue))
       ELSE NoOp /\ UNCHANGED RequestQueue
    /\ UNCHANGED <<flagVars, ready, exitVars, wireVars>>
    /\ UNCHANGED <<ResponseQueue, apiVars>>

TryRead ==
    /\ pc = "try_read" /\ pc' = "poll"
    /\ IF CanRead THEN StreamRead ELSE NoOp
    /\ UNCHANGED <<flagVars, ready, exitVars, wireVars, queueVars, apiVars>>

(* A read that succeeded has filled Response with message `received'.      *)
BugRelaysAny(event) == event.ok
Relays(event) == event.ok /\ IsReadTag(event.tag)

PollEvent ==
    /\ pc = "poll" /\ GotEvent
    /\ HandleTag(Event.tag)
    /\ IF Event.ok THEN pc' = "loop" /\ UNCHANGED errorStores
                   ELSE BeginSetError
    /\ IF Relays(Event)
       THEN /\ ResponseQueue' =
                 Append(ResponseQueue, [src |-> "slu", n |-> received])
            /\ made' = [made EXCEPT !["slu"] = @ + 1]
       ELSE UNCHANGED <<ResponseQueue, made>>
    /\ UNCHANGED <<bIsRunning, bHasError, ErrorMessage, exitVars, wireVars>>
    /\ UNCHANGED <<written, RequestQueue>>
    /\ UNCHANGED <<admitted, reading, fakes, killed, accepted, taken>>

(* The 2 ms deadline of the loop's AsyncNext.                              *)
PollTimeout ==
    /\ pc = "poll" /\ ready = <<>> /\ pc' = "loop"
    /\ UNCHANGED <<flagVars, opVars, cqVars, wireVars, written>>
    /\ UNCHANGED <<queueVars, apiVars>>

-----------------------------------------------------------------------------
(* Exit(): cancel unless already errored, read until an operation fails,   *)
(* finish the stream, shut the completion queue down and drain it.         *)
BeginExit ==
    /\ pc = "exit" /\ pc' = "drain"
    /\ call' = IF bHasError THEN call ELSE "dead"       \* TryCancel
    /\ UNCHANGED <<flagVars, opVars, cqVars, unread, received, written>>
    /\ UNCHANGED <<queueVars, apiVars>>

BugDrainNoRead ==
    /\ pc = "drain" /\ pc' = "drain_wait" /\ NoOp
    /\ UNCHANGED <<flagVars, ready, exitVars, wireVars, queueVars, apiVars>>

Drain ==
    /\ pc = "drain" /\ pc' = "drain_wait"
    /\ IF CanRead THEN StreamRead ELSE NoOp
    /\ UNCHANGED <<flagVars, ready, exitVars, wireVars, queueVars, apiVars>>

DrainWait ==
    /\ pc = "drain_wait"
    /\ \/ /\ GotEvent /\ HandleTag(Event.tag)
          /\ pc' = IF Event.ok THEN "drain" ELSE "finish"
       \/ TimedOut /\ pc' = "finish" /\ UNCHANGED opVars
    /\ UNCHANGED <<flagVars, exitVars, wireVars, written, queueVars, apiVars>>

Finish ==
    /\ pc = "finish" /\ pc' = "finish_wait"
    /\ StartOp("finish")
    /\ UNCHANGED <<LastWriteSeq, LastReadSeq, permVars, flagVars, ready>>
    /\ UNCHANGED <<exitVars, wireVars, written, queueVars, apiVars>>

IsFinishTag(tag) == tag = OpSeq         \* FinishDoneSeq, the last operation

(* Any failed operation ends this wait too, not just the finish.           *)
FinishWait ==
    /\ pc = "finish_wait"
    /\ \/ /\ GotEvent
          /\ pc' = IF IsFinishTag(Event.tag) \/ ~Event.ok
                   THEN "shutdown" ELSE pc
       \/ TimedOut /\ pc' = "shutdown"
    /\ UNCHANGED <<flagVars, opVars, exitVars>>
    /\ UNCHANGED <<wireVars, written, queueVars, apiVars>>

(* The status is only logged; then the queue is shut down.                 *)
ShutdownQueue ==
    /\ pc = "shutdown" /\ pc' = "cq_drain"
    /\ cqShutdown' = TRUE
    /\ UNCHANGED <<flagVars, opVars, pending, ready, expired>>
    /\ UNCHANGED <<wireVars, written, queueVars, apiVars>>

QueueDrained ==
    cqShutdown /\ pending = {} /\ ready = <<>> /\ UNCHANGED <<ready, pending>>

(* Discard events until SHUTDOWN, or TIMEOUT with operations left behind.  *)
DrainQueue ==
    /\ pc = "cq_drain"
    /\ \/ GotEvent /\ UNCHANGED pc
       \/ (QueueDrained \/ TimedOut) /\ pc' = "ended"
    /\ UNCHANGED <<flagVars, opVars, exitVars, wireVars, written>>
    /\ UNCHANGED <<queueVars, apiVars>>

-----------------------------------------------------------------------------
(* The public calls, on the callers' threads.  A call that finds the       *)
(* client stopped or failed returns false and changes nothing.  Each flag  *)
(* changes at most once, so two successive reads of them that both pass    *)
(* amount to one check at the time of the first.                           *)
OwnerIdle == Owner \notin admitted /\ ~reading /\ fakes = 0
CallsMayBegin == InitReturned /\ ~killed
IsUp == ~bHasError /\ bIsRunning

WriteCheck(caller) ==
    /\ CallsMayBegin /\ caller \notin admitted
    /\ caller = Owner => OwnerIdle
    /\ IsUp
    /\ accepted + Cardinality(admitted) < MaxRequests      \* bound
    /\ admitted' = admitted \union {caller}
    /\ UNCHANGED <<reading, fakes, killed, accepted, made, taken>>
    /\ UNCHANGED <<clientVars, queueVars>>

WriteEnqueue(caller) ==
    /\ caller \in admitted
    /\ admitted' = admitted \ {caller}
    /\ accepted' = accepted + 1
    /\ RequestQueue' = Append(RequestQueue, accepted + 1)
    /\ UNCHANGED <<reading, fakes, killed, made, taken>>
    /\ UNCHANGED <<clientVars, ResponseQueue>>

ReadCheck ==
    /\ CallsMayBegin /\ OwnerIdle /\ IsUp
    /\ reading' = TRUE
    /\ UNCHANGED <<admitted, fakes, killed, accepted, made, taken>>
    /\ UNCHANGED <<clientVars, queueVars>>

ReadDequeue ==
    /\ reading /\ reading' = FALSE
    /\ IF ResponseQueue = <<>>
       THEN UNCHANGED <<ResponseQueue, taken>>
       ELSE /\ ResponseQueue' = Tail(ResponseQueue)
            /\ taken' = [taken EXCEPT ![Head(ResponseQueue).src] =
                                          Head(ResponseQueue).n]
    /\ UNCHANGED <<admitted, fakes, killed, accepted, made>>
    /\ UNCHANGED <<clientVars, RequestQueue>>

(* WLUSync as SendText calls it: once the Text call has returned, one      *)
(* response per token, entity and intent and a made-up `finished' at the   *)
(* end, each enqueued next to what the client thread enqueues.             *)
WLUSync(count) ==
    /\ CallsMayBegin /\ OwnerIdle /\ ~bHasError
    /\ count \in 1..(MaxFakes - made["wlu"])               \* bound
    /\ fakes' = count
    /\ UNCHANGED <<admitted, reading, killed, accepted, made, taken>>
    /\ UNCHANGED <<clientVars, queueVars>>

WLUEnqueue ==
    /\ fakes > 0 /\ fakes' = fakes - 1
    /\ made' = [made EXCEPT !["wlu"] = @ + 1]
    /\ ResponseQueue' =
         Append(ResponseQueue, [src |-> "wlu", n |-> made["wlu"] + 1])
    /\ UNCHANGED <<admitted, reading, killed, accepted, taken>>
    /\ UNCHANGED <<clientVars, RequestQueue>>

(* FRunnableThread::Kill(true) calls Stop() and then joins the thread.     *)
(* Other callers may still be inside a Write.                              *)
Stop ==
    /\ CallsMayBegin /\ OwnerIdle
    /\ killed' = TRUE /\ bIsRunning' = FALSE
    /\ UNCHANGED <<admitted, reading, fakes, accepted, made, taken, queueVars>>
    /\ UNCHANGED <<pc, bHasError, ErrorMessage, errorStores>>
    /\ UNCHANGED <<opVars, cqVars, wireVars, written>>

-----------------------------------------------------------------------------
(* gRPC, the network and the server (external).                            *)

(* An operation fails only on a dead call, but for a read whose message    *)
(* does not parse; a finish completes once the call has its final status.  *)
MayComplete(op, ok) ==
    /\ op.kind = "finish" => ok /\ call = "dead"
    /\ ok \/ call = "dead" \/ op.kind = "read"

(* A read takes the next message and fails if that does not parse, or it   *)
(* fails on a dead call with nothing taken.                                *)
Complete(op, ok) ==
    /\ op \in pending /\ MayComplete(op, ok)
    /\ pending' = pending \ {op}
    /\ ready' = Append(ready, [kind |-> op.kind, tag |-> op.tag, ok |-> ok])
    /\ \/ /\ op.kind = "read" /\ unread > 0 /\ unread' = unread - 1
          /\ received' = IF ok THEN received + 1 ELSE received
       \/ /\ op.kind = "read" => ~ok /\ call = "dead"
          /\ UNCHANGED <<unread, received>>
    /\ UNCHANGED <<pc, flagVars, opVars, exitVars, call, written>>
    /\ UNCHANGED <<queueVars, apiVars>>

ServerSends ==
    /\ call = "live" /\ written # <<>>
    /\ received + unread < MaxMessages                     \* bound
    /\ unread' = unread + 1
    /\ UNCHANGED <<pc, flagVars, opVars, cqVars, call, received, written>>
    /\ UNCHANGED <<queueVars, apiVars>>

CallEnds ==
    /\ call = "live" /\ call' = "dead"
    /\ UNCHANGED <<pc, flagVars, opVars, cqVars, unread, received, written>>
    /\ UNCHANGED <<queueVars, apiVars>>

DeadlinePasses ==
    /\ pc \in ExitLocations
    /\ ~expired /\ expired' = TRUE
    /\ UNCHANGED <<pc, flagVars, opVars, pending, ready, cqShutdown>>
    /\ UNCHANGED <<wireVars, written, queueVars, apiVars>>

-----------------------------------------------------------------------------
ThreadStep ==
    \/ Login \/ OpenStream \/ AwaitOpen \/ Configure \/ AwaitConfig
    \/ \E flag \in ErrorFlags : StoreErrorFlag(flag)
    \/ StoreErrorMessage
    \/ CheckLoop \/ TryWrite \/ TryRead \/ PollEvent \/ PollTimeout
    \/ BeginExit \/ Drain \/ DrainWait \/ Finish \/ FinishWait
    \/ ShutdownQueue \/ DrainQueue

CallerStep ==
    \/ \E caller \in Callers : WriteCheck(caller) \/ WriteEnqueue(caller)
    \/ ReadCheck \/ ReadDequeue
    \/ \E count \in 1..MaxFakes : WLUSync(count)
    \/ WLUEnqueue
    \/ Stop

CompleteKind(kind) ==
    \E op \in pending, ok \in BOOLEAN : op.kind = kind /\ Complete(op, ok)
CompleteOp == \E kind \in Kinds : CompleteKind(kind)

(* The thread is over and joined: nothing is left to do.                   *)
Joined == pc = "ended" /\ killed /\ UNCHANGED vars

Next == \/ ThreadStep \/ CallerStep
        \/ CompleteOp \/ ServerSends \/ CallEnds \/ DeadlinePasses
        \/ Joined

Spec == Init /\ [][Next]_vars

(* The client thread keeps being scheduled, once it is past the login (a   *)
(* blocking call without a deadline).                                      *)
Scheduled == pc # "login" /\ ThreadStep
LiveSpec == Spec /\ WF_vars(Scheduled)

(* What else may be relied on, by the properties that name it: the clock   *)
(* reaches Exit's deadline; gRPC ends every operation that can end.        *)
ClockRuns == WF_vars(DeadlinePasses)
Answers == \A kind \in Kinds : WF_vars(CompleteKind(kind))

-----------------------------------------------------------------------------
(* Operations gRPC still holds, completed or not.                          *)
Outstanding ==
    pending \union {[kind |-> ready[i].kind, tag |-> ready[i].tag] :
                        i \in DOMAIN ready}

(* The variables are of their types, and every tag in use was drawn from   *)
(* Seq: 0, the initial value of LastWriteSeq and LastReadSeq, is no tag.   *)
ControlOK ==
    /\ pc \in Locations
    /\ bIsRunning \in BOOLEAN /\ bHasError \in BOOLEAN
    /\ ErrorMessage \in BOOLEAN /\ errorStores \subseteq ErrorFlags
    /\ cqShutdown \in BOOLEAN /\ expired \in BOOLEAN
    /\ call \in {"none", "live", "dead"}
    /\ admitted \subseteq Callers /\ reading \in BOOLEAN
    /\ killed \in BOOLEAN
TagsOK ==
    /\ OpSeq \in Nat
    /\ LastWriteSeq \in 0..OpSeq /\ LastReadSeq \in 0..OpSeq
    /\ bWriteAllowed \in BOOLEAN /\ bReadAllowed \in BOOLEAN
    /\ pending \subseteq Operations /\ ready \in Seq(Events)
RelayOK ==
    /\ written \in Seq(Nat) /\ RequestQueue \in Seq(Nat)
    /\ ResponseQueue \in Seq(Responses)
    /\ unread \in Nat /\ received \in Nat
    /\ fakes \in Nat /\ accepted \in Nat
    /\ made \in [Sources -> Nat] /\ taken \in [Sources -> Nat]
TypeOK == ControlOK /\ TagsOK /\ RelayOK

(* gRPC's contract for a stream, which bWriteAllowed and bReadAllowed      *)
(* exist to keep (the check()s of StreamWrite and StreamRead): at no time  *)
(* two writes, two reads, two opens or two finishes are outstanding.       *)
OneOpPerDirection ==
    \A a, b \in Outstanding : a.kind = b.kind => a = b

(* The branch of Run for an "unknown tag" is dead code: while the loop     *)
(* runs, whatever is outstanding is the last write or the last read, and   *)
(* is taken for what it is.                                                *)
NoUnknownTag ==
    pc \in {"loop", "try_write", "try_read", "poll"} =>
        \A op \in Outstanding :
            \/ op.kind = "write" /\ IsWriteTag(op.tag)
            \/ op.kind = "read" /\ IsReadTag(op.tag)

(* A direction is barred exactly while an operation of it is outstanding,  *)
(* until Exit has asked for the finish and looks at no permission any      *)
(* more: one barred for nothing would carry nothing again.                 *)
Holds(kind) == \E op \in Outstanding : op.kind = kind
PermissionsExact ==
    pc \notin {"finish_wait", "shutdown", "cq_drain", "ended"} =>
        /\ bWriteAllowed <=> ~Holds("write")
        /\ bReadAllowed <=> ~Holds("read")

(* The thread never waits in vain: whenever it asks the completion queue,  *)
(* the operation it needs to go on is outstanding.  The first two waits    *)
(* have no deadline, and Exit's loop waits even when it starts no read.    *)
NoIdleWait ==
    /\ pc = "open_wait" => Holds("open")
    /\ pc = "config_wait" => Holds("write")
    /\ pc \in {"poll", "drain_wait"} => Holds("read")
    /\ pc = "finish_wait" => Holds("finish")

(* The stream carries the configuration and then the accepted requests,    *)
(* each once and in the order Write enqueued them; one not yet written is  *)
(* still queued, whoever fails in between.                                 *)
InLine(wire, queue, n) ==
    /\ Len(wire) + Len(queue) = n + (IF wire = <<>> THEN 0 ELSE 1)
    /\ \A i \in 1..Len(wire) : wire[i] = Config + i - 1
    /\ \A i \in 1..Len(queue) : queue[i] = n - Len(queue) + i
RequestsInOrder == InLine(written, RequestQueue, accepted)

(* What Read has not returned yet is queued once and in the order of its   *)
(* source, the server's messages and WLUSync's interleaved as they may be. *)
InOrder(queue, last, total) ==
    /\ \A i \in 1..Len(queue) :
          queue[i].n > last[queue[i].src] /\ queue[i].n <= total[queue[i].src]
    /\ \A i, j \in 1..Len(queue) :
          i < j /\ queue[i].src = queue[j].src => queue[i].n < queue[j].n
    /\ \A s \in Sources : \A n \in (last[s] + 1)..total[s] :
          \E i \in 1..Len(queue) : queue[i] = [src |-> s, n |-> n]
ResponsesInOrder == InOrder(ResponseQueue, taken, made)

(* Until Exit takes over, every message a read has returned is in the      *)
(* response queue or about to be: reads are never started over Response    *)
(* while it still holds a message that was not relayed.                    *)
ReadReady == \E i \in DOMAIN ready : ready[i].kind = "read" /\ ready[i].ok
NoMessageLost ==
    pc \notin ExitLocations \union {"exit", "ended"} =>
        received = made["slu"] + (IF ReadReady THEN 1 ELSE 0)

(* The thread never ends by itself without HasError() telling: Tick can    *)
(* rely on it to notice a dead client.                                     *)
NoSilentDeath == pc = "ended" => bHasError \/ killed

(* Once in Exit the thread ends by its deadline, whatever gRPC answers,    *)
(* unless yet another message comes.  Exit's loop looks at its deadline    *)
(* only when no event is ready, and after an error it does not cancel: a   *)
(* server that goes on sending keeps it going.                             *)
ExitReturns ==
    ClockRuns => \A n \in 0..MaxMessages :
        pc \in ExitLocations \union {"exit"} /\ received = n ~>
            pc = "ended" \/ received > n

(* Kill returns: a stopped client ends, if gRPC answers (the waits for the *)
(* open and for the first write have no deadline), unless yet another      *)
(* message comes.                                                          *)
KillReturns ==
    Answers /\ ClockRuns => \A n \in 0..MaxMessages :
        killed /\ received = n ~> pc = "ended" \/ received > n

(* Without a clock: a call that was cancelled, or died, is over if gRPC    *)
(* answers.  Exit always waits for an operation that is out, and leaves    *)
(* nothing in gRPC that points into the client unless it ran out of time.  *)
CancelledExitEnds ==
    Answers => (pc = "drain" /\ call = "dead" ~>
                   pc = "ended" /\ (expired \/ Outstanding = {}))

(* A request that Write accepted reaches the stream or the client stops,   *)
(* if gRPC answers.                                                        *)
RequestsFlow ==
    Answers => \A k \in 1..MaxRequests :
        accepted >= k ~> Len(written) > k \/ ~bIsRunning \/ bHasError

-----------------------------------------------------------------------------
(* A comment of Exit that its code does not live up to, and not for want   *)
(* of time: "CQ can only be shutdown after the queue is drained".  The     *)
(* wait before Shutdown is for the finish only, and any failed operation   *)
(* ends it, too.  It takes a second broken rule to get there ("Stream can  *)
(* only be finished if there are no reads and writes pending"): with the   *)
(* finish alone outstanding, the queue would be empty once it returned.    *)
ShutdownWhenDrained == pc = "shutdown" /\ ~expired => Outstanding = {}

-----------------------------------------------------------------------------
(* What the client promises to USpeechly.                                  *)
Phase == CASE pc = "ended" -> "ended"
           [] pc \in ExitLocations -> "closing"
           [] OTHER -> "open"
Relay == INSTANCE ClientRelay WITH
             phase <- Phase, failed <- bHasError, stopped <- killed,
             requests <- RequestQueue, wire <- written,
             responses <- ResponseQueue
ImplementsRelay == Relay!Spec

(* The client keeps the user's side of StreamContract: nothing before the  *)
(* open has returned, no operation whose op set is in use, no write behind *)
(* the finish, nothing after Shutdown.  That it leaves other op sets in    *)
(* use when it calls Finish and Shutdown is said above.                    *)
Begun ==
    {kind \in Kinds :
        \/ kind = "open" /\ call # "none"
        \/ kind = "write" /\ written # <<>>
        \/ kind = "read" /\ LastReadSeq > 0
        \/ /\ kind = "finish" /\ call # "none"
           /\ pc \in {"finish_wait", "shutdown", "cq_drain", "ended"}}
Stream == INSTANCE StreamContract WITH begun <- Begun
UsesStream == Stream!Spec
=============================================================================
