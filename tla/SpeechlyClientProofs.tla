------------------------ MODULE SpeechlyClientProofs ------------------------
(***************************************************************************)
(* What holds of SpeechlyClient for any callers and any bounds.            *)
(***************************************************************************)
EXTENDS SpeechlyClient, SequenceTheorems, TLAPS

-----------------------------------------------------------------------------
(* The inductive invariant behind the properties above.                    *)

(* What an outstanding operation tells of the thread that started it.      *)
InPlace == {op \in Operations :
    /\ op.tag <= OpSeq
    /\ op.kind = "write" => op.tag = LastWriteSeq /\ ~bWriteAllowed
    /\ op.kind = "read" =>
          op.tag = LastReadSeq /\ ~bReadAllowed /\ pc # "config_wait"
    /\ op.kind = "open" <=> pc = "open_wait"
    /\ op.kind = "finish" =>
          pc \in {"finish_wait", "shutdown", "cq_drain", "ended"}
    /\ op.kind \in {"open", "finish"} => op.tag = OpSeq
    /\ pc \notin {"login", "open", "configure"}}
OpStates == Outstanding \subseteq InPlace
DistinctTags ==
    /\ \A a, b \in pending : a.tag = b.tag => a = b
    /\ \A i, j \in DOMAIN ready : ready[i].tag = ready[j].tag => i = j
    /\ \A i \in DOMAIN ready, op \in pending : op.tag # ready[i].tag
    /\ LastWriteSeq = LastReadSeq => LastWriteSeq = 0
StreamInv == OpStates /\ DistinctTags

NothingStarted == pending = {} /\ ready = <<>>
EndInv ==
    /\ pc \in {"login", "open"} => call = "none"
    /\ call = "none" => /\ pc \in {"login", "set_error", "open", "ended"}
                        /\ NothingStarted
    /\ pc = "set_error" => bHasError \/ "bHasError" \in errorStores
    /\ ~bIsRunning => killed \/ bHasError \/ pc = "set_error"
    /\ pc \in ExitLocations \union {"exit", "ended"} => bHasError \/ killed

WireInv ==
    /\ pc \in {"login", "open", "open_wait", "configure"} => written = <<>>
    /\ pc \in {"config_wait", "loop", "try_write", "try_read", "poll"} =>
          written # <<>>

USE DEF LoopOn, OpenError

-----------------------------------------------------------------------------
(* The member initialisers of SpeechlyClient have their types.             *)
LEMMA InitTypeOK == ASSUME ClientAssumption, Init PROVE TypeOK
<1>1. ControlOK BY DEF Init, ControlOK, Locations, ErrorFlags
<1>2. TagsOK BY DEF Init, TagsOK
<1>3. RelayOK BY DEF Init, RelayOK
<1> QED BY <1>1, <1>2, <1>3 DEF TypeOK

(* What a call on another thread leaves alone: all that the client thread  *)
(* owns.                                                                   *)
LEMMA ClientUnchanged ==
  ASSUME UNCHANGED clientVars
  PROVE  /\ UNCHANGED <<pc, bIsRunning, bHasError, ErrorMessage, errorStores>>
         /\ UNCHANGED <<OpSeq, LastWriteSeq, LastReadSeq>>
         /\ UNCHANGED <<bWriteAllowed, bReadAllowed, pending, ready>>
         /\ UNCHANGED <<cqShutdown, expired>>
         /\ UNCHANGED <<call, unread, received, written>>
  BY DEF clientVars, flagVars, opVars, permVars, cqVars, exitVars, wireVars

(* Taking the oldest event off the completion queue.                       *)
LEMMA EventTyped ==
  ASSUME TagsOK, GotEvent
  PROVE  /\ ready # <<>>
         /\ Event \in Events
         /\ ready' \in Seq(Events)
         /\ Len(ready') = Len(ready) - 1
         /\ \A i \in DOMAIN ready' : i + 1 \in DOMAIN ready /\ ready'[i] = ready[i + 1]
         /\ UNCHANGED pending
<1>1. ready \in Seq(Events) /\ ready # <<>> /\ ready' = Tail(ready) /\ Event = Head(ready)
  BY DEF TagsOK, GotEvent, Event
<1> QED BY <1>1, HeadTailProperties DEF GotEvent

(* An operation that is started draws the next tag, which is in range.     *)
LEMMA StartOpTags ==
  ASSUME TagsOK, NEW kind \in Kinds, StartOp(kind), UNCHANGED ready,
         LastWriteSeq' \in {LastWriteSeq, NextTag},
         LastReadSeq' \in {LastReadSeq, NextTag},
         bWriteAllowed' \in BOOLEAN, bReadAllowed' \in BOOLEAN
  PROVE  TagsOK'
<1>1. /\ OpSeq \in Nat /\ OpSeq' = OpSeq + 1 /\ NextTag = OpSeq'
  BY DEF TagsOK, StartOp, NextTag
<1>2. pending' \subseteq Operations
  BY <1>1 DEF TagsOK, StartOp, Tags, Operations
<1> QED BY <1>1, <1>2 DEF TagsOK

(* Calls of the callers keep the types of the flags.                       *)
LEMMA CallerControl ==
  ASSUME TypeOK, UNCHANGED clientVars, admitted' \subseteq Callers,
         reading' \in BOOLEAN, killed' \in BOOLEAN
  PROVE  ControlOK'
  BY ClientUnchanged DEF TypeOK, ControlOK

(* Steps that leave the flags alone but for the error to store.            *)
LEMMA FlagsKept ==
  ASSUME TypeOK, pc' \in Locations, errorStores' \subseteq ErrorFlags,
         UNCHANGED <<bIsRunning, bHasError, ErrorMessage, cqShutdown, expired,
                     call, admitted, reading, killed>>
  PROVE  ControlOK'
  BY DEF TypeOK, ControlOK

(* Each step keeps the types of the program counter and of the flags.      *)
LEMMA ControlOKStep == ASSUME TypeOK, [Next]_vars PROVE ControlOK'
<1> USE DEF TypeOK, ControlOK, Locations, ErrorFlags, flagVars, exitVars,
            cqVars, wireVars, apiVars
<1>1. CASE Login
  <2>1. pc' \in Locations /\ errorStores' \in {errorStores, ErrorFlags}
    BY ONLY <1>1 DEF Login, BeginSetError, Locations
  <2>2. UNCHANGED <<bIsRunning, bHasError, ErrorMessage, cqShutdown, expired,
                    call, admitted, reading, killed>>
    BY ONLY <1>1 DEF Login, cqVars, exitVars, wireVars, apiVars
  <2>3. errorStores' \subseteq ErrorFlags BY <2>1
  <2> QED BY <2>1, <2>2, <2>3, FlagsKept
<1>2. CASE OpenStream BY <1>2 DEF OpenStream
<1>3. CASE AwaitOpen BY <1>3 DEF AwaitOpen, OpenFailed
<1>4. CASE Configure BY <1>4 DEF Configure
<1>5. CASE AwaitConfig
  <2>1. pc' \in Locations /\ errorStores' \in {errorStores, ErrorFlags}
    BY ONLY <1>5 DEF AwaitConfig, BeginSetError, Locations
  <2>2. UNCHANGED <<bIsRunning, bHasError, ErrorMessage, cqShutdown, expired,
                    call, admitted, reading, killed>>
    BY ONLY <1>5 DEF AwaitConfig, exitVars, wireVars, apiVars
  <2>3. errorStores' \subseteq ErrorFlags BY <2>1
  <2> QED BY <2>1, <2>2, <2>3, FlagsKept
<1>6. ASSUME NEW flag \in ErrorFlags, StoreErrorFlag(flag) PROVE ControlOK'
  BY <1>6 DEF StoreErrorFlag
<1>7. CASE StoreErrorMessage BY <1>7 DEF StoreErrorMessage
<1>8. CASE CheckLoop BY <1>8 DEF CheckLoop
<1>9. CASE TryWrite BY <1>9 DEF TryWrite
<1>10. CASE TryRead BY <1>10 DEF TryRead
<1>11. CASE PollEvent
  <2>1. pc' \in Locations /\ errorStores' \in {errorStores, ErrorFlags}
    BY ONLY <1>11 DEF PollEvent, BeginSetError, Locations
  <2>2. UNCHANGED <<bIsRunning, bHasError, ErrorMessage, cqShutdown, expired,
                    call, admitted, reading, killed>>
    BY ONLY <1>11 DEF PollEvent, exitVars, wireVars
  <2>3. errorStores' \subseteq ErrorFlags BY <2>1
  <2> QED BY <2>1, <2>2, <2>3, FlagsKept
<1>12. CASE PollTimeout BY <1>12 DEF PollTimeout
<1>13. CASE BeginExit BY <1>13 DEF BeginExit
<1>14. CASE Drain BY <1>14 DEF Drain
<1>15. CASE DrainWait BY <1>15 DEF DrainWait
<1>16. CASE Finish BY <1>16 DEF Finish
<1>17. CASE FinishWait BY <1>17 DEF FinishWait, IsFinishTag
<1>18. CASE ShutdownQueue BY <1>18 DEF ShutdownQueue
<1>19. CASE DrainQueue BY <1>19 DEF DrainQueue
<1>20. ASSUME NEW caller \in Callers, WriteCheck(caller) \/ WriteEnqueue(caller)
       PROVE  ControlOK'
  <2>1. /\ UNCHANGED <<clientVars, reading, killed>>
        /\ admitted' \subseteq Callers
    BY <1>20 DEF WriteCheck, WriteEnqueue
  <2> QED BY <2>1, CallerControl
<1>21. CASE ReadCheck \/ ReadDequeue
  <2>1. UNCHANGED <<clientVars, admitted, killed>> /\ reading' \in BOOLEAN
    BY <1>21 DEF ReadCheck, ReadDequeue
  <2> QED BY <2>1, CallerControl
<1>22. ASSUME NEW count \in 1..MaxFakes, WLUSync(count) PROVE ControlOK'
  BY <1>22, CallerControl DEF WLUSync
<1>23. CASE WLUEnqueue BY <1>23, CallerControl DEF WLUEnqueue
<1>24. CASE Stop
  <2>1. /\ bIsRunning' \in BOOLEAN /\ killed' \in BOOLEAN
        /\ UNCHANGED <<pc, bHasError, ErrorMessage, errorStores, cqShutdown,
                        expired, call, admitted, reading>>
    BY ONLY <1>24 DEF Stop, cqVars, exitVars, wireVars
  <2> QED BY <2>1
<1>25. ASSUME NEW op \in pending, NEW ok \in BOOLEAN, Complete(op, ok)
       PROVE  ControlOK'
  BY <1>25 DEF Complete
<1>26. CASE ServerSends
  <2>1. UNCHANGED <<pc, flagVars, exitVars, call, apiVars>> BY <1>26 DEF ServerSends
  <2> QED BY <2>1
<1>29. CASE CallEnds
  <2>1. UNCHANGED <<pc, flagVars, exitVars, apiVars>> /\ call' = "dead"
    BY <1>29 DEF CallEnds
  <2> QED BY <2>1
<1>27. CASE DeadlinePasses BY <1>27 DEF DeadlinePasses
<1>28. CASE UNCHANGED vars BY <1>28, CallerControl DEF vars
<1> QED
  BY <1>1, <1>2, <1>3, <1>4, <1>5, <1>6, <1>7, <1>8, <1>9, <1>10, <1>11,
     <1>12, <1>13, <1>14, <1>15, <1>16, <1>17, <1>18, <1>19, <1>20, <1>21,
     <1>22, <1>23, <1>24, <1>25, <1>26, <1>27, <1>28, <1>29
     DEF Next, ThreadStep, CallerStep, CompleteOp, CompleteKind, Joined

(* Each step keeps the tags, and the operations that carry them, in        *)
(* range.                                                                  *)
LEMMA TagsOKStep == ASSUME TypeOK, [Next]_vars PROVE TagsOK'
<1> USE DEF TypeOK, permVars, opVars, cqVars, clientVars
<1>1. CASE OpenStream
  BY <1>1, StartOpTags DEF OpenStream, TagsOK, Kinds
<1>2. CASE Configure
  BY <1>2, StartOpTags DEF Configure, StreamWrite, TagsOK, Kinds
<1>3. CASE TryWrite
  BY <1>3, StartOpTags DEF TryWrite, StreamWrite, NoOp, TagsOK, Kinds
<1>4. CASE TryRead \/ Drain
  BY <1>4, StartOpTags DEF TryRead, Drain, StreamRead, NoOp, TagsOK, Kinds
<1>5. CASE Finish
  BY <1>5, StartOpTags DEF Finish, TagsOK, Kinds
<1>6. CASE AwaitOpen \/ FinishWait
  BY <1>6, EventTyped DEF AwaitOpen, FinishWait, TimedOut, TagsOK
<1>7. CASE AwaitConfig \/ PollEvent \/ DrainWait
  BY <1>7, EventTyped DEF AwaitConfig, PollEvent, DrainWait, TimedOut,
     HandleTag, IsWriteTag, IsReadTag, TagsOK
<1>8. CASE DrainQueue
  BY <1>8, EventTyped DEF DrainQueue, QueueDrained, TimedOut, TagsOK
<1>9. ASSUME NEW op \in pending, NEW ok \in BOOLEAN, Complete(op, ok)
      PROVE  TagsOK'
  <2>1. /\ op \in Operations /\ pending' \subseteq Operations
        /\ ready' = Append(ready, [kind |-> op.kind, tag |-> op.tag, ok |-> ok])
    BY <1>9 DEF Complete, TagsOK
  <2>2. [kind |-> op.kind, tag |-> op.tag, ok |-> ok] \in Events
    BY <2>1 DEF Operations, Events
  <2>3. ready' \in Seq(Events)
    BY <2>1, <2>2, AppendProperties DEF TagsOK
  <2> QED BY <1>9, <2>1, <2>3 DEF Complete, TagsOK
<1>10. CASE UNCHANGED <<opVars, pending, ready>> BY <1>10 DEF TagsOK
<1> QED
  BY <1>1, <1>2, <1>3, <1>4, <1>5, <1>6, <1>7, <1>8, <1>9, <1>10
     DEF Next, ThreadStep, CallerStep, CompleteOp, CompleteKind, Joined, vars,
         clientVars, Login, StoreErrorFlag, StoreErrorMessage, CheckLoop, PollTimeout,
         BeginExit, ShutdownQueue, WriteCheck, WriteEnqueue, ReadCheck,
         ReadDequeue, WLUSync, WLUEnqueue, Stop, ServerSends, CallEnds,
         DeadlinePasses

(* Each step keeps the types of the queues and of what is counted of       *)
(* them.                                                                   *)
LEMMA RelayOKStep == ASSUME ClientAssumption, TypeOK, [Next]_vars PROVE RelayOK'
<1> USE DEF TypeOK, RelayOK, wireVars, queueVars, apiVars
<1>1. CASE OpenStream \/ Finish \/ BeginExit BY <1>1 DEF OpenStream, Finish, BeginExit
<1>2. CASE Configure BY <1>2 DEF Configure, StreamWrite, Config
<1>3. CASE TryWrite
  <2>1. CASE CanWrite /\ RequestQueue # <<>>
    <3>1. /\ RequestQueue' = Tail(RequestQueue)
          /\ written' = Append(written, Head(RequestQueue))
      BY <1>3, <2>1 DEF TryWrite, StreamWrite
    <3>2. RequestQueue' \in Seq(Nat) /\ written' \in Seq(Nat)
      BY <2>1, <3>1, HeadTailProperties, AppendProperties
    <3> QED BY <1>3, <3>2 DEF TryWrite
  <2> QED BY <1>3, <2>1 DEF TryWrite, NoOp
<1>4. CASE TryRead \/ Drain
  BY <1>4 DEF TryRead, Drain, StreamRead, NoOp
<1>5. CASE PollEvent
  <2>1. CASE Relays(Event)
    <3>1. /\ ResponseQueue' = Append(ResponseQueue, [src |-> "slu", n |-> received])
          /\ made' = [made EXCEPT !["slu"] = @ + 1]
      BY <1>5, <2>1 DEF PollEvent
    <3>2. [src |-> "slu", n |-> received] \in Responses
      BY DEF Responses, Sources
    <3>3. ResponseQueue' \in Seq(Responses)
      BY <3>1, <3>2, AppendProperties
    <3>4. made' \in [Sources -> Nat] BY <3>1 DEF Sources
    <3>5. UNCHANGED <<written, RequestQueue, wireVars, fakes, accepted, taken>>
      BY <1>5 DEF PollEvent
    <3> QED BY <3>3, <3>4, <3>5
  <2> QED BY <1>5, <2>1 DEF PollEvent
<1>6. ASSUME NEW caller \in Callers, WriteCheck(caller) \/ WriteEnqueue(caller)
       PROVE  RelayOK'
  <2>1. RequestQueue' \in Seq(Nat) /\ accepted' \in Nat
    <3>1. CASE WriteEnqueue(caller)
      BY <3>1, AppendProperties DEF WriteEnqueue
    <3> QED BY <1>6, <3>1 DEF WriteCheck
  <2> QED BY <1>6, <2>1, ClientUnchanged DEF WriteCheck, WriteEnqueue
<1>7. CASE ReadDequeue
  <2>1. CASE ResponseQueue # <<>>
    <3>1. /\ Head(ResponseQueue) \in Responses
          /\ Tail(ResponseQueue) \in Seq(Responses)
      BY <2>1, HeadTailProperties
    <3> QED BY <1>7, <2>1, <3>1, ClientUnchanged DEF ReadDequeue, Responses
  <2> QED BY <1>7, <2>1, ClientUnchanged DEF ReadDequeue
<1>8. ASSUME NEW count \in 1..MaxFakes, WLUSync(count) PROVE RelayOK'
  BY <1>8, ClientUnchanged DEF WLUSync, ClientAssumption
<1>9. CASE WLUEnqueue
  <2>1. [src |-> "wlu", n |-> made["wlu"] + 1] \in Responses
    BY DEF Responses, Sources
  <2>2. ResponseQueue' \in Seq(Responses)
    BY <1>9, <2>1, AppendProperties DEF WLUEnqueue
  <2>3. made' \in [Sources -> Nat] /\ fakes' \in Nat
    BY <1>9 DEF WLUEnqueue, Sources
  <2>4. UNCHANGED <<clientVars, RequestQueue, accepted, taken>>
    BY <1>9 DEF WLUEnqueue
  <2> QED BY <2>2, <2>3, <2>4, ClientUnchanged
<1>10. ASSUME NEW op \in pending, NEW ok \in BOOLEAN, Complete(op, ok)
       PROVE  RelayOK'
  BY <1>10 DEF Complete
<1>11. CASE ServerSends BY <1>11 DEF ServerSends
<1>12. CASE UNCHANGED <<written, unread, received, queueVars, fakes, accepted,
                        made, taken>>
  BY <1>12
<1> QED
  BY <1>1, <1>2, <1>3, <1>4, <1>5, <1>6, <1>7, <1>8, <1>9, <1>10, <1>11, <1>12
     DEF Next, ThreadStep, CallerStep, CompleteOp, CompleteKind, Joined, vars,
         clientVars, Login, AwaitOpen, AwaitConfig, StoreErrorFlag, StoreErrorMessage,
         CheckLoop, PollTimeout, DrainWait, FinishWait, ShutdownQueue,
         DrainQueue, ReadCheck, Stop, CallEnds, DeadlinePasses

(* Every variable keeps its type; no tag in use is 0, the initial value    *)
(* of LastWriteSeq and LastReadSeq.                                        *)
THEOREM TypeCorrect == ASSUME ClientAssumption PROVE Spec => []TypeOK
<1>1. Init => TypeOK BY InitTypeOK
<1>2. TypeOK /\ [Next]_vars => TypeOK'
  BY ControlOKStep, TagsOKStep, RelayOKStep DEF TypeOK
<1> QED BY <1>1, <1>2, PTL DEF Spec

-----------------------------------------------------------------------------
(* The stream's operations.                                                *)

OpOf(event) == [kind |-> event.kind, tag |-> event.tag]

(* What is outstanding are operations.                                     *)
LEMMA OutstandingTyped == ASSUME TagsOK PROVE Outstanding \subseteq Operations
<1>1. \A i \in DOMAIN ready : ready[i] \in Events BY DEF TagsOK
<1> QED BY <1>1 DEF Outstanding, Operations, Events, TagsOK

(* The event at hand is of an operation that was outstanding, and of no    *)
(* other.                                                                  *)
LEMMA EventOutstanding ==
  ASSUME TagsOK, DistinctTags, GotEvent
  PROVE  /\ OpOf(Event) \in Outstanding
         /\ Outstanding' \subseteq Outstanding
         /\ \A op \in Outstanding' : op.tag # Event.tag
<1>1. 1 \in DOMAIN ready /\ Event = ready[1]
  BY EventTyped DEF Event, TagsOK
<1>2. OpOf(Event) \in Outstanding BY <1>1 DEF Outstanding, OpOf
<1>3. ASSUME NEW op \in Outstanding'
      PROVE  op \in Outstanding /\ op.tag # Event.tag
  <2>1. CASE op \in pending
    BY <1>1, <2>1 DEF Outstanding, DistinctTags
  <2>2. CASE op \notin pending
    <3>1. PICK i \in DOMAIN ready' :
             op = [kind |-> ready'[i].kind, tag |-> ready'[i].tag]
      BY <1>3, <2>2, EventTyped DEF Outstanding
    <3>2. i + 1 \in DOMAIN ready /\ ready'[i] = ready[i + 1] /\ i + 1 # 1
      BY <3>1, EventTyped
    <3> QED BY <1>1, <3>1, <3>2 DEF Outstanding, DistinctTags
  <2> QED BY <2>1, <2>2
<1> QED BY <1>2, <1>3

(* Removing an event preserves the invariant if what else is outstanding   *)
(* stays in its place.                                                     *)
LEMMA GotEventStream ==
  ASSUME TagsOK, StreamInv, GotEvent, UNCHANGED <<LastWriteSeq, LastReadSeq>>,
         \A op \in InPlace : op.tag # Event.tag => op \in InPlace'
  PROVE  StreamInv'
<1>1. OpStates' BY EventOutstanding DEF StreamInv, OpStates
<1>2. DistinctTags'
  <2>1. \A i, j \in DOMAIN ready' : ready'[i].tag = ready'[j].tag => i = j
    <3>1. SUFFICES ASSUME NEW i \in DOMAIN ready', NEW j \in DOMAIN ready',
                          ready'[i].tag = ready'[j].tag
                   PROVE  i = j
      OBVIOUS
    <3>2. i \in Int /\ j \in Int /\ i + 1 = j + 1
      BY <3>1, EventTyped DEF StreamInv, DistinctTags
    <3> QED BY <3>2
  <2> QED BY <2>1, EventTyped DEF StreamInv, DistinctTags
<1> QED BY <1>1, <1>2 DEF StreamInv

(* A new operation preserves it if it and the others are in their places.  *)
LEMMA StartOpStream ==
  ASSUME TagsOK, StreamInv, NEW kind \in Kinds, StartOp(kind), UNCHANGED ready,
         [kind |-> kind, tag |-> NextTag] \in InPlace',
         InPlace \subseteq InPlace',
         LastWriteSeq' = LastReadSeq' => LastWriteSeq' = 0
  PROVE  StreamInv'
<1>1. /\ pending' = pending \union {[kind |-> kind, tag |-> NextTag]}
      /\ OpSeq \in Nat /\ NextTag = OpSeq + 1
  BY DEF StartOp, NextTag, TagsOK
<1>2. \A op \in Outstanding : op.tag \in Nat /\ op.tag <= OpSeq
  BY DEF StreamInv, OpStates, InPlace, Operations, Tags
<1>3. /\ \A op \in pending : op.tag \in Nat /\ op.tag <= OpSeq
      /\ \A i \in DOMAIN ready : ready[i].tag \in Nat /\ ready[i].tag <= OpSeq
  <2>1. \A i \in DOMAIN ready : OpOf(ready[i]) \in Outstanding
    BY DEF Outstanding, OpOf
  <2> QED BY <1>2, <2>1 DEF Outstanding, OpOf
<1>4. OpStates'
  BY <1>1 DEF StreamInv, OpStates, Outstanding
<1>5. DistinctTags'
  <2>1. \A a, b \in pending' : a.tag = b.tag => a = b
    BY <1>1, <1>3 DEF StreamInv, DistinctTags
  <2>2. \A i \in DOMAIN ready', op \in pending' : op.tag # ready'[i].tag
    BY <1>1, <1>3 DEF StreamInv, DistinctTags
  <2> QED BY <2>1, <2>2 DEF StreamInv, DistinctTags
<1> QED BY <1>4, <1>5 DEF StreamInv

(* Steps that leave the operations and the tags alone keep StreamInv.      *)
LEMMA FrameStream ==
  ASSUME StreamInv, UNCHANGED <<pending, ready, LastWriteSeq, LastReadSeq>>,
         InPlace \subseteq InPlace'
  PROVE  StreamInv'
  BY DEF StreamInv, OpStates, Outstanding, DistinctTags

(* gRPC completing an operation moves it from pending to ready.            *)
LEMMA CompleteStream ==
  ASSUME TypeOK, StreamInv, NEW op \in pending, NEW ok \in BOOLEAN,
         Complete(op, ok)
  PROVE  StreamInv'
<1>1. /\ op \in Operations /\ ready \in Seq(Events)
      /\ pending' = pending \ {op}
      /\ ready' = Append(ready, [kind |-> op.kind, tag |-> op.tag, ok |-> ok])
      /\ UNCHANGED <<pc, OpSeq, LastWriteSeq, LastReadSeq, bWriteAllowed,
                      bReadAllowed>>
  BY DEF Complete, TypeOK, TagsOK, opVars, permVars
<1>2. /\ DOMAIN ready' = DOMAIN ready \union {Len(ready) + 1}
      /\ \A i \in DOMAIN ready : ready'[i] = ready[i]
      /\ ready'[Len(ready) + 1] = [kind |-> op.kind, tag |-> op.tag, ok |-> ok]
      /\ Len(ready) + 1 \notin DOMAIN ready
  BY <1>1, AppendProperties
<1>3. [kind |-> op.kind, tag |-> op.tag] = op BY <1>1 DEF Operations
<1>4. Outstanding' \subseteq Outstanding
  BY <1>1, <1>2, <1>3 DEF Outstanding
<1>5. InPlace' = InPlace BY <1>1 DEF InPlace
<1>6. DistinctTags'
  BY <1>1, <1>2 DEF StreamInv, DistinctTags
<1> QED BY <1>4, <1>5, <1>6 DEF StreamInv, OpStates

(* Each step keeps StreamInv.                                              *)
LEMMA StreamStep == ASSUME TypeOK, StreamInv, [Next]_vars PROVE StreamInv'
<1> USE DEF TypeOK
<1>1. CASE OpenStream
  <2>1. /\ pc = "open" /\ pc' = "open_wait" /\ StartOp("open") /\ UNCHANGED ready
        /\ UNCHANGED <<LastWriteSeq, LastReadSeq>>
        /\ OpSeq \in Nat /\ OpSeq' = OpSeq + 1
    BY <1>1 DEF OpenStream, StartOp, TagsOK
  <2>2. InPlace = {} BY <2>1 DEF InPlace
  <2>3. [kind |-> "open", tag |-> NextTag] \in InPlace'
    BY <2>1 DEF InPlace, Operations, Kinds, Tags, NextTag
  <2> QED BY <2>1, <2>2, <2>3, StartOpStream DEF Kinds, StreamInv, DistinctTags
<1>2. CASE AwaitOpen
  <2>1. /\ pc = "open_wait" /\ GotEvent /\ pc' \in {"exit", "configure"}
        /\ UNCHANGED <<OpSeq, LastWriteSeq, LastReadSeq, bWriteAllowed, bReadAllowed>>
    BY <1>2 DEF AwaitOpen, opVars, permVars
  <2>2. \A op \in InPlace : op.tag = OpSeq BY <2>1 DEF InPlace
  <2>3. Event.tag = OpSeq
    BY <2>1, <2>2, EventOutstanding DEF StreamInv, OpStates, OpOf
  <2> QED BY <2>1, <2>2, <2>3, GotEventStream
<1>3. CASE Configure
  <2>1. /\ pc = "configure" /\ pc' = "config_wait" /\ StartOp("write")
        /\ UNCHANGED <<ready, LastReadSeq>> /\ bWriteAllowed' = FALSE
        /\ LastWriteSeq' = OpSeq + 1 /\ OpSeq' = OpSeq + 1 /\ NextTag = OpSeq + 1
        /\ OpSeq \in Nat /\ LastReadSeq \in 0..OpSeq
    BY <1>3 DEF Configure, StreamWrite, StartOp, NextTag, TagsOK
  <2>2. InPlace = {} BY <2>1 DEF InPlace
  <2>3. [kind |-> "write", tag |-> NextTag] \in InPlace'
    BY <2>1 DEF InPlace, Operations, Kinds, Tags
  <2> QED BY <2>1, <2>2, <2>3, StartOpStream DEF Kinds
<1>4. CASE TryWrite
  <2>1. CASE CanWrite /\ RequestQueue # <<>>
    <3>1. /\ pc = "try_write" /\ pc' = "try_read" /\ StartOp("write")
          /\ UNCHANGED <<ready, LastReadSeq, bReadAllowed>>
          /\ bWriteAllowed = TRUE /\ bWriteAllowed' = FALSE
          /\ LastWriteSeq' = OpSeq + 1 /\ OpSeq' = OpSeq + 1 /\ NextTag = OpSeq + 1
          /\ OpSeq \in Nat /\ LastReadSeq \in 0..OpSeq
      BY <1>4, <2>1 DEF TryWrite, CanWrite, StreamWrite, StartOp, NextTag, TagsOK
    <3>2. InPlace \subseteq InPlace'
      BY <3>1 DEF InPlace, Operations, Kinds, Tags
    <3>3. [kind |-> "write", tag |-> NextTag] \in InPlace'
      BY <3>1 DEF InPlace, Operations, Kinds, Tags
    <3> QED BY <3>1, <3>2, <3>3, StartOpStream DEF Kinds
  <2>2. CASE ~(CanWrite /\ RequestQueue # <<>>)
    BY <1>4, <2>2, FrameStream DEF TryWrite, NoOp, InPlace, opVars, permVars
  <2> QED BY <2>1, <2>2
<1>5. CASE TryRead \/ Drain
  <2>1. CASE CanRead
    <3>1. /\ pc \in {"try_read", "drain"} /\ pc' \in {"poll", "drain_wait"}
          /\ StartOp("read") /\ UNCHANGED <<ready, LastWriteSeq, bWriteAllowed>>
          /\ bReadAllowed = TRUE /\ bReadAllowed' = FALSE
          /\ LastReadSeq' = OpSeq + 1 /\ OpSeq' = OpSeq + 1 /\ NextTag = OpSeq + 1
          /\ OpSeq \in Nat /\ LastWriteSeq \in 0..OpSeq
      BY <1>5, <2>1 DEF TryRead, Drain, CanRead, StreamRead, StartOp, NextTag, TagsOK
    <3>2. InPlace \subseteq InPlace'
      BY <3>1 DEF InPlace, Operations, Kinds, Tags
    <3>3. [kind |-> "read", tag |-> NextTag] \in InPlace'
      BY <3>1 DEF InPlace, Operations, Kinds, Tags
    <3> QED BY <3>1, <3>2, <3>3, StartOpStream DEF Kinds
  <2>2. CASE ~CanRead
    BY <1>5, <2>2, FrameStream
       DEF TryRead, Drain, NoOp, InPlace, opVars, permVars
  <2> QED BY <2>1, <2>2
<1>6. CASE AwaitConfig \/ PollEvent \/ DrainWait
  <2>1. CASE GotEvent /\ HandleTag(Event.tag)
    <3>1. /\ pc \in {"config_wait", "poll", "drain_wait"}
          /\ pc' \in {"loop", "set_error", "drain", "finish"}
      BY <1>6, <2>1 DEF AwaitConfig, PollEvent, DrainWait, BeginSetError
    <3>2. \A op \in InPlace : op.tag # Event.tag => op \in InPlace'
      BY <2>1, <3>1 DEF HandleTag, IsWriteTag, IsReadTag, InPlace
    <3> QED BY <2>1, <3>2, GotEventStream DEF HandleTag
  <2>2. CASE ~(GotEvent /\ HandleTag(Event.tag))
    <3>1. /\ pc = "drain_wait" /\ pc' = "finish"
          /\ UNCHANGED <<ready, pending, OpSeq, LastWriteSeq, LastReadSeq,
                          bWriteAllowed, bReadAllowed>>
      BY <1>6, <2>2 DEF AwaitConfig, PollEvent, DrainWait, TimedOut, opVars,
         permVars
    <3> QED BY <3>1, FrameStream DEF InPlace
  <2> QED BY <2>1, <2>2
<1>7. CASE Finish
  <2>1. /\ pc = "finish" /\ pc' = "finish_wait" /\ StartOp("finish")
        /\ UNCHANGED <<ready, LastWriteSeq, LastReadSeq, bWriteAllowed, bReadAllowed>>
        /\ OpSeq \in Nat /\ OpSeq' = OpSeq + 1 /\ NextTag = OpSeq + 1
    BY <1>7 DEF Finish, StartOp, NextTag, TagsOK, permVars
  <2>2. InPlace \subseteq InPlace'
    BY <2>1 DEF InPlace, Operations, Kinds, Tags
  <2>3. [kind |-> "finish", tag |-> NextTag] \in InPlace'
    BY <2>1 DEF InPlace, Operations, Kinds, Tags
  <2> QED BY <2>1, <2>2, <2>3, StartOpStream DEF Kinds, StreamInv, DistinctTags
<1>8. CASE FinishWait \/ DrainQueue
  <2>1. /\ pc \in {"finish_wait", "cq_drain"}
        /\ pc' \in {"finish_wait", "cq_drain", "shutdown", "ended"}
        /\ UNCHANGED <<OpSeq, LastWriteSeq, LastReadSeq, bWriteAllowed, bReadAllowed>>
    BY <1>8 DEF FinishWait, DrainQueue, opVars, permVars
  <2>2. InPlace \subseteq InPlace' BY <2>1 DEF InPlace
  <2>3. CASE GotEvent BY <2>1, <2>2, <2>3, GotEventStream
  <2>4. CASE UNCHANGED <<ready, pending>> BY <2>1, <2>2, <2>4, FrameStream
  <2> QED BY <1>8, <2>3, <2>4 DEF FinishWait, DrainQueue, QueueDrained, TimedOut
<1>9. CASE Login \/ StoreErrorMessage \/ CheckLoop \/ PollTimeout
           \/ BeginExit \/ ShutdownQueue
  <2>1. /\ UNCHANGED <<pending, ready, OpSeq, LastWriteSeq, LastReadSeq,
                        bWriteAllowed, bReadAllowed>>
        /\ pc \notin {"config_wait", "open_wait", "finish_wait", "cq_drain", "ended"}
        /\ pc' \notin {"configure", "config_wait", "open_wait"}
        /\ pc = "shutdown" => pc' = "cq_drain"
        /\ pc' \in {"login", "open"} => pc = "login"
    BY <1>9 DEF Login, StoreErrorMessage, CheckLoop, PollTimeout, BeginExit,
       ShutdownQueue, BeginSetError, opVars, permVars, cqVars
  <2>2. InPlace \subseteq InPlace' BY <2>1 DEF InPlace
  <2> QED BY <2>1, <2>2, FrameStream
<1>10. ASSUME NEW op \in pending, NEW ok \in BOOLEAN, Complete(op, ok)
       PROVE  StreamInv'
  BY <1>10, CompleteStream
<1>11. CASE UNCHANGED <<pc, opVars, pending, ready>>
  BY <1>11, FrameStream DEF InPlace, opVars, permVars
<1> QED
  BY <1>1, <1>2, <1>3, <1>4, <1>5, <1>6, <1>7, <1>8, <1>9, <1>10, <1>11
     DEF Next, ThreadStep, CallerStep, CompleteOp, CompleteKind, Joined, vars,
         clientVars, cqVars, StoreErrorFlag, WriteCheck, WriteEnqueue,
         ReadCheck, ReadDequeue, WLUSync, WLUEnqueue, Stop, ServerSends,
         CallEnds, DeadlinePasses

(* Nothing is outstanding in the beginning.                                *)
LEMMA InitStream == ASSUME Init PROVE StreamInv
  BY DEF Init, StreamInv, OpStates, Outstanding, DistinctTags

(* StreamInv is strong enough: an operation's kind determines it, and the  *)
(* loop knows it.                                                          *)
LEMMA StreamSafe ==
  ASSUME TypeOK, StreamInv PROVE OneOpPerDirection /\ NoUnknownTag
<1>1. OneOpPerDirection
  <2>1. SUFFICES ASSUME NEW a \in Outstanding, NEW b \in Outstanding,
                        a.kind = b.kind
                 PROVE  a = b
    BY DEF OneOpPerDirection
  <2>2. a \in InPlace /\ b \in InPlace BY DEF StreamInv, OpStates
  <2>3. a.tag = b.tag BY <2>1, <2>2 DEF InPlace, Operations, Kinds
  <2> QED BY <2>1, <2>2, <2>3 DEF InPlace, Operations
<1>2. NoUnknownTag
  <2>1. SUFFICES ASSUME pc \in {"loop", "try_write", "try_read", "poll"},
                        NEW op \in Outstanding
                 PROVE  \/ op.kind = "write" /\ IsWriteTag(op.tag)
                        \/ op.kind = "read" /\ IsReadTag(op.tag)
    BY DEF NoUnknownTag
  <2>2. /\ op \in InPlace /\ op.tag # 0
        /\ LastWriteSeq = LastReadSeq => LastWriteSeq = 0
    BY DEF StreamInv, OpStates, DistinctTags, InPlace, Operations, Tags
  <2> QED BY <2>1, <2>2 DEF InPlace, Operations, Kinds, IsWriteTag, IsReadTag
<1> QED BY <1>1, <1>2

(* The client keeps gRPC's contract: never two reads or two writes at a    *)
(* time on the stream (StreamWrite, StreamRead, HandleTag).                *)
THEOREM OneOpAtATime ==
  ASSUME ClientAssumption PROVE Spec => []OneOpPerDirection
<1>1. Init => TypeOK /\ StreamInv BY InitTypeOK, InitStream
<1>2. TypeOK /\ StreamInv /\ [Next]_vars => (TypeOK /\ StreamInv)'
  BY ControlOKStep, TagsOKStep, RelayOKStep, StreamStep DEF TypeOK
<1>3. TypeOK /\ StreamInv => OneOpPerDirection BY StreamSafe
<1> QED BY <1>1, <1>2, <1>3, PTL DEF Spec

(* Run's branch for an unknown tag is dead code.                           *)
THEOREM TagsAreKnown ==
  ASSUME ClientAssumption PROVE Spec => []NoUnknownTag
<1>1. Init => TypeOK /\ StreamInv BY InitTypeOK, InitStream
<1>2. TypeOK /\ StreamInv /\ [Next]_vars => (TypeOK /\ StreamInv)'
  BY ControlOKStep, TagsOKStep, RelayOKStep, StreamStep DEF TypeOK
<1>3. TypeOK /\ StreamInv => NoUnknownTag BY StreamSafe
<1> QED BY <1>1, <1>2, <1>3, PTL DEF Spec

-----------------------------------------------------------------------------
(* What the thread waits for.                                              *)

WaitInv == PermissionsExact /\ NoIdleWait

(* A kind is held while gRPC has an operation of it, completed or not;     *)
(* only the set of kinds held matters to WaitInv.                          *)
LEMMA HoldsStarted ==
  ASSUME NEW kind \in Kinds, StartOp(kind), UNCHANGED ready, NEW k
  PROVE  Holds(k)' <=> Holds(k) \/ k = kind
<1> DEFINE op == [kind |-> kind, tag |-> NextTag]
<1>1. pending' = pending \union {op} BY DEF StartOp
<1>2. Outstanding' = Outstanding \union {op} BY <1>1 DEF Outstanding
<1>3. op.kind = kind OBVIOUS
<1> HIDE DEF op
<1> QED BY ONLY <1>2, <1>3 DEF Holds

(* Taking an event ends its kind: there was one operation of it.           *)
LEMMA HoldsTaken ==
  ASSUME TypeOK, StreamInv, GotEvent, NEW k
  PROVE  Holds(k)' <=> Holds(k) /\ k # Event.kind
<1> USE DEF TypeOK, StreamInv
<1>1. /\ OpOf(Event) \in Outstanding
      /\ Outstanding' \subseteq Outstanding
      /\ \A op \in Outstanding' : op.tag # Event.tag
  BY EventOutstanding
<1>2. \A op \in Outstanding : op.kind = Event.kind => op = OpOf(Event)
  BY <1>1, StreamSafe DEF OneOpPerDirection, OpOf
<1>3. ASSUME NEW op \in Outstanding, op # OpOf(Event)
      PROVE  op \in Outstanding'
  <2>1. CASE op \in pending
    BY <2>1, EventTyped DEF Outstanding
  <2>2. CASE op \notin pending
    <3>1. PICK i \in DOMAIN ready : op = OpOf(ready[i])
      BY <1>3, <2>2 DEF Outstanding, OpOf
    <3>2. ready \in Seq(Events) /\ ready # <<>> /\ ready' = Tail(ready)
          /\ Event = ready[1]
      BY HeadTailProperties DEF TagsOK, GotEvent, Event
    <3>3. i # 1 BY <1>3, <3>1, <3>2
    <3>4. i - 1 \in DOMAIN ready' /\ ready'[i - 1] = ready[i]
      BY <3>2, <3>3, HeadTailProperties
    <3>5. OpOf(ready'[i - 1]) \in Outstanding' BY <3>4 DEF Outstanding, OpOf
    <3> QED BY <3>1, <3>4, <3>5
  <2> QED BY <2>1, <2>2
<1>4. OpOf(Event).kind = Event.kind /\ OpOf(Event).tag = Event.tag BY DEF OpOf
<1> QED BY <1>1, <1>2, <1>3, <1>4 DEF Holds

(* HandleTag frees the direction of the event at hand, and that one only.  *)
LEMMA HandleTagFrees ==
  ASSUME TypeOK, StreamInv, GotEvent, HandleTag(Event.tag),
         pc \in {"config_wait", "poll", "drain_wait"}
  PROVE  /\ bWriteAllowed' <=> bWriteAllowed \/ Event.kind = "write"
         /\ bReadAllowed' <=> bReadAllowed \/ Event.kind = "read"
         /\ Event.kind \in {"write", "read"}
         /\ bWriteAllowed' \in BOOLEAN /\ bReadAllowed' \in BOOLEAN
<1> USE DEF TypeOK, StreamInv
<1>1. OpOf(Event) \in InPlace BY EventOutstanding DEF OpStates
<1>2. /\ Event.kind \in {"write", "read"} /\ Event.tag # 0
      /\ Event.kind = "write" => Event.tag = LastWriteSeq
      /\ Event.kind = "read" => Event.tag = LastReadSeq
  BY <1>1 DEF InPlace, OpOf, Operations, Kinds, Tags
<1>3. LastWriteSeq = LastReadSeq => LastWriteSeq = 0 BY DEF DistinctTags
<1>4. /\ IsWriteTag(Event.tag) <=> Event.kind = "write"
      /\ IsReadTag(Event.tag) <=> Event.kind = "read"
  BY <1>2, <1>3 DEF IsWriteTag, IsReadTag
<1> QED BY <1>2, <1>4 DEF HandleTag, TagsOK

(* gRPC completing an operation keeps it outstanding.                      *)
LEMMA HoldsCompleted ==
  ASSUME TypeOK, NEW op \in pending, NEW ok \in BOOLEAN, Complete(op, ok)
  PROVE  UNCHANGED Outstanding
<1> DEFINE event == [kind |-> op.kind, tag |-> op.tag, ok |-> ok]
<1>1. /\ op \in Operations /\ ready \in Seq(Events)
      /\ pending' = pending \ {op} /\ ready' = Append(ready, event)
  BY DEF Complete, TypeOK, TagsOK
<1>2. event \in Events BY <1>1 DEF Operations, Events
<1>3. /\ DOMAIN ready' = DOMAIN ready \union {Len(ready) + 1}
      /\ \A i \in DOMAIN ready : ready'[i] = ready[i]
      /\ ready'[Len(ready) + 1] = event
      /\ Len(ready) + 1 \notin DOMAIN ready
  BY <1>1, <1>2, AppendProperties
<1>4. [kind |-> event.kind, tag |-> event.tag] = op BY <1>1 DEF Operations
<1> HIDE DEF event
<1>5. Outstanding' = (pending \ {op}) \union {op} \union
         {[kind |-> ready[i].kind, tag |-> ready[i].tag] : i \in DOMAIN ready}
  BY <1>1, <1>3, <1>4 DEF Outstanding
<1> QED BY <1>5 DEF Outstanding

(* Steps that leave the operations, the permissions and the place where    *)
(* the thread waits alone keep WaitInv.                                    *)
LEMMA FrameWait ==
  ASSUME WaitInv, UNCHANGED <<pc, bWriteAllowed, bReadAllowed, Outstanding>>
  PROVE  WaitInv'
  BY DEF WaitInv, PermissionsExact, NoIdleWait, Holds

(* Each step keeps WaitInv.                                                *)
LEMMA WaitStep ==
  ASSUME TypeOK, StreamInv, WaitInv, [Next]_vars PROVE WaitInv'
<1> USE DEF WaitInv, PermissionsExact, NoIdleWait
<1>0. bWriteAllowed \in BOOLEAN /\ bReadAllowed \in BOOLEAN
  BY DEF TypeOK, TagsOK
<1>1. CASE OpenStream
  <2>1. /\ pc = "open" /\ pc' = "open_wait" /\ StartOp("open") /\ UNCHANGED ready
        /\ UNCHANGED <<bWriteAllowed, bReadAllowed>>
    BY <1>1 DEF OpenStream, permVars
  <2> QED BY <2>1, HoldsStarted DEF Kinds
<1>2. CASE AwaitOpen
  <2>1. /\ pc = "open_wait" /\ pc' \in {"exit", "configure"} /\ GotEvent
        /\ UNCHANGED <<bWriteAllowed, bReadAllowed>>
    BY <1>2 DEF AwaitOpen, opVars, permVars
  <2>2. Event.kind = "open"
    <3>1. OpOf(Event) \in InPlace
      BY <2>1, EventOutstanding DEF TypeOK, StreamInv, OpStates
    <3> QED BY <2>1, <3>1 DEF InPlace, OpOf
  <2> QED BY <2>1, <2>2, HoldsTaken
<1>3. CASE Configure
  <2>1. /\ pc = "configure" /\ pc' = "config_wait" /\ StartOp("write")
        /\ UNCHANGED <<ready, bReadAllowed>> /\ bWriteAllowed' = FALSE
    BY <1>3 DEF Configure, StreamWrite
  <2> QED BY <2>1, HoldsStarted DEF Kinds
<1>4. CASE TryWrite
  <2>1. pc = "try_write" /\ pc' = "try_read" /\ UNCHANGED ready
    BY <1>4 DEF TryWrite
  <2>2. CASE CanWrite /\ RequestQueue # <<>>
    <3>1. StartOp("write") /\ bWriteAllowed' = FALSE /\ UNCHANGED bReadAllowed
      BY <1>4, <2>2 DEF TryWrite, StreamWrite
    <3> QED BY <2>1, <3>1, HoldsStarted DEF Kinds
  <2>3. CASE ~(CanWrite /\ RequestQueue # <<>>)
    <3>1. UNCHANGED <<pending, bWriteAllowed, bReadAllowed>>
      BY <1>4, <2>3 DEF TryWrite, NoOp, opVars, permVars
    <3> QED BY <2>1, <3>1 DEF Holds, Outstanding
  <2> QED BY <2>2, <2>3
<1>5. CASE TryRead \/ Drain
  <2>1. /\ pc \in {"try_read", "drain"} /\ pc' \in {"poll", "drain_wait"}
        /\ UNCHANGED ready
    BY <1>5 DEF TryRead, Drain
  <2>2. CASE CanRead
    <3>1. StartOp("read") /\ bReadAllowed' = FALSE /\ UNCHANGED bWriteAllowed
      BY <1>5, <2>2 DEF TryRead, Drain, StreamRead
    <3> QED BY <2>1, <3>1, HoldsStarted DEF Kinds
  <2>3. CASE ~CanRead
    <3>1. UNCHANGED <<pending, bWriteAllowed, bReadAllowed>> /\ ~bReadAllowed
      BY <1>5, <2>3 DEF TryRead, Drain, NoOp, CanRead, opVars, permVars
    <3> QED BY <2>1, <3>1 DEF Holds, Outstanding
  <2> QED BY <2>2, <2>3
<1>6. CASE AwaitConfig \/ PollEvent \/ DrainWait
  <2>1. /\ pc \in {"config_wait", "poll", "drain_wait"}
        /\ pc' \in {"loop", "set_error", "drain", "finish"}
    BY <1>6 DEF AwaitConfig, PollEvent, DrainWait, BeginSetError
  <2>2. CASE GotEvent /\ HandleTag(Event.tag)
    BY <1>0, <2>1, <2>2, HoldsTaken, HandleTagFrees
  <2>3. CASE ~(GotEvent /\ HandleTag(Event.tag))
    <3>1. UNCHANGED <<ready, pending, bWriteAllowed, bReadAllowed>>
      BY <1>6, <2>3 DEF AwaitConfig, PollEvent, DrainWait, TimedOut, opVars,
         permVars
    <3> QED BY <2>1, <3>1 DEF Holds, Outstanding
  <2> QED BY <2>2, <2>3
<1>7. CASE Finish
  <2>1. pc' = "finish_wait" /\ StartOp("finish") /\ UNCHANGED ready
    BY <1>7 DEF Finish
  <2> QED BY <2>1, HoldsStarted DEF Kinds
<1>8. CASE FinishWait
  <2>1. pc = "finish_wait" /\ pc' \in {"finish_wait", "shutdown"}
    BY <1>8 DEF FinishWait
  <2>2. CASE pc' = "finish_wait"
    <3>1. GotEvent /\ ~IsFinishTag(Event.tag) BY <1>8, <2>2 DEF FinishWait
    <3>2. OpOf(Event) \in InPlace
      BY <3>1, EventOutstanding DEF TypeOK, StreamInv, OpStates
    <3>3. Event.kind # "finish"
      BY <3>1, <3>2 DEF InPlace, OpOf, IsFinishTag
    <3> QED BY <2>1, <2>2, <3>1, <3>3, HoldsTaken
  <2> QED BY <2>1, <2>2
<1>9. CASE ShutdownQueue \/ DrainQueue
  <2>1. pc' \in {"cq_drain", "ended"}
    BY <1>9 DEF ShutdownQueue, DrainQueue
  <2> QED BY <2>1
<1>10. CASE Login \/ StoreErrorMessage \/ CheckLoop \/ PollTimeout \/ BeginExit
  <2>1. /\ UNCHANGED <<pending, ready, bWriteAllowed, bReadAllowed>>
        /\ pc \in {"login", "set_error", "loop", "poll", "exit"}
        /\ pc' \in {"open", "set_error", "ended", "exit", "try_write", "loop",
                    "drain"}
    BY <1>10 DEF Login, StoreErrorMessage, CheckLoop, PollTimeout, BeginExit,
       BeginSetError, opVars, permVars, cqVars
  <2> QED BY <2>1 DEF Holds, Outstanding
<1>11. ASSUME NEW op \in pending, NEW ok \in BOOLEAN, Complete(op, ok)
       PROVE  WaitInv'
  <2>1. UNCHANGED <<pc, bWriteAllowed, bReadAllowed>>
    BY <1>11 DEF Complete, opVars, permVars
  <2> QED BY <1>11, <2>1, HoldsCompleted, FrameWait
<1>12. CASE UNCHANGED <<pc, opVars, pending, ready>>
  <2>1. UNCHANGED <<pc, bWriteAllowed, bReadAllowed, Outstanding>>
    BY <1>12 DEF opVars, permVars, Outstanding
  <2> QED BY <2>1, FrameWait
<1> QED
  BY <1>1, <1>2, <1>3, <1>4, <1>5, <1>6, <1>7, <1>8, <1>9, <1>10, <1>11, <1>12
     DEF Next, ThreadStep, CallerStep, CompleteOp, CompleteKind, Joined, vars,
         clientVars, cqVars, StoreErrorFlag, WriteCheck, WriteEnqueue,
         ReadCheck, ReadDequeue, WLUSync, WLUEnqueue, Stop, ServerSends,
         CallEnds, DeadlinePasses

(* Both directions are free in the beginning.                              *)
LEMMA InitWait == ASSUME Init PROVE WaitInv
  BY DEF Init, WaitInv, PermissionsExact, NoIdleWait, Holds, Outstanding

(* CanWrite and CanRead tell exactly whether an operation of the direction *)
(* is outstanding, through Run and through Exit's loop: no completion      *)
(* leaves a direction barred for good.                                     *)
THEOREM PermissionsAreExact ==
  ASSUME ClientAssumption PROVE Spec => []PermissionsExact
<1>1. Init => TypeOK /\ StreamInv /\ WaitInv
  BY InitTypeOK, InitStream, InitWait
<1>2. TypeOK /\ StreamInv /\ WaitInv /\ [Next]_vars
         => (TypeOK /\ StreamInv /\ WaitInv)'
  BY ControlOKStep, TagsOKStep, RelayOKStep, StreamStep, WaitStep DEF TypeOK
<1>3. WaitInv => PermissionsExact BY DEF WaitInv
<1> QED BY <1>1, <1>2, <1>3, PTL DEF Spec

(* Every call of Next and AsyncNext is made with the operation outstanding *)
(* that the thread needs to go on.                                         *)
THEOREM NeverWaitsInVain ==
  ASSUME ClientAssumption PROVE Spec => []NoIdleWait
<1>1. Init => TypeOK /\ StreamInv /\ WaitInv
  BY InitTypeOK, InitStream, InitWait
<1>2. TypeOK /\ StreamInv /\ WaitInv /\ [Next]_vars
         => (TypeOK /\ StreamInv /\ WaitInv)'
  BY ControlOKStep, TagsOKStep, RelayOKStep, StreamStep, WaitStep DEF TypeOK
<1>3. WaitInv => NoIdleWait BY DEF WaitInv
<1> QED BY <1>1, <1>2, <1>3, PTL DEF Spec

-----------------------------------------------------------------------------
(* How the thread ends.                                                    *)

(* EndInv holds in the beginning.                                          *)
LEMMA InitEnd == ASSUME Init PROVE EndInv
  BY DEF Init, EndInv, NothingStarted, ExitLocations

(* Each step keeps EndInv.                                                 *)
LEMMA EndStep == ASSUME TypeOK, EndInv, [Next]_vars PROVE EndInv'
<1> USE DEF EndInv, NothingStarted, ExitLocations
<1> pc \in Locations BY DEF TypeOK, ControlOK
<1> USE DEF Locations
<1>1. CASE Login
  BY <1>1 DEF Login, BeginSetError, ErrorFlags, cqVars, exitVars, wireVars, apiVars
<1>2. CASE OpenStream
  BY <1>2 DEF OpenStream, flagVars, apiVars
<1>3. CASE AwaitOpen BY <1>3 DEF AwaitOpen, wireVars, apiVars
<1>4. CASE Configure
  BY <1>4 DEF Configure, flagVars, wireVars, apiVars
<1>5. CASE AwaitConfig \/ PollEvent
  BY <1>5 DEF AwaitConfig, PollEvent, BeginSetError, ErrorFlags, wireVars, apiVars
<1>6. ASSUME NEW flag \in ErrorFlags, StoreErrorFlag(flag) PROVE EndInv'
  BY <1>6 DEF StoreErrorFlag, ErrorFlags, cqVars, wireVars, apiVars
<1>7. CASE StoreErrorMessage
  BY <1>7 DEF StoreErrorMessage, cqVars, wireVars, apiVars
<1>8. CASE CheckLoop \/ PollTimeout
  BY <1>8 DEF CheckLoop, PollTimeout, flagVars, wireVars, apiVars
<1>9. CASE TryWrite \/ TryRead \/ Drain
  BY <1>9 DEF TryWrite, TryRead, Drain, flagVars, wireVars, apiVars
<1>10. CASE BeginExit BY <1>10 DEF BeginExit, flagVars, apiVars
<1>11. CASE DrainWait \/ Finish \/ FinishWait \/ ShutdownQueue
  BY <1>11 DEF DrainWait, Finish, FinishWait, ShutdownQueue, flagVars, wireVars,
     apiVars
<1>12. CASE DrainQueue
  BY <1>12 DEF DrainQueue, flagVars, wireVars, apiVars
<1>13. CASE Stop
  BY <1>13 DEF Stop, cqVars, exitVars, wireVars
<1>14. ASSUME NEW op \in pending, NEW ok \in BOOLEAN, Complete(op, ok)
       PROVE  EndInv'
  BY <1>14 DEF Complete, flagVars, exitVars, apiVars
<1>15. CASE ServerSends
  BY <1>15 DEF ServerSends, flagVars, cqVars, exitVars, apiVars
<1>16. CASE CallEnds
  BY <1>16 DEF CallEnds, flagVars, cqVars, exitVars, apiVars
<1>17. CASE DeadlinePasses
  BY <1>17 DEF DeadlinePasses, flagVars, wireVars, apiVars
<1>18. CASE UNCHANGED <<clientVars, killed>>
  BY <1>18, ClientUnchanged
<1> QED
  BY <1>1, <1>2, <1>3, <1>4, <1>5, <1>6, <1>7, <1>8, <1>9, <1>10, <1>11,
     <1>12, <1>13, <1>14, <1>15, <1>16, <1>17, <1>18
     DEF Next, ThreadStep, CallerStep, CompleteOp, CompleteKind, Joined, vars,
         apiVars, WriteCheck, WriteEnqueue, ReadCheck, ReadDequeue, WLUSync,
         WLUEnqueue

(* A client thread that has ended is one that was stopped or one whose     *)
(* HasError() is true, for IsConnected and Tick to see.                    *)
THEOREM NoDeathIsSilent ==
  ASSUME ClientAssumption PROVE Spec => []NoSilentDeath
<1>1. Init => TypeOK /\ EndInv BY InitTypeOK, InitEnd
<1>2. TypeOK /\ EndInv /\ [Next]_vars => (TypeOK /\ EndInv)'
  BY ControlOKStep, TagsOKStep, RelayOKStep, EndStep DEF TypeOK
<1>3. EndInv => NoSilentDeath BY DEF EndInv, NoSilentDeath
<1> QED BY <1>1, <1>2, <1>3, PTL DEF Spec

-----------------------------------------------------------------------------
(* The two relays.                                                         *)

(* Nothing is on the stream in the beginning.                              *)
LEMMA InitWire == ASSUME Init PROVE WireInv /\ RequestsInOrder
  BY DEF Init, WireInv, RequestsInOrder, InLine

(* The configuration is written before the loop starts, and nothing        *)
(* before it.                                                              *)
LEMMA WireStep == ASSUME TypeOK, WireInv, [Next]_vars PROVE WireInv'
<1> USE DEF WireInv
<1> pc \in Locations /\ written \in Seq(Nat) BY DEF TypeOK, ControlOK, RelayOK
<1> USE DEF Locations
<1>1. CASE Configure
  BY <1>1 DEF Configure, StreamWrite
<1>2. CASE TryWrite
  <2>1. written # <<>> /\ pc' = "try_read" BY <1>2 DEF TryWrite
  <2>2. written' # <<>>
    BY <1>2, <2>1 DEF TryWrite, StreamWrite, NoOp
  <2> QED BY <2>1, <2>2
<1>3. CASE TryRead \/ Drain
  BY <1>3 DEF TryRead, Drain, StreamRead, NoOp
<1>4. CASE Login \/ OpenStream \/ AwaitOpen
  BY <1>4 DEF Login, OpenStream, AwaitOpen, BeginSetError
<1>5. CASE AwaitConfig \/ PollEvent
  BY <1>5 DEF AwaitConfig, PollEvent, BeginSetError
<1>6. CASE StoreErrorMessage \/ CheckLoop \/ PollTimeout \/ BeginExit
  BY <1>6 DEF StoreErrorMessage, CheckLoop, PollTimeout, BeginExit
<1>7. CASE DrainWait \/ Finish \/ FinishWait \/ ShutdownQueue \/ DrainQueue
  BY <1>7 DEF DrainWait, Finish, FinishWait, ShutdownQueue, DrainQueue
<1>8. CASE UNCHANGED <<pc, written>> BY <1>8
<1> QED
  BY <1>1, <1>2, <1>3, <1>4, <1>5, <1>6, <1>7, <1>8
     DEF Next, ThreadStep, CallerStep, CompleteOp, CompleteKind, Joined, vars,
         clientVars, StoreErrorFlag, WriteCheck, WriteEnqueue, ReadCheck,
         ReadDequeue, WLUSync, WLUEnqueue, Stop, Complete, ServerSends,
         CallEnds, DeadlinePasses

(* Moving the oldest request from the queue to the stream keeps the line.  *)
LEMMA SendHead ==
  ASSUME NEW wire \in Seq(Nat), NEW queue \in Seq(Nat), NEW n \in Nat,
         wire # <<>>, queue # <<>>, InLine(wire, queue, n)
  PROVE  InLine(Append(wire, Head(queue)), Tail(queue), n)
<1> DEFINE w == Append(wire, Head(queue))
           q == Tail(queue)
<1>1. /\ q \in Seq(Nat) /\ Len(q) = Len(queue) - 1 /\ Len(queue) \in Nat \ {0}
      /\ \A i \in 1..Len(q) : q[i] = queue[i + 1]
      /\ Head(queue) = queue[1] /\ queue[1] \in Nat
  BY HeadTailProperties
<1>2. /\ w \in Seq(Nat) /\ Len(w) = Len(wire) + 1 /\ Len(wire) \in Nat
      /\ \A i \in 1..Len(wire) : w[i] = wire[i]
      /\ w[Len(wire) + 1] = queue[1]
      /\ w # <<>>
  BY <1>1, AppendProperties
<1>3. Len(wire) + Len(queue) = n + 1 /\ queue[1] = Len(wire)
  BY <1>1, <1>2 DEF InLine
<1>4. \A i \in 1..Len(w) : w[i] = Config + i - 1
  <2>1. SUFFICES ASSUME NEW i \in 1..Len(w) PROVE w[i] = i - 1
    BY DEF Config
  <2>2. CASE i = Len(wire) + 1 BY <1>2, <1>3, <2>2
  <2>3. CASE i \in 1..Len(wire) BY <1>2, <2>3 DEF InLine, Config
  <2> QED BY <1>2, <2>2, <2>3
<1>5. \A i \in 1..Len(q) : q[i] = n - Len(q) + i
  BY <1>1 DEF InLine
<1> HIDE DEF w, q
<1>6. Len(w) + Len(q) = n + 1 BY ONLY <1>1, <1>2, <1>3
<1>7. w # <<>> BY ONLY <1>2
<1>8. InLine(w, q, n) BY ONLY <1>4, <1>5, <1>6, <1>7 DEF InLine
<1> QED BY <1>8 DEF w, q

(* Enqueueing the next request keeps the line.                             *)
LEMMA QueueNext ==
  ASSUME NEW wire \in Seq(Nat), NEW queue \in Seq(Nat), NEW n \in Nat,
         InLine(wire, queue, n)
  PROVE  InLine(wire, Append(queue, n + 1), n + 1)
<1> DEFINE q == Append(queue, n + 1)
<1>1. /\ q \in Seq(Nat) /\ Len(q) = Len(queue) + 1 /\ Len(queue) \in Nat
      /\ \A i \in 1..Len(queue) : q[i] = queue[i]
      /\ q[Len(queue) + 1] = n + 1
  BY AppendProperties
<1>2. \A i \in 1..Len(q) : q[i] = (n + 1) - Len(q) + i
  BY <1>1 DEF InLine
<1> HIDE DEF q
<1>3. Len(wire) + Len(q) = (n + 1) + (IF wire = <<>> THEN 0 ELSE 1)
  <2>1. Len(wire) \in Nat OBVIOUS
  <2>2. CASE wire = <<>> BY <1>1, <2>1, <2>2 DEF InLine
  <2>3. CASE wire # <<>> BY <1>1, <2>1, <2>3 DEF InLine
  <2> QED BY <2>2, <2>3
<1>4. \A i \in 1..Len(wire) : wire[i] = Config + i - 1 BY DEF InLine
<1>5. InLine(wire, q, n + 1) BY ONLY <1>2, <1>3, <1>4 DEF InLine
<1> QED BY <1>5 DEF q

(* Each step keeps the requests in order.                                  *)
LEMMA RequestsStep ==
  ASSUME TypeOK, WireInv, RequestsInOrder, [Next]_vars PROVE RequestsInOrder'
<1>0. written \in Seq(Nat) /\ RequestQueue \in Seq(Nat) /\ accepted \in Nat
  BY DEF TypeOK, RelayOK
<1>1. CASE Configure
  <2>1. /\ written = <<>> /\ written' = <<Config>>
        /\ UNCHANGED <<RequestQueue, accepted>>
    BY <1>1 DEF Configure, StreamWrite, WireInv, queueVars, apiVars
  <2> QED BY <1>0, <2>1 DEF RequestsInOrder, InLine, Config
<1>2. CASE TryWrite
  <2>1. CASE CanWrite /\ RequestQueue # <<>>
    <3>1. /\ written # <<>> /\ written' = Append(written, Head(RequestQueue))
          /\ RequestQueue' = Tail(RequestQueue) /\ UNCHANGED accepted
      BY <1>2, <2>1 DEF TryWrite, StreamWrite, WireInv, apiVars
    <3> QED BY <1>0, <2>1, <3>1, SendHead DEF RequestsInOrder
  <2>2. CASE ~(CanWrite /\ RequestQueue # <<>>)
    BY <1>2, <2>2 DEF TryWrite, NoOp, apiVars, RequestsInOrder
  <2> QED BY <2>1, <2>2
<1>3. ASSUME NEW caller \in Callers, WriteEnqueue(caller)
      PROVE  RequestsInOrder'
  <2>1. UNCHANGED clientVars BY <1>3 DEF WriteEnqueue
  <2>2. /\ accepted' = accepted + 1
        /\ RequestQueue' = Append(RequestQueue, accepted + 1)
        /\ UNCHANGED written
    BY <1>3, <2>1, ClientUnchanged DEF WriteEnqueue
  <2> QED BY <1>0, <2>2, QueueNext DEF RequestsInOrder
<1>4. CASE UNCHANGED <<written, RequestQueue, accepted>>
  BY <1>4 DEF RequestsInOrder
<1>5. CASE TryRead \/ Drain
  BY <1>5 DEF TryRead, Drain, StreamRead, NoOp, queueVars, apiVars,
     RequestsInOrder
<1> QED
  BY <1>1, <1>2, <1>3, <1>4, <1>5
     DEF Next, ThreadStep, CallerStep, CompleteOp, CompleteKind, Joined, vars,
         clientVars, queueVars, apiVars, Login, OpenStream, AwaitOpen,
         AwaitConfig, StoreErrorFlag, StoreErrorMessage, CheckLoop, PollEvent,
         PollTimeout, BeginExit, DrainWait, Finish, FinishWait, ShutdownQueue,
         DrainQueue, WriteCheck, ReadCheck, ReadDequeue, WLUSync, WLUEnqueue,
         Stop, Complete, ServerSends, CallEnds, DeadlinePasses

(* The requests Write accepted are on the stream, after the configuration, *)
(* or still queued: in order, none twice, none lost.                       *)
THEOREM RequestsKeepOrder ==
  ASSUME ClientAssumption PROVE Spec => []RequestsInOrder
<1>1. Init => TypeOK /\ WireInv /\ RequestsInOrder BY InitTypeOK, InitWire
<1>2. TypeOK /\ WireInv /\ RequestsInOrder /\ [Next]_vars
        => (TypeOK /\ WireInv /\ RequestsInOrder)'
  BY ControlOKStep, TagsOKStep, RelayOKStep, WireStep, RequestsStep DEF TypeOK
<1> QED BY <1>1, <1>2, PTL DEF Spec

(* Enqueueing a source's next response keeps the responses in order.       *)
LEMMA EnqueueNext ==
  ASSUME NEW queue \in Seq(Responses), NEW last \in [Sources -> Nat],
         NEW total \in [Sources -> Nat], NEW s \in Sources,
         InOrder(queue, last, total), last[s] <= total[s]
  PROVE  InOrder(Append(queue, [src |-> s, n |-> total[s] + 1]), last,
                 [total EXCEPT ![s] = @ + 1])
<1> DEFINE r == [src |-> s, n |-> total[s] + 1]
           q == Append(queue, r)
           t == [total EXCEPT ![s] = @ + 1]
<1>1. /\ Len(queue) \in Nat /\ Len(q) = Len(queue) + 1
      /\ \A i \in 1..Len(queue) : q[i] = queue[i] /\ queue[i] \in Responses
      /\ q[Len(queue) + 1] = r /\ r.src = s /\ r.n = total[s] + 1
  <2>1. r \in Responses BY DEF Responses
  <2> QED BY <2>1, AppendProperties
<1>2. /\ \A k \in Sources : last[k] \in Nat /\ total[k] \in Nat /\ t[k] \in Nat
      /\ t[s] = total[s] + 1
      /\ \A k \in Sources \ {s} : t[k] = total[k]
  OBVIOUS
<1>3. \A i \in 1..Len(queue) : queue[i].src \in Sources /\ queue[i].n \in Nat
  BY <1>1 DEF Responses
<1> HIDE DEF r, q, t
<1>4. \A i \in 1..Len(q) : q[i].n > last[q[i].src] /\ q[i].n <= t[q[i].src]
  <2>1. SUFFICES ASSUME NEW i \in 1..Len(q)
                 PROVE  q[i].n > last[q[i].src] /\ q[i].n <= t[q[i].src]
    OBVIOUS
  <2>2. CASE i = Len(queue) + 1 BY <1>1, <1>2, <2>2
  <2>3. CASE i \in 1..Len(queue)
    <3>1. queue[i].n > last[queue[i].src] /\ queue[i].n <= total[queue[i].src]
      BY <2>3 DEF InOrder
    <3>2. q[i] = queue[i] BY <1>1, <2>3
    <3>3. CASE queue[i].src = s BY <1>2, <1>3, <2>3, <3>1, <3>2, <3>3
    <3>4. CASE queue[i].src # s BY <1>2, <1>3, <2>3, <3>1, <3>2, <3>4
    <3> QED BY <3>3, <3>4
  <2> QED BY <1>1, <2>2, <2>3
<1>5. \A i, j \in 1..Len(q) : i < j /\ q[i].src = q[j].src => q[i].n < q[j].n
  <2>1. SUFFICES ASSUME NEW i \in 1..Len(q), NEW j \in 1..Len(q), i < j,
                        q[i].src = q[j].src
                 PROVE  q[i].n < q[j].n
    OBVIOUS
  <2>2. i \in 1..Len(queue) BY <1>1, <2>1
  <2>3. CASE j = Len(queue) + 1
    <3>1. queue[i].n <= total[queue[i].src] BY <2>2 DEF InOrder
    <3> QED BY <1>1, <1>2, <1>3, <2>1, <2>2, <2>3, <3>1
  <2>4. CASE j \in 1..Len(queue) BY <1>1, <2>1, <2>2, <2>4 DEF InOrder
  <2> QED BY <1>1, <2>3, <2>4
<1>6. ASSUME NEW k \in Sources, NEW n \in (last[k] + 1)..t[k]
      PROVE  \E i \in 1..Len(q) : q[i] = [src |-> k, n |-> n]
  <2>1. CASE k = s /\ n = total[s] + 1
    BY <1>1, <2>1 DEF r
  <2>2. CASE ~(k = s /\ n = total[s] + 1)
    <3>1. n \in (last[k] + 1)..total[k] BY <1>2, <2>2
    <3>2. PICK i \in 1..Len(queue) : queue[i] = [src |-> k, n |-> n]
      BY <3>1 DEF InOrder
    <3>3. i \in 1..Len(q) /\ q[i] = [src |-> k, n |-> n] BY <1>1, <3>2
    <3> QED BY <3>3
  <2> QED BY <2>1, <2>2
<1>7. InOrder(q, last, t) BY ONLY <1>4, <1>5, <1>6 DEF InOrder
<1> QED BY <1>7 DEF q, t, r

(* Dequeueing the oldest response keeps the responses in order.            *)
LEMMA DequeueHead ==
  ASSUME NEW queue \in Seq(Responses), NEW last \in [Sources -> Nat],
         NEW total \in [Sources -> Nat], queue # <<>>,
         InOrder(queue, last, total)
  PROVE  InOrder(Tail(queue), [last EXCEPT ![Head(queue).src] = Head(queue).n],
                 total)
<1> DEFINE q == Tail(queue)
           h == Head(queue)
           l == [last EXCEPT ![h.src] = h.n]
<1>1. /\ Len(queue) \in Nat /\ Len(q) = Len(queue) - 1 /\ Len(queue) >= 1
      /\ \A i \in 1..Len(q) : q[i] = queue[i + 1] /\ i + 1 \in 1..Len(queue)
      /\ h = queue[1]
  BY HeadTailProperties
<1>2. \A i \in 1..Len(queue) : queue[i].src \in Sources /\ queue[i].n \in Nat
  <2>1. \A i \in 1..Len(queue) : queue[i] \in Responses OBVIOUS
  <2> QED BY <2>1 DEF Responses
<1>3. /\ h.src \in Sources /\ h.n \in Nat /\ l[h.src] = h.n
      /\ \A k \in Sources \ {h.src} : l[k] = last[k]
      /\ \A k \in Sources : last[k] \in Nat /\ total[k] \in Nat
      /\ h.n > last[h.src]
  <2>1. h.src \in Sources /\ h.n \in Nat BY <1>1, <1>2
  <2> QED BY <1>1, <2>1 DEF InOrder
<1> HIDE DEF q, h, l
<1>4. \A i \in 1..Len(q) : q[i].n > l[q[i].src] /\ q[i].n <= total[q[i].src]
  <2>1. SUFFICES ASSUME NEW i \in 1..Len(q)
                 PROVE  q[i].n > l[q[i].src] /\ q[i].n <= total[q[i].src]
    OBVIOUS
  <2>2. /\ q[i] = queue[i + 1] /\ i + 1 \in 1..Len(queue) /\ 1 \in 1..Len(queue)
        /\ 1 < i + 1
    BY <1>1
  <2>3. /\ queue[i+1].n > last[queue[i+1].src] /\ queue[i+1].n <= total[queue[i+1].src]
        /\ queue[1].src = queue[i+1].src => queue[1].n < queue[i+1].n
    BY <2>2 DEF InOrder
  <2> QED BY <1>1, <1>2, <1>3, <2>2, <2>3
<1>5. \A i, j \in 1..Len(q) : i < j /\ q[i].src = q[j].src => q[i].n < q[j].n
  <2>1. SUFFICES ASSUME NEW i \in 1..Len(q), NEW j \in 1..Len(q), i < j,
                        q[i].src = q[j].src
                 PROVE  q[i].n < q[j].n
    OBVIOUS
  <2>2. /\ q[i] = queue[i + 1] /\ i + 1 \in 1..Len(queue)
        /\ q[j] = queue[j + 1] /\ j + 1 \in 1..Len(queue) /\ i + 1 < j + 1
    BY <1>1, <2>1
  <2>3. queue[i + 1].src = queue[j + 1].src => queue[i + 1].n < queue[j + 1].n
    BY <2>2 DEF InOrder
  <2> QED BY <2>1, <2>2, <2>3
<1>6. ASSUME NEW k \in Sources, NEW n \in (l[k] + 1)..total[k]
      PROVE  \E i \in 1..Len(q) : q[i] = [src |-> k, n |-> n]
  <2>1. n \in (last[k] + 1)..total[k] /\ (k = h.src => n # h.n)
    BY <1>3
  <2>2. PICK i \in 1..Len(queue) : queue[i] = [src |-> k, n |-> n]
    BY <2>1 DEF InOrder
  <2>3. i # 1 BY <1>1, <2>1, <2>2
  <2>4. i - 1 \in 1..Len(q) /\ q[i - 1] = queue[i] BY <1>1, <2>2, <2>3
  <2> QED BY <2>2, <2>4
<1>7. InOrder(q, l, total) BY ONLY <1>4, <1>5, <1>6 DEF InOrder
<1> QED BY <1>7 DEF q, l, h

-----------------------------------------------------------------------------
(* Messages of the server: read once, relayed once.                        *)

(* Of all the completed operations at most one is a read.                  *)
LEMMA ReadyReads ==
  ASSUME TypeOK, StreamInv, GotEvent
  PROVE  /\ Event.kind = "read" => ~ReadReady'
         /\ ~(Event.kind = "read" /\ Event.ok) => ReadReady' = ReadReady
<1>1. /\ ready \in Seq(Events) /\ ready # <<>> /\ ready' = Tail(ready)
      /\ Event = ready[1] /\ 1 \in DOMAIN ready
  BY DEF TypeOK, TagsOK, GotEvent, Event
<1>2. /\ \A i \in DOMAIN ready' : i + 1 \in DOMAIN ready /\ ready'[i] = ready[i + 1]
      /\ \A i \in DOMAIN ready : i # 1 => i - 1 \in DOMAIN ready' /\ ready'[i - 1] = ready[i]
  BY <1>1, HeadTailProperties
<1>3. ASSUME NEW i \in DOMAIN ready', Event.kind = "read" PROVE ready'[i].kind # "read"
  <2>1. /\ i + 1 \in DOMAIN ready /\ ready'[i] = ready[i + 1] /\ i + 1 # 1
    BY <1>1, <1>2
  <2>2. OpOf(ready[i + 1]) \in Outstanding /\ OpOf(Event) \in Outstanding
    BY <1>1, <2>1 DEF Outstanding, OpOf
  <2>3. OpOf(ready[i + 1]) \in InPlace /\ OpOf(Event) \in InPlace
    BY <2>2 DEF StreamInv, OpStates
  <2>4. ready[i + 1].tag # Event.tag
    BY <1>1, <2>1 DEF StreamInv, DistinctTags
  <2> QED BY <1>3, <2>1, <2>3, <2>4 DEF InPlace, OpOf
<1>4. ASSUME ~(Event.kind = "read" /\ Event.ok) PROVE ReadReady' = ReadReady
  BY <1>1, <1>2, <1>4 DEF ReadReady
<1> QED BY <1>3, <1>4 DEF ReadReady

(* Between two reads of the same kind of operation, nothing is ready.      *)
LEMMA NoReadReady ==
  ASSUME TypeOK, StreamInv,
         \/ pc \in {"open_wait", "config_wait"}
         \/ \E op \in pending : op.kind = "read"
  PROVE  ~ReadReady
<1>1. SUFFICES ASSUME NEW i \in DOMAIN ready, ready[i].kind = "read" PROVE FALSE
  BY DEF ReadReady
<1>2. OpOf(ready[i]) \in InPlace
  BY DEF StreamInv, OpStates, Outstanding, OpOf
<1>3. CASE \E op \in pending : op.kind = "read"
  <2>1. PICK op \in pending : op.kind = "read" BY <1>3
  <2>2. op \in InPlace BY DEF StreamInv, OpStates, Outstanding
  <2> QED BY <1>1, <1>2, <2>1, <2>2 DEF InPlace, OpOf, StreamInv, DistinctTags
<1> QED BY <1>1, <1>2, <1>3 DEF InPlace, OpOf

(* What the loop relays is the message of a read that succeeded.           *)
LEMMA RelayedIsRead ==
  ASSUME TypeOK, StreamInv, PollEvent
  PROVE  Relays(Event) <=> (Event.kind = "read" /\ Event.ok)
<1>1. pc = "poll" /\ GotEvent BY DEF PollEvent
<1>2. OpOf(Event) \in InPlace /\ Event.tag # 0
  <2>1. OpOf(Event) \in Outstanding
    BY <1>1, EventOutstanding DEF TypeOK, StreamInv
  <2> QED BY <2>1 DEF StreamInv, OpStates, InPlace, Operations, Tags, OpOf
<1> QED BY <1>1, <1>2 DEF InPlace, OpOf, Operations, Kinds, Relays, IsReadTag,
    StreamInv, DistinctTags

(* Each step keeps the count of the messages read and relayed.             *)
LEMMA LostStep ==
  ASSUME TypeOK, StreamInv, NoMessageLost, [Next]_vars PROVE NoMessageLost'
<1>0. /\ received \in Nat /\ made["slu"] \in Nat /\ made \in [Sources -> Nat]
  BY DEF TypeOK, RelayOK, Sources
<1> USE DEF NoMessageLost, ExitLocations
<1>1. CASE AwaitOpen \/ AwaitConfig
  <2>1. /\ pc \in {"open_wait", "config_wait"} /\ GotEvent
        /\ UNCHANGED <<received, made>>
    BY <1>1 DEF AwaitOpen, AwaitConfig, wireVars, apiVars
  <2>2. ~ReadReady BY <2>1, NoReadReady
  <2>3. ~ReadReady' BY <2>1, <2>2, ReadyReads
  <2> QED BY <2>1, <2>2, <2>3
<1>2. CASE PollEvent
  <2>1. /\ pc = "poll" /\ GotEvent /\ received' = received
        /\ IF Relays(Event) THEN made' = [made EXCEPT !["slu"] = @ + 1]
                            ELSE made' = made
    BY <1>2 DEF PollEvent, wireVars
  <2>2. CASE Relays(Event)
    <3>1. Event.kind = "read" /\ Event.ok BY <1>2, <2>2, RelayedIsRead
    <3>2. ReadReady
      <4>1. 1 \in DOMAIN ready /\ Event = ready[1]
        BY <2>1, EventTyped DEF TypeOK, TagsOK, Event
      <4> QED BY <3>1, <4>1 DEF ReadReady
    <3>3. ~ReadReady' BY <2>1, <3>1, ReadyReads
    <3>4. made'["slu"] = made["slu"] + 1 BY <1>0, <2>1, <2>2 DEF Sources
    <3> QED BY <1>0, <2>1, <3>2, <3>3, <3>4
  <2>3. CASE ~Relays(Event)
    <3>1. ReadReady' = ReadReady BY <1>2, <2>1, <2>3, RelayedIsRead, ReadyReads
    <3> QED BY <2>1, <2>3, <3>1
  <2> QED BY <2>2, <2>3
<1>3. ASSUME NEW op \in pending, NEW ok \in BOOLEAN, Complete(op, ok)
      PROVE  NoMessageLost'
  <2>1. /\ ready' = Append(ready, [kind |-> op.kind, tag |-> op.tag, ok |-> ok])
        /\ received' = IF op.kind = "read" /\ ok THEN received + 1 ELSE received
        /\ UNCHANGED <<pc, made>>
    BY <1>3 DEF Complete, apiVars
  <2>2. /\ DOMAIN ready' = DOMAIN ready \union {Len(ready) + 1}
        /\ \A i \in DOMAIN ready : ready'[i] = ready[i]
        /\ ready'[Len(ready) + 1] = [kind |-> op.kind, tag |-> op.tag, ok |-> ok]
        /\ Len(ready) + 1 \notin DOMAIN ready
    BY <2>1, AppendProperties DEF TypeOK, TagsOK
  <2>3. CASE op.kind = "read" /\ ok
    <3>1. ~ReadReady BY <2>3, NoReadReady
    <3>2. ReadReady' BY <2>2, <2>3 DEF ReadReady
    <3> QED BY <1>0, <2>1, <2>3, <3>1, <3>2
  <2>4. CASE ~(op.kind = "read" /\ ok)
    <3>1. ReadReady' = ReadReady BY <2>2, <2>4 DEF ReadReady
    <3> QED BY <2>1, <2>4, <3>1
  <2> QED BY <2>3, <2>4
<1>4. CASE WLUEnqueue
  <2>1. made'["slu"] = made["slu"] /\ UNCHANGED <<pc, received, ready>>
    <3>1. UNCHANGED clientVars BY <1>4 DEF WLUEnqueue
    <3> QED BY <1>0, <1>4, <3>1, ClientUnchanged DEF WLUEnqueue, Sources
  <2> QED BY <2>1 DEF ReadReady
<1>5. CASE DrainWait \/ FinishWait \/ DrainQueue
  BY <1>5 DEF DrainWait, FinishWait, DrainQueue
<1>6. CASE BeginExit \/ Drain \/ Finish \/ ShutdownQueue \/ StoreErrorMessage
  BY <1>6 DEF BeginExit, Drain, Finish, ShutdownQueue, StoreErrorMessage
<1>7. CASE UNCHANGED <<received, ready, made>> /\ (pc' \in ExitLocations \union {"exit", "ended"}
              \/ pc \notin ExitLocations \union {"exit", "ended"})
  BY <1>7 DEF ReadReady
<1>8. CASE UNCHANGED <<pc, received, ready, made>> BY <1>8 DEF ReadReady
<1> DEFINE Quiet == UNCHANGED <<received, ready, made>>
<1>9. CASE \/ Login \/ OpenStream \/ Configure
           \/ \E flag \in ErrorFlags : StoreErrorFlag(flag)
  <2>1. Quiet /\ pc \notin ExitLocations \union {"exit", "ended"}
    BY <1>9 DEF Login, OpenStream, Configure, StoreErrorFlag, cqVars, wireVars,
       apiVars
  <2> QED BY <1>7, <2>1
<1>10. CASE CheckLoop \/ TryWrite \/ TryRead \/ PollTimeout
  <2>1. Quiet /\ pc \notin ExitLocations \union {"exit", "ended"}
    BY <1>10 DEF CheckLoop, TryWrite, TryRead, PollTimeout, cqVars, wireVars,
       apiVars
  <2> QED BY <1>7, <2>1
<1>11. CASE \/ \E caller \in Callers : WriteCheck(caller) \/ WriteEnqueue(caller)
            \/ ReadCheck \/ ReadDequeue \/ \E count \in 1..MaxFakes : WLUSync(count)
  <2>1. UNCHANGED clientVars /\ UNCHANGED made
    BY <1>11 DEF WriteCheck, WriteEnqueue, ReadCheck, ReadDequeue, WLUSync
  <2>2. UNCHANGED <<pc, received, ready>> BY <2>1, ClientUnchanged
  <2> QED BY <1>8, <2>1, <2>2
<1>12. CASE Stop \/ ServerSends \/ CallEnds \/ DeadlinePasses \/ Joined \/ UNCHANGED vars
  <2>1. UNCHANGED <<pc, received, ready, made>>
    BY <1>12 DEF Stop, ServerSends, CallEnds, DeadlinePasses, Joined, vars,
       clientVars, cqVars, wireVars, apiVars
  <2> QED BY <1>8, <2>1
<1> QED
  BY <1>1, <1>2, <1>3, <1>4, <1>5, <1>6, <1>9, <1>10, <1>11, <1>12
     DEF Next, ThreadStep, CallerStep, CompleteOp, CompleteKind

(* Each step keeps the responses in order.                                 *)
LEMMA ResponsesStep ==
  ASSUME TypeOK, StreamInv, NoMessageLost, ResponsesInOrder,
         \A s \in Sources : taken[s] <= made[s], [Next]_vars
  PROVE  ResponsesInOrder' /\ \A s \in Sources : taken'[s] <= made'[s]
<1> DEFINE Done == ResponsesInOrder' /\ \A s \in Sources : taken'[s] <= made'[s]
<1>0. /\ ResponseQueue \in Seq(Responses) /\ made \in [Sources -> Nat]
      /\ taken \in [Sources -> Nat]
      /\ \A s \in Sources : made[s] \in Nat /\ taken[s] \in Nat
  BY DEF TypeOK, RelayOK
<1>1. ASSUME NEW s \in Sources,
             ResponseQueue' = Append(ResponseQueue, [src |-> s, n |-> made[s] + 1]),
             made' = [made EXCEPT ![s] = @ + 1], UNCHANGED taken
      PROVE  Done
  <2>1. InOrder(ResponseQueue, taken, made) /\ taken[s] <= made[s]
    BY DEF ResponsesInOrder
  <2>2. InOrder(Append(ResponseQueue, [src |-> s, n |-> made[s] + 1]), taken,
                [made EXCEPT ![s] = @ + 1])
    BY ONLY <1>0, <2>1, EnqueueNext, s \in Sources
  <2>3. ResponsesInOrder'
    BY ONLY <1>1, <2>2 DEF ResponsesInOrder, InOrder
  <2>4. \A k \in Sources : taken'[k] <= made'[k]
    BY <1>0, <1>1
  <2> QED BY <2>3, <2>4
<1>2. CASE PollEvent
  <2>1. CASE Relays(Event)
    <3>1. received = made["slu"] + 1
      <4>1. Event.kind = "read" /\ Event.ok BY <1>2, <2>1, RelayedIsRead
      <4>2. GotEvent /\ pc = "poll" BY <1>2 DEF PollEvent
      <4>3. ReadReady
        <5>1. 1 \in DOMAIN ready /\ Event = ready[1]
          BY <4>2, EventTyped DEF TypeOK, TagsOK, Event
        <5> QED BY <4>1, <5>1 DEF ReadReady
      <4> QED BY <4>2, <4>3 DEF NoMessageLost, ExitLocations
    <3>2. /\ ResponseQueue' = Append(ResponseQueue, [src |-> "slu", n |-> received])
          /\ made' = [made EXCEPT !["slu"] = @ + 1] /\ UNCHANGED taken
      BY <1>2, <2>1 DEF PollEvent
    <3> QED BY <1>1, <3>1, <3>2 DEF Sources
  <2>2. CASE ~Relays(Event)
    BY <1>2, <2>2 DEF PollEvent, ResponsesInOrder
  <2> QED BY <2>1, <2>2
<1>3. CASE WLUEnqueue
  BY <1>1, <1>3 DEF WLUEnqueue, Sources
<1>4. CASE ReadDequeue
  <2>1. CASE ResponseQueue = <<>>
    BY <1>4, <2>1 DEF ReadDequeue, ResponsesInOrder
  <2>2. CASE ResponseQueue # <<>>
    <3>1. /\ ResponseQueue' = Tail(ResponseQueue) /\ UNCHANGED made
          /\ taken' = [taken EXCEPT ![Head(ResponseQueue).src] = Head(ResponseQueue).n]
      BY <1>4, <2>2 DEF ReadDequeue
    <3>2. ResponsesInOrder'
      BY <1>0, <2>2, <3>1, DequeueHead DEF ResponsesInOrder
    <3>3. /\ Len(ResponseQueue) \in Nat /\ 1 \in 1..Len(ResponseQueue)
          /\ Head(ResponseQueue) = ResponseQueue[1]
      BY <1>0, <2>2
    <3>4. Head(ResponseQueue).n <= made[Head(ResponseQueue).src]
      BY <3>3 DEF ResponsesInOrder, InOrder
    <3> QED BY <1>0, <3>1, <3>2, <3>4
  <2> QED BY <2>1, <2>2
<1>5. CASE UNCHANGED <<ResponseQueue, made, taken>>
  BY <1>5 DEF ResponsesInOrder
<1>6. CASE \/ Login \/ OpenStream \/ AwaitOpen \/ Configure \/ AwaitConfig
           \/ \E flag \in ErrorFlags : StoreErrorFlag(flag)
           \/ StoreErrorMessage
  <2>1. UNCHANGED <<ResponseQueue, made, taken>>
    BY <1>6 DEF Login, OpenStream, AwaitOpen, Configure, AwaitConfig,
       StoreErrorFlag, StoreErrorMessage, queueVars, apiVars
  <2> QED BY <1>5, <2>1
<1>7. CASE CheckLoop \/ TryWrite \/ TryRead \/ PollTimeout \/ BeginExit \/ Drain
  <2>1. UNCHANGED <<ResponseQueue, made, taken>>
    BY <1>7 DEF CheckLoop, TryWrite, TryRead, PollTimeout, BeginExit, Drain,
       queueVars, apiVars
  <2> QED BY <1>5, <2>1
<1>8. CASE DrainWait \/ Finish \/ FinishWait \/ ShutdownQueue \/ DrainQueue
  <2>1. UNCHANGED <<ResponseQueue, made, taken>>
    BY <1>8 DEF DrainWait, Finish, FinishWait, ShutdownQueue, DrainQueue,
       queueVars, apiVars
  <2> QED BY <1>5, <2>1
<1>9. CASE \/ \E caller \in Callers : WriteCheck(caller) \/ WriteEnqueue(caller)
           \/ ReadCheck \/ \E count \in 1..MaxFakes : WLUSync(count)
           \/ Stop
  <2>1. UNCHANGED <<ResponseQueue, made, taken>>
    BY <1>9 DEF WriteCheck, WriteEnqueue, ReadCheck, WLUSync, Stop, queueVars
  <2> QED BY <1>5, <2>1
<1>10. CASE \/ CompleteOp \/ ServerSends \/ CallEnds \/ DeadlinePasses
            \/ Joined \/ UNCHANGED vars
  <2>1. UNCHANGED <<ResponseQueue, made, taken>>
    BY <1>10 DEF CompleteOp, CompleteKind, Complete, ServerSends, CallEnds,
       DeadlinePasses, Joined, vars, queueVars, apiVars
  <2> QED BY <1>5, <2>1
<1> QED
  BY <1>2, <1>3, <1>4, <1>6, <1>7, <1>8, <1>9, <1>10
     DEF Next, ThreadStep, CallerStep

(* Nothing has been read or relayed in the beginning.                      *)
LEMMA InitRelay ==
  ASSUME Init
  PROVE  /\ NoMessageLost /\ ResponsesInOrder
         /\ \A s \in Sources : taken[s] <= made[s]
<1>1. NoMessageLost BY DEF Init, NoMessageLost, ReadReady, Sources
<1>2. ResponsesInOrder
  <2>1. /\ ResponseQueue = <<>> /\ made = [s \in Sources |-> 0]
        /\ taken = [s \in Sources |-> 0]
    BY DEF Init
  <2>2. 1..Len(ResponseQueue) = {} BY <2>1
  <2>3. \A s \in Sources : (taken[s] + 1)..made[s] = {} BY <2>1
  <2> QED BY <2>2, <2>3 DEF ResponsesInOrder, InOrder
<1>3. \A s \in Sources : taken[s] <= made[s] BY DEF Init
<1> QED BY <1>1, <1>2, <1>3

(* While the thread is in Run, each message a read has filled Response     *)
(* with has been relayed or is about to be, before the next read.          *)
THEOREM NothingReadIsLost ==
  ASSUME ClientAssumption PROVE Spec => []NoMessageLost
<1> DEFINE Inv == TypeOK /\ StreamInv /\ NoMessageLost
<1>1. Init => Inv BY InitTypeOK, InitStream, InitRelay
<1>2. Inv /\ [Next]_vars => Inv'
  BY ControlOKStep, TagsOKStep, RelayOKStep, StreamStep, LostStep DEF TypeOK
<1>3. Inv => NoMessageLost OBVIOUS
<1> QED BY <1>1, <1>2, <1>3, PTL DEF Spec

(* Read hands out every relayed response once, in the order of its source, *)
(* whichever way the client thread and WLUSync interleave.                 *)
THEOREM ResponsesKeepOrder ==
  ASSUME ClientAssumption PROVE Spec => []ResponsesInOrder
<1> DEFINE Inv == /\ TypeOK /\ StreamInv /\ NoMessageLost /\ ResponsesInOrder
                  /\ \A s \in Sources : taken[s] <= made[s]
<1>1. Init => Inv BY InitTypeOK, InitStream, InitRelay
<1>2. Inv /\ [Next]_vars => Inv'
  BY ControlOKStep, TagsOKStep, RelayOKStep, StreamStep, LostStep, ResponsesStep
     DEF TypeOK
<1>3. Inv => ResponsesInOrder OBVIOUS
<1> QED BY <1>1, <1>2, <1>3, PTL DEF Spec

=============================================================================
