----------------------- MODULE ClientRefinementProofs -----------------------
(***************************************************************************)
(* SpeechlyClient implements ClientRelay, the promise it makes to          *)
(* USpeechly, and keeps the user's side of StreamContract, for any callers *)
(* and any bounds.                                                         *)
(***************************************************************************)
EXTENDS SpeechlyClientProofs

(* What the refinements need beyond the invariants of the properties:      *)
(* there is no error while Run goes on, no tag before the call, and the    *)
(* queue is shut down last.                                                *)
Running == {"login", "open", "open_wait", "configure", "config_wait", "loop",
            "try_write", "try_read", "poll"}
RunInv ==
    /\ pc \in Running => ~bHasError
    /\ call = "none" => OpSeq = 0
    /\ cqShutdown => pc \in {"cq_drain", "ended"}

ClientInv == /\ TypeOK /\ StreamInv /\ EndInv /\ WireInv /\ NoMessageLost
             /\ RunInv

LEMMA RunStep == ASSUME TypeOK, EndInv, RunInv, [Next]_vars PROVE RunInv'
<1> USE DEF RunInv, Running
<1>1. CASE Login
  BY <1>1 DEF Login, BeginSetError, opVars, cqVars, exitVars, wireVars
<1>2. CASE OpenStream BY <1>2 DEF OpenStream, flagVars, exitVars
<1>3. CASE AwaitOpen BY <1>3 DEF AwaitOpen, OpenError, opVars, exitVars, wireVars
<1>4. CASE Configure
  BY <1>4 DEF Configure, flagVars, exitVars, wireVars, EndInv
<1>5. CASE AwaitConfig \/ PollEvent
  BY <1>5 DEF AwaitConfig, PollEvent, BeginSetError, HandleTag, exitVars,
     wireVars
<1>6. ASSUME NEW flag \in ErrorFlags, StoreErrorFlag(flag) PROVE RunInv'
  BY <1>6 DEF StoreErrorFlag, opVars, cqVars, exitVars, wireVars
<1>7. CASE StoreErrorMessage
  BY <1>7 DEF StoreErrorMessage, opVars, cqVars, exitVars, wireVars
<1>8. CASE CheckLoop \/ PollTimeout
  BY <1>8 DEF CheckLoop, PollTimeout, flagVars, opVars, cqVars, exitVars,
     wireVars
<1>9. CASE TryWrite \/ TryRead \/ Drain
  BY <1>9 DEF TryWrite, TryRead, Drain, flagVars, exitVars, wireVars, EndInv
<1>10. CASE BeginExit
  BY <1>10 DEF BeginExit, flagVars, opVars, cqVars, exitVars
<1>11. CASE DrainWait
  BY <1>11 DEF DrainWait, HandleTag, flagVars, opVars, exitVars, wireVars
<1>12. CASE Finish
  BY <1>12 DEF Finish, flagVars, exitVars, wireVars, EndInv
<1>13. CASE FinishWait \/ DrainQueue
  BY <1>13 DEF FinishWait, DrainQueue, flagVars, opVars, exitVars, wireVars
<1>14. CASE ShutdownQueue
  BY <1>14 DEF ShutdownQueue, flagVars, opVars, wireVars
<1>15. CASE Stop
  BY <1>15 DEF Stop, opVars, cqVars, exitVars, wireVars
<1>16. ASSUME NEW op \in pending, NEW ok \in BOOLEAN, Complete(op, ok)
       PROVE  RunInv'
  BY <1>16 DEF Complete, flagVars, opVars, exitVars
<1>17. CASE ServerSends \/ CallEnds
  BY <1>17 DEF ServerSends, CallEnds, flagVars, opVars, cqVars, exitVars
<1>18. CASE DeadlinePasses
  BY <1>18 DEF DeadlinePasses, flagVars, opVars, wireVars
<1>19. CASE UNCHANGED clientVars BY <1>19, ClientUnchanged
<1> QED
  BY <1>1, <1>2, <1>3, <1>4, <1>5, <1>6, <1>7, <1>8, <1>9, <1>10, <1>11,
     <1>12, <1>13, <1>14, <1>15, <1>16, <1>17, <1>18, <1>19
     DEF Next, ThreadStep, CallerStep, CompleteOp, CompleteKind, Joined, vars,
         WriteCheck, WriteEnqueue, ReadCheck, ReadDequeue, WLUSync, WLUEnqueue

LEMMA ClientInvariant == ASSUME ClientAssumption PROVE Spec => []ClientInv
<1>1. Init => ClientInv
  <2> SUFFICES ASSUME Init PROVE ClientInv OBVIOUS
  <2>1. RunInv BY DEF Init, RunInv
  <2> QED BY <2>1, InitTypeOK, InitStream, InitEnd, InitWire, InitRelay
          DEF ClientInv
<1>2. ClientInv /\ [Next]_vars => ClientInv'
  BY ControlOKStep, TagsOKStep, RelayOKStep, StreamStep, EndStep, WireStep,
     LostStep, RunStep DEF ClientInv, TypeOK
<1> QED BY <1>1, <1>2, PTL DEF Spec

-----------------------------------------------------------------------------
(* Each step of the client is one of the relay, or none at all.            *)
LEMMA RelayStep ==
  ASSUME ClientInv, [Next]_vars PROVE [Relay!Next]_(Relay!relayVars)
<1> USE DEF Phase, ExitLocations
<1> DEFINE Same == UNCHANGED <<Phase, bHasError, killed, RequestQueue, written,
                               ResponseQueue, accepted, made>>
<1>0. /\ TypeOK /\ EndInv /\ WireInv /\ RunInv
      /\ made \in [Sources -> Nat]
  BY DEF ClientInv, TypeOK, RelayOK
<1>1. CASE Same BY <1>1 DEF Relay!relayVars
<1>2. CASE Login \/ OpenStream \/ AwaitConfig \/ CheckLoop \/ PollTimeout
  BY <1>1, <1>2 DEF Login, OpenStream, AwaitConfig, CheckLoop, PollTimeout,
     BeginSetError, flagVars, wireVars, queueVars, apiVars
<1>3. CASE AwaitOpen
  <2>1. CASE bHasError' = bHasError
    BY <1>1, <1>3, <2>1 DEF AwaitOpen, queueVars, apiVars
  <2>2. CASE bHasError' # bHasError
    <3>1. Relay!Fail
      BY <1>0, <1>3, <2>2 DEF AwaitOpen, OpenError, queueVars, apiVars, Relay!Fail, TypeOK,
         ControlOK
    <3> QED BY <3>1 DEF Relay!Next
  <2> QED BY <2>1, <2>2
<1>4. CASE Configure
  <2>1. Relay!Configure
    BY <1>0, <1>4 DEF Configure, StreamWrite, WireInv, flagVars, queueVars,
       apiVars, Relay!Configure
  <2> QED BY <2>1 DEF Relay!Next
<1>5. ASSUME NEW flag \in ErrorFlags, StoreErrorFlag(flag)
      PROVE  [Relay!Next]_(Relay!relayVars)
  <2>1. CASE bHasError' = bHasError
    BY <1>1, <1>5, <2>1 DEF StoreErrorFlag, queueVars, apiVars
  <2>2. CASE bHasError' # bHasError
    <3>1. Relay!Fail
      BY <1>0, <1>5, <2>2 DEF StoreErrorFlag, queueVars, apiVars, Relay!Fail,
         TypeOK, ControlOK
    <3> QED BY <3>1 DEF Relay!Next
  <2> QED BY <2>1, <2>2
<1>6. CASE StoreErrorMessage
  <2>1. CASE call = "none"
    <3>1. Relay!Close
      BY <1>0, <1>6, <2>1 DEF StoreErrorMessage, EndInv, queueVars, apiVars,
         Relay!Close
    <3> QED BY <3>1 DEF Relay!Next
  <2>2. CASE call # "none"
    BY <1>1, <1>6, <2>2 DEF StoreErrorMessage, queueVars, apiVars
  <2> QED BY <2>1, <2>2
<1>7. CASE TryWrite
  <2>1. CASE CanWrite /\ RequestQueue # <<>>
    <3>1. Relay!Transmit
      BY <1>0, <1>7, <2>1 DEF TryWrite, StreamWrite, WireInv, flagVars,
         apiVars, Relay!Transmit
    <3> QED BY <3>1 DEF Relay!Next
  <2>2. CASE ~(CanWrite /\ RequestQueue # <<>>)
    BY <1>1, <1>7, <2>2 DEF TryWrite, NoOp, flagVars, apiVars
  <2> QED BY <2>1, <2>2
<1>8. CASE TryRead \/ Drain
  BY <1>1, <1>8 DEF TryRead, Drain, StreamRead, NoOp, flagVars, queueVars, apiVars
<1>9. CASE PollEvent
  <2>1. CASE Relays(Event)
    <3>1. received = made["slu"] + 1
      <4>1. Event.kind = "read" /\ Event.ok
        BY <1>9, <2>1, RelayedIsRead DEF ClientInv
      <4>2. GotEvent /\ pc = "poll" BY <1>9 DEF PollEvent
      <4>3. ReadReady
        <5>1. 1 \in DOMAIN ready /\ Event = ready[1]
          BY <1>0, <4>2, EventTyped DEF TypeOK, TagsOK, Event
        <5> QED BY <4>1, <5>1 DEF ReadReady
      <4> QED BY <4>2, <4>3 DEF ClientInv, NoMessageLost
    <3>2. Phase = "open" /\ Phase' = "open" /\ ~bHasError
      BY <1>0, <1>9 DEF PollEvent, BeginSetError, RunInv, Running
    <3>3. made' = [made EXCEPT !["slu"] = @ + 1] /\ made'["slu"] = received
      BY <1>0, <1>9, <2>1, <3>1 DEF PollEvent, Sources
    <3>4. Relay!Relayed("slu")
      BY <1>9, <2>1, <3>2, <3>3 DEF PollEvent, Relay!Relayed
    <3> QED BY <3>4 DEF Relay!Next, Sources
  <2>2. CASE ~Relays(Event)
    BY <1>1, <1>9, <2>2 DEF PollEvent, BeginSetError
  <2> QED BY <2>1, <2>2
<1>10. CASE BeginExit
  <2>1. Relay!Close
    BY <1>0, <1>10 DEF BeginExit, EndInv, flagVars, queueVars, apiVars, Relay!Close
  <2> QED BY <2>1 DEF Relay!Next
<1>11. CASE DrainWait \/ Finish \/ FinishWait \/ ShutdownQueue
  BY <1>1, <1>11 DEF DrainWait, Finish, FinishWait, ShutdownQueue, flagVars,
     wireVars, queueVars, apiVars
<1>12. CASE DrainQueue
  <2>1. CASE pc' = pc
    BY <1>1, <1>12, <2>1 DEF DrainQueue, flagVars, queueVars, apiVars
  <2>2. CASE pc' # pc
    <3>1. Relay!Close
      BY <1>0, <1>12, <2>2 DEF DrainQueue, EndInv, flagVars, queueVars, apiVars,
         Relay!Close
    <3> QED BY <3>1 DEF Relay!Next
  <2> QED BY <2>1, <2>2
<1>13. ASSUME NEW caller \in Callers, WriteEnqueue(caller)
       PROVE  [Relay!Next]_(Relay!relayVars)
  <2>1. UNCHANGED clientVars BY <1>13 DEF WriteEnqueue
  <2>2. Relay!Submit
    BY <1>13, <2>1, ClientUnchanged DEF WriteEnqueue, Relay!Submit
  <2> QED BY <2>2 DEF Relay!Next
<1>14. CASE ReadDequeue
  <2>1. UNCHANGED clientVars BY <1>14 DEF ReadDequeue
  <2>2. CASE ResponseQueue = <<>>
    BY <1>1, <1>14, <2>1, <2>2, ClientUnchanged DEF ReadDequeue
  <2>3. CASE ResponseQueue # <<>>
    <3>1. Relay!Consume
      BY <1>14, <2>1, <2>3, ClientUnchanged DEF ReadDequeue, Relay!Consume
    <3> QED BY <3>1 DEF Relay!Next
  <2> QED BY <2>2, <2>3
<1>15. CASE WLUEnqueue
  <2>1. UNCHANGED clientVars BY <1>15 DEF WLUEnqueue
  <2>2. made'["wlu"] = made["wlu"] + 1
    BY <1>0, <1>15 DEF WLUEnqueue, Sources
  <2>3. Relay!Relayed("wlu")
    BY <1>15, <2>1, <2>2, ClientUnchanged DEF WLUEnqueue, Relay!Relayed
  <2> QED BY <2>3 DEF Relay!Next, Sources
<1>16. CASE Stop
  <2>1. /\ ~killed /\ killed' = TRUE
        /\ UNCHANGED <<pc, bHasError, queueVars, accepted, made, written>>
    BY <1>16 DEF Stop, CallsMayBegin
  <2>2. Relay!Stopped
    BY <1>1, <2>1 DEF queueVars, Relay!Stopped
  <2> QED BY <2>2 DEF Relay!Next
<1>17. CASE \/ \E caller \in Callers : WriteCheck(caller)
            \/ ReadCheck \/ \E count \in 1..MaxFakes : WLUSync(count)
  <2>1. UNCHANGED clientVars /\ UNCHANGED queueVars
        /\ UNCHANGED <<killed, accepted, made>>
    BY <1>17 DEF WriteCheck, ReadCheck, WLUSync
  <2> QED BY <1>1, <2>1, ClientUnchanged DEF queueVars
<1>18. CASE CompleteOp \/ ServerSends \/ CallEnds \/ DeadlinePasses
  <2>1. UNCHANGED <<pc, flagVars, written, queueVars, apiVars>>
    BY ONLY <1>18 DEF CompleteOp, CompleteKind, Complete, ServerSends, CallEnds,
       DeadlinePasses
  <2> QED BY <1>1, <2>1 DEF flagVars, queueVars, apiVars
<1>19. CASE UNCHANGED vars
  BY <1>1, <1>19, ClientUnchanged DEF vars, queueVars, apiVars
<1> QED
  BY <1>2, <1>3, <1>4, <1>5, <1>6, <1>7, <1>8, <1>9, <1>10, <1>11, <1>12,
     <1>13, <1>14, <1>15, <1>16, <1>17, <1>18, <1>19
     DEF Next, ThreadStep, CallerStep, Joined

(* Whatever its threads do, the client is two relays that work until it    *)
(* fails or is stopped; the session is modelled on top of that.            *)
THEOREM ClientIsRelay ==
  ASSUME ClientAssumption PROVE Spec => ImplementsRelay
<1>1. Init => Relay!Init
  BY DEF Init, Relay!Init, Phase, ExitLocations
<1>2. ClientInv /\ [Next]_vars => [Relay!Next]_(Relay!relayVars)
  BY RelayStep
<1> QED BY <1>1, <1>2, ClientInvariant, PTL DEF Spec, ImplementsRelay, Relay!Spec

-----------------------------------------------------------------------------
(* The stream.  A kind of operation has begun when its op set was used.    *)
Finishing == pc \in {"finish_wait", "shutdown", "cq_drain", "ended"}

LEMMA BegunSame ==
  ASSUME UNCHANGED <<written, LastReadSeq>>,
         call' = "none" <=> call = "none",
         call # "none" => (Finishing' <=> Finishing)
  PROVE  Begun' = Begun
BY DEF Begun, Finishing

(* Nothing of the contract happens.                                        *)
LEMMA Stutters ==
  ASSUME UNCHANGED <<call, pending, ready, cqShutdown>>, Begun' = Begun
  PROVE  UNCHANGED Stream!contractVars
BY DEF Stream!contractVars

(* Taking an event off the queue.                                          *)
LEMMA EventReturned ==
  ASSUME GotEvent, UNCHANGED <<call, cqShutdown>>, Begun' = Begun
  PROVE  Stream!Return
BY DEF GotEvent, Stream!Return

(* What is outstanding, from where the thread is.                          *)
LEMMA FreeSets ==
  ASSUME ClientInv
  PROVE  /\ pc = "open" => Outstanding = {}
         /\ pc = "configure" => Outstanding = {}
         /\ pc # "open_wait" => \A op \in Outstanding : op.kind # "open"
         /\ bWriteAllowed => \A op \in Outstanding : op.kind # "write"
         /\ bReadAllowed => \A op \in Outstanding : op.kind # "read"
         /\ ~Finishing => \A op \in Outstanding : op.kind # "finish"
         /\ \A op \in Outstanding : op.kind \in Kinds
<1>1. \A op \in Outstanding : op \in InPlace
  BY DEF ClientInv, StreamInv, OpStates
<1> QED BY <1>1 DEF InPlace, Operations, Finishing

(* An operation of an op set that is free, with a new tag.                 *)
LEMMA OperationBegins ==
  ASSUME ClientInv, NEW kind \in Kinds, StartOp(kind), UNCHANGED ready,
         ~cqShutdown, UNCHANGED cqShutdown,
         \A op \in Outstanding : Stream!OpSet(op.kind) # Stream!OpSet(kind),
         pc # "open_wait",
         kind = "open" <=> Begun = {},
         kind \in {"write", "finish"} => "finish" \notin Begun,
         Begun' = Begun \union {kind},
         call' = IF kind = "open" THEN "live" ELSE call
  PROVE  Stream!Next
<1>1. Outstanding = Stream!Unreturned BY DEF Outstanding, Stream!Unreturned
<1>2. OpSeq \in Nat BY DEF ClientInv, TypeOK, TagsOK
<1>3. \A op \in Outstanding : op.tag <= OpSeq /\ op.tag \in Nat
  BY DEF ClientInv, StreamInv, OpStates, InPlace, Operations, Tags
<1>4. \A op \in Stream!Unreturned : op.tag # NextTag
  BY <1>1, <1>2, <1>3 DEF NextTag
<1>5. Begun \subseteq Kinds BY DEF Begun
<1>6. Stream!MayBegin(kind)
  BY <1>1, <1>5, FreeSets DEF Stream!MayBegin, Stream!Writes, Stream!Last, Kinds
<1> DEFINE op == [kind |-> kind, tag |-> NextTag]
<1>7. pending' = pending \union {op} BY DEF StartOp
<1>8. op.kind = kind /\ op.tag = NextTag OBVIOUS
<1>9. op \notin pending
  BY <1>4, <1>8 DEF Stream!Unreturned
<1>10. op \in pending' \ pending BY <1>7, <1>9
<1>11. Stream!Begin(kind, NextTag)
  BY <1>4, <1>6, <1>7 DEF Stream!Begin
<1>12. Stream!Begin(op.kind, op.tag) BY <1>8, <1>11
<1> HIDE DEF op
<1> QED BY <1>10, <1>12 DEF Stream!Next

(* Each step of the client is one of the contract, or none at all.         *)
LEMMA UseStep ==
  ASSUME ClientInv, [Next]_vars PROVE [Stream!Next]_(Stream!contractVars)
<1> DEFINE Use  == [Stream!Next]_(Stream!contractVars)
           Same == UNCHANGED <<written, LastReadSeq, call>>
<1>0. /\ TypeOK /\ EndInv /\ WireInv /\ RunInv
      /\ OpSeq \in Nat /\ LastReadSeq \in 0..OpSeq /\ call \in {"none", "live", "dead"}
  BY DEF ClientInv, TypeOK, TagsOK, ControlOK
<1>1. ASSUME Same, call # "none" => (Finishing' <=> Finishing),
             UNCHANGED <<pending, ready, cqShutdown>>
      PROVE  Use
  BY <1>1, BegunSame, Stutters
<1>2. ASSUME Same, Finishing' <=> Finishing, GotEvent, UNCHANGED cqShutdown
      PROVE  Use
  BY <1>2, BegunSame, EventReturned DEF Stream!Next
<1>3. CASE Login \/ CheckLoop \/ PollTimeout \/ StoreErrorMessage
  BY <1>1, <1>3 DEF Login, CheckLoop, PollTimeout, StoreErrorMessage,
     BeginSetError, Finishing, opVars, cqVars, exitVars, wireVars
<1>4. ASSUME NEW flag \in ErrorFlags, StoreErrorFlag(flag) PROVE Use
  BY <1>1, <1>4 DEF StoreErrorFlag, Finishing, opVars, cqVars, exitVars, wireVars
<1>5. CASE OpenStream
  <2>1. call = "none" /\ written = <<>> /\ LastReadSeq = 0
    BY <1>0, <1>5 DEF OpenStream, EndInv, WireInv, RunInv
  <2>2. Begun = {} BY <2>1 DEF Begun
  <2>3. Begun' = {"open"}
    BY <1>5, <2>1 DEF OpenStream, Begun, Kinds
  <2>4. Outstanding = {} BY <1>5, FreeSets DEF OpenStream
  <2> QED
    BY <1>0, <1>5, <2>2, <2>3, <2>4, OperationBegins
       DEF OpenStream, RunInv, exitVars, Kinds, Stream!Next
<1>6. CASE Configure
  <2>1. call # "none" /\ written = <<>> /\ ~cqShutdown
    BY <1>0, <1>6 DEF Configure, EndInv, WireInv, RunInv
  <2>2. "open" \in Begun /\ "finish" \notin Begun
    BY <1>6, <2>1 DEF Configure, Begun, Kinds
  <2>3. Begun' = Begun \union {"write"}
    <3>1. written' # <<>> /\ UNCHANGED <<LastReadSeq, call>>
          /\ ~Finishing' /\ ~Finishing
      BY <1>6, <2>1 DEF Configure, StreamWrite, wireVars, Finishing
    <3> QED BY <3>1 DEF Begun, Kinds, Finishing
  <2>4. Outstanding = {} BY <1>6, FreeSets DEF Configure
  <2> QED
    BY <1>6, <2>1, <2>2, <2>3, <2>4, OperationBegins
       DEF Configure, StreamWrite, exitVars, wireVars, Kinds
<1>7. ASSUME CanRead, StreamRead, UNCHANGED <<call, ready, cqShutdown>>,
             pc \in {"try_read", "drain"}, ~Finishing'
      PROVE  Use
  <2>1. call # "none" /\ ~cqShutdown
    BY <1>0, <1>7 DEF EndInv, RunInv
  <2>2. "open" \in Begun BY <2>1 DEF Begun, Kinds
  <2>3. Begun' = Begun \union {"read"}
    <3>1. LastReadSeq' > 0 /\ UNCHANGED <<written, call>> /\ ~Finishing
      BY <1>0, <1>7 DEF StreamRead, NextTag, Finishing
    <3> QED BY <1>7, <3>1 DEF Begun, Kinds, Finishing
  <2>4. \A op \in Outstanding : Stream!OpSet(op.kind) # Stream!OpSet("read")
    BY <1>7, FreeSets DEF CanRead, Stream!OpSet, Stream!Writes, Kinds
  <2> QED
    BY <1>7, <2>1, <2>2, <2>3, <2>4, OperationBegins DEF StreamRead, Kinds
<1>8. CASE TryRead
  <2>1. CASE CanRead
    BY <1>7, <1>8, <2>1 DEF TryRead, exitVars, wireVars, Finishing
  <2>2. CASE ~CanRead
    BY <1>1, <1>8, <2>2 DEF TryRead, NoOp, opVars, exitVars, wireVars, Finishing
  <2> QED BY <2>1, <2>2
<1>9. CASE Drain
  <2>1. CASE CanRead
    BY <1>7, <1>9, <2>1 DEF Drain, exitVars, wireVars, Finishing
  <2>2. CASE ~CanRead
    BY <1>1, <1>9, <2>2 DEF Drain, NoOp, opVars, exitVars, wireVars, Finishing
  <2> QED BY <2>1, <2>2
<1>10. CASE TryWrite
  <2>1. CASE CanWrite /\ RequestQueue # <<>>
    <3>1. /\ call # "none" /\ ~cqShutdown /\ written # <<>>
          /\ written \in Seq(Nat)
      BY <1>0, <1>10 DEF TryWrite, EndInv, RunInv, WireInv, TypeOK, RelayOK
    <3>2. "open" \in Begun /\ "finish" \notin Begun /\ "write" \in Begun
      BY <1>10, <3>1 DEF TryWrite, Begun, Kinds
    <3>3. Begun' = Begun
      <4>1. written' # <<>> /\ UNCHANGED <<LastReadSeq, call>>
            /\ ~Finishing' /\ ~Finishing
        BY <1>10, <2>1, <3>1 DEF TryWrite, StreamWrite, wireVars, Finishing
      <4> QED BY <3>1, <4>1 DEF Begun, Finishing
    <3>4. \A op \in Outstanding : Stream!OpSet(op.kind) # Stream!OpSet("write")
      BY <1>10, <2>1, FreeSets DEF TryWrite, CanWrite, Stream!OpSet,
         Stream!Writes, Kinds
    <3>5. Begun' = Begun \union {"write"} BY <3>2, <3>3
    <3> QED
      BY <1>10, <2>1, <3>1, <3>2, <3>4, <3>5, OperationBegins
         DEF TryWrite, StreamWrite, exitVars, wireVars, Kinds
  <2>2. CASE ~(CanWrite /\ RequestQueue # <<>>)
    BY <1>1, <1>10, <2>2 DEF TryWrite, NoOp, opVars, exitVars, wireVars, Finishing
  <2> QED BY <2>1, <2>2
<1>11. CASE AwaitOpen \/ AwaitConfig \/ PollEvent
  BY <1>2, <1>11 DEF AwaitOpen, AwaitConfig, PollEvent, BeginSetError, HandleTag,
     opVars, exitVars, wireVars, Finishing
<1>12. CASE BeginExit
  <2>1. call # "none" /\ UNCHANGED <<pending, ready, cqShutdown>>
        /\ UNCHANGED <<written, LastReadSeq>> /\ ~Finishing /\ ~Finishing'
    BY <1>0, <1>12 DEF BeginExit, EndInv, opVars, cqVars, exitVars, Finishing
  <2>2. CASE call' = call BY <1>1, <2>1, <2>2
  <2>3. CASE call' # call
    <3>1. call = "live" /\ call' = "dead" BY <1>0, <1>12, <2>1, <2>3 DEF BeginExit
    <3>2. Begun' = Begun BY <2>1, <3>1, BegunSame
    <3>3. Stream!Die BY <2>1, <3>1, <3>2 DEF Stream!Die
    <3> QED BY <3>3 DEF Stream!Next
  <2> QED BY <2>2, <2>3
<1>13. CASE DrainWait \/ FinishWait \/ DrainQueue
  <2>1. Same /\ UNCHANGED cqShutdown /\ (Finishing' <=> Finishing)
    BY <1>13 DEF DrainWait, FinishWait, DrainQueue, HandleTag, opVars, exitVars,
       wireVars, Finishing
  <2>2. GotEvent \/ UNCHANGED <<pending, ready>>
    BY <1>13 DEF DrainWait, FinishWait, DrainQueue, TimedOut, QueueDrained
  <2> QED BY <1>1, <1>2, <2>1, <2>2
<1>14. CASE Finish
  <2>1. call # "none" /\ ~cqShutdown /\ ~Finishing /\ Finishing'
    BY <1>0, <1>14 DEF Finish, EndInv, RunInv, Finishing
  <2>2. "open" \in Begun /\ "finish" \notin Begun
    BY <2>1 DEF Begun, Finishing, Kinds
  <2>3. Begun' = Begun \union {"finish"}
    <3>1. UNCHANGED <<written, LastReadSeq, call>>
      BY <1>14 DEF Finish, wireVars
    <3> QED BY <2>1, <3>1 DEF Begun, Finishing, Kinds
  <2>4. \A op \in Outstanding : Stream!OpSet(op.kind) # Stream!OpSet("finish")
    BY <2>1, FreeSets DEF Stream!OpSet, Stream!Writes, Kinds
  <2> QED
    BY <1>14, <2>1, <2>2, <2>3, <2>4, OperationBegins
       DEF Finish, exitVars, wireVars, Kinds
<1>15. CASE ShutdownQueue
  <2>1. Begun' = Begun
    BY <1>15, BegunSame DEF ShutdownQueue, opVars, wireVars, Finishing
  <2>2. Stream!Shutdown
    BY <1>0, <1>15, <2>1 DEF ShutdownQueue, RunInv, opVars, wireVars,
       Stream!Shutdown
  <2> QED BY <2>2 DEF Stream!Next
<1>16. ASSUME NEW op \in pending, NEW ok \in BOOLEAN, Complete(op, ok) PROVE Use
  <2>1. Begun' = Begun
    BY <1>16, BegunSame DEF Complete, opVars, Finishing
  <2>2. Stream!End(op, ok)
    BY <1>16, <2>1 DEF Complete, MayComplete, exitVars, Stream!End, Stream!MayEnd
  <2> QED BY <2>2 DEF Stream!Next
<1>17. CASE CallEnds
  <2>1. Begun' = Begun
    BY <1>17, BegunSame DEF CallEnds, opVars, Finishing
  <2>2. Stream!Die
    BY <1>17, <2>1 DEF CallEnds, cqVars, exitVars, Stream!Die
  <2> QED BY <2>2 DEF Stream!Next
<1>18. CASE ServerSends \/ DeadlinePasses \/ Stop
  BY <1>1, <1>18 DEF ServerSends, DeadlinePasses, Stop, opVars, cqVars, exitVars,
     wireVars, Finishing
<1>19. CASE UNCHANGED clientVars
  BY <1>1, <1>19, ClientUnchanged DEF Finishing
<1> QED
  BY <1>3, <1>4, <1>5, <1>6, <1>8, <1>9, <1>10, <1>11, <1>12, <1>13, <1>14,
     <1>15, <1>16, <1>17, <1>18, <1>19
     DEF Next, ThreadStep, CallerStep, CompleteOp, CompleteKind, Joined, vars,
         WriteCheck, WriteEnqueue, ReadCheck, ReadDequeue, WLUSync, WLUEnqueue

(* In no run does the client break gRPC's contract for a stream: it opens  *)
(* it once and waits for that, has one operation of an op set outstanding, *)
(* writes nothing after Finish, and begins nothing after Shutdown.         *)
THEOREM ClientUsesStream ==
  ASSUME ClientAssumption PROVE Spec => UsesStream
<1>1. Init => Stream!Init
  BY DEF Init, Stream!Init, Begun
<1>2. ClientInv /\ [Next]_vars => [Stream!Next]_(Stream!contractVars)
  BY UseStep
<1> QED BY <1>1, <1>2, ClientInvariant, PTL DEF Spec, UsesStream, Stream!Spec

=============================================================================
