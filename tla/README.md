# Speechly for Unreal Engine: a verification project

TLA+ models of the Speechly plugin for Unreal Engine 4 (`src/Source/Speechly`),
their TLC runs, and theorems about them that TLAPS checks. The plugin records
the microphone, streams the audio over a bidirectional gRPC call to Speechly's
spoken language understanding service, and hands the results to the
application. Its difficulty is not in what it computes but in who does it: a
game thread, an audio thread, a client thread, gRPC and a server, which meet in
a few plain variables, two queues and one lock.

## The system

| part | files | state | operations |
| --- | --- | --- | --- |
| `SpeechlyClient` | `SpeechlyClient.{h,cpp}` | flags `bIsRunning`, `bHasError`, `ErrorMessage`; tags `Seq`, `LastWriteSeq`, `LastReadSeq`; permissions `bWriteAllowed`, `bReadAllowed`; one `Response`; `RequestQueue`, `ResponseQueue`; the gRPC stream and completion queue | `Init` (login), `Run`, `Exit` on its own thread; `Write`, `Read`, `WLUSync`, `HasError`, `Stop` from other threads |
| `USpeechly`, the session | `Speechly.{h,cpp}` | `Client`, `ClientThread`, `bIsBuffering`, `AudioBuffer`, `LastAudioContext`, the ticker, `SilenceCount` | `Connect`, `Start`, `Stop`, `Tick`, destructor on the game thread; `OnSpeechAudio` on the audio thread |
| `USpeechly`, the results | `Speechly.{h,cpp}` | `Responses`, `ContextToKeys` | `Tick`: assembles responses per segment and broadcasts them |
| `FSpeechRecorder` | `SpeechRecorder.{h,cpp}` | `bIsCapturing` under a lock, the left over samples in `Buffer`, `Filter`, `SampleRatio`, the audio device | `Start`, `Stop`; `OnAudioCapture` (audio thread) resamples to 16 kHz |
| conversion | `OnSpeechAudio` in `Speechly.cpp` | the scratch array `CharAudio` | scaling, clamping and narrowing to 16 bits |
| the asynchronous stream | `GrpcIncludes`: `async_stream_impl.h`, `call_op_set.h`, `completion_queue_impl.h` | four op sets that every call reuses, their tags, references to the call | `StartCall`, `Read`, `Write`, `WritesDone`, `Finish`, `ReadInitialMetadata`; `CompletionQueue::Next`, `Shutdown` |
| module entry, build files | `SpeechlyModule.cpp`, `Speechly.Build.cs` | none | |
| protocol | `protos/` | none | what client and server may say to each other |
| generated stubs, the rest of gRPC and protobuf | `*.pb.{h,cc}`, `GrpcIncludes`, `GrpcLibraries`, `GrpcPrograms` | | generated, vendored or binary, not modelled |

### How the parts interact

* `Connect` creates a client and a thread (`FRunnableThread::Create`, which
  returns when the client's `Init` has logged in or failed) and registers a
  ticker. `Kill(true)` calls the client's `Stop()` and joins the thread.
* The game thread writes START and STOP, the audio thread writes AUDIO: both
  end in `RequestQueue`, which the client thread dequeues and puts on the
  stream one at a time. The client thread enqueues what it reads in
  `ResponseQueue`; so does the game thread, in `WLUSync`. `Tick` dequeues.
* `bHasError` and `bIsRunning` are plain variables that every thread reads.
* The recorder's lock is held for the whole of `OnAudioCapture`, including
  `OnSpeechAudio`; `Start` and `Stop` of the recorder take it. `bIsBuffering`
  and `AudioBuffer` are used on both threads with nothing but that gate.
* `Tick` reads `started`, which ends buffering, and `finished`, which may stop
  the recorder.
* Each call of the client thread on the stream turns one of its four op sets
  into a batch for the core of gRPC and returns at once; a finished batch is an
  event of the completion queue, and only taking it from there makes the op set
  ready for the next call.

### What is hard about it

1. gRPC allows one outstanding read and one write per stream. The permissions
   must follow the completion queue through `Run` and through `Exit`.
2. The ways a client ends: failed login, failed open, failed configuration,
   failed read or write, `Kill`; each with operations outstanding, and with
   `Exit` giving up at a deadline.
3. Requests of two threads, responses of two producers, in order, once.
4. The audio of an utterance against its START, STOP and `started`, which
   happen on three threads: none before START, none behind STOP, none lost,
   none in another utterance.
5. Late responses: `started` and `finished` of the previous utterance.
6. The client failing in the middle of any call.
7. Results that arrive in batches and interleaved contexts, and handlers that
   connect again in the middle of a Tick.
8. Resampling by a ratio that is no integer, in pieces of any size: where one
   piece ends, the next goes on as if there were no seam.
9. Op sets that are used again: what a call leaves in one goes out again with
   the next.

### What makes each part correct

* `SpeechlyClient`: gRPC's contract is kept; requests reach the stream once and
  in order; responses reach `Read` once and in order; it never ends silently;
  `Kill` returns; a call that is over is left behind without waiting for the
  deadline, and with nothing of the client in gRPC.
* Session: well-formed contexts (START, AUDIO..., STOP); an utterance's audio
  is unbroken and its own, and sent whole or not at all; no late `finished`
  stops a recording the server has acknowledged; a lost connection is reported
  once; buffering ends.
* Results: what is told is what was read, whatever the batches, and only grows
  until it is final; nothing is kept of a finished context.
* Recorder: the resampler reads within its buffer; its output goes on evenly
  across captures, does not drift, has nothing of an earlier recording, and is
  passed on whole and faithful to a 16 bit sample.
* Stream: for a caller that keeps the contract no batch is refused, nothing is
  sent twice, and every operation's tag comes back once.

## The modules

| module | models | extends or instantiates |
| --- | --- | --- |
| `SpeechlyClient` | the client, gRPC and the server around it | `ClientRelay`, `StreamContract` (INSTANCE) |
| `ClientRelay` | what a client promises: two FIFO relays until it fails or is stopped | |
| `StreamContract` | what gRPC and the user of an asynchronous stream owe each other | |
| `MCClient` | instance of `SpeechlyClient` for TLC | `SpeechlyClient` |
| `SpeechlyClientProofs` | theorems about the client | `SpeechlyClient` |
| `ClientRefinementProofs` | the client implements `ClientRelay` and keeps its side of `StreamContract` | `SpeechlyClientProofs` |
| `Speechly` | the session with the recorder's gate, over such a client | `Dictation` (INSTANCE) |
| `Dictation` | what the session promises the server: one utterance at a time, sent whole or not at all | |
| `MCSession` | instance of `Speechly` for TLC | `Speechly` |
| `SpeechlyProofs` | theorems about the session | `Speechly` |
| `DictationProofs` | the session implements `Dictation`; how recordings end; what can make it undefined | `SpeechlyProofs` |
| `SpeechlyResponses` | the results | `ResultFeed` (INSTANCE) |
| `ResultFeed` | what the application is promised about results | |
| `MCResponses` | instance of `SpeechlyResponses` for TLC, with its symmetry | `SpeechlyResponses` |
| `SpeechlyResponsesProofs` | theorems about the results | `SpeechlyResponses` |
| `ResultFeedProofs` | the results implement `ResultFeed` | `SpeechlyResponsesProofs` |
| `SpeechRecorder` | the resampler and the conversion to 16 bits | |
| `MCRecorder` | instance of `SpeechRecorder` for TLC | `SpeechRecorder` |
| `SpeechRecorderProofs` | theorems about the recorder | `SpeechRecorder` |
| `GrpcStream` | the C++ side of gRPC's stream: op sets, batches, tags, events | `StreamContract` (INSTANCE) |
| `MCGrpcStream` | instance of `GrpcStream` for TLC | `GrpcStream` |
| `GrpcStreamProofs` | theorems about the stream | `GrpcStream` |

The modules meet in abstract specifications. `SpeechlyClient` implements
`ClientRelay`, and `Speechly` is built over what `ClientRelay` promises.
`GrpcStream` implements gRPC's side of `StreamContract`, and `SpeechlyClient`
keeps the user's side of it: what it does with the stream is within what the
stream was shown to handle. Two rules that one may expect are not in that
contract, because the client breaks them, which one run shows: that `Finish` is
not called next to other operations (the comments of gRPC's header and of `Exit`
ask for it), and that the queue is drained before it is shut down (the comment of
`Exit` asks for it, gRPC itself drains a queue after `Shutdown`). The second
(`ShutdownWhenDrained`) cannot be broken without the first. `GrpcStream` is shown to bear both. At the two outer ends, `Speechly` implements
`Dictation`, which is all a server sees of the threads, the lock and the
buffer, and `SpeechlyResponses` implements `ResultFeed`, which is all the
application sees of Ticks, batches and maps.

Operators whose name starts with `Bug` are faulty variants of the definition
they stand before, such as a plausible slip in the code would give. No
specification uses them. Each is what one property is tried against.

### SpeechlyClient

One action per access to state that another thread can see, and one per call
into gRPC, so that every interleaving that matters is there. `pc` is the place
of the client thread:

| code | actions |
| --- | --- |
| `Init` | `Login` |
| `Run`: open, configure | `OpenStream`, `AwaitOpen`, `Configure`, `AwaitConfig` |
| `Run`: loop | `CheckLoop`, `TryWrite`, `TryRead`, `PollEvent`, `PollTimeout` |
| `SetError` | `StoreErrorFlag` (either flag first), `StoreErrorMessage` |
| `Exit` | `BeginExit`, `Drain`, `DrainWait`, `Finish`, `FinishWait`, `ShutdownQueue`, `DrainQueue` |
| `Write` | `WriteCheck`, `WriteEnqueue` (any caller) |
| `Read`, `WLUSync`, `Stop` | `ReadCheck`, `ReadDequeue`; `WLUSync`, `WLUEnqueue`; `Stop` |
| gRPC, server (external) | `Complete`, `CallEnds`, `ServerSends`; `DeadlinePasses` |

`pending` and `ready` are the operations gRPC holds: started, and completed but
not yet taken from the completion queue. An operation fails only on a dead
call, but for a read whose message does not parse (`GrpcStream` shows where that
comes from); a read succeeds only with a message, and one that does not parse is
gone as well; a finish completes once the call is dead. A call dies when `Exit` cancels it or at any time by itself. After that
it may still complete operations, in any order. Messages are numbers: accepted
requests 1, 2, ..., the configuration 0, responses per source. The branches for
SHUTDOWN in the open, the configuration and the loop are left out: nobody shuts
the queue down before `Exit`.

### Speechly

`game` is the place of the game thread within a call, `audio` that of the audio
thread within `OnAudioCapture` (not idle means it holds the lock). The client
is the promise of `ClientRelay`: what `Write` accepts is `uplink`, in order;
what the client has relayed is `downlink`; its flags change at any time. A
chunk is the utterance and its number in it. An audio context has the number
of its utterance.

| code | actions |
| --- | --- |
| `Connect` | `Connect`, `Reconnect` |
| destructor | `Destroy`, `KillThread` |
| `Start` | `Start`, `StartRecorder`, `StartWrite`, `ResetClient`, `StartStop` |
| `Stop` | `Stop`, `StopCheck`, `StopWrite`, `ResetClient` |
| `Tick` | `TickDisconnected`; `Tick`, `TickRead`, `HandleStarted`, `HandleFinished`, `TickEnd` |
| `OnAudioCapture`, `OnSpeechAudio` | `OnAudioCapture`, `RouteAudio`, `SendAudio` |
| client thread | `ErrorSeen`, `StopSeen`, `ThreadEnds` |
| server (external) | `SayStarted`, `SayFinished` |

Two assumptions about the application: it makes one call at a time, on the game
thread (Unreal objects are not to be used otherwise), and it starts an
utterance only after it has stopped the one before, and stops only what it
started (`Speechly.h`: "start a new recording and stop the current
recording"). About the server: contexts start
in the order of their STARTs; a `finished` follows its `started`, at a STOP or
before; messages for the previous context may come after the next `started`, as
slu.proto says of `SLUStarted`. Where the code goes on to undefined behaviour
(it frees the client under its running thread, or uses the null pointer) the
model sets `ub` and stops: properties are about what happens up to there, and
`ClientOutlivesThread` about how it gets there.

`SendText` is not an action here: it only adds responses of a context of its
own to the client's queue (`WLUSync` in `SpeechlyClient`), which `Tick` hands to
the results. `SilenceCount` is not modelled, it is only logged. Opening the audio device is
taken to succeed; a `verifyf` ends the program otherwise.

### SpeechlyResponses

`phase` is the place of the game thread within `Tick`; the sets `ChangedKeys`,
`FinishedContexts` and `Errors` are what the Tick has still to do.

| code | definitions |
| --- | --- |
| `Tick`: reads | `Tick`, `Read`, `EndReads`; `HandleTranscript`, `HandleEntity`, `HandleIntent`, `HandleSegmentEnd`, `HandleFinished`, `HandleTentative` |
| `KeyOfMessage`, `FindOrAdd` | `Change`, `Found` |
| `Tick`: broadcasts | `Broadcast`, `BroadcastError` (one step for each, in any order) |
| `Tick`: finished contexts | `Forget`, `Forgotten` |
| `Connect` | `Connect`, between Ticks or from a handler of a broadcast |
| client, server (external) | `ClientFails`, `Server` |

Handlers run within the Tick that broadcasts, and one may call `Connect`: then
`Responses` and `ContextToKeys` are emptied while the Tick goes on with its own
sets. What else a handler may call (`Start`, `Stop`) does not touch the results,
except that it may lose the client, which is `ClientFails`. A Tick reads at most
`MaxReads` responses and stops early when there are none or the client has
failed. The reference is `AmountsTo`: what all messages that were read about a
segment amount to, as a property of a set of messages, with no notion of a Tick.
Entities are a map with one value for each entity type, as in the code: a second
entity of a type replaces the first. Contexts that `WLUSync` makes up are
contexts without a segment end. A server that breaks slu.proto and goes on after
a segment's end is left out: the code merges such messages into the final
response and broadcasts it again.

### SpeechRecorder

`Start`, `Stop` and `OnAudioCapture` hold the recorder's lock, so each is one
step; that they exclude each other is in `Speechly`. A frame is the number of
its place in what the device has heard, an output sample the frame its filter
window starts with and a level, which stands for the filtered value: properties
are about which frames are used, not about the sound.

| code | definitions |
| --- | --- |
| `FSpeechRecorder::Start`, `Stop` | `Start`, `Stop` |
| `OnAudioCapture` | `Capture`, `OnAudioCapture`; `OutputLength`, `Offset`, `RemainingOffset`, `LeftOver` |
| `OnSpeechAudio`, conversion | `OnSpeechAudio`; `Scaled`, `Clamp`, `Int16`, `Overwrite` |

`SampleRatio` is a `float` in the code and a fraction in the model. For a
buffer of 1024 new frames behind up to 23 left over ones and rates from 8 kHz to
192 kHz, the products are far below 2^24 and the roundings agree; the
assumption on `Rates` (a step is shorter than the filter) holds up to 352 kHz.
Where an index would fall outside of an array, or a length is negative, the
model sets `ub` and stops. `ReadsInBuffer` says exactly when that can be.

### GrpcStream

One action per call of `ClientAsyncReaderWriter`, which the caller makes when
`StreamContract` allows it, in any order; one for `CompletionQueue::Next`; and
the core (a binary in `GrpcLibraries`) and the server as external actions. An op
set is the set of operations `AddOp` would add to the next batch: a setter adds
to it, `FinishOp` takes from it what it resets. That is why a forgotten reset,
or one too many, shows in a later call.

| code | definitions |
| --- | --- |
| `StartCall`, `Read`, `Write`, `WritesDone`, `Finish`, `ReadInitialMetadata` | actions of the same names; `WriteLast` for `Write` with options |
| `CallOpSet::FillOps`, `ContinueFillOpsAfterInterception` | `Perform`, `Refused`, `Referenced` |
| `CallOpSet::FinalizeResult`, the `FinishOp`s | `FinalizeResult`, `Kept`, `Status` |
| `CompletionQueue::Next`, `Shutdown`; `~ClientContext` | `NextEvent`, `Shutdown`, `ReleaseContext` |
| core, server (external) | `FinishBatch`, `CallDies`, `ServerSends` |

The refinement sees the stream as its caller does: `Pending` are the batches in
the core, under the tag of the call that was made; `Ready` are the events, under
the tag and the status `Next` will return. The two agree only if no tag is
overwritten. Two comments of the headers are narrower than their code:
`Finish` too asks for the initial metadata, so `ReadInitialMetadata` after it
fails an assertion; and a read can fail on a live call, when its message does
not parse. `StreamContract` has both as the code does. It asks the caller to wait
for the open before anything else, as the plugin does; gRPC would allow a read
next to it.

`ReleaseContext` waits for the operations that fill in the context. The plugin
can release its context with such operations still out, when `Exit` runs into
its deadline; that is not in this model. What the core does with them then is
not in the repository.

## The runs

All runs but `grpc_stream` check for deadlock: the only states without a proper
step are those where the client has ended and was killed, the object is gone, or
the program is undefined, and they have an explicit step of their own (`Joined`,
`Gone`, `Stopped`). The stream of `grpc_stream` may rest when its caller has no
more calls to make.

| run | instance | what it shows |
| --- | --- | --- |
| `client_safety` | 2 callers, 2 requests, 2 messages, 1 made-up response; 1.7 million states | the permissions `PermissionsExact`; the relays `RequestsInOrder`, `ResponsesInOrder`, `NoMessageLost`; the end `NoSilentDeath`; that the client implements `ClientRelay` (`ImplementsRelay`) and keeps the user's side of `StreamContract` (`UsesStream`), one read and one write at a time among it |
| `client_live` | 2 callers, 2 requests, 1 message, fair client thread; 129 thousand states | `ExitReturns`: by the deadline every wait of `Exit` ends, unless yet another message comes; `KillReturns`, `RequestsFlow`, if gRPC answers; `CancelledExitEnds`: if it does, `Exit` needs no deadline for a call that is over, and leaves nothing in gRPC |
| `client_shutdown_busy` | violation | `Finish` is called with operations outstanding, and the queue is shut down with the finish outstanding |
| `session` | 2 connections, 2 utterances of 2 chunks, 2 reads per Tick, fair; 424 thousand states | `ContextsWellFormed`, `GateClosed`, `AudioUnbroken`, `AudioKept`, `ReportedOnce`, `OwnFinishStops`; that the session implements `Dictation` (`ImplementsDictation`); `ErrorReported`, `BufferingEnds` |
| `session_stale_finish` | violation | the end of the previous context stops the new recording |
| `session_stale_started` | violation | a late `started` ends the next utterance's buffering |
| `session_unsent` | violation | an utterance stopped while it is buffered is never sent |
| `session_client_freed` | violation | the client is freed while its thread runs |
| `responses` | 2 contexts of 2 segments, 4 messages, 2 reads per Tick; 2 million states | `ToldIsAssembled`, `NothingKept`, `FinalToldOnce`, and that the results implement `ResultFeed` (`ImplementsFeed`) |
| `responses_open` | violation | open segments are told as final at `finished` |
| `recorder` | 4 rates, captures of 4 sizes, 2 recordings, 98 frames | `ReadsInBuffer`, `FreshAudio` (what is left over is new and never more than the filter is long), `EvenSteps`, `DriftBounded`, `OutputPassed` |
| `grpc_stream` | 5 calls, 2 messages; 442 thousand states | `NeverAborts`, `SentOnce`, `OpSetsLive`, `ReadsInOrder`, `QueueDrains`, and that the stream implements `StreamContract` (`ImplementsContract`) |

The violations are disagreements between the code and what its comments, its
header or slu.proto say; `PROJECT.json` quotes each.

### Bounds

* `MaxRequests`, `MaxMessages`, `MaxFakes` (`SpeechlyClient`): two requests are
  the least that can be reordered, and two callers the least that can be inside
  `Write` together; two messages the least of which one can be overwritten by
  the next read; a made-up response lets both producers meet. The tags are
  bounded by these: `Exit` starts a read for each message that still arrives.
  A server that sends without end is out of TLC's reach. `ExitReturns` and
  `KillReturns` do not lean on the bound: they say of each number of messages
  received that the thread ends or receives one more.
* `MaxConnects`, `MaxUtterances`, `MaxChunks`, `MaxReads` (`Speechly`): a second
  utterance meets what is late of the first, a second connection what is left
  of the first client; two chunks tell order and repetition; two reads let a
  Tick end both for want of responses and for its limit.
* `MaxMessages` (`SpeechlyResponses`): four messages are two segments, one of
  them ended, and the end of their context; or two contexts interleaved.
* `Rates`, `CaptureSizes`, `Levels` (`SpeechRecorder`): rates below, at and
  above that of the output, with a ratio that is no integer (441/160) and one
  where rounding meets a half (240/160); captures shorter than the filter, just
  longer than it, and long enough for several outputs; levels beyond both ends
  of the scale, one that is not a whole number of 16 bit steps, and silence.
  `MaxFrames` lets two long captures follow each other, or several short ones.
* `MaxCalls`, `MaxMessages` (`GrpcStream`): five calls are an open, a write and
  two that use its op set again, and a read or the finish next to them.

### Fairness

* `LiveSpec` of the client: the client thread is scheduled once it is past the
  login (a blocking call without a deadline that the model leaves to end or
  not). What else a property relies on is its hypothesis.
* `ClockRuns`, of `ExitReturns` and `KillReturns`: the monotonic clock reaches the
  deadline of `Exit`. What the two say "unless yet another message comes" for is
  real: `AsyncNext` returns an event, if there is one, also after the deadline,
  and after an error `Exit` does not cancel, so that a server that never stops
  sending keeps `Exit` in its loop.
* `Answers`, of `KillReturns`, `RequestsFlow` and `CancelledExitEnds`: gRPC
  completes each kind of operation that can complete, writes on a live call,
  anything on a dead one. It does not ask the server to send or end anything.
  Without it `Kill` need not return: the waits for the open and the
  configuration have no deadline. `CancelledExitEnds` has no `ClockRuns`: there
  the deadline need never pass.
* `GrpcStream`: the core finishes batches that it can finish, which on a dead
  call are all, and the caller takes events from the queue. gRPC documents the
  first, and `Exit` does the second.
* `FairSpec` of the session, for `ErrorReported` and `BufferingEnds` only, the
  rest of the run does not depend on it: calls return, the engine ticks, the audio callback
  goes on, the server answers a START, and a client that has stored one flag
  stores the other. The application need not call anything, nor the device
  capture. Taking the lock is fair because captures are bounded.

## The proofs

TLAPS proves the following for all values of the constants: any number of
callers, requests, messages, connections, utterances, chunks, captures and
calls, any rates and any length of the filter. Each module's named assumption is
all that is assumed of the constants. TLC checked each inductive invariant
before it was proved.

About the client (`SpeechlyClientProofs`):

* `TypeCorrect`: `TypeOK`, by one lemma for each of its three parts.
* `OneOpAtATime` and `TagsAreKnown`, from `TypeOK /\ StreamInv`.
  `OneOpPerDirection`, gRPC's rule in the client's own terms, and `NoUnknownTag`,
  that the branch for one is dead code, are proved only; the runs check
  `UsesStream`, which has the first, and `PermissionsExact`, which a read or
  write that came back unrecognised would break. Neither is inductive: that no second read is started follows
  from `bReadAllowed`, but what completes and sets it is known by its tag only.
  `StreamInv` says what an outstanding operation of each kind implies about
  tags, permissions and `pc` (`InPlace`), and that tags differ.
* `PermissionsAreExact` and `NeverWaitsInVain`, from `StreamInv` and the two
  properties together (`WaitInv`), which are inductive relative to it; the second
  is proved only. That an
  outstanding operation bars its direction is in `StreamInv`; this is the
  converse: a direction is barred only while its operation is outstanding, so a
  wait that starts nothing still waits for something. The three lemmas
  `HoldsStarted`, `HoldsTaken` and `HoldsCompleted` say what a call into gRPC, an
  event taken and a completion do to the kinds that are outstanding. This is
  the safety half of `KillReturns` and `RequestsFlow`: what is left to TLC is
  that gRPC answers and the thread runs.
* `NoDeathIsSilent`, from `TypeOK /\ EndInv`, which follows the error from where
  it is noticed to where the thread ends, past the moment where only one of the
  flags is stored.
* `RequestsKeepOrder`, from `TypeOK /\ WireInv`: the queue and the stream are
  one line of consecutive numbers. `SendHead` and `QueueNext` are what the two
  ends of the queue do to it.
* `NothingReadIsLost`, from the above: at most one read is completed and not
  yet taken, and the loop takes it before it starts the next.
* `ResponsesKeepOrder`, from `NoMessageLost`: the message that is relayed is the
  next one, so `EnqueueNext` and `DequeueHead` keep the order of each source.

What the client promises and asks (`ClientRefinementProofs`), from `ClientInv`,
the conjunction of the above with `RunInv` (no error while `Run` goes on, the
queue is shut down last):

* `ClientIsRelay`: the client implements `ClientRelay`; one step per action
  that moves a request, a response, the phase or a flag, the others stutter.
* `ClientUsesStream`: each call into gRPC is one `StreamContract` allows, which
  follows from what `StreamInv` knows of outstanding operations: the open is out
  only while `Run` waits for it.

About the session (`SpeechlyProofs`):

* `GateIsClosed`, from `GateInv`, which says of each place of the game thread
  whether the recorder may be on; `OneReport`, from `ReportInv`: a ticker that
  has reported is gone.
* `SessionTypes`, `ContextsAreWellFormed`, `AudioIsUnbroken`, `AudioIsKept`,
  from `SessionInv`. `FlowInv` and `PlaceInv` tie `active`, the gate and the
  place of both threads to the last request in `uplink`: an audio thread that is
  past its check holds the lock, and a STOP cannot be written before it is out.
  `NewInv` says that a new utterance has sent nothing, `KeptInv` that what is
  buffered is what follows the last chunk sent, whenever somebody may still
  send it, and that once some was sent nothing stays buffered.

About the session as the server sees it (`DictationProofs`), from the same
invariant:

* `SessionIsDictation`: over a working client an open context is the last one
  in `uplink`, and it is open exactly while a thread is in an utterance
  (`WhereItIs`). A STOP is written when the audio thread is out of
  `OnSpeechAudio`, so all that was captured is sent or all of it is buffered
  (`AllOrNothing`); that one chunk follows another before the first is sent is
  excluded by the lock. Of the actions only `Start`, `Reconnect`, `KillThread`,
  the two writes, the captures and the loss of the client are not stutters.
* `FinishStopsItsOwn`: a `finished` stops the recording it is about, or the
  `started` of that recording has not been handled yet. `UpOrder` says that the
  STARTs the server has not answered are those behind all it has said anything
  about, `DownOrder` that `started` comes back in the order of the contexts, so
  that `LastAudioContext` is the latest one whose `started` was handled. The
  action property `OnlyActiveFinishStops`, which would promise it always, is
  what the run `session_stale_finish` refutes.
* `OnlyResetUndefined`: `Client.Reset()` in `Start` and `Stop` is the one way
  into undefined behaviour. But for that step (`ResetFree` is the specification
  without it) no call, Tick or capture uses a client that is not there, in any
  order of the threads and wherever the client fails (`OwnedInv`).

About the results (`SpeechlyResponsesProofs`), all from one invariant `Inv`:

* The lemmas `AmountsTo...` say what one more message makes of the response a
  segment amounts to, for each kind of message; it must be newer than all before.
* `OrderInv` gives that: the queue is newer than what was read and keeps the
  server's protocol. `ResultInv` says of each segment that it is in `Responses`
  exactly if it was mentioned and not forgotten, as what it amounts to and,
  unless it is in `ChangedKeys`, as it was told; and that what is in
  `ChangedKeys` was not told as final. `IndexInv` ties `ContextToKeys` to it,
  `ContextInv` lets a Tick forget only what has finished or belongs to an earlier
  connection. From there `ToldWhatWasRead`, `FinishedIsForgotten`,
  `FinalIsToldOnce`, `ResultTypesCorrect`.

What the application is promised (`ResultFeedProofs`):

* `ResultsImplementFeed`: growth of a response is an order (`GrowsReflexive`,
  `GrowsTransitive`) and one more message makes a response grow, because it is
  newer than all before (`GrowsByMessage`). So whatever a Tick has read since,
  `Responses` has grown from what was told last, until that is final
  (`GrowInv`); `ErrorInv` ties the errors told to the contexts that are
  forgotten, of which nothing more is told.

About the recorder (`SpeechRecorderProofs`):

* The arithmetic first: `OutputLength`'s windows end within the buffer and
  leave at most `Taps` samples, for every rate the assumption allows.
* `ReadsStayInBuffer`, `AudioIsFresh`, `RecorderTypes`
  from `RecorderInv`. `EvenSteps` and `DriftBounded` speak of the outputs, but
  what makes them inductive is where the *next* window will start: `NextIsEven`
  and `NextIsNear` say that the first frame in `Buffer` is one step behind the
  last output and within the drift. From there `StepsAreEven`,
  `DriftIsBounded`.
* `OutputIsPassed`: `Clamp` and `Scaled` land within one step of the sample, for
  every level, and `Overwrite` leaves nothing of an earlier capture in what is
  passed on.

About the stream (`GrpcStreamProofs`), all from one invariant `Inv`:

* `BatchesAreAccepted`, `MessagesGoOutOnce`: `SetsInv` says that an op set whose
  event has been taken holds nothing but a receive, that one in use has the tag
  of the call that uses it, and that no batch has operations of another op set
  (the initial metadata excepted, which `OnceInv` shows to be asked for once).
* `ReadsComeInOrder`: `MessageInv` follows the messages: the next one a read will
  return is the next in number, and the inbox holds the rest, in order and none
  missing, among those that do not parse.
* `CallOutlivesBatches`: `RefsInv` counts the references: one of the context,
  one for each batch and each event.
* `StreamKeepsContract`: calls begin, batches end, events return, as
  `StreamContract` says. All calls are instances of one step (`Called`), so what
  a call does to the invariant is proved once.

What is only model-checked: liveness (`KillReturns`, `RequestsFlow`,
`ExitReturns`, `CancelledExitEnds`, `ErrorReported`, `BufferingEnds`, `QueueDrains`), which with
fairness and ENABLED is out of the prover's reach. Every invariant and every
action property of the passing runs is a theorem.

## Not modelled

* Generated code (`*.pb.{h,cc}`): one stereotyped class per message, with
  accessors, serialisation and reflection tables. The plugin's behaviour depends
  on it in one point, that a message may not parse, which is in the models.
* Vendored code. Of gRPC's headers, the part the plugin runs through is in
  `GrpcStream`; what it does not use is left out: servers, callback and
  synchronous streams, interceptors, corked metadata, credentials, generic
  stubs. Of the headers in use, `ClientContext` and the channel only pass
  settings on. The sources of protobuf and its compiler are not part of the
  running plugin, the core of gRPC is there as binaries only.

  These two are more than nine tenths of the source lines next to the plugin,
  so most of the lines of the repository are not mapped to a definition. The
  plugin's own files are, but for includes, logging and type conversions.
* The login's and `WLU.Text`'s network behaviour: each is one step that succeeds
  or fails. That either may block the game thread for ever is listed as a
  hazard without a property, for it is a matter of gRPC's defaults.
* The value of the filter's coefficients, and how loud silence is, which is only
  logged. The macOS permission dialog and opening the audio device, which end
  the program when they fail.
* `SpeechlyModule.cpp`, the build files, the resources.

## Where to go on

* A composition of `Speechly` with `ClientRelay` by INSTANCE in place of the
  session's own client actions. `Reconnect` replaces the client, so the relay
  would have to be one instance per connection, and the session does not see
  `ClientRelay`'s wire apart from its queue; the gain would be that the two
  descriptions of the client's promise are one.
* What `Dictation` cannot promise is what the violations of `Speechly` show: that
  an utterance's audio waits for its own `started`, that it is sent at all, that
  only its own end stops it. If the code is changed there, `Begin`, `End` and
  `Send` are the places to say so, and `WhoStops` and `AllOrNothing` the lemmas
  that get stronger.
