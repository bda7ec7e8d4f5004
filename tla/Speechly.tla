------------------------------ MODULE Speechly ------------------------------
(***************************************************************************)
(* USpeechly (Speechly.{h,cpp}) with the gate of FSpeechRecorder           *)
(* (SpeechRecorder.{h,cpp}): the application's game thread calls Connect,  *)
(* Start, Stop and, once a frame, Tick; the audio thread runs              *)
(* OnAudioCapture and OnSpeechAudio under the recorder's lock.             *)
(*                                                                         *)
(* The client is what ClientRelay promises: requests and responses stay in *)
(* order and none is lost until it fails.  One action per access to what   *)
(* another thread can see; a call of the game thread takes several.  Once  *)
(* the code has undefined behaviour (ub) the model stops.                  *)
(*                                                                         *)
(* A Bug... operator is a faulty variant of the definition after it.       *)
(***************************************************************************)
EXTENDS Integers, Sequences

CONSTANTS
    MaxReads,       \* responses a Tick reads at most (10 in the code)
    MaxConnects,    \* bound on the calls of Connect
    MaxUtterances,  \* bound on the calls of Start
    MaxChunks       \* bound on the captures of one utterance

ASSUME SpeechlyAssumption ==
    /\ MaxReads \in Nat \ {0}
    /\ MaxConnects \in Nat /\ MaxUtterances \in Nat /\ MaxChunks \in Nat

VARIABLES
    game,           \* where the game thread is in a call, or "idle"
    response, reads, \* what Tick has read; how many reads it has left
    active,         \* the application started an utterance, not yet stopped
    audio,          \* where the audio thread is; it holds the lock unless idle
    bIsCapturing,   \* Recorder.bIsCapturing
    bIsBuffering, AudioBuffer, LastAudioContext,
    Client,         \* the unique pointer: "null" or "valid"
    thread,         \* ClientThread: "none", "running" or "ended"
    bIsRunning, bHasError,      \* the client's flags
    uplink,         \* requests the client has accepted, AUDIO by the chunk
    downlink,       \* responses the client has relayed and Tick has not read
    started, finished, \* contexts the server has said have started, finished
    ticking,        \* the ticker is registered
    utterance,      \* number of the last utterance, also its audio context
    captured,       \* number of chunks captured in it
    begun,          \* contexts whose `started' Tick has handled
    connects,       \* number of Connect calls
    reports,        \* "Disconnected" broadcasts of this connection
    ub              \* the program has run into undefined behaviour

tickVars    == <<response, reads>>
audioVars   == <<audio, captured>>
bufferVars  == <<bIsBuffering, AudioBuffer>>
recordVars  == <<audioVars, bIsCapturing, bufferVars>>
contextVars == <<LastAudioContext, begun>>
clientVars  == <<Client, thread, bIsRunning, bHasError>>
serverVars  == <<started, finished>>
wireVars    == <<clientVars, uplink, downlink, serverVars>>
tickerVars  == <<ticking, reports>>
countVars   == <<utterance, connects>>
vars == <<game, tickVars, active, recordVars, contextVars, wireVars, tickerVars,
          countVars, ub>>

Utterances == 1..MaxUtterances
Chunks     == [utt : Utterances, n : 1..MaxChunks]
Requests   == [type : {"START", "STOP"}, utt : Utterances]
              \union [type : {"AUDIO"}, utt : Utterances, chunk : Chunks]
Responses  == [type : {"started", "finished"}, ctx : Utterances]
Calls == {"idle", "connect", "start_recorder", "start_write", "start_reset",
          "start_stop", "stop_check", "stop_write", "stop_reset", "tick",
          "handle", "destroy", "gone"}

Init ==
    /\ game = "idle" /\ response = <<>> /\ reads = 0 /\ active = FALSE
    /\ audio = "idle" /\ captured = 0 /\ bIsCapturing = FALSE
    /\ bIsBuffering = FALSE /\ AudioBuffer = <<>>
    /\ LastAudioContext = 0 /\ begun = {}
    /\ Client = "null" /\ thread = "none"
    /\ bIsRunning = FALSE /\ bHasError = FALSE
    /\ uplink = <<>> /\ downlink = <<>>
    /\ started = {} /\ finished = {}
    /\ ticking = FALSE /\ reports = 0
    /\ utterance = 0 /\ connects = 0 /\ ub = FALSE

-----------------------------------------------------------------------------
IsConnected == Client = "valid" /\ ~bHasError
ClientUp    == bIsRunning /\ ~bHasError         \* Write and Read go on

Lock == audio = "idle"          \* FScopeLock Lock(&CriticalSection)
BugRecorderStopNoLock == bIsCapturing' = FALSE
RecorderStop  == Lock /\ bIsCapturing' = FALSE
RecorderStart == Lock /\ bIsCapturing' = TRUE

BugEmptyBuffer == UNCHANGED AudioBuffer
EmptyBuffer == AudioBuffer' = <<>>

(* One call of USpeechly at a time, on the game thread.  The application   *)
(* starts an utterance only after it has stopped the one before, and stops *)
(* none that Start did not start.                                          *)
InCall(from, to) == game = from /\ game' = to

-----------------------------------------------------------------------------
(* Connect: stop recording, kill the client thread, and start a new client *)
(* on a new thread; Create returns when its login has succeeded or failed. *)
Connect ==
    /\ InCall("idle", "connect")
    /\ connects < MaxConnects                              \* bound
    /\ RecorderStop
    /\ connects' = connects + 1
    /\ UNCHANGED <<tickVars, active, audioVars, bufferVars, contextVars,
                   wireVars, tickerVars, utterance, ub>>

(* Kill calls Stop() of the client, which Client.Reset() may have freed.   *)
KillDangles == thread # "none" /\ Client = "null"

Reconnect ==
    /\ InCall("connect", "idle")
    /\ ub' = KillDangles
    /\ Client' = "valid"
    /\ \E loggedIn \in BOOLEAN :
          /\ bIsRunning' = loggedIn /\ bHasError' = ~loggedIn
          /\ thread' = IF loggedIn THEN "running" ELSE "ended"
    /\ uplink' = <<>> /\ downlink' = <<>>
    /\ started' = {} /\ finished' = {}
    /\ ticking' = TRUE /\ reports' = 0 /\ active' = FALSE
    /\ UNCHANGED <<tickVars, recordVars, contextVars, countVars>>

(* ~USpeechly.                                                             *)
Destroy ==
    /\ InCall("idle", "destroy")
    /\ ticking' = FALSE
    /\ RecorderStop
    /\ UNCHANGED <<tickVars, active, audioVars, bufferVars, contextVars,
                   wireVars, reports, countVars, ub>>

KillThread ==
    /\ InCall("destroy", "gone")
    /\ ub' = KillDangles
    /\ Client' = "null" /\ thread' = "none"
    /\ bIsRunning' = FALSE /\ bHasError' = FALSE
    /\ UNCHANGED <<tickVars, active, recordVars, contextVars, uplink, downlink,
                   serverVars, tickerVars, countVars>>

-----------------------------------------------------------------------------
(* Start: buffer from now on, open the recorder's gate, send START.        *)
Start ==
    /\ InCall("idle", "start_recorder")
    /\ IsConnected /\ ~active
    /\ utterance < MaxUtterances                           \* bound
    /\ bIsBuffering' = TRUE /\ EmptyBuffer
    /\ utterance' = utterance + 1 /\ captured' = 0
    /\ UNCHANGED <<tickVars, active, audio, bIsCapturing, contextVars,
                   wireVars, tickerVars, connects, ub>>

StartRecorder ==
    /\ InCall("start_recorder", "start_write")
    /\ RecorderStart
    /\ UNCHANGED <<tickVars, active, audioVars, bufferVars, contextVars,
                   wireVars, tickerVars, countVars, ub>>

SendEvent(event) == uplink' = Append(uplink, [type |-> event, utt |-> utterance])

StartWrite ==
    /\ \/ ClientUp /\ InCall("start_write", "idle")
          /\ SendEvent("START") /\ active' = TRUE
       \/ ~ClientUp /\ InCall("start_write", "start_reset")
          /\ UNCHANGED <<uplink, active>>
    /\ UNCHANGED <<tickVars, recordVars, contextVars, clientVars, downlink,
                   serverVars, tickerVars, countVars, ub>>

(* Client.Reset() destroys the client, whose thread may still run on it.   *)
ResetClient ==
    /\ \/ InCall("start_reset", "start_stop")
       \/ InCall("stop_reset", "idle")
    /\ Client' = "null"
    /\ ub' = (thread = "running")
    /\ UNCHANGED <<tickVars, active, recordVars, contextVars, thread,
                   bIsRunning, bHasError, uplink, downlink, serverVars,
                   tickerVars, countVars>>

StartStop ==
    /\ InCall("start_stop", "idle")
    /\ RecorderStop
    /\ UNCHANGED <<tickVars, active, audioVars, bufferVars, contextVars,
                   wireVars, tickerVars, countVars, ub>>

(* Stop: close the gate, and send STOP if still connected.                 *)
Stop ==
    /\ InCall("idle", "stop_check")
    /\ active /\ active' = FALSE
    /\ RecorderStop
    /\ UNCHANGED <<tickVars, audioVars, bufferVars, contextVars, wireVars,
                   tickerVars, countVars, ub>>

StopCheck ==
    /\ \/ IsConnected /\ InCall("stop_check", "stop_write")
       \/ ~IsConnected /\ InCall("stop_check", "idle")
    /\ UNCHANGED <<tickVars, active, recordVars, contextVars, wireVars,
                   tickerVars, countVars, ub>>

StopWrite ==
    /\ \/ ClientUp /\ InCall("stop_write", "idle") /\ SendEvent("STOP")
       \/ ~ClientUp /\ InCall("stop_write", "stop_reset") /\ UNCHANGED uplink
    /\ UNCHANGED <<tickVars, active, recordVars, contextVars, clientVars,
                   downlink, serverVars, tickerVars, countVars, ub>>

-----------------------------------------------------------------------------
(* Tick.  A ticker whose callback returns false is removed.                *)
BugReport == UNCHANGED reports
Report == reports' = reports + 1        \* OnSpeechlyError.Broadcast
BugRemoveTicker == UNCHANGED ticking
RemoveTicker == ticking' = FALSE

TickDisconnected ==
    /\ InCall("idle", "idle") /\ ticking /\ ~IsConnected
    /\ Report /\ RemoveTicker
    /\ ub' = (Client = "null")                  \* Client->HasError()
    /\ UNCHANGED <<tickVars, active, recordVars, contextVars, wireVars,
                   countVars>>

Tick ==
    /\ InCall("idle", "tick") /\ ticking /\ IsConnected
    /\ reads' = MaxReads
    /\ UNCHANGED <<response, active, recordVars, contextVars, wireVars,
                   tickerVars, countVars, ub>>

BugMayRead == TRUE
MayRead == reads > 0

TickRead ==
    /\ InCall("tick", "handle") /\ MayRead
    /\ ClientUp /\ downlink # <<>>
    /\ response' = Head(downlink) /\ downlink' = Tail(downlink)
    /\ reads' = reads - 1
    /\ UNCHANGED <<active, recordVars, contextVars, clientVars, uplink,
                   serverVars, tickerVars, countVars, ub>>

BugEndBuffering ==
    bIsBuffering' = (bIsBuffering /\ response.ctx # LastAudioContext)
EndBuffering == bIsBuffering' = FALSE

HandleStarted ==
    /\ InCall("handle", "tick") /\ response.type = "started"
    /\ EndBuffering
    /\ LastAudioContext' = response.ctx
    /\ begun' = begun \union {response.ctx}
    /\ UNCHANGED <<tickVars, active, audioVars, bIsCapturing, AudioBuffer,
                   wireVars, tickerVars, countVars, ub>>

BugEndsRecording == TRUE
EndsRecording == response.ctx = LastAudioContext

HandleFinished ==
    /\ InCall("handle", "tick") /\ response.type = "finished"
    /\ IF EndsRecording THEN RecorderStop ELSE UNCHANGED bIsCapturing
    /\ UNCHANGED <<tickVars, active, audioVars, bufferVars, contextVars,
                   wireVars, tickerVars, countVars, ub>>

TickEnd ==
    /\ InCall("tick", "idle")
    /\ reads = 0 \/ ~ClientUp \/ downlink = <<>>
    /\ UNCHANGED <<tickVars, active, recordVars, contextVars, wireVars,
                   tickerVars, countVars, ub>>

-----------------------------------------------------------------------------
(* OnAudioCapture and OnSpeechAudio, on the audio thread, under the lock.  *)
(* A capture that yields no output changes nothing here; a chunk is what   *)
(* one that does hands to OnSpeechAudio.                                   *)
Chunk == [utt |-> utterance, n |-> captured]

OnAudioCapture ==
    /\ audio = "idle" /\ bIsCapturing
    /\ captured < MaxChunks                                \* bound
    /\ captured' = captured + 1
    /\ audio' = IF IsConnected THEN "route" ELSE "idle"
    /\ UNCHANGED <<game, tickVars, active, bIsCapturing, bufferVars,
                   contextVars, wireVars, tickerVars, countVars, ub>>

(* Samples go behind the buffered ones, if there are any.                  *)
RouteAudio ==
    /\ audio = "route"
    /\ audio' = IF bIsBuffering THEN "idle" ELSE "send"
    /\ AudioBuffer' = IF bIsBuffering \/ AudioBuffer # <<>>
                      THEN Append(AudioBuffer, Chunk) ELSE AudioBuffer
    /\ UNCHANGED <<game, tickVars, active, captured, bIsCapturing,
                   bIsBuffering, contextVars, wireVars, tickerVars, countVars,
                   ub>>

Payload == IF AudioBuffer # <<>> THEN AudioBuffer ELSE <<Chunk>>
AudioRequest(chunks) ==
    [i \in 1..Len(chunks) |-> [type |-> "AUDIO", utt |-> utterance,
                               chunk |-> chunks[i]]]

(* What Write returns is ignored: refused audio is gone.                   *)
SendAudio ==
    /\ audio = "send" /\ audio' = "idle"
    /\ ub' = (Client = "null")                  \* Client->Write(Request)
    /\ uplink' = IF ClientUp THEN uplink \o AudioRequest(Payload) ELSE uplink
    /\ EmptyBuffer
    /\ UNCHANGED <<game, tickVars, active, captured, bIsCapturing,
                   bIsBuffering, contextVars, clientVars, downlink, serverVars,
                   tickerVars, countVars>>

-----------------------------------------------------------------------------
(* The client thread fails: its two flags are stored in either order, a    *)
(* failed open stores bHasError alone; then the thread ends.               *)
ClientStep(flags) ==
    /\ thread = "running" /\ flags
    /\ UNCHANGED <<game, tickVars, active, recordVars, contextVars, Client,
                   uplink, downlink, serverVars, tickerVars, countVars, ub>>
ErrorSeen ==
    ~bHasError /\ ClientStep(bHasError' = TRUE /\ UNCHANGED <<thread, bIsRunning>>)
StopSeen ==
    bIsRunning /\ ClientStep(bIsRunning' = FALSE /\ UNCHANGED <<thread, bHasError>>)
ThreadEnds ==
    bHasError /\ ClientStep(thread' = "ended" /\ UNCHANGED <<bIsRunning, bHasError>>)

(* The server answers START with `started' and ends a context, on STOP or  *)
(* of its own accord, with `finished'.  It starts contexts in order, and   *)
(* may still speak of the previous context after `started'.                *)
MayStart(k) ==
    \E i \in DOMAIN uplink :
        /\ uplink[i] = [type |-> "START", utt |-> k] /\ k \notin started
        /\ \A j \in 1..(i - 1) : uplink[j].type = "START" => uplink[j].utt \in started

ServerSays(type, k) ==
    /\ thread = "running" /\ ClientUp
    /\ downlink' = Append(downlink, [type |-> type, ctx |-> k])
    /\ UNCHANGED <<game, tickVars, active, recordVars, contextVars, clientVars,
                   uplink, tickerVars, countVars, ub>>
SayStarted(k) ==
    /\ MayStart(k) /\ ServerSays("started", k)
    /\ started' = started \union {k} /\ UNCHANGED finished
SayFinished(k) ==
    /\ k \in started \ finished /\ ServerSays("finished", k)
    /\ finished' = finished \union {k} /\ UNCHANGED started

-----------------------------------------------------------------------------
(* The game thread going on with a call it is in.                          *)
GameStep ==
    \/ Reconnect \/ KillThread
    \/ StartRecorder \/ StartWrite \/ ResetClient \/ StartStop
    \/ StopCheck \/ StopWrite
    \/ TickRead \/ HandleStarted \/ HandleFinished \/ TickEnd
GameCall == Connect \/ Start \/ Stop \/ Destroy
TickCall == Tick \/ TickDisconnected
AudioStep == RouteAudio \/ SendAudio
ClientThread == ErrorSeen \/ StopSeen \/ ThreadEnds
Server == \E k \in Utterances : SayStarted(k) \/ SayFinished(k)

Gone == (ub \/ game = "gone") /\ UNCHANGED vars
Next ==
    \/ ~ub /\ (\/ GameCall \/ TickCall \/ GameStep \/ OnAudioCapture
               \/ AudioStep \/ ClientThread \/ Server)
    \/ Gone

Spec == Init /\ [][Next]_vars

(* The engine ticks, calls return, the server answers START, and a client  *)
(* that stores one of its flags stores the other.                          *)
Fairness ==
    /\ WF_vars(~ub /\ GameStep) /\ WF_vars(~ub /\ TickCall)
    /\ WF_vars(~ub /\ AudioStep)
    /\ WF_vars(~ub /\ \E k \in Utterances : SayStarted(k))
    /\ WF_vars(~ub /\ ~bIsRunning /\ ErrorSeen)
FairSpec == Spec /\ Fairness

-----------------------------------------------------------------------------
(* The variables are of their types.                                       *)
TypeOK ==
    /\ game \in Calls /\ response \in Responses \union {<<>>}
    /\ game = "handle" => response \in Responses
    /\ reads \in 0..MaxReads /\ active \in BOOLEAN
    /\ audio \in {"idle", "route", "send"} /\ captured \in 0..MaxChunks
    /\ bIsCapturing \in BOOLEAN /\ bIsBuffering \in BOOLEAN
    /\ AudioBuffer \in Seq(Chunks)
    /\ LastAudioContext \in 0..utterance /\ begun \subseteq 1..utterance
    /\ Client \in {"null", "valid"} /\ thread \in {"none", "running", "ended"}
    /\ bIsRunning \in BOOLEAN /\ bHasError \in BOOLEAN
    /\ uplink \in Seq(Requests) /\ downlink \in Seq(Responses)
    /\ started \subseteq 1..utterance /\ finished \subseteq started
    /\ ticking \in BOOLEAN /\ utterance \in 0..MaxUtterances
    /\ reports \in Nat /\ connects \in 0..MaxConnects /\ ub \in BOOLEAN

(* The server "WILL terminate the stream" unless a context is preceded by  *)
(* START and concluded with STOP: no audio, which another thread writes,   *)
(* gets in front of the START or behind the STOP of its utterance.         *)
ContextsWellFormed ==
    \A i \in DOMAIN uplink :
        IF uplink[i].type = "START"
        THEN i = 1 \/ uplink[i - 1].type = "STOP"
        ELSE /\ i > 1
             /\ uplink[i - 1].type # "STOP" /\ uplink[i - 1].utt = uplink[i].utt

(* Between utterances the audio thread is out of OnSpeechAudio: Start may  *)
(* touch AudioBuffer, and Connect may replace Client, without a lock.      *)
GateClosed == game \in {"idle", "connect", "start_recorder"} /\ ~active =>
                  ~bIsCapturing /\ audio = "idle"

(* What the server gets of an utterance is its own audio from the first    *)
(* chunk on, without a gap, a repetition or anything recorded before.      *)
NextChunk(i) == IF uplink[i].type = "AUDIO" THEN uplink[i].chunk.n + 1 ELSE 1
AudioUnbroken ==
    \A i \in DOMAIN uplink : uplink[i].type = "AUDIO" =>
        uplink[i].chunk = [utt |-> uplink[i].utt, n |-> NextChunk(i - 1)]

(* While an utterance is recorded over a working client, every chunk       *)
(* captured so far is sent, buffered or on its way, in that order.         *)
Held == CASE audio = "route" -> Append(AudioBuffer, Chunk)
          [] audio = "send"  -> Payload
          [] OTHER -> AudioBuffer
LastSent ==
    IF uplink # <<>> /\ uplink[Len(uplink)].utt = utterance
    THEN NextChunk(Len(uplink)) - 1 ELSE 0
AudioKept ==
    bIsCapturing /\ IsConnected /\ bIsRunning =>
        Held = [i \in 1..(captured - LastSent) |->
                   [utt |-> utterance, n |-> LastSent + i]]

(* A finish stops the recording of the utterance it is about; it can only  *)
(* be another's until this one's `started' is handled: from then on none   *)
(* that is late, of this connection or from before it, does.               *)
OwnFinishStops ==
    [][game = "handle" /\ bIsCapturing /\ ~bIsCapturing' =>
          response.ctx = utterance \/ utterance \notin begun]_vars

(* What a connection carries is a Dictation: contexts one at a time and    *)
(* with growing numbers; what is buffered goes out before anything else is *)
(* recorded or the context ends, or not at all, although the game thread   *)
(* stops the recording and ends the context while the audio thread sends.  *)
Last     == uplink[Len(uplink)]
OpenNow  == ClientUp /\ uplink # <<>> /\ Last.type # "STOP"
Dictated == INSTANCE Dictation WITH
    up       <- ClientUp,
    context  <- IF OpenNow THEN Last.utt ELSE 0,
    latest   <- IF ClientUp /\ uplink # <<>> THEN Last.utt ELSE 0,
    recorded <- IF OpenNow THEN captured ELSE 0,
    sent     <- IF OpenNow THEN LastSent ELSE 0
ImplementsDictation == Dictated!Spec

(* The application is told of a lost connection once, not every frame.     *)
ReportedOnce == reports <= 1

(* A failed client is reported, unless the application has got rid of it.  *)
ErrorReported == bHasError ~> reports = 1 \/ ~bHasError \/ ub

(* An utterance that stays active stops buffering, or the client fails.    *)
BufferingEnds == active /\ bIsBuffering ~> ~bIsBuffering \/ ~active \/ ~ClientUp

-----------------------------------------------------------------------------
(* What comments say and the code does not do.                             *)

(* "Stop recording if currently active UtteranceId was finished".          *)
OnlyActiveFinishStops ==
    [][game = "handle" /\ bIsCapturing /\ ~bIsCapturing' =>
          response.ctx = utterance]_vars

(* "Audio is sent automatically when recording is enabled": when the STOP  *)
(* of an utterance is sent, what was recorded of it has been.              *)
RecordedIsSent ==
    [][uplink' # uplink /\ game = "stop_write" => LastSent = captured]_vars

(* "Waiting to receive start, don't send audio".                           *)
AudioWaitsForStarted ==
    [][uplink' # uplink /\ audio = "send" => utterance \in begun]_vars

(* "GRPC shared state to be able to cleanup memory used in Run() at        *)
(* Exit()": the client is there until its thread has been through Exit.    *)
ClientOutlivesThread == thread = "running" => Client = "valid"
=============================================================================
