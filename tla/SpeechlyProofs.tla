--------------------------- MODULE SpeechlyProofs ---------------------------
(* Theorems about Speechly, for any number of connections, utterances,     *)
(* chunks and reads per Tick.                                              *)
EXTENDS Speechly, SequenceTheorems, TLAPS

(* Outside the calls that record, the gate is closed.  The inductive       *)
(* invariant says so of every place of the game thread, of those too where *)
(* the application regards the utterance as active.                        *)
Recording == {"start_write", "start_reset", "start_stop"}
Closed    == ~bIsCapturing /\ audio = "idle"
GateInv ==
    /\ ~active /\ game \notin Recording => Closed
    /\ game \in {"connect", "start_recorder", "destroy", "gone"} => Closed
    /\ game \in Recording \union {"start_recorder", "stop_check", "stop_write"} =>
          ~active

(* Each step keeps GateInv.                                                *)
LEMMA GateStep == ASSUME GateInv, [Next]_vars PROVE GateInv'
<1> USE DEF GateInv, Recording, Closed, InCall, audioVars, recordVars
<1>1. CASE Connect BY <1>1 DEF Connect, RecorderStop, Lock
<1>2. CASE Start BY <1>2 DEF Start
<1>3. CASE Stop BY <1>3 DEF Stop, RecorderStop, Lock
<1>4. CASE Destroy BY <1>4 DEF Destroy, RecorderStop, Lock
<1>5. CASE Tick BY <1>5 DEF Tick
<1>6. CASE TickDisconnected BY <1>6 DEF TickDisconnected
<1>7. CASE Reconnect BY <1>7 DEF Reconnect
<1>8. CASE KillThread BY <1>8 DEF KillThread
<1>9. CASE StartRecorder
  BY <1>9 DEF StartRecorder, RecorderStart, Lock
<1>10. CASE StartWrite BY <1>10 DEF StartWrite
<1>11. CASE ResetClient BY <1>11 DEF ResetClient
<1>12. CASE StartStop BY <1>12 DEF StartStop, RecorderStop, Lock
<1>13. CASE StopCheck BY <1>13 DEF StopCheck
<1>14. CASE StopWrite BY <1>14 DEF StopWrite
<1>15. CASE TickRead BY <1>15 DEF TickRead
<1>16. CASE HandleStarted BY <1>16 DEF HandleStarted
<1>17. CASE HandleFinished
  BY <1>17 DEF HandleFinished, EndsRecording, RecorderStop, Lock
<1>18. CASE TickEnd BY <1>18 DEF TickEnd
<1>19. CASE OnAudioCapture BY <1>19 DEF OnAudioCapture
<1>20. CASE RouteAudio BY <1>20 DEF RouteAudio
<1>21. CASE SendAudio BY <1>21 DEF SendAudio
<1>22. CASE ClientThread
  BY <1>22 DEF ClientThread, ErrorSeen, StopSeen, ThreadEnds, ClientStep
<1>23. CASE Server
  BY <1>23 DEF Server, SayStarted, SayFinished, ServerSays
<1>24. CASE UNCHANGED vars BY <1>24 DEF vars
<1> QED
  BY <1>1, <1>2, <1>3, <1>4, <1>5, <1>6, <1>7, <1>8, <1>9, <1>10, <1>11, <1>12,
     <1>13, <1>14, <1>15, <1>16, <1>17, <1>18, <1>19, <1>20, <1>21, <1>22,
     <1>23, <1>24
     DEF Next, GameCall, TickCall, GameStep, AudioStep, Gone

(* Between utterances the audio thread is out of OnSpeechAudio, so that    *)
(* Start may empty AudioBuffer and Connect replace Client without a lock:  *)
(* the recorder's lock is taken by every call that closes its gate.        *)
THEOREM GateIsClosed == Spec => []GateClosed
<1>1. Init => GateInv BY DEF Init, GateInv, Recording, Closed
<1>2. GateInv /\ [Next]_vars => GateInv' BY GateStep
<1>3. GateInv => GateClosed BY DEF GateInv, GateClosed, Recording, Closed
<1> QED BY <1>1, <1>2, <1>3, PTL DEF Spec

-----------------------------------------------------------------------------
(* Types.  Requests, responses and contexts belong to utterances that were *)
(* started; before the first one there are none.                           *)
Quiet ==
    /\ ~active /\ ~bIsCapturing /\ audio = "idle"
    /\ game \in {"idle", "connect", "tick", "handle", "destroy", "gone"}
Known ==
    /\ \A i \in DOMAIN uplink : uplink[i].utt <= utterance
    /\ \A i \in DOMAIN downlink : downlink[i].ctx <= utterance
    /\ response \in Responses => response.ctx <= utterance
    /\ audio # "idle" => captured >= 1
    /\ utterance = 0 => Quiet
FlagsOK ==
    /\ game \in Calls /\ active \in BOOLEAN
    /\ audio \in {"idle", "route", "send"}
    /\ bIsCapturing \in BOOLEAN /\ bIsBuffering \in BOOLEAN
    /\ Client \in {"null", "valid"} /\ thread \in {"none", "running", "ended"}
    /\ bIsRunning \in BOOLEAN /\ bHasError \in BOOLEAN
    /\ ticking \in BOOLEAN /\ ub \in BOOLEAN
CountsOK ==
    /\ reads \in 0..MaxReads /\ captured \in 0..MaxChunks
    /\ LastAudioContext \in 0..utterance /\ begun \subseteq 1..utterance
    /\ started \subseteq 1..utterance /\ finished \subseteq started
    /\ utterance \in 0..MaxUtterances /\ connects \in 0..MaxConnects
    /\ reports \in Nat
QueuesOK ==
    /\ response \in Responses \union {<<>>}
    /\ game = "handle" => response \in Responses
    /\ AudioBuffer \in Seq(Chunks)
    /\ uplink \in Seq(Requests) /\ downlink \in Seq(Responses)
TypeInv == FlagsOK /\ CountsOK /\ QueuesOK /\ Known

(* Each step keeps the types of the flags.                                 *)
LEMMA FlagsStep ==
  ASSUME SpeechlyAssumption, TypeInv, [Next]_vars PROVE FlagsOK'
<1> USE DEF TypeInv, FlagsOK, InCall, tickVars, audioVars, bufferVars, recordVars,
        contextVars, clientVars, serverVars, wireVars, tickerVars, countVars
<1>1. CASE Connect
  <2>1. /\ game' \in Calls /\ bIsCapturing' \in BOOLEAN
        /\ UNCHANGED <<active, audio, bIsBuffering, Client, thread,
                       bIsRunning, bHasError, ticking, ub>>
    BY <1>1 DEF Connect, RecorderStop, Calls
  <2> QED BY <2>1
<1>2. CASE Start BY <1>2 DEF Start, Calls
<1>3. CASE Stop
  <2>1. /\ game' \in Calls /\ bIsCapturing' \in BOOLEAN /\ active' \in BOOLEAN
        /\ UNCHANGED <<audio, bIsBuffering, Client, thread, bIsRunning,
                       bHasError, ticking, ub>>
    BY <1>3 DEF Stop, RecorderStop, Calls
  <2> QED BY <2>1
<1>4. CASE Destroy
  <2>1. /\ game' \in Calls /\ bIsCapturing' \in BOOLEAN /\ ticking' \in BOOLEAN
        /\ UNCHANGED <<active, audio, bIsBuffering, Client, thread,
                       bIsRunning, bHasError, ub>>
    BY <1>4 DEF Destroy, RecorderStop, Calls
  <2> QED BY <2>1
<1>5. CASE Tick BY <1>5 DEF Tick, Calls
<1>6. CASE TickDisconnected
  <2>1. /\ game' \in Calls /\ ticking' \in BOOLEAN /\ ub' \in BOOLEAN
        /\ UNCHANGED <<active, audio, bIsCapturing, bIsBuffering, Client, thread,
                       bIsRunning, bHasError>>
    BY <1>6 DEF TickDisconnected, RemoveTicker, Calls
  <2> QED BY <2>1
<1>7. CASE Reconnect BY <1>7 DEF Reconnect, KillDangles, Calls
<1>8. CASE KillThread BY <1>8 DEF KillThread, KillDangles, Calls
<1>9. CASE StartRecorder
  <2>1. /\ game' \in Calls /\ bIsCapturing' \in BOOLEAN
        /\ UNCHANGED <<active, audio, bIsBuffering, Client, thread, bIsRunning,
                       bHasError, ticking, ub>>
    BY <1>9 DEF StartRecorder, RecorderStart, Calls
  <2> QED BY <2>1
<1>10. CASE StartWrite
  <2>1. /\ game' \in Calls /\ active' \in BOOLEAN
        /\ UNCHANGED <<audio, bIsCapturing, bIsBuffering, Client, thread,
                       bIsRunning, bHasError, ticking, ub>>
    BY <1>10 DEF StartWrite, Calls
  <2> QED BY <2>1
<1>11. CASE ResetClient BY <1>11 DEF ResetClient, Calls
<1>12. CASE StartStop
  <2>1. /\ game' \in Calls /\ bIsCapturing' \in BOOLEAN
        /\ UNCHANGED <<active, audio, bIsBuffering, Client, thread,
                       bIsRunning, bHasError, ticking, ub>>
    BY <1>12 DEF StartStop, RecorderStop, Calls
  <2> QED BY <2>1
<1>13. CASE StopCheck BY <1>13 DEF StopCheck, Calls
<1>14. CASE StopWrite BY <1>14 DEF StopWrite, Calls
<1>15. CASE TickRead BY <1>15 DEF TickRead, Calls
<1>16. CASE HandleStarted
  <2>1. /\ game' \in Calls /\ bIsBuffering' \in BOOLEAN
        /\ UNCHANGED <<active, audio, bIsCapturing, Client, thread,
                       bIsRunning, bHasError, ticking, ub>>
    BY <1>16 DEF HandleStarted, EndBuffering, Calls
  <2> QED BY <2>1
<1>17. CASE HandleFinished
  <2>1. /\ game' \in Calls /\ bIsCapturing' \in BOOLEAN
        /\ UNCHANGED <<active, audio, bIsBuffering, Client, thread,
                       bIsRunning, bHasError, ticking, ub>>
    BY <1>17 DEF HandleFinished, RecorderStop, Calls
  <2> QED BY <2>1
<1>18. CASE TickEnd BY <1>18 DEF TickEnd, Calls
<1>19. CASE OnAudioCapture BY <1>19 DEF OnAudioCapture
<1>20. CASE RouteAudio BY <1>20 DEF RouteAudio
<1>21. CASE SendAudio BY <1>21 DEF SendAudio
<1>22. CASE ClientThread
  <2>1. CASE ErrorSeen BY <2>1 DEF ErrorSeen, ClientStep
  <2>2. CASE StopSeen
    <3>1. /\ bIsRunning' \in BOOLEAN
          /\ UNCHANGED <<game, active, audio, bIsCapturing, bIsBuffering, Client,
                         thread, bHasError, ticking, ub>>
      BY <2>2 DEF StopSeen, ClientStep
    <3> QED BY <3>1
  <2>3. CASE ThreadEnds BY <2>3 DEF ThreadEnds, ClientStep
  <2> QED BY <1>22, <2>1, <2>2, <2>3 DEF ClientThread
<1>23. CASE Server BY <1>23 DEF Server, SayStarted, SayFinished, ServerSays
<1>24. CASE UNCHANGED vars BY <1>24 DEF vars
<1> QED
  BY <1>1, <1>2, <1>3, <1>4, <1>5, <1>6, <1>7, <1>8, <1>9, <1>10, <1>11, <1>12,
     <1>13, <1>14, <1>15, <1>16, <1>17, <1>18, <1>19, <1>20, <1>21, <1>22,
     <1>23, <1>24
     DEF Next, GameCall, TickCall, GameStep, AudioStep, Gone

(* Each step keeps the types of the counters and of the sets of contexts.  *)
LEMMA CountsStep ==
  ASSUME SpeechlyAssumption, TypeInv, [Next]_vars PROVE CountsOK'
<1> USE DEF SpeechlyAssumption, TypeInv, CountsOK, InCall, tickVars, audioVars, bufferVars, recordVars,
        contextVars, clientVars, serverVars, wireVars, tickerVars, countVars
<1>1. CASE Connect BY <1>1 DEF Connect, RecorderStop
<1>2. CASE Start BY <1>2 DEF Start
<1>3. CASE Stop BY <1>3 DEF Stop
<1>4. CASE Destroy BY <1>4 DEF Destroy
<1>5. CASE Tick BY <1>5 DEF Tick
<1>6. CASE TickDisconnected BY <1>6 DEF TickDisconnected, Report
<1>7. CASE Reconnect BY <1>7 DEF Reconnect
<1>8. CASE KillThread BY <1>8 DEF KillThread
<1>9. CASE StartRecorder BY <1>9 DEF StartRecorder
<1>10. CASE StartWrite BY <1>10 DEF StartWrite
<1>11. CASE ResetClient BY <1>11 DEF ResetClient
<1>12. CASE StartStop BY <1>12 DEF StartStop
<1>13. CASE StopCheck BY <1>13 DEF StopCheck
<1>14. CASE StopWrite BY <1>14 DEF StopWrite
<1>15. CASE TickRead BY <1>15 DEF TickRead, MayRead
<1>16. CASE HandleStarted
  <2>1. response.ctx \in 1..utterance
    BY <1>16 DEF HandleStarted, QueuesOK, Known, Responses, Utterances
  <2>2. /\ LastAudioContext' = response.ctx
        /\ begun' = begun \union {response.ctx}
        /\ UNCHANGED <<reads, captured, started, finished, reports,
                       utterance, connects>>
    BY <1>16 DEF HandleStarted
  <2>3. LastAudioContext' \in 0..utterance' BY <2>1, <2>2
  <2>4. begun' \subseteq 1..utterance'
    <3>1. begun \subseteq 1..utterance BY DEF CountsOK
    <3> QED BY <2>1, <2>2, <3>1, Zenon
  <2> QED BY <2>2, <2>3, <2>4
<1>17. CASE HandleFinished BY <1>17 DEF HandleFinished, EndsRecording
<1>18. CASE TickEnd BY <1>18 DEF TickEnd
<1>19. CASE OnAudioCapture BY <1>19 DEF OnAudioCapture
<1>20. CASE RouteAudio BY <1>20 DEF RouteAudio
<1>21. CASE SendAudio BY <1>21 DEF SendAudio
<1>22. CASE ClientThread
  BY <1>22 DEF ClientThread, ErrorSeen, StopSeen, ThreadEnds, ClientStep
<1>23. CASE Server
  <2>1. ASSUME NEW k \in Utterances, MayStart(k) PROVE k \in 1..utterance
    <3>1. PICK i \in DOMAIN uplink : uplink[i].utt = k
      BY <2>1 DEF MayStart
    <3> QED BY <3>1 DEF Known, Utterances
  <2>2. PICK k \in Utterances : SayStarted(k) \/ SayFinished(k)
    BY <1>23 DEF Server
  <2>3. CASE SayStarted(k)
    BY <2>1, <2>3 DEF SayStarted, ServerSays
  <2>4. CASE SayFinished(k) BY <2>4 DEF SayFinished, ServerSays
  <2> QED BY <2>2, <2>3, <2>4
<1>24. CASE UNCHANGED vars BY <1>24 DEF vars
<1> QED
  BY <1>1, <1>2, <1>3, <1>4, <1>5, <1>6, <1>7, <1>8, <1>9, <1>10, <1>11, <1>12,
     <1>13, <1>14, <1>15, <1>16, <1>17, <1>18, <1>19, <1>20, <1>21, <1>22,
     <1>23, <1>24
     DEF Next, GameCall, TickCall, GameStep, AudioStep, Gone

(* Who writes to which queue.                                              *)
Writers ==
    /\ Reconnect \/ StartWrite \/ StopWrite \/ SendAudio \/ UNCHANGED uplink
    /\ Reconnect \/ TickRead \/ Server \/ UNCHANGED downlink
    /\ Start \/ RouteAudio \/ SendAudio \/ UNCHANGED AudioBuffer
    /\ TickRead \/ UNCHANGED response
    /\ TickRead \/ game' # "handle" \/ UNCHANGED game
    /\ OnAudioCapture \/ Start \/ audio' \in {"idle", audio}
       \/ RouteAudio

LEMMA WhoWrites == ASSUME [Next]_vars PROVE Writers
<1> USE DEF Writers, InCall, tickVars, audioVars, bufferVars, recordVars, contextVars,
        clientVars, serverVars, wireVars, tickerVars, countVars
<1>1. CASE Connect BY <1>1 DEF Connect, RecorderStop, Lock
<1>2. CASE Start BY <1>2 DEF Start, EmptyBuffer
<1>3. CASE Stop BY <1>3 DEF Stop, RecorderStop, Lock
<1>4. CASE Destroy BY <1>4 DEF Destroy, RecorderStop, Lock
<1>5. CASE Tick BY <1>5 DEF Tick
<1>6. CASE TickDisconnected BY <1>6 DEF TickDisconnected
<1>7. CASE Reconnect BY <1>7 DEF Reconnect
<1>8. CASE KillThread BY <1>8 DEF KillThread
<1>9. CASE StartRecorder BY <1>9 DEF StartRecorder, RecorderStart, Lock
<1>10. CASE StartWrite BY <1>10 DEF StartWrite
<1>11. CASE ResetClient BY <1>11 DEF ResetClient
<1>12. CASE StartStop BY <1>12 DEF StartStop, RecorderStop, Lock
<1>13. CASE StopCheck BY <1>13 DEF StopCheck
<1>14. CASE StopWrite BY <1>14 DEF StopWrite
<1>15. CASE TickRead BY <1>15 DEF TickRead
<1>16. CASE HandleStarted BY <1>16 DEF HandleStarted
<1>17. CASE HandleFinished
  BY <1>17 DEF HandleFinished, EndsRecording, RecorderStop, Lock
<1>18. CASE TickEnd BY <1>18 DEF TickEnd
<1>19. CASE OnAudioCapture BY <1>19 DEF OnAudioCapture
<1>20. CASE RouteAudio BY <1>20 DEF RouteAudio
<1>21. CASE SendAudio BY <1>21 DEF SendAudio, EmptyBuffer
<1>22. CASE ClientThread
  BY <1>22 DEF ClientThread, ErrorSeen, StopSeen, ThreadEnds, ClientStep
<1>23. CASE Server BY <1>23 DEF Server, SayStarted, SayFinished, ServerSays
<1>24. CASE UNCHANGED vars BY <1>24 DEF vars
<1> QED
  BY <1>1, <1>2, <1>3, <1>4, <1>5, <1>6, <1>7, <1>8, <1>9, <1>10, <1>11, <1>12,
     <1>13, <1>14, <1>15, <1>16, <1>17, <1>18, <1>19, <1>20, <1>21, <1>22,
     <1>23, <1>24
     DEF Next, GameCall, TickCall, GameStep, AudioStep, Gone

(* The requests a step appends are well typed, and of this utterance.      *)
LEMMA AudioRequests ==
  ASSUME utterance \in Utterances, NEW chunks \in Seq(Chunks)
  PROVE  /\ AudioRequest(chunks) \in Seq(Requests)
         /\ Len(AudioRequest(chunks)) = Len(chunks)
         /\ \A i \in 1..Len(chunks) :
               AudioRequest(chunks)[i] = [type |-> "AUDIO", utt |-> utterance,
                                          chunk |-> chunks[i]]
<1> DEFINE Of(i) == [type |-> "AUDIO", utt |-> utterance, chunk |-> chunks[i]]
<1>1. \A i \in 1..Len(chunks) : Of(i) \in Requests
  BY DEF Requests
<1>2. AudioRequest(chunks) = [i \in 1..Len(chunks) |-> Of(i)]
  BY DEF AudioRequest
<1> HIDE DEF Of
<1>3. Len(chunks) \in Nat OBVIOUS
<1>4. AudioRequest(chunks) \in Seq(Requests) BY <1>1, <1>2, <1>3
<1>5. Len(AudioRequest(chunks)) = Len(chunks) BY <1>2, <1>3, <1>4
<1>6. \A i \in 1..Len(chunks) : AudioRequest(chunks)[i] = Of(i) BY <1>2
<1> QED BY <1>4, <1>5, <1>6 DEF Of

LEMMA EventRequest ==
  ASSUME utterance \in Utterances, NEW event \in {"START", "STOP"}
  PROVE  [type |-> event, utt |-> utterance] \in Requests
BY DEF Requests

(* A capture in progress belongs to an utterance and is one of its chunks. *)
LEMMA ChunkOK ==
  ASSUME SpeechlyAssumption, TypeInv, audio # "idle"
  PROVE  utterance \in Utterances /\ Chunk \in Chunks /\ Payload \in Seq(Chunks)
<1>1. utterance \in Utterances
  BY DEF SpeechlyAssumption, TypeInv, CountsOK, Known, Quiet, Utterances
<1>2. captured \in 1..MaxChunks
  BY DEF SpeechlyAssumption, TypeInv, CountsOK, Known
<1>3. Chunk \in Chunks BY <1>1, <1>2 DEF Chunk, Chunks
<1>4. Payload \in Seq(Chunks) BY <1>3 DEF Payload, TypeInv, QueuesOK
<1> QED BY <1>1, <1>3, <1>4

(* Each step keeps the types of the queues.                                *)
LEMMA QueuesStep ==
  ASSUME SpeechlyAssumption, TypeInv, [Next]_vars PROVE QueuesOK'
<1> USE DEF InCall
<1>0. QueuesOK BY DEF TypeInv
<1>1. Writers BY WhoWrites
<1>2. response' \in Responses \union {<<>>}
  <2>1. CASE TickRead BY <1>0, <2>1 DEF TickRead, QueuesOK
  <2>2. CASE UNCHANGED response BY <1>0, <2>2 DEF QueuesOK
  <2> QED BY <1>1, <2>1, <2>2 DEF Writers
<1>3. (game = "handle" => response \in Responses)'
  <2>1. CASE TickRead
    <3>1. downlink \in Seq(Responses) /\ downlink # <<>>
      BY <1>0, <2>1 DEF TickRead, QueuesOK
    <3>2. Head(downlink) \in Responses BY <3>1
    <3> QED BY <2>1, <3>2 DEF TickRead
  <2>2. CASE game' # "handle" BY <2>2
  <2>3. CASE UNCHANGED game /\ UNCHANGED response BY <1>0, <2>3 DEF QueuesOK
  <2> QED BY <1>1, <2>1, <2>2, <2>3 DEF Writers
<1>4. AudioBuffer' \in Seq(Chunks)
  <2>0. AudioBuffer \in Seq(Chunks) BY <1>0 DEF QueuesOK
  <2>1. CASE Start BY <2>1 DEF Start, EmptyBuffer
  <2>2. CASE RouteAudio
    <3>1. Chunk \in Chunks BY <2>2, ChunkOK DEF RouteAudio
    <3> QED BY <2>0, <2>2, <3>1 DEF RouteAudio
  <2>3. CASE SendAudio BY <2>3 DEF SendAudio, EmptyBuffer
  <2>4. CASE UNCHANGED AudioBuffer BY <2>0, <2>4
  <2> QED BY <1>1, <2>1, <2>2, <2>3, <2>4 DEF Writers
<1>5. uplink' \in Seq(Requests)
  <2>0. uplink \in Seq(Requests) BY <1>0 DEF QueuesOK
  <2>1. CASE Reconnect BY <2>1 DEF Reconnect
  <2>2. CASE StartWrite \/ StopWrite
    <3>1. utterance \in Utterances
      BY <2>2 DEF StartWrite, StopWrite, SpeechlyAssumption, TypeInv, CountsOK,
                  Known, Quiet, Utterances
    <3>2. PICK event \in {"START", "STOP"} :
            UNCHANGED uplink \/ SendEvent(event)
      BY <2>2 DEF StartWrite, StopWrite
    <3> QED BY <2>0, <3>1, <3>2, EventRequest DEF SendEvent
  <2>3. CASE SendAudio
    <3>1. utterance \in Utterances /\ Payload \in Seq(Chunks)
      BY <2>3, ChunkOK DEF SendAudio
    <3>2. AudioRequest(Payload) \in Seq(Requests) BY <3>1, AudioRequests
    <3>3. uplink' \in {uplink, uplink \o AudioRequest(Payload)}
      BY <2>3 DEF SendAudio
    <3>4. uplink \o AudioRequest(Payload) \in Seq(Requests)
      BY <2>0, <3>2, ConcatProperties
    <3> QED BY <2>0, <3>3, <3>4
  <2>4. CASE UNCHANGED uplink BY <2>0, <2>4
  <2> QED BY <1>1, <2>1, <2>2, <2>3, <2>4 DEF Writers
<1>6. downlink' \in Seq(Responses)
  <2>0. downlink \in Seq(Responses) BY <1>0 DEF QueuesOK
  <2>1. CASE Reconnect BY <2>1 DEF Reconnect
  <2>2. CASE TickRead BY <2>0, <2>2 DEF TickRead
  <2>3. CASE Server
    <3>1. PICK k \in Utterances, type \in {"started", "finished"} :
            downlink' = Append(downlink, [type |-> type, ctx |-> k])
      BY <2>3 DEF Server, SayStarted, SayFinished, ServerSays
    <3>2. [type |-> type, ctx |-> k] \in Responses BY DEF Responses
    <3> QED BY <2>0, <3>1, <3>2
  <2>4. CASE UNCHANGED downlink BY <2>0, <2>4
  <2> QED BY <1>1, <2>1, <2>2, <2>3, <2>4 DEF Writers
<1> QED BY <1>2, <1>3, <1>4, <1>5, <1>6 DEF QueuesOK

(* Only Start begins an utterance; before the first one nothing records.   *)
LEMMA UtteranceWriter ==
  ASSUME [Next]_vars PROVE Start \/ UNCHANGED utterance
<1> USE DEF InCall, tickVars, audioVars, bufferVars, recordVars, contextVars,
        clientVars, serverVars, wireVars, tickerVars, countVars
<1>1. CASE Connect BY <1>1 DEF Connect, RecorderStop, Lock
<1>2. CASE Start BY <1>2 DEF Start, EmptyBuffer
<1>3. CASE Stop BY <1>3 DEF Stop, RecorderStop, Lock
<1>4. CASE Destroy BY <1>4 DEF Destroy, RecorderStop, Lock
<1>5. CASE Tick BY <1>5 DEF Tick
<1>6. CASE TickDisconnected BY <1>6 DEF TickDisconnected
<1>7. CASE Reconnect BY <1>7 DEF Reconnect
<1>8. CASE KillThread BY <1>8 DEF KillThread
<1>9. CASE StartRecorder BY <1>9 DEF StartRecorder, RecorderStart, Lock
<1>10. CASE StartWrite BY <1>10 DEF StartWrite
<1>11. CASE ResetClient BY <1>11 DEF ResetClient
<1>12. CASE StartStop BY <1>12 DEF StartStop, RecorderStop, Lock
<1>13. CASE StopCheck BY <1>13 DEF StopCheck
<1>14. CASE StopWrite BY <1>14 DEF StopWrite
<1>15. CASE TickRead BY <1>15 DEF TickRead
<1>16. CASE HandleStarted BY <1>16 DEF HandleStarted
<1>17. CASE HandleFinished
  BY <1>17 DEF HandleFinished, EndsRecording, RecorderStop, Lock
<1>18. CASE TickEnd BY <1>18 DEF TickEnd
<1>19. CASE OnAudioCapture BY <1>19 DEF OnAudioCapture
<1>20. CASE RouteAudio BY <1>20 DEF RouteAudio
<1>21. CASE SendAudio BY <1>21 DEF SendAudio, EmptyBuffer
<1>22. CASE ClientThread
  BY <1>22 DEF ClientThread, ErrorSeen, StopSeen, ThreadEnds, ClientStep
<1>23. CASE Server BY <1>23 DEF Server, SayStarted, SayFinished, ServerSays
<1>24. CASE UNCHANGED vars BY <1>24 DEF vars
<1> QED
  BY <1>1, <1>2, <1>3, <1>4, <1>5, <1>6, <1>7, <1>8, <1>9, <1>10, <1>11, <1>12,
     <1>13, <1>14, <1>15, <1>16, <1>17, <1>18, <1>19, <1>20, <1>21, <1>22,
     <1>23, <1>24
     DEF Next, GameCall, TickCall, GameStep, AudioStep, Gone

LEMMA QuietStep ==
  ASSUME SpeechlyAssumption, TypeInv, GateInv, [Next]_vars
  PROVE  (audio # "idle" => captured >= 1)' /\ (utterance = 0 => Quiet)'
<1> USE DEF SpeechlyAssumption, TypeInv, FlagsOK, CountsOK, Known, Quiet, InCall,
        tickVars, audioVars, bufferVars, recordVars, contextVars,
        clientVars, serverVars, wireVars, tickerVars, countVars
<1>1. CASE Connect BY <1>1 DEF Connect, RecorderStop, Lock
<1>2. CASE Start BY <1>2 DEF Start, GateInv, Recording, Closed
<1>3. CASE Stop BY <1>3 DEF Stop, RecorderStop, Lock
<1>4. CASE Destroy BY <1>4 DEF Destroy, RecorderStop, Lock
<1>5. CASE Tick BY <1>5 DEF Tick
<1>6. CASE TickDisconnected BY <1>6 DEF TickDisconnected
<1>7. CASE Reconnect BY <1>7 DEF Reconnect
<1>8. CASE KillThread BY <1>8 DEF KillThread
<1>9. CASE StartRecorder BY <1>9 DEF StartRecorder, RecorderStart, Lock
<1>10. CASE StartWrite BY <1>10 DEF StartWrite
<1>11. CASE ResetClient BY <1>11 DEF ResetClient
<1>12. CASE StartStop BY <1>12 DEF StartStop, RecorderStop, Lock
<1>13. CASE StopCheck BY <1>13 DEF StopCheck
<1>14. CASE StopWrite BY <1>14 DEF StopWrite
<1>15. CASE TickRead BY <1>15 DEF TickRead
<1>16. CASE HandleStarted BY <1>16 DEF HandleStarted
<1>17. CASE HandleFinished
  BY <1>17 DEF HandleFinished, EndsRecording, RecorderStop, Lock
<1>18. CASE TickEnd BY <1>18 DEF TickEnd
<1>19. CASE OnAudioCapture BY <1>19 DEF OnAudioCapture
<1>20. CASE RouteAudio BY <1>20 DEF RouteAudio
<1>21. CASE SendAudio BY <1>21 DEF SendAudio, EmptyBuffer
<1>22. CASE ClientThread
  BY <1>22 DEF ClientThread, ErrorSeen, StopSeen, ThreadEnds, ClientStep
<1>23. CASE Server BY <1>23 DEF Server, SayStarted, SayFinished, ServerSays
<1>24. CASE UNCHANGED vars BY <1>24 DEF vars
<1> QED
  BY <1>1, <1>2, <1>3, <1>4, <1>5, <1>6, <1>7, <1>8, <1>9, <1>10, <1>11, <1>12,
     <1>13, <1>14, <1>15, <1>16, <1>17, <1>18, <1>19, <1>20, <1>21, <1>22,
     <1>23, <1>24
     DEF Next, GameCall, TickCall, GameStep, AudioStep, Gone

(* Each step keeps what utterances there may be in the queues.             *)
LEMMA KnownStep ==
  ASSUME SpeechlyAssumption, TypeInv, GateInv, [Next]_vars PROVE Known'
<1> USE DEF InCall
<1>0. QueuesOK /\ Known /\ CountsOK BY DEF TypeInv
<1>1. Writers BY WhoWrites
<1>2. utterance' >= utterance /\ utterance' \in Nat /\ utterance \in Nat
  <2>1. CASE Start BY <1>0, <2>1 DEF Start, CountsOK
  <2>2. CASE UNCHANGED utterance BY <1>0, <2>2 DEF CountsOK
  <2>3. Start \/ UNCHANGED utterance BY UtteranceWriter
  <2> QED BY <2>1, <2>2, <2>3
<1>3. \A i \in DOMAIN uplink' : uplink'[i].utt <= utterance'
  <2>0. /\ uplink \in Seq(Requests)
        /\ \A i \in DOMAIN uplink : uplink[i].utt <= utterance'
    BY <1>0, <1>2 DEF QueuesOK, Known, Requests, Utterances
  <2>1. CASE Reconnect BY <2>1 DEF Reconnect
  <2>2. CASE StartWrite \/ StopWrite
    <3>1. PICK event \in {"START", "STOP"} :
            UNCHANGED uplink \/ SendEvent(event)
      BY <2>2 DEF StartWrite, StopWrite
    <3> QED BY <1>2, <2>0, <3>1 DEF SendEvent
  <2>3. CASE SendAudio
    <3>1. utterance \in Utterances /\ Payload \in Seq(Chunks)
      BY <2>3, ChunkOK DEF SendAudio
    <3> DEFINE more == AudioRequest(Payload)
    <3>2. /\ more \in Seq(Requests) /\ DOMAIN more = 1..Len(Payload)
          /\ \A i \in 1..Len(Payload) : more[i].utt = utterance
      <4>1. more \in Seq(Requests) /\ Len(more) = Len(Payload)
        BY <3>1, AudioRequests
      <4>2. ASSUME NEW i \in 1..Len(Payload) PROVE more[i].utt = utterance
        <5>1. more[i] = [type |-> "AUDIO", utt |-> utterance,
                         chunk |-> Payload[i]]
          BY <3>1, AudioRequests
        <5> QED BY <5>1
      <4> HIDE DEF more
      <4> QED BY <4>1, <4>2
    <3>3. uplink' = uplink \/ uplink' = uplink \o more
      BY <2>3 DEF SendAudio
    <3> HIDE DEF more
    <3>4. /\ uplink \o more \in Seq(Requests)
          /\ Len(uplink \o more) = Len(uplink) + Len(more)
          /\ \A i \in 1..(Len(uplink) + Len(more)) :
                (uplink \o more)[i] = IF i <= Len(uplink) THEN uplink[i]
                                      ELSE more[i - Len(uplink)]
      BY <2>0, <3>2, ConcatProperties
    <3>5. \A i \in DOMAIN (uplink \o more) :
            (uplink \o more)[i].utt <= utterance'
      BY <1>2, <2>0, <3>2, <3>4
    <3> QED BY <2>0, <3>3, <3>5
  <2>4. CASE UNCHANGED uplink BY <2>0, <2>4
  <2> QED BY <1>1, <2>1, <2>2, <2>3, <2>4 DEF Writers
<1>4. \A i \in DOMAIN downlink' : downlink'[i].ctx <= utterance'
  <2>0. /\ downlink \in Seq(Responses)
        /\ \A i \in DOMAIN downlink : downlink[i].ctx <= utterance'
    <3>1. downlink \in Seq(Responses) BY <1>0 DEF QueuesOK
    <3>2. ASSUME NEW i \in DOMAIN downlink PROVE downlink[i].ctx \in Nat
      <4>1. downlink[i] \in Responses BY <3>1
      <4> QED BY <4>1 DEF Responses, Utterances
    <3> QED BY <1>0, <1>2, <3>1, <3>2 DEF Known
  <2>1. CASE Reconnect BY <2>1 DEF Reconnect
  <2>2. CASE TickRead BY <2>0, <2>2 DEF TickRead
  <2>3. CASE Server
    <3>1. PICK k \in Utterances : SayStarted(k) \/ SayFinished(k)
      BY <2>3 DEF Server
    <3>2. k <= utterance
      <4>1. CASE SayStarted(k)
        <5>1. PICK i \in DOMAIN uplink : uplink[i].utt = k
          BY <4>1 DEF SayStarted, MayStart
        <5> QED BY <1>0, <5>1 DEF Known
      <4>2. CASE SayFinished(k)
        BY <1>0, <4>2 DEF SayFinished, CountsOK
      <4> QED BY <3>1, <4>1, <4>2
    <3>3. PICK type \in {"started", "finished"} :
            downlink' = Append(downlink, [type |-> type, ctx |-> k])
      BY <3>1 DEF SayStarted, SayFinished, ServerSays
    <3> QED BY <1>2, <2>0, <3>2, <3>3 DEF Utterances
  <2>4. CASE UNCHANGED downlink BY <2>0, <2>4
  <2> QED BY <1>1, <2>1, <2>2, <2>3, <2>4 DEF Writers
<1>5. (response \in Responses => response.ctx <= utterance)'
  <2>1. CASE TickRead
    <3>1. downlink \in Seq(Responses) /\ downlink # <<>>
      BY <1>0, <2>1 DEF TickRead, QueuesOK
    <3>2. Head(downlink).ctx <= utterance BY <1>0, <3>1 DEF Known
    <3>3. Head(downlink) \in Responses BY <3>1
    <3>4. Head(downlink).ctx \in Nat BY <3>3 DEF Responses, Utterances
    <3> QED BY <1>2, <2>1, <3>2, <3>4 DEF TickRead
  <2>2. CASE UNCHANGED response
    BY <1>0, <1>2, <2>2 DEF Known, Responses, Utterances
  <2> QED BY <1>1, <2>1, <2>2 DEF Writers
<1>6. (audio # "idle" => captured >= 1)' /\ (utterance = 0 => Quiet)'
  BY QuietStep
<1> QED BY <1>3, <1>4, <1>5, <1>6 DEF Known, Quiet

LEMMA TypesStart == ASSUME SpeechlyAssumption, Init PROVE TypeInv /\ GateInv
<1>1. FlagsOK BY DEF Init, FlagsOK, Calls
<1>2. CountsOK BY DEF SpeechlyAssumption, Init, CountsOK
<1>3. QueuesOK BY DEF Init, QueuesOK
<1>4. Known BY DEF Init, Known, Quiet, Responses
<1>5. GateInv BY DEF Init, GateInv, Recording, Closed
<1> QED BY <1>1, <1>2, <1>3, <1>4, <1>5 DEF TypeInv

(* The variables are of their types, whatever the constants.               *)
THEOREM SessionTypes == Spec => []TypeOK
<1>1. SpeechlyAssumption /\ Init => TypeInv /\ GateInv BY TypesStart
<1>2. SpeechlyAssumption /\ TypeInv /\ GateInv /\ [Next]_vars =>
        (TypeInv /\ GateInv)'
  BY FlagsStep, CountsStep, QueuesStep, KnownStep, GateStep DEF TypeInv
<1>3. TypeInv => TypeOK
  BY DEF TypeInv, FlagsOK, CountsOK, QueuesOK, TypeOK
<1> QED BY SpeechlyAssumption, <1>1, <1>2, <1>3, PTL DEF Spec

-----------------------------------------------------------------------------
(* One report per connection: the ticker that makes it is removed, and     *)
(* only Connect adds one.                                                  *)
ReportInv == (ticking => reports = 0) /\ reports \in {0, 1}

LEMMA ReportStep == ASSUME ReportInv, [Next]_vars PROVE ReportInv'
<1> USE DEF ReportInv, InCall, tickVars, audioVars, bufferVars, recordVars, contextVars,
        clientVars, serverVars, wireVars, tickerVars, countVars
<1>1. CASE Connect BY <1>1 DEF Connect, RecorderStop, Lock
<1>2. CASE Start BY <1>2 DEF Start, EmptyBuffer
<1>3. CASE Stop BY <1>3 DEF Stop, RecorderStop, Lock
<1>4. CASE Destroy BY <1>4 DEF Destroy, RecorderStop, Lock
<1>5. CASE Tick BY <1>5 DEF Tick
<1>6. CASE TickDisconnected BY <1>6 DEF TickDisconnected, Report, RemoveTicker
<1>7. CASE Reconnect BY <1>7 DEF Reconnect
<1>8. CASE KillThread BY <1>8 DEF KillThread
<1>9. CASE StartRecorder BY <1>9 DEF StartRecorder, RecorderStart, Lock
<1>10. CASE StartWrite BY <1>10 DEF StartWrite
<1>11. CASE ResetClient BY <1>11 DEF ResetClient
<1>12. CASE StartStop BY <1>12 DEF StartStop, RecorderStop, Lock
<1>13. CASE StopCheck BY <1>13 DEF StopCheck
<1>14. CASE StopWrite BY <1>14 DEF StopWrite
<1>15. CASE TickRead BY <1>15 DEF TickRead
<1>16. CASE HandleStarted BY <1>16 DEF HandleStarted
<1>17. CASE HandleFinished
  BY <1>17 DEF HandleFinished, EndsRecording, RecorderStop, Lock
<1>18. CASE TickEnd BY <1>18 DEF TickEnd
<1>19. CASE OnAudioCapture BY <1>19 DEF OnAudioCapture
<1>20. CASE RouteAudio BY <1>20 DEF RouteAudio
<1>21. CASE SendAudio BY <1>21 DEF SendAudio, EmptyBuffer
<1>22. CASE ClientThread
  BY <1>22 DEF ClientThread, ErrorSeen, StopSeen, ThreadEnds, ClientStep
<1>23. CASE Server BY <1>23 DEF Server, SayStarted, SayFinished, ServerSays
<1>24. CASE UNCHANGED vars BY <1>24 DEF vars
<1> QED
  BY <1>1, <1>2, <1>3, <1>4, <1>5, <1>6, <1>7, <1>8, <1>9, <1>10, <1>11, <1>12,
     <1>13, <1>14, <1>15, <1>16, <1>17, <1>18, <1>19, <1>20, <1>21, <1>22,
     <1>23, <1>24
     DEF Next, GameCall, TickCall, GameStep, AudioStep, Gone

(* The application hears of a lost connection once, whatever it does       *)
(* between the failure and the next Connect.                               *)
THEOREM OneReport == Spec => []ReportedOnce
<1>1. Init => ReportInv BY DEF Init, ReportInv
<1>2. ReportInv /\ [Next]_vars => ReportInv' BY ReportStep
<1>3. ReportInv => ReportedOnce BY DEF ReportInv, ReportedOnce
<1> QED BY <1>1, <1>2, <1>3, PTL DEF Spec

-----------------------------------------------------------------------------
(* The order of what is sent.  A capture in progress keeps the gate open;  *)
(* a working client is there; until START is sent audio is buffered, and   *)
(* none is being sent while it is.                                         *)
Opening == {"start_recorder", "start_write"}
FlowInv ==
    /\ audio # "idle" => bIsCapturing
    /\ ClientUp => /\ Client = "valid"
                   /\ game \notin {"start_reset", "start_stop", "stop_reset"}
    /\ game \in Opening => bIsBuffering
    /\ audio = "send" => ~bIsBuffering

LEMMA FlowStep == ASSUME FlowInv, GateInv, [Next]_vars PROVE FlowInv'
<1> USE DEF FlowInv, GateInv, Recording, Closed, Opening, ClientUp,
        InCall, tickVars, audioVars, bufferVars, recordVars, contextVars,
        clientVars, serverVars, wireVars, tickerVars, countVars
<1>1. CASE Connect BY <1>1 DEF Connect, RecorderStop, Lock
<1>2. CASE Start BY <1>2 DEF Start, EmptyBuffer
<1>3. CASE Stop BY <1>3 DEF Stop, RecorderStop, Lock
<1>4. CASE Destroy BY <1>4 DEF Destroy, RecorderStop, Lock
<1>5. CASE Tick BY <1>5 DEF Tick
<1>6. CASE TickDisconnected BY <1>6 DEF TickDisconnected
<1>7. CASE Reconnect BY <1>7 DEF Reconnect
<1>8. CASE KillThread BY <1>8 DEF KillThread
<1>9. CASE StartRecorder BY <1>9 DEF StartRecorder, RecorderStart, Lock
<1>10. CASE StartWrite BY <1>10 DEF StartWrite
<1>11. CASE ResetClient BY <1>11 DEF ResetClient
<1>12. CASE StartStop BY <1>12 DEF StartStop, RecorderStop, Lock
<1>13. CASE StopCheck BY <1>13 DEF StopCheck
<1>14. CASE StopWrite BY <1>14 DEF StopWrite
<1>15. CASE TickRead BY <1>15 DEF TickRead
<1>16. CASE HandleStarted BY <1>16 DEF HandleStarted, EndBuffering
<1>17. CASE HandleFinished
  BY <1>17 DEF HandleFinished, EndsRecording, RecorderStop, Lock
<1>18. CASE TickEnd BY <1>18 DEF TickEnd
<1>19. CASE OnAudioCapture BY <1>19 DEF OnAudioCapture
<1>20. CASE RouteAudio BY <1>20 DEF RouteAudio
<1>21. CASE SendAudio BY <1>21 DEF SendAudio, EmptyBuffer
<1>22. CASE ClientThread
  BY <1>22 DEF ClientThread, ErrorSeen, StopSeen, ThreadEnds, ClientStep
<1>23. CASE Server BY <1>23 DEF Server, SayStarted, SayFinished, ServerSays
<1>24. CASE UNCHANGED vars BY <1>24 DEF vars
<1> QED
  BY <1>1, <1>2, <1>3, <1>4, <1>5, <1>6, <1>7, <1>8, <1>9, <1>10, <1>11, <1>12,
     <1>13, <1>14, <1>15, <1>16, <1>17, <1>18, <1>19, <1>20, <1>21, <1>22,
     <1>23, <1>24
     DEF Next, GameCall, TickCall, GameStep, AudioStep, Gone

(* Until START is sent nothing of the utterance is.                        *)
NewInv ==
    /\ game \in Opening => \A i \in DOMAIN uplink : uplink[i].utt # utterance
    /\ game = "start_recorder" => captured = 0 /\ AudioBuffer = <<>>

LEMMA NewStep ==
  ASSUME TypeInv, FlowInv, GateInv, NewInv, [Next]_vars PROVE NewInv'
<1> USE DEF NewInv, FlowInv, GateInv, Recording, Closed, Opening,
        InCall, tickVars, audioVars, bufferVars, recordVars, contextVars,
        clientVars, serverVars, wireVars, tickerVars, countVars
<1>1. CASE Connect BY <1>1 DEF Connect, RecorderStop, Lock
<1>2. CASE Start
  <2>1. uplink \in Seq(Requests) /\ utterance \in Nat
    BY DEF TypeInv, QueuesOK, CountsOK
  <2>2. ASSUME NEW i \in DOMAIN uplink PROVE uplink[i].utt # utterance + 1
    BY <2>1 DEF TypeInv, Known
  <2> QED BY <1>2, <2>1, <2>2 DEF Start, EmptyBuffer
<1>3. CASE Stop BY <1>3 DEF Stop, RecorderStop, Lock
<1>4. CASE Destroy BY <1>4 DEF Destroy, RecorderStop, Lock
<1>5. CASE Tick BY <1>5 DEF Tick
<1>6. CASE TickDisconnected BY <1>6 DEF TickDisconnected
<1>7. CASE Reconnect BY <1>7 DEF Reconnect
<1>8. CASE KillThread BY <1>8 DEF KillThread
<1>9. CASE StartRecorder BY <1>9 DEF StartRecorder, RecorderStart, Lock
<1>10. CASE StartWrite BY <1>10 DEF StartWrite
<1>11. CASE ResetClient BY <1>11 DEF ResetClient
<1>12. CASE StartStop BY <1>12 DEF StartStop, RecorderStop, Lock
<1>13. CASE StopCheck BY <1>13 DEF StopCheck
<1>14. CASE StopWrite BY <1>14 DEF StopWrite
<1>15. CASE TickRead BY <1>15 DEF TickRead
<1>16. CASE HandleStarted BY <1>16 DEF HandleStarted
<1>17. CASE HandleFinished
  BY <1>17 DEF HandleFinished, EndsRecording, RecorderStop, Lock
<1>18. CASE TickEnd BY <1>18 DEF TickEnd
<1>19. CASE OnAudioCapture BY <1>19 DEF OnAudioCapture
<1>20. CASE RouteAudio BY <1>20 DEF RouteAudio
<1>21. CASE SendAudio BY <1>21 DEF SendAudio, EmptyBuffer
<1>22. CASE ClientThread
  BY <1>22 DEF ClientThread, ErrorSeen, StopSeen, ThreadEnds, ClientStep
<1>23. CASE Server BY <1>23 DEF Server, SayStarted, SayFinished, ServerSays
<1>24. CASE UNCHANGED vars BY <1>24 DEF vars
<1> QED
  BY <1>1, <1>2, <1>3, <1>4, <1>5, <1>6, <1>7, <1>8, <1>9, <1>10, <1>11, <1>12,
     <1>13, <1>14, <1>15, <1>16, <1>17, <1>18, <1>19, <1>20, <1>21, <1>22,
     <1>23, <1>24
     DEF Next, GameCall, TickCall, GameStep, AudioStep, Gone

(* What a step appends to the requests.                                    *)
LEMMA EventSent ==
  ASSUME TypeInv, StartWrite \/ StopWrite, uplink' # uplink
  PROVE  \E event \in {"START", "STOP"} :
           /\ event = "START" <=> StartWrite
           /\ Len(uplink') = Len(uplink) + 1
           /\ \A i \in 1..Len(uplink) : uplink'[i] = uplink[i]
           /\ uplink'[Len(uplink) + 1] = [type |-> event, utt |-> utterance]
<1>1. uplink \in Seq(Requests) BY DEF TypeInv, QueuesOK
<1>2. CASE StartWrite
  <2>1. SendEvent("START") BY <1>2 DEF StartWrite
  <2> QED BY <1>1, <1>2, <2>1 DEF SendEvent
<1>3. CASE StopWrite
  <2>1. SendEvent("STOP") /\ ~StartWrite
    BY <1>3 DEF StartWrite, StopWrite, InCall
  <2> QED BY <1>1, <2>1 DEF SendEvent
<1> QED BY <1>2, <1>3

LEMMA AudioSent ==
  ASSUME SpeechlyAssumption, TypeInv, SendAudio, uplink' # uplink
  PROVE  /\ ClientUp /\ Payload \in Seq(Chunks) /\ Len(Payload) >= 1
         /\ Len(uplink') = Len(uplink) + Len(Payload)
         /\ \A i \in 1..Len(uplink) : uplink'[i] = uplink[i]
         /\ \A i \in 1..Len(Payload) :
               uplink'[Len(uplink) + i] = [type |-> "AUDIO", utt |-> utterance,
                                           chunk |-> Payload[i]]
<1> DEFINE more == AudioRequest(Payload)
<1>1. ClientUp /\ uplink' = uplink \o more BY DEF SendAudio
<1>2. utterance \in Utterances /\ Payload \in Seq(Chunks)
  BY ChunkOK DEF SendAudio
<1>3. Len(Payload) >= 1 BY <1>2 DEF Payload
<1>4. /\ more \in Seq(Requests) /\ Len(more) = Len(Payload)
      /\ \A i \in 1..Len(Payload) :
            more[i] = [type |-> "AUDIO", utt |-> utterance,
                       chunk |-> Payload[i]]
  BY <1>2, AudioRequests
<1>5. uplink \in Seq(Requests) BY DEF TypeInv, QueuesOK
<1> HIDE DEF more
<1>6. /\ Len(uplink') = Len(uplink) + Len(more)
      /\ \A i \in 1..(Len(uplink) + Len(more)) :
            uplink'[i] = IF i <= Len(uplink) THEN uplink[i]
                         ELSE more[i - Len(uplink)]
  BY <1>1, <1>4, <1>5, ConcatProperties
<1>7. Len(uplink) \in Nat /\ Len(Payload) \in Nat BY <1>2, <1>5
<1>8. ASSUME NEW i \in 1..Len(Payload)
      PROVE  uplink'[Len(uplink) + i] = more[i]
  <2>1. /\ Len(uplink) + i \in 1..(Len(uplink) + Len(more))
        /\ ~(Len(uplink) + i <= Len(uplink))
        /\ (Len(uplink) + i) - Len(uplink) = i
    BY <1>4, <1>7
  <2> QED BY <1>6, <2>1
<1> QED BY <1>1, <1>2, <1>3, <1>4, <1>6, <1>7, <1>8

(* Where the requests end, over a working client: inside an utterance that *)
(* is active or being stopped, else behind a STOP.                         *)
InUtterance  == active \/ game \in {"stop_check", "stop_write"}
BetweenThem  == /\ ~active
                /\ game \in {"idle", "connect", "start_recorder", "start_write",
                             "tick", "handle", "destroy", "gone"}
PlaceInv ==
    ClientUp =>
      /\ InUtterance =>
            uplink # <<>> /\ Last.utt = utterance /\ Last.type # "STOP"
      /\ BetweenThem => uplink = <<>> \/ Last.type = "STOP"

(* Audio reaches a working client only in an active utterance.             *)
LEMMA AudioInUtterance ==
  ASSUME FlowInv, GateInv, SendAudio, ClientUp PROVE active /\ bIsCapturing
BY DEF FlowInv, GateInv, Recording, Closed, Opening, SendAudio

LEMMA PlaceStep ==
  ASSUME SpeechlyAssumption, TypeInv, FlowInv, GateInv, PlaceInv, [Next]_vars
  PROVE  PlaceInv'
<1> USE DEF PlaceInv, InUtterance, BetweenThem, Last, ClientUp, IsConnected,
        FlowInv, InCall, tickVars, audioVars, bufferVars, recordVars, contextVars,
        clientVars, serverVars, wireVars, tickerVars, countVars
<1>1. CASE Connect BY <1>1 DEF Connect, RecorderStop, Lock
<1>2. CASE Start BY <1>2 DEF Start, EmptyBuffer
<1>3. CASE Stop BY <1>3 DEF Stop, RecorderStop, Lock
<1>4. CASE Destroy BY <1>4 DEF Destroy, RecorderStop, Lock
<1>5. CASE Tick BY <1>5 DEF Tick
<1>6. CASE TickDisconnected BY <1>6 DEF TickDisconnected
<1>7. CASE Reconnect BY <1>7 DEF Reconnect
<1>8. CASE KillThread BY <1>8 DEF KillThread
<1>9. CASE StartRecorder BY <1>9 DEF StartRecorder, RecorderStart, Lock
<1>10. CASE StartWrite
  <2>1. CASE ~ClientUp BY <1>10, <2>1 DEF StartWrite
  <2>2. CASE ClientUp
    <3>1. uplink \in Seq(Requests) BY DEF TypeInv, QueuesOK
    <3>2. /\ uplink' = Append(uplink, [type |-> "START", utt |-> utterance])
          /\ active' /\ UNCHANGED utterance
      BY <1>10, <2>2 DEF StartWrite, SendEvent
    <3>3. uplink' # <<>> /\ Last' = [type |-> "START", utt |-> utterance]
      BY <3>1, <3>2
    <3> QED BY <3>2, <3>3
  <2> QED BY <2>1, <2>2
<1>11. CASE ResetClient BY <1>11 DEF ResetClient
<1>12. CASE StartStop BY <1>12 DEF StartStop, RecorderStop, Lock
<1>13. CASE StopCheck BY <1>13 DEF StopCheck
<1>14. CASE StopWrite
  <2>1. CASE ~ClientUp BY <1>14, <2>1 DEF StopWrite
  <2>2. CASE ClientUp
    <3>1. uplink \in Seq(Requests) BY DEF TypeInv, QueuesOK
    <3>2. uplink' = Append(uplink, [type |-> "STOP", utt |-> utterance])
      BY <1>14, <2>2 DEF StopWrite, SendEvent
    <3>3. Last'.type = "STOP" BY <3>1, <3>2
    <3>4. ~active /\ game' = "idle" /\ UNCHANGED active
      BY <1>14, <2>2 DEF StopWrite, GateInv, Recording
    <3> QED BY <3>3, <3>4
  <2> QED BY <2>1, <2>2
<1>15. CASE TickRead BY <1>15 DEF TickRead
<1>16. CASE HandleStarted BY <1>16 DEF HandleStarted
<1>17. CASE HandleFinished
  BY <1>17 DEF HandleFinished, EndsRecording, RecorderStop, Lock
<1>18. CASE TickEnd BY <1>18 DEF TickEnd
<1>19. CASE OnAudioCapture BY <1>19 DEF OnAudioCapture
<1>20. CASE RouteAudio BY <1>20 DEF RouteAudio
<1>21. CASE SendAudio
  <2>1. CASE uplink' = uplink BY <1>21, <2>1 DEF SendAudio
  <2>2. CASE uplink' # uplink
    <3>1. active' /\ UNCHANGED utterance
      BY <1>21, <2>2, AudioSent, AudioInUtterance DEF SendAudio
    <3>2. /\ Len(Payload) \in Nat \ {0} /\ Len(uplink) \in Nat
          /\ Len(uplink') = Len(uplink) + Len(Payload)
          /\ uplink'[Len(uplink) + Len(Payload)] =
                [type |-> "AUDIO", utt |-> utterance,
                 chunk |-> Payload[Len(Payload)]]
      <4>1. uplink \in Seq(Requests) BY DEF TypeInv, QueuesOK
      <4>2. /\ Payload \in Seq(Chunks) /\ Len(Payload) >= 1
            /\ Len(uplink') = Len(uplink) + Len(Payload)
            /\ \A i \in 1..Len(Payload) :
                  uplink'[Len(uplink) + i] = [type |-> "AUDIO", utt |-> utterance,
                                              chunk |-> Payload[i]]
        BY <1>21, <2>2, AudioSent
      <4>3. Len(Payload) \in 1..Len(Payload) BY ONLY <4>2
      <4> QED BY ONLY <4>1, <4>2, <4>3
    <3>3. Last' = [type |-> "AUDIO", utt |-> utterance,
                   chunk |-> Payload[Len(Payload)]]
      BY <3>2
    <3>4. uplink' # <<>> BY <3>2
    <3>5. (Last.type # "STOP" /\ Last.utt = utterance)' BY <3>1, <3>3
    <3> HIDE DEF Last
    <3>6. (BetweenThem => uplink = <<>> \/ Last.type = "STOP")' BY <3>1
    <3> QED BY <3>4, <3>5, <3>6
  <2> QED BY <2>1, <2>2
<1>22. CASE ClientThread
  BY <1>22 DEF ClientThread, ErrorSeen, StopSeen, ThreadEnds, ClientStep
<1>23. CASE Server
  <2>1. UNCHANGED <<game, active, utterance, uplink, bIsRunning, bHasError>>
    BY <1>23 DEF Server, SayStarted, SayFinished, ServerSays
  <2> QED BY <2>1
<1>24. CASE UNCHANGED vars BY <1>24 DEF vars
<1> QED
  BY <1>1, <1>2, <1>3, <1>4, <1>5, <1>6, <1>7, <1>8, <1>9, <1>10, <1>11, <1>12,
     <1>13, <1>14, <1>15, <1>16, <1>17, <1>18, <1>19, <1>20, <1>21, <1>22,
     <1>23, <1>24
     DEF Next, GameCall, TickCall, GameStep, AudioStep, Gone

LEMMA WellFormedStep ==
  ASSUME SpeechlyAssumption, TypeInv, FlowInv, GateInv, PlaceInv,
         ContextsWellFormed, [Next]_vars
  PROVE  ContextsWellFormed'
<1> DEFINE n == Len(uplink)
<1>0. uplink \in Seq(Requests) /\ n \in Nat BY DEF TypeInv, QueuesOK
<1>1. CASE Reconnect BY <1>1 DEF Reconnect, ContextsWellFormed
<1>2. CASE UNCHANGED uplink BY <1>2 DEF ContextsWellFormed
<1>3. CASE (StartWrite \/ StopWrite) /\ uplink' # uplink
  <2>1. PICK event \in {"START", "STOP"} :
          /\ event = "START" <=> StartWrite
          /\ Len(uplink') = n + 1
          /\ \A i \in 1..n : uplink'[i] = uplink[i]
          /\ uplink'[n + 1] = [type |-> event, utt |-> utterance]
    BY <1>3, EventSent
  <2>2. uplink'[n + 1].type = event /\ uplink'[n + 1].utt = utterance BY <2>1
  <2>3. ClientUp BY <1>3 DEF StartWrite, StopWrite
  <2>4. event = "START" => n = 0 \/ uplink[n].type = "STOP"
    <3>1. StartWrite => BetweenThem
      BY DEF StartWrite, InCall, BetweenThem, GateInv, Recording
    <3> QED BY <1>0, <2>1, <2>3, <3>1 DEF PlaceInv, Last
  <2>5. event = "STOP" =>
          n > 0 /\ uplink[n].type # "STOP" /\ uplink[n].utt = utterance
    <3>1. StopWrite => InUtterance BY DEF StopWrite, InCall, InUtterance
    <3> QED BY <1>0, <1>3, <2>1, <2>3, <3>1 DEF PlaceInv, Last
  <2>6. uplink' \in Seq(Requests) BY QueuesStep DEF QueuesOK
  <2> HIDE DEF n
  <2>7. ASSUME NEW i \in DOMAIN uplink'
        PROVE  IF uplink'[i].type = "START"
               THEN i = 1 \/ uplink'[i - 1].type = "STOP"
               ELSE /\ i > 1 /\ uplink'[i - 1].type # "STOP"
                    /\ uplink'[i - 1].utt = uplink'[i].utt
    <3>1. i \in 1..(n + 1) BY <2>1, <2>6
    <3>2. CASE i \in 1..n
      BY <1>0, <2>1, <3>2 DEF ContextsWellFormed, n
    <3>3. CASE i = n + 1
      <4>1. n > 0 => uplink'[n] = uplink[n] BY <1>0, <2>1
      <4> QED BY <1>0, <2>2, <2>4, <2>5, <3>3, <4>1
    <3> QED BY <1>0, <3>1, <3>2, <3>3
  <2> QED BY <2>7 DEF ContextsWellFormed
<1>4. CASE SendAudio /\ uplink' # uplink
  <2> DEFINE m == Len(Payload)
  <2>1. /\ ClientUp /\ m \in Nat \ {0} /\ Len(uplink') = n + m
        /\ \A i \in 1..n : uplink'[i] = uplink[i]
    BY <1>4, AudioSent
  <2>2. ASSUME NEW i \in 1..m
        PROVE  uplink'[n + i].type = "AUDIO" /\ uplink'[n + i].utt = utterance
    <3>1. uplink'[n + i] = [type |-> "AUDIO", utt |-> utterance,
                            chunk |-> Payload[i]]
      BY <1>4, AudioSent
    <3> HIDE DEF n, m
    <3> QED BY <3>1
  <2>3. n > 0 /\ uplink[n].type # "STOP" /\ uplink[n].utt = utterance
    <3>1. InUtterance BY <1>4, <2>1, AudioInUtterance DEF InUtterance
    <3> QED BY <1>0, <2>1, <3>1 DEF PlaceInv, Last
  <2>4. uplink' \in Seq(Requests) BY QueuesStep DEF QueuesOK
  <2> HIDE DEF n, m
  <2>5. ASSUME NEW i \in DOMAIN uplink'
        PROVE  IF uplink'[i].type = "START"
               THEN i = 1 \/ uplink'[i - 1].type = "STOP"
               ELSE /\ i > 1 /\ uplink'[i - 1].type # "STOP"
                    /\ uplink'[i - 1].utt = uplink'[i].utt
    <3>1. i \in 1..(n + m) BY <2>1, <2>4
    <3>2. CASE i \in 1..n
      BY <1>0, <2>1, <3>2 DEF ContextsWellFormed, n
    <3>3. CASE i = n + 1
      <4>1. uplink'[n] = uplink[n] /\ i - 1 = n
        BY <1>0, <2>1, <2>3, <3>3
      <4>2. uplink'[i].type = "AUDIO" /\ uplink'[i].utt = utterance
        BY <2>1, <2>2, <3>3
      <4> QED BY <1>0, <2>3, <3>3, <4>1, <4>2
    <3>4. CASE i > n + 1
      <4>1. PICK j \in 1..m : i = n + j /\ j > 1
        <5>1. i - n \in 1..m /\ i - n > 1 /\ i = n + (i - n)
          BY <1>0, <2>1, <3>1, <3>4
        <5> QED BY <5>1
      <4>2. j - 1 \in 1..m /\ i - 1 = n + (j - 1)
        BY <1>0, <2>1, <4>1
      <4>3. /\ uplink'[i].type = "AUDIO" /\ uplink'[i].utt = utterance
            /\ uplink'[i - 1].type = "AUDIO" /\ uplink'[i - 1].utt = utterance
        BY <2>2, <4>1, <4>2
      <4> QED BY <1>0, <2>1, <3>4, <4>3
    <3> QED BY <1>0, <2>1, <3>1, <3>2, <3>3, <3>4
  <2> QED BY <2>5 DEF ContextsWellFormed
<1> QED BY <1>1, <1>2, <1>3, <1>4, WhoWrites DEF Writers

-----------------------------------------------------------------------------
(* The audio that is held goes on where what was sent stops; once some was *)
(* sent, none is buffered any more.                                        *)
GoesOn(chunks, n) ==
    /\ Len(chunks) = captured - n
    /\ \A i \in 1..Len(chunks) : chunks[i] = [utt |-> utterance, n |-> n + i]
Taking == InUtterance \/ game = "start_write"
KeptInv ==
    Taking /\ ClientUp =>
        /\ LastSent \in 0..captured /\ GoesOn(Held, LastSent)
        /\ LastSent > 0 => ~bIsBuffering /\ AudioBuffer = <<>>

KeptVars == <<captured, audio, AudioBuffer, uplink, utterance>>
KeptSame == /\ UNCHANGED KeptVars
            /\ Taking' => Taking
            /\ bIsBuffering' => bIsBuffering
            /\ ClientUp' => ClientUp
KeptWriter == Start \/ StartRecorder \/ Reconnect \/ StartWrite \/ StopWrite
              \/ OnAudioCapture \/ RouteAudio \/ SendAudio

LEMMA WhoKeeps == ASSUME [Next]_vars PROVE KeptWriter \/ KeptSame
<1> USE DEF KeptWriter, KeptSame, KeptVars, ClientUp, Taking, InUtterance,
        EndBuffering,
        InCall, tickVars, audioVars, bufferVars, recordVars, contextVars,
        clientVars, serverVars, wireVars, tickerVars, countVars
<1>1. CASE Connect BY <1>1 DEF Connect, RecorderStop, Lock
<1>2. CASE Start BY <1>2 DEF Start, EmptyBuffer
<1>3. CASE Stop BY <1>3 DEF Stop, RecorderStop, Lock
<1>4. CASE Destroy BY <1>4 DEF Destroy, RecorderStop, Lock
<1>5. CASE Tick BY <1>5 DEF Tick
<1>6. CASE TickDisconnected BY <1>6 DEF TickDisconnected
<1>7. CASE Reconnect BY <1>7 DEF Reconnect
<1>8. CASE KillThread BY <1>8 DEF KillThread
<1>9. CASE StartRecorder BY <1>9 DEF StartRecorder, RecorderStart, Lock
<1>10. CASE StartWrite BY <1>10 DEF StartWrite
<1>11. CASE ResetClient BY <1>11 DEF ResetClient
<1>12. CASE StartStop BY <1>12 DEF StartStop, RecorderStop, Lock
<1>13. CASE StopCheck BY <1>13 DEF StopCheck
<1>14. CASE StopWrite BY <1>14 DEF StopWrite
<1>15. CASE TickRead BY <1>15 DEF TickRead
<1>16. CASE HandleStarted BY <1>16 DEF HandleStarted
<1>17. CASE HandleFinished
  BY <1>17 DEF HandleFinished, EndsRecording, RecorderStop, Lock
<1>18. CASE TickEnd BY <1>18 DEF TickEnd
<1>19. CASE OnAudioCapture BY <1>19 DEF OnAudioCapture
<1>20. CASE RouteAudio BY <1>20 DEF RouteAudio
<1>21. CASE SendAudio BY <1>21 DEF SendAudio, EmptyBuffer
<1>22. CASE ClientThread
  BY <1>22 DEF ClientThread, ErrorSeen, StopSeen, ThreadEnds, ClientStep
<1>23. CASE Server BY <1>23 DEF Server, SayStarted, SayFinished, ServerSays
<1>24. CASE UNCHANGED vars BY <1>24 DEF vars
<1> QED
  BY <1>1, <1>2, <1>3, <1>4, <1>5, <1>6, <1>7, <1>8, <1>9, <1>10, <1>11, <1>12,
     <1>13, <1>14, <1>15, <1>16, <1>17, <1>18, <1>19, <1>20, <1>21, <1>22,
     <1>23, <1>24
     DEF Next, GameCall, TickCall, GameStep, AudioStep, Gone

(* The chunks in hand, while the gate is open over a working client.       *)
LEMMA HeldSeq ==
  ASSUME SpeechlyAssumption, TypeInv
  PROVE  Held \in Seq(Chunks) /\ AudioBuffer \in Seq(Chunks)
<1>1. AudioBuffer \in Seq(Chunks) BY DEF TypeInv, QueuesOK
<1>2. CASE audio = "idle" BY <1>1, <1>2 DEF Held
<1>3. CASE audio = "route"
  <2>1. Chunk \in Chunks BY <1>3, ChunkOK
  <2> QED BY <1>1, <1>3, <2>1 DEF Held
<1>4. CASE audio = "send" BY <1>1, <1>4, ChunkOK DEF Held
<1> QED BY <1>1, <1>2, <1>3, <1>4 DEF TypeInv, FlagsOK

(* Sending empties the hands: after it all that was captured is sent.      *)
LEMMA SentAll ==
  ASSUME SpeechlyAssumption, TypeInv, FlowInv, GateInv, KeptInv, SendAudio,
         ClientUp
  PROVE  /\ InUtterance /\ Taking
         /\ LastSent \in Nat /\ LastSent < captured /\ LastSent' = captured
<1> DEFINE m == Len(Payload)
<1>0. /\ uplink \in Seq(Requests) /\ AudioBuffer \in Seq(Chunks)
      /\ captured \in Nat /\ utterance \in Nat
  BY DEF TypeInv, QueuesOK, CountsOK
<1>1. audio = "send" /\ UNCHANGED <<captured, utterance>>
  BY DEF SendAudio, countVars
<1>2. uplink' # uplink
  <2>1. uplink' = uplink \o AudioRequest(Payload) BY DEF SendAudio
  <2>2. utterance \in Utterances /\ Payload \in Seq(Chunks) /\ Len(Payload) > 0
    BY <1>1, ChunkOK DEF Payload
  <2>3. AudioRequest(Payload) \in Seq(Requests) /\ Len(AudioRequest(Payload)) > 0
    BY <2>2, AudioRequests
  <2>4. Len(uplink') = Len(uplink) + Len(AudioRequest(Payload))
    BY <1>0, <2>1, <2>3, ConcatProperties
  <2> QED BY <1>0, <2>3, <2>4
<1>3. /\ m \in Nat \ {0} /\ Len(uplink') = Len(uplink) + m
      /\ uplink'[Len(uplink) + m] = [type |-> "AUDIO", utt |-> utterance,
                                      chunk |-> Payload[m]]
  BY <1>2, AudioSent
<1>4. InUtterance /\ Taking BY AudioInUtterance DEF Taking, InUtterance
<1>5. LastSent \in 0..captured /\ GoesOn(Payload, LastSent)
  BY <1>1, <1>4 DEF KeptInv, Held
<1> HIDE DEF m
<1>6. m = captured - LastSent BY <1>5 DEF GoesOn, m
<1>7. Payload[m].n = captured
  <2>1. Payload[m] = [utt |-> utterance, n |-> LastSent + m]
    BY <1>3, <1>5 DEF GoesOn, m
  <2> QED BY <1>0, <1>5, <1>6, <2>1
<1>8. LastSent' = captured
  <2>1. uplink' # <<>> BY <1>0, <1>3
  <2>2. (uplink[Len(uplink)])' = [type |-> "AUDIO", utt |-> utterance,
                                  chunk |-> Payload[m]]
    BY <1>3
  <2>3. /\ (uplink[Len(uplink)].utt)' = utterance
        /\ (uplink[Len(uplink)].type)' = "AUDIO"
        /\ (uplink[Len(uplink)].chunk.n)' = captured
    BY <1>7, <2>2
  <2> QED BY <1>0, <1>1, <2>1, <2>3 DEF LastSent, NextChunk
<1> QED BY <1>0, <1>3, <1>4, <1>5, <1>6, <1>8

LEMMA KeptStep ==
  ASSUME SpeechlyAssumption, TypeInv, FlowInv, GateInv, PlaceInv, NewInv,
         KeptInv, [Next]_vars
  PROVE  KeptInv'
<1>0. /\ uplink \in Seq(Requests) /\ AudioBuffer \in Seq(Chunks)
      /\ captured \in Nat /\ utterance \in Nat
  BY DEF TypeInv, QueuesOK, CountsOK
<1>1. CASE Start
  BY <1>1 DEF Start, InCall, Taking, InUtterance, KeptInv
<1>2. CASE StartRecorder
  <2>1. LastSent = 0
    BY <1>0, <1>2 DEF StartRecorder, InCall, NewInv, Opening, LastSent
  <2>2. audio = "idle" /\ captured = 0 /\ AudioBuffer = <<>>
    BY <1>2 DEF StartRecorder, RecorderStart, Lock, InCall, NewInv
  <2>3. UNCHANGED KeptVars
    BY <1>2 DEF StartRecorder, KeptVars, audioVars, bufferVars, wireVars,
                countVars
  <2>4. LastSent' = 0 /\ Held' = <<>> /\ captured' = 0
    BY <2>1, <2>2, <2>3 DEF LastSent, NextChunk, Held, KeptVars
  <2> QED BY <2>4 DEF KeptInv, GoesOn
<1>3. CASE Reconnect
  BY <1>3 DEF Reconnect, InCall, Taking, InUtterance, KeptInv
<1>4. CASE StartWrite
  <2>1. CASE ~ClientUp
    BY <2>1, <1>4 DEF StartWrite, KeptInv, ClientUp, clientVars
  <2>2. CASE ClientUp
    <3>1. /\ uplink' = Append(uplink, [type |-> "START", utt |-> utterance])
          /\ UNCHANGED <<captured, audio, AudioBuffer, utterance>>
          /\ Taking
      BY <1>4, <2>2 DEF StartWrite, SendEvent, recordVars, audioVars,
                        bufferVars, countVars, InCall, Taking
    <3>2. /\ uplink' # <<>>
          /\ uplink'[Len(uplink')] = [type |-> "START", utt |-> utterance]
      BY <1>0, <3>1
    <3>3. LastSent' = 0 BY <3>1, <3>2 DEF LastSent, NextChunk
    <3>4. LastSent = 0
      BY <1>0, <1>4 DEF StartWrite, InCall, NewInv, Opening, LastSent
    <3>5. Held' = Held BY <3>1 DEF Held, Chunk, Payload
    <3> QED BY <2>2, <3>1, <3>3, <3>4, <3>5 DEF KeptInv, GoesOn
  <2> QED BY <2>1, <2>2
<1>5. CASE StopWrite
  BY <1>5 DEF StopWrite, InCall, GateInv, Recording, Taking, InUtterance,
              KeptInv
<1>6. CASE OnAudioCapture /\ ClientUp
  <2>1. /\ audio = "idle" /\ captured' = captured + 1
        /\ audio' = "route" /\ UNCHANGED <<AudioBuffer, uplink, utterance>>
        /\ UNCHANGED bIsBuffering
    BY <1>6 DEF OnAudioCapture, IsConnected, ClientUp, FlowInv, bufferVars,
                wireVars, countVars
  <2> SUFFICES ASSUME Taking' PROVE KeptInv' BY DEF KeptInv
  <2>0. Taking
    BY <1>6 DEF OnAudioCapture, Taking, InUtterance
  <2>2. LastSent' = LastSent BY <2>1 DEF LastSent, NextChunk
  <2>3. /\ LastSent \in 0..captured
        /\ GoesOn(AudioBuffer, LastSent)
    BY <1>6, <2>0, <2>1 DEF KeptInv, Held
  <2>4. Held' = Append(AudioBuffer, [utt |-> utterance, n |-> captured + 1])
    BY <2>1 DEF Held, Chunk
  <2>5. GoesOn(Held, LastSent)'
    <3>1. PICK n \in 0..captured : n = LastSent BY <2>3
    <3>2. PICK chunks \in Seq(Chunks) : chunks = AudioBuffer BY <1>0
    <3>3. PICK c : c = [utt |-> utterance, n |-> captured + 1] OBVIOUS
    <3>4. /\ Len(chunks) = captured - n
          /\ \A i \in 1..Len(chunks) :
                chunks[i] = [utt |-> utterance, n |-> n + i]
      BY <2>3, <3>1, <3>2 DEF GoesOn
    <3>5. /\ Len(Append(chunks, c)) = captured + 1 - n
          /\ \A i \in 1..Len(chunks) : Append(chunks, c)[i] = chunks[i]
          /\ Append(chunks, c)[captured + 1 - n] = c
      BY <1>0, <3>4
    <3>6. ASSUME NEW i \in 1..(captured + 1 - n)
          PROVE  Append(chunks, c)[i] = [utt |-> utterance, n |-> n + i]
      <4>1. CASE i \in 1..Len(chunks) BY <3>4, <3>5, <4>1
      <4>2. CASE i = captured + 1 - n
        <5>1. n + i = captured + 1 BY <1>0, <4>2
        <5> QED BY <3>3, <3>5, <4>2, <5>1
      <4> QED BY <1>0, <3>4, <4>1, <4>2
    <3>7. Held' = Append(chunks, c) /\ LastSent' = n
      BY <2>2, <2>4, <3>1, <3>2, <3>3
    <3> QED BY <1>0, <2>1, <3>5, <3>6, <3>7 DEF GoesOn
  <2>6. LastSent > 0 => ~bIsBuffering /\ AudioBuffer = <<>>
    BY <1>6, <2>0 DEF KeptInv
  <2> QED BY <1>0, <2>1, <2>2, <2>3, <2>5, <2>6 DEF KeptInv
<1>7. CASE RouteAudio
  <2>1. /\ UNCHANGED <<captured, uplink, utterance, game, active>>
        /\ UNCHANGED <<bIsRunning, bHasError, bIsBuffering>>
    BY <1>7 DEF RouteAudio, wireVars, clientVars, countVars
  <2>2. Held' = Held
    <3>1. Chunk' = Chunk BY <2>1 DEF Chunk
    <3>2. Held = Append(AudioBuffer, Chunk) BY <1>7 DEF RouteAudio, Held
    <3>3. CASE bIsBuffering \/ AudioBuffer # <<>>
      BY <1>0, <1>7, <3>1, <3>2, <3>3 DEF RouteAudio, Held, Payload
    <3>4. CASE ~bIsBuffering /\ AudioBuffer = <<>>
      BY <1>7, <3>1, <3>2, <3>4 DEF RouteAudio, Held, Payload
    <3> QED BY <3>3, <3>4
  <2>3. LastSent' = LastSent BY <2>1 DEF LastSent, NextChunk
  <2>4. AudioBuffer' # AudioBuffer => bIsBuffering \/ AudioBuffer # <<>>
    BY <1>7 DEF RouteAudio
  <2> QED
    BY <2>1, <2>2, <2>3, <2>4
       DEF KeptInv, GoesOn, ClientUp, Taking, InUtterance
<1>8. CASE SendAudio /\ ClientUp
  <2>1. /\ UNCHANGED captured
        /\ audio = "send" /\ audio' = "idle" /\ AudioBuffer' = <<>>
    BY <1>8 DEF SendAudio, EmptyBuffer
  <2>2. Held' = <<>> BY <2>1 DEF Held
  <2>3. ~bIsBuffering' BY <1>8, <2>1 DEF SendAudio, FlowInv
  <2>4. LastSent' = captured BY <1>8, SentAll
  <2> QED BY <1>0, <2>1, <2>2, <2>3, <2>4 DEF KeptInv, GoesOn
<1>9. CASE (OnAudioCapture \/ SendAudio) /\ ~ClientUp
  <2>1. UNCHANGED <<bIsRunning, bHasError>>
    BY <1>9 DEF OnAudioCapture, SendAudio, wireVars, clientVars
  <2> QED BY <1>9, <2>1 DEF ClientUp, KeptInv
<1>10. CASE KeptSame
  <2>1. Held' = Held /\ LastSent' = LastSent
    BY <1>10 DEF KeptSame, KeptVars, Held, LastSent, NextChunk, Chunk, Payload
  <2> QED BY <1>10, <2>1 DEF KeptSame, KeptVars, KeptInv, GoesOn
<1> QED
  BY <1>1, <1>2, <1>3, <1>4, <1>5, <1>6, <1>7, <1>8, <1>9, <1>10, WhoKeeps
     DEF KeptWriter

LEMMA UnbrokenStep ==
  ASSUME SpeechlyAssumption, TypeInv, FlowInv, GateInv, PlaceInv, KeptInv,
         ContextsWellFormed, AudioUnbroken, [Next]_vars
  PROVE  AudioUnbroken'
<1> DEFINE n == Len(uplink)
           Fits(i) == uplink[i].type = "AUDIO" =>
                        uplink[i].chunk = [utt |-> uplink[i].utt,
                                           n |-> NextChunk(i - 1)]
<1>0. /\ uplink \in Seq(Requests) /\ n \in Nat
      /\ \A i \in 1..n : Fits(i)
  BY DEF TypeInv, QueuesOK, AudioUnbroken
<1>1. CASE Reconnect BY <1>1 DEF Reconnect, AudioUnbroken
<1>2. CASE UNCHANGED uplink BY <1>2 DEF AudioUnbroken, NextChunk
<1>3. CASE uplink' # uplink /\ (StartWrite \/ StopWrite \/ SendAudio)
  <2>1. /\ uplink' \in Seq(Requests) /\ Len(uplink') > n
        /\ \A i \in 1..n : uplink'[i] = uplink[i]
    <3>1. uplink' \in Seq(Requests) BY QueuesStep DEF QueuesOK
    <3>2. CASE SendAudio
      <4>1. Len(uplink') = n + Len(Payload) /\ Len(Payload) >= 1
        BY <1>3, <3>2, AudioSent
      <4>2. Len(Payload) \in Nat BY <3>2, ChunkOK DEF SendAudio
      <4> QED BY <1>0, <1>3, <3>1, <3>2, <4>1, <4>2, AudioSent
    <3>3. CASE StartWrite \/ StopWrite BY <1>0, <1>3, <3>1, <3>3, EventSent
    <3> QED BY <1>3, <3>2, <3>3
  <2>2. ASSUME NEW i \in 1..n PROVE Fits(i)'
    <3>1. CASE i > 1
      <4>1. i - 1 \in 1..n BY <1>0, <3>1
      <4>2. uplink'[i] = uplink[i] /\ uplink'[i - 1] = uplink[i - 1]
        BY <2>1, <4>1
      <4> QED BY <1>0, <4>2 DEF NextChunk
    <3>2. CASE i = 1
      <4>1. uplink[1].type = "START"
        <5>1. 1 \in DOMAIN uplink BY <1>0, <3>2
        <5> HIDE DEF Fits
        <5> QED BY <5>1 DEF ContextsWellFormed
      <4> QED BY <2>1, <3>2, <4>1
    <3> QED BY <1>0, <3>1, <3>2
  <2>3. ASSUME NEW i \in 1..Len(uplink'), i > n PROVE Fits(i)'
    <3>1. CASE StartWrite \/ StopWrite
      <4>1. PICK event \in {"START", "STOP"} :
              /\ Len(uplink') = n + 1
              /\ uplink'[n + 1] = [type |-> event, utt |-> utterance]
        BY <1>3, <3>1, EventSent
      <4>2. i = n + 1 BY <1>0, <2>3, <4>1
      <4>3. uplink'[i].type # "AUDIO" BY <4>1, <4>2
      <4> QED BY <4>3
    <3>2. CASE SendAudio
      <4> DEFINE m == Len(Payload)
      <4>1. /\ ClientUp /\ m \in Nat \ {0} /\ Len(uplink') = n + m
        BY <1>3, <3>2, AudioSent
      <4>2. InUtterance /\ Taking
        BY <3>2, <4>1, AudioInUtterance DEF InUtterance, Taking
      <4>3. LastSent \in 0..captured /\ GoesOn(Payload, LastSent)
        <5>1. audio = "send" BY <3>2 DEF SendAudio
        <5> QED BY <4>1, <4>2, <5>1 DEF KeptInv, Held
      <4>4. uplink # <<>> /\ uplink[n].utt = utterance
        BY <4>1, <4>2 DEF PlaceInv, Last
      <4>5. n > 0 BY <1>0, <4>4
      <4>6. NextChunk(n) - 1 = LastSent BY <4>4 DEF LastSent
      <4>7. NextChunk(n) \in Nat
        <5>1. uplink[n] \in Requests BY <1>0, <4>5
        <5>2. uplink[n].type = "AUDIO" => uplink[n].chunk \in Chunks
          BY <5>1 DEF Requests
        <5> QED BY <5>2 DEF NextChunk, Chunks
      <4>8. LastSent + 1 = NextChunk(n) /\ LastSent \in Nat
        BY <4>3, <4>6, <4>7 DEF TypeInv, CountsOK
      <4>9. ASSUME NEW j \in 1..m
            PROVE  /\ uplink'[n + j].type = "AUDIO"
                   /\ uplink'[n + j].utt = utterance
                   /\ uplink'[n + j].chunk =
                        [utt |-> utterance, n |-> LastSent + j]
        <5>1. uplink'[n + j] = [type |-> "AUDIO", utt |-> utterance,
                                chunk |-> Payload[j]]
          BY <1>3, <3>2, AudioSent
        <5>2. Payload[j] = [utt |-> utterance, n |-> LastSent + j]
          BY <4>3 DEF GoesOn
        <5> HIDE DEF n, m
        <5> QED BY <5>1, <5>2
      <4> HIDE DEF m
      <4>10. PICK j \in 1..m : i = n + j
        <5>1. i - n \in 1..m /\ i = n + (i - n) BY <1>0, <2>3, <4>1
        <5> QED BY <5>1
      <4>11. (NextChunk(i - 1))' = LastSent + j
        <5>1. CASE j = 1
          <6>1. i - 1 = n BY <1>0, <4>10, <5>1
          <6>2. uplink'[i - 1] = uplink[n] BY <1>0, <2>1, <4>5, <6>1
          <6>3. (NextChunk(i - 1))' = NextChunk(n) BY <6>1, <6>2 DEF NextChunk
          <6> QED BY <4>8, <5>1, <6>3
        <5>2. CASE j > 1
          <6>1. j - 1 \in 1..m /\ i - 1 = n + (j - 1)
            BY <1>0, <4>1, <4>10, <5>2
          <6>2. /\ uplink'[i - 1].type = "AUDIO"
                /\ uplink'[i - 1].chunk.n = LastSent + (j - 1)
            <7>1. /\ uplink'[n + (j - 1)].type = "AUDIO"
                  /\ uplink'[n + (j - 1)].chunk =
                       [utt |-> utterance, n |-> LastSent + (j - 1)]
              BY <4>9, <6>1
            <7> HIDE DEF n
            <7> QED BY <6>1, <7>1
          <6>3. LastSent + (j - 1) + 1 = LastSent + j BY <4>1, <4>8
          <6> QED BY <6>2, <6>3 DEF NextChunk
        <5> QED BY <4>1, <5>1, <5>2
      <4>12. (uplink[i].chunk)' = [utt |-> utterance, n |-> LastSent + j]
             /\ (uplink[i].utt)' = utterance
        BY <4>9, <4>10
      <4> QED BY <4>11, <4>12
    <3> QED BY <1>3, <3>1, <3>2
  <2>4. DOMAIN uplink' = 1..Len(uplink') /\ Len(uplink') \in Nat BY <2>1
  <2>5. \A i \in DOMAIN uplink' : Fits(i)'
    BY <1>0, <2>1, <2>2, <2>3, <2>4
  <2> QED BY <2>5 DEF AudioUnbroken
<1> QED BY <1>1, <1>2, <1>3, WhoWrites DEF Writers

(* The inductive invariant of the session.                                 *)
SessionInv ==
    /\ TypeInv /\ GateInv /\ FlowInv /\ PlaceInv /\ NewInv /\ KeptInv
    /\ ContextsWellFormed /\ AudioUnbroken

LEMMA SessionInvariant == Spec => []SessionInv
<1>1. SpeechlyAssumption /\ Init => SessionInv
  <2> SUFFICES ASSUME SpeechlyAssumption, Init PROVE SessionInv OBVIOUS
  <2>1. TypeInv /\ GateInv BY TypesStart
  <2>2. FlowInv /\ PlaceInv /\ NewInv /\ KeptInv
    BY DEF Init, FlowInv, PlaceInv, NewInv, KeptInv, ClientUp, Opening
  <2>3. ContextsWellFormed /\ AudioUnbroken
    BY DEF Init, ContextsWellFormed, AudioUnbroken
  <2> QED BY <2>1, <2>2, <2>3 DEF SessionInv
<1>2. SpeechlyAssumption /\ SessionInv /\ [Next]_vars => SessionInv'
  BY FlagsStep, CountsStep, QueuesStep, KnownStep, GateStep, FlowStep,
     PlaceStep, NewStep, KeptStep, WellFormedStep, UnbrokenStep
     DEF SessionInv, TypeInv
<1> QED BY SpeechlyAssumption, <1>1, <1>2, PTL DEF Spec

(* Every context the server sees is START, audio, STOP, although the audio *)
(* thread and the game thread write to the same stream.                    *)
THEOREM ContextsAreWellFormed == Spec => []ContextsWellFormed
<1>1. SessionInv => ContextsWellFormed BY DEF SessionInv
<1> QED BY <1>1, SessionInvariant, PTL

(* The audio of a context is that utterance's from its first chunk on,     *)
(* without gaps, repetitions or leftovers of an earlier recording.         *)
THEOREM AudioIsUnbroken == Spec => []AudioUnbroken
<1>1. SessionInv => AudioUnbroken BY DEF SessionInv
<1> QED BY <1>1, SessionInvariant, PTL

(* No captured chunk is lost between the microphone and a working client.  *)
THEOREM AudioIsKept == Spec => []AudioKept
<1>1. ASSUME SessionInv PROVE AudioKept
  <2> SUFFICES ASSUME bIsCapturing, IsConnected, bIsRunning
               PROVE  Held = [i \in 1..(captured - LastSent) |->
                                [utt |-> utterance, n |-> LastSent + i]]
    BY DEF AudioKept
  <2>0. Taking
    BY <1>1 DEF SessionInv, GateInv, FlowInv, Recording, Closed, Taking,
                InUtterance, IsConnected, ClientUp
  <2>1. LastSent \in 0..captured /\ GoesOn(Held, LastSent)
    BY <1>1, <2>0 DEF SessionInv, KeptInv, IsConnected, ClientUp
  <2>2. Held \in Seq(Chunks) BY <1>1, HeldSeq, SpeechlyAssumption DEF SessionInv
  <2>3. Held = [i \in 1..Len(Held) |-> Held[i]] BY <2>2
  <2> QED BY <2>1, <2>3 DEF GoesOn
<1>2. SessionInv => AudioKept BY <1>1
<1> QED BY <1>2, SessionInvariant, PTL

=============================================================================
