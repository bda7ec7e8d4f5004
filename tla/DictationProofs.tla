--------------------------- MODULE DictationProofs ---------------------------
(* Theorems about what a session of Speechly is to the server, and about   *)
(* how it ends, for any number of connections, utterances and chunks.      *)
EXTENDS SpeechlyProofs

(* Where a working connection is: in an utterance, whose requests are the  *)
(* last ones and which is open, or between two, where none is.             *)
LEMMA WhereItIs ==
  ASSUME SpeechlyAssumption, SessionInv, ClientUp
  PROVE  /\ InUtterance => /\ OpenNow /\ Last.utt = utterance /\ uplink # <<>>
                           /\ utterance >= 1
         /\ ~InUtterance => ~OpenNow /\ BetweenThem
<1> USE DEF SessionInv
<1>1. ASSUME InUtterance
      PROVE  OpenNow /\ Last.utt = utterance /\ uplink # <<>> /\ utterance >= 1
  <2>1. uplink # <<>> /\ Last.utt = utterance /\ Last.type # "STOP"
    BY <1>1 DEF PlaceInv
  <2>2. utterance \in Nat /\ utterance # 0
    BY <1>1 DEF TypeInv, CountsOK, Known, Quiet, InUtterance
  <2> QED BY <2>1, <2>2 DEF OpenNow
<1>2. ASSUME ~InUtterance PROVE ~OpenNow /\ BetweenThem
  <2>1. BetweenThem
    BY <1>2 DEF InUtterance, BetweenThem, FlowInv, TypeInv, FlagsOK, Calls
  <2> QED BY <2>1 DEF OpenNow, PlaceInv
<1> QED BY <1>1, <1>2

(* What the connection is as a Dictation.                                  *)
Context  == IF OpenNow THEN Last.utt ELSE 0
Latest   == IF ClientUp /\ uplink # <<>> THEN Last.utt ELSE 0
Recorded == IF OpenNow THEN captured ELSE 0
Sent     == IF OpenNow THEN LastSent ELSE 0
DView    == <<ClientUp, Context, Latest, Recorded, Sent>>

Views ==
    /\ ~ClientUp => Context = 0 /\ Latest = 0 /\ Recorded = 0 /\ Sent = 0
    /\ ClientUp /\ InUtterance =>
          /\ Context = utterance /\ Latest = utterance /\ Context # 0
          /\ Recorded = captured /\ Sent = LastSent
    /\ ClientUp /\ ~InUtterance => Context = 0 /\ Recorded = 0 /\ Sent = 0
    /\ ClientUp => Latest = IF uplink # <<>> THEN Last.utt ELSE 0

LEMMA View == SessionInv => Views
<1>1. ~ClientUp => Context = 0 /\ Latest = 0 /\ Recorded = 0 /\ Sent = 0
  BY DEF Context, Latest, Recorded, Sent, OpenNow
<1>2. ASSUME SessionInv, ClientUp, InUtterance
      PROVE  /\ Context = utterance /\ Latest = utterance /\ Context # 0
             /\ Recorded = captured /\ Sent = LastSent
  BY <1>2, SpeechlyAssumption, WhereItIs
     DEF Context, Latest, Recorded, Sent, SessionInv, TypeInv, CountsOK
<1>3. ASSUME SessionInv, ClientUp, ~InUtterance
      PROVE  Context = 0 /\ Recorded = 0 /\ Sent = 0
  BY <1>3, SpeechlyAssumption, WhereItIs DEF Context, Recorded, Sent
<1>4. ClientUp => Latest = IF uplink # <<>> THEN Last.utt ELSE 0
  BY DEF Latest
<1> QED BY <1>1, <1>2, <1>3, <1>4 DEF Views

LEMMA ViewLater == SessionInv' => Views'
BY View, PTL

(* With the audio thread out of OnSpeechAudio, nothing of the utterance    *)
(* was sent or everything was.                                             *)
LEMMA AllOrNothing ==
  ASSUME SpeechlyAssumption, SessionInv, ClientUp, InUtterance, audio = "idle"
  PROVE  Sent \in {0, Recorded}
<1>1. LastSent \in 0..captured /\ GoesOn(AudioBuffer, LastSent)
      /\ (LastSent > 0 => AudioBuffer = <<>>)
  BY DEF SessionInv, KeptInv, Taking, Held
<1>2. captured \in Nat BY DEF SessionInv, TypeInv, CountsOK
<1>3. LastSent > 0 => Len(AudioBuffer) = 0 BY <1>1
<1>4. LastSent > 0 => LastSent = captured BY <1>1, <1>2, <1>3 DEF GoesOn
<1>5. LastSent \in {0, captured} BY <1>1, <1>2, <1>4
<1> QED BY <1>5, View DEF Views


(* The steps that the server can tell from none.                           *)
LEMMA BeginStep ==
  ASSUME SessionInv, SessionInv', StartWrite, ClientUp PROVE Dictated!Begin
<1>0. uplink \in Seq(Requests) /\ captured \in Nat /\ utterance \in Nat
  BY DEF SessionInv, TypeInv, QueuesOK, CountsOK
<1>1. /\ ~active /\ game = "start_write" /\ active'
      /\ uplink' = Append(uplink, [type |-> "START", utt |-> utterance])
      /\ UNCHANGED <<captured, utterance, bIsRunning, bHasError>>
  BY DEF StartWrite, InCall, SessionInv, GateInv, Recording, SendEvent,
         recordVars, audioVars, clientVars, countVars
<1>2. ~InUtterance /\ InUtterance' /\ ClientUp'
  BY <1>1 DEF InUtterance, ClientUp
<1>3. Context = 0 /\ Latest = IF uplink # <<>> THEN Last.utt ELSE 0
  BY <1>2, View DEF Views
<1>4. Latest < utterance
  <2>1. CASE uplink = <<>>
    <3>1. utterance # 0
      BY <1>1 DEF SessionInv, TypeInv, Known, Quiet
    <3> QED BY <1>0, <1>3, <2>1, <3>1
  <2>2. CASE uplink # <<>>
    <3>1. Len(uplink) \in DOMAIN uplink /\ Last \in Requests
      BY <1>0, <2>2 DEF Last
    <3>2. Last.utt <= utterance /\ Last.utt # utterance
      BY <1>1, <3>1 DEF Last, SessionInv, TypeInv, Known, NewInv, Opening
    <3>3. Last.utt \in Nat BY <3>1 DEF Requests, Utterances
    <3> QED BY <1>0, <1>3, <2>2, <3>2, <3>3
  <2> QED BY <2>1, <2>2
<1>5. Context' = utterance /\ Latest' = utterance /\ Recorded' = captured
      /\ Sent' = LastSent'
  BY <1>1, <1>2, ViewLater DEF Views
<1>6. LastSent' = 0
  <2>1. uplink' # <<>> /\ (uplink[Len(uplink)].type)' = "START" BY <1>0, <1>1
  <2> QED BY <2>1 DEF LastSent, NextChunk
<1> QED
  BY <1>0, <1>2, <1>3, <1>4, <1>5, <1>6
     DEF Dictated!Begin, Context, Latest, Recorded, Sent

LEMMA RecordStep ==
  ASSUME SessionInv, SessionInv', OnAudioCapture, ClientUp, InUtterance
  PROVE  Dictated!Record
<1>1. /\ audio = "idle" /\ captured' = captured + 1
      /\ UNCHANGED <<game, active, uplink, utterance, bIsRunning, bHasError>>
  BY DEF OnAudioCapture, wireVars, clientVars, countVars
<1>2. InUtterance' /\ ClientUp' /\ LastSent' = LastSent
  BY <1>1 DEF InUtterance, ClientUp, LastSent, NextChunk
<1>3. Views /\ Views' BY View, ViewLater
<1>4. Sent \in {0, Recorded} BY <1>1, SpeechlyAssumption, AllOrNothing
<1> QED
  BY <1>1, <1>2, <1>3, <1>4
     DEF Views, Dictated!Record, Dictated!WholeOrNothing, Context, Latest,
         Recorded, Sent

LEMMA SendStep ==
  ASSUME SessionInv, SessionInv', SendAudio, ClientUp PROVE Dictated!Send
<1>1. UNCHANGED <<game, active, captured, utterance, bIsRunning, bHasError>>
  BY DEF SendAudio, clientVars, countVars
<1>2. /\ InUtterance /\ LastSent \in Nat /\ LastSent < captured
      /\ LastSent' = captured
  BY SentAll, SpeechlyAssumption DEF SessionInv
<1>3. InUtterance' /\ ClientUp' BY <1>1, <1>2 DEF InUtterance, ClientUp
<1>4. Views /\ Views' BY View, ViewLater
<1> QED
  BY <1>1, <1>2, <1>3, <1>4
     DEF Views, Dictated!Send, Context, Latest, Recorded, Sent

LEMMA EndStep ==
  ASSUME SessionInv, SessionInv', StopWrite, ClientUp PROVE Dictated!End
<1>0. uplink \in Seq(Requests) BY DEF SessionInv, TypeInv, QueuesOK
<1>1. /\ game = "stop_write" /\ game' = "idle" /\ ~active /\ ~active'
      /\ uplink' = Append(uplink, [type |-> "STOP", utt |-> utterance])
      /\ UNCHANGED <<utterance, bIsRunning, bHasError>>
  BY DEF StopWrite, InCall, SessionInv, GateInv, Recording, SendEvent,
         clientVars, countVars
<1>2. InUtterance /\ ~InUtterance' /\ ClientUp' /\ audio = "idle"
  BY <1>1 DEF InUtterance, ClientUp, SessionInv, GateInv, Recording, Closed
<1>3. Views /\ Views' BY View, ViewLater
<1>4. Sent \in {0, Recorded} BY <1>2, SpeechlyAssumption, AllOrNothing
<1>5. Latest' = utterance
  <2>1. uplink' # <<>> /\ (Last.utt)' = utterance BY <1>0, <1>1 DEF Last
  <2> QED BY <1>2, <1>3, <2>1 DEF Views
<1> QED
  BY <1>2, <1>3, <1>4, <1>5
     DEF Views, Dictated!End, Dictated!WholeOrNothing, Dictated!Silent,
         Context, Latest, Recorded, Sent

(* Who may change what the server sees of the session.                     *)
Seen == <<bIsRunning, bHasError, uplink, captured, utterance>>
SeenWriter == Start \/ Reconnect \/ KillThread \/ StartWrite \/ StopWrite
              \/ OnAudioCapture \/ SendAudio \/ ErrorSeen \/ StopSeen

LEMMA WhoIsSeen == ASSUME [Next]_vars PROVE SeenWriter \/ UNCHANGED Seen
<1> USE DEF SeenWriter, Seen, InCall, tickVars, audioVars, bufferVars,
        recordVars, contextVars, clientVars, serverVars, wireVars, tickerVars,
        countVars
<1>1. CASE Connect BY <1>1 DEF Connect, RecorderStop, Lock
<1>2. CASE Start BY <1>2 DEF Start, EmptyBuffer
<1>3. CASE Stop BY <1>3 DEF Stop, RecorderStop, Lock
<1>4. CASE Destroy BY <1>4 DEF Destroy, RecorderStop, Lock
<1>5. CASE Tick BY <1>5 DEF Tick
<1>6. CASE TickDisconnected BY <1>6 DEF TickDisconnected
<1>7. CASE Reconnect BY <1>7 DEF Reconnect
<1>8. CASE KillThread BY <1>8 DEF KillThread
<1>9. CASE StartRecorder BY <1>9 DEF StartRecorder, RecorderStart, Lock
<1>10. CASE StartWrite BY <1>10 DEF StartWrite
<1>11. CASE ResetClient BY <1>11 DEF ResetClient
<1>12. CASE StartStop BY <1>12 DEF StartStop, RecorderStop, Lock
<1>13. CASE StopCheck BY <1>13 DEF StopCheck
<1>14. CASE StopWrite BY <1>14 DEF StopWrite
<1>15. CASE TickRead BY <1>15 DEF TickRead
<1>16. CASE HandleStarted BY <1>16 DEF HandleStarted
<1>17. CASE HandleFinished
  BY <1>17 DEF HandleFinished, EndsRecording, RecorderStop, Lock
<1>18. CASE TickEnd BY <1>18 DEF TickEnd
<1>19. CASE OnAudioCapture BY <1>19 DEF OnAudioCapture
<1>20. CASE RouteAudio BY <1>20 DEF RouteAudio
<1>21. CASE SendAudio BY <1>21 DEF SendAudio, EmptyBuffer
<1>22. CASE ClientThread
  BY <1>22 DEF ClientThread, ErrorSeen, StopSeen, ThreadEnds, ClientStep
<1>23. CASE Server BY <1>23 DEF Server, SayStarted, SayFinished, ServerSays
<1>24. CASE UNCHANGED vars BY <1>24 DEF vars
<1> QED
  BY <1>1, <1>2, <1>3, <1>4, <1>5, <1>6, <1>7, <1>8, <1>9, <1>10, <1>11, <1>12,
     <1>13, <1>14, <1>15, <1>16, <1>17, <1>18, <1>19, <1>20, <1>21, <1>22,
     <1>23, <1>24
     DEF Next, GameCall, TickCall, GameStep, AudioStep, Gone

LEMMA DictationStep ==
  ASSUME SessionInv, SessionInv', [Next]_vars
  PROVE  [Dictated!Next]_(Dictated!vars)
<1>0. Views /\ Views' BY View, ViewLater
<1> USE DEF Context, Latest, Recorded, Sent
<1>1. ASSUME UNCHANGED Seen PROVE UNCHANGED Dictated!vars
  BY <1>1 DEF Seen, Dictated!vars, OpenNow, ClientUp, Last, LastSent, NextChunk
<1>2. ASSUME ~ClientUp, ~ClientUp' PROVE UNCHANGED Dictated!vars
  BY <1>0, <1>2 DEF Views, Dictated!vars, ClientUp
<1>3. ASSUME ~ClientUp' PROVE Dictated!Fail
  BY <1>0, <1>3 DEF Views, Dictated!Fail, Dictated!Silent
<1>4. CASE Start
  <2>1. /\ ~InUtterance /\ ~InUtterance'
        /\ UNCHANGED <<bIsRunning, bHasError, uplink>>
    BY <1>4 DEF Start, InCall, InUtterance, wireVars, clientVars
  <2> QED
    BY <1>0, <1>2, <2>1 DEF Views, Dictated!vars, ClientUp, Last
<1>5. CASE Reconnect
  <2>1. uplink' = <<>> /\ ~InUtterance'
    BY <1>5 DEF Reconnect, InCall, InUtterance
  <2>2. CASE ClientUp'
    BY <1>0, <2>1, <2>2 DEF Views, Dictated!Connect, Dictated!Silent,
       Dictated!Next
  <2> QED BY <1>3, <2>2 DEF Dictated!Next
<1>6. CASE KillThread
  BY <1>3, <1>6 DEF KillThread, ClientUp, Dictated!Next
<1>7. CASE ~ClientUp /\ (StartWrite \/ StopWrite \/ OnAudioCapture \/ SendAudio)
  <2>1. UNCHANGED <<bIsRunning, bHasError>>
    BY <1>7 DEF StartWrite, StopWrite, OnAudioCapture, SendAudio, wireVars,
                clientVars
  <2> QED BY <1>2, <1>7, <2>1 DEF ClientUp
<1>8. CASE ClientUp /\ StartWrite BY <1>8, BeginStep DEF Dictated!Next
<1>9. CASE ClientUp /\ StopWrite BY <1>9, EndStep DEF Dictated!Next
<1>10. CASE ClientUp /\ SendAudio BY <1>10, SendStep DEF Dictated!Next
<1>11. CASE ClientUp /\ OnAudioCapture
  <2>1. CASE InUtterance BY <1>11, <2>1, RecordStep DEF Dictated!Next
  <2>2. CASE ~InUtterance
    <3>1. UNCHANGED <<game, active, uplink, bIsRunning, bHasError>>
      BY <1>11 DEF OnAudioCapture, wireVars, clientVars
    <3> QED
      BY <1>0, <1>11, <2>2, <3>1
         DEF Views, Dictated!vars, ClientUp, InUtterance, Last
  <2> QED BY <2>1, <2>2
<1>12. CASE ErrorSeen
  <2>1. ~ClientUp' BY <1>12 DEF ErrorSeen, ClientStep, ClientUp
  <2> QED BY <1>3, <2>1 DEF Dictated!Next
<1>13. CASE StopSeen
  <2>1. ~ClientUp' BY <1>13 DEF StopSeen, ClientStep, ClientUp
  <2> QED BY <1>3, <2>1 DEF Dictated!Next
<1> QED
  BY <1>1, <1>4, <1>5, <1>6, <1>7, <1>8, <1>9, <1>10, <1>11, <1>12, <1>13,
     WhoIsSeen DEF SeenWriter

(* To the server a session is a Dictation, whatever the threads do, when   *)
(* the client fails and however often the application connects: contexts   *)
(* one at a time and ever new, the audio of each whole or not at all.      *)
THEOREM SessionIsDictation == Spec => ImplementsDictation
<1>1. Init => Dictated!Init
  BY DEF Init, Dictated!Init, ClientUp, OpenNow
<1>2. SessionInv /\ SessionInv' /\ [Next]_vars =>
        [Dictated!Next]_(Dictated!vars)
  BY DictationStep
<1> QED
  BY <1>1, <1>2, SessionInvariant, PTL
     DEF Spec, ImplementsDictation, Dictated!Spec

-----------------------------------------------------------------------------
(* The order of contexts.  STARTs wait for the server in the order of      *)
(* their utterances, ahead of every context that was heard of; `started'   *)
(* comes back in the order of the contexts, none of which was handled      *)
(* before, and LastAudioContext is the last that was.                      *)
Starts(i) == uplink[i].type = "START"
Comes(i)  == downlink[i].type = "started"
InHand    == game = "handle" /\ response.type = "started"
Heard     == begun \union started

UpOrder ==
    /\ \A i, j \in DOMAIN uplink :
          i < j /\ Starts(i) /\ Starts(j) => uplink[i].utt < uplink[j].utt
    /\ \A i \in DOMAIN uplink : Starts(i) /\ uplink[i].utt \notin started =>
          \A c \in Heard : c < uplink[i].utt
    /\ game \in Opening => utterance \notin Heard
DownOrder ==
    /\ \A i \in DOMAIN downlink : Comes(i) =>
          /\ downlink[i].ctx \in started
          /\ \A c \in begun : c <= downlink[i].ctx
          /\ InHand => response.ctx <= downlink[i].ctx
    /\ \A i, j \in DOMAIN downlink :
          i < j /\ Comes(i) /\ Comes(j) => downlink[i].ctx <= downlink[j].ctx
    /\ InHand => response.ctx \in started /\ \A c \in begun : c <= response.ctx
    /\ \A c \in begun : c <= LastAudioContext

(* Who may change what the order is about.                                 *)
OrderVars == <<uplink, downlink, response, started, begun, LastAudioContext>>
OrderSame == /\ UNCHANGED OrderVars
             /\ game' \in Opening => game \in Opening /\ UNCHANGED utterance
             /\ game' = "handle" => game = "handle"
OrderWriter == Start \/ Reconnect \/ StartWrite \/ StopWrite \/ SendAudio
               \/ TickRead \/ HandleStarted \/ Server

LEMMA WhoOrders == ASSUME [Next]_vars PROVE OrderWriter \/ OrderSame
<1> USE DEF OrderWriter, OrderSame, OrderVars, Opening, InCall, tickVars,
        audioVars, bufferVars, recordVars, contextVars, clientVars, serverVars,
        wireVars, tickerVars, countVars
<1>1. CASE Connect BY <1>1 DEF Connect, RecorderStop, Lock
<1>2. CASE Start BY <1>2 DEF Start, EmptyBuffer
<1>3. CASE Stop BY <1>3 DEF Stop, RecorderStop, Lock
<1>4. CASE Destroy BY <1>4 DEF Destroy, RecorderStop, Lock
<1>5. CASE Tick BY <1>5 DEF Tick
<1>6. CASE TickDisconnected BY <1>6 DEF TickDisconnected
<1>7. CASE Reconnect BY <1>7 DEF Reconnect
<1>8. CASE KillThread BY <1>8 DEF KillThread
<1>9. CASE StartRecorder BY <1>9 DEF StartRecorder, RecorderStart, Lock
<1>10. CASE StartWrite BY <1>10 DEF StartWrite
<1>11. CASE ResetClient BY <1>11 DEF ResetClient
<1>12. CASE StartStop BY <1>12 DEF StartStop, RecorderStop, Lock
<1>13. CASE StopCheck BY <1>13 DEF StopCheck
<1>14. CASE StopWrite BY <1>14 DEF StopWrite
<1>15. CASE TickRead BY <1>15 DEF TickRead
<1>16. CASE HandleStarted BY <1>16 DEF HandleStarted
<1>17. CASE HandleFinished
  BY <1>17 DEF HandleFinished, EndsRecording, RecorderStop, Lock
<1>18. CASE TickEnd BY <1>18 DEF TickEnd
<1>19. CASE OnAudioCapture BY <1>19 DEF OnAudioCapture
<1>20. CASE RouteAudio BY <1>20 DEF RouteAudio
<1>21. CASE SendAudio BY <1>21 DEF SendAudio, EmptyBuffer
<1>22. CASE ClientThread
  BY <1>22 DEF ClientThread, ErrorSeen, StopSeen, ThreadEnds, ClientStep
<1>23. CASE Server BY <1>23 DEF Server, SayStarted, SayFinished, ServerSays
<1>24. CASE UNCHANGED vars BY <1>24 DEF vars
<1> QED
  BY <1>1, <1>2, <1>3, <1>4, <1>5, <1>6, <1>7, <1>8, <1>9, <1>10, <1>11, <1>12,
     <1>13, <1>14, <1>15, <1>16, <1>17, <1>18, <1>19, <1>20, <1>21, <1>22,
     <1>23, <1>24
     DEF Next, GameCall, TickCall, GameStep, AudioStep, Gone

(* What is heard of belongs to utterances there have been.                 *)
LEMMA HeardOf ==
  ASSUME SessionInv
  PROVE  /\ Heard \subseteq 1..utterance /\ utterance \in Nat
         /\ begun \subseteq 1..utterance /\ started \subseteq 1..utterance
         /\ LastAudioContext \in 0..utterance
         /\ uplink \in Seq(Requests) /\ downlink \in Seq(Responses)
         /\ \A i \in DOMAIN uplink : uplink[i].utt \in Nat
         /\ \A i \in DOMAIN downlink : downlink[i].ctx \in Nat
         /\ game = "handle" => response.ctx \in Nat
<1>1. TypeInv BY DEF SessionInv
<1>2. uplink \in Seq(Requests) /\ downlink \in Seq(Responses)
  BY <1>1 DEF TypeInv, QueuesOK
<1>3. ASSUME NEW i \in DOMAIN uplink PROVE uplink[i].utt \in Nat
  <2>1. uplink[i] \in Requests BY <1>2
  <2> QED BY <2>1 DEF Requests, Utterances
<1>4. ASSUME NEW i \in DOMAIN downlink PROVE downlink[i].ctx \in Nat
  <2>1. downlink[i] \in Responses BY <1>2
  <2> QED BY <2>1 DEF Responses, Utterances
<1>5. game = "handle" => response.ctx \in Nat
  BY <1>1 DEF TypeInv, QueuesOK, Responses, Utterances
<1>6. begun \subseteq 1..utterance /\ started \subseteq 1..utterance
      /\ utterance \in Nat /\ LastAudioContext \in 0..utterance
  BY <1>1 DEF TypeInv, CountsOK
<1> QED BY <1>2, <1>3, <1>4, <1>5, <1>6 DEF Heard

(* What SayStarted says is the first START the server has not answered.    *)
LEMMA StartedNext ==
  ASSUME SessionInv, UpOrder, NEW k \in Utterances, SayStarted(k)
  PROVE  /\ k \notin started /\ \A c \in Heard : c < k
         /\ \A i \in DOMAIN uplink :
               Starts(i) /\ uplink[i].utt \notin started \union {k} =>
                  k < uplink[i].utt
<1>1. PICK i \in DOMAIN uplink :
        /\ uplink[i] = [type |-> "START", utt |-> k] /\ k \notin started
        /\ \A j \in 1..(i - 1) :
              uplink[j].type = "START" => uplink[j].utt \in started
  BY DEF SayStarted, MayStart
<1>2. Starts(i) /\ uplink[i].utt = k BY <1>1 DEF Starts
<1>3. \A c \in Heard : c < k BY <1>1, <1>2 DEF UpOrder
<1>4. ASSUME NEW j \in DOMAIN uplink, Starts(j),
             uplink[j].utt \notin started \union {k}
      PROVE  k < uplink[j].utt
  <2>1. DOMAIN uplink = 1..Len(uplink) /\ Len(uplink) \in Nat BY HeardOf
  <2>2. j > i
    <3>1. j # i BY <1>2, <1>4
    <3>2. j \notin 1..(i - 1) BY <1>1, <1>4 DEF Starts
    <3> QED BY <2>1, <3>1, <3>2
  <2> QED BY <1>2, <1>4, <2>1, <2>2 DEF UpOrder
<1> QED BY <1>1, <1>3, <1>4

LEMMA UpOrderStep ==
  ASSUME SessionInv, UpOrder, DownOrder, [Next]_vars PROVE UpOrder'
<1> USE DEF Starts, InCall
<1>0. /\ Heard \subseteq 1..utterance /\ utterance \in Nat
      /\ uplink \in Seq(Requests)
  BY HeardOf
<1>1. CASE Start
  <2>1. utterance' = utterance + 1 /\ UNCHANGED <<uplink, begun, started>>
    BY <1>1 DEF Start, contextVars, wireVars, serverVars
  <2> QED BY <1>0, <2>1 DEF UpOrder, Heard
<1>2. CASE Reconnect
  BY <1>2 DEF Reconnect, UpOrder, Opening
<1>3. CASE StartWrite \/ StopWrite
  <2>1. UNCHANGED <<begun, started, utterance>> /\ game' \notin Opening
    BY <1>3 DEF StartWrite, StopWrite, contextVars, serverVars, countVars, Opening
  <2>2. CASE UNCHANGED uplink BY <2>1, <2>2 DEF UpOrder, Heard
  <2>3. CASE uplink' # uplink
    <3> DEFINE n == Len(uplink)
    <3>1. PICK event \in {"START", "STOP"} :
            /\ event = "START" <=> StartWrite
            /\ Len(uplink') = n + 1
            /\ \A i \in 1..n : uplink'[i] = uplink[i]
            /\ uplink'[n + 1] = [type |-> event, utt |-> utterance]
      BY <1>3, <2>3, EventSent DEF SessionInv
    <3>2. uplink'[n + 1].type = event /\ uplink'[n + 1].utt = utterance
      BY <3>1
    <3>3. StartWrite => /\ utterance \notin Heard
                        /\ \A i \in DOMAIN uplink : uplink[i].utt < utterance
      <4>1. ASSUME StartWrite PROVE game \in Opening
        BY <4>1 DEF StartWrite, Opening
      <4>2. ASSUME StartWrite, NEW i \in DOMAIN uplink
            PROVE  uplink[i].utt < utterance
        <5>1. uplink[i].utt <= utterance /\ uplink[i].utt # utterance
          BY <4>1, <4>2 DEF SessionInv, TypeInv, Known, NewInv
        <5> QED BY <1>0, <5>1, HeardOf
      <4> QED BY <4>1, <4>2 DEF UpOrder
    <3>4. DOMAIN uplink = 1..n /\ n \in Nat BY <1>0
    <3>5. uplink' \in Seq(Requests)
      BY QueuesStep, SpeechlyAssumption DEF SessionInv, QueuesOK
    <3>6. DOMAIN uplink' = 1..(n + 1) BY <3>1, <3>5
    <3> HIDE DEF n
    <3>7. ASSUME NEW i \in 1..(n + 1), NEW j \in 1..(n + 1), i < j,
                 Starts(i)', Starts(j)'
          PROVE  uplink'[i].utt < uplink'[j].utt
      <4>1. i \in 1..n /\ uplink'[i] = uplink[i] BY <3>1, <3>4, <3>7
      <4>2. CASE j \in 1..n BY <3>1, <3>4, <3>7, <4>1, <4>2 DEF UpOrder
      <4>3. CASE j = n + 1 BY <3>1, <3>2, <3>3, <3>4, <3>7, <4>1, <4>3
      <4> QED BY <3>4, <4>2, <4>3
    <3>8. ASSUME NEW i \in 1..(n + 1), Starts(i)', uplink'[i].utt \notin started,
                 NEW c \in Heard
          PROVE  c < uplink'[i].utt
      <4>1. CASE i \in 1..n BY <3>1, <3>4, <3>8, <4>1 DEF UpOrder
      <4>2. CASE i = n + 1 BY <1>0, <3>1, <3>2, <3>3, <3>8, <4>2
      <4> QED BY <3>4, <4>1, <4>2
    <3> QED BY <2>1, <3>6, <3>7, <3>8 DEF UpOrder, Heard
  <2> QED BY <2>2, <2>3
<1>4. CASE SendAudio
  <2>1. UNCHANGED <<begun, started, utterance, game>>
    BY <1>4 DEF SendAudio, contextVars, serverVars, countVars
  <2>2. CASE UNCHANGED uplink BY <2>1, <2>2 DEF UpOrder, Heard
  <2>3. CASE uplink' # uplink
    <3> DEFINE n == Len(uplink)
               m == Len(Payload)
    <3>1. /\ Len(uplink') = n + m /\ m \in Nat /\ n \in Nat
          /\ \A i \in 1..n : uplink'[i] = uplink[i]
      BY <1>0, <1>4, <2>3, AudioSent, SpeechlyAssumption DEF SessionInv
    <3>2. ASSUME NEW i \in 1..m PROVE uplink'[n + i].type = "AUDIO"
      <4>1. uplink'[n + i] = [type |-> "AUDIO", utt |-> utterance,
                              chunk |-> Payload[i]]
        BY <1>4, <2>3, AudioSent, SpeechlyAssumption DEF SessionInv
      <4> HIDE DEF n, m
      <4> QED BY <4>1
    <3>3. uplink' \in Seq(Requests)
      BY QueuesStep, SpeechlyAssumption DEF SessionInv, QueuesOK
    <3>4. DOMAIN uplink' = 1..(n + m) /\ DOMAIN uplink = 1..n BY <1>0, <3>1, <3>3
    <3> HIDE DEF n, m
    <3>5. ASSUME NEW i \in 1..(n + m), Starts(i)'
          PROVE  i \in 1..n /\ uplink'[i] = uplink[i]
      <4>1. CASE i \in 1..n BY <3>1, <4>1
      <4>2. CASE i > n
        <5>1. i - n \in 1..m /\ n + (i - n) = i BY <3>1, <4>2
        <5>2. uplink'[i].type = "AUDIO" BY <3>2, <5>1
        <5> QED BY <3>5, <5>2
      <4> QED BY <3>1, <4>1, <4>2
    <3> QED BY <2>1, <3>4, <3>5 DEF UpOrder, Heard
  <2> QED BY <2>2, <2>3
<1>5. CASE TickRead
  BY <1>5 DEF TickRead, UpOrder, Opening, Heard, contextVars, serverVars
<1>6. CASE HandleStarted
  <2>1. /\ begun' = begun \union {response.ctx} /\ game' = "tick"
        /\ UNCHANGED <<uplink, started>> /\ InHand
    BY <1>6 DEF HandleStarted, wireVars, serverVars, InHand
  <2>2. Heard' = Heard BY <2>1 DEF DownOrder, Heard
  <2> QED BY <2>1, <2>2 DEF UpOrder, Opening
<1>7. CASE Server
  <2>1. UNCHANGED <<uplink, begun, game, utterance>>
    BY <1>7 DEF Server, SayStarted, SayFinished, ServerSays, contextVars,
                countVars
  <2>2. PICK k \in Utterances : SayStarted(k) \/ SayFinished(k)
    BY <1>7 DEF Server
  <2>3. CASE SayFinished(k)
    BY <2>1, <2>3 DEF SayFinished, UpOrder, Heard
  <2>4. CASE SayStarted(k)
    <3>1. started' = started \union {k} BY <2>4 DEF SayStarted
    <3>2. Heard' = Heard \union {k} BY <2>1, <3>1 DEF Heard
    <3>3. game \in Opening => k # utterance
      BY <2>4 DEF SayStarted, MayStart, SessionInv, NewInv
    <3>4. ASSUME NEW i \in DOMAIN uplink, Starts(i),
                 uplink[i].utt \notin started \union {k}, NEW c \in Heard'
          PROVE  c < uplink[i].utt
      BY <2>4, <3>2, <3>4, StartedNext DEF UpOrder
    <3> QED BY <2>1, <3>1, <3>2, <3>3, <3>4 DEF UpOrder
  <2> QED BY <2>2, <2>3, <2>4
<1>8. CASE OrderSame
  BY <1>8 DEF OrderSame, OrderVars, UpOrder, Heard
<1> QED
  BY <1>1, <1>2, <1>3, <1>4, <1>5, <1>6, <1>7, <1>8, WhoOrders DEF OrderWriter

LEMMA DownOrderStep ==
  ASSUME SessionInv, UpOrder, DownOrder, [Next]_vars PROVE DownOrder'
<1> USE DEF Comes, InHand, InCall
<1>0. /\ downlink \in Seq(Responses) /\ begun \subseteq 1..utterance
      /\ utterance \in Nat /\ LastAudioContext \in 0..utterance
      /\ \A i \in DOMAIN downlink : downlink[i].ctx \in Nat
      /\ game = "handle" => response.ctx \in Nat
  BY HeardOf
<1>1. CASE Start \/ StartWrite \/ StopWrite \/ SendAudio
  <2>1. /\ UNCHANGED <<downlink, response, started, begun, LastAudioContext>>
        /\ game' = "handle" => game = "handle"
    BY <1>1 DEF Start, StartWrite, StopWrite, SendAudio, tickVars, contextVars,
                wireVars, serverVars
  <2> QED BY <2>1 DEF DownOrder
<1>2. CASE Reconnect
  BY <1>2 DEF Reconnect, DownOrder, contextVars
<1>3. CASE TickRead
  <2>1. /\ downlink # <<>> /\ game = "tick" /\ game' = "handle"
        /\ response' = Head(downlink) /\ downlink' = Tail(downlink)
        /\ UNCHANGED <<started, begun, LastAudioContext>>
    BY <1>3 DEF TickRead, contextVars, serverVars
  <2>2. /\ 1 \in DOMAIN downlink /\ response' = downlink[1]
        /\ Len(downlink) \in Nat /\ DOMAIN downlink = 1..Len(downlink)
        /\ DOMAIN downlink' = 1..(Len(downlink) - 1)
        /\ \A i \in 1..(Len(downlink) - 1) : downlink'[i] = downlink[i + 1]
    BY <1>0, <2>1
  <2>3. ASSUME NEW i \in DOMAIN downlink'
        PROVE  i + 1 \in DOMAIN downlink /\ downlink'[i] = downlink[i + 1]
               /\ 1 < i + 1
    BY <2>2
  <2>4. ASSUME NEW i \in DOMAIN downlink', Comes(i)'
        PROVE  /\ downlink'[i].ctx \in started
               /\ \A c \in begun : c <= downlink'[i].ctx
               /\ InHand' => response'.ctx <= downlink'[i].ctx
    BY <2>1, <2>2, <2>3, <2>4 DEF DownOrder
  <2>5. ASSUME NEW i \in DOMAIN downlink', NEW j \in DOMAIN downlink', i < j,
               Comes(i)', Comes(j)'
        PROVE  downlink'[i].ctx <= downlink'[j].ctx
    <3>1. i + 1 < j + 1 BY <2>2, <2>5
    <3> QED BY <2>3, <2>5, <3>1 DEF DownOrder
  <2>6. InHand' => /\ response'.ctx \in started
                   /\ \A c \in begun : c <= response'.ctx
    BY <2>1, <2>2 DEF DownOrder
  <2> QED BY <2>1, <2>4, <2>5, <2>6 DEF DownOrder
<1>4. CASE HandleStarted
  <2>1. /\ InHand /\ ~InHand' /\ LastAudioContext' = response.ctx
        /\ begun' = begun \union {response.ctx}
        /\ UNCHANGED <<downlink, started>>
    BY <1>4 DEF HandleStarted, wireVars, serverVars
  <2> QED BY <1>0, <2>1 DEF DownOrder
<1>5. CASE Server
  <2>1. UNCHANGED <<response, begun, LastAudioContext, game>>
    BY <1>5 DEF Server, SayStarted, SayFinished, ServerSays, tickVars,
                contextVars
  <2>2. PICK k \in Utterances : SayStarted(k) \/ SayFinished(k)
    BY <1>5 DEF Server
  <2>3. PICK type \in {"started", "finished"} :
          /\ downlink' = Append(downlink, [type |-> type, ctx |-> k])
          /\ type = "started" => SayStarted(k)
          /\ started \subseteq started'
    BY <2>2 DEF SayStarted, SayFinished, ServerSays
  <2> DEFINE n == Len(downlink)
  <2>4. /\ n \in Nat /\ DOMAIN downlink = 1..n /\ DOMAIN downlink' = 1..(n + 1)
        /\ \A i \in 1..n : downlink'[i] = downlink[i]
        /\ downlink'[n + 1].type = type /\ downlink'[n + 1].ctx = k
    BY <1>0, <2>3
  <2> HIDE DEF n
  <2>5. type = "started" =>
          k \in started' /\ (\A c \in Heard : c < k) /\ k \in Nat
    BY <2>3, StartedNext DEF SayStarted, Utterances
  <2>6. ASSUME NEW i \in 1..(n + 1), Comes(i)'
        PROVE  /\ downlink'[i].ctx \in started'
               /\ \A c \in begun : c <= downlink'[i].ctx
               /\ InHand => response.ctx <= downlink'[i].ctx
    <3>1. CASE i \in 1..n BY <2>3, <2>4, <2>6, <3>1 DEF DownOrder
    <3>2. CASE i = n + 1
      <4>1. downlink'[i].ctx = k /\ k \in started' /\ \A c \in Heard : c < k
        BY <2>4, <2>5, <2>6, <3>2
      <4>2. \A c \in begun : c <= k
        <5>1. TAKE c \in begun
        <5>2. c < k BY <4>1 DEF Heard
        <5>3. c \in Nat /\ k \in Nat BY <1>0, <2>5, <2>6, <3>2, <2>4
        <5> QED BY <5>2, <5>3
      <4>3. InHand => response.ctx <= k
        <5>1. InHand => response.ctx < k /\ response.ctx \in Nat
          BY <1>0, <4>1 DEF DownOrder, Heard
        <5>2. k \in Nat BY <2>4, <2>5, <2>6, <3>2
        <5> QED BY <5>1, <5>2
      <4> QED BY <4>1, <4>2, <4>3
    <3> QED BY <2>4, <3>1, <3>2
  <2>7. ASSUME NEW i \in 1..(n + 1), NEW j \in 1..(n + 1), i < j,
               Comes(i)', Comes(j)'
        PROVE  downlink'[i].ctx <= downlink'[j].ctx
    <3>1. i \in 1..n /\ downlink'[i] = downlink[i] BY <2>4, <2>7
    <3>2. CASE j \in 1..n BY <2>4, <2>7, <3>1, <3>2 DEF DownOrder
    <3>3. CASE j = n + 1
      <4>1. downlink[i].ctx \in Heard BY <2>4, <2>7, <3>1 DEF DownOrder, Heard
      <4>2. downlink'[j].ctx = k /\ \A c \in Heard : c < k
        BY <2>4, <2>5, <2>7, <3>3
      <4> QED BY <1>0, <2>4, <3>1, <4>1, <4>2 DEF Utterances
    <3> QED BY <2>4, <3>2, <3>3
  <2>8. InHand => response.ctx \in started' /\ \A c \in begun : c <= response.ctx
    BY <2>3 DEF DownOrder
  <2> QED BY <2>1, <2>4, <2>6, <2>7, <2>8 DEF DownOrder
<1>6. CASE OrderSame BY <1>6 DEF OrderSame, OrderVars, DownOrder
<1> QED BY <1>1, <1>2, <1>3, <1>4, <1>5, <1>6, WhoOrders DEF OrderWriter

(* Only a finish changes the gate while a response is handled.             *)
LEMMA WhoStops ==
  ASSUME [Next]_vars, game = "handle", bIsCapturing, ~bIsCapturing'
  PROVE  HandleFinished
<1> USE DEF InCall, tickVars, audioVars, bufferVars, recordVars, contextVars,
        clientVars, serverVars, wireVars, tickerVars, countVars
<1>1. CASE Connect BY <1>1 DEF Connect, RecorderStop, Lock
<1>2. CASE Start BY <1>2 DEF Start, EmptyBuffer
<1>3. CASE Stop BY <1>3 DEF Stop, RecorderStop, Lock
<1>4. CASE Destroy BY <1>4 DEF Destroy, RecorderStop, Lock
<1>5. CASE Tick BY <1>5 DEF Tick
<1>6. CASE TickDisconnected BY <1>6 DEF TickDisconnected
<1>7. CASE Reconnect BY <1>7 DEF Reconnect
<1>8. CASE KillThread BY <1>8 DEF KillThread
<1>9. CASE StartRecorder BY <1>9 DEF StartRecorder, RecorderStart, Lock
<1>10. CASE StartWrite BY <1>10 DEF StartWrite
<1>11. CASE ResetClient BY <1>11 DEF ResetClient
<1>12. CASE StartStop BY <1>12 DEF StartStop, RecorderStop, Lock
<1>13. CASE StopCheck BY <1>13 DEF StopCheck
<1>14. CASE StopWrite BY <1>14 DEF StopWrite
<1>15. CASE TickRead BY <1>15 DEF TickRead
<1>16. CASE HandleStarted BY <1>16 DEF HandleStarted
<1>17. CASE HandleFinished
  BY <1>17 DEF HandleFinished, EndsRecording, RecorderStop, Lock
<1>18. CASE TickEnd BY <1>18 DEF TickEnd
<1>19. CASE OnAudioCapture BY <1>19 DEF OnAudioCapture
<1>20. CASE RouteAudio BY <1>20 DEF RouteAudio
<1>21. CASE SendAudio BY <1>21 DEF SendAudio, EmptyBuffer
<1>22. CASE ClientThread
  BY <1>22 DEF ClientThread, ErrorSeen, StopSeen, ThreadEnds, ClientStep
<1>23. CASE Server BY <1>23 DEF Server, SayStarted, SayFinished, ServerSays
<1>24. CASE UNCHANGED vars BY <1>24 DEF vars
<1> QED
  BY <1>1, <1>2, <1>3, <1>4, <1>5, <1>6, <1>7, <1>8, <1>9, <1>10, <1>11, <1>12,
     <1>13, <1>14, <1>15, <1>16, <1>17, <1>18, <1>19, <1>20, <1>21, <1>22,
     <1>23, <1>24
     DEF Next, GameCall, TickCall, GameStep, AudioStep, Gone

(* No finish that is late stops the recording of an utterance whose        *)
(* `started' was handled, on this connection or a later one: contexts      *)
(* begin in order, so that LastAudioContext is then the utterance's.       *)
THEOREM FinishStopsItsOwn == Spec => OwnFinishStops
<1>1. Init => UpOrder /\ DownOrder
  BY DEF Init, UpOrder, DownOrder, InHand, Opening
<1>2. SessionInv /\ UpOrder /\ DownOrder /\ [Next]_vars =>
        UpOrder' /\ DownOrder'
  BY UpOrderStep, DownOrderStep
<1>3. ASSUME SessionInv, UpOrder, DownOrder, [Next]_vars
      PROVE  [game = "handle" /\ bIsCapturing /\ ~bIsCapturing' =>
                response.ctx = utterance \/ utterance \notin begun]_vars
  <2> SUFFICES ASSUME game = "handle", bIsCapturing, ~bIsCapturing',
                      utterance \in begun
               PROVE  response.ctx = utterance
    OBVIOUS
  <2>1. HandleFinished BY <1>3, WhoStops
  <2>2. response.ctx = LastAudioContext
    BY <2>1 DEF HandleFinished, EndsRecording
  <2>3. utterance <= LastAudioContext BY <1>3 DEF DownOrder
  <2>4. LastAudioContext \in 0..utterance /\ utterance \in Nat
    BY <1>3, HeardOf
  <2> QED BY <2>2, <2>3, <2>4
<1> QED BY <1>1, <1>2, <1>3, SessionInvariant, PTL DEF Spec, OwnFinishStops

-----------------------------------------------------------------------------
(* The program as if it never called Client.Reset(): a client that is not  *)
(* there has no thread, no audio on its way to it and no ticker.           *)
ResetFree == Init /\ [][Next /\ ~ResetClient]_vars
OwnedInv ==
    /\ ~ub
    /\ Client = "null" => thread = "none" /\ audio = "idle" /\ ~ticking
    /\ game \in {"destroy", "gone"} => ~ticking

LEMMA OwnedStep ==
  ASSUME OwnedInv, GateInv, [Next /\ ~ResetClient]_vars PROVE OwnedInv'
<1>0. [Next]_vars OBVIOUS
<1> USE DEF OwnedInv, GateInv, Recording, Closed, IsConnected, InCall, tickVars,
        audioVars, bufferVars, recordVars, contextVars, clientVars, serverVars,
        wireVars, tickerVars, countVars
<1>1. CASE Connect BY <1>1 DEF Connect, RecorderStop, Lock
<1>2. CASE Start BY <1>2 DEF Start, EmptyBuffer
<1>3. CASE Stop BY <1>3 DEF Stop, RecorderStop, Lock
<1>4. CASE Destroy BY <1>4 DEF Destroy, RecorderStop, Lock
<1>5. CASE Tick BY <1>5 DEF Tick
<1>6. CASE TickDisconnected BY <1>6 DEF TickDisconnected, RemoveTicker
<1>7. CASE Reconnect BY <1>7 DEF Reconnect, KillDangles
<1>8. CASE KillThread BY <1>8 DEF KillThread, KillDangles
<1>9. CASE StartRecorder BY <1>9 DEF StartRecorder, RecorderStart, Lock
<1>10. CASE StartWrite BY <1>10 DEF StartWrite
<1>11. CASE ResetClient BY <1>11 DEF vars, ResetClient
<1>12. CASE StartStop BY <1>12 DEF StartStop, RecorderStop, Lock
<1>13. CASE StopCheck BY <1>13 DEF StopCheck
<1>14. CASE StopWrite BY <1>14 DEF StopWrite
<1>15. CASE TickRead BY <1>15 DEF TickRead
<1>16. CASE HandleStarted BY <1>16 DEF HandleStarted
<1>17. CASE HandleFinished
  BY <1>17 DEF HandleFinished, EndsRecording, RecorderStop, Lock
<1>18. CASE TickEnd BY <1>18 DEF TickEnd
<1>19. CASE OnAudioCapture BY <1>19 DEF OnAudioCapture
<1>20. CASE RouteAudio BY <1>20 DEF RouteAudio
<1>21. CASE SendAudio BY <1>21 DEF SendAudio, EmptyBuffer
<1>22. CASE ClientThread
  BY <1>22 DEF ClientThread, ErrorSeen, StopSeen, ThreadEnds, ClientStep
<1>23. CASE Server BY <1>23 DEF Server, SayStarted, SayFinished, ServerSays
<1>24. CASE UNCHANGED vars BY <1>24 DEF vars
<1> QED
  BY <1>1, <1>2, <1>3, <1>4, <1>5, <1>6, <1>7, <1>8, <1>9, <1>10, <1>11, <1>12,
     <1>13, <1>14, <1>15, <1>16, <1>17, <1>18, <1>19, <1>20, <1>21, <1>22,
     <1>23, <1>24
     DEF Next, GameCall, TickCall, GameStep, AudioStep, Gone

(* The session runs into undefined behaviour only by Client.Reset(): but   *)
(* for it, no call, tick or capture uses a client that is not there, in    *)
(* whatever order the threads run and wherever the client fails.           *)
THEOREM OnlyResetUndefined == ResetFree => []~ub
<1>1. Init => OwnedInv /\ GateInv
  BY DEF Init, OwnedInv, GateInv, Recording, Closed
<1>2. OwnedInv /\ GateInv /\ [Next /\ ~ResetClient]_vars =>
        (OwnedInv /\ GateInv)'
  <2>1. [Next /\ ~ResetClient]_vars => [Next]_vars OBVIOUS
  <2> QED BY <2>1, OwnedStep, GateStep
<1>3. OwnedInv => ~ub BY DEF OwnedInv
<1> QED BY <1>1, <1>2, <1>3, PTL DEF ResetFree

=============================================================================
