--------------------------- MODULE SpeechRecorder ---------------------------
(***************************************************************************)
(* FSpeechRecorder (SpeechRecorder.{h,cpp}): the resampler between the     *)
(* capture device and OnSpeechAudio, and the conversion to 16 bits there   *)
(* (Speechly.cpp).  Start, Stop and OnAudioCapture run under the           *)
(* recorder's lock, so each is one action.                                 *)
(*                                                                         *)
(* A frame is the number of its place in what the device has heard; an     *)
(* output sample is the frame its filter window starts with and a level,   *)
(* which stands for the filtered value.  SampleRatio is the fraction       *)
(* rate / SampleRate.  An index outside of an array or a negative length   *)
(* is undefined behaviour, and the model stops there (ub).                 *)
(*                                                                         *)
(* A Bug... operator is a faulty variant of the definition after it.       *)
(***************************************************************************)
EXTENDS Integers, Sequences

CONSTANTS
    SampleRate,     \* rate of the output
    Rates,          \* preferred rates of the devices there may be
    Taps,           \* number of filter coefficients, FilterLength
    CaptureSizes,   \* NumFrames of a capture
    FullScale,      \* levels are in units of 1 / FullScale
    Levels,         \* values of output samples
    MaxFrames,      \* bound on the frames the device hears
    MaxRecordings   \* bound on the calls of Start

(* A step of the resampler is smaller than its filter: up to 352 kHz.      *)
ASSUME RecorderAssumption ==
    /\ SampleRate \in Nat \ {0} /\ Taps \in Nat \ {0}
    /\ Rates \subseteq Nat \ {0}
    /\ \A r \in Rates : r < (Taps - 1) * SampleRate
    /\ CaptureSizes \subseteq Nat
    /\ FullScale \in Nat \ {0} /\ Levels \subseteq Int
    /\ MaxFrames \in Nat /\ MaxRecordings \in Nat

VARIABLES
    rate,           \* OutInfo.PreferredSampleRate, 0 until the stream is open
    bIsCapturing, Buffer,
    Output,         \* the output of the last capture
    CharAudio,      \* the scratch array of OnSpeechAudio
    passed,         \* what OnSpeechAudio sent or buffered of the last capture
    heard,          \* number of frames the device has delivered
    opened,         \* number of those before the last Start
    recordings,     \* number of calls of Start
    history,        \* captures of this recording; outputs before the last one
    ub              \* the program has read outside of an array

streamVars == <<rate, bIsCapturing, Buffer, ub>>
audioVars  == <<Output, CharAudio, passed, history>>
vars == <<streamVars, audioVars, heard, opened, recordings>>

Outputs == [first : Nat, level : Levels]
Samples == [first : Nat, value : Int]
NoHistory == [captures |-> 0, outputs |-> 0, first |-> 0]

Init ==
    /\ rate = 0 /\ bIsCapturing = FALSE /\ Buffer = <<>> /\ ub = FALSE
    /\ Output = <<>> /\ CharAudio = <<>> /\ passed = <<>>
    /\ history = NoHistory
    /\ heard = 0 /\ opened = 0 /\ recordings = 0

-----------------------------------------------------------------------------
(* The arithmetic of OnAudioCapture, exact where the code has floats.      *)
BugOffsetTruncates(i) == (rate * i) \div SampleRate

Offset(i) ==                    \* RoundToInt(SampleRatio * i)
    (2 * rate * i + SampleRate) \div (2 * SampleRate)

BugOutputLengthNoFilter(n) == -((-n * SampleRate) \div rate)
OutputLength(n) ==              \* CeilToInt((n - Taps) / SampleRatio)
    -(((Taps - n) * SampleRate) \div rate)

(* What is read of an array of n samples: the filter windows, and from     *)
(* RemainingOffset on the samples that are left over.  A negative length   *)
(* would be appended to AudioBuffer or be the size of a request.           *)
WindowsInside(n) ==
    \A i \in 0..(OutputLength(n) - 1) : Offset(i) >= 0 /\ Offset(i) + Taps <= n
RemainingOffset(n) == Offset(OutputLength(n))
IsDefined(n) ==
    OutputLength(n) >= 0 /\ WindowsInside(n) /\ RemainingOffset(n) >= 0

BugLeftOverTooLate(samples) ==
    SubSeq(samples, RemainingOffset(Len(samples)) + 2, Len(samples))

LeftOver(samples) ==
    SubSeq(samples, RemainingOffset(Len(samples)) + 1, Len(samples))

(* OnSpeechAudio: scale, clamp and narrow a sample.                        *)
Truncated(a, b) == IF a >= 0 THEN a \div b ELSE -((-a) \div b)
Scaled(level) ==
    Truncated(level * (IF level < 0 THEN 32768 ELSE 32767), FullScale)
Clamp(x) == IF x > 32767 THEN 32767 ELSE IF x < -32768 THEN -32768 ELSE x
Int16(x) == ((x + 32768) % 65536) - 32768
ToInt16(level) == Int16(Clamp(Scaled(level)))

Converted(audio) ==
    [i \in DOMAIN audio |->
        [first |-> audio[i].first, value |-> ToInt16(audio[i].level)]]

(* CharAudio only ever grows; its first samples are overwritten.           *)
Overwrite(old, new) == new \o SubSeq(old, Len(new) + 1, Len(old))

BugOnSpeechAudioWhole(audio) ==
    CharAudio' = Overwrite(CharAudio, Converted(audio)) /\ passed' = CharAudio'

OnSpeechAudio(audio) ==
    /\ CharAudio' = Overwrite(CharAudio, Converted(audio))
    /\ passed' = SubSeq(CharAudio', 1, Len(audio))

-----------------------------------------------------------------------------
(* The first call opens the device; its verifyf's are taken to hold.       *)
Start ==
    /\ recordings < MaxRecordings                          \* bound
    /\ IF rate = 0 THEN rate' \in Rates ELSE UNCHANGED rate
    /\ bIsCapturing' = TRUE
    /\ recordings' = recordings + 1
    /\ IF bIsCapturing
       THEN UNCHANGED <<opened, Output, passed, history>>
       ELSE /\ opened' = heard
            /\ Output' = <<>> /\ passed' = <<>> /\ history' = NoHistory
    /\ UNCHANGED <<Buffer, CharAudio, heard, ub>>

BugStopKeepsBuffer ==
    /\ bIsCapturing' = FALSE
    /\ UNCHANGED <<rate, Buffer, audioVars, heard, opened, recordings, ub>>

Stop ==
    /\ bIsCapturing' = FALSE /\ Buffer' = <<>>
    /\ UNCHANGED <<rate, audioVars, heard, opened, recordings, ub>>

(* The first channel of what the device delivers.                          *)
BugFramesOneMore(n) == [i \in 1..(n + 1) |-> heard + i]
Frames(n) == [i \in 1..n |-> heard + i]

(* What the last capture adds to the history.                              *)
LastFirst == IF Output = <<>> THEN history.first ELSE Output[Len(Output)].first
Remembered ==
    [captures |-> history.captures + 1,
     outputs  |-> history.outputs + Len(Output),
     first    |-> LastFirst]

OnAudioCapture(samples, level) ==
    /\ ub' = ~IsDefined(Len(samples))
    /\ IF ub'
       THEN UNCHANGED <<Buffer, audioVars>>
       ELSE /\ Output' = [i \in 1..OutputLength(Len(samples)) |->
                 [first |-> samples[Offset(i - 1) + 1], level |-> level]]
            /\ Buffer' = LeftOver(samples)
            /\ OnSpeechAudio(Output')
            /\ history' = Remembered

(* The device runs all the time; captures are dropped while it is closed.  *)
Capture ==
    /\ rate # 0
    /\ \E n \in CaptureSizes, level \in Levels :
          /\ heard + n <= MaxFrames                        \* bound
          /\ heard' = heard + n
          /\ IF bIsCapturing THEN OnAudioCapture(Buffer \o Frames(n), level)
                             ELSE UNCHANGED <<Buffer, ub, audioVars>>
    /\ UNCHANGED <<rate, bIsCapturing, opened, recordings>>

Stopped == (ub \/ heard >= MaxFrames) /\ UNCHANGED vars
Next == (~ub /\ (Start \/ Stop \/ Capture)) \/ Stopped
Spec == Init /\ [][Next]_vars

-----------------------------------------------------------------------------
(* The variables are of their types; what is buffered has been heard.      *)
TypeOK ==
    /\ rate \in Rates \union {0} /\ bIsCapturing \in BOOLEAN
    /\ bIsCapturing => rate # 0
    /\ heard \in Nat /\ opened \in 0..heard /\ recordings \in Nat
    /\ Buffer \in Seq(1..heard) /\ Output \in Seq(Outputs)
    /\ CharAudio \in Seq(Samples) /\ passed \in Seq(Samples)
    /\ history \in [captures : Nat, outputs : Nat, first : Nat]
    /\ ub \in BOOLEAN

(* A capture is processed within Buffer unless the frames there are, new   *)
(* and left over, are fewer than the filter needs by a whole step: the     *)
(* length of the output is negative then.  The windows of a longer         *)
(* capture, however the ratio rounds, end within it.                       *)
TooShort(n) == (Taps - n) * SampleRate >= rate
ReadsInBuffer ==
    [][ub' => TooShort(Len(Buffer) + (heard' - heard))]_vars

(* Buffer holds the latest frames without a gap, none of them from before  *)
(* this recording, nothing between recordings, and never more than the     *)
(* filter is long: it neither grows nor delays the output.                 *)
FreshAudio ==
    /\ Len(Buffer) <= Taps
    /\ ~bIsCapturing => Buffer = <<>>
    /\ ~ub => \A i \in DOMAIN Buffer : Buffer[i] = heard - Len(Buffer) + i
    /\ \A i \in DOMAIN Buffer : Buffer[i] > opened

(* The windows of consecutive outputs are one step apart, rounded down or  *)
(* up, also where one capture ends and the next begins: no sample is       *)
(* computed twice and no frame skipped.                                    *)
IsStep(d) == d * SampleRate < rate + SampleRate /\ d * SampleRate > rate - SampleRate
EvenSteps ==
    /\ \A i \in 1..(Len(Output) - 1) :
          IsStep(Output[i + 1].first - Output[i].first)
    /\ Output # <<>> =>
          IF history.first = 0 THEN Output[1].first = opened + 1
                               ELSE IsStep(Output[1].first - history.first)

(* Over a recording the output drifts from its rate by no more than half a *)
(* frame per capture.                                                      *)
DriftBounded ==
    \A i \in DOMAIN Output :
        LET drift == SampleRate * (Output[i].first - opened - 1)
                     - rate * (history.outputs + i - 1)
        IN  /\ 2 * drift <= SampleRate * history.captures
            /\ -2 * drift <= SampleRate * history.captures

(* A passed sample has the sign of the one it comes from and is within one *)
(* of it in 16 bits, or at the end of the scale for one beyond.            *)
IsClose(value, level) ==
    LET scale == IF level < 0 THEN 32768 ELSE 32767
    IN  IF level > FullScale THEN value = 32767
        ELSE IF level < -FullScale THEN value = -32768
        ELSE /\ FullScale * (value - 1) < level * scale
             /\ level * scale < FullScale * (value + 1)
             /\ value # 0 => (value < 0 <=> level < 0)

(* OnSpeechAudio passes on the samples of this capture, all of them, each  *)
(* close to what it was, and none that an earlier, longer capture has left *)
(* in CharAudio.                                                           *)
OutputPassed ==
    /\ Len(passed) = Len(Output)
    /\ \A i \in DOMAIN passed :
          /\ passed[i].first = Output[i].first
          /\ IsClose(passed[i].value, Output[i].level)
=============================================================================
