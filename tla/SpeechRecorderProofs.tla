------------------------ MODULE SpeechRecorderProofs ------------------------
(* Theorems about SpeechRecorder, for every device rate, filter length,    *)
(* capture size and number of captures.                                    *)
EXTENDS SpeechRecorder, TLAPS

-----------------------------------------------------------------------------
(* The arithmetic: what rounding and the ceiling guarantee.                *)
LEMMA Division ==
    ASSUME NEW a \in Int, NEW b \in Nat \ {0}
    PROVE  a \div b \in Int /\ b * (a \div b) <= a /\ a < b * (a \div b) + b
  OBVIOUS

LEMMA Cancel ==
    ASSUME NEW a \in Int, NEW b \in Int, NEW c \in Nat \ {0}, c * a < c * b
    PROVE  a < b
  OBVIOUS

LEMMA Times ==
    ASSUME NEW a \in Int, NEW b \in Int, NEW c \in Nat, a <= b
    PROVE  c * a <= c * b
  OBVIOUS

Opened == rate \in Nat \ {0} /\ rate < (Taps - 1) * SampleRate

(* An offset is within half a frame of the exact one.                      *)
LEMMA OffsetIsClose ==
    ASSUME Opened, NEW i \in Int
    PROVE  /\ Offset(i) \in Int
           /\ 2 * (SampleRate * Offset(i)) <= 2 * (rate * i) + SampleRate
           /\ 2 * (rate * i) < 2 * (SampleRate * Offset(i)) + SampleRate
<1>1. SampleRate \in Nat \ {0} BY RecorderAssumption
<1>2. rate \in Int BY DEF Opened
<1> DEFINE a == 2 * rate * i + SampleRate
           b == 2 * SampleRate
<1>3. a \in Int /\ b \in Nat \ {0} BY <1>1, <1>2
<1>4. /\ a \div b \in Int
      /\ b * (a \div b) <= a /\ a < b * (a \div b) + b
  BY <1>3, Division
<1>5. Offset(i) = a \div b BY DEF Offset
<1> QED BY <1>1, <1>2, <1>4, <1>5

(* The output covers all but a filter's length of the samples.             *)
LEMMA LengthIsClose ==
    ASSUME Opened, NEW n \in Nat
    PROVE  /\ OutputLength(n) \in Int
           /\ (n - Taps) * SampleRate <= rate * OutputLength(n)
           /\ rate * OutputLength(n) < (n - Taps) * SampleRate + rate
<1>1. SampleRate \in Nat \ {0} /\ Taps \in Nat BY RecorderAssumption
<1>2. rate \in Nat \ {0} BY DEF Opened
<1> DEFINE a == (Taps - n) * SampleRate
           q == a \div rate
<1>3. a \in Int BY <1>1
<1>4. q \in Int /\ rate * q <= a /\ a < rate * q + rate
  BY <1>2, <1>3, Division
<1>5. OutputLength(n) = -q BY DEF OutputLength
<1>6. rate * (-q) = -(rate * q) BY <1>2, <1>4
<1>7. (n - Taps) * SampleRate = -a BY <1>1
<1> HIDE DEF a, q
<1> QED BY <1>2, <1>3, <1>4, <1>5, <1>6, <1>7

(* The first offset is that of the first sample.                           *)
LEMMA OffsetZero == ASSUME Opened PROVE Offset(0) = 0
<1>1. SampleRate \in Nat \ {0} BY RecorderAssumption
<1>2. /\ Offset(0) \in Int
      /\ 2 * (SampleRate * Offset(0)) <= 2 * (rate * 0) + SampleRate
      /\ 2 * (rate * 0) < 2 * (SampleRate * Offset(0)) + SampleRate
  BY OffsetIsClose
<1>3. rate * 0 = 0 BY DEF Opened
<1>4. SampleRate * (-1) < SampleRate * Offset(0) BY <1>1, <1>2, <1>3
<1>5. SampleRate * Offset(0) < SampleRate * 1 BY <1>1, <1>2, <1>3
<1> QED BY <1>1, <1>2, <1>4, <1>5, Cancel

(* Consecutive offsets are a step apart.                                   *)
LEMMA OffsetSteps ==
    ASSUME Opened, NEW i \in Int
    PROVE  IsStep(Offset(i + 1) - Offset(i))
<1>1. SampleRate \in Nat \ {0} /\ rate \in Nat BY RecorderAssumption DEF Opened
<1> DEFINE p == Offset(i)
           q == Offset(i + 1)
<1>2. /\ p \in Int
      /\ 2 * (SampleRate * p) <= 2 * (rate * i) + SampleRate
      /\ 2 * (rate * i) < 2 * (SampleRate * p) + SampleRate
  BY OffsetIsClose
<1>3. /\ q \in Int
      /\ 2 * (SampleRate * q) <= 2 * (rate * (i + 1)) + SampleRate
      /\ 2 * (rate * (i + 1)) < 2 * (SampleRate * q) + SampleRate
  BY OffsetIsClose, i + 1 \in Int
<1>4. rate * (i + 1) = rate * i + rate BY <1>1
<1>5. (q - p) * SampleRate = SampleRate * q - SampleRate * p
  BY <1>1, <1>2, <1>3
<1>6. /\ (q - p) * SampleRate < rate + SampleRate
      /\ (q - p) * SampleRate > rate - SampleRate
  <2> HIDE DEF p, q
  <2> DEFINE x == rate * i
             y == SampleRate * p
             z == SampleRate * q
  <2>1. x \in Int /\ y \in Int /\ z \in Int BY <1>1, <1>2, <1>3
  <2> HIDE DEF x, y, z
  <2>2. 2 * y <= 2 * x + SampleRate /\ 2 * x < 2 * y + SampleRate
    BY <1>2 DEF x, y
  <2>3. 2 * z <= 2 * (x + rate) + SampleRate /\ 2 * (x + rate) < 2 * z + SampleRate
    BY <1>3, <1>4 DEF x, z
  <2>4. z - y < rate + SampleRate /\ z - y > rate - SampleRate
    BY <1>1, <2>1, <2>2, <2>3
  <2> QED BY <1>5, <2>4 DEF y, z
<1> QED BY <1>6 DEF IsStep

(* Every window of a capture that is long enough ends within it, and what  *)
(* is left over is shorter than the filter.                                *)
LEMMA ResamplerInside ==
    ASSUME Opened, NEW n \in Nat, ~TooShort(n)
    PROVE  /\ OutputLength(n) \in Nat
           /\ WindowsInside(n)
           /\ RemainingOffset(n) \in 0..n
           /\ n - RemainingOffset(n) <= Taps
<1>1. /\ SampleRate \in Nat \ {0} /\ Taps \in Nat \ {0}
      /\ rate \in Nat \ {0} /\ rate < (Taps - 1) * SampleRate
  BY RecorderAssumption DEF Opened
<1> DEFINE L == OutputLength(n)
           x == (n - Taps) * SampleRate
<1>2. L \in Int /\ x \in Int /\ x <= rate * L /\ rate * L < x + rate
  BY <1>1, LengthIsClose
<1>3. -rate < x BY <1>1 DEF TooShort
<1>4. L \in Nat
  <2>1. rate * (-1) < rate * L BY <1>1, <1>2, <1>3
  <2> QED BY <1>1, <1>2, <2>1, Cancel
<1>5. ASSUME NEW i \in Nat, NEW q \in Int,
             2 * (rate * i) < 2 * (SampleRate * q) + SampleRate
      PROVE  q >= 0
  <2>1. rate * i \in Nat BY <1>1
  <2>2. SampleRate * (-1) < SampleRate * q BY <1>1, <1>5, <2>1
  <2> QED BY <1>1, <2>2, Cancel
<1>6. ASSUME NEW i \in 0..(L - 1) PROVE Offset(i) >= 0 /\ Offset(i) + Taps <= n
  <2> DEFINE q == Offset(i)
  <2>1. /\ q \in Int
        /\ 2 * (SampleRate * q) <= 2 * (rate * i) + SampleRate
        /\ 2 * (rate * i) < 2 * (SampleRate * q) + SampleRate
    BY <1>4, OffsetIsClose
  <2> HIDE DEF q, L, x
  <2>2. i \in Nat /\ i <= L - 1 BY <1>4
  <2>3. q >= 0 BY <1>5, <2>1, <2>2
  <2>4. rate * i <= rate * (L - 1) BY <1>1, <1>2, <2>2, Times
  <2>5. rate * (L - 1) = rate * L - rate BY <1>1, <1>2
  <2>6. 2 * (SampleRate * q) < 2 * x + SampleRate
    BY <1>1, <1>2, <2>1, <2>2, <2>4, <2>5
  <2>7. SampleRate * (2 * q) < SampleRate * (2 * (n - Taps) + 1)
    BY <1>1, <2>1, <2>6 DEF x
  <2>8. 2 * q < 2 * (n - Taps) + 1 BY <1>1, <2>1, <2>7, Cancel
  <2> QED BY <1>1, <2>1, <2>3, <2>8 DEF q
<1> DEFINE r == Offset(L)
<1>7. /\ r \in Int
      /\ 2 * (SampleRate * r) <= 2 * (rate * L) + SampleRate
      /\ 2 * (rate * L) < 2 * (SampleRate * r) + SampleRate
  BY <1>2, OffsetIsClose
<1> HIDE DEF r, L, x
<1>8. r >= 0 BY <1>4, <1>5, <1>7
<1>9. n - r <= Taps
  <2>1. 2 * x < 2 * (SampleRate * r) + SampleRate BY <1>1, <1>2, <1>7
  <2>2. SampleRate * (2 * (n - Taps)) < SampleRate * (2 * r + 1)
    BY <1>1, <1>7, <2>1 DEF x
  <2> QED BY <1>1, <1>7, <2>2, Cancel
<1>10. r <= n
  <2>1. 2 * (SampleRate * r) < 2 * x + 2 * ((Taps - 1) * SampleRate) + SampleRate
    BY <1>1, <1>2, <1>7
  <2>2. x + (Taps - 1) * SampleRate = SampleRate * (n - 1) BY <1>1 DEF x
  <2>3. 2 * (SampleRate * r) < 2 * (SampleRate * (n - 1)) + SampleRate
    BY <1>1, <1>2, <1>7, <2>1, <2>2
  <2>4. SampleRate * (n - 1) = SampleRate * n - SampleRate BY <1>1
  <2>5. SampleRate * (2 * r) < SampleRate * (2 * n)
    BY <1>1, <1>7, <2>3, <2>4
  <2> QED BY <1>1, <1>7, <2>5, Cancel
<1> QED
  BY <1>4, <1>6, <1>7, <1>8, <1>9, <1>10
     DEF WindowsInside, RemainingOffset, L, r

-----------------------------------------------------------------------------
(* The conversion to 16 bits.                                              *)
LEMMA TruncationIsClose ==
    ASSUME NEW a \in Int, NEW b \in Nat \ {0}
    PROVE  /\ Truncated(a, b) \in Int
           /\ a >= 0 => /\ Truncated(a, b) >= 0
                        /\ b * Truncated(a, b) <= a
                        /\ a < b * Truncated(a, b) + b
           /\ a < 0 => /\ Truncated(a, b) <= 0
                       /\ b * Truncated(a, b) >= a
                       /\ a > b * Truncated(a, b) - b
<1>1. CASE a >= 0
  <2> DEFINE q == a \div b
  <2>1. q \in Int /\ b * q <= a /\ a < b * q + b BY Division
  <2> HIDE DEF q
  <2>2. b * (-1) < b * q BY <1>1, <2>1
  <2>3. q >= 0 BY <2>1, <2>2, Cancel
  <2> QED BY <1>1, <2>1, <2>3 DEF Truncated, q
<1>2. CASE a < 0
  <2> DEFINE q == (-a) \div b
  <2>1. q \in Int /\ b * q <= -a /\ -a < b * q + b BY Division
  <2>2. Truncated(a, b) = -q BY <1>2 DEF Truncated
  <2> HIDE DEF q
  <2>3. b * (-1) < b * q BY <1>2, <2>1
  <2>4. q >= 0 BY <2>1, <2>3, Cancel
  <2>5. b * (-q) = -(b * q) BY <2>1
  <2> QED BY <1>2, <2>1, <2>2, <2>4, <2>5
<1> QED BY <1>1, <1>2

(* A clamped sample keeps its value in 16 bits.                            *)
LEMMA ClampedFits ==
    ASSUME NEW x \in Int
    PROVE  Int16(Clamp(x)) = Clamp(x)
<1>1. CASE x > 32767
  <2>1. Clamp(x) = 32767 BY <1>1 DEF Clamp
  <2> QED BY <2>1 DEF Int16
<1>2. CASE x < -32768
  <2>1. Clamp(x) = -32768 BY <1>2 DEF Clamp
  <2> QED BY <2>1 DEF Int16
<1>3. CASE x <= 32767 /\ x >= -32768
  <2>1. Clamp(x) = x BY <1>3 DEF Clamp
  <2> QED BY <1>3, <2>1 DEF Int16
<1> QED BY <1>1, <1>2, <1>3

(* A sample comes out within one of its exact value, or at the end of the  *)
(* scale.                                                                  *)
LEMMA ConversionIsClose ==
    ASSUME NEW level \in Int
    PROVE  ToInt16(level) \in Int /\ IsClose(ToInt16(level), level)
<1> DEFINE F == FullScale
           s == IF level < 0 THEN 32768 ELSE 32767
           a == level * s
           q == Truncated(a, F)
<1>1. F \in Nat \ {0} BY RecorderAssumption
<1>2. a \in Int
  <2>1. s \in Int OBVIOUS
  <2> HIDE DEF s
  <2> QED BY <2>1
<1>3. q \in Int
  <2> HIDE DEF a, F
  <2> QED BY <1>1, <1>2, TruncationIsClose
<1>4. Scaled(level) = q BY DEF Scaled
<1> HIDE DEF q
<1>5. ToInt16(level) = Clamp(q) BY <1>3, <1>4, ClampedFits DEF ToInt16
<1>6. CASE level >= 0
  <2> HIDE DEF F
  <2>1. a = level * 32767 /\ a >= 0 BY <1>6
  <2>2. q >= 0 /\ F * q <= a /\ a < F * q + F
    BY <1>1, <1>2, <2>1, TruncationIsClose DEF q
  <2>3. CASE level > F
    <3>1. F * 32767 < a BY <1>1, <2>1, <2>3
    <3>2. F * 32767 < F * (q + 1) BY <1>1, <1>2, <1>3, <2>2, <3>1
    <3>3. q >= 32767 BY <1>1, <1>3, <3>2, Cancel
    <3>4. Clamp(q) = 32767 BY <1>3, <3>3 DEF Clamp
    <3> QED BY <1>5, <2>3, <3>4 DEF IsClose, F
  <2>4. CASE level <= F
    <3>1. a <= 32767 * F BY <1>1, <2>1, <2>4
    <3>2. F * q < F * 32768 BY <1>1, <1>2, <1>3, <2>2, <3>1
    <3>3. q <= 32767 BY <1>1, <1>3, <3>2, Cancel
    <3>4. Clamp(q) = q BY <1>3, <2>2, <3>3 DEF Clamp
    <3>5. F * (q - 1) < a /\ a < F * (q + 1) BY <1>1, <1>2, <1>3, <2>2
    <3> QED
      BY <1>1, <1>3, <1>5, <1>6, <2>1, <2>2, <2>4, <3>4, <3>5 DEF IsClose, F
  <2> QED BY <1>1, <2>3, <2>4
<1>7. CASE level < 0
  <2> HIDE DEF F
  <2>1. a = level * 32768 /\ a < 0 BY <1>7
  <2>2. q <= 0 /\ F * q >= a /\ a > F * q - F
    BY <1>1, <1>2, <2>1, TruncationIsClose DEF q
  <2>3. CASE level < -F
    <3>1. a < F * (-32768) BY <1>1, <2>1, <2>3
    <3>2. F * (q - 1) < F * (-32768) BY <1>1, <1>2, <1>3, <2>2, <3>1
    <3>3. q <= -32768 BY <1>1, <1>3, <3>2, Cancel
    <3>4. Clamp(q) = -32768 BY <1>3, <3>3 DEF Clamp
    <3> QED BY <1>1, <1>5, <1>7, <2>3, <3>4 DEF IsClose, F
  <2>4. CASE level >= -F
    <3>1. a >= F * (-32768) BY <1>1, <2>1, <2>4
    <3>2. F * (-32769) < F * q BY <1>1, <1>2, <1>3, <2>2, <3>1
    <3>3. q >= -32768 BY <1>1, <1>3, <3>2, Cancel
    <3>4. Clamp(q) = q BY <1>3, <2>2, <3>3 DEF Clamp
    <3>5. F * (q - 1) < a /\ a < F * (q + 1) BY <1>1, <1>2, <1>3, <2>2
    <3> QED
      BY <1>1, <1>3, <1>5, <1>7, <2>1, <2>2, <2>4, <3>4, <3>5 DEF IsClose, F
  <2> QED BY <1>1, <2>3, <2>4
<1> QED BY <1>3, <1>5, <1>6, <1>7 DEF Clamp

-----------------------------------------------------------------------------
(* The inductive invariant.  Next to what the properties say it fixes the  *)
(* place of the window that comes next: a step behind the last one, and    *)
(* within half a frame per capture of where it should be.                  *)
NextFirst == heard - Len(Buffer) + 1
Handed    == history.outputs + Len(Output)
NextIsEven ==
    IF LastFirst = 0 THEN NextFirst = opened + 1 ELSE IsStep(NextFirst - LastFirst)
NextDrift == SampleRate * (NextFirst - opened - 1) - rate * Handed
NextIsNear ==
    /\ 2 * NextDrift <= SampleRate * history.captures
    /\ -2 * NextDrift <= SampleRate * history.captures
RecorderInv ==
    /\ TypeOK /\ FreshAudio
    /\ \A i \in DOMAIN Output : Output[i].first > 0
    /\ bIsCapturing /\ ~ub => NextIsEven /\ NextIsNear

LEMMA InitInv == Init => RecorderInv
<1> SUFFICES ASSUME Init PROVE RecorderInv OBVIOUS
<1> USE DEF Init
<1>1. TypeOK
  <2>1. history \in [captures : Nat, outputs : Nat, first : Nat] BY DEF NoHistory
  <2>2. opened \in 0..heard BY SMT
  <2>3. Buffer \in Seq(1..heard) OBVIOUS
  <2>4. Output \in Seq(Outputs) /\ CharAudio \in Seq(Samples) /\ passed \in Seq(Samples)
    OBVIOUS
  <2> QED BY <2>1, <2>2, <2>3, <2>4 DEF TypeOK
<1>2. FreshAudio BY RecorderAssumption DEF FreshAudio
<1> QED BY <1>1, <1>2 DEF RecorderInv

LEMMA StartInv == RecorderInv /\ ~ub /\ Start => RecorderInv'
<1> SUFFICES ASSUME RecorderInv, ~ub, Start PROVE RecorderInv' OBVIOUS
<1>1. TypeOK /\ FreshAudio BY DEF RecorderInv
<1>2. UNCHANGED <<Buffer, heard, ub, CharAudio>> BY DEF Start
<1>3. rate' \in Rates /\ rate' \in Nat /\ rate' # 0 /\ bIsCapturing' = TRUE
  BY <1>1, RecorderAssumption DEF TypeOK, Start
<1>4. recordings' \in Nat BY <1>1 DEF TypeOK, Start
<1>5. CASE bIsCapturing
  <2>1. UNCHANGED <<rate, bIsCapturing, opened, Output, passed, history>>
    BY <1>1, <1>3, <1>5 DEF TypeOK, Start
  <2>2. TypeOK' BY <1>1, <1>2, <1>4, <2>1 DEF TypeOK
  <2>3. FreshAudio'
    BY <1>1, <1>2, <2>1 DEF FreshAudio
  <2>4. NextIsEven /\ NextIsNear BY <1>5 DEF RecorderInv
  <2>5. NextIsEven' BY <1>2, <2>1, <2>4 DEF NextIsEven, LastFirst, NextFirst, IsStep
  <2>6. NextIsNear'
    BY <1>2, <2>1, <2>4 DEF NextIsNear, NextDrift, NextFirst, Handed
  <2>7. \A i \in DOMAIN Output' : Output'[i].first > 0 BY <2>1 DEF RecorderInv
  <2> QED BY <2>2, <2>3, <2>5, <2>6, <2>7 DEF RecorderInv
<1>6. CASE ~bIsCapturing
  <2>1. Buffer = <<>> /\ heard \in Nat BY <1>1, <1>6 DEF FreshAudio, TypeOK
  <2>2. opened' = heard /\ Output' = <<>> /\ passed' = <<>> /\ history' = NoHistory
    BY <1>6 DEF Start
  <2>3. TypeOK'
    <3>1. history' \in [captures : Nat, outputs : Nat, first : Nat]
      BY <2>2 DEF NoHistory
    <3>2. opened' \in 0..heard' BY <1>2, <2>1, <2>2
    <3>3. Output' \in Seq(Outputs) /\ passed' \in Seq(Samples) BY <2>2
    <3> QED BY <1>1, <1>2, <1>3, <1>4, <3>1, <3>2, <3>3 DEF TypeOK
  <2>4. FreshAudio' BY <1>1, <1>2, <1>3, <2>1 DEF FreshAudio
  <2>6. LastFirst' = 0 /\ Handed' = 0
    BY <2>2 DEF LastFirst, Handed, NoHistory
  <2>7. NextFirst' = opened' + 1 BY <1>2, <2>1, <2>2 DEF NextFirst
  <2>8. NextIsEven' BY <2>6, <2>7 DEF NextIsEven
  <2>9. NextIsNear'
    <3>1. NextFirst' - opened' - 1 = 0 BY <2>1, <2>2, <2>7
    <3>2. NextDrift' = SampleRate * 0 - rate' * 0
      BY <2>6, <3>1 DEF NextDrift
    <3>3. NextDrift' = 0
      <4>1. \A c \in Nat : c * 0 = 0 OBVIOUS
      <4>2. SampleRate * 0 = 0 BY <4>1, RecorderAssumption
      <4>3. rate' * 0 = 0 BY <4>1, <1>3
      <4> QED BY <3>2, <4>2, <4>3
    <3>4. history'.captures = 0 BY <2>2 DEF NoHistory
    <3> QED BY <3>3, <3>4, RecorderAssumption DEF NextIsNear
  <2>10. \A i \in DOMAIN Output' : Output'[i].first > 0 BY <2>2
  <2> QED BY <2>3, <2>4, <2>8, <2>9, <2>10 DEF RecorderInv
<1> QED BY <1>5, <1>6

LEMMA StopInv == RecorderInv /\ Stop => RecorderInv'
<1> SUFFICES ASSUME RecorderInv, Stop PROVE RecorderInv' OBVIOUS
<1> USE DEF Stop, audioVars
<1>1. TypeOK'
  <2>1. Buffer' \in Seq(1..heard') OBVIOUS
  <2> QED BY <2>1 DEF RecorderInv, TypeOK
<1>2. FreshAudio' BY RecorderAssumption DEF FreshAudio
<1> QED BY <1>1, <1>2 DEF RecorderInv

(* What a capture is processed from: the frames left over and the new ones *)
(* are consecutive and of this recording.                                  *)
LEMMA SamplesAreFresh ==
    ASSUME RecorderInv, ~ub, NEW n \in Nat,
           NEW s, s = Buffer \o Frames(n)
    PROVE  /\ s \in Seq(1..(heard + n))
           /\ Len(s) = Len(Buffer) + n
           /\ \A k \in 1..Len(s) : s[k] = heard + n - Len(s) + k /\ s[k] > opened
<1>1. /\ heard \in Nat /\ opened \in 0..heard /\ Buffer \in Seq(1..heard)
      /\ \A k \in 1..Len(Buffer) :
            Buffer[k] = heard - Len(Buffer) + k /\ Buffer[k] > opened
  BY DEF RecorderInv, TypeOK, FreshAudio
<1>2. Frames(n) \in Seq(1..(heard + n)) /\ Len(Frames(n)) = n
  BY ONLY <1>1, n \in Nat DEF Frames
<1>3. Buffer \in Seq(1..(heard + n)) BY <1>1
<1>4. s \in Seq(1..(heard + n)) /\ Len(s) = Len(Buffer) + n BY <1>2, <1>3
<1>5. ASSUME NEW k \in 1..Len(s)
      PROVE  s[k] = heard + n - Len(s) + k /\ s[k] > opened
  <2>1. CASE k <= Len(Buffer)
    <3>1. s[k] = Buffer[k] /\ k \in 1..Len(Buffer) BY <1>2, <1>3, <2>1
    <3> QED BY <1>1, <1>4, <3>1
  <2>2. CASE k > Len(Buffer)
    <3>1. s[k] = Frames(n)[k - Len(Buffer)] BY <1>2, <1>3, <1>4, <2>2
    <3>2. k - Len(Buffer) \in 1..n BY <1>1, <1>4, <2>2
    <3>3. s[k] = heard + (k - Len(Buffer)) BY <3>1, <3>2 DEF Frames
    <3> QED BY <1>1, <1>4, <3>2, <3>3
  <2> QED BY <1>1, <2>1, <2>2
<1> QED BY <1>4, <1>5

(* A tail of a sequence.                                                   *)
LEMMA WhatIsLeft ==
    ASSUME NEW S, NEW t \in Seq(S), NEW q \in Nat, q <= Len(t)
    PROVE  LET u == SubSeq(t, q + 1, Len(t))
           IN  /\ u \in Seq(S) /\ Len(u) = Len(t) - q
               /\ \A k \in 1..(Len(t) - q) : u[k] = t[q + k]
<1> DEFINE u == SubSeq(t, q + 1, Len(t))
<1>1. Len(t) \in Nat OBVIOUS
<1>2. u \in Seq(S) BY <1>1
<1>3. Len(u) = Len(t) - q BY <1>1
<1>4. ASSUME NEW k \in 1..(Len(t) - q) PROVE u[k] = t[q + k]
  BY <1>1, <1>4
<1> QED BY <1>2, <1>3, <1>4

(* A capture that is processed: its output and what is left over of it.    *)
LEMMA ProcessedInv ==
    ASSUME RecorderInv, ~ub, bIsCapturing, NEW n \in Nat, NEW level \in Levels,
           heard' = heard + n, OnAudioCapture(Buffer \o Frames(n), level), ~ub',
           UNCHANGED <<rate, bIsCapturing, opened, recordings>>
    PROVE  RecorderInv' /\ EvenSteps' /\ DriftBounded'
<1> DEFINE s == Buffer \o Frames(n)
           N == Len(s)
           L == OutputLength(N)
           r == RemainingOffset(N)
<1>1. /\ s \in Seq(1..(heard + n))
      /\ \A k \in 1..N : s[k] = heard + n - N + k /\ s[k] > opened
  BY SamplesAreFresh
<1>2. /\ TypeOK /\ FreshAudio /\ NextIsEven /\ NextIsNear
      /\ N = Len(Buffer) + n /\ \A i \in DOMAIN Output : Output[i].first > 0
  BY SamplesAreFresh DEF RecorderInv
<1>3. Opened BY <1>2, RecorderAssumption DEF TypeOK, Opened
<1>4. /\ Output' = [i \in 1..L |->
                       [first |-> s[Offset(i - 1) + 1], level |-> level]]
      /\ Buffer' = LeftOver(s) /\ OnSpeechAudio(Output') /\ history' = Remembered
      /\ IsDefined(N)
  BY DEF OnAudioCapture
<1>5. N \in Nat /\ L \in Nat /\ WindowsInside(N) /\ r \in Int /\ r >= 0
  <2>1. N \in Nat BY <1>1
  <2>2. L \in Int BY <1>3, <2>1, LengthIsClose
  <2>3. r \in Int BY <1>3, <2>2, OffsetIsClose DEF RemainingOffset
  <2> QED BY <1>4, <2>1, <2>2, <2>3 DEF IsDefined
<1>6. r <= N /\ N - r <= Taps
  <2>1. rate \in Nat \ {0} /\ Taps \in Nat /\ SampleRate \in Nat
    BY <1>3, RecorderAssumption DEF Opened
  <2>2. rate * L < (N - Taps) * SampleRate + rate BY <1>3, <1>5, LengthIsClose
  <2>3. rate * L >= 0 BY <2>1, <1>5
  <2>4. (Taps - N) * SampleRate = -((N - Taps) * SampleRate) BY <2>1, <1>5
  <2> DEFINE x == (N - Taps) * SampleRate
  <2>5. x \in Int BY <2>1, <1>5
  <2> HIDE DEF x, N, L, r
  <2>6. ~((Taps - N) * SampleRate >= rate)
    BY <1>5, <2>1, <2>2, <2>3, <2>4, <2>5 DEF x
  <2>7. ~TooShort(N) BY <2>6 DEF TooShort
  <2> QED BY <1>3, <1>5, <2>7, ResamplerInside DEF r
<1>7. \A i \in 0..(L - 1) : Offset(i) \in Int /\ Offset(i) >= 0 /\ Offset(i) < N
  <2> TAKE i \in 0..(L - 1)
  <2>1. Offset(i) \in Int BY <1>3, OffsetIsClose
  <2>2. Offset(i) >= 0 /\ Offset(i) + Taps <= N BY <1>5 DEF WindowsInside
  <2> QED BY <1>5, <2>1, <2>2, RecorderAssumption
<1>8. heard \in Nat /\ NextFirst = heard + n - N + 1 /\ NextFirst \in Int
  BY <1>1, <1>2, <1>5 DEF TypeOK, NextFirst
<1>9. /\ Len(Output') = L /\ DOMAIN Output' = 1..L
      /\ \A i \in 1..L : /\ Output'[i].first = NextFirst + Offset(i - 1)
                          /\ Output'[i].first \in Nat \ {0}
                          /\ Output'[i].level = level
  <2>1. Len(Output') = L /\ DOMAIN Output' = 1..L BY <1>4, <1>5
  <2>2. ASSUME NEW i \in 1..L
        PROVE  /\ Output'[i].first = NextFirst + Offset(i - 1)
               /\ Output'[i].first \in Nat \ {0}
               /\ Output'[i].level = level
    <3>1. i - 1 \in 0..(L - 1) BY <1>5
    <3>2. Offset(i - 1) \in Int /\ Offset(i - 1) + 1 \in 1..N BY <1>5, <1>7, <3>1
    <3>3. Output'[i] = [first |-> s[Offset(i - 1) + 1], level |-> level]
      BY <1>4
    <3> DEFINE o == Offset(i - 1)
               frame == s[o + 1]
    <3>0. N = Len(s) BY DEF N
    <3> HIDE DEF s, N, o, frame
    <3>4. s[o + 1] = heard + n - N + (o + 1) /\ s[o + 1] \in 1..(heard + n)
      <4>1. o + 1 \in 1..N BY <3>2 DEF o
      <4> QED BY <1>1, <3>0, <4>1
    <3>5. Output'[i].first = s[o + 1] /\ Output'[i].level = level
      <4>1. Output'[i] = [first |-> frame, level |-> level]
        BY <3>3 DEF frame, o
      <4>2. Output'[i].first = frame /\ Output'[i].level = level BY <4>1
      <4> QED BY <4>2 DEF frame
    <3>6. o \in Int /\ N \in Nat /\ n \in Nat /\ heard \in Nat
      BY <1>5, <1>8, <3>2 DEF o
    <3>7. Output'[i].first = NextFirst + o /\ Output'[i].first \in Nat \ {0}
      BY <1>8, <3>4, <3>5, <3>6
    <3> QED BY <3>5, <3>7 DEF o
  <2> QED BY <2>1, <2>2
<1>10. /\ Buffer' \in Seq(1..heard') /\ Len(Buffer') = N - r
       /\ \A k \in 1..(N - r) : Buffer'[k] = heard' - (N - r) + k /\ Buffer'[k] > opened
  <2>1. Buffer' = SubSeq(s, r + 1, N) BY <1>4 DEF LeftOver
  <2> HIDE DEF N, r
  <2>2. /\ Buffer' \in Seq(1..(heard + n)) /\ Len(Buffer') = N - r
        /\ \A k \in 1..(N - r) : Buffer'[k] = s[r + k]
    <3>1. N = Len(s) BY DEF N
    <3>2. s \in Seq(1..(heard + n)) BY <1>1
    <3> HIDE DEF s
    <3> QED BY <1>5, <1>6, <2>1, <3>1, <3>2, WhatIsLeft
  <2>3. \A k \in 1..(N - r) : r + k \in 1..N BY <1>5, <1>6
  <2> HIDE DEF s
  <2>4. ASSUME NEW k \in 1..(N - r)
        PROVE  Buffer'[k] = heard' - (N - r) + k /\ Buffer'[k] > opened
    <3>1. s[r + k] = heard + n - N + (r + k) /\ s[r + k] > opened
      BY <1>1, <2>3
    <3>2. N \in Nat /\ r \in Nat /\ k \in Nat /\ heard \in Nat /\ n \in Nat
      BY <1>5, <1>8
    <3>3. heard + n - N + (r + k) = (heard + n) - (N - r) + k BY <3>2
    <3> QED BY <2>2, <3>1, <3>3
  <2> QED BY <2>2, <2>4
<1>11. NextFirst' = NextFirst + r
  <2> HIDE DEF N, r
  <2>1. NextFirst' = (heard + n) - (N - r) + 1 BY <1>10 DEF NextFirst
  <2> QED BY <1>5, <1>8, <2>1
<1>12. TypeOK'
  <2>1. Output' \in Seq(Outputs)
    <3>1. ASSUME NEW i \in 1..L PROVE Output'[i] \in Outputs
      <4> DEFINE frame == s[Offset(i - 1) + 1]
      <4>1. Output'[i] = [first |-> frame, level |-> level] BY <1>4
      <4> HIDE DEF frame
      <4>2. frame \in Nat BY <1>9, <4>1
      <4> QED BY <4>1, <4>2 DEF Outputs
    <3>2. Output' = [i \in 1..L |-> Output'[i]] BY <1>4
    <3> HIDE DEF L
    <3> QED BY <1>5, <3>1, <3>2
  <2>2. Converted(Output') \in Seq(Samples)
    <3>1. \A i \in 1..L : ToInt16(Output'[i].level) \in Int
      BY <1>9, ConversionIsClose, RecorderAssumption
    <3>2. \A i \in 1..L : Output'[i].first \in Nat BY <1>9
    <3>3. DOMAIN Output' = 1..L /\ L \in Nat BY <1>5, <1>9
    <3> HIDE DEF L
    <3> QED BY <3>1, <3>2, <3>3 DEF Converted, Samples
  <2>3. /\ CharAudio' \in Seq(Samples)
        /\ Len(CharAudio') >= Len(Converted(Output'))
    <3> DEFINE rest == SubSeq(CharAudio, Len(Converted(Output')) + 1, Len(CharAudio))
    <3>1. CharAudio' = Converted(Output') \o rest
      BY <1>4 DEF OnSpeechAudio, Overwrite
    <3>2. rest \in Seq(Samples) BY <1>2, <2>2 DEF TypeOK
    <3> DEFINE new == Converted(Output')
    <3>3. new \in Seq(Samples) BY <2>2
    <3> HIDE DEF rest, new
    <3>4. new \o rest \in Seq(Samples) /\ Len(new \o rest) >= Len(new)
      BY <3>2, <3>3
    <3> QED BY <3>1, <3>4 DEF new
  <2>4. passed' \in Seq(Samples)
    <3>1. passed' = SubSeq(CharAudio', 1, Len(Output'))
      BY ONLY <1>4 DEF OnSpeechAudio
    <3>2. DOMAIN Converted(Output') = 1..L
      BY ONLY <1>9 DEF Converted
    <3>3. L \in Nat /\ Len(Output') = L BY <1>5, <1>9
    <3> HIDE DEF L
    <3>4. Len(Converted(Output')) = L BY <2>2, <3>2, <3>3
    <3> QED BY <2>3, <3>1, <3>3, <3>4
  <2>5. history' \in [captures : Nat, outputs : Nat, first : Nat]
    <3>1. LastFirst \in Nat
      <4>1. Output # <<>> => Output[Len(Output)] \in Outputs BY <1>2 DEF TypeOK
      <4> QED BY <1>2, <4>1 DEF LastFirst, TypeOK, Outputs
    <3>2. Len(Output) \in Nat BY <1>2 DEF TypeOK
    <3> QED BY <1>2, <1>4, <3>1, <3>2 DEF Remembered, TypeOK
  <2>6. heard' \in Nat /\ opened' \in 0..heard' BY <1>2, <1>8 DEF TypeOK
  <2>7. ub' \in BOOLEAN BY DEF OnAudioCapture
  <2> QED BY <1>2, <1>10, <2>1, <2>3, <2>4, <2>5, <2>6, <2>7 DEF TypeOK
<1>13. FreshAudio'
  <2>1. DOMAIN Buffer' = 1..(N - r) BY <1>10
  <2> HIDE DEF N, r
  <2> QED BY <1>6, <1>10, <2>1 DEF FreshAudio
<1>14. ASSUME NEW i \in Int PROVE Offset(i) \in Int
  BY <1>3, OffsetIsClose
<1>15. L > 0 => Output' # <<>> /\ LastFirst' = NextFirst + Offset(L - 1)
  BY <1>5, <1>9 DEF LastFirst
<1>16. L = 0 => Output' = <<>> /\ LastFirst' = LastFirst /\ r = 0
  BY <1>3, <1>4, <1>5, <1>9, OffsetZero DEF LastFirst, Remembered, RemainingOffset
<1>17. r = Offset(L) BY DEF RemainingOffset
<1>18. LastFirst \in Nat /\ history'.first = LastFirst /\ history'.outputs = Handed
       /\ history'.captures = history.captures + 1
       /\ history.captures \in Nat /\ Handed \in Nat
  <2>1. Output # <<>> => Output[Len(Output)] \in Outputs BY <1>2 DEF TypeOK
  <2>2. Len(Output) \in Nat BY <1>2 DEF TypeOK
  <2> QED
    BY <1>2, <1>4, <2>1, <2>2
       DEF LastFirst, TypeOK, Outputs, Remembered, Handed
<1> HIDE DEF s, N, L, r
<1>19. NextIsEven'
  <2>1. CASE L = 0
    <3>1. NextFirst' = NextFirst /\ LastFirst' = LastFirst
      BY <1>8, <1>11, <1>16, <2>1
    <3> QED BY <1>2, <3>1 DEF NextIsEven, IsStep
  <2>2. CASE L > 0
    <3>1. IsStep(Offset(L) - Offset(L - 1))
      <4>1. L - 1 \in Int /\ (L - 1) + 1 = L BY <1>5
      <4> QED BY <1>3, <4>1, OffsetSteps
    <3>2. NextFirst' - LastFirst' = Offset(L) - Offset(L - 1)
      BY <1>5, <1>8, <1>11, <1>14, <1>15, <1>17, <2>2
    <3>3. LastFirst' # 0
      <4>1. LastFirst' = Output'[L].first /\ L \in 1..L
        BY <1>5, <1>9, <1>15, <2>2 DEF LastFirst
      <4> QED BY <1>9, <4>1
    <3> QED BY <3>1, <3>2, <3>3 DEF NextIsEven, IsStep
  <2> QED BY <1>5, <2>1, <2>2
<1>20. EvenSteps'
  <2>1. ASSUME NEW i \in 1..(L - 1)
        PROVE  IsStep(Output'[i + 1].first - Output'[i].first)
    <3>1. i \in 1..L /\ i + 1 \in 1..L /\ i - 1 \in Int /\ (i - 1) + 1 = i
          /\ (i + 1) - 1 = i
      BY <1>5
    <3>2. IsStep(Offset(i) - Offset(i - 1)) BY <1>3, <3>1, OffsetSteps
    <3>3. /\ Output'[i].first = NextFirst + Offset(i - 1)
          /\ Output'[i + 1].first = NextFirst + Offset(i)
      BY <1>9, <3>1
    <3>4. Output'[i + 1].first - Output'[i].first = Offset(i) - Offset(i - 1)
      BY <1>8, <1>14, <3>1, <3>3
    <3> QED BY <3>2, <3>4
  <2>2. ASSUME Output' # <<>>
        PROVE  IF history'.first = 0 THEN Output'[1].first = opened' + 1
               ELSE IsStep(Output'[1].first - history'.first)
    <3>1. L > 0 BY <1>5, <1>9, <1>16, <2>2
    <3>2. Output'[1].first = NextFirst BY <1>3, <1>5, <1>8, <1>9, <3>1, OffsetZero
    <3> QED BY <1>2, <1>18, <3>2 DEF NextIsEven
  <2> QED BY <1>9, <2>1, <2>2 DEF EvenSteps, IsStep
<1>21. NextIsNear' /\ DriftBounded'
  <2> DEFINE S == SampleRate
             c == history.captures
             p == NextFirst - opened - 1
             near(q, k) == /\ 2 * (S * q - rate * k) <= S
                           /\ -2 * (S * q - rate * k) <= S
             bounded(q, k) == /\ 2 * (S * q - rate * k) <= S * (c + 1)
                              /\ -2 * (S * q - rate * k) <= S * (c + 1)
  <2>1. /\ S \in Nat \ {0} /\ rate \in Nat \ {0} /\ c \in Nat
        /\ p \in Int /\ opened \in Nat /\ Handed \in Nat
    <3>1. S \in Nat \ {0} BY RecorderAssumption
    <3>2. rate \in Nat \ {0} BY <1>3 DEF Opened
    <3>3. opened \in Nat BY <1>2 DEF TypeOK
    <3> QED BY <1>8, <1>18, <3>1, <3>2, <3>3
  <2>2. \A k \in Int : near(Offset(k), k)
    <3> TAKE k \in Int
    <3>1. /\ Offset(k) \in Int
          /\ 2 * (S * Offset(k)) <= 2 * (rate * k) + S
          /\ 2 * (rate * k) < 2 * (S * Offset(k)) + S
      BY <1>3, OffsetIsClose
    <3> DEFINE x == S * Offset(k)
               y == rate * k
    <3>2. x \in Int /\ y \in Int BY <2>1, <3>1
    <3> HIDE DEF x, y, S
    <3>3. 2 * x <= 2 * y + S /\ 2 * y < 2 * x + S BY <3>1 DEF x, y
    <3>4. 2 * (x - y) <= S /\ -2 * (x - y) <= S BY <2>1, <3>2, <3>3
    <3> QED BY <3>4 DEF x, y
  <2>3. 2 * (S * p - rate * Handed) <= S * c /\ -2 * (S * p - rate * Handed) <= S * c
    BY <1>2 DEF NextIsNear, NextDrift
  <2>4. ASSUME NEW k \in Nat PROVE bounded(p + Offset(k), Handed + k)
    <3> DEFINE x == S * p
               y == rate * Handed
               u == S * Offset(k)
               v == rate * k
               w == S * c
    <3>1. Offset(k) \in Int /\ near(Offset(k), k) BY <1>14, <2>2
    <3>2. x \in Int /\ y \in Int /\ u \in Int /\ v \in Int /\ w \in Int
      BY <2>1, <3>1
    <3>3. /\ S * (p + Offset(k)) = x + u /\ rate * (Handed + k) = y + v
          /\ S * (c + 1) = w + S
      BY <2>1, <3>1
    <3>4. 2 * (u - v) <= S /\ -2 * (u - v) <= S BY <3>1
    <3>5. 2 * (x - y) <= w /\ -2 * (x - y) <= w BY <2>3
    <3> HIDE DEF x, y, u, v, w, S
    <3>6. /\ 2 * ((x + u) - (y + v)) <= w + S
          /\ -2 * ((x + u) - (y + v)) <= w + S
      BY <2>1, <3>2, <3>4, <3>5
    <3> QED BY <3>3, <3>6
  <2>5. NextIsNear'
    <3>1. bounded(p + Offset(L), Handed + L) BY <1>5, <2>4
    <3>2. Handed' = Handed + L BY <1>9, <1>18 DEF Handed
    <3>3. NextFirst' - opened' - 1 = p + Offset(L)
      BY <1>5, <1>8, <1>11, <1>14, <1>17, <2>1
    <3>4. NextDrift' = S * (p + Offset(L)) - rate * (Handed + L)
      BY <3>2, <3>3 DEF NextDrift
    <3> QED BY <1>18, <3>1, <3>4 DEF NextIsNear
  <2>6. ASSUME NEW i \in 1..L
        PROVE  LET drift == S * (Output'[i].first - opened' - 1)
                            - rate' * (history'.outputs + i - 1)
               IN  /\ 2 * drift <= S * history'.captures
                   /\ -2 * drift <= S * history'.captures
    <3>1. i - 1 \in Nat BY <1>5
    <3>2. bounded(p + Offset(i - 1), Handed + (i - 1)) BY <2>4, <3>1
    <3>3. Output'[i].first - opened' - 1 = p + Offset(i - 1)
      <4> DEFINE o == Offset(i - 1)
      <4>1. Output'[i].first = NextFirst + o /\ opened' = opened BY <1>9
      <4>2. o \in Int BY <1>14, <3>1
      <4> HIDE DEF o
      <4>3. Output'[i].first - opened' - 1 = p + o
        BY <1>8, <2>1, <4>1, <4>2
      <4> QED BY <4>3 DEF o
    <3>4. history'.outputs + i - 1 = Handed + (i - 1) BY <1>18, <2>1
    <3>5. rate' = rate /\ history'.captures = c + 1 BY <1>18
    <3> DEFINE q == p + Offset(i - 1)
               k == Handed + (i - 1)
    <3>6. bounded(q, k) BY <3>2
    <3> HIDE DEF q, k, S, p, c
    <3> QED BY <3>3, <3>4, <3>5, <3>6 DEF q, k
  <2> QED BY <1>9, <2>5, <2>6 DEF DriftBounded
<1> QED
  BY <1>9, <1>12, <1>13, <1>19, <1>20, <1>21 DEF RecorderInv

(* Every step keeps the invariant.                                         *)
LEMMA NextInv == RecorderInv /\ [Next]_vars => RecorderInv'
<1> SUFFICES ASSUME RecorderInv, [Next]_vars PROVE RecorderInv' OBVIOUS
<1>1. CASE UNCHANGED vars
  BY <1>1
     DEF RecorderInv, vars, streamVars, audioVars, TypeOK, FreshAudio,
         NextIsEven, NextIsNear, LastFirst, NextFirst,
         NextDrift, Handed, IsStep
<1>2. CASE ~ub /\ Start BY <1>2, StartInv
<1>3. CASE ~ub /\ Stop BY <1>3, StopInv
<1>4. CASE ~ub /\ Capture
  <2>1. PICK n \in CaptureSizes, level \in Levels :
          /\ heard' = heard + n
          /\ IF bIsCapturing THEN OnAudioCapture(Buffer \o Frames(n), level)
                             ELSE UNCHANGED <<Buffer, ub, audioVars>>
    BY <1>4 DEF Capture
  <2>2. n \in Nat BY RecorderAssumption
  <2>3. UNCHANGED <<rate, bIsCapturing, opened, recordings>> BY <1>4 DEF Capture
  <2>4. CASE bIsCapturing /\ ~ub'
    BY <1>4, <2>1, <2>2, <2>3, <2>4, ProcessedInv
  <2>5. CASE ~bIsCapturing \/ ub'
    <3>1. UNCHANGED <<Buffer, audioVars>> BY <2>1, <2>5 DEF OnAudioCapture
    <3>2. ub' \in BOOLEAN BY <2>1 DEF OnAudioCapture, RecorderInv, TypeOK
    <3>3. heard \in Nat /\ heard' \in Nat /\ heard' >= heard
      BY <2>1, <2>2 DEF RecorderInv, TypeOK
    <3>4. TypeOK'
      <4>1. Buffer' \in Seq(1..heard') BY <3>1, <3>3 DEF RecorderInv, TypeOK
      <4>2. opened' \in 0..heard' BY <2>3, <3>3 DEF RecorderInv, TypeOK
      <4> QED
        BY <2>3, <3>1, <3>2, <3>3, <4>1, <4>2 DEF RecorderInv, TypeOK, audioVars
    <3>5. FreshAudio'
      BY <2>3, <2>5, <3>1 DEF RecorderInv, FreshAudio
    <3> QED
      BY <2>3, <2>5, <3>1, <3>4, <3>5 DEF RecorderInv, audioVars
  <2> QED BY <2>4, <2>5
<1> QED BY <1>1, <1>2, <1>3, <1>4 DEF Next, Stopped

-----------------------------------------------------------------------------
(* The properties of the output of the last capture are kept by the steps  *)
(* that do not process one.                                                *)
LEMMA KeepsOutput ==
    ASSUME RecorderInv, [Next]_vars
    PROVE  \/ UNCHANGED <<rate, opened, Output, passed, history>>
           \/ Output' = <<>> /\ passed' = <<>>
           \/ /\ RecorderInv' /\ EvenSteps' /\ DriftBounded'
              /\ OnSpeechAudio(Output') /\ Output' \in Seq(Outputs)
<1>1. CASE UNCHANGED vars BY <1>1 DEF vars, streamVars, audioVars
<1>2. CASE ~ub /\ Start
  <2>1. rate # 0 \/ ~bIsCapturing BY DEF RecorderInv, TypeOK
  <2> QED BY <1>2, <2>1 DEF Start
<1>3. CASE ~ub /\ Stop BY <1>3 DEF Stop, audioVars
<1>4. CASE ~ub /\ Capture
  <2>1. PICK n \in CaptureSizes, level \in Levels :
          /\ heard' = heard + n
          /\ IF bIsCapturing THEN OnAudioCapture(Buffer \o Frames(n), level)
                             ELSE UNCHANGED <<Buffer, ub, audioVars>>
    BY <1>4 DEF Capture
  <2>2. n \in Nat BY RecorderAssumption
  <2>3. UNCHANGED <<rate, bIsCapturing, opened, recordings>> BY <1>4 DEF Capture
  <2>4. CASE bIsCapturing /\ ~ub'
    <3>1. RecorderInv' /\ EvenSteps' /\ DriftBounded'
      BY <1>4, <2>1, <2>2, <2>3, <2>4, ProcessedInv
    <3>2. OnSpeechAudio(Output') BY <2>1, <2>4 DEF OnAudioCapture
    <3> QED BY <3>1, <3>2 DEF RecorderInv, TypeOK
  <2>5. CASE ~bIsCapturing \/ ub'
    BY <2>1, <2>3, <2>5 DEF OnAudioCapture, audioVars
  <2> QED BY <2>4, <2>5
<1> QED BY <1>1, <1>2, <1>3, <1>4 DEF Next, Stopped

(* Type correctness: whatever the device delivers, what is buffered has    *)
(* been heard, and every sample that is passed on is a number.             *)
THEOREM RecorderTypes == Spec => []TypeOK
<1>1. RecorderInv => TypeOK BY DEF RecorderInv
<1> QED BY <1>1, InitInv, NextInv, PTL DEF Spec

(* The recorder's Buffer holds the latest frames of this recording, without *)
(* a gap, and nothing while the gate is closed.                            *)
THEOREM AudioIsFresh == Spec => []FreshAudio
<1>1. RecorderInv => FreshAudio BY DEF RecorderInv
<1> QED BY <1>1, InitInv, NextInv, PTL DEF Spec

(* OnAudioCapture stays within its arrays unless a capture is too short    *)
(* for the filter by a whole step.                                         *)
THEOREM ReadsStayInBuffer == Spec => ReadsInBuffer
<1>1. ASSUME RecorderInv, [Next]_vars
      PROVE  [ub' => TooShort(Len(Buffer) + (heard' - heard))]_vars
  <2> SUFFICES ASSUME ub', ~UNCHANGED vars
               PROVE  TooShort(Len(Buffer) + (heard' - heard))
    OBVIOUS
  <2>1. ~ub /\ Capture
    BY <1>1 DEF Next, Stopped, Start, Stop
  <2>2. PICK n \in CaptureSizes, level \in Levels :
          /\ heard' = heard + n
          /\ IF bIsCapturing THEN OnAudioCapture(Buffer \o Frames(n), level)
                             ELSE UNCHANGED <<Buffer, ub, audioVars>>
    BY <2>1 DEF Capture
  <2>3. n \in Nat BY RecorderAssumption
  <2>4. bIsCapturing BY <2>1, <2>2
  <2>5. ~IsDefined(Len(Buffer \o Frames(n))) BY <2>2, <2>4 DEF OnAudioCapture
  <2>6. Len(Buffer \o Frames(n)) = Len(Buffer) + n /\ Len(Buffer) + n \in Nat
    <3>1. Len(Buffer \o Frames(n)) = Len(Buffer) + n
      BY <1>1, <2>1, <2>3, SamplesAreFresh
    <3>2. Len(Buffer) \in Nat BY <1>1 DEF RecorderInv, TypeOK
    <3> QED BY <2>3, <3>1, <3>2
  <2>7. Opened
    BY <1>1, <2>4, RecorderAssumption DEF RecorderInv, TypeOK, Opened
  <2>8. TooShort(Len(Buffer) + n)
    <3> SUFFICES ASSUME ~TooShort(Len(Buffer) + n) PROVE FALSE OBVIOUS
    <3>1. IsDefined(Len(Buffer) + n)
      BY <2>6, <2>7, ResamplerInside DEF IsDefined
    <3> QED BY <2>5, <2>6, <3>1
  <2>9. heard' - heard = n
    BY <1>1, <2>2, <2>3 DEF RecorderInv, TypeOK
  <2> QED BY <2>8, <2>9
<1> QED BY <1>1, InitInv, NextInv, PTL DEF Spec, ReadsInBuffer

(* The output is even: every window starts one step behind the one before, *)
(* within a capture and from one to the next.                              *)
THEOREM StepsAreEven == Spec => []EvenSteps
<1>1. Init => EvenSteps BY DEF Init, EvenSteps
<1>2. ASSUME RecorderInv, EvenSteps, [Next]_vars PROVE EvenSteps'
  <2>1. CASE UNCHANGED <<rate, opened, Output, passed, history>>
    BY <1>2, <2>1 DEF EvenSteps, IsStep
  <2>2. CASE Output' = <<>> BY <2>2 DEF EvenSteps
  <2> QED BY <1>2, <2>1, <2>2, KeepsOutput
<1> QED BY <1>1, <1>2, InitInv, NextInv, PTL DEF Spec

(* The output keeps the device's time to half a frame per capture.         *)
THEOREM DriftIsBounded == Spec => []DriftBounded
<1>1. Init => DriftBounded BY DEF Init, DriftBounded
<1>2. ASSUME RecorderInv, DriftBounded, [Next]_vars PROVE DriftBounded'
  <2>1. CASE UNCHANGED <<rate, opened, Output, passed, history>>
    BY <1>2, <2>1 DEF DriftBounded
  <2>2. CASE Output' = <<>> BY <2>2 DEF DriftBounded
  <2> QED BY <1>2, <2>1, <2>2, KeepsOutput
<1> QED BY <1>1, <1>2, InitInv, NextInv, PTL DEF Spec

(* What OnSpeechAudio passes on is the converted output of the capture.    *)
LEMMA PassedIsConverted ==
    ASSUME RecorderInv, NEW audio \in Seq(Outputs), OnSpeechAudio(audio)
    PROVE  passed' = Converted(audio) /\ Converted(audio) \in Seq(Samples)
<1>1. Len(audio) \in Nat /\ DOMAIN audio = 1..Len(audio) OBVIOUS
<1>2. Converted(audio) \in Seq(Samples) /\ Len(Converted(audio)) = Len(audio)
  <2>1. \A i \in 1..Len(audio) :
           audio[i].first \in Nat /\ ToInt16(audio[i].level) \in Int
    <3> TAKE i \in 1..Len(audio)
    <3>1. audio[i] \in Outputs BY <1>1
    <3>2. audio[i].first \in Nat /\ audio[i].level \in Int
      BY <3>1, RecorderAssumption DEF Outputs
    <3> QED BY <3>2, ConversionIsClose
  <2> QED BY <1>1, <2>1 DEF Converted, Samples
<1> DEFINE rest == SubSeq(CharAudio, Len(Converted(audio)) + 1, Len(CharAudio))
<1>3. rest \in Seq(Samples) BY <1>1, <1>2 DEF RecorderInv, TypeOK
<1>4. passed' = SubSeq(Converted(audio) \o rest, 1, Len(Converted(audio)))
  BY <1>2 DEF OnSpeechAudio, Overwrite
<1> HIDE DEF rest
<1> QED BY <1>2, <1>3, <1>4

(* Exactly the output of a capture is passed on, nothing stale behind it;  *)
(* every sample survives the scaling, clamping and narrowing, for every    *)
(* level and every full scale.                                             *)
THEOREM OutputIsPassed == Spec => []OutputPassed
<1>1. Init => OutputPassed BY DEF Init, OutputPassed
<1>2. ASSUME RecorderInv, OutputPassed, [Next]_vars PROVE OutputPassed'
  <2>1. CASE UNCHANGED <<rate, opened, Output, passed, history>>
    BY <1>2, <2>1 DEF OutputPassed
  <2>2. CASE Output' = <<>> /\ passed' = <<>> BY <2>2 DEF OutputPassed
  <2>3. CASE OnSpeechAudio(Output') /\ Output' \in Seq(Outputs)
    <3>1. passed' = Converted(Output') BY <1>2, <2>3, PassedIsConverted
    <3>2. Len(passed') = Len(Output') /\ DOMAIN passed' = DOMAIN Output'
      BY <2>3, <3>1 DEF Converted
    <3>3. ASSUME NEW i \in DOMAIN Output'
          PROVE  /\ passed'[i].first = Output'[i].first
                 /\ IsClose(passed'[i].value, Output'[i].level)
      <4>1. Output'[i] \in Outputs BY <2>3
      <4>2. Output'[i].level \in Int BY <4>1, RecorderAssumption DEF Outputs
      <4>3. /\ passed'[i].value = ToInt16(Output'[i].level)
            /\ passed'[i].first = Output'[i].first
        BY <3>1 DEF Converted
      <4> QED BY <4>2, <4>3, ConversionIsClose
    <3> QED BY <3>2, <3>3 DEF OutputPassed
  <2> QED BY <1>2, <2>1, <2>2, <2>3, KeepsOutput
<1> QED BY <1>1, <1>2, InitInv, NextInv, PTL DEF Spec
=============================================================================
