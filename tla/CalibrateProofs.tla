-------------------------- MODULE CalibrateProofs --------------------------
(***************************************************************************)
(* Proofs about Calibrate and its arithmetic, for any number of channels,  *)
(* any levels, any number of iterations and any register writes lost.      *)
(***************************************************************************)
EXTENDS Calibrate, FiniteSetTheorems, TLAPS

(* Arithmetic.                                                             *)

\* The proportional law has a dead band: a dark level within tolerance is
\* never corrected, so that the step taken after the last measurement does no
\* harm to a channel that is in tolerance (pakon_calib_offset_step).
THEOREM DeadBand ==
  ASSUME NEW mean \in Samples, InDarkBand(mean)
  PROVE  OffsetStep(mean) = 0
<1> DEFINE a == (DarkTarget - mean) * 5120
<1>1. mean \in Int /\ mean >= 268 /\ mean <= 332
  BY DEF InDarkBand, Converged, DarkTarget, DarkTol, Samples
<1>2. a \in Int /\ a >= -163840 /\ a <= 163840
  BY <1>1 DEF DarkTarget
<1> HIDE DEF a
<1>3. a >= 0 => a \div 196608 = 0
  BY <1>2
<1>4. a < 0 => (-a) \div 196608 = 0
  BY <1>2
<1>5. Quotient(a, 196608) = 0
  BY <1>2, <1>3, <1>4 DEF Quotient
<1> QED
  BY <1>5 DEF OffsetStep, a

\* The step is a whole number.
LEMMA StepType ==
  ASSUME NEW mean \in Samples
  PROVE  OffsetStep(mean) \in Int
<1> DEFINE a == (DarkTarget - mean) * 5120
<1>1. a \in Int
  BY DEF Samples, DarkTarget
<1> HIDE DEF a
<1>2. Quotient(a, 196608) \in Int
  BY <1>1 DEF Quotient
<1> QED
  BY <1>2 DEF OffsetStep, a

\* A register holds the offset it was given, as far as nine bits of sign and
\* magnitude can: what is beyond 255 either way is lost, while the loop goes
\* on counting (pakon_calib_enc_offset, result->offset).
THEOREM OffsetEncoding ==
  ASSUME NEW offset \in Int
  PROVE  /\ EncOffset(offset) \in OffsetRegs
         /\ DecOffset(EncOffset(offset)) = Clamp(offset, -255, 255)
  BY DEF EncOffset, DecOffset, Clamp, OffsetRegs

\* Gains are limited to their register, and so are gains encoded.
LEMMA GainType ==
  /\ \A g \in Gains, peak \in Samples : GainNext(g, peak) \in Gains
  /\ \A g \in Gains : EncGain(g) = g
<1>1. ASSUME NEW g \in Gains, NEW peak \in Samples
      PROVE  GainNext(g, peak) \in Gains
  <2>1. CASE peak = 0
    BY <2>1 DEF GainNext, Gains, GainMax
  <2>2. CASE peak # 0
    <3> DEFINE d == (64 - g) * peak
               q == (128 * WhiteTarget + d) \div (2 * d)
    <3>1. 64 - g \in Nat \ {0} /\ peak \in Nat \ {0}
      BY <2>2 DEF Gains, GainMax, Samples
    <3>2. d \in Nat \ {0}
      <4>1. \A x, y \in Nat \ {0} : x * y \in Nat \ {0}
        OBVIOUS
      <4> QED
        BY <3>1, <4>1
    <3> HIDE DEF d
    <3>3. q \in Int
      BY <3>2 DEF WhiteTarget
    <3> HIDE DEF q
    <3>4. Clamp(q, 0, GainMax) \in Gains
      BY <3>3 DEF Clamp, Gains, GainMax
    <3> QED
      BY <2>2, <3>4 DEF GainNext, d, q
  <2> QED
    BY <2>1, <2>2
<1> QED
  BY <1>1 DEF EncGain, Clamp, Gains, GainMax

\* Black is in neither band.
LEMMA BlackConvergesNot == ~InDarkBand(0) /\ ~InWhiteBand(0)
  BY DEF InDarkBand, InWhiteBand, Converged, DarkTarget, DarkTol, WhiteTarget

-----------------------------------------------------------------------------
(* Types.                                                                  *)

Result == [offset : Int, gain : Gains, dark : Samples, white : Samples]
Regs   == [gain : Gains, offset : OffsetRegs]

\* Sets of channels are finite.
LEMMA MissedType ==
  ASSUME NEW missed \in SUBSET Channels
  PROVE  Cardinality(missed) \in Nat
  BY CalibrateAssumption, FS_Subset, FS_CardinalityType

\* A write of the gains leaves the offsets alone, and where it was not missed
\* the register holds what was written.
LEMMA ProgramsGainType ==
  ASSUME NEW value, Programs("gain", value), \A k \in Channels : value[k] \in Gains,
         regs \in [Channels -> Regs],
         lost \in [gain : SUBSET Channels, offset : SUBSET Channels], losses \in Nat
  PROVE  /\ regs' \in [Channels -> Regs]
         /\ lost' \in [gain : SUBSET Channels, offset : SUBSET Channels]
         /\ losses' \in Nat
         /\ \A k \in Channels : regs'[k].offset = regs[k].offset
         /\ lost'.offset = lost.offset
         /\ \A k \in Channels \ lost'.gain : regs'[k].gain = value[k]
<1>1. PICK missed \in SUBSET Channels :
        /\ losses' = losses + Cardinality(missed)
        /\ losses + Cardinality(missed) <= MaxLost
        /\ lost' = [lost EXCEPT !["gain"] = missed]
        /\ regs' = [k \in Channels |->
             IF k \in missed THEN regs[k] ELSE [regs[k] EXCEPT !["gain"] = value[k]]]
  BY DEF Programs
<1>2. lost' \in [gain : SUBSET Channels, offset : SUBSET Channels]
      /\ lost'.gain = missed /\ lost'.offset = lost.offset
  BY <1>1
<1>3. ASSUME NEW k \in Channels
      PROVE  /\ regs'[k] \in Regs
             /\ regs'[k].offset = regs[k].offset
             /\ k \notin missed => regs'[k].gain = value[k]
  BY <1>1 DEF Regs
<1>4. regs' \in [Channels -> Regs]
  BY <1>1, <1>3
<1>5. losses' \in Nat
  BY <1>1, MissedType
<1> QED
  BY <1>2, <1>3, <1>4, <1>5

\* And the other way round.
LEMMA ProgramsOffsetType ==
  ASSUME NEW value, Programs("offset", value), \A k \in Channels : value[k] \in OffsetRegs,
         regs \in [Channels -> Regs],
         lost \in [gain : SUBSET Channels, offset : SUBSET Channels], losses \in Nat
  PROVE  /\ regs' \in [Channels -> Regs]
         /\ lost' \in [gain : SUBSET Channels, offset : SUBSET Channels]
         /\ losses' \in Nat
         /\ \A k \in Channels : regs'[k].gain = regs[k].gain
         /\ lost'.gain = lost.gain
         /\ \A k \in Channels \ lost'.offset : regs'[k].offset = value[k]
<1>1. PICK missed \in SUBSET Channels :
        /\ losses' = losses + Cardinality(missed)
        /\ losses + Cardinality(missed) <= MaxLost
        /\ lost' = [lost EXCEPT !["offset"] = missed]
        /\ regs' = [k \in Channels |->
             IF k \in missed THEN regs[k] ELSE [regs[k] EXCEPT !["offset"] = value[k]]]
  BY DEF Programs
<1>2. lost' \in [gain : SUBSET Channels, offset : SUBSET Channels]
      /\ lost'.offset = missed /\ lost'.gain = lost.gain
  BY <1>1
<1>3. ASSUME NEW k \in Channels
      PROVE  /\ regs'[k] \in Regs
             /\ regs'[k].gain = regs[k].gain
             /\ k \notin missed => regs'[k].offset = value[k]
  BY <1>1 DEF Regs
<1>4. regs' \in [Channels -> Regs]
  BY <1>1, <1>3
<1>5. losses' \in Nat
  BY <1>1, MissedType
<1> QED
  BY <1>2, <1>3, <1>4, <1>5

\* One write of the gains and one of the offsets: what the code asks for is
\* within the registers.
LEMMA WrittenTypes ==
  /\ EncGain(0) \in Gains
  /\ \A g \in Gains : EncGain(g) \in Gains
  /\ \A o \in Int : EncOffset(o) \in OffsetRegs
<1>1. 0 \in Gains
  BY DEF Gains, GainMax
<1> QED
  BY <1>1, GainType, OffsetEncoding

\* Measured levels are samples.
LEMMA MeasurementsType ==
  ASSUME NEW levels \in SUBSET Samples, NEW m \in Measurements(levels)
  PROVE  /\ m \in [Channels -> Samples]
         /\ total = 0 => \A k \in Channels : m[k] = 0
<1>1. 0 \in Samples
  BY DEF Samples
<1> QED
  BY <1>1 DEF Measurements

\* Every variable keeps its type.
THEOREM TypeCorrect == Spec => []TypeOK
<1>1. Init => TypeOK
  <2> SUFFICES ASSUME Init PROVE TypeOK
    OBVIOUS
  <2>1. 0 \in Gains /\ 0 \in Samples /\ 0 \in Int
    BY DEF Gains, GainMax, Samples
  <2>2. result \in [Channels -> Result]
    BY <2>1 DEF Init, NoResult, Result
  <2>3. PICK left \in {[gain |-> 0, offset |-> EncOffset(0)],
                       [gain |-> EncGain(13), offset |-> EncOffset(-38)]} :
          regs = [k \in Channels |-> left]
    BY DEF Init
  <2>4. 13 \in Gains /\ EncOffset(0) \in OffsetRegs /\ EncOffset(-38) \in OffsetRegs
    BY OffsetEncoding DEF Gains, GainMax
  <2>5. left \in Regs
    BY <2>1, <2>3, <2>4, GainType DEF Regs
  <2>6. regs \in [Channels -> Regs]
    BY <2>3, <2>5
  <2>7. total \in 0 .. NLines
    BY CalibrateAssumption DEF Init
  <2> QED
    BY <2>1, <2>2, <2>6, <2>7 DEF Init, TypeOK, Result, Regs, Phases
<1>2. TypeOK /\ [Next]_vars => TypeOK'
  <2> SUFFICES ASSUME TypeOK, [Next]_vars PROVE TypeOK'
    OBVIOUS
  <2>a. 0 \in Gains /\ 0 \in Samples /\ 0 \in 0 .. NLines
    <3>1. 0 \in Gains /\ 0 \in Samples
      BY DEF Gains, GainMax, Samples
    <3>2. 0 \in 0 .. NLines
      BY CalibrateAssumption
    <3> QED
      BY <3>1, <3>2
  <2>1. /\ result \in [Channels -> Result] /\ regs \in [Channels -> Regs]
        /\ gain \in [Channels -> Gains] /\ conv \in [Channels -> BOOLEAN]
        /\ it \in Nat /\ total \in 0 .. NLines /\ empties \in Nat /\ losses \in Nat
        /\ 0 \in Gains /\ 0 \in Samples /\ 0 \in 0 .. NLines
        /\ lost \in [gain : SUBSET Channels, offset : SUBSET Channels]
    BY <2>a DEF TypeOK, Result, Regs
  <2>2. CASE StartFails
    BY <2>2 DEF StartFails, TypeOK, device
  <2>3. CASE Opens
    BY <2>3 DEF Opens, TypeOK, host, device
  <2>4. CASE SetupDark
    <3> DEFINE value == [k \in Channels |-> EncGain(0)]
    <3>1. Programs("gain", value) /\ \A k \in Channels : value[k] \in Gains
      BY <2>4, WrittenTypes DEF SetupDark
    <3>2. /\ regs' \in [Channels -> Regs] /\ losses' \in Nat
          /\ lost' \in [gain : SUBSET Channels, offset : SUBSET Channels]
      <4> HIDE DEF value
      <4> QED
        BY <2>1, <3>1, ProgramsGainType
    <3>3. result' \in [Channels -> Result]
      BY <2>1, <2>4 DEF SetupDark, NoResult, OffsetInit, Result
    <3> QED
      BY <2>4, <3>2, <3>3 DEF SetupDark, TypeOK, Regs, Result
  <2>5. CASE WriteOffsets
    <3> DEFINE value == [k \in Channels |-> EncOffset(result[k].offset)]
    <3>1. \A k \in Channels : result[k].offset \in Int
      BY <2>1 DEF Result
    <3>2. Programs("offset", value) /\ \A k \in Channels : value[k] \in OffsetRegs
      BY <2>5, <3>1, WrittenTypes DEF WriteOffsets
    <3>3. /\ regs' \in [Channels -> Regs] /\ losses' \in Nat
          /\ lost' \in [gain : SUBSET Channels, offset : SUBSET Channels]
      <4> HIDE DEF value
      <4> QED
        BY <2>1, <3>2, ProgramsOffsetType
    <3> QED
      BY <2>5, <3>3 DEF WriteOffsets, TypeOK, Regs
  <2>6. CASE SetupGain
    BY <2>1, <2>6 DEF SetupGain, TypeOK, device
  <2>7. CASE WriteGains
    <3> DEFINE value == [k \in Channels |-> EncGain(gain[k])]
    <3>1. Programs("gain", value) /\ \A k \in Channels : value[k] \in Gains
      BY <2>1, <2>7, WrittenTypes DEF WriteGains
    <3>2. /\ regs' \in [Channels -> Regs] /\ losses' \in Nat
          /\ lost' \in [gain : SUBSET Channels, offset : SUBSET Channels]
      <4> HIDE DEF value
      <4> QED
        BY <2>1, <3>1, ProgramsGainType
    <3> QED
      BY <2>7, <3>2 DEF WriteGains, TypeOK, Regs
  <2>8. CASE Acquire
    <3>1. total' \in 0 .. NLines /\ empties' \in Nat /\ pc' \in {"measure", "acquire"}
      BY <2>1, <2>8, CalibrateAssumption DEF Acquire
    <3>2. sawLine' \in BOOLEAN
      BY <2>8 DEF Acquire, TypeOK
    <3> QED
      BY <2>8, <3>1, <3>2 DEF Acquire, TypeOK, device
  <2>9. CASE MeasureDark
    <3>1. PICK mean \in Measurements(Means) :
            /\ conv' = [k \in Channels |-> conv[k] \/ InDarkBand(mean[k])]
            /\ result' = [k \in Channels |->
                 [result[k] EXCEPT !.offset = @ + OffsetStep(mean[k]), !.dark = mean[k]]]
            /\ it' = it + 1
            /\ \/ /\ pc' = "setup" /\ phase' = "warm"
                  /\ converged' = [converged EXCEPT !.dark = \A k \in Channels : conv'[k]]
                  /\ sawLine' = FALSE
               \/ pc' = "write" /\ UNCHANGED <<phase, converged, sawLine>>
      BY <2>9 DEF MeasureDark
    <3>2. \A k \in Channels : mean[k] \in Samples /\ OffsetStep(mean[k]) \in Int
      BY CalibrateAssumption, MeasurementsType, StepType
    <3>3. result' \in [Channels -> Result]
      <4>1. ASSUME NEW k \in Channels
            PROVE  [result[k] EXCEPT !.offset = @ + OffsetStep(mean[k]), !.dark = mean[k]]
                     \in Result
        <5> DEFINE step == OffsetStep(mean[k])
        <5>1. step \in Int /\ mean[k] \in Samples /\ result[k] \in Result
          BY <2>1, <3>2
        <5> HIDE DEF step
        <5>2. result[k].offset \in Int /\ result[k].offset + step \in Int
          BY <5>1 DEF Result
        <5> QED
          BY <5>1, <5>2 DEF Result, step
      <4> QED
        BY <3>1, <4>1
    <3>4. conv' \in [Channels -> BOOLEAN]
      BY <3>1, Zenon
    <3>5. (\A k \in Channels : conv'[k]) \in BOOLEAN
      BY Zenon
    <3>6. converged' \in [dark : BOOLEAN, gain : BOOLEAN]
      BY <3>1, <3>5 DEF TypeOK
    <3>7. /\ pc' \in {"setup", "write"} /\ phase' \in Phases /\ it' \in Nat
          /\ sawLine' \in BOOLEAN
      <4>1. \/ pc' = "setup" /\ phase' = "warm" /\ sawLine' = FALSE
            \/ pc' = "write" /\ phase' = phase /\ sawLine' = sawLine
        BY <3>1, Zenon
      <4>2. it' = it + 1
        BY <3>1, Zenon
      <4>3. sawLine' \in BOOLEAN
        BY <4>1, Zenon DEF TypeOK
      <4>4. phase' \in Phases
        BY <4>1, Zenon DEF TypeOK, Phases
      <4> QED
        BY <2>1, <4>1, <4>2, <4>3, <4>4
    <3> QED
      BY <2>1, <2>9, <3>3, <3>4, <3>6, <3>7
         DEF MeasureDark, EndsAcquire, TypeOK, Result, device
  <2>10. CASE MeasureWarm
    <3>1. /\ pc' \in {"write", "acquire"} /\ phase' \in Phases /\ it' \in Nat
      BY <2>1, <2>10 DEF MeasureWarm, TypeOK, Phases
    <3> QED
      BY <2>1, <2>10, <3>1 DEF MeasureWarm, EndsAcquire, TypeOK, device
  <2>11. CASE MeasureGain
    <3>1. PICK peak \in Measurements(Peaks) :
            /\ conv' = [k \in Channels |-> conv[k] \/ InWhiteBand(peak[k])]
            /\ result' = [k \in Channels |->
                 [result[k] EXCEPT !.gain = gain[k], !.white = peak[k]]]
            /\ \/ gain' = gain
               \/ gain' = [k \in Channels |-> GainNext(gain[k], peak[k])]
            /\ it' = it + 1
            /\ \/ /\ pc' = "exited" /\ rc' = "ok"
                  /\ converged' = [converged EXCEPT !.gain = \A k \in Channels : conv'[k]]
               \/ pc' = "write" /\ UNCHANGED <<rc, converged>>
      BY <2>11 DEF MeasureGain
    <3>2. \A k \in Channels : peak[k] \in Samples
      BY CalibrateAssumption, MeasurementsType
    <3>3. result' \in [Channels -> Result]
      <4>1. ASSUME NEW k \in Channels
            PROVE  [result[k] EXCEPT !.gain = gain[k], !.white = peak[k]] \in Result
        BY <2>1, <3>2 DEF Result
      <4> QED
        BY <3>1, <4>1
    <3>4. gain' \in [Channels -> Gains]
      <4>1. \A k \in Channels : GainNext(gain[k], peak[k]) \in Gains
        BY <2>1, <3>2, GainType
      <4> QED
        BY <2>1, <3>1, <4>1, Zenon
    <3>5. conv' \in [Channels -> BOOLEAN]
      BY <3>1, Zenon
    <3>6. (\A k \in Channels : conv'[k]) \in BOOLEAN
      BY Zenon
    <3>7. converged' \in [dark : BOOLEAN, gain : BOOLEAN]
      BY <3>1, <3>6 DEF TypeOK
    <3>8. pc' \in {"exited", "write"} /\ it' \in Nat /\ rc' \in {"running", "ok", "failed"}
      <4>1. \/ pc' = "exited" /\ rc' = "ok"
            \/ pc' = "write" /\ rc' = rc
        BY <3>1, Zenon
      <4>2. it' = it + 1
        BY <3>1, Zenon
      <4> QED
        BY <2>1, <4>1, <4>2 DEF TypeOK
    <3> QED
      BY <2>1, <2>11, <3>3, <3>4, <3>5, <3>7, <3>8
         DEF MeasureGain, EndsAcquire, TypeOK, Result, device
  <2>12. CASE UNCHANGED vars
    BY <2>12 DEF vars, host, device, TypeOK
  <2> QED
    BY <2>2, <2>3, <2>4, <2>5, <2>6, <2>7, <2>8, <2>9, <2>10, <2>11, <2>12 DEF Next
<1> QED
  BY <1>1, <1>2, PTL DEF Spec

-----------------------------------------------------------------------------
(* Safety.  Each invariant says what the registers, or the flags, are in    *)
(* relation to the host's variables at the points where the code is between *)
(* writing them and measuring with them.                                    *)

\* What is in the buffer was read in this phase, and a flag is set only on
\* what was read, until the phase ends.
SawInv ==
  /\ total > 0 => sawLine
  /\ pc # "setup" => \A k \in Channels : conv[k] => sawLine

\* No channel converges in a phase in which nothing was read.
THEOREM ConvergesOnData == Spec => []NoDataNoConvergence
<1>1. Init => SawInv
  <2>1. Init => /\ ~(total > 0)
                /\ conv = [k \in Channels |-> FALSE]
    BY DEF Init
  <2> QED
    BY <2>1, Zenon DEF SawInv
<1>2. TypeOK /\ SawInv /\ [Next]_vars => SawInv'
  <2> SUFFICES ASSUME TypeOK, SawInv, [Next]_vars PROVE SawInv'
    OBVIOUS
  <2>1. CASE StartFails \/ Opens \/ WriteOffsets \/ WriteGains
    BY <2>1, Zenon
       DEF SawInv, StartFails, Opens, WriteOffsets, WriteGains, device, host
  <2>2. CASE SetupDark \/ SetupGain
    <3>1. total' = total /\ sawLine' = sawLine /\ \A k \in Channels : ~conv'[k]
      BY <2>2 DEF SetupDark, SetupGain
    <3> QED
      BY <3>1, Zenon DEF SawInv
  <2>3. CASE Acquire
    <3>1. PICK got \in 0 .. NLines - total :
            /\ total' = total + got
            /\ sawLine' = (sawLine \/ got > 0)
      BY <2>3 DEF Acquire
    <3>2. total' > 0 => total > 0 \/ got > 0
      BY <3>1, CalibrateAssumption DEF TypeOK
    <3>3. conv' = conv /\ pc # "setup"
      BY <2>3 DEF Acquire
    <3> QED
      BY <3>1, <3>2, <3>3, Zenon DEF SawInv
  <2>4. CASE MeasureWarm
    <3>1. total' = 0 /\ ~(total' > 0) /\ conv' = conv /\ sawLine' = sawLine /\ pc # "setup"
      BY <2>4 DEF MeasureWarm, EndsAcquire
    <3> QED
      BY <3>1, Zenon DEF SawInv
  <2>5. CASE MeasureDark
    <3>1. PICK mean \in Measurements(Means) :
            /\ conv' = [k \in Channels |-> conv[k] \/ InDarkBand(mean[k])]
            /\ \/ pc' = "setup"
               \/ sawLine' = sawLine
      BY <2>5, Zenon DEF MeasureDark
    <3>2. ASSUME NEW k \in Channels, conv'[k], sawLine' = sawLine
          PROVE  sawLine'
      <4>1. conv[k] \/ InDarkBand(mean[k])
        BY <3>1, <3>2, Zenon
      <4>2. CASE conv[k]
        BY <2>5, <3>2, <4>2, Zenon DEF SawInv, MeasureDark
      <4>3. CASE InDarkBand(mean[k])
        <5>1. mean[k] # 0
          BY <4>3, BlackConvergesNot, Zenon
        <5>2. total # 0
          BY <3>1, <5>1, CalibrateAssumption, MeasurementsType
        <5>3. total > 0
          BY <5>2 DEF TypeOK
        <5> QED
          BY <3>2, <5>3, Zenon DEF SawInv
      <4> QED
        BY <4>1, <4>2, <4>3
    <3>3. ~(total' > 0)
      <4>1. total' = 0
        BY <2>5, Zenon DEF MeasureDark, EndsAcquire
      <4> QED
        BY <4>1
    <3> QED
      BY <3>1, <3>2, <3>3, Zenon DEF SawInv
  <2>6. CASE MeasureGain
    <3>1. PICK peak \in Measurements(Peaks) :
            conv' = [k \in Channels |-> conv[k] \/ InWhiteBand(peak[k])]
      BY <2>6, Zenon DEF MeasureGain
    <3>2. ASSUME NEW k \in Channels, conv'[k]
          PROVE  sawLine
      <4>1. conv[k] \/ InWhiteBand(peak[k])
        BY <3>1, <3>2, Zenon
      <4>2. CASE conv[k]
        BY <2>6, <4>2, Zenon DEF SawInv, MeasureGain
      <4>3. CASE InWhiteBand(peak[k])
        <5>1. peak[k] # 0
          BY <4>3, BlackConvergesNot, Zenon
        <5>2. total # 0
          BY <3>1, <5>1, CalibrateAssumption, MeasurementsType
        <5>3. total > 0
          BY <5>2 DEF TypeOK
        <5> QED
          BY <5>3, Zenon DEF SawInv
      <4> QED
        BY <4>1, <4>2, <4>3
    <3>3. ~(total' > 0) /\ sawLine' = sawLine
      <4>1. total' = 0 /\ sawLine' = sawLine
        BY <2>6, Zenon DEF MeasureGain, EndsAcquire
      <4> QED
        BY <4>1
    <3> QED
      BY <3>2, <3>3, Zenon DEF SawInv
  <2>7. CASE UNCHANGED vars
    BY <2>7, Zenon DEF SawInv, vars, host, device
  <2> QED
    BY <2>1, <2>2, <2>3, <2>4, <2>5, <2>6, <2>7 DEF Next
<1>3. SawInv => NoDataNoConvergence
  BY Zenon DEF SawInv, NoDataNoConvergence
<1> QED
  BY <1>1, <1>2, <1>3, TypeCorrect, PTL DEF Spec

\* While the gains are measured with, and once they are reported, the gain
\* register of a channel holds the gain the host has for it.
GainInv ==
  /\ rc = "ok" => pc = "exited"
  /\ phase = "gain" /\ pc \in {"acquire", "measure"} =>
       \A k \in Channels \ lost.gain : regs[k].gain = EncGain(gain[k])
  /\ ReportedGain

\* The gain reported is the gain applied.
THEOREM GainReported == Spec => []ReportedGain
<1>1. Init => GainInv
  BY DEF Init, GainInv, ReportedGain
<1>2. TypeOK /\ GainInv /\ [Next]_vars => GainInv'
  <2> SUFFICES ASSUME TypeOK, GainInv, [Next]_vars PROVE GainInv'
    OBVIOUS
  <2>1. /\ regs \in [Channels -> Regs] /\ losses \in Nat /\ gain \in [Channels -> Gains]
        /\ lost \in [gain : SUBSET Channels, offset : SUBSET Channels]
    BY DEF TypeOK, Regs
  <2>2. CASE StartFails \/ Opens
    BY <2>2 DEF StartFails, Opens, GainInv, ReportedGain, host, device
  <2>3. CASE SetupDark \/ WriteOffsets
    <3>1. pc' \in {"write", "acquire"} /\ rc' = rc /\ pc # "exited" /\ phase' = phase
          /\ phase = "dark"
      BY <2>3 DEF SetupDark, WriteOffsets
    <3> QED
      BY <3>1 DEF GainInv, ReportedGain
  <2>4. CASE SetupGain \/ MeasureWarm
    <3>1. /\ pc' \in {"write", "acquire"} /\ rc' = rc /\ pc # "exited"
          /\ phase = "warm" /\ (phase' = "warm" \/ pc' = "write" \/ phase' = phase)
      BY <2>4 DEF SetupGain, MeasureWarm
    <3> QED
      BY <3>1 DEF GainInv, ReportedGain
  <2>5. CASE WriteGains
    <3> DEFINE value == [k \in Channels |-> EncGain(gain[k])]
    <3>1. Programs("gain", value) /\ \A k \in Channels : value[k] \in Gains
      BY <2>1, <2>5, WrittenTypes DEF WriteGains
    <3>2. \A k \in Channels \ lost'.gain : regs'[k].gain = value[k]
      <4> HIDE DEF value
      <4> QED
        BY <2>1, <3>1, ProgramsGainType
    <3>3. gain' = gain /\ rc' = rc /\ pc = "write" /\ pc' = "acquire"
      BY <2>5 DEF WriteGains
    <3> QED
      BY <3>2, <3>3 DEF GainInv, ReportedGain
  <2>6. CASE Acquire
    <3>1. /\ pc = "acquire" /\ pc' \in {"measure", "acquire"}
          /\ UNCHANGED <<phase, gain, rc, regs, lost>>
      BY <2>6 DEF Acquire, device
    <3> QED
      BY <3>1 DEF GainInv, ReportedGain
  <2>7. CASE MeasureDark
    <3>1. pc' \in {"setup", "write"} /\ rc' = rc /\ pc # "exited"
      BY <2>7, Zenon DEF MeasureDark
    <3> QED
      BY <3>1 DEF GainInv, ReportedGain
  <2>8. CASE MeasureGain
    <3>1. PICK peak \in Measurements(Peaks) :
            /\ result' = [k \in Channels |->
                 [result[k] EXCEPT !.gain = gain[k], !.white = peak[k]]]
            /\ \/ pc' = "exited" /\ rc' = "ok"
               \/ pc' = "write" /\ rc' = rc
      BY <2>8 DEF MeasureGain
    <3>2. \A k \in Channels : result[k] \in Result
      BY DEF TypeOK, Result
    <3>3. \A k \in Channels : result'[k].gain = gain[k]
      BY <3>1, <3>2 DEF Result
    <3>4. pc = "measure" /\ phase = "gain" /\ regs' = regs /\ lost' = lost
      BY <2>8, Zenon DEF MeasureGain, device
    <3>5. \A k \in Channels \ lost.gain : regs[k].gain = EncGain(gain[k])
      BY <3>4 DEF GainInv
    <3>6. ReportedGain'
      BY <3>3, <3>4, <3>5 DEF ReportedGain
    <3>7. pc' \notin {"acquire", "measure"} /\ (rc' = "ok" => pc' = "exited")
      BY <3>1, <3>4 DEF GainInv
    <3> QED
      BY <3>6, <3>7 DEF GainInv
  <2>9. CASE UNCHANGED vars
    BY <2>9 DEF vars, host, device, GainInv, ReportedGain
  <2> QED
    BY <2>2, <2>3, <2>4, <2>5, <2>6, <2>7, <2>8, <2>9 DEF Next
<1>3. GainInv => ReportedGain
  BY DEF GainInv
<1> QED
  BY <1>1, <1>2, <1>3, TypeCorrect, PTL DEF Spec

\* While the offsets are measured with, the offset register of a channel holds
\* the offset the host has for it; from the last measurement on it lags by the
\* step that was taken on that measurement.
OffsetInv ==
  /\ rc = "ok" => phase = "gain"
  /\ phase = "dark" /\ pc \in {"acquire", "measure"} =>
       \A k \in Channels \ lost.offset : regs[k].offset = EncOffset(result[k].offset)
  /\ phase # "dark" =>
       \A k \in Channels \ lost.offset :
         regs[k].offset = EncOffset(result[k].offset - OffsetStep(result[k].dark))

\* What stands in the offset register is what is reported less the step of the
\* last measurement; for a channel in tolerance it is what is reported.
THEOREM OffsetApplied == Spec => []InBandApplied
<1>1. Init => OffsetInv
  BY DEF Init, OffsetInv
<1>2. TypeOK /\ OffsetInv /\ [Next]_vars => OffsetInv'
  <2> SUFFICES ASSUME TypeOK, OffsetInv, [Next]_vars PROVE OffsetInv'
    OBVIOUS
  <2>1. /\ regs \in [Channels -> Regs] /\ losses \in Nat /\ gain \in [Channels -> Gains]
        /\ lost \in [gain : SUBSET Channels, offset : SUBSET Channels]
        /\ \A k \in Channels : result[k] \in Result
    BY DEF TypeOK, Regs, Result
  <2>2. CASE StartFails \/ Opens
    <3>1. /\ UNCHANGED <<phase, regs, lost, result>> /\ pc' \in {"exited", "setup"}
          /\ rc' \in {rc, "failed"}
      BY <2>2 DEF StartFails, Opens, host, device
    <3> QED
      BY <3>1 DEF OffsetInv
  <2>3. CASE SetupDark
    <3>1. pc' = "write" /\ rc' = rc /\ phase' = phase /\ phase = "dark"
      BY <2>3 DEF SetupDark
    <3> QED
      BY <3>1 DEF OffsetInv
  <2>4. CASE SetupGain
    <3>1. pc' = "acquire" /\ phase = "warm" /\ UNCHANGED <<phase, rc, regs, lost, result>>
      BY <2>4 DEF SetupGain, device
    <3> QED
      BY <3>1 DEF OffsetInv
  <2>5. CASE WriteOffsets
    <3> DEFINE value == [k \in Channels |-> EncOffset(result[k].offset)]
    <3>1. \A k \in Channels : result[k].offset \in Int
      BY <2>1 DEF Result
    <3>2. Programs("offset", value) /\ \A k \in Channels : value[k] \in OffsetRegs
      BY <2>5, <3>1, WrittenTypes DEF WriteOffsets
    <3>3. \A k \in Channels \ lost'.offset : regs'[k].offset = value[k]
      <4> HIDE DEF value
      <4> QED
        BY <2>1, <3>2, ProgramsOffsetType
    <3>4. UNCHANGED <<phase, rc, result>> /\ phase = "dark"
      BY <2>5 DEF WriteOffsets
    <3> QED
      BY <3>3, <3>4 DEF OffsetInv
  <2>6. CASE WriteGains
    <3> DEFINE value == [k \in Channels |-> EncGain(gain[k])]
    <3>1. Programs("gain", value) /\ \A k \in Channels : value[k] \in Gains
      BY <2>1, <2>6, WrittenTypes DEF WriteGains
    <3>2. lost'.offset = lost.offset /\ \A k \in Channels : regs'[k].offset = regs[k].offset
      <4> HIDE DEF value
      <4> QED
        BY <2>1, <3>1, ProgramsGainType
    <3>3. UNCHANGED <<phase, rc, result>> /\ phase = "gain"
      BY <2>6 DEF WriteGains
    <3> QED
      BY <3>2, <3>3 DEF OffsetInv
  <2>7. CASE Acquire
    <3>1. pc = "acquire" /\ UNCHANGED <<phase, rc, result, regs, lost>>
      BY <2>7 DEF Acquire, device
    <3> QED
      BY <3>1 DEF OffsetInv
  <2>8. CASE MeasureDark
    <3>1. PICK mean \in Measurements(Means) :
            /\ result' = [k \in Channels |->
                 [result[k] EXCEPT !.offset = @ + OffsetStep(mean[k]), !.dark = mean[k]]]
            /\ \/ pc' = "setup" /\ phase' = "warm"
               \/ pc' = "write" /\ phase' = phase
      BY <2>8 DEF MeasureDark
    <3>2. pc = "measure" /\ phase = "dark" /\ regs' = regs /\ lost' = lost /\ rc' = rc
      BY <2>8, Zenon DEF MeasureDark, device
    <3>3. ASSUME NEW k \in Channels
          PROVE  result'[k].offset - OffsetStep(result'[k].dark) = result[k].offset
      <4>1. mean[k] \in Samples /\ OffsetStep(mean[k]) \in Int /\ result[k].offset \in Int
        BY <2>1, <3>1, CalibrateAssumption, MeasurementsType, StepType DEF Result
      <4>2. /\ result'[k].offset = result[k].offset + OffsetStep(mean[k])
            /\ result'[k].dark = mean[k]
        BY <2>1, <3>1 DEF Result
      <4> QED
        BY <4>1, <4>2
    <3>4. \A k \in Channels \ lost.offset : regs[k].offset = EncOffset(result[k].offset)
      BY <3>2 DEF OffsetInv
    <3> QED
      BY <3>1, <3>2, <3>3, <3>4 DEF OffsetInv
  <2>9. CASE MeasureWarm
    <3>1. phase = "warm" /\ phase' \in {"warm", "gain"} /\ UNCHANGED <<rc, result, regs, lost>>
      BY <2>9 DEF MeasureWarm, device
    <3> QED
      BY <3>1 DEF OffsetInv
  <2>10. CASE MeasureGain
    <3>1. PICK peak \in Measurements(Peaks) :
            result' = [k \in Channels |->
              [result[k] EXCEPT !.gain = gain[k], !.white = peak[k]]]
      BY <2>10, Zenon DEF MeasureGain
    <3>2. \A k \in Channels :
            result'[k].offset = result[k].offset /\ result'[k].dark = result[k].dark
      BY <2>1, <3>1 DEF Result
    <3>3. phase = "gain" /\ UNCHANGED <<phase, regs, lost>>
      BY <2>10, Zenon DEF MeasureGain, device
    <3> QED
      BY <3>2, <3>3 DEF OffsetInv
  <2>11. CASE UNCHANGED vars
    BY <2>11 DEF vars, host, device, OffsetInv
  <2> QED
    BY <2>2, <2>3, <2>4, <2>5, <2>6, <2>7, <2>8, <2>9, <2>10, <2>11 DEF Next
<1>3. TypeOK /\ OffsetInv => InBandApplied
  <2> SUFFICES ASSUME TypeOK, OffsetInv, rc = "ok", NEW k \in Channels \ lost.offset
               PROVE  /\ regs[k].offset =
                           EncOffset(result[k].offset - OffsetStep(result[k].dark))
                      /\ InDarkBand(result[k].dark) =>
                           regs[k].offset = EncOffset(result[k].offset)
    BY Zenon DEF InBandApplied
  <2>1. regs[k].offset = EncOffset(result[k].offset - OffsetStep(result[k].dark))
    BY DEF OffsetInv
  <2>2. result[k].offset \in Int /\ result[k].dark \in Samples
    BY DEF TypeOK, Result
  <2>3. InDarkBand(result[k].dark) => result[k].offset - OffsetStep(result[k].dark)
                                        = result[k].offset
    BY <2>2, DeadBand
  <2> QED
    BY <2>1, <2>3
<1> QED
  BY <1>1, <1>2, <1>3, TypeCorrect, PTL DEF Spec

=============================================================================
