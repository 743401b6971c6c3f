----------------------------- MODULE Calibrate -----------------------------
(***************************************************************************)
(* `pakon_replay --calibrate`: do_calibrate (tools/pakon_replay.c) and     *)
(* pakon_calib_run (src/pakon_calib.c).  The host writes the analogue      *)
(* front end's gain and offset registers, reads lines of the open gate,    *)
(* and corrects the registers by what it measured: offsets at gain 0 until *)
(* the dark level is right, then gains until the white level is.  The      *)
(* result of a register write is not looked at, so what the host believes  *)
(* programmed and what the device holds may part.                          *)
(***************************************************************************)
EXTENDS CalibMath, FiniteSets

CONSTANTS
  Channels,     \* the colour channels: R, G, B
  Means,        \* dark levels a channel may show
  Peaks,        \* white levels a channel may show
  DarkIters,    \* PAKON_CALIB_DARK_ITERS: 8 in the code
  GainIters,    \* PAKON_CALIB_GAIN_ITERS: 4 in the code
  NLines,       \* parts an acquisition may arrive in
  MaxEmpties,   \* empty reads in a row that an acquisition bears: 4 in the code
  MaxLost       \* bound: register writes the device does not take

WarmupMax == 2  \* PAKON_CALIB_WARMUP_MAX

ASSUME CalibrateAssumption ==
  /\ Means \subseteq Samples /\ Peaks \subseteq Samples
  /\ DarkIters \in Nat \ {0} /\ GainIters \in Nat \ {0}
  /\ NLines \in Nat \ {0} /\ MaxEmpties \in Nat /\ MaxLost \in Nat
  /\ IsFiniteSet(Channels)

VARIABLES
  pc,          \* "start", "setup", "write", "acquire", "measure" or "exited"
  phase,       \* "dark", "warm" or "gain"
  it,          \* iteration of the phase
  total,       \* parts read in this acquisition
  empties,     \* empty reads in a row
  conv,        \* conv[k] of the phase
  gain,        \* the local gain[k] of the gain phase
  result,      \* *result, per channel
  converged,   \* result->offset_converged and gain_converged
  rc,          \* exit code
  regs,        \* device: gain and offset register of each channel
  lost,        \* history: channels whose last gain or offset write the device did not take
  losses,      \* history: writes lost so far
  sawLine      \* history: something was read in this phase

host   == <<phase, it, total, empties, conv, gain, result, converged, rc>>
device == <<regs, lost, losses>>
vars   == <<pc, host, device, sawLine>>

NoResult == [offset |-> 0, gain |-> 0, dark |-> 0, white |-> 0]

Init ==
  /\ pc = "start" /\ phase = "dark" /\ it = 0 /\ total = 0 /\ empties = 0
  /\ conv = [k \in Channels |-> FALSE]
  /\ gain = [k \in Channels |-> 0]
  /\ result = [k \in Channels |-> NoResult]
  /\ converged = [dark |-> FALSE, gain |-> FALSE]
  /\ rc = "running"
  /\ \E left \in {[gain |-> 0, offset |-> EncOffset(0)],
                  [gain |-> EncGain(13), offset |-> EncOffset(-38)]} :
       regs = [k \in Channels |-> left]
  /\ lost = [gain |-> {}, offset |-> {}] /\ losses = 0 /\ sawLine = FALSE

-----------------------------------------------------------------------------
(* Register writes.  Three commands in a row, one per channel.  A write is *)
(* lost when the command does not arrive and when the device refuses it;   *)
(* the host goes on in either case.                                        *)

Programs(r, value) ==
  \E missed \in SUBSET Channels :
    /\ losses + Cardinality(missed) <= MaxLost
    /\ losses' = losses + Cardinality(missed)
    /\ lost' = [lost EXCEPT ![r] = missed]
    /\ regs' = [k \in Channels |->
                  IF k \in missed THEN regs[k] ELSE [regs[k] EXCEPT ![r] = value[k]]]

-----------------------------------------------------------------------------
(* Start.                                                                  *)

\* No USB, no device, its interface cannot be claimed, or the prelude cannot
\* be opened.
StartFails ==
  /\ pc = "start"
  /\ pc' = "exited" /\ rc' = "failed"
  /\ UNCHANGED <<phase, it, total, empties, conv, gain, result, converged, device, sawLine>>

\* The open handshake, or a prelude; what they leave in the registers is in
\* Init.  Their failures are ignored.
Opens ==
  /\ pc = "start"
  /\ pc' = "setup"
  /\ UNCHANGED <<host, device, sawLine>>

\* Gain 0 on every channel, and the first guess of the offsets.
SetupDark ==
  /\ pc = "setup" /\ phase = "dark"
  /\ Programs("gain", [k \in Channels |-> EncGain(0)])
  /\ result' = [k \in Channels |-> [NoResult EXCEPT !.offset = OffsetInit]]
  /\ conv' = [k \in Channels |-> FALSE]
  /\ it' = 0
  /\ pc' = "write"
  /\ UNCHANGED <<phase, total, empties, gain, converged, rc, sawLine>>

\* Variant: the gain phase keeps the flags of the dark phase.
SetupGainKeepsFlags ==
  /\ pc = "setup" /\ phase = "warm"
  /\ pc' = "acquire"
  /\ gain' = [k \in Channels |-> 0]
  /\ it' = 0
  /\ UNCHANGED <<phase, total, empties, conv, result, converged, rc, device, sawLine>>

\* Exposures and control bits (no property looks at them), then the stream is
\* primed.
SetupGain ==
  /\ pc = "setup" /\ phase = "warm"
  /\ pc' = "acquire"
  /\ gain' = [k \in Channels |-> 0] /\ conv' = [k \in Channels |-> FALSE]
  /\ it' = 0
  /\ UNCHANGED <<phase, total, empties, result, converged, rc, device, sawLine>>

-----------------------------------------------------------------------------
(* One iteration.                                                          *)

WriteOffsets ==
  /\ pc = "write" /\ phase = "dark"
  /\ Programs("offset", [k \in Channels |-> EncOffset(result[k].offset)])
  /\ pc' = "acquire"
  /\ UNCHANGED <<phase, it, total, empties, conv, gain, result, converged, rc, sawLine>>

WriteGains ==
  /\ pc = "write" /\ phase = "gain"
  /\ Programs("gain", [k \in Channels |-> EncGain(gain[k])])
  /\ pc' = "acquire"
  /\ UNCHANGED <<phase, it, total, empties, conv, gain, result, converged, rc, sawLine>>

\* A kick and a read.  The read may return nothing, less than was asked for,
\* or a hard error, with or without data.
Acquire ==
  /\ pc = "acquire"
  /\ \E got \in 0 .. NLines - total, broken \in BOOLEAN :
       /\ total' = total + got
       /\ empties' = IF got > 0 THEN 0 ELSE empties + 1
       /\ sawLine' = (sawLine \/ got > 0)
       /\ pc' = IF total' = NLines \/ empties' > MaxEmpties \/ broken
                THEN "measure" ELSE "acquire"
  /\ UNCHANGED <<phase, it, conv, gain, result, converged, rc, device>>

\* What calib_measure finds: zero when nothing was read.  A part that is too
\* short for the column window gives zero as well, which Means and Peaks may
\* contain.
Measurements(levels) == [Channels -> IF total = 0 THEN {0} ELSE levels]

EndsAcquire == total' = 0 /\ empties' = 0

\* Variant: the proportional step is taken in floor division.
MeasureDarkFloor ==
  /\ pc = "measure" /\ phase = "dark"
  /\ \E mean \in Measurements(Means) :
       /\ conv' = [k \in Channels |-> conv[k] \/ InDarkBand(mean[k])]
       /\ result' = [k \in Channels |->
            [result[k] EXCEPT !.offset = @ + OffsetStepFloor(mean[k]), !.dark = mean[k]]]
       /\ it' = it + 1
       /\ IF it' = DarkIters \/ \A k \in Channels : InDarkBand(mean[k])
          THEN /\ pc' = "setup" /\ phase' = "warm"
               /\ converged' = [converged EXCEPT !.dark = \A k \in Channels : conv'[k]]
               /\ sawLine' = FALSE
          ELSE pc' = "write" /\ UNCHANGED <<phase, converged, sawLine>>
  /\ EndsAcquire
  /\ UNCHANGED <<gain, rc, device>>

\* The offset is stepped after every measurement, the last one included.
MeasureDark ==
  /\ pc = "measure" /\ phase = "dark"
  /\ \E mean \in Measurements(Means) :
       /\ conv' = [k \in Channels |-> conv[k] \/ InDarkBand(mean[k])]
       /\ result' = [k \in Channels |->
            [result[k] EXCEPT !.offset = @ + OffsetStep(mean[k]), !.dark = mean[k]]]
       /\ it' = it + 1
       /\ IF it' = DarkIters \/ \A k \in Channels : InDarkBand(mean[k])
          THEN /\ pc' = "setup" /\ phase' = "warm"
               /\ converged' = [converged EXCEPT !.dark = \A k \in Channels : conv'[k]]
               /\ sawLine' = FALSE
          ELSE pc' = "write" /\ UNCHANGED <<phase, converged, sawLine>>
  /\ EndsAcquire
  /\ UNCHANGED <<gain, rc, device>>

\* Variant: rounds that bring nothing are not counted.
MeasureWarmUntilLit ==
  /\ pc = "measure" /\ phase = "warm"
  /\ EndsAcquire
  /\ \/ /\ total > 0
        /\ phase' = "gain" /\ pc' = "write" /\ it' = 0
     \/ /\ total = 0
        /\ pc' = "acquire" /\ UNCHANGED <<it, phase>>
  /\ UNCHANGED <<conv, gain, result, converged, rc, device, sawLine>>

\* A bright enough level ends the priming early; it is not used for anything
\* else.
MeasureWarm ==
  /\ pc = "measure" /\ phase = "warm"
  /\ EndsAcquire
  /\ \/ /\ it + 1 = WarmupMax \/ total > 0
        /\ phase' = "gain" /\ pc' = "write" /\ it' = 0
     \/ /\ it + 1 < WarmupMax
        /\ pc' = "acquire" /\ it' = it + 1 /\ UNCHANGED phase
  /\ UNCHANGED <<conv, gain, result, converged, rc, device, sawLine>>

\* Variant: the gain is stepped before it is reported, as the offset is.
MeasureGainStepsFirst ==
  /\ pc = "measure" /\ phase = "gain"
  /\ \E peak \in Measurements(Peaks) :
       /\ conv' = [k \in Channels |-> conv[k] \/ InWhiteBand(peak[k])]
       /\ gain' = [k \in Channels |-> GainNext(gain[k], peak[k])]
       /\ result' = [k \in Channels |->
            [result[k] EXCEPT !.gain = gain'[k], !.white = peak[k]]]
       /\ it' = it + 1
       /\ IF it' = GainIters \/ \A k \in Channels : InWhiteBand(peak[k])
          THEN /\ pc' = "exited" /\ rc' = "ok"
               /\ converged' = [converged EXCEPT !.gain = \A k \in Channels : conv'[k]]
          ELSE pc' = "write" /\ UNCHANGED <<rc, converged>>
  /\ EndsAcquire
  /\ UNCHANGED <<phase, device, sawLine>>

\* Unlike the offset, the gain is reported before it is stepped.
MeasureGain ==
  /\ pc = "measure" /\ phase = "gain"
  /\ \E peak \in Measurements(Peaks) :
       LET all == \A k \in Channels : InWhiteBand(peak[k])
       IN  /\ conv' = [k \in Channels |-> conv[k] \/ InWhiteBand(peak[k])]
           /\ result' = [k \in Channels |->
                [result[k] EXCEPT !.gain = gain[k], !.white = peak[k]]]
           /\ gain' = IF all THEN gain
                      ELSE [k \in Channels |-> GainNext(gain[k], peak[k])]
           /\ it' = it + 1
           /\ IF it' = GainIters \/ all
              THEN /\ pc' = "exited" /\ rc' = "ok"
                   /\ converged' = [converged EXCEPT !.gain = \A k \in Channels : conv'[k]]
              ELSE pc' = "write" /\ UNCHANGED <<rc, converged>>
  /\ EndsAcquire
  /\ UNCHANGED <<phase, device, sawLine>>

-----------------------------------------------------------------------------

Next ==
  \/ StartFails \/ Opens
  \/ SetupDark \/ WriteOffsets \/ SetupGain \/ WriteGains
  \/ Acquire
  \/ MeasureDark \/ MeasureWarm \/ MeasureGain

\* Every call returns: transfers carry a timeout.
Spec == Init /\ [][Next]_vars /\ WF_vars(Next)

-----------------------------------------------------------------------------
(* Properties.                                                             *)

Phases == {"dark", "warm", "gain"}

\* Every variable has its type; the gain stays within its register.
TypeOK ==
  /\ pc \in {"start", "setup", "write", "acquire", "measure", "exited"}
  /\ phase \in Phases
  /\ it \in Nat /\ total \in 0 .. NLines /\ empties \in Nat
  /\ conv \in [Channels -> BOOLEAN]
  /\ gain \in [Channels -> Gains]
  /\ result \in [Channels -> [offset : Int, gain : Gains,
                              dark : Samples, white : Samples]]
  /\ converged \in [dark : BOOLEAN, gain : BOOLEAN]
  /\ rc \in {"running", "ok", "failed"}
  /\ regs \in [Channels -> [gain : Gains, offset : OffsetRegs]]
  /\ lost \in [gain : SUBSET Channels, offset : SUBSET Channels]
  /\ losses \in Nat
  /\ sawLine \in BOOLEAN

\* The gains printed are the ones the front end is left with, and the white
\* level printed was measured at them: for every channel but those whose last
\* gain write was lost (calib_write_reg's result is ignored).
ReportedGain ==
  rc = "ok" => \A k \in Channels \ lost.gain : regs[k].gain = EncGain(result[k].gain)

\* The offset printed was stepped once more after it was written (calib.h:
\* "applied offset"): it is ahead of the register by the step of the dark
\* level printed beside it.  When that level is within tolerance the step is
\* nothing, and the offset printed is the one applied.
InBandApplied ==
  rc = "ok" =>
    \A k \in Channels \ lost.offset :
      LET r == result[k]
      IN  /\ regs[k].offset = EncOffset(r.offset - OffsetStep(r.dark))
          /\ InDarkBand(r.dark) => regs[k].offset = EncOffset(r.offset)

\* No channel counts as converged in a phase in which the scanner produced
\* nothing: neither on an empty buffer, nor on what an earlier phase found.
NoDataNoConvergence ==
  (\E k \in Channels : conv[k]) /\ pc # "setup" => sawLine

\* A calibration ends, whatever the stream does: bursts, silence, and silence
\* after a burst.
Terminates == <>(pc = "exited")

=============================================================================
