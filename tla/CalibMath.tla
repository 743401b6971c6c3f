----------------------------- MODULE CalibMath -----------------------------
(***************************************************************************)
(* The arithmetic of the driven calibration (src/pakon_calib.c): register  *)
(* encoders, the convergence test, and the two feedback laws.  Constant-   *)
(* level operators on the integers.  The C code computes the gain law in   *)
(* doubles; here it is the exact quotient, k = 1/64 being a binary         *)
(* fraction.                                                               *)
(***************************************************************************)
EXTENDS Integers, Sequences

DarkTarget  == 300       \* PAKON_CALIB_DARK_TARGET
DarkTol     == 32        \* PAKON_CALIB_DARK_TOL
OffsetInit  == 100       \* PAKON_CALIB_OFFSET_INIT
WhiteTarget == 64000     \* PAKON_CALIB_WHITE_TARGET
WhiteTolHi  == 2048      \* PAKON_CALIB_WHITE_TOL_HI
GainMax     == 63        \* PAKON_CALIB_GAIN_MAX

Samples == 0 .. 65535    \* a 16-bit sample of the image stream
Gains   == 0 .. GainMax
OffsetRegs == 0 .. 511

-----------------------------------------------------------------------------
(* Register encoders.                                                      *)

Clamp(v, lo, hi) == IF v < lo THEN lo ELSE IF v > hi THEN hi ELSE v

EncGain(gain)         == Clamp(gain, 0, GainMax)
EncExposure(exposure) == Clamp(exposure, 0, 4095)

\* Sign and magnitude: bit 8 set for a negative offset.
EncOffset(offset) ==
  IF offset < 0 THEN 256 + Clamp(-offset, 0, 255) ELSE Clamp(offset, 0, 255)

\* The offset such a register value stands for.
DecOffset(reg) == IF reg >= 256 THEN 256 - reg ELSE reg

-----------------------------------------------------------------------------
(* Feedback.                                                               *)

Converged(meas, target, tolLo, tolHi) ==
  /\ meas >= IF target > tolLo THEN target - tolLo ELSE 0
  /\ meas <= target + tolHi

InDarkBand(mean)  == Converged(mean, DarkTarget, DarkTol, DarkTol)
InWhiteBand(peak) == Converged(peak, WhiteTarget, 0, WhiteTolHi)

\* Division of C: towards zero.
Quotient(a, b) == IF a >= 0 THEN a \div b ELSE -((-a) \div b)

\* err * 0x1400 / 0x30000.
OffsetStep(mean) == Quotient((DarkTarget - mean) * 5120, 196608)

\* Variant: the proportional law in floor division, as >> would compute it.
OffsetStepFloor(mean) == ((DarkTarget - mean) * 5120) \div 196608

\* Variant: the next gain is not limited to its register.
GainNextUnlimited(gain, peak) ==
  IF peak = 0 THEN GainMax
  ELSE LET d == (64 - gain) * peak
       IN  (128 * WhiteTarget + d) \div (2 * d)

\* pakon_calib_gain_next(pakon_calib_gain_factor(gain), peak): the factor
\* always belongs to the gain that is programmed (1.0 to gain 0), so that
\* factor * 64000 / peak + 0.5 is (64 * 64000) / ((64 - gain) * peak) + 1/2.
GainNext(gain, peak) ==
  IF peak = 0 THEN GainMax
  ELSE LET d == (64 - gain) * peak
       IN  Clamp((128 * WhiteTarget + d) \div (2 * d), 0, GainMax)

-----------------------------------------------------------------------------
(* pakon_calib_configure with pakon_calib_default_config: the registers in *)
(* the order they are programmed, timing bank (0x82) before AFE (0x84).    *)

Write(bank, reg, value) == [bank |-> bank, reg |-> reg, value |-> value]

DefaultConfig ==
  << Write(130, 0, 352), Write(130, 1, EncExposure(0)), Write(130, 2, EncExposure(0)),
     Write(130, 3, EncExposure(0)), Write(130, 4, 43), Write(130, 5, 2043),
     Write(130, 6, 3098), Write(130, 9, 31), Write(130, 10, 1024),
     Write(132, 0, 120), Write(132, 1, 128),
     Write(132, 2, EncGain(13)), Write(132, 3, EncGain(13)), Write(132, 4, EncGain(13)),
     Write(132, 5, EncOffset(-38)), Write(132, 6, EncOffset(-31)),
     Write(132, 7, EncOffset(-31)) >>

=============================================================================
