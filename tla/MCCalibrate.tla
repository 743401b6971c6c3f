---------------------------- MODULE MCCalibrate ----------------------------
(* Two channels of the calibration for TLC. *)
EXTENDS Calibrate

\* In tolerance, above the target; and far too bright.  Black comes with an
\* empty stream.
MCMeans == {332, 5719}

\* Too dim, and saturated, which is within the tolerance of the target.
MCPeaks == {30000, 65535}

=============================================================================
