---------------------------- MODULE MCScanReplay ----------------------------
(***************************************************************************)
(* ScanReplay on three short scripts: one shaped like the captures in      *)
(* resources/ (a pre-scan read, the motor start, the roll, the teardown    *)
(* tail with a last readout start in it), one that breaks off at a         *)
(* malformed line while the motor runs and has another in its tail, and    *)
(* one whose tail stops nothing.                                           *)
(***************************************************************************)
EXTENDS ScanReplay

Captured == <<"readoutStart", "read", "motorStart",
              "read", "read", "read", "read",
              "control", "readoutStart", "readoutStop", "motorStop", "cmd">>
Damaged  == <<"readoutStart", "motorStart", "read", "read", "read", "badControl",
              "read", "readoutStop", "badCmd", "motorStop">>
Untailed == <<"motorStart", "readoutStart", "read", "read", "read">>

MCScripts == {Captured, Damaged, Untailed}

\* Open gate: three quarters white, the IR band is not.  Film: lit, not white.
\* Leader: dark.  A one-byte read has no sample at all.
OpenGate == [samples |-> 8, white |-> 6, lit |-> 8]
Frame    == [samples |-> 8, white |-> 0, lit |-> 7]
Leader   == [samples |-> 8, white |-> 0, lit |-> 0]
OneByte  == [samples |-> 0, white |-> 0, lit |-> 0]

MCChunks == {OpenGate, Frame, Leader, OneByte}

=============================================================================
