---------------------------- MODULE MCDrivenScan ----------------------------
(***************************************************************************)
(* DrivenScan on four short scripts: one shaped like the captures, one     *)
(* that ends at its last read (no tail), one without a read or a motor     *)
(* start, and one that breaks off in the setup.                            *)
(***************************************************************************)
EXTENDS DrivenScan

Captured == <<"readoutStart", "read", "motorStart", "read", "read",
              "readoutStart", "badCmd", "readoutStop", "motorStop", "control">>
Tailless == <<"motorStart", "readoutStart", "read">>
NoReads  == <<"readoutStart", "control">>
Damaged  == <<"motorStart", "badControl", "read", "readoutStop", "motorStop">>

MCScripts == {Captured, Tailless, NoReads, Damaged}

OpenGate == [samples |-> 8, white |-> 6, lit |-> 8]
Frame    == [samples |-> 8, white |-> 0, lit |-> 7]
Leader   == [samples |-> 8, white |-> 0, lit |-> 0]

MCChunks == {OpenGate, Frame, Leader}

=============================================================================
