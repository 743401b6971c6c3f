----------------------------- MODULE MCAdvance -----------------------------
(***************************************************************************)
(* Advance on three short scripts: one shaped like the captured advance    *)
(* (set-up, motor start, polls, motor stop), one that starts the motor and *)
(* breaks off at a malformed line, and an empty one.                       *)
(***************************************************************************)
EXTENDS Advance

Captured == <<"control", "a0", "host", "a2">>
Damaged  == <<"a0", "badControl", "a2">>

MCScripts == {Captured, Damaged, <<>>}

=============================================================================
