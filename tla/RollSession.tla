---------------------------- MODULE RollSession ----------------------------
(***************************************************************************)
(* What a scan of one roll promises, whichever loop runs it.  A session    *)
(* that opens starts an empty image and rolls: it commands the engines and *)
(* collects chunks.  Once it decides that the roll has ended it only       *)
(* commands the engines: nothing more is written.  Collecting what the     *)
(* device still buffers moves no engine.  A session that completes on a    *)
(* trusted script leaves running only engines whose stop was missed.       *)
(***************************************************************************)
EXTENDS Integers, Sequences

VARIABLES
  stage,     \* "off", "rolling", "stopping" or "draining"
  outcome,   \* of the last session: "complete", "failed", "killed"; "none" meanwhile
  trusted,   \* the session's script ends by stopping the engines
  engines,   \* the engines that run
  missed,    \* the engines whose latest stop did not reach the device
  file       \* the chunks of the image

vars == <<stage, outcome, trusted, engines, missed, file>>

Init ==
  /\ stage = "off" /\ outcome = "complete" /\ trusted \in BOOLEAN
  /\ engines = {} /\ missed = {} /\ file = <<>>

Grows == file' = file \/ \E k \in {"white", "film", "dim"} : file' = Append(file, k)

Begin ==
  /\ stage = "off" /\ stage' = "rolling" /\ outcome' = "none"
  /\ trusted' \in BOOLEAN /\ missed' = {} /\ file' = <<>>
  /\ UNCHANGED engines

Reject ==
  /\ stage = "off" /\ outcome' = "failed"
  /\ UNCHANGED <<stage, trusted, engines, missed, file>>

\* A command, or a read.
Command ==
  /\ engines' \in SUBSET {"readout", "motor"}
  /\ missed' \in SUBSET {"readout", "motor"}
  /\ UNCHANGED <<stage, outcome, trusted, file>>

Collect == Grows /\ UNCHANGED <<stage, outcome, trusted, engines, missed>>

RollOn == stage = "rolling" /\ (Command \/ Collect)

\* The end of the roll is decided on a chunk, the last one written.
EndRoll ==
  /\ stage = "rolling" /\ stage' = "stopping"
  /\ Grows
  /\ UNCHANGED <<outcome, trusted, engines, missed>>

Settle == stage = "stopping" /\ Command

BeginDrain ==
  /\ stage = "rolling" /\ stage' = "draining"
  /\ trusted => engines \subseteq missed
  /\ UNCHANGED <<outcome, trusted, engines, missed, file>>

DrainOn == stage = "draining" /\ Collect

Complete ==
  /\ stage # "off" /\ stage' = "off" /\ outcome' = "complete"
  /\ \/ stage = "draining" /\ Grows
     \/ UNCHANGED file
  /\ engines' \in SUBSET {"readout", "motor"}
  /\ missed' \in SUBSET {"readout", "motor"}
  /\ trusted => engines' \subseteq missed'
  /\ UNCHANGED trusted

GiveUp ==
  /\ stage = "rolling" /\ stage' = "off" /\ outcome' = "failed"
  /\ UNCHANGED <<trusted, engines, missed, file>>

Die ==
  /\ stage # "off" /\ stage' = "off" /\ outcome' = "killed"
  /\ \E n \in 0 .. Len(file) : file' = SubSeq(file, 1, n)
  /\ UNCHANGED <<trusted, engines, missed>>

Next ==
  \/ Begin \/ Reject \/ RollOn \/ EndRoll \/ Settle
  \/ BeginDrain \/ DrainOn \/ Complete \/ GiveUp \/ Die

Spec == Init /\ [][Next]_vars

=============================================================================
