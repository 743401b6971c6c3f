------------------------------ MODULE Advance ------------------------------
(***************************************************************************)
(* do_advance of tools/pakon_replay.c: `pakon_replay script --steps N      *)
(* --limit SEC` replays a script of commands and then moves the film N     *)
(* frames on.  A step is a0 (start the motor), HOST polls until one says   *)
(* PS_SUCCESS (frame in position), a2 (stop the motor).  Every command     *)
(* goes through CmdChannel to the scanner, which serves it in its own time *)
(* and keeps its state when the process ends.                              *)
(***************************************************************************)
EXTENDS CmdChannel

CONSTANTS
  Scripts,      \* the scripts a session may be given: sequences of Lines
  MaxSteps,     \* bound: --steps
  MaxPolls,     \* HOST polls of one step (5000 in the code)
  MaxSessions   \* bound: sessions a behaviour runs one after the other

Commands == {"a0", "a2", "host", "other"}
Lines    == Commands \cup {"control", "badCmd", "badControl"}
Statuses == {"success", "busy"}

ASSUME AdvanceAssumption ==
  /\ Scripts \subseteq Seq(Lines)
  /\ MaxSteps \in Nat
  /\ MaxPolls \in Nat \ {0}
  /\ MaxSessions \in Nat

VARIABLES
  pc,          \* where the process is; "exited" when none runs
  script, pos, \* the script, and the line fgets returns next
  rc,          \* "ok" (0), "failed" (1) or "killed"
  want,        \* steps_count
  steps,       \* steps counted as done
  polls,       \* HOST polls of this step that were answered
  limited,     \* limit_sec > 0
  timeUp,      \* limit_sec seconds have passed since the first step
  motor,       \* device: the film is being moved
  inPlace,     \* device: the next frame has arrived
  clean,       \* history: the session began with the channel quiet
  seen,        \* history: this step's polling ended on PS_SUCCESS
  short,       \* history: a step was counted whose frame was not in position
  sessions     \* history: sessions started

args     == <<script, want, limited, clean, sessions>>
progress == <<pos, rc, steps, polls, seen, short>>
device   == <<motor, inPlace>>
vars     == <<channel, pc, progress, timeUp, device, args>>

Init ==
  /\ ChannelInit
  /\ pc = "exited" /\ script = <<>> /\ pos = 1 /\ rc = "ok"
  /\ want = 0 /\ steps = 0 /\ polls = 0 /\ limited = FALSE /\ timeUp = FALSE
  /\ motor = FALSE /\ inPlace = FALSE
  /\ clean = FALSE /\ seen = FALSE /\ short = FALSE /\ sessions = 0

-----------------------------------------------------------------------------
(* The process: opening, and the replay of the script.                     *)

Start ==
  /\ pc = "exited" /\ sessions < MaxSessions
  /\ sessions' = sessions + 1
  /\ script' \in Scripts /\ want' \in 0 .. MaxSteps /\ limited' \in BOOLEAN
  /\ pc' = "script" /\ pos' = 1 /\ rc' = "ok" /\ steps' = 0 /\ polls' = 0
  /\ timeUp' = FALSE /\ seen' = FALSE /\ short' = FALSE
  /\ clean' = Quiet
  /\ awaiting' = FALSE /\ errs' = FALSE
  /\ UNCHANGED <<requests, replies, device>>

\* No script, no USB, no device, or its interface cannot be claimed.
StartFails ==
  /\ pc = "exited" /\ sessions < MaxSessions
  /\ sessions' = sessions + 1 /\ rc' = "failed"
  /\ UNCHANGED <<channel, pc, pos, steps, polls, seen, short, timeUp, device,
                 script, want, limited, clean>>

AtLine(ls) == pc = "script" /\ pos <= Len(script) /\ script[pos] \in ls

NextLine == pos' = pos + 1 /\ UNCHANGED <<pc, rc, steps, polls, seen, short, timeUp, device, args>>

CommandLine ==
  /\ AtLine(Commands)
  /\ \/ Sends(script[pos]) /\ UNCHANGED <<pc, progress, timeUp, device, args>>
     \/ SendFails(script[pos]) /\ NextLine
     \/ (\E st \in Statuses : Receives(st)) /\ NextLine
     \/ ReceiveFails /\ NextLine

ControlLine ==
  /\ AtLine({"control"})
  /\ errs' \in {errs, TRUE}
  /\ NextLine
  /\ UNCHANGED <<awaiting, requests, replies>>

BadLine ==
  /\ AtLine({"badCmd", "badControl"})
  /\ pc' = "exited" /\ rc' = "failed"
  /\ UNCHANGED <<channel, pos, steps, polls, seen, short, timeUp, device, args>>

ScriptEnds ==
  /\ pc = "script" /\ pos > Len(script)
  /\ pc' = "check"
  /\ UNCHANGED <<channel, progress, timeUp, device, args>>

-----------------------------------------------------------------------------
(* The steps.  The time limit is looked at before each of them.            *)

NextStep ==
  /\ pc = "check" /\ steps < want /\ ~(limited /\ timeUp)
  /\ pc' = "a0" /\ polls' = 0 /\ seen' = FALSE
  /\ UNCHANGED <<channel, pos, rc, steps, short, timeUp, device, args>>

OutOfTime ==
  /\ pc = "check" /\ steps < want /\ limited /\ timeUp
  /\ pc' = "exited" /\ rc' = "failed"
  /\ UNCHANGED <<channel, pos, steps, polls, seen, short, timeUp, device, args>>

Done ==
  /\ pc = "check" /\ steps = want
  /\ pc' = "exited" /\ rc' = IF errs THEN "failed" ELSE "ok"
  /\ UNCHANGED <<channel, pos, steps, polls, seen, short, timeUp, device, args>>

\* Variant: the motor start is sent without a buffer for its reply, which
\* pakon_cmd then does not read.
StartMotorNoReply ==
  /\ pc = "a0" /\ Pending < EndpointCap
  /\ requests' = Append(requests, "a0")
  /\ pc' = "poll"
  /\ UNCHANGED <<awaiting, replies, errs, progress, timeUp, device, args>>

StartMotor ==
  /\ pc = "a0"
  /\ \/ Sends("a0") /\ UNCHANGED <<pc, rc>>
     \/ (\E st \in Statuses : Receives(st)) /\ pc' = "poll" /\ UNCHANGED rc
     \/ (SendFails("a0") \/ ReceiveFails) /\ pc' = "exited" /\ rc' = "failed"
  /\ UNCHANGED <<pos, steps, polls, seen, short, timeUp, device, args>>

Poll ==
  /\ pc = "poll"
  /\ \/ Sends("host") /\ UNCHANGED pc
     \/ (SendFails("host") \/ ReceiveFails) /\ pc' = "a2"
  /\ UNCHANGED <<progress, timeUp, device, args>>

\* Variant: the polls are not counted.
PollAnsweredUncounted ==
  /\ pc = "poll"
  /\ \E st \in Statuses :
       /\ Receives(st)
       /\ seen' = (st = "success")
       /\ pc' = IF st = "success" THEN "a2" ELSE "poll"
  /\ UNCHANGED <<pos, rc, steps, polls, short, timeUp, device, args>>

\* Variant: one poll too many.
PollAnsweredOneMore ==
  /\ pc = "poll"
  /\ \E st \in Statuses :
       /\ Receives(st)
       /\ seen' = (st = "success")
       /\ polls' = polls + 1
       /\ pc' = IF st = "success" \/ polls' > MaxPolls THEN "a2" ELSE "poll"
  /\ UNCHANGED <<pos, rc, steps, short, timeUp, device, args>>

\* Variant: the motor is not stopped when the polls run out.
PollAnsweredNoStop ==
  /\ pc = "poll"
  /\ \E st \in Statuses :
       /\ Receives(st)
       /\ seen' = (st = "success")
       /\ polls' = polls + 1
       /\ IF st = "busy" /\ polls' = MaxPolls
          THEN pc' = "check" /\ steps' = steps + 1
          ELSE pc' = (IF st = "success" THEN "a2" ELSE "poll") /\ UNCHANGED steps
  /\ UNCHANGED <<pos, rc, short, timeUp, device, args>>

PollAnswered ==
  /\ pc = "poll"
  /\ \E st \in Statuses :
       /\ Receives(st)
       /\ seen' = (st = "success")
       /\ polls' = polls + 1
       /\ pc' = IF st = "success" \/ polls' = MaxPolls THEN "a2" ELSE "poll"
  /\ UNCHANGED <<pos, rc, steps, short, timeUp, device, args>>

\* Whatever becomes of the a2, the step counts.
StopMotor ==
  /\ pc = "a2"
  /\ \/ Sends("a2") /\ UNCHANGED <<pc, steps, short>>
     \/ /\ SendFails("a2") \/ ReceiveFails \/ \E st \in Statuses : Receives(st)
        /\ pc' = "check"
        /\ steps' = steps + 1
        /\ short' = (short \/ ~inPlace)
  /\ UNCHANGED <<pos, rc, polls, seen, timeUp, device, args>>

-----------------------------------------------------------------------------
(* The rest of the world.                                                  *)

\* A killed process leaves the device with what it was sent.
Killed ==
  /\ pc # "exited"
  /\ pc' = "exited" /\ rc' = "killed" /\ awaiting' = FALSE
  /\ UNCHANGED <<requests, replies, errs, pos, steps, polls, seen, short, timeUp,
                 device, args>>

TimePasses ==
  /\ pc \in {"check", "a0", "poll", "a2"} /\ limited /\ ~timeUp
  /\ timeUp' = TRUE
  /\ UNCHANGED <<channel, pc, progress, device, args>>

Arrives ==
  /\ motor /\ ~inPlace
  /\ inPlace' = TRUE
  /\ UNCHANGED <<channel, pc, progress, timeUp, motor, args>>

\* HOST says busy while the film moves and success once the frame is there;
\* what else the scanner answers is not looked at.
ServeCommand ==
  /\ \E cmd \in Commands, st \in Statuses :
       /\ Serves(cmd, st)
       /\ cmd = "host" /\ motor => st = IF inPlace THEN "success" ELSE "busy"
       /\ motor' = (cmd = "a0" \/ (motor /\ cmd # "a2"))
       /\ inPlace' = (inPlace /\ cmd # "a0")
  /\ UNCHANGED <<pc, progress, timeUp, args>>

Proceed ==
  \/ CommandLine \/ ControlLine \/ BadLine \/ ScriptEnds
  \/ NextStep \/ OutOfTime \/ Done
  \/ StartMotor \/ Poll \/ PollAnswered \/ StopMotor

Next ==
  \/ Start \/ StartFails \/ Proceed
  \/ Killed \/ TimePasses \/ Arrives \/ ServeCommand

\* Every call the process makes returns; the scanner promises nothing.
Spec == Init /\ [][Next]_vars /\ WF_vars(Proceed)

-----------------------------------------------------------------------------
(* Properties.                                                             *)

ProcessTypeOK ==
  /\ pc \in {"exited", "script", "check", "a0", "poll", "a2"}
  /\ script \in Scripts \cup {<<>>}
  /\ pos \in 1 .. Len(script) + 1
  /\ rc \in {"ok", "failed", "killed"}
  /\ want \in 0 .. MaxSteps /\ steps \in 0 .. want
  /\ pc \in {"a0", "poll", "a2"} => steps < want
  /\ polls \in 0 .. MaxPolls
  /\ pc = "a0" => polls = 0
  /\ pc = "poll" => polls < MaxPolls
  /\ limited \in BOOLEAN /\ timeUp \in BOOLEAN
  /\ motor \in BOOLEAN /\ inPlace \in BOOLEAN
  /\ clean \in BOOLEAN /\ seen \in BOOLEAN /\ short \in BOOLEAN
  /\ sessions \in 0 .. MaxSessions

TypeOK == ChannelTypeOK(Commands, Statuses) /\ ProcessTypeOK

\* As long as no transfer failed, the reply a recv waits for is the only one
\* there is, so that it answers the command just sent although nobody looks at
\* what it answers; and a session that exits 0 leaves none behind for the next.
InStep ==
  /\ pc # "exited" /\ clean /\ ~errs => Pending = IF awaiting THEN 1 ELSE 0
  /\ pc = "exited" /\ rc = "ok" /\ clean => Quiet

\* The PS_SUCCESS that ends the polling of a step is about this step's frame,
\* not the late answer to an earlier command: the motor is stopped with the
\* frame in position (do_advance sends a2 on the first status byte 0).
StatusTrusted ==
  pc = "a2" /\ seen /\ clean /\ ~errs => inPlace

StopsMotor(s) ==
  \E k \in 1 .. Len(s) : s[k] = "a2" /\ \A j \in k + 1 .. Len(s) : s[j] # "a0"

\* A session that exits 0 has stopped the motor and the scanner has carried
\* that out, whether the polls ended on success or ran out, and whatever the
\* session found the motor doing.
MotorStopped ==
  pc = "exited" /\ rc = "ok" /\ clean /\ (want > 0 \/ StopsMotor(script)) => ~motor

\* The process ends, also when the film jams and HOST is busy for ever.
Terminates == []<>(pc = "exited")

\* "poll HOST until PS_SUCCESS (frame in position) -> a2" (pakon_replay.c:178):
\* every step of a session that exits 0 ended with its frame in position.  The
\* code goes on as if it had when the polls run out.
StepsInPosition ==
  pc = "exited" /\ rc = "ok" /\ clean => ~short

\* "--limit SEC is a wall-clock safety cap" (docs/PROTOCOL.md:530), "wall-clock
\* limit for the advance poll loop" (the usage text): past it no poll is sent.
\* The code looks at the clock between steps only.
LimitRespected ==
  [][pc = "poll" /\ limited /\ timeUp => Len(requests') <= Len(requests)]_vars

-----------------------------------------------------------------------------
(* The inductive forms of InStep, StatusTrusted and MotorStopped, for the  *)
(* proofs.                                                                 *)

Trusted == clean /\ ~errs

\* The command the process is exchanging at this point of its code.
Current ==
  CASE pc = "script" -> script[pos]
    [] pc = "a0" -> "a0"
    [] pc = "poll" -> "host"
    [] OTHER -> "a2"

Asked    == requests = <<Current>> /\ replies = <<>>
Answered == requests = <<>> /\ \E st \in Statuses : replies = <<st>>

\* While no transfer failed the channel is quiet, or holds the one command the
\* process waits on, or the one reply to it.
ExchangeInv ==
  /\ pc # "exited" => rc = "ok"
  /\ awaiting => AtLine(Commands) \/ pc \in {"a0", "poll", "a2"}
  /\ pc # "exited" /\ Trusted => IF awaiting THEN Asked \/ Answered ELSE Quiet
  /\ pc = "exited" => ~awaiting
  /\ pc = "exited" /\ rc = "ok" /\ clean => Quiet

\* No a0 comes after an a2 among the lines before line p of script s.
StoppedBefore(s, p) ==
  \E k \in 1 .. p - 1 : s[k] = "a2" /\ \A j \in k + 1 .. p - 1 : s[j] # "a0"

\* What the film does at each point of the code of a session without failures.
FilmInv ==
  /\ pc = "script" => steps = 0
  /\ Trusted /\ pc = "script" /\ StoppedBefore(script, pos) =>
       ~motor \/ (Answered /\ script[pos] = "a0")
  /\ Trusted /\ pc = "script" /\ awaiting /\ Answered /\ script[pos] = "a2" => ~motor
  /\ Trusted /\ pc = "check" /\ (steps > 0 \/ StopsMotor(script)) => ~motor
  /\ Trusted /\ pc = "a0" /\ Answered => motor
  /\ Trusted /\ pc = "poll" => motor
  /\ Trusted /\ pc = "poll" /\ replies = <<"success">> => inPlace
  /\ Trusted /\ pc = "a2" /\ seen => inPlace
  /\ Trusted /\ pc = "a2" /\ Answered => ~motor
  /\ MotorStopped

=============================================================================
