----------------------------- MODULE DrivenScan -----------------------------
(***************************************************************************)
(* do_scan_sm and sm_scan_loop of tools/pakon_replay.c: `--scan-sm`.  The  *)
(* script is replayed up to SM_TAKEOVER_READS image reads past the motor   *)
(* start; from there the loop reads 0x86 on its own, polls HOST when a     *)
(* window brings nothing, and decides itself that the roll has ended.  The *)
(* captured teardown follows, or two bare stop commands when the script    *)
(* has none.                                                               *)
(***************************************************************************)
EXTENDS ScanHost

CONSTANTS
  TakeoverReads,   \* SM_TAKEOVER_READS: reads replayed past the motor start
  LoadWait,        \* SM_LOAD_WAIT: empty windows before film that abort
  MaxEmpty,        \* SM_MAX_EMPTY: empty windows after film that end the roll
  Caps             \* the size limits a user may give, in chunks; 0: none

ASSUME DrivenAssumption ==
  /\ TakeoverReads \in Nat
  /\ LoadWait \in Nat \ {0}
  /\ MaxEmpty \in Nat \ {0}
  /\ Caps \subseteq 0 .. FileCap      \* a limit is reached while chunks are recorded

VARIABLES
  cap,       \* max_bytes
  passed,    \* passed_motor_start
  reads,     \* reads_after_motor
  idle,      \* empty windows in a row in which HOST was not busy
  windows,   \* history: empty windows in a row, busy or not
  heard      \* history: what the loop got last: a kind of chunk, "nothing" or "busy"

loopVars == <<idle, windows, heard>>
drivenVars == <<cap, passed, reads, loopVars>>
vars == <<hostVars, drivenVars>>

Init ==
  /\ HostInit
  /\ cap = 0 /\ passed = FALSE /\ reads = 0
  /\ idle = 0 /\ windows = 0 /\ heard = "nothing"

Start ==
  \E s \in Scripts, c \in Caps :
    /\ Open(s, "setup")
    /\ cap' = c /\ passed' = FALSE /\ reads' = 0
    /\ idle' = 0 /\ windows' = 0 /\ heard' = "nothing"

StartFails == OpenFails /\ UNCHANGED drivenVars

-----------------------------------------------------------------------------
(* Phase 1: the setup spine.                                               *)

AtLine(ls) == pc = "setup" /\ pos <= Len(script) /\ script[pos] \in ls

\* The motor counts as started once its command was tried.
SetupCommand ==
  /\ AtLine(Commands)
  /\ SendCommand(script[pos])
  /\ passed' = (passed \/ script[pos] = "motorStart")
  /\ pos' = pos + 1
  /\ UNCHANGED <<pc, script, rc, detector, file, sessions, cap, reads, loopVars>>

SetupControl ==
  /\ AtLine({"control"})
  /\ SendOther
  /\ pos' = pos + 1
  /\ UNCHANGED <<pc, script, rc, detector, file, sessions, drivenVars>>

\* Variant: the malformed line is not reported in the exit status.
SetupBadLineUnreported ==
  /\ AtLine(BadLines)
  /\ pc' = "exited"
  /\ UNCHANGED <<script, pos, rc, errs, detector, device, file, missed, sessions, drivenVars>>

\* A malformed line ends the session: no loop, no teardown.
SetupBadLine ==
  /\ AtLine(BadLines)
  /\ pc' = "exited" /\ rc' = "failed"
  /\ UNCHANGED <<script, pos, errs, detector, device, file, missed, sessions, drivenVars>>

HandOver == passed /\ reads >= TakeoverReads

\* Variant: the replay never hands over.
SetupReadOn ==
  /\ AtLine({"read"})
  /\ \/ ReadsChunk /\ \E c \in Chunks : file' = Append(file, KindOf(c))
     \/ ReadsNothing
  /\ reads' = IF passed THEN reads + 1 ELSE reads
  /\ pos' = pos + 1
  /\ UNCHANGED <<pc, script, rc, detector, missed, sessions, cap, passed, loopVars>>

SetupRead ==
  /\ AtLine({"read"}) /\ ~HandOver
  /\ \/ ReadsChunk /\ \E c \in Chunks : file' = Append(file, KindOf(c))
     \/ ReadsNothing
  /\ reads' = IF passed THEN reads + 1 ELSE reads
  /\ pos' = pos + 1
  /\ UNCHANGED <<pc, script, rc, detector, missed, sessions, cap, passed, loopVars>>

\* Phase 2 begins at a read line past the burst, or at the script's end.
TakeOver ==
  /\ pc = "setup"
  /\ pos <= Len(script) => script[pos] = "read" /\ HandOver
  /\ pc' = "loop"
  /\ armed' = TRUE /\ mark' = Len(file)
  /\ UNCHANGED <<script, pos, rc, errs, filmSeen, trailWhite, device, file, missed,
                 sessions, drivenVars>>

-----------------------------------------------------------------------------
(* Phase 2: sm_scan_loop.  Data may come for ever: past FileCap chunks it  *)
(* goes on, and only its record in `file` stops.                           *)

\* Variant: data does not start the count of empty windows again.
LoopDataKeepsIdle ==
  /\ pc = "loop"
  /\ ReadsChunk
  /\ \E c \in Chunks :
       /\ file' = IF Len(file) < FileCap THEN Append(file, KindOf(c)) ELSE file
       /\ heard' = KindOf(c)
       /\ Observe(KindOf(c))
       /\ pc' = IF EndOfRoll(KindOf(c)) \/ (cap # 0 /\ Len(file') >= cap)
                THEN "rewind" ELSE "loop"
  /\ windows' = 0
  /\ UNCHANGED <<script, pos, rc, missed, sessions, cap, passed, reads, idle>>

LoopData ==
  /\ pc = "loop"
  /\ ReadsChunk
  /\ \E c \in Chunks :
       /\ file' = IF Len(file) < FileCap THEN Append(file, KindOf(c)) ELSE file
       /\ heard' = KindOf(c)
       /\ Observe(KindOf(c))
       /\ pc' = IF EndOfRoll(KindOf(c)) \/ (cap # 0 /\ Len(file') >= cap)
                THEN "rewind" ELSE "loop"
  /\ idle' = 0 /\ windows' = 0
  /\ UNCHANGED <<script, pos, rc, missed, sessions, cap, passed, reads>>

LoopEmpty ==
  /\ pc = "loop"
  /\ ReadsNothing
  /\ pc' = "poll"
  /\ windows' = IF windows < MaxEmpty THEN windows + 1 ELSE windows
  /\ heard' = "nothing"
  /\ UNCHANGED <<script, pos, rc, detector, missed, sessions, cap, passed, reads, idle>>

\* HOST answers 0x80: wait, without counting the window.
PollBusy ==
  /\ pc = "poll"
  /\ pc' = "loop" /\ heard' = "busy"
  /\ UNCHANGED <<script, pos, rc, errs, detector, device, file, missed, sessions,
                 cap, passed, reads, idle, windows>>

Patience == IF filmSeen THEN MaxEmpty ELSE LoadWait

\* Variant: a window without film is not counted.
PollIdleForgets ==
  /\ pc = "poll"
  /\ SendOther
  /\ idle' = IF filmSeen THEN idle + 1 ELSE idle
  /\ pc' = IF idle' >= Patience THEN "rewind" ELSE "loop"
  /\ UNCHANGED <<script, pos, rc, detector, file, sessions, cap, passed, reads, windows, heard>>

\* HOST answers anything else, or not at all: the window counts.
PollIdle ==
  /\ pc = "poll"
  /\ SendOther
  /\ idle' = idle + 1
  /\ pc' = IF idle' >= Patience THEN "rewind" ELSE "loop"
  /\ UNCHANGED <<script, pos, rc, detector, file, sessions, cap, passed, reads, windows, heard>>

-----------------------------------------------------------------------------
(* Phase 3: teardown.                                                      *)

\* Something of the script's tail can be sent.
HasTail(s) ==
  /\ HasRead(s)
  /\ \E i \in 1 .. Len(s) : InTail(s, i) /\ s[i] \in Commands \cup {"control"}

Rewinds ==
  /\ HasRead(script)
  /\ TeardownOpens
  /\ UNCHANGED drivenVars

\* The script cannot be opened again, or has no read line.
NoTeardown ==
  /\ pc = "rewind" /\ pc' = "stopReadout"
  /\ UNCHANGED <<script, pos, rc, errs, detector, device, file, missed, sessions, drivenVars>>

Teardown == (TeardownSkips \/ TeardownSends) /\ UNCHANGED drivenVars

TeardownEnds ==
  /\ pc = "teardown" /\ pos > Len(script)
  /\ pc' = IF HasTail(script) THEN "exited" ELSE "stopReadout"
  /\ UNCHANGED <<script, pos, rc, errs, detector, device, file, missed, sessions, drivenVars>>

\* A stop whose reply nobody waits for and whose failure nobody counts.
BareStop(l) ==
  /\ \/ Executes(l)
     \/ missed' = missed \cup MissedBy(l) /\ UNCHANGED device
  /\ UNCHANGED <<script, pos, rc, errs, detector, file, sessions, drivenVars>>

StopReadout == pc = "stopReadout" /\ BareStop("readoutStop") /\ pc' = "stopMotor"

\* Variant: the readout is stopped twice, the motor never.
StopMotorMistaken == pc = "stopMotor" /\ BareStop("readoutStop") /\ pc' = "exited"

StopMotor   == pc = "stopMotor"   /\ BareStop("motorStop")   /\ pc' = "exited"

\* The counters of the loop die with the process.
Killed ==
  /\ Kill
  /\ idle' = 0 /\ windows' = 0 /\ heard' = "nothing"
  /\ UNCHANGED <<cap, passed, reads>>

-----------------------------------------------------------------------------
Proceed ==
  \/ SetupCommand \/ SetupControl \/ SetupBadLine \/ SetupRead \/ TakeOver
  \/ LoopData \/ LoopEmpty \/ PollBusy \/ PollIdle
  \/ Rewinds \/ NoTeardown \/ Teardown \/ TeardownEnds \/ StopReadout \/ StopMotor

Next == Start \/ StartFails \/ Proceed \/ Killed

\* Every call the process makes returns: transfers carry a timeout.
Spec == Init /\ [][Next]_vars /\ WF_vars(Proceed)

-----------------------------------------------------------------------------
(* Properties.                                                             *)

\* The patience in force bounds idle, also across the switch at the first film.
TypeOK ==
  /\ HostTypeOK({"setup", "loop", "poll", "rewind", "teardown", "stopReadout", "stopMotor"})
  /\ cap \in Caps \cup {0} /\ passed \in BOOLEAN /\ reads \in 0 .. TakeoverReads
  /\ idle \in 0 .. Patience /\ windows \in 0 .. MaxEmpty
  /\ heard \in Kinds \cup {"nothing", "busy"}

\* A driven session that exits 0 leaves running only engines whose stop was
\* missed, both when the captured teardown stops them and when the script has
\* no teardown, or can no longer be read, and the two bare stops stand in.
\* Here, unlike in do_scan, a script that cannot be opened again is covered.
EnginesStopped ==
  pc = "exited" /\ rc = "ok" /\ (StopsEngines(script) \/ ~HasTail(script))
    => engines \subseteq missed

\* In the loop film_seen and trail_white are what the chunks read since the
\* takeover say (compared while all of them are recorded), the threshold is
\* not passed, and a number of empty windows that should have ended the loop
\* is never carried on: what was counted while the operator fed the film is
\* not held against the film.
LoopExact ==
  pc \in {"loop", "poll"} =>
    /\ Len(file) < FileCap =>
         /\ filmSeen <=> FilmIn(file, mark)
         /\ trailWhite = Cardinality(TrailingWhites(file, mark))
    /\ trailWhite < TrailWhite
    /\ idle < Patience

\* The loop without a size limit just got data other than a white chunk to
\* count: before film any data, after film anything but the open gate.
Streaming ==
  pc = "loop" /\ cap = 0 /\ heard \in Kinds /\ ~(filmSeen /\ heard = "white")

\* The session ends, unless the scanner goes on answering busy or, with the
\* size limit switched off, goes on sending something other than the open gate
\* that ends a roll: nothing else bounds sm_scan_loop then, as every byte
\* starts the count of empty windows again.  Under a limit, and after film
\* when only the open gate comes, it ends whatever the stream does.
Terminates == []<>(pc = "exited" \/ heard = "busy" \/ Streaming)

\* "after film ... Must NOT keep waiting on 0x80 busy here or the motor runs"
\* (docs/PROTOCOL.md): once film was seen, SM_MAX_EMPTY empty windows in a
\* row end the loop.  The code goes back to reading before it counts a window
\* in which HOST was busy.
BusyBounded == pc = "loop" /\ filmSeen => windows < MaxEmpty

\* The inductive forms of EnginesStopped and LoopExact, for the proofs: what
\* the lines replayed so far, or the first bare stop, made of the engines ...
EngineInv ==
  /\ pc # "exited" => rc = "ok"
  /\ pc \notin {"stopReadout", "stopMotor", "exited"} => RestartedSince
  /\ pc = "stopMotor" => "readout" \notin engines \ missed
  /\ EnginesStopped

\* ... and the detector is at rest until the loop takes over, from the mark on.
LoopInv ==
  /\ pc = "setup" => filmSeen = FALSE /\ trailWhite = 0 /\ idle = 0
  /\ pc \in {"loop", "poll"} => mark # -1
  /\ LoopExact

\* What the session is for RollSession.
Stage ==
  CASE pc = "exited" -> "off"
    [] pc \in {"setup", "loop", "poll"} -> "rolling"
    [] OTHER -> "stopping"

Outcome ==
  CASE pc # "exited" -> "none"
    [] pc = "exited" /\ rc = "ok" -> "complete"
    [] OTHER -> rc

Roll == INSTANCE RollSession WITH
  stage <- Stage, outcome <- Outcome,
  trusted <- StopsEngines(script) \/ ~HasTail(script)

\* A driven scan is a roll session, like a replayed one: see ScanReplay.
RefinesRoll == Roll!Spec

=============================================================================
