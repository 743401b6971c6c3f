----------------------------- MODULE ScanReplay -----------------------------
(***************************************************************************)
(* do_scan of tools/pakon_replay.c: `pakon_replay --scan script image`     *)
(* with --autostop and --drain.  The script is replayed line by line; with *)
(* --autostop the end-of-roll detector, armed by the motor start, may cut  *)
(* the replay short, and the captured teardown tail is then replayed in    *)
(* place of the lines that were skipped.                                   *)
(***************************************************************************)
EXTENDS ScanHost

VARIABLES
  autostop, drain,   \* the command line's flags
  stopEarly        \* stop_early: the detector ended the replay

flags == <<autostop, drain, stopEarly>>
vars  == <<hostVars, flags>>

Init == HostInit /\ autostop = FALSE /\ drain = FALSE /\ stopEarly = FALSE

Start ==
  \E s \in Scripts, a, d \in BOOLEAN :
    /\ Open(s, "replay")
    /\ autostop' = a /\ drain' = d /\ stopEarly' = FALSE

StartFails == OpenFails /\ UNCHANGED flags

-----------------------------------------------------------------------------
(* The replay loop: one iteration per line.                                *)

AtLine(ls) == pc = "replay" /\ pos <= Len(script) /\ script[pos] \in ls

\* Variant: armed whatever the command line says.
ArmAtAnyway(l) ==
  /\ armed' = (armed \/ l = "motorStart")
  /\ mark' = IF l = "motorStart" /\ mark = -1 THEN Len(file) ELSE mark
  /\ UNCHANGED <<filmSeen, trailWhite>>

\* The detector is armed before the motor start is sent; mark remembers where
\* in the file the first of them falls, with or without --autostop.
ArmAt(l) ==
  /\ armed' = (armed \/ (autostop /\ l = "motorStart"))
  /\ mark' = IF l = "motorStart" /\ mark = -1 THEN Len(file) ELSE mark
  /\ UNCHANGED <<filmSeen, trailWhite>>

CommandLine ==
  /\ AtLine(Commands)
  /\ ArmAt(script[pos])
  /\ SendCommand(script[pos])
  /\ pos' = pos + 1
  /\ UNCHANGED <<pc, script, rc, file, sessions, flags>>

ControlLine ==
  /\ AtLine({"control"})
  /\ SendOther
  /\ pos' = pos + 1
  /\ UNCHANGED <<pc, script, rc, detector, file, sessions, flags>>

BadLine ==
  /\ AtLine(BadLines)
  /\ pc' = "exited" /\ rc' = "failed"
  /\ UNCHANGED <<script, pos, errs, detector, device, file, missed, sessions, flags>>

ReadLine ==
  /\ AtLine({"read"})
  /\ ReadsNothing
  /\ pos' = pos + 1
  /\ UNCHANGED <<pc, script, rc, detector, missed, sessions, flags>>

\* Variant: the early stop leaves without the teardown.
ReadLineDataNoTeardown ==
  /\ AtLine({"read"})
  /\ \E c \in Chunks :
       /\ ReadsChunk
       /\ file' = Append(file, KindOf(c))
       /\ IF armed THEN Observe(KindOf(c)) ELSE UNCHANGED detector
       /\ IF armed /\ EndOfRoll(KindOf(c))
          THEN pc' = "exited" /\ stopEarly' = TRUE /\ UNCHANGED pos
          ELSE pos' = pos + 1 /\ UNCHANGED <<pc, stopEarly>>
  /\ UNCHANGED <<script, rc, missed, sessions, autostop, drain>>

\* The chunk is written before the detector looks at it.
ReadLineData ==
  /\ AtLine({"read"})
  /\ \E c \in Chunks :
       /\ ReadsChunk
       /\ file' = Append(file, KindOf(c))
       /\ IF armed THEN Observe(KindOf(c)) ELSE UNCHANGED detector
       /\ IF armed /\ EndOfRoll(KindOf(c))
          THEN pc' = "rewind" /\ stopEarly' = TRUE /\ UNCHANGED pos
          ELSE pos' = pos + 1 /\ UNCHANGED <<pc, stopEarly>>
  /\ UNCHANGED <<script, rc, missed, sessions, autostop, drain>>

ScriptEnds ==
  /\ pc = "replay" /\ pos > Len(script)
  /\ pc' = IF drain THEN "drainPoll" ELSE "exited"
  /\ UNCHANGED <<script, pos, rc, errs, detector, device, file, missed, sessions, flags>>

-----------------------------------------------------------------------------
(* After an early stop: the teardown.  fopen may refuse the script this    *)
(* second time, and then nothing is sent and the exit status is still 0.   *)

Rewinds == TeardownOpens /\ UNCHANGED flags

RewindFails ==
  /\ pc = "rewind"
  /\ pc' = "exited" /\ missed' = Engines
  /\ UNCHANGED <<script, pos, rc, errs, detector, device, file, sessions, flags>>

Teardown == (TeardownSkips \/ TeardownSends) /\ UNCHANGED flags

TeardownEnds ==
  /\ pc = "teardown" /\ pos > Len(script)
  /\ pc' = "exited"
  /\ UNCHANGED <<script, pos, rc, errs, detector, device, file, missed, sessions, flags>>

-----------------------------------------------------------------------------
(* drain_image: poll HOST, read 0x86, until a read returns nothing or      *)
(* times out.  Past FileCap chunks are no longer recorded.                 *)

DrainPoll ==
  /\ pc = "drainPoll"
  /\ SendOther
  /\ pc' = "drainRead"
  /\ UNCHANGED <<script, pos, rc, detector, file, sessions, flags>>

\* Variant: an empty read does not end the draining.
DrainReadOn ==
  /\ pc = "drainRead"
  /\ \/ /\ ReadsChunk
        /\ \E c \in Chunks :
             file' = IF Len(file) < FileCap THEN Append(file, KindOf(c)) ELSE file
     \/ ReadsNothing
  /\ pc' = "drainPoll"
  /\ UNCHANGED <<script, pos, rc, detector, missed, sessions, flags>>

DrainRead ==
  /\ pc = "drainRead"
  /\ \/ /\ ReadsChunk
        /\ \E c \in Chunks :
             file' = IF Len(file) < FileCap THEN Append(file, KindOf(c)) ELSE file
        /\ pc' \in {"drainPoll", "exited"}       \* bytes, or bytes and a timeout
     \/ ReadsNothing /\ pc' = "exited"
  /\ UNCHANGED <<script, pos, rc, detector, missed, sessions, flags>>

Killed == Kill /\ UNCHANGED flags

-----------------------------------------------------------------------------
Proceed ==
  \/ CommandLine \/ ControlLine \/ BadLine \/ ReadLine \/ ReadLineData \/ ScriptEnds
  \/ Rewinds \/ RewindFails \/ Teardown \/ TeardownEnds
  \/ DrainPoll \/ DrainRead

Next == Start \/ StartFails \/ Proceed \/ Killed

\* Every call the process makes returns: transfers carry a timeout.
Spec == Init /\ [][Next]_vars /\ WF_vars(Proceed)

-----------------------------------------------------------------------------
(* Properties.                                                             *)

TypeOK ==
  /\ HostTypeOK({"replay", "rewind", "teardown", "drainPoll", "drainRead"})
  /\ autostop \in BOOLEAN /\ drain \in BOOLEAN /\ stopEarly \in BOOLEAN
  /\ armed => autostop

\* A session that exits 0 on a script whose tail stops the engines leaves no
\* engine running whose stop reached the scanner: whether the script ran to
\* its end or the detector jumped from the middle of it to the teardown, and
\* whatever an earlier session, killed half way, had left running.  ("Without
\* it the engines are left mid-state and the NEXT operation hangs.")
EnginesStopped ==
  pc = "exited" /\ rc = "ok" /\ StopsEngines(script) => engines \subseteq missed

\* film_seen and trail_white are at every step what the image file says: film
\* among the chunks written since the motor start (never the flashes of the
\* open gate and the bits of film before it), and the open-gate chunks written
\* since the last film.  The replay goes on while these are fewer than
\* SM_TRAIL_WHITE and stops at that one.
DetectorExact ==
  autostop /\ pc \in {"replay", "rewind", "teardown"} =>
    /\ filmSeen <=> FilmIn(file, mark)
    /\ trailWhite = Cardinality(TrailingWhites(file, mark))
    /\ trailWhite <= TrailWhite
    /\ stopEarly <=> trailWhite = TrailWhite

\* "consecutive white chunks after film => done" (pakon_replay.c:280): when
\* the replay stops early the last SM_TRAIL_WHITE chunks are open gate.  The
\* code counts across dim chunks, which neither reset the count nor add to it.
ConsecutiveWhite ==
  stopEarly /\ pc # "exited" =>
    /\ Len(file) >= TrailWhite
    /\ \A i \in Len(file) - TrailWhite + 1 .. Len(file) : file[i] = "white"

\* The process ends, unless it drains a readout that was never stopped.
Terminates ==
  []<>(pc = "exited" \/ (drain /\ "readout" \in engines))

\* The inductive forms of EnginesStopped and DetectorExact, for the proofs:
\* what the lines replayed so far have made of the engines ...
EngineInv ==
  /\ pc \in {"drainPoll", "drainRead"} => pos = Len(script) + 1
  /\ pc # "exited" => RestartedSince /\ rc = "ok"
  /\ EnginesStopped

\* ... and the detector is armed from the mark on, and acts at its threshold.
DetectorInv ==
  autostop /\ pc \in {"replay", "rewind", "teardown"} =>
    /\ armed <=> mark # -1
    /\ filmSeen <=> FilmIn(file, mark)
    /\ trailWhite = Cardinality(TrailingWhites(file, mark))
    /\ pc = "replay" => ~stopEarly /\ trailWhite < TrailWhite
    /\ pc # "replay" => stopEarly /\ trailWhite = TrailWhite

\* What the session is for RollSession.
Stage ==
  CASE pc = "exited" -> "off"
    [] pc = "replay" -> "rolling"
    [] pc \in {"rewind", "teardown"} -> "stopping"
    [] OTHER -> "draining"

Outcome ==
  CASE pc # "exited" -> "none"
    [] pc = "exited" /\ rc = "ok" -> "complete"
    [] OTHER -> rc

Roll == INSTANCE RollSession WITH
  stage <- Stage, outcome <- Outcome, trusted <- StopsEngines(script)

\* A replayed scan is a roll session: only a session that opened replaces the
\* image, nothing is written once the end of the roll is decided, draining
\* moves no engine, and completing leaves none running that was told to stop.
RefinesRoll == Roll!Spec

=============================================================================
