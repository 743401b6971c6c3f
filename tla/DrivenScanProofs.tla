-------------------------- MODULE DrivenScanProofs --------------------------
(***************************************************************************)
(* Theorems about do_scan_sm and its loop, for every set of scripts and    *)
(* chunks, every threshold, patience and size limit: DrivenScan's TypeOK,  *)
(* EnginesStopped, LoopExact and that a driven scan implements             *)
(* RollSession.                                                            *)
(***************************************************************************)
EXTENDS DrivenScan, ScanHostProofs

Pcs == {"setup", "loop", "poll", "rewind", "teardown", "stopReadout", "stopMotor"}

(* Film shortens the patience of the loop, and there always is some.       *)
LEMMA PatienceType == Patience \in Nat \ {0}
  BY DrivenAssumption DEF Patience

-----------------------------------------------------------------------------
(* Type correctness.                                                       *)

(* The shared actions keep the shared types and the patience in force; the *)
(* loop's variables they leave alone, or put back when the process dies.   *)
LEMMA SharedStep ==
  ASSUME TypeOK, StartFails \/ Rewinds \/ Teardown \/ Killed
  PROVE  TypeOK'
<1>1. HostTypeOK(Pcs)
  BY DEF TypeOK, Pcs
<1>2. HostTypeOK(Pcs)'
  BY <1>1, SharedTypes DEF Pcs, StartFails, Rewinds, Teardown, Killed
<1>3. CASE Killed
  <2>1. /\ idle' = 0 /\ windows' = 0 /\ heard' = "nothing"
        /\ UNCHANGED <<cap, passed, reads>>
    BY <1>3 DEF Killed
  <2> QED BY <1>2, <2>1, DrivenAssumption DEF TypeOK, Pcs, Patience
<1>4. CASE StartFails \/ Rewinds \/ Teardown
  <2>1. UNCHANGED drivenVars /\ filmSeen' = filmSeen
    BY <1>4 DEF StartFails, OpenFails, Rewinds, TeardownOpens, Teardown, TeardownSkips,
                TeardownSends, detector
  <2> QED BY <1>2, <2>1 DEF TypeOK, Pcs, Patience, drivenVars, loopVars
<1> QED BY <1>3, <1>4

(* The lines of the setup and the takeover keep the state well typed.      *)
LEMMA SetupTypes ==
  ASSUME TypeOK,
         SetupCommand \/ SetupControl \/ SetupBadLine \/ SetupRead \/ TakeOver
  PROVE  TypeOK'
<1> USE BoundsAssumption, DrivenAssumption, ScriptSeq
    DEF TypeOK, HostTypeOK, Patience, drivenVars, loopVars
<1> DEFINE D == /\ engines' \subseteq Engines /\ missed' \subseteq Engines
                /\ fifo' \in 0 .. FifoCap /\ errs' \in 0 .. MaxErrs
<1>1. CASE SetupCommand
  <2>1. D BY <1>1, DeviceType DEF SetupCommand
  <2>2. passed' \in BOOLEAN
    BY <1>1, Zenon DEF SetupCommand
  <2> QED BY <1>1, <2>1, <2>2 DEF SetupCommand, AtLine, detector
<1>2. CASE SetupControl
  <2>1. D BY <1>2, DeviceType DEF SetupControl
  <2> QED BY <1>2, <2>1 DEF SetupControl, AtLine, detector
<1>3. CASE SetupBadLine
  BY <1>3 DEF SetupBadLine, AtLine, detector, device
<1>4. CASE SetupRead
  <2>1. D BY <1>4, DeviceType DEF SetupRead
  <2>2. file' \in Seq(Kinds) /\ Len(file') >= Len(file)
    <3>1. CASE ReadsNothing
      BY <3>1, DeviceType
    <3>2. CASE ~ReadsNothing
      <4> PICK c \in Chunks : file' = Append(file, KindOf(c))
        BY <1>4, <3>2 DEF SetupRead
      <4> QED BY KindType
    <3> QED BY <3>1, <3>2
  <2>3. reads' \in 0 .. TakeoverReads
    BY <1>4 DEF SetupRead, HandOver
  <2> QED BY <1>4, <2>1, <2>2, <2>3 DEF SetupRead, AtLine, detector
<1>5. CASE TakeOver
  BY <1>5 DEF TakeOver, device
<1> QED BY <1>1, <1>2, <1>3, <1>4, <1>5

(* The loop keeps the state well typed: a count of windows that goes on is  *)
(* below the patience in force, so that one more is within it.             *)
LEMMA LoopTypes ==
  ASSUME TypeOK, LoopInv, LoopData \/ LoopEmpty \/ PollBusy \/ PollIdle
  PROVE  TypeOK'
<1> USE BoundsAssumption, DrivenAssumption, ScriptSeq
    DEF TypeOK, HostTypeOK, Patience, drivenVars, loopVars
<1> DEFINE D == /\ engines' \subseteq Engines /\ missed' \subseteq Engines
                /\ fifo' \in 0 .. FifoCap /\ errs' \in 0 .. MaxErrs
<1>1. CASE LoopData
  <2>1. D BY <1>1, DeviceType DEF LoopData
  <2>2. PICK c \in Chunks :
          /\ file' = IF Len(file) < FileCap THEN Append(file, KindOf(c)) ELSE file
          /\ heard' = KindOf(c)
          /\ Observe(KindOf(c))
          /\ pc' \in {"rewind", "loop"}
    BY <1>1 DEF LoopData
  <2>3. file' \in Seq(Kinds) /\ Len(file') >= Len(file)
    BY <2>2, KindType
  <2>4. filmSeen' \in BOOLEAN
    BY <2>2, Zenon DEF Observe
  <2>5. trailWhite' \in Nat /\ armed' = armed /\ mark' = mark
    BY <2>2 DEF Observe, NextTrail
  <2>6. mark' \in -1 .. Len(file') /\ sessions' \in Nat /\ missed' \subseteq Engines
    BY <1>1, <2>3, <2>5 DEF LoopData
  <2>7. heard' \in Kinds
    BY <2>2, KindType
  <2>8. idle' = 0 /\ windows' = 0 /\ UNCHANGED <<script, pos, rc, cap, passed, reads>>
    BY <1>1 DEF LoopData
  <2> QED BY <2>1, <2>2, <2>3, <2>4, <2>5, <2>6, <2>7, <2>8
<1>2. CASE LoopEmpty
  <2>1. D /\ file' = file BY <1>2, DeviceType DEF LoopEmpty
  <2> QED BY <1>2, <2>1 DEF LoopEmpty, detector
<1>3. CASE PollBusy
  BY <1>3 DEF PollBusy, detector, device
<1>4. CASE PollIdle
  <2>1. D BY <1>4, DeviceType DEF PollIdle
  <2>2. /\ idle' = idle + 1 /\ filmSeen' = filmSeen /\ pc' \in {"rewind", "loop"}
        /\ UNCHANGED <<windows, heard>>
    BY <1>4 DEF PollIdle, detector
  <2>3. idle' \in 0 .. Patience'
    BY <1>4, <2>2 DEF PollIdle, LoopInv, LoopExact
  <2> QED BY <1>4, <2>1, <2>2, <2>3 DEF PollIdle, detector
<1> QED BY <1>1, <1>2, <1>3, <1>4

(* A bare stop is a command as far as the device's type is concerned.      *)
LEMMA BareStopDevice ==
  ASSUME TypeOK, NEW l, BareStop(l)
  PROVE  /\ engines' \subseteq Engines /\ missed' \subseteq Engines
         /\ fifo' \in 0 .. FifoCap
<1>1. CASE Executes(l)
  BY <1>1, BoundsAssumption
     DEF TypeOK, HostTypeOK, Executes, AfterCommand, MissedBy
<1>2. CASE ~Executes(l)
  BY <1>2 DEF TypeOK, HostTypeOK, BareStop, MissedBy, device
<1> QED BY <1>1, <1>2

(* Every action keeps the state well typed.                                *)
LEMMA TypeStep == TypeOK /\ LoopInv /\ [Next]_vars => TypeOK'
<1> SUFFICES ASSUME TypeOK, LoopInv, [Next]_vars PROVE TypeOK'
  OBVIOUS
<1>1. CASE Start
  <2> PICK s \in Scripts, c \in Caps :
        /\ Open(s, "setup")
        /\ cap' = c /\ passed' = FALSE /\ reads' = 0
        /\ idle' = 0 /\ windows' = 0 /\ heard' = "nothing"
    BY <1>1 DEF Start
  <2>1. HostTypeOK(Pcs)'
    BY SharedTypes DEF Pcs, TypeOK
  <2>2. passed' \in BOOLEAN
    BY Zenon
  <2>3. /\ cap' \in Caps /\ reads' \in 0 .. TakeoverReads
        /\ idle' \in 0 .. Patience' /\ windows' \in 0 .. MaxEmpty
    BY DrivenAssumption DEF Patience
  <2> QED BY <2>1, <2>2, <2>3 DEF Pcs, TypeOK
<1>2. CASE StartFails \/ Rewinds \/ Teardown \/ Killed
  BY <1>2, SharedStep
<1>3. CASE SetupCommand \/ SetupControl \/ SetupBadLine \/ SetupRead \/ TakeOver
  BY <1>3, SetupTypes
<1>4. CASE LoopData \/ LoopEmpty \/ PollBusy \/ PollIdle
  BY <1>4, LoopTypes
<1>5. CASE NoTeardown
  BY <1>5 DEF NoTeardown, TypeOK, HostTypeOK, Patience, detector, device,
              drivenVars, loopVars
<1>6. CASE TeardownEnds
  BY <1>6 DEF TeardownEnds, TypeOK, HostTypeOK, Patience, detector, device,
              drivenVars, loopVars
<1>7. CASE StopReadout \/ StopMotor
  <2>1. PICK l : BareStop(l) /\ pc' \in {"stopMotor", "exited"}
    BY <1>7 DEF StopReadout, StopMotor
  <2> QED
    BY <2>1, BareStopDevice
       DEF BareStop, TypeOK, HostTypeOK, Patience, detector, drivenVars, loopVars
<1>8. CASE UNCHANGED vars
  BY <1>8 DEF vars, hostVars, TypeOK, HostTypeOK, Patience, detector, device,
              drivenVars, loopVars
<1> QED
  BY <1>1, <1>2, <1>3, <1>4, <1>5, <1>6, <1>7, <1>8 DEF Next, Proceed

-----------------------------------------------------------------------------
(* The counters of the loop.                                               *)

(* A step that touches neither the detector, the file nor the count.       *)
LEMMA LoopUntouched ==
  ASSUME LoopInv, UNCHANGED <<detector, file, idle>>,
         \/ pc' = pc
         \/ pc' \notin {"setup", "loop", "poll"}
         \/ pc \in {"loop", "poll"} /\ pc' \in {"loop", "poll"}
  PROVE  LoopInv'
BY DEF LoopInv, LoopExact, Patience, detector

(* Every action keeps the counters of the loop equal to their reference.   *)
LEMMA LoopStep == TypeOK /\ LoopInv /\ [Next]_vars => LoopInv'
<1> SUFFICES ASSUME TypeOK, LoopInv, [Next]_vars PROVE LoopInv'
  OBVIOUS
<1>0. /\ file \in Seq(Kinds) /\ trailWhite \in Nat /\ mark \in -1 .. Len(file)
      /\ filmSeen \in BOOLEAN
  BY DEF TypeOK, HostTypeOK
<1>1. CASE Start
  <2>1. pc' = "setup" /\ filmSeen' = FALSE /\ trailWhite' = 0 /\ idle' = 0
    BY <1>1 DEF Start, Open
  <2> QED BY <2>1 DEF LoopInv, LoopExact
<1>2. CASE StartFails
  BY <1>2, LoopUntouched DEF StartFails, OpenFails, drivenVars, loopVars
<1>3. CASE SetupCommand \/ SetupControl \/ SetupRead
  <2>1. pc = "setup" /\ pc' = "setup" /\ UNCHANGED <<filmSeen, trailWhite, idle>>
    BY <1>3 DEF SetupCommand, SetupControl, SetupRead, AtLine, detector, drivenVars,
                loopVars
  <2> QED BY <2>1 DEF LoopInv, LoopExact
<1>4. CASE TakeOver
  <2>1. /\ pc = "setup" /\ pc' = "loop" /\ mark' = Len(file') /\ file' = file
        /\ UNCHANGED <<filmSeen, trailWhite, idle>>
    BY <1>4 DEF TakeOver, drivenVars, loopVars
  <2>2. ~FilmIn(file', mark') /\ Cardinality(TrailingWhites(file', mark')) = 0
    BY <1>0, <2>1, NothingWatched
  <2>3. filmSeen' = FALSE /\ trailWhite' = 0 /\ idle' = 0 /\ mark' # -1
    BY <1>0, <2>1 DEF LoopInv
  <2>4. 0 < Patience' /\ 0 < TrailWhite
    BY DrivenAssumption, TrailAssumption DEF Patience
  <2> QED BY <2>1, <2>2, <2>3, <2>4 DEF LoopInv, LoopExact
<1>5. CASE LoopData
  <2>0. pc = "loop" /\ mark' = mark /\ idle' = 0
    BY <1>5 DEF LoopData, Observe
  <2>1. PICK c \in Chunks :
          /\ file' = IF Len(file) < FileCap THEN Append(file, KindOf(c)) ELSE file
          /\ Observe(KindOf(c))
          /\ pc' = IF EndOfRoll(KindOf(c)) \/ (cap # 0 /\ Len(file') >= cap)
                   THEN "rewind" ELSE "loop"
    BY <1>5 DEF LoopData
  <2>2. /\ Len(file) < FileCap =>
             /\ filmSeen <=> FilmIn(file, mark)
             /\ trailWhite = Cardinality(TrailingWhites(file, mark))
        /\ trailWhite < TrailWhite /\ mark \in 0 .. Len(file)
    BY <1>0, <2>0 DEF LoopInv, LoopExact
  <2>3. /\ filmSeen' = (filmSeen \/ KindOf(c) = "film")
        /\ trailWhite' = NextTrail(KindOf(c))
    BY <2>1 DEF Observe
  <2>4. Len(file') < FileCap =>
          /\ filmSeen' <=> FilmIn(file', mark')
          /\ trailWhite' = Cardinality(TrailingWhites(file', mark'))
    <3>1. SUFFICES ASSUME Len(file') < FileCap
                   PROVE  /\ filmSeen' <=> FilmIn(file', mark')
                          /\ trailWhite' = Cardinality(TrailingWhites(file', mark'))
      OBVIOUS
    <3>2. Len(file) < FileCap /\ file' = Append(file, KindOf(c))
      BY <2>1, <3>1
    <3> QED
      BY <1>0, <2>0, <2>2, <2>3, <3>2, KindType, OneMoreChunk DEF NextTrail
  <2>5. pc' = "loop" => trailWhite' < TrailWhite
    BY <1>0, <2>1, <2>2, <2>3, TrailAssumption DEF EndOfRoll, NextTrail
  <2>6. idle' < Patience' /\ mark' # -1
    BY <2>0, <2>2, DrivenAssumption DEF Patience
  <2>7. pc' \in {"rewind", "loop"}
    BY <2>1
  <2> QED BY <2>4, <2>5, <2>6, <2>7 DEF LoopInv, LoopExact
<1>6. CASE LoopEmpty \/ PollBusy
  BY <1>6, LoopUntouched DEF LoopEmpty, PollBusy, ReadsNothing
<1>7. CASE PollIdle
  <2>1. /\ pc = "poll" /\ pc' = IF idle' >= Patience THEN "rewind" ELSE "loop"
        /\ idle' = idle + 1 /\ UNCHANGED <<filmSeen, trailWhite, mark, file>>
    BY <1>7 DEF PollIdle, detector
  <2>2. Patience' = Patience /\ Patience \in Nat /\ idle' \in Nat
    BY <2>1, PatienceType DEF Patience, TypeOK
  <2>3. pc' = "loop" => idle' < Patience'
    BY <2>1, <2>2
  <2> QED BY <2>1, <2>3 DEF LoopInv, LoopExact
<1>8. CASE SetupBadLine \/ NoTeardown \/ TeardownEnds \/ StopReadout \/ StopMotor
  BY <1>8, LoopUntouched
     DEF SetupBadLine, NoTeardown, TeardownEnds, StopReadout, StopMotor, BareStop,
         drivenVars, loopVars
<1>9. CASE Rewinds \/ Teardown
  BY <1>9, LoopUntouched
     DEF Rewinds, TeardownOpens, Teardown, TeardownSkips, TeardownSends, drivenVars,
         loopVars
<1>10. CASE Killed
  <2>1. pc' = "exited"
    BY <1>10 DEF Killed, Kill
  <2> QED BY <2>1 DEF LoopInv, LoopExact
<1>11. CASE UNCHANGED vars
  BY <1>11, LoopUntouched DEF vars, hostVars, drivenVars, loopVars
<1> QED
  BY <1>1, <1>2, <1>3, <1>4, <1>5, <1>6, <1>7, <1>8, <1>9, <1>10, <1>11
     DEF Next, Proceed

(* Types and counters hold together: the one bounds what the other counts. *)
LEMMA TypedLoop == Spec => [](TypeOK /\ LoopInv)
<1>1. Init => TypeOK
  <2>1. Init => HostTypeOK(Pcs)
    BY InitTypes, Zenon DEF Init
  <2>2. Init => passed \in BOOLEAN
    BY Zenon DEF Init
  <2>3. Init => /\ cap = 0 /\ reads \in 0 .. TakeoverReads /\ idle \in 0 .. Patience
                /\ windows \in 0 .. MaxEmpty /\ heard = "nothing"
    BY DrivenAssumption DEF Init, Patience
  <2> QED BY <2>1, <2>2, <2>3 DEF TypeOK, Pcs
<1>2. Init => LoopInv
  BY DEF Init, HostInit, LoopInv, LoopExact
<1>3. TypeOK /\ LoopInv /\ [Next]_vars => TypeOK' /\ LoopInv'
  BY TypeStep, LoopStep
<1> QED BY <1>1, <1>2, <1>3, PTL DEF Spec

(* Every variable of a driven scan keeps its type: positions stay in the   *)
(* script, the mark in the image file, the burst within SM_TAKEOVER_READS, *)
(* and idle within the patience in force, SM_LOAD_WAIT before film and     *)
(* SM_MAX_EMPTY after it, the switch between the two included.             *)
THEOREM TypeCorrect == Spec => []TypeOK
  BY TypedLoop, PTL

(* In the loop the detector is what the image since the takeover says, and *)
(* the count of empty windows is one that may go on.                       *)
THEOREM LoopIsExact == Spec => []LoopExact
<1>1. LoopInv => LoopExact
  BY DEF LoopInv
<1> QED BY <1>1, TypedLoop, PTL

-----------------------------------------------------------------------------
(* The engines.                                                            *)

(* A bare stop that is delivered stops its engine; one that is not is      *)
(* missed; the other engine is not concerned.                              *)
LEMMA BareStopStops ==
  ASSUME NEW e \in Engines, BareStop(StopOf(e))
  PROVE  engines' \ missed' \subseteq (engines \ missed) \ {e}
<1> USE DEF Engines, StartOf, StopOf, AfterCommand, MissedBy
<1>1. CASE Executes(StopOf(e))
  BY <1>1 DEF Executes
<1>2. CASE missed' = missed \cup MissedBy(StopOf(e)) /\ UNCHANGED device
  BY <1>2 DEF device
<1> QED BY <1>1, <1>2 DEF BareStop

(* Nothing but a malformed line gives up, and only death ends otherwise.   *)
LEMMA StatusStep ==
  ASSUME EngineInv, [Next]_vars
  PROVE  pc' # "exited" => rc' = "ok"
BY DEF Next, Proceed, Start, Open, StartFails, OpenFails, SetupCommand, SetupControl,
       SetupBadLine, SetupRead, TakeOver, LoopData, LoopEmpty, PollBusy, PollIdle,
       Rewinds, TeardownOpens, NoTeardown, Teardown, TeardownSkips, TeardownSends,
       TeardownEnds, StopReadout, StopMotor, BareStop, Killed, Kill, vars, hostVars,
       AtLine, EngineInv

(* Steps that pass a line: of the setup, and of the teardown.              *)
LEMMA LinePassed ==
  ASSUME TypeOK, EngineInv, [Next]_vars,
         SetupCommand \/ SetupControl \/ SetupRead \/ Teardown
  PROVE  EngineInv'
<1>1. /\ pc \in {"setup", "teardown"} /\ pc' = pc /\ pos <= Len(script)
      /\ script' = script /\ pos' = pos + 1
  BY DEF SetupCommand, SetupControl, SetupRead, Teardown, TeardownSkips, TeardownSends,
         AtLine
<1>2. \/ SendCommand(script[pos])
      \/ /\ engines' = engines /\ missed' = missed
         /\ script[pos] \notin Stops \/ ~InTail(script, pos)
  BY DEF SetupCommand, SetupControl, SetupRead, Teardown, TeardownSkips, TeardownSends,
         SendOther, ReadsChunk, ReadsNothing, AtLine, device, Stops, BadLines
<1>3. RestartedSince'
  BY <1>1, <1>2, PassLine DEF EngineInv, TypeOK
<1> QED BY <1>1, <1>3, StatusStep DEF EngineInv, EnginesStopped

(* Every action keeps what is known of the engines at its point of code.   *)
LEMMA EngineStep == TypeOK /\ EngineInv /\ [Next]_vars => EngineInv'
<1> SUFFICES ASSUME TypeOK, EngineInv, [Next]_vars PROVE EngineInv'
  OBVIOUS
<1>rc. pc' # "exited" => rc' = "ok"
  BY StatusStep
<1>1. CASE Start
  <2>1. pc' = "setup" /\ pos' = 1
    BY <1>1 DEF Start, Open
  <2> QED BY <2>1, <1>rc DEF EngineInv, EnginesStopped, RestartedSince
<1>2. CASE StartFails
  <2>1. pc' = "exited" /\ rc' = "failed"
    BY <1>2 DEF StartFails, OpenFails
  <2> QED BY <2>1 DEF EngineInv, EnginesStopped
<1>3. CASE SetupCommand \/ SetupControl \/ SetupRead \/ Teardown
  BY <1>3, LinePassed
<1>4. CASE SetupBadLine \/ Killed
  <2>1. pc' = "exited" /\ rc' # "ok"
    BY <1>4 DEF SetupBadLine, Killed, Kill
  <2> QED BY <2>1 DEF EngineInv, EnginesStopped
<1>5. CASE TakeOver \/ LoopData \/ LoopEmpty \/ PollBusy \/ PollIdle
  <2>1. /\ pc \in {"setup", "loop", "poll"} /\ pc' \in {"loop", "poll", "rewind"}
        /\ UNCHANGED <<script, pos, engines, missed>>
    BY <1>5 DEF TakeOver, LoopData, LoopEmpty, PollBusy, PollIdle, ReadsChunk,
                ReadsNothing, SendOther, device
  <2> QED BY <2>1, <1>rc DEF EngineInv, EnginesStopped, RestartedSince
<1>6. CASE Rewinds
  <2>1. pc' = "teardown" /\ pos' = 1
    BY <1>6 DEF Rewinds, TeardownOpens
  <2> QED BY <2>1, <1>rc DEF EngineInv, EnginesStopped, RestartedSince
<1>7. CASE NoTeardown
  <2>1. pc' = "stopReadout"
    BY <1>7 DEF NoTeardown
  <2> QED BY <2>1, <1>rc DEF EngineInv, EnginesStopped
<1>8. CASE TeardownEnds
  <2>1. /\ pc = "teardown" /\ pos > Len(script)
        /\ pc' = IF HasTail(script) THEN "exited" ELSE "stopReadout"
        /\ UNCHANGED <<script, engines, missed>>
    BY <1>8 DEF TeardownEnds, device
  <2>2. CASE HasTail(script)
    <3>1. pos = Len(script) + 1
      <4>1. script \in Seq(Lines) /\ pos \in 1 .. Len(script) + 1
        BY ScriptSeq DEF TypeOK, HostTypeOK
      <4> QED BY <2>1, <4>1
    <3>2. StopsEngines(script) => engines \subseteq missed
      BY <2>1, <3>1, StoppedAtEnd DEF EngineInv, TypeOK
    <3> QED BY <2>1, <2>2, <3>2, <1>rc DEF EngineInv, EnginesStopped
  <2>3. CASE ~HasTail(script)
    <3>1. pc' = "stopReadout"
      BY <2>1, <2>3
    <3> QED BY <3>1, <1>rc DEF EngineInv, EnginesStopped
  <2> QED BY <2>2, <2>3
<1>9. CASE StopReadout
  <2>1. pc' = "stopMotor" /\ BareStop(StopOf("readout"))
    BY <1>9 DEF StopReadout, StopOf
  <2>2. "readout" \notin engines' \ missed'
    BY <2>1, BareStopStops DEF Engines
  <2> QED BY <2>1, <2>2, <1>rc DEF EngineInv, EnginesStopped
<1>10. CASE StopMotor
  <2>1. pc = "stopMotor" /\ pc' = "exited" /\ BareStop(StopOf("motor"))
    BY <1>10 DEF StopMotor, StopOf
  <2>2. engines' \ missed' \subseteq (engines \ missed) \ {"motor"}
    BY <2>1, BareStopStops DEF Engines
  <2>3. "readout" \notin engines \ missed
    BY <2>1 DEF EngineInv
  <2>4. engines \subseteq {"readout", "motor"}
    BY DEF TypeOK, HostTypeOK, Engines
  <2>5. engines' \subseteq missed'
    BY <2>2, <2>3, <2>4
  <2> QED BY <2>1, <2>5 DEF EngineInv, EnginesStopped
<1>11. CASE UNCHANGED vars
  BY <1>11 DEF vars, hostVars, device, EngineInv, EnginesStopped, RestartedSince
<1> QED
  BY <1>1, <1>2, <1>3, <1>4, <1>5, <1>6, <1>7, <1>8, <1>9, <1>10, <1>11
     DEF Next, Proceed

(* What the engines may be doing holds in every state.                     *)
LEMMA EngineInvariant == Spec => []EngineInv
<1>1. Init => EngineInv
  BY DEF Init, HostInit, EngineInv, EnginesStopped
<1> QED BY <1>1, TypeCorrect, EngineStep, PTL DEF Spec

(* A driven session that exits 0 leaves running only engines whose stop    *)
(* the device missed: for a script whose tail stops them, by the captured  *)
(* teardown or the bare stops, and for one without a tail by the latter.   *)
THEOREM EnginesStoppedAtExit == Spec => []EnginesStopped
<1>1. EngineInv => EnginesStopped
  BY DEF EngineInv
<1> QED BY <1>1, EngineInvariant, PTL

-----------------------------------------------------------------------------
(* A driven scan is a roll session.                                        *)

(* Before the first session the roll session has not begun either.         *)
LEMMA RollInit == Init => Roll!Init
<1>1. (StopsEngines(script) \/ ~HasTail(script)) \in BOOLEAN
  BY Zenon
<1> QED
  BY <1>1 DEF Init, HostInit, Roll!Init, Stage, Outcome

(* A read writes nothing, or one chunk, which may no longer be recorded.   *)
LEMMA ReadGrows ==
  ASSUME \/ ReadsNothing
         \/ file' = file
         \/ \E c \in Chunks : file' = Append(file, KindOf(c))
  PROVE  Roll!Grows
<1>1. CASE ReadsNothing \/ file' = file
  BY <1>1 DEF ReadsNothing, Roll!Grows
<1>2. CASE \E c \in Chunks : file' = Append(file, KindOf(c))
  <2>1. PICK c \in Chunks : file' = Append(file, KindOf(c))
    BY <1>2
  <2>2. KindOf(c) \in {"white", "film", "dim"}
    BY KindType DEF Kinds
  <2> QED BY <2>1, <2>2 DEF Roll!Grows
<1> QED BY <1>1, <1>2

(* Every step of the driven scan is a step of the roll session, or none.   *)
LEMMA RollStep ==
  TypeOK /\ TypeOK' /\ EngineInv /\ EngineInv' /\ [Next]_vars => [Roll!Next]_(Roll!vars)
<1> SUFFICES ASSUME TypeOK, TypeOK', EngineInv, EngineInv', [Next]_vars
             PROVE  [Roll!Next]_(Roll!vars)
  OBVIOUS
<1> DEFINE Trusted == StopsEngines(script) \/ ~HasTail(script)
<1>0. /\ pc \in Pcs \cup {"exited"} /\ file \in Seq(Kinds)
      /\ engines' \in SUBSET {"readout", "motor"} /\ missed' \in SUBSET {"readout", "motor"}
      /\ pc # "exited" => rc = "ok"
      /\ pc' # "exited" => rc' = "ok"
  BY DEF TypeOK, HostTypeOK, Engines, Pcs, EngineInv
<1>t. /\ Trusted' \in BOOLEAN
      /\ script' = script => Trusted' = Trusted
  BY Zenon
<1> HIDE DEF Trusted
<1>1. CASE Start
  <2>1. /\ pc = "exited" /\ pc' = "setup" /\ missed' = {} /\ file' = <<>>
        /\ engines' = engines
    BY <1>1 DEF Start, Open, device
  <2>2. Roll!Begin
    BY <1>0, <1>t, <2>1 DEF Roll!Begin, Stage, Outcome, Trusted
  <2> QED BY <2>2 DEF Roll!Next
<1>2. CASE StartFails
  <2>1. /\ pc = "exited" /\ pc' = "exited" /\ rc' = "failed"
        /\ UNCHANGED <<script, engines, missed, file>>
    BY <1>2 DEF StartFails, OpenFails, device
  <2>2. Roll!Reject
    BY <1>t, <2>1 DEF Roll!Reject, Stage, Outcome, Trusted
  <2> QED BY <2>2 DEF Roll!Next
<1>3. CASE SetupCommand \/ SetupControl
  <2>1. pc = "setup" /\ UNCHANGED <<pc, rc, script, file>>
    BY <1>3 DEF SetupCommand, SetupControl, AtLine
  <2>2. Roll!RollOn
    BY <1>0, <1>t, <2>1 DEF Roll!RollOn, Roll!Command, Stage, Outcome, Trusted
  <2> QED BY <2>2 DEF Roll!Next
<1>4. CASE SetupBadLine
  <2>1. /\ pc = "setup" /\ pc' = "exited" /\ rc' = "failed"
        /\ UNCHANGED <<script, engines, missed, file>>
    BY <1>4 DEF SetupBadLine, AtLine, device
  <2>2. Roll!GiveUp
    BY <1>t, <2>1 DEF Roll!GiveUp, Stage, Outcome, Trusted
  <2> QED BY <2>2 DEF Roll!Next
<1>5. CASE SetupRead \/ LoopData
  <2>1. /\ pc \in {"setup", "loop"} /\ pc' \in {pc, "rewind"}
        /\ UNCHANGED <<script, rc, engines, missed>>
    BY <1>5 DEF SetupRead, LoopData, AtLine, ReadsChunk, ReadsNothing, device
  <2>2. Roll!Grows
    BY <1>5, ReadGrows DEF SetupRead, LoopData
  <2>3. CASE pc' = pc
    <3>1. Roll!RollOn
      BY <1>t, <2>1, <2>2, <2>3 DEF Roll!RollOn, Roll!Collect, Stage, Outcome, Trusted
    <3> QED BY <3>1 DEF Roll!Next
  <2>4. CASE pc' = "rewind"
    <3>1. Roll!EndRoll
      BY <1>t, <2>1, <2>2, <2>4 DEF Roll!EndRoll, Stage, Outcome, Trusted
    <3> QED BY <3>1 DEF Roll!Next
  <2> QED BY <2>1, <2>3, <2>4
<1>6. CASE PollIdle
  <2>1. /\ pc = "poll" /\ pc' \in {"loop", "rewind"}
        /\ UNCHANGED <<script, rc, engines, missed, file>>
    BY <1>6 DEF PollIdle, SendOther, device
  <2>2. CASE pc' = "loop"
    BY <1>t, <2>1, <2>2 DEF Roll!vars, Stage, Outcome, Trusted
  <2>3. CASE pc' = "rewind"
    <3>1. Roll!EndRoll
      BY <1>t, <2>1, <2>3 DEF Roll!EndRoll, Roll!Grows, Stage, Outcome, Trusted
    <3> QED BY <3>1 DEF Roll!Next
  <2> QED BY <2>1, <2>2, <2>3
<1>7. CASE TakeOver \/ LoopEmpty \/ PollBusy
  <2>1. /\ pc \in {"setup", "loop", "poll"} /\ pc' \in {"loop", "poll"}
        /\ UNCHANGED <<script, rc, engines, missed, file>>
    BY <1>7 DEF TakeOver, LoopEmpty, PollBusy, ReadsNothing, device
  <2> QED BY <1>t, <2>1 DEF Roll!vars, Stage, Outcome, Trusted
<1>8. CASE Rewinds \/ NoTeardown
  <2>1. /\ pc = "rewind" /\ pc' \in {"teardown", "stopReadout"}
        /\ UNCHANGED <<script, rc, engines, missed, file>>
    BY <1>8 DEF Rewinds, TeardownOpens, NoTeardown, device
  <2> QED BY <1>t, <2>1 DEF Roll!vars, Stage, Outcome, Trusted
<1>9. CASE Teardown \/ StopReadout
  <2>1. /\ pc \in {"teardown", "stopReadout"} /\ pc' \in {"teardown", "stopMotor"}
        /\ UNCHANGED <<rc, script, file>>
    BY <1>9 DEF Teardown, TeardownSkips, TeardownSends, StopReadout, BareStop
  <2>2. Roll!Settle
    BY <1>0, <1>t, <2>1 DEF Roll!Settle, Roll!Command, Stage, Outcome, Trusted
  <2> QED BY <2>2 DEF Roll!Next
<1>10. CASE TeardownEnds \/ StopMotor
  <2>1. /\ pc \in {"teardown", "stopMotor"} /\ pc' \in {"exited", "stopReadout"}
        /\ rc' = "ok" /\ UNCHANGED <<script, rc, file>>
    BY <1>0, <1>10 DEF TeardownEnds, StopMotor, BareStop, device
  <2>2. CASE pc' = "exited"
    <3>1. Trusted => engines' \subseteq missed'
      BY <1>t, <2>1, <2>2 DEF EngineInv, EnginesStopped, Trusted
    <3>2. Roll!Complete
      BY <1>0, <1>t, <2>1, <2>2, <3>1 DEF Roll!Complete, Stage, Outcome, Trusted
    <3> QED BY <3>2 DEF Roll!Next
  <2>3. CASE pc' = "stopReadout"
    <3>1. UNCHANGED <<engines, missed>>
      BY <1>10, <2>3 DEF TeardownEnds, StopMotor, device
    <3> QED BY <1>t, <2>1, <2>3, <3>1 DEF Roll!vars, Stage, Outcome, Trusted
  <2> QED BY <2>1, <2>2, <2>3
<1>11. CASE Killed
  <2>1. /\ pc # "exited" /\ pc' = "exited" /\ rc' = "killed"
        /\ UNCHANGED <<script, engines, missed>>
    BY <1>11 DEF Killed, Kill, device
  <2>2. \E n \in 0 .. Len(file) : file' = SubSeq(file, 1, n)
    <3>1. PICK n \in 0 .. 1 : n <= Len(file) /\ file' = SubSeq(file, 1, Len(file) - n)
      BY <1>11 DEF Killed, Kill
    <3>2. Len(file) - n \in 0 .. Len(file)
      BY <1>0, <3>1
    <3> QED BY <3>1, <3>2
  <2>3. Roll!Die
    BY <1>0, <1>t, <2>1, <2>2 DEF Roll!Die, Stage, Outcome, Pcs, Trusted
  <2> QED BY <2>3 DEF Roll!Next
<1>12. CASE UNCHANGED vars
  BY <1>t, <1>12 DEF vars, hostVars, device, Roll!vars, Stage, Outcome, Trusted
<1> QED
  BY <1>1, <1>2, <1>3, <1>4, <1>5, <1>6, <1>7, <1>8, <1>9, <1>10, <1>11, <1>12
     DEF Next, Proceed

(* A driven scan implements RollSession: once the loop has decided that    *)
(* the roll is over nothing more is written, and completing leaves no      *)
(* engine running that was told to stop, with a captured tail or without.  *)
THEOREM ImplementsRoll == Spec => RefinesRoll
  BY EngineInvariant, TypeCorrect, RollInit, RollStep, PTL
     DEF Spec, RefinesRoll, Roll!Spec

=============================================================================
