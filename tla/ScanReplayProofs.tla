-------------------------- MODULE ScanReplayProofs --------------------------
(***************************************************************************)
(* Theorems about do_scan, for every set of scripts, every set of chunks   *)
(* and every threshold: ScanReplay's TypeOK, EnginesStopped, DetectorExact *)
(* and that a replayed scan implements RollSession.                        *)
(***************************************************************************)
EXTENDS ScanReplay, ScanHostProofs

Pcs == {"replay", "rewind", "teardown", "drainPoll", "drainRead"}

-----------------------------------------------------------------------------
(* Type correctness.                                                       *)

(* Every action keeps the state well typed.                                *)
LEMMA TypeStep == TypeOK /\ [Next]_vars => TypeOK'
<1> SUFFICES ASSUME TypeOK, [Next]_vars PROVE TypeOK'
  OBVIOUS
<1> USE BoundsAssumption, ScriptSeq DEF TypeOK, HostTypeOK
<1> DEFINE D == /\ engines' \subseteq Engines /\ missed' \subseteq Engines
                /\ fifo' \in 0 .. FifoCap /\ errs' \in 0 .. MaxErrs
<1>1. CASE Start
  <2> PICK s \in Scripts, a \in BOOLEAN, d \in BOOLEAN :
        Open(s, "replay") /\ autostop' = a /\ drain' = d /\ stopEarly' = FALSE
    BY <1>1 DEF Start
  <2>1. HostTypeOK(Pcs)'
    BY SharedTypes DEF Pcs
  <2>2. (/\ (armed => autostop)
         /\ autostop \in BOOLEAN /\ drain \in BOOLEAN /\ stopEarly \in BOOLEAN)'
    BY Zenon DEF Open
  <2> QED BY <2>1, <2>2 DEF Pcs
<1>2. CASE StartFails \/ Rewinds \/ Teardown \/ Killed
  <2>1. HostTypeOK(Pcs)'
    BY <1>2, SharedTypes DEF Pcs, StartFails, Rewinds, Teardown, Killed
  <2>2. UNCHANGED <<armed, flags>>
    BY <1>2 DEF StartFails, OpenFails, Rewinds, TeardownOpens, Teardown, TeardownSkips,
                TeardownSends, Killed, Kill, detector
  <2> QED BY <2>1, <2>2 DEF Pcs, flags
<1>3. CASE CommandLine
  <2>1. D BY <1>3, DeviceType DEF CommandLine
  <2>2. mark' \in -1 .. Len(file)
    BY <1>3 DEF CommandLine, ArmAt
  <2> QED BY <1>3, <2>1, <2>2 DEF CommandLine, ArmAt, AtLine, flags
<1>4. CASE ControlLine
  <2>1. D BY <1>4, DeviceType DEF ControlLine
  <2> QED BY <1>4, <2>1 DEF ControlLine, AtLine, flags, detector
<1>5. CASE BadLine
  BY <1>5 DEF BadLine, AtLine, flags, detector, device
<1>6. CASE ReadLine
  <2>1. D BY <1>6, DeviceType DEF ReadLine
  <2>2. file' = file BY <1>6, DeviceType DEF ReadLine
  <2> QED BY <1>6, <2>1, <2>2 DEF ReadLine, AtLine, flags, detector
<1>7. CASE ReadLineData
  <2>1. D BY <1>7, DeviceType DEF ReadLineData
  <2> PICK c \in Chunks :
        /\ file' = Append(file, KindOf(c))
        /\ IF armed THEN Observe(KindOf(c)) ELSE UNCHANGED detector
        /\ IF armed /\ EndOfRoll(KindOf(c))
           THEN pc' = "rewind" /\ stopEarly' = TRUE /\ UNCHANGED pos
           ELSE pos' = pos + 1 /\ UNCHANGED <<pc, stopEarly>>
    BY <1>7 DEF ReadLineData
  <2>2. file' \in Seq(Kinds) /\ Len(file') = Len(file) + 1
    BY KindType
  <2>3. /\ filmSeen' \in BOOLEAN /\ trailWhite' \in Nat
        /\ armed' = armed /\ mark' = mark
    BY DEF Observe, NextTrail, detector
  <2>4. pc' \in Pcs /\ pos' \in 1 .. Len(script) + 1 /\ stopEarly' \in BOOLEAN
    <3>1. pc = "replay" /\ pos <= Len(script) /\ Len(script) \in Nat
      BY <1>7 DEF ReadLineData, AtLine
    <3>2. CASE armed /\ EndOfRoll(KindOf(c))
      BY <3>1, <3>2 DEF Pcs
    <3>3. CASE ~(armed /\ EndOfRoll(KindOf(c)))
      BY <3>1, <3>3 DEF Pcs
    <3> QED BY <3>2, <3>3
  <2> QED BY <1>7, <2>1, <2>2, <2>3, <2>4 DEF ReadLineData, Pcs
<1>8. CASE ScriptEnds
  BY <1>8 DEF ScriptEnds, flags, detector, device
<1>9. CASE RewindFails
  BY <1>9 DEF RewindFails, flags, detector, device
<1>10. CASE TeardownEnds
  BY <1>10 DEF TeardownEnds, flags, detector, device
<1>11. CASE DrainPoll
  <2>1. D BY <1>11, DeviceType DEF DrainPoll
  <2> QED BY <1>11, <2>1 DEF DrainPoll, flags, detector
<1>12. CASE DrainRead
  <2>1. D BY <1>12, DeviceType DEF DrainRead
  <2>2. file' \in Seq(Kinds) /\ Len(file') >= Len(file)
    <3>1. CASE ReadsNothing
      BY <3>1, DeviceType
    <3>2. CASE ~ReadsNothing
      <4> PICK c \in Chunks :
            file' = IF Len(file) < FileCap THEN Append(file, KindOf(c)) ELSE file
        BY <1>12, <3>2 DEF DrainRead
      <4> QED BY KindType
    <3> QED BY <3>1, <3>2
  <2> QED BY <1>12, <2>1, <2>2 DEF DrainRead, flags, detector
<1>13. CASE UNCHANGED vars
  BY <1>13 DEF vars, hostVars, flags, detector, device
<1> QED
  BY <1>1, <1>2, <1>3, <1>4, <1>5, <1>6, <1>7, <1>8, <1>9, <1>10, <1>11, <1>12,
     <1>13 DEF Next, Proceed

(* Every variable of a replayed scan keeps its type: positions stay in the *)
(* script, the roll's mark in the image file.                              *)
THEOREM TypeCorrect == Spec => []TypeOK
<1>1. Init => TypeOK
  <2>1. Init => HostTypeOK(Pcs)
    BY InitTypes, Zenon DEF Init
  <2>2. Init => armed = FALSE /\ autostop = FALSE /\ drain = FALSE /\ stopEarly = FALSE
    BY DEF Init, HostInit
  <2> QED BY <2>1, <2>2 DEF TypeOK, Pcs
<1> QED BY <1>1, TypeStep, PTL DEF Spec

-----------------------------------------------------------------------------
(* The engines.                                                            *)

(* Every action keeps what is known of the engines at its point of code.   *)
LEMMA EngineStep == TypeOK /\ EngineInv /\ [Next]_vars => EngineInv'
<1> SUFFICES ASSUME TypeOK, EngineInv, [Next]_vars PROVE EngineInv'
  OBVIOUS
<1>0. /\ script \in Seq(Lines) /\ Len(script) \in Nat
      /\ pos \in 1 .. Len(script) + 1
      /\ pc \in Pcs \cup {"exited"}
  BY ScriptSeq DEF TypeOK, HostTypeOK, Pcs
<1>rc. (pc # "exited" => rc = "ok")'
  BY <1>0
     DEF Next, Proceed, Start, Open, StartFails, OpenFails, CommandLine, ControlLine,
         BadLine, ReadLine, ReadLineData, ScriptEnds, Rewinds, TeardownOpens,
         RewindFails, Teardown, TeardownSkips, TeardownSends, TeardownEnds, DrainPoll,
         DrainRead, Killed, Kill, vars, hostVars, AtLine, EngineInv
<1>1. CASE Start
  <2>1. pc' = "replay" /\ pos' = 1
    BY <1>1 DEF Start, Open
  <2> QED BY <2>1, <1>rc DEF EngineInv, EnginesStopped, RestartedSince
<1>2. CASE StartFails
  BY <1>2, <1>rc DEF StartFails, OpenFails, EngineInv, EnginesStopped, RestartedSince, device
<1>3. CASE CommandLine
  <2>1. /\ pc' = "replay" /\ pc = "replay" /\ pos <= Len(script)
        /\ script' = script /\ pos' = pos + 1
        /\ SendCommand(script[pos])
    BY <1>3 DEF CommandLine, AtLine
  <2>2. RestartedSince'
    BY <2>1, PassLine DEF EngineInv, TypeOK
  <2> QED BY <2>1, <2>2, <1>rc DEF EngineInv, EnginesStopped
<1>4. CASE ControlLine
  <2>1. /\ pc' = "replay" /\ pc = "replay" /\ pos <= Len(script)
        /\ script' = script /\ pos' = pos + 1
        /\ engines' = engines /\ missed' = missed /\ script[pos] \notin Stops
    BY <1>4 DEF ControlLine, AtLine, SendOther, device, Stops
  <2>2. RestartedSince'
    BY <2>1, PassLine DEF EngineInv, TypeOK
  <2> QED BY <2>1, <2>2, <1>rc DEF EngineInv, EnginesStopped
<1>5. CASE BadLine
  BY <1>5, <1>rc DEF BadLine, EngineInv, EnginesStopped
<1>6. CASE ReadLine \/ (ReadLineData /\ pc' = "replay")
  <2>1. /\ pc' = "replay" /\ pc = "replay" /\ pos <= Len(script)
        /\ script' = script /\ pos' = pos + 1
        /\ engines' = engines /\ missed' = missed /\ script[pos] \notin Stops
    BY <1>6 DEF ReadLine, ReadLineData, AtLine, ReadsNothing, ReadsChunk, device, Stops
  <2>2. RestartedSince'
    BY <2>1, PassLine DEF EngineInv, TypeOK
  <2> QED BY <2>1, <2>2, <1>rc DEF EngineInv, EnginesStopped
<1>7. CASE ReadLineData /\ pc' # "replay"
  <2>1. /\ pc' = "rewind" /\ pc = "replay"
        /\ script' = script /\ pos' = pos /\ engines' = engines /\ missed' = missed
    BY <1>7 DEF ReadLineData, AtLine, ReadsChunk
  <2> QED BY <2>1, <1>rc DEF EngineInv, EnginesStopped, RestartedSince
<1>8. CASE ScriptEnds
  <2>1. /\ pos = Len(script) + 1 /\ pc = "replay" /\ pc' \in {"drainPoll", "exited"}
        /\ UNCHANGED <<script, pos, engines, missed>>
    BY <1>0, <1>8 DEF ScriptEnds, device
  <2>2. StopsEngines(script) => engines \subseteq missed
    BY <2>1, StoppedAtEnd DEF EngineInv, TypeOK
  <2> QED BY <2>1, <2>2, <1>rc DEF EngineInv, EnginesStopped, RestartedSince
<1>9. CASE Rewinds
  BY <1>9, <1>rc DEF Rewinds, TeardownOpens, EngineInv, EnginesStopped, RestartedSince
<1>10. CASE RewindFails
  BY <1>10, <1>rc DEF RewindFails, EngineInv, EnginesStopped, device, TypeOK, HostTypeOK
<1>11. CASE Teardown
  <2>1. /\ pc' = "teardown" /\ pc = "teardown" /\ pos <= Len(script)
        /\ script' = script /\ pos' = pos + 1
    BY <1>11 DEF Teardown, TeardownSkips, TeardownSends
  <2>2. \/ SendCommand(script[pos])
        \/ /\ engines' = engines /\ missed' = missed
           /\ script[pos] \notin Stops \/ ~InTail(script, pos)
    BY <1>11 DEF Teardown, TeardownSkips, TeardownSends, SendOther, device, Stops, BadLines
  <2>3. RestartedSince'
    BY <2>1, <2>2, PassLine DEF EngineInv, TypeOK
  <2> QED BY <2>1, <2>3, <1>rc DEF EngineInv, EnginesStopped
<1>12. CASE TeardownEnds
  <2>1. /\ pos = Len(script) + 1 /\ pc = "teardown" /\ pc' = "exited"
        /\ UNCHANGED <<script, pos, engines, missed>>
    BY <1>0, <1>12 DEF TeardownEnds, device
  <2>2. StopsEngines(script) => engines \subseteq missed
    BY <2>1, StoppedAtEnd DEF EngineInv, TypeOK
  <2> QED BY <2>1, <2>2, <1>rc DEF EngineInv, EnginesStopped
<1>13. CASE DrainPoll \/ DrainRead
  <2>1. /\ pc \in {"drainPoll", "drainRead"}
        /\ pc' \in {"drainPoll", "drainRead", "exited"}
        /\ UNCHANGED <<script, pos, engines, missed>>
    BY <1>13 DEF DrainPoll, DrainRead, SendOther, ReadsChunk, ReadsNothing, device
  <2>2. pos = Len(script) + 1 /\ RestartedSince
    BY <2>1 DEF EngineInv
  <2>3. StopsEngines(script) => engines \subseteq missed
    BY <2>2, StoppedAtEnd DEF TypeOK
  <2> QED BY <2>1, <2>2, <2>3, <1>rc DEF EngineInv, EnginesStopped, RestartedSince
<1>14. CASE Killed
  BY <1>14, <1>rc DEF Killed, Kill, EngineInv, EnginesStopped
<1>15. CASE UNCHANGED vars
  BY <1>15, <1>rc DEF vars, hostVars, device, EngineInv, EnginesStopped, RestartedSince
<1> QED
  BY <1>1, <1>2, <1>3, <1>4, <1>5, <1>6, <1>7, <1>8, <1>9, <1>10, <1>11,
     <1>12, <1>13, <1>14, <1>15 DEF Next, Proceed

(* A session that exits 0 leaves running only engines whose stop the       *)
(* device missed, for every script whose tail stops the engines.           *)
THEOREM EnginesStoppedAtExit == Spec => []EnginesStopped
<1>1. Init => EngineInv
  BY DEF Init, HostInit, EngineInv, EnginesStopped
<1>2. Spec => []EngineInv
  BY <1>1, TypeCorrect, EngineStep, PTL DEF Spec
<1>3. EngineInv => EnginesStopped
  BY DEF EngineInv
<1> QED BY <1>2, <1>3, PTL

-----------------------------------------------------------------------------
(* The end-of-roll detector.                                               *)

(* A step that touches neither the detector nor the file.                  *)
LEMMA DetectorUntouched ==
  ASSUME DetectorInv, UNCHANGED <<autostop, stopEarly, detector, file>>,
         pc' = pc \/ pc' \notin {"replay", "rewind", "teardown"}
                  \/ (pc = "rewind" /\ pc' = "teardown")
  PROVE  DetectorInv'
  BY DEF DetectorInv, detector

(* Every action keeps the detector's variables equal to their reference.   *)
LEMMA DetectorStep == TypeOK /\ DetectorInv /\ [Next]_vars => DetectorInv'
<1> SUFFICES ASSUME TypeOK, DetectorInv, [Next]_vars PROVE DetectorInv'
  OBVIOUS
<1>0. file \in Seq(Kinds) /\ trailWhite \in Nat /\ mark \in -1 .. Len(file)
  BY DEF TypeOK, HostTypeOK
<1>1. CASE Start
  <2>1. file' \in Seq(Kinds) /\ mark' = -1
    BY <1>1, EmptyFile DEF Start, Open
  <2>2. ~FilmIn(file', mark') /\ Cardinality(TrailingWhites(file', mark')) = 0
    BY <2>1, NothingWatched
  <2>3. /\ pc' = "replay" /\ trailWhite' = 0 /\ ~armed' /\ ~filmSeen' /\ ~stopEarly'
    BY <1>1 DEF Start, Open
  <2> QED BY <2>1, <2>2, <2>3, TrailAssumption DEF DetectorInv
<1>2. CASE CommandLine
  <2>1. /\ pc = "replay" /\ pc' = "replay" /\ file' = file
        /\ autostop' = autostop /\ stopEarly' = stopEarly
        /\ filmSeen' = filmSeen /\ trailWhite' = trailWhite
        /\ armed' = (armed \/ (autostop /\ script[pos] = "motorStart"))
        /\ mark' = IF script[pos] = "motorStart" /\ mark = -1 THEN Len(file) ELSE mark
    BY <1>2 DEF CommandLine, AtLine, ArmAt, flags
  <2>2. CASE mark' = mark
    <3>1. autostop /\ mark = -1 => script[pos] # "motorStart"
      BY <1>0, <2>1, <2>2
    <3> QED BY <2>1, <2>2, <3>1 DEF DetectorInv
  <2>3. CASE mark' # mark
    <3>1. mark = -1 /\ mark' = Len(file') /\ mark' # -1 /\ file' \in Seq(Kinds)
      BY <1>0, <2>1, <2>3
    <3>2. /\ ~FilmIn(file, mark) /\ Cardinality(TrailingWhites(file, mark)) = 0
          /\ ~FilmIn(file', mark') /\ Cardinality(TrailingWhites(file', mark')) = 0
      BY <1>0, <3>1, NothingWatched
    <3>3. script[pos] = "motorStart"
      BY <2>1, <2>3
    <3> QED BY <2>1, <3>1, <3>2, <3>3 DEF DetectorInv
  <2> QED BY <2>2, <2>3
<1>3. CASE ReadLineData
  <2>0. pc = "replay"
    BY <1>3 DEF ReadLineData, AtLine
  <2>1. PICK c \in Chunks :
        /\ file' = Append(file, KindOf(c))
        /\ IF armed THEN Observe(KindOf(c)) ELSE UNCHANGED detector
        /\ IF armed /\ EndOfRoll(KindOf(c))
           THEN pc' = "rewind" /\ stopEarly' = TRUE /\ UNCHANGED pos
           ELSE pos' = pos + 1 /\ UNCHANGED <<pc, stopEarly>>
    BY <1>3 DEF ReadLineData
  <2>2. autostop' = autostop /\ mark' = mark /\ armed' = armed
    BY <1>3, <2>1 DEF ReadLineData, Observe, detector
  <2> SUFFICES ASSUME autostop PROVE DetectorInv'
    BY <2>2 DEF DetectorInv
  <2>3. /\ armed <=> mark # -1
        /\ filmSeen <=> FilmIn(file, mark)
        /\ trailWhite = Cardinality(TrailingWhites(file, mark))
        /\ ~stopEarly /\ trailWhite < TrailWhite
    BY <2>0 DEF DetectorInv
  <2>4. CASE ~armed
    <3>1. mark = -1 /\ file' \in Seq(Kinds)
      <4>1. file' = Append(file, KindOf(c)) /\ KindOf(c) \in Kinds
        BY <2>1, KindType
      <4> QED BY <1>0, <2>3, <2>4, <4>1
    <3>2. /\ ~FilmIn(file, mark) /\ Cardinality(TrailingWhites(file, mark)) = 0
          /\ ~FilmIn(file', mark') /\ Cardinality(TrailingWhites(file', mark')) = 0
      BY <1>0, <2>2, <3>1, NothingWatched
    <3>3. /\ pc' = "replay" /\ stopEarly' = stopEarly
          /\ filmSeen' = filmSeen /\ trailWhite' = trailWhite
      BY <2>0, <2>1, <2>4 DEF detector
    <3> QED BY <2>2, <2>3, <2>4, <3>1, <3>2, <3>3 DEF DetectorInv
  <2>5. CASE armed
    <3>1. /\ filmSeen' = (filmSeen \/ KindOf(c) = "film")
          /\ trailWhite' = NextTrail(KindOf(c))
      BY <2>1, <2>5 DEF Observe
    <3>2. /\ (filmSeen \/ KindOf(c) = "film") <=> FilmIn(file', mark')
          /\ NextTrail(KindOf(c)) = Cardinality(TrailingWhites(file', mark'))
      <4>1. mark \in 0 .. Len(file)
        BY <1>0, <2>3, <2>5
      <4> QED BY <1>0, <2>1, <2>2, <2>3, <4>1, KindType, OneMoreChunk DEF NextTrail
    <3>3. CASE EndOfRoll(KindOf(c))
      <4>1. trailWhite' = TrailWhite
        BY <1>0, <2>3, <3>1, <3>3, TrailAssumption DEF EndOfRoll, NextTrail
      <4>2. pc' = "rewind" /\ stopEarly'
        BY <2>1, <2>5, <3>3
      <4> QED BY <2>2, <2>3, <2>5, <3>1, <3>2, <4>1, <4>2 DEF DetectorInv
    <3>4. CASE ~EndOfRoll(KindOf(c))
      <4>1. trailWhite' < TrailWhite
        BY <1>0, <2>3, <3>1, <3>4, TrailAssumption DEF EndOfRoll, NextTrail
      <4>2. pc' = "replay" /\ stopEarly' = stopEarly
        BY <2>0, <2>1, <3>4
      <4> QED BY <2>2, <2>3, <2>5, <3>1, <3>2, <4>1, <4>2 DEF DetectorInv
    <3> QED BY <3>3, <3>4
  <2> QED BY <2>4, <2>5
<1>4. CASE ControlLine \/ ReadLine \/ Teardown \/ Rewinds
  BY <1>4, DetectorUntouched
     DEF ControlLine, ReadLine, ReadsNothing, Teardown, TeardownSkips, TeardownSends,
         Rewinds, TeardownOpens, flags
<1>5. CASE ScriptEnds \/ BadLine \/ RewindFails \/ TeardownEnds
  BY <1>5 DEF ScriptEnds, BadLine, RewindFails, TeardownEnds, DetectorInv
<1>6. CASE DrainPoll \/ DrainRead \/ Killed
  BY <1>6 DEF DrainPoll, DrainRead, Killed, Kill, DetectorInv
<1>7. CASE StartFails
  BY <1>7, DetectorUntouched DEF StartFails, OpenFails, flags
<1>8. CASE UNCHANGED vars
  BY <1>8, DetectorUntouched DEF vars, hostVars, flags
<1> QED
  BY <1>1, <1>2, <1>3, <1>4, <1>5, <1>6, <1>7, <1>8 DEF Next, Proceed

(* The detector's two counters are at every step what the image written    *)
(* since the motor start says, and its threshold is neither missed nor     *)
(* anticipated.                                                            *)
THEOREM DetectorIsExact == Spec => []DetectorExact
<1>1. Init => DetectorInv
  BY DEF Init, HostInit, DetectorInv
<1>2. Spec => []DetectorInv
  BY <1>1, TypeCorrect, DetectorStep, PTL DEF Spec
<1>3. TypeOK /\ DetectorInv => DetectorExact
  BY TrailAssumption DEF DetectorInv, DetectorExact, TypeOK, HostTypeOK
<1> QED BY <1>2, <1>3, TypeCorrect, PTL

-----------------------------------------------------------------------------
(* A replayed scan is a roll session.                                      *)

(* Before the first session the roll session has not begun either.         *)
LEMMA RollInit == Init => Roll!Init
<1>1. StopsEngines(script) \in BOOLEAN
  BY DEF StopsEngines
<1> QED
  BY <1>1 DEF Init, HostInit, Roll!Init, Stage, Outcome

(* Every step of the replayed scan is a step of the roll session, or none. *)
LEMMA RollStep ==
  TypeOK /\ TypeOK' /\ EngineInv /\ EngineInv' /\ [Next]_vars => [Roll!Next]_(Roll!vars)
<1> SUFFICES ASSUME TypeOK, TypeOK', EngineInv, EngineInv', [Next]_vars
             PROVE  [Roll!Next]_(Roll!vars)
  OBVIOUS
<1>0. /\ pc \in Pcs \cup {"exited"} /\ file \in Seq(Kinds)
      /\ engines' \in SUBSET {"readout", "motor"} /\ missed' \in SUBSET {"readout", "motor"}
      /\ pc # "exited" => rc = "ok"
      /\ pc' # "exited" => rc' = "ok"
      /\ StopsEngines(script') \in BOOLEAN
  BY DEF TypeOK, HostTypeOK, Engines, Pcs, EngineInv, StopsEngines
<1>1. CASE Start
  <2>1. /\ pc = "exited" /\ pc' = "replay" /\ missed' = {} /\ file' = <<>>
        /\ engines' = engines
    BY <1>1 DEF Start, Open, device
  <2>2. Roll!Begin
    BY <1>0, <2>1 DEF Roll!Begin, Stage, Outcome
  <2> QED BY <2>2 DEF Roll!Next
<1>2. CASE StartFails
  <2>1. Roll!Reject
    BY <1>2 DEF StartFails, OpenFails, device, Roll!Reject, Stage, Outcome
  <2> QED BY <2>1 DEF Roll!Next
<1>3. CASE CommandLine \/ ControlLine \/ ReadLine
  <2>1. pc = "replay" /\ UNCHANGED <<pc, rc, script, file>>
    BY <1>3 DEF CommandLine, ControlLine, ReadLine, ReadsNothing, AtLine
  <2>2. Roll!RollOn
    BY <1>0, <2>1 DEF Roll!RollOn, Roll!Command, Stage, Outcome
  <2> QED BY <2>2 DEF Roll!Next
<1>4. CASE BadLine
  <2>1. /\ pc = "replay" /\ pc' = "exited" /\ rc' = "failed"
        /\ UNCHANGED <<script, engines, missed, file>>
    BY <1>4 DEF BadLine, AtLine, device
  <2>2. Roll!GiveUp
    BY <2>1 DEF Roll!GiveUp, Stage, Outcome
  <2> QED BY <2>2 DEF Roll!Next
<1>5. CASE ReadLineData
  <2>1. /\ pc = "replay" /\ pc' \in {"replay", "rewind"}
        /\ UNCHANGED <<script, rc, engines, missed>>
    BY <1>5 DEF ReadLineData, AtLine, ReadsChunk
  <2>2. Roll!Grows
    <3>1. PICK c \in Chunks : file' = Append(file, KindOf(c))
      BY <1>5 DEF ReadLineData
    <3>2. KindOf(c) \in {"white", "film", "dim"}
      BY KindType DEF Kinds
    <3> QED BY <3>1, <3>2 DEF Roll!Grows
  <2>3. CASE pc' = "replay"
    <3>1. Roll!RollOn
      BY <2>1, <2>2, <2>3 DEF Roll!RollOn, Roll!Collect, Stage, Outcome
    <3> QED BY <3>1 DEF Roll!Next
  <2>4. CASE pc' = "rewind"
    <3>1. Roll!EndRoll
      BY <2>1, <2>2, <2>4 DEF Roll!EndRoll, Stage, Outcome
    <3> QED BY <3>1 DEF Roll!Next
  <2> QED BY <2>1, <2>3, <2>4
<1>6. CASE ScriptEnds
  <2>1. /\ pc = "replay" /\ pc' \in {"drainPoll", "exited"} /\ rc = "ok" /\ rc' = "ok"
        /\ UNCHANGED <<script, engines, missed, file>>
    BY <1>0, <1>6 DEF ScriptEnds, device
  <2>2. StopsEngines(script) => engines \subseteq missed
    <3>1. script \in Seq(Lines) /\ pos = Len(script) + 1
      BY <1>6, ScriptSeq DEF ScriptEnds, TypeOK, HostTypeOK
    <3> QED BY <2>1, <3>1, StoppedAtEnd DEF EngineInv, TypeOK
  <2>3. CASE pc' = "exited"
    <3>1. Roll!Complete
      BY <1>0, <2>1, <2>2, <2>3 DEF Roll!Complete, Stage, Outcome
    <3> QED BY <3>1 DEF Roll!Next
  <2>4. CASE pc' = "drainPoll"
    <3>1. Roll!BeginDrain
      BY <2>1, <2>2, <2>4 DEF Roll!BeginDrain, Stage, Outcome
    <3> QED BY <3>1 DEF Roll!Next
  <2> QED BY <2>1, <2>3, <2>4
<1>7. CASE RewindFails \/ TeardownEnds
  <2>1. /\ pc \in {"rewind", "teardown"} /\ pc' = "exited" /\ rc' = "ok"
        /\ UNCHANGED <<script, engines, file>>
    BY <1>0, <1>7 DEF RewindFails, TeardownEnds, device
  <2>2. StopsEngines(script) => engines \subseteq missed'
    BY <2>1 DEF EngineInv, EnginesStopped
  <2>3. Roll!Complete
    BY <1>0, <2>1, <2>2 DEF Roll!Complete, Stage, Outcome
  <2> QED BY <2>3 DEF Roll!Next
<1>8. CASE Teardown
  <2>1. pc = "teardown" /\ UNCHANGED <<pc, rc, script, file>>
    BY <1>8 DEF Teardown, TeardownSkips, TeardownSends
  <2>2. Roll!Settle
    BY <1>0, <2>1 DEF Roll!Settle, Roll!Command, Stage, Outcome
  <2> QED BY <2>2 DEF Roll!Next
<1>9. CASE DrainRead
  <2>1. /\ pc = "drainRead" /\ pc' \in {"drainPoll", "exited"} /\ rc' = rc /\ rc = "ok"
        /\ UNCHANGED <<script, engines, missed>>
    BY <1>0, <1>9 DEF DrainRead, ReadsChunk, ReadsNothing, device
  <2>2. Roll!Grows
    <3>1. CASE file' = file
      BY <3>1 DEF Roll!Grows
    <3>2. CASE file' # file
      <4>1. PICK c \in Chunks : file' = Append(file, KindOf(c))
        BY <1>9, <3>2 DEF DrainRead, ReadsNothing
      <4>2. KindOf(c) \in {"white", "film", "dim"}
        BY KindType DEF Kinds
      <4> QED BY <4>1, <4>2 DEF Roll!Grows
    <3> QED BY <3>1, <3>2
  <2>3. CASE pc' = "drainPoll"
    <3>1. Roll!DrainOn
      BY <2>1, <2>2, <2>3 DEF Roll!DrainOn, Roll!Collect, Stage, Outcome
    <3> QED BY <3>1 DEF Roll!Next
  <2>4. CASE pc' = "exited"
    <3>1. StopsEngines(script) => engines \subseteq missed'
      BY <2>1, <2>4 DEF EngineInv, EnginesStopped
    <3>2. Roll!Complete
      BY <1>0, <2>1, <2>2, <2>4, <3>1 DEF Roll!Complete, Stage, Outcome
    <3> QED BY <3>2 DEF Roll!Next
  <2> QED BY <2>1, <2>3, <2>4
<1>10. CASE Killed
  <2>1. /\ pc # "exited" /\ pc' = "exited" /\ rc' = "killed"
        /\ UNCHANGED <<script, engines, missed>>
    BY <1>10 DEF Killed, Kill, device
  <2>2. \E n \in 0 .. Len(file) : file' = SubSeq(file, 1, n)
    <3>1. PICK n \in 0 .. 1 : n <= Len(file) /\ file' = SubSeq(file, 1, Len(file) - n)
      BY <1>10 DEF Killed, Kill
    <3>2. Len(file) - n \in 0 .. Len(file)
      BY <1>0, <3>1
    <3> QED BY <3>1, <3>2
  <2>3. Roll!Die
    BY <1>0, <2>1, <2>2 DEF Roll!Die, Stage, Outcome, Pcs
  <2> QED BY <2>3 DEF Roll!Next
<1>11. CASE Rewinds \/ DrainPoll
  <2>1. /\ \/ pc = "rewind" /\ pc' = "teardown"
           \/ pc = "drainPoll" /\ pc' = "drainRead"
        /\ UNCHANGED <<rc, script, engines, missed, file>>
    BY <1>11 DEF Rewinds, TeardownOpens, DrainPoll, SendOther, device
  <2> QED BY <2>1 DEF Roll!vars, Stage, Outcome
<1>12. CASE UNCHANGED vars
  BY <1>12 DEF vars, hostVars, device, Roll!vars, Stage, Outcome
<1> QED
  BY <1>1, <1>2, <1>3, <1>4, <1>5, <1>6, <1>7, <1>8, <1>9, <1>10, <1>11, <1>12
     DEF Next, Proceed

(* A replayed scan implements RollSession: what the abstract session       *)
(* promises holds of do_scan, with any script and any transfer failing.    *)
THEOREM ImplementsRoll == Spec => RefinesRoll
<1>1. Init => EngineInv
  BY DEF Init, HostInit, EngineInv, EnginesStopped
<1>2. Spec => []EngineInv
  BY <1>1, TypeCorrect, EngineStep, PTL DEF Spec
<1> QED BY <1>2, TypeCorrect, RollInit, RollStep, PTL DEF Spec, RefinesRoll, Roll!Spec

=============================================================================
