--------------------------- MODULE AdvanceProofs ---------------------------
(***************************************************************************)
(* Proofs about Advance.  The command channel of do_advance stays in step  *)
(* by an invariant that says what it holds at each point of the code       *)
(* (ExchangeInv); on that rests another that says what the film does there *)
(* (FilmInv), from which follow that a success is about this step's frame  *)
(* and that exit 0 leaves the motor stopped.                               *)
(***************************************************************************)
EXTENDS Advance, SequenceTheorems, TLAPS

\* The channel operations keep the channel well typed.
LEMMA ChannelStep ==
  ASSUME NEW C, NEW St, ChannelTypeOK(C, St),
         \/ \E c \in C : Sends(c) \/ SendFails(c)
         \/ \E st \in St : Receives(st)
         \/ ReceiveFails
         \/ \E c \in C, st \in St : Serves(c, st)
         \/ UNCHANGED channel
  PROVE  ChannelTypeOK(C, St)'
<1> USE DEF ChannelTypeOK
<1>1. CASE \E c \in C : Sends(c) \/ SendFails(c)
  <2>1. PICK c \in C : Sends(c) \/ SendFails(c)
    BY <1>1
  <2>2. Append(requests, c) \in Seq(C)
    BY AppendProperties
  <2> QED
    BY <2>1, <2>2 DEF Sends, SendFails
<1>2. CASE \E st \in St : Receives(st)
  BY <1>2, HeadTailProperties DEF Receives
<1>3. CASE ReceiveFails
  BY <1>3, HeadTailProperties DEF ReceiveFails
<1>4. CASE \E c \in C, st \in St : Serves(c, st)
  BY <1>4, AppendProperties, HeadTailProperties DEF Serves
<1>5. CASE UNCHANGED channel
  BY <1>5 DEF channel
<1> QED
  BY <1>1, <1>2, <1>3, <1>4, <1>5

\* The step of a channel operation, whatever the process makes of it.
ChannelMoves ==
  \/ \E c \in Commands : Sends(c) \/ SendFails(c)
  \/ \E st \in Statuses : Receives(st)
  \/ ReceiveFails
  \/ \E c \in Commands, st \in Statuses : Serves(c, st)
  \/ UNCHANGED channel

\* A script, the empty one of the initial state included, has a length.
LEMMA ScriptLength ==
  ASSUME NEW s \in Scripts \cup {<<>>}
  PROVE  s \in Seq(Lines) /\ Len(s) \in Nat
<1>1. <<>> \in Seq(Lines)
  BY EmptySeq
<1>2. s \in Seq(Lines)
  BY <1>1, AdvanceAssumption
<1> QED
  BY <1>2, LenProperties

\* A line that is read is followed by another or by the end of the script.
LEMMA LineStep ==
  ASSUME TypeOK, pos <= Len(script), pos' = pos + 1, script' = script
  PROVE  pos' \in 1 .. Len(script') + 1
<1>2. Len(script) \in Nat
  BY ScriptLength DEF TypeOK, ProcessTypeOK
<1> QED
  BY <1>2 DEF TypeOK, ProcessTypeOK

\* Every action of the process and of the world keeps the state well typed.
LEMMA TypeStep == TypeOK /\ [Next]_vars => TypeOK'
<1> SUFFICES ASSUME TypeOK, [Next]_vars PROVE TypeOK'
  OBVIOUS
<1>ok. ChannelTypeOK(Commands, Statuses) /\ ProcessTypeOK
  BY DEF TypeOK
<1>ch. ChannelMoves => ChannelTypeOK(Commands, Statuses)'
  BY <1>ok, ChannelStep, Zenon DEF ChannelMoves
<1>seq. \A s \in Scripts \cup {<<>>} : Len(s) \in Nat
  BY ScriptLength
<1> USE DEF ProcessTypeOK, device, args, progress
<1>1. CASE Start
  <2>1. ChannelTypeOK(Commands, Statuses)'
    BY <1>1, <1>ok DEF Start, ChannelTypeOK
  <2>2. ProcessTypeOK'
    <3>1. clean' \in BOOLEAN
      BY <1>1, Zenon DEF Start, Quiet
    <3>2. Len(script') \in Nat /\ script' \in Scripts \cup {<<>>}
      BY <1>1, <1>seq DEF Start
    <3>3. /\ pc' = "script" /\ pos' = 1 /\ rc' = "ok" /\ steps' = 0 /\ polls' = 0
          /\ want' \in 0 .. MaxSteps /\ sessions' = sessions + 1 /\ sessions < MaxSessions
      BY <1>1 DEF Start
    <3>4. /\ limited' \in BOOLEAN /\ timeUp' \in BOOLEAN /\ seen' \in BOOLEAN
          /\ short' \in BOOLEAN /\ motor' \in BOOLEAN /\ inPlace' \in BOOLEAN
      BY <1>1, <1>ok DEF Start
    <3> QED
      BY <3>1, <3>2, <3>3, <3>4, <1>ok, AdvanceAssumption
  <2> QED
    BY <2>1, <2>2 DEF TypeOK
<1>2. CASE StartFails
  <2>1. ChannelMoves /\ ProcessTypeOK'
    BY <1>2, <1>ok, AdvanceAssumption DEF StartFails, ChannelMoves
  <2> QED
    BY <2>1, <1>ch DEF TypeOK
<1>3. CASE CommandLine
  <2>1. ChannelMoves
    BY <1>3 DEF CommandLine, AtLine, ChannelMoves
  <2>2. UNCHANGED <<pc, progress, timeUp, device, args>> => ProcessTypeOK'
    BY <1>ok
  <2>3. NextLine => ProcessTypeOK'
    BY <1>3, <1>ok, LineStep DEF CommandLine, AtLine, NextLine
  <2> QED
    BY <1>3, <2>1, <2>2, <2>3, <1>ch, Zenon DEF TypeOK, CommandLine
<1>4. CASE ControlLine
  <2>1. ChannelTypeOK(Commands, Statuses)'
    BY <1>4, <1>ok DEF ControlLine, ChannelTypeOK
  <2>2. ProcessTypeOK'
    BY <1>4, <1>ok, LineStep DEF ControlLine, AtLine, NextLine
  <2> QED
    BY <2>1, <2>2 DEF TypeOK
<1>5. CASE BadLine \/ ScriptEnds \/ NextStep \/ OutOfTime \/ Done
  <2>1. ChannelMoves
    BY <1>5 DEF BadLine, ScriptEnds, NextStep, OutOfTime, Done, ChannelMoves
  <2>2. ProcessTypeOK'
    <3>1. CASE BadLine
      BY <3>1, <1>ok DEF BadLine
    <3>2. CASE ScriptEnds
      BY <3>2, <1>ok DEF ScriptEnds
    <3>3. CASE NextStep
      <4>1. pc' = "a0" /\ polls' = 0 /\ seen' \in BOOLEAN /\ steps < want
        BY <3>3 DEF NextStep
      <4>2. UNCHANGED <<pos, rc, steps, short, timeUp, device, args>>
        BY <3>3 DEF NextStep
      <4> QED
        BY <4>1, <4>2, <1>ok, AdvanceAssumption
    <3>4. CASE OutOfTime
      BY <3>4, <1>ok DEF OutOfTime
    <3>5. CASE Done
      BY <3>5, <1>ok DEF Done
    <3> QED
      BY <1>5, <3>1, <3>2, <3>3, <3>4, <3>5
  <2> QED
    BY <2>1, <2>2, <1>ch DEF TypeOK
<1>6. CASE StartMotor
  <2>1. ChannelMoves
    BY <1>6 DEF StartMotor, Commands, ChannelMoves
  <2>2. ProcessTypeOK'
    BY <1>6, <1>ok, AdvanceAssumption DEF StartMotor
  <2> QED
    BY <2>1, <2>2, <1>ch DEF TypeOK
<1>7. CASE Poll
  <2>1. ChannelMoves
    BY <1>7 DEF Poll, Commands, ChannelMoves
  <2>2. ProcessTypeOK'
    BY <1>7, <1>ok DEF Poll
  <2> QED
    BY <2>1, <2>2, <1>ch DEF TypeOK
<1>8. CASE PollAnswered
  <2>1. ChannelMoves
    BY <1>8 DEF PollAnswered, ChannelMoves
  <2>2. ProcessTypeOK'
    BY <1>8, <1>ok, AdvanceAssumption DEF PollAnswered
  <2> QED
    BY <2>1, <2>2, <1>ch DEF TypeOK
<1>9. CASE StopMotor
  <2>1. ChannelMoves
    BY <1>9 DEF StopMotor, Commands, ChannelMoves
  <2>2. ProcessTypeOK'
    <3>1. short' \in BOOLEAN
      BY <1>9, <1>ok, Zenon DEF StopMotor
    <3>2. (pc' = pc /\ steps' = steps) \/ (pc' = "check" /\ steps' = steps + 1)
      BY <1>9 DEF StopMotor
    <3>3. pc = "a2" /\ UNCHANGED <<pos, rc, polls, seen, timeUp, device, args>>
      BY <1>9 DEF StopMotor
    <3> QED
      BY <3>1, <3>2, <3>3, <1>ok
  <2> QED
    BY <2>1, <2>2, <1>ch DEF TypeOK
<1>10. CASE Killed
  <2>1. ChannelTypeOK(Commands, Statuses)'
    BY <1>10, <1>ok DEF Killed, ChannelTypeOK
  <2>2. ProcessTypeOK'
    BY <1>10, <1>ok DEF Killed
  <2> QED
    BY <2>1, <2>2 DEF TypeOK
<1>11. CASE TimePasses \/ Arrives \/ UNCHANGED vars
  <2>1. ChannelMoves
    BY <1>11, Zenon DEF TimePasses, Arrives, vars, ChannelMoves
  <2>2. ProcessTypeOK'
    <3>1. CASE TimePasses
      BY <3>1, <1>ok DEF TimePasses
    <3>2. CASE Arrives
      BY <3>2, <1>ok DEF Arrives
    <3>3. CASE UNCHANGED vars
      BY <3>3, <1>ok DEF vars
    <3> QED
      BY <1>11, <3>1, <3>2, <3>3
  <2> QED
    BY <2>1, <2>2, <1>ch DEF TypeOK
<1>12. CASE ServeCommand
  <2>1. ChannelMoves
    BY <1>12 DEF ServeCommand, ChannelMoves
  <2>2. ProcessTypeOK'
    BY <1>12, <1>ok DEF ServeCommand
  <2> QED
    BY <2>1, <2>2, <1>ch DEF TypeOK
<1> QED
  BY <1>1, <1>2, <1>3, <1>4, <1>5, <1>6, <1>7, <1>8, <1>9, <1>10, <1>11, <1>12,
     Zenon DEF Next, Proceed

\* The states of an advance session are well typed, for all scripts and bounds.
THEOREM TypeCorrect == Spec => []TypeOK
<1>1. Init => TypeOK
  <2>1. <<>> \in Seq(Commands) /\ <<>> \in Seq(Statuses) /\ Len(<<>>) = 0
    BY EmptySeq
  <2>2. Init => ChannelTypeOK(Commands, Statuses)
    BY <2>1 DEF Init, ChannelInit, ChannelTypeOK
  <2>3. Init => ProcessTypeOK
    <3> SUFFICES ASSUME Init PROVE ProcessTypeOK
      OBVIOUS
    <3>1. /\ pc = "exited" /\ rc = "ok" /\ script \in Scripts \cup {<<>>}
          /\ pos \in 1 .. Len(script) + 1
      BY <2>1 DEF Init
    <3>2. /\ want \in 0 .. MaxSteps /\ steps \in 0 .. want /\ polls \in 0 .. MaxPolls
          /\ sessions \in 0 .. MaxSessions
      BY AdvanceAssumption DEF Init
    <3>3. /\ limited \in BOOLEAN /\ timeUp \in BOOLEAN /\ seen \in BOOLEAN
          /\ short \in BOOLEAN /\ motor \in BOOLEAN /\ inPlace \in BOOLEAN
          /\ clean \in BOOLEAN
      BY DEF Init
    <3> QED
      BY <3>1, <3>2, <3>3, Zenon DEF ProcessTypeOK
  <2> QED
    BY <2>2, <2>3 DEF TypeOK
<1> QED
  BY <1>1, TypeStep, PTL DEF Spec

-----------------------------------------------------------------------------
(* The exchange of one command, while no transfer failed.                  *)

\* Appending to, and taking from, a sequence of at most one element.
LEMMA OneElement ==
  ASSUME NEW x
  PROVE  /\ Append(<<>>, x) = <<x>>
         /\ Head(<<x>>) = x
         /\ Tail(<<x>>) = <<>>
         /\ <<x>> # <<>>
  OBVIOUS

\* A command sent over a quiet channel is the only one there.
LEMMA Sending ==
  ASSUME NEW c, Quiet, Sends(c)
  PROVE  awaiting' = TRUE /\ requests' = <<c>> /\ replies' = <<>> /\ errs' = errs
  BY OneElement DEF Quiet, Sends

\* The reply received is the one to the command exchanged, and the last.
LEMMA Receiving ==
  ASSUME NEW st, Asked \/ Answered, Receives(st)
  PROVE  /\ Answered /\ replies = <<st>>
         /\ requests' = <<>> /\ replies' = <<>> /\ awaiting' = FALSE /\ errs' = errs
  BY OneElement DEF Asked, Answered, Receives

\* The command served is the one exchanged.
LEMMA Serving ==
  ASSUME NEW c, NEW st, Asked \/ Answered, Serves(c, st)
  PROVE  /\ Asked /\ c = Current
         /\ requests' = <<>> /\ replies' = <<st>> /\ awaiting' = awaiting /\ errs' = errs
  BY OneElement DEF Asked, Answered, Serves

\* A failure is remembered, and ends the wait.
LEMMA Failing ==
  ASSUME NEW c, SendFails(c) \/ ReceiveFails
  PROVE  errs' = TRUE /\ awaiting' = FALSE
  BY DEF SendFails, ReceiveFails

\* Every step keeps the channel in step with the code of the process.
LEMMA ExchangeStep == TypeOK /\ ExchangeInv /\ [Next]_vars => ExchangeInv'
<1> SUFFICES ASSUME TypeOK, ExchangeInv, [Next]_vars PROVE ExchangeInv'
  OBVIOUS
<1>b. awaiting \in BOOLEAN /\ errs \in BOOLEAN /\ clean \in BOOLEAN
  BY DEF TypeOK, ChannelTypeOK, ProcessTypeOK
<1> USE DEF device, args, progress
<1>1. CASE Start
  BY <1>1, <1>b DEF Start, ExchangeInv, Trusted, Quiet
<1>2. CASE StartFails
  BY <1>2 DEF StartFails, channel, ExchangeInv
<1>3. CASE CommandLine
  <2>0. AtLine(Commands) /\ pc = "script" /\ rc = "ok"
    BY <1>3 DEF CommandLine, AtLine, ExchangeInv
  <2>1. CASE Sends(script[pos]) /\ UNCHANGED <<pc, progress, timeUp, device, args>>
    <3>1. ~awaiting /\ (Trusted => Quiet)
      BY <2>0, <2>1 DEF Sends, ExchangeInv
    <3>2. Trusted' => Asked'
      BY <2>0, <2>1, <3>1, Sending DEF Trusted, Sends, Asked, Current
    <3>3. AtLine(Commands)'
      BY <2>0, <2>1 DEF AtLine
    <3> QED
      BY <2>0, <2>1, <3>2, <3>3 DEF ExchangeInv, Sends
  <2>2. CASE (\E st \in Statuses : Receives(st)) /\ NextLine
    <3>1. awaiting /\ awaiting' = FALSE /\ errs' = errs
      BY <2>2 DEF Receives
    <3>2. Trusted' => Quiet'
      BY <2>0, <2>2, <3>1, Receiving DEF ExchangeInv, Trusted, NextLine, Quiet
    <3> QED
      BY <2>0, <2>2, <3>1, <3>2 DEF ExchangeInv, NextLine
  <2>3. CASE (SendFails(script[pos]) \/ ReceiveFails) /\ NextLine
    BY <2>0, <2>3, Failing DEF ExchangeInv, NextLine, Trusted
  <2> QED
    BY <1>3, <2>1, <2>2, <2>3 DEF CommandLine
<1>4. CASE ControlLine
  <2>1. pc = "script" /\ rc = "ok" /\ ~awaiting
    BY <1>4 DEF ControlLine, AtLine, ExchangeInv, Commands
  <2> QED
    BY <1>4, <2>1, <1>b DEF ControlLine, NextLine, ExchangeInv, Trusted, Quiet
<1>5. CASE BadLine
  <2>1. ~awaiting
    BY <1>5 DEF BadLine, AtLine, ExchangeInv, Commands
  <2> QED
    BY <1>5, <2>1 DEF BadLine, channel, ExchangeInv
<1>6. CASE ScriptEnds
  <2>1. pc = "script" /\ rc = "ok" /\ ~awaiting
    BY <1>6 DEF ScriptEnds, AtLine, ExchangeInv, TypeOK, ProcessTypeOK
  <2> QED
    BY <1>6, <2>1 DEF ScriptEnds, channel, ExchangeInv, Trusted, Quiet
<1>7. CASE NextStep \/ OutOfTime \/ Done
  <2>1. pc = "check" /\ rc = "ok" /\ ~awaiting /\ UNCHANGED channel /\ clean' = clean
    BY <1>7 DEF NextStep, OutOfTime, Done, AtLine, ExchangeInv
  <2>2. \/ pc' = "a0" /\ rc' = rc
        \/ pc' = "exited" /\ (rc' = "failed" \/ (rc' = "ok" /\ ~errs))
    BY <1>7, <2>1 DEF NextStep, OutOfTime, Done
  <2> QED
    BY <2>1, <2>2 DEF ExchangeInv, channel, Trusted, Quiet
<1>8. CASE StartMotor
  <2>0. pc = "a0" /\ rc = "ok" /\ clean' = clean
    BY <1>8 DEF StartMotor, ExchangeInv
  <2>1. CASE Sends("a0") /\ UNCHANGED <<pc, rc>>
    <3>1. ~awaiting /\ (Trusted => Quiet)
      BY <2>0, <2>1 DEF Sends, ExchangeInv
    <3>2. Trusted' => Asked'
      BY <2>0, <2>1, <3>1, Sending DEF Trusted, Sends, Asked, Current
    <3> QED
      BY <2>0, <2>1, <3>2 DEF ExchangeInv, Sends
  <2>2. CASE (\E st \in Statuses : Receives(st)) /\ pc' = "poll" /\ UNCHANGED rc
    <3>1. awaiting /\ awaiting' = FALSE /\ errs' = errs
      BY <2>2 DEF Receives
    <3>2. Trusted' => Quiet'
      BY <2>0, <2>2, <3>1, Receiving DEF ExchangeInv, Trusted, Quiet
    <3> QED
      BY <2>0, <2>2, <3>1, <3>2 DEF ExchangeInv
  <2>3. CASE (SendFails("a0") \/ ReceiveFails) /\ pc' = "exited" /\ rc' = "failed"
    BY <2>0, <2>3, Failing DEF ExchangeInv
  <2> QED
    BY <1>8, <2>1, <2>2, <2>3 DEF StartMotor
<1>9. CASE Poll
  <2>0. pc = "poll" /\ rc = "ok" /\ clean' = clean /\ rc' = rc
    BY <1>9 DEF Poll, ExchangeInv
  <2>1. CASE Sends("host") /\ UNCHANGED pc
    <3>1. ~awaiting /\ (Trusted => Quiet)
      BY <2>0, <2>1 DEF Sends, ExchangeInv
    <3>2. Trusted' => Asked'
      BY <2>0, <2>1, <3>1, Sending DEF Trusted, Sends, Asked, Current
    <3> QED
      BY <2>0, <2>1, <3>2 DEF ExchangeInv, Sends
  <2>2. CASE (SendFails("host") \/ ReceiveFails) /\ pc' = "a2"
    BY <2>0, <2>2, Failing DEF ExchangeInv, Trusted
  <2> QED
    BY <1>9, <2>1, <2>2 DEF Poll
<1>10. CASE PollAnswered
  <2>0. pc = "poll" /\ rc = "ok" /\ clean' = clean /\ rc' = rc /\ pc' \in {"a2", "poll"}
    BY <1>10 DEF PollAnswered, ExchangeInv
  <2>1. PICK st \in Statuses : Receives(st)
    BY <1>10 DEF PollAnswered
  <2>2. awaiting /\ awaiting' = FALSE /\ errs' = errs
    BY <2>1 DEF Receives
  <2>3. Trusted' => Quiet'
    BY <2>0, <2>1, <2>2, Receiving DEF ExchangeInv, Trusted, Quiet
  <2> QED
    BY <2>0, <2>2, <2>3 DEF ExchangeInv
<1>11. CASE StopMotor
  <2>0. pc = "a2" /\ rc = "ok" /\ clean' = clean /\ rc' = rc
    BY <1>11 DEF StopMotor, ExchangeInv
  <2>1. CASE Sends("a2") /\ UNCHANGED <<pc, steps, short>>
    <3>1. ~awaiting /\ (Trusted => Quiet)
      BY <2>0, <2>1 DEF Sends, ExchangeInv
    <3>2. Trusted' => Asked'
      BY <2>0, <2>1, <3>1, Sending DEF Trusted, Sends, Asked, Current
    <3> QED
      BY <2>0, <2>1, <3>2 DEF ExchangeInv, Sends
  <2>2. CASE (\E st \in Statuses : Receives(st)) /\ pc' = "check"
    <3>1. awaiting /\ awaiting' = FALSE /\ errs' = errs
      BY <2>2 DEF Receives
    <3>2. Trusted' => Quiet'
      BY <2>0, <2>2, <3>1, Receiving DEF ExchangeInv, Trusted, Quiet
    <3> QED
      BY <2>0, <2>2, <3>1, <3>2 DEF ExchangeInv
  <2>3. CASE (SendFails("a2") \/ ReceiveFails) /\ pc' = "check"
    BY <2>0, <2>3, Failing DEF ExchangeInv, Trusted
  <2> QED
    BY <1>11, <2>1, <2>2, <2>3 DEF StopMotor
<1>12. CASE Killed
  BY <1>12 DEF Killed, ExchangeInv
<1>13. CASE TimePasses \/ Arrives \/ UNCHANGED vars
  <2>1. UNCHANGED <<channel, pc, pos, rc, script, clean>>
    BY <1>13 DEF TimePasses, Arrives, vars
  <2> QED
    BY <2>1 DEF channel, ExchangeInv, Trusted, Quiet, Asked, Answered, Current, AtLine
<1>14. CASE ServeCommand
  <2>0. UNCHANGED <<pc, pos, rc, script, clean>>
    BY <1>14 DEF ServeCommand
  <2>1. PICK c \in Commands, st \in Statuses : Serves(c, st)
    BY <1>14 DEF ServeCommand
  <2>2. requests # <<>> /\ awaiting' = awaiting /\ errs' = errs
    BY <2>1 DEF Serves
  <2>3. Trusted /\ pc # "exited" => awaiting /\ Answered'
    BY <2>1, <2>2, Serving DEF ExchangeInv, Quiet, Answered
  <2>4. ~(pc = "exited" /\ rc = "ok" /\ clean)
    BY <2>2 DEF ExchangeInv, Quiet
  <2> QED
    BY <2>0, <2>2, <2>3, <2>4 DEF ExchangeInv, Trusted, AtLine
<1> QED
  BY <1>1, <1>2, <1>3, <1>4, <1>5, <1>6, <1>7, <1>8, <1>9, <1>10, <1>11, <1>12,
     <1>13, <1>14, Zenon DEF Next, Proceed

\* The channel is quiet before the first session.
LEMMA ExchangeInit == Init => ExchangeInv
  BY DEF Init, ChannelInit, ExchangeInv, Quiet

\* While no transfer failed the only reply there can be is the one waited for,
\* and a session that exits 0 leaves the channel quiet (do_advance, pakon_cmd).
THEOREM ChannelInStep == Spec => []InStep
<1>1. TypeOK /\ ExchangeInv => InStep
  <2> SUFFICES ASSUME TypeOK, ExchangeInv PROVE InStep
    OBVIOUS
  <2>1. ASSUME NEW x PROVE Len(<<x>>) = 1 /\ Len(<<>>) = 0
    OBVIOUS
  <2>2. Quiet => Pending = 0
    BY <2>1 DEF Quiet, Pending
  <2>3. Asked \/ Answered => Pending = 1
    BY <2>1 DEF Asked, Answered, Pending
  <2> QED
    BY <2>2, <2>3 DEF ExchangeInv, InStep, Trusted
<1> QED
  BY <1>1, ExchangeInit, ExchangeStep, TypeCorrect, PTL DEF Spec

-----------------------------------------------------------------------------
(* The film.                                                               *)

\* A script prefix that ends with the motor stopped either ends with the a2 or
\* was stopped before its last line, which does not start the motor again.
LEMMA StoppedLater ==
  ASSUME NEW s, NEW p \in Nat, StoppedBefore(s, p + 1)
  PROVE  s[p] = "a2" \/ (StoppedBefore(s, p) /\ s[p] # "a0")
<1>1. PICK k \in 1 .. (p + 1) - 1 :
        s[k] = "a2" /\ \A j \in k + 1 .. (p + 1) - 1 : s[j] # "a0"
  BY DEF StoppedBefore
<1>2. CASE k = p
  BY <1>1, <1>2
<1>3. CASE k # p
  <2>1. k \in 1 .. p - 1 /\ p \in k + 1 .. (p + 1) - 1
    BY <1>3
  <2>2. \A j \in k + 1 .. p - 1 : j \in k + 1 .. (p + 1) - 1
    OBVIOUS
  <2> QED
    BY <1>1, <2>1, <2>2 DEF StoppedBefore
<1> QED
  BY <1>2, <1>3

\* When a line is read with the channel as ExchangeInv says, a prefix that
\* stops the motor has stopped it.
LEMMA LineRead ==
  ASSUME TypeOK, FilmInv, Trusted, pc = "script",
         StoppedBefore(script, pos + 1),
         (awaiting /\ Answered) \/ (Quiet /\ script[pos] \notin Commands)
  PROVE  ~motor
<1>1. script[pos] = "a2" \/ (StoppedBefore(script, pos) /\ script[pos] # "a0")
  BY StoppedLater DEF TypeOK, ProcessTypeOK
<1>2. CASE script[pos] = "a2"
  BY <1>2 DEF FilmInv, Commands
<1>3. CASE StoppedBefore(script, pos) /\ script[pos] # "a0"
  BY <1>3 DEF FilmInv
<1> QED
  BY <1>1, <1>2, <1>3

\* A quiet channel holds no answer.
LEMMA QuietNotAnswered == Quiet => ~Answered /\ ~Asked /\ replies # <<"success">>
  BY OneElement DEF Quiet, Asked, Answered

\* An unserved command is not answered.
LEMMA AskedNotAnswered == Asked => ~Answered /\ replies # <<"success">>
  BY OneElement DEF Asked, Answered

\* The film does what the code of the process supposes, step by step.
LEMMA FilmStep == TypeOK /\ ExchangeInv /\ FilmInv /\ [Next]_vars => FilmInv'
<1> SUFFICES ASSUME TypeOK, ExchangeInv, FilmInv, [Next]_vars PROVE FilmInv'
  OBVIOUS
<1>b. awaiting \in BOOLEAN /\ errs \in BOOLEAN /\ clean \in BOOLEAN /\ motor \in BOOLEAN
  BY DEF TypeOK, ChannelTypeOK, ProcessTypeOK
<1>q. (Quiet => ~Answered /\ replies # <<"success">>)'
  BY QuietNotAnswered, PTL
<1>a. (Asked => ~Answered /\ replies # <<"success">>)'
  BY AskedNotAnswered, PTL
<1>x. ExchangeInv'
  BY ExchangeStep
<1> USE DEF device, args, progress
<1>1. CASE Start
  <2>1. pc' = "script" /\ steps' = 0 /\ pos' = 1 /\ awaiting' = FALSE
    BY <1>1 DEF Start
  <2>2. ~StoppedBefore(script, pos)'
    BY <2>1 DEF StoppedBefore
  <2> QED
    BY <2>1, <2>2 DEF FilmInv, MotorStopped
<1>2. CASE StartFails
  BY <1>2 DEF StartFails, FilmInv, MotorStopped
<1>3. CASE CommandLine
  <2>0. pc = "script" /\ pc' = "script" /\ steps' = steps /\ UNCHANGED <<script, motor, clean>>
    BY <1>3 DEF CommandLine, AtLine, NextLine
  <2>1. CASE Sends(script[pos]) /\ UNCHANGED <<pc, progress, timeUp, device, args>>
    <3>1. errs' = errs /\ ~awaiting /\ awaiting' /\ pos' = pos
      BY <2>1 DEF Sends
    <3>2. Trusted' => Trusted /\ Quiet
      BY <2>0, <3>1 DEF ExchangeInv, Trusted
    <3>3. Trusted' => Asked'
      BY <2>0, <2>1, <3>2, Sending DEF Asked, Current
    <3>4. Trusted' => ~Answered /\ ~Answered'
      BY <3>2, <3>3, <1>a, QuietNotAnswered
    <3> QED
      BY <2>0, <3>1, <3>2, <3>4 DEF FilmInv, MotorStopped, StoppedBefore
  <2>2. CASE (\E st \in Statuses : Receives(st)) /\ NextLine
    <3>1. awaiting /\ awaiting' = FALSE /\ errs' = errs /\ pos' = pos + 1
      BY <2>2 DEF Receives, NextLine
    <3>2. Trusted' => Trusted /\ Answered
      BY <2>0, <2>2, <3>1, Receiving DEF ExchangeInv, Trusted
    <3>3. Trusted' /\ StoppedBefore(script, pos)' => ~motor'
      <4>1. StoppedBefore(script, pos)' => StoppedBefore(script, pos + 1)
        BY <2>0, <3>1 DEF StoppedBefore
      <4> QED
        BY <2>0, <3>1, <3>2, <4>1, LineRead
    <3> QED
      BY <2>0, <3>1, <3>3 DEF FilmInv, MotorStopped
  <2>3. CASE (SendFails(script[pos]) \/ ReceiveFails) /\ NextLine
    <3>1. ~Trusted'
      BY <2>3, Failing DEF Trusted
    <3> QED
      BY <2>0, <3>1 DEF FilmInv, MotorStopped
  <2> QED
    BY <1>3, <2>1, <2>2, <2>3 DEF CommandLine
<1>4. CASE ControlLine
  <2>0. /\ pc = "script" /\ pc' = "script" /\ steps' = steps /\ pos' = pos + 1
        /\ script[pos] = "control" /\ ~awaiting /\ awaiting' = awaiting
        /\ UNCHANGED <<script, motor, clean>>
    BY <1>4 DEF ControlLine, AtLine, NextLine, ExchangeInv, Commands
  <2>1. Trusted' => Trusted /\ Quiet
    BY <1>4, <2>0, <1>b DEF ControlLine, ExchangeInv, Trusted
  <2>2. StoppedBefore(script, pos)' => StoppedBefore(script, pos + 1)
    BY <2>0 DEF StoppedBefore
  <2>3. Trusted' /\ StoppedBefore(script, pos)' => ~motor'
    BY <2>0, <2>1, <2>2, LineRead DEF Commands
  <2> QED
    BY <2>0, <2>3 DEF FilmInv, MotorStopped
<1>5. CASE BadLine
  BY <1>5 DEF BadLine, FilmInv, MotorStopped
<1>6. CASE ScriptEnds
  <2>0. /\ pc = "script" /\ pc' = "check" /\ steps = 0 /\ steps' = 0
        /\ UNCHANGED <<channel, script, motor, clean>>
    BY <1>6 DEF ScriptEnds, FilmInv
  <2>1. ~awaiting
    BY <1>6 DEF ScriptEnds, AtLine, ExchangeInv, TypeOK, ProcessTypeOK
  <2>2. Trusted' => Trusted /\ ~Answered
    BY <2>0, <2>1, QuietNotAnswered DEF ExchangeInv, Trusted, channel
  <2>3. pos = Len(script) + 1
    BY <1>6, ScriptLength DEF ScriptEnds, TypeOK, ProcessTypeOK
  <2>4. StopsMotor(script)' => StoppedBefore(script, pos)
    <3>1. (Len(script) + 1) - 1 = Len(script)
      BY ScriptLength DEF TypeOK, ProcessTypeOK
    <3> QED
      BY <2>0, <2>3, <3>1 DEF StopsMotor, StoppedBefore
  <2> QED
    BY <2>0, <2>2, <2>4 DEF FilmInv, MotorStopped
<1>7. CASE NextStep
  <2>1. pc = "check" /\ ~awaiting /\ pc' = "a0" /\ UNCHANGED <<channel, clean>>
    BY <1>7 DEF NextStep, AtLine, ExchangeInv
  <2>2. Trusted' => ~Answered'
    BY <2>1, <1>q, <1>x DEF ExchangeInv, channel
  <2> QED
    BY <2>1, <2>2 DEF FilmInv, MotorStopped
<1>8. CASE OutOfTime
  BY <1>8 DEF OutOfTime, FilmInv, MotorStopped
<1>9. CASE Done
  <2>1. /\ pc = "check" /\ steps = want /\ pc' = "exited" /\ (rc' = "ok" => ~errs)
        /\ UNCHANGED <<motor, clean, want, script>>
    BY <1>9 DEF Done
  <2>2. (StopsMotor(script))' => StopsMotor(script)
    BY <2>1 DEF StopsMotor
  <2>3. MotorStopped'
    BY <2>1, <2>2 DEF FilmInv, MotorStopped, Trusted
  <2> QED
    BY <2>1, <2>3 DEF FilmInv
<1>10. CASE StartMotor
  <2>0. pc = "a0" /\ UNCHANGED <<motor, inPlace, clean>>
    BY <1>10 DEF StartMotor
  <2>1. CASE Sends("a0") /\ UNCHANGED <<pc, rc>>
    <3>1. Trusted' => Asked'
      BY <2>0, <2>1, Sending DEF ExchangeInv, Trusted, Sends, Asked, Current
    <3> QED
      BY <2>0, <2>1, <3>1, <1>a DEF FilmInv, MotorStopped
  <2>2. CASE (\E st \in Statuses : Receives(st)) /\ pc' = "poll" /\ UNCHANGED rc
    <3>1. awaiting /\ awaiting' = FALSE /\ errs' = errs
      BY <2>2 DEF Receives
    <3>2. Trusted' => Trusted /\ Answered
      BY <2>0, <2>2, <3>1, Receiving DEF ExchangeInv, Trusted
    <3>3. Trusted' => Quiet'
      BY <2>2, <3>1, <1>x DEF ExchangeInv
    <3> QED
      BY <2>0, <2>2, <3>2, <3>3, <1>q DEF FilmInv, MotorStopped
  <2>3. CASE (SendFails("a0") \/ ReceiveFails) /\ pc' = "exited" /\ rc' = "failed"
    BY <2>3 DEF FilmInv, MotorStopped
  <2> QED
    BY <1>10, <2>1, <2>2, <2>3 DEF StartMotor
<1>11. CASE Poll
  <2>0. pc = "poll" /\ UNCHANGED <<motor, inPlace, clean, steps, seen>>
    BY <1>11 DEF Poll
  <2>1. CASE Sends("host") /\ UNCHANGED pc
    <3>1. Trusted' => Trusted /\ Asked'
      BY <2>0, <2>1, Sending DEF ExchangeInv, Trusted, Sends, Asked, Current
    <3> QED
      BY <2>0, <2>1, <3>1, <1>a DEF FilmInv, MotorStopped
  <2>2. CASE (SendFails("host") \/ ReceiveFails) /\ pc' = "a2"
    <3>1. ~Trusted'
      BY <2>2, Failing DEF Trusted
    <3> QED
      BY <2>2, <3>1 DEF FilmInv, MotorStopped
  <2> QED
    BY <1>11, <2>1, <2>2 DEF Poll
<1>12. CASE PollAnswered
  <2>0. pc = "poll" /\ UNCHANGED <<motor, inPlace, clean>> /\ pc' \in {"a2", "poll"}
    BY <1>12 DEF PollAnswered
  <2>1. PICK st \in Statuses : Receives(st) /\ seen' = (st = "success")
    BY <1>12 DEF PollAnswered
  <2>2. awaiting /\ awaiting' = FALSE /\ errs' = errs
    BY <2>1 DEF Receives
  <2>3. Trusted' => Trusted /\ replies = <<st>>
    BY <2>0, <2>1, <2>2, Receiving DEF ExchangeInv, Trusted
  <2>4. Trusted' => ~Answered' /\ replies' # <<"success">>
    BY <2>0, <2>2, <1>x, <1>q DEF ExchangeInv
  <2>5. Trusted' => motor' /\ (seen' => inPlace')
    BY <2>0, <2>1, <2>3 DEF FilmInv
  <2> QED
    BY <2>0, <2>4, <2>5 DEF FilmInv, MotorStopped
<1>13. CASE StopMotor
  <2>0. pc = "a2" /\ UNCHANGED <<motor, inPlace, clean, seen>>
    BY <1>13 DEF StopMotor
  <2>1. CASE Sends("a2") /\ UNCHANGED <<pc, steps, short>>
    <3>1. Trusted' => Trusted /\ Asked'
      BY <2>0, <2>1, Sending DEF ExchangeInv, Trusted, Sends, Asked, Current
    <3> QED
      BY <2>0, <2>1, <3>1, <1>a DEF FilmInv, MotorStopped
  <2>2. CASE (\E st \in Statuses : Receives(st)) /\ pc' = "check"
    <3>1. awaiting /\ errs' = errs
      BY <2>2 DEF Receives
    <3>2. Trusted' => Trusted /\ Answered
      BY <2>0, <2>2, <3>1, Receiving DEF ExchangeInv, Trusted
    <3> QED
      BY <2>0, <2>2, <3>2 DEF FilmInv, MotorStopped
  <2>3. CASE (SendFails("a2") \/ ReceiveFails) /\ pc' = "check"
    <3>1. ~Trusted'
      BY <2>3, Failing DEF Trusted
    <3> QED
      BY <2>3, <3>1 DEF FilmInv, MotorStopped
  <2> QED
    BY <1>13, <2>1, <2>2, <2>3 DEF StopMotor
<1>14. CASE Killed
  BY <1>14 DEF Killed, FilmInv, MotorStopped
<1>15. CASE TimePasses \/ Arrives \/ UNCHANGED vars
  <2>1. /\ UNCHANGED <<channel, pc, pos, rc, script, clean, steps, seen, motor, want>>
        /\ inPlace => inPlace'
        /\ inPlace' = inPlace \/ inPlace' = TRUE
    BY <1>15 DEF TimePasses, Arrives, vars
  <2>2. /\ Trusted' = Trusted /\ Answered' = Answered
        /\ StoppedBefore(script, pos)' = StoppedBefore(script, pos)
        /\ StopsMotor(script)' = StopsMotor(script)
    BY <2>1 DEF channel, Trusted, Answered, StoppedBefore, StopsMotor
  <2> QED
    BY <2>1, <2>2 DEF channel, FilmInv, MotorStopped
<1>16. CASE ServeCommand
  <2>0. UNCHANGED <<pc, pos, rc, script, clean, steps, seen, want>>
    BY <1>16 DEF ServeCommand
  <2>1. PICK c \in Commands, st \in Statuses :
          /\ Serves(c, st)
          /\ c = "host" /\ motor => st = IF inPlace THEN "success" ELSE "busy"
          /\ motor' = (c = "a0" \/ (motor /\ c # "a2"))
          /\ inPlace' = (inPlace /\ c # "a0")
    BY <1>16 DEF ServeCommand
  <2>2. requests # <<>> /\ awaiting' = awaiting /\ errs' = errs
    BY <2>1 DEF Serves
  <2>3. Trusted' /\ pc # "exited" =>
          /\ Trusted /\ awaiting /\ Asked /\ c = Current
          /\ requests' = <<>> /\ replies' = <<st>>
    BY <2>0, <2>1, <2>2, Serving DEF ExchangeInv, Quiet, Trusted
  <2>4. ~(pc = "exited" /\ rc = "ok" /\ clean)
    BY <2>2 DEF ExchangeInv, Quiet
  <2>5. CASE ~Trusted' \/ pc = "exited"
    BY <2>0, <2>4, <2>5 DEF FilmInv, MotorStopped
  <2>6. CASE Trusted' /\ pc = "script"
    <3>1. c = script[pos] /\ script' = script /\ pos' = pos /\ ~Answered
      BY <2>0, <2>3, <2>6, AskedNotAnswered DEF Current
    <3>2. StoppedBefore(script, pos)' => ~motor' \/ c = "a0"
      BY <2>1, <2>3, <2>6, <3>1 DEF FilmInv, StoppedBefore
    <3>3. Answered'
      BY <2>3, <2>6 DEF Answered
    <3>4. c = "a2" => ~motor'
      BY <2>1
    <3> QED
      BY <2>0, <2>6, <3>1, <3>2, <3>3, <3>4 DEF FilmInv, MotorStopped
  <2>7. CASE Trusted' /\ pc \in {"check", "a0", "poll", "a2"}
    <3>1. pc # "check"
      BY <2>3, <2>7 DEF ExchangeInv, AtLine
    <3>2. c = (IF pc = "a0" THEN "a0" ELSE IF pc = "poll" THEN "host" ELSE "a2")
      BY <2>3, <2>7, <3>1 DEF Current
    <3>3. CASE pc = "a0"
      BY <2>0, <2>1, <3>2, <3>3 DEF FilmInv, MotorStopped
    <3>4. CASE pc = "poll"
      <4>1. motor /\ motor' /\ inPlace' = inPlace
        BY <2>1, <2>3, <2>7, <3>2, <3>4, <1>b DEF FilmInv, TypeOK, ProcessTypeOK
      <4>2. replies' = <<"success">> => inPlace'
        BY <2>1, <2>3, <2>7, <3>2, <3>4, <4>1
      <4> QED
        BY <2>0, <3>4, <4>1, <4>2 DEF FilmInv, MotorStopped
    <3>5. CASE pc = "a2"
      BY <2>0, <2>1, <2>3, <2>7, <3>2, <3>5 DEF FilmInv, MotorStopped, TypeOK, ProcessTypeOK
    <3> QED
      BY <2>7, <3>1, <3>3, <3>4, <3>5
  <2> QED
    BY <2>5, <2>6, <2>7 DEF TypeOK, ProcessTypeOK
<1> QED
  BY <1>1, <1>2, <1>3, <1>4, <1>5, <1>6, <1>7, <1>8, <1>9, <1>10, <1>11, <1>12,
     <1>13, <1>14, <1>15, <1>16, Zenon DEF Next, Proceed

\* The film is still before the first session.
LEMMA FilmInit == Init => FilmInv
  BY DEF Init, FilmInv, MotorStopped

\* What the film does, of every reachable state.
LEMMA FilmAlways == Spec => []FilmInv
  BY FilmInit, FilmStep, ExchangeInit, ExchangeStep, TypeCorrect, PTL DEF Spec

\* While no transfer failed, a step whose polling ended on PS_SUCCESS has its
\* frame in position: the status byte was not a late one (do_advance's poll).
THEOREM SuccessIsThisFrame == Spec => []StatusTrusted
<1>1. FilmInv => StatusTrusted
  BY DEF FilmInv, StatusTrusted, Trusted
<1> QED
  BY <1>1, FilmAlways, PTL

\* A session that exits 0 and stepped, or ran a script that stops the motor,
\* leaves the motor stopped, however its polls ended (do_advance's a2).
THEOREM MotorStoppedAtExit == Spec => []MotorStopped
<1>1. FilmInv => MotorStopped
  BY DEF FilmInv
<1> QED
  BY <1>1, FilmAlways, PTL

=============================================================================
