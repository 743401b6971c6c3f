------------------------------ MODULE ScanHost ------------------------------
(***************************************************************************)
(* What do_scan and do_scan_sm of tools/pakon_replay.c share: one host     *)
(* process that replays the lines of a script over USB, the scanner it     *)
(* drives, the image file it writes, the end-of-roll detector and the      *)
(* replay of the captured teardown tail.  ScanReplay and DrivenScan extend *)
(* this module and add the control flow that is theirs.                    *)
(*                                                                         *)
(* The scanner keeps its state when the process ends: a session starts     *)
(* with the engines as the previous one, finished or killed, left them.    *)
(* Everything the wire can do to a transfer is a disjunct: it is delivered *)
(* and answered, delivered and not answered in time, or not delivered.     *)
(***************************************************************************)
EXTENDS ScanLines, FiniteSets

CONSTANTS
  MaxSessions,   \* bound: sessions a behaviour runs one after the other
  MaxErrs,       \* bound: failed transfers in one session
  FifoCap,       \* bound: chunks left in the device when its readout stops
  FileCap        \* bound: chunks of the image file past which none is recorded

ASSUME BoundsAssumption ==
  /\ MaxSessions \in Nat
  /\ MaxErrs \in Nat
  /\ FifoCap \in Nat
  /\ FileCap \in Nat

VARIABLES
  pc,          \* where the process is; "exited" when none runs
  script,      \* the script of this session
  pos,         \* the line fgets returns next
  rc,          \* exit status: "ok" (0), "failed" (1), or "killed"
  errs,        \* transfer errors counted
  armed,       \* the end-of-roll detector is watching
  filmSeen,    \* detector: film_seen
  trailWhite,  \* detector: trail_white
  engines,     \* device: the engines that run
  fifo,        \* device: chunks still buffered after the readout stopped
  file,        \* image file: the kinds of the chunks written to it
  mark,        \* history: chunks in the file when the roll began; -1 before
  missed,      \* history: engines whose latest stop did not reach the device
  sessions     \* history: sessions started

detector == <<armed, filmSeen, trailWhite, mark>>
device   == <<engines, fifo>>
hostVars == <<pc, script, pos, rc, errs, detector, device, file, missed, sessions>>

HostTypeOK(pcs) ==
  /\ pc \in pcs \cup {"exited"}
  /\ script \in Scripts \cup {<<>>}
  /\ pos \in 1 .. Len(script) + 1
  /\ rc \in {"ok", "failed", "killed"}
  /\ errs \in 0 .. MaxErrs
  /\ armed \in BOOLEAN
  /\ filmSeen \in BOOLEAN
  /\ trailWhite \in Nat
  /\ engines \subseteq Engines
  /\ fifo \in 0 .. FifoCap
  /\ file \in Seq(Kinds)
  /\ mark \in -1 .. Len(file)
  /\ missed \subseteq Engines
  /\ sessions \in Nat

HostInit ==
  /\ pc = "exited" /\ script = <<>> /\ pos = 1 /\ rc = "ok" /\ errs = 0
  /\ armed = FALSE /\ filmSeen = FALSE /\ trailWhite = 0 /\ mark = -1
  /\ engines = {} /\ fifo = 0 /\ file = <<>> /\ missed = {} /\ sessions = 0

-----------------------------------------------------------------------------
(* Opening.  The script, the USB context, the device and its interface are *)
(* acquired first and the image file last: only a session that has all of  *)
(* them truncates the file.                                                *)

Open(s, first) ==
  /\ pc = "exited" /\ sessions < MaxSessions
  /\ sessions' = sessions + 1
  /\ pc' = first /\ script' = s /\ pos' = 1
  /\ rc' = "ok" /\ errs' = 0 /\ missed' = {}
  /\ armed' = FALSE /\ filmSeen' = FALSE /\ trailWhite' = 0 /\ mark' = -1
  /\ file' = <<>>
  /\ UNCHANGED device

\* Variant: the image file is created before the device is there.
OpenFailsTruncating ==
  /\ pc = "exited" /\ sessions < MaxSessions
  /\ sessions' = sessions + 1
  /\ rc' = "failed" /\ file' = <<>>
  /\ UNCHANGED <<pc, script, pos, errs, detector, device, missed>>

OpenFails ==
  /\ pc = "exited" /\ sessions < MaxSessions
  /\ sessions' = sessions + 1
  /\ rc' = "failed"
  /\ UNCHANGED <<pc, script, pos, errs, detector, device, file, missed>>

-----------------------------------------------------------------------------
(* Transfers.                                                              *)

Fault == errs < MaxErrs /\ errs' = errs + 1

\* What the device does with a command that reached it.  A readout that is
\* stopped leaves what it has buffered to be read.
Executes(l) ==
  /\ engines' = AfterCommand(engines, l)
  /\ IF "readout" \in engines \ engines' THEN fifo' \in 0 .. FifoCap
                                         ELSE fifo' = fifo
  /\ missed' = missed \ MissedBy(l)

\* A command and its reply on EP1 (pakon_usb_send, then pakon_usb_recv).
SendCommand(l) ==
  \/ Executes(l) /\ UNCHANGED errs
  \/ Executes(l) /\ Fault
  \/ Fault /\ missed' = missed \cup MissedBy(l) /\ UNCHANGED device

\* A control transfer, a status poll: no engine hears of it.
SendOther ==
  /\ \/ UNCHANGED errs
     \/ Fault
  /\ UNCHANGED <<device, missed>>

\* One read of endpoint 0x86: some bytes arrive, whatever the result of the
\* transfer, and the caller writes them to the file ...
ReadsChunk ==
  /\ "readout" \in engines \/ fifo > 0
  /\ fifo' = IF "readout" \in engines THEN fifo ELSE fifo - 1
  /\ UNCHANGED engines
  /\ \/ UNCHANGED errs
     \/ Fault

\* ... or the window elapses, or the transfer fails, with no byte read.
ReadsNothing ==
  /\ \/ UNCHANGED errs
     \/ Fault
  /\ UNCHANGED <<device, file>>

-----------------------------------------------------------------------------
(* The end-of-roll detector, the same lines in both scan loops.            *)

EndOfRoll(k) == filmSeen /\ k = "white" /\ trailWhite + 1 >= TrailWhite

\* Variant: film does not start the count again.
NextTrailNoReset(k) == IF k = "white" /\ filmSeen THEN trailWhite + 1 ELSE trailWhite

NextTrail(k) ==
  IF k = "film" THEN 0
  ELSE IF k = "white" /\ filmSeen THEN trailWhite + 1
  ELSE trailWhite

Observe(k) ==
  /\ filmSeen' = (filmSeen \/ k = "film")
  /\ trailWhite' = NextTrail(k)
  /\ UNCHANGED <<armed, mark>>

-----------------------------------------------------------------------------
(* sm_replay_teardown: the script is opened a second time and every O and  *)
(* C line after its last M line is replayed; a malformed line is skipped   *)
(* here, where the replay proper gives up on it.                           *)

TeardownOpens ==
  /\ pc = "rewind"
  /\ pc' = "teardown" /\ pos' = 1
  /\ UNCHANGED <<script, rc, errs, detector, device, file, missed, sessions>>

TeardownSkips ==
  /\ pc = "teardown" /\ pos <= Len(script)
  /\ ~InTail(script, pos) \/ script[pos] \in BadLines
  /\ pos' = pos + 1
  /\ UNCHANGED <<pc, script, rc, errs, detector, device, file, missed, sessions>>

TeardownSends ==
  /\ pc = "teardown" /\ pos <= Len(script)
  /\ InTail(script, pos)
  /\ \/ script[pos] \in Commands /\ SendCommand(script[pos])
     \/ script[pos] = "control" /\ SendOther
  /\ pos' = pos + 1
  /\ UNCHANGED <<pc, script, rc, detector, file, sessions>>

-----------------------------------------------------------------------------
(* The process is killed: what stdio had not flushed is lost, and nothing  *)
(* tells the scanner.                                                      *)

Kill ==
  /\ pc # "exited"
  /\ pc' = "exited" /\ rc' = "killed"
  /\ \E n \in 0 .. 1 :
       n <= Len(file) /\ file' = SubSeq(file, 1, Len(file) - n)
  /\ mark' = -1
  /\ UNCHANGED <<script, pos, errs, armed, filmSeen, trailWhite, device, missed, sessions>>

-----------------------------------------------------------------------------
(* What the engines may be doing once the script was replayed up to pos:   *)
(* an engine runs on after its stop in the tail only if it was started     *)
(* again since, or that stop was missed.                                   *)

RestartedSince ==
  \A e \in engines \ missed, k \in 1 .. pos - 1 :
    InTail(script, k) /\ script[k] = StopOf(e) =>
      \E j \in k + 1 .. pos - 1 : script[j] = StartOf(e)

-----------------------------------------------------------------------------
(* What the detector should hold, read off an image file f in which the    *)
(* roll began after chunk m.                                               *)

\* The chunks the detector has to judge.
Watched(f, m) == {i \in 1 .. Len(f) : m # -1 /\ i > m}

FilmIn(f, m) == \E i \in Watched(f, m) : f[i] = "film"

\* The open-gate chunks that follow the last film chunk.
TrailingWhites(f, m) ==
  {i \in Watched(f, m) :
     /\ f[i] = "white"
     /\ \E j \in Watched(f, m) : j < i /\ f[j] = "film"
     /\ \A j \in Watched(f, m) : j > i => f[j] # "film"}

=============================================================================
