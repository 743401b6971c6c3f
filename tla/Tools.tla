------------------------------- MODULE Tools -------------------------------
(***************************************************************************)
(* The short tools: `pakon_replay --open`, `--read-params`, `--configure`  *)
(* (tools/pakon_replay.c), and `pakon_probe --load-firmware`, `--raw` and  *)
(* its default (tools/pakon_probe.c), run one after another on one scanner *)
(* that may be switched off at any time.  Every tool opens, claims, does   *)
(* its exchanges, releases, closes; what it leaves unread on the endpoints *)
(* meets the next one.                                                     *)
(***************************************************************************)
EXTENDS Firmware, CmdChannel, Framing, CalibMath

CONSTANTS
  Config,       \* the register writes of --configure
  Preludes,     \* scripts --prelude may name: sequences of lines
  RawPackets,   \* what --raw may be asked to send
  NChunks,      \* pieces the parameter table is read in: 16 in the code
  MaxSessions,  \* bound: tools run
  MaxCycles     \* bound: times the scanner is switched off

ASSUME ToolsAssumption ==
  /\ Config \in Seq([bank : {130, 132}, reg : Byte, value : Word])
  /\ \A i, j \in DOMAIN Config :
       Config[i].bank = Config[j].bank /\ Config[i].reg = Config[j].reg => i = j
  /\ RawPackets \subseteq Packets
  /\ \A p \in Preludes : p \in Seq([kind : {"O", "C", "M", "bad"}, pkt : Packets])
  /\ NChunks \in Nat /\ MaxSessions \in Nat /\ MaxCycles \in Nat

VARIABLES
  tool,        \* "open", "params", "configure", "raw", "load" or "dump"
  pc,          \* the call the tool is in
  todo,        \* exchanges it has before it
  failed,      \* it will exit with a status other than 0
  sessions,    \* tools begun
  cycles,      \* times the scanner was switched off
  cycled,      \* history: it was, since the tool began
  regs,        \* scanner: registers of its picture chips
  refused,     \* history: it refused a write since the tool began
  astray       \* history: the tool read a reply while others were due

session == <<tool, pc, todo, failed, sessions, astray>>
scanner == <<cycles, cycled, regs, refused>>
vars    == <<usb, load, channel, session, scanner>>

-----------------------------------------------------------------------------
(* What the tools send.                                                    *)

\* OPEN_SEQ: what is sent, and the reply of the capture.
OpenSeq ==
  << [out |-> Build(4, <<16, 0, 133>>),    expect |-> <<7, 2, 16, 0>>],
     [out |-> Build(2, <<16, 1, 143, 0>>), expect |-> <<7, 2, 16, 0>>],
     [out |-> Build(4, <<68, 0, 0>>),      expect |-> <<7, 2, 68, 1>>],
     [out |-> Build(4, <<70, 0, 0>>),      expect |-> <<7, 2, 70, 1>>],
     [out |-> Build(4, <<36, 0, 0>>),      expect |-> <<7, 2, 36, 0>>] >>

\* An exchange: what becomes of the tool when it fails.  "check" compares the
\* reply and counts, "ignore" goes on, "abort" ends the tool; "post" does not
\* ask for a reply, "raw" takes any, "chunk" is a control read that counts,
\* "skip" does not use the channel.
Exchange(mode, pkt, expect) == [mode |-> mode, pkt |-> pkt, expect |-> expect]

Handshake(mode) ==
  [i \in DOMAIN OpenSeq |-> Exchange(mode, OpenSeq[i].out, OpenSeq[i].expect)]

\* calib_replay_prelude: the commands of a script are sent.  Its control
\* transfers do not use the channel; image reads and mangled lines are skipped.
PreludeSteps(script) ==
  [i \in DOMAIN script |->
     Exchange(IF script[i].kind = "O" THEN "ignore" ELSE "skip", script[i].pkt, <<>>)]

Chunks == [i \in 1 .. NChunks |-> Exchange("chunk", Build(0, <<>>), <<>>)]

\* Variant: the writes go on after one that failed.
ConfigWritesIgnored ==
  [i \in DOMAIN Config |-> Exchange("ignore", BuildWrite(Config[i]), <<>>)]

\* pakon_calib_configure.
ConfigWrites ==
  [i \in DOMAIN Config |-> Exchange("abort", BuildWrite(Config[i]), <<>>)]

\* --configure goes on with no command sent when its prelude cannot be opened.
Plans(t) ==
  CASE t = "open"      -> {Handshake("check")}
    [] t = "params"    -> {Handshake("ignore") \o Chunks}
    [] t = "configure" -> {before \o ConfigWrites : before \in
                            {Handshake("ignore"), <<>>}
                              \cup {PreludeSteps(p) : p \in Preludes}}
    [] t = "raw"       -> {<<Exchange(mode, pkt, <<>>)>> : mode \in {"post", "raw"},
                                                         pkt \in RawPackets}
    [] OTHER           -> {<<>>}

ToolNames == {"open", "params", "configure", "raw", "load", "dump"}

Registers == {<<Config[i].bank, Config[i].reg>> : i \in DOMAIN Config}

Init ==
  /\ UsbInit /\ LoadInit /\ ChannelInit
  /\ tool = "open" /\ pc = "idle" /\ todo = <<>> /\ failed = FALSE
  /\ sessions = 0 /\ cycles = 0 /\ cycled = FALSE
  /\ regs = [r \in Registers |-> 0]
  /\ refused = FALSE /\ astray = FALSE

-----------------------------------------------------------------------------
(* From the command line to the claim, and back.                           *)

Begins ==
  /\ pc \in {"idle", "exited"} /\ sessions < MaxSessions
  /\ \E t \in ToolNames : tool' = t /\ todo' \in Plans(t)
  /\ pc' = "init" /\ sessions' = sessions + 1
  /\ failed' = FALSE /\ astray' = FALSE /\ errs' = FALSE
  /\ cycled' = FALSE /\ refused' = FALSE
  /\ UNCHANGED <<usb, load, awaiting, requests, replies, cycles, regs>>

Goes(to)     == pc' = to /\ UNCHANGED <<tool, todo, failed, sessions, astray>>
GivesUp(to)  == pc' = to /\ failed' = TRUE /\ UNCHANGED <<tool, todo, sessions, astray>>
Elsewhere    == UNCHANGED <<load, channel, scanner>>

\* Nothing was acquired yet.
InitFails == pc = "init" /\ GivesUp("exited") /\ UNCHANGED usb /\ Elsewhere

Inits ==
  /\ pc = "init" /\ InitUsb /\ Goes(IF tool = "dump" THEN "find" ELSE "open")
  /\ Elsewhere

\* The default of pakon_probe classifies what it finds; no scanner, or a cold
\* one, is not a failure.
Finds ==
  /\ pc = "find" /\ UNCHANGED usb /\ Elsewhere
  /\ \/ Goes(IF Found = "warm" THEN "open" ELSE "exit")
     \/ GivesUp("exit")

OpenFails == pc = "open" /\ GivesUp("exit") /\ UNCHANGED usb /\ Elsewhere

Opens ==
  /\ pc = "open" /\ tool # "load" /\ Open
  /\ Goes(IF tool = "dump" THEN "close" ELSE "claim")
  /\ Elsewhere

Claims == pc = "claim" /\ Claim /\ Goes("body") /\ Elsewhere

\* Busy, gone, or --raw with --alt 1, its default, which this scanner refuses.
ClaimRefused == pc = "claim" /\ ClaimFails /\ GivesUp("close") /\ Elsewhere

Releases == pc = "release" /\ Release /\ Goes("close") /\ Elsewhere

Closes ==
  /\ pc = "close" /\ Close
  /\ Goes(IF tool = "load" /\ ~failed THEN "wait" ELSE "exit")
  /\ Elsewhere

Exits == pc = "exit" /\ ExitUsb /\ Goes("exited") /\ Elsewhere

-----------------------------------------------------------------------------
(* Exchanges.                                                              *)

Step  == Head(todo)
Frame == Serialize(Step.pkt)
AtStep == pc = "body" /\ todo # <<>>

\* The exchange is over; bad when it failed.
Ends(bad) ==
  /\ failed' = (failed \/ (bad /\ Step.mode # "ignore"))
  /\ todo' = IF bad /\ Step.mode = "abort" THEN <<>> ELSE Tail(todo)
  /\ UNCHANGED <<tool, pc, sessions>>

StepSends ==
  /\ AtStep /\ handle = "live" /\ Step.mode \notin {"post", "chunk", "skip"}
  /\ Sends(Frame)
  /\ UNCHANGED <<usb, load, session, scanner>>

StepPosts ==
  /\ AtStep /\ handle = "live" /\ Step.mode = "post"
  /\ Posts(Frame) /\ Ends(FALSE)
  /\ UNCHANGED <<usb, load, scanner, astray>>

StepSendFails ==
  /\ AtStep /\ ~awaiting /\ Step.mode \notin {"chunk", "skip"}
  /\ \/ handle = "live" /\ SendFails(Frame)
     \/ handle = "gone" /\ errs' = TRUE /\ UNCHANGED <<awaiting, requests, replies>>
  /\ Ends(TRUE)
  /\ UNCHANGED <<usb, load, scanner, astray>>

\* Variant: any reply that reports success will do.
ExpectedSuccess(raw) == Status(Parse(raw)) \in {0, 1}

\* The reply, serialized again, is the captured one to the byte.
Expected(raw) == Serialize(Parse(raw)) = Step.expect

StepReplies ==
  /\ AtStep /\ handle = "live"
  /\ \E raw \in {replies[i] : i \in DOMAIN replies} :
       /\ Receives(raw)
       /\ Ends(Step.mode # "raw" /\ (~WellFramed(raw) \/ (Step.mode = "check" /\ ~Expected(raw))))
  /\ astray' = (astray \/ Pending > 1)
  /\ UNCHANGED <<usb, load, scanner>>

\* --raw takes a timeout for an empty reply.
StepReplyFails ==
  /\ AtStep /\ ReceiveFails
  /\ \E bad \in {TRUE, Step.mode # "raw"} : Ends(bad)
  /\ UNCHANGED <<usb, load, scanner, astray>>

\* A trigger, whose result is ignored, and a read: a short one counts as read.
ReadsChunk ==
  /\ AtStep /\ Step.mode = "chunk"
  /\ \E bad \in {TRUE, handle = "gone"} : Ends(bad)
  /\ UNCHANGED <<usb, load, channel, scanner, astray>>

PassesLine ==
  /\ AtStep /\ Step.mode = "skip" /\ Ends(FALSE)
  /\ UNCHANGED <<usb, load, channel, scanner, astray>>

BodyEnds ==
  /\ pc = "body" /\ todo = <<>> /\ ~awaiting
  /\ Goes("release") /\ UNCHANGED usb /\ Elsewhere

-----------------------------------------------------------------------------
(* --load-firmware.                                                        *)

StartsLoad ==
  /\ pc = "open" /\ tool = "load"
  /\ \E s \in DOMAIN FwScripts : LoadBegins(s)
  /\ Goes("load") /\ UNCHANGED <<channel, scanner>>

ReplaysLine ==
  /\ pc = "load"
  /\ SkipsComment \/ Misses \/ TakesEffect
  /\ UNCHANGED <<channel, session, scanner>>

\* Variant: a line that cannot be parsed is passed over.
MalformedPassedOver ==
  /\ pc = "load" /\ MoreLines /\ Line.op = "bad"
  /\ line' = line + 1
  /\ UNCHANGED <<usb, fw, polls, mem, runs, dropped, channel, session, scanner>>

\* PAKON_ERR_FIRMWARE; the processor is left as the lines before it had it.
Malformed ==
  /\ pc = "load" /\ MoreLines /\ Line.op = "bad"
  /\ GivesUp("close") /\ UNCHANGED usb /\ Elsewhere

EndOfScript == pc = "load" /\ ~MoreLines /\ Goes("close") /\ UNCHANGED usb /\ Elsewhere

SeesWarm == pc = "wait" /\ Found = "warm" /\ Goes("exit") /\ UNCHANGED usb /\ Elsewhere

\* Variant: one poll too many, <= for <.
WaitsOnceMore ==
  /\ pc = "wait" /\ Polls
  /\ IF polls' = MaxPolls + 1 THEN GivesUp("exit") ELSE Goes("wait")
  /\ UNCHANGED <<channel, scanner>>

\* Variant: the bus is looked at until the scanner is there.
WaitsOn ==
  /\ pc = "wait" /\ Found # "warm"
  /\ UNCHANGED vars

Waits ==
  /\ pc = "wait" /\ Polls
  /\ IF polls' = MaxPolls THEN GivesUp("exit") ELSE Goes("wait")
  /\ UNCHANGED <<channel, scanner>>

-----------------------------------------------------------------------------
(* World.                                                                  *)

IsWrite(raw) == Len(raw) = 8 /\ raw[1] = 2 /\ raw[3] = 36 /\ raw[4] = 3

\* The status the capture has for an address.
Normal(addr) == IF addr \in {68, 70} THEN 1 ELSE 0

\* The scanner serves a command, and may refuse it.
ScannerServes ==
  /\ bus = "warm" /\ requests # <<>>
  /\ \E status \in {Normal(Addr(Parse(Head(requests)))), 9} :
       LET raw == Head(requests)
           r   == <<raw[5], raw[6]>>
       IN  /\ Serves(raw, <<7, 2, Addr(Parse(raw)), status>>)
           /\ IF IsWrite(raw) /\ r \in Registers
              THEN IF status = 0
                   THEN regs' = [regs EXCEPT ![r] = raw[7] + 256 * raw[8]] /\ UNCHANGED refused
                   ELSE refused' = TRUE /\ UNCHANGED regs
              ELSE UNCHANGED <<regs, refused>>
  /\ UNCHANGED <<usb, load, session, cycles, cycled>>

ScannerBoots == Boots /\ UNCHANGED <<channel, session, scanner>>

SwitchedOff ==
  /\ bus # "absent" /\ cycles < MaxCycles
  /\ LosesPower
  /\ cycles' = cycles + 1 /\ cycled' = TRUE
  /\ requests' = <<>> /\ replies' = <<>>
  /\ regs' = [r \in Registers |-> 0]
  /\ UNCHANGED <<awaiting, errs, refused, session>>

SwitchedOn ==
  /\ bus = "absent" /\ Appears("cold")
  /\ UNCHANGED <<load, channel, session, scanner>>

\* SIGKILL; what is in flight stays in flight.
Killed ==
  /\ pc \notin {"idle", "exited"} /\ Reaped
  /\ pc' = "exited" /\ failed' = TRUE /\ todo' = <<>>
  /\ awaiting' = FALSE
  /\ UNCHANGED <<bus, load, requests, replies, errs, tool, sessions, astray, scanner>>

Proceed ==
  \/ InitFails \/ Inits \/ Finds \/ OpenFails \/ Opens \/ Claims \/ ClaimRefused
  \/ StepSends \/ StepPosts \/ StepSendFails \/ StepReplies \/ StepReplyFails
  \/ ReadsChunk \/ PassesLine \/ BodyEnds
  \/ StartsLoad \/ ReplaysLine \/ Malformed \/ EndOfScript \/ SeesWarm \/ Waits
  \/ Releases \/ Closes \/ Exits

World == ScannerServes \/ ScannerBoots \/ SwitchedOff \/ SwitchedOn \/ Killed

Next == Begins \/ Proceed \/ World

\* Every call of a tool returns: transfers carry a timeout.
Spec == Init /\ [][Next]_vars /\ WF_vars(Proceed)

-----------------------------------------------------------------------------
(* Properties.                                                             *)

Modes == {"check", "ignore", "abort", "post", "raw", "chunk", "skip"}

TypeOK ==
  /\ UsbTypeOK /\ LoadTypeOK /\ ChannelTypeOK(Seq(Byte), Seq(Byte))
  /\ tool \in ToolNames
  /\ pc \in {"idle", "init", "find", "open", "claim", "body", "load", "wait",
             "release", "close", "exit", "exited"}
  /\ todo \in Seq([mode : Modes, pkt : Packets, expect : Seq(Byte)])
  /\ failed \in BOOLEAN /\ sessions \in 0 .. MaxSessions
  /\ cycles \in 0 .. MaxCycles /\ cycled \in BOOLEAN
  /\ regs \in [Registers -> Word]
  /\ refused \in BOOLEAN /\ astray \in BOOLEAN

\* Whatever fails on the way, a tool holds the interface of a scanner that is
\* there exactly while pakon_dev says so (outside the load, which does not use
\* one), and ends with its context, handle and claim given back.
Balanced ==
  /\ handle = "live" /\ tool # "load" => (held = claimed)
  /\ pc \in {"idle", "exited"} => NothingHeld

\* "reached Idle": when --open saw the five replies it expects, each was the
\* reply to what it had just sent, and the endpoints are empty for the next
\* tool; replies a killed or timed-out tool left behind are found out.
IdleMeansInStep ==
  pc = "exited" /\ tool = "open" /\ ~failed => ~astray /\ Quiet

\* A --configure that exits 0 leaves the scanner, once it has served what was
\* sent, with every value of the configuration, unless it refused one (which
\* the tool does not notice) or was switched off.
ConfigLands ==
  pc = "exited" /\ tool = "configure" /\ ~failed /\ requests = <<>> /\ ~refused /\ ~cycled
    => \A i \in DOMAIN Config : regs[<<Config[i].bank, Config[i].reg>>] = Config[i].value

\* A --load-firmware that exits 0 leaves the scanner warm and with the whole
\* image of its script, also when an earlier load broke off or was of another
\* script; unless a transfer had no effect (which it tolerates anywhere).
LoadedMeansOurs ==
  pc = "exited" /\ tool = "load" /\ ~failed /\ ~dropped /\ ~cycled
    => bus = "warm" /\ runs = fw

\* The inductive invariant of ConfigLands.  A write that was sent is the last
\* one of its register, still queued or in the register already.
WritesTo(raw, w) == IsWrite(raw) /\ raw[5] = w.bank /\ raw[6] = w.reg

Lands(q, g, w) ==
  \/ \E k \in DOMAIN q :
       /\ q[k] = Serialize(BuildWrite(w))
       /\ \A l \in DOMAIN q : l > k => ~WritesTo(q[l], w)
  \/ g[<<w.bank, w.reg>>] = w.value /\ \A l \in DOMAIN q : ~WritesTo(q[l], w)

\* Where in todo write i of the configuration is; sent, if not positive.
Place(i) == Len(todo) - Len(Config) + i

ConfigInv ==
  tool = "configure" /\ ~failed =>
    /\ pc \in {"release", "close", "exit", "exited"} => todo = <<>>
    /\ \A i \in DOMAIN Config : Place(i) >= 1 => todo[Place(i)] = ConfigWrites[i]
    /\ ~refused /\ ~cycled =>
         \A i \in DOMAIN Config :
           Place(i) < 1 \/ (Place(i) = 1 /\ awaiting) => Lands(requests, regs, Config[i])

\* The inductive invariant of IdleMeansInStep.  Done counts the exchanges that
\* saw the reply they expect, Stale what was on the endpoints before the first;
\* behind it are the commands of the handshake, or the replies to them, in
\* their order, so that a stale reply shifts what each exchange is shown.
Done  == Len(OpenSeq) - Len(todo)
Begun == IF awaiting THEN Done + 1 ELSE Done
Stale == IF awaiting THEN Pending - 1 ELSE Pending

AddrOf(c) == OpenSeq[c].out.data[1]

\* A queue of commands, a queue of replies, and how many of the handshake's
\* commands ended up in them.
Ordered(q, p, begun) ==
  /\ \A i \in DOMAIN q :
       LET c == begun - Len(q) + i IN c >= 1 => Addr(Parse(q[i])) = AddrOf(c)
  /\ \A i \in DOMAIN p :
       LET c == begun - (Len(q) + Len(p)) + i IN c >= 1 => p[i][3] = AddrOf(c)

InStep ==
  /\ Ordered(requests, replies, Begun)
  /\ Stale \in Nat
  /\ Stale = 0 \/ Done <= Stale \/ (Stale = 1 /\ Done = 2)
  /\ Begun >= 1 => Stale < 5
  /\ astray => Stale >= 1

OpenInv ==
  tool = "open" /\ ~failed =>
    /\ pc \in {"init", "open", "claim"} => todo = Handshake("check") /\ ~astray
    /\ pc = "body" =>
         /\ Done \in 0 .. 5
         /\ \A i \in DOMAIN todo : todo[i] = Handshake("check")[Done + i]
         /\ todo # <<>> => handle = "gone" \/ (handle = "live" /\ InStep)
    /\ (pc = "body" /\ todo = <<>>) \/ pc \in {"release", "close", "exit", "exited"}
         => ~astray /\ Quiet

\* The inductive invariant of LoadedMeansOurs.  The memory has what the lines
\* so far wrote; the scanner that left runs the image if the script is over.
WrittenBefore(m, s, n) ==
  \A i \in Writes(s) :
    i < n /\ (\A j \in Writes(s) : j < n /\ At(s, j) = At(s, i) => j <= i)
      => m[At(s, i)] = <<s, i>>

OverAt(s, n) == \A i \in DOMAIN FwScripts[s] : i >= n => FwScripts[s][i].op = "comment"

Left == bus \in {"booting", "warm"}

LoadInv ==
  tool = "load" /\ ~failed /\ ~dropped /\ ~cycled =>
    /\ pc = "load" =>
         /\ fw \in DOMAIN FwScripts /\ line >= 1 /\ WrittenBefore(mem, fw, line)
         /\ \/ bus = "cold" /\ handle = "live"
            \/ Left /\ handle = "gone" /\ (OverAt(fw, line) => runs = fw)
    /\ pc \in {"close", "wait"} => bus = "cold" \/ (Left /\ runs = fw)
    /\ pc \in {"exit", "exited"} => bus = "warm" /\ runs = fw

\* Every tool comes to its end.
Terminates == pc # "idle" ~> pc = "exited"

=============================================================================
