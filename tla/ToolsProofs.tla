---------------------------- MODULE ToolsProofs ----------------------------
(***************************************************************************)
(* Theorems about the short tools, for all scripts, packets and            *)
(* configurations, and any number of tools and of times the scanner        *)
(* disappears.                                                             *)
(***************************************************************************)
EXTENDS Tools, FramingProofs

-----------------------------------------------------------------------------
(* The claim of the interface.                                             *)

\* Before a tool has its handle, and once it has closed it, nothing is held;
\* the handle of a scanner that is there holds what pakon_dev says it does.
ClaimInv ==
  /\ held \in BOOLEAN /\ claimed \in BOOLEAN
  /\ handle = "live" /\ tool # "load" => (held = claimed)
  /\ pc \in {"idle", "exited", "init"} => NothingHeld
  /\ pc \in {"find", "open", "exit", "wait"} =>
       handle = "none" /\ held = FALSE /\ claimed = FALSE

\* Steps that touch neither handle nor claim, and go to a place that asks no
\* more than the place they come from.
LEMMA ClaimKept ==
  ASSUME ClaimInv, UNCHANGED <<ctx, handle, held, claimed, tool>>,
         \/ pc' = pc
         \/ pc' \in {"claim", "body", "load", "release", "close"}
         \/ pc \in {"find", "open", "wait"} /\ pc' \in {"open", "exit", "wait"}
         \/ pc = "init" /\ pc' = "exited"
  PROVE  ClaimInv'
  BY DEF ClaimInv, NothingHeld

\* The scanner leaving takes the claim with it; the handle stays.
LEMMA ClaimLeaves ==
  ASSUME ClaimInv, NEW to, Leaves(to), tool' = tool, pc' = pc
  PROVE  ClaimInv'
<1>1. held' = FALSE /\ claimed' = claimed /\ ctx' = ctx
  BY DEF Leaves
<1>2. handle' # "live" /\ (handle = "none" => handle' = "none")
  BY DEF Leaves
<1> QED
  BY <1>1, <1>2 DEF ClaimInv, NothingHeld

\* Whatever fails on the way, a tool ends with its context, handle and claim
\* given back, and on the way the claim is where pakon_dev says it is.
THEOREM ClaimBalanced == Spec => []Balanced
<1>1. Init => ClaimInv
  BY DEF Init, UsbInit, NothingHeld, ClaimInv
<1>2. ClaimInv /\ [Next]_vars => ClaimInv'
  <2> SUFFICES ASSUME ClaimInv, [Next]_vars PROVE ClaimInv'
    OBVIOUS
  <2> USE DEF Elsewhere, Goes, GivesUp, usb, mine
  <2>1. CASE Begins
    BY <2>1 DEF Begins, ClaimInv, NothingHeld
  <2>2. CASE InitFails \/ Finds \/ OpenFails \/ ClaimRefused \/ Malformed
             \/ EndOfScript \/ SeesWarm
    <3>1. UNCHANGED <<ctx, handle, held, claimed, tool>>
      BY <2>2 DEF InitFails, Finds, OpenFails, ClaimRefused, ClaimFails, Malformed,
                  EndOfScript, SeesWarm
    <3>2. \/ pc' \in {"close"}
          \/ pc \in {"find", "open", "wait"} /\ pc' \in {"open", "exit"}
          \/ pc = "init" /\ pc' = "exited"
      BY <2>2 DEF InitFails, Finds, OpenFails, ClaimRefused, Malformed,
                  EndOfScript, SeesWarm
    <3> QED
      BY <3>1, <3>2, ClaimKept
  <2>3. CASE Inits
    BY <2>3 DEF Inits, InitUsb, ClaimInv, NothingHeld
  <2>4. CASE Opens
    BY <2>4 DEF Opens, Open, ClaimInv
  <2>5. CASE Claims
    BY <2>5 DEF Claims, Claim, ClaimInv
  <2>6. CASE StepSends \/ StepPosts \/ StepSendFails \/ StepReplies \/ StepReplyFails
             \/ ReadsChunk \/ PassesLine
    <3>1. UNCHANGED <<ctx, handle, held, claimed, tool>> /\ pc' = pc
      BY <2>6 DEF StepSends, StepPosts, StepSendFails, StepReplies, StepReplyFails,
                  ReadsChunk, PassesLine, Ends, session
    <3> QED
      BY <3>1, ClaimKept
  <2>7. CASE BodyEnds
    BY <2>7, ClaimKept DEF BodyEnds
  <2>8. CASE StartsLoad
    BY <2>8 DEF StartsLoad, LoadBegins, OpenCold, ClaimInv
  <2>9. CASE ReplaysLine
    <3>1. tool' = tool /\ pc' = pc
      BY <2>9 DEF ReplaysLine, session
    <3>2. UNCHANGED <<ctx, handle, held, claimed>> \/ Leaves("booting")
      BY <2>9 DEF ReplaysLine, SkipsComment, Misses, TakesEffect, ScannerRuns
    <3> QED
      BY <3>1, <3>2, ClaimKept, ClaimLeaves
  <2>10. CASE Waits
    BY <2>10, ClaimKept DEF Waits, Polls
  <2>11. CASE Releases
    <3>1. /\ claimed' = FALSE /\ held' = (held /\ ~claimed) /\ UNCHANGED <<handle, tool>>
          /\ pc' = "close"
      BY <2>11, Zenon DEF Releases, Release
    <3>2. held' \in BOOLEAN /\ (handle = "live" /\ tool # "load" => held' = FALSE)
      BY <3>1, Zenon DEF ClaimInv
    <3> QED
      BY <3>1, <3>2 DEF ClaimInv
  <2>12. CASE Closes
    BY <2>12 DEF Closes, Close, ClaimInv
  <2>13. CASE Exits
    BY <2>13 DEF Exits, ExitUsb, ClaimInv, NothingHeld
  <2>14. CASE ScannerServes
    <3>1. UNCHANGED <<ctx, handle, held, claimed, tool, pc>>
      BY <2>14 DEF ScannerServes, session
    <3> QED
      BY <3>1, ClaimKept
  <2>15. CASE ScannerBoots \/ SwitchedOn
    BY <2>15, ClaimKept DEF ScannerBoots, Boots, SwitchedOn, Appears, session
  <2>16. CASE SwitchedOff
    BY <2>16, ClaimLeaves DEF SwitchedOff, LosesPower, session
  <2>17. CASE Killed
    BY <2>17 DEF Killed, Reaped, ClaimInv, NothingHeld
  <2>18. CASE UNCHANGED vars
    BY <2>18, ClaimKept DEF vars, session
  <2> QED
    BY <2>1, <2>2, <2>3, <2>4, <2>5, <2>6, <2>7, <2>8, <2>9, <2>10, <2>11, <2>12,
       <2>13, <2>14, <2>15, <2>16, <2>17, <2>18
       DEF Next, Proceed, World
<1>3. ClaimInv => Balanced
  BY DEF ClaimInv, Balanced
<1> QED
  BY <1>1, <1>2, <1>3, PTL DEF Spec

-----------------------------------------------------------------------------
(* What the tools send is well typed.                                      *)

Exchanges == [mode : Modes, pkt : Packets, expect : Seq(Byte)]

\* The bytes of a packet that fit are a packet.
LEMMA PacketBuilt ==
  ASSUME NEW type \in Byte, NEW data \in Seq(Byte), Len(data) <= DataMax
  PROVE  Build(type, data) \in Packets
BY DEF Build, Packets

\* A frame is a sequence of bytes.
LEMMA FrameType ==
  ASSUME NEW pkt \in Packets
  PROVE  Serialize(pkt) \in Seq(Byte)
<1>1. pkt.type \in Byte /\ pkt.data \in Seq(Byte)
  BY PacketType DEF Packets
<1>2. Len(pkt.data) \in Byte
  <2>1. Len(pkt.data) \in Nat /\ Len(pkt.data) <= 34
    BY PacketType DEF DataMax
  <2>2. \A n \in Nat : n <= 34 => n \in Byte
    BY DEF Byte
  <2> QED
    BY <2>1, <2>2, Zenon
<1>3. <<pkt.type, Len(pkt.data)>> \in Seq(Byte)
  BY <1>1, <1>2
<1> QED
  BY <1>1, <1>3, ConcatProperties DEF Serialize

LEMMA HandshakeType ==
  ASSUME NEW mode \in Modes
  PROVE  Handshake(mode) \in Seq(Exchanges) /\ Len(Handshake(mode)) = 5
<1>1. \A i \in 1 .. 5 : OpenSeq[i].out \in Packets /\ OpenSeq[i].expect \in Seq(Byte)
  <2>1. /\ 0 \in Byte /\ 1 \in Byte /\ 2 \in Byte /\ 4 \in Byte /\ 7 \in Byte
        /\ 16 \in Byte /\ 36 \in Byte /\ 68 \in Byte /\ 70 \in Byte
        /\ 133 \in Byte /\ 143 \in Byte
    BY DEF Byte
  <2>2. ASSUME NEW a \in Byte, NEW b \in Byte, NEW c \in Byte
        PROVE  Build(4, <<a, b, c>>) \in Packets
    <3>1. <<a, b, c>> \in Seq(Byte)
      OBVIOUS
    <3>2. Len(<<a, b, c>>) <= DataMax
      BY DEF DataMax
    <3> QED
      BY <2>1, <3>1, <3>2, PacketBuilt
  <2>3. Build(2, <<16, 1, 143, 0>>) \in Packets
    <3>1. <<16, 1, 143, 0>> \in Seq(Byte)
      BY <2>1
    <3>2. Len(<<16, 1, 143, 0>>) <= DataMax
      BY DEF DataMax
    <3> QED
      BY <2>1, <3>1, <3>2, PacketBuilt
  <2>4. \A a, b \in Byte : <<7, 2, a, b>> \in Seq(Byte)
    BY <2>1
  <2>5. /\ OpenSeq[1].out \in Packets /\ OpenSeq[2].out \in Packets
        /\ OpenSeq[3].out \in Packets /\ OpenSeq[4].out \in Packets
        /\ OpenSeq[5].out \in Packets
    BY <2>1, <2>2, <2>3 DEF OpenSeq
  <2>6. /\ OpenSeq[1].expect \in Seq(Byte) /\ OpenSeq[2].expect \in Seq(Byte)
        /\ OpenSeq[3].expect \in Seq(Byte) /\ OpenSeq[4].expect \in Seq(Byte)
        /\ OpenSeq[5].expect \in Seq(Byte)
    BY <2>1, <2>4 DEF OpenSeq
  <2> QED
    BY <2>5, <2>6
<1>2. DOMAIN OpenSeq = 1 .. 5
  BY DEF OpenSeq
<1>3. \A i \in 1 .. 5 : Exchange(mode, OpenSeq[i].out, OpenSeq[i].expect) \in Exchanges
  BY <1>1 DEF Exchange, Exchanges
<1>4. Handshake(mode) \in [1 .. 5 -> Exchanges]
  BY <1>2, <1>3 DEF Handshake
<1> QED
  BY <1>4

LEMMA ConfigType ==
  /\ Config \in Seq([bank : {130, 132}, reg : Byte, value : Word])
  /\ ConfigWrites \in Seq(Exchanges) /\ Len(ConfigWrites) = Len(Config)
  /\ \A i \in 1 .. Len(Config) :
       /\ Config[i] \in [bank : Byte, reg : Byte, value : Word]
       /\ ConfigWrites[i].mode = "abort" /\ ConfigWrites[i].pkt = BuildWrite(Config[i])
<1>1. /\ Config \in Seq([bank : {130, 132}, reg : Byte, value : Word])
      /\ DOMAIN Config = 1 .. Len(Config) /\ Len(Config) \in Nat
  BY ToolsAssumption, LenProperties
<1>2. \A i \in 1 .. Len(Config) : Config[i] \in [bank : Byte, reg : Byte, value : Word]
  <2>1. \A i \in 1 .. Len(Config) : Config[i] \in [bank : {130, 132}, reg : Byte, value : Word]
    BY <1>1, ElementOfSeq
  <2>2. 130 \in Byte /\ 132 \in Byte
    BY DEF Byte
  <2> QED
    BY <2>1, <2>2
<1>3. \A i \in 1 .. Len(Config) : Exchange("abort", BuildWrite(Config[i]), <<>>) \in Exchanges
  <2>1. \A i \in 1 .. Len(Config) : BuildWrite(Config[i]) \in Packets
    BY <1>2, WritePacket
  <2> QED
    BY <2>1, EmptySeq DEF Exchange, Exchanges, Modes
<1>4. ConfigWrites \in [1 .. Len(Config) -> Exchanges]
  BY <1>1, <1>3 DEF ConfigWrites
<1>5. \A i \in 1 .. Len(Config) :
        ConfigWrites[i].mode = "abort" /\ ConfigWrites[i].pkt = BuildWrite(Config[i])
  BY <1>1 DEF ConfigWrites, Exchange
<1> QED
  BY <1>1, <1>2, <1>4, <1>5

\* Before its writes --configure sends a handshake, a prelude or nothing.
LEMMA ConfigurePlan ==
  ASSUME NEW plan \in Plans("configure")
  PROVE  \E before \in Seq(Exchanges) : plan = before \o ConfigWrites
<1>1. PICK before \in {Handshake("ignore"), <<>>} \cup {PreludeSteps(p) : p \in Preludes} :
        plan = before \o ConfigWrites
  BY DEF Plans
<1>2. ASSUME NEW p \in Preludes
      PROVE  PreludeSteps(p) \in Seq(Exchanges)
  <2> DEFINE Kinds == {"O", "C", "M", "bad"}
             Lines == [kind : Kinds, pkt : Packets]
  <2>1. p \in Seq(Lines)
    BY ToolsAssumption
  <2> HIDE DEF Kinds
  <2>2. \A l \in Lines : l.pkt \in Packets
    OBVIOUS
  <2> HIDE DEF Lines
  <2>6. DOMAIN p = 1 .. Len(p) /\ Len(p) \in Nat
    BY <2>1, LenProperties
  <2>3. \A i \in 1 .. Len(p) : p[i].pkt \in Packets
    BY <2>1, <2>2, ElementOfSeq
  <2>4. \A i \in 1 .. Len(p), m \in {"ignore", "skip"} :
          Exchange(m, p[i].pkt, <<>>) \in Exchanges
    BY <2>3, EmptySeq DEF Exchange, Exchanges, Modes
  <2>5. PreludeSteps(p) \in [1 .. Len(p) -> Exchanges]
    BY <2>6, <2>4 DEF PreludeSteps
  <2> QED
    BY <2>6, <2>5
<1>3. Handshake("ignore") \in Seq(Exchanges) /\ <<>> \in Seq(Exchanges)
  BY HandshakeType, EmptySeq DEF Modes
<1> QED
  BY <1>1, <1>2, <1>3

LEMMA PlanType ==
  ASSUME NEW t \in ToolNames, NEW plan \in Plans(t)
  PROVE  plan \in Seq(Exchanges)
<1>1. CASE t = "open"
  BY <1>1, HandshakeType DEF Plans, Modes
<1>2. CASE t = "params"
  <2>1. Build(0, <<>>) \in Packets
    <3>1. 0 \in Byte /\ <<>> \in Seq(Byte) /\ Len(<<>>) <= DataMax
      BY EmptySeq DEF Byte, DataMax
    <3> QED
      BY <3>1, PacketBuilt
  <2>2. Exchange("chunk", Build(0, <<>>), <<>>) \in Exchanges
    BY <2>1, EmptySeq DEF Exchange, Exchanges, Modes
  <2>3. Chunks \in [1 .. NChunks -> Exchanges]
    BY <2>2 DEF Chunks
  <2>4. Chunks \in Seq(Exchanges) /\ Handshake("ignore") \in Seq(Exchanges)
    BY <2>3, ToolsAssumption, HandshakeType DEF Modes
  <2>5. plan = Handshake("ignore") \o Chunks
    BY <1>2 DEF Plans
  <2> QED
    BY <2>4, <2>5, ConcatProperties
<1>3. CASE t = "configure"
  <2>1. PICK before \in Seq(Exchanges) : plan = before \o ConfigWrites
    BY <1>3, ConfigurePlan
  <2> QED
    BY <2>1, ConfigType, ConcatProperties
<1>4. CASE t = "raw"
  <2>1. PICK mode \in {"post", "raw"}, pkt \in RawPackets : plan = <<Exchange(mode, pkt, <<>>)>>
    BY <1>4 DEF Plans
  <2>2. Exchange(mode, pkt, <<>>) \in Exchanges
    BY ToolsAssumption, EmptySeq DEF Exchange, Exchanges, Modes
  <2> QED
    BY <2>1, <2>2
<1>5. CASE t \in {"load", "dump"}
  <2>1. plan = <<>>
    BY <1>5 DEF Plans
  <2> QED
    BY <2>1, EmptySeq
<1> QED
  BY <1>1, <1>2, <1>3, <1>4, <1>5 DEF ToolNames

-----------------------------------------------------------------------------
(* Type correctness.                                                       *)

\* Where a load may be, how long it has waited, and that a reply is only
\* waited for in an exchange that has one.
SessionInv ==
  /\ pc = "find" => tool = "dump"
  /\ tool = "load" => pc \notin {"find", "claim", "body", "release"}
  /\ pc \in {"load", "wait"} => tool = "load"
  /\ tool = "load" /\ pc \in {"load", "close"} => polls = 0
  /\ pc = "wait" => polls < MaxPolls
  /\ awaiting => pc = "body" /\ todo # <<>> /\ Step.mode \notin {"post", "chunk", "skip"}

\* Steps in which the tool goes from one call to another and the channel,
\* the load and the scanner's registers are left alone.
LEMMA CallTypes ==
  ASSUME TypeOK, SessionInv,
         \/ InitFails \/ Inits \/ Finds \/ OpenFails \/ Opens \/ Claims \/ ClaimRefused
         \/ BodyEnds \/ Malformed \/ EndOfScript \/ SeesWarm
         \/ Releases \/ Closes \/ Exits
  PROVE  TypeOK' /\ SessionInv'
<1> USE DEF Elsewhere, Goes, GivesUp, usb, mine, load, channel, scanner
<1>1. UNCHANGED <<load, channel, scanner, tool, todo, sessions, astray>>
  BY DEF InitFails, Inits, Finds, OpenFails, Opens, Claims, ClaimRefused, BodyEnds, Malformed,
         EndOfScript, SeesWarm, Releases, Closes, Exits
<1>2. failed' = failed \/ failed' = TRUE
  BY DEF InitFails, Inits, Finds, OpenFails, Opens, Claims, ClaimRefused, BodyEnds, Malformed,
         EndOfScript, SeesWarm, Releases, Closes, Exits
<1>3. failed' \in BOOLEAN
  BY <1>2, Zenon DEF TypeOK
<1>4. UsbTypeOK'
  <2>1. bus' = bus /\ handle' \in {handle, "live", "none"}
    BY DEF InitFails, Inits, Finds, OpenFails, Opens, Claims, ClaimRefused, BodyEnds, Malformed,
           EndOfScript, SeesWarm, Releases, Closes, Exits, InitUsb, Open, Claim, ClaimFails,
           Release, Close, ExitUsb
  <2>2. ctx \in BOOLEAN /\ held \in BOOLEAN /\ claimed \in BOOLEAN
    BY DEF TypeOK, UsbTypeOK
  <2>3. ctx' \in BOOLEAN /\ held' \in BOOLEAN /\ claimed' \in BOOLEAN
    BY <2>2, Zenon
       DEF InitFails, Inits, Finds, OpenFails, Opens, Claims, ClaimRefused, BodyEnds, Malformed,
           EndOfScript, SeesWarm, Releases, Closes, Exits, InitUsb, Open, Claim, ClaimFails,
           Release, Close, ExitUsb
  <2> QED
    BY <2>1, <2>3 DEF TypeOK, UsbTypeOK
<1>5. /\ pc' \in {"find", "open", "claim", "body", "close", "wait", "release", "exit", "exited"}
      /\ pc' = "find" => tool = "dump"
      /\ tool = "load" => pc' \notin {"find", "claim", "body", "release"}
      /\ pc' = "wait" => tool = "load" /\ pc = "close"
      /\ tool = "load" /\ pc' = "close" => pc = "load"
  BY DEF InitFails, Inits, Finds, OpenFails, Opens, Claims, ClaimRefused, BodyEnds, Malformed,
         EndOfScript, SeesWarm, Releases, Closes, Exits, SessionInv
<1>7. ~awaiting'
  BY <1>1, Zenon
     DEF InitFails, Inits, Finds, OpenFails, Opens, Claims, ClaimRefused, BodyEnds, Malformed,
         EndOfScript, SeesWarm, Releases, Closes, Exits, SessionInv
<1>8. TypeOK'
  BY <1>1, <1>3, <1>4, <1>5 DEF TypeOK, LoadTypeOK, ChannelTypeOK
<1>9. SessionInv'
  <2>1. polls' = polls /\ tool' = tool
    BY <1>1
  <2>2. MaxPolls \in Nat \ {0}
    BY FirmwareAssumption
  <2> QED
    BY <1>5, <1>7, <2>1, <2>2 DEF SessionInv
<1> QED
  BY <1>8, <1>9

\* Exchanges use the channel and their step is then over, or waits for its
\* reply.
LEMMA ExchangeTypes ==
  ASSUME TypeOK, SessionInv,
         \/ StepSends \/ StepPosts \/ StepSendFails \/ StepReplies \/ StepReplyFails
         \/ ReadsChunk \/ PassesLine
  PROVE  TypeOK' /\ SessionInv'
<1>0. /\ todo \in Seq(Exchanges) /\ todo # <<>> /\ pc = "body"
      /\ requests \in Seq(Seq(Byte)) /\ replies \in Seq(Seq(Byte))
  BY DEF TypeOK, ChannelTypeOK, Exchanges, StepSends, StepPosts, StepSendFails, StepReplies,
         StepReplyFails, ReadsChunk, PassesLine, AtStep
<1>1. Frame \in Seq(Byte)
  <2>1. Step \in Exchanges
    BY <1>0, HeadTailProperties DEF Step
  <2>2. Step.pkt \in Packets
    BY <2>1 DEF Exchanges
  <2> QED
    BY <2>2, FrameType DEF Frame
<1>2. UNCHANGED <<usb, load, scanner, tool, pc, sessions>>
  BY DEF StepSends, StepPosts, StepSendFails, StepReplies, StepReplyFails, ReadsChunk,
         PassesLine, Ends, session
<1>3. requests' \in Seq(Seq(Byte))
  <2>1. Append(requests, Frame) \in Seq(Seq(Byte))
    BY <1>0, <1>1, AppendProperties
  <2>2. requests' = requests \/ requests' = Append(requests, Frame)
    BY DEF StepSends, StepPosts, StepSendFails, StepReplies, StepReplyFails, ReadsChunk,
           PassesLine, Sends, Posts, SendFails, Receives, ReceiveFails, channel
  <2> QED
    BY <1>0, <2>1, <2>2
<1>4. replies' \in Seq(Seq(Byte))
  <2>1. replies # <<>> => Tail(replies) \in Seq(Seq(Byte))
    BY <1>0, HeadTailProperties
  <2>2. replies' = replies \/ (replies # <<>> /\ replies' = Tail(replies))
    BY DEF StepSends, StepPosts, StepSendFails, StepReplies, StepReplyFails, ReadsChunk,
           PassesLine, Sends, Posts, SendFails, Receives, ReceiveFails, channel
  <2> QED
    BY <1>0, <2>1, <2>2
<1>5. awaiting' \in BOOLEAN /\ errs' \in BOOLEAN
  <2>1. awaiting \in BOOLEAN /\ errs \in BOOLEAN
    BY DEF TypeOK, ChannelTypeOK
  <2> QED
    BY <2>1, Zenon
       DEF StepSends, StepPosts, StepSendFails, StepReplies, StepReplyFails, ReadsChunk,
           PassesLine, Sends, Posts, SendFails, Receives, ReceiveFails, channel
<1>6. todo' \in Seq(Exchanges)
  <2>1. todo' \in {todo, Tail(todo), <<>>}
    BY DEF StepSends, StepPosts, StepSendFails, StepReplies, StepReplyFails, ReadsChunk,
           PassesLine, Ends, session
  <2> QED
    BY <1>0, <2>1, HeadTailProperties, EmptySeq
<1>7. failed' \in BOOLEAN /\ astray' \in BOOLEAN
  <2>1. failed \in BOOLEAN /\ astray \in BOOLEAN
    BY DEF TypeOK
  <2> QED
    BY <2>1, Zenon
       DEF StepSends, StepPosts, StepSendFails, StepReplies, StepReplyFails, ReadsChunk,
           PassesLine, Ends, session
<1>8. awaiting' => todo' = todo /\ Step.mode \notin {"post", "chunk", "skip"}
  <2>1. awaiting => Step.mode \notin {"post", "chunk", "skip"}
    BY DEF SessionInv
  <2>2. CASE StepSends
    BY <2>2, Zenon DEF StepSends, session
  <2>3. CASE StepPosts \/ StepSendFails \/ StepReplies \/ StepReplyFails
    BY <2>3, Zenon DEF StepPosts, StepSendFails, StepReplies, StepReplyFails, Posts, SendFails,
                       Receives, ReceiveFails
  <2>4. CASE ReadsChunk \/ PassesLine
    BY <2>1, <2>4, Zenon DEF ReadsChunk, PassesLine, channel
  <2> QED
    BY <2>2, <2>3, <2>4
<1>9. TypeOK'
  BY <1>2, <1>3, <1>4, <1>5, <1>6, <1>7
     DEF TypeOK, UsbTypeOK, LoadTypeOK, ChannelTypeOK, Exchanges, usb, load, scanner
<1>10. SessionInv'
  <2>1. awaiting' => pc' = "body" /\ todo' # <<>> /\ Step'.mode \notin {"post", "chunk", "skip"}
    BY <1>0, <1>2, <1>8 DEF Step
  <2> QED
    BY <1>2, <2>1 DEF SessionInv, load
<1> QED
  BY <1>9, <1>10

\* The load and its wait.
LEMMA LoadTypes ==
  ASSUME TypeOK, SessionInv, StartsLoad \/ ReplaysLine \/ Waits
  PROVE  TypeOK' /\ SessionInv'
<1>0. /\ UNCHANGED <<channel, scanner, tool, todo, sessions, astray>>
      /\ MaxPolls \in Nat \ {0} /\ ~awaiting
  BY FirmwareAssumption DEF StartsLoad, ReplaysLine, Waits, Goes, GivesUp, session, SessionInv
<1>1. failed' \in BOOLEAN
  <2>1. failed' = failed \/ failed' = TRUE
    BY DEF StartsLoad, ReplaysLine, Waits, Goes, GivesUp, session
  <2> QED
    BY <2>1, Zenon DEF TypeOK
<1>2. ~awaiting'
  BY <1>0, Zenon DEF channel
<1>3. UsbTypeOK'
  <2>1. bus' \in {bus, "booting"} /\ handle' \in {handle, "live", "gone"}
    BY DEF StartsLoad, ReplaysLine, Waits, LoadBegins, OpenCold, SkipsComment, Misses,
           TakesEffect, ScannerRuns, Leaves, Polls, usb
  <2>2. ctx' = ctx /\ claimed' = claimed
    BY DEF StartsLoad, ReplaysLine, Waits, LoadBegins, OpenCold, SkipsComment, Misses,
           TakesEffect, ScannerRuns, Leaves, Polls, usb
  <2>3. held' \in BOOLEAN
    <3>1. held \in BOOLEAN
      BY DEF TypeOK, UsbTypeOK
    <3> QED
      BY <3>1, Zenon DEF StartsLoad, ReplaysLine, Waits, LoadBegins, OpenCold, SkipsComment,
                         Misses, TakesEffect, ScannerRuns, Leaves, Polls, usb
  <2> QED
    BY <2>1, <2>2, <2>3 DEF TypeOK, UsbTypeOK
<1>4. /\ fw' \in DOMAIN FwScripts \cup {0} /\ line' \in Nat
      /\ mem' \in [AllAddresses -> (DOMAIN FwScripts \cup {0}) \X Nat]
      /\ runs' \in DOMAIN FwScripts \cup {0}
  <2>1. LoadTypeOK
    BY DEF TypeOK
  <2> QED
    BY <2>1 DEF LoadTypeOK, StartsLoad, ReplaysLine, Waits, LoadBegins, SkipsComment, Misses,
                TakesEffect, ScannerRuns, Polls
<1>5. dropped' \in BOOLEAN
  <2>1. dropped \in BOOLEAN
    BY DEF TypeOK, LoadTypeOK
  <2> QED
    BY <2>1, Zenon DEF StartsLoad, ReplaysLine, Waits, LoadBegins, SkipsComment, Misses,
                       TakesEffect, Polls
<1>6. /\ polls' \in 0 .. MaxPolls /\ pc' \in {"load", "wait", "exit"} /\ tool = "load"
      /\ pc' = "load" => polls' = 0
      /\ pc' = "wait" => polls' < MaxPolls
  <2>0. polls \in 0 .. MaxPolls
    BY DEF TypeOK, LoadTypeOK
  <2>1. CASE StartsLoad
    BY <1>0, <2>1 DEF StartsLoad, LoadBegins, Goes
  <2>2. CASE ReplaysLine
    <3>1. polls' = polls /\ pc' = pc /\ pc = "load"
      BY <2>2 DEF ReplaysLine, SkipsComment, Misses, TakesEffect, session
    <3> QED
      BY <2>0, <3>1 DEF SessionInv
  <2>3. CASE Waits
    <3>1. /\ pc = "wait" /\ polls' = polls + 1
          /\ pc' = IF polls' = MaxPolls THEN "exit" ELSE "wait"
      BY <2>3 DEF Waits, Polls, Goes, GivesUp
    <3> QED
      BY <1>0, <2>0, <3>1 DEF SessionInv
  <2> QED
    BY <2>1, <2>2, <2>3
<1>7. TypeOK'
  <2>1. LoadTypeOK'
    BY <1>4, <1>5, <1>6 DEF LoadTypeOK
  <2>2. pc' \in {"idle", "init", "find", "open", "claim", "body", "load", "wait",
                 "release", "close", "exit", "exited"}
    BY <1>6
  <2> QED
    BY <1>0, <1>1, <1>3, <2>1, <2>2 DEF TypeOK, ChannelTypeOK, channel, scanner
<1>8. SessionInv'
  BY <1>0, <1>2, <1>6 DEF SessionInv
<1> QED
  BY <1>7, <1>8

\* What the scanner makes of a command: its reply, and the register it
\* writes, which is one of the registers or none.
LEMMA ServeTypes ==
  ASSUME TypeOK, ScannerServes
  PROVE  /\ requests # <<>> /\ requests' = Tail(requests)
         /\ requests' \in Seq(Seq(Byte)) /\ replies' \in Seq(Seq(Byte))
         /\ regs' \in [Registers -> Word] /\ refused' \in BOOLEAN
         /\ UNCHANGED <<usb, load, session, awaiting, errs, cycles, cycled>>
<1>0. /\ requests \in Seq(Seq(Byte)) /\ replies \in Seq(Seq(Byte))
      /\ regs \in [Registers -> Word]
  BY DEF TypeOK, ChannelTypeOK
<1>1. PICK status \in {Normal(Addr(Parse(Head(requests)))), 9} :
        LET raw == Head(requests)
            r   == <<raw[5], raw[6]>>
        IN  /\ Serves(raw, <<7, 2, Addr(Parse(raw)), status>>)
            /\ IF IsWrite(raw) /\ r \in Registers
               THEN IF status = 0
                    THEN regs' = [regs EXCEPT ![r] = raw[7] + 256 * raw[8]] /\ UNCHANGED refused
                    ELSE refused' = TRUE /\ UNCHANGED regs
               ELSE UNCHANGED <<regs, refused>>
  BY DEF ScannerServes
<1> DEFINE raw == Head(requests)
<1>2. /\ requests # <<>> /\ requests' = Tail(requests)
      /\ replies' = Append(replies, <<7, 2, Addr(Parse(raw)), status>>)
      /\ UNCHANGED <<usb, load, session, awaiting, errs, cycles, cycled>>
  BY <1>1 DEF ScannerServes, Serves
<1>3. raw \in Seq(Byte) /\ Tail(requests) \in Seq(Seq(Byte))
  BY <1>0, <1>2, HeadTailProperties
<1>4. <<7, 2, Addr(Parse(raw)), status>> \in Seq(Byte)
  <2>1. Addr(Parse(raw)) \in Byte
    <3> DEFINE d == SubSeq(raw, 3, Len(raw))
    <3>1. d \in Seq(Byte)
      <4>1. Len(raw) \in Nat
        BY <1>3, LenProperties
      <4>2. \A i \in 3 .. Len(raw) : raw[i] \in Byte
        BY <1>3, <4>1, ElementOfSeq
      <4> HIDE DEF raw
      <4> QED
        BY <4>1, <4>2, SubSeqProperties
    <3>2. Parse(raw).data = d
      BY DEF Parse, Build
    <3> HIDE DEF d
    <3>3. Len(d) >= 1 => d[1] \in Byte
      BY <3>1, LenProperties, ElementOfSeq
    <3>4. 0 \in Byte
      BY DEF Byte
    <3> QED
      BY <3>2, <3>3, <3>4 DEF Addr
  <2>2. 7 \in Byte /\ 2 \in Byte /\ 9 \in Byte /\ \A a : Normal(a) \in Byte
    BY DEF Byte, Normal
  <2>3. status \in Byte
    BY <2>2
  <2> QED
    BY <2>1, <2>2, <2>3
<1>5. replies' \in Seq(Seq(Byte))
  BY <1>0, <1>2, <1>4, AppendProperties
<1>6. regs' \in [Registers -> Word]
  <2>1. IsWrite(raw) => raw[7] + 256 * raw[8] \in Word
    <3>1. IsWrite(raw) => raw[7] \in Byte /\ raw[8] \in Byte
      BY <1>3, ElementOfSeq DEF IsWrite
    <3> QED
      BY <3>1, WordOfBytes
  <2> QED
    BY <1>0, <1>1, <2>1
<1>7. refused' \in BOOLEAN
  <2>1. refused' = refused \/ refused' = TRUE
    BY <1>1
  <2> QED
    BY <2>1, Zenon DEF TypeOK
<1> QED
  BY <1>2, <1>3, <1>5, <1>6, <1>7

\* The world, and a tool that begins.
LEMMA WorldTypes ==
  ASSUME TypeOK, SessionInv, World \/ Begins
  PROVE  TypeOK' /\ SessionInv'
<1>0. /\ UsbTypeOK /\ LoadTypeOK /\ awaiting \in BOOLEAN /\ errs \in BOOLEAN
      /\ requests \in Seq(Seq(Byte)) /\ replies \in Seq(Seq(Byte))
      /\ todo \in Seq(Exchanges) /\ regs \in [Registers -> Word]
  BY DEF TypeOK, ChannelTypeOK, Exchanges
<1>1. CASE ScannerServes
  <2>1. /\ requests' \in Seq(Seq(Byte)) /\ replies' \in Seq(Seq(Byte))
        /\ regs' \in [Registers -> Word] /\ refused' \in BOOLEAN
        /\ UNCHANGED <<usb, load, session, awaiting, errs, cycles, cycled>>
    BY <1>1, ServeTypes
  <2>2. UsbTypeOK' /\ LoadTypeOK'
    BY <1>0, <2>1 DEF UsbTypeOK, LoadTypeOK, usb, load
  <2>3. ChannelTypeOK(Seq(Byte), Seq(Byte))'
    BY <1>0, <2>1 DEF ChannelTypeOK
  <2>4. TypeOK'
    BY <2>1, <2>2, <2>3 DEF TypeOK, session
  <2> QED
    BY <2>1, <2>4 DEF SessionInv, Step, load, session
<1>2. CASE ScannerBoots \/ SwitchedOn
  <2>1. bus' \in {"warm", "cold"} /\ UNCHANGED <<mine, load, channel, session, scanner>>
    BY <1>2 DEF ScannerBoots, Boots, SwitchedOn, Appears
  <2> QED
    BY <2>1 DEF TypeOK, UsbTypeOK, LoadTypeOK, ChannelTypeOK, SessionInv, Step, mine, load,
                channel, session, scanner
<1>3. CASE SwitchedOff
  <2>1. /\ bus' = "absent" /\ handle' \in {handle, "gone"} /\ held' = FALSE
        /\ UNCHANGED <<ctx, claimed, fw, line, polls, dropped, awaiting, errs, refused, session>>
        /\ mem' = Blank /\ runs' = 0
        /\ cycles' = cycles + 1 /\ cycles < MaxCycles /\ cycled' = TRUE
        /\ requests' = <<>> /\ replies' = <<>>
        /\ regs' = [r \in Registers |-> 0]
    BY <1>3 DEF SwitchedOff, LosesPower, Leaves
  <2>2. /\ cycles' \in 0 .. MaxCycles /\ regs' \in [Registers -> Word]
        /\ mem' \in [AllAddresses -> (DOMAIN FwScripts \cup {0}) \X Nat]
    <3>1. cycles \in 0 .. MaxCycles /\ MaxCycles \in Nat
      BY ToolsAssumption DEF TypeOK
    <3>2. cycles' \in 0 .. MaxCycles
      BY <2>1, <3>1
    <3>3. regs' \in [Registers -> Word]
      BY <2>1, WordOfBytes
    <3>4. mem' \in [AllAddresses -> (DOMAIN FwScripts \cup {0}) \X Nat]
      BY <2>1 DEF Blank
    <3> QED
      BY <3>2, <3>3, <3>4
  <2>3. cycled' \in BOOLEAN /\ held' \in BOOLEAN
    BY <2>1, Zenon
  <2>4. UsbTypeOK' /\ LoadTypeOK' /\ ChannelTypeOK(Seq(Byte), Seq(Byte))'
    BY <1>0, <2>1, <2>2, <2>3, EmptySeq DEF UsbTypeOK, LoadTypeOK, ChannelTypeOK
  <2> QED
    BY <2>1, <2>2, <2>3, <2>4 DEF TypeOK, SessionInv, Step, session
<1>4. CASE Killed
  <2>1. /\ ctx' = FALSE /\ handle' = "none" /\ held' = FALSE /\ claimed' = FALSE
        /\ pc' = "exited" /\ failed' = TRUE /\ todo' = <<>> /\ awaiting' = FALSE
        /\ UNCHANGED <<bus, load, requests, replies, errs, tool, sessions, astray, scanner>>
    BY <1>4 DEF Killed, Reaped
  <2>2. /\ ctx' \in BOOLEAN /\ held' \in BOOLEAN /\ claimed' \in BOOLEAN
        /\ failed' \in BOOLEAN /\ awaiting' \in BOOLEAN /\ ~awaiting'
    BY <2>1, Zenon
  <2>3. UsbTypeOK' /\ LoadTypeOK' /\ ChannelTypeOK(Seq(Byte), Seq(Byte))'
    BY <1>0, <2>1, <2>2 DEF UsbTypeOK, LoadTypeOK, ChannelTypeOK, load
  <2>4. todo' \in Seq(Exchanges)
    BY <2>1, EmptySeq
  <2> QED
    BY <2>1, <2>2, <2>3, <2>4 DEF TypeOK, SessionInv, Exchanges, scanner
<1>5. CASE Begins
  <2>1. PICK t \in ToolNames : tool' = t /\ todo' \in Plans(t)
    BY <1>5 DEF Begins
  <2>2. /\ pc' = "init" /\ sessions' = sessions + 1 /\ sessions < MaxSessions
        /\ failed' = FALSE /\ astray' = FALSE /\ errs' = FALSE
        /\ cycled' = FALSE /\ refused' = FALSE
        /\ UNCHANGED <<usb, load, awaiting, requests, replies, cycles, regs>>
        /\ pc \in {"idle", "exited"}
    BY <1>5 DEF Begins
  <2>3. todo' \in Seq(Exchanges)
    BY <2>1, PlanType
  <2>4. /\ failed' \in BOOLEAN /\ astray' \in BOOLEAN /\ errs' \in BOOLEAN
        /\ cycled' \in BOOLEAN /\ refused' \in BOOLEAN
    BY <2>2, Zenon
  <2>5. sessions' \in 0 .. MaxSessions
    BY <2>2, ToolsAssumption DEF TypeOK
  <2>6. ~awaiting'
    BY <2>2, Zenon DEF SessionInv
  <2>7. UsbTypeOK' /\ LoadTypeOK' /\ ChannelTypeOK(Seq(Byte), Seq(Byte))'
    BY <1>0, <2>2, <2>4 DEF UsbTypeOK, LoadTypeOK, ChannelTypeOK, usb, load
  <2> QED
    BY <2>1, <2>2, <2>3, <2>4, <2>5, <2>6, <2>7 DEF TypeOK, SessionInv, Exchanges
<1> QED
  BY <1>1, <1>2, <1>3, <1>4, <1>5 DEF World

\* The tools, the channel, the load and the scanner are well typed, a load
\* never looks at the bus more often than it may, and only an exchange that
\* has a reply waits for one.
LEMMA SessionTypes == Spec => [](TypeOK /\ SessionInv)
<1>1. Init => TypeOK /\ SessionInv
  <2> SUFFICES ASSUME Init PROVE TypeOK /\ SessionInv
    OBVIOUS
  <2> USE DEF Init, UsbInit, NothingHeld, LoadInit, ChannelInit
  <2>1. /\ ctx \in BOOLEAN /\ held \in BOOLEAN /\ claimed \in BOOLEAN /\ dropped \in BOOLEAN
        /\ awaiting \in BOOLEAN /\ errs \in BOOLEAN /\ failed \in BOOLEAN
        /\ cycled \in BOOLEAN /\ refused \in BOOLEAN /\ astray \in BOOLEAN /\ ~awaiting
    BY Zenon
  <2>2. UsbTypeOK
    BY <2>1 DEF UsbTypeOK
  <2>3. LoadTypeOK
    BY <2>1, FirmwareAssumption DEF LoadTypeOK, Blank
  <2>4. ChannelTypeOK(Seq(Byte), Seq(Byte))
    BY <2>1, EmptySeq DEF ChannelTypeOK
  <2>5. todo \in Seq([mode : Modes, pkt : Packets, expect : Seq(Byte)])
    BY EmptySeq
  <2>6. sessions \in 0 .. MaxSessions /\ cycles \in 0 .. MaxCycles
    BY ToolsAssumption
  <2>7. regs \in [Registers -> Word]
    BY WordOfBytes
  <2>8. TypeOK
    BY <2>1, <2>2, <2>3, <2>4, <2>5, <2>6, <2>7 DEF TypeOK, ToolNames
  <2> QED
    BY <2>1, <2>8 DEF SessionInv
<1>2. TypeOK /\ SessionInv /\ [Next]_vars => (TypeOK /\ SessionInv)'
  <2> SUFFICES ASSUME TypeOK, SessionInv, [Next]_vars PROVE TypeOK' /\ SessionInv'
    OBVIOUS
  <2>1. CASE UNCHANGED vars
    BY <2>1 DEF vars, usb, load, channel, session, scanner, TypeOK, UsbTypeOK, LoadTypeOK,
                ChannelTypeOK, SessionInv, Step
  <2> QED
    BY <2>1, CallTypes, ExchangeTypes, LoadTypes, WorldTypes DEF Next, Proceed
<1> QED
  BY <1>1, <1>2, PTL DEF Spec

THEOREM TypeCorrect == Spec => []TypeOK
BY SessionTypes, PTL

-----------------------------------------------------------------------------
(* A write of the configuration, from the host to the register.            *)

\* The scanner reads from its frame what the write says.
LEMMA WriteFrame ==
  ASSUME NEW i \in DOMAIN Config
  PROVE  /\ Serialize(BuildWrite(Config[i])) \in Seq(Byte)
         /\ WritesTo(Serialize(BuildWrite(Config[i])), Config[i])
         /\ Serialize(BuildWrite(Config[i]))[7] + 256 * Serialize(BuildWrite(Config[i]))[8]
              = Config[i].value
<1> DEFINE w == Config[i]
           pkt == BuildWrite(w)
           raw == Serialize(pkt)
<1>1. w \in [bank : Byte, reg : Byte, value : Word]
  BY ConfigType, LenProperties
<1> HIDE DEF w
<1>2. /\ pkt \in Packets /\ pkt.type = 2 /\ Len(pkt.data) = 6
      /\ pkt.data[1] = 36 /\ pkt.data[2] = 3
      /\ pkt.data[3] = w.bank /\ pkt.data[4] = w.reg
      /\ pkt.data[5] + 256 * pkt.data[6] = w.value
  BY <1>1, WritePacket
<1> HIDE DEF pkt
<1>3. /\ Len(raw) = 8 /\ raw[1] = 2
      /\ \A k \in 1 .. 6 : raw[k + 2] = pkt.data[k]
  <2>1. /\ Len(raw) = 2 + Len(pkt.data) /\ raw[1] = pkt.type
        /\ \A k \in 1 .. Len(pkt.data) : raw[k + 2] = pkt.data[k]
    BY <1>2, FrameElements
  <2> HIDE DEF raw
  <2> QED
    BY <1>2, <2>1
<1>4. raw \in Seq(Byte)
  BY <1>2, FrameType
<1> HIDE DEF raw
<1>5. /\ raw[3] = pkt.data[1] /\ raw[4] = pkt.data[2] /\ raw[5] = pkt.data[3]
      /\ raw[6] = pkt.data[4] /\ raw[7] = pkt.data[5] /\ raw[8] = pkt.data[6]
  <2>1. /\ raw[1 + 2] = pkt.data[1] /\ raw[2 + 2] = pkt.data[2] /\ raw[3 + 2] = pkt.data[3]
        /\ raw[4 + 2] = pkt.data[4] /\ raw[5 + 2] = pkt.data[5] /\ raw[6 + 2] = pkt.data[6]
    BY <1>3
  <2> QED
    BY <2>1
<1>6. WritesTo(raw, w)
  BY <1>2, <1>3, <1>5 DEF WritesTo, IsWrite
<1>7. raw[7] + 256 * raw[8] = w.value
  BY <1>2, <1>5
<1> QED
  BY <1>4, <1>6, <1>7 DEF raw, pkt, w

\* A command that does not write its register leaves a write where it is.
LEMMA LandsKept ==
  ASSUME NEW q \in Seq(Seq(Byte)), NEW g, NEW w, NEW raw \in Seq(Byte),
         Lands(q, g, w), ~WritesTo(raw, w)
  PROVE  Lands(Append(q, raw), g, w)
<1> DEFINE n == Len(q)
           p == Append(q, raw)
<1>1. /\ n \in Nat /\ DOMAIN q = 1 .. n /\ DOMAIN p = 1 .. n + 1
      /\ \A l \in 1 .. n : p[l] = q[l]
      /\ p[n + 1] = raw
  BY LenProperties, AppendProperties
<1> HIDE DEF n, p
<1>2. \A l \in 1 .. n + 1 : l \in 1 .. n \/ l = n + 1
  BY <1>1
<1>3. CASE \E k \in DOMAIN q :
             /\ q[k] = Serialize(BuildWrite(w))
             /\ \A l \in DOMAIN q : l > k => ~WritesTo(q[l], w)
  <2>1. PICK k \in 1 .. n :
          /\ q[k] = Serialize(BuildWrite(w))
          /\ \A l \in 1 .. n : l > k => ~WritesTo(q[l], w)
    BY <1>1, <1>3
  <2>2. k \in 1 .. n + 1
    BY <1>1
  <2>3. \A l \in 1 .. n + 1 : l > k => ~WritesTo(p[l], w)
    BY <1>1, <1>2, <2>1
  <2> QED
    BY <1>1, <2>1, <2>2, <2>3 DEF Lands, p
<1>4. CASE g[<<w.bank, w.reg>>] = w.value /\ \A l \in DOMAIN q : ~WritesTo(q[l], w)
  <2>1. \A l \in 1 .. n + 1 : ~WritesTo(p[l], w)
    BY <1>1, <1>2, <1>4
  <2> QED
    BY <1>1, <1>4, <2>1 DEF Lands, p
<1> QED
  BY <1>3, <1>4 DEF Lands

\* Sent, it is the last.
LEMMA LandsSent ==
  ASSUME NEW q \in Seq(Seq(Byte)), NEW g, NEW i \in DOMAIN Config
  PROVE  Lands(Append(q, Serialize(BuildWrite(Config[i]))), g, Config[i])
<1> DEFINE raw == Serialize(BuildWrite(Config[i]))
           p == Append(q, raw)
           n == Len(q)
<1>1. raw \in Seq(Byte)
  BY WriteFrame
<1> HIDE DEF raw
<1>2. n \in Nat /\ DOMAIN p = 1 .. n + 1 /\ p[n + 1] = raw
  BY <1>1, LenProperties, AppendProperties
<1> HIDE DEF n, p
<1>3. n + 1 \in 1 .. n + 1 /\ \A l \in 1 .. n + 1 : ~(l > n + 1)
  BY <1>2
<1> QED
  BY <1>2, <1>3 DEF Lands, p, raw

\* The scanner takes the oldest command: a write of the configuration goes
\* from the queue into its register, and is not overwritten there.
LEMMA LandsServed ==
  ASSUME NEW q \in Seq(Seq(Byte)), q # <<>>, NEW i \in DOMAIN Config,
         NEW g \in [Registers -> Word], NEW g2, Lands(q, g, Config[i]),
         LET raw == Head(q)
             r   == <<raw[5], raw[6]>>
         IN  g2 = IF IsWrite(raw) /\ r \in Registers
                  THEN [g EXCEPT ![r] = raw[7] + 256 * raw[8]]
                  ELSE g
  PROVE  Lands(Tail(q), g2, Config[i])
<1> DEFINE raw == Head(q)
           r == <<raw[5], raw[6]>>
           p == Tail(q)
           n == Len(q)
           w == Config[i]
           slot == <<w.bank, w.reg>>
<1>1. /\ n \in Nat \ {0} /\ DOMAIN q = 1 .. n /\ DOMAIN p = 1 .. n - 1 /\ raw = q[1]
      /\ \A l \in 1 .. n - 1 : p[l] = q[l + 1]
  BY LenProperties, HeadTailProperties, EmptySeq
<1>2. slot \in Registers
  BY DEF Registers
<1>3. g2 = IF IsWrite(raw) /\ r \in Registers THEN [g EXCEPT ![r] = raw[7] + 256 * raw[8]] ELSE g
  OBVIOUS
<1>4. \A l \in 1 .. n - 1 : l + 1 \in 1 .. n
  BY <1>1
<1> HIDE DEF raw, p, n
<1>5. CASE \E k \in DOMAIN q :
             /\ q[k] = Serialize(BuildWrite(w))
             /\ \A l \in DOMAIN q : l > k => ~WritesTo(q[l], w)
  <2>1. PICK k \in 1 .. n :
          /\ q[k] = Serialize(BuildWrite(w))
          /\ \A l \in 1 .. n : l > k => ~WritesTo(q[l], w)
    BY <1>1, <1>5
  <2>2. CASE k = 1
    <3>1. raw = Serialize(BuildWrite(w))
      BY <1>1, <2>1, <2>2
    <3>2. WritesTo(raw, w) /\ raw[7] + 256 * raw[8] = w.value
      BY <3>1, WriteFrame
    <3> HIDE DEF w
    <3>3. IsWrite(raw) /\ r = slot
      BY <3>2 DEF WritesTo
    <3>4. g2[slot] = w.value
      BY <1>2, <1>3, <3>2, <3>3
    <3>5. \A l \in 1 .. n - 1 : ~WritesTo(p[l], w)
      BY <1>1, <1>4, <2>1, <2>2
    <3> QED
      BY <1>1, <3>4, <3>5 DEF Lands, p, w
  <2>3. CASE k # 1
    <3> HIDE DEF w
    <3>1. k - 1 \in 1 .. n - 1 /\ (k - 1) + 1 = k
      BY <1>1, <2>3
    <3>2. p[k - 1] = Serialize(BuildWrite(w))
      BY <1>1, <2>1, <3>1
    <3>3. \A l \in 1 .. n - 1 : l > k - 1 => ~WritesTo(p[l], w)
      BY <1>1, <1>4, <2>1
    <3> QED
      BY <1>1, <3>1, <3>2, <3>3 DEF Lands, p, w
  <2> QED
    BY <2>2, <2>3
<1>6. CASE g[slot] = w.value /\ \A l \in DOMAIN q : ~WritesTo(q[l], w)
  <2> HIDE DEF w
  <2>1. 1 \in 1 .. n
    BY <1>1
  <2>2. ~WritesTo(raw, w)
    BY <1>1, <1>6, <2>1
  <2>3. IsWrite(raw) => r # slot
    BY <2>2 DEF WritesTo
  <2>4. g2[slot] = g[slot]
    BY <1>2, <1>3, <2>3
  <2>5. \A l \in 1 .. n - 1 : ~WritesTo(p[l], w)
    BY <1>1, <1>4, <1>6
  <2> QED
    BY <1>1, <1>6, <2>4, <2>5 DEF Lands, p, w
<1> QED
  BY <1>5, <1>6 DEF Lands

\* Once a write is sent, or is the next to be, the step at the head is a write
\* too: that one, or one of another register.
LEMMA ConfigHead ==
  ASSUME TypeOK, ConfigInv, tool = "configure", failed = FALSE, todo # <<>>,
         NEW i \in DOMAIN Config, Place(i) <= 1
  PROVE  /\ Step.mode = "abort"
         /\ Place(i) = 1 => Step.pkt = BuildWrite(Config[i])
         /\ Place(i) < 1 => ~WritesTo(Frame, Config[i])
<1> DEFINE n == Len(todo)
           c == Len(Config)
           j == c - n + 1
<1>1. todo \in Seq(Exchanges) /\ n \in Nat \ {0} /\ Step = todo[1]
  BY HeadTailProperties, LenProperties, EmptySeq DEF TypeOK, Exchanges, Step
<1>2. c \in Nat /\ DOMAIN Config = 1 .. c
  BY ConfigType, LenProperties
<1>3. \A k \in DOMAIN Config : n - c + k >= 1 => todo[n - c + k] = ConfigWrites[k]
  BY DEF ConfigInv, Place
<1>4. n - c + i <= 1 /\ Place(i) = n - c + i
  BY DEF Place
<1> HIDE DEF n, c
<1>5. j \in 1 .. c /\ n - c + j = 1
  BY <1>1, <1>2, <1>4
<1> HIDE DEF j
<1>6. Step = ConfigWrites[j]
  BY <1>1, <1>2, <1>3, <1>5
<1>7. Step.mode = "abort" /\ Step.pkt = BuildWrite(Config[j])
  BY <1>2, <1>5, <1>6, ConfigType DEF c
<1>8. ASSUME Place(i) < 1
      PROVE  ~WritesTo(Frame, Config[i])
  <2>1. i # j
    BY <1>1, <1>2, <1>4, <1>5, <1>8
  <2>2. WritesTo(Frame, Config[j])
    BY <1>2, <1>5, <1>7, WriteFrame DEF Frame
  <2>3. ~(Config[i].bank = Config[j].bank /\ Config[i].reg = Config[j].reg)
    BY <1>2, <1>5, <2>1, ToolsAssumption
  <2> QED
    BY <2>2, <2>3 DEF WritesTo
<1>9. Place(i) = 1 => i = j
  BY <1>1, <1>2, <1>4, <1>5
<1> QED
  BY <1>7, <1>8, <1>9

\* Nothing of it depends on what else a step changes.
LEMMA ConfigUnmoved ==
  ASSUME ConfigInv, tool' = tool, todo' = todo, UNCHANGED <<awaiting, requests, regs>>,
         failed' = FALSE => failed = FALSE, failed' \in BOOLEAN, failed \in BOOLEAN,
         refused' = refused, cycled' = FALSE => cycled = FALSE,
         cycled' \in BOOLEAN, cycled \in BOOLEAN,
         tool = "configure" /\ failed' = FALSE =>
           (pc' \in {"release", "close", "exit", "exited"} => todo = <<>>)
  PROVE  ConfigInv'
<1>1. \A i : Place(i)' = Place(i)
  BY DEF Place
<1>2. ASSUME tool' = "configure", ~failed'
      PROVE  /\ ~failed
             /\ pc' \in {"release", "close", "exit", "exited"} => todo' = <<>>
             /\ ~cycled' => ~cycled
  BY <1>2
<1> QED
  BY <1>1, <1>2 DEF ConfigInv

\* The step at the head is over.
LEMMA ConfigAdvances ==
  ASSUME TypeOK, ConfigInv, AtStep, UNCHANGED <<pc, tool, regs, refused, cycled>>,
         failed' \in BOOLEAN, failed' = FALSE => failed = FALSE,
         ~awaiting', failed' = FALSE => todo' = Tail(todo),
         \/ requests' = requests /\ (awaiting \/ Step.mode \in {"ignore", "chunk", "skip"})
         \/ failed' = FALSE => Step.mode \in {"ignore", "post"}
  PROVE  ConfigInv'
<1>1. pc' \notin {"release", "close", "exit", "exited"} /\ pc = "body"
  BY DEF AtStep
<1> SUFFICES ASSUME tool = "configure", failed' = FALSE
             PROVE  /\ \A i \in DOMAIN Config : Place(i)' >= 1 => todo'[Place(i)'] = ConfigWrites[i]
                    /\ ~refused' /\ ~cycled' =>
                         \A i \in DOMAIN Config :
                           Place(i)' < 1 \/ (Place(i)' = 1 /\ awaiting')
                             => Lands(requests', regs', Config[i])
  BY <1>1 DEF ConfigInv
<1>2. todo \in Seq(Exchanges) /\ todo # <<>> /\ todo' = Tail(todo) /\ failed = FALSE
  BY DEF TypeOK, Exchanges, AtStep
<1> DEFINE n == Len(todo)
           c == Len(Config)
<1>3. /\ n \in Nat \ {0} /\ Len(todo') = n - 1
      /\ \A k \in 1 .. n - 1 : todo'[k] = todo[k + 1]
  BY <1>2, HeadTailProperties, LenProperties, EmptySeq
<1>4. c \in Nat /\ DOMAIN Config = 1 .. c
  BY ConfigType, LenProperties
<1>5. \A i \in DOMAIN Config : Place(i) = n - c + i /\ Place(i)' = n - 1 - c + i
  BY <1>3 DEF Place
<1>6. \A i \in DOMAIN Config : n - c + i >= 1 => todo[n - c + i] = ConfigWrites[i]
  BY <1>2 DEF ConfigInv, Place
<1> HIDE DEF n, c
<1>7. ASSUME NEW i \in DOMAIN Config, Place(i)' >= 1
      PROVE  todo'[Place(i)'] = ConfigWrites[i]
  <2>1. /\ n - 1 - c + i \in 1 .. n - 1
        /\ (n - 1 - c + i) + 1 = n - c + i
        /\ n - c + i >= 1
    BY <1>3, <1>4, <1>5, <1>7
  <2>2. todo'[n - 1 - c + i] = todo[(n - 1 - c + i) + 1]
    BY <1>3, <2>1
  <2> QED
    BY <1>5, <1>6, <2>1, <2>2
<1>8. ASSUME ~refused', ~cycled', NEW i \in DOMAIN Config,
             Place(i)' < 1 \/ (Place(i)' = 1 /\ awaiting')
      PROVE  Lands(requests', regs', Config[i])
  <2>1. Place(i) <= 1 /\ (Place(i) < 1 \/ Place(i) = 1)
    BY <1>3, <1>4, <1>5, <1>8
  <2>2. Step.mode = "abort"
    BY <1>2, <2>1, ConfigHead
  <2>3. requests' = requests /\ awaiting
    BY <2>2
  <2> QED
    BY <1>2, <1>8, <2>1, <2>3 DEF ConfigInv
<1> QED
  BY <1>7, <1>8

LEMMA ConfigSends ==
  ASSUME TypeOK, SessionInv, ConfigInv, StepSends
  PROVE  ConfigInv'
<1>1. /\ todo # <<>> /\ requests' = Append(requests, Frame) /\ pc = "body"
      /\ UNCHANGED <<tool, pc, todo, failed, regs, refused, cycled>>
      /\ awaiting = FALSE
  BY DEF StepSends, AtStep, Sends, session, scanner
<1>2. requests \in Seq(Seq(Byte)) /\ todo \in Seq(Exchanges)
  BY DEF TypeOK, ChannelTypeOK, Exchanges
<1>3. Frame \in Seq(Byte)
  <2>1. Step \in Exchanges
    BY <1>1, <1>2, HeadTailProperties DEF Step
  <2>2. Step.pkt \in Packets
    BY <2>1 DEF Exchanges
  <2> QED
    BY <2>2, FrameType DEF Frame
<1>4. ASSUME tool = "configure", failed = FALSE, ~refused, ~cycled, NEW i \in DOMAIN Config,
             Place(i) <= 1, Place(i) < 1 \/ Place(i) = 1
      PROVE  Lands(requests', regs, Config[i])
  <2>1. CASE Place(i) = 1
    <3>1. Frame = Serialize(BuildWrite(Config[i]))
      BY <1>1, <1>4, <2>1, ConfigHead DEF Frame
    <3> QED
      BY <1>1, <1>2, <3>1, LandsSent
  <2>2. CASE Place(i) < 1
    <3>1. Lands(requests, regs, Config[i])
      BY <1>4, <2>2 DEF ConfigInv
    <3>2. ~WritesTo(Frame, Config[i])
      BY <1>1, <1>4, <2>2, ConfigHead
    <3> QED
      BY <1>1, <1>2, <1>3, <3>1, <3>2, LandsKept
  <2> QED
    BY <1>4, <2>1, <2>2
<1>5. \A i \in DOMAIN Config : Place(i)' = Place(i) /\ (Place(i) < 1 => Place(i) <= 1)
  <2>1. Len(todo) \in Nat /\ Len(Config) \in Nat /\ DOMAIN Config = 1 .. Len(Config)
    BY <1>2, ConfigType, LenProperties
  <2> QED
    BY <1>1, <2>1 DEF Place
<1>6. ASSUME tool' = "configure", ~failed'
      PROVE  /\ pc' \notin {"release", "close", "exit", "exited"}
             /\ \A i \in DOMAIN Config : Place(i)' >= 1 => todo'[Place(i)'] = ConfigWrites[i]
             /\ ~refused' /\ ~cycled' =>
                  \A i \in DOMAIN Config :
                    Place(i)' < 1 \/ (Place(i)' = 1 /\ awaiting')
                      => Lands(requests', regs', Config[i])
  <2>1. tool = "configure" /\ failed = FALSE
    BY <1>1, <1>6
  <2>2. \A i \in DOMAIN Config : Place(i)' >= 1 => todo'[Place(i)'] = ConfigWrites[i]
    BY <1>1, <1>5, <2>1 DEF ConfigInv
  <2>3. ASSUME ~refused', ~cycled', NEW i \in DOMAIN Config, Place(i)' < 1 \/ Place(i)' = 1
        PROVE  Lands(requests', regs', Config[i])
    <3>1. ~refused /\ ~cycled
      BY <1>1, <2>3
    <3>2. Place(i) <= 1 /\ (Place(i) < 1 \/ Place(i) = 1)
      BY <1>5, <2>3
    <3> QED
      BY <1>1, <1>4, <2>1, <3>1, <3>2
  <2> QED
    BY <1>1, <2>2, <2>3
<1> QED
  BY <1>1, <1>6 DEF ConfigInv

\* The scanner serves a command, or refuses it and the tool's configuration.
LEMMA ConfigServes ==
  ASSUME TypeOK, ConfigInv, ScannerServes
  PROVE  ConfigInv'
<1>1. PICK status \in {Normal(Addr(Parse(Head(requests)))), 9} :
        LET raw == Head(requests)
            r   == <<raw[5], raw[6]>>
        IN  /\ Serves(raw, <<7, 2, Addr(Parse(raw)), status>>)
            /\ IF IsWrite(raw) /\ r \in Registers
               THEN IF status = 0
                    THEN regs' = [regs EXCEPT ![r] = raw[7] + 256 * raw[8]] /\ UNCHANGED refused
                    ELSE refused' = TRUE /\ UNCHANGED regs
               ELSE UNCHANGED <<regs, refused>>
  BY DEF ScannerServes
<1>2. /\ requests # <<>> /\ requests' = Tail(requests)
      /\ UNCHANGED <<tool, pc, todo, failed, awaiting, cycled>>
  BY <1>1 DEF ScannerServes, Serves, session
<1>3. requests \in Seq(Seq(Byte)) /\ regs \in [Registers -> Word]
  BY DEF TypeOK, ChannelTypeOK
<1>4. ASSUME ~refused'
      PROVE  /\ ~refused
             /\ LET raw == Head(requests)
                    r   == <<raw[5], raw[6]>>
                IN  regs' = IF IsWrite(raw) /\ r \in Registers
                            THEN [regs EXCEPT ![r] = raw[7] + 256 * raw[8]]
                            ELSE regs
  BY <1>1, <1>4
<1>5. ASSUME ~refused', NEW i \in DOMAIN Config, Lands(requests, regs, Config[i])
      PROVE  Lands(requests', regs', Config[i])
  BY <1>2, <1>3, <1>4, <1>5, LandsServed
<1>6. \A i : Place(i)' = Place(i)
  BY <1>2 DEF Place
<1> QED
  BY <1>2, <1>4, <1>5, <1>6 DEF ConfigInv

LEMMA ConfigStep ==
  ASSUME TypeOK, SessionInv, ConfigInv, [Next]_vars
  PROVE  ConfigInv'
<1>0. /\ failed \in BOOLEAN /\ cycled \in BOOLEAN /\ awaiting \in BOOLEAN
      /\ todo \in Seq(Exchanges)
  BY DEF TypeOK, ChannelTypeOK, Exchanges
<1>1. CASE Begins
  <2>1. PICK t \in ToolNames : tool' = t /\ todo' \in Plans(t)
    BY <1>1 DEF Begins
  <2>2. pc' = "init" /\ ~awaiting'
    BY <1>1, Zenon DEF Begins, SessionInv
  <2>3. ASSUME tool' = "configure"
        PROVE  \A i \in DOMAIN Config :
                 Place(i)' >= 1 /\ todo'[Place(i)'] = ConfigWrites[i]
    <3>1. PICK before \in Seq(Exchanges) : todo' = before \o ConfigWrites
      BY <2>1, <2>3, ConfigurePlan
    <3> DEFINE b == Len(before)
               c == Len(Config)
    <3>2. /\ b \in Nat /\ c \in Nat /\ DOMAIN Config = 1 .. c
          /\ Len(todo') = b + c
          /\ \A k \in 1 .. b + c : todo'[k] = IF k <= b THEN before[k] ELSE ConfigWrites[k - b]
      <4>1. c \in Nat /\ DOMAIN Config = 1 .. c
        BY ConfigType, LenProperties
      <4>2. ConfigWrites \in Seq(Exchanges) /\ Len(ConfigWrites) = c
        BY ConfigType
      <4> HIDE DEF c
      <4>3. /\ b \in Nat /\ Len(before \o ConfigWrites) = b + Len(ConfigWrites)
            /\ \A k \in 1 .. b + Len(ConfigWrites) :
                 (before \o ConfigWrites)[k] = IF k <= b THEN before[k] ELSE ConfigWrites[k - b]
        BY <4>2, LenProperties, ConcatProperties
      <4> QED
        BY <3>1, <4>1, <4>2, <4>3
    <3>3. \A i \in DOMAIN Config : Place(i)' = b + c - c + i
      BY <3>2 DEF Place
    <3> HIDE DEF b, c
    <3>4. \A i \in DOMAIN Config :
            /\ b + c - c + i = b + i /\ b + i \in 1 .. b + c
            /\ ~(b + i <= b) /\ (b + i) - b = i /\ b + i >= 1
      BY <3>2
    <3> QED
      BY <3>2, <3>3, <3>4
  <2>4. \A i \in DOMAIN Config : tool' = "configure" => ~(Place(i)' < 1)
    <3>1. Len(todo') \in Nat /\ Len(Config) \in Nat /\ DOMAIN Config = 1 .. Len(Config)
      BY <2>1, PlanType, ConfigType, LenProperties
    <3>2. \A i \in DOMAIN Config : Place(i)' \in Int
      BY <3>1 DEF Place
    <3> QED
      BY <2>3, <3>2
  <2> QED
    BY <2>2, <2>3, <2>4 DEF ConfigInv
<1>2. CASE \/ InitFails \/ Inits \/ Finds \/ OpenFails \/ Opens \/ Claims \/ ClaimRefused
           \/ BodyEnds \/ Malformed \/ EndOfScript \/ SeesWarm \/ Releases \/ Closes \/ Exits
  <2> USE DEF Elsewhere, Goes, GivesUp
  <2>1. UNCHANGED <<tool, todo, awaiting, requests, regs, refused, cycled>>
    BY <1>2 DEF InitFails, Inits, Finds, OpenFails, Opens, Claims, ClaimRefused, BodyEnds,
                Malformed, EndOfScript, SeesWarm, Releases, Closes, Exits, channel, scanner
  <2>2. failed' = failed \/ failed' = TRUE
    BY <1>2 DEF InitFails, Inits, Finds, OpenFails, Opens, Claims, ClaimRefused, BodyEnds,
                Malformed, EndOfScript, SeesWarm, Releases, Closes, Exits
  <2>4. tool = "configure" /\ failed' = FALSE =>
          (pc' \in {"release", "close", "exit", "exited"} =>
             pc \in {"release", "close", "exit", "exited"} \/ todo = <<>>)
    BY <1>2 DEF InitFails, Inits, Finds, OpenFails, Opens, Claims, ClaimRefused, BodyEnds,
                Malformed, EndOfScript, SeesWarm, Releases, Closes, Exits, SessionInv, ConfigInv
  <2>5. tool = "configure" /\ failed' = FALSE =>
          (pc' \in {"release", "close", "exit", "exited"} => todo = <<>>)
    BY <2>2, <2>4 DEF ConfigInv
  <2>6. failed' \in BOOLEAN /\ cycled' \in BOOLEAN
    BY <1>0, <2>1, <2>2, Zenon
  <2> QED
    BY <1>0, <2>1, <2>2, <2>5, <2>6, ConfigUnmoved
<1>3. CASE StepSends
  BY <1>3, ConfigSends
<1>4. CASE StepPosts \/ StepSendFails \/ StepReplies \/ StepReplyFails \/ ReadsChunk \/ PassesLine
  <2>1. /\ AtStep /\ UNCHANGED <<pc, tool, regs, refused, cycled>>
        /\ failed' = FALSE => failed = FALSE
    <3>1. AtStep /\ UNCHANGED <<pc, tool, regs, refused, cycled>>
      BY <1>4 DEF StepPosts, StepSendFails, StepReplies, StepReplyFails, ReadsChunk,
                  PassesLine, Ends, scanner
    <3>2. \E bad : failed' = (failed \/ (bad /\ Step.mode # "ignore"))
      BY <1>4, Zenon DEF StepPosts, StepSendFails, StepReplies, StepReplyFails, ReadsChunk,
                         PassesLine, Ends
    <3>3. failed' = FALSE => failed = FALSE
      BY <1>0, <3>2, Zenon
    <3> QED
      BY <3>1, <3>3
  <2>2. ~awaiting'
    <3>1. CASE StepPosts \/ ReadsChunk \/ PassesLine
      BY <3>1, Zenon DEF StepPosts, ReadsChunk, PassesLine, Posts, channel, SessionInv
    <3>2. CASE StepSendFails \/ StepReplies \/ StepReplyFails
      BY <3>2, Zenon DEF StepSendFails, StepReplies, StepReplyFails, SendFails, Receives,
                         ReceiveFails
    <3> QED
      BY <1>4, <3>1, <3>2
  <2>3. failed' = FALSE => todo' = Tail(todo)
    BY <1>4 DEF StepPosts, StepSendFails, StepReplies, StepReplyFails, ReadsChunk, PassesLine,
                Ends
  <2>4. \/ requests' = requests /\ (awaiting \/ Step.mode \in {"ignore", "chunk", "skip"})
        \/ failed' = FALSE => Step.mode \in {"ignore", "post"}
    <3>1. CASE StepPosts
      BY <3>1 DEF StepPosts
    <3>2. CASE StepSendFails
      BY <3>2 DEF StepSendFails, Ends
    <3>3. CASE StepReplies \/ StepReplyFails
      BY <3>3, Zenon DEF StepReplies, StepReplyFails, Receives, ReceiveFails
    <3>4. CASE ReadsChunk \/ PassesLine
      BY <3>4 DEF ReadsChunk, PassesLine, channel
    <3> QED
      BY <1>4, <3>1, <3>2, <3>3, <3>4
  <2>5. failed' \in BOOLEAN
    BY <1>0, <1>4, Zenon DEF StepPosts, StepSendFails, StepReplies, StepReplyFails, ReadsChunk,
                             PassesLine, Ends
  <2> QED
    BY <1>0, <2>1, <2>2, <2>3, <2>4, <2>5, ConfigAdvances
<1>5. CASE StartsLoad \/ ReplaysLine \/ Waits
  <2>1. tool' = "load"
    BY <1>5 DEF StartsLoad, ReplaysLine, Waits, Goes, GivesUp, session, SessionInv
  <2> QED
    BY <2>1 DEF ConfigInv
<1>6. CASE ScannerServes
  BY <1>6, ConfigServes
<1>7. CASE ScannerBoots \/ SwitchedOn \/ UNCHANGED vars
  <2>1. UNCHANGED <<tool, pc, todo, failed, awaiting, requests, regs, refused, cycled>>
    BY <1>7 DEF ScannerBoots, SwitchedOn, vars, channel, session, scanner
  <2>2. tool = "configure" /\ failed' = FALSE =>
          (pc' \in {"release", "close", "exit", "exited"} => todo = <<>>)
    BY <2>1 DEF ConfigInv
  <2> QED
    BY <1>0, <2>1, <2>2, ConfigUnmoved
<1>8. CASE SwitchedOff
  <2>1. UNCHANGED <<tool, pc, todo, failed>> /\ cycled' = TRUE
    BY <1>8 DEF SwitchedOff, session
  <2>2. \A i : Place(i)' = Place(i)
    BY <2>1 DEF Place
  <2> QED
    BY <2>1, <2>2 DEF ConfigInv
<1>9. CASE Killed
  BY <1>9 DEF Killed, ConfigInv
<1> QED
  BY <1>1, <1>2, <1>3, <1>4, <1>5, <1>6, <1>7, <1>8, <1>9 DEF Next, Proceed, World

\* A --configure that exits with 0 has every value of its configuration in the
\* scanner once what it sent is served, whatever the tools before it left on
\* the endpoints and whichever of their exchanges failed: no write is lost on
\* the way, and none of another tool comes after it.
THEOREM ConfigurationLands == Spec => []ConfigLands
<1>1. Init => ConfigInv
  BY DEF Init, ConfigInv
<1>2. ConfigInv => ConfigLands
  <2> SUFFICES ASSUME ConfigInv, pc = "exited", tool = "configure", ~failed, requests = <<>>,
                      ~refused, ~cycled, NEW i \in DOMAIN Config
               PROVE  regs[<<Config[i].bank, Config[i].reg>>] = Config[i].value
    BY DEF ConfigLands
  <2>1. todo = <<>>
    BY DEF ConfigInv
  <2>2. Place(i) < 1
    <3>1. Len(todo) = 0
      BY <2>1
    <3>2. Len(Config) \in Nat /\ DOMAIN Config = 1 .. Len(Config)
      BY ConfigType, LenProperties
    <3> QED
      BY <3>1, <3>2 DEF Place
  <2>3. Lands(requests, regs, Config[i])
    BY <2>2 DEF ConfigInv
  <2>4. DOMAIN requests = {}
    OBVIOUS
  <2> QED
    BY <2>3, <2>4 DEF Lands
<1> QED
  BY <1>1, <1>2, ConfigStep, SessionTypes, PTL DEF Spec

-----------------------------------------------------------------------------
(* The image of a script, from its lines to the scanner's memory.          *)

LEMMA ScriptType ==
  ASSUME NEW s \in DOMAIN FwScripts
  PROVE  /\ s # 0 /\ DOMAIN FwScripts[s] = 1 .. Len(FwScripts[s]) /\ Len(FwScripts[s]) \in Nat
         /\ Writes(s) \subseteq 1 .. Len(FwScripts[s])
         /\ \A i \in Writes(s) : At(s, i) \in AllAddresses
<1>1. s # 0 /\ FwScripts[s] \in Seq([op : Ops, at : Nat])
  BY FirmwareAssumption
<1>2. DOMAIN FwScripts[s] = 1 .. Len(FwScripts[s]) /\ Len(FwScripts[s]) \in Nat
  BY <1>1, LenProperties
<1>3. Writes(s) \subseteq DOMAIN FwScripts[s]
  BY DEF Writes
<1>4. \A i \in Writes(s) : At(s, i) \in AllAddresses
  BY DEF AllAddresses, Addresses
<1> QED
  BY <1>1, <1>2, <1>3, <1>4

\* A memory holds one image at most.
LEMMA OneImage ==
  ASSUME NEW m, NEW s \in DOMAIN FwScripts, NEW t \in DOMAIN FwScripts,
         HoldsImage(m, s), HoldsImage(m, t)
  PROVE  s = t
<1>1. PICK i \in LastWrites(s), j \in LastWrites(t) : At(s, i) = At(t, j)
  BY ImagesOverlap
<1>2. m[At(s, i)] = <<s, i>> /\ m[At(t, j)] = <<t, j>>
  BY DEF HoldsImage
<1> QED
  BY <1>1, <1>2

\* Nothing was written before the first line.
LEMMA NothingWritten ==
  ASSUME NEW m, NEW s \in DOMAIN FwScripts
  PROVE  WrittenBefore(m, s, 1)
<1>1. \A i \in Writes(s) : ~(i < 1)
  BY ScriptType
<1> QED
  BY <1>1 DEF WrittenBefore

\* A line that is not a write adds nothing.
LEMMA NotAWrite ==
  ASSUME NEW m, NEW s \in DOMAIN FwScripts, NEW n \in Nat, n \notin Writes(s),
         WrittenBefore(m, s, n)
  PROVE  WrittenBefore(m, s, n + 1)
<1>1. \A i \in Writes(s) : i < n + 1 <=> i < n
  BY ScriptType
<1> QED
  BY <1>1 DEF WrittenBefore

\* A write adds what it writes, and takes the place of the one before it.
LEMMA OneMoreWrite ==
  ASSUME NEW m \in [AllAddresses -> (DOMAIN FwScripts \cup {0}) \X Nat],
         NEW s \in DOMAIN FwScripts, NEW n \in Writes(s), WrittenBefore(m, s, n)
  PROVE  WrittenBefore([m EXCEPT ![At(s, n)] = <<s, n>>], s, n + 1)
<1> DEFINE m2 == [m EXCEPT ![At(s, n)] = <<s, n>>]
<1>1. n \in Nat /\ \A i \in Writes(s) : i \in Nat /\ At(s, i) \in AllAddresses
  BY ScriptType
<1>2. /\ m2[At(s, n)] = <<s, n>>
      /\ \A i \in Writes(s) : At(s, i) # At(s, n) => m2[At(s, i)] = m[At(s, i)]
  BY <1>1
<1> HIDE DEF m2
<1>3. ASSUME NEW i \in Writes(s), i < n + 1,
             \A j \in Writes(s) : j < n + 1 /\ At(s, j) = At(s, i) => j <= i
      PROVE  m2[At(s, i)] = <<s, i>>
  <2>1. CASE i = n
    BY <1>2, <2>1
  <2>2. CASE i # n
    <3>1. i < n /\ n < n + 1 /\ ~(n <= i)
      BY <1>1, <1>3, <2>2
    <3>2. At(s, i) # At(s, n)
      BY <1>3, <3>1
    <3>3. \A j \in Writes(s) : j < n => j < n + 1
      BY <1>1
    <3>4. m[At(s, i)] = <<s, i>>
      BY <1>3, <3>1, <3>3 DEF WrittenBefore
    <3> QED
      BY <1>2, <3>2, <3>4
  <2> QED
    BY <2>1, <2>2
<1> QED
  BY <1>3 DEF WrittenBefore, m2

\* A script that is over has written its image.
LEMMA ImageComplete ==
  ASSUME NEW m, NEW s \in DOMAIN FwScripts, NEW n \in Nat,
         WrittenBefore(m, s, n), OverAt(s, n)
  PROVE  HoldsImage(m, s)
<1>1. \A i \in Writes(s) : i \in Nat /\ i \in DOMAIN FwScripts[s]
                            /\ FwScripts[s][i].op # "comment"
  BY ScriptType DEF Writes
<1>2. \A i \in Writes(s) : i < n
  BY <1>1 DEF OverAt
<1> QED
  BY <1>2 DEF HoldsImage, LastWrites, WrittenBefore

\* A line is replayed.
LEMMA LineReplayed ==
  ASSUME TypeOK, SessionInv, LoadInv, ReplaysLine
  PROVE  LoadInv'
<1>1. pc = "load" /\ tool = "load" /\ UNCHANGED <<pc, tool, failed, cycled>>
  BY DEF ReplaysLine, SessionInv, session, scanner
<1>2. CASE Misses
  BY <1>1, <1>2 DEF Misses, LoadInv
<1> SUFFICES ASSUME ~failed, ~dropped, ~cycled, SkipsComment \/ TakesEffect
             PROVE  /\ fw' \in DOMAIN FwScripts /\ line' >= 1 /\ WrittenBefore(mem', fw', line')
                    /\ \/ bus' = "cold" /\ handle' = "live"
                       \/ /\ bus' \in {"booting", "warm"} /\ handle' = "gone"
                          /\ OverAt(fw', line') => runs' = fw'
  <2>1. SkipsComment \/ TakesEffect => dropped' = dropped
    BY DEF SkipsComment, TakesEffect
  <2> QED
    BY <1>1, <1>2, <2>1 DEF LoadInv, Left, ReplaysLine
<1>3. /\ fw \in DOMAIN FwScripts /\ line \in Nat /\ line >= 1 /\ WrittenBefore(mem, fw, line)
      /\ \/ bus = "cold" /\ handle = "live"
         \/ bus \in {"booting", "warm"} /\ handle = "gone" /\ (OverAt(fw, line) => runs = fw)
      /\ mem \in [AllAddresses -> (DOMAIN FwScripts \cup {0}) \X Nat]
  BY <1>1 DEF LoadInv, Left, TypeOK, LoadTypeOK
<1>4. /\ fw' = fw /\ line' = line + 1 /\ line' >= 1 /\ MoreLines
  BY <1>3 DEF SkipsComment, TakesEffect, Transfers
<1>5. line \in DOMAIN FwScripts[fw]
  BY <1>3, <1>4, ScriptType DEF MoreLines
<1>6. CASE SkipsComment
  <2>1. Line.op = "comment" /\ UNCHANGED <<usb, mem, runs>>
    BY <1>6 DEF SkipsComment
  <2>2. line \notin Writes(fw)
    BY <2>1 DEF Writes, Line
  <2>3. WrittenBefore(mem, fw, line + 1)
    BY <1>3, <2>2, NotAWrite
  <2>4. OverAt(fw, line + 1) => OverAt(fw, line)
    <3>1. \A i \in DOMAIN FwScripts[fw] : i >= line => i = line \/ i >= line + 1
      BY <1>3, ScriptType
    <3> QED
      BY <2>1, <3>1 DEF OverAt, Line
  <2> QED
    BY <1>3, <1>4, <2>1, <2>3, <2>4 DEF usb
<1>7. CASE TakesEffect
  <2>1. bus = "cold" /\ handle = "live"
    BY <1>3, <1>7 DEF TakesEffect
  <2>2. CASE Line.op = "hold"
    <3>1. UNCHANGED <<usb, mem>>
      BY <1>7, <2>2 DEF TakesEffect
    <3>2. line \notin Writes(fw)
      BY <2>2 DEF Writes, Line
    <3> QED
      BY <1>3, <1>4, <2>1, <3>1, <3>2, NotAWrite DEF usb
  <2>3. CASE Line.op = "write"
    <3>1. mem' = [mem EXCEPT ![At(fw, line)] = <<fw, line>>] /\ UNCHANGED usb
      BY <1>7, <2>3 DEF TakesEffect, At, Line
    <3>2. line \in Writes(fw)
      BY <1>5, <2>3 DEF Writes, Line
    <3>3. WrittenBefore(mem', fw, line + 1)
      BY <1>3, <3>1, <3>2, OneMoreWrite
    <3> QED
      BY <1>3, <1>4, <2>1, <3>1, <3>3 DEF usb
  <2>4. CASE Line.op = "release"
    <3>1. ScannerRuns /\ mem' = mem
      BY <1>7, <2>4 DEF TakesEffect
    <3>2. line \notin Writes(fw)
      BY <2>4 DEF Writes, Line
    <3>3. WrittenBefore(mem, fw, line + 1)
      BY <1>3, <3>2, NotAWrite
    <3>4. OverAt(fw, line + 1) => HoldsImage(mem, fw)
      <4>1. line + 1 \in Nat
        BY <1>3
      <4> QED
        BY <1>3, <3>3, <4>1, ImageComplete
    <3>5. CASE \E s \in DOMAIN FwScripts : HoldsImage(mem, s) /\ Leaves("booting") /\ runs' = s
      <4>1. PICK s \in DOMAIN FwScripts : HoldsImage(mem, s) /\ Leaves("booting") /\ runs' = s
        BY <3>5
      <4>2. HoldsImage(mem, fw) => s = fw
        BY <1>3, <4>1, OneImage
      <4>3. bus' = "booting" /\ handle' = "gone"
        BY <2>1, <4>1 DEF Leaves
      <4> QED
        BY <1>3, <1>4, <3>1, <3>3, <3>4, <4>1, <4>2, <4>3
    <3>6. CASE /\ \A s \in DOMAIN FwScripts : ~HoldsImage(mem, s)
               /\ UNCHANGED usb \/ Leaves("booting")
      <4>1. ~OverAt(fw, line + 1)
        BY <1>3, <3>4, <3>6
      <4>2. \/ bus' = "cold" /\ handle' = "live"
            \/ bus' = "booting" /\ handle' = "gone"
        BY <2>1, <3>6 DEF usb, Leaves
      <4> QED
        BY <1>3, <1>4, <3>1, <3>3, <4>1, <4>2
    <3> QED
      BY <3>1, <3>5, <3>6 DEF ScannerRuns
  <2> QED
    BY <1>7, <2>2, <2>3, <2>4 DEF TakesEffect
<1> QED
  BY <1>6, <1>7

LEMMA LoadStep ==
  ASSUME TypeOK, SessionInv, LoadInv, [Next]_vars
  PROVE  LoadInv'
<1>0. failed \in BOOLEAN /\ cycled \in BOOLEAN /\ dropped \in BOOLEAN
  BY DEF TypeOK, LoadTypeOK
<1>1. CASE Begins
  BY <1>1 DEF Begins, LoadInv
<1>2. CASE \/ InitFails \/ Inits \/ Finds \/ OpenFails \/ Opens \/ Claims \/ ClaimRefused
           \/ BodyEnds \/ Malformed \/ Releases
  <2> USE DEF Elsewhere, Goes, GivesUp
  <2>1. tool' = tool
    BY <1>2 DEF InitFails, Inits, Finds, OpenFails, Opens, Claims, ClaimRefused, BodyEnds,
                Malformed, Releases
  <2>2. tool = "load" => failed' = TRUE \/ pc' = "open"
    BY <1>2 DEF InitFails, Inits, Finds, OpenFails, Opens, Claims, ClaimRefused, BodyEnds,
                Malformed, Releases, SessionInv
  <2> QED
    BY <2>1, <2>2 DEF LoadInv
<1>3. CASE EndOfScript \/ SeesWarm \/ Closes \/ Exits
  <2> USE DEF Elsewhere, Goes, GivesUp, load, channel, scanner
  <2>1. UNCHANGED <<tool, failed, dropped, cycled, fw, line, runs, bus>>
    BY <1>3 DEF EndOfScript, SeesWarm, Closes, Exits, Close, ExitUsb, usb
  <2>2. CASE EndOfScript
    <3>1. pc = "load" /\ pc' = "close" /\ ~MoreLines
      BY <2>2 DEF EndOfScript
    <3>2. ASSUME tool = "load", ~failed, ~dropped, ~cycled
          PROVE  bus = "cold" \/ (Left /\ runs = fw)
      <4>1. fw \in DOMAIN FwScripts /\ line \in Nat
        BY <3>1, <3>2 DEF LoadInv, TypeOK, LoadTypeOK
      <4>2. \A i \in DOMAIN FwScripts[fw] : ~(i >= line)
        BY <3>1, <4>1, ScriptType DEF MoreLines
      <4>3. OverAt(fw, line)
        BY <4>2 DEF OverAt
      <4> QED
        BY <3>1, <3>2, <4>3 DEF LoadInv
    <3> QED
      BY <2>1, <3>1, <3>2 DEF LoadInv, Left
  <2>3. CASE SeesWarm
    <3>1. pc = "wait" /\ pc' = "exit" /\ bus = "warm"
      BY <2>3 DEF SeesWarm, Found
    <3> QED
      BY <2>1, <3>1 DEF LoadInv
  <2>4. CASE Closes
    <3>1. pc = "close" /\ pc' = (IF tool = "load" /\ ~failed THEN "wait" ELSE "exit")
      BY <2>4 DEF Closes
    <3> QED
      BY <2>1, <3>1 DEF LoadInv, Left
  <2>5. CASE Exits
    <3>1. pc = "exit" /\ pc' = "exited"
      BY <2>5 DEF Exits
    <3> QED
      BY <2>1, <3>1 DEF LoadInv
  <2> QED
    BY <1>3, <2>2, <2>3, <2>4, <2>5
<1>4. CASE StepSends \/ StepPosts \/ StepSendFails \/ StepReplies \/ StepReplyFails
           \/ ReadsChunk \/ PassesLine
  <2>1. pc = "body" /\ tool' = tool
    BY <1>4 DEF StepSends, StepPosts, StepSendFails, StepReplies, StepReplyFails, ReadsChunk,
                PassesLine, Ends, AtStep, session
  <2> QED
    BY <2>1 DEF LoadInv, SessionInv
<1>5. CASE StartsLoad
  <2>1. /\ pc' = "load" /\ fw' \in DOMAIN FwScripts /\ line' = 1
        /\ bus' = "cold" /\ handle' = "live"
    BY <1>5 DEF StartsLoad, LoadBegins, OpenCold, Found, Goes
  <2> QED
    BY <2>1, NothingWritten DEF LoadInv
<1>6. CASE ReplaysLine
  BY <1>6, LineReplayed
<1>7. CASE Waits
  <2>1. /\ pc = "wait" /\ UNCHANGED <<tool, cycled, dropped, bus, runs, fw>>
        /\ (pc' = "wait" /\ failed' = failed) \/ failed' = TRUE
    BY <1>7 DEF Waits, Polls, Goes, GivesUp, usb, scanner
  <2> QED
    BY <2>1 DEF LoadInv, Left
<1>8. CASE ScannerServes \/ UNCHANGED vars
  <2>1. UNCHANGED <<usb, load, session, cycled>>
    BY <1>8 DEF ScannerServes, vars, scanner
  <2> QED
    BY <2>1 DEF LoadInv, Left, usb, load, session
<1>9. CASE ScannerBoots \/ SwitchedOn
  <2>1. /\ UNCHANGED <<handle, load, session, cycled>>
        /\ \/ bus = "booting" /\ bus' = "warm"
           \/ bus = "absent"
    BY <1>9 DEF ScannerBoots, Boots, SwitchedOn, Appears, mine, scanner
  <2> QED
    BY <2>1 DEF LoadInv, Left, load, session
<1>10. CASE SwitchedOff \/ Killed
  <2>1. cycled' = TRUE \/ failed' = TRUE
    BY <1>10 DEF SwitchedOff, Killed
  <2> QED
    BY <2>1 DEF LoadInv
<1> QED
  BY <1>1, <1>2, <1>3, <1>4, <1>5, <1>6, <1>7, <1>8, <1>9, <1>10 DEF Next, Proceed, World

\* A --load-firmware that exits with 0 has the scanner warm and running the
\* whole image of its script, for any scripts of which no memory holds two and
\* whatever an earlier load left in the memory.
THEOREM LoadedIsOurs == Spec => []LoadedMeansOurs
<1>1. Init => LoadInv
  BY DEF Init, LoadInv
<1>2. LoadInv => LoadedMeansOurs
  BY DEF LoadInv, LoadedMeansOurs
<1> QED
  BY <1>1, <1>2, LoadStep, SessionTypes, PTL DEF Spec

-----------------------------------------------------------------------------
(* The handshake, and what older replies do to it.                         *)

\* What the five commands ask, and what they expect.  Only the first two are
\* to the same address.
LEMMA OpenCommands ==
  /\ Len(OpenSeq) = 5 /\ DOMAIN OpenSeq = 1 .. 5
  /\ \A c \in 1 .. 5 : OpenSeq[c].expect[3] = AddrOf(c)
  /\ \A c \in 1 .. 5 : Addr(OpenSeq[c].out) = AddrOf(c)
  /\ \A c, d \in 1 .. 5 : c < d /\ AddrOf(c) = AddrOf(d) => c = 1 /\ d = 2
<1>1. /\ AddrOf(1) = 16 /\ AddrOf(2) = 16 /\ AddrOf(3) = 68 /\ AddrOf(4) = 70 /\ AddrOf(5) = 36
  BY DEF AddrOf, OpenSeq, Build
<1>2. /\ OpenSeq[1].expect[3] = 16 /\ OpenSeq[2].expect[3] = 16 /\ OpenSeq[3].expect[3] = 68
      /\ OpenSeq[4].expect[3] = 70 /\ OpenSeq[5].expect[3] = 36
  BY DEF OpenSeq
<1>3. /\ Addr(OpenSeq[1].out) = 16 /\ Addr(OpenSeq[2].out) = 16 /\ Addr(OpenSeq[3].out) = 68
      /\ Addr(OpenSeq[4].out) = 70 /\ Addr(OpenSeq[5].out) = 36
  BY DEF Addr, OpenSeq, Build
<1>4. Len(OpenSeq) = 5 /\ DOMAIN OpenSeq = 1 .. 5
  BY DEF OpenSeq
<1>5. \A c \in 1 .. 5 : OpenSeq[c].expect[3] = AddrOf(c)
  BY <1>1, <1>2
<1>6. \A c \in 1 .. 5 : Addr(OpenSeq[c].out) = AddrOf(c)
  BY <1>1, <1>3
<1>7. \A c, d \in 1 .. 5 : c < d /\ AddrOf(c) = AddrOf(d) => c = 1 /\ d = 2
  BY <1>1
<1> QED
  BY <1>4, <1>5, <1>6, <1>7

LEMMA CheckSteps ==
  ASSUME NEW c \in 1 .. 5
  PROVE  LET x == Handshake("check")[c]
         IN  /\ x.mode = "check" /\ x.expect[3] = AddrOf(c)
             /\ Serialize(x.pkt) \in Seq(Byte)
             /\ Addr(Parse(Serialize(x.pkt))) = AddrOf(c)
<1> DEFINE x == Handshake("check")[c]
<1>1. x = Exchange("check", OpenSeq[c].out, OpenSeq[c].expect)
  BY OpenCommands DEF Handshake
<1>2. x \in Exchanges
  BY HandshakeType DEF Modes
<1> HIDE DEF x
<1>3. x.mode = "check" /\ x.pkt = OpenSeq[c].out /\ x.expect = OpenSeq[c].expect
  BY <1>1 DEF Exchange
<1>4. x.pkt \in Packets
  BY <1>2 DEF Exchanges
<1> QED
  BY <1>3, <1>4, FrameType, RoundTrip, OpenCommands DEF x

\* A command of the handshake goes to the end of the queue.
LEMMA OrderedSent ==
  ASSUME NEW q \in Seq(Seq(Byte)), NEW p \in Seq(Seq(Byte)), NEW b \in Nat,
         NEW raw \in Seq(Byte), Addr(Parse(raw)) = AddrOf(b + 1), Ordered(q, p, b)
  PROVE  Ordered(Append(q, raw), p, b + 1)
<1> DEFINE n == Len(q)
           m == Len(p)
           t == Append(q, raw)
<1>1. /\ n \in Nat /\ DOMAIN q = 1 .. n /\ m \in Nat /\ DOMAIN p = 1 .. m
      /\ DOMAIN t = 1 .. n + 1 /\ Len(t) = n + 1 /\ t[n + 1] = raw
      /\ \A i \in 1 .. n : t[i] = q[i]
  BY LenProperties, AppendProperties
<1>2. /\ \A i \in 1 .. n : b - n + i >= 1 => Addr(Parse(q[i])) = AddrOf(b - n + i)
      /\ \A i \in 1 .. m : b - (n + m) + i >= 1 => p[i][3] = AddrOf(b - (n + m) + i)
  BY <1>1 DEF Ordered
<1> HIDE DEF n, m, t
<1>3. ASSUME NEW i \in 1 .. n + 1, b + 1 - (n + 1) + i >= 1
      PROVE  Addr(Parse(t[i])) = AddrOf(b + 1 - (n + 1) + i)
  <2>1. CASE i = n + 1
    <3>1. b + 1 - (n + 1) + i = b + 1
      BY <1>1, <2>1
    <3> QED
      BY <1>1, <2>1, <3>1
  <2>2. CASE i # n + 1
    <3>1. i \in 1 .. n /\ b + 1 - (n + 1) + i = b - n + i /\ b - n + i >= 1
      BY <1>1, <1>3, <2>2
    <3> QED
      BY <1>1, <1>2, <3>1
  <2> QED
    BY <2>1, <2>2
<1>4. ASSUME NEW i \in 1 .. m, b + 1 - (n + 1 + m) + i >= 1
      PROVE  p[i][3] = AddrOf(b + 1 - (n + 1 + m) + i)
  <2>1. b + 1 - (n + 1 + m) + i = b - (n + m) + i /\ b - (n + m) + i >= 1
    BY <1>1, <1>4
  <2> QED
    BY <1>2, <2>1
<1>5. Ordered(t, p, b + 1)
  <2>1. Len(p) = m
    BY DEF m
  <2> QED
    BY <1>1, <1>3, <1>4, <2>1 DEF Ordered
<1> QED
  BY <1>5 DEF t

\* The scanner answers the oldest command; its reply is the newest.
LEMMA OrderedServed ==
  ASSUME NEW q \in Seq(Seq(Byte)), NEW p \in Seq(Seq(Byte)), NEW b \in Nat, q # <<>>,
         NEW reply \in Seq(Byte), reply[3] = Addr(Parse(Head(q))), Ordered(q, p, b)
  PROVE  Ordered(Tail(q), Append(p, reply), b)
<1> DEFINE n == Len(q)
           m == Len(p)
           t == Tail(q)
           u == Append(p, reply)
<1>1. /\ n \in Nat \ {0} /\ DOMAIN q = 1 .. n /\ m \in Nat /\ DOMAIN p = 1 .. m
      /\ DOMAIN t = 1 .. n - 1 /\ Len(t) = n - 1 /\ Head(q) = q[1]
      /\ \A i \in 1 .. n - 1 : t[i] = q[i + 1]
  BY LenProperties, HeadTailProperties, EmptySeq
<1>2. /\ DOMAIN u = 1 .. m + 1 /\ Len(u) = m + 1 /\ u[m + 1] = reply
      /\ \A i \in 1 .. m : u[i] = p[i]
  BY LenProperties, AppendProperties
<1>3. /\ \A i \in 1 .. n : b - n + i >= 1 => Addr(Parse(q[i])) = AddrOf(b - n + i)
      /\ \A i \in 1 .. m : b - (n + m) + i >= 1 => p[i][3] = AddrOf(b - (n + m) + i)
  BY <1>1 DEF Ordered
<1> HIDE DEF n, m, t, u
<1>4. ASSUME NEW i \in 1 .. n - 1, b - (n - 1) + i >= 1
      PROVE  Addr(Parse(t[i])) = AddrOf(b - (n - 1) + i)
  <2>1. i + 1 \in 1 .. n /\ b - (n - 1) + i = b - n + (i + 1) /\ b - n + (i + 1) >= 1
    BY <1>1, <1>4
  <2> QED
    BY <1>1, <1>3, <2>1
<1>5. ASSUME NEW i \in 1 .. m + 1, b - (n - 1 + (m + 1)) + i >= 1
      PROVE  u[i][3] = AddrOf(b - (n - 1 + (m + 1)) + i)
  <2>1. CASE i = m + 1
    <3>1. /\ 1 \in 1 .. n /\ b - (n - 1 + (m + 1)) + i = b - n + 1 /\ b - n + 1 >= 1
      BY <1>1, <1>5, <2>1
    <3> QED
      BY <1>1, <1>2, <1>3, <2>1, <3>1
  <2>2. CASE i # m + 1
    <3>1. /\ i \in 1 .. m /\ b - (n - 1 + (m + 1)) + i = b - (n + m) + i
          /\ b - (n + m) + i >= 1
      BY <1>1, <1>5, <2>2
    <3> QED
      BY <1>2, <1>3, <3>1
  <2> QED
    BY <2>1, <2>2
<1> QED
  BY <1>1, <1>2, <1>4, <1>5 DEF Ordered, t, u

\* The oldest reply leaves.
LEMMA OrderedReceived ==
  ASSUME NEW q \in Seq(Seq(Byte)), NEW p \in Seq(Seq(Byte)), NEW b \in Nat, p # <<>>,
         Ordered(q, p, b)
  PROVE  /\ Ordered(q, Tail(p), b)
         /\ b - (Len(q) + Len(p)) + 1 >= 1 =>
              Head(p)[3] = AddrOf(b - (Len(q) + Len(p)) + 1)
<1> DEFINE n == Len(q)
           m == Len(p)
           t == Tail(p)
<1>1. /\ n \in Nat /\ DOMAIN q = 1 .. n /\ m \in Nat \ {0} /\ DOMAIN p = 1 .. m
      /\ DOMAIN t = 1 .. m - 1 /\ Len(t) = m - 1 /\ Head(p) = p[1]
      /\ \A i \in 1 .. m - 1 : t[i] = p[i + 1]
  BY LenProperties, HeadTailProperties, EmptySeq
<1>2. /\ \A i \in 1 .. n : b - n + i >= 1 => Addr(Parse(q[i])) = AddrOf(b - n + i)
      /\ \A i \in 1 .. m : b - (n + m) + i >= 1 => p[i][3] = AddrOf(b - (n + m) + i)
  BY <1>1 DEF Ordered
<1> HIDE DEF n, m, t
<1>3. ASSUME NEW i \in 1 .. m - 1, b - (n + (m - 1)) + i >= 1
      PROVE  t[i][3] = AddrOf(b - (n + (m - 1)) + i)
  <2>1. /\ i + 1 \in 1 .. m /\ b - (n + (m - 1)) + i = b - (n + m) + (i + 1)
        /\ b - (n + m) + (i + 1) >= 1
    BY <1>1, <1>3
  <2> QED
    BY <1>1, <1>2, <2>1
<1>4. 1 \in 1 .. m
  BY <1>1
<1>5. Ordered(q, t, b)
  BY <1>1, <1>2, <1>3 DEF Ordered, n
<1> QED
  BY <1>1, <1>2, <1>4, <1>5 DEF n, m, t

\* The next exchange of the handshake.
LEMMA OpenHead ==
  ASSUME TypeOK, OpenInv, tool = "open", failed = FALSE, pc = "body", todo # <<>>
  PROVE  /\ Done \in 0 .. 4 /\ Done + 1 \in 1 .. 5
         /\ Len(Tail(todo)) = Len(todo) - 1 /\ Len(todo) = 5 - Done
         /\ Step = Handshake("check")[Done + 1]
         /\ \A i \in DOMAIN Tail(todo) : Tail(todo)[i] = Handshake("check")[Done + 1 + i]
<1> DEFINE n == Len(todo)
           t == Tail(todo)
<1>1. /\ todo \in Seq(Exchanges) /\ n \in Nat \ {0} /\ DOMAIN todo = 1 .. n
      /\ Step = todo[1] /\ Len(t) = n - 1 /\ DOMAIN t = 1 .. n - 1
      /\ \A i \in 1 .. n - 1 : t[i] = todo[i + 1]
  BY HeadTailProperties, LenProperties, EmptySeq DEF TypeOK, Exchanges, Step
<1>2. Done = 5 - n
  BY OpenCommands DEF Done
<1>3. Done \in 0 .. 5 /\ \A i \in 1 .. n : todo[i] = Handshake("check")[Done + i]
  BY <1>1 DEF OpenInv
<1> HIDE DEF n, t
<1>4. Done \in 0 .. 4 /\ Done + 1 \in 1 .. 5 /\ n = 5 - Done /\ 1 \in 1 .. n
  BY <1>1, <1>2, <1>3
<1>5. ASSUME NEW i \in 1 .. n - 1
      PROVE  t[i] = Handshake("check")[Done + 1 + i]
  <2>1. i + 1 \in 1 .. n /\ Done + (i + 1) = Done + 1 + i
    BY <1>1, <1>4
  <2>2. t[i] = Handshake("check")[Done + (i + 1)]
    BY <1>1, <1>3, <2>1
  <2> QED
    BY <2>1, <2>2
<1> QED
  BY <1>1, <1>3, <1>4, <1>5 DEF n, t

LEMMA Counts ==
  ASSUME TypeOK
  PROVE  /\ Len(requests) \in Nat /\ Len(replies) \in Nat /\ Pending \in Nat
         /\ awaiting \in BOOLEAN
         /\ awaiting => Begun = Done + 1 /\ Stale = Pending - 1
         /\ ~awaiting => Begun = Done /\ Stale = Pending
         /\ Pending = 0 => Quiet
<1>1. requests \in Seq(Seq(Byte)) /\ replies \in Seq(Seq(Byte)) /\ awaiting \in BOOLEAN
  BY DEF TypeOK, ChannelTypeOK
<1>2. Len(requests) \in Nat /\ Len(replies) \in Nat
  BY <1>1, LenProperties
<1>3. Pending \in Nat
  BY <1>2 DEF Pending
<1>4. Pending = 0 => Quiet
  <2>1. \A n, m \in Nat : n + m = 0 => n = 0 /\ m = 0
    OBVIOUS
  <2>2. Pending = 0 => Len(requests) = 0 /\ Len(replies) = 0
    BY <1>2, <2>1 DEF Pending
  <2> QED
    BY <1>1, <2>2, EmptySeq DEF Quiet
<1> QED
  BY <1>1, <1>2, <1>3, <1>4 DEF Begun, Stale

\* A command of the handshake is sent.
LEMMA OpenSends ==
  ASSUME TypeOK, TypeOK', OpenInv, StepSends, EndpointCap <= 5
  PROVE  OpenInv'
<1>1. /\ pc = "body" /\ handle = "live" /\ todo # <<>> /\ awaiting = FALSE /\ awaiting' = TRUE
      /\ requests' = Append(requests, Frame) /\ Pending < EndpointCap
      /\ UNCHANGED <<tool, pc, todo, failed, astray, handle, replies>>
  BY DEF StepSends, AtStep, Sends, session, usb
<1> SUFFICES ASSUME tool = "open", failed = FALSE
             PROVE  InStep'
  <2>1. todo' = todo /\ Done' = Done
    BY <1>1 DEF Done
  <2>2. ~failed' => failed = FALSE
    BY <1>1 DEF TypeOK
  <2> QED
    BY <1>1, <2>1, <2>2 DEF OpenInv
<1>2. InStep /\ Done' = Done
  BY <1>1 DEF OpenInv, Done
<1>3. /\ Done \in 0 .. 4 /\ Done + 1 \in 1 .. 5 /\ Step = Handshake("check")[Done + 1]
  BY <1>1, OpenHead
<1>4. Frame \in Seq(Byte) /\ Addr(Parse(Frame)) = AddrOf(Done + 1)
  BY <1>3, CheckSteps DEF Frame
<1>5. requests \in Seq(Seq(Byte)) /\ replies \in Seq(Seq(Byte))
  BY DEF TypeOK, ChannelTypeOK
<1>6. Begun = Done /\ Stale = Pending /\ Pending \in Nat
  BY <1>1, Counts
<1>7. Len(requests') = Len(requests) + 1 /\ Len(requests) \in Nat /\ Len(replies) \in Nat
  BY <1>1, <1>4, <1>5, AppendProperties, Counts
<1>8. Pending' = Pending + 1
  BY <1>1, <1>7 DEF Pending
<1>9. Begun' = Done + 1 /\ Stale' = Pending
  BY <1>1, <1>2, <1>6, <1>8 DEF Begun, Stale
<1>10. Ordered(requests', replies', Begun')
  <2>1. Ordered(requests, replies, Done) /\ Done \in Nat
    BY <1>2, <1>3, <1>6 DEF InStep
  <2> QED
    BY <1>1, <1>4, <1>5, <1>9, <2>1, OrderedSent
<1>11. Stale' < 5
  BY <1>1, <1>6, <1>9, EndpointAssumption
<1> QED
  BY <1>1, <1>2, <1>6, <1>9, <1>10, <1>11 DEF InStep

\* A reply is taken for the one to the command just sent: that it is the
\* expected one, with others due, is possible only as long as the older ones
\* last, or for the second of the two commands to the same address.
LEMMA OpenReplies ==
  ASSUME TypeOK, TypeOK', OpenInv, StepReplies
  PROVE  OpenInv'
<1>1. /\ pc = "body" /\ handle = "live" /\ todo # <<>> /\ awaiting
      /\ UNCHANGED <<tool, pc, requests, handle>>
  BY DEF StepReplies, AtStep, Receives, Ends, usb
<1> SUFFICES ASSUME tool = "open", failed' = FALSE
             PROVE  /\ Done' \in 0 .. 5
                    /\ \A i \in DOMAIN todo' : todo'[i] = Handshake("check")[Done' + i]
                    /\ InStep'
                    /\ todo' = <<>> => ~astray' /\ Quiet'
  <2>1. ~failed' => failed' = FALSE
    BY DEF TypeOK
  <2> QED
    BY <1>1, <2>1 DEF OpenInv
<1>2. PICK raw \in {replies[i] : i \in DOMAIN replies} :
        /\ Receives(raw)
        /\ Ends(Step.mode # "raw" /\ (~WellFramed(raw) \/ (Step.mode = "check" /\ ~Expected(raw))))
  BY DEF StepReplies
<1>3. failed = FALSE
  <2>1. failed \in BOOLEAN
    BY DEF TypeOK
  <2> QED
    BY <1>2, <2>1, Zenon DEF Ends
<1>4. /\ Done \in 0 .. 4 /\ Done + 1 \in 1 .. 5 /\ Step = Handshake("check")[Done + 1]
      /\ Len(todo) = 5 - Done /\ Len(Tail(todo)) = Len(todo) - 1
      /\ \A i \in DOMAIN Tail(todo) : Tail(todo)[i] = Handshake("check")[Done + 1 + i]
  BY <1>1, <1>3, OpenHead
<1>5. Step.mode = "check" /\ Step.expect[3] = AddrOf(Done + 1)
  BY <1>4, CheckSteps
<1>6. WellFramed(raw) /\ Expected(raw)
  BY <1>2, <1>5, Zenon DEF Ends
<1>7. /\ replies # <<>> /\ raw = Head(replies) /\ replies' = Tail(replies) /\ awaiting' = FALSE
  BY <1>2 DEF Receives
<1>8. requests \in Seq(Seq(Byte)) /\ replies \in Seq(Seq(Byte)) /\ raw \in Seq(Byte)
  <2>1. requests \in Seq(Seq(Byte)) /\ replies \in Seq(Seq(Byte))
    BY DEF TypeOK, ChannelTypeOK
  <2> QED
    BY <1>7, <2>1, HeadTailProperties
<1>9. raw[3] = AddrOf(Done + 1)
  BY <1>5, <1>6, <1>8, ParsedAgain DEF Expected
<1>10. todo' = Tail(todo)
  BY <1>5, <1>2 DEF Ends
<1>11. Done' = Done + 1
  <2>1. Len(todo') = 4 - Done
    BY <1>4, <1>10
  <2> QED
    BY <1>4, <2>1, OpenCommands DEF Done
<1>12. InStep
  BY <1>1, <1>3 DEF OpenInv
<1>13. Begun = Done + 1 /\ Stale = Pending - 1 /\ Pending \in Nat
  BY <1>1, Counts
<1>14. Pending' = Pending - 1
  <2>1. Len(replies') = Len(replies) - 1 /\ Len(replies) \in Nat /\ Len(requests) \in Nat
    BY <1>7, <1>8, HeadTailProperties, Counts
  <2> QED
    BY <1>1, <2>1 DEF Pending
<1>15. Begun' = Done + 1 /\ Stale' = Stale
  BY <1>7, <1>11, <1>13, <1>14 DEF Begun, Stale
<1>16. Stale \in Nat /\ Stale < 5 /\ Ordered(requests, replies, Done + 1)
  BY <1>4, <1>12, <1>13 DEF InStep
<1>17. Stale = 0 \/ Done + 1 <= Stale \/ (Stale = 1 /\ Done + 1 = 2)
  <2> SUFFICES ASSUME Stale >= 1, Stale < Done + 1
               PROVE  Stale = 1 /\ Done + 1 = 2
    BY <1>4, <1>16
  <2>1. Len(requests) + Len(replies) = Stale + 1
    BY <1>13 DEF Pending
  <2>2. Done + 1 - (Len(requests) + Len(replies)) + 1 = Done + 1 - Stale
    BY <1>4, <1>16, <2>1
  <2>3. Done + 1 - Stale >= 1 => raw[3] = AddrOf(Done + 1 - Stale)
    BY <1>4, <1>7, <1>8, <1>16, <2>2, OrderedReceived
  <2>4. Done + 1 - Stale \in 1 .. 5 /\ Done + 1 - Stale < Done + 1 /\ Done + 1 - Stale >= 1
    BY <1>4, <1>16
  <2>5. Done + 1 - Stale = 1 /\ Done + 1 = 2
    BY <1>4, <1>9, <2>3, <2>4, OpenCommands
  <2> QED
    BY <1>4, <1>16, <2>5
<1>18. astray' => Stale >= 1
  <2>1. astray' = (astray \/ Pending > 1)
    BY DEF StepReplies
  <2>2. astray => Stale >= 1
    BY <1>12 DEF InStep
  <2>3. Pending > 1 => Stale >= 1
    BY <1>13
  <2> QED
    BY <2>1, <2>2, <2>3, Zenon
<1>19. Ordered(requests', replies', Begun')
  BY <1>1, <1>4, <1>7, <1>8, <1>15, <1>16, OrderedReceived
<1>20. InStep'
  BY <1>11, <1>15, <1>16, <1>17, <1>18, <1>19 DEF InStep
<1>21. ASSUME todo' = <<>>
       PROVE  ~astray' /\ Quiet'
  <2>1. Len(todo') = 0
    BY <1>21
  <2>2. Stale = 0
    BY <1>4, <1>10, <1>16, <1>17, <2>1
  <2>3. Pending' = 0
    BY <1>13, <1>14, <2>2
  <2>4. Quiet'
    <3>1. \A n, m \in Nat : n + m = 0 => n = 0 /\ m = 0
      OBVIOUS
    <3>2. requests' \in Seq(Seq(Byte)) /\ replies' \in Seq(Seq(Byte))
      BY <1>1, <1>7, <1>8, HeadTailProperties
    <3>3. Len(requests') = 0 /\ Len(replies') = 0
      BY <2>3, <3>1, <3>2, LenProperties DEF Pending
    <3> QED
      BY <3>2, <3>3, EmptySeq DEF Quiet
  <2> QED
    BY <1>18, <2>2, <2>4
<1> QED
  BY <1>4, <1>10, <1>11, <1>20, <1>21

\* The scanner answers in order.
LEMMA OpenServes ==
  ASSUME TypeOK, OpenInv, ScannerServes
  PROVE  OpenInv'
<1>1. PICK status \in {Normal(Addr(Parse(Head(requests)))), 9} :
        /\ requests # <<>> /\ requests' = Tail(requests)
        /\ replies' = Append(replies, <<7, 2, Addr(Parse(Head(requests))), status>>)
        /\ awaiting' = awaiting
  BY DEF ScannerServes, Serves
<1>2. UNCHANGED <<tool, pc, todo, failed, astray, handle>>
  BY DEF ScannerServes, session, usb
<1>3. /\ requests \in Seq(Seq(Byte)) /\ replies \in Seq(Seq(Byte))
      /\ requests' \in Seq(Seq(Byte)) /\ replies' \in Seq(Seq(Byte))
  BY ServeTypes DEF TypeOK, ChannelTypeOK
<1> DEFINE reply == <<7, 2, Addr(Parse(Head(requests))), status>>
<1>4. reply \in Seq(Byte) /\ reply[3] = Addr(Parse(Head(requests)))
  <2>1. Len(replies) + 1 \in 1 .. Len(replies') /\ replies'[Len(replies) + 1] = reply
    BY <1>1, <1>3, LenProperties, AppendProperties
  <2> QED
    BY <1>3, <2>1, ElementOfSeq
<1> HIDE DEF reply
<1>5. /\ Len(requests') = Len(requests) - 1 /\ Len(replies') = Len(replies) + 1
      /\ Len(requests) \in Nat /\ Len(replies) \in Nat
  BY <1>1, <1>3, HeadTailProperties, AppendProperties, LenProperties DEF reply
<1>6. Pending' = Pending /\ Done' = Done
  BY <1>2, <1>5 DEF Pending, Done
<1>7. Begun' = Begun /\ Stale' = Stale
  BY <1>1, <1>6 DEF Begun, Stale
<1>8. ASSUME InStep, Done \in 0 .. 5
      PROVE  InStep'
  <2>1. Begun \in Nat
    BY <1>8 DEF Begun
  <2>2. Ordered(requests', replies', Begun)
    BY <1>1, <1>3, <1>4, <1>8, <2>1, OrderedServed DEF InStep, reply
  <2> QED
    BY <1>2, <1>6, <1>7, <1>8, <2>2 DEF InStep
<1>9. ~Quiet
  BY <1>1 DEF Quiet
<1> QED
  BY <1>2, <1>6, <1>8, <1>9 DEF OpenInv

LEMMA OpenStep ==
  ASSUME TypeOK, TypeOK', SessionInv, OpenInv, [Next]_vars, EndpointCap <= 5
  PROVE  OpenInv'
<1>0. /\ failed \in BOOLEAN /\ failed' \in BOOLEAN
      /\ requests \in Seq(Seq(Byte)) /\ replies \in Seq(Seq(Byte))
  BY DEF TypeOK, ChannelTypeOK
<1>1. CASE Begins
  <2>1. PICK t \in ToolNames : tool' = t /\ todo' \in Plans(t)
    BY <1>1 DEF Begins
  <2>2. pc' = "init" /\ astray' = FALSE
    BY <1>1 DEF Begins
  <2>3. tool' = "open" => todo' = Handshake("check")
    BY <2>1 DEF Plans
  <2> QED
    BY <2>2, <2>3 DEF OpenInv
<1>2. CASE \/ InitFails \/ Inits \/ Finds \/ OpenFails \/ Opens \/ Claims \/ ClaimRefused
           \/ BodyEnds \/ Malformed \/ EndOfScript \/ SeesWarm \/ Releases \/ Closes \/ Exits
  <2> USE DEF Elsewhere, Goes, GivesUp
  <2>1. UNCHANGED <<tool, todo, awaiting, requests, replies, astray>>
    BY <1>2 DEF InitFails, Inits, Finds, OpenFails, Opens, Claims, ClaimRefused, BodyEnds,
                Malformed, EndOfScript, SeesWarm, Releases, Closes, Exits, channel
  <2>2. failed' = failed \/ failed' = TRUE
    BY <1>2 DEF InitFails, Inits, Finds, OpenFails, Opens, Claims, ClaimRefused, BodyEnds,
                Malformed, EndOfScript, SeesWarm, Releases, Closes, Exits
  <2> SUFFICES ASSUME tool = "open", failed' = FALSE, failed = FALSE
               PROVE  OpenInv'
    BY <1>0, <2>1, <2>2 DEF OpenInv
  <2>3. CASE Claims
    <3>1. pc = "claim" /\ pc' = "body" /\ handle' = "live"
      BY <2>3 DEF Claims, Claim
    <3>2. todo = Handshake("check") /\ ~astray /\ ~awaiting
      BY <3>1 DEF OpenInv, SessionInv
    <3>3. Len(todo) = 5 /\ todo # <<>>
      BY <3>2, HandshakeType DEF Modes
    <3>4. Done' = 0 /\ Begun' = 0 /\ Stale' = Pending /\ Pending \in Nat
      <4>1. Pending' = Pending /\ Done' = 0
        BY <2>1, <3>3, OpenCommands DEF Pending, Done
      <4> QED
        BY <2>1, <3>2, <4>1, Counts DEF Begun, Stale
    <3>5. Ordered(requests', replies', 0)
      <4>1. /\ DOMAIN requests = 1 .. Len(requests) /\ Len(requests) \in Nat
            /\ DOMAIN replies = 1 .. Len(replies) /\ Len(replies) \in Nat
        BY <1>0, LenProperties
      <4>2. \A n, m \in Nat : /\ \A i \in 1 .. n : ~(0 - n + i >= 1)
                              /\ \A i \in 1 .. m : ~(0 - (n + m) + i >= 1)
        OBVIOUS
      <4>3. /\ \A i \in DOMAIN requests : ~(0 - Len(requests) + i >= 1)
            /\ \A i \in DOMAIN replies : ~(0 - (Len(requests) + Len(replies)) + i >= 1)
        BY <4>1, <4>2
      <4> QED
        BY <2>1, <4>3 DEF Ordered
    <3>6. InStep'
      BY <2>1, <3>2, <3>4, <3>5 DEF InStep
    <3>7. \A i \in DOMAIN todo' : todo'[i] = Handshake("check")[Done' + i]
      <4>1. \A i \in 1 .. 5 : Done' + i = i
        BY <3>4
      <4>2. DOMAIN todo = 1 .. 5
        BY <3>2, <3>3, HandshakeType, LenProperties DEF Modes
      <4> QED
        BY <2>1, <3>2, <4>1, <4>2
    <3> QED
      BY <2>1, <3>1, <3>3, <3>4, <3>6, <3>7 DEF OpenInv
  <2>4. CASE ~Claims
    <3>1. \/ pc \in {"init", "open"} /\ pc' \in {"open", "claim"}
          \/ (pc = "body" /\ todo = <<>>) /\ pc' = "release"
          \/ pc \in {"release", "close", "exit"} /\ pc' \in {"close", "exit", "exited"}
      BY <1>2, <2>4 DEF InitFails, Inits, Finds, OpenFails, Opens, ClaimRefused, BodyEnds,
           Malformed, EndOfScript, SeesWarm, Releases, Closes, Exits, SessionInv
    <3>2. Quiet' = Quiet
      BY <2>1 DEF Quiet
    <3> QED
      BY <2>1, <3>1, <3>2 DEF OpenInv
  <2> QED
    BY <2>3, <2>4
<1>3. CASE StepSends
  BY <1>3, OpenSends
<1>4. CASE StepReplies
  BY <1>4, OpenReplies
<1>5. CASE StepPosts \/ StepSendFails \/ StepReplyFails \/ ReadsChunk \/ PassesLine
  <2>1. tool' = tool /\ pc = "body" /\ todo # <<>>
    BY <1>5 DEF StepPosts, StepSendFails, StepReplyFails, ReadsChunk, PassesLine, AtStep, Ends
  <2>2. failed' = FALSE => failed = FALSE
    <3>1. \E bad : failed' = (failed \/ (bad /\ Step.mode # "ignore"))
      BY <1>5, Zenon DEF StepPosts, StepSendFails, StepReplyFails, ReadsChunk, PassesLine, Ends
    <3> QED
      BY <1>0, <3>1, Zenon
  <2> SUFFICES ASSUME tool = "open", failed' = FALSE, failed = FALSE
               PROVE  FALSE
    BY <1>0, <2>1, <2>2 DEF OpenInv
  <2>3. Step.mode = "check"
    BY <2>1, OpenHead, CheckSteps
  <2>4. CASE StepPosts \/ ReadsChunk \/ PassesLine
    BY <2>3, <2>4 DEF StepPosts, ReadsChunk, PassesLine
  <2>5. CASE StepSendFails \/ StepReplyFails
    <3>1. \E bad \in {TRUE} : failed' = (failed \/ (bad /\ Step.mode # "ignore"))
      <4>1. CASE StepSendFails
        BY <4>1 DEF StepSendFails, Ends
      <4>2. CASE StepReplyFails
        <5>1. PICK bad \in {TRUE, Step.mode # "raw"} : Ends(bad)
          BY <4>2 DEF StepReplyFails
        <5>2. bad = TRUE
          BY <2>3, <5>1
        <5> QED
          BY <5>1, <5>2 DEF Ends
      <4> QED
        BY <2>5, <4>1, <4>2
    <3> QED
      BY <2>3, <3>1, Zenon
  <2> QED
    BY <1>5, <2>4, <2>5
<1>6. CASE StartsLoad \/ ReplaysLine \/ Waits
  <2>1. tool' = "load"
    BY <1>6 DEF StartsLoad, ReplaysLine, Waits, Goes, GivesUp, session, SessionInv
  <2> QED
    BY <2>1 DEF OpenInv
<1>7. CASE ScannerServes
  BY <1>7, OpenServes
<1>8. CASE ScannerBoots \/ SwitchedOn \/ UNCHANGED vars
  <2>1. UNCHANGED <<tool, pc, todo, failed, astray, handle, awaiting, requests, replies>>
    BY <1>8 DEF ScannerBoots, Boots, SwitchedOn, Appears, mine, vars, usb, channel, session
  <2>2. /\ Done' = Done /\ Begun' = Begun /\ Stale' = Stale /\ Quiet' = Quiet
    BY <2>1 DEF Done, Begun, Stale, Pending, Quiet
  <2>3. InStep' = InStep
    BY <2>1, <2>2 DEF InStep
  <2> QED
    BY <2>1, <2>2, <2>3 DEF OpenInv
<1>9. CASE SwitchedOff
  <2>1. /\ UNCHANGED <<tool, pc, todo, failed, astray, awaiting>>
        /\ requests' = <<>> /\ replies' = <<>>
        /\ handle' = IF handle = "live" THEN "gone" ELSE handle
    BY <1>9 DEF SwitchedOff, LosesPower, Leaves, session
  <2>2. Quiet' /\ Done' = Done
    BY <2>1 DEF Quiet, Done
  <2> QED
    BY <2>1, <2>2 DEF OpenInv
<1>10. CASE Killed
  BY <1>10 DEF Killed, OpenInv
<1> QED
  BY <1>1, <1>2, <1>3, <1>4, <1>5, <1>6, <1>7, <1>8, <1>9, <1>10 DEF Next, Proceed, World

\* --open says Idle only if every reply it compared was the reply to the
\* command it had just sent, and leaves nothing on the endpoints, as long as
\* they hold no more than five commands and replies: with five stale replies
\* of an earlier handshake before its own it would be shown those.
THEOREM IdleInStep ==
  ASSUME EndpointCap <= 5
  PROVE  Spec => []IdleMeansInStep
<1>1. Init => OpenInv
  BY DEF Init, OpenInv
<1>2. OpenInv => IdleMeansInStep
  BY DEF OpenInv, IdleMeansInStep
<1>3. TypeOK /\ SessionInv /\ OpenInv /\ TypeOK' /\ [Next]_vars => OpenInv'
  BY OpenStep
<1> QED
  BY <1>1, <1>2, <1>3, SessionTypes, PTL DEF Spec

=============================================================================
