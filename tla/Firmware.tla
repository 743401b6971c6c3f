------------------------------ MODULE Firmware ------------------------------
(***************************************************************************)
(* The firmware download: pakon_usb_load_firmware, replay_fw_line and      *)
(* wait_for_warm (src/pakon_usb.c), and the bootstrap device they talk to. *)
(* A line of a .pakfw script holds the scanner's processor, writes some of *)
(* its memory, or lets it run.  Transfers that fail are counted and        *)
(* tolerated, wherever in the script they are.                             *)
(***************************************************************************)
EXTENDS UsbSession, Sequences

CONSTANTS
  FwScripts,   \* the scripts a load may be given: number -> sequence of lines
  MaxPolls     \* polls of wait_for_warm: 26 in the code, 200 ms apart

\* A line that cannot be parsed is a write that was mangled.
Ops == {"hold", "write", "release", "comment", "bad"}

ASSUME FirmwareAssumption ==
  /\ \A s \in DOMAIN FwScripts : FwScripts[s] \in Seq([op : Ops, at : Nat])
  /\ DOMAIN FwScripts \subseteq Nat \ {0}
  /\ MaxPolls \in Nat \ {0}

VARIABLES
  fw,         \* the script being replayed, 0 before the first load
  line,       \* the line fgets returns next
  polls,      \* polls of wait_for_warm so far
  mem,        \* scanner: script and line that wrote an address last
  runs,       \* scanner: the script whose image it runs, 0 for none of them
  dropped     \* history: a transfer of this load did not take effect

load == <<fw, line, polls, mem, runs, dropped>>

Writes(s)    == {i \in DOMAIN FwScripts[s] : FwScripts[s][i].op \in {"write", "bad"}}
At(s, i)     == FwScripts[s][i].at
Addresses(s) == {At(s, i) : i \in Writes(s)}

AllAddresses == UNION {Addresses(s) : s \in DOMAIN FwScripts}

Blank == [a \in AllAddresses |-> <<0, 0>>]

\* Those of its writes that a script does not write over.
LastWrites(s) == {i \in Writes(s) : \A j \in Writes(s) : At(s, j) = At(s, i) => j <= i}

\* The memory has everything the script writes, the last write to each address.
HoldsImage(m, s) == \A i \in LastWrites(s) : m[At(s, i)] = <<s, i>>

\* No memory holds two images: each has the reset vector, where the processor
\* begins when it is released (resources/f135.pakfw writes it in both stages).
ASSUME ImagesOverlap ==
  \A s, t \in DOMAIN FwScripts :
    \E i \in LastWrites(s), j \in LastWrites(t) : At(s, i) = At(t, j)

LoadTypeOK ==
  /\ fw \in DOMAIN FwScripts \cup {0} /\ line \in Nat /\ polls \in 0 .. MaxPolls
  /\ mem \in [AllAddresses -> (DOMAIN FwScripts \cup {0}) \X Nat]
  /\ runs \in DOMAIN FwScripts \cup {0}
  /\ dropped \in BOOLEAN

LoadInit ==
  /\ fw = 0 /\ line = 1 /\ polls = 0
  /\ mem = Blank /\ runs = 0 /\ dropped = FALSE

-----------------------------------------------------------------------------
(* Host.                                                                   *)

Line       == FwScripts[fw][line]
MoreLines  == line <= Len(FwScripts[fw])
Transfers  == MoreLines /\ Line.op \in {"hold", "write", "release"}

LoadBegins(s) ==
  /\ OpenCold
  /\ fw' = s /\ line' = 1 /\ polls' = 0 /\ dropped' = FALSE
  /\ UNCHANGED <<mem, runs>>

SkipsComment ==
  /\ MoreLines /\ Line.op = "comment"
  /\ line' = line + 1
  /\ UNCHANGED <<usb, fw, polls, mem, runs, dropped>>

\* A transfer that failed, or was reported to, and was tolerated.
Misses ==
  /\ Transfers
  /\ line' = line + 1 /\ dropped' = TRUE
  /\ UNCHANGED <<usb, fw, polls, mem, runs>>

\* Released, the scanner runs what its memory holds: a whole image, with which
\* it leaves the bus and returns warm, or the loader of a first stage, or
\* anything else, with which it may leave too.
ScannerRuns ==
  \/ \E s \in DOMAIN FwScripts :
       HoldsImage(mem, s) /\ Leaves("booting") /\ runs' = s
  \/ /\ \A s \in DOMAIN FwScripts : ~HoldsImage(mem, s)
     /\ runs' = 0
     /\ \/ UNCHANGED usb
        \/ Leaves("booting")

\* A transfer that took effect; its status may be an error all the same, the
\* scanner being gone.
TakesEffect ==
  /\ Transfers /\ handle = "live"
  /\ line' = line + 1
  /\ \/ Line.op = "hold" /\ runs' = 0 /\ UNCHANGED <<usb, mem>>
     \/ /\ Line.op = "write"
        /\ mem' = [mem EXCEPT ![Line.at] = <<fw, line>>]
        /\ UNCHANGED <<usb, runs>>
     \/ Line.op = "release" /\ ScannerRuns /\ UNCHANGED mem
  /\ UNCHANGED <<fw, polls, dropped>>

\* One look at the bus for a warm scanner.
Polls ==
  /\ Found # "warm"
  /\ polls' = polls + 1
  /\ UNCHANGED <<usb, fw, line, mem, runs, dropped>>

-----------------------------------------------------------------------------
(* Scanner.                                                                *)

Boots == bus = "booting" /\ Appears("warm") /\ UNCHANGED load

\* Switched off, it forgets its firmware.
LosesPower ==
  /\ Leaves("absent")
  /\ mem' = Blank /\ runs' = 0
  /\ UNCHANGED <<fw, line, polls, dropped>>

=============================================================================
