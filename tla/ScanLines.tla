----------------------------- MODULE ScanLines -----------------------------
(***************************************************************************)
(* The data of a scan: the lines of a .pakscan script, the two engines of  *)
(* the scanner that a script starts and stops, and the classes of image    *)
(* chunk the end-of-roll detector of tools/pakon_replay.c tells apart.     *)
(* Constant-level operators only; ScanHost, ScanReplay and DrivenScan      *)
(* build on them.                                                          *)
(***************************************************************************)
EXTENDS Integers, Sequences

CONSTANTS
  Scripts,      \* the scripts a session may be given: sequences of Lines
  Chunks,       \* the image chunks a read of endpoint 0x86 may return
  TrailWhite    \* SM_TRAIL_WHITE: white chunks after film that end the roll

-----------------------------------------------------------------------------
(* Scripts.  Blank lines and comments have no effect and are left out.  An *)
(* O line is named by what it does to the engines; "cmd" is every other    *)
(* well-formed one.  "bad..." are the lines hexbytes or sscanf refuses.    *)

Starts   == {"readoutStart", "motorStart"}        \* 04 03 20 00 8a, .. 24 00 a0
Stops    == {"readoutStop", "motorStop"}          \* 04 03 20 00 92, .. 24 00 a2
Commands == Starts \cup Stops \cup {"cmd"}
BadLines == {"badCmd", "badControl"}
Lines    == Commands \cup BadLines \cup {"control", "read"}

Engines == {"readout", "motor"}

StartOf(e) == IF e = "readout" THEN "readoutStart" ELSE "motorStart"
StopOf(e)  == IF e = "readout" THEN "readoutStop"  ELSE "motorStop"

\* The engines that run once the device has executed command line l.
AfterCommand(running, l) ==
  {e \in Engines : l = StartOf(e) \/ (e \in running /\ l # StopOf(e))}

\* The engines whose stop is missed when line l does not reach the device.
MissedBy(l) == {e \in Engines : l = StopOf(e)}

\* Line i lies after the last image read of script s: the teardown tail.
InTail(s, i) == \A j \in i..Len(s) : s[j] # "read"

HasRead(s) == \E i \in 1..Len(s) : s[i] = "read"

\* The tail of s stops both engines and starts neither again: what the
\* captured scripts in resources/ end with (8a, 92, a2, then idle polls).
StopsEngines(s) ==
  \A e \in Engines : \E k \in 1..Len(s) :
    /\ s[k] = StopOf(e)
    /\ InTail(s, k)
    /\ \A j \in k + 1 .. Len(s) : s[j] # StartOf(e)

-----------------------------------------------------------------------------
(* Image chunks: how many 16-bit samples a read returned, how many of them *)
(* are over SM_WHITE_THRESH and how many over SM_FILM_THRESH.              *)

WhiteFracPct == 60    \* SM_WHITE_FRAC_PCT
FilmFracPct  == 10    \* SM_FILM_FRAC_PCT

Chunk == {c \in [samples : Nat, white : Nat, lit : Nat] :
            c.white <= c.lit /\ c.lit <= c.samples}

IsWhite(c) == c.samples # 0 /\ c.white * 100 >= c.samples * WhiteFracPct
HasFilm(c) == c.samples # 0 /\ c.lit * 100 >= c.samples * FilmFracPct

\* What the callers make of a chunk: they ask for white before film, since
\* an open-gate chunk passes both tests.
KindOf(c) == IF IsWhite(c) THEN "white" ELSE IF HasFilm(c) THEN "film" ELSE "dim"

Kinds == {"white", "film", "dim"}

-----------------------------------------------------------------------------
ASSUME ScriptsAssumption == Scripts \subseteq Seq(Lines)
ASSUME ChunksAssumption  == Chunks \subseteq [samples : Nat, white : Nat, lit : Nat]
ASSUME TrailAssumption   == TrailWhite \in Nat \ {0}

=============================================================================
