--------------------------- MODULE ScanHostProofs ---------------------------
(***************************************************************************)
(* Lemmas about what do_scan and do_scan_sm share, for the proofs of both: *)
(* types of the shared steps, what replaying a line does to the engines,   *)
(* and what one more chunk does to the reference of the detector.          *)
(***************************************************************************)
EXTENDS ScanHost, FiniteSetTheorems, TLAPS

(* Every script is a sequence of lines, the empty one Init uses included.  *)
LEMMA ScriptSeq == script \in Scripts \cup {<<>>} => script \in Seq(Lines)
<1>1. <<>> \in Seq(Lines)
  OBVIOUS
<1> QED BY <1>1, ScriptsAssumption

(* The empty image file is a sequence of chunks.                           *)
LEMMA EmptyFile == <<>> \in Seq(Kinds) /\ Len(<<>>) = 0
  OBVIOUS

(* A chunk is of one of the three kinds.                                   *)
LEMMA KindType == \A c : KindOf(c) \in Kinds
  BY DEF KindOf, Kinds

(* The device keeps its type when it executes a line, and the transfers    *)
(* theirs.                                                                 *)
LEMMA DeviceType ==
  ASSUME engines \subseteq Engines, missed \subseteq Engines,
         fifo \in 0 .. FifoCap, errs \in 0 .. MaxErrs
  PROVE  /\ \A l : SendCommand(l) =>
              /\ engines' \subseteq Engines /\ missed' \subseteq Engines
              /\ fifo' \in 0 .. FifoCap /\ errs' \in 0 .. MaxErrs
         /\ SendOther =>
              /\ engines' = engines /\ missed' = missed
              /\ fifo' = fifo /\ errs' \in 0 .. MaxErrs
         /\ ReadsChunk =>
              engines' = engines /\ fifo' \in 0 .. FifoCap /\ errs' \in 0 .. MaxErrs
         /\ ReadsNothing =>
              engines' = engines /\ fifo' = fifo /\ file' = file /\ errs' \in 0 .. MaxErrs
<1> USE BoundsAssumption DEF Fault, device
<1>1. ASSUME NEW l, SendCommand(l)
      PROVE  /\ engines' \subseteq Engines /\ missed' \subseteq Engines
             /\ fifo' \in 0 .. FifoCap /\ errs' \in 0 .. MaxErrs
  <2>1. CASE Executes(l)
    BY <1>1, <2>1 DEF SendCommand, Executes, AfterCommand, MissedBy
  <2>2. CASE ~Executes(l)
    BY <1>1, <2>2 DEF SendCommand, MissedBy
  <2> QED BY <2>1, <2>2
<1>2. SendOther => /\ engines' = engines /\ missed' = missed
                   /\ fifo' = fifo /\ errs' \in 0 .. MaxErrs
  BY DEF SendOther
<1>3. ReadsChunk => engines' = engines /\ fifo' \in 0 .. FifoCap /\ errs' \in 0 .. MaxErrs
  BY DEF ReadsChunk
<1>4. ReadsNothing =>
        engines' = engines /\ fifo' = fifo /\ file' = file /\ errs' \in 0 .. MaxErrs
  BY DEF ReadsNothing
<1> QED BY <1>1, <1>2, <1>3, <1>4

(* A session that opens, or fails to, the teardown's steps and the death   *)
(* of the process keep the shared variables well typed.                    *)
LEMMA SharedTypes ==
  ASSUME NEW pcs, HostTypeOK(pcs), "teardown" \in pcs
  PROVE  /\ \A s \in Scripts, first \in pcs : Open(s, first) => HostTypeOK(pcs)'
         /\ OpenFails \/ TeardownOpens \/ TeardownSkips => HostTypeOK(pcs)'
         /\ TeardownSends => HostTypeOK(pcs)'
         /\ Kill => HostTypeOK(pcs)'
<1> USE BoundsAssumption, ScriptSeq DEF HostTypeOK
<1>1. ASSUME NEW s \in Scripts, NEW first \in pcs, Open(s, first)
      PROVE  HostTypeOK(pcs)'
  <2>1. script' = s /\ s \in Seq(Lines) /\ Len(s) \in Nat
    BY <1>1, ScriptsAssumption DEF Open
  <2>2. file' \in Seq(Kinds) /\ Len(file') = 0
    BY <1>1, EmptyFile DEF Open
  <2>3. pos' \in 1 .. Len(script') + 1 /\ mark' \in -1 .. Len(file')
    BY <1>1, <2>1, <2>2 DEF Open
  <2>4. /\ engines' \subseteq Engines /\ missed' \subseteq Engines
        /\ fifo' \in 0 .. FifoCap /\ errs' \in 0 .. MaxErrs
    BY <1>1 DEF Open, device
  <2>5. /\ pc' \in pcs \cup {"exited"} /\ script' \in Scripts \cup {<<>>}
        /\ rc' \in {"ok", "failed", "killed"}
        /\ trailWhite' \in Nat /\ sessions' \in Nat
    BY <1>1 DEF Open
  <2>6. armed' \in BOOLEAN /\ filmSeen' \in BOOLEAN
    BY <1>1, Zenon DEF Open
  <2> QED BY <2>2, <2>3, <2>4, <2>5, <2>6
<1>2. ASSUME OpenFails \/ TeardownOpens \/ TeardownSkips PROVE HostTypeOK(pcs)'
  <2>1. CASE OpenFails
    BY <2>1 DEF OpenFails, detector, device
  <2>2. CASE TeardownOpens
    BY <2>2 DEF TeardownOpens, detector, device
  <2>3. CASE TeardownSkips
    BY <2>3 DEF TeardownSkips, detector, device
  <2> QED BY <1>2, <2>1, <2>2, <2>3
<1>3. ASSUME TeardownSends PROVE HostTypeOK(pcs)'
  <2>1. /\ engines' \subseteq Engines /\ missed' \subseteq Engines
        /\ fifo' \in 0 .. FifoCap /\ errs' \in 0 .. MaxErrs
    BY <1>3, DeviceType DEF TeardownSends
  <2> QED BY <1>3, <2>1 DEF TeardownSends, detector
<1>4. ASSUME Kill PROVE HostTypeOK(pcs)'
  <2>1. PICK n \in 0 .. 1 : n <= Len(file) /\ file' = SubSeq(file, 1, Len(file) - n)
    BY <1>4 DEF Kill
  <2>2. file' \in Seq(Kinds) /\ Len(file') \in Nat
    BY <2>1
  <2>3. mark' = -1 /\ mark' \in -1 .. Len(file')
    BY <1>4, <2>2 DEF Kill
  <2> QED BY <1>4, <2>2, <2>3 DEF Kill, device
<1> QED BY <1>1, <1>2, <1>3, <1>4

(* Before the first session the shared variables are well typed.           *)
LEMMA InitTypes == HostInit => \A pcs : HostTypeOK(pcs)
<1> SUFFICES ASSUME HostInit, NEW pcs PROVE HostTypeOK(pcs)
  OBVIOUS
<1>1. file \in Seq(Kinds) /\ Len(file) = 0 /\ Len(script) = 0
  BY EmptyFile DEF HostInit
<1>2. pos \in 1 .. Len(script) + 1 /\ mark \in -1 .. Len(file)
  BY <1>1 DEF HostInit
<1>3. /\ engines \subseteq Engines /\ missed \subseteq Engines
      /\ fifo \in 0 .. FifoCap /\ errs \in 0 .. MaxErrs
  BY BoundsAssumption DEF HostInit
<1> QED BY <1>1, <1>2, <1>3 DEF HostInit, HostTypeOK

-----------------------------------------------------------------------------
(* The engines.                                                            *)

(* A line that is passed keeps RestartedSince: a command that is sent, be  *)
(* it delivered or missed, and a line that is not a stop in the tail.      *)
LEMMA PassLine ==
  ASSUME NEW pcs, HostTypeOK(pcs), RestartedSince, pos <= Len(script),
         script' = script, pos' = pos + 1,
         \/ SendCommand(script[pos])
         \/ /\ engines' = engines /\ missed' = missed
            /\ script[pos] \notin Stops \/ ~InTail(script, pos)
  PROVE  RestartedSince'
<1>0. script \in Seq(Lines) /\ Len(script) \in Nat /\ pos \in 1 .. Len(script)
  BY ScriptSeq DEF HostTypeOK
<1> SUFFICES ASSUME NEW e \in engines' \ missed', NEW k \in 1 .. pos,
                    InTail(script, k), script[k] = StopOf(e)
             PROVE  \E j \in k + 1 .. pos : script[j] = StartOf(e)
  BY <1>0 DEF RestartedSince
<1>1. CASE SendCommand(script[pos])
  <2>1. e \in Engines
    BY <1>1 DEF SendCommand, Executes, AfterCommand, device, HostTypeOK
  <2>2. StartOf(e) # StopOf(e)
    BY <2>1 DEF Engines, StartOf, StopOf
  <2>3. CASE script[pos] = StartOf(e)
    <3>1. k # pos
      BY <2>2, <2>3
    <3> QED BY <1>0, <2>3, <3>1
  <2>4. CASE script[pos] # StartOf(e)
    <3>1. e \in engines \ missed /\ script[pos] # StopOf(e)
      BY <1>1, <2>1, <2>4 DEF SendCommand, Executes, AfterCommand, MissedBy, device
    <3>2. k \in 1 .. pos - 1
      BY <1>0, <3>1
    <3>3. \E j \in k + 1 .. pos - 1 : script[j] = StartOf(e)
      BY <3>1, <3>2 DEF RestartedSince
    <3> QED BY <1>0, <3>3
  <2> QED BY <2>3, <2>4
<1>2. CASE /\ engines' = engines /\ missed' = missed
           /\ script[pos] \notin Stops \/ ~InTail(script, pos)
  <2>1. e \in engines \ missed /\ e \in Engines
    BY <1>2 DEF HostTypeOK
  <2>2. StopOf(e) \in Stops
    BY DEF StopOf, Stops
  <2>3. k \in 1 .. pos - 1
    BY <1>0, <1>2, <2>2
  <2>4. \E j \in k + 1 .. pos - 1 : script[j] = StartOf(e)
    BY <2>1, <2>3 DEF RestartedSince
  <2> QED BY <1>0, <2>4
<1> QED BY <1>1, <1>2

(* At the end of a script whose tail stops the engines, an engine that     *)
(* runs has missed its stop.                                               *)
LEMMA StoppedAtEnd ==
  ASSUME NEW pcs, HostTypeOK(pcs), RestartedSince, pos = Len(script) + 1, StopsEngines(script)
  PROVE  engines \subseteq missed
<1>0. script \in Seq(Lines) /\ Len(script) \in Nat
  BY ScriptSeq DEF HostTypeOK
<1> SUFFICES ASSUME NEW e \in engines, e \notin missed PROVE FALSE
  OBVIOUS
<1>1. PICK k \in 1 .. Len(script) :
        /\ script[k] = StopOf(e) /\ InTail(script, k)
        /\ \A j \in k + 1 .. Len(script) : script[j] # StartOf(e)
  BY DEF StopsEngines, HostTypeOK
<1>2. PICK j \in k + 1 .. pos - 1 : script[j] = StartOf(e)
  BY <1>0, <1>1 DEF RestartedSince
<1> QED BY <1>0, <1>1, <1>2

-----------------------------------------------------------------------------
(* The end-of-roll detector.                                               *)

(* The whites that follow the last film are finitely many.                 *)
LEMMA WhitesFinite ==
  ASSUME NEW f \in Seq(Kinds), NEW m
  PROVE  /\ IsFiniteSet(TrailingWhites(f, m))
         /\ Cardinality(TrailingWhites(f, m)) \in Nat
<1>1. IsFiniteSet(1 .. Len(f))
  BY FS_Interval
<1>2. TrailingWhites(f, m) \subseteq 1 .. Len(f)
  BY DEF TrailingWhites, Watched
<1> QED BY <1>1, <1>2, FS_Subset, FS_CardinalityType

(* Before the roll has begun, and when it begins, there is nothing to      *)
(* judge.                                                                  *)
LEMMA NothingWatched ==
  ASSUME NEW f \in Seq(Kinds), NEW m, m = -1 \/ m = Len(f)
  PROVE  ~FilmIn(f, m) /\ Cardinality(TrailingWhites(f, m)) = 0
<1>1. Watched(f, m) = {}
  BY DEF Watched
<1>2. TrailingWhites(f, m) = {}
  BY <1>1 DEF TrailingWhites
<1> QED BY <1>1, <1>2, FS_EmptySet DEF FilmIn

(* What one more chunk of kind k does to the reference.                    *)
LEMMA OneMoreChunk ==
  ASSUME NEW f \in Seq(Kinds), NEW m \in 0 .. Len(f), NEW k \in Kinds
  PROVE  LET g == Append(f, k)
             W == Cardinality(TrailingWhites(f, m))
         IN  /\ FilmIn(g, m) <=> FilmIn(f, m) \/ k = "film"
             /\ k = "film" => Cardinality(TrailingWhites(g, m)) = 0
             /\ k = "white" /\ FilmIn(f, m) => Cardinality(TrailingWhites(g, m)) = W + 1
             /\ k # "film" /\ ~(k = "white" /\ FilmIn(f, m)) =>
                  Cardinality(TrailingWhites(g, m)) = W
<1> DEFINE g == Append(f, k)
           n == Len(f) + 1
<1>0. /\ n \in Nat /\ Len(g) = n /\ g[n] = k
      /\ \A i \in 1 .. Len(f) : g[i] = f[i]
      /\ Len(f) \in Nat /\ m # -1 /\ n > m
  OBVIOUS
<1>1. /\ Watched(g, m) = Watched(f, m) \cup {n}
      /\ \A i \in Watched(f, m) : i \in 1 .. Len(f) /\ i < n /\ g[i] = f[i]
  BY <1>0 DEF Watched
<1> HIDE DEF g
<1>2. FilmIn(g, m) <=> FilmIn(f, m) \/ k = "film"
  BY <1>0, <1>1 DEF FilmIn
<1>3. n \notin TrailingWhites(f, m)
  BY <1>1 DEF TrailingWhites
<1>4. ASSUME k = "film"
      PROVE  Cardinality(TrailingWhites(g, m)) = 0
  <2>1. TrailingWhites(g, m) = {}
    BY <1>0, <1>1, <1>4 DEF TrailingWhites
  <2> QED BY <2>1, FS_EmptySet
<1>5. ASSUME k = "white", FilmIn(f, m)
      PROVE  Cardinality(TrailingWhites(g, m)) = Cardinality(TrailingWhites(f, m)) + 1
  <2>1. TrailingWhites(g, m) = TrailingWhites(f, m) \cup {n}
    BY <1>0, <1>1, <1>5 DEF TrailingWhites, FilmIn
  <2> QED BY <1>3, <2>1, WhitesFinite, FS_AddElement
<1>6. ASSUME k # "film", ~(k = "white" /\ FilmIn(f, m))
      PROVE  TrailingWhites(g, m) = TrailingWhites(f, m)
  BY <1>0, <1>1, <1>6 DEF TrailingWhites, FilmIn
<1> QED BY <1>2, <1>4, <1>5, <1>6 DEF g

=============================================================================
