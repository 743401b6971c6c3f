--------------------------- MODULE WebPageProofs ---------------------------
(***************************************************************************)
(* Theorems about the web service and its page, for any files, any number  *)
(* of scans and jobs, and any number of requests that cross.               *)
(***************************************************************************)
EXTENDS WebPage, SequenceTheorems, TLAPS

-----------------------------------------------------------------------------
(* Jobs and the executor's queue.                                          *)

JobStates == {"queued", "loaded", "saved"}
Contents  == Rolls \cup {NoFile}

(* A job's fields.                                                         *)
LEMMA JobFields ==
  ASSUME NEW j \in Job
  PROVE  /\ j.id \in Ids /\ j.kind \in {"prescan", "export"}
         /\ j.path \in {"scan", "upload"} /\ j.crops \in Contents
         /\ j.src \in Contents /\ j.st \in JobStates
BY DEF Job, JobStates, Contents

(* What a request submits is a job.                                        *)
LEMMA JobSubmitted ==
  ASSUME NEW id \in Ids, NEW kind \in {"prescan", "export"},
         NEW path \in {"scan", "upload"}, NEW c \in Contents
  PROVE  [id |-> id, kind |-> kind, path |-> path, crops |-> c,
          src |-> NoFile, st |-> "queued"] \in Job
BY DEF Job, JobStates, Contents

(* The running job leaves the queue to those behind it.                    *)
LEMMA HeadLeaves ==
  ASSUME NEW S, NEW q \in Seq(S), q # <<>>
  PROVE  /\ RemoveAt(q, 1) \in Seq(S) /\ Len(RemoveAt(q, 1)) = Len(q) - 1
         /\ \A k \in 1 .. Len(q) - 1 : RemoveAt(q, 1)[k] = q[k + 1]
<1>1. RemoveAt(q, 1) = Tail(q)
  <2>1. RemoveAt(q, 1) = <<>> \o Tail(q)
    BY SubSeqEmpty, TailIsSubSeq, LenProperties DEF RemoveAt
  <2> QED BY <2>1, HeadTailProperties, ConcatEmptySeq
<1> QED BY <1>1, HeadTailProperties, LenProperties

(* The running job is in state s now, and works on f.                      *)
HeadOn(s, f) ==
  /\ queue # <<>> /\ queue' \in Seq(Job) /\ Len(queue') = Len(queue)
  /\ queue'[1].st = s /\ queue'[1].src = f
  /\ queue'[1].id = queue[1].id /\ queue'[1].kind = queue[1].kind
  /\ queue'[1].crops = queue[1].crops
  /\ \A k \in 2 .. Len(queue) : queue'[k] = queue[k]

(* The running job is over, with outcome o.                                *)
HeadOver(o) ==
  /\ queue # <<>> /\ queue' \in Seq(Job) /\ Len(queue') = Len(queue) - 1
  /\ \A k \in 1 .. Len(queue) - 1 : queue'[k] = queue[k + 1]
  /\ result' = [result EXCEPT ![queue[1].id] =
                  IF stream[queue[1].id] = "none" THEN @ ELSE o]

(* The running job is replaced by what it has become.                      *)
LEMMA HeadReplaced ==
  ASSUME queue \in Seq(Job), queue # <<>>, NEW x \in Job, queue' = [queue EXCEPT ![1] = x],
         x.id = queue[1].id, x.kind = queue[1].kind, x.crops = queue[1].crops
  PROVE  HeadOn(x.st, x.src)
<1>0. 1 \in 1 .. Len(queue) /\ Len(queue) \in Nat
  BY EmptySeq, LenProperties
<1>1. /\ queue' \in Seq(Job) /\ Len(queue') = Len(queue) /\ queue'[1] = x
      /\ \A k \in 2 .. Len(queue) : queue'[k] = queue[k]
  BY <1>0, ExceptSeq
<1> QED BY <1>1 DEF HeadOn

(* What the worker may do: the one summary the proofs about jobs use.      *)
LEMMA WorkerStep ==
  ASSUME ServiceTypeOK, Works
  PROVE  /\ queue # <<>> /\ queue[1] \in Job
         /\ UNCHANGED <<scanPath, processing, raw, requests, copying, stream, scans>>
         /\ \/ /\ queue[1].st = "queued" /\ raw[queue[1].path] # NoFile
               /\ queue[1].kind = "prescan"
               /\ HeadOn("loaded", raw[queue[1].path])
               /\ UNCHANGED <<prescan, frames, ribbon, preview, result>>
            \/ /\ queue[1].st = "loaded" /\ queue[1].kind = "prescan"
               /\ HeadOn("saved", queue[1].src) /\ ribbon' = queue[1].src
               /\ UNCHANGED <<prescan, frames, preview, result>>
            \/ /\ queue[1].st = "saved" /\ HeadOver("done")
               /\ preview' = queue[1].src /\ prescan' = queue[1].src
               /\ UNCHANGED <<frames, ribbon>>
            \/ /\ queue[1].st = "queued" /\ queue[1].kind = "export" /\ ribbon # NoFile
               /\ HeadOn("loaded", ribbon)
               /\ UNCHANGED <<prescan, frames, ribbon, preview, result>>
            \/ /\ HeadOver("done") /\ frames' = TRUE
               /\ UNCHANGED <<prescan, ribbon, preview>>
            \/ /\ HeadOver("error")
               /\ UNCHANGED <<prescan, frames, ribbon, preview>>
<1>0. queue \in Seq(Job) /\ \A p \in {"scan", "upload"} : raw[p] \in Contents
  BY DEF ServiceTypeOK, Contents
<1>1. PICK k \in 1 .. Len(queue) :
        \/ PrescanLoads(k) \/ PrescanSaves(k) \/ PrescanDone(k)
        \/ ExportLoads(k) \/ ExportDone(k) \/ JobFails(k)
  BY DEF Works
<1>2. k = 1
  BY <1>1 DEF PrescanLoads, PrescanSaves, PrescanDone, ExportLoads, ExportDone, JobFails,
              Turn
<1>3. queue # <<>> /\ queue[1] \in Job
  BY <1>0, <1>1, <1>2, ElementOfSeq
<1>4. /\ queue[1].path \in {"scan", "upload"} /\ queue[1].src \in Contents
      /\ raw[queue[1].path] \in Contents /\ ribbon \in Contents
  BY <1>0, <1>3, JobFields DEF ServiceTypeOK, Contents
<1>5. \A o : Ends(1, o) => HeadOver(o)
  BY <1>0, <1>3, HeadLeaves DEF Ends, HeadOver
<1>6. CASE PrescanLoads(1)
  <2> DEFINE x == [queue[1] EXCEPT !.st = "loaded", !.src = raw[queue[1].path]]
  <2>1. queue' = [queue EXCEPT ![1] = x]
    BY <1>3, <1>6 DEF PrescanLoads
  <2>2. /\ x \in Job /\ x.st = "loaded" /\ x.src = raw[queue[1].path]
        /\ x.id = queue[1].id /\ x.kind = queue[1].kind /\ x.crops = queue[1].crops
    BY <1>3, <1>4 DEF Job, Contents
  <2> HIDE DEF x
  <2>3. HeadOn("loaded", raw[queue[1].path])
    BY <1>0, <1>3, <2>1, <2>2, HeadReplaced
  <2> QED BY <1>3, <1>6, <2>3 DEF PrescanLoads, state, files
<1>7. CASE PrescanSaves(1)
  <2> DEFINE x == [queue[1] EXCEPT !.st = "saved"]
  <2>1. queue' = [queue EXCEPT ![1] = x]
    BY <1>3, <1>7 DEF PrescanSaves
  <2>2. /\ x \in Job /\ x.st = "saved" /\ x.src = queue[1].src
        /\ x.id = queue[1].id /\ x.kind = queue[1].kind /\ x.crops = queue[1].crops
    BY <1>3, <1>4 DEF Job, Contents
  <2> HIDE DEF x
  <2>3. HeadOn("saved", queue[1].src)
    BY <1>0, <1>3, <2>1, <2>2, HeadReplaced
  <2> QED BY <1>3, <1>7, <2>3 DEF PrescanSaves, state
<1>8. CASE PrescanDone(1)
  BY <1>3, <1>5, <1>8 DEF PrescanDone
<1>9. CASE ExportLoads(1)
  <2> DEFINE x == [queue[1] EXCEPT !.st = "loaded", !.src = ribbon]
  <2>1. queue' = [queue EXCEPT ![1] = x]
    BY <1>3, <1>9 DEF ExportLoads
  <2>2. /\ x \in Job /\ x.st = "loaded" /\ x.src = ribbon
        /\ x.id = queue[1].id /\ x.kind = queue[1].kind /\ x.crops = queue[1].crops
    BY <1>3, <1>4 DEF Job, Contents
  <2> HIDE DEF x
  <2>3. HeadOn("loaded", ribbon)
    BY <1>0, <1>3, <2>1, <2>2, HeadReplaced
  <2> QED BY <1>3, <1>9, <2>3 DEF ExportLoads, state, files
<1>10. CASE ExportDone(1)
  BY <1>3, <1>5, <1>10 DEF ExportDone, files
<1>11. CASE JobFails(1)
  BY <1>3, <1>5, <1>11 DEF JobFails, state, files
<1> QED BY <1>1, <1>2, <1>6, <1>7, <1>8, <1>9, <1>10, <1>11

-----------------------------------------------------------------------------
(* Type correctness.                                                       *)

(* What a request submits waits at the end of a well-typed queue.          *)
LEMMA SubmitTypes ==
  ASSUME ServiceTypeOK, NEW id \in Ids, NEW job \in Job, NEW kind \in {"process", "export"},
         job.st = "queued", job.src = NoFile, Submit(id, job, kind)
  PROVE  /\ processing' \in BOOLEAN /\ frames' \in BOOLEAN
         /\ queue' \in Seq(Job)
         /\ \A k \in 1 .. Len(queue') : queue'[k].st = "queued" <=> queue'[k].src = NoFile
         /\ stream' \in [Ids -> {"none", "process", "export", "gone", "goneEarly"}]
<1>1. processing' \in BOOLEAN /\ frames' \in BOOLEAN
  BY Zenon DEF Submit
<1>2. queue' = Append(queue, job) /\ queue \in Seq(Job)
  BY DEF Submit, ServiceTypeOK
<1>3. queue' \in Seq(Job)
  BY <1>2, AppendProperties
<1>4. \A k \in 1 .. Len(queue') : queue'[k].st = "queued" <=> queue'[k].src = NoFile
  <2> SUFFICES ASSUME NEW k \in 1 .. Len(queue')
               PROVE  queue'[k].st = "queued" <=> queue'[k].src = NoFile
    OBVIOUS
  <2>1. queue'[k] = job \/ (k \in 1 .. Len(queue) /\ queue'[k] = queue[k])
    BY <1>2, AppendProperties, LenProperties
  <2> QED BY <2>1 DEF ServiceTypeOK
<1>5. stream' \in [Ids -> {"none", "process", "export", "gone", "goneEarly"}]
  BY DEF Submit, ServiceTypeOK
<1> QED BY <1>1, <1>3, <1>4, <1>5

(* Scans start, open the scanner, exit and are reported.                   *)
LEMMA ScanTypes ==
  ASSUME ServiceTypeOK,
         \/ ScanBegins
         \/ \E i \in 1 .. Len(scans) : ScannerOpens(i) \/ ScannerExits(i) \/ ScanReported(i)
  PROVE  ServiceTypeOK'
<1> USE DEF ServiceTypeOK, state, files, jobs
<1>0. scans \in Seq(Child) /\ Len(scans) \in Nat /\ Len(scans) <= MaxScans
  BY LenProperties
<1>1. CASE ScanBegins
  <2>1. [st |-> "opening", stream |-> "open"] \in Child
    BY DEF Child
  <2>2. scans' \in Seq(Child) /\ Len(scans') <= MaxScans
    BY <1>0, <1>1, <2>1, AppendProperties, ServiceAssumption DEF ScanBegins
  <2>3. raw' \in [{"scan", "upload"} -> Rolls \cup {NoFile}]
    BY <1>1 DEF ScanBegins
  <2>4. frames' \in BOOLEAN
    BY <1>1, Zenon DEF ScanBegins
  <2> QED BY <1>1, <2>2, <2>3, <2>4 DEF ScanBegins
<1>2. ASSUME NEW i \in 1 .. Len(scans), ScannerOpens(i) \/ ScannerExits(i) \/ ScanReported(i)
      PROVE  ServiceTypeOK'
  <2>1. scans[i] \in Child
    BY <1>0, ElementOfSeq
  <2>2. PICK c \in Child : scans' = [scans EXCEPT ![i] = c]
    <3>1. CASE ScannerOpens(i)
      <4>1. [scans[i] EXCEPT !.st = "scanning"] \in Child
        BY <2>1 DEF Child
      <4> QED BY <3>1, <4>1 DEF ScannerOpens
    <3>2. CASE ScannerExits(i)
      <4>1. /\ [scans[i] EXCEPT !.st = "failed"] \in Child
            /\ [scans[i] EXCEPT !.st = "ok"] \in Child
        BY <2>1 DEF Child
      <4>2. \/ scans' = [scans EXCEPT ![i].st = "failed"]
            \/ scans' = [scans EXCEPT ![i].st = "ok"]
        BY <3>2 DEF ScannerExits
      <4> QED BY <4>1, <4>2
    <3>3. CASE ScanReported(i)
      <4>1. [st |-> "over", stream |-> "ended"] \in Child
        BY DEF Child
      <4> QED BY <3>3, <4>1 DEF ScanReported
    <3> QED BY <1>2, <3>1, <3>2, <3>3
  <2>3. scans' \in Seq(Child) /\ Len(scans') <= MaxScans
    BY <1>0, <2>2, ExceptSeq
  <2>4. i \in Rolls
    BY <1>0, ServiceAssumption DEF Rolls
  <2>5. raw' \in [{"scan", "upload"} -> Rolls \cup {NoFile}]
    BY <1>2, <2>4 DEF ScannerOpens, ScannerExits, ScanReported
  <2>6. UNCHANGED <<state, ribbon, preview, jobs>>
    BY <1>2 DEF ScannerOpens, ScannerExits, ScanReported
  <2> QED BY <2>3, <2>5, <2>6
<1> QED BY <1>1, <1>2

(* Requests, the ends of their streams, and Clear.                         *)
LEMMA RequestTypes ==
  ASSUME ServiceTypeOK,
         \/ ProcessLast
         \/ \E f \in Files : UploadBegins(f)
         \/ \E id \in Ids : UploadEnds(id) \/ StreamEnds(id) \/ StreamDropped(id)
         \/ \E c \in Rolls \cup {NoFile} : Export(c)
         \/ Clear
  PROVE  ServiceTypeOK'
<1>0. /\ MaxJobs \in Nat /\ requests \in 0 .. MaxJobs /\ copying \subseteq 1 .. requests
      /\ requests < MaxJobs => requests + 1 \in Ids
      /\ copying \subseteq Ids
  BY ServiceAssumption DEF ServiceTypeOK, Ids
<1>1. CASE ProcessLast
  <2>1. /\ requests' = requests + 1 /\ requests < MaxJobs
        /\ SubmitPrescan(requests + 1, scanPath)
        /\ UNCHANGED <<scanPath, files, copying, result, scans>>
        /\ scanPath \in {"scan", "upload"}
    BY <1>1 DEF ProcessLast, RefusesProcess, HasRaw
  <2>2. PICK job \in Job :
          /\ job.st = "queued" /\ job.src = NoFile
          /\ Submit(requests + 1, job, "process") /\ prescan' = NoFile
    BY <1>0, <2>1, JobSubmitted DEF SubmitPrescan, Contents
  <2>3. requests' \in 0 .. MaxJobs /\ copying' \subseteq 1 .. requests'
    BY <1>0, <2>1
  <2> QED BY <1>0, <2>1, <2>2, <2>3, SubmitTypes DEF ServiceTypeOK, files
<1>2. ASSUME NEW f \in Files, UploadBegins(f)
      PROVE  ServiceTypeOK'
  <2>1. requests' \in 0 .. MaxJobs /\ copying' \subseteq 1 .. requests'
    BY <1>0, <1>2 DEF UploadBegins
  <2>2. raw' \in [{"scan", "upload"} -> Rolls \cup {NoFile}]
    BY <1>2 DEF UploadBegins, ServiceTypeOK, Rolls
  <2>3. stream' \in [Ids -> {"none", "process", "export", "gone", "goneEarly"}]
    BY <1>2 DEF UploadBegins, ServiceTypeOK
  <2> QED BY <1>2, <2>1, <2>2, <2>3 DEF UploadBegins, ServiceTypeOK, state
<1>3. ASSUME NEW id \in Ids, UploadEnds(id)
      PROVE  ServiceTypeOK'
  <2>1. /\ scanPath' = "upload" /\ SubmitPrescan(id, "upload")
        /\ copying' \subseteq copying
        /\ UNCHANGED <<files, requests, result, scans>>
    BY <1>3 DEF UploadEnds
  <2>2. PICK job \in Job :
          /\ job.st = "queued" /\ job.src = NoFile
          /\ Submit(id, job, "process") /\ prescan' = NoFile
    BY <2>1, JobSubmitted DEF SubmitPrescan, Contents
  <2> QED BY <1>0, <2>1, <2>2, SubmitTypes DEF ServiceTypeOK, files
<1>4. ASSUME NEW id \in Ids, StreamEnds(id) \/ StreamDropped(id)
      PROVE  ServiceTypeOK'
  <2>1. processing' \in BOOLEAN
    BY <1>4, Zenon DEF StreamEnds, StreamDropped
  <2>2. /\ stream' = [stream EXCEPT ![id] = "none"] /\ result' = [result EXCEPT ![id] = "none"]
        /\ UNCHANGED <<scanPath, prescan, frames, files, requests, copying, queue, scans>>
    BY <1>4 DEF StreamEnds, StreamDropped
  <2> QED BY <2>1, <2>2 DEF ServiceTypeOK, files
<1>5. ASSUME NEW c \in Rolls \cup {NoFile}, Export(c)
      PROVE  ServiceTypeOK'
  <2>1. /\ requests' = requests + 1 /\ requests < MaxJobs
        /\ UNCHANGED <<scanPath, prescan, files, copying, result, scans>>
    BY <1>5 DEF Export
  <2>2. PICK job \in Job :
          /\ job.st = "queued" /\ job.src = NoFile
          /\ Submit(requests + 1, job, "export")
    BY <1>0, <1>5, <2>1, JobSubmitted DEF Export, Contents
  <2>3. requests' \in 0 .. MaxJobs /\ copying' \subseteq 1 .. requests'
    BY <1>0, <2>1
  <2> QED BY <1>0, <2>1, <2>2, <2>3, SubmitTypes DEF ServiceTypeOK, files
<1>6. CASE Clear
  <2>1. processing' \in BOOLEAN /\ frames' \in BOOLEAN
    BY <1>6, Zenon DEF Clear
  <2>2. raw' \in [{"scan", "upload"} -> Rolls \cup {NoFile}]
    BY <1>6 DEF Clear, ServiceTypeOK
  <2> QED BY <1>6, <2>1, <2>2 DEF Clear, ServiceTypeOK, jobs
<1> QED BY <1>1, <1>2, <1>3, <1>4, <1>5, <1>6

(* The worker.                                                             *)
LEMMA WorkTypes == ASSUME ServiceTypeOK, Works PROVE ServiceTypeOK'
<1>0. /\ queue # <<>> /\ queue[1] \in Job
      /\ UNCHANGED <<scanPath, processing, raw, requests, copying, stream, scans>>
  BY WorkerStep
<1>1. /\ queue \in Seq(Job) /\ Len(queue) \in Nat /\ 1 \in 1 .. Len(queue)
      /\ \A k \in 1 .. Len(queue) : queue[k].st = "queued" <=> queue[k].src = NoFile
  BY <1>0, LenProperties, EmptySeq DEF ServiceTypeOK
<1>2. /\ queue[1].src \in Rolls \cup {NoFile} /\ queue[1].id \in Ids
      /\ frames \in BOOLEAN /\ ribbon \in Rolls \cup {NoFile}
      /\ prescan \in Rolls \cup {NoFile} /\ preview \in Rolls \cup {NoFile}
      /\ result \in [Ids -> {"none", "done", "error"}]
  BY <1>0, JobFields DEF ServiceTypeOK, Contents
<1>3. ASSUME NEW s \in {"loaded", "saved"}, NEW f, f # NoFile, HeadOn(s, f)
      PROVE  /\ queue' \in Seq(Job)
             /\ \A k \in 1 .. Len(queue') : queue'[k].st = "queued" <=> queue'[k].src = NoFile
  BY <1>1, <1>3 DEF HeadOn
<1>4. ASSUME NEW o \in {"done", "error"}, HeadOver(o)
      PROVE  /\ queue' \in Seq(Job)
             /\ \A k \in 1 .. Len(queue') : queue'[k].st = "queued" <=> queue'[k].src = NoFile
             /\ result' \in [Ids -> {"none", "done", "error"}]
  BY <1>1, <1>2, <1>4 DEF HeadOver
<1>5. /\ prescan' \in Rolls \cup {NoFile} /\ preview' \in Rolls \cup {NoFile}
      /\ ribbon' \in Rolls \cup {NoFile}
  BY <1>2, WorkerStep
<1>6. frames' \in BOOLEAN
  BY <1>2, WorkerStep, Zenon
<1>7. /\ queue' \in Seq(Job)
      /\ \A k \in 1 .. Len(queue') : queue'[k].st = "queued" <=> queue'[k].src = NoFile
      /\ result' \in [Ids -> {"none", "done", "error"}]
  BY <1>1, <1>2, <1>3, <1>4, WorkerStep
<1> QED BY <1>0, <1>5, <1>6, <1>7 DEF ServiceTypeOK

(* A crossing is counted, or there is none.                                *)
LEMMA CrossesTypes ==
  ASSUME crossings \in 0 .. MaxCrossings, NEW c, Crosses(c)
  PROVE  /\ crossings' \in 0 .. MaxCrossings
         /\ crossings' = 0 => crossings = 0 /\ ~c
BY CrossingAssumption DEF Crosses

(* Every page that is loaded anew is well typed.                           *)
LEMMA ReloadTypes == ASSUME TypeOK, Reload PROVE TypeOK'
<1>1. stream' \in [Ids -> {"none", "process", "export", "gone", "goneEarly"}]
  <2>1. \A id \in Ids : stream[id] \in {"none", "process", "export", "gone", "goneEarly"}
    BY DEF TypeOK, ServiceTypeOK
  <2> QED BY <2>1 DEF Reload
<1>2. scans' \in Seq(Child) /\ Len(scans') = Len(scans)
  <2>1. scans \in Seq(Child) /\ Len(scans) \in Nat
    BY LenProperties DEF TypeOK, ServiceTypeOK
  <2>2. \A i \in 1 .. Len(scans) : scans[i] \in Child
    BY <2>1, ElementOfSeq
  <2>3. \A i \in 1 .. Len(scans) : [scans[i] EXCEPT !.stream = "gone"] \in Child
    BY <2>2 DEF Child
  <2>4. scans' \in [1 .. Len(scans) -> Child]
    BY <2>2, <2>3 DEF Reload
  <2> QED BY <2>1, <2>4
<1>3. crossings' \in 0 .. MaxCrossings
  BY CrossesTypes DEF Reload, TypeOK, PageTypeOK
<1>4. {scanBusy, procReady, exportBusy, card, framesShown, hasScan}' \subseteq BOOLEAN
  BY Zenon DEF Reload, Fresh
<1>5. UNCHANGED <<state, files, requests, copying, queue, result>>
  BY DEF Reload
<1>6. /\ crops' \in Rolls \cup {NoFile} /\ loading' \in {"no", "asked", "some"}
      /\ upload' \in Files \cup {NoFile} /\ named' \in {"none", "scan", "upload"}
  BY DEF Reload, Fresh
<1> QED
  BY <1>1, <1>2, <1>3, <1>4, <1>5, <1>6
     DEF TypeOK, ServiceTypeOK, PageTypeOK, state, files

(* The operator's buttons keep the page well typed.                        *)
LEMMA OperatorTypes == ASSUME TypeOK, Operator PROVE PageTypeOK'
<1> USE DEF PageTypeOK
<1>0. PageTypeOK /\ scanPath \in {"none", "scan", "upload"}
  BY DEF TypeOK, ServiceTypeOK
<1>1. crossings' \in 0 .. MaxCrossings
  <2>1. CASE ClickProcess
    BY <1>0, <2>1, CrossesTypes DEF ClickProcess
  <2>2. CASE ClickClear
    BY <1>0, <2>2, CrossesTypes DEF ClickClear
  <2>3. CASE Reload
    BY <1>0, <2>3, CrossesTypes DEF Reload
  <2>4. CASE ~(ClickProcess \/ ClickClear \/ Reload)
    BY <1>0, <2>4 DEF Operator, PollStatus, ClickScan, ClickScanRefused, ChooseFile,
                      ClickExport, FramesListed, FramesLoaded
  <2> QED BY <2>1, <2>2, <2>3, <2>4
<1>2. {scanBusy, procReady, exportBusy, card, framesShown, hasScan}' \subseteq BOOLEAN
  <2>1. /\ scanBusy \in BOOLEAN /\ procReady \in BOOLEAN /\ exportBusy \in BOOLEAN
        /\ card \in BOOLEAN /\ framesShown \in BOOLEAN /\ hasScan \in BOOLEAN
    BY <1>0
  <2>2. (/\ scanBusy \in BOOLEAN /\ procReady \in BOOLEAN /\ exportBusy \in BOOLEAN)'
    BY <2>1, Zenon DEF Operator, PollStatus, ClickScan, ClickScanRefused, ChooseFile, ClickProcess,
             ClickExport, FramesListed, FramesLoaded, ClickClear, Reload, Fresh
  <2>3. (card \in BOOLEAN /\ framesShown \in BOOLEAN /\ hasScan \in BOOLEAN)'
    BY <2>1, Zenon DEF Operator, PollStatus, ClickScan, ClickScanRefused, ChooseFile, ClickProcess,
             ClickExport, FramesListed, FramesLoaded, ClickClear, Reload, Fresh
  <2> QED BY <2>2, <2>3
<1>3. crops' \in Rolls \cup {NoFile} /\ loading' \in {"no", "asked", "some"}
  BY <1>0 DEF Operator, PollStatus, ClickScan, ClickScanRefused, ChooseFile, ClickProcess,
              ClickExport, FramesListed, FramesLoaded, ClickClear, Reload, Fresh
<1>4. upload' \in Files \cup {NoFile} /\ named' \in {"none", "scan", "upload"}
  BY <1>0 DEF Operator, PollStatus, ClickScan, ClickScanRefused, ChooseFile, ClickProcess,
              ClickExport, FramesListed, FramesLoaded, ClickClear, Reload, Fresh
<1> QED BY <1>1, <1>2, <1>3, <1>4

(* What the buttons ask of the service keeps it well typed.                *)
LEMMA OperatorService == ASSUME TypeOK, Operator, ~Reload PROVE ServiceTypeOK'
<1>0. ServiceTypeOK /\ upload \in Files \cup {NoFile} /\ crops \in Rolls \cup {NoFile}
  BY DEF TypeOK, PageTypeOK
<1>1. CASE ClickScan
  BY <1>0, <1>1, ScanTypes DEF ClickScan
<1>2. CASE ClickProcess \/ ClickExport \/ ClickClear
  <2>1. \/ UNCHANGED service
        \/ ProcessLast
        \/ upload # NoFile /\ UploadBegins(upload)
        \/ Export(crops)
        \/ Clear
    BY <1>2 DEF ClickProcess, ClickExport, ClickClear
  <2>2. CASE UNCHANGED service
    BY <1>0, <2>2 DEF service, state, files, jobs, ServiceTypeOK
  <2> QED BY <1>0, <2>1, <2>2, RequestTypes
<1>3. CASE PollStatus \/ ClickScanRefused \/ ChooseFile \/ FramesListed \/ FramesLoaded
  <2>1. UNCHANGED service
    BY <1>3 DEF PollStatus, ClickScanRefused, ChooseFile, FramesListed, FramesLoaded
  <2> QED BY <1>0, <2>1 DEF service, state, files, jobs, ServiceTypeOK
<1> QED BY <1>1, <1>2, <1>3 DEF Operator

(* What goes on behind the page keeps all of it well typed.                *)
LEMMA BackgroundTypes ==
  ASSUME TypeOK, ScanStep \/ CopyEnds \/ ResponseEnds \/ ResponseDropped \/ Work
  PROVE  TypeOK'
<1>0. ServiceTypeOK /\ PageTypeOK /\ preview \in Rolls \cup {NoFile}
  BY DEF TypeOK, ServiceTypeOK
<1>1. CASE ScanStep
  <2>1. ServiceTypeOK'
    BY <1>0, <1>1, ScanTypes DEF ScanStep, ScanOver
  <2>2. PageTypeOK'
    <3>1. \A b : b \in {scanBusy, procReady, hasScan} => b \in BOOLEAN
      BY <1>0 DEF PageTypeOK
    <3>2. scanBusy' \in BOOLEAN /\ procReady' \in BOOLEAN /\ hasScan' \in BOOLEAN
      BY <1>1, <3>1, Zenon DEF ScanStep, ScanOver, page
    <3>3. UNCHANGED <<exportBusy, card, crops, framesShown, loading, upload, crossings>>
      BY <1>1 DEF ScanStep, ScanOver, page
    <3>4. named' \in {"none", "scan", "upload"}
      BY <1>0, <1>1 DEF ScanStep, ScanOver, page, PageTypeOK
    <3> QED BY <1>0, <3>2, <3>3, <3>4 DEF PageTypeOK
  <2> QED BY <2>1, <2>2 DEF TypeOK
<1>2. CASE CopyEnds
  <2>1. PICK id \in copying : UploadEnds(id) /\ UNCHANGED <<page, crossings>>
    BY <1>2 DEF CopyEnds
  <2>2. id \in Ids
    BY <1>0, ServiceAssumption DEF ServiceTypeOK, Ids
  <2>3. ServiceTypeOK'
    BY <1>0, <2>1, <2>2, RequestTypes
  <2> QED BY <1>0, <2>1, <2>3 DEF TypeOK, PageTypeOK, page
<1>3. CASE ResponseEnds
  <2>1. PICK id \in Ids : ProcessOver(id) \/ ExportOver(id)
    BY <1>3 DEF ResponseEnds
  <2>2. ServiceTypeOK'
    BY <1>0, <2>1, RequestTypes DEF ProcessOver, ExportOver
  <2>3. PageTypeOK'
    <3>1. card \in BOOLEAN /\ procReady \in BOOLEAN /\ exportBusy \in BOOLEAN
      BY <1>0 DEF PageTypeOK
    <3>2. card' \in BOOLEAN /\ procReady' \in BOOLEAN /\ exportBusy' \in BOOLEAN
      BY <2>1, <3>1, Zenon DEF ProcessOver, ExportOver
    <3>3. crops' \in Rolls \cup {NoFile} /\ loading' \in {"no", "asked", "some"}
      BY <1>0, <2>1 DEF ProcessOver, ExportOver, PageTypeOK
    <3>4. UNCHANGED <<scanBusy, framesShown, upload, hasScan, named, crossings>>
      BY <2>1 DEF ProcessOver, ExportOver
    <3> QED BY <1>0, <3>2, <3>3, <3>4 DEF PageTypeOK
  <2> QED BY <2>2, <2>3 DEF TypeOK
<1>4. CASE ResponseDropped
  <2>1. ServiceTypeOK'
    BY <1>0, <1>4, RequestTypes DEF ResponseDropped
  <2> QED BY <1>0, <1>4, <2>1 DEF ResponseDropped, TypeOK, PageTypeOK, page
<1>5. CASE Work
  <2>1. ServiceTypeOK'
    BY <1>0, <1>5, WorkTypes DEF Work
  <2> QED BY <1>0, <1>5, <2>1 DEF Work, TypeOK, PageTypeOK, page
<1> QED BY <1>1, <1>2, <1>3, <1>4, <1>5

(* The service and the page are well typed, whatever crosses.              *)
THEOREM TypeCorrect == Spec => []TypeOK
<1>1. Init => TypeOK
  <2> SUFFICES ASSUME Init PROVE TypeOK
    OBVIOUS
  <2>1. ServiceTypeOK
    <3>1. queue = <<>> /\ scans = <<>> /\ Len(queue) = 0 /\ Len(scans) = 0
          /\ queue \in Seq(Job) /\ scans \in Seq(Child)
      BY DEF Init, ServiceInit
    <3>2. frames \in BOOLEAN /\ processing \in BOOLEAN
      BY Zenon DEF Init, ServiceInit
    <3> QED BY <3>1, <3>2, ServiceAssumption DEF Init, ServiceInit, ServiceTypeOK
  <2>2. {scanBusy, procReady, exportBusy, card, framesShown, hasScan} \subseteq BOOLEAN
    BY Zenon DEF Init
  <2> QED BY <2>1, <2>2, CrossingAssumption DEF Init, TypeOK, PageTypeOK
<1>2. TypeOK /\ [Next]_vars => TypeOK'
  <2> SUFFICES ASSUME TypeOK, [Next]_vars PROVE TypeOK'
    OBVIOUS
  <2>1. CASE Operator
    BY <2>1, OperatorTypes, OperatorService, ReloadTypes DEF TypeOK
  <2>2. CASE UNCHANGED vars
    BY <2>2 DEF vars, service, state, files, jobs, page, TypeOK, ServiceTypeOK, PageTypeOK
  <2> QED BY <2>1, <2>2, BackgroundTypes DEF Next
<1> QED BY <1>1, <1>2, PTL DEF Spec

-----------------------------------------------------------------------------
(* The ribbon under an export.                                             *)

(* A request is put at the end of the queue, not yet begun.                *)
Queued == \E job \in Job : job.st = "queued" /\ queue' = Append(queue, job)

(* Only the worker writes the ribbon; everybody else leaves the queue as   *)
(* it is or puts one job at its end.                                       *)
LEMMA QueueStep ==
  ASSUME TypeOK, [Next]_vars, ~Works
  PROVE  ribbon' \in {ribbon, NoFile} /\ (queue' = queue \/ Queued)
<1>0. ServiceTypeOK /\ crops \in Contents /\ MaxJobs \in Nat
  BY ServiceAssumption DEF TypeOK, PageTypeOK, Contents
<1>1. CASE Operator
  <2>1. ASSUME requests < MaxJobs, ProcessLast
        PROVE  Queued /\ ribbon' = ribbon
    <3>1. requests + 1 \in Ids /\ scanPath \in {"scan", "upload"} /\ NoFile \in Contents
      BY <1>0, <2>1 DEF ServiceTypeOK, Ids, ProcessLast, RefusesProcess, HasRaw, Contents
    <3> QED
      BY <2>1, <3>1, JobSubmitted DEF ProcessLast, SubmitPrescan, Submit, Queued, files
  <2>2. ASSUME requests < MaxJobs, Export(crops)
        PROVE  Queued /\ ribbon' = ribbon
    <3>1. requests + 1 \in Ids
      BY <1>0, <2>2 DEF ServiceTypeOK, Ids
    <3> QED
      BY <1>0, <2>2, <3>1, JobSubmitted DEF Export, Submit, Queued, files
  <2>3. CASE ClickProcess
    BY <2>1, <2>3 DEF ClickProcess, ProcessLast, UploadBegins, service, files, jobs
  <2>4. CASE ClickExport
    BY <2>2, <2>4 DEF ClickExport, Export, service, files, jobs
  <2>5. CASE ClickClear
    BY <2>5 DEF ClickClear, Clear, jobs
  <2>6. CASE ~(ClickProcess \/ ClickExport \/ ClickClear)
    BY <1>1, <2>6 DEF Operator, PollStatus, ClickScan, ScanBegins, ClickScanRefused, ChooseFile,
                      FramesListed, FramesLoaded, Reload, service, files, jobs
  <2> QED BY <2>3, <2>4, <2>5, <2>6
<1>2. CASE ScanStep
  BY <1>2 DEF ScanStep, ScanOver, ScannerOpens, ScannerExits, ScanReported, files, jobs
<1>3. CASE CopyEnds
  <2>1. PICK id \in copying : UploadEnds(id)
    BY <1>3 DEF CopyEnds
  <2>2. id \in Ids /\ NoFile \in Contents
    BY <1>0 DEF ServiceTypeOK, Ids, Contents
  <2> QED BY <2>1, <2>2, JobSubmitted DEF UploadEnds, SubmitPrescan, Submit, Queued, files
<1>4. CASE ResponseEnds \/ ResponseDropped
  BY <1>4 DEF ResponseEnds, ResponseDropped, ProcessOver, ExportOver, StreamEnds,
              StreamDropped, files
<1>5. CASE UNCHANGED vars
  BY <1>5 DEF vars, service, files, jobs
<1> QED BY <1>1, <1>2, <1>3, <1>4, <1>5 DEF Next, Work

(* The worker begins the first job only, and an export that it has begun   *)
(* keeps it from the prescan that would write another ribbon.              *)
LEMMA RibbonStep ==
  ASSUME TypeOK, QueueInv, RibbonUntouched, [Next]_vars
  PROVE  QueueInv' /\ RibbonUntouched'
<1>0. queue \in Seq(Job) /\ Len(queue) \in Nat
  BY LenProperties DEF TypeOK, ServiceTypeOK
<1>1. CASE Works
  <2>1. queue # <<>> /\ Len(queue) >= 1
    BY <1>0, <1>1, WorkerStep, EmptySeq DEF TypeOK
  <2>2. \A k \in 2 .. Len(queue) : queue[k].st = "queued"
    BY <1>0 DEF QueueInv
  <2>3. ASSUME NEW o, HeadOver(o)
        PROVE  QueueInv' /\ RibbonUntouched'
    <3>1. \A k \in 1 .. Len(queue') : queue'[k].st = "queued"
      BY <1>0, <2>2, <2>3 DEF HeadOver
    <3> QED BY <3>1 DEF QueueInv, RibbonUntouched
  <2>4. ASSUME NEW s, NEW f, HeadOn(s, f)
        PROVE  /\ QueueInv'
               /\ queue[1].kind = "prescan" => RibbonUntouched'
               /\ ribbon' = f => RibbonUntouched'
    <3>1. \A k \in 1 .. Len(queue') : queue'[k].st # "queued" => k = 1
      BY <1>0, <2>2, <2>4 DEF HeadOn
    <3>2. queue'[1].src = f /\ queue'[1].kind = queue[1].kind
      BY <2>4 DEF HeadOn
    <3> QED BY <3>1, <3>2 DEF QueueInv, RibbonUntouched
  <2> QED BY <1>1, <2>3, <2>4, WorkerStep DEF TypeOK
<1>2. CASE ~Works
  <2>1. ribbon' \in {ribbon, NoFile} /\ (queue' = queue \/ Queued)
    BY <1>2, QueueStep
  <2>2. CASE queue' = queue
    BY <2>1, <2>2 DEF QueueInv, RibbonUntouched
  <2>3. CASE Queued
    <3>1. PICK job \in Job : job.st = "queued" /\ queue' = Append(queue, job)
      BY <2>3 DEF Queued
    <3>2. \A k \in 1 .. Len(queue') :
            queue'[k].st = "queued" \/ (k \in 1 .. Len(queue) /\ queue'[k] = queue[k])
      BY <1>0, <3>1, AppendProperties
    <3> QED BY <2>1, <3>2 DEF QueueInv, RibbonUntouched
  <2> QED BY <2>1, <2>2, <2>3
<1> QED BY <1>1, <1>2

(* No prescan rewrites the ribbon an export is cutting, whatever crosses.  *)
THEOREM RibbonKept == Spec => []RibbonUntouched
<1>1. Init => QueueInv /\ RibbonUntouched
  <2>1. Init => Len(queue) = 0
    BY DEF Init, ServiceInit
  <2> QED BY <2>1 DEF QueueInv, RibbonUntouched
<1>2. TypeOK /\ QueueInv /\ RibbonUntouched /\ [Next]_vars => QueueInv' /\ RibbonUntouched'
  BY RibbonStep
<1> QED BY <1>1, <1>2, TypeCorrect, PTL DEF Spec

-----------------------------------------------------------------------------
(* Scans.                                                                  *)

(* Crossings are only ever counted up.                                     *)
LEMMA CrossingsGrow ==
  ASSUME TypeOK, [Next]_vars, crossings' = 0
  PROVE  crossings = 0
<1>0. crossings \in 0 .. MaxCrossings
  BY DEF TypeOK, PageTypeOK
<1>1. \/ UNCHANGED crossings
      \/ \E c \in {copying # {}, Waiting} : Crosses(c)
  <2>1. CASE Operator
    BY <2>1 DEF Operator, PollStatus, ClickScan, ClickScanRefused, ChooseFile, ClickProcess,
                ClickExport, FramesListed, FramesLoaded, ClickClear, Reload
  <2>2. CASE ~Operator
    BY <2>2 DEF Next, ScanStep, ScanOver, CopyEnds, ResponseEnds, ProcessOver, ExportOver,
                ResponseDropped, Work, vars
  <2> QED BY <2>1, <2>2
<1> QED BY <1>0, <1>1, CrossesTypes

(* A scan that is started, or goes on.                                     *)
LEMMA ScanStepKeeps ==
  ASSUME TypeOK, ScanInv, crossings = 0, ClickScan \/ ScanStep
  PROVE  ScanInv'
<1>0. /\ scans \in Seq(Child) /\ Len(scans) \in Nat
      /\ "scan" \in DOMAIN raw /\ raw["scan"] \in {NoFile, Len(scans)}
      /\ \A i \in 1 .. Len(scans) :
            scans[i].st # "over" => i = Len(scans) /\ scans[i].stream = "open" /\ scanBusy
  BY LenProperties DEF TypeOK, ServiceTypeOK, ScanInv
<1>1. CASE ClickScan
  <2> DEFINE new == [st |-> "opening", stream |-> "open"]
  <2>1. /\ ~scanBusy /\ scanBusy' = TRUE /\ scans' = Append(scans, new)
        /\ raw'["scan"] = NoFile
    BY <1>0, <1>1 DEF ClickScan, ScanBegins
  <2>2. new \in Child /\ new.stream = "open"
    BY DEF Child
  <2> HIDE DEF new
  <2>3. /\ Len(scans') = Len(scans) + 1 /\ scans'[Len(scans) + 1] = new
        /\ \A i \in 1 .. Len(scans) : scans'[i] = scans[i]
    BY <1>0, <2>1, <2>2, AppendProperties
  <2>4. \A i \in 1 .. Len(scans) : scans'[i].st = "over"
    BY <1>0, <2>1, <2>3
  <2> QED BY <1>0, <2>1, <2>2, <2>3, <2>4 DEF ScanInv
<1>2. ASSUME NEW i \in 1 .. Len(scans),
             \/ (ScannerOpens(i) \/ ScannerExits(i)) /\ UNCHANGED <<page, crossings>>
             \/ ScanOver(i)
      PROVE  ScanInv'
  <2>1. scans[i] \in Child
    BY <1>0, ElementOfSeq
  <2>2. i = Len(scans) /\ scans[i].stream = "open" /\ scanBusy
    BY <1>0, <1>2 DEF ScanOver, ScannerOpens, ScannerExits, ScanReported
  <2>3. raw'["scan"] \in {NoFile, Len(scans)}
    BY <1>0, <1>2, <2>2 DEF ScanOver, ScannerOpens, ScannerExits, ScanReported, files
  <2>4. \A k \in 1 .. Len(scans) : k # i => scans[k].st = "over"
    BY <1>0, <2>2
  <2>5. ASSUME NEW c \in Child, scans' = [scans EXCEPT ![i] = c],
               c.st = "over" \/ (c.stream = "open" /\ scanBusy')
        PROVE  ScanInv'
    <3>1. Len(scans') = Len(scans) /\ scans'[i] = c
          /\ \A k \in 1 .. Len(scans) : k # i => scans'[k] = scans[k]
      BY <1>0, <2>5, ExceptSeq
    <3> QED BY <2>2, <2>3, <2>4, <2>5, <3>1 DEF ScanInv
  <2>6. ASSUME NEW s \in {"scanning", "ok", "failed"}, scans' = [scans EXCEPT ![i].st = s],
               UNCHANGED page
        PROVE  ScanInv'
    <3> DEFINE c == [scans[i] EXCEPT !.st = s]
    <3>1. scans' = [scans EXCEPT ![i] = c]
      BY <2>6
    <3>2. c \in Child /\ c.stream = "open"
      BY <2>1, <2>2 DEF Child
    <3> HIDE DEF c
    <3>3. scanBusy'
      BY <2>2, <2>6, Zenon DEF page
    <3> QED BY <2>5, <3>1, <3>2, <3>3
  <2>7. CASE ScanOver(i)
    <3>1. [st |-> "over", stream |-> "ended"] \in Child
      BY DEF Child
    <3> QED BY <2>5, <2>7, <3>1 DEF ScanOver, ScanReported
  <2> QED BY <1>2, <2>6, <2>7 DEF ScannerOpens, ScannerExits
<1> QED BY <1>1, <1>2, Zenon DEF ScanStep

(* A page that leaves while none of its responses is awaited leaves no     *)
(* scan behind.                                                            *)
LEMMA ReloadScans ==
  ASSUME TypeOK, ScanInv, crossings = 0, Reload, crossings' = 0
  PROVE  ScanInv'
<1>0. scans \in Seq(Child) /\ Len(scans) \in Nat
  BY LenProperties DEF TypeOK, ServiceTypeOK
<1>1. ~Waiting
  BY CrossesTypes DEF Reload, TypeOK, PageTypeOK
<1>2. \A i \in 1 .. Len(scans) : scans[i].st = "over" /\ scans[i].stream # "open"
  BY <1>1 DEF Waiting, ScanInv
<1>3. /\ Len(scans') = Len(scans)
      /\ \A i \in 1 .. Len(scans) : scans'[i] = scans[i]
  BY <1>0, <1>2 DEF Reload
<1>4. raw'["scan"] = raw["scan"]
  BY DEF Reload, files
<1> QED BY <1>2, <1>3, <1>4 DEF ScanInv

(* Until something crosses, a scan is over before the next one is started, *)
(* and its file is the only one of that name.                              *)
LEMMA ScanInvStep ==
  ASSUME TypeOK, ScanInv, [Next]_vars
  PROVE  ScanInv'
<1> SUFFICES ASSUME crossings' = 0
             PROVE  ScanInv'
  BY DEF ScanInv
<1>1. crossings = 0
  BY CrossingsGrow
<1>2. CASE ClickScan \/ ScanStep
  BY <1>1, <1>2, ScanStepKeeps
<1>3. CASE Reload
  BY <1>1, <1>3, ReloadScans
<1>4. CASE ~(ClickScan \/ ScanStep \/ Reload)
  <2>1. "scan" \in DOMAIN raw /\ "upload" # "scan"
    BY DEF TypeOK, ServiceTypeOK
  <2>2. UNCHANGED <<scans, scanBusy>> /\ raw'["scan"] = raw["scan"]
    <3>1. CASE Operator
      BY <1>4, <2>1, <3>1
         DEF Operator, PollStatus, ClickScanRefused, ChooseFile, ClickProcess, ClickExport,
             FramesListed, FramesLoaded, ClickClear, Clear, ProcessLast, UploadBegins, Export,
             service, files
    <3>2. CASE CopyEnds \/ ResponseEnds \/ ResponseDropped
      BY <3>2 DEF CopyEnds, UploadEnds, ResponseEnds, ProcessOver, ExportOver, ResponseDropped,
                  StreamEnds, StreamDropped, files, page
    <3>3. CASE Work
      BY <3>3, WorkerStep DEF Work, page, TypeOK
    <3>4. CASE UNCHANGED vars
      BY <3>4 DEF vars, service, files, page
    <3> QED BY <1>4, <3>1, <3>2, <3>3, <3>4 DEF Next
  <2> QED BY <1>1, <2>2 DEF ScanInv
<1> QED BY <1>2, <1>3, <1>4

(* A scan that fails leaves nothing to process, never the roll before.     *)
THEOREM ScanNotStale == Spec => []NoStaleScan
<1>1. Init => ScanInv
  BY DEF Init, ServiceInit, ScanInv
<1>2. TypeOK /\ ScanInv /\ [Next]_vars => ScanInv'
  BY ScanInvStep
<1>3. ScanInv => NoStaleScan
  BY DEF ScanInv, NoStaleScan
<1> QED BY <1>1, <1>2, <1>3, TypeCorrect, PTL DEF Spec

-----------------------------------------------------------------------------
(* One request at a time.                                                  *)

(* Steps that leave the requests and the jobs alone, and the upload that   *)
(* is being copied chosen.                                                 *)
LEMMA JobUntouched ==
  ASSUME JobInv, crossings = 0,
         UNCHANGED <<processing, requests, copying, queue, result, stream>>,
         card' = card \/ card' = FALSE, upload' = upload \/ upload' # NoFile
  PROVE  JobInv'
<1>1. Active' = Active
  BY DEF Active
<1>2. card' => card
  BY Zenon
<1>3. (processing' <=> Active' \ copying' # {}) <=> (processing <=> Active \ copying # {})
  BY <1>1
<1> QED BY <1>1, <1>2, <1>3 DEF JobInv

(* While no response is streamed there is no job, no copy and no flag.     *)
LEMMA Idle ==
  ASSUME TypeOK, JobInv, crossings = 0, Active = {}
  PROVE  /\ copying = {} /\ ~processing /\ queue = <<>>
         /\ \A id \in Ids : stream[id] = "none" /\ result[id] = "none"
<1>1. queue \in Seq(Job) /\ Len(queue) \in Nat
  BY LenProperties DEF TypeOK, ServiceTypeOK
<1>2. copying = {} /\ ~processing
  BY DEF JobInv
<1>3. \A k \in 1 .. Len(queue) : FALSE
  BY DEF JobInv
<1>4. queue = <<>>
  BY <1>1, <1>3, EmptySeq
<1>5. \A id \in Ids : stream[id] = "none" /\ result[id] = "none"
  BY DEF JobInv, Active
<1> QED BY <1>2, <1>4, <1>5

(* Nor is there ever more than one job.                                    *)
LEMMA OneJob ==
  ASSUME TypeOK, JobInv, crossings = 0, queue # <<>>
  PROVE  Len(queue) = 1
<1>1. Len(queue) \in Nat /\ Len(queue) <= 1 /\ Len(queue) # 0
  BY LenProperties, EmptySeq DEF TypeOK, ServiceTypeOK, JobInv
<1>2. \A n \in Nat : n <= 1 /\ n # 0 => n = 1
  OBVIOUS
<1> QED BY <1>1, <1>2, Zenon

(* The flag refuses a request while a job is in progress; the page refuses *)
(* one of its own kinds while an upload is being copied.                   *)
LEMMA NoneActive ==
  ASSUME JobInv, crossings = 0, ~processing, upload = NoFile \/ card \/ copying = {}
  PROVE  Active = {}
<1>1. copying = {}
  BY DEF JobInv, Active
<1>2. Active \ copying = {}
  BY DEF JobInv
<1> QED BY <1>1, <1>2

(* The job of the only request is queued.                                  *)
LEMMA JobBegins ==
  ASSUME TypeOK, JobInv, crossings = 0, NEW id \in Ids, Active \subseteq {id},
         queue = <<>>, \A i \in Ids : result[i] = "none",
         NEW job \in Job, job.id = id, NEW kind \in {"process", "export"},
         job.kind = "prescan" <=> kind = "process", kind = "process" => ~card',
         Submit(id, job, kind), copying' = {}, id <= requests', result' = result
  PROVE  JobInv'
<1>1. /\ stream \in [Ids -> {"none", "process", "export", "gone", "goneEarly"}]
      /\ \A i \in Ids : stream[i] \in {"none", "process", "export"}
  BY DEF TypeOK, ServiceTypeOK, JobInv
<1>2. stream' = [stream EXCEPT ![id] = kind]
  BY <1>1 DEF Submit
<1>3. /\ stream'[id] = kind
      /\ \A i \in Ids : i # id => stream'[i] = "none"
  BY <1>1, <1>2 DEF Active
<1>4. Active' = {id}
  BY <1>3 DEF Active
<1>5. queue' = <<job>> /\ Len(queue') = 1 /\ queue'[1] = job
  BY DEF Submit
<1>6. processing'
  BY Zenon DEF Submit
<1>7. card' => \A i \in Ids : stream'[i] # "process"
  BY <1>3
<1>8. /\ \A i \in Ids : stream'[i] \in {"none", "process", "export"}
      /\ \A i, j \in Active' : i = j
      /\ \A i \in Active' : i <= requests'
      /\ copying' \subseteq Active' /\ \A i \in copying' : FALSE
      /\ Active' \ copying' # {}
  BY <1>3, <1>4
<1>9. /\ Len(queue') <= 1
      /\ \A k \in 1 .. Len(queue') :
           /\ queue'[k].id \in Active' \ copying'
           /\ queue'[k].kind = "prescan" <=> stream'[queue'[k].id] = "process"
  BY <1>3, <1>4, <1>5
<1>10. \A i \in Ids : result'[i] = "none"
  OBVIOUS
<1> QED BY <1>6, <1>7, <1>8, <1>9, <1>10 DEF JobInv

(* Once there is neither a job nor a response.                             *)
LEMMA JobsOver ==
  ASSUME queue' = <<>>, copying' = {}, ~processing',
         \A id \in Ids : stream'[id] = "none" /\ result'[id] = "none"
  PROVE  JobInv'
<1>1. Active' = {}
  BY DEF Active
<1>2. Len(queue') = 0
  OBVIOUS
<1> QED BY <1>1, <1>2 DEF JobInv

(* The buttons that ask for a job, and Clear and a reload that cross none. *)
LEMMA JobOperator ==
  ASSUME TypeOK, JobInv, crossings = 0, crossings' = 0,
         ClickProcess \/ ClickExport \/ ClickClear \/ Reload
  PROVE  JobInv'
<1>0. /\ ServiceTypeOK /\ requests \in 0 .. MaxJobs /\ MaxJobs \in Nat
      /\ crossings \in 0 .. MaxCrossings /\ upload \in Files \cup {NoFile}
      /\ crops \in Contents
  BY ServiceAssumption DEF TypeOK, ServiceTypeOK, PageTypeOK, Contents
<1>1. ASSUME requests < MaxJobs
      PROVE  requests + 1 \in Ids /\ requests + 1 <= requests + 1
  BY <1>0, <1>1 DEF Ids
<1>2. ASSUME service' = service, card' = card \/ card' = FALSE, upload' = upload
      PROVE  JobInv'
  BY <1>2, JobUntouched DEF service, state, jobs
<1>3. CASE upload # NoFile /\ UploadBegins(upload) /\ card' = FALSE /\ upload' = upload
           /\ Crosses(copying # {})
  <2> DEFINE id == requests + 1
  <2>1. copying = {}
    BY <1>0, <1>3, CrossesTypes
  <2>2. ~processing
    BY <1>3 DEF UploadBegins, RefusesProcess
  <2>3. Active = {}
    BY <2>1, <2>2, NoneActive
  <2>4. /\ id \in Ids /\ queue = <<>>
        /\ \A i \in Ids : stream[i] = "none" /\ result[i] = "none"
    BY <1>1, <1>3, <2>3, Idle DEF UploadBegins
  <2>5. /\ copying' = {id} /\ queue' = <<>> /\ requests' = id /\ result' = result
        /\ stream' = [stream EXCEPT ![id] = "process"]
    BY <1>3, <2>1, <2>4 DEF UploadBegins
  <2>6. /\ \A i \in Ids : stream'[i] = IF i = id THEN "process" ELSE "none"
    BY <1>0, <2>4, <2>5 DEF ServiceTypeOK
  <2>7. Active' = {id} /\ Len(queue') = 0
    BY <2>4, <2>5, <2>6 DEF Active
  <2>8. ~processing'
    BY <1>3, <2>2, Zenon DEF UploadBegins, state
  <2>9. ~card' /\ upload' # NoFile
    BY <1>3
  <2> HIDE DEF id
  <2>10. id <= id
    BY <1>0 DEF id
  <2> QED BY <2>4, <2>5, <2>6, <2>7, <2>8, <2>9, <2>10 DEF JobInv
<1>4. CASE upload = NoFile /\ ProcessLast /\ card' = FALSE
  <2>1. /\ requests < MaxJobs /\ ~processing /\ scanPath \in {"scan", "upload"}
        /\ requests' = requests + 1 /\ copying' = copying /\ result' = result
        /\ SubmitPrescan(requests + 1, scanPath)
    BY <1>0, <1>4 DEF ProcessLast, RefusesProcess, HasRaw
  <2>2. /\ Active = {} /\ copying = {} /\ queue = <<>>
        /\ \A i \in Ids : result[i] = "none"
    BY <1>4, <2>1, NoneActive, Idle
  <2>3. requests + 1 \in Ids /\ NoFile \in Contents /\ requests + 1 <= requests + 1
    BY <1>1, <2>1 DEF Contents
  <2>4. PICK job \in Job :
          /\ job.id = requests + 1 /\ job.kind = "prescan"
          /\ Submit(requests + 1, job, "process")
    BY <2>1, <2>3, JobSubmitted DEF SubmitPrescan
  <2>5. ~card'
    BY <1>4
  <2> QED BY <2>1, <2>2, <2>3, <2>4, <2>5, JobBegins
<1>5. CASE Export(crops) /\ card
  <2>1. /\ requests < MaxJobs /\ ~processing
        /\ requests' = requests + 1 /\ copying' = copying /\ result' = result
    BY <1>5 DEF Export, RefusesExport
  <2>2. /\ Active = {} /\ copying = {} /\ queue = <<>>
        /\ \A i \in Ids : result[i] = "none"
    <3>1. copying = {}
      BY <1>5 DEF JobInv, Active
    <3> QED BY <2>1, <3>1, NoneActive, Idle
  <2>3. requests + 1 \in Ids /\ requests + 1 <= requests + 1
    BY <1>1, <2>1
  <2>4. PICK job \in Job :
          /\ job.id = requests + 1 /\ job.kind = "export"
          /\ Submit(requests + 1, job, "export")
    BY <1>0, <1>5, <2>3, JobSubmitted DEF Export
  <2> QED BY <2>1, <2>2, <2>3, <2>4, JobBegins
<1>6. CASE ClickProcess
  BY <1>2, <1>3, <1>4, <1>6 DEF ClickProcess
<1>7. CASE ClickExport
  BY <1>2, <1>5, <1>7 DEF ClickExport
<1>8. CASE ClickClear \/ Reload
  <2>1. ~Waiting
    BY <1>0, <1>8, CrossesTypes DEF ClickClear, Reload
  <2>2. Active = {}
    BY <2>1 DEF Waiting, Active
  <2>3. /\ copying = {} /\ ~processing /\ queue = <<>>
        /\ \A id \in Ids : stream[id] = "none" /\ result[id] = "none"
    BY <2>2, Idle
  <2>4. queue' = queue /\ copying' = copying /\ result' = result
    BY <1>8 DEF ClickClear, Clear, Reload, jobs
  <2>5. ~processing'
    BY <1>8, <2>3, Zenon DEF ClickClear, Clear, Reload, state
  <2>6. \A id \in Ids : stream'[id] = "none"
    BY <1>8, <2>3 DEF ClickClear, Clear, Reload, jobs
  <2> QED BY <2>3, <2>4, <2>5, <2>6, JobsOver
<1> QED BY <1>6, <1>7, <1>8

(* Copies that end, responses that end, and the worker.                    *)
LEMMA JobBackground ==
  ASSUME TypeOK, JobInv, crossings = 0,
         CopyEnds \/ ResponseEnds \/ ResponseDropped \/ Work
  PROVE  JobInv'
<1>0. /\ ServiceTypeOK /\ queue \in Seq(Job) /\ Len(queue) \in Nat
      /\ stream \in [Ids -> {"none", "process", "export", "gone", "goneEarly"}]
      /\ result \in [Ids -> {"none", "done", "error"}]
      /\ copying \subseteq 1 .. requests /\ requests \in Nat
  BY LenProperties, ServiceAssumption DEF TypeOK, ServiceTypeOK
<1>1. CASE CopyEnds
  <2>1. PICK id \in copying : UploadEnds(id) /\ UNCHANGED <<page, crossings>>
    BY <1>1 DEF CopyEnds
  <2>2. id \in Ids /\ id <= requests /\ Active = {id} /\ stream[id] = "process"
    BY <1>0 DEF JobInv, Active
  <2>3. Active \ copying = {} /\ copying' = {}
    BY <2>1, <2>2 DEF JobInv, UploadEnds
  <2>4. \A k \in 1 .. Len(queue) : FALSE
    BY <2>3 DEF JobInv
  <2>5. queue = <<>> /\ \A i \in Ids : result[i] = "none"
    BY <1>0, <2>3, <2>4, EmptySeq DEF JobInv
  <2>6. ~card'
    BY <2>1, <2>2, Zenon DEF JobInv, page
  <2>7. PICK job \in Job :
          job.id = id /\ job.kind = "prescan" /\ Submit(id, job, "process")
    BY <2>1, <2>2, JobSubmitted DEF UploadEnds, SubmitPrescan, Contents
  <2>8. requests' = requests /\ result' = result
    BY <2>1 DEF UploadEnds
  <2> QED BY <2>2, <2>3, <2>5, <2>6, <2>7, <2>8, JobBegins
<1>2. CASE ResponseEnds
  <2>1. PICK id \in Ids : StreamEnds(id)
    BY <1>2 DEF ResponseEnds, ProcessOver, ExportOver
  <2>2. id \in Active \ copying /\ queue = <<>> /\ Active = {id}
    BY <2>1 DEF StreamEnds, JobInv
  <2>3. /\ queue' = <<>> /\ copying' = {} /\ ~processing'
        /\ stream' = [stream EXCEPT ![id] = "none"] /\ result' = [result EXCEPT ![id] = "none"]
    BY <2>1, <2>2 DEF StreamEnds, JobInv
  <2>4. \A i \in Ids : stream'[i] = "none"
    BY <1>0, <2>2, <2>3 DEF Active
  <2>5. \A i \in Ids : result'[i] = "none"
    BY <1>0, <2>2, <2>3 DEF JobInv
  <2> QED BY <2>3, <2>4, <2>5, JobsOver
<1>3. CASE ResponseDropped
  BY <1>3 DEF ResponseDropped, StreamDropped, JobInv
<1>4. CASE Work
  <2>1. /\ queue # <<>> /\ UNCHANGED <<processing, requests, copying, stream, card, upload>>
    BY <1>0, <1>4, WorkerStep DEF Work, page
  <2>2. /\ Len(queue) = 1 /\ queue[1].id \in Active \ copying
        /\ \A id \in Ids : result[id] = "none"
        /\ queue[1].kind = "prescan" <=> stream[queue[1].id] = "process"
    BY <2>1, OneJob DEF JobInv
  <2>3. Active' = Active /\ (processing' <=> Active' \ copying' # {})
    <3>1. Active' = Active
      BY <2>1 DEF Active
    <3> QED BY <2>1, <3>1 DEF JobInv
  <2>4. card' => \A id \in Ids : stream'[id] # "process"
    BY <2>1, Zenon DEF JobInv
  <2>5. ASSUME NEW s, NEW f, HeadOn(s, f), result' = result
        PROVE  JobInv'
    <3>1. /\ Len(queue') = 1 /\ queue'[1].id = queue[1].id /\ queue'[1].kind = queue[1].kind
      BY <2>2, <2>5 DEF HeadOn
    <3>2. /\ Len(queue') <= 1
          /\ \A k \in 1 .. Len(queue') :
               /\ queue'[k].id \in Active' \ copying'
               /\ queue'[k].kind = "prescan" <=> stream'[queue'[k].id] = "process"
      BY <2>1, <2>2, <2>3, <3>1
    <3> QED BY <2>1, <2>2, <2>3, <2>4, <2>5, <3>2 DEF JobInv
  <2>6. ASSUME NEW o, HeadOver(o)
        PROVE  JobInv'
    <3>1. Len(queue') = 0 /\ queue' = <<>>
      BY <1>0, <2>2, <2>6, EmptySeq DEF HeadOver
    <3>2. \A id \in Ids : result'[id] # "none" => id \in Active' \ copying' /\ queue' = <<>>
      BY <1>0, <2>1, <2>2, <2>3, <2>6, <3>1 DEF HeadOver
    <3> QED BY <2>1, <2>3, <2>4, <3>1, <3>2 DEF JobInv
  <2> QED BY <1>0, <1>4, <2>5, <2>6, WorkerStep DEF Work
<1> QED BY <1>1, <1>2, <1>3, <1>4

(* From the click to the end of its response there is one request, its     *)
(* copy or its job, and the flag is up from the one to the end of the      *)
(* other.                                                                  *)
LEMMA JobStep ==
  ASSUME TypeOK, JobInv, [Next]_vars
  PROVE  JobInv'
<1> SUFFICES ASSUME crossings' = 0
             PROVE  JobInv'
  BY DEF JobInv
<1>1. crossings = 0
  BY CrossingsGrow
<1>2. CASE ClickProcess \/ ClickExport \/ ClickClear \/ Reload
  BY <1>1, <1>2, JobOperator
<1>3. CASE CopyEnds \/ ResponseEnds \/ ResponseDropped \/ Work
  BY <1>1, <1>3, JobBackground
<1>4. CASE \/ PollStatus \/ ClickScan \/ ClickScanRefused \/ ChooseFile
           \/ FramesListed \/ FramesLoaded \/ ScanStep \/ UNCHANGED vars
  <2>1. \A f \in Files : f # NoFile
    BY ServiceAssumption DEF NoFile
  <2>2. /\ UNCHANGED <<processing, requests, copying, queue, result, stream, card>>
        /\ upload' = upload \/ upload' # NoFile
    BY <1>4, <2>1
       DEF PollStatus, ClickScan, ScanBegins, ClickScanRefused, ChooseFile, FramesListed,
           FramesLoaded, ScanStep, ScanOver, ScannerOpens, ScannerExits, ScanReported, vars,
           service, state, jobs, page
  <2> QED BY <1>1, <2>2, JobUntouched
<1> QED BY <1>2, <1>3, <1>4 DEF Next, Operator

LEMMA JobInvariant == Spec => []JobInv
<1>1. Init => JobInv
  <2> SUFFICES ASSUME Init PROVE JobInv
    OBVIOUS
  <2>1. /\ Active = {} /\ copying = {} /\ Len(queue) = 0 /\ ~card
        /\ \A id \in Ids : stream[id] = "none" /\ result[id] = "none"
    BY DEF Init, ServiceInit, Active
  <2>2. ~processing
    BY Zenon DEF Init, ServiceInit
  <2> QED BY <2>1, <2>2 DEF JobInv
<1>2. TypeOK /\ JobInv /\ [Next]_vars => JobInv'
  BY JobStep
<1> QED BY <1>1, <1>2, TypeCorrect, PTL DEF Spec

(* The flag is up exactly while a response is streamed, and then there is  *)
(* one, for as long as nothing crosses a request.                          *)
THEOREM FlagIsExact == Spec => []FlagExact
<1>1. JobInv => FlagExact
  <2> SUFFICES ASSUME JobInv, crossings = 0 PROVE FlagExact
    BY DEF FlagExact
  <2>1. InProgress = Active \ copying
    BY DEF InProgress, Active
  <2> QED BY <2>1 DEF JobInv, FlagExact
<1> QED BY <1>1, JobInvariant, PTL

-----------------------------------------------------------------------------
(* Crops and ribbons.                                                      *)

(* What is accepted, and what crosses nothing, finds the queue empty.      *)
LEMMA QueueEmpty ==
  ASSUME TypeOK, JobInv, crossings = 0,
         \/ upload = NoFile /\ ProcessLast
         \/ card /\ Export(crops)
         \/ \E id \in copying : UploadEnds(id)
         \/ ~Waiting
  PROVE  queue = <<>>
<1>1. CASE upload = NoFile /\ ProcessLast
  BY <1>1, NoneActive, Idle DEF ProcessLast, RefusesProcess
<1>2. CASE card /\ Export(crops)
  BY <1>2, NoneActive, Idle DEF Export, RefusesExport
<1>3. CASE \E id \in copying : UploadEnds(id)
  <2>1. Active \ copying = {}
    BY <1>3 DEF JobInv
  <2>2. \A k \in 1 .. Len(queue) : FALSE
    BY <2>1 DEF JobInv
  <2> QED BY <2>2, LenProperties, EmptySeq DEF TypeOK, ServiceTypeOK
<1>4. CASE ~Waiting
  BY <1>4, Idle DEF Waiting, Active
<1> QED BY <1>1, <1>2, <1>3, <1>4

(* Steps that leave the rolls alone, and the card as it is or put away.    *)
LEMMA RibbonUnmoved ==
  ASSUME RibbonInv, crossings = 0, UNCHANGED <<prescan, ribbon, preview, queue>>,
         UNCHANGED <<card, crops>> \/ card' = FALSE
  PROVE  RibbonInv'
<1>1. card' /\ prescan' # NoFile => crops' = prescan'
  BY DEF RibbonInv
<1> QED BY <1>1 DEF RibbonInv

(* A job that is queued: a prescan forgets the roll before it, an export   *)
(* is of the one on the card.                                              *)
LEMMA RollQueued ==
  ASSUME queue = <<>>, NEW job \in Job, job.st = "queued", queue' = Append(queue, job),
         \/ job.kind = "prescan" /\ prescan' = NoFile
         \/ /\ job.kind = "export" /\ prescan' # NoFile /\ job.crops = prescan'
            /\ ribbon' = prescan' /\ preview' = prescan' /\ crops' = prescan'
  PROVE  RibbonInv'
<1>1. Len(queue') = 1 /\ queue'[1] = job
  OBVIOUS
<1> QED BY <1>1 DEF RibbonInv

(* The worker, on the only job.                                            *)
LEMMA RibbonWork ==
  ASSUME TypeOK, JobInv, RibbonInv, crossings = 0, Work
  PROVE  RibbonInv'
<1>0. ServiceTypeOK /\ Works /\ UNCHANGED <<card, crops>>
  BY DEF TypeOK, Work, page
<1>1. queue \in Seq(Job) /\ Len(queue) \in Nat /\ queue # <<>>
  BY <1>0, WorkerStep, LenProperties DEF ServiceTypeOK
<1>2. Len(queue) = 1
  BY <1>1, OneJob
<1>3. /\ prescan # NoFile => ribbon = prescan /\ preview = prescan
      /\ card /\ prescan # NoFile => crops = prescan
      /\ \/ /\ queue[1].kind = "prescan" /\ prescan = NoFile
            /\ queue[1].st = "saved" => ribbon = queue[1].src
         \/ /\ queue[1].kind = "export" /\ prescan # NoFile /\ queue[1].crops = prescan
            /\ queue[1].st # "saved"
            /\ queue[1].st = "loaded" => queue[1].src = prescan
  BY <1>2 DEF RibbonInv
<1>4. queue[1].kind = "prescan" => ~card
  BY <1>2 DEF JobInv, Active
<1>5. ASSUME NEW o, HeadOver(o),
             \/ UNCHANGED <<prescan, ribbon, preview>>
             \/ /\ queue[1].st = "saved" /\ ribbon' = ribbon
                /\ preview' = queue[1].src /\ prescan' = queue[1].src
      PROVE  RibbonInv'
  <2>1. Len(queue') = 0
    BY <1>1, <1>2, <1>5 DEF HeadOver
  <2>2. /\ prescan' # NoFile => ribbon' = prescan' /\ preview' = prescan'
        /\ card' /\ prescan' # NoFile => crops' = prescan'
    BY <1>0, <1>3, <1>4, <1>5
  <2> QED BY <2>1, <2>2 DEF RibbonInv
<1>6. ASSUME NEW s, NEW f, HeadOn(s, f), UNCHANGED <<prescan, preview>>,
             \/ /\ queue[1].kind = "prescan" /\ s = "loaded" /\ ribbon' = ribbon
             \/ /\ queue[1].kind = "prescan" /\ s = "saved" /\ ribbon' = f
             \/ /\ queue[1].kind = "export" /\ s = "loaded" /\ f = ribbon
                /\ ribbon' = ribbon
      PROVE  RibbonInv'
  <2>1. /\ Len(queue') = 1 /\ queue'[1].st = s /\ queue'[1].src = f
        /\ queue'[1].kind = queue[1].kind /\ queue'[1].crops = queue[1].crops
    BY <1>2, <1>6 DEF HeadOn
  <2> QED BY <1>0, <1>3, <1>6, <2>1 DEF RibbonInv
<1> QED BY <1>0, <1>5, <1>6, WorkerStep

(* Until something crosses, the metadata, the ribbon and the preview are   *)
(* of one roll, and so are the crops of every export.                      *)
LEMMA RibbonInvStep ==
  ASSUME TypeOK, JobInv, RibbonInv, [Next]_vars
  PROVE  RibbonInv'
<1> SUFFICES ASSUME crossings' = 0
             PROVE  RibbonInv'
  BY DEF RibbonInv
<1>0. /\ crossings = 0 /\ crossings \in 0 .. MaxCrossings /\ MaxJobs \in Nat
      /\ requests \in Nat /\ (requests < MaxJobs => requests + 1 \in Ids)
      /\ copying \subseteq Ids /\ NoFile \in Contents /\ crops \in Contents
  BY CrossingsGrow, ServiceAssumption DEF TypeOK, ServiceTypeOK, PageTypeOK, Ids, Contents
<1>1. ASSUME NEW id \in Ids, NEW path \in {"scan", "upload"}, queue = <<>>,
             SubmitPrescan(id, path)
      PROVE  RibbonInv'
  <2>1. PICK job \in Job :
          /\ job.kind = "prescan" /\ job.st = "queued" /\ queue' = Append(queue, job)
          /\ prescan' = NoFile
    BY <1>0, <1>1, JobSubmitted DEF SubmitPrescan, Submit
  <2> QED BY <1>1, <2>1, RollQueued
<1>2. CASE ClickProcess
  <2>1. CASE upload = NoFile /\ ProcessLast
    <3>1. queue = <<>> /\ scanPath \in {"scan", "upload"} /\ requests + 1 \in Ids
      BY <1>0, <2>1, QueueEmpty DEF ProcessLast, RefusesProcess, HasRaw
    <3> QED BY <1>1, <2>1, <3>1 DEF ProcessLast
  <2>2. CASE ~(upload = NoFile /\ ProcessLast)
    BY <1>0, <1>2, <2>2, RibbonUnmoved
       DEF ClickProcess, UploadBegins, service, state, files, jobs
  <2> QED BY <2>1, <2>2
<1>3. CASE ClickExport
  <2>1. CASE Export(crops)
    <3>1. /\ queue = <<>> /\ prescan # NoFile /\ requests + 1 \in Ids /\ card
          /\ UNCHANGED <<prescan, ribbon, preview, crops>>
      BY <1>0, <1>3, <2>1, QueueEmpty DEF ClickExport, Export, RefusesExport, files
    <3>2. PICK job \in Job :
            /\ job.kind = "export" /\ job.st = "queued" /\ job.crops = crops
            /\ queue' = Append(queue, job)
      BY <1>0, <2>1, <3>1, JobSubmitted DEF Export, Submit
    <3>3. ribbon = prescan /\ preview = prescan /\ crops = prescan
      BY <1>0, <3>1 DEF RibbonInv
    <3> QED BY <3>1, <3>2, <3>3, RollQueued
  <2>2. CASE ~Export(crops)
    BY <1>0, <1>3, <2>2, RibbonUnmoved DEF ClickExport, service, state, files, jobs
  <2> QED BY <2>1, <2>2
<1>4. CASE ClickClear
  <2>1. queue = <<>> /\ queue' = queue /\ prescan' = NoFile
    BY <1>0, <1>4, CrossesTypes, QueueEmpty DEF ClickClear, Clear, jobs
  <2> QED BY <2>1 DEF RibbonInv
<1>5. CASE CopyEnds
  <2>1. PICK id \in copying : UploadEnds(id)
    BY <1>5 DEF CopyEnds
  <2> QED BY <1>0, <1>1, <2>1, QueueEmpty DEF UploadEnds
<1>6. CASE ResponseEnds
  <2>1. PICK id \in Ids : ProcessOver(id) \/ ExportOver(id)
    BY <1>6 DEF ResponseEnds
  <2>2. UNCHANGED <<prescan, ribbon, preview, queue>>
    BY <2>1 DEF ProcessOver, ExportOver, StreamEnds, files
  <2>3. UNCHANGED <<card, crops>> \/ crops' = preview
    BY <2>1 DEF ProcessOver, ExportOver
  <2>4. CASE crops' = preview
    BY <1>0, <2>2, <2>4 DEF RibbonInv
  <2> QED BY <1>0, <2>2, <2>3, <2>4, RibbonUnmoved
<1>7. CASE Work
  BY <1>0, <1>7, RibbonWork
<1>8. CASE \/ PollStatus \/ ClickScan \/ ClickScanRefused \/ ChooseFile \/ FramesListed
           \/ FramesLoaded \/ Reload \/ ScanStep \/ ResponseDropped \/ UNCHANGED vars
  <2>1. UNCHANGED <<prescan, ribbon, preview, queue>>
    BY <1>8
       DEF PollStatus, ClickScan, ScanBegins, ClickScanRefused, ChooseFile, FramesListed,
           FramesLoaded, Reload, ScanStep, ScanOver, ScannerOpens, ScannerExits, ScanReported,
           ResponseDropped, StreamDropped, vars, service, state, files, jobs
  <2>2. UNCHANGED <<card, crops>> \/ card' = FALSE
    BY <1>8
       DEF PollStatus, ClickScan, ClickScanRefused, ChooseFile, FramesListed,
           FramesLoaded, Reload, Fresh, ScanStep, ScanOver, ResponseDropped, vars, page
  <2> QED BY <1>0, <2>1, <2>2, RibbonUnmoved
<1> QED BY <1>2, <1>3, <1>4, <1>5, <1>6, <1>7, <1>8 DEF Next, Operator

(* An export cuts the ribbon its crops were placed on, the one the service *)
(* has metadata of, for as long as nothing crosses a request.              *)
THEOREM CropsMatch == Spec => []CropsMatchRibbon
<1>1. Init => RibbonInv
  <2> SUFFICES ASSUME Init PROVE RibbonInv
    OBVIOUS
  <2>1. prescan = NoFile /\ Len(queue) = 0
    BY DEF Init, ServiceInit
  <2> QED BY <2>1 DEF RibbonInv
<1>2. TypeOK /\ JobInv /\ RibbonInv /\ [Next]_vars => RibbonInv'
  BY RibbonInvStep
<1>3. TypeOK /\ RibbonInv => CropsMatchRibbon
  <2> SUFFICES ASSUME TypeOK, RibbonInv, crossings = 0, NEW k \in 1 .. Len(queue),
                      queue[k].kind = "export", queue[k].st # "queued"
               PROVE  queue[k].src = queue[k].crops /\ queue[k].src = prescan
    BY DEF CropsMatchRibbon
  <2>1. queue[k] \in Job
    BY ElementOfSeq DEF TypeOK, ServiceTypeOK
  <2>2. queue[k].st \in {"queued", "loaded", "saved"}
    BY <2>1, JobFields DEF JobStates
  <2> QED BY <2>2 DEF RibbonInv
<1> QED BY <1>1, <1>2, <1>3, TypeCorrect, JobInvariant, PTL DEF Spec

=============================================================================
