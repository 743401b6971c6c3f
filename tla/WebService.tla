----------------------------- MODULE WebService -----------------------------
(***************************************************************************)
(* The server side of the web service: web/app.py and the job bodies of    *)
(* web/decode.py.  Request handlers run one after the other on the event   *)
(* loop but give way to each other at every await; prescan and export run  *)
(* on a thread pool of one worker, in the order of their requests; a scan  *)
(* is a child process; and all of them share the dictionary _state and a   *)
(* handful of files with fixed names.                                      *)
(*                                                                         *)
(* A file is modelled by the roll its contents were made of: a number for  *)
(* each scan, another for each file a user may upload, 0 when it does not  *)
(* exist.  WebPage composes these operations with the page that calls them.*)
(***************************************************************************)
EXTENDS Integers, SequencesExt

CONSTANTS
  Files,      \* the raw files a user may upload
  MaxScans,   \* bound: scans started
  MaxJobs     \* bound: prescans and exports requested

ASSUME ServiceAssumption ==
  /\ MaxScans \in Nat /\ MaxJobs \in Nat
  /\ Files \subseteq Nat \ (0 .. MaxScans)

NoFile == 0
Rolls  == Files \cup 1 .. MaxScans
Ids    == 1 .. MaxJobs

VARIABLES
  scanPath, prescan, frames, processing,   \* _state: which raw file, the roll the
                                           \* ribbon metadata is of, whether
                                           \* there are exported frames
  raw,       \* the files scan.raw (in the output folder) and upload.raw
  ribbon,    \* ribbon.npy
  preview,   \* preview.jpg
  requests,  \* history: jobs requested
  copying,   \* requests whose upload is being copied to upload.raw
  queue,     \* the executor's jobs, the running one included
  result,    \* the event a finished job left for its stream
  stream,    \* of each request, the response that is streamed to the page
  scans      \* of each scan, its child process and its stream

state   == <<scanPath, prescan, frames, processing>>
files   == <<raw, ribbon, preview>>
jobs    == <<requests, copying, queue, result, stream>>
service == <<state, files, jobs, scans>>

Job ==
  [id : Ids, kind : {"prescan", "export"}, path : {"scan", "upload"},
   crops : Rolls \cup {NoFile}, src : Rolls \cup {NoFile},
   st : {"queued", "loaded", "saved"}]

Child ==
  [st : {"opening", "scanning", "ok", "failed", "over"}, stream : {"open", "gone", "ended"}]

ServiceTypeOK ==
  /\ scanPath \in {"none", "scan", "upload"}
  /\ prescan \in Rolls \cup {NoFile} /\ frames \in BOOLEAN
  /\ processing \in BOOLEAN
  /\ raw \in [{"scan", "upload"} -> Rolls \cup {NoFile}]
  /\ ribbon \in Rolls \cup {NoFile} /\ preview \in Rolls \cup {NoFile}
  /\ requests \in 0 .. MaxJobs /\ copying \subseteq 1 .. requests
  /\ queue \in Seq(Job)
  /\ \A k \in 1 .. Len(queue) : queue[k].st = "queued" <=> queue[k].src = NoFile
  /\ result \in [Ids -> {"none", "done", "error"}]
  /\ stream \in [Ids -> {"none", "process", "export", "gone", "goneEarly"}]
  /\ scans \in Seq(Child) /\ Len(scans) <= MaxScans

ServiceInit ==
  /\ scanPath = "none" /\ prescan = NoFile /\ frames = FALSE /\ processing = FALSE
  /\ raw = [p \in {"scan", "upload"} |-> NoFile] /\ ribbon = NoFile /\ preview = NoFile
  /\ requests = 0 /\ copying = {} /\ queue = <<>>
  /\ result = [i \in Ids |-> "none"] /\ stream = [i \in Ids |-> "none"]
  /\ scans = <<>>

-----------------------------------------------------------------------------
(* POST /api/scan.                                                         *)

\* Variant: the previous scan's file is not removed.
ScanBeginsOver ==
  /\ Len(scans) < MaxScans
  /\ scans' = Append(scans, [st |-> "opening", stream |-> "open"])
  /\ scanPath' = "scan" /\ frames' = FALSE
  /\ UNCHANGED <<prescan, processing, files, jobs>>

\* The output folder is usable: the state is reset, the old file removed and
\* pakon_replay started, whatever else is going on.
ScanBegins ==
  /\ Len(scans) < MaxScans
  /\ scans' = Append(scans, [st |-> "opening", stream |-> "open"])
  /\ scanPath' = "scan" /\ frames' = FALSE
  /\ raw' = [raw EXCEPT !["scan"] = NoFile]
  /\ UNCHANGED <<prescan, processing, ribbon, preview, jobs>>

\* pakon_replay claims the scanner, which one process can, and then creates
\* the image file ...
ScannerOpens(i) ==
  /\ scans[i].st = "opening"
  /\ \A k \in 1 .. Len(scans) : scans[k].st # "scanning"
  /\ scans' = [scans EXCEPT ![i].st = "scanning"]
  /\ raw' = [raw EXCEPT !["scan"] = i]
  /\ UNCHANGED <<state, ribbon, preview, jobs>>

\* ... or exits without touching it; a scan exits when it is over.
ScannerExits(i) ==
  /\ \/ scans[i].st = "opening" /\ scans' = [scans EXCEPT ![i].st = "failed"]
     \/ /\ scans[i].st = "scanning"
        /\ \E s \in {"ok", "failed"} : scans' = [scans EXCEPT ![i].st = s]
  /\ UNCHANGED <<state, files, jobs>>

ScanReported(i) ==
  /\ scans[i].st \in {"ok", "failed"} /\ scans[i].stream = "open"
  /\ scans' = [scans EXCEPT ![i] = [st |-> "over", stream |-> "ended"]]
  /\ UNCHANGED <<state, files, jobs>>

-----------------------------------------------------------------------------
(* POST /api/process and POST /api/export_frames.                          *)

\* _run_job: the job is queued and its stream opened.
Submit(id, job, kind) ==
  /\ processing' = TRUE /\ frames' = FALSE
  /\ queue' = Append(queue, job)
  /\ stream' = [stream EXCEPT ![id] = IF @ = "goneEarly" THEN @ ELSE kind]

SubmitPrescan(id, path) ==
  /\ prescan' = NoFile
  /\ Submit(id, [id |-> id, kind |-> "prescan", path |-> path, crops |-> NoFile,
                 src |-> NoFile, st |-> "queued"], "process")

HasRaw == \E p \in {"scan", "upload"} : p = scanPath /\ raw[p] # NoFile

\* Variant: the request does not look whether a job is in progress.
RefusesProcessNever(uploading) == ~uploading /\ ~HasRaw

RefusesProcess(uploading) == processing \/ (~uploading /\ ~HasRaw)

ProcessLast ==
  /\ ~RefusesProcess(FALSE) /\ requests < MaxJobs
  /\ requests' = requests + 1
  /\ SubmitPrescan(requests + 1, scanPath)
  /\ UNCHANGED <<scanPath, files, copying, result, scans>>

\* The upload is copied to upload.raw with an await for every block, and only
\* then does processing become true.
UploadBegins(f) ==
  /\ ~RefusesProcess(TRUE) /\ requests < MaxJobs
  /\ requests' = requests + 1
  /\ copying' = copying \cup {requests + 1}
  /\ stream' = [stream EXCEPT ![requests + 1] = "process"]
  /\ raw' = [raw EXCEPT !["upload"] = f]
  /\ UNCHANGED <<state, ribbon, preview, queue, result, scans>>

UploadEnds(id) ==
  /\ id \in copying
  /\ copying' = copying \ {id}
  /\ scanPath' = "upload"
  /\ SubmitPrescan(id, "upload")
  /\ UNCHANGED <<files, requests, result, scans>>

RefusesExport == prescan = NoFile \/ processing

\* The crops of an export were placed on the preview of roll crops.
Export(crops) ==
  /\ ~RefusesExport /\ requests < MaxJobs
  /\ requests' = requests + 1
  /\ Submit(requests + 1,
            [id |-> requests + 1, kind |-> "export", path |-> "scan", crops |-> crops,
             src |-> NoFile, st |-> "queued"], "export")
  /\ UNCHANGED <<scanPath, prescan, files, copying, result, scans>>

\* The generator of a stream ends with the job's last event, and clears the
\* flag in its finally clause.
StreamEnds(id) ==
  /\ result[id] # "none" /\ stream[id] \in {"process", "export"}
  /\ stream' = [stream EXCEPT ![id] = "none"] /\ result' = [result EXCEPT ![id] = "none"]
  /\ processing' = FALSE
  /\ UNCHANGED <<scanPath, prescan, frames, files, requests, copying, queue, scans>>

\* So does one whose page went away, unless that was before it was started;
\* the job goes on either way.
StreamDropped(id) ==
  /\ stream[id] \in {"gone", "goneEarly"} /\ id \notin copying
  /\ stream' = [stream EXCEPT ![id] = "none"] /\ result' = [result EXCEPT ![id] = "none"]
  /\ processing' = (processing /\ stream[id] = "goneEarly")
  /\ UNCHANGED <<scanPath, prescan, frames, files, requests, copying, queue, scans>>

-----------------------------------------------------------------------------
(* The executor.                                                           *)

\* Variant: two workers.
TurnOfTwo(k) == k \in 1 .. Len(queue) /\ k <= 2

\* One worker: the first job of the queue runs.
Turn(k) == k \in 1 .. Len(queue) /\ k = 1

\* The last event is for the stream, if there still is one.
Ends(k, outcome) ==
  /\ queue' = RemoveAt(queue, k)
  /\ result' = [result EXCEPT ![queue[k].id] =
                 IF stream[queue[k].id] = "none" THEN @ ELSE outcome]

\* Variant: a raw file that is not there is taken for an empty one.
PrescanLoadsAnything(k) ==
  /\ Turn(k) /\ queue[k].kind = "prescan" /\ queue[k].st = "queued"
  /\ queue' = [queue EXCEPT ![k].st = "loaded", ![k].src = raw[queue[k].path]]
  /\ UNCHANGED <<state, files, requests, copying, result, stream, scans>>

\* The raw file is mapped and decoded.
PrescanLoads(k) ==
  /\ Turn(k) /\ queue[k].kind = "prescan" /\ queue[k].st = "queued"
  /\ raw[queue[k].path] # NoFile
  /\ queue' = [queue EXCEPT ![k].st = "loaded", ![k].src = raw[queue[k].path]]
  /\ UNCHANGED <<state, files, requests, copying, result, stream, scans>>

\* The ribbon is cached ...
PrescanSaves(k) ==
  /\ Turn(k) /\ queue[k].kind = "prescan" /\ queue[k].st = "loaded"
  /\ queue' = [queue EXCEPT ![k].st = "saved"]
  /\ ribbon' = queue[k].src
  /\ UNCHANGED <<state, raw, preview, requests, copying, result, stream, scans>>

\* ... then the preview, and on_done stores the metadata.
PrescanDone(k) ==
  /\ Turn(k) /\ queue[k].st = "saved"
  /\ preview' = queue[k].src /\ prescan' = queue[k].src
  /\ Ends(k, "done")
  /\ UNCHANGED <<scanPath, frames, processing, raw, ribbon, requests, copying, stream, scans>>

\* The ribbon file is mapped; its frames are cut from the map one by one.
ExportLoads(k) ==
  /\ Turn(k) /\ queue[k].kind = "export" /\ queue[k].st = "queued"
  /\ ribbon # NoFile
  /\ queue' = [queue EXCEPT ![k].st = "loaded", ![k].src = ribbon]
  /\ UNCHANGED <<state, files, requests, copying, result, stream, scans>>

ExportDone(k) ==
  /\ Turn(k) /\ queue[k].kind = "export" /\ queue[k].st = "loaded"
  /\ frames' = TRUE
  /\ Ends(k, "done")
  /\ UNCHANGED <<scanPath, prescan, processing, files, requests, copying, stream, scans>>

\* Variant: the exception is lost in the worker thread.
JobFailsSilently(k) ==
  /\ Turn(k)
  /\ queue' = RemoveAt(queue, k)
  /\ UNCHANGED <<state, files, requests, copying, result, stream, scans>>

\* Any step may raise: no file, too short a file, a full disk.
JobFails(k) ==
  /\ Turn(k)
  /\ Ends(k, "error")
  /\ UNCHANGED <<state, files, requests, copying, stream, scans>>

Works ==
  \E k \in 1 .. Len(queue) :
    \/ PrescanLoads(k) \/ PrescanSaves(k) \/ PrescanDone(k)
    \/ ExportLoads(k) \/ ExportDone(k) \/ JobFails(k)

-----------------------------------------------------------------------------
(* POST /api/clear removes the files of the work folder, not the scan's,   *)
(* and resets the state; it knows nothing of jobs.                         *)

Clear ==
  /\ raw' = [raw EXCEPT !["upload"] = NoFile]
  /\ ribbon' = NoFile /\ preview' = NoFile
  /\ scanPath' = "none" /\ prescan' = NoFile /\ frames' = FALSE /\ processing' = FALSE
  /\ UNCHANGED <<jobs, scans>>

=============================================================================
