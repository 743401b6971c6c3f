------------------------------ MODULE WebPage ------------------------------
(***************************************************************************)
(* The page (web/static/index.html) and the service it calls, composed:    *)
(* what one operator can do with the page's buttons, reloads included,     *)
(* while scans, copies of uploads and jobs are in progress.                *)
(***************************************************************************)
EXTENDS WebService

CONSTANT MaxCrossings   \* bound: times requests cross as below

ASSUME CrossingAssumption == MaxCrossings \in Nat

VARIABLES
  scanBusy,     \* the Scan button is disabled
  procReady,    \* the Process button is enabled
  exportBusy,   \* the Export button is disabled
  card,         \* the card with the crop boxes is shown
  crops,        \* the roll whose preview the boxes were placed on
  framesShown,  \* the exported frames, and the Clear button, are shown
  loading,      \* GET /api/frames: "no", "asked", or "some" were listed
  upload,       \* uploadFile
  hasScan,      \* hasScanFile
  named,        \* raw-name: the file the page says it will process
  crossings     \* history: times that a reload, a Clear or a second upload
                \* crossed a request in progress

page == <<scanBusy, procReady, exportBusy, card, crops, framesShown, loading,
          upload, hasScan, named>>
vars == <<service, page, crossings>>

Fresh ==
  /\ scanBusy' = FALSE /\ procReady' = FALSE /\ exportBusy' = FALSE /\ card' = FALSE
  /\ crops' = NoFile /\ framesShown' = FALSE /\ loading' = "no"
  /\ upload' = NoFile /\ hasScan' = FALSE /\ named' = "none"

Init ==
  /\ ServiceInit
  /\ scanBusy = FALSE /\ procReady = FALSE /\ exportBusy = FALSE /\ card = FALSE
  /\ crops = NoFile /\ framesShown = FALSE /\ loading = "no"
  /\ upload = NoFile /\ hasScan = FALSE /\ named = "none"
  /\ crossings = 0

\* The page waits for a response.
Waiting ==
  \/ \E id \in Ids : stream[id] # "none"
  \/ \E i \in 1 .. Len(scans) : scans[i].stream = "open"

Crosses(cond) ==
  IF cond THEN crossings < MaxCrossings /\ crossings' = crossings + 1
          ELSE UNCHANGED crossings

-----------------------------------------------------------------------------
PollStatus ==
  /\ scanPath # "none" /\ ~hasScan /\ upload = NoFile
  /\ hasScan' = TRUE /\ procReady' = TRUE /\ named' = scanPath
  /\ UNCHANGED <<service, scanBusy, exportBusy, card, crops, framesShown, loading, upload, crossings>>

ClickScan ==
  /\ ~scanBusy
  /\ ScanBegins
  /\ scanBusy' = TRUE /\ hasScan' = FALSE
  /\ UNCHANGED <<procReady, exportBusy, card, crops, framesShown, loading, upload, named, crossings>>

\* No program, no script, or an output folder that cannot be written.
ClickScanRefused ==
  /\ ~scanBusy
  /\ hasScan' = FALSE
  /\ UNCHANGED <<service, scanBusy, procReady, exportBusy, card, crops, framesShown,
                 loading, upload, named, crossings>>

ScanOver(i) ==
  /\ ScanReported(i)
  /\ scanBusy' = FALSE
  /\ IF scans[i].st = "ok"
     THEN hasScan' = TRUE /\ named' = "scan" /\ procReady' = TRUE
     ELSE UNCHANGED <<hasScan, named, procReady>>
  /\ UNCHANGED <<exportBusy, card, crops, framesShown, loading, upload, crossings>>

ChooseFile ==
  /\ upload' \in Files /\ named' = "upload" /\ procReady' = TRUE
  /\ UNCHANGED <<service, scanBusy, exportBusy, card, crops, framesShown, loading,
                 hasScan, crossings>>

\* The chosen file is sent again with every click, whatever was scanned since.
ClickProcess ==
  /\ procReady
  /\ card' = FALSE /\ framesShown' = FALSE
  /\ \/ RefusesProcess(upload # NoFile) /\ UNCHANGED <<service, procReady, crossings>>
     \/ upload # NoFile /\ UploadBegins(upload) /\ procReady' = FALSE
          /\ Crosses(copying # {})
     \/ upload = NoFile /\ ProcessLast /\ procReady' = FALSE /\ UNCHANGED crossings
  /\ UNCHANGED <<scanBusy, exportBusy, crops, loading, upload, hasScan, named>>

\* Variant: the boxes of the previous roll are kept.
ProcessOverKeepsCrops(id) ==
  /\ stream[id] = "process" /\ StreamEnds(id)
  /\ procReady' = TRUE
  /\ IF result[id] = "done" THEN card' = TRUE /\ crops' = (IF crops = NoFile THEN preview ELSE crops)
                            ELSE UNCHANGED <<card, crops>>
  /\ UNCHANGED <<scanBusy, exportBusy, framesShown, loading, upload, hasScan, named, crossings>>

\* startConfirm: one box to begin with, on the preview as it is now.
ProcessOver(id) ==
  /\ stream[id] = "process" /\ StreamEnds(id)
  /\ procReady' = TRUE
  /\ IF result[id] = "done" THEN card' = TRUE /\ crops' = preview
                            ELSE UNCHANGED <<card, crops>>
  /\ UNCHANGED <<scanBusy, exportBusy, framesShown, loading, upload, hasScan, named, crossings>>

ClickExport ==
  /\ card /\ ~exportBusy
  /\ framesShown' = FALSE
  /\ \/ RefusesExport /\ UNCHANGED <<service, exportBusy>>
     \/ Export(crops) /\ exportBusy' = TRUE
  /\ UNCHANGED <<scanBusy, procReady, card, crops, loading, upload, hasScan, named, crossings>>

ExportOver(id) ==
  /\ stream[id] = "export" /\ StreamEnds(id)
  /\ exportBusy' = FALSE
  /\ loading' = IF result[id] = "done" THEN "asked" ELSE loading
  /\ UNCHANGED <<scanBusy, procReady, card, crops, framesShown, upload, hasScan, named, crossings>>

\* GET /api/frames is answered, and its answer shown when it arrives.
FramesListed ==
  /\ loading = "asked"
  /\ loading' = IF frames THEN "some" ELSE "no"
  /\ UNCHANGED <<service, scanBusy, procReady, exportBusy, card, crops, framesShown,
                 upload, hasScan, named, crossings>>

FramesLoaded ==
  /\ loading = "some" /\ loading' = "no" /\ framesShown' = TRUE
  /\ UNCHANGED <<service, scanBusy, procReady, exportBusy, card, crops, upload, hasScan,
                 named, crossings>>

ClickClear ==
  /\ framesShown
  /\ Clear
  /\ crops' = NoFile /\ card' = FALSE /\ framesShown' = FALSE /\ procReady' = FALSE
  /\ hasScan' = FALSE /\ upload' = NoFile /\ named' = "none"
  /\ Crosses(Waiting)
  /\ UNCHANGED <<scanBusy, exportBusy, loading>>

\* The streams of a page that was left are dropped when the server notices.
Reload ==
  /\ Fresh
  /\ stream' = [id \in Ids |->
       CASE id \in copying -> "goneEarly"
         [] id \notin copying /\ stream[id] \in {"process", "export"} -> "gone"
         [] OTHER -> stream[id]]
  /\ scans' = [i \in 1 .. Len(scans) |->
       IF scans[i].stream = "open" THEN [scans[i] EXCEPT !.stream = "gone"] ELSE scans[i]]
  /\ Crosses(Waiting)
  /\ UNCHANGED <<state, files, requests, copying, queue, result>>

-----------------------------------------------------------------------------
ScanStep ==
  \E i \in 1 .. Len(scans) :
    \/ (ScannerOpens(i) \/ ScannerExits(i)) /\ UNCHANGED <<page, crossings>>
    \/ ScanOver(i)

\* A copy that ends without its page submits its job all the same.
CopyEnds == \E id \in copying : UploadEnds(id) /\ UNCHANGED <<page, crossings>>

ResponseEnds == \E id \in Ids : ProcessOver(id) \/ ExportOver(id)

ResponseDropped == \E id \in Ids : StreamDropped(id) /\ UNCHANGED <<page, crossings>>

Work == Works /\ UNCHANGED <<page, crossings>>

Operator ==
  \/ PollStatus \/ ClickScan \/ ClickScanRefused \/ ChooseFile
  \/ ClickProcess \/ ClickExport \/ FramesListed \/ FramesLoaded \/ ClickClear \/ Reload

Next == Operator \/ ScanStep \/ CopyEnds \/ ResponseEnds \/ ResponseDropped \/ Work

\* The event loop and the worker thread run; the operator, the scanner and the
\* network need not do anything.
Spec ==
  Init /\ [][Next]_vars /\ WF_vars(Work) /\ WF_vars(CopyEnds) /\ WF_vars(ResponseEnds)

-----------------------------------------------------------------------------
(* Properties.                                                             *)

PageTypeOK ==
  /\ {scanBusy, procReady, exportBusy, card, framesShown, hasScan} \subseteq BOOLEAN
  /\ crossings \in 0 .. MaxCrossings
  /\ crops \in Rolls \cup {NoFile} /\ loading \in {"no", "asked", "some"}
  /\ upload \in Files \cup {NoFile} /\ named \in {"none", "scan", "upload"}

TypeOK == ServiceTypeOK /\ PageTypeOK

InProgress == {id \in Ids : stream[id] # "none" /\ id \notin copying}

\* The processing flag is what admits one job at a time: it is up exactly
\* while a response is being streamed, and then there is one, for as long as
\* no reload, Clear or second upload crosses a request in progress.
FlagExact ==
  crossings = 0 =>
    /\ processing <=> InProgress # {}
    /\ \A i, j \in InProgress : i = j
    /\ \A k \in 1 .. Len(queue) : queue[k].id \in InProgress

\* The crops an export cuts were placed on a preview of the very ribbon it
\* cuts them from, which also is the one the service has metadata of.
CropsMatchRibbon ==
  crossings = 0 => \A k \in 1 .. Len(queue) :
    queue[k].kind = "export" /\ queue[k].st # "queued" =>
      queue[k].src = queue[k].crops /\ queue[k].src = prescan

\* What is in scan.raw is the latest scan's: after a scan that failed before
\* its first chunk there is nothing to process, never the roll before.
NoStaleScan == crossings = 0 => raw["scan"] \in {NoFile, Len(scans)}

\* The ribbon under an export's memory map is not rewritten, crossed or not.
\* It may be unlinked by Clear, which the map survives.
RibbonUntouched ==
  \A k \in 1 .. Len(queue) :
    queue[k].kind = "export" /\ queue[k].st = "loaded" => ribbon \in {queue[k].src, NoFile}

\* The inductive forms of these, for the proofs.  Until something crosses a
\* request there is one at a time, from the click to the end of its response:
Active == {id \in Ids : stream[id] # "none"}

JobInv ==
  crossings = 0 =>
    /\ \A id \in Ids : stream[id] \in {"none", "process", "export"}
    /\ \A i, j \in Active : i = j
    /\ \A id \in Active : id <= requests
    /\ copying \subseteq Active
    /\ \A id \in copying : stream[id] = "process" /\ upload # NoFile
    /\ processing <=> Active \ copying # {}
    /\ Len(queue) <= 1
    /\ \A k \in 1 .. Len(queue) :
         /\ queue[k].id \in Active \ copying
         /\ queue[k].kind = "prescan" <=> stream[queue[k].id] = "process"
    /\ \A id \in Ids : result[id] # "none" => id \in Active \ copying /\ queue = <<>>
    /\ card => \A id \in Ids : stream[id] # "process"

\* the metadata, when there is any, is of the ribbon and of the preview, and
\* the crop boxes on the card were placed on that preview;
RibbonInv ==
  crossings = 0 =>
    /\ prescan # NoFile => ribbon = prescan /\ preview = prescan
    /\ card /\ prescan # NoFile => crops = prescan
    /\ \A k \in 1 .. Len(queue) :
         LET job == queue[k]
         IN  \/ /\ job.kind = "prescan" /\ prescan = NoFile
                /\ job.st = "saved" => ribbon = job.src
             \/ /\ job.kind = "export" /\ prescan # NoFile /\ job.crops = prescan
                /\ job.st # "saved"
                /\ job.st = "loaded" => job.src = prescan

\* and a scan that is not over is the latest, with its page waiting for it.
ScanInv ==
  crossings = 0 =>
    /\ raw["scan"] \in {NoFile, Len(scans)}
    /\ \A i \in 1 .. Len(scans) :
         scans[i].st # "over" => i = Len(scans) /\ scans[i].stream = "open" /\ scanBusy

\* Crossed or not, only the first job of the queue has begun.
QueueInv ==
  \A k \in 1 .. Len(queue) : queue[k].st # "queued" => k = 1

\* Every prescan and export whose page stays is answered, failed ones included.
Answered == []<>(\A id \in Ids : stream[id] \notin {"process", "export"})

\* "Already processing" (web/app.py:280): a second job is refused while one is
\* in progress.  Two uploads can both find the flag down, because it is put up
\* when the copy of the upload is over.
OneJobAtATime == \A i, j \in InProgress : stream[i] = "process" /\ stream[j] = "process" => i = j

\* The name shown by the Process button (raw-name, index.html:598) is that of
\* the file it processes.  A file chosen once is sent for ever after, also
\* when a scan that ended since put its own name there.
ProcessesWhatItNames == procReady /\ upload # NoFile => named = "upload"

=============================================================================
