\* One page: two scans, one file to upload, three prescans or exports, and one
\* reload, Clear or second upload that crosses a request in progress.
SPECIFICATION Spec
CONSTANTS
  Files <- MCFiles
  MaxScans = 2
  MaxJobs = 3
  MaxCrossings = 1
INVARIANT
  ProcessesWhatItNames
CHECK_DEADLOCK FALSE
