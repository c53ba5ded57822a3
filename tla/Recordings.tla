----------------------------- MODULE Recordings -----------------------------
(***************************************************************************)
(* camera/app/recordings composed with the camera's Recorder: the handlers *)
(* of POST /camera/recording/start and /stop (camera/app/camera/router.py),*)
(* the recordings table, the files, and the reconciliation task            *)
(* (recordings/service.py).                                                *)
(*                                                                         *)
(* Handlers and the task are coroutines of one event loop: between two     *)
(* awaits they are atomic, at every database call the others may run.  The *)
(* camera calls block the loop, so each is one atomic step of Recorder.    *)
(* A session keeps the row it loaded (expire_on_commit is off) and an      *)
(* UPDATE writes the columns that were assigned a new value, nothing else. *)
(***************************************************************************)
EXTENDS Recorder

CONSTANTS
    NoFile,         \* no recording was started yet
    NoSize,         \* file_size_bytes is NULL
    MaxSize,        \* bound: frames per file
    MaxCrashes      \* bound: crashes of the process

ASSUME RecordingsAssumption ==
    /\ MaxSize \in Nat
    /\ MaxCrashes \in Nat
    /\ NoFile \notin Files
    /\ NoSize \notin Nat

VARIABLES
    current,    \* the camera's _record_filename
    gone,       \* files removed from the recordings directory by someone else
    row,        \* status column per filename, "none" when there is no row
    rowSize,    \* file_size_bytes column
    starting,   \* start handlers awaiting their INSERT
    stopping,   \* stop handlers: where they are and what they loaded
    pass,       \* the reconciliation task: "sleeping" or "scanning"
    loaded,     \* the rows list_all() returned, those the pass has not dealt with
    write,      \* the UPDATE the pass is awaiting
    abandoned,  \* history: recordings that ended without a completed stop
    crashes     \* how often the process died

cameraVars  == <<recorderVars, current>>
requestVars == <<starting, stopping>>
tableVars   == <<row, rowSize>>
passVars    == <<pass, loaded, write>>
vars == <<cameraVars, gone, tableVars, requestVars, passVars, abandoned, crashes>>

Statuses == {"none", "RECORDING", "COMPLETED", "MISSING"}
Sizes == Nat \cup {NoSize}
NoWrite == [file |-> NoFile, column |-> "none", size |-> NoSize]
IdleStop == [at |-> "none", size |-> NoSize, loadedSize |-> NoSize]

TypeOK ==
    /\ RecorderTypeOK
    /\ current \in Files \cup {NoFile}
    /\ gone \in SUBSET Files
    /\ row \in [Files -> Statuses]
    /\ rowSize \in [Files -> Sizes]
    /\ starting \in SUBSET Files
    /\ stopping \in [Files -> [at : {"none", "lookup", "commit"},
                               size : Sizes, loadedSize : Sizes]]
    /\ pass \in {"sleeping", "scanning"}
    /\ loaded \in [Files -> [status : Statuses, size : Sizes]]
    /\ write \in [file : Files \cup {NoFile}, column : {"none", "status", "size"},
                  size : Sizes]
    /\ abandoned \in SUBSET Files
    /\ crashes \in 0..MaxCrashes

NothingLoaded == [f \in Files |-> [status |-> "none", size |-> NoSize]]

Init ==
    /\ RecorderInit
    /\ current = NoFile
    /\ gone = {}
    /\ row = [f \in Files |-> "none"]
    /\ rowSize = [f \in Files |-> NoSize]
    /\ starting = {}
    /\ stopping = [f \in Files |-> IdleStop]
    /\ pass = "sleeping"
    /\ loaded = NothingLoaded
    /\ write = NoWrite
    /\ abandoned = {}
    /\ crashes = 0

OnDisk(f) == file[f].state # "absent" /\ f \notin gone

-----------------------------------------------------------------------------
(* POST /camera/recording/start.                                           *)

\* The synchronous half: the camera opens the file.  A session that is not
\* idle answers 409 and changes nothing.
StartCamera(f) ==
    /\ Begin(f)
    /\ current' = f
    /\ starting' = starting \cup {f}
    /\ UNCHANGED <<gone, tableVars, stopping, passVars, abandoned, crashes>>

\* await recording_service.start(filename): the INSERT commits ...
InsertRow(f) ==
    /\ f \in starting
    /\ starting' = starting \ {f}
    /\ row' = [row EXCEPT ![f] = "RECORDING"]
    /\ UNCHANGED <<cameraVars, gone, rowSize, stopping, passVars, abandoned, crashes>>

\* ... or raises, and the camera goes on recording a file without a row.
InsertFails(f) ==
    /\ f \in starting
    /\ starting' = starting \ {f}
    /\ abandoned' = abandoned \cup {f}
    /\ UNCHANGED <<cameraVars, gone, tableVars, stopping, passVars, crashes>>

\* Frames reach the active file.
WriteFrame(f) ==
    /\ file[f].size < MaxSize
    /\ Grow(f)
    /\ UNCHANGED <<current, gone, tableVars, requestVars, passVars, abandoned, crashes>>

-----------------------------------------------------------------------------
(* POST /camera/recording/stop.                                            *)

\* Mutation: the table is told before the camera stops.
StopTableFirst ==
    /\ current # NoFile
    /\ session = "recording"
    /\ stopping' = [stopping EXCEPT ![current].at = "lookup"]
    /\ UNCHANGED <<cameraVars, gone, tableVars, starting, passVars, abandoned, crashes>>

\* camera.stop_recording() returns: the handler goes on to the table.
StopCamera ==
    /\ current # NoFile
    /\ Finish(current) \/ Unstick
    /\ stopping' = [stopping EXCEPT ![current].at = "lookup"]
    /\ UNCHANGED <<current, gone, tableVars, starting, passVars, abandoned, crashes>>

\* camera.stop_recording() raises: 500, and the table is not told.
StopRaises ==
    /\ current # NoFile
    /\ Break(current)
    /\ UNCHANGED <<current, gone, tableVars, requestVars, passVars, abandoned, crashes>>

\* get_by_filename, then the size of the file.  No row yet: 404, although
\* the row may still be on its way (InsertRow).
LookupRow(f) ==
    /\ stopping[f].at = "lookup"
    /\ \/ /\ row[f] = "none"
          /\ stopping' = [stopping EXCEPT ![f] = IdleStop]
          /\ abandoned' = abandoned \cup {f}
       \/ /\ row[f] # "none"
          /\ stopping' = [stopping EXCEPT ![f] =
                [at |-> "commit",
                 size |-> IF OnDisk(f) THEN file[f].size ELSE NoSize,
                 loadedSize |-> rowSize[f]]]
          /\ UNCHANGED abandoned
    /\ UNCHANGED <<cameraVars, gone, tableVars, starting, passVars, crashes>>

\* Mutation: the handler leaves the status to the reconciliation task.
CompleteSizeOnly(f) ==
    /\ stopping[f].at = "commit"
    /\ rowSize' = [rowSize EXCEPT ![f] = stopping[f].size]
    /\ stopping' = [stopping EXCEPT ![f] = IdleStop]
    /\ UNCHANGED <<cameraVars, gone, row, starting, passVars, abandoned, crashes>>

\* mark_completed commits.
CompleteRow(f) ==
    /\ stopping[f].at = "commit"
    /\ row' = [row EXCEPT ![f] = "COMPLETED"]
    /\ rowSize' = [rowSize EXCEPT ![f] =
          IF stopping[f].size = stopping[f].loadedSize THEN @ ELSE stopping[f].size]
    /\ stopping' = [stopping EXCEPT ![f] = IdleStop]
    /\ UNCHANGED <<cameraVars, gone, starting, passVars, abandoned, crashes>>

\* A database call of the stop handler raises: 500.
StopQueryFails(f) ==
    /\ stopping[f].at # "none"
    /\ stopping' = [stopping EXCEPT ![f] = IdleStop]
    /\ abandoned' = abandoned \cup {f}
    /\ UNCHANGED <<cameraVars, gone, tableVars, starting, passVars, crashes>>

-----------------------------------------------------------------------------
(* POST /camera/reset, from the table's point of view: stop() closes the   *)
(* recording, or raises trying, and nobody completes the row.              *)
CameraReset ==
    /\ current # NoFile
    /\ Finish(current) \/ Break(current) \/ Unstick
    /\ abandoned' = IF session' = "idle" THEN abandoned \cup {current} ELSE abandoned
    /\ UNCHANGED <<current, gone, tableVars, requestVars, passVars, crashes>>

\* Files come and go behind the program's back.
RemoveFile(f) ==
    /\ OnDisk(f)
    /\ gone' = gone \cup {f}
    /\ UNCHANGED <<cameraVars, tableVars, requestVars, passVars, abandoned, crashes>>

RestoreFile(f) ==
    /\ f \in gone
    /\ gone' = gone \ {f}
    /\ UNCHANGED <<cameraVars, tableVars, requestVars, passVars, abandoned, crashes>>

-----------------------------------------------------------------------------
(* run_reconciliation_loop: list every row once, then examine each against *)
(* the disk.  The rows are not read again, so a decision may be stale by   *)
(* the time its UPDATE commits.  (Newest first in the code; any order      *)
(* here.)                                                                  *)

ListRows ==
    /\ pass = "sleeping"
    /\ pass' = "scanning"
    /\ loaded' = [f \in Files |-> [status |-> row[f], size |-> rowSize[f]]]
    /\ UNCHANGED <<cameraVars, gone, tableVars, requestVars, write, abandoned, crashes>>

\* Mutation: only rows that are MISSING get their size repaired.
RepairMissingOnly(f) ==
    IF ~OnDisk(f)
    THEN IF loaded[f].status # "MISSING"
         THEN [file |-> f, column |-> "status", size |-> NoSize] ELSE NoWrite
    ELSE IF loaded[f].size # file[f].size /\ loaded[f].status = "MISSING"
         THEN [file |-> f, column |-> "size", size |-> file[f].size] ELSE NoWrite

\* Mutation: a COMPLETED row is trusted to have its file.
TrustCompleted(f) ==
    IF ~OnDisk(f)
    THEN IF loaded[f].status = "RECORDING"
         THEN [file |-> f, column |-> "status", size |-> NoSize] ELSE NoWrite
    ELSE IF loaded[f].size # file[f].size /\ loaded[f].status \in {"COMPLETED", "MISSING"}
         THEN [file |-> f, column |-> "size", size |-> file[f].size] ELSE NoWrite

NeedsWrite(f) ==
    IF ~OnDisk(f)
    THEN IF loaded[f].status # "MISSING"
         THEN [file |-> f, column |-> "status", size |-> NoSize]
         ELSE NoWrite
    ELSE IF loaded[f].size # file[f].size /\ loaded[f].status \in {"COMPLETED", "MISSING"}
         THEN [file |-> f, column |-> "size", size |-> file[f].size]
         ELSE NoWrite

Without(f) == [loaded EXCEPT ![f] = NothingLoaded[f]]

Examine(f) ==
    /\ pass = "scanning"
    /\ write = NoWrite
    /\ loaded[f].status # "none"
    /\ write' = NeedsWrite(f)
    /\ loaded' = IF write' = NoWrite THEN Without(f) ELSE loaded
    /\ UNCHANGED <<cameraVars, gone, tableVars, requestVars, pass, abandoned, crashes>>

\* Mutation: the whole stale row is written back.
CommitWholeRow(f) ==
    /\ write.file = f
    /\ row' = [row EXCEPT ![f] =
          IF write.column = "status" THEN "MISSING" ELSE loaded[f].status]
    /\ rowSize' = [rowSize EXCEPT ![f] =
          IF write.column = "size" THEN write.size ELSE loaded[f].size]
    /\ write' = NoWrite
    /\ loaded' = Without(f)
    /\ UNCHANGED <<cameraVars, gone, requestVars, pass, abandoned, crashes>>

\* mark_status or update_file_size commits.
CommitWrite(f) ==
    /\ write.file = f
    /\ \/ /\ write.column = "status"
          /\ row' = [row EXCEPT ![f] = "MISSING"]
          /\ UNCHANGED rowSize
       \/ /\ write.column = "size"
          /\ rowSize' = [rowSize EXCEPT ![f] = write.size]
          /\ UNCHANGED row
    /\ write' = NoWrite
    /\ loaded' = Without(f)
    /\ UNCHANGED <<cameraVars, gone, requestVars, pass, abandoned, crashes>>

EndPass ==
    /\ pass' = "sleeping"
    /\ loaded' = NothingLoaded
    /\ write' = NoWrite

\* The rows are all examined; sleep for the interval.
FinishPass ==
    /\ pass = "scanning"
    /\ loaded = NothingLoaded
    /\ EndPass
    /\ UNCHANGED <<cameraVars, gone, tableVars, requestVars, abandoned, crashes>>

\* A commit raises: the exception is logged and the pass is over.
PassFails ==
    /\ write # NoWrite
    /\ EndPass
    /\ UNCHANGED <<cameraVars, gone, tableVars, requestVars, abandoned, crashes>>

-----------------------------------------------------------------------------

\* The process dies and is started again.  The table and the files survive;
\* an open file never gets its trailer.  Nothing at startup looks at rows
\* that were RECORDING.
Crash ==
    /\ crashes < MaxCrashes
    /\ crashes' = crashes + 1
    /\ abandoned' = abandoned \cup starting \cup {f \in Files : stopping[f].at # "none"}
                    \cup (IF session = "idle" THEN {} ELSE {current})
    /\ session' = "idle"
    /\ file' = [f \in Files |-> IF file[f].state = "open"
                                THEN [file[f] EXCEPT !.state = "damaged"] ELSE file[f]]
    /\ current' = NoFile
    /\ starting' = {}
    /\ stopping' = [f \in Files |-> IdleStop]
    /\ EndPass
    /\ UNCHANGED <<gone, tableVars>>

RequestStep(f) == InsertRow(f) \/ InsertFails(f) \/ LookupRow(f) \/ CompleteRow(f) \/ StopQueryFails(f)
PassStep == ListRows \/ FinishPass \/ PassFails \/ \E f \in Files : Examine(f) \/ CommitWrite(f)

Next ==
    \/ \E f \in Files : StartCamera(f) \/ WriteFrame(f) \/ RemoveFile(f) \/ RestoreFile(f)
    \/ \E f \in Files : RequestStep(f)
    \/ StopCamera \/ StopRaises \/ CameraReset
    \/ PassStep
    \/ Crash

(***************************************************************************)
(* The task runs for ever, and a row whose UPDATE is tried again and again *)
(* is written some time (the database comes back).  Database calls of      *)
(* handlers return, one way or the other.  Nobody is obliged to stop.      *)
(***************************************************************************)
Fairness ==
    /\ WF_vars(PassStep)
    /\ \A f \in Files : WF_vars(RequestStep(f)) /\ SF_vars(CommitWrite(f))

Spec == Init /\ [][Next]_vars
FairSpec == Spec /\ Fairness

-----------------------------------------------------------------------------
(* Properties.                                                             *)

\* A row says COMPLETED only once nothing writes its file any more, whatever
\* the handlers, resets, crashes and the reconciliation task interleave to.
CompletedIsClosed ==
    \A f \in Files : row[f] = "COMPLETED" => file[f].state \in {"closed", "damaged"}

\* A row is RECORDING after its file was closed only if a stop is on its way
\* to the table, or the recording ended in one of the ways nobody completes:
\* a failed query, a stop that overtook the INSERT, a reset, or a crash.
ZombieRowsExplained ==
    \A f \in Files :
        row[f] = "RECORDING" =>
            \/ file[f].state = "open"
            \/ session = "stuck" /\ current = f
            \/ stopping[f].at # "none"
            \/ f \in abandoned

\* A finished row changes only forward: MISSING becomes COMPLETED by the stop
\* of its own recording, COMPLETED becomes MISSING by a check of the disk, and
\* nothing, in particular no size repair decided on a stale row, takes either
\* back.
NoStatusRegression ==
    [][\A f \in Files :
          row[f] \in {"COMPLETED", "MISSING"} /\ row'[f] # row[f] =>
              \/ row'[f] = "COMPLETED" /\ stopping[f].at = "commit"
              \/ row'[f] = "MISSING" /\ write.file = f /\ write.column = "status"]_vars

\* The size of a completed row is put right by the reconciliation task.
SizeRepaired ==
    \A f \in Files :
        row[f] = "COMPLETED" /\ OnDisk(f)
            ~> row[f] # "COMPLETED" \/ ~OnDisk(f) \/ rowSize[f] = file[f].size

\* A row whose file is gone is marked MISSING, even when a stop handler wrote
\* COMPLETED over it with what it had loaded before.
LossNoticed ==
    \A f \in Files :
        row[f] # "none" /\ ~OnDisk(f) ~> row[f] = "MISSING" \/ OnDisk(f)
=============================================================================
