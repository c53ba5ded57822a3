------------------------- MODULE Recordings_proofs -------------------------
(***************************************************************************)
(* Machine-checked proofs about Recordings, for any number of files, frames*)
(* and crashes.  The inductive invariant ties the table to the camera: the *)
(* session names its file, every row and every handler in flight belongs   *)
(* to a file that exists, and a row waiting to be inserted is explained in *)
(* the same way as one that is RECORDING.                                  *)
(***************************************************************************)
EXTENDS Recordings, TLAPS

FileRecord == [state : FileStates, size : Nat]

SessionInv ==
    /\ session # "idle" => current \in Files
    /\ session = "recording" => file[current].state = "open"
    /\ session = "stuck" => file[current].state = "damaged"
    /\ \A f \in Files : file[f].state = "open" => session = "recording" /\ current = f

Ended(f) == file[f].state \in {"closed", "damaged"}

TableInv ==
    \A f \in Files :
        /\ file[f].state = "absent" => row[f] = "none" /\ f \notin starting
        /\ f \in starting => row[f] = "none"
        /\ stopping[f].at # "none" => Ended(f)
        /\ stopping[f].at = "commit" => row[f] # "none"
        /\ row[f] = "COMPLETED" => Ended(f)
        /\ loaded[f].status # "none" => row[f] # "none"
        /\ write.file = f => row[f] # "none"

Explained(f) ==
    \/ file[f].state = "open"
    \/ session = "stuck" /\ current = f
    \/ stopping[f].at # "none"
    \/ f \in abandoned

ExplainedInv == \A f \in Files : row[f] = "RECORDING" \/ f \in starting => Explained(f)

IInv == TypeOK /\ SessionInv /\ TableInv /\ ExplainedInv

LEMMA InitIInv == Init => IInv
<1> SUFFICES ASSUME Init PROVE IInv
  OBVIOUS
<1> USE RecordingsAssumption DEF Init, RecorderInit
<1>1. TypeOK
  <2>1. RecorderTypeOK
    BY DEF RecorderTypeOK, FileStates
  <2>2. /\ stopping \in [Files -> [at : {"none", "lookup", "commit"}, size : Sizes, loadedSize : Sizes]]
        /\ loaded \in [Files -> [status : Statuses, size : Sizes]]
    BY DEF IdleStop, NothingLoaded, Sizes, Statuses
  <2>3. write \in [file : Files \cup {NoFile}, column : {"none", "status", "size"}, size : Sizes]
    BY DEF NoWrite, Sizes
  <2>4. row \in [Files -> Statuses] /\ rowSize \in [Files -> Sizes]
    BY DEF Statuses, Sizes
  <2> QED BY <2>1, <2>2, <2>3, <2>4 DEF TypeOK
<1>2. SessionInv
  BY DEF SessionInv
<1>3. TableInv
  BY DEF TableInv, IdleStop, NothingLoaded, NoWrite
<1>4. ExplainedInv
  BY DEF ExplainedInv
<1> QED BY <1>1, <1>2, <1>3, <1>4 DEF IInv

-----------------------------------------------------------------------------
(* The camera's steps.                                                     *)

\* What each operation of Recorder does to the types.
LEMMA RecorderTypes ==
    ASSUME RecorderTypeOK, NEW f \in Files,
           Begin(f) \/ Grow(f) \/ Finish(f) \/ Break(f) \/ Unstick
    PROVE  RecorderTypeOK'
BY DEF RecorderTypeOK, FileStates, Begin, Grow, Finish, Break, Unstick

\* An operation changes the state of its own file only.
LEMMA RecorderStates ==
    ASSUME RecorderTypeOK, NEW f \in Files
    PROVE  /\ Begin(f) => \A g \in Files : file'[g].state = IF g = f THEN "open" ELSE file[g].state
           /\ Grow(f) => \A g \in Files : file'[g].state = file[g].state
           /\ Finish(f) => \A g \in Files : file'[g].state = IF g = f THEN "closed" ELSE file[g].state
           /\ Break(f) => \A g \in Files : file'[g].state = IF g = f THEN "damaged" ELSE file[g].state
BY DEF RecorderTypeOK, Begin, Grow, Finish, Break

\* Closing a file, cleanly or not, ends its session and leaves the others be.
LEMMA ClosingStates ==
    ASSUME RecorderTypeOK, NEW f \in Files, Finish(f) \/ Break(f)
    PROVE  /\ \A g \in Files \ {f} : file'[g].state = file[g].state
           /\ file'[f].state \in {"closed", "damaged"}
           /\ session' = "idle" \/ (session' = "stuck" /\ file'[f].state = "damaged")
           /\ Finish(f) => session' = "idle"
<1>1. CASE Finish(f)
  <2>1. \A g \in Files : file'[g].state = IF g = f THEN "closed" ELSE file[g].state
    BY <1>1, RecorderStates
  <2>2. session' = "idle"
    BY <1>1 DEF Finish
  <2> QED BY <2>1, <2>2
<1>2. CASE Break(f) /\ ~Finish(f)
  <2>1. \A g \in Files : file'[g].state = IF g = f THEN "damaged" ELSE file[g].state
    BY <1>2, RecorderStates
  <2>2. session' = "stuck"
    BY <1>2 DEF Break
  <2> QED BY <1>2, <2>1, <2>2
<1> QED BY <1>1, <1>2

LEMMA CameraKeeps ==
    ASSUME IInv,
           \/ \E f \in Files : StartCamera(f) \/ WriteFrame(f)
           \/ StopCamera \/ StopRaises \/ CameraReset
    PROVE  IInv'
<1> USE RecordingsAssumption DEF IInv
<1>1. ASSUME NEW f \in Files, StartCamera(f) PROVE IInv'
  <2>1. /\ Begin(f) /\ session = "idle" /\ session' = "recording"
        /\ file[f].state = "absent"
        /\ current' = f /\ starting' = starting \cup {f}
        /\ UNCHANGED <<gone, row, rowSize, stopping, pass, loaded, write, abandoned, crashes>>
    BY <1>1 DEF StartCamera, Begin, tableVars, passVars
  <2>2. \A g \in Files : file'[g].state = IF g = f THEN "open" ELSE file[g].state
    BY <2>1, RecorderStates DEF TypeOK
  <2>3. TypeOK'
    BY <2>1, RecorderTypes DEF TypeOK
  <2>4. SessionInv'
    BY <2>1, <2>2 DEF SessionInv
  <2>5. TableInv'
    <3>1. row[f] = "none" /\ stopping[f].at = "none"
      BY <2>1 DEF TableInv, Ended
    <3> QED BY <2>1, <2>2, <3>1 DEF TableInv, Ended
  <2>6. ExplainedInv'
    BY <2>1, <2>2 DEF ExplainedInv, Explained
  <2> QED BY <2>3, <2>4, <2>5, <2>6
<1>2. ASSUME NEW f \in Files, WriteFrame(f) PROVE IInv'
  <2>1. /\ Grow(f)
        /\ UNCHANGED <<session, current, gone, row, rowSize, starting, stopping, pass, loaded,
                       write, abandoned, crashes>>
    BY <1>2 DEF WriteFrame, Grow, tableVars, requestVars, passVars
  <2>2. \A g \in Files : file'[g].state = file[g].state
    BY <2>1, RecorderStates DEF TypeOK
  <2>3. TypeOK'
    BY <2>1, RecorderTypes DEF TypeOK
  <2>4. SessionInv' /\ TableInv' /\ ExplainedInv'
    BY <2>1, <2>2 DEF SessionInv, TableInv, ExplainedInv, Explained, Ended
  <2> QED BY <2>3, <2>4
<1>3. CASE StopCamera
  <2>1. PICK f \in Files :
          /\ f = current
          /\ Finish(f) \/ Unstick
          /\ stopping' = [stopping EXCEPT ![f].at = "lookup"]
          /\ UNCHANGED <<current, gone, row, rowSize, starting, pass, loaded, write,
                         abandoned, crashes>>
    BY <1>3 DEF StopCamera, TypeOK, tableVars, passVars
  <2>2. session' = "idle" /\ (\A g \in Files \ {f} : file'[g].state = file[g].state)
        /\ file'[f].state \in {"closed", "damaged"}
    <3>1. CASE Finish(f)
      BY <2>1, <3>1, ClosingStates DEF TypeOK
    <3>2. CASE Unstick
      BY <2>1, <3>2 DEF Unstick, SessionInv
    <3> QED BY <2>1, <3>1, <3>2
  <2>3. TypeOK'
    <3>1. RecorderTypeOK'
      BY <2>1, RecorderTypes DEF TypeOK
    <3>2. stopping' \in [Files -> [at : {"none", "lookup", "commit"}, size : Sizes, loadedSize : Sizes]]
      BY <2>1 DEF TypeOK
    <3> QED BY <2>1, <3>1, <3>2 DEF TypeOK
  <2>4. \A g \in Files : stopping'[g].at = IF g = f THEN "lookup" ELSE stopping[g].at
    BY <2>1 DEF TypeOK
  <2>5. SessionInv'
    BY <2>1, <2>2 DEF SessionInv
  <2>6. TableInv'
    BY <2>1, <2>2, <2>4 DEF TableInv, Ended
  <2>7. ExplainedInv'
    BY <2>1, <2>2, <2>4 DEF ExplainedInv, Explained
  <2> QED BY <2>3, <2>5, <2>6, <2>7
<1>4. CASE StopRaises
  <2>1. PICK f \in Files :
          /\ f = current
          /\ Break(f)
          /\ UNCHANGED <<current, gone, row, rowSize, starting, stopping, pass, loaded, write,
                         abandoned, crashes>>
    BY <1>4 DEF StopRaises, TypeOK, tableVars, requestVars, passVars
  <2>2. session' = "stuck" /\ \A g \in Files : file'[g].state = IF g = f THEN "damaged" ELSE file[g].state
    BY <2>1, RecorderStates DEF TypeOK, Break
  <2>3. TypeOK'
    BY <2>1, RecorderTypes DEF TypeOK
  <2>4. SessionInv' /\ ExplainedInv'
    BY <2>1, <2>2 DEF SessionInv, ExplainedInv, Explained
  <2>5. TableInv'
    BY <2>1, <2>2 DEF TableInv, Ended
  <2> QED BY <2>3, <2>4, <2>5
<1>5. CASE CameraReset
  <2>1. PICK f \in Files :
          /\ f = current
          /\ Finish(f) \/ Break(f) \/ Unstick
          /\ abandoned' = IF session' = "idle" THEN abandoned \cup {f} ELSE abandoned
          /\ UNCHANGED <<current, gone, row, rowSize, starting, stopping, pass, loaded, write, crashes>>
    BY <1>5 DEF CameraReset, TypeOK, tableVars, requestVars, passVars
  <2>2. /\ \A g \in Files \ {f} : file'[g].state = file[g].state
        /\ file'[f].state \in {"closed", "damaged"}
        /\ session' = "idle" \/ (session' = "stuck" /\ file'[f].state = "damaged")
    <3>1. CASE Finish(f) \/ Break(f)
      BY <2>1, <3>1, ClosingStates DEF TypeOK
    <3>2. CASE Unstick
      BY <2>1, <3>2 DEF Unstick, SessionInv
    <3> QED BY <2>1, <3>1, <3>2
  <2>3. TypeOK'
    BY <2>1, RecorderTypes DEF TypeOK
  <2>4. SessionInv'
    BY <2>1, <2>2 DEF SessionInv
  <2>5. TableInv'
    BY <2>1, <2>2 DEF TableInv, Ended
  <2>6. ExplainedInv'
    BY <2>1, <2>2 DEF ExplainedInv, Explained
  <2> QED BY <2>3, <2>4, <2>5, <2>6
<1> QED BY <1>1, <1>2, <1>3, <1>4, <1>5

-----------------------------------------------------------------------------
(* The handlers' database halves, and the files behind the program's back. *)

LEMMA RequestKeeps ==
    ASSUME IInv, NEW f \in Files,
           RequestStep(f) \/ RemoveFile(f) \/ RestoreFile(f)
    PROVE  IInv'
<1> USE RecordingsAssumption DEF IInv
<1>0. UNCHANGED <<session, file, current, crashes, pass, loaded, write>>
  BY DEF RequestStep, InsertRow, InsertFails, LookupRow, CompleteRow, StopQueryFails,
     RemoveFile, RestoreFile, cameraVars, recorderVars, passVars
<1>1. CASE InsertRow(f)
  <2>1. /\ f \in starting /\ starting' = starting \ {f}
        /\ row' = [row EXCEPT ![f] = "RECORDING"]
        /\ UNCHANGED <<gone, rowSize, stopping, abandoned>>
    BY <1>1 DEF InsertRow
  <2>2. TypeOK'
    BY <1>0, <2>1 DEF TypeOK, Statuses, RecorderTypeOK
  <2>3. SessionInv' /\ TableInv'
    BY <1>0, <2>1 DEF SessionInv, TableInv, Ended, TypeOK
  <2>4. ExplainedInv'
    BY <1>0, <2>1 DEF ExplainedInv, Explained, TypeOK
  <2> QED BY <2>2, <2>3, <2>4
<1>2. CASE InsertFails(f)
  BY <1>0, <1>2 DEF InsertFails, tableVars, TypeOK, RecorderTypeOK, SessionInv, TableInv,
     Ended, ExplainedInv, Explained
<1>3. CASE LookupRow(f) \/ StopQueryFails(f)
  <2>1. /\ UNCHANGED <<gone, row, rowSize, starting>>
        /\ stopping[f].at # "none"
    BY <1>3 DEF LookupRow, StopQueryFails, tableVars
  <2>2. PICK s \in [at : {"none", "commit"}, size : Sizes, loadedSize : Sizes] :
          /\ stopping' = [stopping EXCEPT ![f] = s]
          /\ s.at = "commit" => row[f] # "none"
          /\ abandoned' = IF s.at = "none" THEN abandoned \cup {f} ELSE abandoned
    <3>1. IdleStop \in [at : {"none", "commit"}, size : Sizes, loadedSize : Sizes] /\ IdleStop.at = "none"
      BY DEF IdleStop, Sizes
    <3>2. CASE stopping' = [stopping EXCEPT ![f] = IdleStop] /\ abandoned' = abandoned \cup {f}
      BY <3>1, <3>2
    <3>3. CASE LookupRow(f) /\ row[f] # "none"
      <4>1. file[f].size \in Sizes /\ NoSize \in Sizes /\ rowSize[f] \in Sizes
        BY DEF TypeOK, RecorderTypeOK, Sizes
      <4> DEFINE s == [at |-> "commit",
                       size |-> IF OnDisk(f) THEN file[f].size ELSE NoSize,
                       loadedSize |-> rowSize[f]]
      <4>2. stopping' = [stopping EXCEPT ![f] = s] /\ abandoned' = abandoned
        BY <3>3 DEF LookupRow
      <4>3. s \in [at : {"none", "commit"}, size : Sizes, loadedSize : Sizes] /\ s.at = "commit"
        BY <4>1
      <4> QED BY <3>3, <4>2, <4>3
    <3> QED BY <1>3, <3>2, <3>3 DEF LookupRow, StopQueryFails
  <2>3. \A g \in Files : stopping'[g].at = IF g = f THEN s.at ELSE stopping[g].at
    BY <2>2 DEF TypeOK
  <2>4. TypeOK'
    <3>1. stopping' \in [Files -> [at : {"none", "lookup", "commit"}, size : Sizes, loadedSize : Sizes]]
      BY <2>2 DEF TypeOK
    <3>2. abandoned' \in SUBSET Files
      BY <2>2 DEF TypeOK
    <3> QED BY <1>0, <2>1, <3>1, <3>2 DEF TypeOK, RecorderTypeOK
  <2>5. SessionInv'
    BY <1>0 DEF SessionInv
  <2>6. TableInv'
    BY <1>0, <2>1, <2>2, <2>3 DEF TableInv, Ended
  <2>7. ExplainedInv'
    BY <1>0, <2>1, <2>2, <2>3 DEF ExplainedInv, Explained
  <2> QED BY <2>4, <2>5, <2>6, <2>7
<1>4. CASE CompleteRow(f)
  <2>1. /\ stopping[f].at = "commit"
        /\ row' = [row EXCEPT ![f] = "COMPLETED"]
        /\ stopping' = [stopping EXCEPT ![f] = IdleStop]
        /\ UNCHANGED <<gone, starting, abandoned>>
    BY <1>4 DEF CompleteRow
  <2>2. /\ stopping' \in [Files -> [at : {"none", "lookup", "commit"}, size : Sizes, loadedSize : Sizes]]
        /\ \A g \in Files : stopping'[g].at = IF g = f THEN "none" ELSE stopping[g].at
    BY <2>1 DEF TypeOK, IdleStop, Sizes
  <2>3. rowSize' \in [Files -> Sizes]
    BY <1>4 DEF CompleteRow, TypeOK
  <2>4. row' \in [Files -> Statuses]
    BY <2>1 DEF TypeOK, Statuses
  <2>5. TypeOK'
    BY <1>0, <2>1, <2>2, <2>3, <2>4 DEF TypeOK, RecorderTypeOK
  <2>6. SessionInv' /\ TableInv'
    BY <1>0, <2>1, <2>2 DEF SessionInv, TableInv, Ended, TypeOK
  <2>7. ExplainedInv'
    BY <1>0, <2>1, <2>2 DEF ExplainedInv, Explained, TableInv, TypeOK
  <2> QED BY <2>5, <2>6, <2>7
<1>5. CASE RemoveFile(f) \/ RestoreFile(f)
  BY <1>0, <1>5 DEF RemoveFile, RestoreFile, tableVars, requestVars, TypeOK, RecorderTypeOK,
     SessionInv, TableInv, Ended, ExplainedInv, Explained
<1> QED BY <1>1, <1>2, <1>3, <1>4, <1>5 DEF RequestStep

-----------------------------------------------------------------------------
(* The reconciliation task and the crash.                                  *)

LoadedType == [Files -> [status : Statuses, size : Sizes]]
WriteType == [file : Files \cup {NoFile}, column : {"none", "status", "size"}, size : Sizes]

LEMMA EndPassTypes == EndPass => loaded' \in LoadedType /\ write' \in WriteType /\ pass' = "sleeping"
BY DEF EndPass, NothingLoaded, NoWrite, LoadedType, WriteType, Statuses, Sizes

LEMMA PassKeeps ==
    ASSUME IInv, PassStep
    PROVE  IInv'
<1> USE RecordingsAssumption DEF IInv
<1>0. UNCHANGED <<session, file, current, gone, starting, stopping, abandoned, crashes>>
  BY DEF PassStep, ListRows, FinishPass, PassFails, Examine, CommitWrite, cameraVars,
     recorderVars, requestVars
<1>1. CASE ListRows
  <2>1. /\ pass' = "scanning"
        /\ loaded' = [f \in Files |-> [status |-> row[f], size |-> rowSize[f]]]
        /\ UNCHANGED <<row, rowSize, write>>
    BY <1>1 DEF ListRows, tableVars
  <2>2. loaded' \in [Files -> [status : Statuses, size : Sizes]]
    BY <2>1 DEF TypeOK
  <2>3. TypeOK'
    BY <1>0, <2>1, <2>2 DEF TypeOK, RecorderTypeOK
  <2>4. SessionInv' /\ TableInv' /\ ExplainedInv'
    BY <1>0, <2>1 DEF SessionInv, TableInv, Ended, ExplainedInv, Explained
  <2> QED BY <2>3, <2>4
<1>2. CASE FinishPass \/ PassFails
  <2>1. EndPass /\ UNCHANGED <<row, rowSize>>
    BY <1>2 DEF FinishPass, PassFails, tableVars
  <2>2. TypeOK'
    BY <1>0, <2>1, EndPassTypes DEF TypeOK, RecorderTypeOK, LoadedType, WriteType
  <2>3. SessionInv' /\ ExplainedInv'
    BY <1>0, <2>1 DEF SessionInv, ExplainedInv, Explained
  <2>4. TableInv'
    BY <1>0, <2>1 DEF TableInv, Ended, EndPass, NothingLoaded, NoWrite
  <2> QED BY <2>2, <2>3, <2>4
<1>3. ASSUME NEW f \in Files, Examine(f) PROVE IInv'
  <2>1. /\ loaded[f].status # "none" /\ write' = NeedsWrite(f)
        /\ loaded' \in {loaded, Without(f)}
        /\ UNCHANGED <<row, rowSize, pass>>
    BY <1>3 DEF Examine, tableVars
  <2>2. write' \in WriteType /\ write'.file \in {f, NoFile}
    <3>1. file[f].size \in Sizes /\ NoSize \in Sizes
      BY DEF TypeOK, RecorderTypeOK, Sizes
    <3> QED BY <2>1, <3>1 DEF NeedsWrite, NoWrite, WriteType
  <2>3. /\ loaded' \in LoadedType
        /\ \A g \in Files : loaded'[g].status \in {loaded[g].status, "none"}
    <3>1. CASE loaded' = loaded
      BY <3>1 DEF TypeOK, LoadedType
    <3>2. CASE loaded' = Without(f)
      BY <3>2 DEF TypeOK, Without, NothingLoaded, LoadedType, Statuses, Sizes
    <3> QED BY <2>1, <3>1, <3>2
  <2>4. TypeOK'
    BY <1>0, <2>1, <2>2, <2>3 DEF TypeOK, RecorderTypeOK, LoadedType, WriteType
  <2>5. SessionInv' /\ ExplainedInv'
    BY <1>0, <2>1 DEF SessionInv, ExplainedInv, Explained
  <2>6. TableInv'
    BY <1>0, <2>1, <2>2, <2>3 DEF TableInv, Ended
  <2> QED BY <2>4, <2>5, <2>6
<1>4. ASSUME NEW f \in Files, CommitWrite(f) PROVE IInv'
  <2>1. /\ write.file = f /\ write' = NoWrite /\ loaded' = Without(f)
        /\ UNCHANGED pass
        /\ row' = [row EXCEPT ![f] = "MISSING"] \/ row' = row
    BY <1>4 DEF CommitWrite
  <2>2. write' \in WriteType /\ \A g \in Files : write'.file # g
    BY <2>1 DEF NoWrite, WriteType, Sizes
  <2>3. /\ loaded' \in LoadedType
        /\ \A g \in Files : loaded'[g].status \in {loaded[g].status, "none"}
    BY <2>1 DEF TypeOK, Without, NothingLoaded, LoadedType, Statuses, Sizes
  <2>4. rowSize' \in [Files -> Sizes]
    <3>1. write.size \in Sizes
      BY DEF TypeOK
    <3> QED BY <1>4, <3>1 DEF CommitWrite, TypeOK
  <2>5. row' \in [Files -> Statuses]
    BY <2>1 DEF TypeOK, Statuses
  <2>6. TypeOK'
    BY <1>0, <2>1, <2>2, <2>3, <2>4, <2>5 DEF TypeOK, RecorderTypeOK, LoadedType, WriteType
  <2>7. row[f] # "none" /\ \A g \in Files : row'[g] = row[g] \/ (g = f /\ row'[g] = "MISSING")
    BY <2>1 DEF TableInv, TypeOK
  <2>8. SessionInv' /\ ExplainedInv'
    BY <1>0, <2>7 DEF SessionInv, ExplainedInv, Explained
  <2>9. TableInv'
    BY <1>0, <2>2, <2>3, <2>7 DEF TableInv, Ended
  <2> QED BY <2>6, <2>8, <2>9
<1> QED BY <1>1, <1>2, <1>3, <1>4 DEF PassStep

LEMMA CrashKeeps ==
    ASSUME IInv, Crash
    PROVE  IInv'
<1> USE RecordingsAssumption DEF IInv
<1>1. /\ session' = "idle" /\ current' = NoFile /\ starting' = {}
      /\ crashes' \in 0..MaxCrashes
      /\ stopping' = [f \in Files |-> IdleStop]
      /\ EndPass
      /\ UNCHANGED <<gone, row, rowSize>>
  BY DEF Crash, tableVars, TypeOK
<1>2. /\ file' \in [Files -> FileRecord]
      /\ \A f \in Files : file'[f].state = IF file[f].state = "open" THEN "damaged" ELSE file[f].state
  <2>1. ASSUME NEW f \in Files
        PROVE  /\ file'[f] \in FileRecord
               /\ file'[f].state = IF file[f].state = "open" THEN "damaged" ELSE file[f].state
    <3>1. file[f] \in FileRecord
      BY DEF TypeOK, RecorderTypeOK, FileRecord
    <3> QED BY <3>1 DEF Crash, FileRecord, FileStates
  <2>2. file' = [f \in Files |-> file'[f]]
    BY DEF Crash
  <2> QED BY <2>1, <2>2
<1>3. /\ abandoned' \in SUBSET Files
      /\ \A f \in Files : Explained(f) => f \in abandoned'
  <2>1. session # "idle" => current \in Files
    BY DEF SessionInv
  <2>2. abandoned' = abandoned \cup starting \cup {f \in Files : stopping[f].at # "none"}
                    \cup (IF session = "idle" THEN {} ELSE {current})
    BY DEF Crash
  <2>3. abandoned' \in SUBSET Files
    BY <2>1, <2>2 DEF TypeOK
  <2>4. \A f \in Files : Explained(f) => f \in abandoned'
    BY <2>2 DEF Explained, SessionInv
  <2> QED BY <2>3, <2>4
<1>4. TypeOK'
  <2>1. stopping' \in [Files -> [at : {"none", "lookup", "commit"}, size : Sizes, loadedSize : Sizes]]
    BY <1>1 DEF IdleStop, Sizes
  <2> QED BY <1>1, <1>2, <1>3, <2>1, EndPassTypes DEF TypeOK, RecorderTypeOK, FileRecord,
        LoadedType, WriteType
<1>5. SessionInv'
  BY <1>1, <1>2 DEF SessionInv
<1>6. TableInv'
  BY <1>1, <1>2 DEF TableInv, Ended, IdleStop, EndPass, NothingLoaded, NoWrite
<1>7. ExplainedInv'
  BY <1>1, <1>3 DEF ExplainedInv, Explained
<1> QED BY <1>4, <1>5, <1>6, <1>7

LEMMA NextIInv == IInv /\ [Next]_vars => IInv'
<1> SUFFICES ASSUME IInv, [Next]_vars PROVE IInv'
  OBVIOUS
<1>1. CASE Next
  BY <1>1, CameraKeeps, RequestKeeps, PassKeeps, CrashKeeps DEF Next
<1>2. CASE UNCHANGED vars
  BY <1>2 DEF vars, cameraVars, recorderVars, tableVars, requestVars, passVars, IInv, TypeOK,
     RecorderTypeOK, SessionInv, TableInv, Ended, ExplainedInv, Explained
<1> QED BY <1>1, <1>2

LEMMA Invariance == Spec => []IInv
BY InitIInv, NextIInv, PTL DEF Spec

-----------------------------------------------------------------------------

\* The types, for every number of files, frames and crashes.
THEOREM TypeCorrect == Spec => []TypeOK
<1>1. IInv => TypeOK
  BY DEF IInv
<1> QED BY <1>1, Invariance, PTL

\* A COMPLETED row never belongs to a file that is still being written.
THEOREM CompletedRowsAreClosed == Spec => []CompletedIsClosed
<1>1. IInv => CompletedIsClosed
  BY DEF IInv, TableInv, Ended, CompletedIsClosed
<1> QED BY <1>1, Invariance, PTL

\* The ways a RECORDING row can outlive its recording are exactly those named.
THEOREM ZombieRowsAreExplained == Spec => []ZombieRowsExplained
<1>1. IInv => ZombieRowsExplained
  BY DEF IInv, ExplainedInv, Explained, ZombieRowsExplained
<1> QED BY <1>1, Invariance, PTL

\* However stale the pass's rows are, a finished row never goes back.
THEOREM FinishedRowsStay == Spec => NoStatusRegression
<1>1. ASSUME IInv, [Next]_vars, NEW f \in Files,
             row[f] \in {"COMPLETED", "MISSING"}, row'[f] # row[f]
      PROVE  \/ row'[f] = "COMPLETED" /\ stopping[f].at = "commit"
             \/ row'[f] = "MISSING" /\ write.file = f /\ write.column = "status"
  <2> USE <1>1 DEF IInv
  <2>1. CASE \E g \in Files : InsertRow(g)
    BY <2>1 DEF InsertRow, TableInv, TypeOK
  <2>2. CASE \E g \in Files : CompleteRow(g)
    BY <2>2 DEF CompleteRow, TypeOK
  <2>3. CASE \E g \in Files : CommitWrite(g)
    BY <2>3 DEF CommitWrite, TypeOK
  <2>4. CASE ~\E g \in Files : InsertRow(g) \/ CompleteRow(g) \/ CommitWrite(g)
    BY <2>4 DEF Next, RequestStep, PassStep, StartCamera, WriteFrame, RemoveFile, RestoreFile,
       InsertFails, LookupRow, StopQueryFails, StopCamera, StopRaises, CameraReset, ListRows,
       FinishPass, PassFails, Examine, Crash, vars, tableVars
  <2> QED BY <2>1, <2>2, <2>3, <2>4
<1>2. ASSUME IInv, [Next]_vars
      PROVE  [\A f \in Files :
                row[f] \in {"COMPLETED", "MISSING"} /\ row'[f] # row[f] =>
                    \/ row'[f] = "COMPLETED" /\ stopping[f].at = "commit"
                    \/ row'[f] = "MISSING" /\ write.file = f /\ write.column = "status"]_vars
  BY <1>1, <1>2
<1> QED BY <1>2, Invariance, PTL DEF Spec, NoStatusRegression
=============================================================================
