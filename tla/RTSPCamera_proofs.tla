-------------------------- MODULE RTSPCamera_proofs --------------------------
(***************************************************************************)
(* Machine-checked proofs about RTSPCamera, for any number of decode       *)
(* threads, frames and files.  The inductive invariant has four parts: the *)
(* types, the lifecycle (whose heart is that, while no join timed out, the *)
(* one thread alive is the one _thread names), the order of the frames in  *)
(* flight, and the ownership of the muxer.                                 *)
(***************************************************************************)
EXTENDS RTSPCamera, TLAPS

Carrying(t) == pc[t] \in {"frame", "storing"}

LifecycleInv ==
    /\ thread <= started
    /\ \A t \in Threads : pc[t] # "unborn" => t <= started
    /\ op \in {"boot", "closeReset", "startReset", "closeExit", "exited"} => thread = 0
    /\ op \in {"joinReset", "closeReset", "startReset"} => started < MaxThreads
    /\ ~lateJoin => \A t \in Threads : Alive(t) => t = thread

FrameInv ==
    /\ latest <= sent
    /\ \A t \in Threads : inHand[t] <= sent /\ (Carrying(t) => 1 <= inHand[t])
    /\ ~lateJoin =>
        /\ \A t \in Threads : Carrying(t) => latest < inHand[t]
        /\ \A f \in Files :
              /\ Increasing(file[f].frames)
              /\ \A i \in 1..Len(file[f].frames) : file[f].frames[i] <= latest

WriterInv ==
    /\ output # NoFile => recording /\ file[output].state \in {"open", "damaged"}
    /\ \A f \in Files : file[f].state = "open" => recording /\ output = f

IInv == TypeOK /\ LifecycleInv /\ FrameInv /\ WriterInv

\* Appending a frame newer than all the others keeps the order.
LEMMA AppendIncreasing ==
    ASSUME NEW s \in Seq(Nat), NEW x \in Nat,
           Increasing(s), \A i \in 1..Len(s) : s[i] < x
    PROVE  Increasing(Append(s, x))
BY DEF Increasing

-----------------------------------------------------------------------------
(* One lemma per group of actions.                                         *)

LEMMA InitIInv == Init => IInv
<1> SUFFICES ASSUME Init PROVE IInv
  OBVIOUS
<1>1. /\ \A f \in Files : file[f].state = "absent" /\ file[f].frames = <<>>
      /\ file \in [Files -> FileRecord]
  BY DEF Init, FileRecord
<1>2. TypeOK
  <2>1. pc \in [Threads -> PCs] /\ inHand \in [Threads -> 0..MaxFrames]
    BY BoundsAssumption DEF Init, PCs
  <2>2. FlagsOK
    BY DEF Init, FlagsOK
  <2>3. DataOK
    BY <1>1, <2>1, BoundsAssumption DEF Init, DataOK, Ops
  <2> QED BY <2>2, <2>3 DEF TypeOK
<1>3. LifecycleInv
  BY BoundsAssumption DEF Init, LifecycleInv, Threads, Alive
<1>4. FrameInv
  BY <1>1, BoundsAssumption DEF Init, FrameInv, Threads, Carrying, Increasing
<1>5. WriterInv
  BY <1>1 DEF Init, WriterInv
<1> QED BY <1>2, <1>3, <1>4, <1>5 DEF IInv

\* Changing the state of one file leaves every file's frames alone.
LEMMA SetState ==
    ASSUME NEW F \in [Files -> FileRecord], NEW g \in Files,
           NEW s \in {"open", "closed", "damaged"},
           NEW G, G = [F EXCEPT ![g].state = s]
    PROVE  /\ G \in [Files -> FileRecord]
           /\ \A f \in Files : G[f].frames = F[f].frames
           /\ \A f \in Files : G[f].state = IF f = g THEN s ELSE F[f].state
<1> DEFINE r == [F[g] EXCEPT !.state = s]
<1>1. /\ r \in FileRecord
      /\ r.frames = F[g].frames
      /\ r.state = s
  BY DEF FileRecord
<1>2. G = [F EXCEPT ![g] = r]
  OBVIOUS
<1> QED BY <1>1, <1>2

\* What a flush and close, failed or not, leaves behind.
LEMMA CloseEffect ==
    ASSUME TypeOK, FlushAndClose \/ FlushOrCloseRaises
    PROVE  /\ file' \in [Files -> FileRecord]
           /\ output' \in {NoFile, output}
           /\ \A f \in Files : file'[f].frames = file[f].frames
           /\ \A f \in Files : file'[f].state # "open" \/ (f # output /\ file[f].state = "open")
           /\ output' # NoFile => file'[output].state = "damaged"
<1> USE BoundsAssumption DEF TypeOK
<1>1. CASE output = NoFile \/ (file[output].state = "damaged" /\ FlushAndClose)
  BY <1>1 DEF DataOK, FlushAndClose, FlushOrCloseRaises
<1>2. CASE output \in Files /\ file[output].state # "damaged" /\ FlushAndClose
  <2>1. file' = [file EXCEPT ![output].state = "closed"] /\ output' = NoFile
    BY <1>2 DEF FlushAndClose
  <2> QED BY <1>2, <2>1, SetState DEF DataOK
<1>3. CASE output \in Files /\ FlushOrCloseRaises
  <2>1. file' = [file EXCEPT ![output].state = "damaged"] /\ output' \in {NoFile, output}
    BY <1>3 DEF FlushOrCloseRaises
  <2> QED BY <1>3, <2>1, SetState DEF DataOK
<1> QED BY <1>1, <1>2, <1>3 DEF DataOK

\* The four parts do not mention op, stopEvent or thread beyond LifecycleInv.
LEMMA LifecycleKeeps ==
    ASSUME IInv, Boot \/ Reset \/ Shutdown \/ JoinReturns \/ JoinTimesOut \/ Restart
    PROVE  IInv'
<1> USE BoundsAssumption DEF IInv, TypeOK, Threads
<1>1. CASE Boot
  <2>1. TypeOK'
    <3>1. thread = 0 /\ started + 1 \in Threads
      BY <1>1 DEF Boot, DataOK, LifecycleInv
    <3>2. pc' \in [Threads -> PCs]
      BY <1>1, <3>1 DEF Boot, Start, DataOK, PCs
    <3>3. stopEvent' = FALSE /\ thread' \in Threads /\ started' \in Threads
      BY <1>1, <3>1 DEF Boot, Start
    <3>4. FlagsOK'
      BY <1>1, <3>3 DEF Boot, FlagsOK, recordVars
    <3>5. DataOK'
      BY <1>1, <3>2, <3>3 DEF Boot, DataOK, Ops, recordVars
    <3> QED BY <3>4, <3>5
  <2>2. LifecycleInv'
    BY <1>1 DEF Boot, Start, DataOK, LifecycleInv, Alive
  <2>3. FrameInv' /\ WriterInv'
    BY <1>1 DEF Boot, Start, DataOK, LifecycleInv, FrameInv, WriterInv, Carrying, Increasing, recordVars
  <2> QED BY <2>1, <2>2, <2>3
<1>2. CASE Reset \/ Shutdown
  <2>1. TypeOK'
    <3>1. FlagsOK'
      BY <1>2 DEF Reset, Shutdown, BeginStop, FlagsOK, Ops, decodeVars, recordVars
    <3>2. DataOK'
      BY <1>2 DEF Reset, Shutdown, BeginStop, DataOK, Ops, decodeVars, recordVars
    <3> QED BY <3>1, <3>2
  <2>2. LifecycleInv'
    BY <1>2 DEF Reset, Shutdown, BeginStop, LifecycleInv, Alive, decodeVars
  <2>3. FrameInv' /\ WriterInv'
    BY <1>2 DEF Reset, Shutdown, BeginStop, FrameInv, WriterInv, Carrying, Increasing, decodeVars, recordVars
  <2> QED BY <2>1, <2>2, <2>3
<1>3. CASE JoinReturns
  <2>1. TypeOK'
    <3>1. FlagsOK'
      BY <1>3 DEF JoinReturns, AfterJoin, FlagsOK, Ops, decodeVars, recordVars
    <3>2. DataOK'
      BY <1>3 DEF JoinReturns, AfterJoin, DataOK, Ops, decodeVars, recordVars
    <3> QED BY <3>1, <3>2
  <2>2. LifecycleInv'
    BY <1>3 DEF JoinReturns, Joining, AfterJoin, DataOK, LifecycleInv, Alive, decodeVars
  <2>3. FrameInv' /\ WriterInv'
    BY <1>3 DEF JoinReturns, FrameInv, WriterInv, Carrying, Increasing, decodeVars, recordVars
  <2> QED BY <2>1, <2>2, <2>3
<1>4. CASE JoinTimesOut
  <2>1. TypeOK'
    <3>1. FlagsOK'
      BY <1>4 DEF JoinTimesOut, AfterJoin, FlagsOK, Ops, decodeVars, recordVars
    <3>2. DataOK'
      BY <1>4 DEF JoinTimesOut, AfterJoin, DataOK, Ops, decodeVars, recordVars
    <3> QED BY <3>1, <3>2
  <2>2. LifecycleInv'
    BY <1>4 DEF JoinTimesOut, Joining, AfterJoin, DataOK, LifecycleInv, decodeVars
  <2>3. FrameInv' /\ WriterInv'
    BY <1>4 DEF JoinTimesOut, FrameInv, WriterInv, Carrying, decodeVars, recordVars
  <2> QED BY <2>1, <2>2, <2>3
<1>5. CASE Restart
  <2>1. TypeOK'
    <3>1. thread = 0 /\ started + 1 \in Threads
      BY <1>5 DEF Restart, DataOK, LifecycleInv
    <3>2. pc' \in [Threads -> PCs]
      BY <1>5, <3>1 DEF Restart, Start, DataOK, PCs
    <3>3. stopEvent' = FALSE /\ thread' \in Threads /\ started' \in Threads
      BY <1>5, <3>1 DEF Restart, Start
    <3>4. FlagsOK'
      BY <1>5, <3>3 DEF Restart, FlagsOK, recordVars
    <3>5. DataOK'
      BY <1>5, <3>2, <3>3 DEF Restart, DataOK, Ops, recordVars
    <3> QED BY <3>4, <3>5
  <2>2. LifecycleInv'
    BY <1>5 DEF Restart, Start, DataOK, LifecycleInv, Alive
  <2>3. FrameInv' /\ WriterInv'
    BY <1>5 DEF Restart, Start, DataOK, LifecycleInv, FrameInv, WriterInv, Carrying, Increasing, recordVars
  <2> QED BY <2>1, <2>2, <2>3
<1> QED BY <1>1, <1>2, <1>3, <1>4, <1>5

\* Closing a muxer changes file states and nothing the other parts read.
LEMMA RecordingKeeps ==
    ASSUME IInv,
           CloseRecordingSafe \/ StopRecording \/ \E f \in Files : StartRecording(f)
    PROVE  IInv'
<1> USE BoundsAssumption DEF IInv, TypeOK, Threads
<1>1. CASE CloseRecordingSafe
  <2>1. CASE ~recording
    <3>1. UNCHANGED <<file, output, recording, recordFile, decodeVars, stopEvent,
                      thread, started, lateJoin>> /\ op' \in {"startReset", "exited"}
      BY <1>1, <2>1 DEF CloseRecordingSafe
    <3>2. op' = "startReset" => op = "closeReset"
      BY <1>1, <2>1 DEF CloseRecordingSafe
    <3>3. TypeOK'
      <4>1. FlagsOK'
        BY <3>1 DEF FlagsOK, Ops, decodeVars
      <4>2. DataOK'
        BY <3>1 DEF DataOK, Ops, decodeVars
      <4> QED BY <4>1, <4>2
    <3>4. LifecycleInv'
      BY <1>1, <3>1, <3>2 DEF CloseRecordingSafe, LifecycleInv, Alive, decodeVars
    <3>5. FrameInv' /\ WriterInv'
      BY <3>1 DEF FrameInv, WriterInv, Carrying, Increasing, decodeVars
    <3> QED BY <3>3, <3>4, <3>5
  <2>2. CASE recording
    <3>0. (FlushAndClose /\ recording' = FALSE) \/ (FlushOrCloseRaises /\ recording' = recording)
      BY <1>1, <2>2, Zenon DEF CloseRecordingSafe
    <3>1. /\ FlushAndClose \/ FlushOrCloseRaises
          /\ UNCHANGED <<decodeVars, recordFile, stopEvent, thread, started, lateJoin>>
      BY <1>1, <3>0 DEF CloseRecordingSafe
    <3>6. op' \in {"startReset", "exited", "serving"}
      BY <1>1 DEF CloseRecordingSafe
    <3>2. TypeOK'
      <4>1. FlagsOK'
        BY <3>0, <3>1 DEF FlagsOK, decodeVars
      <4>2. DataOK'
        BY <3>1, <3>6, CloseEffect DEF DataOK, Ops, decodeVars
      <4> QED BY <4>1, <4>2
    <3>3. LifecycleInv'
      BY <1>1, <3>1 DEF CloseRecordingSafe, LifecycleInv, Alive, decodeVars
    <3>4. FrameInv'
      BY <1>1, <3>1, CloseEffect DEF CloseRecordingSafe, FrameInv, Carrying, Increasing, decodeVars
    <3>5. WriterInv'
      BY <2>2, <3>0, <3>1, CloseEffect DEF DataOK, WriterInv, FlushAndClose
    <3> QED BY <3>2, <3>3, <3>4, <3>5
  <2> QED BY <2>1, <2>2
<1>2. CASE StopRecording
  <2>0. (FlushAndClose /\ recording' = FALSE) \/ (FlushOrCloseRaises /\ recording' = recording)
    BY <1>2, Zenon DEF StopRecording
  <2>1. /\ FlushAndClose \/ FlushOrCloseRaises
        /\ recording
        /\ UNCHANGED <<decodeVars, lifecycleVars>>
    BY <1>2, <2>0 DEF StopRecording
  <2>6. recordFile' \in {recordFile, NoFile}
    BY <1>2 DEF StopRecording
  <2>2. TypeOK'
    <3>1. FlagsOK'
      BY <2>0, <2>1 DEF FlagsOK, decodeVars, lifecycleVars
    <3>2. DataOK'
      BY <2>1, <2>6, CloseEffect DEF DataOK, decodeVars, lifecycleVars
    <3> QED BY <3>1, <3>2
  <2>3. LifecycleInv'
    BY <2>1 DEF LifecycleInv, Alive, decodeVars, lifecycleVars
  <2>4. FrameInv'
    BY <2>1, CloseEffect DEF FrameInv, Carrying, Increasing, decodeVars, lifecycleVars
  <2>5. WriterInv'
    BY <2>0, <2>1, CloseEffect DEF DataOK, WriterInv, FlushAndClose
  <2> QED BY <2>2, <2>3, <2>4, <2>5
<1>3. ASSUME NEW f \in Files, StartRecording(f) PROVE IInv'
  <2>1. /\ file' = [file EXCEPT ![f].state = "open"]
        /\ recording' = TRUE /\ recordFile' = f /\ output' = f
        /\ ~recording
        /\ UNCHANGED <<decodeVars, lifecycleVars>>
    BY <1>3 DEF StartRecording
  <2>2. /\ file' \in [Files -> FileRecord]
        /\ \A g \in Files : file'[g].frames = file[g].frames
        /\ \A g \in Files : file'[g].state = IF g = f THEN "open" ELSE file[g].state
    <3>1. file \in [Files -> FileRecord] /\ file' = [file EXCEPT ![f].state = "open"]
      BY <2>1 DEF DataOK
    <3> QED BY <3>1, SetState
  <2>3. TypeOK'
    <3>1. FlagsOK'
      BY <2>1, <2>2 DEF FlagsOK, decodeVars, lifecycleVars
    <3>2. DataOK'
      BY <2>1, <2>2 DEF DataOK, decodeVars, lifecycleVars
    <3> QED BY <3>1, <3>2
  <2>4. LifecycleInv'
    BY <2>1 DEF LifecycleInv, Alive, decodeVars, lifecycleVars
  <2>5. FrameInv'
    BY <2>1, <2>2 DEF FrameInv, Carrying, Increasing, decodeVars, lifecycleVars
  <2>6. WriterInv'
    BY <2>1, <2>2 DEF WriterInv
  <2> QED BY <2>3, <2>4, <2>5, <2>6
<1> QED BY <1>1, <1>2, <1>3

\* Steps of a decode thread that touch neither the frames nor the recording.
LEMMA DecodePlainKeeps ==
    ASSUME IInv, NEW t \in Threads,
           \/ CheckStop(t) \/ OpenSucceeds(t) \/ OpenFails(t) \/ MarkConnected(t)
           \/ StreamEnds(t) \/ DecodeRaises(t) \/ CheckStopInLoop(t) \/ MarkFailed(t)
           \/ CloseContainer(t) \/ MarkDisconnected(t) \/ Backoff(t) \/ Wake(t)
    PROVE  IInv'
<1> USE BoundsAssumption DEF IInv, TypeOK
<1>1. PICK to \in PCs \ {"unborn"} :
        /\ Alive(t)
        /\ pc' = [pc EXCEPT ![t] = to]
        /\ to \in {"frame", "storing"} => Carrying(t)
        /\ UNCHANGED <<inHand, sent, latest, lifecycleVars, recordVars>>
  BY DEF CheckStop, OpenSucceeds, OpenFails, MarkConnected, StreamEnds, DecodeRaises,
         CheckStopInLoop, MarkFailed, CloseContainer, MarkDisconnected, Backoff, Wake,
         Goto, KeepShared, PCs, Alive, Carrying
<1>2. connected' \in BOOLEAN /\ failed' \in BOOLEAN
  BY DEF CheckStop, OpenSucceeds, OpenFails, MarkConnected, StreamEnds, DecodeRaises,
         CheckStopInLoop, MarkFailed, CloseContainer, MarkDisconnected, Backoff, Wake,
         KeepShared, FlagsOK
<1>3. FlagsOK'
  BY <1>1, <1>2 DEF FlagsOK, lifecycleVars, recordVars
<1>4. DataOK'
  BY <1>1 DEF DataOK, lifecycleVars, recordVars
<1>5. LifecycleInv'
  BY <1>1 DEF DataOK, LifecycleInv, Alive, lifecycleVars
<1>6. FrameInv'
  BY <1>1 DEF DataOK, FrameInv, Carrying, Increasing, lifecycleVars, recordVars
<1>7. WriterInv'
  BY <1>1 DEF WriterInv, recordVars
<1> QED BY <1>3, <1>4, <1>5, <1>6, <1>7

\* A decoded frame is newer than everything stored so far.
LEMMA DecodeFrameKeeps ==
    ASSUME IInv, NEW t \in Threads, DecodeFrame(t)
    PROVE  IInv'
<1> USE BoundsAssumption DEF IInv, TypeOK
<1>1. /\ pc[t] = "decoding" /\ pc' = [pc EXCEPT ![t] = "frame"]
      /\ sent < MaxFrames /\ sent' = sent + 1
      /\ inHand' = [inHand EXCEPT ![t] = sent + 1]
      /\ UNCHANGED <<connected, failed, latest, lifecycleVars, recordVars>>
  BY DEF DecodeFrame, Goto, KeepShared
<1>2. FlagsOK'
  BY <1>1 DEF FlagsOK, lifecycleVars, recordVars
<1>3. DataOK'
  BY <1>1 DEF DataOK, PCs, lifecycleVars, recordVars
<1>4. LifecycleInv'
  BY <1>1 DEF DataOK, LifecycleInv, Alive, lifecycleVars
<1>5. FrameInv'
  BY <1>1 DEF DataOK, FrameInv, Carrying, Increasing, lifecycleVars, recordVars
<1>6. WriterInv'
  BY <1>1 DEF WriterInv, recordVars
<1> QED BY <1>2, <1>3, <1>4, <1>5, <1>6

\* Storing: with one thread alive, the frame in hand is newer than the
\* buffer and than every frame of every file.
LEMMA StoreFrameKeeps ==
    ASSUME IInv, NEW t \in Threads, StoreFrame(t)
    PROVE  IInv'
<1> USE BoundsAssumption DEF IInv, TypeOK
<1>1. /\ pc[t] = "storing" /\ pc' = [pc EXCEPT ![t] = "decoding"]
      /\ latest' = inHand[t]
      /\ UNCHANGED <<inHand, sent, connected, failed, lifecycleVars,
                     recording, recordFile, output>>
  BY DEF StoreFrame, Goto
<1>2. inHand[t] \in 1..MaxFrames
  BY <1>1 DEF DataOK, FrameInv, Carrying
<1>3. ASSUME NEW g \in Files
      PROVE  /\ file'[g] \in FileRecord
             /\ file'[g].state = file[g].state
             /\ \/ file'[g].frames = file[g].frames
                \/ file'[g].frames = Append(file[g].frames, inHand[t])
  <2>1. CASE UNCHANGED file
    BY <2>1 DEF DataOK
  <2>2. CASE /\ output \in Files
             /\ file' = [file EXCEPT ![output].frames = Append(@, inHand[t])]
    <3>1. file[g] \in FileRecord
      BY DEF DataOK
    <3>2. Append(file[g].frames, inHand[t]) \in Seq(1..MaxFrames)
      BY <3>1, <1>2 DEF FileRecord
    <3> QED BY <2>2, <3>1, <3>2 DEF DataOK, FileRecord
  <2> QED BY <2>1, <2>2 DEF StoreFrame, DataOK
<1>4. DOMAIN file' = Files /\ file' = [f \in Files |-> file'[f]]
  BY DEF StoreFrame, DataOK
<1>5. FlagsOK'
  BY <1>1 DEF FlagsOK, lifecycleVars
<1>6. DataOK'
  <2>1. file' \in [Files -> FileRecord]
    BY <1>3, <1>4
  <2> QED BY <1>1, <1>2, <2>1 DEF DataOK, PCs, lifecycleVars
<1>7. LifecycleInv'
  BY <1>1 DEF DataOK, LifecycleInv, Alive, lifecycleVars
<1>8. FrameInv'
  <2>1. latest' <= sent' /\ \A u \in Threads : inHand'[u] <= sent' /\ (Carrying(u)' => 1 <= inHand'[u])
    BY <1>1 DEF DataOK, FrameInv, Carrying
  <2>2. ASSUME ~lateJoin' PROVE \A u \in Threads : Carrying(u)' => latest' < inHand'[u]
    BY <1>1, <2>2 DEF DataOK, LifecycleInv, Alive, Carrying, lifecycleVars
  <2>3. ASSUME ~lateJoin', NEW f \in Files
        PROVE  /\ Increasing(file'[f].frames)
               /\ \A i \in 1..Len(file'[f].frames) : file'[f].frames[i] <= latest'
    <3>1. /\ file[f].frames \in Seq(Nat)
          /\ inHand[t] \in Nat
          /\ latest \in Nat
      BY <1>2 DEF DataOK, FileRecord
    <3>2. /\ Increasing(file[f].frames)
          /\ \A i \in 1..Len(file[f].frames) : file[f].frames[i] <= latest
          /\ latest < inHand[t]
      BY <1>1, <2>3 DEF FrameInv, Carrying, lifecycleVars
    <3>3. ASSUME NEW i \in 1..Len(file[f].frames)
          PROVE  file[f].frames[i] \in Nat /\ file[f].frames[i] < inHand[t]
      <4>1. file[f].frames[i] \in Nat
        BY <3>1
      <4>2. file[f].frames[i] <= latest
        BY <3>2
      <4> QED BY <3>1, <3>2, <4>1, <4>2
    <3>4. CASE file'[f].frames = file[f].frames
      BY <1>1, <3>2, <3>3, <3>1, <3>4 DEF Increasing
    <3>5. CASE file'[f].frames = Append(file[f].frames, inHand[t])
      <4>1. Increasing(file'[f].frames)
        BY <3>1, <3>2, <3>3, <3>5, AppendIncreasing
      <4>2. \A i \in 1..Len(file'[f].frames) : file'[f].frames[i] <= inHand[t]
        BY <3>1, <3>3, <3>5
      <4> QED BY <1>1, <4>1, <4>2
    <3> QED BY <1>3, <3>4, <3>5
  <2> QED BY <2>1, <2>2, <2>3 DEF FrameInv
<1>9. WriterInv'
  BY <1>1, <1>3 DEF DataOK, WriterInv
<1> QED BY <1>5, <1>6, <1>7, <1>8, <1>9

LEMMA StutterKeeps == IInv /\ UNCHANGED vars => IInv'
BY DEF IInv, TypeOK, FlagsOK, DataOK, LifecycleInv, FrameInv, WriterInv, Alive, Carrying,
   Increasing, vars, lifecycleVars, decodeVars, recordVars

LEMMA NextIInv == IInv /\ [Next]_vars => IInv'
<1> SUFFICES ASSUME IInv, [Next]_vars PROVE IInv'
  OBVIOUS
<1>1. CASE LifecycleStep \/ Reset \/ Shutdown
  BY <1>1, LifecycleKeeps, RecordingKeeps DEF LifecycleStep
<1>2. CASE StopRecording \/ \E f \in Files : StartRecording(f)
  BY <1>2, RecordingKeeps
<1>3. ASSUME NEW t \in Threads, DecodeStep(t) PROVE IInv'
  BY <1>3, DecodePlainKeeps, DecodeFrameKeeps, StoreFrameKeeps DEF DecodeStep
<1>4. CASE UNCHANGED vars
  BY <1>4, StutterKeeps
<1> QED BY <1>1, <1>2, <1>3, <1>4 DEF Next

LEMMA Invariance == Spec => []IInv
BY InitIInv, NextIInv, PTL DEF Spec

-----------------------------------------------------------------------------

\* The types, for every number of threads, frames and files.
THEOREM TypeCorrect == Spec => []TypeOK
<1>1. IInv => TypeOK
  BY DEF IInv
<1> QED BY <1>1, Invariance, PTL

\* While no join timed out there is one decode thread, so one RTSP connection.
THEOREM SingleConnection == Spec => []OneConnection
<1>1. IInv => OneConnection
  BY DEF IInv, LifecycleInv, OneConnection
<1> QED BY <1>1, Invariance, PTL

\* Recordings hold frames in camera order, across any number of resets.
THEOREM RecordingsInOrder == Spec => []RecordingInOrder
<1>1. IInv => RecordingInOrder
  BY DEF IInv, FrameInv, RecordingInOrder
<1> QED BY <1>1, Invariance, PTL

\* The live buffer never steps back to an older frame.
THEOREM BufferMonotonic == Spec => FramesNeverGoBack
<1>1. ASSUME IInv, [Next]_vars, ~lateJoin PROVE latest' >= latest
  <2>1. DataOK
    BY <1>1 DEF IInv, TypeOK
  <2>2. ASSUME NEW t \in Threads, StoreFrame(t) PROVE latest' >= latest
    BY <1>1, <2>1, <2>2 DEF IInv, FrameInv, StoreFrame, Goto, Carrying, DataOK
  <2>3. CASE ~\E t \in Threads : StoreFrame(t)
    <3>1. latest' = latest
      BY <1>1, <2>3 DEF Next, LifecycleStep, DecodeStep, Boot, Reset, Shutdown, BeginStop,
         JoinReturns, JoinTimesOut, CloseRecordingSafe, Restart, StartRecording,
         StopRecording, CheckStop, OpenSucceeds, OpenFails, MarkConnected, DecodeFrame,
         StreamEnds, DecodeRaises, CheckStopInLoop, MarkFailed, CloseContainer,
         MarkDisconnected, Backoff, Wake, KeepShared, vars, decodeVars
    <3> QED BY <2>1, <3>1 DEF DataOK
  <2> QED BY <2>2, <2>3
<1>2. IInv /\ [Next]_vars => [~lateJoin => latest' >= latest]_vars
  BY <1>1
<1> QED BY <1>2, Invariance, PTL DEF Spec, FramesNeverGoBack

-----------------------------------------------------------------------------
(* /camera/status: the flag against the threads.                           *)

\* What a decoding thread does to the flag and to its own place.
LEMMA FlagStep ==
    ASSUME NEW t \in Threads, DataOK, DecodeStep(t)
    PROVE  /\ UNCHANGED lifecycleVars
           /\ \A u \in Threads : u # t => pc'[u] = pc[u]
           /\ \/ connected' = connected /\ (Connected(t) <=> Connected(t)')
                 /\ (pc'[t] \in {"decoding", "frame", "storing"}
                       => pc[t] \in {"decoding", "frame", "storing"})
              \/ connected' = connected /\ pc'[t] = "except" /\ pc[t] = "opening"
              \/ connected' = TRUE /\ pc'[t] = "decoding"
              \/ connected' = FALSE /\ Alive(t) /\ pc'[t] \in {"finally", "backoff"}
           /\ Alive(t)
BY DEF DecodeStep, CheckStop, OpenSucceeds, OpenFails, MarkConnected, DecodeFrame, StreamEnds,
       DecodeRaises, CheckStopInLoop, StoreFrame, MarkFailed, CloseContainer, MarkDisconnected,
       Backoff, Wake, KeepShared, lifecycleVars, Goto, Connected, Alive, DataOK

\* Every step keeps it: the flag is set by a thread on its way in and cleared
\* by it on its way out.
LEMMA ConnectedStep ==
    ASSUME IInv, ConnectedMeansDecoding, [Next]_vars
    PROVE  ConnectedMeansDecoding'
<1> USE DEF IInv, TypeOK, ConnectedMeansDecoding
<1>1. CASE Boot \/ Restart
  BY <1>1 DEF Boot, Restart, Start, LifecycleInv, Connected, Alive, DataOK
<1>2. CASE JoinReturns \/ JoinTimesOut
  BY <1>2 DEF JoinReturns, JoinTimesOut, Alive, Connected, decodeVars
<1>3. CASE Reset \/ Shutdown \/ CloseRecordingSafe \/ StopRecording \/ UNCHANGED vars
  BY <1>3 DEF Reset, Shutdown, BeginStop, CloseRecordingSafe, StopRecording, Connected,
     vars, lifecycleVars, decodeVars
<1>4. ASSUME NEW f \in Files, StartRecording(f) PROVE ConnectedMeansDecoding'
  BY <1>4 DEF StartRecording, Connected, lifecycleVars, decodeVars
<1>5. ASSUME NEW t \in Threads, DecodeStep(t) PROVE ConnectedMeansDecoding'
  <2>1. lateJoin' = lateJoin /\ thread' = thread /\ (~lateJoin => t = thread)
    BY <1>5, FlagStep DEF lifecycleVars, LifecycleInv
  <2>2. thread \in Threads \/ thread = 0
    BY DEF DataOK, Threads
  <2>3. thread # 0 \/ lateJoin
    BY <2>1 DEF Threads
  <2>4. \A u \in Threads : u # t => pc'[u] = pc[u] /\ (~lateJoin => ~Alive(u))
    BY <1>5, <2>1, FlagStep DEF LifecycleInv
  <2>5. connected' => \E u \in Threads : Connected(u)'
    <3>1. CASE connected' = TRUE /\ pc'[t] = "decoding"
      BY <3>1 DEF Connected
    <3>2. CASE connected' = connected /\ (Connected(t) => Connected(t)')
      BY <2>4, <3>2 DEF Connected
    <3> QED BY <1>5, <3>1, <3>2, FlagStep DEF Connected
  <2>6. ~lateJoin' /\ connected' => thread' # 0 /\ Connected(thread)'
    BY <1>5, <2>1, <2>3, FlagStep DEF Connected
  <2>7. ASSUME ~lateJoin', NEW u \in Threads, pc'[u] \in {"decoding", "frame", "storing"}
        PROVE  connected'
    <3>1. u = t
      BY <2>1, <2>4, <2>7 DEF Alive
    <3> QED BY <1>5, <2>1, <2>7, <3>1, FlagStep
  <2> QED BY <2>5, <2>6, <2>7
<1> QED BY <1>1, <1>2, <1>3, <1>4, <1>5 DEF Next, LifecycleStep

\* Status tells the truth about the managed thread unless a join timed out, and
\* never says connected when no thread is.
THEOREM ConnectedIsTrue == Spec => []ConnectedMeansDecoding
<1>1. Init => ConnectedMeansDecoding
  BY DEF Init, ConnectedMeansDecoding
<1> QED BY <1>1, ConnectedStep, Invariance, PTL DEF Spec

-----------------------------------------------------------------------------
(* Refinement: the recording half of the camera implements Recorder.       *)

FileMap == [f \in Files |-> [state |-> file[f].state, size |-> Len(file[f].frames)]]

LEMMA MapInit == Init => Abstract!RecorderInit
BY DEF Init, Abstract!RecorderInit, Session

\* A new state for one file, seen through the mapping.
LEMMA MapSetState ==
    ASSUME NEW g \in Files, NEW s \in {"open", "closed", "damaged"},
           DataOK, file' = [file EXCEPT ![g].state = s]
    PROVE  /\ FileMap' = [FileMap EXCEPT ![g].state = s]
           /\ file'[g].state = s
           /\ FileMap[g].state = file[g].state
<1>1. /\ \A f \in Files : file'[f].frames = file[f].frames
      /\ \A f \in Files : file'[f].state = IF f = g THEN s ELSE file[f].state
  <2>1. file \in [Files -> FileRecord]
    BY DEF DataOK
  <2> QED BY <2>1, SetState
<1> QED BY <1>1 DEF FileMap

\* A flush and close, failed or not, is Finish, Break, Unstick or a stutter.
LEMMA MapClose ==
    ASSUME IInv, recording,
           \/ FlushAndClose /\ recording' = FALSE
           \/ FlushOrCloseRaises /\ recording' = recording
    PROVE  Abstract!RecorderNext \/ UNCHANGED Abstract!recorderVars
<1> USE DEF IInv, TypeOK
<1>1. CASE Session = "stuck" /\ FlushAndClose /\ recording' = FALSE
  <2>1. UNCHANGED file
    BY <1>1, BoundsAssumption DEF Session, FlushAndClose, WriterInv
  <2>2. Session' = "idle"
    BY <1>1 DEF Session
  <2>3. Abstract!Unstick
    BY <1>1, <2>1, <2>2 DEF Abstract!Unstick
  <2> QED BY <2>3 DEF Abstract!RecorderNext
<1>2. CASE Session = "stuck" /\ FlushOrCloseRaises /\ recording' = recording
  <2>1. output \in Files /\ file[output].state = "damaged"
    BY <1>2, BoundsAssumption DEF Session, FlushOrCloseRaises, WriterInv, DataOK
  <2>2. /\ FileMap' = [FileMap EXCEPT ![output].state = "damaged"]
        /\ file'[output].state = "damaged"
        /\ FileMap[output].state = file[output].state
    BY <1>2, <2>1, MapSetState DEF FlushOrCloseRaises
  <2>3. FileMap' = FileMap
    <3>1. file' = [file EXCEPT ![output].state = "damaged"]
      BY <1>2 DEF FlushOrCloseRaises
    <3>2. [file[output] EXCEPT !.state = "damaged"] = file[output]
      BY <2>1 DEF DataOK, FileRecord
    <3>3. file' = file
      BY <2>1, <3>1, <3>2 DEF DataOK
    <3> QED BY <3>3 DEF FileMap
  <2>4. Session' = "stuck"
    BY <1>2, <2>2 DEF Session, FlushOrCloseRaises
  <2> QED BY <1>2, <2>3, <2>4 DEF Abstract!recorderVars, FileMap
<1>3. CASE Session = "recording" /\ FlushAndClose /\ recording' = FALSE
  <2>0. output \in Files /\ file[output].state = "open"
    BY <1>3 DEF Session, DataOK
  <2>1. PICK g \in Files : g = output /\ file[g].state = "open"
    BY <2>0
  <2>2. file' = [file EXCEPT ![g].state = "closed"]
    BY <1>3, <2>1, BoundsAssumption DEF FlushAndClose
  <2>3. Session' = "idle"
    BY <1>3 DEF Session
  <2>4. Abstract!Finish(g)
    BY <1>3, <2>1, <2>2, <2>3, MapSetState DEF Abstract!Finish, FileMap
  <2> QED BY <2>1, <2>4 DEF Abstract!RecorderNext
<1>4. CASE Session = "recording" /\ FlushOrCloseRaises /\ recording' = recording
  <2>0. output \in Files /\ file[output].state = "open"
    BY <1>4 DEF Session, DataOK
  <2>1. PICK g \in Files : g = output /\ file[g].state = "open"
    BY <2>0
  <2>2. file' = [file EXCEPT ![g].state = "damaged"]
    BY <1>4, <2>1 DEF FlushOrCloseRaises
  <2>3. file'[g].state = "damaged"
    BY <2>1, <2>2, MapSetState
  <2>4. Session' = "stuck"
    BY <1>4, <2>1, <2>3 DEF Session, FlushOrCloseRaises
  <2>5. Abstract!Break(g)
    BY <1>4, <2>1, <2>2, <2>4, MapSetState DEF Abstract!Break, FileMap
  <2> QED BY <2>1, <2>5 DEF Abstract!RecorderNext
<1>5. Session \in {"stuck", "recording"}
  BY DEF Session
<1> QED BY <1>1, <1>2, <1>3, <1>4, <1>5

LEMMA MapStart ==
    ASSUME IInv, NEW f \in Files, StartRecording(f)
    PROVE  Abstract!Begin(f)
<1> USE DEF IInv, TypeOK
<1>1. /\ ~recording /\ recording' = TRUE /\ output' = f
      /\ file[f].state = "absent"
      /\ file' = [file EXCEPT ![f].state = "open"]
  BY DEF StartRecording
<1>2. FileMap' = [FileMap EXCEPT ![f].state = "open"] /\ file'[f].state = "open"
  BY <1>1, MapSetState
<1>3. Session = "idle" /\ Session' = "recording"
  BY <1>1, <1>2, BoundsAssumption DEF Session
<1> QED BY <1>1, <1>2, <1>3 DEF Abstract!Begin, FileMap

\* A stored frame makes the open file one frame longer, or changes nothing.
LEMMA MapStore ==
    ASSUME IInv, NEW t \in Threads, StoreFrame(t)
    PROVE  (\E f \in Files : Abstract!Grow(f)) \/ UNCHANGED Abstract!recorderVars
<1> USE DEF IInv, TypeOK
<1>1. CASE UNCHANGED file
  BY <1>1 DEF StoreFrame, Abstract!recorderVars, Session
<1>2. CASE /\ recording /\ output # NoFile
           /\ file[output].state = "open"
           /\ file' = [file EXCEPT ![output].frames = Append(@, inHand[t])]
  <2>1. output \in Files /\ output' = output /\ recording' = recording
    BY <1>2 DEF DataOK, StoreFrame
  <2>2. file \in [Files -> FileRecord]
    BY DEF DataOK
  <2>3. /\ Len(file'[output].frames) = Len(file[output].frames) + 1
        /\ \A f \in Files : file'[f].state = file[f].state
        /\ \A f \in Files \ {output} : file'[f] = file[f]
    BY <1>2, <2>1, <2>2 DEF FileRecord
  <2>4. FileMap' = [FileMap EXCEPT ![output].size = @ + 1]
    BY <2>1, <2>3 DEF FileMap
  <2>5. Session = "recording" /\ Session' = "recording"
    BY <1>2, <2>1, <2>3 DEF Session
  <2>6. PICK g \in Files : g = output
    BY <2>1
  <2>7. Abstract!Grow(g)
    BY <1>2, <2>4, <2>5, <2>6 DEF Abstract!Grow, FileMap
  <2> QED BY <2>7
<1> QED BY <1>1, <1>2 DEF StoreFrame

LEMMA MapStep ==
    ASSUME IInv, [Next]_vars
    PROVE  [Abstract!RecorderNext]_(Abstract!recorderVars)
<1>1. CASE UNCHANGED recordVars
  BY <1>1 DEF recordVars, Abstract!recorderVars, Session
<1>2. ASSUME NEW f \in Files, StartRecording(f) PROVE Abstract!RecorderNext
  BY <1>2, MapStart DEF Abstract!RecorderNext
<1>3. ASSUME NEW t \in Threads, StoreFrame(t)
      PROVE  Abstract!RecorderNext \/ UNCHANGED Abstract!recorderVars
  BY <1>3, MapStore DEF Abstract!RecorderNext
<1>4. CASE CloseRecordingSafe
  <2>1. CASE ~recording
    <3>1. UNCHANGED recordVars
      BY <1>4, <2>1 DEF CloseRecordingSafe, recordVars
    <3> QED BY <1>1, <3>1
  <2>2. CASE recording
    <3>1. \/ FlushAndClose /\ recording' = FALSE
          \/ FlushOrCloseRaises /\ recording' = recording
      BY <1>4, <2>2, Zenon DEF CloseRecordingSafe
    <3> QED BY <2>2, <3>1, MapClose
  <2> QED BY <2>1, <2>2
<1>5. CASE StopRecording
  <2>1. \/ FlushAndClose /\ recording' = FALSE
        \/ FlushOrCloseRaises /\ recording' = recording
    BY <1>5, Zenon DEF StopRecording
  <2> QED BY <1>5, <2>1, MapClose DEF StopRecording
<1>6. CASE \/ Boot \/ Reset \/ Shutdown \/ JoinReturns \/ JoinTimesOut \/ Restart
          \/ UNCHANGED vars
  BY <1>1, <1>6 DEF Boot, Reset, Shutdown, BeginStop, JoinReturns, JoinTimesOut, Restart, vars
<1>7. ASSUME NEW t \in Threads, DecodeStep(t), ~StoreFrame(t)
      PROVE  UNCHANGED recordVars
  BY <1>7 DEF DecodeStep, CheckStop, OpenSucceeds, OpenFails, MarkConnected, DecodeFrame,
     StreamEnds, DecodeRaises, CheckStopInLoop, MarkFailed, CloseContainer,
     MarkDisconnected, Backoff, Wake, KeepShared
<1> QED BY <1>1, <1>2, <1>3, <1>4, <1>5, <1>6, <1>7 DEF Next, LifecycleStep

\* For any number of threads, frames and files, and with joins timing out or
\* not, the camera's recordings behave as Recorder promises.
THEOREM RecorderRefinement == Spec => ImplementsRecorder
BY MapInit, MapStep, Invariance, PTL DEF Spec, ImplementsRecorder, Abstract!RecorderSpec
=============================================================================
