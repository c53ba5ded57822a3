----------------------------- MODULE RTSPCamera -----------------------------
(***************************************************************************)
(* camera/app/camera/service.py: RTSPCamera.  Two kinds of threads share   *)
(* the object.  The event-loop thread runs the handlers of router.py and   *)
(* main.py's lifespan, one at a time: start, stop, reset, start_recording, *)
(* stop_recording.  A background decode thread connects, decodes, stores   *)
(* the latest frame and feeds the recording.  stop() joins that thread for *)
(* at most ten seconds, so a slow one can outlive it: JoinTimesOut, which  *)
(* lateJoin remembers.                                                     *)
(*                                                                         *)
(* Every `with self._lock` block is one action: nothing in it waits.       *)
(* Frames are numbered in the order the camera sends them.                 *)
(***************************************************************************)
EXTENDS Naturals, Sequences

CONSTANTS
    MaxThreads,     \* bound: decode threads started over the run
    MaxFrames,      \* bound: frames the camera sends
    Files,          \* names generate_filename() returns, each used once
    NoFile          \* Python's None

ASSUME BoundsAssumption ==
    /\ MaxThreads \in Nat
    /\ MaxFrames \in Nat
    /\ NoFile \notin Files

Threads == 1..MaxThreads

VARIABLES
    op,         \* what the event-loop thread is doing
    stopEvent,  \* _stop_event
    thread,     \* _thread: a thread number, 0 for None
    started,    \* how many decode threads were created
    pc,         \* where each decode thread is in _run
    inHand,     \* the decoded frame each thread is carrying
    sent,       \* the last frame the camera sent
    connected,  \* _connected
    failed,     \* _last_error is not None
    latest,     \* _latest_jpeg, with its time and size (0: None)
    recording,  \* _recording
    recordFile, \* _record_filename, with its start time
    output,     \* _out_container and _out_stream
    file,       \* the recordings directory
    lateJoin    \* history: some join of stop() ran into its timeout

lifecycleVars == <<op, stopEvent, thread, started, lateJoin>>
decodeVars    == <<pc, inHand, sent, connected, failed, latest>>
recordVars    == <<recording, recordFile, output, file>>
vars == <<lifecycleVars, decodeVars, recordVars>>

PCs == {"unborn", "top", "opening", "opened", "decoding", "frame", "storing",
        "except", "finally", "closed", "backoff", "sleeping", "dead"}
Ops == {"boot", "serving", "joinReset", "closeReset", "startReset",
        "joinExit", "closeExit", "exited"}

FileRecord == [state : {"absent", "open", "closed", "damaged"},
               frames : Seq(1..MaxFrames)]

Alive(t) == pc[t] \notin {"unborn", "dead"}

\* From the handshake in av.open to container.close() in the finally block.
HoldsConnection(t) ==
    pc[t] \in {"opening", "opened", "decoding", "frame", "storing", "except", "finally"}

FlagsOK ==
    /\ stopEvent \in BOOLEAN
    /\ connected \in BOOLEAN
    /\ failed \in BOOLEAN
    /\ recording \in BOOLEAN
    /\ lateJoin \in BOOLEAN

DataOK ==
    /\ op \in Ops
    /\ thread \in 0..MaxThreads
    /\ started \in 0..MaxThreads
    /\ pc \in [Threads -> PCs]
    /\ inHand \in [Threads -> 0..MaxFrames]
    /\ sent \in 0..MaxFrames
    /\ latest \in 0..MaxFrames
    /\ recordFile \in Files \cup {NoFile}
    /\ output \in Files \cup {NoFile}
    /\ file \in [Files -> FileRecord]

TypeOK == FlagsOK /\ DataOK

Init ==
    /\ op = "boot"
    /\ stopEvent = FALSE
    /\ thread = 0
    /\ started = 0
    /\ pc = [t \in Threads |-> "unborn"]
    /\ inHand = [t \in Threads |-> 0]
    /\ sent = 0
    /\ connected = FALSE
    /\ failed = FALSE
    /\ latest = 0
    /\ recording = FALSE
    /\ recordFile = NoFile
    /\ output = NoFile
    /\ file = [f \in Files |-> [state |-> "absent", frames |-> <<>>]]
    /\ lateJoin = FALSE

-----------------------------------------------------------------------------
(* The lifecycle, on the event-loop thread.                                *)

\* start(): a no-op while the current thread lives.
Start ==
    IF thread # 0 /\ Alive(thread)
    THEN UNCHANGED <<stopEvent, thread, started, pc>>
    ELSE /\ stopEvent' = FALSE
         /\ thread' = started + 1
         /\ started' = started + 1
         /\ pc' = [pc EXCEPT ![started + 1] = "top"]

\* main.py's lifespan starts the camera before serving.
Boot ==
    /\ op = "boot"
    /\ started < MaxThreads
    /\ Start
    /\ op' = "serving"
    /\ UNCHANGED <<inHand, sent, connected, failed, latest, recordVars, lateJoin>>

\* POST /camera/reset and the end of the lifespan both enter stop().
BeginStop(next) ==
    /\ op = "serving"
    /\ stopEvent' = TRUE
    /\ op' = next
    /\ UNCHANGED <<thread, started, lateJoin, decodeVars, recordVars>>

Reset == started < MaxThreads /\ BeginStop("joinReset")
Shutdown == BeginStop("joinExit")

Joining == op \in {"joinReset", "joinExit"}
AfterJoin == IF op = "joinReset" THEN "closeReset" ELSE "closeExit"

\* Mutation: the join is dropped.
JoinSkipped ==
    /\ Joining
    /\ thread' = 0
    /\ op' = AfterJoin
    /\ UNCHANGED <<stopEvent, started, lateJoin, decodeVars, recordVars>>

JoinReturns ==
    /\ Joining
    /\ thread # 0 => ~Alive(thread)
    /\ thread' = 0
    /\ op' = AfterJoin
    /\ UNCHANGED <<stopEvent, started, lateJoin, decodeVars, recordVars>>

\* The calls that may outlast the join: av.open and a read, each with its own
\* ten-second timeout, and container.close().
InNetworkCall(t) == pc[t] \in {"opening", "decoding", "finally"}

\* Mutation: the event is cleared with the thread instead of by start().
JoinGivesUp ==
    /\ Joining
    /\ thread # 0 /\ InNetworkCall(thread)
    /\ thread' = 0 /\ stopEvent' = FALSE
    /\ lateJoin' = TRUE
    /\ op' = AfterJoin
    /\ UNCHANGED <<started, decodeVars, recordVars>>

\* join(timeout=10) returns with the thread still alive; stop() goes on.
JoinTimesOut ==
    /\ Joining
    /\ thread # 0 /\ InNetworkCall(thread)
    /\ thread' = 0
    /\ lateJoin' = TRUE
    /\ op' = AfterJoin
    /\ UNCHANGED <<stopEvent, started, decodeVars, recordVars>>

-----------------------------------------------------------------------------
(* Recording.  _flush_and_close_output_locked has three outcomes: it       *)
(* succeeds, the flush raises (the finally block still closes and forgets  *)
(* the container), or close() itself raises and the container stays set.   *)

FlushAndClose ==
    /\ output' = NoFile
    /\ file' = IF output = NoFile \/ file[output].state = "damaged" THEN file
               ELSE [file EXCEPT ![output].state = "closed"]

FlushOrCloseRaises ==
    /\ output # NoFile
    /\ output' \in {NoFile, output}
    /\ file' = [file EXCEPT ![output].state = "damaged"]

\* Mutation: _recording is cleared and the muxer is left open.
CloseWithoutFlush ==
    /\ op \in {"closeReset", "closeExit"}
    /\ recording' = FALSE
    /\ op' = IF op = "closeReset" THEN "startReset" ELSE "exited"
    /\ UNCHANGED <<stopEvent, thread, started, lateJoin, decodeVars, recordFile,
                   output, file>>

\* Mutation: reset() does not start again after it closed a recording.
CloseAndStay ==
    /\ op \in {"closeReset", "closeExit"}
    /\ recording => FlushAndClose
    /\ ~recording => UNCHANGED <<output, file>>
    /\ recording' = FALSE
    /\ op' = IF op = "closeExit" THEN "exited"
             ELSE IF recording THEN "serving" ELSE "startReset"
    /\ UNCHANGED <<stopEvent, thread, started, lateJoin, decodeVars, recordFile>>

\* The end of stop(): close any recording, then exit or (reset) start again.
\* The filename is not forgotten.  An exception leaves reset() before start().
CloseRecordingSafe ==
    /\ op \in {"closeReset", "closeExit"}
    /\ \/ /\ ~recording
          /\ op' = IF op = "closeReset" THEN "startReset" ELSE "exited"
          /\ UNCHANGED <<recording, output, file>>
       \/ /\ recording
          /\ FlushAndClose
          /\ recording' = FALSE
          /\ op' = IF op = "closeReset" THEN "startReset" ELSE "exited"
       \/ /\ recording
          /\ FlushOrCloseRaises
          /\ UNCHANGED recording
          /\ op' = IF op = "closeReset" THEN "serving" ELSE "exited"
    /\ UNCHANGED <<stopEvent, thread, started, lateJoin, decodeVars, recordFile>>

\* The second half of reset().
Restart ==
    /\ op = "startReset"
    /\ Start
    /\ op' = "serving"
    /\ UNCHANGED <<inHand, sent, connected, failed, latest, recordVars, lateJoin>>

StartRecording(f) ==
    /\ op = "serving"
    /\ ~recording
    /\ file[f].state = "absent"
    /\ recording' = TRUE
    /\ recordFile' = f
    /\ output' = f
    /\ file' = [file EXCEPT ![f].state = "open"]
    /\ UNCHANGED <<lifecycleVars, decodeVars>>

StopRecording ==
    /\ op = "serving"
    /\ recording
    /\ \/ /\ FlushAndClose
          /\ recording' = FALSE
          /\ recordFile' = NoFile
       \/ /\ FlushOrCloseRaises
          /\ UNCHANGED <<recording, recordFile>>
    /\ UNCHANGED <<lifecycleVars, decodeVars>>

-----------------------------------------------------------------------------
(* A decode thread: _run and _process_frame.                               *)

Goto(t, from, to) ==
    /\ pc[t] = from
    /\ pc' = [pc EXCEPT ![t] = to]

KeepShared == UNCHANGED <<connected, failed, latest, lifecycleVars, recordVars>>

\* while not self._stop_event.is_set(), evaluated again after every sleep.
CheckStop(t) ==
    /\ Goto(t, "top", IF stopEvent THEN "dead" ELSE "opening")
    /\ KeepShared /\ UNCHANGED <<inHand, sent>>

OpenSucceeds(t) ==
    /\ Goto(t, "opening", "opened")
    /\ KeepShared /\ UNCHANGED <<inHand, sent>>

OpenFails(t) ==
    /\ Goto(t, "opening", "except")
    /\ KeepShared /\ UNCHANGED <<inHand, sent>>

MarkConnected(t) ==
    /\ Goto(t, "opened", "decoding")
    /\ connected' = TRUE
    /\ failed' = FALSE
    /\ UNCHANGED <<inHand, sent, latest, lifecycleVars, recordVars>>

\* The next frame of the stream reaches this thread's decoder.
DecodeFrame(t) ==
    /\ Goto(t, "decoding", "frame")
    /\ sent < MaxFrames
    /\ sent' = sent + 1
    /\ inHand' = [inHand EXCEPT ![t] = sent + 1]
    /\ KeepShared

StreamEnds(t) ==
    /\ Goto(t, "decoding", "finally")
    /\ KeepShared /\ UNCHANGED <<inHand, sent>>

\* Decoding raises, or encoding the JPEG does.
DecodeRaises(t) ==
    /\ Goto(t, "decoding", "except") \/ Goto(t, "storing", "except")
    /\ KeepShared /\ UNCHANGED <<inHand, sent>>

\* if self._stop_event.is_set(): break
CheckStopInLoop(t) ==
    /\ Goto(t, "frame", IF stopEvent THEN "finally" ELSE "storing")
    /\ KeepShared /\ UNCHANGED <<inHand, sent>>

\* Mutation: the frame is muxed a second time.
StoreFrameTwice(t) ==
    /\ Goto(t, "storing", "decoding")
    /\ latest' = inHand[t]
    /\ file' = IF recording /\ output # NoFile /\ file[output].state = "open"
               THEN [file EXCEPT ![output].frames = @ \o <<inHand[t], inHand[t]>>]
               ELSE file
    /\ UNCHANGED <<inHand, sent, connected, failed, lifecycleVars,
                   recording, recordFile, output>>

\* _process_frame's locked half: publish the frame and feed the recording.
\* A failed write is logged and swallowed.
StoreFrame(t) ==
    /\ Goto(t, "storing", "decoding")
    /\ latest' = inHand[t]
    /\ \/ UNCHANGED file
       \/ /\ recording /\ output # NoFile
          /\ file[output].state = "open"
          /\ file' = [file EXCEPT ![output].frames = Append(@, inHand[t])]
    /\ UNCHANGED <<inHand, sent, connected, failed, lifecycleVars,
                   recording, recordFile, output>>

\* Mutation: the exception ends the thread.
FailureEscapes(t) ==
    /\ Goto(t, "except", "dead")
    /\ connected' = FALSE
    /\ failed' = TRUE
    /\ UNCHANGED <<inHand, sent, latest, lifecycleVars, recordVars>>

MarkFailed(t) ==
    /\ Goto(t, "except", "finally")
    /\ connected' = FALSE
    /\ failed' = TRUE
    /\ UNCHANGED <<inHand, sent, latest, lifecycleVars, recordVars>>

CloseContainer(t) ==
    /\ Goto(t, "finally", "closed")
    /\ KeepShared /\ UNCHANGED <<inHand, sent>>

\* Mutation: the flag is left as it was.
ForgetDisconnect(t) ==
    /\ Goto(t, "closed", "backoff")
    /\ KeepShared /\ UNCHANGED <<inHand, sent>>

MarkDisconnected(t) ==
    /\ Goto(t, "closed", "backoff")
    /\ connected' = FALSE
    /\ UNCHANGED <<inHand, sent, failed, latest, lifecycleVars, recordVars>>

\* if not self._stop_event.is_set(): time.sleep(RECONNECT_DELAY_SECONDS)
Backoff(t) ==
    /\ Goto(t, "backoff", IF stopEvent THEN "top" ELSE "sleeping")
    /\ KeepShared /\ UNCHANGED <<inHand, sent>>

Wake(t) ==
    /\ Goto(t, "sleeping", "top")
    /\ KeepShared /\ UNCHANGED <<inHand, sent>>

DecodeStep(t) ==
    \/ CheckStop(t) \/ OpenSucceeds(t) \/ OpenFails(t) \/ MarkConnected(t)
    \/ DecodeFrame(t) \/ StreamEnds(t) \/ DecodeRaises(t) \/ CheckStopInLoop(t)
    \/ StoreFrame(t) \/ MarkFailed(t) \/ CloseContainer(t) \/ MarkDisconnected(t)
    \/ Backoff(t) \/ Wake(t)

-----------------------------------------------------------------------------

LifecycleStep ==
    Boot \/ JoinReturns \/ JoinTimesOut \/ CloseRecordingSafe \/ Restart

Next ==
    \/ LifecycleStep \/ Reset \/ Shutdown
    \/ \E f \in Files : StartRecording(f)
    \/ StopRecording
    \/ \E t \in Threads : DecodeStep(t)

(***************************************************************************)
(* Threads are scheduled; join, open and decode all carry timeouts.  The   *)
(* strong fairness is about the network: a camera that is asked again and  *)
(* again answers some time.  No request is ever promised.                  *)
(***************************************************************************)
Fairness ==
    /\ WF_vars(LifecycleStep)
    /\ \A t \in Threads : WF_vars(DecodeStep(t)) /\ SF_vars(OpenSucceeds(t))

Spec == Init /\ [][Next]_vars
FairSpec == Spec /\ Fairness

-----------------------------------------------------------------------------
(* Properties.                                                             *)

\* While every join of stop() came back in time, no two decode threads are
\* alive, so at most one RTSP connection is open or being opened
\* (service.py:6-8).
OneConnection ==
    ~lateJoin => \A t, u \in Threads : Alive(t) /\ Alive(u) => t = u

\* service.py:7 without the condition: "exactly ONE RTSP connection, ever".
OneConnectionEver ==
    \A t, u \in Threads : HoldsConnection(t) /\ HoldsConnection(u) => t = u

\* From the moment the flag is set for a connection to the moment it is cleared.
Connected(t) ==
    pc[t] \in {"decoding", "frame", "storing", "except", "finally", "closed"}

\* /camera/status never says connected unless a thread is inside its connection,
\* however many there are.  While every join came back in time that thread is the
\* one the camera manages (so never once stop() returned), and the other way
\* round: while it delivers frames, status does not say it was disconnected.
ConnectedMeansDecoding ==
    /\ connected => \E t \in Threads : Connected(t)
    /\ ~lateJoin /\ connected => thread # 0 /\ Connected(thread)
    /\ ~lateJoin => \A t \in Threads : pc[t] \in {"decoding", "frame", "storing"} => connected

Increasing(s) == \A i, j \in 1..Len(s) : i < j => s[i] < s[j]

\* A recording holds camera frames in camera order, none twice, although a
\* reset may replace the thread that writes it.
RecordingInOrder == ~lateJoin => \A f \in Files : Increasing(file[f].frames)

\* The shared buffer never steps back to an older frame, over reconnects and
\* resets too (_latest_jpeg, service.py:249-250).
FramesNeverGoBack == [][~lateJoin => latest' >= latest]_vars

\* A running camera that nobody stops gets its connection back after any
\* failure (the reconnect loop, service.py:210-239).
Reconnects ==
    \A t \in Threads : thread = t /\ ~stopEvent ~> connected \/ stopEvent

\* A stop is final until the next start: a camera that stays without a thread
\* comes to have none alive and to say that it is not connected, although a
\* thread that outlived the join is forgotten, and still on its way.  (The exit
\* and a reset that raised before start() leave it without one.)
StopIsFinal ==
    <>[](op # "boot" /\ thread = 0) => <>[](~connected /\ \A t \in Threads : ~Alive(t))

Session ==
    IF ~recording THEN "idle"
    ELSE IF output # NoFile /\ file[output].state = "open" THEN "recording" ELSE "stuck"

\* A reset, once begun, is over in bounded time (the join has a timeout) and
\* leaves a started thread, unless closing the recording raised before start().
ResetRestarts ==
    op = "joinReset" ~> op = "serving" /\ (thread # 0 \/ Session = "stuck")

\* The recording half implements Recorder.
Abstract == INSTANCE Recorder WITH
    session <- Session,
    file <- [f \in Files |-> [state |-> file[f].state, size |-> Len(file[f].frames)]]

ImplementsRecorder == Abstract!RecorderSpec
=============================================================================
