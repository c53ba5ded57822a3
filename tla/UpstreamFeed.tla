---------------------------- MODULE UpstreamFeed ----------------------------
(***************************************************************************)
(* The way of a picture from the camera service to the detection pipeline: *)
(* the buffer of the camera, the generator behind GET /video, the bytes on *)
(* the connection, the parser RatSentinelStreamClient.frames, and the loop *)
(* of DetectionPipeline.run_forever, which connects again for ever.        *)
(*                                                                         *)
(* Pictures are numbered in the order in which the camera stores them (see *)
(* FramesNeverGoBack in RTSPCamera); storing a picture with the very bytes *)
(* of the one before is no step.  What a connection carries is cut into    *)
(* chunks anywhere.  Late joins, recording and the work of a frame are in  *)
(* RTSPCamera and DetectionPipeline.                                       *)
(***************************************************************************)
EXTENDS Integers, SequencesExt

CONSTANTS
    MaxFrames,      \* bound: pictures
    MaxFailures,    \* bound: failures
    HighWater       \* the server waits while more than this is in transit

ASSUME FeedAssumption ==
    /\ MaxFrames \in Nat
    /\ MaxFailures \in Nat
    /\ HighWater \in Nat

VARIABLES
    newest,     \* the last picture stored, 0 before the first
    latest,     \* get_frame(): newest, or 0 after the service restarted
    running,    \* is_running()
    server,     \* the generator of the pipeline's request
    lastSent,   \* its last_sent
    wire,       \* what it sent and the client has not read
    at,         \* where run_forever is
    buffer,     \* the parser's buffer
    hand,       \* the picture being processed
    handled,    \* the last picture processed on this connection
    failures,
    sent,       \* history: the pictures sent on this connection
    yielded     \* history: the pictures the parser made of them

cameraVars == <<newest, latest, running>>
serverVars == <<server, lastSent, wire, sent>>
clientVars == <<at, buffer, hand, handled, yielded>>
vars == <<cameraVars, serverVars, clientVars, failures>>

-----------------------------------------------------------------------------
(* Bytes.  A picture's own bytes hold no marker and stand as its number;   *)
(* boundary and header lines are Text.                                     *)

Text == 0
FF == -1
D8 == -2
D9 == -3

Jpeg(n) == <<FF, D8, n, FF, D9>>
Part(n) == <<Text, Text>> \o Jpeg(n) \o <<Text>>

\* Where the marker FF m begins in b, from index i on.
Markers(b, m, i) == {k \in i..(Len(b) - 1) : b[k] = FF /\ b[k + 1] = m}

Suffix(b, i) == SubSeq(b, i, Len(b))

\* Mutation: nothing is kept of what has no start of a frame.
ParsedNoTail(b) ==
    LET starts == Markers(b, D8, 1)
        s == Min(starts)
        ends == Markers(b, D9, s + 2)
    IN  CASE starts = {} -> [rest |-> <<>>, frame |-> <<>>]
          [] starts # {} /\ ends = {} -> [rest |-> Suffix(b, s), frame |-> <<>>]
          [] OTHER -> [rest |-> Suffix(b, Min(ends) + 2), frame |-> SubSeq(b, s, Min(ends) + 1)]

\* Mutation: what has no start of a frame is kept whole.
ParsedKeepsAll(b) ==
    LET starts == Markers(b, D8, 1)
        s == Min(starts)
        ends == Markers(b, D9, s + 2)
    IN  CASE starts = {} -> [rest |-> b, frame |-> <<>>]
          [] starts # {} /\ ends = {} -> [rest |-> Suffix(b, s), frame |-> <<>>]
          [] OTHER -> [rest |-> Suffix(b, Min(ends) + 2), frame |-> SubSeq(b, s, Min(ends) + 1)]

\* One round of the parser's inner loop: what it leaves in the buffer, and the
\* frame it found, if it did.
Parsed(b) ==
    LET starts == Markers(b, D8, 1)
        s == Min(starts)
        ends == Markers(b, D9, s + 2)
    IN  CASE starts = {} ->
                [rest |-> IF Len(b) > 2 THEN Suffix(b, Len(b) - 1) ELSE b, frame |-> <<>>]
          [] starts # {} /\ ends = {} ->
                [rest |-> Suffix(b, s), frame |-> <<>>]
          [] OTHER ->
                [rest |-> Suffix(b, Min(ends) + 2), frame |-> SubSeq(b, s, Min(ends) + 1)]

\* What imdecode makes of a frame, 0 for None.
Decoded(frame) == IF Len(frame) = 5 /\ frame = Jpeg(frame[3]) THEN frame[3] ELSE 0

-----------------------------------------------------------------------------
Pictures == 1..MaxFrames
Byte == {Text, FF, D8, D9} \cup Pictures

TypeOK ==
    /\ newest \in 0..MaxFrames
    /\ latest \in {0, newest}
    /\ running \in BOOLEAN
    /\ server \in {"none", "serving", "ended", "broken"}
    /\ lastSent \in 0..newest
    /\ wire \in Seq(Byte)
    /\ at \in {"idle", "reading", "processing", "backoff", "stopped"}
    /\ buffer \in Seq(Byte)
    /\ at = "reading" => Len(buffer) < 5 /\ (Len(buffer) <= 2 \/ Markers(buffer, D8, 1) = {1})
    /\ hand \in 0..newest /\ handled \in 0..newest
    /\ failures \in 0..MaxFailures
    /\ sent \in Seq(Pictures) /\ yielded \in Seq(0..MaxFrames)

Init ==
    /\ newest = 0 /\ latest = 0 /\ running = TRUE
    /\ server = "none" /\ lastSent = 0 /\ wire = <<>> /\ sent = <<>>
    /\ at = "idle"
    /\ buffer = <<>> /\ hand = 0 /\ handled = 0 /\ yielded = <<>>
    /\ failures = 0

-----------------------------------------------------------------------------
(* The camera.                                                             *)

Store ==
    /\ running /\ newest < MaxFrames
    /\ newest' = newest + 1 /\ latest' = newest + 1
    /\ UNCHANGED <<running, serverVars, clientVars, failures>>

Fail ==
    /\ failures < MaxFailures
    /\ failures' = failures + 1

\* A reset whose stop raised leaves the decode thread stopped; the next one
\* starts it.  The buffer keeps its picture.
CameraStops ==
    /\ running /\ Fail
    /\ running' = FALSE
    /\ UNCHANGED <<newest, latest, serverVars, clientVars>>

CameraStarts ==
    /\ ~running
    /\ running' = TRUE
    /\ UNCHANGED <<newest, latest, serverVars, clientVars, failures>>

-----------------------------------------------------------------------------
(* GET /video, and the connection.                                         *)

Serving == server = "serving"

\* Mutation: last_sent is not remembered.
SendFrameAgain ==
    /\ Serving /\ running /\ Len(wire) <= HighWater
    /\ latest \notin {0, lastSent}
    /\ wire' = wire \o Part(latest)
    /\ sent' = Append(sent, latest)
    /\ UNCHANGED <<cameraVars, server, lastSent, clientVars, failures>>

SendFrame ==
    /\ Serving /\ running /\ Len(wire) <= HighWater
    /\ latest \notin {0, lastSent}
    /\ lastSent' = latest
    /\ wire' = wire \o Part(latest)
    /\ sent' = Append(sent, latest)
    /\ UNCHANGED <<cameraVars, server, clientVars, failures>>

\* The generator returns, and the response ends like any other.
EndVideo ==
    /\ Serving /\ ~running /\ Len(wire) <= HighWater
    /\ server' = "ended"
    /\ UNCHANGED <<cameraVars, lastSent, wire, sent, clientVars, failures>>

\* The connection breaks; the client may still read some of what was in transit.
Broken ==
    /\ server' = IF server = "none" THEN "none" ELSE "broken"
    /\ \E k \in 0..Len(wire) : wire' = SubSeq(wire, 1, k)
    /\ UNCHANGED <<lastSent, sent>>

Break ==
    /\ server \in {"serving", "ended"}
    /\ Fail /\ Broken
    /\ UNCHANGED <<cameraVars, clientVars>>

\* The camera service restarts.
RestartCamera ==
    /\ Fail /\ Broken
    /\ running' = TRUE /\ latest' = 0
    /\ UNCHANGED <<newest, clientVars>>

-----------------------------------------------------------------------------
(* run_forever, over FrameSource.frames and RatSentinelStreamClient.frames.*)

Connect ==
    /\ at = "idle"
    /\ at' = "reading"
    /\ server' = "serving"
    /\ UNCHANGED <<cameraVars, lastSent, wire, sent, buffer, hand, handled, yielded, failures>>

\* Refused, timed out, or answered with an error.
ConnectFails ==
    /\ at = "idle" /\ Fail
    /\ at' = "backoff"
    /\ UNCHANGED <<cameraVars, serverVars, buffer, hand, handled, yielded>>

Wake ==
    /\ at = "backoff"
    /\ at' = "idle"
    /\ UNCHANGED <<cameraVars, serverVars, buffer, hand, handled, yielded, failures>>

\* Parses on from what the buffer then holds, until a frame is found or more
\* is to be read.  FrameSource skips a frame that does not decode.
Continue(b) ==
    LET found == Parsed(b) IN
    /\ buffer' = found.rest
    /\ IF found.frame = <<>>
       THEN at' = "reading" /\ hand' = 0 /\ UNCHANGED yielded
       ELSE /\ at' = "processing"
            /\ hand' = Decoded(found.frame)
            /\ yielded' = Append(yielded, hand')

ReadChunk ==
    /\ at = "reading"
    /\ \E k \in 1..Len(wire) :
          /\ Continue(buffer \o SubSeq(wire, 1, k))
          /\ wire' = Suffix(wire, k + 1)
    /\ UNCHANGED <<cameraVars, server, lastSent, sent, handled, failures>>

Process ==
    /\ at = "processing"
    /\ handled' = IF hand = 0 THEN handled ELSE hand
    /\ Continue(buffer)
    /\ UNCHANGED <<cameraVars, serverVars, failures>>

\* The connection and the parser are gone.
Disconnect(next) ==
    /\ at' = next
    /\ server' = "none" /\ lastSent' = 0 /\ wire' = <<>> /\ sent' = <<>>
    /\ buffer' = <<>> /\ hand' = 0 /\ handled' = 0 /\ yielded' = <<>>
    /\ UNCHANGED <<cameraVars, failures>>

\* The response ended: run_forever connects again at once.
StreamEnds ==
    /\ at = "reading" /\ server = "ended" /\ wire = <<>>
    /\ Disconnect("idle")

\* Mutation: the exception ends run_forever.
ReadFailsForGood ==
    /\ at = "reading" /\ server = "broken" /\ wire = <<>>
    /\ Disconnect("dead")

\* An exception: run_forever sleeps before it connects again.
ReadFails ==
    /\ at = "reading" /\ server = "broken" /\ wire = <<>>
    /\ Disconnect("backoff")

\* No new picture for ten seconds, the read timeout; the server looks for one
\* every 0.05 seconds.
ReadTimesOut ==
    /\ at = "reading" /\ Serving /\ wire = <<>>
    /\ running /\ latest \in {0, lastSent}
    /\ Disconnect("backoff")

\* The lifespan ends: stop(), and the task is cancelled wherever it waits.
Stop ==
    /\ at # "stopped"
    /\ Disconnect("stopped")

-----------------------------------------------------------------------------
ServerStep == SendFrame \/ EndVideo
ClientStep == Connect \/ Wake \/ ReadChunk \/ Process \/ StreamEnds \/ ReadFails

Next ==
    \/ Store \/ CameraStops \/ CameraStarts
    \/ ServerStep \/ Break \/ RestartCamera
    \/ ClientStep \/ ConnectFails \/ ReadTimesOut \/ Stop

(***************************************************************************)
(* The generator polls, what was sent arrives, the pipeline's loop runs,   *)
(* and failures are finitely many (MaxFailures).  Nobody resets a stopped  *)
(* camera.                                                                 *)
(***************************************************************************)
Fairness == WF_vars(ServerStep) /\ WF_vars(ClientStep)

Spec == Init /\ [][Next]_vars
FairSpec == Spec /\ Fairness

-----------------------------------------------------------------------------
(* Properties.                                                             *)

\* The k-th least of S.
Nth(S, k) == CHOOSE i \in S : Cardinality({j \in S : j <= i}) = k

\* The pictures that lie whole in b, in order.
Whole(b) ==
    LET starts == {i \in 1..(Len(b) - 4) : SubSeq(b, i, i + 4) = Jpeg(b[i + 2])}
    IN  [k \in 1..Cardinality(starts) |-> b[Nth(starts, k) + 2]]

\* However the stream is cut into chunks, the parser turns it into the
\* pictures that were sent, each whole and once, in order: those it yielded,
\* and those still in its buffer and on the connection.
NoFrameLost ==
    LET all == yielded \o Whole(buffer \o wire)
    IN  IF server = "broken" THEN IsPrefix(all, sent) ELSE all = sent

\* The pipeline sees pictures the camera stored, in their order and on one
\* connection none twice, as FrameFeed promises its viewers.
Processed ==
    {i \in 1..Len(yielded) : yielded[i] # 0 /\ (at = "processing" => i < Len(yielded))}

Feed == INSTANCE FrameFeed WITH
    Viewers <- {"pipeline"},
    shown <- [v \in {"pipeline"} |-> handled],
    shows <- [v \in {"pipeline"} |-> Cardinality(Processed)]

ImplementsFeed == Feed!FeedSpec

\* A picture that stays the camera's latest reaches the pipeline, whatever
\* broke before, unless the camera or the pipeline is stopped.
CatchesUp ==
    \A n \in Pictures :
        latest = n ~> handled = n \/ latest # n \/ ~running \/ at = "stopped"
=============================================================================
