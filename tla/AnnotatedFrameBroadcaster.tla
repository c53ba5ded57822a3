--------------------- MODULE AnnotatedFrameBroadcaster ---------------------
(***************************************************************************)
(* cat-sentinel/app/streaming: the broadcaster that hands every annotated  *)
(* frame to every connected viewer, and the MJPEG route that serves it.    *)
(*                                                                         *)
(* Everything runs on one event loop.  The asyncio.Lock guards sections    *)
(* that contain no await, so it is never contended and acquiring it never  *)
(* suspends: publish, subscribe and unsubscribe are each one step.  What   *)
(* interleaves is the publisher, the viewers' generators, which suspend in *)
(* queue.get() and while a frame is being sent, and disconnections.        *)
(***************************************************************************)
EXTENDS FrameFeed, SequencesExt

CONSTANTS
    MaxQueueSize,   \* max_queue_size, 2 in the code
    MaxFrames       \* bound: frames published

ASSUME BroadcasterAssumption ==
    /\ MaxQueueSize \in Nat \ {0}
    /\ MaxFrames \in Nat

VARIABLES
    at,             \* where each viewer's request is
    subscribers,    \* the viewers whose queue is in _subscribers
    queue           \* each viewer's queue

vars == <<feedVars, at, subscribers, queue>>

\* _latest_frame is the frame numbered newest, None when that is 0.
NoFrame == 0

Places == {"away", "accepted", "waiting", "sending"}

TypeOK ==
    /\ FeedTypeOK
    /\ newest <= MaxFrames
    /\ at \in [Viewers -> Places]
    /\ subscribers \in SUBSET Viewers
    /\ queue \in [Viewers -> Seq(Nat)]
    /\ \A v \in Viewers : Len(queue[v]) <= MaxQueueSize

Init ==
    /\ FeedInit
    /\ at = [v \in Viewers |-> "away"]
    /\ subscribers = {}
    /\ queue = [v \in Viewers |-> <<>>]

-----------------------------------------------------------------------------
(* The publisher.                                                          *)

Full(q) == Len(q) >= MaxQueueSize

\* Mutation: a full queue keeps what it has, and the new frame is dropped.
OfferIfRoom(q, f) == IF Full(q) THEN q ELSE Append(q, f)

\* A full queue loses its oldest frame, then takes the new one.
Offer(q, f) == Append(IF Full(q) THEN Tail(q) ELSE q, f)

Publish ==
    /\ newest < MaxFrames
    /\ PublishNext
    /\ queue' = [v \in Viewers |-> IF v \in subscribers THEN Offer(queue[v], newest') ELSE queue[v]]
    /\ UNCHANGED <<at, subscribers>>

-----------------------------------------------------------------------------
(* GET /stream/annotated.                                                  *)

\* 503 before the first frame (nothing changes); afterwards a response whose
\* generator has not started yet.
Accept(v) ==
    /\ at[v] = "away"
    /\ newest # NoFrame
    /\ at' = [at EXCEPT ![v] = "accepted"]
    /\ UNCHANGED <<feedVars, subscribers, queue>>

\* Mutation: a new subscriber waits for the next frame.
SubscribeEmpty(v) ==
    /\ at[v] = "accepted"
    /\ at' = [at EXCEPT ![v] = "waiting"]
    /\ subscribers' = subscribers \cup {v}
    /\ UNCHANGED <<feedVars, queue>>

\* The generator starts: a queue of its own, primed with the latest frame.
Subscribe(v) ==
    /\ at[v] = "accepted"
    /\ at' = [at EXCEPT ![v] = "waiting"]
    /\ queue' = [queue EXCEPT ![v] = <<newest>>]
    /\ subscribers' = subscribers \cup {v}
    /\ UNCHANGED feedVars

\* Mutation: the newest buffered frame is sent and the others stay.
TakeNewest(v) ==
    /\ at[v] = "waiting"
    /\ queue[v] # <<>>
    /\ shown' = [shown EXCEPT ![v] = Last(queue[v])]
    /\ shows' = [shows EXCEPT ![v] = @ + 1]
    /\ queue' = [queue EXCEPT ![v] = Front(@)]
    /\ at' = [at EXCEPT ![v] = "sending"]
    /\ UNCHANGED <<newest, subscribers>>

\* queue.get() returns the oldest buffered frame, which is sent.
Take(v) ==
    /\ at[v] = "waiting"
    /\ queue[v] # <<>>
    /\ shown' = [shown EXCEPT ![v] = Head(queue[v])]
    /\ shows' = [shows EXCEPT ![v] = @ + 1]
    /\ queue' = [queue EXCEPT ![v] = Tail(@)]
    /\ at' = [at EXCEPT ![v] = "sending"]
    /\ UNCHANGED <<newest, subscribers>>

\* The client took the frame; the generator asks for the next one.
Sent(v) ==
    /\ at[v] = "sending"
    /\ at' = [at EXCEPT ![v] = "waiting"]
    /\ UNCHANGED <<feedVars, subscribers, queue>>

\* The client goes away at any point: the generator, if it started, is
\* cancelled and unsubscribes; its queue is garbage.
Disconnect(v) ==
    /\ at[v] # "away"
    /\ at' = [at EXCEPT ![v] = "away"]
    /\ Leave(v)
    /\ subscribers' = subscribers \ {v}
    /\ queue' = [queue EXCEPT ![v] = <<>>]

Serve(v) == Subscribe(v) \/ Take(v) \/ Sent(v)

Next == Publish \/ \E v \in Viewers : Accept(v) \/ Serve(v) \/ Disconnect(v)

Spec == Init /\ [][Next]_vars

-----------------------------------------------------------------------------
(* Properties.                                                             *)

\* However slow a viewer is, the frame published last is never lost to it:
\* either it was sent already or it is the last one in the viewer's queue.
NewestNeverLost ==
    \A v \in subscribers : newest = IF queue[v] = <<>> THEN shown[v] ELSE Last(queue[v])

\* The stream keeps the promise of FrameFeed across slow viewers, full queues
\* and reconnections: no frame out of order, none twice, none made up.
ImplementsFeed == FeedSpec
=============================================================================
