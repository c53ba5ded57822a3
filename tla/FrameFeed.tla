----------------------------- MODULE FrameFeed -----------------------------
(***************************************************************************)
(* What a live stream promises to its viewers: each connection shows       *)
(* frames that were published, in the order they were published and none   *)
(* twice, and it may skip frames.                                          *)
(* AnnotatedFrameBroadcaster implements this module for the viewers of the *)
(* annotated stream, and UpstreamFeed for the detection pipeline, the      *)
(* viewer of the camera.                                                   *)
(***************************************************************************)
EXTENDS Naturals

CONSTANT Viewers

VARIABLES
    newest,     \* the number of the last frame published, 0 before the first
    shown,      \* per viewer: the last frame this connection was sent, 0 for none
    shows       \* per viewer: how many frames it was sent

feedVars == <<newest, shown, shows>>

FeedTypeOK ==
    /\ newest \in Nat
    /\ shown \in [Viewers -> Nat]
    /\ shows \in [Viewers -> Nat]

FeedInit ==
    /\ newest = 0
    /\ shown = [v \in Viewers |-> 0]
    /\ shows = [v \in Viewers |-> 0]

PublishNext ==
    /\ newest' = newest + 1
    /\ UNCHANGED <<shown, shows>>

\* A connection moves forward, to a frame that exists.
Show(v) ==
    /\ \E n \in (shown[v] + 1)..newest : shown' = [shown EXCEPT ![v] = n]
    /\ shows' = [shows EXCEPT ![v] = @ + 1]
    /\ UNCHANGED newest

\* The connection ends; the next one of this viewer starts afresh.
Leave(v) ==
    /\ shown' = [shown EXCEPT ![v] = 0]
    /\ shows' = [shows EXCEPT ![v] = 0]
    /\ UNCHANGED newest

FeedNext == PublishNext \/ \E v \in Viewers : Show(v) \/ Leave(v)

FeedSpec == FeedInit /\ [][FeedNext]_feedVars
=============================================================================
