------------------------- MODULE DetectionPipeline -------------------------
(***************************************************************************)
(* cat-sentinel/app/detections/pipeline.py with what it calls: the tracker,*)
(* the zones, cats, detections and alerts tables, the cooldown tracker and *)
(* the outbound webhook.  A frame is processed by one coroutine, one step  *)
(* per database or HTTP call; between two of them the handlers of /zones   *)
(* may change the zones it works from, and any of them may raise, which    *)
(* abandons the rest of the frame.                                         *)
(*                                                                         *)
(* The tables are those of PostgreSQL, which enforces the foreign keys of  *)
(* the migrations.  A cat is named by its track id: (camera, track_id) is  *)
(* unique and there is one camera.  Only the last alert row of a cat in a  *)
(* zone is kept.  Time is counted in ticks up to the cooldown.             *)
(***************************************************************************)
EXTENDS CentroidTracker, PointInPolygon

CONSTANTS
    Zones,
    NoZone,
    Polygon,        \* the points of each zone
    Cooldown,       \* alert_cooldown_seconds, in ticks
    MaxTracks,      \* bound: track ids handed out by one process
    MaxFailures     \* bound: failing calls and crashes of the process

ASSUME PipelineAssumption ==
    /\ NoZone \notin Zones
    /\ \A z \in Zones : IsPolygon(Polygon[z])
    /\ Cooldown \in Nat \ {0}
    /\ MaxTracks \in Nat
    /\ MaxFailures \in Nat

VARIABLES
    phase,      \* the call the frame's coroutine is about to make
    todo,       \* the tracks of this frame not dealt with yet
    seen,       \* the active zones as they were listed: "ok", "broken" or "absent"
    match,      \* matched_zone_id of the current track
    reply,      \* what fire() makes of the webhook's answer
    zones,      \* rows of the zones table: "none" or is_active and points
    referenced, \* zones named by a detection or an alert row
    cats,       \* track ids with a row in cats
    lastAlert,  \* per cat and zone, its last alert row: none, or the status column
    elapsed,    \* per cat and zone, ticks since mark_fired, at most Cooldown
    sincePost,  \* history: ticks since the webhook was called, at most Cooldown
    accepted,   \* history: whether the receiver accepted the last alert
    cut,        \* history: cats and zones whose last alert died before mark_fired
    failures    \* how many calls failed

frameVars == <<phase, todo, seen, match, reply>>
tableVars == <<zones, referenced, cats, lastAlert>>
coolVars  == <<elapsed, sincePost, accepted, cut>>
vars == <<trackerVars, frameVars, tableVars, coolVars, failures>>

Pairs == (1..MaxTracks) \X Zones
Phases == {"idle", "zones", "cat", "detection", "activity", "alert", "post", "mark", "publish"}
ZoneStates == {"none", "active", "inactive", "broken", "brokenInactive"}

TypeOK ==
    /\ TrackerTypeOK
    /\ nextId <= MaxTracks + 1
    /\ phase \in Phases
    /\ todo \subseteq DOMAIN tracks
    /\ seen \in [Zones -> {"ok", "broken", "absent"}]
    /\ match \in Zones \cup {NoZone}
    /\ reply \in {"SENT", "FAILED"}
    /\ zones \in [Zones -> ZoneStates]
    /\ referenced \in SUBSET Zones
    /\ cats \in SUBSET (1..MaxTracks)
    /\ lastAlert \in [Pairs -> {"none", "PENDING", "SENT", "FAILED"}]
    /\ elapsed \in [Pairs -> 0..Cooldown]
    /\ sincePost \in [Pairs -> 0..Cooldown]
    /\ accepted \in SUBSET Pairs
    /\ cut \in SUBSET Pairs
    /\ failures \in 0..MaxFailures

NothingListed == [z \in Zones |-> "absent"]
NeverFired == [p \in Pairs |-> Cooldown]

Init ==
    /\ TrackerInit
    /\ phase = "idle" /\ todo = {} /\ seen = NothingListed /\ match = NoZone /\ reply = "SENT"
    /\ zones = [z \in Zones |-> "none"]
    /\ referenced = {}
    /\ cats = {}
    /\ lastAlert = [p \in Pairs |-> "none"]
    /\ elapsed = NeverFired
    /\ sincePost = NeverFired
    /\ accepted = {}
    /\ cut = {}
    /\ failures = 0

\* tracked.items() comes in the order the tracks were started.
current == CHOOSE t \in todo : \A u \in todo : t <= u
pair == <<current, match>>

-----------------------------------------------------------------------------
(* One frame.                                                              *)

\* detect() and tracker.update(), without an await.
Receive(D) ==
    /\ phase = "idle"
    /\ Update(D)
    /\ nextId' <= MaxTracks + 1
    /\ phase' = "zones"
    /\ todo' = DOMAIN tracks'
    /\ UNCHANGED <<seen, match, reply, tableVars, coolVars, failures>>

\* list_active_for_camera: the zones this frame works from.
ListZones ==
    /\ phase = "zones"
    /\ seen' = [z \in Zones |-> CASE zones[z] = "active" -> "ok"
                                  [] zones[z] = "broken" -> "broken"
                                  [] OTHER -> "absent"]
    /\ phase' = IF todo = {} THEN "publish" ELSE "cat"
    /\ UNCHANGED <<trackerVars, todo, match, reply, tableVars, coolVars, failures>>

\* The places each zone contains.
Covers == [z \in Zones |-> {p \in Places : point_in_polygon(p, Polygon[z])}]

Containing(t) == {z \in Zones : seen[z] = "ok" /\ tracks[t].at \in Covers[z]}
Broken == {z \in Zones : seen[z] = "broken"}

\* get_or_create_for_track, then the first zone, in no particular order, that
\* contains the centroid.  Reading the points of a broken zone raises.
GetCat ==
    /\ phase = "cat"
    /\ cats' = cats \cup {current}
    /\ match' \in IF Containing(current) = {} THEN {NoZone} ELSE Containing(current)
    /\ Containing(current) = {} => Broken = {}
    /\ phase' = "detection"
    /\ UNCHANGED <<trackerVars, todo, seen, reply, zones, referenced, lastAlert, coolVars, failures>>

\* The zone is still there for the foreign key to refer to.
ZoneExists == match \in {NoZone} \cup {z \in Zones : zones[z] # "none"}

InsertDetection ==
    /\ phase = "detection"
    /\ ZoneExists
    /\ referenced' = referenced \cup ({match} \ {NoZone})
    /\ phase' = "activity"
    /\ UNCHANGED <<trackerVars, todo, seen, match, reply, zones, cats, lastAlert, coolVars, failures>>

\* On to the next track, or out of the loop.
NextTrack ==
    /\ todo' = todo \ {current}
    /\ match' = NoZone
    /\ phase' = IF todo' = {} THEN "publish" ELSE "cat"

ShouldFire == match # NoZone /\ elapsed[pair] = Cooldown

\* The timeline entry is written; then the danger zone and the cooldown decide.
RecordActivity ==
    /\ phase = "activity"
    /\ \/ ShouldFire /\ phase' = "alert" /\ UNCHANGED <<todo, match>>
       \/ ~ShouldFire /\ NextTrack
    /\ UNCHANGED <<trackerVars, seen, reply, tableVars, coolVars, failures>>

\* fire(): a PENDING row ...
InsertAlert ==
    /\ phase = "alert"
    /\ ZoneExists
    /\ lastAlert' = [lastAlert EXCEPT ![pair] = "PENDING"]
    /\ accepted' = accepted \ {pair}
    /\ phase' = "post"
    /\ UNCHANGED <<trackerVars, todo, seen, match, reply, zones, referenced, cats,
                   elapsed, sincePost, cut, failures>>

\* ... the POST, whose answer may be lost after the receiver accepted ...
Post ==
    /\ phase = "post"
    /\ \/ reply' = "SENT" /\ accepted' = accepted \cup {pair}
       \/ reply' = "FAILED" /\ accepted' \in {accepted, accepted \cup {pair}}
    /\ sincePost' = [sincePost EXCEPT ![pair] = 0]
    /\ phase' = "mark"
    /\ UNCHANGED <<trackerVars, todo, seen, match, tableVars, elapsed, cut, failures>>

\* Mutation: mark_fired is forgotten.
MarkStatusOnly ==
    /\ phase = "mark"
    /\ lastAlert' = [lastAlert EXCEPT ![pair] = reply]
    /\ cut' = cut \ {pair}
    /\ NextTrack
    /\ UNCHANGED <<trackerVars, seen, reply, zones, referenced, cats, elapsed, sincePost,
                   accepted, failures>>

\* Mutation: the row says SENT whatever the webhook answered.
MarkSent ==
    /\ phase = "mark"
    /\ lastAlert' = [lastAlert EXCEPT ![pair] = "SENT"]
    /\ elapsed' = [elapsed EXCEPT ![pair] = 0]
    /\ cut' = cut \ {pair}
    /\ NextTrack
    /\ UNCHANGED <<trackerVars, seen, reply, zones, referenced, cats, sincePost, accepted, failures>>

\* ... and the outcome.  fire() returned, so the cooldown starts.
MarkStatus ==
    /\ phase = "mark"
    /\ lastAlert' = [lastAlert EXCEPT ![pair] = reply]
    /\ elapsed' = [elapsed EXCEPT ![pair] = 0]
    /\ cut' = cut \ {pair}
    /\ NextTrack
    /\ UNCHANGED <<trackerVars, seen, reply, zones, referenced, cats, sincePost, accepted, failures>>

EndFrame ==
    /\ phase' = "idle"
    /\ todo' = {}
    /\ seen' = NothingListed
    /\ match' = NoZone
    /\ reply' = "SENT"

\* Annotate, encode and publish to the broadcaster.
Publish ==
    /\ phase = "publish"
    /\ EndFrame
    /\ UNCHANGED <<trackerVars, tableVars, coolVars, failures>>

\* The alert whose fire() has not returned, if any.
InFlight == IF phase \in {"post", "mark"} THEN {pair} ELSE {}

\* Mutation: the exception ends the background task.
AbandonForGood ==
    /\ phase # "idle"
    /\ phase' = "ended"
    /\ todo' = {}
    /\ cut' = cut \cup InFlight
    /\ UNCHANGED <<trackerVars, seen, match, reply, zones, referenced, elapsed, sincePost, accepted>>

\* An exception: logged, and the rest of the frame is lost.  What was
\* committed stays, what was posted stays posted.
Abandon ==
    /\ phase # "idle"
    /\ EndFrame
    /\ cut' = cut \cup InFlight
    /\ UNCHANGED <<trackerVars, zones, referenced, elapsed, sincePost, accepted>>

\* A call raises.  mark_status may raise after its commit (in the refresh), and
\* then mark_fired is skipped although the row has its outcome.
CallFails ==
    /\ failures < MaxFailures
    /\ failures' = failures + 1
    /\ Abandon
    /\ \/ UNCHANGED lastAlert
       \/ phase = "mark" /\ lastAlert' = [lastAlert EXCEPT ![pair] = reply]
    /\ UNCHANGED cats

\* The exceptions that do not depend on luck: a foreign key to a zone deleted
\* since it was listed, and, after the cat's row, the points of a broken zone.
MustFail ==
    /\ \/ phase \in {"detection", "alert"} /\ ~ZoneExists /\ UNCHANGED cats
       \/ phase = "cat" /\ Broken # {} /\ cats' = cats \cup {current}
    /\ Abandon
    /\ UNCHANGED <<lastAlert, failures>>

-----------------------------------------------------------------------------
(* The handlers of /zones, and time.                                       *)

SetZone(z, s) ==
    /\ zones' = [zones EXCEPT ![z] = s]
    /\ UNCHANGED <<trackerVars, frameVars, referenced, cats, lastAlert, coolVars, failures>>

CreateZone(z) == zones[z] = "none" /\ \E s \in {"active", "inactive"} : SetZone(z, s)

\* PATCH may set or clear is_active, and set the points, also to null.
UpdateZone(z) == zones[z] # "none" /\ \E s \in ZoneStates \ {"none", zones[z]} : SetZone(z, s)

\* A zone some row refers to cannot be deleted: 500.
DeleteZone(z) == zones[z] # "none" /\ z \notin referenced /\ SetZone(z, "none")

Later(ticks) == [p \in Pairs |-> IF ticks[p] < Cooldown THEN ticks[p] + 1 ELSE Cooldown]

Tick ==
    /\ elapsed' = Later(elapsed)
    /\ sincePost' = Later(sincePost)
    /\ UNCHANGED <<trackerVars, frameVars, tableVars, accepted, cut, failures>>

\* The process restarts: the tables stay, the tracks, their numbering and the
\* cooldowns are gone.
Restart ==
    /\ failures < MaxFailures
    /\ failures' = failures + 1
    /\ tracks' = [t \in {} |-> 0]
    /\ nextId' = 1
    /\ EndFrame
    /\ elapsed' = NeverFired
    /\ cut' = cut \cup InFlight \cup {p \in Pairs : sincePost[p] < Cooldown}
    /\ UNCHANGED <<tableVars, sincePost, accepted>>

Frame ==
    \/ ListZones \/ GetCat \/ InsertDetection \/ RecordActivity
    \/ InsertAlert \/ Post \/ MarkStatus \/ Publish \/ MustFail

Next ==
    \/ \E D \in SUBSET Places : Receive(D)
    \/ Frame \/ CallFails
    \/ \E z \in Zones : CreateZone(z) \/ UpdateZone(z) \/ DeleteZone(z)
    \/ Tick \/ Restart

(***************************************************************************)
(* Calls return, frames keep coming and time passes.  Only finitely many   *)
(* calls fail (MaxFailures): the database and the webhook come back.       *)
(***************************************************************************)
Fairness ==
    /\ WF_vars(Frame)
    /\ WF_vars(\E D \in SUBSET Places : Receive(D))
    /\ WF_vars(Tick)

Spec == Init /\ [][Next]_vars
FairSpec == Spec /\ Fairness

-----------------------------------------------------------------------------
(* Properties.                                                             *)

\* Every detection of a frame is one track of that frame, and no two tracks
\* share a detection: no cat is counted twice or overlooked.
EachDetectionTracked ==
    [][phase = "idle" /\ phase' = "zones" => \A D \in SUBSET Places : Receive(D) =>
          LET live == {t \in DOMAIN tracks' : tracks'[t].unseen = 0}
          IN  D = {tracks'[t].at : t \in live} /\ Cardinality(D) = Cardinality(live)]_vars

\* A cat that moved within reach, with no other cat or detection near enough
\* to be confused with, keeps its identity.
LoneCatKeepsIdentity ==
    [][phase = "idle" /\ phase' = "zones" =>
          \A D \in SUBSET Places : \A t \in DOMAIN tracks : \A d \in D :
              /\ {e \in D : Near(tracks[t].at, e)} = {d}
              /\ {u \in DOMAIN tracks : Near(tracks[u].at, d)} = {t}
              /\ Receive(D)
              => t \in DOMAIN tracks' /\ tracks'[t].at = d]_vars

\* Whatever a frame may hold, the matching the tracker's loop comes to, however
\* ties fall, is one of those said to be greedy, and each of those is one it may
\* come to: taking the closest pairs first leaves no closer pair untaken.
MatchingIsGreedy == phase = "idle" => \A D \in SUBSET Places : ClosestFirst(D) = Greedy(D)

\* The zone a cat is matched to contains it, and none is recorded only if no
\* listed zone has it strictly inside: the test is exact, on every edge and
\* corner, and it is asked about the right cat and the zones of this frame.
ZoneMatchIsGeometric ==
    phase = "detection" =>
        /\ PolygonTestIsExact
        /\ \A z \in Zones : seen[z] = "ok" /\ Len(Polygon[z]) = 3 =>
              LET s == Polygon[z]
                  c == tracks[current].at
              IN  /\ match = z => ~Outside(c, s[1], s[2], s[3])
                  /\ match = NoZone => ~Inside(c, s[1], s[2], s[3])

\* A row that says SENT was accepted by the receiver, and one that still says
\* PENDING is being sent, or its frame died before the outcome was recorded.
AlertStatusHonest ==
    \A p \in Pairs :
        /\ lastAlert[p] = "SENT" => p \in accepted
        /\ lastAlert[p] = "PENDING" => p \in cut \cup InFlight

\* The webhook is called again within the cooldown only after an alert that
\* died before mark_fired, or a restart.
PostsSpaced == [][Post /\ sincePost[pair] < Cooldown => pair \in cut]_vars

\* A cat in the one danger zone that contains it is alerted about, or leaves,
\* unless the zones change: every frame looks again.
InDanger(t, z) ==
    /\ t \in DOMAIN tracks
    /\ tracks[t].at \in Covers[z]
    /\ zones[z] = "active"
    /\ \A y \in Zones \ {z} :
          zones[y] # "broken" /\ (zones[y] = "active" => tracks[t].at \notin Covers[y])

LingeringCatAlerts ==
    \A t \in 1..MaxTracks : \A z \in Zones :
        InDanger(t, z) /\ elapsed[<<t, z>>] = Cooldown
            ~> ~InDanger(t, z) \/ elapsed[<<t, z>>] < Cooldown
=============================================================================
