# TLA+ models of cat_sentinel

Four services watch cats: `camera` (a bridge from one Tapo C200 to HTTP, with
recording and pan/tilt control), `cat-sentinel` (detects and tracks cats in the
camera's stream, keeps danger zones, alerts), `hub` (one front door for both) and
`hub_frontend` (a Next.js page). This directory models the parts that carry
state, checks them with TLC and proves the most important invariants with TLAPS.

Contents: [the system](#1-the-system), [the modules](#2-the-modules),
[the runs](#3-the-runs), [fairness](#4-fairness), [the proofs](#5-the-proofs),
[what the code does not keep](#6-where-the-code-and-its-words-disagree),
[what is not modelled](#7-what-is-not-modelled), [the plan](#8-the-plan).

## 1. The system

| component | state it keeps | operations | hard part |
|---|---|---|---|
| RTSP camera (`camera/app/camera/service.py`) | decode thread, stop event, connected flag, last error, latest JPEG, recording flag, filename, muxer | start, stop, reset, start/stop_recording, the loop `_run` | threads: the event loop against one decode thread, or two after a late join; failures of connect, decode, flush, close |
| Camera routes (`camera/app/camera/router.py`) | none | reset, recording start and stop, video, snapshot, status | the camera call and the database call of one request are two steps |
| Recordings (`camera/app/recordings`) | one table row per file; the directory | create, mark_completed, mark_status, update_file_size, `reconcile` every 300 s | the pass decides on rows read earlier; files come and go; crashes |
| PTZ (`camera/app/ptz`) | estimated pan and tilt, a lock | move_to, nudge, calibrate, status | open loop: the motor's position is never read; worker threads and the event loop share the lock |
| Events (`camera/app/events`) | command map, log of 500 events, in memory | ingest, map CRUD | dispatches PTZ commands on the event loop; a restart forgets all of it |
| Webhooks (`camera/app/webhooks`) | subscriptions, in memory | CRUD, notify_all | subscriptions change during a fan-out; a restart in the middle |
| Detection pipeline (`cat-sentinel/app/detections/pipeline.py`) | tracker, cooldowns | run_forever, `_process_frame` | a frame is a dozen database and HTTP calls, any of which may raise; zones change meanwhile |
| Tracker (`vision/tracker.py`) | tracks, next id | update | greedy matching, ageing |
| Alerts (`alerts/`) | alert rows, last-fired times | fire, should_fire, mark_fired | the POST and the two writes around it are not atomic |
| Zones (`zones/`) | a table of polygons | CRUD, `point_in_polygon` | edited while frames refer to them; corners and edges of the polygon test |
| Cats, detections, activities | tables with foreign keys | get_or_create, create, lists | foreign keys to zones; ids of tracks that start again |
| Broadcaster (`streaming/`) | latest frame, one bounded queue per viewer | publish, subscribe, unsubscribe | slow viewers, full queues, disconnections |
| Upstream client (`streaming/client.py`) | byte buffer | frames | chunk boundaries |
| Detector, annotator (`vision/`) | none | detect, annotate | none: stateless |
| Hub (`hub/app`) | the pool of upstream connections and the queue for it | stream proxy, tracker listing | leaking upstream streams; clients that leave before they are served; two reads that are no snapshot |
| Frontend (`hub_frontend`) | tracker list; status and request of the live picture | poll, stream, retry | answers out of order; a stream that ends after its first picture |
| Settings, logging, migrations, tools | configuration | | none |

How they interact: the decode thread feeds one shared buffer that `/video`, the
recorder and, over HTTP, the pipeline read; the pipeline publishes annotated
frames to the broadcaster, which the hub, and behind it the Next.js server, proxy
to the page; the page polls the hub for the trackers, which the hub joins from two
reads of cat-sentinel; alerts leave by webhook and may come back as events, which
move the camera.

What makes each correct: the camera opens one connection, comes back after any
failure and records frames in order; a recording's row tells the truth about its
file; the PTZ estimate is as good as rounding allows; each detection is one track;
an alert is sent once per cooldown and its row tells what came of it; an event is
told once to those who asked for it; a viewer sees new frames in order and always
the last one, on the page too, and a viewer that left holds nothing; the list of
trackers comes to be that of the table. `PROJECT.json` lists the hazards
behind these, line by line.

## 2. The modules

```
Recorder <---implements--- RTSPCamera           (threads)
   ^---composed with---- Recordings             (handlers, table, reconciliation)
PTZController                                   (worker threads, loop, motor)
Outbox    <--implements-- EventIngestion        (requests on the loop, receivers)
FrameFeed <--implements-- AnnotatedFrameBroadcaster   (one loop, viewers)
    ^                        ^---composed with-- HubStream  (pool, proxies, pages)
    `-------implements--- UpstreamFeed          (bytes, connection, parser)
TrackerView                                     (two tables, hub, page)
CentroidTracker, PointInPolygon <--extended by-- DetectionPipeline
```

A module `X` with a run of its own has an `MCX` that gives its constants small values,
and an `X_proofs`. `HubStream` and its proofs take in the broadcaster,
`DetectionPipeline` and its proofs the tracker and the polygon test.

**Recorder** is what the recording half of the camera promises: one file at a
time, only the active file grows, a closed file never changes. A session is
*idle*, *recording*, or *stuck*: when the flush or the close raises, the code
leaves `_recording` set, and only another stop clears it.

**RTSPCamera** has one program counter per decode thread (`pc`, the steps of `_run`
and `_process_frame`) and one for the event-loop thread (`op`, the steps of `stop`
and `reset`). Every `with self._lock` block is one action, because nothing in it
waits. `JoinTimesOut` is the timeout of `join`; it may happen only while the thread
is in a call that can last ten seconds. The two halves of `_process_frame` are two
steps: encoding the JPEG (which may raise into `_run`) and the locked half. A
recording's file is the sequence of frame numbers muxed into it. `lateJoin` is a
history variable: it remembers that a join timed out, after which two threads can
exist, which the properties that need one thread say openly. `StopIsFinal` and the
first part of `ConnectedMeansDecoding` do not need it: a thread that `stop` forgot
still ends, unless a start clears the event first, and `/camera/status` claims no
connection that no thread has. What late joins do break is in section 6.

**Recordings** composes `Recorder` with the table. The synchronous camera calls of
a handler are one step, each `await` starts another; between them any handler and
the reconciliation task may run. A handler that awaits its INSERT is in
`starting`; a stop remembers what it loaded in `stopping`; the pass keeps the rows
it loaded (`loaded`) and the UPDATE it awaits (`write`). An UPDATE writes the
columns that were assigned a new value, as SQLAlchemy does, which is why a stale
size repair cannot take back a status; the mutant that writes the whole row
violates `NoStatusRegression`. Files may be removed and put back by hand
(external), and the process may crash.

**PTZController** models one axis. Angles are integers, `Scale` of them to one
motor unit, so `RoundUnits` is Python's `round` (halves to even) on a fraction. A
command takes effect some time before its call returns, or not at all, or takes
effect and then raises. `raced` remembers requests during which another one moved
the motor, `stray` what moved it behind the estimate's back.

**Outbox / EventIngestion**: an event's receivers are settled when it arrives, and
each is told once, or nobody is. `Ingest` is one step up to the first webhook call,
because the dispatcher blocks the loop and nothing before it is awaited; then each
`Call` is a step, between which other events arrive and the mapping and the
subscriptions change. A failed call may have reached its receiver. `FanoutRaises`
is an HTTP client that cannot be opened or closed. `Restart` is the end of the
process and the next one: log, mapping and subscriptions live in memory, and the
events that were being told to their receivers are `lost`. To `Outbox` that is
`Crash`, after which nobody else is told; an event that was answered keeps its
answer. `told` and `took` are history, and so is `booted`, how many events had
arrived when the process started: the log is the newest since then.

**FrameFeed / AnnotatedFrameBroadcaster**: what a viewer is promised (frames that
were published, in order, none twice on one connection), and the queues that keep
the promise. The `asyncio.Lock` of the code guards sections without an
`await`, so publish, subscribe and unsubscribe are single steps.

**HubStream** puts the broadcaster's one client around it: a viewer there is a
request of the hub here. `page` is the `status` of a `LiveVideoFeed` and the request
its `<img>` made; `Mount`, `Retry`, `Load` (`handleLoad`), `Unmount` and `End`
(`handleError`) are the component's. `hub` is where `open_annotated_stream` or
`iter_annotated_stream` is for each request, `backlog` and `pool` are the queue and the
slots of the httpx client, whose timeouts are off. A browser that leaves, the hub
that notices (`HangUp`) and cat-sentinel that notices (`Gone`) are three steps, with
anything between them; a request that waits for a slot is not cancelled when its
client leaves. `Break` is a stream that breaks off, `Restart` one of the hub. What
lies outside `src/` is taken from how the code uses it: httpx serves its queue in
order and drops a connection when the response is closed; Starlette closes a
generator whose client is gone; a browser draws a part when its bytes are there,
and, when the stream ends after a picture, either fires `onError` or leaves the
picture. The Next.js route keeps no state and has no action of its own; it does not
abort a fetch that has not been answered. cat-sentinel is assumed to answer a connection it
accepted: with the timeouts off, nothing in the hub would end the wait.

**UpstreamFeed** keeps the same promise to the one viewer of the camera's own
stream, the pipeline: the buffer, the generator of `/video` that polls it, the
connection, the MJPEG parser and `run_forever`. A picture is its two markers around
its number, boundary and headers are text, and what is on the connection (`wire`)
is cut into chunks anywhere, so a marker may be split. The connection breaks,
perhaps losing what it carried; the camera service restarts; the read times out
when there is no new picture. `HighWater` is where the server stops sending to a
slow client. `sent` and `yielded` are history, for `NoFrameLost`.

**TrackerView** follows a detection from cat-sentinel's table through the hub's
`GET /trackers` to the component `TrackerList`. A poll is asked, answered (or
failed) and shown in three steps; two may be in flight, also from a visit of the
page that was closed. The hub's half is two reads, `ReadCats` and
`ReadDetections`, between which cats and detections are added; the first gives
the answer its names only. Polls are numbered by the least free number, as nothing
in the code tells one from another. `FieldsAgree` says whether the detections carry the keys the
hub reads: it is TRUE for the service the hub's tests stand in for, and FALSE for
cat-sentinel as it is. `Covers` is what an answer owes the table.

**CentroidTracker** has the greedy matching twice. `ClosestFirst` is the loop over the
sorted candidates. `Greedy`, which `Update` uses and the proofs reason about, says the
same of the pairs taken: no track and no detection is used twice, and every pair
within reach was taken or lost its track or its detection to one at least as close.
`MatchingIsGreedy` says that the two agree. Ties go either way. Centroids are points of
the plane, and distances are compared by their squares.

**PointInPolygon** is the ray-casting test of `zones/service.py`, condition by
condition, on integers: the comparison with the quotient is a cross-multiplication,
so the rounding of floats is left out. Its reference is the side of a line a point
is on; `PolygonTestIsExact` compares the two on every triangle of a grid and adds
that cutting a polygon in two moves no point. TLC evaluates it; section 5 says how both
halves are proved for all points.

**DetectionPipeline** runs one frame through a phase per call. `Abandon` is the broad
`except` of `_process_frame`; `CallFails` lets any call raise, `MustFail` are the
exceptions that need no luck: a foreign key to a deleted zone, and a zone whose
points a PATCH set to null. A cat's zone is found by `point_in_polygon` on the
centroid of its track. `cut` remembers alerts that died before `mark_fired`.

## 3. The runs

| run | expects | shows | bounds |
|---|---|---|---|
| camera | pass | `OneConnection`, `ConnectedMeansDecoding`, `RecordingInOrder`, `FramesNeverGoBack`, `Reconnects`, `StopIsFinal`, `ResetRestarts`, `ImplementsRecorder` | 2 threads (one reset, enough for an old thread next to a new one), 2 frames, 1 file |
| camera_one_connection | violation | two connections after a late join | the same |
| recordings | pass | `CompletedIsClosed`, `ZombieRowsExplained`, `NoStatusRegression` | 2 files (one finishing while the next starts), 1 frame, 1 crash; files symmetric |
| recordings_live | pass | `SizeRepaired`, `LossNoticed` | 1 file, 2 frames, 1 crash |
| ptz | pass | `DriftBounded`, `CalibrateIsExact`, `LoopNeverStuck` | 2 workers and the loop, targets 3/4 and 5/4 of a unit (rounding up, down, and to nothing), 1 move between calibrations |
| events | pass | `LogIsRecent`, `CountHonest`, `AlwaysAnswered`, `ImplementsOutbox` | 2 events (their fan-outs overlap), log of 1 (overfilled), 2 subscriptions, 1 event type (a subscription takes it or not), a command that may fail and one that cannot, restarts at any time |
| hub_stream | pass | `NewestNeverLost`, `ImplementsFeed`, `SlotsAccountedFor`, `Released`, `Admitted`, `PageCatchesUp` | 2 pages, 2 requests (one waits behind the other, and each may outlive its page), a pool of 1, the code's queue of 2, 3 frames (overfills it), breaks and restarts without a bound |
| pipeline | pass | `MatchingIsGreedy`, `AlertStatusHonest`, `PostsSpaced`, `EachDetectionTracked`, `LoneCatKeepsIdentity`, `ZoneMatchIsGeometric` | 3 places with reach 5: the middle one exactly at the limit from both ends (a tie), and they out of reach of each other; 2 track ids, 1 zone, 1 failure or restart; polygons on a grid of 4 by 3 points, enough for every order of a point and the ends of an edge |
| pipeline_live | pass | `LingeringCatAlerts` | 2 zones, 1 cat, no transient failures |
| upstream | pass | `NoFrameLost`, `ImplementsFeed`, `CatchesUp` | 4 pictures, 2 failures, a connection that holds two pictures (`HighWater` 8 is the end of the first) |
| trackers | pass | `OwnPollsOnly`, `AnswersAreLatest`, `Converges` | 2 cats, a page of 2 out of 3 detections (one falls off), 2 polls in flight, 2 visits (the second for good), 1 failed poll |
| trackers_as_sent | violation | with the keys cat-sentinel sends, the page never shows a cat | the same, 1 visit, no failure |

`upstream` also checks its module's `TypeOK`, because of the bound on the parser's
buffer in it; that of every module is proved. Each property has a mutant of the code in its module (marked
*Mutation*) that violates it. The `camera` and `upstream` runs do not check for
deadlock: the process exits, and the pipeline's task is cancelled. The others do.

What the bounds cut off: `MaxThreads` stops further resets, `MaxFrames` the camera,
`MaxMoves` further moves until a calibration, `MaxEvents` and `MaxSubs` further
events and subscriptions, `MaxTracks` frames that would need another id, `MaxRows`
and `MaxCats` further detections and cats, `MaxPolls` a poll while that many are in
flight, `MaxVisits` leaving the page again; `MaxFailures` and `MaxCrashes` count
failures. `hub_stream` was also run once with 3 requests and a pool of 2 (2.1
million states), with the same result.

## 4. Fairness

*RTSPCamera*: threads are scheduled, and join, open and decode carry timeouts
(weak fairness of each thread's step and of the loop's internal steps); a camera
that is asked again and again answers some time (strong fairness of
`OpenSucceeds`). Nobody has to send a request. *Recordings*: a handler's database
call returns or raises, the task runs for ever, and an UPDATE tried in pass after
pass commits some time (strong fairness of `CommitWrite`). *PTZController*: threads
run and a request to the camera returns or times out; nothing is assumed of who
gets a contended lock. *EventIngestion*: a webhook call
returns or times out, and the loop goes on with its request; nobody has to restart
the process. *HubStream*: both event loops run what is ready, cat-sentinel answers
a connection it accepted, a browser that stays takes its bytes and notices a
picture, and the end of a connection reaches the other side; nobody has to open a
page, retry, leave, publish or fail. (`AnnotatedFrameBroadcaster` has no liveness of
its own: its steps are scheduled there.) *DetectionPipeline*: calls
return, frames keep coming, time passes; failures are finitely many.
*UpstreamFeed*: the generator polls, what was sent arrives, `run_forever` goes on;
nobody has to reset a camera that was stopped, and failures are finitely many.
*TrackerView*: the interval fires while the page is open, and of the polls in
flight some go on being answered, because the hub's client gives up after ten
seconds; it is not assumed that each is. Failures are finitely many.

## 5. The proofs

For all values of the constants, from the named assumptions of the modules
(`BoundsAssumption`, `RecordingsAssumption`, `PTZAssumption`, `EventsAssumption`,
`BroadcasterAssumption`, `HubAssumption`, `FeedAssumption`, `ViewAssumption`,
`TrackerAssumption`, `PipelineAssumption`; TLC evaluates them in the runs of those modules),
every invariant, action property and refinement the passing runs check is a theorem:

* `RTSPCamera_proofs`: `TypeOK`, `OneConnection`, `RecordingInOrder`,
  `FramesNeverGoBack`, `ConnectedMeansDecoding`, `ImplementsRecorder`.
  `OneConnection` is not inductive: a step may start a thread only because no
  other is alive. The strengthening says that, without a late join, every living
  thread is the one `_thread` names, and that the loop is past the join only when
  that one is dead. On top of it, frames are ordered: what a file holds is older
  than the frame in hand, which is no newer than the last sent, and `latest` lies
  between. The refinement needs only the recording variables and an invariant
  tying the muxer slot to the one open file, so it holds with late joins too.
* `Recordings_proofs`: `TypeOK`, `CompletedIsClosed`, `ZombieRowsExplained`,
  `NoStatusRegression`. `CompletedIsClosed` needs that a stop on its way to the
  table names a file that was closed first, and `ZombieRowsExplained` that a
  handler awaiting its INSERT or its UPDATE accounts for its file.
* `PTZController_proofs`: `TypeOK`, `DriftBounded`, `CalibrateIsExact`. The central
  lemma, `Rounding`, bounds the error of one rounding by half a unit; the invariant
  carries the bound through a command in flight (lock held, command equal to the
  rounded delta, estimate unchanged since).
* `EventIngestion_proofs`: `TypeOK`, `LogIsRecent`, `CountHonest`,
  `ImplementsOutbox`. The invariant says that whoever is on a fan-out's list was not
  called, that nobody was called twice, and that an event that has not arrived has
  no fan-out; it makes each call a `Tell` of the abstract specification, and a
  restart its `Crash`.
* `HubStream_proofs`: of the broadcaster alone, `TypeOK`, `NewestNeverLost` and
  `ImplementsFeed`, by an invariant that orders each queue strictly, above what was
  shown, up to the newest. Then `HubSpec => Spec` (`HubImplementsBroadcaster`): hub and
  pages are nothing to the broadcaster but viewers that come and go, so those properties
  hold end to end without being proved again. `HubTypeOK`, and
  `SlotsAccountedFor`, which is inductive once the types are known; the step with
  work in it is `Acquire`, where taking the head of a queue without repetitions must
  take that request out of it and no other.
* `UpstreamFeed_proofs`: `TypeOK`, `NoFrameLost`, `ImplementsFeed`. The stream a server
  has sent is a function from places to bytes, eight places to a picture. The
  invariant (`InStream`) says that the parser's buffer followed by what is on the
  connection is a run of it, which begins past the pictures already found and not
  past the start of the next one, and which is all the rest as long as the connection is
  whole. From that follows what the parser can find: a start marker, in whatever
  chunks it came, is the start of the next picture, and the first end marker behind it
  is that picture's own (`MarkersInStream`, `ParsedInStream`), so what is cut out is one
  picture, and a buffer cut down to its last two bytes keeps half a marker. Of a connection
  that breaks, the pictures that arrived whole are counted by the same places.
* `TrackerView_proofs`: `TypeOK`, `AnswersAreLatest`, `OwnPollsOnly`. The loop over the
  page of detections keeps, by a least number of rounds at which it would not, a row of
  each cat that none of the rows seen so far replaces; with the order of the page that
  is a latest detection, in whatever order the page lists those of one second. What an
  answer covers does not shrink as the tables grow, so an answer to a poll of this visit
  covers what there was when the visit began (`OwnInv`); `OwnPollsOnly` needs that a poll
  of an earlier visit is told from one of this visit when it is shown.
* `DetectionPipeline_proofs`: `TypeOK`, `EachDetectionTracked`, `LoneCatKeepsIdentity`,
  `AlertStatusHonest`, `PostsSpaced`, `MatchingIsGreedy`, `ZoneMatchIsGeometric`.
  `Effect` says what `Updated` makes of each track; that no detection is overlooked or
  shared is then a bijection between the tracks seen in the frame and its detections. The invariants carry the alert in hand:
  `TypeOK` needs that the loop has a track left and an alert a zone, `AlertStatusHonest`
  that a SENT about to be written was accepted, and `PostsSpaced` that the cooldown
  counts from no earlier than the POST, except while `mark_fired` is still to come or
  where it never came. For `MatchingIsGreedy`, `Greedy` is shown to satisfy the equation
  that defines the loop: the pairs left after the closest was taken are matched
  greedily exactly if they are with that pair (`GreedyRound`); a smallest set of
  candidates on which the two differ cannot exist. For `ZoneMatchIsGeometric`, an edge
  is crossed according to how far its ends are above the point and which side of it
  the point is on (`CrossesIs`), and the heights of a triangle's corners, each weighed
  by the side of the opposite edge, sum to zero (`Balanced`): from these the
  number of crossings is odd inside and even outside, for all integer points
  (`TriangleIsExact`), and even for both sides of a cut together (`CutIsExact`,
  `EveryCutIsExact` for any number of corners). The invariant `Found` carries that from
  the step that looks the zone up to the step that records it.

Model-checked only: the liveness properties (`Reconnects`, `StopIsFinal`, `ResetRestarts`,
`SizeRepaired`, `LossNoticed`, `LoopNeverStuck`, `AlwaysAnswered`, `Released`, `Admitted`,
`PageCatchesUp`, `LingeringCatAlerts`, `CatchesUp`, `Converges`), which rest on fairness,
outside the prover's reach. What `EveryCutIsExact` says of one cut, an induction over
the cuts would say of the polygon as the sum of its triangles; that induction is left to
the reader.

## 6. Where the code and its words disagree

Two runs expect a violation; each quotes the sentence it refutes (`PROJECT.json`,
findings). In `camera_one_connection` a slow join gives two RTSP connections; an older
frame may then replace a newer one, a recording mix the frames of both threads, and
`/camera/status` say disconnected while one of them delivers. In
`trackers_as_sent` the hub reads keys that cat-sentinel does not send.

Other disagreements have no run of their own.

In the models:
* `status()` waits for the PTZ lock on the event loop (`LoopNeverStuck` shows only
  that the wait ends).
* `nudge` says its inaccuracy lasts until "the next calibrate() or move_to()"
  (`ptz/service.py:70-71`); `move_to` computes its delta from the wrong estimate and
  ends nothing (`stray`, which only a calibration clears).
* An exception after the POST of an alert skips `mark_fired`, so the cooldown is lost:
  `PostsSpaced` excepts exactly those alerts (`cut`).
* A detection row is "a single per-frame observation of a tracked cat"
  (`detections/models.py:11`), but the tracker goes on returning a track it has not
  seen for up to `centroid_max_age_frames`, and each such frame inserts a row, and may
  alert, at the old place.
* A row that went MISSING stays MISSING when its file comes back.
* A request of a client that left stays in the hub's queue and is opened upstream
  when its turn comes, only to be closed (`Released` shows that it is).
* A stream that ends after a picture may leave that picture on the page with no
  error and no retry button: `PageCatchesUp` excepts it.
* More cats than a page of `GET /cats/` holds leave some without a name: `Converges`
  promises names only up to `PageLimit`.

Outside them:
* The page reads `label`, `name`, `id` and `bbox`, the hub answers `cat_id`, `cat_name` and
  `bounding_box`, so every entry would read "unknown cat".
* The ORM stores the names of the recordings enum (`RECORDING`,
  `recordings/models.py:32`), the migration makes a PostgreSQL enum of its values.
* A PATCH that sets a zone's name or `is_active` to null answers 409 as if the name were
  taken; one that sets a cat's label to null answers 500.
* A cat retired by `is_active` is still listed.

## 7. What is not modelled

Pixels, JPEG and MP4 encoding, JSON, HTTP headers, logging, the neural network,
drawing. Times are ticks (the cooldown) or timeouts as choices. Routes that only
read, but for those the hub joins. Zone and cat names, offsets of pages, the API
key. PostgreSQL is a set of rows that commits atomically and enforces foreign keys;
a failed commit changes nothing. The rounding of floats, in the polygon test and in
the tracker. Renaming and retiring cats, the lost-race branch of
`get_or_create` (there is one pipeline process) and the rows of the timeline. Of the
frontend, the overview page and how anything is drawn. The services' settings,
middleware, exception handlers and sessions keep no state of their own: where the
status they answer matters (the hub's 502 and 500) it is part of the module that
needs it. A PATCH of a zone's points to null and the reuse of track ids after a
restart are in `DetectionPipeline`, but no property is about them: nothing in the
repository says what should happen.

## 8. The plan

Built, in this order: the camera and its recordings, PTZ, events, the broadcaster,
the pipeline with its tracker, the upstream feed, the tracker listing, and the proofs
of the first four and the broadcaster; then the hub between broadcaster and page with
its proofs, the polygon test, restarts of the event service, the hub's two reads, the
loop of the tracker, and the proofs about the pipeline and its tracker; then the proofs
about the upstream feed, the tracker listing, the tracker's loop and the polygon test.
What comes next:

1. That no alert is sent, and no row written, for a zone that was gone when its frame
   listed the zones.
2. `CatIdentity`: restarts, reused track ids, renaming, the lost-race branch.
3. Violation runs for the disagreements of section 6 that have none.
