---------------------- MODULE DetectionPipeline_proofs ----------------------
(***************************************************************************)
(* Machine-checked proofs about DetectionPipeline and the tracker in it,   *)
(* for any places, distance, age, zones, polygons, cooldown and bounds.    *)
(***************************************************************************)
EXTENDS DetectionPipeline, FiniteSetTheorems, SequenceTheorems, WellFoundedInduction, TLAPS

\* A set of numbers that is not empty has a least one.
LEMMA HasLeast ==
    ASSUME NEW T \in SUBSET Nat, T # {}
    PROVE  \E n \in T : \A m \in T : n <= m
<1>1. OpToRel(<, Nat) = {ss \in Nat \X Nat : ss[1] < ss[2]}
  BY DEF OpToRel
<1>2. PICK n \in T : \A m \in T : <<m, n>> \notin OpToRel(<, Nat)
  BY NatLessThanWellFounded, WFMin
<1>3. \A m \in T : ~(m < n)
  BY <1>1, <1>2
<1> QED BY <1>3

-----------------------------------------------------------------------------
(* The tracker.                                                            *)

Matched(M) == {m[1] : m \in M}
Kept(M) == {t \in DOMAIN tracks \ Matched(M) : tracks[t].unseen < MaxAgeFrames}
Fresh(D, M) == D \ {m[2] : m \in M}

\* A matching pairs tracks with detections, each at most once.
LEMMA MatchingIsPairing ==
    ASSUME NEW D, NEW M \in Greedy(D)
    PROVE  /\ M \subseteq Candidates(D)
           /\ \A m \in M : m[1] \in DOMAIN tracks /\ m[2] \in D /\ m = <<m[1], m[2]>>
           /\ \A m, n \in M : m[1] = n[1] \/ m[2] = n[2] => m = n
<1>1. M \subseteq Candidates(D)
  BY DEF Greedy
<1>2. \A m \in M : m \in (DOMAIN tracks) \X D
  BY <1>1 DEF Candidates
<1>3. \A m, n \in M : m[1] = n[1] \/ m[2] = n[2] => m = n
  BY DEF Greedy
<1> QED BY <1>1, <1>2, <1>3

\* What the frame makes of each track, T being the tracks after it and f[d] the
\* new number of a detection d that no track took: matched tracks and new ones
\* are where a detection is, and the others where they were, unseen.
Effect(D, M, ids, f, T) ==
    /\ DOMAIN T = Matched(M) \cup Kept(M) \cup ids
    /\ \A m \in M : T[m[1]] = [at |-> m[2], unseen |-> 0]
    /\ \A d \in Fresh(D, M) : f[d] \notin Matched(M) /\ T[f[d]] = [at |-> d, unseen |-> 0]
    /\ \A t \in Kept(M) : T[t] = [at |-> tracks[t].at, unseen |-> tracks[t].unseen + 1]

\* Updated has this effect.
LEMMA UpdatedTracks ==
    ASSUME NEW D, NEW M \in Greedy(D), NEW ids, ids \cap DOMAIN tracks = {},
           NEW f \in Bijection(Fresh(D, M), ids)
    PROVE  Effect(D, M, ids, f, Updated(M, f))
<1> DEFINE started == {f[d] : d \in DOMAIN f}
           T == Updated(M, f)
<1>1. /\ DOMAIN f = Fresh(D, M)
      /\ \A d \in Fresh(D, M) : f[d] \in ids
      /\ \A d, e \in Fresh(D, M) : f[d] = f[e] => d = e
      /\ \A i \in ids : \E d \in Fresh(D, M) : f[d] = i
  BY DEF Bijection, Injection, Surjection, IsInjective
<1>2. started = ids
  <2>1. started \subseteq ids
    BY <1>1
  <2>2. ASSUME NEW i \in ids PROVE i \in started
    BY <1>1
  <2> QED BY <2>1, <2>2
<1>3. T = [t \in Matched(M) \cup Kept(M) \cup started |->
              IF t \in Matched(M) THEN [at |-> (CHOOSE m \in M : m[1] = t)[2], unseen |-> 0]
              ELSE IF t \in Kept(M) THEN [at |-> tracks[t].at, unseen |-> tracks[t].unseen + 1]
              ELSE [at |-> CHOOSE d \in DOMAIN f : f[d] = t, unseen |-> 0]]
  BY DEF Updated, Matched, Kept
<1>4. \A t \in DOMAIN tracks : t \notin ids
  OBVIOUS
<1>5. Matched(M) \subseteq DOMAIN tracks /\ Kept(M) \subseteq DOMAIN tracks
  BY MatchingIsPairing DEF Matched, Kept
<1>6. ASSUME NEW m \in M PROVE T[m[1]] = [at |-> m[2], unseen |-> 0]
  <2>1. m[1] \in Matched(M)
    BY DEF Matched
  <2>2. (CHOOSE n \in M : n[1] = m[1]) = m
    BY MatchingIsPairing
  <2> QED BY <1>3, <2>1, <2>2
<1>7. ASSUME NEW d \in Fresh(D, M)
      PROVE  f[d] \notin Matched(M) /\ T[f[d]] = [at |-> d, unseen |-> 0]
  <2>1. f[d] \in started /\ f[d] \notin Matched(M) /\ f[d] \notin Kept(M)
    BY <1>1, <1>4, <1>5
  <2>2. (CHOOSE e \in DOMAIN f : f[e] = f[d]) = d
    BY <1>1
  <2> QED BY <1>3, <2>1, <2>2
<1>8. ASSUME NEW t \in Kept(M)
      PROVE  T[t] = [at |-> tracks[t].at, unseen |-> tracks[t].unseen + 1]
  <2>1. t \notin Matched(M)
    BY DEF Kept
  <2> QED BY <1>3, <2>1
<1> QED BY <1>1, <1>2, <1>3, <1>6, <1>7, <1>8 DEF Effect

\* A frame: a matching M, and a number for each detection that no track took.
LEMMA UpdateEffect ==
    ASSUME TrackerTypeOK, NEW D \in SUBSET Places, Update(D)
    PROVE  /\ nextId \in Nat \ {0} /\ nextId' \in Nat /\ nextId <= nextId'
           /\ \E M \in Greedy(D) : \E f \in Bijection(Fresh(D, M), nextId..(nextId' - 1)) :
                 Effect(D, M, nextId..(nextId' - 1), f, tracks')
<1>1. PICK M \in Greedy(D) :
          /\ \E f \in Bijection(Fresh(D, M), nextId..(nextId + Cardinality(Fresh(D, M)) - 1)) :
                tracks' = Updated(M, f)
          /\ nextId' = nextId + Cardinality(Fresh(D, M))
  BY DEF Update, Fresh
<1>2. Cardinality(Fresh(D, M)) \in Nat
  <2>1. IsFiniteSet(Fresh(D, M))
    BY TrackerAssumption, FS_Subset DEF Fresh
  <2> QED BY <2>1, FS_CardinalityType
<1>3. nextId \in Nat \ {0} /\ nextId' \in Nat /\ nextId <= nextId'
  BY <1>1, <1>2 DEF TrackerTypeOK
<1>4. PICK ids : ids = nextId..(nextId' - 1) /\ ids \cap DOMAIN tracks = {}
  BY <1>3 DEF TrackerTypeOK
<1>5. PICK f \in Bijection(Fresh(D, M), ids) : tracks' = Updated(M, f)
  <2>1. nextId..(nextId + Cardinality(Fresh(D, M)) - 1) = ids
    BY <1>1, <1>2, <1>3, <1>4
  <2> QED BY <1>1, <2>1
<1>6. Effect(D, M, ids, f, tracks')
  BY <1>4, <1>5, UpdatedTracks
<1> QED BY <1>3, <1>4, <1>5, <1>6

\* The tracks keep their type.
LEMMA UpdateTypes ==
    ASSUME TrackerTypeOK, NEW D \in SUBSET Places, Update(D)
    PROVE  TrackerTypeOK'
<1>1. nextId \in Nat \ {0} /\ nextId' \in Nat /\ nextId <= nextId'
  BY UpdateEffect
<1>2. PICK M \in Greedy(D) : \E f \in Bijection(Fresh(D, M), nextId..(nextId' - 1)) :
                                Effect(D, M, nextId..(nextId' - 1), f, tracks')
  BY UpdateEffect
<1>3. PICK f \in Bijection(Fresh(D, M), nextId..(nextId' - 1)) :
          Effect(D, M, nextId..(nextId' - 1), f, tracks')
  BY <1>2
<1>4. Matched(M) \subseteq DOMAIN tracks /\ Kept(M) \subseteq DOMAIN tracks
  BY MatchingIsPairing DEF Matched, Kept
<1>5. DOMAIN tracks' \subseteq 1..(nextId' - 1)
  BY <1>1, <1>3, <1>4 DEF TrackerTypeOK, Effect
<1>6. \A p \in Places : [at |-> p, unseen |-> 0] \in Track
  BY TrackerAssumption DEF Track
<1>7. ASSUME NEW m \in M PROVE tracks'[m[1]] \in Track
  <2>1. m[2] \in Places
    BY MatchingIsPairing
  <2> QED BY <1>3, <1>6, <2>1 DEF Effect
<1>8. ASSUME NEW i \in nextId..(nextId' - 1) PROVE tracks'[i] \in Track
  <2>1. PICK d \in Fresh(D, M) : tracks'[i] = [at |-> d, unseen |-> 0]
    BY <1>3 DEF Bijection, Surjection, Effect
  <2> QED BY <1>6, <2>1 DEF Fresh
<1>9. ASSUME NEW t \in Kept(M) PROVE tracks'[t] \in Track
  <2>1. tracks[t] \in Track /\ tracks[t].unseen < MaxAgeFrames
    BY <1>4 DEF Kept, TrackerTypeOK
  <2> QED BY <1>3, <2>1, TrackerAssumption DEF Track, Effect
<1>10. ASSUME NEW t \in DOMAIN tracks' PROVE tracks'[t] \in Track
  BY <1>3, <1>7, <1>8, <1>9 DEF Matched, Effect
<1> QED BY <1>1, <1>5, <1>10 DEF TrackerTypeOK, Track

\* No two tracks share a detection and none is left without a track.
LEMMA EachOnce ==
    ASSUME TrackerTypeOK, NEW D \in SUBSET Places, Update(D)
    PROVE  LET live == {t \in DOMAIN tracks' : tracks'[t].unseen = 0}
           IN  D = {tracks'[t].at : t \in live} /\ Cardinality(D) = Cardinality(live)
<1> DEFINE live == {t \in DOMAIN tracks' : tracks'[t].unseen = 0}
           place == [t \in live |-> tracks'[t].at]
<1>1. PICK M \in Greedy(D) : \E f \in Bijection(Fresh(D, M), nextId..(nextId' - 1)) :
                                Effect(D, M, nextId..(nextId' - 1), f, tracks')
  BY UpdateEffect
<1>2. PICK f \in Bijection(Fresh(D, M), nextId..(nextId' - 1)) :
          Effect(D, M, nextId..(nextId' - 1), f, tracks')
  BY <1>1
<1>3. \A d \in Fresh(D, M) : f[d] \in nextId..(nextId' - 1)
  BY DEF Bijection, Injection
<1>4. \A i \in nextId..(nextId' - 1) : \E d \in Fresh(D, M) : f[d] = i
  BY DEF Bijection, Surjection
<1>5. \A m \in M : m[1] \in live /\ tracks'[m[1]].at = m[2]
  <2> TAKE m \in M
  <2>1. m[1] \in Matched(M)
    BY DEF Matched
  <2>2. m[1] \in DOMAIN tracks' /\ tracks'[m[1]] = [at |-> m[2], unseen |-> 0]
    BY <1>2, <2>1 DEF Effect
  <2> QED BY <2>2
<1>6. \A d \in Fresh(D, M) : f[d] \in live /\ tracks'[f[d]].at = d
  <2> TAKE d \in Fresh(D, M)
  <2>1. f[d] \in DOMAIN tracks' /\ tracks'[f[d]] = [at |-> d, unseen |-> 0]
    BY <1>2, <1>3 DEF Effect
  <2> QED BY <2>1
<1>7. ASSUME NEW t \in live
      PROVE  (\E m \in M : t = m[1]) \/ (\E d \in Fresh(D, M) : t = f[d])
  <2>1. t \notin Kept(M)
    <3>1. ASSUME t \in Kept(M) PROVE FALSE
      <4>1. tracks[t].unseen \in Nat
        BY <3>1 DEF Kept, TrackerTypeOK, Track
      <4>2. tracks'[t].unseen = tracks[t].unseen + 1
        BY <1>2, <3>1 DEF Effect
      <4> QED BY <4>1, <4>2
    <3> QED BY <3>1
  <2>2. t \in Matched(M) \/ t \in nextId..(nextId' - 1)
    BY <1>2, <2>1 DEF Effect
  <2> QED BY <1>4, <2>2 DEF Matched
<1>8. \A t \in live : tracks'[t].at \in D
  BY <1>5, <1>6, <1>7, MatchingIsPairing DEF Fresh
<1>9. \A d \in D : \E t \in live : tracks'[t].at = d
  BY <1>5, <1>6 DEF Fresh
<1>10. ASSUME NEW t \in live, NEW u \in live, tracks'[t].at = tracks'[u].at PROVE t = u
  <2>1. \A m \in M : m[2] \notin Fresh(D, M)
    BY DEF Fresh
  <2>2. \A m, n \in M : m[2] = n[2] => m = n
    BY MatchingIsPairing
  <2> QED BY <1>5, <1>6, <1>7, <1>10, <2>1, <2>2
<1>11. D = {tracks'[t].at : t \in live}
  BY <1>8, <1>9
<1>12. place \in Injection(live, D) /\ place \in Surjection(live, D)
  BY <1>8, <1>9, <1>10 DEF Injection, Surjection, IsInjective
<1>13. IsFiniteSet(D)
  BY TrackerAssumption, FS_Subset
<1>14. Cardinality(D) = Cardinality(live)
  BY <1>12, <1>13, FS_Injection
<1> QED BY <1>11, <1>14

\* A track and a detection that have no one else within reach stay together.
LEMMA LoneCat ==
    ASSUME TrackerTypeOK, NEW D \in SUBSET Places, Update(D),
           NEW t \in DOMAIN tracks, NEW d \in D,
           {e \in D : Near(tracks[t].at, e)} = {d},
           {u \in DOMAIN tracks : Near(tracks[u].at, d)} = {t}
    PROVE  t \in DOMAIN tracks' /\ tracks'[t].at = d
<1>1. PICK M \in Greedy(D) : \E f \in Bijection(Fresh(D, M), nextId..(nextId' - 1)) :
                                Effect(D, M, nextId..(nextId' - 1), f, tracks')
  BY UpdateEffect
<1>2. PICK m \in M : m[1] = t \/ m[2] = d
  <2>1. <<t, d>> \in Candidates(D)
    BY DEF Candidates
  <2> QED BY <2>1 DEF Greedy
<1>3. m[1] \in DOMAIN tracks /\ m[2] \in D /\ Near(tracks[m[1]].at, m[2])
  BY MatchingIsPairing DEF Candidates
<1>4. m[1] = t /\ m[2] = d
  BY <1>2, <1>3
<1>5. t \in Matched(M)
  BY <1>4 DEF Matched
<1>6. t \in DOMAIN tracks' /\ tracks'[m[1]] = [at |-> m[2], unseen |-> 0]
  BY <1>1, <1>5 DEF Effect
<1> QED BY <1>4, <1>6

-----------------------------------------------------------------------------
(* Types.                                                                  *)

\* The loop over the tracks has one in hand, and an alert its zone.
HasTrack == phase \in {"cat", "detection", "activity", "alert", "post", "mark"} => todo # {}
HasZone == phase \in {"alert", "post", "mark"} => match # NoZone

Typed == TypeOK /\ HasTrack /\ HasZone

\* A set of tracks that is not empty has an oldest one.
LEMMA CurrentIsToDo ==
    ASSUME TypeOK, todo # {}
    PROVE  current \in todo /\ current \in 1..MaxTracks
<1>1. todo \subseteq 1..MaxTracks /\ todo \in SUBSET Nat
  BY PipelineAssumption DEF TypeOK, TrackerTypeOK
<1>2. \E t \in todo : \A u \in todo : t <= u
  BY <1>1, HasLeast
<1> QED BY <1>1, <1>2 DEF current

\* So an alert is about a cat and a zone.
LEMMA PairIsPair ==
    ASSUME Typed, phase \in {"alert", "post", "mark"}
    PROVE  pair \in Pairs
<1>1. current \in 1..MaxTracks
  BY CurrentIsToDo DEF Typed, HasTrack
<1>2. match \in Zones
  BY DEF Typed, HasZone, TypeOK
<1> QED BY <1>1, <1>2 DEF pair, Pairs

LEMMA InFlightPairs ==
    ASSUME Typed
    PROVE  InFlight \subseteq Pairs
BY PairIsPair DEF InFlight

LEMMA TypedInit == Init => Typed
<1> SUFFICES ASSUME Init PROVE Typed
  OBVIOUS
<1>1. TrackerTypeOK /\ nextId <= MaxTracks + 1
  BY PipelineAssumption DEF Init, TrackerInit, TrackerTypeOK
<1>2. NothingListed \in [Zones -> {"ok", "broken", "absent"}] /\ NeverFired \in [Pairs -> 0..Cooldown]
  BY PipelineAssumption DEF NothingListed, NeverFired
<1>3. zones \in [Zones -> ZoneStates] /\ lastAlert \in [Pairs -> {"none", "PENDING", "SENT", "FAILED"}]
  BY DEF Init, ZoneStates
<1> QED BY <1>1, <1>2, <1>3, PipelineAssumption DEF Init, Typed, TypeOK, HasTrack, HasZone, Phases

LEMMA EndFrameTyped ==
    ASSUME EndFrame
    PROVE  /\ phase' \in Phases /\ todo' = {} /\ match' = NoZone /\ reply' \in {"SENT", "FAILED"}
           /\ seen' \in [Zones -> {"ok", "broken", "absent"}]
           /\ HasTrack' /\ HasZone'
BY DEF EndFrame, Phases, NothingListed, HasTrack, HasZone

\* Every step keeps the types.
LEMMA TypedNext == Typed /\ [Next]_vars => Typed'
<1> SUFFICES ASSUME Typed, [Next]_vars PROVE Typed'
  OBVIOUS
<1> USE DEF Typed, TypeOK
<1>1. ASSUME NEW D \in SUBSET Places, Receive(D) PROVE Typed'
  <2>1. TrackerTypeOK'
    BY <1>1, UpdateTypes DEF Receive
  <2> QED BY <1>1, <2>1 DEF Receive, tableVars, coolVars, HasTrack, HasZone, Phases
<1>2. CASE ListZones
  BY <1>2 DEF ListZones, trackerVars, tableVars, coolVars, HasTrack, HasZone, Phases, TrackerTypeOK
<1>3. CASE GetCat
  <2>1. current \in 1..MaxTracks /\ Containing(current) \subseteq Zones
    BY <1>3, CurrentIsToDo DEF GetCat, HasTrack, Containing
  <2> QED BY <1>3, <2>1 DEF GetCat, trackerVars, coolVars, HasTrack, HasZone, Phases, TrackerTypeOK
<1>4. CASE InsertDetection
  BY <1>4 DEF InsertDetection, trackerVars, coolVars, HasTrack, HasZone, Phases, TrackerTypeOK
<1>5. CASE RecordActivity
  <2>1. CASE ShouldFire /\ phase' = "alert" /\ UNCHANGED <<todo, match>>
    BY <1>5, <2>1 DEF RecordActivity, ShouldFire, trackerVars, tableVars, coolVars, HasTrack, HasZone,
                      Phases, TrackerTypeOK
  <2>2. CASE NextTrack
    BY <1>5, <2>2 DEF RecordActivity, NextTrack, trackerVars, tableVars, coolVars, HasTrack, HasZone,
                      Phases, TrackerTypeOK
  <2> QED BY <1>5, <2>1, <2>2 DEF RecordActivity
<1>6. CASE InsertAlert
  BY <1>6 DEF InsertAlert, trackerVars, HasTrack, HasZone, Phases, TrackerTypeOK
<1>7. CASE Post
  <2>1. pair \in Pairs
    BY <1>7, PairIsPair DEF Post
  <2> QED BY <1>7, <2>1, PipelineAssumption
             DEF Post, trackerVars, tableVars, HasTrack, HasZone, Phases, TrackerTypeOK
<1>8. CASE MarkStatus
  <2>1. /\ lastAlert' \in [Pairs -> {"none", "PENDING", "SENT", "FAILED"}]
        /\ elapsed' \in [Pairs -> 0..Cooldown]
        /\ cut' \in SUBSET Pairs
    <3>1. 0 \in 0..Cooldown
      BY PipelineAssumption
    <3>2. lastAlert' = [lastAlert EXCEPT ![pair] = reply] /\ elapsed' = [elapsed EXCEPT ![pair] = 0]
      BY <1>8 DEF MarkStatus
    <3>3. cut' \in SUBSET Pairs
      BY <1>8 DEF MarkStatus
    <3> QED BY <3>1, <3>2, <3>3
  <2>2. /\ phase' \in Phases /\ todo' \subseteq DOMAIN tracks /\ match' = NoZone
        /\ HasTrack' /\ HasZone'
    BY <1>8 DEF MarkStatus, NextTrack, HasTrack, HasZone, Phases
  <2> QED BY <1>8, <2>1, <2>2 DEF MarkStatus, trackerVars, TrackerTypeOK
<1>9. CASE Publish
  BY <1>9, EndFrameTyped DEF Publish, trackerVars, tableVars, coolVars, TrackerTypeOK
<1>10. ASSUME Abandon, cats' \in SUBSET (1..MaxTracks), failures' \in 0..MaxFailures,
              lastAlert' \in [Pairs -> {"none", "PENDING", "SENT", "FAILED"}]
       PROVE  Typed'
  BY <1>10, EndFrameTyped, InFlightPairs DEF Abandon, trackerVars, TrackerTypeOK
<1>11. CASE MustFail
  <2>1. ASSUME phase = "cat" PROVE current \in 1..MaxTracks
    BY <2>1, CurrentIsToDo DEF HasTrack
  <2> QED BY <1>10, <1>11, <2>1 DEF MustFail
<1>12. CASE CallFails
  <2>1. failures' \in 0..MaxFailures
    BY <1>12, PipelineAssumption DEF CallFails
  <2>2. lastAlert' \in [Pairs -> {"none", "PENDING", "SENT", "FAILED"}]
    BY <1>12 DEF CallFails
  <2> QED BY <1>10, <1>12, <2>1, <2>2 DEF CallFails
<1>13. ASSUME NEW z \in Zones, CreateZone(z) \/ UpdateZone(z) \/ DeleteZone(z) PROVE Typed'
  <2>1. PICK s \in ZoneStates : SetZone(z, s)
    BY <1>13 DEF CreateZone, UpdateZone, DeleteZone, ZoneStates
  <2> QED BY <2>1 DEF SetZone, trackerVars, frameVars, coolVars, HasTrack, HasZone, TrackerTypeOK
<1>14. CASE Tick
  <2>1. ASSUME NEW ticks \in [Pairs -> 0..Cooldown] PROVE Later(ticks) \in [Pairs -> 0..Cooldown]
    BY PipelineAssumption DEF Later
  <2> QED BY <1>14, <2>1 DEF Tick, trackerVars, frameVars, tableVars, HasTrack, HasZone, TrackerTypeOK
<1>15. CASE Restart
  <2>1. NeverFired \in [Pairs -> 0..Cooldown]
    BY PipelineAssumption DEF NeverFired
  <2>2. TrackerTypeOK' /\ nextId' <= MaxTracks + 1
    BY <1>15, PipelineAssumption DEF Restart, TrackerTypeOK
  <2>3. failures' \in 0..MaxFailures
    BY <1>15, PipelineAssumption DEF Restart
  <2>4. cut' \in SUBSET Pairs
    BY <1>15, InFlightPairs DEF Restart
  <2> QED BY <1>15, <2>1, <2>2, <2>3, <2>4, EndFrameTyped DEF Restart, tableVars
<1>16. CASE UNCHANGED vars
  BY <1>16 DEF vars, trackerVars, frameVars, tableVars, coolVars, HasTrack, HasZone, TrackerTypeOK
<1> QED BY <1>1, <1>2, <1>3, <1>4, <1>5, <1>6, <1>7, <1>8, <1>9, <1>11, <1>12, <1>13, <1>14, <1>15,
           <1>16 DEF Next, Frame

\* The type invariant.
THEOREM TypeCorrect == Spec => []TypeOK
<1>1. Typed => TypeOK
  BY DEF Typed
<1> QED BY <1>1, TypedInit, TypedNext, PTL DEF Spec

\* The tracker's two promises, for any distance and any places.
THEOREM DetectionsTracked == Spec => EachDetectionTracked
<1>1. TypeOK /\ [Next]_vars =>
          [phase = "idle" /\ phase' = "zones" => \A D \in SUBSET Places : Receive(D) =>
              LET live == {t \in DOMAIN tracks' : tracks'[t].unseen = 0}
              IN  D = {tracks'[t].at : t \in live} /\ Cardinality(D) = Cardinality(live)]_vars
  BY EachOnce DEF TypeOK, Receive
<1> QED BY <1>1, TypeCorrect, PTL DEF Spec, EachDetectionTracked

THEOREM IdentityKept == Spec => LoneCatKeepsIdentity
<1>1. TypeOK /\ [Next]_vars =>
          [phase = "idle" /\ phase' = "zones" =>
              \A D \in SUBSET Places : \A t \in DOMAIN tracks : \A d \in D :
                  /\ {e \in D : Near(tracks[t].at, e)} = {d}
                  /\ {u \in DOMAIN tracks : Near(tracks[u].at, d)} = {t}
                  /\ Receive(D)
                  => t \in DOMAIN tracks' /\ tracks'[t].at = d]_vars
  BY LoneCat DEF TypeOK, Receive
<1> QED BY <1>1, TypeCorrect, PTL DEF Spec, LoneCatKeepsIdentity

-----------------------------------------------------------------------------
(* Alerts.                                                                 *)

LEMMA SamePair ==
    ASSUME UNCHANGED <<todo, match>>
    PROVE  pair' = pair
BY DEF pair, current

\* A SENT about to be written was accepted.
Honest == AlertStatusHonest /\ (phase = "mark" /\ reply = "SENT" => pair \in accepted)

\* Steps away from an alert being sent.
LEMMA HonestElsewhere ==
    ASSUME Honest, UNCHANGED <<lastAlert, accepted, cut>>,
           phase \notin {"post", "mark"}, phase' # "mark"
    PROVE  Honest'
BY DEF Honest, AlertStatusHonest, InFlight

\* Steps of others while one may be.
LEMMA HonestAside ==
    ASSUME Honest, UNCHANGED <<lastAlert, accepted, cut, frameVars>>
    PROVE  Honest'
BY SamePair DEF Honest, AlertStatusHonest, InFlight, frameVars

\* The end of the frame, of whatever kind: the alert in flight is cut.
LEMMA HonestCut ==
    ASSUME Typed, Honest, EndFrame, accepted' = accepted, cut \cup InFlight \subseteq cut',
           \/ lastAlert' = lastAlert
           \/ phase = "mark" /\ lastAlert' = [lastAlert EXCEPT ![pair] = reply]
    PROVE  Honest'
<1>1. phase' = "idle"
  BY DEF EndFrame
<1>2. CASE lastAlert' = lastAlert
  BY <1>1, <1>2 DEF Honest, AlertStatusHonest
<1>3. CASE phase = "mark" /\ lastAlert' = [lastAlert EXCEPT ![pair] = reply]
  <2>1. reply # "PENDING" /\ pair \in Pairs /\ lastAlert \in [Pairs -> {"none", "PENDING", "SENT", "FAILED"}]
    BY <1>3, PairIsPair DEF Typed, TypeOK
  <2>2. \A p \in Pairs : lastAlert'[p] = IF p = pair THEN reply ELSE lastAlert[p]
    BY <1>3, <2>1
  <2> QED BY <1>1, <1>3, <2>1, <2>2 DEF Honest, AlertStatusHonest
<1> QED BY <1>2, <1>3

LEMMA HonestNext == Typed /\ Honest /\ [Next]_vars => Honest'
<1> SUFFICES ASSUME Typed, Honest, [Next]_vars PROVE Honest'
  OBVIOUS
<1>1. ASSUME NEW D \in SUBSET Places, Receive(D) PROVE Honest'
  BY <1>1, HonestElsewhere DEF Receive, tableVars, coolVars
<1>2. CASE ListZones
  BY <1>2, HonestElsewhere DEF ListZones, tableVars, coolVars
<1>3. CASE GetCat
  BY <1>3, HonestElsewhere DEF GetCat, coolVars
<1>4. CASE InsertDetection
  BY <1>4, HonestElsewhere DEF InsertDetection, coolVars
<1>5. CASE RecordActivity
  BY <1>5, HonestElsewhere DEF RecordActivity, NextTrack, tableVars, coolVars
<1>6. CASE InsertAlert
  <2>1. pair' = pair
    BY <1>6, SamePair DEF InsertAlert
  <2>2. \A p \in Pairs : lastAlert'[p] = IF p = pair THEN "PENDING" ELSE lastAlert[p]
    BY <1>6 DEF InsertAlert, Typed, TypeOK
  <2> QED BY <1>6, <2>1, <2>2 DEF InsertAlert, Honest, AlertStatusHonest, InFlight
<1>7. CASE Post
  <2>1. pair' = pair
    BY <1>7, SamePair DEF Post
  <2>2. accepted \subseteq accepted' /\ (reply' = "SENT" => pair \in accepted')
    BY <1>7 DEF Post
  <2> QED BY <1>7, <2>1, <2>2 DEF Post, tableVars, Honest, AlertStatusHonest, InFlight
<1>8. CASE MarkStatus
  <2>1. reply # "PENDING" /\ lastAlert \in [Pairs -> {"none", "PENDING", "SENT", "FAILED"}]
    BY DEF Typed, TypeOK
  <2>2. \A p \in Pairs : lastAlert'[p] = IF p = pair THEN reply ELSE lastAlert[p]
    BY <1>8, <2>1 DEF MarkStatus
  <2>3. phase = "mark" /\ phase' # "mark" /\ accepted' = accepted /\ cut' = cut \ {pair}
    BY <1>8 DEF MarkStatus, NextTrack
  <2> QED BY <2>1, <2>2, <2>3 DEF Honest, AlertStatusHonest, InFlight
<1>9. CASE Publish
  BY <1>9, HonestElsewhere DEF Publish, EndFrame, tableVars, coolVars
<1>10. CASE MustFail
  BY <1>10, HonestCut DEF MustFail, Abandon
<1>11. CASE CallFails
  BY <1>11, HonestCut DEF CallFails, Abandon
<1>12. ASSUME NEW z \in Zones, CreateZone(z) \/ UpdateZone(z) \/ DeleteZone(z) PROVE Honest'
  BY <1>12, HonestAside DEF CreateZone, UpdateZone, DeleteZone, SetZone, coolVars
<1>13. CASE Tick
  BY <1>13, HonestAside DEF Tick, tableVars
<1>14. CASE Restart
  BY <1>14, HonestCut DEF Restart, tableVars
<1>15. CASE UNCHANGED vars
  BY <1>15, HonestAside DEF vars, tableVars, coolVars
<1> QED BY <1>1, <1>2, <1>3, <1>4, <1>5, <1>6, <1>7, <1>8, <1>9, <1>10, <1>11, <1>12, <1>13, <1>14,
           <1>15 DEF Next, Frame

\* The status column tells what came of an alert, whatever fails in between.
THEOREM AlertsAreHonest == Spec => []AlertStatusHonest
<1>1. Init => Honest
  BY DEF Init, Honest, AlertStatusHonest
<1>2. Honest => AlertStatusHonest
  BY DEF Honest
<1> QED BY <1>1, <1>2, TypedInit, TypedNext, HonestNext, PTL DEF Spec

\* The cooldown counts from no earlier than the POST, except while mark_fired
\* is still to come and where it never came; and it has run out at a POST.
Cool == /\ phase \in {"alert", "post"} => elapsed[pair] = Cooldown
        /\ \A p \in Pairs : \/ p \in cut
                            \/ elapsed[p] <= sincePost[p]
                            \/ phase = "mark" /\ p = pair

LEMMA CoolElsewhere ==
    ASSUME Cool, UNCHANGED <<elapsed, sincePost, cut>>,
           phase # "mark", phase' \notin {"alert", "post"}
    PROVE  Cool'
BY DEF Cool

LEMMA CoolAside ==
    ASSUME Cool, UNCHANGED <<elapsed, sincePost, cut, frameVars>>
    PROVE  Cool'
BY SamePair DEF Cool, frameVars

LEMMA CoolCut ==
    ASSUME Cool, EndFrame, UNCHANGED <<elapsed, sincePost>>, cut \cup InFlight \subseteq cut'
    PROVE  Cool'
BY DEF Cool, EndFrame, InFlight

LEMMA CoolNext == Typed /\ Cool /\ [Next]_vars => Cool'
<1> SUFFICES ASSUME Typed, Cool, [Next]_vars PROVE Cool'
  OBVIOUS
<1>1. ASSUME NEW D \in SUBSET Places, Receive(D) PROVE Cool'
  BY <1>1, CoolElsewhere DEF Receive, coolVars
<1>2. CASE ListZones
  BY <1>2, CoolElsewhere DEF ListZones, coolVars
<1>3. CASE GetCat
  BY <1>3, CoolElsewhere DEF GetCat, coolVars
<1>4. CASE InsertDetection
  BY <1>4, CoolElsewhere DEF InsertDetection, coolVars
<1>5. CASE RecordActivity
  <2>1. CASE ShouldFire /\ phase' = "alert" /\ UNCHANGED <<todo, match>>
    BY <1>5, <2>1, SamePair DEF RecordActivity, ShouldFire, coolVars, Cool
  <2>2. CASE NextTrack
    BY <1>5, <2>2, CoolElsewhere DEF RecordActivity, NextTrack, coolVars
  <2> QED BY <1>5, <2>1, <2>2 DEF RecordActivity
<1>6. CASE InsertAlert
  BY <1>6, SamePair DEF InsertAlert, Cool
<1>7. CASE Post
  <2>1. pair' = pair
    BY <1>7, SamePair DEF Post
  <2>2. \A p \in Pairs \ {pair} : sincePost'[p] = sincePost[p]
    BY <1>7 DEF Post, Typed, TypeOK
  <2> QED BY <1>7, <2>1, <2>2 DEF Post, Cool
<1>8. CASE MarkStatus
  <2>1. phase = "mark" /\ phase' \in {"cat", "publish"} /\ cut' = cut \ {pair} /\ sincePost' = sincePost
    BY <1>8 DEF MarkStatus, NextTrack
  <2>2. \A p \in Pairs : elapsed'[p] = IF p = pair THEN 0 ELSE elapsed[p]
    BY <1>8 DEF MarkStatus, Typed, TypeOK
  <2>3. \A p \in Pairs : 0 <= sincePost[p]
    BY PipelineAssumption DEF Typed, TypeOK
  <2> QED BY <2>1, <2>2, <2>3 DEF Cool
<1>9. CASE Publish
  BY <1>9, CoolElsewhere DEF Publish, EndFrame, coolVars
<1>10. CASE MustFail
  BY <1>10, CoolCut DEF MustFail, Abandon
<1>11. CASE CallFails
  BY <1>11, CoolCut DEF CallFails, Abandon
<1>12. ASSUME NEW z \in Zones, CreateZone(z) \/ UpdateZone(z) \/ DeleteZone(z) PROVE Cool'
  BY <1>12, CoolAside DEF CreateZone, UpdateZone, DeleteZone, SetZone, coolVars
<1>13. CASE Tick
  <2>1. elapsed' = Later(elapsed) /\ sincePost' = Later(sincePost) /\ cut' = cut /\ phase' = phase
    BY <1>13 DEF Tick, frameVars
  <2>2. pair' = pair
    BY <1>13, SamePair DEF Tick, frameVars
  <2>3. ASSUME NEW p \in Pairs, elapsed[p] <= sincePost[p] PROVE elapsed'[p] <= sincePost'[p]
    BY <2>1, <2>3, PipelineAssumption DEF Later, Typed, TypeOK
  <2>4. phase \in {"alert", "post"} => elapsed'[pair] = Cooldown
    <3>1. ASSUME phase \in {"alert", "post"} PROVE pair \in Pairs /\ elapsed[pair] = Cooldown
      BY <3>1, PairIsPair DEF Cool
    <3>2. ASSUME phase \in {"alert", "post"} PROVE elapsed'[pair] = Cooldown
      <4>1. Later(elapsed)[pair] = IF elapsed[pair] < Cooldown THEN elapsed[pair] + 1 ELSE Cooldown
        BY <3>1, <3>2 DEF Later
      <4> QED BY <2>1, <3>1, <3>2, <4>1, PipelineAssumption
    <3> QED BY <3>2
  <2> QED BY <2>1, <2>2, <2>3, <2>4 DEF Cool
<1>14. CASE Restart
  <2>1. phase' = "idle" /\ sincePost' = sincePost /\ {p \in Pairs : sincePost[p] < Cooldown} \subseteq cut'
    BY <1>14 DEF Restart, EndFrame
  <2>2. \A p \in Pairs : elapsed'[p] = Cooldown
    BY <1>14 DEF Restart, NeverFired
  <2>3. \A p \in Pairs : sincePost[p] < Cooldown \/ Cooldown <= sincePost[p]
    BY PipelineAssumption DEF Typed, TypeOK
  <2> QED BY <2>1, <2>2, <2>3 DEF Cool
<1>15. CASE UNCHANGED vars
  BY <1>15, CoolAside DEF vars, coolVars
<1> QED BY <1>1, <1>2, <1>3, <1>4, <1>5, <1>6, <1>7, <1>8, <1>9, <1>10, <1>11, <1>12, <1>13, <1>14,
           <1>15 DEF Next, Frame

\* Nobody is alerted twice within the cooldown, but for the listed failures.
THEOREM PostsAreSpaced == Spec => PostsSpaced
<1>1. Init => Cool
  BY PipelineAssumption DEF Init, Cool, NeverFired
<1>2. Typed /\ Cool /\ [Next]_vars => [Post /\ sincePost[pair] < Cooldown => pair \in cut]_vars
  <2> SUFFICES ASSUME Typed, Cool, Post, sincePost[pair] < Cooldown PROVE pair \in cut
    OBVIOUS
  <2>1. phase = "post" /\ pair \in Pairs
    BY PairIsPair DEF Post
  <2>2. elapsed[pair] = Cooldown /\ sincePost[pair] \in Int
    BY <2>1 DEF Cool, Typed, TypeOK
  <2> QED BY <2>1, <2>2, PipelineAssumption DEF Cool
<1> QED BY <1>1, <1>2, TypedInit, TypedNext, CoolNext, PTL DEF Spec, PostsSpaced

-----------------------------------------------------------------------------
(* The loop of the matching.                                               *)

Closest(C) == {c \in C : \A e \in C : Apart(c) <= Apart(e)}
Left(C, c) == {e \in C : e[1] # c[1] /\ e[2] # c[2]}

\* One round, f[B] being what the rounds from B on may come to.
Round(f, C) ==
    IF C = {} THEN {{}}
    ELSE UNION {{M \cup {c} : M \in f[Left(C, c)]} : c \in Closest(C)}

\* Greedy, of any candidates.
GreedyOf(C) ==
    {M \in SUBSET C :
        /\ \A m, n \in M : m[1] = n[1] \/ m[2] = n[2] => m = n
        /\ \A c \in C : \E m \in M : (m[1] = c[1] \/ m[2] = c[2]) /\ Apart(m) <= Apart(c)}

\* Squares are no less than nothing.
LEMMA ApartIsNat ==
    ASSUME TrackerTypeOK, NEW D \in SUBSET Places
    PROVE  /\ Candidates(D) \subseteq (DOMAIN tracks) \X D
           /\ \A c \in Candidates(D) : Apart(c) \in Nat
<1>1. Candidates(D) \subseteq (DOMAIN tracks) \X D
  BY DEF Candidates
<1>2. \A x \in Int : x * x >= 0
  OBVIOUS
<1>3. \A a, b \in Int \X Int : Distance2(a, b) \in Nat
  <2> SUFFICES ASSUME NEW a \in Int \X Int, NEW b \in Int \X Int PROVE Distance2(a, b) \in Nat
    OBVIOUS
  <2>1. a[1] - b[1] \in Int /\ a[2] - b[2] \in Int
    OBVIOUS
  <2> DEFINE x == a[1] - b[1]
             y == a[2] - b[2]
  <2>2. Distance2(a, b) = x * x + y * y
    BY DEF Distance2
  <2> HIDE DEF x, y
  <2>3. x \in Int /\ y \in Int
    BY <2>1 DEF x, y
  <2>4. x * x \in Int /\ y * y \in Int /\ x * x >= 0 /\ y * y >= 0
    BY <1>2, <2>3
  <2> QED BY <2>2, <2>4
<1>4. ASSUME NEW c \in Candidates(D) PROVE Apart(c) \in Nat
  <2>1. tracks[c[1]].at \in Int \X Int /\ c[2] \in Int \X Int
    BY <1>1, TrackerAssumption DEF TrackerTypeOK, Track
  <2> QED BY <1>3, <2>1 DEF Apart
<1> QED BY <1>1, <1>4

\* Taking one of the closest pairs, and then what is greedy of the rest, is all
\* there is to being greedy.
LEMMA GreedyRound ==
    ASSUME NEW C, NEW T, NEW D, C \subseteq T \X D, \A c \in C : Apart(c) \in Nat,
           NEW f, \A c \in C : f[Left(C, c)] = GreedyOf(Left(C, c))
    PROVE  Round(f, C) = GreedyOf(C)
<1>0. \A c \in C : c = <<c[1], c[2]>>
  OBVIOUS
<1>1. CASE C = {}
  <2>1. \A M : M \in GreedyOf({}) <=> M = {}
    BY DEF GreedyOf
  <2> QED BY <1>1, <2>1 DEF Round
<1>2. CASE C # {}
  <2>1. \A L : L \in Round(f, C) <=>
                  \E c \in Closest(C) : \E M \in GreedyOf(Left(C, c)) : L = M \cup {c}
    <3>1. \A c \in Closest(C) : f[Left(C, c)] = GreedyOf(Left(C, c))
      BY DEF Closest
    <3> QED BY <1>2, <3>1 DEF Round
  <2>2. ASSUME NEW c \in Closest(C), NEW M \in GreedyOf(Left(C, c))
        PROVE  M \cup {c} \in GreedyOf(C)
    <3>1. c \in C /\ \A e \in C : Apart(c) <= Apart(e)
      BY DEF Closest
    <3>2. /\ M \subseteq C
          /\ \A m \in M : m[1] # c[1] /\ m[2] # c[2]
          /\ \A m, n \in M : m[1] = n[1] \/ m[2] = n[2] => m = n
          /\ \A e \in C : e[1] # c[1] /\ e[2] # c[2] =>
                \E m \in M : (m[1] = e[1] \/ m[2] = e[2]) /\ Apart(m) <= Apart(e)
      BY DEF GreedyOf, Left
    <3>3. \A m, n \in M \cup {c} : m[1] = n[1] \/ m[2] = n[2] => m = n
      BY <3>2
    <3>4. \A e \in C : \E m \in M \cup {c} : (m[1] = e[1] \/ m[2] = e[2]) /\ Apart(m) <= Apart(e)
      BY <3>1, <3>2
    <3> QED BY <3>1, <3>2, <3>3, <3>4 DEF GreedyOf
  <2>3. ASSUME NEW L \in GreedyOf(C)
        PROVE  \E c \in Closest(C) : \E M \in GreedyOf(Left(C, c)) : L = M \cup {c}
    <3>1. /\ L \subseteq C
          /\ \A m, n \in L : m[1] = n[1] \/ m[2] = n[2] => m = n
          /\ \A e \in C : \E m \in L : (m[1] = e[1] \/ m[2] = e[2]) /\ Apart(m) <= Apart(e)
      BY DEF GreedyOf
    <3>2. PICK c0 \in C : \A e \in C : Apart(c0) <= Apart(e)
      <4> DEFINE far == {Apart(e) : e \in C}
      <4>1. far \in SUBSET Nat /\ far # {}
        BY <1>2
      <4>2. \E n \in far : \A m \in far : n <= m
        <5> HIDE DEF far
        <5> QED BY <4>1, HasLeast
      <4> QED BY <4>2
    <3>3. PICK c \in L : Apart(c) <= Apart(c0)
      BY <3>1
    <3>4. c \in C /\ \A e \in C : Apart(c) <= Apart(e)
      BY <3>1, <3>2, <3>3
    <3> DEFINE M == L \ {c}
    <3>5. M \subseteq Left(C, c)
      BY <3>1 DEF Left
    <3>6. \A m, n \in M : m[1] = n[1] \/ m[2] = n[2] => m = n
      BY <3>1
    <3>7. \A e \in Left(C, c) : \E m \in M : (m[1] = e[1] \/ m[2] = e[2]) /\ Apart(m) <= Apart(e)
      BY <3>1 DEF Left
    <3>8. M \in GreedyOf(Left(C, c)) /\ L = M \cup {c}
      BY <3>5, <3>6, <3>7 DEF GreedyOf
    <3> QED BY <3>4, <3>8 DEF Closest
  <2>4. \A L : L \in Round(f, C) <=> L \in GreedyOf(C)
    BY <2>1, <2>2, <2>3
  <2> QED BY <2>4
<1> QED BY <1>1, <1>2

LEMMA LoopIsGreedy ==
    ASSUME TrackerTypeOK, NEW D \in SUBSET Places
    PROVE  ClosestFirst(D) = Greedy(D)
<1> DEFINE S == Candidates(D)
           T == DOMAIN tracks
           h == [C \in SUBSET S |-> GreedyOf(C)]
           g == CHOOSE f : f = [C \in SUBSET S |-> Round(f, C)]
<1>1. ClosestFirst(D) = g[S]
  BY DEF ClosestFirst, Round, Left, Closest
<1>2. Greedy(D) = GreedyOf(S)
  BY DEF Greedy, GreedyOf
<1>3. S \subseteq T \X D /\ \A c \in S : Apart(c) \in Nat
  BY ApartIsNat
<1>4. IsFiniteSet(S)
  <2>1. IsFiniteSet(T)
    <3>1. IsFiniteSet(1..(nextId - 1))
      BY FS_Interval DEF TrackerTypeOK
    <3> QED BY <3>1, FS_Subset DEF TrackerTypeOK
  <2>2. IsFiniteSet(D)
    BY TrackerAssumption, FS_Subset
  <2>3. IsFiniteSet(T \X D)
    BY <2>1, <2>2, FS_Product
  <2> HIDE DEF S
  <2> QED BY <1>3, <2>3, FS_Subset
<1> HIDE DEF S, T
<1>5. ASSUME NEW C \in SUBSET S, NEW f, \A B \in SUBSET C : B # C => f[B] = GreedyOf(B)
      PROVE  Round(f, C) = GreedyOf(C)
  <2>1. C \subseteq T \X D /\ \A c \in C : Apart(c) \in Nat
    BY <1>3
  <2>2. \A c \in C : Left(C, c) \in SUBSET C /\ c \notin Left(C, c)
    BY DEF Left
  <2>3. \A c \in C : f[Left(C, c)] = GreedyOf(Left(C, c))
    BY <1>5, <2>2
  <2> QED BY <2>1, <2>3, GreedyRound
<1>6. h = [C \in SUBSET S |-> Round(h, C)]
  <2>1. \A C \in SUBSET S : Round(h, C) = GreedyOf(C)
    <3> TAKE C \in SUBSET S
    <3>1. \A B \in SUBSET C : h[B] = GreedyOf(B)
      OBVIOUS
    <3> HIDE DEF h
    <3> QED BY <1>5, <3>1
  <2> QED BY <2>1
<1>7. g = [C \in SUBSET S |-> Round(g, C)]
  BY <1>6
<1> HIDE DEF g, h
<1>8. \A C \in SUBSET S : g[C] = Round(g, C)
  BY <1>7
<1> DEFINE bad == {n \in Nat : \E C \in SUBSET S : Cardinality(C) = n /\ g[C] # GreedyOf(C)}
<1>9. bad = {}
  <2> SUFFICES ASSUME bad # {} PROVE FALSE
    OBVIOUS
  <2>1. PICK n \in bad : \A m \in bad : n <= m
    <3>1. bad \in SUBSET Nat /\ bad # {}
      OBVIOUS
    <3> HIDE DEF bad
    <3> QED BY <3>1, HasLeast
  <2>2. PICK C \in SUBSET S : Cardinality(C) = n /\ g[C] # GreedyOf(C)
    BY <2>1
  <2>3. ASSUME NEW B \in SUBSET C, B # C PROVE g[B] = GreedyOf(B)
    <3>1. IsFiniteSet(C)
      BY <1>4, FS_Subset
    <3>2. IsFiniteSet(B) /\ Cardinality(B) <= Cardinality(C) /\ Cardinality(B) # Cardinality(C)
      BY <2>3, <3>1, FS_Subset
    <3>3. Cardinality(B) \in Nat /\ Cardinality(C) \in Nat
      BY <3>1, <3>2, FS_CardinalityType
    <3>4. Cardinality(B) \notin bad
      BY <2>1, <2>2, <3>2, <3>3
    <3>5. B \in SUBSET S
      BY <2>2
    <3> QED BY <3>3, <3>4, <3>5
  <2>4. g[C] = GreedyOf(C)
    BY <1>5, <1>8, <2>3
  <2> QED BY <2>2, <2>4
<1>10. g[S] = GreedyOf(S)
  <2>1. Cardinality(S) \in Nat
    BY <1>4, FS_CardinalityType
  <2> QED BY <1>9, <2>1
<1> QED BY <1>1, <1>2, <1>10

\* The matching the tracker's loop comes to, however ties fall, is one of those
\* said to be greedy, and each of those is one it may come to.
THEOREM LoopsAreGreedy == Spec => []MatchingIsGreedy
<1>1. Typed => MatchingIsGreedy
  BY LoopIsGreedy DEF Typed, TypeOK, MatchingIsGreedy
<1> QED BY <1>1, TypedInit, TypedNext, PTL DEF Spec

-----------------------------------------------------------------------------
(* The polygon test, of any points with integer coordinates.               *)

LEMMA Products ==
    /\ \A x, y \in Int : x >= 0 /\ y >= 0 => x * y >= 0
    /\ \A x, y \in Int : x > 0 /\ y > 0 => x * y > 0
    /\ \A x, y \in Int : x < 0 /\ y >= 0 => x * y <= 0
    /\ \A x, y \in Int : x < 0 /\ y > 0 => x * y < 0
    /\ \A x, y \in Int : x < 0 /\ y < 0 => x * y > 0
OBVIOUS

\* A point at the height h of an edge that rises by r, left of it, is left of
\* one of the edge's ends, q and w being how far it and the upper end are to
\* the right of the lower one.
LEMMA LeftOfAnEnd ==
    ASSUME NEW q \in Int, NEW h \in Int, NEW w \in Int, NEW r \in Int,
           0 <= h, h <= r, 0 < r, q * r <= h * w
    PROVE  q <= 0 \/ q <= w
<1> SUFFICES ASSUME q > 0, q > w PROVE FALSE
  OBVIOUS
<1>1. CASE w <= 0
  <2>1. q * r > 0
    BY Products
  <2>2. h * (0 - w) >= 0
    BY <1>1, Products
  <2>3. h * (0 - w) = 0 - h * w
    OBVIOUS
  <2> QED BY <2>1, <2>2, <2>3
<1>2. CASE w > 0
  <2>1. (r - h) * w >= 0 /\ (q - w) * r > 0
    BY <1>2, Products
  <2>2. (r - h) * w = r * w - h * w /\ (q - w) * r = q * r - w * r /\ r * w = w * r
    OBVIOUS
  <2>3. r * w \in Int /\ h * w \in Int /\ q * r \in Int
    OBVIOUS
  <2> QED BY <2>1, <2>2, <2>3
<1> QED BY <1>1, <1>2

\* The edge from a to b, their heights over p being A and B and p being on
\* the side S of it, is crossed.
Crossed(A, B, S) ==
    \/ A < 0 /\ B >= 0 /\ S >= 0
    \/ B < 0 /\ A >= 0 /\ S <= 0

\* The side is a determinant.
LEMMA SideIs ==
    ASSUME NEW p \in Point, NEW a \in Point, NEW b \in Point
    PROVE  Side(p, a, b) = (a[1] - p[1]) * (b[2] - p[2]) - (b[1] - p[1]) * (a[2] - p[2])
<1> DEFINE a1 == a[1]
           a2 == a[2]
           b1 == b[1]
           b2 == b[2]
           p1 == p[1]
           p2 == p[2]
<1>1. a1 \in Int /\ a2 \in Int /\ b1 \in Int /\ b2 \in Int /\ p1 \in Int /\ p2 \in Int
  BY DEF Point
<1>2. Side(p, a, b) = (b1 - a1) * (p2 - a2) - (b2 - a2) * (p1 - a1)
  BY DEF Side
<1> HIDE DEF a1, a2, b1, b2, p1, p2
<1>3. (b1 - a1) * (p2 - a2) - (b2 - a2) * (p1 - a1)
        = (a1 - p1) * (b2 - p2) - (b1 - p1) * (a2 - p2)
  BY <1>1
<1> QED BY <1>2, <1>3 DEF a1, a2, b1, b2, p1, p2

\* So the comparisons of the loop come to a side and a span.
LEMMA CrossesIs ==
    ASSUME NEW p \in Point, NEW a \in Point, NEW b \in Point
    PROVE  Crosses(p, a, b) <=> Crossed(a[2] - p[2], b[2] - p[2], Side(p, a, b))
<1> DEFINE q == p[1] - a[1]
           h == p[2] - a[2]
           w == b[1] - a[1]
           r == b[2] - a[2]
           S == Side(p, a, b)
<1>1. /\ p[1] \in Int /\ p[2] \in Int /\ a[1] \in Int /\ a[2] \in Int /\ b[1] \in Int /\ b[2] \in Int
      /\ q \in Int /\ h \in Int /\ w \in Int /\ r \in Int
  BY DEF Point
<1>2. S = w * h - r * q /\ S \in Int
  BY <1>1 DEF Side
<1>3. /\ Spans(p[2], a, b) <=> (0 < h /\ h <= r) \/ (r < h /\ h <= 0)
      /\ (p[1] <= a[1] \/ p[1] <= b[1]) <=> (q <= 0 \/ q <= w)
      /\ a[1] = b[1] <=> w = 0
      /\ LeftOf(p, a, b) <=> IF r > 0 THEN q * r <= h * w ELSE q * r >= h * w
  BY <1>1 DEF Spans, LeftOf
<1>4. Crossed(a[2] - p[2], b[2] - p[2], S)
        <=> (0 < h /\ h <= r /\ S >= 0) \/ (r < h /\ h <= 0 /\ S <= 0)
  BY <1>1, <1>2 DEF Crossed
<1>5. Crosses(p, a, b) <=> /\ (0 < h /\ h <= r) \/ (r < h /\ h <= 0)
                           /\ q <= 0 \/ q <= w
                           /\ w = 0 \/ IF r > 0 THEN q * r <= h * w ELSE q * r >= h * w
  BY <1>3 DEF Crosses
<1>6. SUFFICES Crosses(p, a, b) <=> Crossed(a[2] - p[2], b[2] - p[2], S)
  OBVIOUS
<1> HIDE DEF q, h, w, r, S
<1>7. CASE 0 < h /\ h <= r
  <2>1. S >= 0 <=> q * r <= h * w
    BY <1>1, <1>2
  <2>2. q * r <= h * w => q <= 0 \/ q <= w
    BY <1>1, <1>7, LeftOfAnEnd
  <2>3. w = 0 /\ q <= 0 => q * r <= h * w
    <3>1. q <= 0 => (0 - q) * r >= 0
      BY <1>1, <1>7, Products
    <3>2. (0 - q) * r = 0 - q * r
      BY <1>1
    <3>3. w = 0 => h * w = 0
      BY <1>1
    <3> QED BY <1>1, <3>1, <3>2, <3>3
  <2>4. r > 0 /\ ~(r < h)
    BY <1>1, <1>7
  <2>5. w = 0 /\ q <= w => q <= 0
    OBVIOUS
  <2> QED BY <1>4, <1>5, <1>7, <2>1, <2>2, <2>3, <2>4, <2>5
<1>8. CASE r < h /\ h <= 0
  <2> DEFINE k == 0 - h
             t == 0 - r
  <2>0. k \in Int /\ t \in Int /\ 0 <= k /\ k <= t /\ 0 < t
    BY <1>1, <1>8
  <2>1. q * t = 0 - q * r /\ k * w = 0 - h * w
    BY <1>1
  <2> HIDE DEF k, t
  <2>2. S <= 0 <=> q * t <= k * w
    BY <1>1, <1>2, <2>1
  <2>3. q * t <= k * w => q <= 0 \/ q <= w
    BY <1>1, <2>0, LeftOfAnEnd
  <2>4. w = 0 /\ q <= 0 => q * t <= k * w
    <3>1. q <= 0 => (0 - q) * t >= 0
      BY <1>1, <2>0, Products
    <3>2. (0 - q) * t = 0 - q * t
      BY <1>1, <2>0
    <3>3. w = 0 => k * w = 0
      BY <2>0
    <3> QED BY <1>1, <2>0, <3>1, <3>2, <3>3
  <2>5. ~(r > 0) /\ ~(0 < h)
    BY <1>1, <1>8
  <2>6. q * r >= h * w <=> q * t <= k * w
    BY <1>1, <2>1
  <2>7. w = 0 /\ q <= w => q <= 0
    OBVIOUS
  <2> QED BY <1>4, <1>5, <1>8, <2>2, <2>3, <2>4, <2>5, <2>6, <2>7
<1>9. CASE ~(0 < h /\ h <= r) /\ ~(r < h /\ h <= 0)
  BY <1>4, <1>5, <1>9
<1> QED BY <1>7, <1>8, <1>9

\* A, B and C are how far the corners of a triangle are above p, and S1, S2 and
\* S3 say on which side of its edges p is.  Each corner, weighed by the side of
\* the edge opposite to it, balances the two others.
Balanced(A, B, C, S1, S2, S3) ==
    /\ A \in Int /\ B \in Int /\ C \in Int /\ S1 \in Int /\ S2 \in Int /\ S3 \in Int
    /\ S2 * A + S3 * B + S1 * C = 0

Odd3(x, y, z) == x <=> (y <=> z)
CrossedOddly(A, B, C, S1, S2, S3) == Odd3(Crossed(A, B, S1), Crossed(B, C, S2), Crossed(C, A, S3))

\* One corner is below p and the others are not, or the other way round.
OneApart(A, B, C) == (A < 0 /\ B >= 0 /\ C >= 0) \/ (A >= 0 /\ B < 0 /\ C < 0)

LEMMA OneApartOutside ==
    ASSUME NEW A, NEW B, NEW C, NEW S1, NEW S2, NEW S3, Balanced(A, B, C, S1, S2, S3),
           OneApart(A, B, C), CrossedOddly(A, B, C, S1, S2, S3)
    PROVE  ~(S1 < 0 \/ S2 < 0 \/ S3 < 0) \/ ~(S1 > 0 \/ S2 > 0 \/ S3 > 0)
<1> SUFFICES ASSUME S1 < 0 \/ S2 < 0 \/ S3 < 0, S1 > 0 \/ S2 > 0 \/ S3 > 0 PROVE FALSE
  OBVIOUS
<1> DEFINE x == S2 * A
           y == S3 * B
           z == S1 * C
<1>1. /\ A \in Int /\ B \in Int /\ C \in Int /\ S1 \in Int /\ S2 \in Int /\ S3 \in Int
      /\ x \in Int /\ y \in Int /\ z \in Int /\ x + y + z = 0
  BY DEF Balanced
<1>2. x = A * S2 /\ y = B * S3 /\ z = C * S1
  BY <1>1
<1>3. CASE A < 0 /\ B >= 0 /\ C >= 0
  <2>1. Crossed(A, B, S1) <=> S1 >= 0
    BY <1>1, <1>3 DEF Crossed
  <2>2. ~Crossed(B, C, S2)
    BY <1>1, <1>3 DEF Crossed
  <2>3. Crossed(C, A, S3) <=> S3 <= 0
    BY <1>1, <1>3 DEF Crossed
  <2>4. S1 >= 0 <=> ~(S3 <= 0)
    BY <2>1, <2>2, <2>3 DEF CrossedOddly, Odd3
  <2>5. CASE S1 >= 0
    <3>1. S3 > 0 /\ S2 < 0
      BY <1>1, <2>4, <2>5
    <3>2. x > 0 /\ y >= 0 /\ z >= 0
      BY <1>1, <1>3, <2>5, <3>1, Products
    <3> HIDE DEF x, y, z
    <3> QED BY <1>1, <3>2
  <2>6. CASE S1 < 0
    <3>1. S3 <= 0 /\ S2 > 0
      BY <1>1, <2>4, <2>6
    <3>2. x < 0 /\ z <= 0
      BY <1>1, <1>2, <1>3, <2>6, <3>1, Products
    <3>3. (0 - S3) * B >= 0 /\ (0 - S3) * B = 0 - y
      BY <1>1, <1>3, <3>1, Products
    <3> HIDE DEF x, y, z
    <3> QED BY <1>1, <3>2, <3>3
  <2> QED BY <1>1, <2>5, <2>6
<1>4. CASE A >= 0 /\ B < 0 /\ C < 0
  <2>1. Crossed(A, B, S1) <=> S1 <= 0
    BY <1>1, <1>4 DEF Crossed
  <2>2. ~Crossed(B, C, S2)
    BY <1>1, <1>4 DEF Crossed
  <2>3. Crossed(C, A, S3) <=> S3 >= 0
    BY <1>1, <1>4 DEF Crossed
  <2>4. S1 <= 0 <=> ~(S3 >= 0)
    BY <2>1, <2>2, <2>3 DEF CrossedOddly, Odd3
  <2>5. CASE S1 > 0
    <3>1. S3 >= 0 /\ S2 < 0
      BY <1>1, <2>4, <2>5
    <3>2. z < 0 /\ x <= 0 /\ y <= 0
      BY <1>1, <1>2, <1>4, <2>5, <3>1, Products
    <3> HIDE DEF x, y, z
    <3> QED BY <1>1, <3>2
  <2>6. CASE S1 <= 0
    <3>1. S3 < 0 /\ S2 > 0
      BY <1>1, <2>4, <2>6
    <3>2. x >= 0 /\ y > 0
      BY <1>1, <1>4, <3>1, Products
    <3>3. C * (0 - S1) <= 0 /\ C * (0 - S1) = 0 - z
      BY <1>1, <1>4, <2>6, Products
    <3> HIDE DEF x, y, z
    <3> QED BY <1>1, <3>2, <3>3
  <2> QED BY <1>1, <2>5, <2>6
<1> QED BY <1>3, <1>4 DEF OneApart

\* Three corners have one apart, unless all or none are below p, and then no
\* edge is crossed.
LEMMA CrossedOutside ==
    ASSUME NEW A, NEW B, NEW C, NEW S1, NEW S2, NEW S3, Balanced(A, B, C, S1, S2, S3),
           CrossedOddly(A, B, C, S1, S2, S3)
    PROVE  ~(S1 < 0 \/ S2 < 0 \/ S3 < 0) \/ ~(S1 > 0 \/ S2 > 0 \/ S3 > 0)
<1>1. A \in Int /\ B \in Int /\ C \in Int /\ S1 \in Int /\ S2 \in Int /\ S3 \in Int
  BY DEF Balanced
<1>2. Balanced(B, C, A, S2, S3, S1) /\ Balanced(C, A, B, S3, S1, S2)
  <2> DEFINE x == S2 * A
             y == S3 * B
             z == S1 * C
  <2>1. x \in Int /\ y \in Int /\ z \in Int /\ x + y + z = 0
    BY DEF Balanced
  <2>2. y + z + x = 0 /\ z + x + y = 0
    <3> HIDE DEF x, y, z
    <3> QED BY <2>1
  <2> QED BY <1>1, <2>2 DEF Balanced
<1>3. CrossedOddly(B, C, A, S2, S3, S1) /\ CrossedOddly(C, A, B, S3, S1, S2)
  BY DEF CrossedOddly, Odd3, Crossed
<1>4. CASE OneApart(A, B, C)
  BY <1>4, OneApartOutside
<1>5. CASE OneApart(B, C, A)
  <2>1. ~(S2 < 0 \/ S3 < 0 \/ S1 < 0) \/ ~(S2 > 0 \/ S3 > 0 \/ S1 > 0)
    BY <1>2, <1>3, <1>5, OneApartOutside
  <2> QED BY <2>1
<1>6. CASE OneApart(C, A, B)
  <2>1. ~(S3 < 0 \/ S1 < 0 \/ S2 < 0) \/ ~(S3 > 0 \/ S1 > 0 \/ S2 > 0)
    BY <1>2, <1>3, <1>6, OneApartOutside
  <2> QED BY <2>1
<1>7. CASE (A < 0 /\ B < 0 /\ C < 0) \/ (A >= 0 /\ B >= 0 /\ C >= 0)
  <2>1. ~Crossed(A, B, S1) /\ ~Crossed(B, C, S2) /\ ~Crossed(C, A, S3)
    BY <1>1, <1>7 DEF Crossed
  <2> QED BY <2>1 DEF CrossedOddly, Odd3
<1> QED BY <1>1, <1>4, <1>5, <1>6, <1>7 DEF OneApart

\* On the same side of all three edges, p is crossed by one: the corners cannot
\* all be below it, nor all not.
LEMMA CrossedInside ==
    ASSUME NEW A, NEW B, NEW C, NEW S1, NEW S2, NEW S3, Balanced(A, B, C, S1, S2, S3),
           A = 0 /\ B = 0 => S1 = 0,
           (S1 > 0 /\ S2 > 0 /\ S3 > 0) \/ (S1 < 0 /\ S2 < 0 /\ S3 < 0)
    PROVE  CrossedOddly(A, B, C, S1, S2, S3)
<1> DEFINE x == S2 * A
           y == S3 * B
           z == S1 * C
<1>1. /\ A \in Int /\ B \in Int /\ C \in Int /\ S1 \in Int /\ S2 \in Int /\ S3 \in Int
      /\ x \in Int /\ y \in Int /\ z \in Int /\ x + y + z = 0
  BY DEF Balanced
<1>2. x = A * S2 /\ y = B * S3 /\ z = C * S1
  BY <1>1
<1>3. ~(A < 0 /\ B < 0 /\ C < 0)
  <2> SUFFICES ASSUME A < 0, B < 0, C < 0 PROVE FALSE
    OBVIOUS
  <2>1. (x < 0 /\ y < 0 /\ z < 0) \/ (x > 0 /\ y > 0 /\ z > 0)
    BY <1>1, <1>2, Products
  <2> HIDE DEF x, y, z
  <2> QED BY <1>1, <2>1
<1>4. ~(A >= 0 /\ B >= 0 /\ C >= 0)
  <2> SUFFICES ASSUME A >= 0, B >= 0, C >= 0 PROVE FALSE
    OBVIOUS
  <2>1. A > 0 \/ B > 0
    BY <1>1
  <2>2. CASE S1 > 0 /\ S2 > 0 /\ S3 > 0
    <3>1. x >= 0 /\ y >= 0 /\ z >= 0 /\ (A > 0 => x > 0) /\ (B > 0 => y > 0)
      BY <1>1, <2>2, Products
    <3> HIDE DEF x, y, z
    <3> QED BY <1>1, <2>1, <3>1
  <2>3. CASE S1 < 0 /\ S2 < 0 /\ S3 < 0
    <3>1. x <= 0 /\ y <= 0 /\ z <= 0 /\ (A > 0 => x < 0) /\ (B > 0 => y < 0)
      BY <1>1, <2>3, Products
    <3> HIDE DEF x, y, z
    <3> QED BY <1>1, <2>1, <3>1
  <2> QED BY <2>2, <2>3
<1> QED BY <1>1, <1>3, <1>4 DEF CrossedOddly, Odd3, Crossed
\* Heights and sides of a triangle.
LEMMA TriangleBalanced ==
    ASSUME NEW p \in Point, NEW a \in Point, NEW b \in Point, NEW c \in Point
    PROVE  /\ Balanced(a[2] - p[2], b[2] - p[2], c[2] - p[2],
                       Side(p, a, b), Side(p, b, c), Side(p, c, a))
           /\ a[2] - p[2] = 0 /\ b[2] - p[2] = 0 => Side(p, a, b) = 0
<1> DEFINE A == a[2] - p[2]
           B == b[2] - p[2]
           C == c[2] - p[2]
           x == a[1] - p[1]
           y == b[1] - p[1]
           z == c[1] - p[1]
<1>1. A \in Int /\ B \in Int /\ C \in Int /\ x \in Int /\ y \in Int /\ z \in Int
  BY DEF Point
<1>2. /\ Side(p, a, b) = x * B - y * A
      /\ Side(p, b, c) = y * C - z * B
      /\ Side(p, c, a) = z * A - x * C
  BY SideIs
<1> HIDE DEF A, B, C, x, y, z
<1>3. x * B - y * A \in Int /\ y * C - z * B \in Int /\ z * A - x * C \in Int
  BY <1>1
<1>4. (y * C - z * B) * A + (z * A - x * C) * B + (x * B - y * A) * C = 0
  BY <1>1
<1>5. A = 0 /\ B = 0 => x * B - y * A = 0
  BY <1>1
<1>6. Balanced(A, B, C, Side(p, a, b), Side(p, b, c), Side(p, c, a))
  BY <1>1, <1>2, <1>3, <1>4 DEF Balanced
<1> QED BY <1>2, <1>5, <1>6 DEF A, B, C

\* How many of the numbers up to n are in E.
UpTo(E, n) == {i \in E : i <= n}

LEMMA OneMore ==
    ASSUME NEW E \in SUBSET (Nat \ {0}), NEW n \in Nat
    PROVE  /\ IsFiniteSet(UpTo(E, n)) /\ Cardinality(UpTo(E, n)) \in Nat
           /\ Cardinality(UpTo(E, n + 1))
                = IF n + 1 \in E THEN Cardinality(UpTo(E, n)) + 1 ELSE Cardinality(UpTo(E, n))
<1>1. IsFiniteSet(1..n)
  BY FS_Interval
<1>2. UpTo(E, n) \in SUBSET (1..n)
  <2>1. \A i \in UpTo(E, n) : i \in Nat \ {0} /\ i <= n
    BY DEF UpTo
  <2>2. \A i \in UpTo(E, n) : i \in 1..n
    BY <2>1
  <2> QED BY <2>2
<1>3. IsFiniteSet(UpTo(E, n)) /\ Cardinality(UpTo(E, n)) \in Nat
  BY <1>1, <1>2, FS_Subset, FS_CardinalityType
<1>4. n + 1 \notin UpTo(E, n)
  BY <1>2
<1>5. UpTo(E, n + 1) = IF n + 1 \in E THEN UpTo(E, n) \cup {n + 1} ELSE UpTo(E, n)
  <2>1. \A i \in E : i <= n + 1 <=> i <= n \/ i = n + 1
    OBVIOUS
  <2> QED BY <2>1 DEF UpTo
<1> QED BY <1>3, <1>4, <1>5, FS_AddElement

LEMMA OddOfThree ==
    ASSUME NEW E \in SUBSET (1..3)
    PROVE  /\ Cardinality(E) \in Nat
           /\ (Cardinality(E) % 2 = 1) <=> Odd3(1 \in E, 2 \in E, 3 \in E)
<1>1. UpTo(E, 0) = {} /\ UpTo(E, 3) = E
  <2>1. \A i \in E : ~(i <= 0) /\ i <= 3
    OBVIOUS
  <2> QED BY <2>1 DEF UpTo
<1> DEFINE k(n) == Cardinality(UpTo(E, n))
<1>2. E \in SUBSET (Nat \ {0})
  OBVIOUS
<1>3. k(0) = 0 /\ k(3) = Cardinality(E)
  BY <1>1, FS_EmptySet
<1>4. k(1) = IF 1 \in E THEN k(0) + 1 ELSE k(0)
  <2>1. k(0 + 1) = IF 0 + 1 \in E THEN k(0) + 1 ELSE k(0)
    BY <1>2, OneMore
  <2> QED BY <2>1
<1>5. k(2) = IF 2 \in E THEN k(1) + 1 ELSE k(1)
  <2>1. k(1 + 1) = IF 1 + 1 \in E THEN k(1) + 1 ELSE k(1)
    BY <1>2, OneMore
  <2> QED BY <2>1
<1>6. k(3) = IF 3 \in E THEN k(2) + 1 ELSE k(2)
  <2>1. k(2 + 1) = IF 2 + 1 \in E THEN k(2) + 1 ELSE k(2)
    BY <1>2, OneMore
  <2> QED BY <2>1
<1> HIDE DEF k
<1>7. 0 % 2 = 0 /\ 1 % 2 = 1 /\ 2 % 2 = 0 /\ 3 % 2 = 1
  OBVIOUS
<1>8. k(1) = IF 1 \in E THEN 1 ELSE 0
  BY <1>3, <1>4
<1>9. k(2) = IF 2 \in E THEN (IF 1 \in E THEN 2 ELSE 1) ELSE (IF 1 \in E THEN 1 ELSE 0)
  BY <1>5, <1>8
<1>10. k(3) \in Nat /\ (k(3) % 2 = 1 <=> Odd3(1 \in E, 2 \in E, 3 \in E))
  BY <1>6, <1>7, <1>9 DEF Odd3
<1> QED BY <1>3, <1>10

LEMMA OddOfFour ==
    ASSUME NEW E \in SUBSET (1..4)
    PROVE  (Cardinality(E) % 2 = 1) <=> ~(1 \in E <=> Odd3(2 \in E, 3 \in E, 4 \in E))
<1>1. UpTo(E, 0) = {} /\ UpTo(E, 4) = E
  <2>1. \A i \in E : ~(i <= 0) /\ i <= 4
    OBVIOUS
  <2> QED BY <2>1 DEF UpTo
<1> DEFINE k(n) == Cardinality(UpTo(E, n))
<1>2. E \in SUBSET (Nat \ {0})
  OBVIOUS
<1>3. k(0) = 0 /\ k(4) = Cardinality(E)
  BY <1>1, FS_EmptySet
<1>4. k(1) = IF 1 \in E THEN k(0) + 1 ELSE k(0)
  <2>1. k(0 + 1) = IF 0 + 1 \in E THEN k(0) + 1 ELSE k(0)
    BY <1>2, OneMore
  <2> QED BY <2>1
<1>5. k(2) = IF 2 \in E THEN k(1) + 1 ELSE k(1)
  <2>1. k(1 + 1) = IF 1 + 1 \in E THEN k(1) + 1 ELSE k(1)
    BY <1>2, OneMore
  <2> QED BY <2>1
<1>6. k(3) = IF 3 \in E THEN k(2) + 1 ELSE k(2)
  <2>1. k(2 + 1) = IF 2 + 1 \in E THEN k(2) + 1 ELSE k(2)
    BY <1>2, OneMore
  <2> QED BY <2>1
<1>7. k(4) = IF 4 \in E THEN k(3) + 1 ELSE k(3)
  <2>1. k(3 + 1) = IF 3 + 1 \in E THEN k(3) + 1 ELSE k(3)
    BY <1>2, OneMore
  <2> QED BY <2>1
<1> HIDE DEF k
<1>8. 0 % 2 = 0 /\ 1 % 2 = 1 /\ 2 % 2 = 0 /\ 3 % 2 = 1 /\ 4 % 2 = 0
  OBVIOUS
<1> QED BY <1>3, <1>4, <1>5, <1>6, <1>7, <1>8 DEF Odd3

LEMMA OfTriangle ==
    ASSUME NEW p, NEW s, Len(s) = 3
    PROVE  point_in_polygon(p, s)
             <=> Odd3(Crosses(p, s[1], s[2]), Crosses(p, s[2], s[3]), Crosses(p, s[3], s[1]))
<1> DEFINE E == {i \in 1..3 : Crosses(p, s[i], s[(i % 3) + 1])}
<1>1. point_in_polygon(p, s) <=> Cardinality(E) % 2 = 1
  BY DEF point_in_polygon, MinPoints
<1>2. /\ 1 \in E <=> Crosses(p, s[1], s[2])
      /\ 2 \in E <=> Crosses(p, s[2], s[3])
      /\ 3 \in E <=> Crosses(p, s[3], s[1])
  <2>1. (1 % 3) + 1 = 2 /\ (2 % 3) + 1 = 3 /\ (3 % 3) + 1 = 1
    OBVIOUS
  <2> QED BY <2>1
<1>3. E \in SUBSET (1..3)
  OBVIOUS
<1> HIDE DEF E
<1> QED BY <1>1, <1>2, <1>3, OddOfThree DEF Odd3

LEMMA OfQuadrilateral ==
    ASSUME NEW p, NEW s, Len(s) = 4
    PROVE  point_in_polygon(p, s)
             <=> ~(Crosses(p, s[1], s[2])
                     <=> Odd3(Crosses(p, s[2], s[3]), Crosses(p, s[3], s[4]), Crosses(p, s[4], s[1])))
<1> DEFINE E == {i \in 1..4 : Crosses(p, s[i], s[(i % 4) + 1])}
<1>1. point_in_polygon(p, s) <=> Cardinality(E) % 2 = 1
  BY DEF point_in_polygon, MinPoints
<1>2. /\ 1 \in E <=> Crosses(p, s[1], s[2])
      /\ 2 \in E <=> Crosses(p, s[2], s[3])
      /\ 3 \in E <=> Crosses(p, s[3], s[4])
      /\ 4 \in E <=> Crosses(p, s[4], s[1])
  <2>1. (1 % 4) + 1 = 2 /\ (2 % 4) + 1 = 3 /\ (3 % 4) + 1 = 4 /\ (4 % 4) + 1 = 1
    OBVIOUS
  <2> QED BY <2>1
<1>3. E \in SUBSET (1..4)
  OBVIOUS
<1> HIDE DEF E
<1> QED BY <1>1, <1>2, <1>3, OddOfFour DEF Odd3

\* point_in_polygon is right about every triangle with integer corners, however
\* large and whichever way round: true inside, false outside, also when the ray
\* runs through a corner or along an edge.
THEOREM TriangleIsExact ==
    ASSUME NEW p \in Point, NEW s, Len(s) = 3, s[1] \in Point, s[2] \in Point, s[3] \in Point
    PROVE  /\ Inside(p, s[1], s[2], s[3]) => point_in_polygon(p, s)
           /\ Outside(p, s[1], s[2], s[3]) => ~point_in_polygon(p, s)
<1> DEFINE A == s[1][2] - p[2]
           B == s[2][2] - p[2]
           C == s[3][2] - p[2]
           S1 == Side(p, s[1], s[2])
           S2 == Side(p, s[2], s[3])
           S3 == Side(p, s[3], s[1])
<1>1. Balanced(A, B, C, S1, S2, S3) /\ (A = 0 /\ B = 0 => S1 = 0)
  BY TriangleBalanced
<1>2. point_in_polygon(p, s) <=> CrossedOddly(A, B, C, S1, S2, S3)
  <2>1. /\ Crosses(p, s[1], s[2]) <=> Crossed(A, B, S1)
        /\ Crosses(p, s[2], s[3]) <=> Crossed(B, C, S2)
        /\ Crosses(p, s[3], s[1]) <=> Crossed(C, A, S3)
    BY CrossesIs
  <2> HIDE DEF A, B, C, S1, S2, S3
  <2> QED BY <2>1, OfTriangle DEF CrossedOddly, Odd3
<1>3. Inside(p, s[1], s[2], s[3])
        <=> (S1 > 0 /\ S2 > 0 /\ S3 > 0) \/ (S1 < 0 /\ S2 < 0 /\ S3 < 0)
  BY DEF Inside
<1>4. Outside(p, s[1], s[2], s[3])
        <=> (S1 < 0 \/ S2 < 0 \/ S3 < 0) /\ (S1 > 0 \/ S2 > 0 \/ S3 > 0)
  BY DEF Outside
<1> HIDE DEF A, B, C, S1, S2, S3
<1> QED BY <1>1, <1>2, <1>3, <1>4, CrossedInside, CrossedOutside

\* It does not matter in which direction an edge runs.
LEMMA CrossesBack ==
    ASSUME NEW p \in Point, NEW a \in Point, NEW c \in Point
    PROVE  Crosses(p, c, a) <=> Crosses(p, a, c)
<1> DEFINE A == a[2] - p[2]
           C == c[2] - p[2]
           S == Side(p, a, c)
           T == Side(p, c, a)
<1>1. A \in Int /\ C \in Int /\ S \in Int /\ T \in Int /\ S = 0 - T
  BY DEF Side, Point
<1>2. (Crosses(p, c, a) <=> Crossed(C, A, T)) /\ (Crosses(p, a, c) <=> Crossed(A, C, S))
  BY CrossesIs
<1> HIDE DEF A, C, S, T
<1>3. Crossed(C, A, T) <=> Crossed(A, C, S)
  BY <1>1 DEF Crossed
<1> QED BY <1>2, <1>3

\* Cutting a quadrilateral along a diagonal moves no point: point_in_polygon has
\* a point in the quadrilateral exactly if it has it in one, and only one, of the
\* two triangles, also when the point is on the cut.
THEOREM CutIsExact ==
    ASSUME NEW p \in Point, NEW a \in Point, NEW b \in Point, NEW c \in Point, NEW d \in Point
    PROVE  point_in_polygon(p, <<a, b, c, d>>)
             <=> (point_in_polygon(p, <<a, b, c>>) # point_in_polygon(p, <<a, c, d>>))
<1>1. Crosses(p, c, a) <=> Crosses(p, a, c)
  BY CrossesBack
<1>2. point_in_polygon(p, <<a, b, c, d>>)
        <=> ~(Crosses(p, a, b) <=> Odd3(Crosses(p, b, c), Crosses(p, c, d), Crosses(p, d, a)))
  <2> DEFINE s == <<a, b, c, d>>
  <2>1. Len(s) = 4 /\ s[1] = a /\ s[2] = b /\ s[3] = c /\ s[4] = d
    OBVIOUS
  <2> HIDE DEF s
  <2>2. point_in_polygon(p, s)
          <=> ~(Crosses(p, s[1], s[2])
                  <=> Odd3(Crosses(p, s[2], s[3]), Crosses(p, s[3], s[4]), Crosses(p, s[4], s[1])))
    BY <2>1, OfQuadrilateral
  <2>3. point_in_polygon(p, s)
          <=> ~(Crosses(p, a, b) <=> Odd3(Crosses(p, b, c), Crosses(p, c, d), Crosses(p, d, a)))
    BY <2>1, <2>2
  <2> QED BY <2>3 DEF s
<1>3. \A x, y, z \in Point :
         point_in_polygon(p, <<x, y, z>>)
           <=> Odd3(Crosses(p, x, y), Crosses(p, y, z), Crosses(p, z, x))
  <2> TAKE x, y, z \in Point
  <2> DEFINE s == <<x, y, z>>
  <2>1. Len(s) = 3 /\ s[1] = x /\ s[2] = y /\ s[3] = z
    OBVIOUS
  <2> HIDE DEF s
  <2>2. point_in_polygon(p, s)
          <=> Odd3(Crosses(p, s[1], s[2]), Crosses(p, s[2], s[3]), Crosses(p, s[3], s[1]))
    BY <2>1, OfTriangle
  <2>3. point_in_polygon(p, s) <=> Odd3(Crosses(p, x, y), Crosses(p, y, z), Crosses(p, z, x))
    BY <2>1, <2>2
  <2> QED BY <2>3 DEF s
<1>4. /\ point_in_polygon(p, <<a, b, c>>)
           <=> Odd3(Crosses(p, a, b), Crosses(p, b, c), Crosses(p, c, a))
      /\ point_in_polygon(p, <<a, c, d>>)
           <=> Odd3(Crosses(p, a, c), Crosses(p, c, d), Crosses(p, d, a))
  BY <1>3
<1>5. /\ point_in_polygon(p, <<a, b, c>>) \in BOOLEAN
      /\ point_in_polygon(p, <<a, c, d>>) \in BOOLEAN
  BY DEF point_in_polygon
<1> QED BY <1>1, <1>2, <1>4, <1>5 DEF Odd3

\* The same with any number of corners: point_in_polygon has a point in a polygon
\* exactly if it has it in one, and only one, of the triangle at the last corner
\* and the polygon that is left without that corner.
THEOREM EveryCutIsExact ==
    ASSUME NEW p \in Point, NEW s \in Seq(Point), Len(s) > 3
    PROVE  point_in_polygon(p, s)
             <=> (point_in_polygon(p, SubSeq(s, 1, Len(s) - 1))
                    # point_in_polygon(p, <<s[1], s[Len(s) - 1], s[Len(s)]>>))
<1> DEFINE n == Len(s)
           r == SubSeq(s, 1, n - 1)
           t == <<s[1], s[n - 1], s[n]>>
           E == {i \in 1..Len(s) : Crosses(p, s[i], s[(i % Len(s)) + 1])}
           F == {i \in 1..Len(r) : Crosses(p, r[i], r[(i % Len(r)) + 1])}
           K == UpTo(E, n - 2)
<1>1. n \in Nat /\ n > 3
  OBVIOUS
<1>2. Len(r) = n - 1 /\ \A i \in 1..(n - 1) : r[i] = s[i]
  BY <1>1, SubSeqProperties
<1>3. s[1] \in Point /\ s[n - 1] \in Point /\ s[n] \in Point
  BY <1>1, ElementOfSeq
<1>4. \A i \in 1..(n - 2) : i % n = i /\ i % (n - 1) = i
  BY <1>1
<1>5. (n - 1) % n = n - 1 /\ n % n = 0 /\ (n - 1) % (n - 1) = 0
  BY <1>1
<1> HIDE DEF n, r, t
<1>6. /\ point_in_polygon(p, s) <=> Cardinality(E) % 2 = 1
      /\ point_in_polygon(p, r) <=> Cardinality(F) % 2 = 1
  BY <1>1, <1>2 DEF point_in_polygon, MinPoints, n
<1>7. /\ n - 1 \in E <=> Crosses(p, s[n - 1], s[n])
      /\ n \in E <=> Crosses(p, s[n], s[1])
      /\ n - 1 \in F <=> Crosses(p, s[n - 1], s[1])
  <2>1. (n - 1) + 1 = n /\ 0 + 1 = 1 /\ n - 1 \in 1..n /\ n \in 1..n /\ n - 1 \in 1..(n - 1)
        /\ 1 \in 1..(n - 1)
    BY <1>1
  <2>2. (n - 1 \in E <=> Crosses(p, s[n - 1], s[n])) /\ (n \in E <=> Crosses(p, s[n], s[1]))
    BY <1>5, <2>1 DEF n
  <2>3. r[n - 1] = s[n - 1] /\ r[1] = s[1]
    BY <1>2, <2>1
  <2>4. n - 1 \in F <=> Crosses(p, s[n - 1], s[1])
    BY <1>2, <1>5, <2>1, <2>3
  <2> QED BY <2>2, <2>4
<1>8. UpTo(F, n - 2) = K
  <2>1. ASSUME NEW i \in 1..(n - 2) PROVE i \in E <=> i \in F
    <3>1. i \in 1..n /\ i \in 1..(n - 1) /\ i + 1 \in 1..(n - 1)
      BY <1>1
    <3>2. r[i] = s[i] /\ r[i + 1] = s[i + 1] /\ i % n = i /\ i % (n - 1) = i
      BY <1>2, <1>4, <3>1
    <3>3. i \in E <=> Crosses(p, s[i], s[i + 1])
      BY <3>1, <3>2 DEF n
    <3>4. i \in F <=> Crosses(p, s[i], s[i + 1])
      BY <1>2, <3>1, <3>2
    <3> QED BY <3>3, <3>4
  <2>2. \A i : (i \in E \/ i \in F) /\ i <= n - 2 => i \in 1..(n - 2)
    BY <1>1, <1>2 DEF n
  <2> HIDE DEF E, F
  <2> QED BY <2>1, <2>2 DEF UpTo
<1>9. UpTo(E, n) = E /\ UpTo(F, n - 1) = F /\ E \in SUBSET (Nat \ {0}) /\ F \in SUBSET (Nat \ {0})
  <2>1. \A i \in E : i \in Nat \ {0} /\ i <= n
    BY <1>1 DEF n
  <2>2. \A i \in F : i \in Nat \ {0} /\ i <= n - 1
    BY <1>1, <1>2
  <2> HIDE DEF E, F
  <2> QED BY <2>1, <2>2 DEF UpTo
<1> HIDE DEF E, F
<1> DEFINE k == Cardinality(K)
           j == Cardinality(UpTo(E, n - 1))
<1>10. /\ n - 2 \in Nat /\ (n - 2) + 1 = n - 1 /\ n - 1 \in Nat /\ (n - 1) + 1 = n
  BY <1>1
<1>11. k \in Nat /\ j = IF n - 1 \in E THEN k + 1 ELSE k
  <2>1. /\ Cardinality(UpTo(E, n - 2)) \in Nat
        /\ Cardinality(UpTo(E, (n - 2) + 1))
             = IF (n - 2) + 1 \in E THEN Cardinality(UpTo(E, n - 2)) + 1
                                    ELSE Cardinality(UpTo(E, n - 2))
    BY <1>9, <1>10, OneMore, Zenon
  <2> QED BY <1>10, <2>1, Zenon
<1>12. Cardinality(E) = IF n \in E THEN j + 1 ELSE j
  <2>1. Cardinality(UpTo(E, (n - 1) + 1))
          = IF (n - 1) + 1 \in E THEN Cardinality(UpTo(E, n - 1)) + 1
                                 ELSE Cardinality(UpTo(E, n - 1))
    BY <1>9, <1>10, OneMore, Zenon
  <2> QED BY <1>9, <1>10, <2>1, Zenon
<1>13. Cardinality(F) = IF n - 1 \in F THEN k + 1 ELSE k
  <2>1. Cardinality(UpTo(F, (n - 2) + 1))
          = IF (n - 2) + 1 \in F THEN Cardinality(UpTo(F, n - 2)) + 1
                                 ELSE Cardinality(UpTo(F, n - 2))
    BY <1>9, <1>10, OneMore, Zenon
  <2> QED BY <1>8, <1>9, <1>10, <2>1, Zenon
<1>14. point_in_polygon(p, t)
         <=> Odd3(Crosses(p, s[1], s[n - 1]), Crosses(p, s[n - 1], s[n]), Crosses(p, s[n], s[1]))
  <2>1. Len(t) = 3 /\ t[1] = s[1] /\ t[2] = s[n - 1] /\ t[3] = s[n]
    BY DEF t
  <2>2. point_in_polygon(p, t)
          <=> Odd3(Crosses(p, t[1], t[2]), Crosses(p, t[2], t[3]), Crosses(p, t[3], t[1]))
    BY <2>1, OfTriangle
  <2> QED BY <2>1, <2>2
<1>15. Crosses(p, s[n - 1], s[1]) <=> Crosses(p, s[1], s[n - 1])
  BY <1>3, CrossesBack
<1> HIDE DEF k, j
<1>16. \A m \in Nat : (m + 1) % 2 = 1 <=> ~(m % 2 = 1)
  OBVIOUS
<1>17. j \in Nat /\ (j % 2 = 1 <=> ~(k % 2 = 1 <=> n - 1 \in E))
  BY <1>11, <1>16
<1>18. Cardinality(E) % 2 = 1 <=> ~(j % 2 = 1 <=> n \in E)
  BY <1>12, <1>16, <1>17
<1>19. Cardinality(F) % 2 = 1 <=> ~(k % 2 = 1 <=> n - 1 \in F)
  BY <1>11, <1>13, <1>16
<1>20. point_in_polygon(p, r) \in BOOLEAN /\ point_in_polygon(p, t) \in BOOLEAN
  BY DEF point_in_polygon
<1>21. point_in_polygon(p, s) <=> (point_in_polygon(p, r) # point_in_polygon(p, t))
  BY <1>6, <1>7, <1>14, <1>15, <1>17, <1>18, <1>19, <1>20 DEF Odd3
<1> QED BY <1>21 DEF n, r, t

LEMMA TestIsExact == PolygonTestIsExact
<1>1. Grid \subseteq Point
  BY DEF Grid, Point
<1>2. \A a, b, c, p \in Grid :
         /\ Inside(p, a, b, c) => point_in_polygon(p, <<a, b, c>>)
         /\ Outside(p, a, b, c) => ~point_in_polygon(p, <<a, b, c>>)
  <2> TAKE a, b, c, p \in Grid
  <2> DEFINE s == <<a, b, c>>
  <2>1. Len(s) = 3 /\ s[1] = a /\ s[2] = b /\ s[3] = c
    OBVIOUS
  <2> HIDE DEF s
  <2>2. p \in Point /\ s[1] \in Point /\ s[2] \in Point /\ s[3] \in Point
    BY <1>1, <2>1
  <2>3. /\ Inside(p, s[1], s[2], s[3]) => point_in_polygon(p, s)
        /\ Outside(p, s[1], s[2], s[3]) => ~point_in_polygon(p, s)
    BY <2>1, <2>2, TriangleIsExact
  <2> QED BY <2>1, <2>3 DEF s
<1>3. \A a, b, c, d, p \in Grid :
         point_in_polygon(p, <<a, b, c, d>>)
           <=> (point_in_polygon(p, <<a, b, c>>) # point_in_polygon(p, <<a, c, d>>))
  BY <1>1, CutIsExact
<1> QED BY <1>2, <1>3 DEF PolygonTestIsExact

-----------------------------------------------------------------------------
(* The zone a cat is matched to.                                           *)

\* The zone of the track in hand contains it, or no listed zone does.
Found ==
    phase = "detection" =>
        IF match = NoZone THEN Containing(current) = {} ELSE match \in Containing(current)

LEMMA ContainingSame ==
    ASSUME UNCHANGED <<tracks, todo, seen>>
    PROVE  Containing(current)' = Containing(current)
BY DEF Containing, current, Covers

LEMMA FoundNext == Found /\ [Next]_vars => Found'
<1> SUFFICES ASSUME Found, [Next]_vars PROVE Found'
  OBVIOUS
<1>1. CASE GetCat
  <2>1. /\ match' \in IF Containing(current) = {} THEN {NoZone} ELSE Containing(current)
        /\ UNCHANGED <<tracks, todo, seen>>
    BY <1>1 DEF GetCat, trackerVars
  <2>2. Containing(current)' = Containing(current)
    BY <2>1, ContainingSame
  <2>3. NoZone \notin Containing(current)
    BY PipelineAssumption DEF Containing
  <2> QED BY <2>1, <2>2, <2>3 DEF Found
<1>2. CASE UNCHANGED <<trackerVars, frameVars>>
  <2>1. UNCHANGED <<tracks, todo, seen>> /\ phase' = phase /\ match' = match
    BY <1>2 DEF trackerVars, frameVars
  <2>2. Containing(current)' = Containing(current)
    BY <2>1, ContainingSame
  <2> QED BY <2>1, <2>2 DEF Found
<1>3. CASE phase' # "detection"
  BY <1>3 DEF Found
<1>4. \/ (\E z \in Zones : CreateZone(z) \/ UpdateZone(z) \/ DeleteZone(z)) \/ Tick \/ UNCHANGED vars
      => UNCHANGED <<trackerVars, frameVars>>
  BY DEF CreateZone, UpdateZone, DeleteZone, SetZone, Tick, vars
<1>5. ASSUME \/ \E D \in SUBSET Places : Receive(D)
             \/ ListZones \/ InsertDetection \/ RecordActivity \/ InsertAlert \/ Post \/ MarkStatus
             \/ Publish \/ MustFail \/ CallFails \/ Restart
      PROVE  phase' # "detection"
  BY <1>5 DEF Receive, ListZones, InsertDetection, RecordActivity, InsertAlert, Post, MarkStatus,
              NextTrack, Publish, MustFail, CallFails, Abandon, EndFrame, Restart
<1> QED BY <1>1, <1>2, <1>3, <1>4, <1>5 DEF Next, Frame

LEMMA ThreeElements ==
    ASSUME NEW S, NEW s \in Seq(S), Len(s) = 3
    PROVE  s[1] \in S /\ s[2] \in S /\ s[3] \in S
BY 1 \in 1..Len(s), 2 \in 1..Len(s), 3 \in 1..Len(s)

\* The zone a cat is matched to contains it, and none is recorded only if no
\* listed zone, of three points, has it strictly inside.
THEOREM ZonesAreGeometric == Spec => []ZoneMatchIsGeometric
<1>1. Init => Found
  BY DEF Init, Found
<1>2. Typed /\ Found => ZoneMatchIsGeometric
  <2> SUFFICES ASSUME Typed, Found, phase = "detection", NEW z \in Zones, seen[z] = "ok",
                      Len(Polygon[z]) = 3
               PROVE  /\ match = z => ~Outside(tracks[current].at, Polygon[z][1], Polygon[z][2],
                                               Polygon[z][3])
                      /\ match = NoZone => ~Inside(tracks[current].at, Polygon[z][1], Polygon[z][2],
                                                   Polygon[z][3])
    BY TestIsExact DEF ZoneMatchIsGeometric
  <2>1. tracks[current].at \in Places /\ tracks[current].at \in Point
    <3>1. current \in DOMAIN tracks
      BY CurrentIsToDo DEF Typed, HasTrack, TypeOK
    <3> QED BY <3>1, TrackerAssumption DEF Typed, TypeOK, TrackerTypeOK, Track, Point
  <2>2. Polygon[z][1] \in Point /\ Polygon[z][2] \in Point /\ Polygon[z][3] \in Point
    <3>1. Polygon[z] \in Seq(Point)
      BY PipelineAssumption DEF IsPolygon
    <3> QED BY <3>1, ThreeElements
  <2>3. z \in Containing(current) <=> point_in_polygon(tracks[current].at, Polygon[z])
    BY <2>1 DEF Containing, Covers
  <2>4. /\ match = z => z \in Containing(current)
        /\ match = NoZone => z \notin Containing(current)
    BY PipelineAssumption DEF Found
  <2> QED BY <2>1, <2>2, <2>3, <2>4, TriangleIsExact
<1> QED BY <1>1, <1>2, TypedInit, TypedNext, FoundNext, PTL DEF Spec
=============================================================================
