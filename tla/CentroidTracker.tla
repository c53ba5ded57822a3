-------------------------- MODULE CentroidTracker --------------------------
(***************************************************************************)
(* cat-sentinel/app/vision/tracker.py: identities for the cats detected in *)
(* successive frames.  A centroid is a point of the picture; the bounding  *)
(* box goes with it.  The detections of one frame are a set of points, in  *)
(* no particular order.                                                    *)
(***************************************************************************)
EXTENDS Integers, FiniteSets, Functions

CONSTANTS
    Places,         \* where a centroid may be
    MaxDistance,    \* centroid_max_distance
    MaxAgeFrames    \* centroid_max_age_frames

ASSUME TrackerAssumption ==
    /\ Places \subseteq Int \X Int /\ IsFiniteSet(Places)
    /\ MaxDistance \in Nat
    /\ MaxAgeFrames \in Nat

VARIABLES
    tracks,     \* objects: per track id, its last centroid and age_frames_unseen
    nextId      \* _next_id

trackerVars == <<tracks, nextId>>

Track == [at : Places, unseen : 0..MaxAgeFrames]

TrackerTypeOK ==
    /\ nextId \in Nat \ {0}
    /\ DOMAIN tracks \subseteq 1..(nextId - 1)
    /\ \A t \in DOMAIN tracks : tracks[t] \in Track

TrackerInit ==
    /\ tracks = [t \in {} |-> 0]
    /\ nextId = 1

\* The square of the Euclidean distance: distances are only ever compared.
Distance2(a, b) == (a[1] - b[1]) * (a[1] - b[1]) + (a[2] - b[2]) * (a[2] - b[2])

Near(a, b) == Distance2(a, b) <= MaxDistance * MaxDistance

\* How far the track of a pair is from its detection.
Apart(c) == Distance2(tracks[c[1]].at, c[2])

\* Mutation: a distance of exactly MaxDistance is too far.
CandidatesBelow(D) ==
    {c \in (DOMAIN tracks) \X D : Apart(c) < MaxDistance * MaxDistance}

\* The pairs of a track and a detection within reach of each other.
Candidates(D) ==
    {c \in (DOMAIN tracks) \X D : Near(tracks[c[1]].at, c[2])}

\* Mutation: the candidates are not sorted.
AnyFirst(D) ==
    LET left(C, c) == {e \in C : e[1] # c[1] /\ e[2] # c[2]}
        outcomes[C \in SUBSET Candidates(D)] ==
            IF C = {} THEN {{}}
            ELSE UNION {{M \cup {c} : M \in outcomes[left(C, c)]} : c \in C}
    IN  outcomes[Candidates(D)]

\* The loop of the code: the closest pair left is taken, and with it all others
\* of its track and of its detection are skipped.
ClosestFirst(D) ==
    LET closest(C) == {c \in C : \A e \in C : Apart(c) <= Apart(e)}
        left(C, c) == {e \in C : e[1] # c[1] /\ e[2] # c[2]}
        outcomes[C \in SUBSET Candidates(D)] ==
            IF C = {} THEN {{}}
            ELSE UNION {{M \cup {c} : M \in outcomes[left(C, c)]} : c \in closest(C)}
    IN  outcomes[Candidates(D)]

\* Mutation: two tracks may take the same detection.
GreedyByTrack(D) ==
    {M \in SUBSET Candidates(D) :
        /\ \A m, n \in M : m[1] = n[1] => m = n
        /\ \A c \in Candidates(D) : \E m \in M : m[1] = c[1] /\ Apart(m) <= Apart(c)}

\* What that may come to, said of the pairs taken: a pair was taken, or one at
\* least as close had taken its track or its detection.  (Pairs equally far
\* apart are taken in either order.)
Greedy(D) ==
    {M \in SUBSET Candidates(D) :
        /\ \A m, n \in M : m[1] = n[1] \/ m[2] = n[2] => m = n
        /\ \A c \in Candidates(D) :
              \E m \in M : (m[1] = c[1] \/ m[2] = c[2]) /\ Apart(m) <= Apart(c)}

\* The tracks after the frame: matched ones move, new ones start, and the
\* others are kept until they went unseen for more than MaxAgeFrames frames.
Updated(M, newId) ==
    LET matched == {m[1] : m \in M}
        kept    == {t \in DOMAIN tracks \ matched : tracks[t].unseen < MaxAgeFrames}
        started == {newId[d] : d \in DOMAIN newId}
    IN  [t \in matched \cup kept \cup started |->
            IF t \in matched THEN [at |-> (CHOOSE m \in M : m[1] = t)[2], unseen |-> 0]
            ELSE IF t \in kept THEN [at |-> tracks[t].at, unseen |-> tracks[t].unseen + 1]
            ELSE [at |-> CHOOSE d \in DOMAIN newId : newId[d] = t, unseen |-> 0]]

Update(D) ==
    \E M \in Greedy(D) :
        LET fresh == D \ {m[2] : m \in M}
            ids   == nextId..(nextId + Cardinality(fresh) - 1)
        IN  \E newId \in Bijection(fresh, ids) :
                /\ tracks' = Updated(M, newId)
                /\ nextId' = nextId + Cardinality(fresh)

TrackerNext == \E D \in SUBSET Places : Update(D)

TrackerSpec == TrackerInit /\ [][TrackerNext]_trackerVars
=============================================================================
