---------------------------- MODULE TrackerView ----------------------------
(***************************************************************************)
(* How the page "Tracked cats" comes to show where the cats are: the table *)
(* detections of cat-sentinel, the hub's GET /trackers, which keeps the    *)
(* latest detection of each cat, the proxy of the web frontend, and the    *)
(* component TrackerList, which polls while it is mounted.                 *)
(*                                                                         *)
(* A detection is its place in the table; what is shown of it (bounding    *)
(* box, age) goes with it.  Its timestamp is a reading of the database's   *)
(* clock, called a second here: that is the unit of CURRENT_TIMESTAMP in   *)
(* SQLite, the default of the settings, and PostgreSQL's is finer.  The    *)
(* next detection may share it or have a later one, and the query does not *)
(* order those that share one.  Several polls can be in flight: the        *)
(* interval does not wait for the poll before.                             *)
(*                                                                         *)
(* The hub makes two requests, for the cats and then for the detections,   *)
(* and joins what it got: a cat made in between, or left out of a page of  *)
(* cats, has no name in the answer.  Names do not change here, and how the *)
(* list draws what it got is left out.                                     *)
(***************************************************************************)
EXTENDS Naturals, SequencesExt

CONSTANTS
    MaxCats,        \* bound: cats the detector sees
    PageLimit,      \* Pagination.limit, 50 when the hub asks
    FieldsAgree,    \* whether detections carry the keys the hub reads
    MaxPolls,       \* bound: polls in flight
    MaxRows,        \* bound: detections
    MaxVisits,      \* bound: times the page is opened, the last one for good
    MaxFailures     \* bound: polls that fail

(***************************************************************************)
(* The hub reads captured_at and bounding_box, and a cat's name, which is  *)
(* what the service of its tests sends; cat-sentinel sends timestamp, bbox *)
(* and label, so for the two services as they are FieldsAgree is FALSE.    *)
(***************************************************************************)
ASSUME ViewAssumption ==
    /\ PageLimit \in Nat \ {0}
    /\ FieldsAgree \in BOOLEAN
    /\ {MaxCats, MaxPolls, MaxRows, MaxVisits, MaxFailures} \subseteq Nat

Polls == 1..MaxPolls

VARIABLES
    cats,           \* how many rows the table cats has, one for each track id
    rows,           \* the table detections, in the order of insertion
    polls,          \* GET /api/trackers, from the page to the hub and back
    visit,          \* how many times TrackerList was mounted
    mounted,
    page,           \* the state and the trackers of TrackerList
    failures,
    opened          \* history: the detections there were when it was mounted

pageVars == <<visit, mounted, page, opened>>
tables == <<cats, rows>>
vars == <<tables, polls, pageVars, failures>>

\* An answer of the hub gives, for each cat in it, its detection.
Nobody == <<>>
Answers == UNION {[known -> 1..Len(rows)] : known \in SUBSET (1..cats)}

Idle == [at |-> "none"]
Blank == [state |-> "loading", trackers |-> Nobody, named |-> {}]

TypeOK ==
    /\ cats \in 0..MaxCats
    /\ rows \in Seq([cat : 1..cats, second : 1..MaxRows])
    /\ Len(rows) <= MaxRows
    /\ \A p \in Polls :
          \/ polls[p] = Idle
          \/ polls[p] \in [at : {"asked", "failed"}, visit : 1..visit]
          \/ polls[p] \in [at : {"halfway"}, visit : 1..visit, names : SUBSET (1..cats)]
          \/ /\ polls[p] \in [at : {"answered"}, visit : 1..visit, answer : Answers, named : SUBSET (1..cats)]
             /\ polls[p].named \subseteq DOMAIN polls[p].answer
    /\ visit \in 0..MaxVisits /\ mounted \in BOOLEAN
    /\ page.state \in {"loading", "ok", "error"} /\ page.trackers \in Answers
    /\ page.named \subseteq DOMAIN page.trackers
    /\ opened \in 0..Len(rows)
    /\ failures \in 0..MaxFailures

Init ==
    /\ cats = 0 /\ rows = <<>>
    /\ polls = [p \in Polls |-> Idle]
    /\ visit = 0 /\ mounted = FALSE /\ page = Blank /\ opened = 0
    /\ failures = 0

-----------------------------------------------------------------------------
(* cat-sentinel.                                                           *)

\* The clock: the second of the detection before, or the next one.
Seconds == IF rows = <<>> THEN {1} ELSE {Last(rows).second, Last(rows).second + 1}

\* CatRepository.get_or_create, for a track that is new.
CreateCat ==
    /\ cats < MaxCats
    /\ cats' = cats + 1
    /\ UNCHANGED <<rows, polls, pageVars, failures>>

\* DetectionRepository.create.
Detect ==
    /\ Len(rows) < MaxRows
    /\ \E c \in 1..cats, s \in Seconds : rows' = Append(rows, [cat |-> c, second |-> s])
    /\ UNCHANGED <<cats, polls, pageVars, failures>>

\* GET /cats/: a page of cats, in no particular order.
CatPages == kSubset(IF cats < PageLimit THEN cats ELSE PageLimit, 1..cats)

\* GET /detections/: a page of detections, newest second first.
DetectionPages ==
    LET newer(i, j) == rows[i].second > rows[j].second
        size == IF Len(rows) < PageLimit THEN Len(rows) ELSE PageLimit
        newest == {W \in kSubset(size, 1..Len(rows)) :
                      \A i \in W, j \in (1..Len(rows)) \ W : ~newer(j, i)}
    IN  {q \in UNION {SetToSeqs(W) : W \in newest} :
            \A i, j \in 1..Len(q) : i < j => ~newer(q[j], q[i])}

-----------------------------------------------------------------------------
(* GET /trackers.                                                          *)

\* Mutation: a detection replaces the one of its cat that was listed before.
ReplacesAny(i, found) == TRUE

\* The first detection of a cat stays until a later one replaces it.
Replaces(i, found) ==
    rows[i].cat \in DOMAIN found => rows[i].second > rows[found[rows[i].cat]].second

Noted(i, found) ==
    [c \in DOMAIN found \cup {rows[i].cat} |->
        IF c = rows[i].cat /\ Replaces(i, found) THEN i ELSE found[c]]

\* latest_by_cat, after each detection of the list.
LatestAfter(list) ==
    LET after[k \in 0..Len(list)] == IF k = 0 THEN Nobody ELSE Noted(list[k], after[k - 1])
    IN  after

LatestByCat(list) == LatestAfter(list)[Len(list)]

Fails(p) == polls' = [polls EXCEPT ![p] = [at |-> "failed", visit |-> polls[p].visit]]

\* The first request, of whose answer only the names are used.
ReadCats(p) ==
    /\ polls[p].at = "asked"
    /\ \E names \in CatPages :
          polls' = [polls EXCEPT ![p] = [at |-> "halfway", visit |-> polls[p].visit, names |-> names]]
    /\ UNCHANGED <<tables, pageVars, failures>>

\* The second, and the answer: every cat of the detections, named if it was on
\* the page of cats.  The first detection without its key is a KeyError.
ReadDetections(p) ==
    /\ polls[p].at = "halfway"
    /\ \E list \in DetectionPages :
          IF list # <<>> /\ ~FieldsAgree
          THEN Fails(p)
          ELSE LET answer == LatestByCat(list) IN
               polls' = [polls EXCEPT ![p] = [at |-> "answered", visit |-> polls[p].visit,
                                              answer |-> answer,
                                              named |-> polls[p].names \cap DOMAIN answer]]
    /\ UNCHANGED <<tables, pageVars, failures>>

\* cat-sentinel or the hub is down, slow or answers with an error: the hub and
\* the proxy make a 502 of it.
PollFails(p) ==
    /\ polls[p].at \in {"asked", "halfway"} /\ failures < MaxFailures
    /\ failures' = failures + 1
    /\ Fails(p)
    /\ UNCHANGED <<tables, pageVars>>

-----------------------------------------------------------------------------
(* TrackerList.                                                            *)

\* A poll has no number in the code: the least that is free is taken.
Ask(v) ==
    LET free == {p \in Polls : polls[p] = Idle} IN
    /\ free # {}
    /\ polls' = [polls EXCEPT ![Min(free)] = [at |-> "asked", visit |-> v]]

\* The effect: it polls at once, and the interval starts.
Mount ==
    /\ ~mounted /\ visit < MaxVisits
    /\ mounted' = TRUE /\ visit' = visit + 1
    /\ page' = Blank /\ opened' = Len(rows)
    /\ Ask(visit + 1)
    /\ UNCHANGED <<tables, failures>>

\* Mutation: polling ends with the first error.
PollUnlessError ==
    /\ mounted /\ page.state # "error"
    /\ Ask(visit)
    /\ UNCHANGED <<tables, pageVars, failures>>

\* The interval elapsed.
Poll ==
    /\ mounted
    /\ Ask(visit)
    /\ UNCHANGED <<tables, pageVars, failures>>

\* The cleanup sets the `cancelled` of this visit, whose state is gone; its
\* polls stay in flight.
Unmount ==
    /\ mounted /\ visit < MaxVisits
    /\ mounted' = FALSE
    /\ page' = Blank /\ opened' = 0
    /\ UNCHANGED <<tables, polls, visit, failures>>

\* Mutation: an unmounted visit is not told from the mounted one.
CancelledTogether(p) == ~mounted

Cancelled(p) == ~mounted \/ polls[p].visit # visit

\* The answer to a poll; an error leaves the trackers on the page.
Show(p) ==
    /\ polls[p].at \in {"answered", "failed"}
    /\ polls' = [polls EXCEPT ![p] = Idle]
    /\ page' = CASE Cancelled(p) -> page
                 [] ~Cancelled(p) /\ polls[p].at = "failed" -> [page EXCEPT !.state = "error"]
                 [] OTHER -> [state |-> "ok", trackers |-> polls[p].answer,
                              named |-> polls[p].named]
    /\ UNCHANGED <<tables, visit, mounted, failures, opened>>

-----------------------------------------------------------------------------
Next ==
    \/ CreateCat \/ Detect \/ Mount \/ Unmount \/ Poll
    \/ \E p \in Polls : ReadCats(p) \/ ReadDetections(p) \/ PollFails(p) \/ Show(p)

(***************************************************************************)
(* The interval fires while the page is open, and of the requests in       *)
(* flight some go on being answered: the hub's client gives up after ten   *)
(* seconds.  Failures are finitely many (MaxFailures).                     *)
(***************************************************************************)
Fairness == WF_vars(Poll) /\ WF_vars(\E p \in Polls : ReadCats(p) \/ ReadDetections(p) \/ Show(p))

Spec == Init /\ [][Next]_vars
FairSpec == Spec /\ Fairness

-----------------------------------------------------------------------------
(* Properties.                                                             *)

\* The answer is no older than the first n detections: it shows each cat as of
\* its latest second among them, or a later one, and a cat it leaves out has a
\* page of other detections that are no older.
Covers(answer, n) ==
    \A c \in 1..cats :
        LET of(d) == {i \in 1..Len(rows) : rows[i].cat = d}
            noOlder(i) == {j \in (1..Len(rows)) \ of(c) : rows[j].second >= rows[i].second}
        IN  IF c \in DOMAIN answer
            THEN /\ answer[c] \in of(c)
                 /\ \A i \in of(c) : i <= n => rows[i].second <= rows[answer[c]].second
            ELSE \A i \in of(c) : i <= n => Cardinality(noOlder(i)) >= PageLimit

\* In whatever order a page lists the detections of one second, the hub's
\* answer tells where each cat was last.
AnswersAreLatest ==
    [][\A p \in Polls :
          polls[p].at = "halfway" /\ polls'[p].at = "answered"
              => Covers(polls'[p].answer, Len(rows))]_vars

\* The page shows nothing older than what there was when it was opened: an
\* answer to a poll of an earlier visit does not reach it.
OwnPollsOnly == page.state = "ok" => Covers(page.trackers, opened)

\* A page that stays open comes to show where each cat was last, and goes on
\* showing it, even though answers overtake each other on the way; and, as long
\* as a page holds all the cats, it has the name of each, even though the hub
\* may have read the detection of a cat and not the cat.
Converges ==
    <>[](mounted => /\ page.state = "ok"
                    /\ Covers(page.trackers, Len(rows))
                    /\ cats <= PageLimit => page.named = DOMAIN page.trackers)
=============================================================================
