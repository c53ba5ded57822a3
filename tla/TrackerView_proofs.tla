------------------------- MODULE TrackerView_proofs -------------------------
(***************************************************************************)
(* Machine-checked proofs about TrackerView, for any number of cats,       *)
(* detections, visits, failures and polls in flight, any size of a page    *)
(* and whether or not the two services agree on the keys.                  *)
(***************************************************************************)
EXTENDS TrackerView, FiniteSetTheorems, SequenceTheorems, WellFoundedInduction, TLAPS

LEMMA HasLeast ==
    ASSUME NEW T \in SUBSET Nat, T # {}
    PROVE  \E n \in T : \A m \in T : n <= m
<1>1. OpToRel(<, Nat) = {ss \in Nat \X Nat : ss[1] < ss[2]}
  BY DEF OpToRel
<1>2. PICK n \in T : \A m \in T : <<m, n>> \notin OpToRel(<, Nat)
  BY NatLessThanWellFounded, WFMin
<1>3. \A m \in T : ~(m < n)
  BY <1>1, <1>2
<1> QED BY <1>3

LEMMA MinIsLeast ==
    ASSUME NEW T \in SUBSET Nat, T # {}
    PROVE  Min(T) \in T
<1>1. \E n \in T : \A m \in T : n <= m
  BY HasLeast
<1> QED BY <1>1 DEF Min

-----------------------------------------------------------------------------
(* latest_by_cat.                                                          *)

Body(list, g, n) == [k \in 0..n |-> IF k = 0 THEN Nobody ELSE Noted(list[k], g[k - 1])]

\* The loop is well defined: it has a result after any number of rounds.
LEMMA LoopExists ==
    ASSUME NEW list, NEW n \in Nat
    PROVE  \E g : g = Body(list, g, n)
<1> DEFINE bad == {m \in Nat : ~\E g : g = Body(list, g, m)}
<1>1. SUFFICES bad = {}
  OBVIOUS
<1>2. SUFFICES ASSUME bad # {} PROVE FALSE
  OBVIOUS
<1>3. PICK m \in bad : \A l \in bad : m <= l
  BY <1>2, HasLeast
<1>4. CASE m = 0
  <2> DEFINE g == [k \in 0..0 |-> Nobody]
  <2>1. g = Body(list, g, 0)
    BY DEF Body
  <2> QED BY <1>3, <1>4, <2>1
<1>5. CASE m # 0
  <2>1. m - 1 \in Nat /\ m - 1 \notin bad
    BY <1>3, <1>5
  <2>2. PICK g : g = Body(list, g, m - 1)
    BY <2>1
  <2> DEFINE h == [k \in 0..m |-> IF k < m THEN g[k] ELSE Noted(list[m], g[m - 1])]
  <2>3. h = Body(list, h, m)
    <3> DEFINE b == Body(list, h, m)
    <3>1. ASSUME NEW k \in 0..m PROVE h[k] = b[k]
      <4>1. CASE k = m
        <5>1. h[m - 1] = g[m - 1]
          BY <1>3, <1>5
        <5> QED BY <1>3, <1>5, <4>1, <5>1 DEF Body
      <4>2. CASE k # m
        <5>1. k \in 0..(m - 1) /\ h[k] = g[k]
          BY <1>3, <4>2
        <5>2. g[k] = IF k = 0 THEN Nobody ELSE Noted(list[k], g[k - 1])
          BY <2>2, <5>1 DEF Body
        <5>3. k # 0 => h[k - 1] = g[k - 1]
          BY <1>3, <5>1
        <5>4. b[k] = IF k = 0 THEN Nobody ELSE Noted(list[k], h[k - 1])
          BY DEF Body
        <5> HIDE DEF h, b
        <5> QED BY <5>1, <5>2, <5>3, <5>4
      <4> QED BY <4>1, <4>2
    <3>2. h = [k \in 0..m |-> h[k]] /\ b = [k \in 0..m |-> b[k]]
      BY DEF Body
    <3> HIDE DEF h, b
    <3>3. h = b
      BY <3>1, <3>2
    <3> QED BY <3>3 DEF b
  <2> HIDE DEF h
  <2> QED BY <1>3, <2>3
<1> QED BY <1>4, <1>5

LEMMA LoopRounds ==
    ASSUME NEW list, Len(list) \in Nat
    PROVE  /\ LatestAfter(list)[0] = Nobody
           /\ \A k \in 1..Len(list) :
                 LatestAfter(list)[k] = Noted(list[k], LatestAfter(list)[k - 1])
<1> DEFINE g == LatestAfter(list)
<1>1. LatestAfter(list) = CHOOSE f : f = Body(list, f, Len(list))
  BY DEF LatestAfter, Body
<1>2. LatestAfter(list) = Body(list, LatestAfter(list), Len(list))
  BY <1>1, LoopExists
<1> HIDE DEF g
<1>3. g = Body(list, g, Len(list))
  BY <1>2 DEF g
<1>4. g[0] = Nobody /\ \A k \in 1..Len(list) : g[k] = Noted(list[k], g[k - 1])
  BY <1>3 DEF Body
<1> QED BY <1>4 DEF g

\* f is, for each cat among the first k detections of the list, one of them
\* that none of the others of that cat is later than.
Tells(f, list, k) ==
    /\ DOMAIN f = {rows[list[j]].cat : j \in 1..k}
    /\ \A c \in DOMAIN f : \E l \in 1..k : f[c] = list[l] /\ rows[list[l]].cat = c
    /\ \A j \in 1..k : rows[list[j]].second <= rows[f[rows[list[j]].cat]].second

LEMMA NotedTells ==
    ASSUME NEW list, NEW n \in Nat, NEW k \in 1..n, NEW f, Tells(f, list, k - 1),
           \A j \in 1..n : rows[list[j]].second \in Nat
    PROVE  Tells(Noted(list[k], f), list, k)
<1> DEFINE i == list[k]
           c == rows[i].cat
           g == Noted(i, f)
<1>1. /\ DOMAIN g = DOMAIN f \cup {c}
      /\ \A d \in DOMAIN g : g[d] = IF d = c /\ Replaces(i, f) THEN i ELSE f[d]
  BY DEF Noted
<1>2. Replaces(i, f) <=> (c \in DOMAIN f => rows[i].second > rows[f[c]].second)
  BY DEF Replaces
<1>3. 1..k = 1..(k - 1) \cup {k}
  OBVIOUS
<1> HIDE DEF g, i
<1>4. DOMAIN g = {rows[list[j]].cat : j \in 1..k}
  <2>1. {rows[list[j]].cat : j \in 1..k} = {rows[list[j]].cat : j \in 1..(k - 1)} \cup {c}
    BY <1>3 DEF i
  <2> QED BY <1>1, <2>1 DEF Tells
<1>5. \A d \in DOMAIN g : \E l \in 1..k : g[d] = list[l] /\ rows[list[l]].cat = d
  <2> TAKE d \in DOMAIN g
  <2>1. CASE g[d] = i /\ d = c
    BY <1>3, <2>1 DEF i
  <2>2. CASE d \in DOMAIN f /\ g[d] = f[d]
    BY <1>3, <2>2 DEF Tells
  <2> QED BY <1>1, <1>2, <2>1, <2>2
<1>6. \A j \in 1..k : rows[list[j]].second <= rows[g[rows[list[j]].cat]].second
  <2> TAKE j \in 1..k
  <2> DEFINE d == rows[list[j]].cat
             t == rows[list[j]].second
  <2>0. d \in DOMAIN g /\ t \in Nat /\ rows[i].second \in Nat
    BY <1>4 DEF i
  <2>1. CASE d # c
    <3>1. j \in 1..(k - 1) /\ g[d] = f[d]
      BY <1>1, <1>3, <2>0, <2>1 DEF i
    <3> QED BY <3>1 DEF Tells
  <2>2. CASE d = c /\ Replaces(i, f)
    <3>1. g[d] = i
      BY <1>1, <2>0, <2>2
    <3>2. CASE j = k
      BY <2>0, <3>1, <3>2 DEF i
    <3>3. CASE j # k
      <4>1. j \in 1..(k - 1)
        BY <1>3, <3>3
      <4>2. d \in DOMAIN f /\ t <= rows[f[d]].second
        BY <4>1 DEF Tells
      <4>3. rows[f[d]].second \in Nat
        <5>1. PICK l \in 1..(k - 1) : f[d] = list[l]
          BY <4>2 DEF Tells
        <5> QED BY <5>1
      <4>4. rows[i].second > rows[f[c]].second
        BY <1>2, <2>2, <4>2
      <4> QED BY <2>0, <2>2, <3>1, <4>2, <4>3, <4>4
    <3> QED BY <3>2, <3>3
  <2>3. CASE d = c /\ ~Replaces(i, f)
    <3>1. g[d] = f[d] /\ c \in DOMAIN f /\ ~(rows[i].second > rows[f[c]].second)
      BY <1>1, <1>2, <2>0, <2>3
    <3>2. rows[f[c]].second \in Nat
      <4>1. PICK l \in 1..(k - 1) : f[c] = list[l]
        BY <3>1 DEF Tells
      <4> QED BY <4>1
    <3>3. CASE j = k
      BY <2>0, <2>3, <3>1, <3>2, <3>3 DEF i
    <3>4. CASE j # k
      <4>1. j \in 1..(k - 1)
        BY <1>3, <3>4
      <4> QED BY <3>1, <4>1 DEF Tells
    <3> QED BY <3>3, <3>4
  <2> QED BY <2>1, <2>2, <2>3
<1> QED BY <1>4, <1>5, <1>6 DEF Tells, g, i

\* What the loop returns.
LEMMA LatestTells ==
    ASSUME NEW list, Len(list) \in Nat,
           \A j \in 1..Len(list) : rows[list[j]].second \in Nat
    PROVE  Tells(LatestByCat(list), list, Len(list))
<1> DEFINE n == Len(list)
           g == LatestAfter(list)
           bad == {k \in 0..n : ~Tells(g[k], list, k)}
<1>1. Tells(g[0], list, 0)
  BY LoopRounds DEF Tells, Nobody
<1>2. ASSUME NEW k \in 1..n, Tells(g[k - 1], list, k - 1) PROVE Tells(g[k], list, k)
  <2>1. g[k] = Noted(list[k], g[k - 1])
    BY LoopRounds
  <2> HIDE DEF g
  <2>2. Tells(Noted(list[k], g[k - 1]), list, k)
    BY <1>2, NotedTells
  <2> QED BY <2>1, <2>2
<1> HIDE DEF g
<1>3. bad = {}
  <2> SUFFICES ASSUME bad # {} PROVE FALSE
    OBVIOUS
  <2>1. PICK k \in bad : \A l \in bad : k <= l
    <3>1. bad \in SUBSET Nat /\ bad # {}
      OBVIOUS
    <3> HIDE DEF bad
    <3> QED BY <3>1, HasLeast
  <2>2. k \in 1..n /\ k - 1 \in 0..n /\ k - 1 \notin bad
    BY <1>1, <2>1
  <2> QED BY <1>2, <2>1, <2>2
<1>4. Tells(g[n], list, n)
  BY <1>3
<1> QED BY <1>4 DEF LatestByCat, g

-----------------------------------------------------------------------------
(* Types.                                                                  *)

PollType ==
    LET visits == 1..visit
        names == SUBSET (1..cats)
    IN  {Idle} \cup [at : {"asked", "failed"}, visit : visits]
               \cup [at : {"halfway"}, visit : visits, names : names]
               \cup {a \in [at : {"answered"}, visit : visits, answer : Answers, named : names] :
                        a.named \subseteq DOMAIN a.answer}

PageType ==
    {q \in [state : {"loading", "ok", "error"}, trackers : Answers, named : SUBSET (1..cats)] :
        q.named \subseteq DOMAIN q.trackers}

Rows == [cat : 1..cats, second : Nat \ {0}]

\* A detection's second is at most its place in the table.
Typed ==
    /\ cats \in 0..MaxCats
    /\ rows \in Seq(Rows) /\ Len(rows) <= MaxRows
    /\ \A i \in 1..Len(rows) : rows[i].second <= i
    /\ polls \in [Polls -> PollType]
    /\ visit \in 0..MaxVisits /\ mounted \in BOOLEAN
    /\ mounted => visit # 0
    /\ page \in PageType
    /\ opened \in 0..Len(rows)
    /\ failures \in 0..MaxFailures

LEMMA AnswerIff ==
    \A a : a \in Answers <=> a \in [DOMAIN a -> 1..Len(rows)] /\ DOMAIN a \subseteq 1..cats
<1> TAKE a
<1>1. ASSUME a \in Answers PROVE a \in [DOMAIN a -> 1..Len(rows)] /\ DOMAIN a \subseteq 1..cats
  <2>1. PICK known \in SUBSET (1..cats) : a \in [known -> 1..Len(rows)]
    BY <1>1 DEF Answers
  <2> QED BY <2>1
<1>2. ASSUME a \in [DOMAIN a -> 1..Len(rows)], DOMAIN a \subseteq 1..cats PROVE a \in Answers
  BY <1>2 DEF Answers
<1> QED BY <1>1, <1>2

LEMMA Sequence ==
    ASSUME NEW S, NEW s, NEW n \in Nat, s \in [1..n -> S]
    PROVE  s \in Seq(S)
BY SeqDef, Zenon

LEMMA TypedIsTypeOK == Typed => TypeOK
<1> SUFFICES ASSUME Typed PROVE TypeOK
  OBVIOUS
<1> USE ViewAssumption
<1>1. rows \in Seq([cat : 1..cats, second : 1..MaxRows])
  <2>1. rows \in Seq(Rows) /\ Len(rows) <= MaxRows /\ \A i \in 1..Len(rows) : rows[i].second <= i
    BY DEF Typed
  <2>2. Len(rows) \in Nat /\ rows \in [1..Len(rows) -> Rows]
    BY <2>1
  <2>3. \A i \in 1..Len(rows) : rows[i] \in [cat : 1..cats, second : 1..MaxRows]
    <3> TAKE i \in 1..Len(rows)
    <3>1. rows[i] \in Rows /\ rows[i].second <= i /\ i \in Nat /\ i <= Len(rows)
      BY <2>1, <2>2
    <3>2. rows[i] \in [cat : 1..cats, second : Nat \ {0}]
      BY <3>1 DEF Rows
    <3>3. rows[i].second \in 1..MaxRows
      BY <2>1, <2>2, <3>1, <3>2
    <3> QED BY <3>2, <3>3
  <2>4. rows \in [1..Len(rows) -> [cat : 1..cats, second : 1..MaxRows]]
    BY <2>2, <2>3
  <2> QED BY <2>2, <2>4, Sequence
<1>2. ASSUME NEW p \in Polls
      PROVE  \/ polls[p] = Idle
             \/ polls[p] \in [at : {"asked", "failed"}, visit : 1..visit]
             \/ polls[p] \in [at : {"halfway"}, visit : 1..visit, names : SUBSET (1..cats)]
             \/ /\ polls[p] \in [at : {"answered"}, visit : 1..visit, answer : Answers,
                                 named : SUBSET (1..cats)]
                /\ polls[p].named \subseteq DOMAIN polls[p].answer
  <2>1. polls[p] \in PollType
    BY DEF Typed
  <2> QED BY <2>1 DEF PollType
<1>3. /\ page.state \in {"loading", "ok", "error"} /\ page.trackers \in Answers
      /\ page.named \subseteq DOMAIN page.trackers
  BY DEF Typed, PageType
<1> QED BY <1>1, <1>2, <1>3 DEF Typed, TypeOK

\* What was an answer stays one as the tables grow, and so do polls and pages.
LEMMA TypesGrow ==
    ASSUME Typed, cats' \in Nat, cats <= cats', Len(rows)' \in Nat, Len(rows) <= Len(rows'),
           visit' \in Nat, visit <= visit'
    PROVE  /\ Answers \subseteq Answers'
           /\ PollType \subseteq PollType'
           /\ PageType \subseteq PageType'
<1> USE ViewAssumption
<1>1. cats \in Nat /\ Len(rows) \in Nat /\ visit \in Nat
  BY DEF Typed
<1>2. 1..cats \subseteq 1..cats' /\ 1..Len(rows) \subseteq 1..Len(rows') /\ 1..visit \subseteq 1..visit'
  BY <1>1
<1>3. Answers \subseteq Answers'
  <2> SUFFICES ASSUME NEW a \in Answers PROVE a \in Answers'
    OBVIOUS
  <2>1. PICK known \in SUBSET (1..cats) : a \in [known -> 1..Len(rows)]
    BY DEF Answers
  <2>2. known \in SUBSET (1..cats') /\ a \in [known -> 1..Len(rows')]
    BY <1>2, <2>1
  <2> QED BY <2>2 DEF Answers
<1>4. SUBSET (1..cats) \subseteq SUBSET (1..cats')
  BY <1>2
<1>5. PollType \subseteq PollType'
  BY <1>2, <1>3, <1>4 DEF PollType
<1>6. PageType \subseteq PageType'
  BY <1>3, <1>4 DEF PageType
<1> QED BY <1>3, <1>5, <1>6

LEMMA TypedInit == Init => Typed
<1> SUFFICES ASSUME Init PROVE Typed
  OBVIOUS
<1> USE ViewAssumption
<1>1. Nobody \in Answers
  <2>1. cats = 0 /\ Len(rows) = 0
    BY DEF Init
  <2>2. Nobody \in [{} -> 1..Len(rows)]
    BY DEF Nobody
  <2> QED BY <2>1, <2>2 DEF Answers
<1>2. page \in PageType
  BY <1>1 DEF Init, Blank, PageType
<1>3. polls \in [Polls -> PollType]
  BY DEF Init, PollType
<1>4. cats = 0 /\ rows = <<>> /\ visit = 0 /\ mounted = FALSE /\ opened = 0 /\ failures = 0
  BY DEF Init
<1>5. rows \in Seq(Rows) /\ Len(rows) = 0
  BY <1>4
<1>6. \A i \in 1..Len(rows) : rows[i].second <= i
  BY <1>5
<1>7. /\ cats \in 0..MaxCats /\ visit \in 0..MaxVisits /\ failures \in 0..MaxFailures
      /\ Len(rows) <= MaxRows /\ opened \in 0..Len(rows) /\ mounted \in BOOLEAN
      /\ mounted => visit # 0
  <2>1. MaxCats \in Nat /\ MaxVisits \in Nat /\ MaxFailures \in Nat /\ MaxRows \in Nat
    OBVIOUS
  <2>2. opened \in 0..Len(rows) /\ Len(rows) <= MaxRows
    <3> HIDE ViewAssumption
    <3> QED BY <1>4, <1>5, <2>1
  <2>3. cats \in 0..MaxCats /\ visit \in 0..MaxVisits /\ failures \in 0..MaxFailures
    BY <1>4, <2>1
  <2>4. mounted \in BOOLEAN /\ (mounted => visit # 0)
    BY <1>4, Zenon
  <2> QED BY <2>2, <2>3, <2>4, Zenon
<1> QED BY <1>2, <1>3, <1>5, <1>6, <1>7, Zenon DEF Typed

\* What the types of the model say of its records.
LEMMA PollTyped ==
    ASSUME Typed, NEW p \in Polls
    PROVE  /\ polls[p] \in PollType
           /\ polls[p].at \in {"asked", "halfway", "failed", "answered"} => polls[p].visit \in 1..visit
           /\ polls[p].at = "halfway" => polls[p].names \in SUBSET (1..cats)
           /\ polls[p].at = "answered" => /\ polls[p].answer \in Answers
                                          /\ polls[p].named \in SUBSET (1..cats)
                                          /\ polls[p].named \subseteq DOMAIN polls[p].answer
<1>1. polls[p] \in PollType
  BY DEF Typed
<1> QED BY <1>1 DEF PollType, Idle

LEMMA PollTypes ==
    ASSUME NEW v \in 1..visit
    PROVE  /\ Idle \in PollType
           /\ [at |-> "asked", visit |-> v] \in PollType
           /\ [at |-> "failed", visit |-> v] \in PollType
           /\ \A names \in SUBSET (1..cats) :
                 [at |-> "halfway", visit |-> v, names |-> names] \in PollType
           /\ \A answer \in Answers, named \in SUBSET (1..cats) :
                 named \subseteq DOMAIN answer =>
                    [at |-> "answered", visit |-> v, answer |-> answer, named |-> named] \in PollType
BY DEF PollType, Idle

\* A poll that is asked was free.
LEMMA AskTakes ==
    ASSUME NEW v, Ask(v)
    PROVE  \E p \in Polls : /\ polls[p] = Idle
                            /\ polls' = [polls EXCEPT ![p] = [at |-> "asked", visit |-> v]]
<1> DEFINE free == {p \in Polls : polls[p] = Idle}
<1>1. free \in SUBSET Nat /\ free # {}
  <2>1. Polls \subseteq Nat
    BY DEF Polls
  <2> QED BY <2>1 DEF Ask
<1>2. polls' = [polls EXCEPT ![Min(free)] = [at |-> "asked", visit |-> v]]
  BY DEF Ask
<1> HIDE DEF free
<1>3. Min(free) \in free
  BY <1>1, MinIsLeast
<1> QED BY <1>2, <1>3 DEF free

-----------------------------------------------------------------------------
(* A page of detections.                                                   *)

\* W is what a page of detections may hold.
Newest(W) ==
    /\ W \in SUBSET (1..Len(rows))
    /\ Cardinality(W) = IF Len(rows) < PageLimit THEN Len(rows) ELSE PageLimit
    /\ \A i \in W, j \in (1..Len(rows)) \ W : ~(rows[j].second > rows[i].second)

\* list is a list of what W holds.
Lists(list, W) ==
    /\ Len(list) \in Nat
    /\ \A j \in 1..Len(list) : list[j] \in W
    /\ \A i \in W : \E j \in 1..Len(list) : list[j] = i

LEMMA ListLists ==
    ASSUME NEW W, IsFiniteSet(W), NEW list \in SetToSeqs(W)
    PROVE  Lists(list, W)
<1> DEFINE n == Cardinality(W)
<1>1. n \in Nat
  BY FS_CardinalityType
<1>2. list \in [1..n -> W] /\ \A i, j \in 1..n : i # j => list[i] # list[j]
  BY DEF SetToSeqs
<1>3. list \in Injection(1..n, W)
  BY <1>2 DEF Injection, IsInjective
<1>4. IsFiniteSet(1..n) /\ Cardinality(1..n) = n
  BY <1>1, FS_Interval
<1>5. list \in Surjection(1..n, W)
  BY <1>3, <1>4, FS_Injection
<1> HIDE DEF n
<1>6. list \in Seq(W)
  BY <1>1, <1>2, Sequence
<1>7. Len(list) = n
  <2>1. Len(list) \in Nat /\ DOMAIN list = 1..Len(list)
    BY <1>6, LenProperties
  <2>2. DOMAIN list = 1..n
    BY <1>2
  <2> DEFINE m == Len(list)
  <2>3. m \in Nat /\ 1..m = 1..n
    BY <2>1, <2>2
  <2> HIDE DEF m
  <2>4. (m # 0 => m \in 1..n) /\ (n # 0 => n \in 1..m)
    <3>1. (m # 0 => m \in 1..m) /\ (n # 0 => n \in 1..n)
      BY <1>1, <2>3
    <3> QED BY <2>3, <3>1
  <2>5. m = n
    BY <1>1, <2>3, <2>4
  <2> QED BY <2>5 DEF m
<1> QED BY <1>1, <1>2, <1>5, <1>7 DEF Lists, Surjection

LEMMA PageListed ==
    ASSUME Typed, NEW list \in DetectionPages
    PROVE  \E W : Newest(W) /\ IsFiniteSet(W) /\ Lists(list, W)
<1>1. \E W \in kSubset(IF Len(rows) < PageLimit THEN Len(rows) ELSE PageLimit, 1..Len(rows)) :
        /\ \A i \in W, j \in (1..Len(rows)) \ W : ~(rows[j].second > rows[i].second)
        /\ list \in SetToSeqs(W)
  BY DEF DetectionPages
<1>2. PICK W : Newest(W) /\ list \in SetToSeqs(W)
  BY <1>1 DEF Newest, kSubset
<1>3. Len(rows) \in Nat
  BY DEF Typed
<1>4. IsFiniteSet(1..Len(rows))
  BY <1>3, FS_Interval
<1>5. IsFiniteSet(W)
  BY <1>2, <1>4, FS_Subset DEF Newest
<1> QED BY <1>2, <1>5, ListLists

LEMMA RowTyped ==
    ASSUME Typed
    PROVE  /\ Len(rows) \in Nat
           /\ \A i \in 1..Len(rows) : rows[i].cat \in 1..cats /\ rows[i].second \in Nat \ {0}
<1>1. rows \in Seq(Rows)
  BY DEF Typed
<1>2. Len(rows) \in Nat /\ \A i \in 1..Len(rows) : rows[i] \in Rows
  BY <1>1
<1> QED BY <1>2 DEF Rows

\* Of any page of detections, in any order it may list them, the loop of
\* list_active_trackers makes an answer that is no older than any detection.
LEMMA AnswerCovers ==
    ASSUME Typed, NEW list \in DetectionPages
    PROVE  LatestByCat(list) \in Answers /\ Covers(LatestByCat(list), Len(rows))
<1> DEFINE f == LatestByCat(list)
           n == Len(rows)
           noOlder(c, i) == {j \in (1..n) \ {k \in 1..n : rows[k].cat = c} :
                                rows[j].second >= rows[i].second}
<1>1. PICK W : Newest(W) /\ IsFiniteSet(W) /\ Lists(list, W)
  BY PageListed
<1>2. /\ n \in Nat
      /\ \A i \in 1..n : rows[i].cat \in 1..cats /\ rows[i].second \in Nat \ {0}
  BY RowTyped
<1>3. W \subseteq 1..n
  BY <1>1 DEF Newest
<1>4. Tells(f, list, Len(list))
  <2>1. Len(list) \in Nat /\ \A j \in 1..Len(list) : rows[list[j]].second \in Nat
    BY <1>1, <1>2, <1>3 DEF Lists
  <2> QED BY <2>1, LatestTells
<1> HIDE DEF f
<1>5. /\ \A c \in DOMAIN f : f[c] \in W /\ rows[f[c]].cat = c
      /\ \A i \in W : rows[i].cat \in DOMAIN f /\ rows[i].second <= rows[f[rows[i].cat]].second
  <2>1. \A c \in DOMAIN f : f[c] \in W /\ rows[f[c]].cat = c
    BY <1>1, <1>4 DEF Tells, Lists
  <2>2. ASSUME NEW i \in W
        PROVE  rows[i].cat \in DOMAIN f /\ rows[i].second <= rows[f[rows[i].cat]].second
    <3>1. PICK j \in 1..Len(list) : list[j] = i
      BY <1>1 DEF Lists
    <3> QED BY <1>4, <3>1 DEF Tells
  <2> QED BY <2>1, <2>2
<1>6. f \in Answers
  <2>1. f = [c \in DOMAIN f |-> f[c]]
    <3> DEFINE m == Len(list)
               g == LatestAfter(list)
    <3>1. m \in Nat /\ f = g[m]
      BY <1>1 DEF f, LatestByCat, Lists
    <3>2. CASE m = 0
      <4>1. f = Nobody
        BY <1>1, <3>1, <3>2, LoopRounds DEF Lists
      <4> QED BY <4>1 DEF Nobody
    <3>3. CASE m # 0
      <4>1. m \in 1..m
        BY <3>1, <3>3
      <4>2. f = Noted(list[m], g[m - 1])
        BY <1>1, <3>1, <4>1, LoopRounds DEF Lists
      <4> QED BY <4>2 DEF Noted
    <3> QED BY <3>2, <3>3
  <2>2. DOMAIN f \subseteq 1..cats
    BY <1>2, <1>3, <1>5
  <2>3. f \in [DOMAIN f -> 1..n]
    BY <1>3, <1>5, <2>1
  <2> QED BY <2>2, <2>3, AnswerIff
<1>7. ASSUME NEW c \in 1..cats, c \in DOMAIN f, NEW i \in 1..n, rows[i].cat = c
      PROVE  rows[i].second <= rows[f[c]].second
  <2>1. CASE i \in W
    BY <1>5, <1>7, <2>1
  <2>2. CASE i \notin W
    <3>1. ~(rows[i].second > rows[f[c]].second)
      BY <1>1, <1>5, <1>7, <2>2 DEF Newest
    <3>2. rows[i].second \in Nat /\ rows[f[c]].second \in Nat
      <4>1. f[c] \in 1..n
        BY <1>3, <1>5, <1>7
      <4> QED BY <1>2, <4>1
    <3> QED BY <3>1, <3>2
  <2> QED BY <2>1, <2>2
<1>8. ASSUME NEW c \in 1..cats, c \notin DOMAIN f, NEW i \in 1..n, rows[i].cat = c
      PROVE  Cardinality(noOlder(c, i)) >= PageLimit
  <2>1. i \notin W /\ \A w \in W : rows[w].cat # c
    BY <1>5, <1>8
  <2>2. W \subseteq noOlder(c, i)
    <3>1. \A w \in W : w \in 1..n /\ rows[w].cat # c /\ ~(rows[i].second > rows[w].second)
      BY <1>1, <1>3, <1>8, <2>1 DEF Newest
    <3> QED BY <1>2, <3>1
  <2>3. IsFiniteSet(1..n) /\ Cardinality(1..n) = n
    BY <1>2, FS_Interval
  <2>4. IsFiniteSet(noOlder(c, i))
    <3>1. noOlder(c, i) \in SUBSET (1..n)
      OBVIOUS
    <3> HIDE DEF noOlder
    <3> QED BY <2>3, <3>1, FS_Subset
  <2>5. Cardinality(W) = PageLimit
    <3>1. Cardinality(W) # n
      BY <1>3, <2>1, <2>3, FS_Subset
    <3> QED BY <1>1, <3>1 DEF Newest
  <2>6. Cardinality(noOlder(c, i)) \in Nat
    BY <2>4, FS_CardinalityType
  <2> HIDE DEF noOlder
  <2>7. Cardinality(W) <= Cardinality(noOlder(c, i))
    BY <2>2, <2>4, FS_Subset
  <2> QED BY <2>5, <2>6, <2>7, ViewAssumption
<1>9. \A c \in 1..cats : c \in DOMAIN f => f[c] \in 1..n /\ rows[f[c]].cat = c
  BY <1>3, <1>5
<1>10. Covers(f, n)
  BY <1>7, <1>8, <1>9 DEF Covers
<1> QED BY <1>6, <1>10 DEF f

-----------------------------------------------------------------------------
(* Every step keeps the types.                                             *)

LEMMA Bounds == {MaxCats, MaxRows, MaxVisits, MaxFailures} \subseteq Nat /\ PageLimit \in Nat \ {0}
BY ViewAssumption

LEMMA SameTypes ==
    ASSUME UNCHANGED <<tables, visit>>
    PROVE  Answers' = Answers /\ PollType' = PollType /\ PageType' = PageType /\ Rows' = Rows
BY DEF tables, Answers, PollType, PageType, Rows

LEMMA BlankTyped == Blank \in PageType
<1>1. Nobody \in Answers
  <2>1. Nobody \in [{} -> 1..Len(rows)] /\ DOMAIN Nobody = {}
    BY DEF Nobody
  <2> QED BY <2>1 DEF Answers
<1> QED BY <1>1 DEF Blank, PageType

\* Only CreateCat and Detect change the tables.
LEMMA TablesTyped ==
    ASSUME Typed, CreateCat \/ Detect
    PROVE  /\ cats' \in 0..MaxCats /\ cats <= cats'
           /\ rows' \in Seq(Rows') /\ Len(rows') <= MaxRows /\ Len(rows) <= Len(rows')
           /\ \A i \in 1..Len(rows') : rows'[i].second <= i
           /\ \A i \in 1..Len(rows) : rows'[i] = rows[i]
<1>1. /\ cats \in 0..MaxCats /\ rows \in Seq(Rows) /\ Len(rows) <= MaxRows
      /\ \A i \in 1..Len(rows) : rows[i].second <= i
  BY DEF Typed
<1>2. /\ Len(rows) \in Nat /\ rows \in [1..Len(rows) -> Rows]
      /\ cats \in Nat /\ MaxCats \in Nat /\ MaxRows \in Nat
  BY <1>1, Bounds
<1>3. CASE CreateCat
  <2>1. rows' = rows /\ cats' = cats + 1 /\ cats < MaxCats
    BY <1>3 DEF CreateCat
  <2>2. Rows \subseteq Rows'
    <3>1. 1..cats \subseteq 1..cats'
      BY <1>2, <2>1
    <3> QED BY <3>1 DEF Rows
  <2>3. rows \in [1..Len(rows) -> Rows']
    BY <1>2, <2>2
  <2>4. rows \in Seq(Rows')
    BY <1>2, <2>3, Sequence
  <2> QED BY <1>1, <1>2, <2>1, <2>4
<1>4. CASE Detect
  <2>1. PICK c \in 1..cats, s \in Seconds : rows' = Append(rows, [cat |-> c, second |-> s])
    BY <1>4 DEF Detect
  <2>2. cats' = cats /\ Rows' = Rows /\ Len(rows) < MaxRows
    BY <1>4 DEF Detect, Rows
  <2>3. s \in Nat \ {0} /\ s <= Len(rows) + 1
    <3>1. CASE rows = <<>>
      <4>1. s = 1
        BY <3>1 DEF Seconds
      <4> QED BY <1>2, <4>1
    <3>2. CASE rows # <<>>
      <4>1. Len(rows) \in 1..Len(rows)
        BY <1>1, <1>2, <3>2
      <4>2. rows[Len(rows)].second \in Nat \ {0} /\ rows[Len(rows)].second <= Len(rows)
        BY <1>1, <1>2, <4>1 DEF Rows
      <4>3. s \in {rows[Len(rows)].second, rows[Len(rows)].second + 1}
        BY <3>2 DEF Seconds, Last
      <4> QED BY <1>2, <4>2, <4>3
    <3> QED BY <3>1, <3>2
  <2> DEFINE r == [cat |-> c, second |-> s]
  <2>4. r \in Rows /\ r.second = s
    BY <2>3 DEF Rows
  <2> HIDE DEF r
  <2>5. /\ rows' \in Seq(Rows) /\ Len(rows') = Len(rows) + 1
        /\ \A i \in 1..Len(rows) : rows'[i] = rows[i]
        /\ rows'[Len(rows) + 1] = r
    BY <1>1, <2>1, <2>4, AppendProperties DEF r
  <2>6. ASSUME NEW i \in 1..Len(rows') PROVE rows'[i].second <= i
    <3>1. CASE i \in 1..Len(rows)
      BY <1>1, <2>5, <3>1
    <3>2. CASE i = Len(rows) + 1
      BY <2>3, <2>4, <2>5, <3>2
    <3> QED BY <1>2, <2>5, <3>1, <3>2
  <2> QED BY <1>1, <1>2, <2>2, <2>5, <2>6
<1> QED BY <1>3, <1>4

\* The answer a poll is given.
LEMMA Answered ==
    ASSUME Typed, NEW p \in Polls, ReadDetections(p)
    PROVE  \/ polls' = [polls EXCEPT ![p] = [at |-> "failed", visit |-> polls[p].visit]]
           \/ \E list \in DetectionPages :
                 polls' = [polls EXCEPT ![p] =
                              [at |-> "answered", visit |-> polls[p].visit,
                               answer |-> LatestByCat(list),
                               named |-> polls[p].names \cap DOMAIN LatestByCat(list)]]
BY DEF ReadDetections, Fails

\* What the hub, or a failure, makes of a poll is a poll.
LEMMA PollsTyped ==
    ASSUME Typed, NEW p \in Polls, ReadCats(p) \/ ReadDetections(p) \/ PollFails(p)
    PROVE  polls' \in [Polls -> PollType]
<1>1. polls \in [Polls -> PollType]
  BY DEF Typed
<1>2. polls[p].at \in {"asked", "halfway"}
  BY DEF ReadCats, ReadDetections, PollFails
<1>3. polls[p].visit \in 1..visit
  BY <1>2, PollTyped
<1>4. CASE ReadCats(p)
  <2>1. PICK names \in CatPages :
           polls' = [polls EXCEPT ![p] =
                        [at |-> "halfway", visit |-> polls[p].visit, names |-> names]]
    BY <1>4 DEF ReadCats
  <2>2. names \in SUBSET (1..cats)
    BY DEF CatPages, kSubset
  <2>3. [at |-> "halfway", visit |-> polls[p].visit, names |-> names] \in PollType
    BY <1>3, <2>2, PollTypes
  <2> QED BY <1>1, <2>1, <2>3
<1>5. CASE ReadDetections(p)
  <2>1. CASE polls' = [polls EXCEPT ![p] = [at |-> "failed", visit |-> polls[p].visit]]
    BY <1>1, <1>3, <2>1, PollTypes
  <2>2. ASSUME NEW list \in DetectionPages,
               polls' = [polls EXCEPT ![p] =
                            [at |-> "answered", visit |-> polls[p].visit,
                             answer |-> LatestByCat(list),
                             named |-> polls[p].names \cap DOMAIN LatestByCat(list)]]
        PROVE  polls' \in [Polls -> PollType]
    <3> DEFINE a == LatestByCat(list)
               m == polls[p].names \cap DOMAIN a
               x == [at |-> "answered", visit |-> polls[p].visit, answer |-> a, named |-> m]
    <3>1. a \in Answers
      BY AnswerCovers
    <3>2. m \in SUBSET (1..cats) /\ m \subseteq DOMAIN a
      BY <1>5, PollTyped DEF ReadDetections
    <3>3. x \in PollType
      <4> HIDE DEF a, m
      <4> QED BY <1>3, <3>1, <3>2, PollTypes
    <3>4. polls' = [polls EXCEPT ![p] = x]
      BY <2>2
    <3> HIDE DEF x
    <3> QED BY <1>1, <3>3, <3>4
  <2> QED BY <1>5, <2>1, <2>2, Answered
<1>6. CASE PollFails(p)
  <2>1. polls' = [polls EXCEPT ![p] = [at |-> "failed", visit |-> polls[p].visit]]
    BY <1>6 DEF PollFails, Fails
  <2> QED BY <1>1, <1>3, <2>1, PollTypes
<1> QED BY <1>4, <1>5, <1>6

LEMMA TypedNext == Typed /\ [Next]_vars => Typed'
<1> SUFFICES ASSUME Typed, [Next]_vars PROVE Typed'
  OBVIOUS
<1>1. /\ cats \in 0..MaxCats /\ rows \in Seq(Rows) /\ Len(rows) <= MaxRows
      /\ \A i \in 1..Len(rows) : rows[i].second <= i
      /\ polls \in [Polls -> PollType]
      /\ visit \in 0..MaxVisits /\ mounted \in BOOLEAN /\ (mounted => visit # 0)
      /\ page \in PageType
      /\ opened \in 0..Len(rows)
      /\ failures \in 0..MaxFailures
  BY DEF Typed
<1>2. /\ cats \in Nat /\ visit \in Nat /\ Len(rows) \in Nat /\ opened \in Nat /\ failures \in Nat
      /\ MaxVisits \in Nat /\ MaxFailures \in Nat /\ MaxCats \in Nat
  BY <1>1, Bounds
<1>3. CASE CreateCat \/ Detect
  <2>1. UNCHANGED <<polls, pageVars, failures>>
    BY <1>3 DEF CreateCat, Detect
  <2>2. /\ cats' \in 0..MaxCats /\ cats <= cats'
        /\ rows' \in Seq(Rows') /\ Len(rows') <= MaxRows /\ Len(rows) <= Len(rows')
        /\ \A i \in 1..Len(rows') : rows'[i].second <= i
    BY <1>3, TablesTyped
  <2>3. Len(rows') \in Nat /\ cats' \in Nat
    BY <1>2, <2>2
  <2>4. visit' = visit /\ mounted' = mounted /\ page' = page /\ opened' = opened
    BY <2>1 DEF pageVars
  <2>5. PollType \subseteq PollType' /\ PageType \subseteq PageType'
    BY <1>2, <2>2, <2>3, <2>4, TypesGrow
  <2>6. polls' \in [Polls -> PollType'] /\ page' \in PageType'
    BY <1>1, <2>1, <2>4, <2>5
  <2>7. opened' \in 0..Len(rows')
    BY <1>1, <1>2, <2>2, <2>3, <2>4
  <2> QED BY <1>1, <2>1, <2>2, <2>4, <2>6, <2>7 DEF Typed
<1>4. CASE Mount
  <2>1. /\ visit < MaxVisits /\ mounted' = TRUE /\ visit' = visit + 1
        /\ page' = Blank /\ opened' = Len(rows)
        /\ cats' = cats /\ rows' = rows /\ failures' = failures
    BY <1>4 DEF Mount, tables
  <2>2. PICK p \in Polls : polls' = [polls EXCEPT ![p] = [at |-> "asked", visit |-> visit + 1]]
    BY <1>4, AskTakes DEF Mount
  <2>3. PollType \subseteq PollType'
    BY <1>2, <2>1, TypesGrow
  <2>4. [at |-> "asked", visit |-> visit + 1] \in PollType'
    <3>1. visit + 1 \in 1..visit'
      BY <1>2, <2>1
    <3> QED BY <3>1 DEF PollType
  <2>5. polls' \in [Polls -> PollType']
    BY <1>1, <2>2, <2>3, <2>4
  <2>6. page' \in PageType'
    <3>1. PageType' = PageType
      BY <2>1 DEF PageType, Answers
    <3> QED BY <2>1, <3>1, BlankTyped
  <2>7. Rows' = Rows
    BY <2>1 DEF Rows
  <2>8. /\ visit' \in 0..MaxVisits /\ visit' # 0 /\ opened' \in 0..Len(rows')
        /\ mounted' \in BOOLEAN
    BY <1>2, <2>1
  <2> QED BY <1>1, <2>1, <2>5, <2>6, <2>7, <2>8 DEF Typed
<1>5. CASE Unmount
  <2>1. /\ mounted' = FALSE /\ page' = Blank /\ opened' = 0 /\ UNCHANGED <<tables, visit>>
        /\ cats' = cats /\ rows' = rows /\ visit' = visit /\ polls' = polls /\ failures' = failures
    BY <1>5 DEF Unmount, tables
  <2>2. PollType' = PollType /\ PageType' = PageType /\ Rows' = Rows
    BY <2>1, SameTypes
  <2>3. page' \in PageType'
    BY <2>1, <2>2, BlankTyped, Zenon
  <2>4. opened' \in 0..Len(rows')
    BY <1>2, <2>1
  <2>5. mounted' \in BOOLEAN /\ ~mounted'
    BY <2>1, Zenon
  <2> QED BY <1>1, <2>1, <2>2, <2>3, <2>4, <2>5 DEF Typed
<1>6. CASE Poll
  <2>1. /\ mounted' = mounted /\ page' = page /\ opened' = opened /\ UNCHANGED <<tables, visit>>
        /\ cats' = cats /\ rows' = rows /\ visit' = visit /\ failures' = failures
        /\ mounted
    BY <1>6 DEF Poll, tables, pageVars
  <2>2. PollType' = PollType /\ PageType' = PageType /\ Rows' = Rows
    BY <2>1, SameTypes
  <2>3. PICK p \in Polls : polls' = [polls EXCEPT ![p] = [at |-> "asked", visit |-> visit]]
    BY <1>6, AskTakes DEF Poll
  <2>4. [at |-> "asked", visit |-> visit] \in PollType
    <3>1. visit \in 1..visit
      BY <1>1, <1>2, <2>1
    <3> QED BY <3>1, PollTypes
  <2>5. polls' \in [Polls -> PollType]
    BY <1>1, <2>3, <2>4
  <2> QED BY <1>1, <2>1, <2>2, <2>5 DEF Typed
<1>7. ASSUME NEW p \in Polls, ReadCats(p) \/ ReadDetections(p) \/ PollFails(p) PROVE Typed'
  <2>1. UNCHANGED <<tables, visit>> /\ UNCHANGED pageVars
    BY <1>7 DEF ReadCats, ReadDetections, PollFails, pageVars
  <2>2. /\ mounted' = mounted /\ page' = page /\ opened' = opened
        /\ cats' = cats /\ rows' = rows /\ visit' = visit
    BY <2>1 DEF tables, pageVars
  <2>3. PollType' = PollType /\ PageType' = PageType /\ Rows' = Rows
    BY <2>1, SameTypes
  <2>4. failures' \in 0..MaxFailures
    <3>1. failures' = failures \/ (failures < MaxFailures /\ failures' = failures + 1)
      BY <1>7 DEF ReadCats, ReadDetections, PollFails
    <3> QED BY <1>1, <1>2, <3>1
  <2>5. polls' \in [Polls -> PollType]
    BY <1>7, PollsTyped
  <2> QED BY <1>1, <2>2, <2>3, <2>4, <2>5 DEF Typed
<1>8. ASSUME NEW p \in Polls, Show(p) PROVE Typed'
  <2>1. /\ UNCHANGED <<tables, visit>> /\ failures' = failures
        /\ mounted' = mounted /\ opened' = opened
        /\ cats' = cats /\ rows' = rows /\ visit' = visit
    BY <1>8 DEF Show, tables
  <2>2. PollType' = PollType /\ PageType' = PageType /\ Rows' = Rows
    BY <2>1, SameTypes
  <2>3. polls' \in [Polls -> PollType]
    <3>1. polls' = [polls EXCEPT ![p] = Idle] /\ Idle \in PollType
      BY <1>8 DEF Show, PollType
    <3> QED BY <1>1, <3>1
  <2>4. page' \in PageType
    <3>1. \/ page' = page
          \/ page' = [page EXCEPT !.state = "error"]
          \/ polls[p].at = "answered"
             /\ page' = [state |-> "ok", trackers |-> polls[p].answer, named |-> polls[p].named]
      BY <1>8 DEF Show
    <3>2. CASE page' = [page EXCEPT !.state = "error"]
      BY <1>1, <3>2 DEF PageType
    <3>3. CASE polls[p].at = "answered"
             /\ page' = [state |-> "ok", trackers |-> polls[p].answer, named |-> polls[p].named]
      <4>1. /\ polls[p].answer \in Answers /\ polls[p].named \in SUBSET (1..cats)
            /\ polls[p].named \subseteq DOMAIN polls[p].answer
        BY <3>3, PollTyped
      <4> QED BY <3>3, <4>1 DEF PageType
    <3> QED BY <1>1, <3>1, <3>2, <3>3
  <2> QED BY <1>1, <2>1, <2>2, <2>3, <2>4 DEF Typed
<1>9. CASE UNCHANGED vars
  <2>1. /\ UNCHANGED <<tables, visit>>
        /\ mounted' = mounted /\ page' = page /\ opened' = opened /\ failures' = failures
        /\ cats' = cats /\ rows' = rows /\ visit' = visit /\ polls' = polls
    BY <1>9 DEF vars, tables, pageVars
  <2>2. PollType' = PollType /\ PageType' = PageType /\ Rows' = Rows
    BY <2>1, SameTypes
  <2> QED BY <1>1, <2>1, <2>2 DEF Typed
<1> QED BY <1>3, <1>4, <1>5, <1>6, <1>7, <1>8, <1>9 DEF Next

LEMMA AlwaysTyped == Spec => []Typed
BY TypedInit, TypedNext, PTL DEF Spec

\* The tables, the polls in flight and the page keep their types, whatever the
\* detector sees and whoever opens the page.
THEOREM TypeCorrect == Spec => []TypeOK
BY AlwaysTyped, TypedIsTypeOK, PTL

-----------------------------------------------------------------------------
(* What the hub answers, and what the page shows of it.                    *)

\* A poll that becomes answered is given the answer made of a page of
\* detections that the tables have now.
LEMMA OnlyRead ==
    ASSUME Typed, [Next]_vars, NEW p \in Polls,
           polls[p].at # "answered", polls'[p].at = "answered"
    PROVE  polls'[p].visit = polls[p].visit /\ UNCHANGED <<tables, pageVars>>
           /\ Covers(polls'[p].answer, Len(rows))
<1>1. polls \in [Polls -> PollType]
  BY DEF Typed
<1>2. ASSUME NEW v, Ask(v) PROVE FALSE
  <2>1. PICK q \in Polls : polls' = [polls EXCEPT ![q] = [at |-> "asked", visit |-> v]]
    BY <1>2, AskTakes
  <2> QED BY <1>1, <2>1
<1>3. ~Mount /\ ~Poll
  BY <1>2 DEF Mount, Poll
<1>4. ~CreateCat /\ ~Detect /\ ~Unmount /\ ~UNCHANGED vars
  BY DEF CreateCat, Detect, Unmount, vars
<1>5. ASSUME NEW q \in Polls, ReadCats(q) \/ PollFails(q) \/ Show(q) PROVE FALSE
  <2>1. CASE ReadCats(q)
    BY <1>1, <2>1 DEF ReadCats
  <2>2. CASE PollFails(q)
    BY <1>1, <2>2 DEF PollFails, Fails
  <2>3. CASE Show(q)
    BY <1>1, <2>3 DEF Show, Idle
  <2> QED BY <1>5, <2>1, <2>2, <2>3
<1>6. PICK q \in Polls : ReadDetections(q)
  BY <1>3, <1>4, <1>5 DEF Next
<1>7. polls' # [polls EXCEPT ![q] = [at |-> "failed", visit |-> polls[q].visit]]
  BY <1>1
<1>8. PICK list \in DetectionPages :
         polls' = [polls EXCEPT ![q] =
                      [at |-> "answered", visit |-> polls[q].visit,
                       answer |-> LatestByCat(list),
                       named |-> polls[q].names \cap DOMAIN LatestByCat(list)]]
  BY <1>6, <1>7, Answered
<1>9. p = q /\ polls'[p].visit = polls[p].visit /\ polls'[p].answer = LatestByCat(list)
  BY <1>1, <1>8
<1>10. Covers(LatestByCat(list), Len(rows))
  BY AnswerCovers
<1>11. UNCHANGED <<tables, pageVars>>
  BY <1>6 DEF ReadDetections
<1> QED BY <1>9, <1>10, <1>11

\* In whatever order a page lists the detections of one second, the hub's
\* answer tells where each cat was last.
THEOREM HubAnswersAreLatest == Spec => AnswersAreLatest
<1>1. Typed /\ [Next]_vars =>
        [\A p \in Polls :
            polls[p].at = "halfway" /\ polls'[p].at = "answered"
                => Covers(polls'[p].answer, Len(rows))]_vars
  BY OnlyRead
<1> QED BY <1>1, AlwaysTyped, PTL DEF Spec, AnswersAreLatest

LEMMA CoversLess ==
    ASSUME NEW a, NEW n \in Nat, NEW m \in Nat, n <= m, Covers(a, m), Len(rows) \in Nat
    PROVE  Covers(a, n)
<1>1. \A i \in 1..Len(rows) : i <= n => i <= m
  OBVIOUS
<1> QED BY <1>1 DEF Covers

\* An answer stays no older than the first n detections as the tables grow.
LEMMA CoversLater ==
    ASSUME Typed, NEW a \in Answers, NEW n \in 0..Len(rows), Covers(a, n), CreateCat \/ Detect
    PROVE  Covers(a, n)'
<1> DEFINE of(c) == {i \in 1..Len(rows) : rows[i].cat = c}
           noOlder(c, i) == {j \in (1..Len(rows)) \ of(c) : rows[j].second >= rows[i].second}
           of2(c) == {i \in 1..Len(rows') : rows'[i].cat = c}
           noOlder2(c, i) == {j \in (1..Len(rows')) \ of2(c) : rows'[j].second >= rows'[i].second}
<1>1. /\ Len(rows) \in Nat /\ Len(rows') \in Nat /\ Len(rows) <= Len(rows')
      /\ \A i \in 1..Len(rows) : rows'[i] = rows[i]
  <2>1. Len(rows') \in Nat
    BY TablesTyped
  <2> QED BY <2>1, RowTyped, TablesTyped
<1>2. \A i \in 1..Len(rows) : rows[i].cat \in 1..cats
  BY RowTyped
<1>3. DOMAIN a \subseteq 1..cats /\ a \in [DOMAIN a -> 1..Len(rows)]
  BY AnswerIff
<1>4. ASSUME NEW c \in 1..cats', c \in DOMAIN a
      PROVE  /\ a[c] \in of2(c)
             /\ \A i \in of2(c) : i <= n => rows'[i].second <= rows'[a[c]].second
  <2>1. /\ a[c] \in of(c)
        /\ \A i \in of(c) : i <= n => rows[i].second <= rows[a[c]].second
    BY <1>3, <1>4 DEF Covers
  <2>2. a[c] \in of2(c) /\ rows'[a[c]] = rows[a[c]]
    BY <1>1, <2>1
  <2>3. \A i \in of2(c) : i <= n => i \in of(c) /\ rows'[i] = rows[i]
    BY <1>1
  <2> QED BY <2>1, <2>2, <2>3
<1>5. ASSUME NEW c \in 1..cats', c \notin DOMAIN a, NEW i \in of2(c), i <= n
      PROVE  Cardinality(noOlder2(c, i)) >= PageLimit
  <2>1. i \in of(c) /\ rows'[i] = rows[i] /\ c \in 1..cats
    BY <1>1, <1>2, <1>5
  <2>2. Cardinality(noOlder(c, i)) >= PageLimit
    BY <1>5, <2>1 DEF Covers
  <2>3. noOlder(c, i) \subseteq noOlder2(c, i)
    BY <1>1, <2>1
  <2>4. noOlder2(c, i) \in SUBSET (1..Len(rows')) /\ IsFiniteSet(1..Len(rows'))
    BY <1>1, FS_Interval
  <2> HIDE DEF noOlder, noOlder2
  <2>5. IsFiniteSet(noOlder2(c, i))
    BY <2>4, FS_Subset
  <2>6. IsFiniteSet(noOlder(c, i)) /\ Cardinality(noOlder(c, i)) <= Cardinality(noOlder2(c, i))
    BY <2>3, <2>5, FS_Subset
  <2>7. Cardinality(noOlder(c, i)) \in Nat /\ Cardinality(noOlder2(c, i)) \in Nat
    BY <2>5, <2>6, FS_CardinalityType
  <2> QED BY <2>2, <2>6, <2>7, Bounds
<1> QED BY <1>4, <1>5 DEF Covers

\* What the page shows, and what is on its way to it, is no older than what
\* there was when it was opened.  A poll of an earlier visit may be.
OwnInv ==
    /\ page.state = "ok" => Covers(page.trackers, opened)
    /\ mounted => \A p \in Polls :
          polls[p].at = "answered" /\ polls[p].visit = visit => Covers(polls[p].answer, opened)

LEMMA OwnInit == Init => OwnInv
BY DEF Init, OwnInv, Blank

LEMMA OwnNext == Typed /\ Typed' /\ OwnInv /\ [Next]_vars => OwnInv'
<1> SUFFICES ASSUME Typed, Typed', OwnInv, [Next]_vars PROVE OwnInv'
  OBVIOUS
<1>1. /\ polls \in [Polls -> PollType] /\ page \in PageType
      /\ opened \in 0..Len(rows) /\ Len(rows) \in Nat /\ opened \in Nat
  <2>1. Len(rows) \in Nat
    BY RowTyped
  <2> QED BY <2>1 DEF Typed
<1>2. CASE CreateCat \/ Detect
  <2>1. /\ polls' = polls /\ page' = page /\ opened' = opened /\ mounted' = mounted
        /\ visit' = visit
    BY <1>2 DEF CreateCat, Detect, pageVars
  <2>2. \A a \in Answers : Covers(a, opened) => Covers(a, opened)'
    <3>1. \A a \in Answers, n \in 0..Len(rows) : Covers(a, n) => Covers(a, n)'
      BY <1>2, CoversLater
    <3> QED BY <1>1, <2>1, <3>1
  <2>3. page.trackers \in Answers
    BY <1>1 DEF PageType
  <2>4. \A p \in Polls : polls[p].at = "answered" => polls[p].answer \in Answers
    BY PollTyped
  <2> QED BY <2>1, <2>2, <2>3, <2>4 DEF OwnInv
<1>3. CASE Mount
  <2>1. page' = Blank /\ visit' = visit + 1 /\ visit \in Nat
    BY <1>3, Bounds DEF Mount, Typed
  <2>2. PICK q \in Polls : polls' = [polls EXCEPT ![q] = [at |-> "asked", visit |-> visit + 1]]
    BY <1>3, AskTakes DEF Mount
  <2>3. ASSUME NEW p \in Polls, polls'[p].at = "answered" PROVE polls'[p].visit # visit'
    <3>1. p # q /\ polls'[p] = polls[p]
      BY <1>1, <2>2, <2>3
    <3>2. polls[p].visit \in 1..visit
      BY <2>3, <3>1, PollTyped
    <3> QED BY <2>1, <3>1, <3>2
  <2>4. page'.state # "ok"
    BY <2>1 DEF Blank
  <2> QED BY <2>3, <2>4 DEF OwnInv
<1>4. CASE Unmount
  <2>1. page' = Blank /\ ~mounted'
    BY <1>4 DEF Unmount
  <2> QED BY <2>1 DEF OwnInv, Blank
<1>5. CASE \/ Poll
           \/ \E q \in Polls : ReadCats(q) \/ ReadDetections(q) \/ PollFails(q)
           \/ UNCHANGED vars
  <2>1. UNCHANGED <<tables, pageVars>>
    BY <1>5 DEF Poll, ReadCats, ReadDetections, PollFails, vars
  <2>2. /\ cats' = cats /\ rows' = rows
        /\ visit' = visit /\ mounted' = mounted /\ page' = page /\ opened' = opened
    BY <2>1 DEF tables, pageVars
  <2>3. \A b, n : Covers(b, n)' <=> Covers(b, n)
    BY <2>2 DEF Covers
  <2>4. ASSUME NEW p \in Polls, polls[p].at = "answered" PROVE polls'[p] = polls[p]
    <3>1. ASSUME Poll PROVE polls'[p] = polls[p]
      <4>1. PICK q \in Polls : /\ polls[q] = Idle
                               /\ polls' = [polls EXCEPT ![q] = [at |-> "asked", visit |-> visit]]
        BY <3>1, AskTakes DEF Poll
      <4>2. p # q
        BY <2>4, <4>1 DEF Idle
      <4> QED BY <1>1, <4>1, <4>2
    <3>2. ASSUME NEW q \in Polls, ReadCats(q) \/ ReadDetections(q) \/ PollFails(q)
          PROVE  polls'[p] = polls[p]
      <4>1. p # q
        BY <2>4, <3>2 DEF ReadCats, ReadDetections, PollFails
      <4>2. \E x : polls' = [polls EXCEPT ![q] = x]
        BY <3>2 DEF ReadCats, ReadDetections, PollFails, Fails
      <4> QED BY <1>1, <4>1, <4>2
    <3>3. ASSUME UNCHANGED vars PROVE polls'[p] = polls[p]
      BY <3>3 DEF vars
    <3> QED BY <1>5, <3>1, <3>2, <3>3
  <2>5. ASSUME NEW p \in Polls, mounted, polls'[p].at = "answered", polls'[p].visit = visit
        PROVE  Covers(polls'[p].answer, opened)
    <3>1. CASE polls[p].at = "answered"
      BY <2>4, <2>5, <3>1 DEF OwnInv
    <3>2. CASE polls[p].at # "answered"
      <4>1. Covers(polls'[p].answer, Len(rows))
        BY <2>5, <3>2, OnlyRead
      <4>2. opened <= Len(rows)
        BY <1>1
      <4> QED BY <1>1, <4>1, <4>2, CoversLess
    <3> QED BY <3>1, <3>2
  <2>6. page.state = "ok" => Covers(page.trackers, opened)
    BY DEF OwnInv
  <2> QED BY <2>2, <2>3, <2>5, <2>6 DEF OwnInv
<1>6. ASSUME NEW q \in Polls, Show(q) PROVE OwnInv'
  <2>1. /\ cats' = cats /\ rows' = rows
        /\ visit' = visit /\ mounted' = mounted /\ opened' = opened
        /\ polls' = [polls EXCEPT ![q] = Idle]
    BY <1>6 DEF Show, tables
  <2>2. \A b, n : Covers(b, n)' <=> Covers(b, n)
    BY <2>1 DEF Covers
  <2>3. ASSUME NEW p \in Polls, polls'[p].at = "answered" PROVE polls'[p] = polls[p]
    BY <1>1, <2>1, <2>3 DEF Idle
  <2>4. ASSUME page'.state = "ok" PROVE Covers(page'.trackers, opened)
    <3>1. \/ page' = page
          \/ page' = [page EXCEPT !.state = "error"]
          \/ /\ ~Cancelled(q) /\ polls[q].at = "answered"
             /\ page' = [state |-> "ok", trackers |-> polls[q].answer, named |-> polls[q].named]
      BY <1>6 DEF Show
    <3>2. CASE page' = page
      BY <2>4, <3>2 DEF OwnInv
    <3>3. CASE page' = [page EXCEPT !.state = "error"]
      BY <1>1, <2>4, <3>3 DEF PageType
    <3>4. CASE /\ ~Cancelled(q) /\ polls[q].at = "answered"
               /\ page' = [state |-> "ok", trackers |-> polls[q].answer, named |-> polls[q].named]
      <4>1. Covers(polls[q].answer, opened)
        BY <3>4 DEF OwnInv, Cancelled
      <4>2. page'.trackers = polls[q].answer
        BY <3>4
      <4> QED BY <4>1, <4>2
    <3> QED BY <3>1, <3>2, <3>3, <3>4
  <2> QED BY <2>1, <2>2, <2>3, <2>4 DEF OwnInv
<1> QED BY <1>2, <1>3, <1>4, <1>5, <1>6 DEF Next

\* The page shows nothing older than what there was when it was opened: an
\* answer to a poll of an earlier visit does not reach it.
THEOREM OldVisitsStayOut == Spec => []OwnPollsOnly
<1>1. OwnInv => OwnPollsOnly
  BY DEF OwnInv, OwnPollsOnly
<1> QED BY <1>1, OwnInit, OwnNext, AlwaysTyped, PTL DEF Spec
=============================================================================
