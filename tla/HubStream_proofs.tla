-------------------------- MODULE HubStream_proofs --------------------------
(***************************************************************************)
(* Machine-checked proofs about the two ends of the stream, the broadcaster*)
(* of AnnotatedFrameBroadcaster and the hub and the pages of HubStream, for*)
(* any pages, requests, pool size, queue size and number of frames.  What  *)
(* is buffered for a viewer is an increasing run of frames, newer than what*)
(* it was sent, that ends in the frame published last.  To the broadcaster *)
(* the hub is nothing but viewers that come and go, so what is proved of it*)
(* holds end to end; and the pool's books balance.                         *)
(***************************************************************************)
EXTENDS HubStream, FiniteSetTheorems, TLAPS

-----------------------------------------------------------------------------
(* The broadcaster.                                                        *)

\* What offering a frame does to a queue: it stays within its limit, ends in
\* the new frame, and otherwise holds what it held, shifted if it was full.
LEMMA Offering ==
    ASSUME NEW q \in Seq(Nat), NEW f \in Nat, Len(q) <= MaxQueueSize
    PROVE  /\ Offer(q, f) \in Seq(Nat)
           /\ Len(Offer(q, f)) \in 1..MaxQueueSize
           /\ Offer(q, f)[Len(Offer(q, f))] = f
           /\ \A i \in 1..(Len(Offer(q, f)) - 1) :
                 IF Full(q) THEN i + 1 \in 1..Len(q) /\ Offer(q, f)[i] = q[i + 1]
                            ELSE i \in 1..Len(q) /\ Offer(q, f)[i] = q[i]
<1> USE BroadcasterAssumption
<1>1. CASE Full(q)
  <2>1. q # <<>> /\ Len(q) = MaxQueueSize
    BY <1>1 DEF Full
  <2>2. /\ Tail(q) \in Seq(Nat) /\ Len(Tail(q)) = Len(q) - 1
        /\ \A i \in 1..Len(Tail(q)) : Tail(q)[i] = q[i + 1]
    BY <2>1
  <2>3. Offer(q, f) = Append(Tail(q), f)
    BY <1>1 DEF Offer
  <2> QED BY <1>1, <2>1, <2>2, <2>3
<1>2. CASE ~Full(q)
  <2>1. Len(q) < MaxQueueSize
    BY <1>2 DEF Full
  <2>2. Offer(q, f) = Append(q, f)
    BY <1>2 DEF Offer
  <2> QED BY <1>2, <2>1, <2>2
<1> QED BY <1>1, <1>2

-----------------------------------------------------------------------------
(* The inductive invariant.                                                *)

\* Where a viewer's request may be, and what was sent to it.
PlaceInv ==
    \A v \in Viewers :
        /\ v \in subscribers => at[v] \in {"waiting", "sending"}
        /\ v \notin subscribers => at[v] \in {"away", "accepted"} /\ shown[v] = 0
        /\ at[v] # "away" => newest # NoFrame

Increasing(q) == \A i, j \in 1..Len(q) : i < j => q[i] < q[j]

\* v was sent s, buffers q, and n is the frame published last.
Ahead(s, q, n) ==
    /\ s <= n
    /\ \A i \in 1..Len(q) : s < q[i] /\ q[i] <= n
    /\ IF Len(q) = 0 THEN n = s ELSE n = q[Len(q)]
    /\ Increasing(q)

QueueInv == \A v \in subscribers : Ahead(shown[v], queue[v], newest)

IInv == TypeOK /\ PlaceInv /\ QueueInv

LEMMA InitIInv == Init => IInv
<1> SUFFICES ASSUME Init PROVE IInv
  OBVIOUS
<1> USE BroadcasterAssumption DEF Init, FeedInit
<1>1. queue \in [Viewers -> Seq(Nat)] /\ \A v \in Viewers : Len(queue[v]) = 0
  OBVIOUS
<1>2. TypeOK
  BY <1>1 DEF TypeOK, FeedTypeOK, Places
<1>3. PlaceInv /\ QueueInv
  BY DEF PlaceInv, QueueInv
<1> QED BY <1>2, <1>3 DEF IInv

\* Publishing keeps every subscriber's queue ahead of what it was sent.
LEMMA OfferKeepsAhead ==
    ASSUME NEW q \in Seq(Nat), NEW s \in Nat, NEW n \in Nat,
           Len(q) <= MaxQueueSize, Ahead(s, q, n)
    PROVE  Ahead(s, Offer(q, n + 1), n + 1)
<1> DEFINE o == Offer(q, n + 1)
<1> HIDE DEF o
<1>1. /\ o \in Seq(Nat) /\ Len(o) \in 1..MaxQueueSize /\ o[Len(o)] = n + 1
      /\ \A i \in 1..(Len(o) - 1) :
            IF Full(q) THEN i + 1 \in 1..Len(q) /\ o[i] = q[i + 1]
                       ELSE i \in 1..Len(q) /\ o[i] = q[i]
  BY Offering DEF o
<1>2. \A i \in 1..(Len(o) - 1) : s < o[i] /\ o[i] <= n
  BY <1>1 DEF Ahead
<1>3. \A i \in 1..Len(o) : s < o[i] /\ o[i] <= n + 1
  <2> SUFFICES ASSUME NEW i \in 1..Len(o) PROVE s < o[i] /\ o[i] <= n + 1
    OBVIOUS
  <2>1. CASE i = Len(o)
    BY <1>1, <2>1 DEF Ahead
  <2>2. CASE i \in 1..(Len(o) - 1)
    <3>1. o[i] \in Nat
      BY <1>1
    <3> QED BY <1>2, <2>2, <3>1
  <2> QED BY <1>1, <2>1, <2>2
<1>4. Increasing(o)
  <2> SUFFICES ASSUME NEW i \in 1..Len(o), NEW j \in 1..Len(o), i < j PROVE o[i] < o[j]
    BY DEF Increasing
  <2>1. i \in 1..(Len(o) - 1)
    BY <1>1
  <2>2. CASE j = Len(o)
    <3>1. o[i] \in Nat /\ o[i] <= n
      BY <1>1, <1>2, <2>1
    <3> QED BY <1>1, <2>2, <3>1
  <2>3. CASE j \in 1..(Len(o) - 1)
    <3>1. CASE Full(q)
      BY <1>1, <2>1, <2>3, <3>1 DEF Ahead, Increasing
    <3>2. CASE ~Full(q)
      BY <1>1, <2>1, <2>3, <3>2 DEF Ahead, Increasing
    <3> QED BY <3>1, <3>2
  <2> QED BY <1>1, <2>2, <2>3
<1>5. s <= n + 1 /\ Len(o) # 0
  BY <1>1 DEF Ahead
<1> QED BY <1>1, <1>3, <1>4, <1>5 DEF Ahead, o

LEMMA PublishKeeps ==
    ASSUME IInv, Publish
    PROVE  IInv'
<1> USE BroadcasterAssumption DEF IInv
<1>1. /\ newest < MaxFrames /\ newest' = newest + 1 /\ UNCHANGED <<shown, shows, at, subscribers>>
      /\ queue' = [v \in Viewers |->
                      IF v \in subscribers THEN Offer(queue[v], newest + 1) ELSE queue[v]]
  BY DEF Publish, PublishNext
<1>2. /\ newest \in Nat /\ shown \in [Viewers -> Nat] /\ shows \in [Viewers -> Nat] /\ subscribers \in SUBSET Viewers
      /\ \A v \in Viewers : queue[v] \in Seq(Nat) /\ Len(queue[v]) <= MaxQueueSize
  BY DEF TypeOK, FeedTypeOK
<1>3. \A v \in Viewers : queue'[v] \in Seq(Nat) /\ Len(queue'[v]) <= MaxQueueSize
  <2> SUFFICES ASSUME NEW v \in Viewers
               PROVE  queue'[v] \in Seq(Nat) /\ Len(queue'[v]) <= MaxQueueSize
    OBVIOUS
  <2>1. /\ Offer(queue[v], newest + 1) \in Seq(Nat)
        /\ Len(Offer(queue[v], newest + 1)) \in 1..MaxQueueSize
    BY <1>2, Offering
  <2> QED BY <1>1, <1>2, <2>1
<1>4. TypeOK'
  BY <1>1, <1>2, <1>3 DEF TypeOK, FeedTypeOK
<1>5. PlaceInv'
  BY <1>1, <1>2 DEF PlaceInv, NoFrame
<1>6. QueueInv'
  <2> SUFFICES ASSUME NEW v \in subscribers PROVE Ahead(shown[v], queue'[v], newest + 1)
    BY <1>1 DEF QueueInv
  <2>1. queue'[v] = Offer(queue[v], newest + 1) /\ shown[v] \in Nat
    BY <1>1, <1>2
  <2> QED BY <1>2, <2>1, OfferKeepsAhead DEF QueueInv
<1> QED BY <1>4, <1>5, <1>6

\* Sending the oldest buffered frame leaves the rest ahead of it.
LEMMA TakeKeepsAhead ==
    ASSUME NEW q \in Seq(Nat), NEW s \in Nat, NEW n \in Nat, q # <<>>, Ahead(s, q, n)
    PROVE  /\ Ahead(Head(q), Tail(q), n)
           /\ Tail(q) \in Seq(Nat) /\ Len(Tail(q)) = Len(q) - 1
           /\ Head(q) \in (s + 1)..n
<1>1. Len(q) \in Nat \ {0} /\ Head(q) = q[1] /\ q[1] \in Nat
  OBVIOUS
<1>2. /\ Tail(q) \in Seq(Nat) /\ Len(Tail(q)) = Len(q) - 1
      /\ \A i \in 1..Len(Tail(q)) : Tail(q)[i] = q[i + 1]
  OBVIOUS
<1>3. q[1] \in (s + 1)..n
  BY <1>1 DEF Ahead
<1>4. \A i \in 1..Len(Tail(q)) : q[1] < Tail(q)[i] /\ Tail(q)[i] <= n
  BY <1>1, <1>2 DEF Ahead, Increasing
<1>5. Increasing(Tail(q))
  BY <1>1, <1>2 DEF Ahead, Increasing
<1>6. IF Len(Tail(q)) = 0 THEN n = q[1] ELSE n = Tail(q)[Len(Tail(q))]
  BY <1>1, <1>2 DEF Ahead
<1> QED BY <1>1, <1>2, <1>3, <1>4, <1>5, <1>6 DEF Ahead

LEMMA ViewerKeeps ==
    ASSUME IInv, NEW v \in Viewers, Accept(v) \/ Serve(v) \/ Disconnect(v)
    PROVE  IInv'
<1> USE BroadcasterAssumption DEF IInv
<1>0. /\ newest \in Nat /\ shown \in [Viewers -> Nat] /\ shows \in [Viewers -> Nat] /\ subscribers \in SUBSET Viewers
      /\ at \in [Viewers -> Places] /\ queue \in [Viewers -> Seq(Nat)]
      /\ \A u \in Viewers : Len(queue[u]) <= MaxQueueSize
  BY DEF TypeOK, FeedTypeOK
<1>1. CASE Accept(v) \/ Sent(v)
  <2>1. PICK p \in {"accepted", "waiting"} :
          /\ at' = [at EXCEPT ![v] = p]
          /\ p = "waiting" => v \in subscribers
          /\ p = "accepted" => v \notin subscribers /\ newest # NoFrame
          /\ UNCHANGED <<newest, shown, shows, subscribers, queue>>
    BY <1>1 DEF Accept, Sent, feedVars, PlaceInv
  <2>2. TypeOK'
    BY <2>1 DEF TypeOK, FeedTypeOK, Places
  <2>3. PlaceInv'
    BY <1>0, <2>1 DEF PlaceInv
  <2>4. QueueInv'
    BY <2>1 DEF QueueInv
  <2> QED BY <2>2, <2>3, <2>4
<1>2. CASE Subscribe(v)
  <2>1. /\ at[v] = "accepted" /\ at' = [at EXCEPT ![v] = "waiting"]
        /\ queue' = [queue EXCEPT ![v] = <<newest>>]
        /\ subscribers' = subscribers \cup {v} /\ UNCHANGED <<newest, shown, shows>>
    BY <1>2 DEF Subscribe, feedVars
  <2>2. v \notin subscribers /\ shown[v] = 0 /\ newest # 0
    BY <2>1 DEF PlaceInv, NoFrame
  <2>3. <<newest>> \in Seq(Nat) /\ Len(<<newest>>) = 1 /\ <<newest>>[1] = newest
    BY <1>0
  <2>4. queue' \in [Viewers -> Seq(Nat)] /\ \A u \in Viewers : Len(queue'[u]) <= MaxQueueSize
    BY <1>0, <2>1, <2>3
  <2>5. TypeOK'
    BY <2>1, <2>4 DEF TypeOK, FeedTypeOK, Places
  <2>6. PlaceInv'
    BY <1>0, <2>1, <2>2 DEF PlaceInv
  <2>7. Ahead(0, <<newest>>, newest)
    BY <1>0, <2>2, <2>3 DEF Ahead, Increasing
  <2>8. QueueInv'
    <3> SUFFICES ASSUME NEW u \in subscribers' PROVE Ahead(shown[u], queue'[u], newest)
      BY <2>1 DEF QueueInv
    <3>1. CASE u = v
      BY <1>0, <2>1, <2>2, <2>7, <3>1
    <3>2. CASE u # v
      BY <1>0, <2>1, <3>2 DEF QueueInv
    <3> QED BY <3>1, <3>2
  <2> QED BY <2>5, <2>6, <2>8
<1>3. CASE Take(v)
  <2>1. /\ at[v] = "waiting" /\ queue[v] # <<>> /\ at' = [at EXCEPT ![v] = "sending"]
        /\ shown' = [shown EXCEPT ![v] = Head(queue[v])]
        /\ shows' = [shows EXCEPT ![v] = shows[v] + 1]
        /\ queue' = [queue EXCEPT ![v] = Tail(queue[v])]
        /\ UNCHANGED <<newest, subscribers>>
    BY <1>3 DEF Take
  <2>2. v \in subscribers
    BY <2>1 DEF PlaceInv
  <2>3. /\ Ahead(Head(queue[v]), Tail(queue[v]), newest)
        /\ Tail(queue[v]) \in Seq(Nat) /\ Len(Tail(queue[v])) = Len(queue[v]) - 1
        /\ Head(queue[v]) \in (shown[v] + 1)..newest
    BY <1>0, <2>1, <2>2, TakeKeepsAhead DEF QueueInv
  <2>4. queue' \in [Viewers -> Seq(Nat)] /\ \A u \in Viewers : Len(queue'[u]) <= MaxQueueSize
    BY <1>0, <2>1, <2>3
  <2>5. shown' \in [Viewers -> Nat] /\ shows' \in [Viewers -> Nat]
    BY <1>0, <2>1, <2>3
  <2>6. TypeOK'
    BY <2>1, <2>4, <2>5 DEF TypeOK, FeedTypeOK, Places
  <2>7. PlaceInv'
    BY <1>0, <2>1, <2>2 DEF PlaceInv
  <2>8. QueueInv'
    <3> SUFFICES ASSUME NEW u \in subscribers PROVE Ahead(shown'[u], queue'[u], newest)
      BY <2>1 DEF QueueInv
    <3>1. CASE u = v
      BY <1>0, <2>1, <2>3, <3>1
    <3>2. CASE u # v
      BY <1>0, <2>1, <3>2 DEF QueueInv
    <3> QED BY <3>1, <3>2
  <2> QED BY <2>6, <2>7, <2>8
<1>4. CASE Disconnect(v)
  <2>1. /\ at' = [at EXCEPT ![v] = "away"] /\ shown' = [shown EXCEPT ![v] = 0]
        /\ shows' = [shows EXCEPT ![v] = 0]
        /\ subscribers' = subscribers \ {v} /\ UNCHANGED newest
        /\ queue' = [queue EXCEPT ![v] = <<>>]
    BY <1>4 DEF Disconnect, Leave
  <2>2. queue' \in [Viewers -> Seq(Nat)] /\ \A u \in Viewers : Len(queue'[u]) <= MaxQueueSize
    BY <1>0, <2>1
  <2>3. TypeOK'
    BY <2>1, <2>2 DEF TypeOK, FeedTypeOK, Places
  <2>4. PlaceInv'
    BY <1>0, <2>1 DEF PlaceInv
  <2>5. QueueInv'
    BY <1>0, <2>1 DEF QueueInv
  <2> QED BY <2>3, <2>4, <2>5
<1> QED BY <1>1, <1>2, <1>3, <1>4 DEF Serve

LEMMA Invariance == Spec => []IInv
<1>1. IInv /\ [Next]_vars => IInv'
  <2> SUFFICES ASSUME IInv, [Next]_vars PROVE IInv'
    OBVIOUS
  <2>1. CASE UNCHANGED vars
    BY <2>1 DEF vars, feedVars, IInv, TypeOK, FeedTypeOK, PlaceInv, QueueInv
  <2> QED BY <2>1, PublishKeeps, ViewerKeeps DEF Next
<1> QED BY <1>1, InitIInv, PTL DEF Spec

-----------------------------------------------------------------------------
(* The theorems.                                                           *)

\* Every state is well typed; in particular no queue outgrows its limit.
THEOREM TypeCorrect == Spec => []TypeOK
BY Invariance, PTL DEF IInv

\* No viewer loses the frame published last.
THEOREM NewestIsKept == Spec => []NewestNeverLost
<1>1. IInv => NewestNeverLost
  <2> SUFFICES ASSUME IInv, NEW v \in subscribers
               PROVE  newest = IF queue[v] = <<>> THEN shown[v] ELSE Last(queue[v])
    BY DEF NewestNeverLost
  <2>1. queue[v] \in Seq(Nat) /\ Ahead(shown[v], queue[v], newest)
    BY DEF IInv, TypeOK, QueueInv
  <2>2. queue[v] = <<>> <=> Len(queue[v]) = 0
    BY <2>1
  <2> QED BY <2>1, <2>2 DEF Ahead, Last
<1> QED BY <1>1, Invariance, PTL

\* Every step of the broadcaster is a step of FrameFeed, or none.
THEOREM FeedRefinement == Spec => ImplementsFeed
<1>1. Init => FeedInit
  BY DEF Init
<1>2. IInv /\ [Next]_vars => [FeedNext]_feedVars
  <2> SUFFICES ASSUME IInv, [Next]_vars PROVE [FeedNext]_feedVars
    OBVIOUS
  <2>1. CASE Publish
    BY <2>1 DEF Publish, FeedNext
  <2>2. ASSUME NEW v \in Viewers, Take(v) PROVE FeedNext
    <3>1. /\ at[v] = "waiting" /\ queue[v] # <<>> /\ UNCHANGED newest
          /\ shown' = [shown EXCEPT ![v] = Head(queue[v])]
          /\ shows' = [shows EXCEPT ![v] = shows[v] + 1]
      BY <2>2 DEF Take
    <3>2. v \in subscribers
      BY <3>1 DEF IInv, PlaceInv
    <3>3. /\ queue[v] \in Seq(Nat) /\ shown[v] \in Nat /\ newest \in Nat
          /\ Ahead(shown[v], queue[v], newest)
      BY <3>2 DEF IInv, TypeOK, FeedTypeOK, QueueInv
    <3>4. Head(queue[v]) \in (shown[v] + 1)..newest
      BY <3>1, <3>3, TakeKeepsAhead
    <3> QED BY <3>1, <3>4 DEF FeedNext, Show
  <2>3. ASSUME NEW v \in Viewers, Accept(v) \/ Subscribe(v) \/ Sent(v) PROVE UNCHANGED feedVars
    BY <2>3 DEF Accept, Subscribe, Sent
  <2>4. ASSUME NEW v \in Viewers, Disconnect(v) PROVE FeedNext
    BY <2>4 DEF Disconnect, FeedNext
  <2>5. CASE UNCHANGED vars
    BY <2>5 DEF vars
  <2> QED BY <2>1, <2>2, <2>3, <2>4, <2>5 DEF Next, Serve
<1> QED BY <1>1, <1>2, Invariance, PTL DEF Spec, ImplementsFeed, FeedSpec

-----------------------------------------------------------------------------
(* End to end.                                                             *)

\* Every step of the composition is a step of the broadcaster or leaves it alone.
LEMMA HubStepIsStep == [HubNext]_allVars => [Next]_vars
<1> SUFFICES ASSUME [HubNext]_allVars PROVE [Next]_vars
  OBVIOUS
<1>1. CASE Camera
  BY <1>1 DEF Camera, Next
<1>2. CASE Acquire
  BY <1>2 DEF Acquire
<1>3. CASE Restart
  BY <1>3 DEF Restart
<1>4. ASSUME NEW p \in Pages, PageStep(p) PROVE UNCHANGED vars
  BY <1>4 DEF PageStep, Mount, Retry, Ask, Load, Unmount
<1>5. ASSUME NEW c \in Viewers, Handler(c) PROVE Accept(c) \/ UNCHANGED vars
  BY <1>5 DEF Handler, Answer, BadGateway, Stream, HangUp
<1>6. ASSUME NEW c \in Viewers, Feed(c) \/ Gone(c) PROVE Serve(c) \/ Disconnect(c)
  BY <1>6 DEF Feed, Gone
<1>7. ASSUME NEW c \in Viewers, Unreachable(c) \/ Break(c) PROVE Disconnect(c) \/ UNCHANGED vars
  BY <1>7 DEF Unreachable, BadGateway, Break
<1>8. CASE UNCHANGED allVars
  BY <1>8 DEF allVars
<1> QED BY <1>1, <1>2, <1>3, <1>4, <1>5, <1>6, <1>7, <1>8 DEF HubNext, Next

\* The hub and the pages put the broadcaster through nothing its own
\* specification does not allow, so each of its theorems holds end to end.
THEOREM HubImplementsBroadcaster == HubSpec => Spec
<1>1. HubInit => Init
  BY DEF HubInit
<1> QED BY <1>1, HubStepIsStep, PTL DEF HubSpec, Spec

\* However slow a browser is and whatever fails on the way, the newest frame
\* is not lost to a stream that stays open.
THEOREM NewestIsKeptEndToEnd == HubSpec => []NewestNeverLost
BY HubImplementsBroadcaster, NewestIsKept, PTL

\* No request is sent a frame twice, out of order, or made up.
THEOREM FeedEndToEnd == HubSpec => ImplementsFeed
BY HubImplementsBroadcaster, FeedRefinement, PTL

-----------------------------------------------------------------------------
(* The pool's books.                                                       *)

Waiting == {backlog[i] : i \in 1..Len(backlog)}

Injective(s) == \A i, j \in 1..Len(s) : s[i] = s[j] => i = j

LEMMA EndType ==
    ASSUME HubTypeOK, NEW C, End(C)
    PROVE  page' \in [Pages -> [status : FeedStatus, request : Viewers \cup {NoRequest}]]
<1>1. \A s \in FeedStatus : Without(s) \in [status : FeedStatus, request : Viewers \cup {NoRequest}]
  BY DEF Without
<1>2. "ok" \in FeedStatus /\ "error" \in FeedStatus
  BY DEF FeedStatus
<1> QED BY <1>1, <1>2 DEF End, HubTypeOK

\* The type invariant of the composition's own variables.
THEOREM HubTypeCorrect == HubSpec => []HubTypeOK
<1>1. HubInit => HubTypeOK
  BY DEF HubInit, HubTypeOK, Without, FeedStatus
<1>2. HubTypeOK /\ [HubNext]_allVars => HubTypeOK'
  <2> SUFFICES ASSUME HubTypeOK, [HubNext]_allVars PROVE HubTypeOK'
    OBVIOUS
  <2>1. CASE Camera
    BY <2>1 DEF Camera, hubVars, HubTypeOK
  <2>2. CASE Acquire
    <3>1. Head(backlog) \in Viewers /\ Tail(backlog) \in Seq(Viewers)
      BY <2>2 DEF Acquire, HubTypeOK
    <3> QED BY <2>2, <3>1 DEF Acquire, HubTypeOK
  <2>3. CASE Restart
    BY <2>3, EndType DEF Restart, HubTypeOK
  <2>4. ASSUME NEW p \in Pages, PageStep(p) PROVE HubTypeOK'
    <3>1. ASSUME NEW c \in Viewers PROVE Append(backlog, c) \in Seq(Viewers)
      BY DEF HubTypeOK
    <3>2. CASE Mount(p) \/ Retry(p)
      <4>1. PICK c \in Viewers :
                /\ page' = [page EXCEPT ![p] = [status |-> "loading", request |-> c]]
                /\ hub' = [hub EXCEPT ![c] = "queued"]
                /\ backlog' = Append(backlog, c)
                /\ pool' = pool
        BY <3>2 DEF Mount, Retry, Ask
      <4>2. [status |-> "loading", request |-> c] \in [status : FeedStatus, request : Viewers \cup {NoRequest}]
        BY DEF FeedStatus
      <4>3. backlog' \in Seq(Viewers)
        BY <3>1, <4>1
      <4> QED BY <4>1, <4>2, <4>3 DEF HubTypeOK
    <3>3. CASE Load(p)
      BY <3>3 DEF Load, HubTypeOK, FeedStatus
    <3>4. CASE Unmount(p)
      BY <3>4 DEF Unmount, Without, HubTypeOK, FeedStatus
    <3> QED BY <2>4, <3>2, <3>3, <3>4 DEF PageStep
  <2>5. ASSUME NEW c \in Viewers, Handler(c) PROVE HubTypeOK'
    <3>1. CASE Answer(c)
      BY <3>1, EndType DEF Answer, BadGateway, Finish, hubVars, HubTypeOK
    <3>2. CASE Stream(c) \/ HangUp(c)
      BY <3>2 DEF Stream, HangUp, Finish, HubTypeOK
    <3> QED BY <2>5, <3>1, <3>2 DEF Handler
  <2>6. ASSUME NEW c \in Viewers, Feed(c) \/ Gone(c) PROVE HubTypeOK'
    BY <2>6 DEF Feed, Gone, hubVars, HubTypeOK
  <2>7. ASSUME NEW c \in Viewers, Unreachable(c) \/ Break(c) PROVE HubTypeOK'
    BY <2>7, EndType DEF Unreachable, BadGateway, Break, Finish, HubTypeOK
  <2>8. CASE UNCHANGED allVars
    BY <2>8 DEF allVars, hubVars, HubTypeOK
  <2> QED BY <2>1, <2>2, <2>3, <2>4, <2>5, <2>6, <2>7, <2>8 DEF HubNext
<1> QED BY <1>1, <1>2, PTL DEF HubSpec

-----------------------------------------------------------------------------
\* Taking the head of a backlog without repetitions takes that request out of
\* it and nothing else.
LEMMA TailWaiting ==
    ASSUME NEW s \in Seq(Viewers), s # <<>>, Injective(s)
    PROVE  /\ {Tail(s)[i] : i \in 1..Len(Tail(s))} = {s[i] : i \in 1..Len(s)} \ {Head(s)}
           /\ Injective(Tail(s))
<1>1. /\ Len(Tail(s)) = Len(s) - 1 /\ Len(s) \in Nat \ {0} /\ Head(s) = s[1]
      /\ \A i \in 1..(Len(s) - 1) : Tail(s)[i] = s[i + 1]
  OBVIOUS
<1>2. Injective(Tail(s))
  <2> SUFFICES ASSUME NEW i \in 1..(Len(s) - 1), NEW j \in 1..(Len(s) - 1), Tail(s)[i] = Tail(s)[j]
               PROVE  i = j
    BY <1>1 DEF Injective
  <2>1. i + 1 \in 1..Len(s) /\ j + 1 \in 1..Len(s) /\ s[i + 1] = s[j + 1]
    BY <1>1
  <2>2. i + 1 = j + 1
    BY <2>1 DEF Injective
  <2> QED BY <2>2
<1>3. ASSUME NEW i \in 1..(Len(s) - 1) PROVE Tail(s)[i] \in {s[k] : k \in 1..Len(s)} \ {Head(s)}
  <2>1. i + 1 \in 1..Len(s) /\ 1 \in 1..Len(s) /\ i + 1 # 1
    BY <1>1
  <2>2. s[i + 1] # s[1]
    BY <2>1 DEF Injective
  <2> QED BY <1>1, <2>1, <2>2
<1>4. ASSUME NEW k \in 1..Len(s), s[k] # Head(s) PROVE \E i \in 1..(Len(s) - 1) : Tail(s)[i] = s[k]
  <2>1. k - 1 \in 1..(Len(s) - 1) /\ (k - 1) + 1 = k
    BY <1>1, <1>4
  <2> QED BY <1>1, <2>1
<1> QED BY <1>1, <1>2, <1>3, <1>4

\* A request that joins the backlog is in it once if it was not in it before.
LEMMA AppendWaiting ==
    ASSUME NEW s \in Seq(Viewers), NEW c \in Viewers, Injective(s),
           c \notin {s[i] : i \in 1..Len(s)}
    PROVE  /\ {Append(s, c)[i] : i \in 1..Len(Append(s, c))} = {s[i] : i \in 1..Len(s)} \cup {c}
           /\ Injective(Append(s, c))
<1>1. /\ Len(Append(s, c)) = Len(s) + 1 /\ Len(s) \in Nat
      /\ \A i \in 1..Len(s) : Append(s, c)[i] = s[i]
      /\ Append(s, c)[Len(s) + 1] = c
  OBVIOUS
<1>2. \A i \in 1..(Len(s) + 1) : i \in 1..Len(s) \/ i = Len(s) + 1
  BY <1>1
<1>3. Len(s) + 1 \in 1..(Len(s) + 1) /\ 1..Len(s) \subseteq 1..(Len(s) + 1)
  BY <1>1
<1>4. Injective(Append(s, c))
  BY <1>1, <1>2 DEF Injective
<1> QED BY <1>1, <1>2, <1>3, <1>4

BooksBalance ==
    /\ pool = {c \in Viewers : hub[c] \in {"sent", "streaming"}}
    /\ Cardinality(pool) <= MaxConnections
    /\ Waiting = {c \in Viewers : hub[c] = "queued"}
    /\ Injective(backlog)

LEMMA FinishBalances ==
    ASSUME HubTypeOK, BooksBalance, NEW c \in Viewers, hub[c] # "queued", Finish(c)
    PROVE  BooksBalance'
<1>1. pool' = {d \in Viewers : hub'[d] \in {"sent", "streaming"}}
  BY DEF Finish, BooksBalance, HubTypeOK
<1>2. Cardinality(pool') <= MaxConnections
  <2>1. IsFiniteSet(pool)
    BY HubAssumption, FS_Subset DEF HubTypeOK
  <2>2. Cardinality(pool') <= Cardinality(pool) /\ Cardinality(pool) \in Nat /\ Cardinality(pool') \in Nat
    BY <2>1, FS_Subset, FS_CardinalityType DEF Finish
  <2> QED BY <2>2, HubAssumption DEF BooksBalance
<1>3. {d \in Viewers : hub'[d] = "queued"} = {d \in Viewers : hub[d] = "queued"}
  BY DEF Finish, HubTypeOK
<1> QED BY <1>1, <1>2, <1>3 DEF Finish, BooksBalance, Waiting, Injective

\* Slots and waiting requests are accounted for through every failure, break,
\* early departure and restart, whatever the size of the pool.
THEOREM SlotsAreAccountedFor == HubSpec => []SlotsAccountedFor
<1> USE HubAssumption
<1>1. HubInit => BooksBalance
  BY FS_EmptySet DEF HubInit, BooksBalance, Waiting, Injective
<1>2. HubTypeOK /\ HubTypeOK' /\ BooksBalance /\ [HubNext]_allVars => BooksBalance'
  <2> SUFFICES ASSUME HubTypeOK, HubTypeOK', BooksBalance, [HubNext]_allVars PROVE BooksBalance'
    OBVIOUS
  <2>0. ASSUME UNCHANGED <<hub, backlog, pool>> PROVE BooksBalance'
    BY <2>0 DEF BooksBalance, Waiting, Injective
  <2>1. CASE Camera
    BY <2>0, <2>1 DEF Camera, hubVars
  <2>2. CASE Acquire
    <3> DEFINE c == Head(backlog)
    <3>1. backlog # <<>> /\ backlog \in Seq(Viewers) /\ Injective(backlog) /\ c \in Viewers
      BY <2>2 DEF Acquire, HubTypeOK, BooksBalance
    <3>2. Waiting' = Waiting \ {c} /\ Injective(backlog')
      BY <2>2, <3>1, TailWaiting DEF Acquire, Waiting
    <3>3. pool' = {d \in Viewers : hub'[d] \in {"sent", "streaming"}}
      BY <2>2, <3>1 DEF Acquire, HubTypeOK, BooksBalance
    <3>4. {d \in Viewers : hub'[d] = "queued"} = {d \in Viewers : hub[d] = "queued"} \ {c}
      BY <2>2, <3>1 DEF Acquire, HubTypeOK
    <3>5. IsFiniteSet(pool) /\ Cardinality(pool) \in Nat
      BY FS_Subset, FS_CardinalityType DEF HubTypeOK
    <3>6. Cardinality(pool') <= Cardinality(pool) + 1 /\ Cardinality(pool') \in Nat
      <4>1. /\ IsFiniteSet(pool \cup {c})
            /\ Cardinality(pool \cup {c}) =
                 IF c \in pool THEN Cardinality(pool) ELSE Cardinality(pool) + 1
        BY <3>5, FS_AddElement
      <4> QED BY <2>2, <3>5, <4>1, FS_CardinalityType DEF Acquire
    <3>7. Cardinality(pool') <= MaxConnections
      BY <2>2, <3>5, <3>6 DEF Acquire
    <3> QED BY <3>2, <3>3, <3>4, <3>7 DEF BooksBalance
  <2>3. CASE Restart
    <3>1. pool' = {} /\ backlog' = <<>> /\ hub' = [c \in Viewers |-> "none"]
      BY <2>3 DEF Restart
    <3> QED BY <3>1, FS_EmptySet DEF BooksBalance, Waiting, Injective
  <2>4. ASSUME NEW p \in Pages, PageStep(p) PROVE BooksBalance'
    <3>1. CASE Mount(p) \/ Retry(p)
      <4>1. PICK c \in Viewers :
                /\ hub[c] = "none"
                /\ hub' = [hub EXCEPT ![c] = "queued"]
                /\ backlog' = Append(backlog, c)
                /\ pool' = pool
        BY <3>1 DEF Mount, Retry, Ask
      <4>2. c \notin Waiting /\ backlog \in Seq(Viewers) /\ Injective(backlog)
        BY <4>1 DEF BooksBalance, HubTypeOK
      <4>3. Waiting' = Waiting \cup {c} /\ Injective(backlog')
        BY <4>1, <4>2, AppendWaiting DEF Waiting
      <4>4. pool' = {d \in Viewers : hub'[d] \in {"sent", "streaming"}}
        BY <4>1 DEF BooksBalance, HubTypeOK
      <4>5. {d \in Viewers : hub'[d] = "queued"} = {d \in Viewers : hub[d] = "queued"} \cup {c}
        BY <4>1 DEF HubTypeOK
      <4> QED BY <4>1, <4>3, <4>4, <4>5 DEF BooksBalance
    <3>2. CASE Load(p) \/ Unmount(p)
      BY <2>0, <3>2 DEF Load, Unmount
    <3> QED BY <2>4, <3>1, <3>2 DEF PageStep
  <2>5. ASSUME NEW c \in Viewers, Handler(c) PROVE BooksBalance'
    <3>1. CASE Answer(c)
      BY <2>0, <3>1, FinishBalances DEF Answer, BadGateway, hubVars
    <3>2. CASE Stream(c)
      <4>1. /\ {d \in Viewers : hub'[d] \in {"sent", "streaming"}} = {d \in Viewers : hub[d] \in {"sent", "streaming"}}
            /\ {d \in Viewers : hub'[d] = "queued"} = {d \in Viewers : hub[d] = "queued"}
        BY <3>2 DEF Stream, HubTypeOK
      <4> QED BY <3>2, <4>1 DEF Stream, BooksBalance, Waiting, Injective
    <3>3. CASE HangUp(c)
      BY <3>3, FinishBalances DEF HangUp
    <3> QED BY <2>5, <3>1, <3>2, <3>3 DEF Handler
  <2>6. ASSUME NEW c \in Viewers, Feed(c) \/ Gone(c) PROVE BooksBalance'
    BY <2>0, <2>6 DEF Feed, Gone, hubVars
  <2>7. ASSUME NEW c \in Viewers, Unreachable(c) \/ Break(c) PROVE BooksBalance'
    <3>1. hub[c] # "queued" /\ Finish(c)
      BY <2>7 DEF Unreachable, BadGateway, Break, BooksBalance
    <3> QED BY <3>1, FinishBalances
  <2>8. CASE UNCHANGED allVars
    BY <2>0, <2>8 DEF allVars, hubVars
  <2> QED BY <2>1, <2>2, <2>3, <2>4, <2>5, <2>6, <2>7, <2>8 DEF HubNext
<1>3. BooksBalance => SlotsAccountedFor
  BY DEF BooksBalance, SlotsAccountedFor, Waiting, Injective
<1> QED BY <1>1, <1>2, <1>3, HubTypeCorrect, PTL DEF HubSpec
=============================================================================
