------------------------ MODULE EventIngestion_proofs -----------------------
(***************************************************************************)
(* Machine-checked proofs about EventIngestion, for any event types,       *)
(* commands, log size and number of events and subscriptions.  What makes  *)
(* a fan-out safe is that it works on its own list: whoever is still on it *)
(* was not called, and whoever was called is no longer on it.              *)
(***************************************************************************)
EXTENDS EventIngestion, FiniteSetTheorems, TLAPS

-----------------------------------------------------------------------------
(* Types.                                                                  *)

\* What recording an entry does to the log: it comes first, the others move
\* down, and those beyond the limit are gone.
LEMMA Recording ==
    ASSUME NEW x \in Entry, log \in Seq(Entry), Len(log) <= MaxLog
    PROVE  /\ Record(x) \in Seq(Entry)
           /\ Len(Record(x)) = IF Len(log) < MaxLog THEN Len(log) + 1 ELSE MaxLog
           /\ Record(x)[1] = x
           /\ \A i \in 2..Len(Record(x)) : i - 1 \in 1..Len(log) /\ Record(x)[i] = log[i - 1]
<1> USE EventsAssumption
<1> DEFINE n == IF Len(log) < MaxLog THEN Len(log) ELSE MaxLog - 1
           kept == SubSeq(log, 1, n)
<1>1. n \in 0..Len(log) /\ MaxLog \in Nat /\ Len(log) \in Nat
  OBVIOUS
<1>2. /\ kept \in Seq(Entry) /\ Len(kept) = n
      /\ \A i \in 1..n : kept[i] = log[i]
  BY <1>1
<1>3. Record(x) = <<x>> \o kept
  BY DEF Record
<1> HIDE DEF kept
<1>4. /\ <<x>> \o kept \in Seq(Entry) /\ Len(<<x>> \o kept) = n + 1
      /\ (<<x>> \o kept)[1] = x
      /\ \A i \in 2..(n + 1) : (<<x>> \o kept)[i] = kept[i - 1]
  BY <1>1, <1>2
<1> QED BY <1>1, <1>2, <1>3, <1>4

LEMMA InitType == Init => TypeOK
<1> SUFFICES ASSUME Init PROVE TypeOK
  OBVIOUS
<1> USE EventsAssumption DEF Init
<1>1. log \in Seq(Entry) /\ Len(log) = 0
  OBVIOUS
<1> QED BY <1>1 DEF TypeOK, Events, Subs

\* The entry an event is logged with.
LEMMA EntryType ==
    ASSUME TypeOK, NEW t \in Types, arrived < MaxEvents, NEW r \in Results(mapping[t])
    PROVE  [event |-> arrived + 1, command |-> mapping[t], success |-> r] \in Entry
<1> USE EventsAssumption
<1>1. arrived + 1 \in Events /\ mapping[t] \in Commands \cup {NoCommand}
  BY DEF TypeOK, Events
<1>2. r \in {"none", "yes", "no"}
  BY DEF Results
<1> QED BY <1>1, <1>2 DEF Entry

LEMMA TypeStep == TypeOK /\ [Next]_vars => TypeOK'
<1> SUFFICES ASSUME TypeOK, [Next]_vars PROVE TypeOK'
  OBVIOUS
<1> USE EventsAssumption DEF storeVars, subVars, fanoutVars
<1>1. ASSUME NEW t \in Types, NEW c \in Commands, Upsert(t, c) PROVE TypeOK'
  BY <1>1 DEF Upsert, TypeOK
<1>2. ASSUME NEW t \in Types, DeleteMapping(t) PROVE TypeOK'
  BY <1>2 DEF DeleteMapping, TypeOK
<1>3. ASSUME NEW W \in SUBSET Types, Subscribe(W) PROVE TypeOK'
  BY <1>3 DEF Subscribe, TypeOK, Subs
<1>4. ASSUME NEW s \in Subs, Unsubscribe(s) PROVE TypeOK'
  BY <1>4 DEF Unsubscribe, TypeOK
<1>5. ASSUME NEW t \in Types, Ingest(t) PROVE TypeOK'
  <2>1. PICK r \in Results(mapping[t]) :
          log' = Record([event |-> arrived + 1, command |-> mapping[t], success |-> r])
    BY <1>5 DEF Ingest
  <2>2. arrived < MaxEvents /\ arrived' = arrived + 1
    BY <1>5 DEF Ingest
  <2>3. log' \in Seq(Entry) /\ Len(log') <= MaxLog
    BY <2>1, <2>2, EntryType, Recording DEF TypeOK
  <2>4. Matching(t) \in SUBSET Subs
    <3>1. made \in 0..MaxSubs /\ subs \subseteq 1..made
      BY DEF TypeOK
    <3>2. subs \subseteq Subs
      BY <3>1 DEF Subs
    <3> QED BY <3>2 DEF Matching
  <2>5. arrived' \in 0..MaxEvents /\ booted \in 0..arrived'
    BY <2>2 DEF TypeOK
  <2> QED BY <1>5, <2>3, <2>4, <2>5 DEF Ingest, TypeOK
<1>6. ASSUME NEW e \in Events, NEW s \in Subs, Call(e, s) PROVE TypeOK'
  <2>1. /\ told' = [told EXCEPT ![e][s] = @ + 1]
        /\ todo' = [todo EXCEPT ![e] = @ \ {s}]
        /\ took' \in {took, [took EXCEPT ![e] = @ \cup {s}]}
        /\ notified' \in {notified, [notified EXCEPT ![e] = @ + 1]}
        /\ UNCHANGED <<mapping, log, booted, made, subs, wants, arrived, at>>
    BY <1>6 DEF Call
  <2>2. told' \in [Events -> [Subs -> Nat]]
    <3>1. told[e] \in [Subs -> Nat]
      BY DEF TypeOK
    <3>2. [told[e] EXCEPT ![s] = @ + 1] \in [Subs -> Nat]
      BY <3>1
    <3> QED BY <2>1, <3>2 DEF TypeOK
  <2>3. notified' \in [Events -> Nat]
    BY <2>1 DEF TypeOK
  <2>4. todo' \in [Events -> SUBSET Subs] /\ took' \in [Events -> SUBSET Subs]
    <3>1. todo[e] \ {s} \in SUBSET Subs /\ took[e] \cup {s} \in SUBSET Subs
      BY DEF TypeOK
    <3>2. todo' \in [Events -> SUBSET Subs]
      BY <2>1, <3>1 DEF TypeOK
    <3>3. [took EXCEPT ![e] = @ \cup {s}] \in [Events -> SUBSET Subs]
      BY <3>1 DEF TypeOK
    <3> QED BY <2>1, <3>2, <3>3 DEF TypeOK
  <2> QED BY <2>1, <2>2, <2>3, <2>4 DEF TypeOK
<1>7. ASSUME NEW e \in Events, Respond(e) PROVE TypeOK'
  BY <1>7 DEF Respond, TypeOK
<1>8. ASSUME NEW e \in Events, FanoutRaises(e) PROVE TypeOK'
  BY <1>8 DEF FanoutRaises, TypeOK
<1>9. CASE Restart
  <2>1. log' \in Seq(Entry) /\ Len(log') = 0
    BY <1>9 DEF Restart
  <2>2. at' \in [Events -> {"none", "fanout", "done", "lost"}]
    BY <1>9 DEF Restart, TypeOK
  <2>3. booted' \in 0..arrived'
    BY <1>9 DEF Restart, TypeOK
  <2> QED BY <1>9, <2>1, <2>2, <2>3 DEF Restart, TypeOK
<1>10. CASE UNCHANGED vars
  BY <1>10 DEF vars, TypeOK
<1> QED BY <1>1, <1>2, <1>3, <1>4, <1>5, <1>6, <1>7, <1>8, <1>9, <1>10 DEF Next, Proceed

\* The log stays within its limit, subscriptions are ones that were made, and
\* every other variable keeps its type.
THEOREM TypeCorrect == Spec => []TypeOK
<1> QED BY InitType, TypeStep, PTL DEF Spec

-----------------------------------------------------------------------------
(* The log.                                                                *)

LEMMA LogStep == TypeOK /\ LogIsRecent /\ [Next]_vars => LogIsRecent'
<1> SUFFICES ASSUME TypeOK, LogIsRecent, [Next]_vars PROVE LogIsRecent'
  OBVIOUS
<1> USE EventsAssumption
<1>1. CASE UNCHANGED <<log, arrived, booted>>
  BY <1>1 DEF LogIsRecent
<1>2. ASSUME NEW t \in Types, Ingest(t) PROVE LogIsRecent'
  <2>1. PICK r \in Results(mapping[t]) :
          log' = Record([event |-> arrived + 1, command |-> mapping[t], success |-> r])
    BY <1>2 DEF Ingest
  <2> DEFINE x == [event |-> arrived + 1, command |-> mapping[t], success |-> r]
  <2>2. /\ arrived < MaxEvents /\ arrived' = arrived + 1 /\ arrived \in Nat
        /\ booted' = booted /\ booted \in 0..arrived
    BY <1>2 DEF Ingest, TypeOK
  <2>3. x \in Entry /\ log \in Seq(Entry) /\ Len(log) <= MaxLog /\ x.event = arrived + 1
    BY <2>2, EntryType DEF TypeOK
  <2> HIDE DEF x
  <2>4. /\ Len(log') = IF Len(log) < MaxLog THEN Len(log) + 1 ELSE MaxLog
        /\ log'[1] = x
        /\ \A i \in 2..Len(log') : i - 1 \in 1..Len(log) /\ log'[i] = log[i - 1]
    BY <2>1, <2>3, Recording DEF x
  <2>5. Len(log') = IF arrived' - booted' < MaxLog THEN arrived' - booted' ELSE MaxLog
    BY <2>2, <2>4 DEF LogIsRecent
  <2>6. ASSUME NEW i \in 1..Len(log') PROVE log'[i].event = arrived' + 1 - i
    <3>1. CASE i = 1
      BY <2>2, <2>3, <2>4, <3>1
    <3>2. CASE i \in 2..Len(log')
      <4>1. i - 1 \in 1..Len(log) /\ log'[i] = log[i - 1]
        BY <2>4, <3>2
      <4>2. log[i - 1].event = arrived + 1 - (i - 1)
        BY <4>1 DEF LogIsRecent
      <4> QED BY <2>2, <4>1, <4>2
    <3>3. Len(log') \in Nat
      BY <2>2, <2>5
    <3> QED BY <3>1, <3>2, <3>3
  <2> QED BY <2>5, <2>6 DEF LogIsRecent
<1>3. CASE Next
  <2>1. \/ \E t \in Types : Ingest(t)
        \/ Restart
        \/ UNCHANGED <<log, arrived, booted>>
    BY <1>3 DEF Next, Proceed, DeleteMapping, Upsert, Subscribe, Unsubscribe, Call, Respond,
                FanoutRaises, storeVars
  <2>2. CASE Restart
    <3>1. Len(log') = 0 /\ arrived' - booted' = 0 /\ MaxLog > 0
      BY <2>2 DEF Restart, TypeOK
    <3> QED BY <3>1 DEF LogIsRecent
  <2> QED BY <1>1, <1>2, <2>1, <2>2
<1>4. CASE UNCHANGED vars
  BY <1>1, <1>4 DEF vars, storeVars
<1> QED BY <1>3, <1>4

\* GET /events shows the newest events since the process started in the order
\* of their arrival, as many as the limit allows.
THEOREM RecentEvents == Spec => []LogIsRecent
<1>1. Init => LogIsRecent
  BY EventsAssumption DEF Init, LogIsRecent
<1> QED BY <1>1, TypeCorrect, LogStep, PTL DEF Spec

-----------------------------------------------------------------------------
(* The fan-out.                                                            *)

\* An event that did not arrive has no fan-out.
Untouched(e) ==
    /\ todo[e] = {} /\ took[e] = {} /\ notified[e] = 0
    /\ \A s \in Subs : told[e][s] = 0

ArrivalInv ==
    \A e \in Events :
        /\ e > arrived => at[e] = "none"
        /\ at[e] = "none" => Untouched(e)

\* Whoever is on the list was not called, and nobody was called twice.
ListInv ==
    \A e \in Events, s \in Subs :
        /\ told[e][s] \in {0, 1}
        /\ s \in todo[e] => told[e][s] = 0

FanoutInv == ArrivalInv /\ ListInv /\ CountHonest

LEMMA InitFanout == Init => FanoutInv
<1> SUFFICES ASSUME Init PROVE FanoutInv
  OBVIOUS
<1> USE DEF Init
<1>1. ArrivalInv /\ ListInv
  BY DEF ArrivalInv, ListInv, Untouched
<1>2. CountHonest
  BY FS_EmptySet DEF CountHonest
<1> QED BY <1>1, <1>2 DEF FanoutInv

\* Every set of subscriptions is finite.
LEMMA Finite == ASSUME NEW T \in SUBSET Subs PROVE IsFiniteSet(T) /\ Cardinality(T) \in Nat
<1>1. IsFiniteSet(Subs)
  BY FS_Interval, EventsAssumption DEF Subs
<1>2. IsFiniteSet(T)
  BY <1>1, FS_Subset
<1> QED BY <1>2, FS_CardinalityType

LEMMA IngestKeeps ==
    ASSUME TypeOK, FanoutInv, NEW t \in Types, Ingest(t)
    PROVE  FanoutInv'
<1> DEFINE a == arrived + 1
<1>1. /\ arrived < MaxEvents /\ arrived' = a
      /\ at' = [at EXCEPT ![a] = "fanout"]
      /\ todo' = [todo EXCEPT ![a] = Matching(t)]
      /\ UNCHANGED <<notified, told, took>>
  BY DEF Ingest
<1>2. a \in Events /\ arrived \in Nat /\ a > arrived /\ \A e \in Events : e > a => e > arrived
  BY <1>1, EventsAssumption DEF TypeOK, Events
<1> HIDE DEF a
<1>3. at[a] = "none" /\ Untouched(a)
  BY <1>2 DEF FanoutInv, ArrivalInv
<1>4. ArrivalInv'
  <2> SUFFICES ASSUME NEW e \in Events
               PROVE  /\ e > a => at'[e] = "none"
                      /\ at'[e] = "none" => Untouched(e)'
    BY <1>1 DEF ArrivalInv
  <2>1. CASE e = a
    <3>1. at'[e] = "fanout" /\ ~(e > a)
      BY <1>1, <1>2, <2>1 DEF TypeOK, Events
    <3> QED BY <3>1
  <2>2. CASE e # a
    <3>1. at'[e] = at[e] /\ todo'[e] = todo[e]
      BY <1>1, <2>2 DEF TypeOK
    <3>2. (e > arrived => at[e] = "none") /\ (at[e] = "none" => Untouched(e))
      BY DEF FanoutInv, ArrivalInv
    <3> QED BY <1>1, <1>2, <3>1, <3>2 DEF Untouched
  <2> QED BY <2>1, <2>2
<1>5. ListInv'
  <2> SUFFICES ASSUME NEW e \in Events, NEW s \in Subs
               PROVE  told[e][s] \in {0, 1} /\ (s \in todo'[e] => told[e][s] = 0)
    BY <1>1 DEF ListInv
  <2>1. CASE e = a
    BY <1>3, <2>1 DEF Untouched
  <2>2. CASE e # a
    BY <1>1, <2>2 DEF TypeOK, FanoutInv, ListInv
  <2> QED BY <2>1, <2>2
<1>6. CountHonest'
  BY <1>1 DEF FanoutInv, CountHonest
<1> QED BY <1>4, <1>5, <1>6 DEF FanoutInv

LEMMA CallKeeps ==
    ASSUME TypeOK, FanoutInv, NEW e \in Events, NEW s \in Subs, Call(e, s)
    PROVE  FanoutInv'
<1>1. /\ at[e] = "fanout" /\ s \in todo[e] /\ UNCHANGED <<arrived, at>>
      /\ told' = [told EXCEPT ![e][s] = @ + 1]
      /\ todo' = [todo EXCEPT ![e] = @ \ {s}]
      /\ \/ /\ took' = [took EXCEPT ![e] = @ \cup {s}]
            /\ notified' = [notified EXCEPT ![e] = @ + 1]
         \/ /\ took' \in {took, [took EXCEPT ![e] = @ \cup {s}]}
            /\ notified' = notified
  BY DEF Call, NextInLine
<1>2. told[e][s] = 0
  BY <1>1 DEF FanoutInv, ListInv
<1>3. /\ told'[e][s] = 1
      /\ \A f \in Events, q \in Subs : f # e \/ q # s => told'[f][q] = told[f][q]
  BY <1>1, <1>2 DEF TypeOK
<1>4. /\ todo'[e] = todo[e] \ {s}
      /\ \A f \in Events :
            f # e => todo'[f] = todo[f] /\ took'[f] = took[f] /\ notified'[f] = notified[f]
  BY <1>1 DEF TypeOK
<1>5. ArrivalInv'
  <2> SUFFICES ASSUME NEW f \in Events
               PROVE  /\ f > arrived => at[f] = "none"
                      /\ at[f] = "none" => Untouched(f)'
    BY <1>1 DEF ArrivalInv
  <2>1. (f > arrived => at[f] = "none") /\ (at[f] = "none" => Untouched(f))
    BY DEF FanoutInv, ArrivalInv
  <2>2. ASSUME at[f] = "none" PROVE Untouched(f)'
    <3>1. f # e
      BY <1>1, <2>2
    <3>2. todo'[f] = todo[f] /\ took'[f] = took[f] /\ notified'[f] = notified[f]
      BY <1>4, <3>1
    <3>3. \A q \in Subs : told'[f][q] = told[f][q]
      BY <1>3, <3>1
    <3> QED BY <2>1, <2>2, <3>2, <3>3 DEF Untouched
  <2> QED BY <2>1, <2>2
<1>6. ListInv'
  <2> SUFFICES ASSUME NEW f \in Events, NEW q \in Subs
               PROVE  told'[f][q] \in {0, 1} /\ (q \in todo'[f] => told'[f][q] = 0)
    BY DEF ListInv
  <2>1. CASE f = e /\ q = s
    BY <1>3, <1>4, <2>1
  <2>2. CASE f # e \/ q # s
    BY <1>3, <1>4, <2>2 DEF FanoutInv, ListInv
  <2> QED BY <2>1, <2>2
<1>7. CountHonest'
  <2> SUFFICES ASSUME NEW f \in Events
               PROVE  /\ notified'[f] <= Cardinality(took'[f])
                      /\ took'[f] \subseteq {q \in Subs : told'[f][q] = 1}
    BY DEF CountHonest
  <2>1. /\ notified[f] <= Cardinality(took[f]) /\ notified[f] \in Nat
        /\ took[f] \subseteq {q \in Subs : told[f][q] = 1} /\ took[f] \in SUBSET Subs
    BY DEF FanoutInv, CountHonest, TypeOK
  <2>2. CASE f # e
    BY <1>3, <1>4, <2>1, <2>2
  <2>3. CASE f = e
    <3>1. s \notin took[e] /\ IsFiniteSet(took[e]) /\ Cardinality(took[e]) \in Nat
      BY <1>2, <2>1, <2>3, Finite
    <3>2. Cardinality(took[e] \cup {s}) = Cardinality(took[e]) + 1
      BY <3>1, FS_AddElement
    <3>3. \/ took'[e] = took[e] \cup {s} /\ notified'[e] = notified[e] + 1
          \/ took'[e] \in {took[e], took[e] \cup {s}} /\ notified'[e] = notified[e]
      BY <1>1 DEF TypeOK
    <3>4. notified'[e] <= Cardinality(took'[e])
      BY <2>1, <2>3, <3>1, <3>2, <3>3
    <3>5. took'[e] \subseteq {q \in Subs : told'[e][q] = 1}
      BY <1>3, <2>1, <2>3, <3>1, <3>3
    <3> QED BY <2>3, <3>4, <3>5
  <2> QED BY <2>2, <2>3
<1> QED BY <1>5, <1>6, <1>7 DEF FanoutInv

\* Ending a fan-out keeps its count or resets it to zero.
LEMMA EndKeeps ==
    ASSUME TypeOK, FanoutInv, NEW e \in Events, Respond(e) \/ FanoutRaises(e)
    PROVE  FanoutInv'
<1>1. /\ at[e] = "fanout" /\ at' = [at EXCEPT ![e] = "done"]
      /\ notified' \in {notified, [notified EXCEPT ![e] = 0]}
      /\ UNCHANGED <<arrived, todo, told, took>>
  BY DEF Respond, FanoutRaises
<1>2. \A f \in Events : at'[f] = IF f = e THEN "done" ELSE at[f]
  BY <1>1 DEF TypeOK
<1>3. \A f \in Events : notified'[f] = notified[f] \/ notified'[f] = 0
  BY <1>1 DEF TypeOK
<1>4. ArrivalInv'
  BY <1>1, <1>2, <1>3 DEF FanoutInv, ArrivalInv, Untouched
<1>5. ListInv'
  BY <1>1 DEF FanoutInv, ListInv
<1>6. CountHonest'
  <2>1. \A f \in Events : Cardinality(took[f]) \in Nat
    BY Finite DEF TypeOK
  <2> QED BY <1>1, <1>3, <2>1 DEF FanoutInv, CountHonest
<1> QED BY <1>4, <1>5, <1>6 DEF FanoutInv

\* A restart touches no list and no count.
LEMMA RestartKeeps == ASSUME TypeOK, FanoutInv, Restart PROVE FanoutInv'
<1>1. /\ \A e \in Events : at'[e] = IF at[e] = "fanout" THEN "lost" ELSE at[e]
      /\ UNCHANGED <<arrived, todo, notified, told, took>>
  BY DEF Restart
<1> QED BY <1>1 DEF FanoutInv, ArrivalInv, Untouched, ListInv, CountHonest

LEMMA FanoutStep == TypeOK /\ FanoutInv /\ [Next]_vars => FanoutInv'
<1> SUFFICES ASSUME TypeOK, FanoutInv, [Next]_vars PROVE FanoutInv'
  OBVIOUS
<1>1. CASE UNCHANGED <<arrived, fanoutVars>>
  BY <1>1 DEF fanoutVars, FanoutInv, ArrivalInv, Untouched, ListInv, CountHonest
<1>2. CASE Next
  <2>1. \/ \E t \in Types : Ingest(t)
        \/ \E e \in Events, s \in Subs : Call(e, s)
        \/ \E e \in Events : Respond(e) \/ FanoutRaises(e)
        \/ Restart
        \/ UNCHANGED <<arrived, fanoutVars>>
    BY <1>2 DEF Next, Proceed, DeleteMapping, Upsert, Subscribe, Unsubscribe
  <2> QED BY <1>1, <2>1, IngestKeeps, CallKeeps, EndKeeps, RestartKeeps
<1>3. CASE UNCHANGED vars
  BY <1>1, <1>3 DEF vars
<1> QED BY <1>2, <1>3

LEMMA FanoutCorrect == Spec => [](TypeOK /\ FanoutInv)
<1> QED BY InitType, TypeStep, InitFanout, FanoutStep, PTL DEF Spec

\* An answer never counts more notifications than receivers that took the
\* event, each of which was called once.
THEOREM CountIsHonest == Spec => []CountHonest
<1>1. FanoutInv => CountHonest
  BY DEF FanoutInv
<1> QED BY <1>1, FanoutCorrect, PTL

-----------------------------------------------------------------------------
(* The refinement of Outbox.                                               *)

LEMMA InitOutbox == Init => Abstract!OutboxInit
<1> SUFFICES ASSUME Init PROVE Abstract!OutboxInit
  OBVIOUS
<1> QED BY DEF Init, Abstract!OutboxInit

\* An arriving event is accepted, due to those whose subscription matches.
LEMMA IngestAccepts ==
    ASSUME TypeOK, FanoutInv, NEW t \in Types, Ingest(t)
    PROVE  Abstract!OutboxNext
<1>0. PICK a \in Events : a = arrived + 1
  BY EventsAssumption DEF Ingest, TypeOK, Events
<1>1. /\ at' = [at EXCEPT ![a] = "fanout"] /\ arrived < MaxEvents
      /\ todo' = [todo EXCEPT ![a] = Matching(t)] /\ told' = told
  BY <1>0 DEF Ingest
<1>2. a > arrived
  BY <1>0 DEF TypeOK
<1>3. at[a] = "none" /\ \A s \in Subs : told[a][s] = 0
  BY <1>2 DEF FanoutInv, ArrivalInv, Untouched
<1>4. Matching(t) \in SUBSET Subs
  <2>1. made \in 0..MaxSubs /\ subs \subseteq 1..made
    BY DEF TypeOK
  <2>2. subs \subseteq Subs
    BY <2>1, EventsAssumption DEF Subs
  <2> QED BY <2>2 DEF Matching
<1>5. {e \in Events : at'[e] # "none"} = {e \in Events : at[e] # "none"} \cup {a}
  BY <1>1, <1>2 DEF TypeOK
<1>6. /\ {e \in Events : at'[e] = "done"} = {e \in Events : at[e] = "done"}
      /\ {e \in Events : at'[e] = "lost"} = {e \in Events : at[e] = "lost"}
  BY <1>1, <1>2, <1>3 DEF TypeOK
<1>7. [e \in Events |-> todo'[e] \cup {s \in Subs : told'[e][s] > 0}]
         = [[e \in Events |-> todo[e] \cup {s \in Subs : told[e][s] > 0}]
              EXCEPT ![a] = Matching(t)]
  <2>1. todo'[a] \cup {s \in Subs : told[a][s] > 0} = Matching(t)
    BY <1>1, <1>2, <1>3 DEF TypeOK
  <2>2. \A e \in Events : e # a => todo'[e] = todo[e]
    BY <1>1 DEF TypeOK
  <2> QED BY <1>1, <1>2, <2>1, <2>2
<1>8. Abstract!AcceptEvent(a)
  BY <1>1, <1>3, <1>4, <1>5, <1>6, <1>7 DEF Abstract!AcceptEvent
<1> QED BY <1>8 DEF Abstract!OutboxNext

\* A call tells one that is due and was not told yet.
LEMMA CallTells ==
    ASSUME TypeOK, FanoutInv, NEW e \in Events, NEW s \in Subs, Call(e, s)
    PROVE  Abstract!OutboxNext
<1>1. /\ at[e] = "fanout" /\ s \in todo[e] /\ at' = at
      /\ told' = [told EXCEPT ![e][s] = @ + 1]
      /\ todo' = [todo EXCEPT ![e] = @ \ {s}]
  BY DEF Call, NextInLine
<1>2. told[e][s] = 0
  BY <1>1 DEF FanoutInv, ListInv
<1>3. told' = [told EXCEPT ![e][s] = 1]
  BY <1>1, <1>2 DEF TypeOK
<1>4. ASSUME NEW f \in Events
      PROVE  todo'[f] \cup {q \in Subs : told'[f][q] > 0}
               = todo[f] \cup {q \in Subs : told[f][q] > 0}
  <2>1. CASE f = e
    <3>1. \A q \in Subs : told'[e][q] = IF q = s THEN 1 ELSE told[e][q]
      BY <1>3 DEF TypeOK
    <3>2. {q \in Subs : told'[e][q] > 0} = {q \in Subs : told[e][q] > 0} \cup {s}
      BY <3>1
    <3>3. todo'[e] = todo[e] \ {s}
      BY <1>1 DEF TypeOK
    <3> QED BY <1>1, <2>1, <3>2, <3>3
  <2>2. CASE f # e
    BY <1>1, <1>3, <2>2 DEF TypeOK
  <2> QED BY <2>1, <2>2
<1>5. [f \in Events |-> todo'[f] \cup {q \in Subs : told'[f][q] > 0}]
        = [f \in Events |-> todo[f] \cup {q \in Subs : told[f][q] > 0}]
  BY <1>4
<1>6. Abstract!Tell(e, s)
  BY <1>1, <1>2, <1>3, <1>5 DEF Abstract!Tell, Abstract!Pending
<1> QED BY <1>6 DEF Abstract!OutboxNext

\* A fan-out ends with its list empty, so that everybody due was told, or with
\* nobody told.
LEMMA EndSettles ==
    ASSUME TypeOK, FanoutInv, NEW e \in Events, Respond(e) \/ FanoutRaises(e)
    PROVE  Abstract!OutboxNext
<1>1. /\ at[e] = "fanout" /\ at' = [at EXCEPT ![e] = "done"]
      /\ todo[e] = {} \/ \A s \in Subs : told[e][s] = 0
      /\ todo' = todo /\ told' = told
  BY DEF Respond, FanoutRaises
<1>2. todo[e] \subseteq Subs /\ \A s \in Subs : told[e][s] \in {0, 1}
  BY DEF TypeOK, FanoutInv, ListInv
<1>3. Abstract!Everybody(e) \/ Abstract!Nobody(e)
  BY <1>1, <1>2 DEF Abstract!Everybody, Abstract!Nobody
<1>4. /\ {f \in Events : at'[f] # "none"} = {f \in Events : at[f] # "none"}
      /\ {f \in Events : at'[f] = "done"} = {f \in Events : at[f] = "done"} \cup {e}
      /\ {f \in Events : at'[f] = "lost"} = {f \in Events : at[f] = "lost"}
  BY <1>1 DEF TypeOK
<1>5. Abstract!Settle(e)
  BY <1>1, <1>3, <1>4 DEF Abstract!Settle, Abstract!Pending
<1> QED BY <1>5 DEF Abstract!OutboxNext

\* A restart loses what was under way, and only that.
LEMMA RestartLoses == ASSUME TypeOK, Restart PROVE Abstract!OutboxNext
<1>1. /\ \A e \in Events : at'[e] = IF at[e] = "fanout" THEN "lost" ELSE at[e]
      /\ todo' = todo /\ told' = told
  BY DEF Restart
<1>2. /\ {e \in Events : at'[e] # "none"} = {e \in Events : at[e] # "none"}
      /\ {e \in Events : at'[e] = "done"} = {e \in Events : at[e] = "done"}
  BY <1>1
<1>3. {e \in Events : at'[e] = "lost"}
        = {e \in Events : at[e] = "lost"} \cup {e \in Events : at[e] = "fanout"}
  BY <1>1
<1>4. {e \in Events : at[e] = "fanout"} = Abstract!Pending
  BY DEF TypeOK, Abstract!Pending
<1>5. Abstract!Crash
  BY <1>1, <1>2, <1>3, <1>4 DEF Abstract!Crash
<1> QED BY <1>5 DEF Abstract!OutboxNext

LEMMA OutboxStep ==
    TypeOK /\ FanoutInv /\ [Next]_vars => [Abstract!OutboxNext]_(Abstract!outboxVars)
<1> SUFFICES ASSUME TypeOK, FanoutInv, [Next]_vars
             PROVE  [Abstract!OutboxNext]_(Abstract!outboxVars)
  OBVIOUS
<1>1. CASE UNCHANGED fanoutVars
  BY <1>1 DEF fanoutVars, Abstract!outboxVars
<1>2. CASE Next
  <2>1. \/ \E t \in Types : Ingest(t)
        \/ \E e \in Events, s \in Subs : Call(e, s)
        \/ \E e \in Events : Respond(e) \/ FanoutRaises(e)
        \/ Restart
        \/ UNCHANGED fanoutVars
    BY <1>2 DEF Next, Proceed, DeleteMapping, Upsert, Subscribe, Unsubscribe, fanoutVars
  <2> QED BY <1>1, <2>1, IngestAccepts, CallTells, EndSettles, RestartLoses
<1>3. CASE UNCHANGED vars
  BY <1>1, <1>3 DEF vars
<1> QED BY <1>2, <1>3

\* Whatever subscriptions are made, deleted or fail meanwhile, the fan-out of
\* an event tells those that matched when it arrived, each once, or nobody; a
\* restart cuts it short, and it is not taken up again.
THEOREM OutboxRefinement == Spec => ImplementsOutbox
<1> QED BY InitOutbox, OutboxStep, FanoutCorrect, PTL DEF Spec, ImplementsOutbox, Abstract!OutboxSpec
=============================================================================
