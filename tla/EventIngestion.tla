--------------------------- MODULE EventIngestion ---------------------------
(***************************************************************************)
(* camera/app/events and camera/app/webhooks: POST /events/trigger looks   *)
(* up the command mapped to the event, dispatches it to the camera, logs   *)
(* the event and notifies the webhook subscribers one after the other,     *)
(* while other requests change the mapping and the subscriptions.          *)
(*                                                                         *)
(* Everything runs on one event loop.  Nothing is awaited before the first *)
(* webhook is called (the dispatcher blocks the loop), so Ingest is one    *)
(* step; every webhook call is another.  Events and subscriptions are      *)
(* numbered as they come, which is also the order of a Python dict.        *)
(* Both services are in memory only: a restart of the process empties them.*)
(***************************************************************************)
EXTENDS Naturals, Sequences, FiniteSets

CONSTANTS
    Types,          \* event types
    Commands,       \* what a type may be mapped to
    Moves,          \* the commands that drive the motor, and may fail
    DefaultCommand, \* the factory mapping of every type
    NoCommand,      \* the type has no mapping
    MaxLog,         \* MAX_EVENTS, 500 in the code
    MaxEvents,      \* bound: events that arrive
    MaxSubs         \* bound: subscriptions that are made

ASSUME EventsAssumption ==
    /\ Moves \subseteq Commands
    /\ DefaultCommand \in Commands
    /\ NoCommand \notin Commands
    /\ MaxLog \in Nat \ {0}
    /\ MaxEvents \in Nat
    /\ MaxSubs \in Nat

Events == 1..MaxEvents
Subs == 1..MaxSubs

VARIABLES
    mapping,    \* _mappings: the command of each type
    log,        \* _log, newest first
    made,       \* how many subscriptions were made
    subs,       \* the keys of _subscriptions
    wants,      \* each subscription's event_types (None is all of them)
    arrived,    \* how many events arrived
    booted,     \* how many of them before this process started
    at,         \* where each event's request is
    todo,       \* the subscriptions each fan-out has, or had, yet to call
    notified,   \* how many calls of each fan-out succeeded; the answer's count
    told,       \* history: how often each event was posted to each subscription
    took        \* history: who accepted each event

subVars    == <<made, subs, wants>>
fanoutVars == <<at, todo, notified, told, took>>
storeVars  == <<mapping, log, booted>>
vars == <<storeVars, subVars, arrived, fanoutVars>>

Entry == [event : Events, command : Commands \cup {NoCommand},
          success : {"none", "yes", "no"}]

TypeOK ==
    /\ mapping \in [Types -> Commands \cup {NoCommand}]
    /\ log \in Seq(Entry) /\ Len(log) <= MaxLog
    /\ made \in 0..MaxSubs
    /\ subs \in SUBSET (1..made)
    /\ wants \in [Subs -> SUBSET Types]
    /\ arrived \in 0..MaxEvents /\ booted \in 0..arrived
    /\ at \in [Events -> {"none", "fanout", "done", "lost"}]
    /\ todo \in [Events -> SUBSET Subs]
    /\ notified \in [Events -> Nat]
    /\ told \in [Events -> [Subs -> Nat]]
    /\ took \in [Events -> SUBSET Subs]

Init ==
    /\ mapping = [t \in Types |-> DefaultCommand]
    /\ log = <<>>
    /\ made = 0 /\ subs = {} /\ wants = [s \in Subs |-> {}]
    /\ arrived = 0 /\ booted = 0
    /\ at = [e \in Events |-> "none"]
    /\ todo = [e \in Events |-> {}]
    /\ notified = [e \in Events |-> 0]
    /\ told = [e \in Events |-> [s \in Subs |-> 0]]
    /\ took = [e \in Events |-> {}]

-----------------------------------------------------------------------------
(* The mapping and the subscriptions.  A request that names something not  *)
(* there answers 404 and changes nothing.                                  *)

Upsert(t, c) ==
    /\ mapping' = [mapping EXCEPT ![t] = c]
    /\ UNCHANGED <<log, booted, subVars, arrived, fanoutVars>>

DeleteMapping(t) ==
    /\ mapping[t] # NoCommand
    /\ mapping' = [mapping EXCEPT ![t] = NoCommand]
    /\ UNCHANGED <<log, booted, subVars, arrived, fanoutVars>>

Subscribe(W) ==
    /\ made < MaxSubs
    /\ made' = made + 1
    /\ subs' = subs \cup {made + 1}
    /\ wants' = [wants EXCEPT ![made + 1] = W]
    /\ UNCHANGED <<storeVars, arrived, fanoutVars>>

Unsubscribe(s) ==
    /\ s \in subs
    /\ subs' = subs \ {s}
    /\ UNCHANGED <<storeVars, made, wants, arrived, fanoutVars>>

-----------------------------------------------------------------------------
(* POST /events/trigger.                                                   *)

\* What dispatch() may return: a motor command fails when the camera does,
\* the others are only logged.
Results(c) ==
    CASE c = NoCommand -> {"none"}
      [] c \in Moves   -> {"yes", "no"}
      [] OTHER         -> {"yes"}

\* Mutation: a full log keeps the oldest entries.
RecordIfRoom(entry) == IF Len(log) < MaxLog THEN <<entry>> \o log ELSE log

\* appendleft on a deque of bounded length: the oldest entry falls off.
Record(entry) ==
    <<entry>> \o SubSeq(log, 1, IF Len(log) < MaxLog THEN Len(log) ELSE MaxLog - 1)

Matching(t) == {s \in subs : t \in wants[s]}

Ingest(t) ==
    LET e == arrived + 1 IN
    /\ arrived < MaxEvents
    /\ arrived' = e
    /\ \E r \in Results(mapping[t]) :
          log' = Record([event |-> e, command |-> mapping[t], success |-> r])
    /\ at' = [at EXCEPT ![e] = "fanout"]
    /\ todo' = [todo EXCEPT ![e] = Matching(t)]
    /\ UNCHANGED <<mapping, booted, subVars, notified, told, took>>

\* s is the first subscription the fan-out of e has yet to call.
NextInLine(e, s) == s \in todo[e] /\ \A q \in todo[e] : s <= q

\* Mutation: the first failure ends the whole fan-out.
CallStops(e, s) ==
    /\ at[e] = "fanout" /\ NextInLine(e, s)
    /\ told' = [told EXCEPT ![e][s] = @ + 1]
    /\ \/ /\ took' = [took EXCEPT ![e] = @ \cup {s}]
          /\ notified' = [notified EXCEPT ![e] = @ + 1]
          /\ todo' = [todo EXCEPT ![e] = @ \ {s}]
       \/ /\ took' \in {took, [took EXCEPT ![e] = @ \cup {s}]}
          /\ todo' = [todo EXCEPT ![e] = {}]
          /\ UNCHANGED notified
    /\ UNCHANGED <<storeVars, subVars, arrived, at>>

\* Mutation: a receiver that was called is counted.
CallCounts(e, s) ==
    /\ at[e] = "fanout" /\ NextInLine(e, s)
    /\ told' = [told EXCEPT ![e][s] = @ + 1]
    /\ todo' = [todo EXCEPT ![e] = @ \ {s}]
    /\ took' \in {took, [took EXCEPT ![e] = @ \cup {s}]}
    /\ notified' = [notified EXCEPT ![e] = @ + 1]
    /\ UNCHANGED <<storeVars, subVars, arrived, at>>

\* One webhook call: it succeeds, or it fails (the receiver may have taken the
\* event all the same) and the next one is called.
Call(e, s) ==
    /\ at[e] = "fanout" /\ NextInLine(e, s)
    /\ told' = [told EXCEPT ![e][s] = @ + 1]
    /\ todo' = [todo EXCEPT ![e] = @ \ {s}]
    /\ \/ /\ took' = [took EXCEPT ![e] = @ \cup {s}]
          /\ notified' = [notified EXCEPT ![e] = @ + 1]
       \/ /\ took' \in {took, [took EXCEPT ![e] = @ \cup {s}]}
          /\ UNCHANGED notified
    /\ UNCHANGED <<storeVars, subVars, arrived, at>>

\* Mutation: an event nobody was notified of is not answered.
RespondIfNotified(e) ==
    /\ at[e] = "fanout" /\ todo[e] = {}
    /\ notified[e] > 0
    /\ at' = [at EXCEPT ![e] = "done"]
    /\ UNCHANGED <<storeVars, subVars, arrived, todo, notified, told, took>>

\* The fan-out is over, and the request is answered.
Respond(e) ==
    /\ at[e] = "fanout" /\ todo[e] = {}
    /\ at' = [at EXCEPT ![e] = "done"]
    /\ UNCHANGED <<storeVars, subVars, arrived, todo, notified, told, took>>

\* Opening or closing the HTTP client raises: before the first call, or after
\* the last one (without a subscriber there is no client).  The request is
\* answered with a count of zero.
FanoutRaises(e) ==
    /\ at[e] = "fanout"
    /\ (todo[e] = {}) # (\A s \in Subs : told[e][s] = 0)
    /\ at' = [at EXCEPT ![e] = "done"]
    /\ notified' = [notified EXCEPT ![e] = 0]
    /\ UNCHANGED <<storeVars, subVars, arrived, todo, told, took>>

-----------------------------------------------------------------------------
\* The process ends, in the middle of any fan-out, and starts again: the
\* mapping is the factory's, the log and the subscriptions are gone.
Restart ==
    /\ mapping' = [t \in Types |-> DefaultCommand]
    /\ log' = <<>>
    /\ booted' = arrived
    /\ subs' = {}
    /\ at' = [e \in Events |-> IF at[e] = "fanout" THEN "lost" ELSE at[e]]
    /\ UNCHANGED <<made, wants, arrived, todo, notified, told, took>>

Proceed(e) == (\E s \in Subs : Call(e, s)) \/ Respond(e) \/ FanoutRaises(e)

Next ==
    \/ \E t \in Types : DeleteMapping(t) \/ Ingest(t) \/ \E c \in Commands : Upsert(t, c)
    \/ \E W \in SUBSET Types : Subscribe(W)
    \/ \E s \in Subs : Unsubscribe(s)
    \/ \E e \in Events : Proceed(e)
    \/ Restart

(***************************************************************************)
(* A webhook call returns or times out (webhook_timeout_seconds), and the  *)
(* loop goes on with it.  Nobody has to send an event, nor the process to  *)
(* restart.                                                                *)
(***************************************************************************)
Fairness == \A e \in Events : WF_vars(Proceed(e))

Spec == Init /\ [][Next]_vars
FairSpec == Spec /\ Fairness

-----------------------------------------------------------------------------
(* Properties.                                                             *)

\* GET /events shows the last events that arrived since the process started,
\* all of them up to the limit, newest first, although their requests end in
\* any order.
LogIsRecent ==
    /\ Len(log) = IF arrived - booted < MaxLog THEN arrived - booted ELSE MaxLog
    /\ \A i \in 1..Len(log) : log[i].event = arrived + 1 - i

\* webhooks_notified never claims more than the receivers took, nor calls a
\* subscription twice to get there.
CountHonest ==
    \A e \in Events :
        /\ notified[e] <= Cardinality(took[e])
        /\ took[e] \subseteq {s \in Subs : told[e][s] = 1}

\* An accepted event is answered, whatever the receivers do, unless the
\* process ends first.
AlwaysAnswered == \A e \in Events : at[e] = "fanout" ~> at[e] \in {"done", "lost"}

\* The fan-out implements Outbox: subscriptions made, deleted or failing
\* meanwhile change neither who is told of an event nor how often, and a
\* restart only leaves out those who were still to be told.
Abstract == INSTANCE Outbox WITH
    Receivers <- Subs,
    accepted <- {e \in Events : at[e] # "none"},
    due <- [e \in Events |-> todo[e] \cup {s \in Subs : told[e][s] > 0}],
    settled <- {e \in Events : at[e] = "done"},
    lost <- {e \in Events : at[e] = "lost"}

ImplementsOutbox == Abstract!OutboxSpec
=============================================================================
