------------------------------- MODULE Outbox -------------------------------
(***************************************************************************)
(* What the camera service promises about outgoing event notifications     *)
(* (camera/app/events, camera/app/webhooks): the receivers of an event are *)
(* settled when it is accepted, and each of them is told once, whoever     *)
(* comes, goes or fails meanwhile; or, if sending is impossible, nobody is *)
(* told at all.  Nothing of it survives the process: what was not sent     *)
(* when it ended never is.  EventIngestion implements this module.         *)
(***************************************************************************)
EXTENDS Naturals

CONSTANTS Events, Receivers

VARIABLES
    accepted,   \* the events that arrived
    due,        \* per event: who is to be told
    told,       \* per event and receiver: how often it was told
    settled,    \* the events whose notification is over
    lost        \* the events whose notification the process did not survive

outboxVars == <<accepted, due, told, settled, lost>>

OutboxInit ==
    /\ accepted = {}
    /\ due = [e \in Events |-> {}]
    /\ told = [e \in Events |-> [r \in Receivers |-> 0]]
    /\ settled = {}
    /\ lost = {}

Pending == accepted \ (settled \cup lost)

AcceptEvent(e) ==
    /\ e \notin accepted
    /\ accepted' = accepted \cup {e}
    /\ \E R \in SUBSET Receivers : due' = [due EXCEPT ![e] = R]
    /\ UNCHANGED <<told, settled, lost>>

Tell(e, r) ==
    /\ e \in Pending
    /\ r \in due[e] /\ told[e][r] = 0
    /\ told' = [told EXCEPT ![e][r] = 1]
    /\ UNCHANGED <<accepted, due, settled, lost>>

Nobody(e) == \A r \in due[e] : told[e][r] = 0
Everybody(e) == \A r \in due[e] : told[e][r] = 1

Settle(e) ==
    /\ e \in Pending
    /\ Everybody(e) \/ Nobody(e)
    /\ settled' = settled \cup {e}
    /\ UNCHANGED <<accepted, due, told, lost>>

Crash ==
    /\ lost' = lost \cup Pending
    /\ UNCHANGED <<accepted, due, told, settled>>

OutboxNext ==
    \/ Crash
    \/ \E e \in Events : AcceptEvent(e) \/ Settle(e) \/ \E r \in Receivers : Tell(e, r)

OutboxSpec == OutboxInit /\ [][OutboxNext]_outboxVars
=============================================================================
