----------------------------- MODULE SerialLanes -----------------------------
(***************************************************************************)
(* What the run scheduler promises, without saying how: every conversation *)
(* is a lane whose tasks start in the order they were accepted, one at a   *)
(* time; at most Slots tasks are active over all lanes; a task is rejected *)
(* only while WaitLimit tasks are pending, and no more than Slots +        *)
(* WaitLimit are ever accepted and not complete.                           *)
(***************************************************************************)
EXTENDS Naturals, Sequences, FiniteSets

CONSTANTS Conversations, Tasks, ConversationKey, Slots, WaitLimit

VARIABLES
    lane,       \* conversation -> its accepted tasks that have not started
    active,     \* the tasks that have started and are not complete
    submitted   \* the tasks that were accepted or rejected so far

laneVars == <<lane, active, submitted>>

Pending == UNION {{c} \X DOMAIN lane[c] : c \in Conversations}

LaneInit ==
    /\ lane = [c \in Conversations |-> << >>]
    /\ active = {}
    /\ submitted = {}

Accept(t) ==
    /\ t \notin submitted
    /\ Cardinality(Pending) + Cardinality(active) < Slots + WaitLimit
    /\ lane' = [lane EXCEPT ![ConversationKey[t]] = Append(@, t)]
    /\ submitted' = submitted \cup {t}
    /\ UNCHANGED active

Reject(t) ==
    /\ t \notin submitted
    /\ Cardinality(Pending) >= WaitLimit
    /\ submitted' = submitted \cup {t}
    /\ UNCHANGED <<lane, active>>

Start(c) ==
    /\ lane[c] # << >>
    /\ \A t \in active : ConversationKey[t] # c
    /\ Cardinality(active) < Slots
    /\ lane' = [lane EXCEPT ![c] = Tail(@)]
    /\ active' = active \cup {Head(lane[c])}
    /\ UNCHANGED submitted

Complete(t) ==
    /\ t \in active
    /\ active' = active \ {t}
    /\ UNCHANGED <<lane, submitted>>

\* A restart forgets every task that is not complete.
Forget ==
    /\ lane' = [c \in Conversations |-> << >>]
    /\ active' = {}
    /\ UNCHANGED submitted

LaneNext ==
    \/ \E t \in Tasks : Accept(t) \/ Reject(t) \/ Complete(t)
    \/ \E c \in Conversations : Start(c)
    \/ Forget

LaneSpec == LaneInit /\ [][LaneNext]_laneVars
=============================================================================
