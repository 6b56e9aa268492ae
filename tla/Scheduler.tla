------------------------------ MODULE Scheduler ------------------------------
(***************************************************************************)
(* SchedulerState of agent-runner/src/scheduler.rs: which task of which    *)
(* conversation runs, which ones wait, and who is promoted when a run      *)
(* ends.  Every operation runs under the mutex of RunScheduler             *)
(* (server.rs), so admit and finish are one step each.                     *)
(*                                                                         *)
(* The HashMap queued is two variables: the keys that it has entries for,  *)
(* and the queue of every conversation, empty where there is no entry.     *)
(* pop_next_for_conversation drops an entry whose queue becomes empty.     *)
(***************************************************************************)
EXTENDS Naturals, Sequences, FiniteSets

CONSTANTS
    Conversations,            \* the conversation keys, account::conversation
    Tasks,                    \* the task ids, a fresh UUID for each submission
    ConversationKey,          \* the conversation each task belongs to
    NoTask,                   \* "no entry" in the map of running tasks
    MaxConcurrentRuns,        \* MAX_CONCURRENT_RUNS, as configured
    MaxQueueDepth,            \* MAX_QUEUE_DEPTH
    TerminalHistoryCapacity   \* 16 in the code

ASSUME ConversationKeyAssumption == ConversationKey \in [Tasks -> Conversations]
ASSUME NoTaskAssumption == NoTask \notin Tasks
ASSUME MaxConcurrentRunsAssumption == MaxConcurrentRuns \in Nat
ASSUME MaxQueueDepthAssumption == MaxQueueDepth \in Nat
ASSUME HistoryCapacityAssumption == TerminalHistoryCapacity \in Nat \ {0}

VARIABLES
    running,               \* conversation -> its running task, or NoTask
    entries,               \* the conversations with an entry in the map of queues
    queued,                \* conversation -> its waiting tasks, first come first
    ready_conversations,   \* idle conversations with waiting tasks, in order
    recent_terminal,       \* the last finished tasks, oldest first
    issued,                \* every task id submitted so far, in order
    told                   \* waiting task -> the number its notice names, else 0

state == <<running, entries, queued, ready_conversations, recent_terminal, told>>
schedulerVars ==
    <<running, entries, queued, ready_conversations, recent_terminal, issued, told>>

TerminalStates == {"completed", "failed"}

-----------------------------------------------------------------------------
\* SchedulerState::new raises a configured limit of 0 to 1.
max_concurrent == IF MaxConcurrentRuns = 0 THEN 1 ELSE MaxConcurrentRuns

Active == {c \in Conversations : running[c] # NoTask}

\* The waiting tasks as (conversation, position) pairs: counting them is
\* adding up the lengths of the queues.
Waiting == UNION {{c} \X DOMAIN queued[c] : c \in Conversations}

waiting_count == Cardinality(Waiting)

\* Mutant: a conversation that runs already is not held back.
CanStartBesideItself(c) ==
    Cardinality(Active) < max_concurrent /\ queued[c] = << >>

can_start_now(c) ==
    /\ Cardinality(Active) < max_concurrent
    /\ c \notin Active
    /\ queued[c] = << >>

\* What a task that has to wait is told about the tasks before it.
tasks_ahead_for(c) ==
    IF c \in Active \/ c \in entries
    THEN (IF c \in Active THEN 1 ELSE 0) + Len(queued[c])
    ELSE Cardinality(Active) + waiting_count

-----------------------------------------------------------------------------
AdmitStartNow(t) ==
    LET c == ConversationKey[t] IN
    /\ can_start_now(c)
    /\ running' = [running EXCEPT ![c] = t]
    /\ UNCHANGED <<entries, queued, ready_conversations, recent_terminal, told>>

\* Mutant: the newest ready conversation goes first.
PushReadyInFront(c) == <<c>> \o ready_conversations

\* push_ready_conversation adds a conversation only once.
PushReady(c) ==
    IF \E i \in DOMAIN ready_conversations : ready_conversations[i] = c
    THEN ready_conversations
    ELSE Append(ready_conversations, c)

\* The queue of t's conversation, with t in it, gets an entry if it has none; the
\* number of tasks ahead is taken before that.
Enqueue(t, queue) ==
    /\ entries' = entries \cup {ConversationKey[t]}
    /\ queued' = [queued EXCEPT ![ConversationKey[t]] = queue]
    /\ told' = [told EXCEPT ![t] = tasks_ahead_for(ConversationKey[t])]

\* Mutant: a conversation is listed also when it runs.
ListsRunning(t) ==
    LET c == ConversationKey[t] IN
    /\ ~can_start_now(c)
    /\ waiting_count < MaxQueueDepth
    /\ Enqueue(t, Append(queued[c], t))
    /\ ready_conversations' = IF queued[c] = << >> THEN PushReady(c)
                              ELSE ready_conversations
    /\ UNCHANGED <<running, recent_terminal>>

\* Mutant: the newest task of a conversation waits in front.
QueuesInFront(t) ==
    LET c == ConversationKey[t] IN
    /\ ~can_start_now(c)
    /\ waiting_count < MaxQueueDepth
    /\ Enqueue(t, <<t>> \o queued[c])
    /\ ready_conversations' = IF queued[c] = << >> /\ c \notin Active
                              THEN PushReady(c)
                              ELSE ready_conversations
    /\ UNCHANGED <<running, recent_terminal>>

AdmitQueued(t) ==
    LET c == ConversationKey[t] IN
    /\ ~can_start_now(c)
    /\ waiting_count < MaxQueueDepth
    /\ Enqueue(t, Append(queued[c], t))
    /\ ready_conversations' = IF queued[c] = << >> /\ c \notin Active
                              THEN PushReady(c)
                              ELSE ready_conversations
    /\ UNCHANGED <<running, recent_terminal>>

AdmitQueueFull(t) ==
    /\ ~can_start_now(ConversationKey[t])
    /\ waiting_count >= MaxQueueDepth
    /\ UNCHANGED state

Issued == {issued[i] : i \in DOMAIN issued}

\* Uuid::new_v4 gives every submission an id of its own.
Issue(t) ==
    /\ t \notin Issued
    /\ issued' = Append(issued, t)

Admit(t) ==
    /\ Issue(t)
    /\ AdmitStartNow(t) \/ AdmitQueued(t) \/ AdmitQueueFull(t)

-----------------------------------------------------------------------------
\* When the run of c ends, c itself goes first, if it has a waiting task.
OwnNext(c) == IF queued[c] = << >> THEN {} ELSE {c}

\* The conversations that hold a slot once c's own next task has been taken.
Held(c) == (Active \ {c}) \cup OwnNext(c)

\* Those among the first k ready conversations that the loop of finish starts:
\* it skips the ones that run already or have nothing waiting.
Startable(c, k) ==
    {d \in {ready_conversations[i] : i \in 1..k} :
        d \notin Held(c) /\ queued[d] # << >>}

\* Mutants: the loop compares with one more or one less than the limit.
StopsOneLate(c, k) ==
    \/ Cardinality(Held(c) \cup Startable(c, k)) > max_concurrent
    \/ k = Len(ready_conversations)

StopsOneEarly(c, k) ==
    \/ Cardinality(Held(c) \cup Startable(c, k)) + 1 >= max_concurrent
    \/ k = Len(ready_conversations)

\* The loop of finish has popped k ready conversations and stops.
LoopStops(c, k) ==
    \/ Cardinality(Held(c) \cup Startable(c, k)) >= max_concurrent
    \/ k = Len(ready_conversations)

StopsFirstAt(c, k) ==
    /\ LoopStops(c, k)
    /\ \A j \in 0..(k - 1) : ~LoopStops(c, j)

Promoted(c, k) == OwnNext(c) \cup Startable(c, k)

\* The conversations whose queues pop_next_for_conversation is asked for a task.
Asked(c, k) == {c} \cup ({ready_conversations[i] : i \in 1..k} \ Held(c))

\* The promoted conversations start their first waiting tasks, and k entries are
\* gone from the list of ready conversations.
StartFirst(c, k) ==
    /\ running' = [d \in Conversations |->
                     IF d \in Promoted(c, k) THEN Head(queued[d])
                     ELSE IF d = c THEN NoTask ELSE running[d]]
    /\ told' = [t \in Tasks |->
                  IF \E d \in Promoted(c, k) : t = Head(queued[d]) THEN 0 ELSE told[t]]
    /\ ready_conversations' =
         SubSeq(ready_conversations, k + 1, Len(ready_conversations))

TakeFirst(c, k) ==
    queued' = [d \in Conversations |->
                 IF d \in Promoted(c, k) THEN Tail(queued[d]) ELSE queued[d]]

\* Mutant: the promoted tasks are looked at and stay in their queues.
PromoteKeepsQueued(c, k) == StartFirst(c, k) /\ UNCHANGED <<queued, entries>>

\* Mutant: the entry of a queue that becomes empty is left behind.
PromoteLeavesEntries(c, k) == StartFirst(c, k) /\ TakeFirst(c, k) /\ UNCHANGED entries

\* The slot of c passes on; an entry whose queue is or becomes empty is dropped.
Promote(c, k) ==
    /\ StartFirst(c, k)
    /\ TakeFirst(c, k)
    /\ entries' = entries \ {d \in Asked(c, k) : queued'[d] = << >>}

\* Mutant: the history is not trimmed.
PushUntrimmed(t, terminal) == Append(recent_terminal, [task |-> t, state |-> terminal])

\* push_terminal keeps the last TerminalHistoryCapacity entries.
PushTerminal(t, terminal) ==
    LET pushed == Append(recent_terminal, [task |-> t, state |-> terminal]) IN
    IF Len(pushed) > TerminalHistoryCapacity THEN Tail(pushed) ELSE pushed

\* The run of conversation c ended.  RunScheduler calls finish only for the
\* task that holds c's slot.
Finish(c, terminal) ==
    /\ c \in Active
    /\ recent_terminal' = PushTerminal(running[c], terminal)
    /\ \E k \in 0..Len(ready_conversations) : StopsFirstAt(c, k) /\ Promote(c, k)
    /\ UNCHANGED issued

\* SchedulerState::new.
NoneRunning == [c \in Conversations |-> NoTask]
NoneQueued == [c \in Conversations |-> << >>]
NobodyTold == [t \in Tasks |-> 0]

\* agent-runner stops and starts again: nothing of the scheduler is persisted.
Restart ==
    /\ running' = NoneRunning
    /\ entries' = {}
    /\ queued' = NoneQueued
    /\ ready_conversations' = << >>
    /\ recent_terminal' = << >>
    /\ told' = NobodyTold
    /\ UNCHANGED issued

-----------------------------------------------------------------------------
SchedulerInit ==
    /\ running = NoneRunning
    /\ entries = {}
    /\ queued = NoneQueued
    /\ ready_conversations = << >>
    /\ recent_terminal = << >>
    /\ issued = << >>
    /\ told = NobodyTold

SchedulerNext ==
    \/ \E t \in Tasks : Admit(t)
    \/ \E c \in Conversations, s \in TerminalStates : Finish(c, s)
    \/ Restart

SchedulerSpec == SchedulerInit /\ [][SchedulerNext]_schedulerVars
-----------------------------------------------------------------------------
\* Every variable has its type; the terminal history is bounded.
TypeOK ==
    /\ running \in [Conversations -> Tasks \cup {NoTask}]
    /\ entries \in SUBSET Conversations
    /\ queued \in [Conversations -> Seq(Tasks)]
    /\ ready_conversations \in Seq(Conversations)
    /\ recent_terminal \in Seq([task : Tasks, state : TerminalStates])
    /\ Len(recent_terminal) <= TerminalHistoryCapacity
    /\ issued \in Seq(Tasks)
    /\ told \in [Tasks -> Nat]

\* At most max_concurrent runs hold a slot and at most MaxQueueDepth tasks
\* wait, whatever mix of admissions and promotions led here: finish starts a
\* same-conversation task without looking at the capacity, and the loop after
\* it may start several (scheduler.rs:123-142).
WithinLimits ==
    /\ IsFiniteSet(Active) /\ Cardinality(Active) <= max_concurrent
    /\ IsFiniteSet(Waiting) /\ waiting_count <= MaxQueueDepth

\* ready_conversations lists exactly the idle conversations that have waiting
\* tasks, each once.  A conversation that waits and is not listed would never
\* be promoted again: admit lists it only when its queue was empty.
NoLostConversation ==
    /\ \A c \in Conversations :
         (c \notin Active /\ queued[c] # << >>) <=>
            \E i \in DOMAIN ready_conversations : ready_conversations[i] = c
    /\ \A i, j \in DOMAIN ready_conversations :
         ready_conversations[i] = ready_conversations[j] => i = j

\* No slot stays free while an idle conversation has work: nothing but the end
\* of a run promotes a ready conversation, so a slot left free by finish would
\* not be used until some other run ends.
WorkConserving ==
    ready_conversations # << >> => Cardinality(Active) = max_concurrent

\* For as long as a task waits, the number that its sender was told when it was
\* admitted covers the tasks of its own conversation that are still before it, and is
\* never 0: it is computed by cases from two maps (scheduler.rs:171-183), and an
\* emptied queue whose entry stayed in the map would make it 0 for a task that
\* only the other conversations hold up.
ToldEnough ==
    \A c \in Conversations : \A i \in DOMAIN queued[c] :
        LET before == (IF c \in Active THEN 1 ELSE 0) + (i - 1)
        IN  told[queued[c][i]] >= 1 /\ told[queued[c][i]] >= before

\* Task t was submitted before task u.
Before(t, u) ==
    \E i, j \in DOMAIN issued : i < j /\ issued[i] = t /\ issued[j] = u

\* A conversation is served in the order of its messages: its tasks are its
\* own, they wait in the order they were submitted, and the one that runs was
\* submitted before all that wait.
ServedInOrder ==
    \A c \in Conversations :
        /\ c \in Active => running[c] \in Issued /\ ConversationKey[running[c]] = c
        /\ \A i \in DOMAIN queued[c] :
             /\ queued[c][i] \in Issued /\ ConversationKey[queued[c][i]] = c
             /\ c \in Active => Before(running[c], queued[c][i])
             /\ \A j \in DOMAIN queued[c] : i < j => Before(queued[c][i], queued[c][j])

\* The idle conversations take their turns in the order in which their first
\* waiting tasks were submitted.
ReadyInArrivalOrder ==
    \A i, j \in DOMAIN ready_conversations :
        i < j => Before(Head(queued[ready_conversations[i]]),
                        Head(queued[ready_conversations[j]]))

\* Nobody jumps the queue of the idle conversations: when a task starts, no idle
\* conversation is left waiting with a task that was submitted before it.  Only a
\* conversation that just ended a run may go on with its own next task instead
\* (scheduler.rs:123-125).
OnlyOwnNextOvertakes ==
    [][\A c, d \in Conversations :
         /\ c \notin Active /\ c \in Active'
         /\ d \notin Active' /\ queued'[d] # << >>
         => ~Before(Head(queued[d]), running[c])']_schedulerVars

\* A task ends once: none is recorded twice as finished, and none that is
\* recorded runs or waits, so a task is never run again after it ended.
EndsOnce ==
    /\ \A i, j \in DOMAIN recent_terminal :
         recent_terminal[i].task = recent_terminal[j].task => i = j
    /\ \A i \in DOMAIN recent_terminal, c \in Conversations :
         LET t == recent_terminal[i].task IN
         /\ t \in Issued
         /\ running[c] # t
         /\ \A k \in DOMAIN queued[c] : queued[c][k] # t
=============================================================================
