----------------------------- MODULE RunScheduler -----------------------------
(***************************************************************************)
(* RunScheduler of agent-runner/src/server.rs around SchedulerState: the   *)
(* webhook handler of each triggering message (submit, then the wait or    *)
(* busy notice), the tokio task that carries each run (run_task), and the  *)
(* payloads parked for the tasks that wait.                                *)
(*                                                                         *)
(* The mutex covers admit with the insertion of the payload, and finish    *)
(* with the removal of the payloads of the promoted tasks.  Everything     *)
(* else happens outside it: the spawns, the notices, the start reaction,   *)
(* the run itself and its reply interleave freely.                         *)
(***************************************************************************)
EXTENDS Scheduler

CONSTANT QqTasks   \* the tasks of QQ messages: only these get a start reaction

ASSUME QqTasksAssumption == QqTasks \subseteq Tasks

VARIABLES
    queued_payloads,  \* the waiting tasks whose event and request are parked
    handler,          \* task -> where the webhook handler of its message is
    worker,           \* task -> where the tokio task that runs it is
    promoted,         \* task -> those its worker has yet to spawn after finish
    sent             \* task -> what was sent to the chat about it, in order

serverVars == <<queued_payloads, handler, worker, promoted, sent>>
runVars == <<schedulerVars, serverVars>>

HandlerPhases == {"idle", "starting", "wait_notice", "busy_notice", "answered", "lost"}
WorkerPhases == {"none", "reaction", "executing", "completed", "failed",
                 "promoting", "ended", "lost"}
Sends == {"wait", "busy", "reaction", "reply"}

\* Phases in which a worker holds the slot of its conversation.
LivePhases == {"reaction", "executing", "completed", "failed"}

-----------------------------------------------------------------------------
\* A message goes out to the platform.  Whether it arrives makes no difference
\* to the steps that follow, except where an action below says so.
Send(t, p) == sent' = [sent EXCEPT ![t] = Append(@, p)]

(* submit: admit under the lock, park the payload of a task that waits. *)

SubmitStartNow(t) ==
    /\ handler[t] = "idle"
    /\ Issue(t) /\ AdmitStartNow(t)
    /\ handler' = [handler EXCEPT ![t] = "starting"]
    /\ UNCHANGED <<queued_payloads, worker, promoted, sent>>

\* Mutant: the start reaction is sent at admission.
ReactsAtAdmission(t) ==
    /\ handler[t] = "idle"
    /\ Issue(t) /\ AdmitQueued(t)
    /\ queued_payloads' = queued_payloads \cup {t}
    /\ handler' = [handler EXCEPT ![t] = "wait_notice"]
    /\ Send(t, "reaction")
    /\ UNCHANGED <<worker, promoted>>

SubmitQueued(t) ==
    /\ handler[t] = "idle"
    /\ Issue(t) /\ AdmitQueued(t)
    /\ queued_payloads' = queued_payloads \cup {t}
    /\ handler' = [handler EXCEPT ![t] = "wait_notice"]
    /\ UNCHANGED <<worker, promoted, sent>>

SubmitQueueFull(t) ==
    /\ handler[t] = "idle"
    /\ Issue(t) /\ AdmitQueueFull(t)
    /\ handler' = [handler EXCEPT ![t] = "busy_notice"]
    /\ UNCHANGED <<queued_payloads, worker, promoted, sent>>

\* The lock is released; the task that starts at once is spawned.
SpawnStarted(t) ==
    /\ handler[t] = "starting"
    /\ handler' = [handler EXCEPT ![t] = "answered"]
    /\ worker' = [worker EXCEPT ![t] = "reaction"]
    /\ UNCHANGED <<schedulerVars, queued_payloads, promoted, sent>>

\* handle_canonical_event after submit: the notice, then the answer to the
\* platform, whether or not the notice could be delivered.
SendWaitNotice(t) ==
    /\ handler[t] = "wait_notice"
    /\ Send(t, "wait")
    /\ handler' = [handler EXCEPT ![t] = "answered"]
    /\ UNCHANGED <<schedulerVars, queued_payloads, worker, promoted>>

SendBusyNotice(t) ==
    /\ handler[t] = "busy_notice"
    /\ Send(t, "busy")
    /\ handler' = [handler EXCEPT ![t] = "answered"]
    /\ UNCHANGED <<schedulerVars, queued_payloads, worker, promoted>>

\* Mutant: the handler can be dropped also before it spawns the started task.
DroppedBeforeSpawn(t) ==
    /\ handler[t] \in {"starting", "wait_notice", "busy_notice"}
    /\ handler' = [handler EXCEPT ![t] = "lost"]
    /\ UNCHANGED <<schedulerVars, queued_payloads, worker, promoted, sent>>

\* The platform closes the connection of its webhook call and the server drops the
\* handler where it awaits the delivery of a notice.  There is no await between
\* admit and spawn_task, so a task that starts at once is always spawned.
HandlerDropped(t) ==
    /\ handler[t] \in {"wait_notice", "busy_notice"}
    /\ handler' = [handler EXCEPT ![t] = "lost"]
    /\ UNCHANGED <<schedulerVars, queued_payloads, worker, promoted, sent>>

-----------------------------------------------------------------------------
(* run_task *)

WorkerStep(t, from, to) ==
    /\ worker[t] = from
    /\ worker' = [worker EXCEPT ![t] = to]
    /\ UNCHANGED <<schedulerVars, queued_payloads, handler, promoted>>

\* send_start_reaction_best_effort: start_reaction_plan is for QQ only, and a
\* failure to deliver it is logged.
StartReaction(t) ==
    /\ WorkerStep(t, "reaction", "executing")
    /\ IF t \in QqTasks THEN Send(t, "reaction") ELSE UNCHANGED sent

\* The run and the delivery of what came of it, in one step: nothing that others
\* read changes between the two.  The output is delivered;
ReplyDelivered(t) == WorkerStep(t, "executing", "completed") /\ Send(t, "reply")

\* or its delivery fails, or the runner failed and its error text is sent;
RunFails(t) == WorkerStep(t, "executing", "failed") /\ Send(t, "reply")

\* or the output is empty, which is a completed run, or cannot be normalised,
\* which is a failed one, and nothing is sent.
NothingDelivered(t) ==
    /\ WorkerStep(t, "executing", "completed") \/ WorkerStep(t, "executing", "failed")
    /\ UNCHANGED sent

\* Mutant: the payloads of the promoted tasks are copied, not taken.
CopiesPayloads(t) ==
    /\ worker[t] \in {"completed", "failed"}
    /\ Finish(ConversationKey[t], worker[t])
    /\ promoted' = [promoted EXCEPT ![t] =
                      {running'[c] : c \in {d \in Conversations : running'[d] # running[d]}}
                         \cap queued_payloads]
    /\ worker' = [worker EXCEPT ![t] = "promoting"]
    /\ UNCHANGED <<queued_payloads, handler, sent>>

\* The second critical section of run_task: finish, and take the payloads of
\* the promoted tasks; a promoted task without a payload is not spawned.
FinishRun(t) ==
    /\ worker[t] \in {"completed", "failed"}
    /\ Finish(ConversationKey[t], worker[t])
    /\ LET taken == {running'[c] : c \in {d \in Conversations : running'[d] # running[d]}}
                      \cap queued_payloads
       IN /\ promoted' = [promoted EXCEPT ![t] = taken]
          /\ queued_payloads' = queued_payloads \ taken
    /\ worker' = [worker EXCEPT ![t] = "promoting"]
    /\ UNCHANGED <<handler, sent>>

SpawnPromoted(t, next) ==
    /\ worker[t] = "promoting"
    /\ next \in promoted[t]
    /\ promoted' = [promoted EXCEPT ![t] = @ \ {next}]
    /\ worker' = [worker EXCEPT ![next] = "reaction"]
    /\ UNCHANGED <<schedulerVars, queued_payloads, handler, sent>>

\* Mutant: the worker ends with the first task it spawned, or without any.
EndsBeforeSpawning(t) ==
    /\ worker[t] = "promoting"
    /\ worker' = [worker EXCEPT ![t] = "ended"]
    /\ UNCHANGED <<schedulerVars, queued_payloads, handler, promoted, sent>>

EndRun(t) ==
    /\ worker[t] = "promoting"
    /\ promoted[t] = {}
    /\ worker' = [worker EXCEPT ![t] = "ended"]
    /\ UNCHANGED <<schedulerVars, queued_payloads, handler, promoted, sent>>

\* The tasks that hold a slot or wait for one.
Accepted == queued_payloads \cup {running[c] : c \in Active}

\* agent-runner stops and starts again.  Handlers and tokio tasks are gone and
\* so is the queue; what was sent stays in the chat.
RestartServer ==
    /\ Restart
    /\ queued_payloads' = {}
    /\ handler' = [t \in Tasks |-> IF handler[t] \in {"idle", "answered"}
                                   THEN handler[t] ELSE "lost"]
    /\ worker' = [t \in Tasks |->
                    IF t \in Accepted THEN "lost"
                    ELSE IF worker[t] = "promoting" THEN "ended" ELSE worker[t]]
    /\ promoted' = [t \in Tasks |-> {}]
    /\ UNCHANGED sent

-----------------------------------------------------------------------------
RunInit ==
    /\ SchedulerInit
    /\ queued_payloads = {}
    /\ handler = [t \in Tasks |-> "idle"]
    /\ worker = [t \in Tasks |-> "none"]
    /\ promoted = [t \in Tasks |-> {}]
    /\ sent = [t \in Tasks |-> << >>]

HandlerNext(t) ==
    \/ SubmitStartNow(t) \/ SubmitQueued(t) \/ SubmitQueueFull(t)
    \/ SpawnStarted(t) \/ SendWaitNotice(t) \/ SendBusyNotice(t) \/ HandlerDropped(t)

WorkerNext(t) ==
    \/ StartReaction(t)
    \/ ReplyDelivered(t) \/ RunFails(t) \/ NothingDelivered(t)
    \/ FinishRun(t) \/ EndRun(t)
    \/ \E next \in Tasks : SpawnPromoted(t, next)

RunNext ==
    \/ \E t \in Tasks : HandlerNext(t) \/ WorkerNext(t)
    \/ RestartServer

\* A handler spawns the task that it was told to start without an await in between,
\* and tokio polls every task that can go on.  That a run, and each call to a
\* platform, returns is an assumption on the outside: neither has a timeout
\* (exec.rs:121, qq.rs:41), so the fairness of the worker stands for it.
RunFairness ==
    \A t \in Tasks : WF_runVars(SpawnStarted(t)) /\ WF_runVars(WorkerNext(t))

RunSpec == RunInit /\ [][RunNext]_runVars /\ RunFairness
-----------------------------------------------------------------------------
Seen(t) == {sent[t][i] : i \in DOMAIN sent[t]}

\* Every variable has its type.
RunTypeOK ==
    /\ TypeOK
    /\ queued_payloads \in SUBSET Tasks
    /\ handler \in [Tasks -> HandlerPhases]
    /\ worker \in [Tasks -> WorkerPhases]
    /\ promoted \in [Tasks -> SUBSET Tasks]
    /\ sent \in [Tasks -> Seq(Sends)]

Live == {t \in Tasks : worker[t] \in LivePhases}

\* Each conversation has at most one run at work and all of them together at
\* most max_concurrent, from the start reaction to the end of the delivery:
\* the slot is given back only after the reply (server.rs:253-265).
OneRunPerConversation ==
    /\ \A t, u \in Live : ConversationKey[t] = ConversationKey[u] => t = u
    /\ IsFiniteSet(Live) /\ Cardinality(Live) <= max_concurrent

Starting == {t \in Tasks : handler[t] = "starting"}

\* A slot is never held by a task that nobody carries, which would keep it for
\* ever: the task in a slot is about to be spawned by its handler, or by the
\* one worker that promoted it, or it has a worker, and only one of these.
SlotHasOneCarrier ==
    /\ \A t \in Tasks :
         (t \in Live \/ t \in Starting \/ \E u \in Tasks : t \in promoted[u])
            <=> running[ConversationKey[t]] = t
    /\ \A t \in Starting : worker[t] = "none" /\ \A u \in Tasks : t \notin promoted[u]
    /\ \A u, v \in Tasks : \A t \in promoted[u] :
         /\ worker[t] = "none"
         /\ t \in promoted[v] => u = v

\* The parked payloads are those of the tasks that wait: a promoted task finds
\* its payload, and none is kept for a task that will not run.
PayloadsMatchQueue ==
    \A t \in Tasks :
        t \in queued_payloads <=>
            \E i \in DOMAIN queued[ConversationKey[t]] : queued[ConversationKey[t]][i] = t

\* What a sender gets to see fits what happens to the task: nothing but the
\* wait notice while it waits, nothing but the busy notice when it is rejected,
\* no start reaction after the outcome, and nothing twice.  Only the wait notice
\* has no place of its own: it is sent after the lock is released, so the task may
\* be promoted, react and even reply before it.
FeedbackFits ==
    \A t \in Tasks :
        /\ t \in queued_payloads => Seen(t) \subseteq {"wait"}
        /\ "busy" \in Seen(t) => Seen(t) = {"busy"}
        /\ \A i, j \in DOMAIN sent[t] :
             i < j => /\ sent[t][i] # sent[t][j]
                      /\ sent[t][i] = "reply" => sent[t][j] = "wait"

\* Every task that was accepted ends, or is lost to a restart of the server.
AcceptedTasksEnd ==
    \A t \in Tasks : t \in Accepted ~> worker[t] \in {"ended", "lost"}

-----------------------------------------------------------------------------
\* What the scheduler promises (SerialLanes): a task has started when its worker
\* is spawned, and one that holds a slot before that is first in its lane.
Unspawned(c) ==
    IF c \in Active /\ running[c] \notin Live THEN <<running[c]>> ELSE << >>

Lanes == INSTANCE SerialLanes WITH
    Slots <- max_concurrent,
    WaitLimit <- MaxQueueDepth,
    lane <- [c \in Conversations |-> Unspawned(c) \o queued[c]],
    active <- Live,
    submitted <- Issued

ImplementsLanes == Lanes!LaneSpec
=============================================================================
