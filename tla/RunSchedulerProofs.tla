-------------------------- MODULE RunSchedulerProofs --------------------------
(***************************************************************************)
(* Proofs about RunScheduler, for every set of conversations and tasks and *)
(* every configured limit: what the handlers and workers do outside the    *)
(* lock, in any order, with a restart at any point, keeps one run for each *)
(* conversation, one carrier for each slot and one payload for each task   *)
(* that waits.                                                             *)
(*                                                                         *)
(* Every step of RunScheduler is a step of Scheduler, so SlotInv and       *)
(* OrderInv hold here too; CarrierInv is inductive relative to them.       *)
(***************************************************************************)
EXTENDS RunScheduler, SchedulerProofs

\* A message is handled from its submission on, and carried only then.
IssuedAreHandled ==
    \A t \in Tasks :
        /\ handler[t] = "idle" <=> t \notin Issued
        /\ worker[t] # "none" => t \in Issued

\* Nobody carries a task that waits.
WaitersAreIdle ==
    \A t \in queued_payloads :
        /\ worker[t] = "none" /\ handler[t] # "starting"
        /\ \A u \in Tasks : t \notin promoted[u]

\* Only a worker between finish and its end has tasks to spawn.
OnlyPromotersSpawn == \A u \in Tasks : promoted[u] # {} => worker[u] = "promoting"

CarrierInv ==
    /\ RunTypeOK /\ IssuedAreHandled /\ WaitersAreIdle /\ OnlyPromotersSpawn
    /\ SlotHasOneCarrier /\ PayloadsMatchQueue

-----------------------------------------------------------------------------
(* RunScheduler drives SchedulerState as Scheduler says *)

\* What the run scheduler does to the scheduler's state is a step of the scheduler, so
\* that the scheduler's invariants hold for it.
LEMMA RunStepsAreSchedulerSteps ==
  RunTypeOK /\ [RunNext]_runVars => [SchedulerNext]_schedulerVars
<1> SUFFICES ASSUME RunTypeOK, [RunNext]_runVars PROVE [SchedulerNext]_schedulerVars
  OBVIOUS
<1>1. ASSUME NEW t \in Tasks, HandlerNext(t)
      PROVE  [SchedulerNext]_schedulerVars
  BY <1>1 DEF HandlerNext, SubmitStartNow, SubmitQueued, SubmitQueueFull, SpawnStarted,
              SendWaitNotice, SendBusyNotice, HandlerDropped, Admit, SchedulerNext
<1>2. ASSUME NEW t \in Tasks, WorkerNext(t)
      PROVE  [SchedulerNext]_schedulerVars
  <2>1. CASE FinishRun(t)
    <3>1. ConversationKey[t] \in Conversations /\ worker[t] \in TerminalStates
          /\ Finish(ConversationKey[t], worker[t])
      BY <2>1, ConversationKeyAssumption DEF FinishRun, TerminalStates
    <3> QED
      BY <3>1 DEF SchedulerNext
  <2>2. CASE ~FinishRun(t)
    BY <1>2, <2>2 DEF WorkerNext, StartReaction, ReplyDelivered, RunFails,
                      NothingDelivered, WorkerStep, EndRun, SpawnPromoted
  <2> QED
    BY <2>1, <2>2
<1>3. CASE RestartServer
  BY <1>3 DEF RestartServer, SchedulerNext
<1>4. CASE UNCHANGED runVars
  BY <1>4 DEF runVars
<1> QED
  BY <1>1, <1>2, <1>3, <1>4 DEF RunNext

\* The tasks of a queue are tasks of its conversation, all different, and none runs.
LEMMA QueuedTasks ==
  ASSUME TypeOK, OrderInv, NEW c \in Conversations
  PROVE  /\ \A i \in DOMAIN queued[c] :
              /\ queued[c][i] \in Tasks /\ queued[c][i] \in Issued
              /\ ConversationKey[queued[c][i]] = c /\ running[c] # queued[c][i]
         /\ \A i, j \in DOMAIN queued[c] : queued[c][i] = queued[c][j] => i = j
<1>1. /\ DOMAIN queued[c] = 1..Len(queued[c]) /\ Len(queued[c]) \in Nat
      /\ \A i \in DOMAIN queued[c] : queued[c][i] \in Tasks
  BY QueuedTasksType
<1>2. ASSUME NEW i \in DOMAIN queued[c]
      PROVE  /\ queued[c][i] \in Issued /\ ConversationKey[queued[c][i]] = c
             /\ running[c] # queued[c][i]
  <2>1. queued[c][i] \in Issued /\ ConversationKey[queued[c][i]] = c
    BY DEF OrderInv, ServedInOrder
  <2>2. CASE c \in Active
    <3>1. Before(running[c], queued[c][i])
      BY <2>2 DEF OrderInv, ServedInOrder
    <3>2. running[c] = queued[c][i] => FALSE
      BY <3>1, BeforeIrreflexive DEF OrderInv
    <3> QED
      BY <2>1, <3>2
  <2>3. CASE c \notin Active
    BY <1>1, <2>1, <2>3, NoTaskAssumption DEF Active
  <2> QED
    BY <2>2, <2>3
<1>3. ASSUME NEW i \in DOMAIN queued[c], NEW j \in DOMAIN queued[c],
             queued[c][i] = queued[c][j]
      PROVE  i = j
  <2>1. ~(i < j)
    <3> SUFFICES ASSUME i < j PROVE FALSE
      OBVIOUS
    <3>1. Before(queued[c][i], queued[c][i])
      BY <1>3 DEF OrderInv, ServedInOrder
    <3> QED
      BY <3>1, BeforeIrreflexive DEF OrderInv
  <2>2. ~(j < i)
    <3> SUFFICES ASSUME j < i PROVE FALSE
      OBVIOUS
    <3>1. Before(queued[c][i], queued[c][i])
      BY <1>3 DEF OrderInv, ServedInOrder
    <3> QED
      BY <3>1, BeforeIrreflexive DEF OrderInv
  <2> QED
    BY <1>1, <2>1, <2>2
<1> QED
  BY <1>1, <1>2, <1>3

-----------------------------------------------------------------------------
(* CarrierInv is inductive: the handlers *)

\* A task that was not submitted has no slot, no place in a queue and no carrier.
LEMMA FreshTask ==
  ASSUME CarrierInv, OrderInv, NEW t \in Tasks, t \notin Issued
  PROVE  /\ worker[t] = "none" /\ handler[t] = "idle"
         /\ running[ConversationKey[t]] # t /\ t \notin queued_payloads
         /\ \A u \in Tasks : t \notin promoted[u]
<1>1. worker[t] = "none" /\ handler[t] = "idle"
  BY DEF CarrierInv, IssuedAreHandled, RunTypeOK
<1>2. running[ConversationKey[t]] # t
  BY ConversationKeyAssumption, NoTaskAssumption DEF OrderInv, ServedInOrder, Active
<1>3. t \notin queued_payloads
  BY ConversationKeyAssumption DEF OrderInv, ServedInOrder, CarrierInv, PayloadsMatchQueue
<1>4. \A u \in Tasks : t \notin promoted[u]
  BY <1>2 DEF CarrierInv, SlotHasOneCarrier
<1> QED
  BY <1>1, <1>2, <1>3, <1>4

\* A submission that starts at once carries the slot it took.
LEMMA SubmitStartNowCarrier ==
  ASSUME CarrierInv, SlotInv, OrderInv, TypeOK', NEW t \in Tasks, SubmitStartNow(t)
  PROVE  CarrierInv'
<1> DEFINE c == ConversationKey[t]
<1>1. /\ c \in Conversations /\ TypeOK /\ IssuedOnce /\ t \notin Issued
      /\ Issue(t) /\ AdmitStartNow(t)
  BY ConversationKeyAssumption DEF SlotInv, OrderInv, SubmitStartNow, Issue
<1>2. /\ c \notin Active /\ running' = [running EXCEPT ![c] = t] /\ queued' = queued
      /\ handler' = [handler EXCEPT ![t] = "starting"]
      /\ UNCHANGED <<queued_payloads, worker, promoted, sent>>
  BY <1>1 DEF SubmitStartNow, AdmitStartNow, can_start_now
<1>3. Issued' = Issued \cup {t}
  BY <1>1, IssueExtends
<1>4. /\ worker[t] = "none" /\ t \notin queued_payloads
      /\ \A u \in Tasks : t \notin promoted[u]
  BY <1>1, FreshTask
<1>5. /\ handler'[t] = "starting" /\ \A u \in Tasks \ {t} : handler'[u] = handler[u]
      /\ running'[c] = t /\ \A d \in Conversations \ {c} : running'[d] = running[d]
  BY <1>1, <1>2 DEF CarrierInv, RunTypeOK, TypeOK
<1>6. RunTypeOK'
  BY <1>2 DEF CarrierInv, RunTypeOK, HandlerPhases
<1>7. IssuedAreHandled' /\ WaitersAreIdle' /\ OnlyPromotersSpawn'
  BY <1>2, <1>3, <1>4, <1>5
     DEF CarrierInv, RunTypeOK, IssuedAreHandled, WaitersAreIdle, OnlyPromotersSpawn
<1>8. Live' = Live /\ Starting' = Starting \cup {t}
  BY <1>2, <1>5 DEF Live, Starting
<1>9. SlotHasOneCarrier'
  <2>1. ASSUME NEW u \in Tasks
        PROVE  (u \in Live \/ u \in Starting \/ \E v \in Tasks : u \in promoted[v])'
                 <=> running'[ConversationKey[u]] = u
    <3>1. CASE u = t
      BY <1>5, <1>8, <3>1
    <3>2. CASE u # t /\ ConversationKey[u] = c
      <4>1. running[c] # u
        BY <1>1, <1>2, NoTaskAssumption DEF Active
      <4> QED
        BY <1>2, <1>5, <1>8, <3>2, <4>1 DEF CarrierInv, SlotHasOneCarrier
    <3>3. CASE u # t /\ ConversationKey[u] # c
      BY <1>2, <1>5, <1>8, <3>3, ConversationKeyAssumption DEF CarrierInv, SlotHasOneCarrier
    <3> QED
      BY <3>1, <3>2, <3>3
  <2>2. \A u \in Starting' : worker'[u] = "none" /\ \A v \in Tasks : u \notin promoted'[v]
    BY <1>2, <1>4, <1>8 DEF CarrierInv, SlotHasOneCarrier
  <2> QED
    BY <1>2, <2>1, <2>2 DEF CarrierInv, SlotHasOneCarrier
<1>10. PayloadsMatchQueue'
  BY <1>2 DEF CarrierInv, PayloadsMatchQueue
<1> QED
  BY <1>6, <1>7, <1>9, <1>10 DEF CarrierInv

\* A submission that waits parks its payload with its task.
LEMMA SubmitQueuedCarrier ==
  ASSUME CarrierInv, SlotInv, OrderInv, TypeOK', NEW t \in Tasks, SubmitQueued(t)
  PROVE  CarrierInv'
<1> DEFINE c == ConversationKey[t]
           n == Len(queued[c])
<1>1. /\ c \in Conversations /\ TypeOK /\ IssuedOnce /\ t \notin Issued
      /\ Issue(t) /\ AdmitQueued(t)
  BY ConversationKeyAssumption DEF SlotInv, OrderInv, SubmitQueued, Issue
<1>2. /\ running' = running /\ queued' = [queued EXCEPT ![c] = Append(@, t)]
      /\ handler' = [handler EXCEPT ![t] = "wait_notice"]
      /\ queued_payloads' = queued_payloads \cup {t}
      /\ UNCHANGED <<worker, promoted, sent>>
  BY <1>1 DEF SubmitQueued, AdmitQueued, Enqueue
<1>3. Issued' = Issued \cup {t}
  BY <1>1, IssueExtends
<1>4. /\ worker[t] = "none" /\ handler[t] = "idle"
      /\ \A u \in Tasks : t \notin promoted[u]
  BY <1>1, FreshTask
<1>5. handler'[t] = "wait_notice" /\ \A u \in Tasks \ {t} : handler'[u] = handler[u]
  BY <1>2 DEF CarrierInv, RunTypeOK
<1>6. RunTypeOK'
  BY <1>2 DEF CarrierInv, RunTypeOK, HandlerPhases
<1>7. IssuedAreHandled' /\ WaitersAreIdle' /\ OnlyPromotersSpawn'
  BY <1>2, <1>3, <1>4, <1>5
     DEF CarrierInv, RunTypeOK, IssuedAreHandled, WaitersAreIdle, OnlyPromotersSpawn
<1>8. Live' = Live /\ Starting' = Starting
  BY <1>2, <1>4, <1>5 DEF Live, Starting
<1>9. SlotHasOneCarrier'
  BY <1>2, <1>8 DEF CarrierInv, SlotHasOneCarrier
<1>10. PayloadsMatchQueue'
  <2>1. /\ DOMAIN queued[c] = 1..n /\ n \in Nat
        /\ queued[c] \in Seq(Tasks)
    BY <1>1, QueuedTasksType
  <2>2. /\ queued'[c] = Append(queued[c], t)
        /\ \A d \in Conversations \ {c} : queued'[d] = queued[d]
    BY <1>1, <1>2 DEF TypeOK
  <2>3. /\ DOMAIN queued'[c] = 1..(n + 1) /\ queued'[c][n + 1] = t
        /\ \A i \in 1..n : queued'[c][i] = queued[c][i]
    BY <2>1, <2>2, AppendProperties, LenProperties
  <2>4. \A i \in 1..(n + 1) : i \in 1..n \/ i = n + 1
    BY <2>1
  <2>5. 1..n \subseteq 1..(n + 1) /\ n + 1 \in 1..(n + 1)
    BY <2>1
  <2>6. ASSUME NEW u \in Tasks
        PROVE  u \in queued_payloads' <=>
                 \E i \in DOMAIN queued'[ConversationKey[u]] : queued'[ConversationKey[u]][i] = u
    <3>1. CASE ConversationKey[u] = c
      <4>1. u \in queued_payloads <=> \E i \in 1..n : queued[c][i] = u
        BY <2>1, <3>1 DEF CarrierInv, PayloadsMatchQueue
      <4>2. (\E i \in 1..(n + 1) : queued'[c][i] = u)
               <=> (\E i \in 1..n : queued[c][i] = u) \/ u = t
        BY <2>3, <2>4, <2>5
      <4> QED
        BY <1>2, <2>3, <3>1, <4>1, <4>2
    <3>2. CASE ConversationKey[u] # c
      BY <1>2, <2>2, <3>2, ConversationKeyAssumption DEF CarrierInv, PayloadsMatchQueue
    <3> QED
      BY <3>1, <3>2
  <2> QED
    BY <2>6 DEF PayloadsMatchQueue
<1> QED
  BY <1>6, <1>7, <1>9, <1>10 DEF CarrierInv

\* A submission that is turned away leaves the slots and the payloads as they are.
LEMMA SubmitQueueFullCarrier ==
  ASSUME CarrierInv, SlotInv, OrderInv, TypeOK', NEW t \in Tasks, SubmitQueueFull(t)
  PROVE  CarrierInv'
<1>1. TypeOK /\ IssuedOnce /\ t \notin Issued /\ Issue(t)
  BY DEF SlotInv, OrderInv, SubmitQueueFull, Issue
<1>2. /\ UNCHANGED <<running, queued, queued_payloads, worker, promoted, sent>>
      /\ handler' = [handler EXCEPT ![t] = "busy_notice"]
  BY DEF SubmitQueueFull, AdmitQueueFull, state
<1>3. Issued' = Issued \cup {t} /\ handler[t] = "idle" /\ t \notin queued_payloads
  BY <1>1, IssueExtends, FreshTask
<1>4. handler'[t] = "busy_notice" /\ \A u \in Tasks \ {t} : handler'[u] = handler[u]
  BY <1>2 DEF CarrierInv, RunTypeOK
<1>5. RunTypeOK'
  BY <1>2 DEF CarrierInv, RunTypeOK, HandlerPhases
<1>6. IssuedAreHandled' /\ WaitersAreIdle' /\ OnlyPromotersSpawn'
  BY <1>2, <1>3, <1>4
     DEF CarrierInv, RunTypeOK, IssuedAreHandled, WaitersAreIdle, OnlyPromotersSpawn
<1>7. Live' = Live /\ Starting' = Starting
  BY <1>2, <1>3, <1>4 DEF Live, Starting
<1>8. SlotHasOneCarrier' /\ PayloadsMatchQueue'
  BY <1>2, <1>7 DEF CarrierInv, SlotHasOneCarrier, PayloadsMatchQueue
<1> QED
  BY <1>5, <1>6, <1>8 DEF CarrierInv

\* What the handler does after submit: spawn the task that starts, or send a notice, or
\* neither because it was dropped.
LEMMA HandlerEndsCarrier ==
  ASSUME CarrierInv, TypeOK, OrderInv, NEW t \in Tasks,
         SpawnStarted(t) \/ SendWaitNotice(t) \/ SendBusyNotice(t) \/ HandlerDropped(t)
  PROVE  CarrierInv'
<1>1. /\ UNCHANGED <<schedulerVars, queued_payloads, promoted>>
      /\ handler' = [handler EXCEPT ![t] = "answered"]
         \/ handler' = [handler EXCEPT ![t] = "lost"]
  BY DEF SpawnStarted, SendWaitNotice, SendBusyNotice, HandlerDropped
<1>2. /\ \A u \in Tasks \ {t} : handler'[u] = handler[u]
      /\ handler'[t] \in {"answered", "lost"} /\ handler[t] # "idle"
      /\ Issued' = Issued /\ t \in Issued
  BY <1>1 DEF CarrierInv, RunTypeOK, IssuedAreHandled, schedulerVars, Issued,
              SpawnStarted, SendWaitNotice, SendBusyNotice, HandlerDropped
<1>3. sent' \in [Tasks -> Seq(Sends)]
  <2>1. sent \in [Tasks -> Seq(Sends)] /\ sent[t] \in Seq(Sends)
    BY DEF CarrierInv, RunTypeOK
  <2>2. Append(sent[t], "wait") \in Seq(Sends) /\ Append(sent[t], "busy") \in Seq(Sends)
    BY <2>1, AppendProperties DEF Sends
  <2> QED
    BY <2>1, <2>2 DEF SpawnStarted, SendWaitNotice, SendBusyNotice, HandlerDropped, Send
<1>4. RunTypeOK'
  <2>1. worker' \in [Tasks -> WorkerPhases]
    BY DEF CarrierInv, RunTypeOK, WorkerPhases, SpawnStarted, SendWaitNotice,
           SendBusyNotice, HandlerDropped
  <2>2. handler' \in [Tasks -> HandlerPhases]
    BY <1>1 DEF CarrierInv, RunTypeOK, HandlerPhases
  <2> QED
    BY <1>1, <1>3, <2>1, <2>2 DEF CarrierInv, RunTypeOK, TypeOK, schedulerVars
<1>5. CASE SpawnStarted(t)
  <2>1. handler[t] = "starting" /\ worker' = [worker EXCEPT ![t] = "reaction"]
    BY <1>5 DEF SpawnStarted
  <2>2. t \in Starting /\ t \notin queued_payloads
    BY <2>1 DEF Starting, CarrierInv, WaitersAreIdle
  <2>3. worker[t] = "none" /\ \A u \in Tasks : t \notin promoted[u]
    BY <2>2 DEF CarrierInv, SlotHasOneCarrier
  <2>4. worker'[t] = "reaction" /\ \A u \in Tasks \ {t} : worker'[u] = worker[u]
    BY <2>1 DEF CarrierInv, RunTypeOK
  <2>5. Live' = Live \cup {t} /\ Starting' = Starting \ {t}
    BY <1>2, <2>4 DEF Live, Starting, LivePhases
  <2>6. IssuedAreHandled' /\ WaitersAreIdle' /\ OnlyPromotersSpawn'
    BY <1>1, <1>2, <2>2, <2>3, <2>4
       DEF CarrierInv, RunTypeOK, IssuedAreHandled, WaitersAreIdle, OnlyPromotersSpawn
  <2>7. SlotHasOneCarrier'
    <3>1. running' = running /\ promoted' = promoted
      BY <1>1 DEF schedulerVars
    <3>2. \A u \in Tasks :
             (u \in Live' \/ u \in Starting' \/ \E v \in Tasks : u \in promoted'[v])
                <=> running'[ConversationKey[u]] = u
      BY <2>2, <2>5, <3>1 DEF CarrierInv, SlotHasOneCarrier
    <3>3. \A u \in Starting' : worker'[u] = "none" /\ \A v \in Tasks : u \notin promoted'[v]
      BY <2>4, <2>5, <3>1 DEF CarrierInv, SlotHasOneCarrier, Starting
    <3>4. \A u, v \in Tasks : \A w \in promoted'[u] :
             worker'[w] = "none" /\ (w \in promoted'[v] => u = v)
      BY <2>3, <2>4, <3>1 DEF CarrierInv, RunTypeOK, SlotHasOneCarrier
    <3> QED
      BY <3>2, <3>3, <3>4 DEF SlotHasOneCarrier
  <2>8. PayloadsMatchQueue'
    BY <1>1 DEF CarrierInv, PayloadsMatchQueue, schedulerVars
  <2> QED
    BY <1>4, <2>6, <2>7, <2>8 DEF CarrierInv
<1>6. CASE ~SpawnStarted(t)
  <2>1. worker' = worker /\ handler[t] # "starting"
    BY <1>6 DEF SendWaitNotice, SendBusyNotice, HandlerDropped
  <2>2. Live' = Live /\ Starting' = Starting
    BY <1>2, <2>1 DEF Live, Starting
  <2>3. IssuedAreHandled' /\ WaitersAreIdle' /\ OnlyPromotersSpawn'
    BY <1>1, <1>2, <2>1
       DEF CarrierInv, RunTypeOK, IssuedAreHandled, WaitersAreIdle, OnlyPromotersSpawn
  <2>4. SlotHasOneCarrier' /\ PayloadsMatchQueue'
    BY <1>1, <2>1, <2>2
       DEF CarrierInv, SlotHasOneCarrier, PayloadsMatchQueue, schedulerVars
  <2> QED
    BY <1>4, <2>3, <2>4 DEF CarrierInv
<1> QED
  BY <1>5, <1>6

-----------------------------------------------------------------------------
(* CarrierInv is inductive: the workers and the restart *)

\* The steps of a worker that holds the slot change nobody else.
LEMMA WorkerStepCarrier ==
  ASSUME CarrierInv, NEW t \in Tasks,
         NEW from \in {"reaction", "executing"},
         NEW to \in {"executing", "completed", "failed"},
         WorkerStep(t, from, to), sent' \in [Tasks -> Seq(Sends)]
  PROVE  CarrierInv'
<1>1. /\ worker[t] = from /\ worker' = [worker EXCEPT ![t] = to]
      /\ UNCHANGED <<schedulerVars, queued_payloads, handler, promoted>>
  BY DEF WorkerStep
<1>2. worker'[t] = to /\ \A u \in Tasks \ {t} : worker'[u] = worker[u]
  BY <1>1 DEF CarrierInv, RunTypeOK
<1>3. RunTypeOK'
  BY <1>1 DEF CarrierInv, RunTypeOK, TypeOK, schedulerVars, WorkerPhases
<1>4. Live' = Live /\ Starting' = Starting /\ Issued' = Issued /\ worker[t] # "none"
  BY <1>1, <1>2 DEF Live, LivePhases, Starting, Issued, schedulerVars
<1>5. IssuedAreHandled' /\ WaitersAreIdle'
  BY <1>1, <1>2, <1>4 DEF CarrierInv, RunTypeOK, IssuedAreHandled, WaitersAreIdle
<1>6. OnlyPromotersSpawn'
  BY <1>1, <1>2 DEF CarrierInv, OnlyPromotersSpawn
<1>7. SlotHasOneCarrier'
  <2>1. \A u \in Tasks : worker[u] = "none" => worker'[u] = "none"
    BY <1>1, <1>2
  <2> QED
    BY <1>1, <1>4, <2>1
       DEF CarrierInv, RunTypeOK, SlotHasOneCarrier, Starting, schedulerVars
<1>8. PayloadsMatchQueue'
  BY <1>1 DEF CarrierInv, PayloadsMatchQueue, schedulerVars
<1> QED
  BY <1>3, <1>5, <1>6, <1>7, <1>8 DEF CarrierInv

\* The worker of t gives its slot on, to the first tasks of the queues of P, and takes
\* their payloads along.
TakesAlong(t, P) ==
    LET c == ConversationKey[t]
        taken == {queued[d][1] : d \in P} IN
    /\ running[c] = t /\ c \in Conversations /\ Issued' = Issued
    /\ \A d \in P : /\ 1 \in DOMAIN queued[d] /\ running'[d] = queued[d][1]
                    /\ d = c \/ running[d] = NoTask
                    /\ queued'[d] = Tail(queued[d]) /\ queued[d] # << >>
    /\ \A d \in Conversations \ P : /\ queued'[d] = queued[d]
                                    /\ running'[d] = IF d = c THEN NoTask ELSE running[d]
    /\ taken \subseteq queued_payloads
    /\ promoted' = [promoted EXCEPT ![t] = taken]
    /\ queued_payloads' = queued_payloads \ taken

\* What finish starts are the first tasks of some queues; their payloads are there,
\* so each of them is taken along to be spawned.
LEMMA FinishRunEffect ==
  ASSUME CarrierInv, SlotInv, OrderInv, NEW t \in Tasks, FinishRun(t)
  PROVE  \E P \in SUBSET Conversations : TakesAlong(t, P)
<1> DEFINE c == ConversationKey[t]
<1>1. c \in Conversations /\ TypeOK
  BY ConversationKeyAssumption DEF SlotInv
<1>2. worker[t] \in TerminalStates /\ Finish(c, worker[t])
  BY DEF FinishRun, TerminalStates
<1>3. running[c] = t
  <2>1. t \in Live
    BY DEF FinishRun, Live, LivePhases
  <2> QED
    BY <2>1 DEF CarrierInv, SlotHasOneCarrier
<1>4. PICK P \in SUBSET Conversations, k \in 0..Len(ready_conversations) :
           PassesOn(c, worker[t], P, k)
  BY <1>1, <1>2, FinishEffect
<1> USE DEF PassesOn
<1> DEFINE taken == {queued[d][1] : d \in P}
<1>5. ASSUME NEW d \in P
      PROVE  /\ 1 \in DOMAIN queued[d] /\ running'[d] = queued[d][1]
             /\ d = c \/ running[d] = NoTask
             /\ queued'[d] = Tail(queued[d]) /\ queued[d] # << >>
             /\ queued[d][1] \in queued_payloads /\ running[d] # queued[d][1]
  <2>1. Head(queued[d]) = queued[d][1] /\ 1 \in DOMAIN queued[d]
    BY <1>1, <1>4, QueuedTasksType
  <2>2. /\ queued[d][1] \in Tasks /\ ConversationKey[queued[d][1]] = d
        /\ running[d] # queued[d][1]
    BY <1>1, <1>4, <2>1, QueuedTasks
  <2>3. queued[d][1] \in queued_payloads
    BY <2>1, <2>2 DEF CarrierInv, PayloadsMatchQueue
  <2> QED
    BY <1>4, <2>1, <2>2, <2>3 DEF Active
<1>6. \A d \in Conversations \ P : /\ queued'[d] = queued[d]
                                   /\ running'[d] = IF d = c THEN NoTask ELSE running[d]
  BY <1>4
<1>7. {running'[d] : d \in {e \in Conversations : running'[e] # running[e]}}
        \cap queued_payloads = taken
  <2> DEFINE changed == {e \in Conversations : running'[e] # running[e]}
  <2>1. P \subseteq changed
    BY <1>5
  <2>2. \A d \in changed \ P : running'[d] = NoTask
    BY <1>6
  <2>3. NoTask \notin queued_payloads
    BY NoTaskAssumption DEF CarrierInv, RunTypeOK
  <2>4. ASSUME NEW x \in taken
        PROVE  x \in {running'[d] : d \in changed} \cap queued_payloads
    BY <1>5, <2>1
  <2>5. ASSUME NEW x \in {running'[d] : d \in changed} \cap queued_payloads
        PROVE  x \in taken
    BY <1>5, <2>2, <2>3
  <2> QED
    BY <2>4, <2>5
<1>8. /\ promoted' = [promoted EXCEPT ![t] = taken]
      /\ queued_payloads' = queued_payloads \ taken
  BY <1>7 DEF FinishRun
<1>9. taken \subseteq queued_payloads /\ Issued' = Issued
  <2>1. taken \subseteq queued_payloads
    BY <1>5
  <2>2. issued' = issued
    BY <1>4
  <2> QED
    BY <2>1, <2>2 DEF Issued
<1> WITNESS P \in SUBSET Conversations
<1> QED
  BY <1>1, <1>3, <1>5, <1>6, <1>8, <1>9 DEF TakesAlong

\* A run that ends hands its slot, and those it found free, to the payloads it unparks.
LEMMA FinishRunCarrier ==
  ASSUME CarrierInv, SlotInv, OrderInv, TypeOK', NEW t \in Tasks, FinishRun(t)
  PROVE  CarrierInv'
<1> DEFINE c == ConversationKey[t]
<1>1. PICK P \in SUBSET Conversations : TakesAlong(t, P)
  BY FinishRunEffect
<1> USE DEF TakesAlong
<1> DEFINE taken == {queued[d][1] : d \in P}
<1>2. /\ worker[t] \in {"completed", "failed"} /\ worker' = [worker EXCEPT ![t] = "promoting"]
      /\ UNCHANGED <<handler, sent>>
  BY DEF FinishRun
<1>3. TypeOK /\ RunTypeOK
  BY DEF SlotInv, CarrierInv
<1>4. worker'[t] = "promoting" /\ \A u \in Tasks \ {t} : worker'[u] = worker[u]
  BY <1>2, <1>3 DEF RunTypeOK
<1>5. taken \subseteq queued_payloads /\ taken \subseteq Tasks
  BY <1>1, <1>3 DEF RunTypeOK
<1>6. promoted'[t] = taken /\ \A u \in Tasks \ {t} : promoted'[u] = promoted[u]
  BY <1>1, <1>3 DEF RunTypeOK
<1>7. promoted[t] = {}
  BY <1>2 DEF CarrierInv, OnlyPromotersSpawn
<1>8. \A u \in taken : /\ worker[u] = "none" /\ handler[u] # "starting"
                       /\ \A v \in Tasks : u \notin promoted[v]
  BY <1>5 DEF CarrierInv, WaitersAreIdle
<1>9. t \notin taken /\ t \notin Starting /\ \A u \in Tasks : t \notin promoted[u]
  BY <1>2, <1>8 DEF CarrierInv, SlotHasOneCarrier, RunTypeOK
<1>10. Live' = Live \ {t} /\ Starting' = Starting
  BY <1>2, <1>4 DEF Live, LivePhases, Starting
<1>11. \A d \in P : ConversationKey[queued[d][1]] = d
  BY <1>1, <1>3, QueuedTasks
<1> HIDE DEF c, taken
<1>12. RunTypeOK'
  <2>1. promoted' \in [Tasks -> SUBSET Tasks] /\ queued_payloads' \in SUBSET Tasks
    BY <1>1, <1>3, <1>5 DEF RunTypeOK, taken
  <2> QED
    BY <1>2, <1>3, <2>1 DEF RunTypeOK, WorkerPhases
<1>13. IssuedAreHandled'
  BY <1>1, <1>2, <1>4 DEF CarrierInv, IssuedAreHandled
<1>14. WaitersAreIdle'
  <2> SUFFICES ASSUME NEW u \in queued_payloads'
               PROVE  /\ worker'[u] = "none" /\ handler'[u] # "starting"
                      /\ \A v \in Tasks : u \notin promoted'[v]
    BY DEF WaitersAreIdle
  <2>1. u \in queued_payloads /\ u \notin taken
    BY <1>1 DEF taken
  <2>2. /\ worker[u] = "none" /\ handler[u] # "starting" /\ u \in Tasks
        /\ \A v \in Tasks : u \notin promoted[v]
    BY <1>3, <2>1 DEF CarrierInv, WaitersAreIdle, RunTypeOK
  <2> QED
    BY <1>2, <1>4, <1>6, <2>1, <2>2
<1>15. OnlyPromotersSpawn'
  BY <1>4, <1>6 DEF CarrierInv, OnlyPromotersSpawn
<1>16. SlotHasOneCarrier'
  <2>1. ASSUME NEW u \in Tasks
        PROVE  (u \in Live' \/ u \in Starting' \/ \E v \in Tasks : u \in promoted'[v])
                 <=> running'[ConversationKey[u]] = u
    <3> DEFINE d == ConversationKey[u]
    <3>1. d \in Conversations /\ u # NoTask
      BY ConversationKeyAssumption, NoTaskAssumption
    <3>2. (u \in Live \/ u \in Starting \/ \E v \in Tasks : u \in promoted[v])
             <=> running[d] = u
      BY DEF CarrierInv, SlotHasOneCarrier
    <3>3. CASE u \in taken
      <4>1. PICK e \in P : u = queued[e][1]
        BY <3>3 DEF taken
      <4>2. running'[d] = u
        BY <1>1, <1>11, <4>1
      <4> QED
        BY <1>6, <3>3, <4>2
    <3>4. CASE u = t
      <4>1. u \notin Live' /\ u \notin Starting' /\ \A v \in Tasks : u \notin promoted'[v]
        BY <1>6, <1>9, <1>10, <3>4
      <4>2. running'[d] # u
        <5>1. CASE d \in P
          BY <1>1, <1>9, <3>4, <5>1 DEF taken
        <5>2. CASE d \notin P
          BY <1>1, <3>1, <3>4, <5>2 DEF c
        <5> QED
          BY <5>1, <5>2
      <4> QED
        BY <4>1, <4>2
    <3>5. CASE u # t /\ u \notin taken
      <4>1. (u \in Live' \/ u \in Starting' \/ \E v \in Tasks : u \in promoted'[v])
               <=> (u \in Live \/ u \in Starting \/ \E v \in Tasks : u \in promoted[v])
        BY <1>6, <1>7, <1>10, <3>5
      <4>2. running'[d] = u <=> running[d] = u
        <5>1. CASE d \in P
          BY <1>1, <3>1, <3>5, <5>1 DEF taken
        <5>2. CASE d \notin P
          BY <1>1, <3>1, <3>5, <5>2
        <5> QED
          BY <5>1, <5>2
      <4> QED
        BY <3>2, <4>1, <4>2
    <3> QED
      BY <3>3, <3>4, <3>5
  <2>2. \A u \in Starting' : worker'[u] = "none" /\ \A v \in Tasks : u \notin promoted'[v]
    <3> SUFFICES ASSUME NEW u \in Starting, NEW v \in Tasks
                 PROVE  worker'[u] = "none" /\ u \notin promoted'[v]
      BY <1>10
    <3>1. u \in Tasks /\ worker[u] = "none" /\ u \notin promoted[v] /\ u \notin taken /\ u # t
      BY <1>8, <1>9 DEF CarrierInv, SlotHasOneCarrier, Starting
    <3> QED
      BY <1>4, <1>6, <3>1
  <2>3. ASSUME NEW u \in Tasks, NEW v \in Tasks, NEW w \in promoted'[u]
        PROVE  worker'[w] = "none" /\ (w \in promoted'[v] => u = v)
    <3>1. CASE w \in taken
      BY <1>4, <1>5, <1>6, <1>8, <1>9, <3>1
    <3>2. CASE w \notin taken
      <4>1. u # t /\ w \in promoted[u] /\ w \in Tasks
        BY <1>3, <1>6, <2>3, <3>2 DEF RunTypeOK
      <4>2. worker[w] = "none" /\ (w \in promoted[v] => u = v) /\ w # t
        BY <1>2, <4>1 DEF CarrierInv, SlotHasOneCarrier
      <4> QED
        BY <1>4, <1>6, <3>2, <4>1, <4>2
    <3> QED
      BY <3>1, <3>2
  <2> QED
    BY <2>1, <2>2, <2>3 DEF SlotHasOneCarrier
<1>17. PayloadsMatchQueue'
  <2> SUFFICES ASSUME NEW u \in Tasks
               PROVE  u \in queued_payloads' <=>
                        \E i \in DOMAIN queued'[ConversationKey[u]] :
                           queued'[ConversationKey[u]][i] = u
    BY DEF PayloadsMatchQueue
  <2> DEFINE d == ConversationKey[u]
  <2>1. d \in Conversations
    BY ConversationKeyAssumption
  <2>2. u \in queued_payloads <=> \E i \in DOMAIN queued[d] : queued[d][i] = u
    BY DEF CarrierInv, PayloadsMatchQueue
  <2>3. u \in taken <=> d \in P /\ u = queued[d][1]
    BY <1>11 DEF taken
  <2>4. CASE d \notin P
    BY <1>1, <2>1, <2>2, <2>3, <2>4 DEF taken
  <2>5. CASE d \in P
    <3>1. queued[d] \in Seq(Tasks) /\ queued[d] # << >> /\ queued'[d] = Tail(queued[d])
      BY <1>1, <1>3, <2>1, <2>5, QueuedTasksType
    <3>2. /\ 1 \in DOMAIN queued[d]
          /\ DOMAIN queued[d] = 1..Len(queued[d]) /\ DOMAIN queued'[d] = 1..(Len(queued[d]) - 1)
          /\ Len(queued[d]) \in Nat
          /\ \A i \in DOMAIN queued'[d] : /\ i + 1 \in DOMAIN queued[d]
                                          /\ queued'[d][i] = queued[d][i + 1]
      BY <3>1, TailShifts
    <3>3. \A i, j \in DOMAIN queued[d] : queued[d][i] = queued[d][j] => i = j
      BY <1>3, <2>1, QueuedTasks
    <3>4. ASSUME NEW i \in DOMAIN queued[d], queued[d][i] = u, u # queued[d][1]
          PROVE  \E j \in DOMAIN queued'[d] : queued'[d][j] = u
      <4>1. i - 1 \in 1..(Len(queued[d]) - 1) /\ (i - 1) + 1 = i
        <5>1. i # 1 /\ i \in 1..Len(queued[d])
          BY <3>2, <3>4
        <5> QED
          BY <3>2, <5>1
      <4> QED
        BY <3>2, <3>4, <4>1
    <3>5. ASSUME NEW j \in DOMAIN queued'[d], queued'[d][j] = u
          PROVE  (\E i \in DOMAIN queued[d] : queued[d][i] = u) /\ u # queued[d][1]
      <4>1. j + 1 \in DOMAIN queued[d] /\ queued[d][j + 1] = u
        BY <3>2, <3>5
      <4>2. j + 1 # 1
        <5>1. j \in 1..(Len(queued[d]) - 1)
          BY <3>2
        <5> QED
          BY <3>2, <5>1
      <4> QED
        BY <3>2, <3>3, <4>1, <4>2
    <3> QED
      BY <1>1, <2>2, <2>3, <2>5, <3>4, <3>5 DEF taken
  <2> QED
    BY <2>4, <2>5
<1> QED
  BY <1>12, <1>13, <1>14, <1>15, <1>16, <1>17 DEF CarrierInv

\* An unparked payload becomes the run that carries the slot.
LEMMA SpawnPromotedCarrier ==
  ASSUME CarrierInv, TypeOK, OrderInv, NEW t \in Tasks, NEW next \in Tasks,
         SpawnPromoted(t, next)
  PROVE  CarrierInv'
<1>1. /\ worker[t] = "promoting" /\ next \in promoted[t]
      /\ promoted' = [promoted EXCEPT ![t] = @ \ {next}]
      /\ worker' = [worker EXCEPT ![next] = "reaction"]
      /\ UNCHANGED <<schedulerVars, queued_payloads, handler, sent>>
  BY DEF SpawnPromoted
<1>2. RunTypeOK
  BY DEF CarrierInv
<1>3. /\ worker'[next] = "reaction" /\ \A u \in Tasks \ {next} : worker'[u] = worker[u]
      /\ promoted'[t] = promoted[t] \ {next}
      /\ \A u \in Tasks \ {t} : promoted'[u] = promoted[u]
  BY <1>1, <1>2 DEF RunTypeOK
<1>4. /\ worker[next] = "none" /\ running[ConversationKey[next]] = next
      /\ \A v \in Tasks : next \in promoted[v] => v = t
      /\ next # t
  BY <1>1 DEF CarrierInv, SlotHasOneCarrier
<1>5. next \notin Starting /\ next \notin queued_payloads /\ promoted[next] = {}
  BY <1>1, <1>4 DEF CarrierInv, SlotHasOneCarrier, WaitersAreIdle, OnlyPromotersSpawn
<1>6. next \in Issued /\ Issued' = Issued
  <2>1. ConversationKey[next] \in Active
    BY <1>4, ConversationKeyAssumption, NoTaskAssumption DEF Active
  <2>2. ConversationKey[next] \in Conversations
    BY ConversationKeyAssumption
  <2>3. running[ConversationKey[next]] \in Issued
    BY <2>1, <2>2 DEF OrderInv, ServedInOrder
  <2> QED
    BY <1>1, <1>4, <2>3 DEF Issued, schedulerVars
<1>7. Live' = Live \cup {next} /\ Starting' = Starting
  BY <1>1, <1>3 DEF Live, LivePhases, Starting
<1>8. RunTypeOK'
  BY <1>1, <1>2 DEF RunTypeOK, WorkerPhases, TypeOK, schedulerVars
<1>9. IssuedAreHandled'
  BY <1>1, <1>3, <1>6 DEF CarrierInv, IssuedAreHandled
<1>10. WaitersAreIdle'
  BY <1>1, <1>2, <1>3, <1>5 DEF CarrierInv, WaitersAreIdle, RunTypeOK
<1>11. OnlyPromotersSpawn'
  BY <1>1, <1>3, <1>4, <1>5 DEF CarrierInv, OnlyPromotersSpawn
<1>12. SlotHasOneCarrier'
  <2>1. running' = running
    BY <1>1 DEF schedulerVars
  <2>2. \A u \in Tasks :
           (u \in Live' \/ u \in Starting' \/ \E v \in Tasks : u \in promoted'[v])
              <=> running'[ConversationKey[u]] = u
    BY <1>1, <1>3, <1>4, <1>7, <2>1 DEF CarrierInv, SlotHasOneCarrier
  <2>3. \A u \in Starting' : worker'[u] = "none" /\ \A v \in Tasks : u \notin promoted'[v]
    BY <1>3, <1>5, <1>7 DEF CarrierInv, SlotHasOneCarrier, Starting
  <2>4. ASSUME NEW u \in Tasks, NEW v \in Tasks, NEW w \in promoted'[u]
        PROVE  worker'[w] = "none" /\ (w \in promoted'[v] => u = v)
    <3>1. w \in promoted[u] /\ w # next /\ w \in Tasks
      BY <1>2, <1>3, <1>4, <2>4 DEF RunTypeOK
    <3>2. worker[w] = "none" /\ (w \in promoted[v] => u = v)
      BY <3>1 DEF CarrierInv, SlotHasOneCarrier
    <3> QED
      BY <1>3, <3>1, <3>2
  <2> QED
    BY <2>2, <2>3, <2>4 DEF SlotHasOneCarrier
<1>13. PayloadsMatchQueue'
  BY <1>1 DEF CarrierInv, PayloadsMatchQueue, schedulerVars
<1> QED
  BY <1>8, <1>9, <1>10, <1>11, <1>12, <1>13 DEF CarrierInv

\* The last step of a run comes after its slot was passed on.
LEMMA EndRunCarrier ==
  ASSUME CarrierInv, TypeOK, NEW t \in Tasks, EndRun(t)
  PROVE  CarrierInv'
<1>1. /\ worker[t] = "promoting" /\ promoted[t] = {}
      /\ worker' = [worker EXCEPT ![t] = "ended"]
      /\ UNCHANGED <<schedulerVars, queued_payloads, handler, promoted, sent>>
  BY DEF EndRun
<1>2. worker'[t] = "ended" /\ \A u \in Tasks \ {t} : worker'[u] = worker[u]
  BY <1>1 DEF CarrierInv, RunTypeOK
<1>3. Live' = Live /\ Starting' = Starting /\ Issued' = Issued
  BY <1>1, <1>2 DEF Live, LivePhases, Starting, Issued, schedulerVars
<1>4. RunTypeOK'
  BY <1>1 DEF CarrierInv, RunTypeOK, WorkerPhases, TypeOK, schedulerVars
<1>5. IssuedAreHandled' /\ WaitersAreIdle' /\ OnlyPromotersSpawn'
  BY <1>1, <1>2, <1>3
     DEF CarrierInv, RunTypeOK, IssuedAreHandled, WaitersAreIdle, OnlyPromotersSpawn
<1>6. SlotHasOneCarrier'
  <2>1. \A u \in Tasks : worker[u] = "none" => worker'[u] = "none"
    BY <1>1, <1>2
  <2> QED
    BY <1>1, <1>3, <2>1
       DEF CarrierInv, RunTypeOK, SlotHasOneCarrier, Starting, schedulerVars
<1>7. PayloadsMatchQueue'
  BY <1>1 DEF CarrierInv, PayloadsMatchQueue, schedulerVars
<1> QED
  BY <1>4, <1>5, <1>6, <1>7 DEF CarrierInv

\* After a restart nobody holds a slot or carries a task.
LEMMA RestartServerCarrier ==
  ASSUME CarrierInv, SlotInv, OrderInv, TypeOK', RestartServer
  PROVE  CarrierInv'
<1>1. /\ running' = NoneRunning /\ queued' = NoneQueued /\ issued' = issued
      /\ queued_payloads' = {}
      /\ handler' = [t \in Tasks |-> IF handler[t] \in {"idle", "answered"}
                                     THEN handler[t] ELSE "lost"]
      /\ worker' = [t \in Tasks |-> IF t \in Accepted THEN "lost"
                      ELSE IF worker[t] = "promoting" THEN "ended" ELSE worker[t]]
      /\ promoted' = [t \in Tasks |-> {}]
      /\ sent' = sent
  BY DEF RestartServer, Restart
<1>2. RunTypeOK'
  BY <1>1 DEF CarrierInv, RunTypeOK, HandlerPhases, WorkerPhases
<1>3. \A t \in Accepted : t \in Tasks => t \in Issued
  <2>1. \A t \in queued_payloads : t \in Issued
    BY ConversationKeyAssumption
       DEF CarrierInv, RunTypeOK, PayloadsMatchQueue, OrderInv, ServedInOrder
  <2>2. \A c \in Active : running[c] \in Issued
    BY DEF OrderInv, ServedInOrder, Active
  <2> QED
    BY <2>1, <2>2 DEF Accepted
<1>4. IssuedAreHandled'
  <2>1. Issued' = Issued
    BY <1>1 DEF Issued
  <2>2. \A t \in Tasks : (handler'[t] = "idle" <=> handler[t] = "idle")
                         /\ (worker'[t] # "none" => t \in Accepted \/ worker[t] # "none")
    BY <1>1
  <2> QED
    BY <1>3, <2>1, <2>2 DEF CarrierInv, IssuedAreHandled
<1>5. WaitersAreIdle' /\ OnlyPromotersSpawn'
  BY <1>1 DEF WaitersAreIdle, OnlyPromotersSpawn
<1>6. Live' = {} /\ Starting' = {}
  <2>1. \A t \in Live : t \in Accepted
    BY ConversationKeyAssumption, NoTaskAssumption
       DEF CarrierInv, SlotHasOneCarrier, Accepted, Active, Live
  <2>2. \A t \in Tasks : worker'[t] \in LivePhases => worker[t] \in LivePhases /\ t \notin Accepted
    BY <1>1 DEF LivePhases
  <2>3. \A t \in Tasks : worker'[t] \notin LivePhases
    BY <2>1, <2>2 DEF Live
  <2>4. \A t \in Tasks : handler'[t] # "starting"
    BY <1>1
  <2> QED
    BY <2>3, <2>4 DEF Live, Starting
<1>7. SlotHasOneCarrier'
  <2>1. \A t \in Tasks : running'[ConversationKey[t]] # t
    BY <1>1, ConversationKeyAssumption, NoTaskAssumption DEF NoneRunning
  <2> QED
    BY <1>1, <1>6, <2>1 DEF SlotHasOneCarrier
<1>8. PayloadsMatchQueue'
  BY <1>1, ConversationKeyAssumption DEF PayloadsMatchQueue, NoneQueued
<1> QED
  BY <1>2, <1>4, <1>5, <1>7, <1>8 DEF CarrierInv

\* Every step of the run scheduler leaves each slot with one carrier.
LEMMA NextCarrier ==
  SlotInv /\ OrderInv /\ CarrierInv /\ TypeOK' /\ [RunNext]_runVars => CarrierInv'
<1> SUFFICES ASSUME SlotInv, OrderInv, CarrierInv, TypeOK', [RunNext]_runVars
             PROVE  CarrierInv'
  OBVIOUS
<1>1. TypeOK
  BY DEF SlotInv
<1>2. ASSUME NEW t \in Tasks, HandlerNext(t)
      PROVE  CarrierInv'
  BY <1>1, <1>2, SubmitStartNowCarrier, SubmitQueuedCarrier, SubmitQueueFullCarrier,
     HandlerEndsCarrier DEF HandlerNext
<1>3. ASSUME NEW t \in Tasks, WorkerNext(t)
      PROVE  CarrierInv'
  <2>1. ASSUME Send(t, "reaction") \/ Send(t, "reply") \/ UNCHANGED sent
        PROVE  sent' \in [Tasks -> Seq(Sends)]
    <3>1. sent \in [Tasks -> Seq(Sends)] /\ sent[t] \in Seq(Sends)
      BY DEF CarrierInv, RunTypeOK
    <3>2. Append(sent[t], "reaction") \in Seq(Sends) /\ Append(sent[t], "reply") \in Seq(Sends)
      BY <3>1, AppendProperties DEF Sends
    <3> QED
      BY <2>1, <3>1, <3>2 DEF Send
  <2>2. CASE StartReaction(t)
    BY <2>1, <2>2, WorkerStepCarrier DEF StartReaction
  <2>3. CASE ReplyDelivered(t) \/ RunFails(t) \/ NothingDelivered(t)
    BY <2>1, <2>3, WorkerStepCarrier DEF ReplyDelivered, RunFails, NothingDelivered
  <2>4. CASE FinishRun(t)
    BY <2>4, FinishRunCarrier
  <2>5. CASE EndRun(t)
    BY <1>1, <2>5, EndRunCarrier
  <2>6. CASE \E next \in Tasks : SpawnPromoted(t, next)
    BY <1>1, <2>6, SpawnPromotedCarrier
  <2> QED
    BY <1>3, <2>2, <2>3, <2>4, <2>5, <2>6 DEF WorkerNext
<1>4. CASE RestartServer
  BY <1>4, RestartServerCarrier
<1>5. CASE UNCHANGED runVars
  BY <1>5 DEF runVars, serverVars, schedulerVars, CarrierInv, RunTypeOK, IssuedAreHandled,
              WaitersAreIdle, OnlyPromotersSpawn, SlotHasOneCarrier, PayloadsMatchQueue,
              Live, Starting, Issued
<1> QED
  BY <1>2, <1>3, <1>4, <1>5 DEF RunNext

-----------------------------------------------------------------------------
(* What a sender is told *)

\* A task that was rejected, or is about to be told so, is never carried; a notice is
\* the last thing its handler does; and the worker reacts and replies once, in this
\* order.
FeedbackInv ==
    \A t \in Tasks :
        /\ "wait" \in Seen(t) \/ "busy" \in Seen(t) => handler[t] \in {"answered", "lost"}
        /\ "busy" \in Seen(t) \/ handler[t] = "busy_notice" =>
              worker[t] = "none" /\ t \notin queued_payloads /\ running[ConversationKey[t]] # t
        /\ "reaction" \in Seen(t) => worker[t] \notin {"none", "reaction"}
        /\ "reply" \in Seen(t) => worker[t] \notin {"none", "reaction", "executing"}
        /\ "busy" \in Seen(t) => Seen(t) = {"busy"}
        /\ \A i, j \in DOMAIN sent[t] :
             i < j => /\ sent[t][i] # sent[t][j]
                      /\ sent[t][i] = "reply" => sent[t][j] = "wait"

\* A message that was not sent before comes after all that were.
LEMMA SendEffect ==
  ASSUME RunTypeOK, NEW t \in Tasks, NEW p \in Sends, Send(t, p), p \notin Seen(t),
         "reply" \in Seen(t) => p = "wait",
         \A i, j \in DOMAIN sent[t] :
             i < j => /\ sent[t][i] # sent[t][j]
                      /\ sent[t][i] = "reply" => sent[t][j] = "wait"
  PROVE  /\ Seen(t)' = Seen(t) \cup {p}
         /\ \A u \in Tasks \ {t} : sent'[u] = sent[u]
         /\ \A i, j \in DOMAIN sent'[t] :
             i < j => /\ sent'[t][i] # sent'[t][j]
                      /\ sent'[t][i] = "reply" => sent'[t][j] = "wait"
<1> DEFINE n == Len(sent[t])
<1>1. sent[t] \in Seq(Sends) /\ sent'[t] = Append(sent[t], p)
      /\ \A u \in Tasks \ {t} : sent'[u] = sent[u]
  BY DEF RunTypeOK, Send
<1>2. /\ n \in Nat /\ DOMAIN sent[t] = 1..n /\ DOMAIN sent'[t] = 1..(n + 1)
      /\ \A i \in 1..n : sent'[t][i] = sent[t][i]
      /\ sent'[t][n + 1] = p
  BY <1>1, AppendProperties, LenProperties
<1>3. \A i \in 1..n : sent[t][i] \in Seen(t)
  BY <1>2 DEF Seen
<1>4. Seen(t)' = Seen(t) \cup {p}
  BY <1>2 DEF Seen
<1>5. ASSUME NEW i \in 1..(n + 1), NEW j \in 1..(n + 1), i < j
      PROVE  /\ sent'[t][i] # sent'[t][j]
             /\ sent'[t][i] = "reply" => sent'[t][j] = "wait"
  <2>1. i \in 1..n
    BY <1>2, <1>5
  <2>2. CASE j \in 1..n
    BY <1>2, <1>5, <2>1, <2>2
  <2>3. CASE j = n + 1
    BY <1>2, <1>3, <2>1, <2>3
  <2> QED
    BY <1>2, <2>2, <2>3
<1> QED
  BY <1>1, <1>2, <1>4, <1>5

\* What is promoted was waiting, so no rejected task gets a slot.
LEMMA FeedbackStep ==
  ASSUME SlotInv, OrderInv, CarrierInv, FeedbackInv, [RunNext]_runVars
  PROVE  FeedbackInv'
<1>1. TypeOK /\ RunTypeOK
  BY DEF SlotInv, CarrierInv
<1> DEFINE Rejected(t) == "busy" \in Seen(t) \/ handler[t] = "busy_notice"
           Fits(t) ==
             /\ "wait" \in Seen(t) \/ "busy" \in Seen(t) => handler[t] \in {"answered", "lost"}
             /\ Rejected(t) =>
                   worker[t] = "none" /\ t \notin queued_payloads /\ running[ConversationKey[t]] # t
             /\ "reaction" \in Seen(t) => worker[t] \notin {"none", "reaction"}
             /\ "reply" \in Seen(t) => worker[t] \notin {"none", "reaction", "executing"}
             /\ "busy" \in Seen(t) => Seen(t) = {"busy"}
             /\ \A i, j \in DOMAIN sent[t] :
                  i < j => /\ sent[t][i] # sent[t][j]
                           /\ sent[t][i] = "reply" => sent[t][j] = "wait"
<1>2. \A u \in Tasks : Fits(u)
  BY DEF FeedbackInv
<1>3. SUFFICES ASSUME NEW u \in Tasks PROVE Fits(u)'
  BY DEF FeedbackInv
<1>4. Fits(u)
  BY <1>2
<1>5. ASSUME sent' = sent, handler'[u] = handler[u], worker'[u] = worker[u],
             ~(Rejected(u) /\ (u \in queued_payloads' \/ running'[ConversationKey[u]] = u))
      PROVE  Fits(u)'
  <2>1. Seen(u)' = Seen(u)
    BY <1>5 DEF Seen
  <2> QED
    BY <1>4, <1>5, <2>1
<1>6. Rejected(u) => u \notin queued_payloads /\ running[ConversationKey[u]] # u
  BY <1>4
<1> HIDE DEF Fits
<1>7. Seen(u) \subseteq Sends
  <2>1. sent[u] \in Seq(Sends)
    BY <1>1 DEF RunTypeOK
  <2> QED
    BY <2>1, ElementOfSeq DEF Seen
<1>8. ASSUME NEW t \in Tasks, HandlerNext(t)
      PROVE  Fits(u)'
  <2>1. CASE SubmitStartNow(t) \/ SubmitQueued(t) \/ SubmitQueueFull(t)
    <3>1. /\ t \notin Issued
          /\ sent' = sent /\ worker' = worker /\ queued_payloads' \subseteq queued_payloads \cup {t}
          /\ running' = running \/ running' = [running EXCEPT ![ConversationKey[t]] = t]
          /\ \A v \in Tasks \ {t} : handler'[v] = handler[v]
          /\ handler'[t] \in {"starting", "wait_notice", "busy_notice"}
          /\ handler'[t] = "busy_notice" => queued_payloads' = queued_payloads /\ running' = running
      BY <1>1, <2>1 DEF SubmitStartNow, SubmitQueued, SubmitQueueFull, Issue, AdmitStartNow,
                        AdmitQueued, AdmitQueueFull, state, RunTypeOK
    <3>2. CASE u = t
      <4>1. /\ worker[u] = "none" /\ handler[u] = "idle" /\ u \notin queued_payloads
            /\ running[ConversationKey[u]] # u
        BY <3>1, <3>2, FreshTask
      <4>2. Seen(u)' = {} /\ Seen(u) = {}
        BY <1>4, <1>7, <3>1, <4>1 DEF Fits, Seen, Sends
      <4> QED
        BY <1>4, <3>1, <3>2, <4>1, <4>2 DEF Fits
    <3>3. CASE u # t
      <4>1. running'[ConversationKey[u]] = u => running[ConversationKey[u]] = u
        BY <1>1, <3>1, <3>3, ConversationKeyAssumption DEF TypeOK
      <4> QED
        BY <1>5, <1>6, <3>1, <3>3, <4>1
    <3> QED
      BY <3>2, <3>3
  <2>2. CASE ~(SubmitStartNow(t) \/ SubmitQueued(t) \/ SubmitQueueFull(t))
    <3>1. /\ queued_payloads' = queued_payloads /\ running' = running
          /\ \A v \in Tasks \ {t} : handler'[v] = handler[v] /\ worker'[v] = worker[v]
          /\ handler'[t] \in {"answered", "lost"}
      BY <1>1, <1>8, <2>2 DEF HandlerNext, SpawnStarted, SendWaitNotice, SendBusyNotice,
                              HandlerDropped, schedulerVars, RunTypeOK
    <3>2. CASE SpawnStarted(t)
      <4>1. handler[t] = "starting" /\ worker'[t] = "reaction" /\ sent' = sent
        BY <1>1, <3>2 DEF SpawnStarted, RunTypeOK
      <4>2. t \in Starting
        BY <4>1 DEF Starting
      <4>3. worker[t] = "none" /\ running[ConversationKey[t]] = t
        BY <4>2 DEF CarrierInv, SlotHasOneCarrier
      <4>4. Seen(u)' = Seen(u)
        BY <4>1 DEF Seen
      <4>5. CASE u = t
        BY <1>4, <3>1, <4>1, <4>3, <4>4, <4>5 DEF Fits
      <4>6. CASE u # t
        BY <1>5, <1>6, <3>1, <4>1, <4>6
      <4> QED
        BY <4>5, <4>6
    <3>3. CASE SendWaitNotice(t)
      <4>1. handler[t] = "wait_notice" /\ Send(t, "wait") /\ worker' = worker
        BY <3>3 DEF SendWaitNotice
      <4>2. CASE u = t
        <5>1. "wait" \notin Seen(u) /\ "busy" \notin Seen(u)
          BY <1>4, <4>1, <4>2 DEF Fits
        <5>2. /\ Seen(u)' = Seen(u) \cup {"wait"}
              /\ \A i, j \in DOMAIN sent'[u] :
                    i < j => /\ sent'[u][i] # sent'[u][j]
                             /\ sent'[u][i] = "reply" => sent'[u][j] = "wait"
          BY <1>1, <1>4, <4>1, <4>2, <5>1, SendEffect DEF Fits, Sends
        <5> QED
          BY <1>4, <3>1, <4>1, <4>2, <5>1, <5>2 DEF Fits
      <4>3. CASE u # t
        <5>1. sent'[u] = sent[u] /\ Seen(u)' = Seen(u)
          BY <1>1, <4>1, <4>3 DEF Send, RunTypeOK, Seen
        <5> QED
          BY <1>4, <3>1, <4>1, <4>3, <5>1 DEF Fits
      <4> QED
        BY <4>2, <4>3
    <3>4. CASE SendBusyNotice(t)
      <4>1. handler[t] = "busy_notice" /\ Send(t, "busy") /\ worker' = worker
        BY <3>4 DEF SendBusyNotice
      <4>2. CASE u = t
        <5>1. Seen(u) = {} /\ worker[u] = "none"
          BY <1>4, <1>7, <4>1, <4>2 DEF Fits, Sends
        <5>2. /\ Seen(u)' = Seen(u) \cup {"busy"}
              /\ \A i, j \in DOMAIN sent'[u] :
                    i < j => /\ sent'[u][i] # sent'[u][j]
                             /\ sent'[u][i] = "reply" => sent'[u][j] = "wait"
          BY <1>1, <1>4, <4>1, <4>2, <5>1, SendEffect DEF Fits, Sends
        <5> QED
          BY <1>4, <3>1, <4>1, <4>2, <5>1, <5>2 DEF Fits
      <4>3. CASE u # t
        <5>1. sent'[u] = sent[u] /\ Seen(u)' = Seen(u)
          BY <1>1, <4>1, <4>3 DEF Send, RunTypeOK, Seen
        <5> QED
          BY <1>4, <3>1, <4>1, <4>3, <5>1 DEF Fits
      <4> QED
        BY <4>2, <4>3
    <3>5. CASE HandlerDropped(t)
      <4>1. worker' = worker /\ sent' = sent
        BY <3>5 DEF HandlerDropped
      <4>2. Seen(u)' = Seen(u)
        BY <4>1 DEF Seen
      <4> QED
        BY <1>4, <3>1, <4>1, <4>2 DEF Fits
    <3> QED
      BY <1>8, <2>2, <3>2, <3>3, <3>4, <3>5 DEF HandlerNext
  <2> QED
    BY <2>1, <2>2
<1>9. ASSUME NEW t \in Tasks, WorkerNext(t)
      PROVE  Fits(u)'
  <2>1. CASE StartReaction(t) \/ ReplyDelivered(t) \/ RunFails(t) \/ NothingDelivered(t)
    <3>1. /\ handler' = handler /\ queued_payloads' = queued_payloads /\ running' = running
          /\ \A v \in Tasks \ {t} : worker'[v] = worker[v]
          /\ \/ worker[t] = "reaction" /\ worker'[t] = "executing"
             \/ worker[t] = "executing" /\ worker'[t] \in {"completed", "failed"}
          /\ \/ Send(t, "reaction") /\ worker[t] = "reaction"
             \/ Send(t, "reply") /\ worker[t] = "executing"
             \/ sent' = sent
      BY <1>1, <2>1 DEF StartReaction, ReplyDelivered, RunFails, NothingDelivered, WorkerStep,
                        schedulerVars, RunTypeOK
    <3>2. CASE u # t
      <4>1. sent'[u] = sent[u] /\ Seen(u)' = Seen(u)
        BY <1>1, <3>1, <3>2 DEF Send, RunTypeOK, Seen
      <4> QED
        BY <1>4, <3>1, <3>2, <4>1 DEF Fits
    <3>3. CASE u = t /\ sent' = sent
      <4>1. Seen(u)' = Seen(u)
        BY <3>3 DEF Seen
      <4> QED
        BY <1>4, <3>1, <3>3, <4>1 DEF Fits
    <3>4. CASE u = t /\ Send(t, "reaction") /\ worker[t] = "reaction"
      <4>1. "busy" \notin Seen(u) /\ "reaction" \notin Seen(u) /\ "reply" \notin Seen(u)
        BY <1>4, <3>4 DEF Fits
      <4>2. /\ Seen(u)' = Seen(u) \cup {"reaction"}
            /\ \A i, j \in DOMAIN sent'[u] :
                  i < j => /\ sent'[u][i] # sent'[u][j]
                           /\ sent'[u][i] = "reply" => sent'[u][j] = "wait"
        BY <1>1, <1>4, <3>4, <4>1, SendEffect DEF Fits, Sends
      <4> QED
        BY <1>4, <3>1, <3>4, <4>1, <4>2 DEF Fits
    <3>5. CASE u = t /\ Send(t, "reply") /\ worker[t] = "executing"
      <4>1. "busy" \notin Seen(u) /\ "reply" \notin Seen(u)
        BY <1>4, <3>5 DEF Fits
      <4>2. /\ Seen(u)' = Seen(u) \cup {"reply"}
            /\ \A i, j \in DOMAIN sent'[u] :
                  i < j => /\ sent'[u][i] # sent'[u][j]
                           /\ sent'[u][i] = "reply" => sent'[u][j] = "wait"
        BY <1>1, <1>4, <3>5, <4>1, SendEffect DEF Fits, Sends
      <4> QED
        BY <1>4, <3>1, <3>5, <4>1, <4>2 DEF Fits
    <3> QED
      BY <3>1, <3>2, <3>3, <3>4, <3>5
  <2>2. CASE FinishRun(t)
    <3>1. /\ worker[t] \in {"completed", "failed"} /\ worker'[t] = "promoting"
          /\ \A v \in Tasks \ {t} : worker'[v] = worker[v]
          /\ handler' = handler /\ sent' = sent /\ queued_payloads' \subseteq queued_payloads
      BY <1>1, <2>2 DEF FinishRun, RunTypeOK
    <3>2. running'[ConversationKey[u]] = u => running[ConversationKey[u]] = u \/ u \in queued_payloads
      <4> DEFINE d == ConversationKey[u]
      <4>1. PICK P \in SUBSET Conversations : TakesAlong(t, P)
        BY <2>2, FinishRunEffect
      <4> USE DEF TakesAlong
      <4>2. d \in Conversations /\ u # NoTask
        BY ConversationKeyAssumption, NoTaskAssumption
      <4>3. CASE d \in P
        BY <4>1, <4>3
      <4>4. CASE d \notin P
        BY <4>1, <4>2, <4>4
      <4> QED
        BY <4>3, <4>4
    <3>3. Seen(u)' = Seen(u)
      BY <3>1 DEF Seen
    <3>4. CASE u = t
      BY <1>4, <3>1, <3>3, <3>4 DEF Fits
    <3>5. CASE u # t
      BY <1>5, <1>6, <3>1, <3>2, <3>5
    <3> QED
      BY <3>4, <3>5
  <2>3. CASE EndRun(t)
    <3>1. /\ worker[t] = "promoting" /\ worker'[t] = "ended"
          /\ \A v \in Tasks \ {t} : worker'[v] = worker[v]
          /\ handler' = handler /\ sent' = sent /\ queued_payloads' = queued_payloads
          /\ running' = running
      BY <1>1, <2>3 DEF EndRun, RunTypeOK, schedulerVars
    <3>2. Seen(u)' = Seen(u)
      BY <3>1 DEF Seen
    <3> QED
      BY <1>4, <3>1, <3>2 DEF Fits
  <2>4. ASSUME NEW next \in Tasks, SpawnPromoted(t, next)
        PROVE  Fits(u)'
    <3>1. /\ next \in promoted[t] /\ worker'[next] = "reaction"
          /\ \A v \in Tasks \ {next} : worker'[v] = worker[v]
          /\ handler' = handler /\ sent' = sent /\ queued_payloads' = queued_payloads
          /\ running' = running
      BY <1>1, <2>4 DEF SpawnPromoted, RunTypeOK, schedulerVars
    <3>2. worker[next] = "none" /\ running[ConversationKey[next]] = next
      BY <3>1 DEF CarrierInv, SlotHasOneCarrier
    <3>3. Seen(u)' = Seen(u)
      BY <3>1 DEF Seen
    <3> QED
      BY <1>4, <3>1, <3>2, <3>3 DEF Fits
  <2> QED
    BY <1>9, <2>1, <2>2, <2>3, <2>4 DEF WorkerNext
<1>10. CASE RestartServer
  <2>1. /\ sent' = sent /\ queued_payloads' = {} /\ running' = NoneRunning
        /\ handler'[u] = IF handler[u] \in {"idle", "answered"} THEN handler[u] ELSE "lost"
        /\ worker'[u] = IF u \in Accepted THEN "lost"
                        ELSE IF worker[u] = "promoting" THEN "ended" ELSE worker[u]
    BY <1>10 DEF RestartServer, Restart
  <2>2. Seen(u)' = Seen(u)
    BY <2>1 DEF Seen
  <2>3. u \in Accepted => u \in queued_payloads \/ running[ConversationKey[u]] = u
    BY DEF Accepted, OrderInv, ServedInOrder, Active
  <2>4. running'[ConversationKey[u]] # u
    BY <2>1, ConversationKeyAssumption, NoTaskAssumption DEF NoneRunning
  <2> QED
    BY <1>4, <2>1, <2>2, <2>3, <2>4 DEF Fits
<1>11. CASE UNCHANGED runVars
  <2>1. sent' = sent /\ handler' = handler /\ worker' = worker
        /\ queued_payloads' = queued_payloads /\ running' = running
    BY <1>11 DEF runVars, serverVars, schedulerVars
  <2> QED
    BY <1>5, <1>6, <2>1
<1> QED
  BY <1>8, <1>9, <1>10, <1>11 DEF RunNext

-----------------------------------------------------------------------------
(* What holds in every reachable state *)

\* The tasks at work hold the slots of different conversations.
LEMMA SlotsBoundRuns == SlotInv /\ CarrierInv => OneRunPerConversation
<1> SUFFICES ASSUME SlotInv, CarrierInv PROVE OneRunPerConversation
  OBVIOUS
<1>1. \A t \in Live : /\ running[ConversationKey[t]] = t
                      /\ ConversationKey[t] \in Active
  BY ConversationKeyAssumption, NoTaskAssumption
     DEF CarrierInv, SlotHasOneCarrier, Live, Active
<1> DEFINE key == [t \in Live |-> ConversationKey[t]]
<1>2. key \in Injection(Live, Active)
  BY <1>1 DEF Injection, IsInjective
<1>3. IsFiniteSet(Active) /\ Cardinality(Active) <= max_concurrent
  BY DEF SlotInv, WithinLimits
<1>4. IsFiniteSet(Live) /\ Cardinality(Live) <= Cardinality(Active)
  BY <1>2, <1>3, FS_Injection
<1>5. Cardinality(Live) \in Nat /\ Cardinality(Active) \in Nat
  BY <1>3, <1>4, FS_CardinalityType
<1>6. Cardinality(Live) <= max_concurrent
  BY <1>3, <1>4, <1>5, MaxConcurrentType
<1> QED
  BY <1>1, <1>4, <1>6 DEF OneRunPerConversation

\* What fits a task's phase fits what happens to it.
LEMMA FeedbackFollows == CarrierInv /\ FeedbackInv => FeedbackFits
<1> SUFFICES ASSUME CarrierInv, FeedbackInv, NEW t \in Tasks
             PROVE  /\ t \in queued_payloads => Seen(t) \subseteq {"wait"}
                    /\ "busy" \in Seen(t) => Seen(t) = {"busy"}
                    /\ \A i, j \in DOMAIN sent[t] :
                         i < j => /\ sent[t][i] # sent[t][j]
                                  /\ sent[t][i] = "reply" => sent[t][j] = "wait"
  BY DEF FeedbackFits
<1>1. Seen(t) \subseteq Sends
  <2>1. sent[t] \in Seq(Sends)
    BY DEF CarrierInv, RunTypeOK
  <2> QED
    BY <2>1, ElementOfSeq DEF Seen
<1>2. t \in queued_payloads => worker[t] = "none"
  BY DEF CarrierInv, WaitersAreIdle
<1> QED
  BY <1>1, <1>2 DEF FeedbackInv, Sends

RunInv == SlotInv /\ OrderInv /\ CarrierInv /\ FeedbackInv

\* At the start nothing runs, waits or was told.
LEMMA InitRunInv == RunInit => RunInv
<1> SUFFICES ASSUME RunInit PROVE RunInv
  OBVIOUS
<1>1. SlotInv /\ OrderInv
  BY InitSlotInv, InitOrder DEF RunInit
<1>2. RunTypeOK
  BY <1>1, EmptySeq DEF SlotInv, RunInit, RunTypeOK, HandlerPhases, WorkerPhases
<1>3. Issued = {} /\ Live = {} /\ Starting = {} /\ \A t \in Tasks : Seen(t) = {}
  BY DEF RunInit, SchedulerInit, Issued, Live, LivePhases, Starting, Seen
<1>4. IssuedAreHandled /\ WaitersAreIdle /\ OnlyPromotersSpawn
  BY <1>3 DEF RunInit, IssuedAreHandled, WaitersAreIdle, OnlyPromotersSpawn
<1>5. SlotHasOneCarrier /\ PayloadsMatchQueue
  BY <1>3, ConversationKeyAssumption, NoTaskAssumption
     DEF RunInit, SchedulerInit, NoneRunning, NoneQueued, SlotHasOneCarrier,
         PayloadsMatchQueue
<1>6. FeedbackInv
  BY <1>3 DEF FeedbackInv, RunInit
<1> QED
  BY <1>1, <1>2, <1>4, <1>5, <1>6 DEF RunInv, CarrierInv

\* The parts of the invariant are preserved together.
LEMMA NextRunInv == RunInv /\ [RunNext]_runVars => RunInv'
<1> SUFFICES ASSUME RunInv, [RunNext]_runVars PROVE RunInv'
  OBVIOUS
<1>1. [SchedulerNext]_schedulerVars
  BY RunStepsAreSchedulerSteps DEF RunInv, CarrierInv
<1>2. SlotInv' /\ OrderInv'
  BY <1>1, NextSlotInv, NextOrder DEF RunInv
<1>3. CarrierInv'
  BY <1>2, NextCarrier DEF RunInv, SlotInv
<1>4. FeedbackInv'
  BY FeedbackStep DEF RunInv
<1> QED
  BY <1>2, <1>3, <1>4 DEF RunInv

\* The inductive invariant holds in every reachable state.
THEOREM RunInvariant == RunSpec => []RunInv
<1>1. RunInit => RunInv
  BY InitRunInv
<1>2. RunInv /\ [RunNext]_runVars => RunInv'
  BY NextRunInv
<1> QED
  BY <1>1, <1>2, PTL DEF RunSpec

\* The variables of the run scheduler have their types.
THEOREM RunTypeCorrect == RunSpec => []RunTypeOK
  BY RunInvariant, PTL DEF RunInv, CarrierInv

\* No conversation ever has two runs at work, whatever the order of the steps outside
\* the lock, and all together keep the configured limit.
THEOREM RunsAreSerial == RunSpec => []OneRunPerConversation
<1>1. RunInv => OneRunPerConversation
  BY SlotsBoundRuns DEF RunInv
<1> QED
  BY <1>1, RunInvariant, PTL

\* No slot is ever held by a task that nobody carries, or two.
THEOREM SlotsAreCarried == RunSpec => []SlotHasOneCarrier
  BY RunInvariant, PTL DEF RunInv, CarrierInv

\* The parked payloads are always those of the tasks that wait.
THEOREM PayloadsAreParked == RunSpec => []PayloadsMatchQueue
  BY RunInvariant, PTL DEF RunInv, CarrierInv

\* What a sender gets to see always fits what happens to the task.
THEOREM FeedbackIsRight == RunSpec => []FeedbackFits
<1>1. RunInv => FeedbackFits
  BY FeedbackFollows DEF RunInv
<1> QED
  BY <1>1, RunInvariant, PTL
=============================================================================
