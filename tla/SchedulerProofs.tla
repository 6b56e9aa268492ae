--------------------------- MODULE SchedulerProofs ---------------------------
(***************************************************************************)
(* Proofs about Scheduler, for every set of conversations and tasks and    *)
(* every configured limit.                                                 *)
(*                                                                         *)
(* Three invariants are inductive, each relative to those before it.       *)
(*                                                                         *)
(* SlotInv is about slots: types, limits, the exactness of the list of     *)
(* ready conversations, and that no slot is free while one of them waits.  *)
(* The parts need each other: finish keeps within max_concurrent because   *)
(* every conversation it starts is listed and idle, and what it leaves in  *)
(* the list is right because no conversation is listed twice.              *)
(*                                                                         *)
(* OrderInv is about order, and about what a task becomes: no id is issued *)
(* twice, a conversation's tasks are its own and stand in the order they   *)
(* were submitted, so do the first tasks of the ready conversations, and   *)
(* what has ended neither runs nor waits.                                  *)
(*                                                                         *)
(* ToldInv is about the numbers that waiting tasks were told: the map of   *)
(* queues has no entry for an empty queue, so that the number given at     *)
(* admission is the right one of the two, and it stays enough as the queue *)
(* moves on.                                                               *)
(***************************************************************************)
EXTENDS Scheduler, FiniteSetTheorems, SequenceTheorems, TLAPS

SlotInv == TypeOK /\ WithinLimits /\ NoLostConversation /\ WorkConserving

\* The first k ready conversations.
Popped(k) == {ready_conversations[i] : i \in 1..k}

\* The number of slots is a positive number, also when 0 is configured.
LEMMA MaxConcurrentType == max_concurrent \in Nat \ {0}
  BY MaxConcurrentRunsAssumption DEF max_concurrent

\* A prefix of a sequence has finitely many elements.
LEMMA PoppedFinite ==
  ASSUME TypeOK, NEW k \in 0..Len(ready_conversations)
  PROVE  IsFiniteSet(Popped(k))
<1> DEFINE f == [i \in 1..k |-> ready_conversations[i]]
<1>1. Len(ready_conversations) \in Nat
  BY LenProperties DEF TypeOK
<1>2. f \in Surjection(1..k, Popped(k))
  BY DEF Surjection, Popped
<1>3. IsFiniteSet(1..k)
  BY <1>1, FS_Interval
<1> QED
  BY <1>2, <1>3, FS_Surjection

-----------------------------------------------------------------------------
\* What finish starts are exactly c itself, if it has more work, and the ready
\* conversations it pops: none of those is skipped.
LEMMA PoppedAreStartable ==
  ASSUME TypeOK, NoLostConversation, NEW c \in Active,
         NEW k \in 0..Len(ready_conversations)
  PROVE  /\ Startable(c, k) = Popped(k)
         /\ Popped(k) \subseteq Conversations
         /\ Popped(k) \cap Active = {}
         /\ \A d \in Popped(k) : queued[d] # << >>
<1>1. ready_conversations \in Seq(Conversations) /\ Len(ready_conversations) \in Nat
  BY LenProperties DEF TypeOK
<1>2. DOMAIN ready_conversations = 1..Len(ready_conversations)
  BY <1>1, LenProperties
<1>3. ASSUME NEW d \in Popped(k)
      PROVE  d \in Conversations /\ d \notin Active /\ queued[d] # << >>
  <2>1. PICK i \in 1..k : d = ready_conversations[i]
    BY DEF Popped
  <2>2. i \in DOMAIN ready_conversations
    BY <1>1, <1>2
  <2>3. d \in Conversations
    BY <1>1, <1>2, <2>1, <2>2, ElementOfSeq
  <2> QED
    BY <2>1, <2>2, <2>3 DEF NoLostConversation
<1>4. Held(c) \subseteq Active
  BY DEF Held, OwnNext
<1> QED
  BY <1>3, <1>4 DEF Startable, Popped

\* The conversations that hold a slot after finish.
LEMMA ActiveAfterFinish ==
  ASSUME TypeOK, NoLostConversation, NEW c \in Active,
         NEW k \in 0..Len(ready_conversations), Promote(c, k)
  PROVE  /\ Promoted(c, k) \subseteq Conversations
         /\ \A d \in Promoted(c, k) : queued[d] # << >> /\ Head(queued[d]) \in Tasks
         /\ Active' = Held(c) \cup Startable(c, k)
<1>1. c \in Conversations
  BY DEF Active
<1>2. OwnNext(c) \subseteq {c} /\ \A d \in OwnNext(c) : queued[d] # << >>
  BY DEF OwnNext
<1>3. Promoted(c, k) \subseteq Conversations
  BY <1>1, <1>2, PoppedAreStartable DEF Promoted
<1>4. ASSUME NEW d \in Promoted(c, k)
      PROVE  queued[d] # << >> /\ Head(queued[d]) \in Tasks
  <2>1. queued[d] # << >>
    BY <1>2, PoppedAreStartable DEF Promoted
  <2>2. queued[d] \in Seq(Tasks)
    BY <1>3 DEF TypeOK
  <2> QED
    BY <2>1, <2>2, HeadTailProperties
<1>5. Active' = {d \in Conversations : running'[d] # NoTask}
  BY DEF Active
<1>6. ASSUME NEW d \in Conversations
      PROVE  running'[d] # NoTask <=> d \in Held(c) \cup Startable(c, k)
  <2>1. running'[d] = IF d \in Promoted(c, k) THEN Head(queued[d])
                      ELSE IF d = c THEN NoTask ELSE running[d]
    BY DEF Promote, StartFirst, TakeFirst
  <2>2. CASE d \in Promoted(c, k)
    BY <1>4, <2>1, <2>2, NoTaskAssumption DEF Promoted, Held
  <2>3. CASE d \notin Promoted(c, k)
    BY <2>1, <2>3 DEF Promoted, Held, Active
  <2> QED
    BY <2>2, <2>3
<1>7. Held(c) \cup Startable(c, k) \subseteq Conversations
  BY <1>1, <1>2, PoppedAreStartable DEF Held, Active
<1> QED
  BY <1>3, <1>4, <1>5, <1>6, <1>7

\* The loop of finish never starts one conversation too many.
LEMMA FinishKeepsCapacity ==
  ASSUME TypeOK, WithinLimits, NoLostConversation, NEW c \in Active,
         NEW k \in 0..Len(ready_conversations), StopsFirstAt(c, k)
  PROVE  LET after == Held(c) \cup Startable(c, k)
         IN  IsFiniteSet(after) /\ Cardinality(after) <= max_concurrent
<1> DEFINE after(j) == Held(c) \cup Popped(j)
<1>1. Len(ready_conversations) \in Nat
  BY LenProperties DEF TypeOK
<1>2. \A j \in 0..Len(ready_conversations) : Startable(c, j) = Popped(j)
  BY PoppedAreStartable
<1>3. Held(c) \subseteq Active
  BY DEF Held, OwnNext
<1>4. IsFiniteSet(Held(c)) /\ Cardinality(Held(c)) <= Cardinality(Active)
  BY <1>3, FS_Subset DEF WithinLimits
<1>5. Cardinality(Held(c)) \in Nat /\ Cardinality(Active) \in Nat
  BY <1>4, FS_CardinalityType DEF WithinLimits
<1>6. CASE k = 0
  <2>1. Startable(c, k) = {}
    BY <1>6, PoppedAreStartable DEF Popped
  <2>2. Held(c) \cup Startable(c, k) = Held(c)
    BY <2>1
  <2>3. Cardinality(Held(c)) <= max_concurrent
    BY <1>4, <1>5, MaxConcurrentType DEF WithinLimits
  <2> QED
    BY <1>4, <2>2, <2>3
<1>7. CASE k # 0
  <2>1. k - 1 \in 0..Len(ready_conversations) /\ k - 1 \in 0..(k - 1)
    BY <1>1, <1>7
  <2>2. IsFiniteSet(after(k - 1))
    BY <1>4, <2>1, PoppedFinite, FS_Union
  <2>3. Cardinality(after(k - 1)) \in Nat
    BY <2>2, FS_CardinalityType
  <2>4. Cardinality(after(k - 1)) < max_concurrent
    <3>1. ~LoopStops(c, k - 1)
      BY <2>1 DEF StopsFirstAt
    <3>2. ~(Cardinality(Held(c) \cup Startable(c, k - 1)) >= max_concurrent)
      BY <3>1 DEF LoopStops
    <3>3. ~(Cardinality(after(k - 1)) >= max_concurrent)
      BY <1>2, <2>1, <3>2
    <3> QED
      BY <2>3, <3>3, MaxConcurrentType
  <2>5. after(k) = after(k - 1) \cup {ready_conversations[k]}
    <3>1. 1..k = (1..(k - 1)) \cup {k}
      BY <1>1, <1>7
    <3>2. Popped(k) = Popped(k - 1) \cup {ready_conversations[k]}
      BY <3>1 DEF Popped
    <3> QED
      BY <3>2
  <2>6. /\ IsFiniteSet(after(k))
        /\ Cardinality(after(k)) <= Cardinality(after(k - 1)) + 1
    <3> DEFINE prev == after(k - 1)
    <3> HIDE DEF after
    <3>1. /\ IsFiniteSet(prev \cup {ready_conversations[k]})
          /\ Cardinality(prev \cup {ready_conversations[k]})
               = IF ready_conversations[k] \in prev THEN Cardinality(prev)
                 ELSE Cardinality(prev) + 1
      BY <2>2, FS_AddElement
    <3> QED
      BY <2>3, <2>5, <3>1
  <2>7. Cardinality(after(k)) <= max_concurrent
    BY <2>3, <2>4, <2>6, MaxConcurrentType, FS_CardinalityType
  <2> QED
    BY <1>2, <2>6, <2>7
<1> QED
  BY <1>6, <1>7

-----------------------------------------------------------------------------
(* SlotInv is inductive. *)

\* At the start all slots are free and nobody waits.
LEMMA InitSlotInv == SchedulerInit => SlotInv
<1> SUFFICES ASSUME SchedulerInit PROVE SlotInv
  OBVIOUS
<1>1. Active = {} /\ Waiting = {}
  BY DEF SchedulerInit, NoneRunning, NoneQueued, Active, Waiting
<1>2. TypeOK
  BY HistoryCapacityAssumption, EmptySeq
     DEF SchedulerInit, NoneRunning, NoneQueued, NobodyTold, TypeOK
<1>3. WithinLimits
  BY <1>1, FS_EmptySet, MaxConcurrentType, MaxQueueDepthAssumption
     DEF WithinLimits, waiting_count
<1>4. NoLostConversation /\ WorkConserving
  BY DEF SchedulerInit, NoneQueued, NoLostConversation, WorkConserving
<1> QED
  BY <1>2, <1>3, <1>4 DEF SlotInv

\* After a restart all slots are free and nobody waits.
LEMMA RestartSlotInv == Restart /\ SlotInv => SlotInv'
<1> SUFFICES ASSUME Restart, SlotInv PROVE SlotInv'
  OBVIOUS
<1>1. Active' = {} /\ Waiting' = {}
  BY DEF Restart, NoneRunning, NoneQueued, Active, Waiting
<1>2. TypeOK'
  BY HistoryCapacityAssumption, EmptySeq
     DEF SlotInv, Restart, NoneRunning, NoneQueued, NobodyTold, TypeOK
<1>3. WithinLimits'
  BY <1>1, FS_EmptySet, MaxConcurrentType, MaxQueueDepthAssumption
     DEF WithinLimits, waiting_count, max_concurrent
<1>4. NoLostConversation' /\ WorkConserving'
  BY DEF Restart, NoneQueued, NoLostConversation, WorkConserving
<1> QED
  BY <1>2, <1>3, <1>4 DEF SlotInv

\* The number of tasks ahead is one.
LEMMA TasksAheadType ==
  ASSUME SlotInv, NEW c \in Conversations
  PROVE  tasks_ahead_for(c) \in Nat
<1>1. queued[c] \in Seq(Tasks)
  BY DEF SlotInv, TypeOK
<1>2. Len(queued[c]) \in Nat
  BY <1>1, LenProperties
<1>3. Cardinality(Active) \in Nat /\ waiting_count \in Nat
  BY FS_CardinalityType DEF SlotInv, WithinLimits, waiting_count
<1> DEFINE n == Len(queued[c])
<1>4. tasks_ahead_for(c) = IF c \in Active \/ c \in entries
                           THEN (IF c \in Active THEN 1 ELSE 0) + n
                           ELSE Cardinality(Active) + waiting_count
  BY DEF tasks_ahead_for
<1>5. n \in Nat
  BY <1>2
<1> HIDE DEF n
<1> QED
  BY <1>3, <1>4, <1>5

\* A task that starts at once takes a free slot; the list of ready conversations
\* is empty then, because no slot is free while it is not.
LEMMA StartNowSlotInv ==
  ASSUME SlotInv, NEW t \in Tasks, Issue(t), AdmitStartNow(t)
  PROVE  SlotInv'
<1> DEFINE c == ConversationKey[t]
<1>1. c \in Conversations
  BY ConversationKeyAssumption
<1>2. can_start_now(c) /\ running' = [running EXCEPT ![c] = t]
      /\ UNCHANGED <<entries, queued, ready_conversations, recent_terminal, told>>
  BY DEF AdmitStartNow
<1>3. Active' = Active \cup {c}
  BY <1>1, <1>2, NoTaskAssumption DEF SlotInv, TypeOK, Active
<1>4. ready_conversations = << >>
  <2>1. Cardinality(Active) < max_concurrent
    BY <1>2 DEF can_start_now
  <2>2. Cardinality(Active) \in Nat
    BY FS_CardinalityType DEF SlotInv, WithinLimits
  <2>3. Cardinality(Active) # max_concurrent
    BY <2>1, <2>2, MaxConcurrentType
  <2> QED
    BY <2>3 DEF SlotInv, WorkConserving
<1>5. TypeOK'
  BY <1>1, <1>2, AppendProperties DEF SlotInv, TypeOK, Issue
<1>6. WithinLimits'
  <2>1. c \notin Active /\ Cardinality(Active) < max_concurrent
    BY <1>2 DEF can_start_now
  <2>2. IsFiniteSet(Active') /\ Cardinality(Active') = Cardinality(Active) + 1
    BY <1>3, <2>1, FS_AddElement DEF SlotInv, WithinLimits
  <2>3. Cardinality(Active) \in Nat
    BY FS_CardinalityType DEF SlotInv, WithinLimits
  <2>4. Cardinality(Active') <= max_concurrent
    BY <2>1, <2>2, <2>3, MaxConcurrentType
  <2>5. Waiting' = Waiting
    BY <1>2 DEF Waiting
  <2> QED
    BY <2>2, <2>4, <2>5 DEF SlotInv, WithinLimits, waiting_count, max_concurrent
<1>7. NoLostConversation'
  BY <1>1, <1>2, <1>3, <1>4 DEF SlotInv, NoLostConversation, can_start_now
<1>8. WorkConserving'
  BY <1>2, <1>4 DEF WorkConserving
<1> QED
  BY <1>5, <1>6, <1>7, <1>8 DEF SlotInv

\* A task that waits adds one to the queues, and its conversation to the list of
\* ready ones when it is idle and was not there.
LEMMA QueuedSlotInv ==
  ASSUME SlotInv, NEW t \in Tasks, Issue(t), AdmitQueued(t)
  PROVE  SlotInv'
<1> DEFINE c == ConversationKey[t]
<1>1. c \in Conversations
  BY ConversationKeyAssumption
<1>2. /\ ~can_start_now(c)
      /\ waiting_count < MaxQueueDepth
      /\ queued' = [queued EXCEPT ![c] = Append(@, t)]
      /\ ready_conversations' = IF queued[c] = << >> /\ c \notin Active
                                THEN PushReady(c) ELSE ready_conversations
      /\ UNCHANGED <<running, recent_terminal>>
      /\ entries' = entries \cup {c} /\ told' = [told EXCEPT ![t] = tasks_ahead_for(c)]
  BY DEF AdmitQueued, Enqueue
<1>3. TypeOK /\ WithinLimits /\ NoLostConversation /\ WorkConserving
  BY DEF SlotInv
<1>4. queued[c] \in Seq(Tasks) /\ ready_conversations \in Seq(Conversations)
  BY <1>1, <1>3 DEF TypeOK
<1>5. /\ queued'[c] = Append(queued[c], t)
      /\ \A d \in Conversations \ {c} : queued'[d] = queued[d]
  BY <1>1, <1>2, <1>3 DEF TypeOK
<1>6. /\ queued'[c] \in Seq(Tasks) /\ queued'[c] # << >>
      /\ Len(queued'[c]) = Len(queued[c]) + 1
  BY <1>4, <1>5, AppendProperties
<1>7. Active' = Active
  BY <1>2 DEF Active
<1>8. ready_conversations' = IF queued[c] = << >> /\ c \notin Active
                             THEN Append(ready_conversations, c)
                             ELSE ready_conversations
  BY <1>1, <1>2, <1>3 DEF PushReady, NoLostConversation
<1>9. TypeOK'
  <2>1. ready_conversations' \in Seq(Conversations)
    BY <1>1, <1>4, <1>8, AppendProperties
  <2>2. queued' \in [Conversations -> Seq(Tasks)]
    BY <1>2, <1>3, <1>4, <1>6, <1>5 DEF TypeOK
  <2>3. issued' \in Seq(Tasks)
    BY <1>3, AppendProperties DEF Issue, TypeOK
  <2>4. entries' \in SUBSET Conversations /\ told' \in [Tasks -> Nat]
    BY <1>1, <1>2, <1>3, TasksAheadType DEF TypeOK
  <2> QED
    BY <1>2, <1>3, <2>1, <2>2, <2>3, <2>4 DEF TypeOK
<1>10. WithinLimits'
  <2> DEFINE p == <<c, Len(queued[c]) + 1>>
  <2>1. \A d \in Conversations : DOMAIN queued[d] = 1..Len(queued[d])
    BY <1>3, LenProperties DEF TypeOK
  <2>2. \A d \in Conversations : DOMAIN queued'[d] = 1..Len(queued'[d])
    BY <1>9, LenProperties DEF TypeOK
  <2>3. Len(queued[c]) \in Nat
    BY <1>4, LenProperties
  <2>4. Waiting = UNION {{d} \X (1..Len(queued[d])) : d \in Conversations}
    BY <2>1 DEF Waiting
  <2>5. Waiting' = UNION {{d} \X (1..Len(queued'[d])) : d \in Conversations}
    BY <2>2 DEF Waiting
  <2>6. DOMAIN queued'[c] = DOMAIN queued[c] \cup {Len(queued[c]) + 1}
    BY <1>1, <1>6, <2>1, <2>2, <2>3
  <2>7. Waiting' = Waiting \cup {p}
    <3>1. \A d \in Conversations \ {c} : DOMAIN queued'[d] = DOMAIN queued[d]
      BY <1>5
    <3>2. \A x : x \in Waiting' <=> \E d \in Conversations : x \in {d} \X DOMAIN queued'[d]
      BY DEF Waiting
    <3>3. \A x : x \in Waiting <=> \E d \in Conversations : x \in {d} \X DOMAIN queued[d]
      BY DEF Waiting
    <3>4. {c} \X DOMAIN queued'[c] = ({c} \X DOMAIN queued[c]) \cup {p}
      BY <2>6
    <3>5. ASSUME NEW x PROVE x \in Waiting' <=> x \in Waiting \cup {p}
      BY <1>1, <3>1, <3>2, <3>3, <3>4
    <3> QED
      BY <3>5
  <2>8. /\ IsFiniteSet(Waiting')
        /\ Cardinality(Waiting') = IF p \in Waiting THEN Cardinality(Waiting)
                                   ELSE Cardinality(Waiting) + 1
    BY <1>3, <2>7, FS_AddElement DEF WithinLimits
  <2>9. Cardinality(Waiting) \in Nat /\ Cardinality(Waiting) < MaxQueueDepth
    BY <1>2, <1>3, FS_CardinalityType DEF WithinLimits, waiting_count
  <2>10. Cardinality(Waiting') <= MaxQueueDepth
    BY <2>8, <2>9, MaxQueueDepthAssumption
  <2> QED
    BY <1>3, <1>7, <2>8, <2>10 DEF WithinLimits, waiting_count, max_concurrent
<1>11. NoLostConversation'
  <2>1. CASE queued[c] = << >> /\ c \notin Active
    <3> DEFINE n == Len(ready_conversations)
    <3>1. ready_conversations' = Append(ready_conversations, c)
      BY <1>8, <2>1
    <3>2. /\ n \in Nat
          /\ DOMAIN ready_conversations = 1..n
          /\ DOMAIN ready_conversations' = 1..(n + 1)
          /\ \A i \in 1..n : ready_conversations'[i] = ready_conversations[i]
          /\ ready_conversations'[n + 1] = c
      BY <1>1, <1>4, <3>1, AppendProperties, LenProperties
    <3>3. \A i \in 1..n : ready_conversations[i] # c
      BY <1>1, <1>3, <2>1, <3>2 DEF NoLostConversation
    <3>4. ASSUME NEW d \in Conversations
          PROVE  (d \notin Active' /\ queued'[d] # << >>) <=>
                   \E i \in DOMAIN ready_conversations' : ready_conversations'[i] = d
      <4>1. CASE d = c
        BY <1>6, <1>7, <2>1, <3>2, <4>1
      <4>2. CASE d # c
        BY <1>3, <1>5, <1>7, <3>2, <4>2 DEF NoLostConversation
      <4> QED
        BY <4>1, <4>2
    <3>5. ASSUME NEW i \in DOMAIN ready_conversations', NEW j \in DOMAIN ready_conversations',
                 ready_conversations'[i] = ready_conversations'[j]
          PROVE  i = j
      BY <1>3, <3>2, <3>3, <3>5 DEF NoLostConversation
    <3> QED
      BY <3>4, <3>5 DEF NoLostConversation
  <2>2. CASE ~(queued[c] = << >> /\ c \notin Active)
    BY <1>3, <1>5, <1>6, <1>7, <1>8, <2>2 DEF NoLostConversation
  <2> QED
    BY <2>1, <2>2
<1>12. WorkConserving'
  <2>1. CASE ready_conversations = << >> /\ ready_conversations' # << >>
    <3>1. queued[c] = << >> /\ c \notin Active
      BY <1>8, <2>1
    <3>2. ~(Cardinality(Active) < max_concurrent)
      BY <1>2, <3>1 DEF can_start_now
    <3>3. Cardinality(Active) \in Nat /\ Cardinality(Active) <= max_concurrent
      BY <1>3, FS_CardinalityType DEF WithinLimits
    <3>4. Cardinality(Active) = max_concurrent
      BY <3>2, <3>3, MaxConcurrentType
    <3> QED
      BY <1>7, <3>4 DEF WorkConserving, max_concurrent
  <2>2. CASE ready_conversations # << >> \/ ready_conversations' = << >>
    BY <1>3, <1>7, <2>2 DEF WorkConserving, max_concurrent
  <2> QED
    BY <2>1, <2>2
<1> QED
  BY <1>9, <1>10, <1>11, <1>12 DEF SlotInv

\* The terminal history stays within its capacity.
LEMMA PushTerminalType ==
  ASSUME TypeOK, NEW t \in Tasks, NEW s \in TerminalStates
  PROVE  /\ PushTerminal(t, s) \in Seq([task : Tasks, state : TerminalStates])
         /\ Len(PushTerminal(t, s)) <= TerminalHistoryCapacity
<1> DEFINE R == [task : Tasks, state : TerminalStates]
           pushed == Append(recent_terminal, [task |-> t, state |-> s])
<1>1. recent_terminal \in Seq(R) /\ Len(recent_terminal) <= TerminalHistoryCapacity
  BY DEF TypeOK
<1>2. [task |-> t, state |-> s] \in R
  OBVIOUS
<1>3. /\ pushed \in Seq(R) /\ pushed # << >>
      /\ Len(pushed) = Len(recent_terminal) + 1
      /\ Len(recent_terminal) \in Nat
  BY <1>1, <1>2, AppendProperties, LenProperties
<1>4. Tail(pushed) \in Seq(R) /\ Len(Tail(pushed)) = Len(pushed) - 1
  BY <1>3, HeadTailProperties
<1>5. PushTerminal(t, s) = IF Len(pushed) > TerminalHistoryCapacity
                          THEN Tail(pushed) ELSE pushed
  BY DEF PushTerminal
<1> HIDE DEF pushed
<1>6. CASE Len(pushed) > TerminalHistoryCapacity
  BY <1>1, <1>3, <1>4, <1>5, <1>6, HistoryCapacityAssumption
<1>7. CASE ~(Len(pushed) > TerminalHistoryCapacity)
  BY <1>1, <1>3, <1>5, <1>7, HistoryCapacityAssumption
<1> QED
  BY <1>6, <1>7

\* finish: the promoted conversations take the free slots and leave the list.
LEMMA FinishSlotInv ==
  ASSUME SlotInv, NEW c \in Conversations, NEW s \in TerminalStates, Finish(c, s)
  PROVE  SlotInv'
<1>1. c \in Active
  BY DEF Finish
<1>2. PICK k \in 0..Len(ready_conversations) : StopsFirstAt(c, k) /\ Promote(c, k)
  BY DEF Finish
<1>3. TypeOK /\ WithinLimits /\ NoLostConversation /\ WorkConserving
  BY DEF SlotInv
<1>4. ready_conversations \in Seq(Conversations) /\ Len(ready_conversations) \in Nat
  BY <1>3, LenProperties DEF TypeOK
<1> DEFINE n == Len(ready_conversations)
<1>5. /\ ready_conversations' \in Seq(Conversations)
      /\ DOMAIN ready_conversations' = 1..(n - k)
      /\ \A i \in 1..(n - k) : ready_conversations'[i] = ready_conversations[k + i]
  <2>1. \A i \in (k + 1)..n : ready_conversations[i] \in Conversations
    BY <1>4, ElementOfSeq
  <2>2. ready_conversations' = SubSeq(ready_conversations, k + 1, n)
    BY <1>2 DEF Promote, StartFirst, TakeFirst
  <2>3. /\ SubSeq(ready_conversations, k + 1, n) \in Seq(Conversations)
        /\ Len(SubSeq(ready_conversations, k + 1, n)) = IF k + 1 <= n THEN n - (k + 1) + 1 ELSE 0
        /\ \A i \in 1..(n - (k + 1) + 1) :
              SubSeq(ready_conversations, k + 1, n)[i] = ready_conversations[(k + 1) + i - 1]
    BY <1>4, <2>1, SubSeqProperties
  <2>4. Len(SubSeq(ready_conversations, k + 1, n)) = n - k
    BY <1>4, <2>3
  <2>5. \A i \in 1..(n - k) : (k + 1) + i - 1 = k + i /\ n - (k + 1) + 1 = n - k
    BY <1>4
  <2> QED
    BY <2>2, <2>3, <2>4, <2>5, LenProperties
<1>6. /\ Promoted(c, k) \subseteq Conversations
      /\ \A d \in Promoted(c, k) : queued[d] # << >> /\ Head(queued[d]) \in Tasks
      /\ Active' = Held(c) \cup Startable(c, k)
  BY <1>1, <1>2, <1>3, ActiveAfterFinish
<1>7. \A d \in Conversations :
         queued'[d] = IF d \in Promoted(c, k) THEN Tail(queued[d]) ELSE queued[d]
  BY <1>2 DEF Promote, StartFirst, TakeFirst
<1>8. TypeOK'
  <2>1. running' \in [Conversations -> Tasks \cup {NoTask}]
    <3>1. running' = [d \in Conversations |->
                       IF d \in Promoted(c, k) THEN Head(queued[d])
                       ELSE IF d = c THEN NoTask ELSE running[d]]
      BY <1>2 DEF Promote, StartFirst
    <3>2. running \in [Conversations -> Tasks \cup {NoTask}]
      BY <1>3 DEF TypeOK
    <3>3. \A d \in Promoted(c, k) : Head(queued[d]) \in Tasks
      BY <1>6
    <3> QED
      BY <3>1, <3>2, <3>3
  <2>2. queued' \in [Conversations -> Seq(Tasks)]
    <3>1. \A q \in Seq(Tasks) : q # << >> => Tail(q) \in Seq(Tasks)
      BY HeadTailProperties
    <3>2. \A d \in Conversations : queued[d] \in Seq(Tasks)
      BY <1>3 DEF TypeOK
    <3>3. \A d \in Promoted(c, k) : queued[d] # << >>
      BY <1>6
    <3>4. \A d \in Conversations : queued'[d] \in Seq(Tasks)
      BY <1>7, <3>1, <3>2, <3>3
    <3>5. queued' = [d \in Conversations |->
                      IF d \in Promoted(c, k) THEN Tail(queued[d]) ELSE queued[d]]
      BY <1>2 DEF Promote, TakeFirst
    <3> QED
      BY <3>4, <3>5
  <2>3. running[c] \in Tasks
    BY <1>1, <1>3 DEF TypeOK, Active
  <2>4. /\ recent_terminal' \in Seq([task : Tasks, state : TerminalStates])
        /\ Len(recent_terminal') <= TerminalHistoryCapacity
    BY <1>3, <2>3, PushTerminalType DEF Finish
  <2>5. issued' \in Seq(Tasks)
    BY <1>3 DEF Finish, TypeOK
  <2>6. entries' \in SUBSET Conversations /\ told' \in [Tasks -> Nat]
    BY <1>2, <1>3 DEF Promote, StartFirst, TypeOK
  <2> QED
    BY <1>5, <2>1, <2>2, <2>4, <2>5, <2>6 DEF TypeOK
<1>9. WithinLimits'
  <2>1. IsFiniteSet(Active') /\ Cardinality(Active') <= max_concurrent
    BY <1>1, <1>2, <1>3, <1>6, FinishKeepsCapacity
  <2>2. \A d \in Conversations : DOMAIN queued'[d] \subseteq DOMAIN queued[d]
    <3>1. SUFFICES ASSUME NEW d \in Conversations
                   PROVE  DOMAIN queued'[d] \subseteq DOMAIN queued[d]
      OBVIOUS
    <3>2. CASE d \in Promoted(c, k)
      <4>1. queued[d] \in Seq(Tasks) /\ queued[d] # << >> /\ queued'[d] = Tail(queued[d])
        BY <1>3, <1>6, <1>7, <3>2 DEF TypeOK
      <4>2. /\ Len(queued'[d]) = Len(queued[d]) - 1
            /\ queued'[d] \in Seq(Tasks)
        BY <4>1, HeadTailProperties
      <4>3. /\ DOMAIN queued[d] = 1..Len(queued[d])
            /\ DOMAIN queued'[d] = 1..Len(queued'[d])
            /\ Len(queued[d]) \in Nat
        BY <4>1, <4>2, LenProperties
      <4> QED
        BY <4>2, <4>3
    <3>3. CASE d \notin Promoted(c, k)
      BY <1>7, <3>3
    <3> QED
      BY <3>2, <3>3
  <2>3. Waiting' \subseteq Waiting
    BY <2>2 DEF Waiting
  <2>4. IsFiniteSet(Waiting') /\ Cardinality(Waiting') <= Cardinality(Waiting)
    BY <1>3, <2>3, FS_Subset DEF WithinLimits
  <2>5. Cardinality(Waiting) \in Nat /\ Cardinality(Waiting') \in Nat
    BY <1>3, <2>4, FS_CardinalityType DEF WithinLimits
  <2>6. Cardinality(Waiting') <= MaxQueueDepth
    BY <1>3, <2>4, <2>5, MaxQueueDepthAssumption DEF WithinLimits, waiting_count
  <2> QED
    BY <2>1, <2>4, <2>6 DEF WithinLimits, waiting_count, max_concurrent
<1>10. NoLostConversation'
  <2>1. /\ Startable(c, k) = Popped(k)
        /\ Popped(k) \cap Active = {}
    BY <1>1, <1>3, PoppedAreStartable
  <2>2. DOMAIN ready_conversations = 1..n
    BY <1>4, LenProperties
  <2>3. \A i, j \in 1..n : ready_conversations[i] = ready_conversations[j] => i = j
    BY <1>3, <2>2 DEF NoLostConversation
  <2>4. ASSUME NEW d \in Conversations
        PROVE  (d \notin Active' /\ queued'[d] # << >>) <=>
                 \E i \in DOMAIN ready_conversations' : ready_conversations'[i] = d
    <3>1. (\E i \in DOMAIN ready_conversations' : ready_conversations'[i] = d)
             <=> \E j \in (k + 1)..n : ready_conversations[j] = d
      <4>1. ASSUME NEW j \in (k + 1)..n, ready_conversations[j] = d
            PROVE  \E i \in DOMAIN ready_conversations' : ready_conversations'[i] = d
        <5>1. j - k \in 1..(n - k) /\ k + (j - k) = j
          BY <1>4
        <5> QED
          BY <1>5, <4>1, <5>1
      <4>2. ASSUME NEW i \in 1..(n - k), ready_conversations'[i] = d
            PROVE  \E j \in (k + 1)..n : ready_conversations[j] = d
        <5>1. k + i \in (k + 1)..n
          BY <1>4
        <5> QED
          BY <1>5, <4>2, <5>1
      <4> QED
        BY <1>5, <4>1, <4>2
    <3>2. (d \notin Active /\ queued[d] # << >>) <=> \E j \in 1..n : ready_conversations[j] = d
      BY <1>3, <2>2 DEF NoLostConversation
    <3>3. CASE d = c
      <4>1. \A j \in 1..n : ready_conversations[j] # d
        BY <1>1, <3>2, <3>3
      <4>2. d \notin Active' => queued'[d] = << >>
        <5>1. d \notin Active' => d \notin Promoted(c, k) /\ OwnNext(c) = {}
          BY <1>6, <3>3 DEF Promoted, Held, OwnNext
        <5> QED
          BY <1>7, <3>3, <5>1 DEF OwnNext
      <4>3. (k + 1)..n \subseteq 1..n
        BY <1>4
      <4> QED
        BY <3>1, <4>1, <4>2, <4>3
    <3>4. CASE d # c /\ d \in Popped(k)
      <4>1. d \in Active'
        BY <1>6, <2>1, <3>4
      <4>2. PICK i \in 1..k : ready_conversations[i] = d
        BY <3>4 DEF Popped
      <4>3. \A j \in (k + 1)..n : i \in 1..n /\ j \in 1..n /\ i # j
        BY <1>4
      <4>4. \A j \in (k + 1)..n : ready_conversations[j] # d
        BY <2>3, <4>2, <4>3
      <4> QED
        BY <3>1, <4>1, <4>4
    <3>5. CASE d # c /\ d \notin Popped(k)
      <4>1. d \notin Promoted(c, k)
        BY <2>1, <3>5 DEF Promoted, OwnNext
      <4>2. queued'[d] = queued[d] /\ (d \in Active' <=> d \in Active)
        BY <1>6, <1>7, <2>1, <3>5, <4>1 DEF Held, OwnNext
      <4>3. (\E j \in 1..n : ready_conversations[j] = d)
              <=> \E j \in (k + 1)..n : ready_conversations[j] = d
        <5>1. \A j \in 1..k : ready_conversations[j] # d
          BY <3>5 DEF Popped
        <5>2. 1..n = (1..k) \cup ((k + 1)..n)
          BY <1>4
        <5> QED
          BY <5>1, <5>2
      <4> QED
        BY <3>1, <3>2, <4>2, <4>3
    <3> QED
      BY <3>3, <3>4, <3>5
  <2>5. ASSUME NEW i \in 1..(n - k), NEW j \in 1..(n - k),
               ready_conversations'[i] = ready_conversations'[j]
        PROVE  i = j
    <3>1. k + i \in 1..n /\ k + j \in 1..n
      BY <1>4
    <3>2. k + i = k + j
      BY <1>5, <2>3, <2>5, <3>1
    <3> QED
      BY <1>4, <3>2
  <2> QED
    BY <1>5, <2>4, <2>5 DEF NoLostConversation
<1>11. WorkConserving'
  <2>1. SUFFICES ASSUME ready_conversations' # << >>
                 PROVE  Cardinality(Active') = max_concurrent
    BY DEF WorkConserving, max_concurrent
  <2>2. k # n
    <3>1. SUFFICES ASSUME k = n PROVE ready_conversations' = << >>
      BY <2>1
    <3>2. ready_conversations' = SubSeq(ready_conversations, n + 1, n)
      BY <1>2, <3>1 DEF Promote, StartFirst, TakeFirst
    <3> QED
      BY <1>4, <3>2, SubSeqEmpty
  <2>3. Cardinality(Active') >= max_concurrent
    BY <1>2, <1>6, <2>2 DEF StopsFirstAt, LoopStops
  <2>4. Cardinality(Active') <= max_concurrent /\ Cardinality(Active') \in Nat
    BY <1>1, <1>2, <1>3, <1>6, FinishKeepsCapacity, FS_CardinalityType
  <2> QED
    BY <2>3, <2>4, MaxConcurrentType
<1> QED
  BY <1>8, <1>9, <1>10, <1>11 DEF SlotInv

\* Every operation of the scheduler preserves the slot invariant.
LEMMA NextSlotInv == SlotInv /\ [SchedulerNext]_schedulerVars => SlotInv'
<1> SUFFICES ASSUME SlotInv, [SchedulerNext]_schedulerVars
             PROVE  SlotInv'
  OBVIOUS
<1>1. ASSUME NEW t \in Tasks, Admit(t)
      PROVE  SlotInv'
  <2>1. CASE AdmitStartNow(t)
    BY <1>1, <2>1, StartNowSlotInv DEF Admit
  <2>2. CASE AdmitQueued(t)
    BY <1>1, <2>2, QueuedSlotInv DEF Admit
  <2>3. CASE AdmitQueueFull(t)
    <3>1. UNCHANGED state /\ issued' \in Seq(Tasks)
      BY <1>1, <2>3, AppendProperties
         DEF Admit, Issue, AdmitQueueFull, SlotInv, TypeOK
    <3> QED
      BY <3>1 DEF state, SlotInv, TypeOK, WithinLimits, NoLostConversation,
                  WorkConserving, Active, Waiting, waiting_count, max_concurrent
  <2> QED
    BY <1>1, <2>1, <2>2, <2>3 DEF Admit
<1>2. ASSUME NEW c \in Conversations, NEW s \in TerminalStates, Finish(c, s)
      PROVE  SlotInv'
  BY <1>2, FinishSlotInv
<1>3. CASE Restart
  BY <1>3, RestartSlotInv
<1>4. CASE UNCHANGED schedulerVars
  BY <1>4 DEF schedulerVars, SlotInv, TypeOK, WithinLimits, NoLostConversation,
              WorkConserving, Active, Waiting, waiting_count, max_concurrent
<1> QED
  BY <1>1, <1>2, <1>3, <1>4 DEF SchedulerNext

-----------------------------------------------------------------------------
\* The inductive invariant holds in every reachable state.
THEOREM SlotInvariant == SchedulerSpec => []SlotInv
<1>1. SchedulerInit => SlotInv
  BY InitSlotInv
<1>2. SlotInv /\ [SchedulerNext]_schedulerVars => SlotInv'
  BY NextSlotInv
<1> QED
  BY <1>1, <1>2, PTL DEF SchedulerSpec

\* The variables of the scheduler have their types.
THEOREM TypeCorrect == SchedulerSpec => []TypeOK
  BY SlotInvariant, PTL DEF SlotInv

\* MAX_CONCURRENT_RUNS and MAX_QUEUE_DEPTH are never exceeded.
THEOREM LimitsHold == SchedulerSpec => []WithinLimits
  BY SlotInvariant, PTL DEF SlotInv

\* No conversation with waiting tasks is ever forgotten.
THEOREM NoConversationIsLost == SchedulerSpec => []NoLostConversation
  BY SlotInvariant, PTL DEF SlotInv

\* No slot stays free while a conversation waits for one.
THEOREM SlotsAreUsed == SchedulerSpec => []WorkConserving
  BY SlotInvariant, PTL DEF SlotInv

-----------------------------------------------------------------------------
(* Order *)

IssuedOnce == \A i, j \in DOMAIN issued : issued[i] = issued[j] => i = j

OrderInv == IssuedOnce /\ ServedInOrder /\ ReadyInArrivalOrder /\ EndsOnce

-----------------------------------------------------------------------------
(* The order of submission *)

\* No task was submitted before itself.
LEMMA BeforeIrreflexive ==
  ASSUME TypeOK, IssuedOnce, NEW t, Before(t, t)
  PROVE  FALSE
<1>1. PICK i, j \in DOMAIN issued : i < j /\ issued[i] = t /\ issued[j] = t
  BY DEF Before
<1>2. DOMAIN issued = 1..Len(issued) /\ Len(issued) \in Nat
  BY LenProperties DEF TypeOK
<1>3. i = j
  BY <1>1 DEF IssuedOnce
<1> QED
  BY <1>1, <1>2, <1>3

\* A new id comes after all others and changes nothing between them.
LEMMA IssueExtends ==
  ASSUME TypeOK, IssuedOnce, NEW t \in Tasks, Issue(t)
  PROVE  /\ IssuedOnce' /\ Issued' = Issued \cup {t} /\ t \notin Issued
         /\ \A u, v : Before(u, v) => Before(u, v)'
         /\ \A u \in Issued : Before(u, t)'
<1> DEFINE n == Len(issued)
<1>1. issued \in Seq(Tasks) /\ issued' = Append(issued, t) /\ t \notin Issued
  BY DEF TypeOK, Issue
<1>2. /\ n \in Nat /\ DOMAIN issued = 1..n /\ DOMAIN issued' = 1..(n + 1)
      /\ \A i \in 1..n : issued'[i] = issued[i]
      /\ issued'[n + 1] = t
  BY <1>1, AppendProperties, LenProperties
<1>3. \A i \in 1..n : issued[i] # t
  BY <1>1, <1>2 DEF Issued
<1>4. IssuedOnce'
  BY <1>2, <1>3 DEF IssuedOnce
<1>5. Issued' = Issued \cup {t}
  BY <1>2 DEF Issued
<1>6. \A u, v : Before(u, v) => Before(u, v)'
  BY <1>2 DEF Before
<1>7. \A u \in Issued : Before(u, t)'
  BY <1>2 DEF Before, Issued
<1> QED
  BY <1>1, <1>4, <1>5, <1>6, <1>7

\* Order is only lost with the ids, which are kept.
LEMMA BeforeStable ==
  ASSUME UNCHANGED issued
  PROVE  (IssuedOnce' <=> IssuedOnce) /\ Issued' = Issued
         /\ \A u, v : Before(u, v)' <=> Before(u, v)
  BY DEF IssuedOnce, Issued, Before

-----------------------------------------------------------------------------
(* What finish does, without its loop *)

\* finish gives c's slot to c's next task or frees it, and starts the first tasks
\* of the first k ready conversations, P in all.
PassesOn(c, s, P, k) ==
    /\ c \in Active /\ UNCHANGED issued
    /\ P \cap Active \subseteq {c}
    /\ \A d \in P : queued[d] # << >>
    /\ queued[c] # << >> => c \in P
    /\ P = OwnNext(c) \cup Popped(k)
    /\ running' = [d \in Conversations |-> IF d \in P THEN Head(queued[d])
                                          ELSE IF d = c THEN NoTask ELSE running[d]]
    /\ queued' = [d \in Conversations |-> IF d \in P THEN Tail(queued[d])
                                         ELSE queued[d]]
    /\ ready_conversations' =
         SubSeq(ready_conversations, k + 1, Len(ready_conversations))
    /\ recent_terminal' = PushTerminal(running[c], s)

\* The loop of finish comes down to that.
LEMMA FinishEffect ==
  ASSUME SlotInv, NEW c \in Conversations, NEW s \in TerminalStates, Finish(c, s)
  PROVE  \E P \in SUBSET Conversations, k \in 0..Len(ready_conversations) : PassesOn(c, s, P, k)
<1>1. TypeOK /\ NoLostConversation /\ c \in Active /\ UNCHANGED issued
      /\ recent_terminal' = PushTerminal(running[c], s)
  BY DEF SlotInv, Finish
<1>2. PICK k \in 0..Len(ready_conversations) : StopsFirstAt(c, k) /\ Promote(c, k)
  BY DEF Finish
<1>3. Startable(c, k) = Popped(k) /\ Popped(k) \cap Active = {}
  BY <1>1, PoppedAreStartable
<1>4. /\ Promoted(c, k) \subseteq Conversations
      /\ \A d \in Promoted(c, k) : queued[d] # << >>
  BY <1>1, <1>2, ActiveAfterFinish
<1>5. Promoted(c, k) = OwnNext(c) \cup Popped(k)
  BY <1>3 DEF Promoted
<1>6. Promoted(c, k) \cap Active \subseteq {c} /\ (queued[c] # << >> => c \in Promoted(c, k))
  BY <1>3, <1>5 DEF OwnNext
<1> Promoted(c, k) \in SUBSET Conversations
  BY <1>4
<1> WITNESS Promoted(c, k) \in SUBSET Conversations, k \in 0..Len(ready_conversations)
<1> QED
  BY <1>1, <1>2, <1>4, <1>5, <1>6 DEF Promote, StartFirst, TakeFirst, PassesOn

\* The tail of a queue has its other tasks, each one place further in front.
LEMMA TailShifts ==
  ASSUME NEW q \in Seq(Tasks), q # << >>
  PROVE  /\ Tail(q) \in Seq(Tasks) /\ Head(q) = q[1] /\ 1 \in DOMAIN q
         /\ DOMAIN q = 1..Len(q) /\ DOMAIN Tail(q) = 1..(Len(q) - 1) /\ Len(q) \in Nat
         /\ \A i \in DOMAIN Tail(q) : i + 1 \in DOMAIN q /\ Tail(q)[i] = q[i + 1]
<1>1. Len(q) \in Nat /\ Len(q) # 0 /\ DOMAIN q = 1..Len(q)
  BY LenProperties, EmptySeq
<1>2. Tail(q) \in Seq(Tasks) /\ Len(Tail(q)) = Len(q) - 1 /\ Head(q) = q[1]
      /\ \A i \in 1..Len(Tail(q)) : Tail(q)[i] = q[i + 1]
  BY HeadTailProperties
<1>3. DOMAIN Tail(q) = 1..(Len(q) - 1)
  BY <1>2, LenProperties
<1> QED
  BY <1>1, <1>2, <1>3

-----------------------------------------------------------------------------
(* OrderInv is inductive relative to SlotInv *)

\* The tasks of one conversation, with those that wait as a set.
LEMMA QueuedTasksType ==
  ASSUME TypeOK, NEW c \in Conversations
  PROVE  /\ queued[c] \in Seq(Tasks) /\ DOMAIN queued[c] = 1..Len(queued[c])
         /\ Len(queued[c]) \in Nat
         /\ \A i \in DOMAIN queued[c] : queued[c][i] \in Tasks
         /\ queued[c] # << >> => Head(queued[c]) = queued[c][1] /\ 1 \in DOMAIN queued[c]
<1>1. queued[c] \in Seq(Tasks)
  BY DEF TypeOK
<1> QED
  BY <1>1, LenProperties, ElementOfSeq, TailShifts

\* A task that starts at once is the only one of its conversation.
LEMMA StartNowOrder ==
  ASSUME SlotInv, OrderInv, NEW t \in Tasks, Issue(t), AdmitStartNow(t)
  PROVE  OrderInv'
<1> DEFINE c == ConversationKey[t]
<1>1. c \in Conversations /\ TypeOK /\ IssuedOnce
  BY ConversationKeyAssumption DEF SlotInv, OrderInv
<1>2. /\ queued[c] = << >> /\ c \notin Active
      /\ running' = [running EXCEPT ![c] = t]
      /\ UNCHANGED <<queued, ready_conversations, recent_terminal>>
  BY DEF AdmitStartNow, can_start_now
<1>3. /\ IssuedOnce' /\ Issued' = Issued \cup {t} /\ t \notin Issued
      /\ \A u, v : Before(u, v) => Before(u, v)'
  BY <1>1, IssueExtends
<1>4. running'[c] = t /\ \A d \in Conversations \ {c} : running'[d] = running[d]
  BY <1>1, <1>2 DEF TypeOK
<1>5. DOMAIN queued[c] = {}
  BY <1>1, <1>2, QueuedTasksType, EmptySeq
<1>6. ServedInOrder'
  <2> SUFFICES ASSUME NEW d \in Conversations
               PROVE  (/\ d \in Active => running[d] \in Issued /\ ConversationKey[running[d]] = d
                       /\ \A i \in DOMAIN queued[d] :
                            /\ queued[d][i] \in Issued /\ ConversationKey[queued[d][i]] = d
                            /\ d \in Active => Before(running[d], queued[d][i])
                            /\ \A j \in DOMAIN queued[d] :
                                 i < j => Before(queued[d][i], queued[d][j]))'
    BY DEF ServedInOrder
  <2>1. CASE d = c
    BY <1>2, <1>3, <1>4, <1>5, <2>1 DEF Active
  <2>2. CASE d # c
    BY <1>2, <1>3, <1>4, <2>2 DEF Active, OrderInv, ServedInOrder
  <2> QED
    BY <2>1, <2>2
<1>7. ReadyInArrivalOrder'
  BY <1>2, <1>3 DEF OrderInv, ReadyInArrivalOrder
<1>8. EndsOnce'
  BY <1>1, <1>2, <1>3, <1>4 DEF OrderInv, EndsOnce
<1> QED
  BY <1>3, <1>6, <1>7, <1>8 DEF OrderInv

\* A task that waits was submitted after all that its conversation has.
LEMMA QueuedOrder ==
  ASSUME SlotInv, OrderInv, NEW t \in Tasks, Issue(t), AdmitQueued(t)
  PROVE  OrderInv'
<1> DEFINE c == ConversationKey[t]
           n == Len(queued[c])
<1>1. c \in Conversations /\ TypeOK /\ NoLostConversation /\ IssuedOnce
  BY ConversationKeyAssumption DEF SlotInv, OrderInv
<1>2. /\ queued' = [queued EXCEPT ![c] = Append(@, t)]
      /\ ready_conversations' = IF queued[c] = << >> /\ c \notin Active
                                THEN PushReady(c) ELSE ready_conversations
      /\ UNCHANGED <<running, recent_terminal>>
  BY DEF AdmitQueued, Enqueue
<1>3. /\ IssuedOnce' /\ Issued' = Issued \cup {t} /\ t \notin Issued
      /\ \A u, v : Before(u, v) => Before(u, v)'
      /\ \A u \in Issued : Before(u, t)'
  BY <1>1, IssueExtends
<1>4. /\ queued[c] \in Seq(Tasks) /\ DOMAIN queued[c] = 1..n /\ n \in Nat
      /\ queued'[c] = Append(queued[c], t)
      /\ \A d \in Conversations \ {c} : queued'[d] = queued[d]
  BY <1>1, <1>2, QueuedTasksType DEF TypeOK
<1>5. /\ DOMAIN queued'[c] = 1..(n + 1) /\ queued'[c][n + 1] = t
      /\ \A i \in 1..n : queued'[c][i] = queued[c][i]
      /\ queued'[c] \in Seq(Tasks) /\ queued'[c] # << >>
  BY <1>4, AppendProperties, LenProperties
<1>6. ServedInOrder'
  <2> SUFFICES ASSUME NEW d \in Conversations
               PROVE  (/\ d \in Active => running[d] \in Issued /\ ConversationKey[running[d]] = d
                       /\ \A i \in DOMAIN queued[d] :
                            /\ queued[d][i] \in Issued /\ ConversationKey[queued[d][i]] = d
                            /\ d \in Active => Before(running[d], queued[d][i])
                            /\ \A j \in DOMAIN queued[d] :
                                 i < j => Before(queued[d][i], queued[d][j]))'
    BY DEF ServedInOrder
  <2>1. CASE d = c
    <3>1. (d \in Active => running[d] \in Issued /\ ConversationKey[running[d]] = d)'
      BY <1>2, <1>3 DEF Active, OrderInv, ServedInOrder
    <3>2. \A i \in 1..n : /\ queued[c][i] \in Issued /\ ConversationKey[queued[c][i]] = c
                          /\ c \in Active => Before(running[c], queued[c][i])
                          /\ \A j \in 1..n : i < j => Before(queued[c][i], queued[c][j])
      BY <1>1, <1>4 DEF OrderInv, ServedInOrder
    <3>3. c \in Active => running[c] \in Issued
      BY <1>1 DEF OrderInv, ServedInOrder
    <3>4. ASSUME NEW i \in 1..(n + 1)
          PROVE  /\ queued'[c][i] \in Issued' /\ ConversationKey[queued'[c][i]] = c
                 /\ c \in Active => Before(running[c], queued[c][i])'
      <4>1. CASE i \in 1..n
        BY <1>2, <1>3, <1>5, <3>2, <4>1
      <4>2. CASE i = n + 1
        BY <1>2, <1>3, <1>5, <3>3, <4>2
      <4> QED
        BY <1>4, <4>1, <4>2
    <3>5. ASSUME NEW i \in 1..(n + 1), NEW j \in 1..(n + 1), i < j
          PROVE  Before(queued[c][i], queued[c][j])'
      <4>1. i \in 1..n /\ queued'[c][i] = queued[c][i]
        BY <1>4, <1>5, <3>5
      <4>2. CASE j \in 1..n
        BY <1>3, <1>5, <3>2, <3>5, <4>1, <4>2
      <4>3. CASE j = n + 1
        BY <1>3, <1>5, <3>2, <4>1, <4>3
      <4> QED
        BY <1>4, <4>2, <4>3
    <3>6. Active' = Active /\ running' = running
      BY <1>2 DEF Active
    <3> QED
      BY <1>5, <2>1, <3>1, <3>4, <3>5, <3>6
  <2>2. CASE d # c
    BY <1>2, <1>3, <1>4, <2>2 DEF Active, OrderInv, ServedInOrder
  <2> QED
    BY <2>1, <2>2
<1>7. ReadyInArrivalOrder'
  <2> DEFINE m == Len(ready_conversations)
  <2>1. /\ ready_conversations \in Seq(Conversations) /\ m \in Nat
        /\ DOMAIN ready_conversations = 1..m
        /\ \A i \in 1..m : ready_conversations[i] \in Conversations
    BY <1>1, LenProperties, ElementOfSeq DEF TypeOK
  <2>2. \A d \in Conversations : queued[d] # << >> =>
           /\ Head(queued'[d]) = Head(queued[d])
           /\ Head(queued[d]) \in Issued
    <3> SUFFICES ASSUME NEW d \in Conversations, queued[d] # << >>
                 PROVE  /\ Head(queued'[d]) = Head(queued[d])
                        /\ Head(queued[d]) \in Issued
      OBVIOUS
    <3>1. Head(queued[d]) = queued[d][1] /\ 1 \in DOMAIN queued[d]
      BY <1>1, QueuedTasksType
    <3>2. Head(queued[d]) \in Issued
      BY <3>1 DEF OrderInv, ServedInOrder
    <3>3. CASE d = c
      <4>1. n # 0
        BY <1>4, <3>1, <3>3
      <4>2. Head(queued'[c]) = queued'[c][1]
        BY <1>5, TailShifts
      <4> QED
        BY <1>4, <1>5, <3>1, <3>2, <3>3, <4>1, <4>2
    <3>4. CASE d # c
      BY <1>4, <3>2, <3>4
    <3> QED
      BY <3>3, <3>4
  <2>3. \A i \in 1..m : queued[ready_conversations[i]] # << >>
    BY <1>1, <2>1 DEF NoLostConversation
  <2>4. ASSUME NEW i \in 1..m, NEW j \in 1..m, i < j, NEW u, NEW v,
               u = Head(queued'[ready_conversations[i]]),
               v = Head(queued'[ready_conversations[j]])
        PROVE  Before(u, v)'
    <3>1. Before(Head(queued[ready_conversations[i]]), Head(queued[ready_conversations[j]]))
      BY <2>1, <2>4 DEF OrderInv, ReadyInArrivalOrder
    <3>2. Before(u, v)
      BY <2>1, <2>2, <2>3, <2>4, <3>1
    <3> QED
      BY <1>3, <3>2
  <2>5. CASE ready_conversations' = ready_conversations
    <3> SUFFICES ASSUME NEW i \in 1..m, NEW j \in 1..m, i < j
                 PROVE  Before(Head(queued[ready_conversations[i]]),
                               Head(queued[ready_conversations[j]]))'
      BY <2>1, <2>5 DEF ReadyInArrivalOrder
    <3> QED
      BY <2>4, <2>5
  <2>6. CASE ready_conversations' = Append(ready_conversations, c) /\ queued[c] = << >>
    <3>1. /\ DOMAIN ready_conversations' = 1..(m + 1)
          /\ \A i \in 1..m : ready_conversations'[i] = ready_conversations[i]
          /\ ready_conversations'[m + 1] = c
      BY <1>1, <2>1, <2>6, AppendProperties, LenProperties
    <3>2. n = 0
      BY <1>4, <2>6, EmptySeq
    <3>3. Head(queued'[c]) = t
      BY <1>5, <3>2, TailShifts
    <3>4. ASSUME NEW i \in 1..(m + 1), NEW j \in 1..(m + 1), i < j
          PROVE  Before(Head(queued[ready_conversations[i]]),
                        Head(queued[ready_conversations[j]]))'
      <4>1. i \in 1..m
        BY <2>1, <3>4
      <4>2. CASE j \in 1..m
        BY <2>4, <3>1, <3>4, <4>1, <4>2
      <4>3. CASE j = m + 1
        BY <1>3, <2>1, <2>2, <2>3, <3>1, <3>3, <4>1, <4>3
      <4> QED
        BY <2>1, <4>2, <4>3
    <3> QED
      BY <3>1, <3>4 DEF ReadyInArrivalOrder
  <2> QED
    BY <1>2, <2>5, <2>6 DEF PushReady
<1>8. EndsOnce'
  <2>1. \A i, j \in DOMAIN recent_terminal' :
           recent_terminal'[i].task = recent_terminal'[j].task => i = j
    BY <1>2 DEF OrderInv, EndsOnce
  <2>2. ASSUME NEW i \in DOMAIN recent_terminal, NEW d \in Conversations
        PROVE  LET u == recent_terminal[i].task IN
               /\ u \in Issued'
               /\ running[d] # u
               /\ \A k \in DOMAIN queued'[d] : queued'[d][k] # u
    <3>1. /\ recent_terminal[i].task \in Issued /\ running[d] # recent_terminal[i].task
          /\ \A k \in DOMAIN queued[d] : queued[d][k] # recent_terminal[i].task
      BY DEF OrderInv, EndsOnce
    <3>2. CASE d = c
      <4>1. \A k \in 1..(n + 1) : k \in 1..n \/ k = n + 1
        BY <1>4
      <4> QED
        BY <1>3, <1>4, <1>5, <3>1, <3>2, <4>1
    <3>3. CASE d # c
      BY <1>3, <1>4, <3>1, <3>3
    <3> QED
      BY <3>2, <3>3
  <2> QED
    BY <1>2, <2>1, <2>2 DEF EndsOnce
<1> QED
  BY <1>3, <1>6, <1>7, <1>8 DEF OrderInv

\* The terminal history after a run: the same entries, one of them perhaps dropped in
\* front, and the new one last.
LEMMA PushTerminalEntries ==
  ASSUME TypeOK, NEW t \in Tasks, NEW s \in TerminalStates
  PROVE  LET n == Len(recent_terminal)
             pushed == PushTerminal(t, s)
         IN  \E e \in {0, 1} :
               /\ n \in Nat /\ DOMAIN recent_terminal = 1..n
               /\ DOMAIN pushed = 1..(n + 1 - e)
               /\ pushed[n + 1 - e] = [task |-> t, state |-> s]
               /\ \A i \in 1..(n - e) : pushed[i] = recent_terminal[i + e]
<1> DEFINE R == [task : Tasks, state : TerminalStates]
           n == Len(recent_terminal)
           longer == Append(recent_terminal, [task |-> t, state |-> s])
<1>1. recent_terminal \in Seq(R) /\ [task |-> t, state |-> s] \in R
  BY DEF TypeOK
<1>2. /\ n \in Nat /\ DOMAIN recent_terminal = 1..n
      /\ longer \in Seq(R) /\ longer # << >> /\ Len(longer) = n + 1
      /\ longer[n + 1] = [task |-> t, state |-> s]
      /\ \A i \in 1..n : longer[i] = recent_terminal[i]
  BY <1>1, AppendProperties, LenProperties
<1>3. /\ Tail(longer) \in Seq(R) /\ Len(Tail(longer)) = n
      /\ \A i \in 1..n : Tail(longer)[i] = longer[i + 1]
  BY <1>2, HeadTailProperties
<1>4. PushTerminal(t, s) = IF Len(longer) > TerminalHistoryCapacity
                          THEN Tail(longer) ELSE longer
  BY DEF PushTerminal
<1>5. DOMAIN longer = 1..(n + 1) /\ DOMAIN Tail(longer) = 1..n
  BY <1>2, <1>3, LenProperties
<1> HIDE DEF longer, n
<1>6. CASE Len(longer) > TerminalHistoryCapacity
  <2>1. n # 0
    BY <1>2, <1>6, HistoryCapacityAssumption
  <2>2. n \in 1..n /\ n + 1 - 1 = n
    BY <1>2, <2>1
  <2>3. \A i \in 1..(n - 1) : Tail(longer)[i] = recent_terminal[i + 1]
    BY <1>2, <1>3
  <2> QED
    BY <1>2, <1>3, <1>4, <1>5, <1>6, <2>2, <2>3 DEF n
<1>7. CASE ~(Len(longer) > TerminalHistoryCapacity)
  <2>1. n + 1 - 0 = n + 1 /\ n - 0 = n /\ \A i \in 1..n : i + 0 = i
    BY <1>2
  <2> QED
    BY <1>2, <1>4, <1>5, <1>7, <2>1 DEF n
<1> QED
  BY <1>6, <1>7

\* finish takes tasks from the front of the queues and conversations from the front of
\* the ready list, so that the order of the others stays.
LEMMA FinishOrder ==
  ASSUME SlotInv, OrderInv, NEW c \in Conversations, NEW s \in TerminalStates, Finish(c, s)
  PROVE  OrderInv'
<1>1. TypeOK /\ NoLostConversation /\ IssuedOnce
  BY DEF SlotInv, OrderInv
<1>2. PICK P \in SUBSET Conversations, k \in 0..Len(ready_conversations) : PassesOn(c, s, P, k)
  BY FinishEffect
<1> USE DEF PassesOn
<1>3. IssuedOnce' /\ Issued' = Issued /\ \A u, v : Before(u, v)' <=> Before(u, v)
  BY <1>1, <1>2, BeforeStable
<1>4. \A d \in P : /\ running'[d] = queued[d][1] /\ 1 \in DOMAIN queued[d]
                   /\ \A i \in DOMAIN queued'[d] : /\ i + 1 \in DOMAIN queued[d] /\ i \in Nat
                                                   /\ queued'[d][i] = queued[d][i + 1]
  <2> SUFFICES ASSUME NEW d \in P
               PROVE  /\ running'[d] = queued[d][1] /\ 1 \in DOMAIN queued[d]
                      /\ \A i \in DOMAIN queued'[d] : /\ i + 1 \in DOMAIN queued[d] /\ i \in Nat
                                                      /\ queued'[d][i] = queued[d][i + 1]
    OBVIOUS
  <2>1. queued[d] \in Seq(Tasks) /\ queued[d] # << >>
    BY <1>1, <1>2, QueuedTasksType
  <2>2. running'[d] = Head(queued[d]) /\ queued'[d] = Tail(queued[d])
    BY <1>2
  <2> QED
    BY <2>1, <2>2, TailShifts
<1>5. \A d \in Conversations \ P : /\ queued'[d] = queued[d]
                                   /\ d \in Active' => d # c /\ d \in Active /\ running'[d] = running[d]
  BY <1>2 DEF Active
<1>6. ServedInOrder'
  <2> SUFFICES ASSUME NEW d \in Conversations
               PROVE  (/\ d \in Active => running[d] \in Issued /\ ConversationKey[running[d]] = d
                       /\ \A i \in DOMAIN queued[d] :
                            /\ queued[d][i] \in Issued /\ ConversationKey[queued[d][i]] = d
                            /\ d \in Active => Before(running[d], queued[d][i])
                            /\ \A j \in DOMAIN queued[d] :
                                 i < j => Before(queued[d][i], queued[d][j]))'
    BY DEF ServedInOrder
  <2>1. CASE d \in P
    <3>1. \A i \in DOMAIN queued[d] :
             /\ queued[d][i] \in Issued /\ ConversationKey[queued[d][i]] = d
             /\ \A j \in DOMAIN queued[d] : i < j => Before(queued[d][i], queued[d][j])
      BY DEF OrderInv, ServedInOrder
    <3>2. running'[d] \in Issued' /\ ConversationKey[running'[d]] = d
      BY <1>3, <1>4, <2>1, <3>1
    <3>3. ASSUME NEW i \in DOMAIN queued'[d]
          PROVE  /\ queued'[d][i] \in Issued' /\ ConversationKey[queued'[d][i]] = d
                 /\ Before(running[d], queued[d][i])'
      <4>1. i + 1 \in DOMAIN queued[d] /\ 1 \in DOMAIN queued[d]
            /\ i \in DOMAIN queued'[d] /\ 1 < i + 1
        <5>1. i \in 1..Len(queued'[d])
          BY <1>1, <1>4, <2>1, <1>2, QueuedTasksType, TailShifts
        <5> QED
          BY <1>4, <2>1, <5>1
      <4>2. Before(queued[d][1], queued[d][i + 1])
        BY <3>1, <4>1
      <4> QED
        BY <1>3, <1>4, <2>1, <3>1, <4>1, <4>2
    <3>4. ASSUME NEW i \in DOMAIN queued'[d], NEW j \in DOMAIN queued'[d], i < j
          PROVE  Before(queued[d][i], queued[d][j])'
      <4>1. /\ i + 1 \in DOMAIN queued[d] /\ j + 1 \in DOMAIN queued[d] /\ i + 1 < j + 1
        BY <1>4, <2>1, <3>4
      <4>2. Before(queued[d][i + 1], queued[d][j + 1])
        BY <3>1, <4>1
      <4> QED
        BY <1>3, <1>4, <2>1, <4>2
    <3> QED
      BY <3>2, <3>3, <3>4
  <2>2. CASE d \notin P
    BY <1>3, <1>5, <2>2 DEF OrderInv, ServedInOrder
  <2> QED
    BY <2>1, <2>2
<1>7. ReadyInArrivalOrder'
  <2> DEFINE n == Len(ready_conversations)
  <2>1. /\ ready_conversations \in Seq(Conversations) /\ n \in Nat
        /\ DOMAIN ready_conversations = 1..n
        /\ \A i \in 1..n : ready_conversations[i] \in Conversations
    BY <1>1, LenProperties, ElementOfSeq DEF TypeOK
  <2>2. /\ DOMAIN ready_conversations' = 1..(n - k)
        /\ \A i \in 1..(n - k) : ready_conversations'[i] = ready_conversations[k + i]
    <3>1. \A i \in (k + 1)..n : ready_conversations[i] \in Conversations
      BY <2>1
    <3>2. /\ ready_conversations' \in Seq(Conversations)
          /\ Len(ready_conversations') = IF k + 1 <= n THEN n - (k + 1) + 1 ELSE 0
          /\ \A i \in 1..(n - (k + 1) + 1) :
                ready_conversations'[i] = ready_conversations[(k + 1) + i - 1]
      BY <1>2, <2>1, <3>1, SubSeqProperties
    <3>3. \A i \in 1..(n - k) : (k + 1) + i - 1 = k + i /\ n - (k + 1) + 1 = n - k
      BY <2>1
    <3>4. Len(ready_conversations') = n - k
      <4> DEFINE m == Len(ready_conversations')
      <4>1. m = IF k + 1 <= n THEN n - (k + 1) + 1 ELSE 0
        BY <3>2
      <4>2. k \in 0..n /\ n \in Nat
        BY <2>1
      <4> HIDE DEF m, n
      <4>3. m = n - k
        BY <4>1, <4>2
      <4> QED
        BY <4>3 DEF m
    <3> QED
      BY <3>2, <3>3, <3>4, LenProperties
  <2>3. ASSUME NEW i \in 1..(n - k)
        PROVE  /\ k + i \in 1..n
               /\ queued'[ready_conversations'[i]] = queued[ready_conversations[k + i]]
    <3>1. k + i \in 1..n
      BY <2>1
    <3>2. \A j \in 1..k : j \in 1..n /\ j # k + i
      BY <2>1
    <3>3. ready_conversations[k + i] \notin Popped(k)
      BY <1>1, <2>1, <3>1, <3>2 DEF NoLostConversation, Popped
    <3>4. ready_conversations[k + i] \notin Active
      BY <1>1, <2>1, <3>1 DEF NoLostConversation
    <3>5. ready_conversations[k + i] \notin P
      BY <1>2, <3>3, <3>4 DEF OwnNext
    <3> QED
      BY <1>5, <2>1, <2>2, <3>1, <3>5
  <2>4. ASSUME NEW i \in 1..(n - k), NEW j \in 1..(n - k), i < j
        PROVE  Before(Head(queued[ready_conversations[i]]),
                      Head(queued[ready_conversations[j]]))'
    <3>1. k + i \in 1..n /\ k + j \in 1..n /\ k + i < k + j
      BY <2>1, <2>3, <2>4
    <3>2. Before(Head(queued[ready_conversations[k + i]]), Head(queued[ready_conversations[k + j]]))
      BY <2>1, <3>1 DEF OrderInv, ReadyInArrivalOrder
    <3> QED
      BY <1>3, <2>3, <3>2
  <2> QED
    BY <2>2, <2>4 DEF ReadyInArrivalOrder
<1>8. EndsOnce'
  <2> DEFINE n == Len(recent_terminal)
             t == running[c]
  <2>1. t \in Tasks /\ t \in Issued /\ ConversationKey[t] = c
    BY <1>1, <1>2 DEF OrderInv, ServedInOrder, TypeOK, Active
  <2>2. PICK e \in {0, 1} :
               /\ n \in Nat /\ DOMAIN recent_terminal = 1..n
               /\ DOMAIN recent_terminal' = 1..(n + 1 - e)
               /\ recent_terminal'[n + 1 - e] = [task |-> t, state |-> s]
               /\ \A i \in 1..(n - e) : recent_terminal'[i] = recent_terminal[i + e]
    BY <1>1, <1>2, <2>1, PushTerminalEntries
  <2>3. \A i \in 1..(n + 1 - e) : i = n + 1 - e \/ (i \in 1..(n - e) /\ i + e \in 1..n)
    BY <2>2
  <2>4. \A i \in 1..n : /\ recent_terminal[i].task # t /\ recent_terminal[i].task \in Issued
                        /\ \A d \in Conversations :
                             /\ running[d] # recent_terminal[i].task
                             /\ \A m \in DOMAIN queued[d] : queued[d][m] # recent_terminal[i].task
    BY <2>2 DEF OrderInv, EndsOnce
  <2>5. \A d \in Conversations : \A m \in DOMAIN queued[d] : queued[d][m] # t
    <3> SUFFICES ASSUME NEW d \in Conversations, NEW m \in DOMAIN queued[d], queued[d][m] = t
                 PROVE  FALSE
      OBVIOUS
    <3>1. ConversationKey[t] = d
      BY DEF OrderInv, ServedInOrder
    <3>2. Before(t, t)
      BY <1>2, <2>1, <3>1 DEF OrderInv, ServedInOrder
    <3> QED
      BY <1>1, <3>2, BeforeIrreflexive
  <2>6. \A d \in Conversations \ {c} : running[d] # t
    BY <1>2, <2>1, NoTaskAssumption DEF OrderInv, ServedInOrder, Active
  <2>7. ASSUME NEW u, NEW d \in Conversations,
               u = t \/ running[d] # u, \A m \in DOMAIN queued[d] : queued[d][m] # u,
               u \in Tasks
        PROVE  running'[d] # u /\ \A m \in DOMAIN queued'[d] : queued'[d][m] # u
    <3>1. CASE d \in P
      BY <1>4, <2>7, <3>1
    <3>2. CASE d \notin P
      <4>1. queued'[d] = queued[d]
        BY <1>5, <3>2
      <4>2. running'[d] = IF d = c THEN NoTask ELSE running[d]
        BY <1>2, <3>2
      <4> QED
        BY <2>1, <2>6, <2>7, <4>1, <4>2, NoTaskAssumption
    <3> QED
      BY <3>1, <3>2
  <2>8. \A i \in 1..n : recent_terminal[i].task \in Tasks
    <3> DEFINE R == [task : Tasks, state : TerminalStates]
    <3>1. recent_terminal \in Seq(R)
      BY <1>1 DEF TypeOK
    <3>2. \A i \in 1..n : recent_terminal[i] \in R
      BY <3>1, ElementOfSeq
    <3> QED
      BY <3>2
  <2>9. ASSUME NEW i \in 1..(n + 1 - e), NEW d \in Conversations
        PROVE  LET u == recent_terminal'[i].task IN
               u \in Issued' /\ running'[d] # u /\ \A m \in DOMAIN queued'[d] : queued'[d][m] # u
    <3> DEFINE u == recent_terminal'[i].task
    <3>1. CASE i = n + 1 - e
      <4>1. u = t
        BY <2>2, <3>1
      <4>2. running'[d] # t /\ \A m \in DOMAIN queued'[d] : queued'[d][m] # t
        BY <2>1, <2>5, <2>7
      <4> QED
        BY <1>3, <2>1, <4>1, <4>2
    <3>2. CASE i \in 1..(n - e) /\ i + e \in 1..n
      <4> DEFINE old == recent_terminal[i + e].task
      <4>1. u = old
        BY <2>2, <3>2
      <4>2. /\ old \in Tasks /\ old \in Issued /\ running[d] # old
            /\ \A m \in DOMAIN queued[d] : queued[d][m] # old
        BY <2>4, <2>8, <3>2
      <4> HIDE DEF old
      <4>3. running'[d] # old /\ \A m \in DOMAIN queued'[d] : queued'[d][m] # old
        BY <2>7, <4>2
      <4> QED
        BY <1>3, <4>1, <4>2, <4>3
    <3> QED
      BY <2>3, <3>1, <3>2
  <2>10. ASSUME NEW i \in 1..(n + 1 - e), NEW j \in 1..(n + 1 - e),
                recent_terminal'[i].task = recent_terminal'[j].task
         PROVE  i = j
    <3>1. CASE i = n + 1 - e \/ j = n + 1 - e
      <4>1. recent_terminal'[n + 1 - e].task = t
        BY <2>2
      <4>2. \A m \in 1..(n - e) : m + e \in 1..n => recent_terminal'[m].task # t
        BY <2>2, <2>4
      <4> QED
        BY <2>3, <2>10, <3>1, <4>1, <4>2
    <3>2. CASE i # n + 1 - e /\ j # n + 1 - e
      <4>1. i \in 1..(n - e) /\ j \in 1..(n - e) /\ i + e \in 1..n /\ j + e \in 1..n
        BY <2>3, <3>2
      <4>2. i + e = j + e
        BY <2>2, <2>10, <4>1 DEF OrderInv, EndsOnce
      <4> QED
        BY <2>2, <4>1, <4>2
    <3> QED
      BY <3>1, <3>2
  <2> QED
    BY <2>2, <2>9, <2>10 DEF EndsOnce
<1> QED
  BY <1>3, <1>6, <1>7, <1>8 DEF OrderInv

\* Nothing was submitted yet.
LEMMA InitOrder == SchedulerInit => OrderInv
<1> SUFFICES ASSUME SchedulerInit PROVE OrderInv
  OBVIOUS
<1>1. Active = {} /\ \A c \in Conversations : queued[c] = << >>
  BY DEF SchedulerInit, NoneRunning, NoneQueued, Active
<1> QED
  BY <1>1 DEF SchedulerInit, OrderInv, IssuedOnce, ServedInOrder, ReadyInArrivalOrder,
              EndsOnce

\* Every step of the scheduler keeps the order, a rejection by changing nothing else.
LEMMA NextOrder == SlotInv /\ OrderInv /\ [SchedulerNext]_schedulerVars => OrderInv'
<1> SUFFICES ASSUME SlotInv, OrderInv, [SchedulerNext]_schedulerVars
             PROVE  OrderInv'
  OBVIOUS
<1>1. ASSUME NEW t \in Tasks, Admit(t)
      PROVE  OrderInv'
  <2>1. CASE AdmitStartNow(t)
    BY <1>1, <2>1, StartNowOrder DEF Admit
  <2>2. CASE AdmitQueued(t)
    BY <1>1, <2>2, QueuedOrder DEF Admit
  <2>3. CASE AdmitQueueFull(t)
    <3>1. UNCHANGED state
      BY <2>3 DEF AdmitQueueFull
    <3>2. /\ IssuedOnce' /\ Issued' = Issued \cup {t}
          /\ \A u, v : Before(u, v) => Before(u, v)'
      BY <1>1, IssueExtends DEF Admit, SlotInv, OrderInv
    <3>3. ServedInOrder'
      BY <3>1, <3>2 DEF state, OrderInv, ServedInOrder, Active
    <3>4. ReadyInArrivalOrder'
      BY <3>1, <3>2 DEF state, OrderInv, ReadyInArrivalOrder
    <3>5. EndsOnce'
      BY <3>1, <3>2 DEF state, OrderInv, EndsOnce
    <3> QED
      BY <3>2, <3>3, <3>4, <3>5 DEF OrderInv
  <2> QED
    BY <1>1, <2>1, <2>2, <2>3 DEF Admit
<1>2. ASSUME NEW c \in Conversations, NEW s \in TerminalStates, Finish(c, s)
      PROVE  OrderInv'
  BY <1>2, FinishOrder
<1>3. CASE Restart
  <2>1. Active' = {} /\ \A c \in Conversations : queued'[c] = << >>
    BY <1>3 DEF Restart, NoneRunning, NoneQueued, Active
  <2>2. IssuedOnce'
    BY <1>3, BeforeStable DEF Restart, OrderInv
  <2>3. ServedInOrder' /\ ReadyInArrivalOrder' /\ EndsOnce'
    BY <1>3, <2>1 DEF Restart, ServedInOrder, ReadyInArrivalOrder, EndsOnce
  <2> QED
    BY <2>2, <2>3 DEF OrderInv
<1>4. CASE UNCHANGED schedulerVars
  BY <1>4 DEF schedulerVars, OrderInv, IssuedOnce, ServedInOrder, ReadyInArrivalOrder,
              EndsOnce, Issued, Before, Active
<1> QED
  BY <1>1, <1>2, <1>3, <1>4 DEF SchedulerNext

-----------------------------------------------------------------------------
\* The order invariant holds in every reachable state.
THEOREM OrderInvariant == SchedulerSpec => []OrderInv
<1>1. SchedulerInit => OrderInv
  BY InitOrder
<1>2. SlotInv /\ OrderInv /\ [SchedulerNext]_schedulerVars => OrderInv'
  BY NextOrder
<1> QED
  BY <1>1, <1>2, SlotInvariant, PTL DEF SchedulerSpec

\* A conversation is served in the order of its messages.
THEOREM ServedInSubmissionOrder == SchedulerSpec => []ServedInOrder
  BY OrderInvariant, PTL DEF OrderInv

\* The idle conversations wait for a slot in the order of their first tasks.
THEOREM ReadyInSubmissionOrder == SchedulerSpec => []ReadyInArrivalOrder
  BY OrderInvariant, PTL DEF OrderInv

\* A task that ended is never run again.
THEOREM TasksEndOnce == SchedulerSpec => []EndsOnce
  BY OrderInvariant, PTL DEF OrderInv

-----------------------------------------------------------------------------
(* What the waiting tasks were told *)

\* The map of queues has entries for the conversations with waiting tasks only.
EntriesExact == \A c \in Conversations : c \in entries <=> queued[c] # << >>

ToldInv == EntriesExact /\ ToldEnough

\* Whether c has a run, as a number.
Runs(c) == IF c \in Active THEN 1 ELSE 0

\* A task that has to wait has something ahead of it: its own conversation's tasks, or,
\* when its conversation is idle, the runs that hold every slot.
LEMMA SomethingAhead ==
  ASSUME SlotInv, EntriesExact, NEW c \in Conversations, ~can_start_now(c)
  PROVE  /\ tasks_ahead_for(c) >= 1
         /\ tasks_ahead_for(c) >= Runs(c) + Len(queued[c])
<1> DEFINE n == Len(queued[c])
<1>1. n \in Nat /\ (queued[c] # << >> <=> n >= 1)
  <2>1. queued[c] \in Seq(Tasks)
    BY DEF SlotInv, TypeOK
  <2>2. Len(queued[c]) \in Nat /\ (Len(queued[c]) = 0 <=> queued[c] = << >>)
    BY <2>1, LenProperties, EmptySeq
  <2> QED
    BY <2>2
<1>2. Cardinality(Active) \in Nat /\ waiting_count \in Nat
  BY FS_CardinalityType DEF SlotInv, WithinLimits, waiting_count
<1>3. c \in entries <=> queued[c] # << >>
  BY DEF EntriesExact
<1>4. CASE c \in Active \/ queued[c] # << >>
  <2>1. tasks_ahead_for(c) = Runs(c) + n
    BY <1>3, <1>4 DEF tasks_ahead_for, Runs
  <2>2. n \in Nat /\ (c \in Active \/ n >= 1)
    BY <1>1, <1>4
  <2> HIDE DEF n
  <2>3. Runs(c) + n >= 1
    BY <2>2 DEF Runs
  <2>4. Runs(c) + n >= Runs(c) + n
    BY <2>2 DEF Runs
  <2> QED
    BY <2>1, <2>3, <2>4 DEF n
<1>5. CASE c \notin Active /\ queued[c] = << >>
  <2>1. ~(Cardinality(Active) < max_concurrent)
    BY <1>5 DEF can_start_now
  <2>2. tasks_ahead_for(c) = Cardinality(Active) + waiting_count
    BY <1>3, <1>5 DEF tasks_ahead_for
  <2>3. tasks_ahead_for(c) >= 1
    BY <1>2, <2>1, <2>2, MaxConcurrentType
  <2>4. Runs(c) = 0 /\ n = 0
    BY <1>1, <1>5 DEF Runs
  <2>5. tasks_ahead_for(c) \in Nat
    BY <1>2, <2>2
  <2> QED
    BY <2>3, <2>4, <2>5
<1> QED
  BY <1>4, <1>5

\* No task waits in two places, and none that waits is new.
LEMMA WaitsInOnePlace ==
  ASSUME SlotInv, OrderInv, NEW c \in Conversations, NEW i \in DOMAIN queued[c]
  PROVE  /\ queued[c][i] \in Tasks /\ queued[c][i] \in Issued
         /\ \A d \in Conversations : \A j \in DOMAIN queued[d] :
              queued[d][j] = queued[c][i] => d = c /\ j = i
<1>1. TypeOK /\ IssuedOnce /\ ServedInOrder
  BY DEF SlotInv, OrderInv
<1>2. DOMAIN queued[c] = 1..Len(queued[c]) /\ Len(queued[c]) \in Nat
      /\ queued[c][i] \in Tasks
  BY <1>1, QueuedTasksType
<1>3. queued[c][i] \in Issued /\ ConversationKey[queued[c][i]] = c
  BY <1>1 DEF ServedInOrder
<1>4. ASSUME NEW d \in Conversations, NEW j \in DOMAIN queued[d],
             queued[d][j] = queued[c][i]
      PROVE  d = c /\ j = i
  <2>1. d = c
    BY <1>1, <1>3, <1>4 DEF ServedInOrder
  <2>2. j \in Int /\ i \in Int
    BY <1>2, <2>1
  <2>3. ~(i < j)
    <3>1. SUFFICES ASSUME i < j PROVE FALSE
      OBVIOUS
    <3>2. Before(queued[c][i], queued[c][j])
      BY <1>1, <2>1, <3>1 DEF ServedInOrder
    <3> QED
      BY <1>1, <1>4, <2>1, <3>2, BeforeIrreflexive
  <2>4. ~(j < i)
    <3>1. SUFFICES ASSUME j < i PROVE FALSE
      OBVIOUS
    <3>2. Before(queued[c][j], queued[c][i])
      BY <1>1, <2>1, <3>1 DEF ServedInOrder
    <3> QED
      BY <1>1, <1>4, <2>1, <3>2, BeforeIrreflexive
  <2> QED
    BY <2>1, <2>2, <2>3, <2>4
<1> QED
  BY <1>2, <1>3, <1>4

\* A task that starts at once leaves nobody of its conversation waiting.
LEMMA StartNowTold ==
  ASSUME SlotInv, ToldInv, NEW t \in Tasks, AdmitStartNow(t)
  PROVE  ToldInv'
<1> DEFINE c == ConversationKey[t]
<1>1. c \in Conversations /\ TypeOK
  BY ConversationKeyAssumption DEF SlotInv
<1>2. /\ queued[c] = << >> /\ running' = [running EXCEPT ![c] = t]
      /\ UNCHANGED <<entries, queued, told>>
  BY DEF AdmitStartNow, can_start_now
<1>3. DOMAIN queued[c] = {}
  BY <1>1, <1>2, QueuedTasksType, EmptySeq
<1>4. \A d \in Conversations \ {c} : running'[d] = running[d]
  BY <1>1, <1>2 DEF TypeOK
<1>5. \A d \in Conversations \ {c} : d \in Active' <=> d \in Active
  BY <1>4 DEF Active
<1>6. EntriesExact'
  BY <1>2 DEF ToldInv, EntriesExact
<1>7. ToldEnough'
  BY <1>2, <1>3, <1>5 DEF ToldInv, ToldEnough
<1> QED
  BY <1>6, <1>7 DEF ToldInv

\* A task that is queued is told of all that its queue holds.
LEMMA QueuedTold ==
  ASSUME SlotInv, OrderInv, ToldInv, NEW t \in Tasks, Issue(t), AdmitQueued(t)
  PROVE  ToldInv'
<1> DEFINE c == ConversationKey[t]
           n == Len(queued[c])
           ahead == tasks_ahead_for(c)
<1>1. c \in Conversations /\ TypeOK /\ t \notin Issued
  BY ConversationKeyAssumption DEF SlotInv, Issue
<1>2. /\ ~can_start_now(c) /\ running' = running
      /\ entries' = entries \cup {c} /\ queued' = [queued EXCEPT ![c] = Append(queued[c], t)]
      /\ told' = [told EXCEPT ![t] = ahead]
  BY DEF AdmitQueued, Enqueue
<1>3. /\ queued[c] \in Seq(Tasks) /\ n \in Nat /\ DOMAIN queued[c] = 1..n
  BY <1>1, QueuedTasksType
<1>4. /\ queued'[c] = Append(queued[c], t)
      /\ \A d \in Conversations \ {c} : queued'[d] = queued[d]
  BY <1>1, <1>2 DEF TypeOK
<1>5. /\ queued'[c] # << >> /\ DOMAIN queued'[c] = 1..(n + 1) /\ queued'[c][n + 1] = t
      /\ \A i \in 1..n : queued'[c][i] = queued[c][i]
  BY <1>3, <1>4, AppendProperties, LenProperties
<1>6. EntriesExact'
  BY <1>2, <1>4, <1>5 DEF ToldInv, EntriesExact
<1>7. Active' = Active
  BY <1>2 DEF Active
<1>8. told'[t] = ahead /\ ahead >= 1 /\ ahead >= Runs(c) + n
  BY <1>1, <1>2, SomethingAhead DEF ToldInv, TypeOK
<1>9. \A d \in Conversations : \A i \in DOMAIN queued[d] : told'[queued[d][i]] = told[queued[d][i]]
  <2> SUFFICES ASSUME NEW d \in Conversations, NEW i \in DOMAIN queued[d]
               PROVE  told'[queued[d][i]] = told[queued[d][i]]
    OBVIOUS
  <2>1. queued[d][i] \in Tasks /\ queued[d][i] # t
    BY <1>1, WaitsInOnePlace
  <2> QED
    BY <1>1, <1>2, <2>1 DEF TypeOK
<1> HIDE DEF ahead, n
<1>10. ToldEnough'
  <2> SUFFICES ASSUME NEW d \in Conversations, NEW i \in DOMAIN queued'[d]
               PROVE  /\ told'[queued'[d][i]] >= 1
                      /\ told'[queued'[d][i]] >= Runs(d) + (i - 1)
    BY <1>7 DEF ToldEnough, Runs
  <2>1. CASE d = c /\ i = n + 1
    <3>1. (n + 1) - 1 = n
      BY <1>3
    <3> QED
      BY <1>5, <1>8, <2>1, <3>1
  <2>2. CASE ~(d = c /\ i = n + 1)
    <3>1. i \in DOMAIN queued[d] /\ queued'[d][i] = queued[d][i]
      BY <1>3, <1>4, <1>5, <2>2
    <3>2. told[queued[d][i]] >= 1 /\ told[queued[d][i]] >= Runs(d) + (i - 1)
      BY <3>1 DEF ToldInv, ToldEnough, Runs
    <3> QED
      BY <1>9, <3>1, <3>2
  <2> QED
    BY <2>1, <2>2
<1> QED
  BY <1>6, <1>10 DEF ToldInv

\* finish moves the tasks of a conversation that it promotes one place forward, and an
\* entry goes with its last task.
LEMMA FinishTold ==
  ASSUME SlotInv, OrderInv, ToldInv, NEW c \in Conversations, NEW s \in TerminalStates,
         Finish(c, s)
  PROVE  ToldInv'
<1>1. TypeOK /\ NoLostConversation /\ EntriesExact /\ ToldEnough /\ c \in Active
  BY DEF SlotInv, ToldInv, Finish
<1>2. PICK k \in 0..Len(ready_conversations) : StopsFirstAt(c, k) /\ Promote(c, k)
  BY DEF Finish
<1> DEFINE P == Promoted(c, k)
<1>3. /\ P \subseteq Conversations
      /\ \A d \in P : queued[d] # << >>
      /\ Active' = Held(c) \cup Startable(c, k)
  BY <1>1, <1>2, ActiveAfterFinish
<1>4. Active' \subseteq Active \cup P
  BY <1>3 DEF Held, Promoted
<1>5. \A d \in Conversations :
         queued'[d] = IF d \in P THEN Tail(queued[d]) ELSE queued[d]
  BY <1>2 DEF Promote, TakeFirst
<1>6. EntriesExact'
  <2>1. entries' = entries \ {d \in Asked(c, k) : queued'[d] = << >>}
    BY <1>2 DEF Promote
  <2>2. P \subseteq Asked(c, k)
    BY DEF Promoted, OwnNext, Startable, Asked
  <2> SUFFICES ASSUME NEW d \in Conversations
               PROVE  d \in entries' <=> queued'[d] # << >>
    BY DEF EntriesExact
  <2>3. d \in entries <=> queued[d] # << >>
    BY <1>1 DEF EntriesExact
  <2>4. CASE d \in P
    BY <1>3, <2>1, <2>2, <2>3, <2>4
  <2>5. CASE d \notin P
    BY <1>5, <2>1, <2>3, <2>5
  <2> QED
    BY <2>4, <2>5
<1>7. ASSUME NEW d \in Conversations, NEW i \in DOMAIN queued[d], d \in P => i # 1
      PROVE  told'[queued[d][i]] = told[queued[d][i]]
  <2>1. queued[d][i] \in Tasks
        /\ \A e \in Conversations : \A j \in DOMAIN queued[e] :
             queued[e][j] = queued[d][i] => e = d /\ j = i
    BY WaitsInOnePlace
  <2>2. \A e \in P : queued[d][i] # Head(queued[e])
    <3> SUFFICES ASSUME NEW e \in P, queued[d][i] = Head(queued[e])
                 PROVE  FALSE
      OBVIOUS
    <3>1. Head(queued[e]) = queued[e][1] /\ 1 \in DOMAIN queued[e] /\ e \in Conversations
      BY <1>1, <1>3, QueuedTasksType
    <3> QED
      BY <1>7, <2>1, <3>1
  <2>3. told' = [t \in Tasks |->
                  IF \E e \in P : t = Head(queued[e]) THEN 0 ELSE told[t]]
    BY <1>2 DEF Promote, StartFirst
  <2> HIDE DEF P
  <2> QED
    BY <2>1, <2>2, <2>3
<1> HIDE DEF P
<1>8. ToldEnough'
  <2> SUFFICES ASSUME NEW d \in Conversations, NEW i \in DOMAIN queued'[d]
               PROVE  /\ told'[queued'[d][i]] >= 1
                      /\ told'[queued'[d][i]] >= (IF d \in Active' THEN 1 ELSE 0) + (i - 1)
    BY DEF ToldEnough
  <2>0. DOMAIN queued[d] = 1..Len(queued[d]) /\ Len(queued[d]) \in Nat
        /\ queued[d] \in Seq(Tasks)
    BY <1>1, QueuedTasksType
  <2>1. CASE d \in P
    <3>1. queued'[d] = Tail(queued[d])
      BY <1>5, <2>1
    <3>2. /\ DOMAIN Tail(queued[d]) = 1..(Len(queued[d]) - 1)
          /\ i + 1 \in DOMAIN queued[d] /\ Tail(queued[d])[i] = queued[d][i + 1]
      BY <1>3, <2>0, <2>1, <3>1, TailShifts
    <3>3. i \in Nat \ {0}
      BY <2>0, <3>1, <3>2
    <3>4. told'[queued'[d][i]] = told[queued[d][i + 1]]
      BY <1>7, <3>1, <3>2, <3>3
    <3>5. told[queued[d][i + 1]] >= 1
          /\ told[queued[d][i + 1]] >= (IF d \in Active THEN 1 ELSE 0) + ((i + 1) - 1)
      BY <1>1, <3>2 DEF ToldEnough
    <3>6. queued[d][i + 1] \in Tasks
      BY <2>0, <3>2, ElementOfSeq
    <3>7. told[queued[d][i + 1]] \in Nat
      BY <1>1, <3>6 DEF TypeOK
    <3> DEFINE m == told[queued[d][i + 1]]
    <3>8. m \in Nat /\ m >= 1 /\ m >= (IF d \in Active THEN 1 ELSE 0) + ((i + 1) - 1)
      BY <3>5, <3>7
    <3> HIDE DEF m
    <3>9. m >= (IF d \in Active' THEN 1 ELSE 0) + (i - 1)
      BY <3>3, <3>8
    <3> QED
      BY <3>4, <3>8, <3>9 DEF m
  <2>2. CASE d \notin P
    <3>1. queued'[d] = queued[d] /\ i \in DOMAIN queued[d]
      BY <1>5, <2>2
    <3>2. told'[queued'[d][i]] = told[queued[d][i]]
      BY <1>7, <2>2, <3>1
    <3>3. told[queued[d][i]] >= 1
          /\ told[queued[d][i]] >= (IF d \in Active THEN 1 ELSE 0) + (i - 1)
      BY <1>1, <3>1 DEF ToldEnough
    <3>4. d \in Active' => d \in Active
      BY <1>4, <2>2
    <3>5. queued[d][i] \in Tasks /\ i \in Nat
      BY <2>0, <3>1, ElementOfSeq
    <3>6. told[queued[d][i]] \in Nat
      BY <1>1, <3>5 DEF TypeOK
    <3> QED
      BY <3>2, <3>3, <3>4, <3>5, <3>6
  <2> QED
    BY <2>1, <2>2
<1> QED
  BY <1>6, <1>8 DEF ToldInv

\* Every step keeps what the waiting tasks were told true.
LEMMA NextTold ==
  SlotInv /\ OrderInv /\ ToldInv /\ [SchedulerNext]_schedulerVars => ToldInv'
<1> SUFFICES ASSUME SlotInv, OrderInv, ToldInv, [SchedulerNext]_schedulerVars
             PROVE  ToldInv'
  OBVIOUS
<1>1. ASSUME NEW t \in Tasks, Admit(t)
      PROVE  ToldInv'
  <2>1. CASE AdmitStartNow(t)
    BY <2>1, StartNowTold
  <2>2. CASE AdmitQueued(t)
    BY <1>1, <2>2, QueuedTold DEF Admit
  <2>3. CASE AdmitQueueFull(t)
    <3>1. UNCHANGED state
      BY <2>3 DEF AdmitQueueFull
    <3> QED
      BY <3>1 DEF state, ToldInv, EntriesExact, ToldEnough, Active
  <2> QED
    BY <1>1, <2>1, <2>2, <2>3 DEF Admit
<1>2. ASSUME NEW c \in Conversations, NEW s \in TerminalStates, Finish(c, s)
      PROVE  ToldInv'
  BY <1>2, FinishTold
<1>3. CASE Restart
  <2>1. entries' = {} /\ \A c \in Conversations : queued'[c] = << >>
    BY <1>3 DEF Restart, NoneQueued
  <2> QED
    BY <2>1 DEF ToldInv, EntriesExact, ToldEnough
<1>4. CASE UNCHANGED schedulerVars
  BY <1>4 DEF schedulerVars, ToldInv, EntriesExact, ToldEnough, Active
<1> QED
  BY <1>1, <1>2, <1>3, <1>4 DEF SchedulerNext

\* Nobody who waits was told of fewer tasks than are before it in its conversation, or
\* that nothing is ahead.
THEOREM WaitersWereToldEnough == SchedulerSpec => []ToldEnough
<1>1. SchedulerInit => ToldInv
  <2> SUFFICES ASSUME SchedulerInit PROVE ToldInv
    OBVIOUS
  <2>1. entries = {} /\ \A c \in Conversations : queued[c] = << >>
    BY DEF SchedulerInit, NoneQueued
  <2> QED
    BY <2>1 DEF ToldInv, EntriesExact, ToldEnough
<1>2. SlotInv /\ OrderInv /\ ToldInv /\ [SchedulerNext]_schedulerVars => ToldInv'
  BY NextTold
<1>3. ToldInv => ToldEnough
  BY DEF ToldInv
<1> QED
  BY <1>1, <1>2, <1>3, SlotInvariant, OrderInvariant, PTL DEF SchedulerSpec

-----------------------------------------------------------------------------
(* Nobody jumps the queue *)

\* Of two tasks at most one was submitted before the other.
LEMMA BeforeAsymmetric ==
  ASSUME TypeOK, IssuedOnce, NEW t, NEW u, Before(t, u), Before(u, t)
  PROVE  FALSE
<1>1. PICK i, j \in DOMAIN issued : i < j /\ issued[i] = t /\ issued[j] = u
  BY DEF Before
<1>2. PICK k, m \in DOMAIN issued : k < m /\ issued[k] = u /\ issued[m] = t
  BY DEF Before
<1>3. DOMAIN issued = 1..Len(issued) /\ Len(issued) \in Nat
  BY LenProperties DEF TypeOK
<1>4. i = m /\ j = k
  BY <1>1, <1>2 DEF IssuedOnce
<1> QED
  BY <1>1, <1>2, <1>3, <1>4

\* Conversation c starts a run while d is left idle with a task that waits.
StartsBeside(c, d) ==
    /\ c \notin Active /\ c \in Active'
    /\ d \notin Active' /\ queued'[d] # << >>

\* A message that starts at once finds a free slot, so that nobody is waiting.
LEMMA StartNowOvertakesNobody ==
  ASSUME SlotInv, NEW t \in Tasks, AdmitStartNow(t),
         NEW c \in Conversations, NEW d \in Conversations, StartsBeside(c, d)
  PROVE  FALSE
<1>1. /\ Cardinality(Active) < max_concurrent
      /\ UNCHANGED <<queued, ready_conversations>>
      /\ running' = [running EXCEPT ![ConversationKey[t]] = t]
  BY DEF AdmitStartNow, can_start_now
<1>2. ready_conversations = << >>
  <2> SUFFICES ASSUME ready_conversations # << >> PROVE FALSE
    OBVIOUS
  <2>1. Cardinality(Active) = max_concurrent
    BY DEF SlotInv, WorkConserving
  <2> QED
    BY <1>1, <2>1, MaxConcurrentType
<1>3. d \notin Active
  BY <1>1, NoTaskAssumption DEF SlotInv, TypeOK, StartsBeside, Active
<1>4. \E i \in DOMAIN ready_conversations : ready_conversations[i] = d
  BY <1>1, <1>3 DEF SlotInv, NoLostConversation, StartsBeside
<1> QED
  BY <1>2, <1>4

\* The conversations that the loop of finish leaves idle come after those it starts.
LEMMA FinishOvertakesNobody ==
  ASSUME SlotInv, OrderInv, NEW e \in Conversations, NEW s \in TerminalStates, Finish(e, s),
         NEW c \in Conversations, NEW d \in Conversations, StartsBeside(c, d)
  PROVE  \A u, v : u = Head(queued'[d]) /\ v = running'[c] => ~Before(u, v)'
<1> DEFINE n == Len(ready_conversations)
<1>1. PICK P \in SUBSET Conversations, k \in 0..n : PassesOn(e, s, P, k)
  BY FinishEffect
<1>2. TypeOK /\ NoLostConversation /\ IssuedOnce
  BY DEF SlotInv, OrderInv
<1>3. /\ n \in Nat /\ DOMAIN ready_conversations = 1..n
      /\ \A i \in 1..n : ready_conversations[i] \in Conversations
  BY <1>2, LenProperties, ElementOfSeq DEF TypeOK
<1>4. \A f \in P : Head(queued[f]) \in Tasks
  BY <1>1, <1>2, QueuedTasksType DEF PassesOn
<1>5. c \in P /\ c # e /\ running'[c] = Head(queued[c])
  BY <1>1 DEF PassesOn, StartsBeside, Active
<1>6. PICK i \in 1..k : ready_conversations[i] = c
  BY <1>1, <1>5 DEF PassesOn, OwnNext, Popped
<1>7. d \notin P
  BY <1>1, <1>4, NoTaskAssumption DEF PassesOn, StartsBeside, Active
<1>8. queued'[d] = queued[d] /\ d \notin Active
  BY <1>1, <1>7 DEF PassesOn, StartsBeside, Active
<1>9. PICK j \in 1..n : ready_conversations[j] = d
  BY <1>2, <1>3, <1>8 DEF NoLostConversation, StartsBeside
<1>10. j \notin 1..k
  BY <1>1, <1>7, <1>9 DEF PassesOn, Popped
<1>11. i \in 1..n /\ i < j
  BY <1>3, <1>6, <1>9, <1>10
<1>12. Before(Head(queued[c]), Head(queued[d]))
  BY <1>3, <1>6, <1>9, <1>11 DEF OrderInv, ReadyInArrivalOrder
<1>13. ~Before(Head(queued[d]), Head(queued[c]))
  BY <1>2, <1>12, BeforeAsymmetric
<1>14. \A u, v : Before(u, v)' <=> Before(u, v)
  BY <1>1, BeforeStable DEF PassesOn
<1> QED
  BY <1>5, <1>8, <1>13, <1>14

\* Only the next task of the conversation whose run just ended starts before an
\* older task of an idle conversation.
THEOREM NobodyOvertakes == SchedulerSpec => OnlyOwnNextOvertakes
<1> DEFINE Kept == \A c, d \in Conversations :
                     /\ c \notin Active /\ c \in Active'
                     /\ d \notin Active' /\ queued'[d] # << >>
                     => ~Before(Head(queued[d]), running[c])'
<1>1. SlotInv /\ OrderInv /\ [SchedulerNext]_schedulerVars => [Kept]_schedulerVars
  <2> SUFFICES ASSUME SlotInv, OrderInv, SchedulerNext,
                      NEW c \in Conversations, NEW d \in Conversations, StartsBeside(c, d)
               PROVE  ~Before(Head(queued[d]), running[c])'
    BY DEF StartsBeside
  <2>1. ASSUME NEW t \in Tasks, Admit(t)
        PROVE  FALSE
    <3>1. CASE AdmitStartNow(t)
      BY <3>1, StartNowOvertakesNobody
    <3>2. CASE AdmitQueued(t) \/ AdmitQueueFull(t)
      BY <3>2 DEF AdmitQueued, Enqueue, AdmitQueueFull, state, StartsBeside, Active
    <3> QED
      BY <2>1, <3>1, <3>2 DEF Admit
  <2>2. ASSUME NEW e \in Conversations, NEW s \in TerminalStates, Finish(e, s)
        PROVE  ~Before(Head(queued[d]), running[c])'
    <3>1. \A u, v : u = Head(queued'[d]) /\ v = running'[c] => ~Before(u, v)'
      BY <2>2, FinishOvertakesNobody
    <3> QED
      BY <3>1
  <2>3. CASE Restart
    BY <2>3 DEF Restart, NoneRunning, StartsBeside, Active
  <2> QED
    BY <2>1, <2>2, <2>3 DEF SchedulerNext
<1> QED
  BY <1>1, SlotInvariant, OrderInvariant, PTL DEF SchedulerSpec, OnlyOwnNextOvertakes
==============================================================================
