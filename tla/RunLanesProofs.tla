---------------------------- MODULE RunLanesProofs ----------------------------
(***************************************************************************)
(* Proof that RunScheduler implements SerialLanes, for every set of        *)
(* conversations and tasks and every configured limit.                     *)
(*                                                                         *)
(* A lane is the queue of its conversation with the task that has the slot *)
(* and no worker yet in front.  The step that releases the lock of submit  *)
(* or finish is an Accept or a Complete; the spawns that follow, in any    *)
(* order, are the Starts.                                                  *)
(***************************************************************************)
EXTENDS RunSchedulerProofs

LaneOf(c) == Unspawned(c) \o queued[c]

\* The conversations whose slot is held by a task without a worker.
Spawning == {c \in Active : running[c] \notin Live}

-----------------------------------------------------------------------------
(* Sequences *)

\* A sequence is its head before its tail.
LEMMA HeadBeforeTail ==
  ASSUME NEW q \in Seq(Tasks), q # << >>
  PROVE  <<Head(q)>> \o Tail(q) = q
<1> DEFINE s == <<Head(q)>> \o Tail(q)
<1>1. /\ Head(q) \in Tasks /\ Tail(q) \in Seq(Tasks) /\ Len(Tail(q)) = Len(q) - 1
      /\ Len(q) \in Nat /\ Len(q) # 0
      /\ \A i \in 1..(Len(q) - 1) : Tail(q)[i] = q[i + 1]
      /\ Head(q) = q[1]
  BY HeadTailProperties, LenProperties, EmptySeq
<1>2. <<Head(q)>> \in Seq(Tasks) /\ Len(<<Head(q)>>) = 1 /\ <<Head(q)>>[1] = q[1]
  BY <1>1
<1>3. /\ s \in Seq(Tasks) /\ Len(s) = 1 + (Len(q) - 1)
      /\ \A i \in 1..(1 + (Len(q) - 1)) :
            s[i] = IF i <= 1 THEN <<Head(q)>>[i] ELSE Tail(q)[i - 1]
  BY <1>1, <1>2, ConcatProperties
<1>4. Len(s) = Len(q)
  BY <1>1, <1>3
<1>5. ASSUME NEW i \in 1..Len(s) PROVE s[i] = q[i]
  <2>1. CASE i = 1
    BY <1>1, <1>2, <1>3, <1>4, <2>1
  <2>2. CASE i # 1
    <3>1. i - 1 \in 1..(Len(q) - 1) /\ ~(i <= 1) /\ (i - 1) + 1 = i
          /\ i \in 1..(1 + (Len(q) - 1))
      BY <1>1, <1>4, <2>2
    <3> QED
      BY <1>1, <1>3, <3>1
  <2> QED
    BY <2>1, <2>2
<1> HIDE DEF s
<1>6. s = q
  BY <1>3, <1>4, <1>5, SeqEqual
<1> QED
  BY <1>6 DEF s

\* An element before a sequence is its head.
LEMMA ConsProperties ==
  ASSUME NEW q \in Seq(Tasks), NEW x \in Tasks
  PROVE  LET s == <<x>> \o q IN
         /\ s \in Seq(Tasks) /\ s # << >> /\ Head(s) = x /\ Tail(s) = q
         /\ DOMAIN s = 1..(Len(q) + 1)
<1> DEFINE s == <<x>> \o q
<1>1. <<x>> \in Seq(Tasks) /\ Len(<<x>>) = 1 /\ <<x>>[1] = x /\ Len(q) \in Nat
  BY LenProperties
<1>2. /\ s \in Seq(Tasks) /\ Len(s) = 1 + Len(q)
      /\ \A i \in 1..(1 + Len(q)) : s[i] = IF i <= 1 THEN <<x>>[i] ELSE q[i - 1]
  BY <1>1, ConcatProperties
<1>3. DOMAIN s = 1..(Len(q) + 1) /\ s # << >>
  <2>1. DOMAIN s = 1..Len(s) /\ Len(s) = Len(q) + 1 /\ Len(s) # 0
    BY <1>1, <1>2, LenProperties
  <2> QED
    BY <2>1, EmptySeq
<1>4. s[1] = x /\ \A i \in 1..Len(q) : s[i + 1] = q[i]
  BY <1>1, <1>2
<1> HIDE DEF s
<1>5. /\ Head(s) = s[1] /\ Tail(s) \in Seq(Tasks) /\ Len(Tail(s)) = Len(s) - 1
      /\ \A i \in 1..Len(Tail(s)) : Tail(s)[i] = s[i + 1]
  BY <1>2, <1>3, HeadTailProperties
<1>6. Len(Tail(s)) = Len(q) /\ \A i \in 1..Len(Tail(s)) : Tail(s)[i] = q[i]
  BY <1>1, <1>2, <1>4, <1>5
<1>7. Tail(s) = q
  BY <1>5, <1>6, SeqEqual
<1> QED
  BY <1>2, <1>3, <1>4, <1>5, <1>7 DEF s

\* A lane is its conversation's queue, or has one task more in front.
LEMMA LaneShape ==
  ASSUME TypeOK, NEW c \in Conversations
  PROVE  /\ LaneOf(c) \in Seq(Tasks)
         /\ c \notin Spawning => LaneOf(c) = queued[c] /\ Unspawned(c) = << >>
         /\ c \in Spawning => /\ LaneOf(c) = <<running[c]>> \o queued[c]
                              /\ Unspawned(c) = <<running[c]>>
                              /\ LaneOf(c) # << >>
                              /\ Head(LaneOf(c)) = running[c] /\ Tail(LaneOf(c)) = queued[c]
                              /\ DOMAIN LaneOf(c) = 1..(Len(queued[c]) + 1)
<1>1. queued[c] \in Seq(Tasks)
  BY DEF TypeOK
<1>2. CASE c \in Spawning
  <2>1. running[c] \in Tasks
    BY <1>2 DEF Spawning, Active, TypeOK
  <2>2. Unspawned(c) = <<running[c]>>
    BY <1>2 DEF Spawning, Unspawned
  <2> QED
    BY <1>1, <1>2, <2>1, <2>2, ConsProperties DEF LaneOf
<1>3. CASE c \notin Spawning
  <2>1. Unspawned(c) = << >>
    BY <1>3 DEF Spawning, Unspawned
  <2> QED
    BY <1>1, <1>3, <2>1, ConcatEmptySeq DEF LaneOf
<1> QED
  BY <1>2, <1>3

-----------------------------------------------------------------------------
(* Counting *)

InLanes == UNION {{c} \X DOMAIN LaneOf(c) : c \in Conversations}

\* What is pending are the tasks that wait and those about to be spawned.
LEMMA PendingCount ==
  ASSUME TypeOK, WithinLimits
  PROVE  /\ IsFiniteSet(InLanes) /\ IsFiniteSet(Spawning)
         /\ Cardinality(InLanes) <= Cardinality(Spawning) + waiting_count
         /\ Cardinality(InLanes) >= waiting_count
         /\ Cardinality(InLanes) \in Nat /\ Cardinality(Spawning) \in Nat
         /\ waiting_count \in Nat
<1> DEFINE shift == [w \in Waiting |-> IF w[1] \in Spawning THEN <<w[1], w[2] + 1>> ELSE w]
           shifted == {shift[w] : w \in Waiting}
           front == [c \in Spawning |-> <<c, 1>>]
           fronts == {front[c] : c \in Spawning}
<1>1. \A c \in Conversations :
         /\ DOMAIN queued[c] = 1..Len(queued[c]) /\ Len(queued[c]) \in Nat
         /\ c \in Spawning => DOMAIN LaneOf(c) = 1..(Len(queued[c]) + 1)
         /\ c \notin Spawning => DOMAIN LaneOf(c) = DOMAIN queued[c]
  BY QueuedTasksType, LaneShape
<1>2. Spawning \subseteq Active /\ Spawning \subseteq Conversations
  BY DEF Spawning, Active
<1>3. IsFiniteSet(Spawning) /\ Cardinality(Spawning) \in Nat
  BY <1>2, FS_Subset, FS_CardinalityType DEF WithinLimits
<1>4. IsFiniteSet(Waiting) /\ waiting_count \in Nat
  BY FS_CardinalityType DEF WithinLimits, waiting_count
<1>5. IsFiniteSet(shifted) /\ Cardinality(shifted) <= waiting_count
  <2>1. shift \in Surjection(Waiting, shifted)
    BY DEF Surjection
  <2> QED
    BY <1>4, <2>1, FS_Surjection DEF waiting_count
<1>6. IsFiniteSet(fronts) /\ Cardinality(fronts) <= Cardinality(Spawning)
  <2>1. front \in Surjection(Spawning, fronts)
    BY DEF Surjection
  <2> QED
    BY <1>3, <2>1, FS_Surjection
<1>7. \A w : w \in Waiting <=> \E c \in Conversations : \E i \in DOMAIN queued[c] : w = <<c, i>>
  BY DEF Waiting
<1>8. \A w : w \in InLanes <=> \E c \in Conversations : \E i \in DOMAIN LaneOf(c) : w = <<c, i>>
  BY DEF InLanes
<1>9. InLanes \subseteq fronts \cup shifted
  <2> SUFFICES \A c \in Conversations : \A i \in DOMAIN LaneOf(c) :
                  <<c, i>> \in fronts \cup shifted
    <3> HIDE DEF fronts, shifted
    <3> QED
      BY <1>8
  <2> TAKE c \in Conversations
  <2> TAKE i \in DOMAIN LaneOf(c)
  <2>1. CASE c \notin Spawning
    <3>1. <<c, i>> \in Waiting
      BY <1>1, <1>7, <2>1
    <3>2. shift[<<c, i>>] = <<c, i>>
      BY <2>1, <3>1
    <3> QED
      BY <3>1, <3>2
  <2>2. CASE c \in Spawning /\ i = 1
    BY <2>2
  <2>3. CASE c \in Spawning /\ i # 1
    <3>1. i - 1 \in DOMAIN queued[c] /\ (i - 1) + 1 = i
      BY <1>1, <2>3
    <3>2. <<c, i - 1>> \in Waiting
      BY <1>7, <3>1
    <3>3. shift[<<c, i - 1>>] = <<c, i>>
      BY <2>3, <3>1, <3>2
    <3> QED
      BY <3>2, <3>3
  <2> QED
    BY <2>1, <2>2, <2>3
<1>10. /\ IsFiniteSet(InLanes) /\ Cardinality(InLanes) \in Nat
       /\ Cardinality(InLanes) <= Cardinality(Spawning) + waiting_count
  <2> HIDE DEF fronts, shifted
  <2>1. /\ IsFiniteSet(fronts \cup shifted)
        /\ Cardinality(fronts \cup shifted)
             = Cardinality(fronts) + Cardinality(shifted) - Cardinality(fronts \cap shifted)
    BY <1>5, <1>6, FS_Union
  <2>2. IsFiniteSet(fronts \cap shifted)
    BY <1>5, FS_Subset
  <2>3. /\ Cardinality(fronts) \in Nat /\ Cardinality(shifted) \in Nat
        /\ Cardinality(fronts \cap shifted) \in Nat
    BY <1>5, <1>6, <2>2, FS_CardinalityType
  <2>4. IsFiniteSet(InLanes) /\ Cardinality(InLanes) <= Cardinality(fronts \cup shifted)
    BY <1>9, <2>1, FS_Subset
  <2>5. Cardinality(InLanes) \in Nat
    BY <2>4, FS_CardinalityType
  <2> QED
    BY <1>3, <1>4, <1>5, <1>6, <2>1, <2>3, <2>4, <2>5
<1>11. Cardinality(InLanes) >= waiting_count
  <2>1. ASSUME NEW w \in Waiting PROVE shift[w] \in InLanes
    <3>1. PICK c \in Conversations : \E i \in DOMAIN queued[c] : w = <<c, i>>
      BY <1>7
    <3>2. PICK i \in DOMAIN queued[c] : w = <<c, i>>
      BY <3>1
    <3>3. CASE c \in Spawning
      <4>1. shift[w] = <<c, i + 1>> /\ i + 1 \in DOMAIN LaneOf(c)
        BY <1>1, <3>2, <3>3
      <4> QED
        BY <1>8, <4>1
    <3>4. CASE c \notin Spawning
      <4>1. shift[w] = <<c, i>> /\ i \in DOMAIN LaneOf(c)
        BY <1>1, <3>2, <3>4
      <4> QED
        BY <1>8, <4>1
    <3> QED
      BY <3>3, <3>4
  <2>2. ASSUME NEW v \in Waiting, NEW w \in Waiting, shift[v] = shift[w]
        PROVE  v = w
    <3>1. PICK c \in Conversations : \E i \in DOMAIN queued[c] : v = <<c, i>>
      BY <1>7
    <3>2. PICK i \in DOMAIN queued[c] : v = <<c, i>>
      BY <3>1
    <3>3. PICK d \in Conversations : \E i_1 \in DOMAIN queued[d] : w = <<d, i_1>>
      BY <1>7
    <3>4. PICK j \in DOMAIN queued[d] : w = <<d, j>>
      BY <3>3
    <3>5. i \in Int /\ j \in Int
      BY <1>1
    <3> QED
      BY <2>2, <3>2, <3>4, <3>5
  <2>3. shift \in Injection(Waiting, InLanes)
    BY <2>1, <2>2 DEF Injection, IsInjective
  <2> QED
    BY <1>10, <2>3, FS_Injection DEF waiting_count
<1> QED
  BY <1>3, <1>4, <1>10, <1>11

\* The tasks at work and those about to be spawned hold the slots.
LEMMA SlotCount ==
  ASSUME RunInv
  PROVE  /\ IsFiniteSet(Live) /\ Cardinality(Live) \in Nat /\ Cardinality(Active) \in Nat
         /\ Cardinality(Live) + Cardinality(Spawning) <= Cardinality(Active)
         /\ Cardinality(Spawning) \in Nat
<1>1. IsFiniteSet(Active) /\ Cardinality(Active) \in Nat /\ Spawning \subseteq Active
  BY FS_CardinalityType DEF RunInv, SlotInv, WithinLimits, Spawning
<1>2. \A t \in Live : /\ running[ConversationKey[t]] = t
                      /\ ConversationKey[t] \in Active \ Spawning
  BY ConversationKeyAssumption, NoTaskAssumption
     DEF RunInv, CarrierInv, SlotHasOneCarrier, Live, Active, Spawning
<1> DEFINE key == [t \in Live |-> ConversationKey[t]]
<1>3. key \in Injection(Live, Active \ Spawning)
  BY <1>2 DEF Injection, IsInjective
<1>4. /\ IsFiniteSet(Active \ Spawning)
      /\ Cardinality(Active \ Spawning) = Cardinality(Active) - Cardinality(Spawning)
  <2>1. Active \cap Spawning = Spawning
    BY <1>1
  <2> QED
    BY <1>1, <2>1, FS_Difference
<1>5. IsFiniteSet(Live) /\ Cardinality(Live) <= Cardinality(Active \ Spawning)
  BY <1>3, <1>4, FS_Injection
<1>6. Cardinality(Live) \in Nat /\ Cardinality(Spawning) \in Nat
  BY <1>1, <1>5, FS_Subset, FS_CardinalityType
<1> QED
  BY <1>1, <1>4, <1>5, <1>6

-----------------------------------------------------------------------------
(* The steps of the lanes, in terms of LaneOf *)

\* SerialLanes counts as the other modules do.
LEMMA LanesCount == \A S : Lanes!Cardinality(S) = Cardinality(S)
  BY DEF Lanes!Cardinality, Cardinality

\* One task is added at the end of its lane.
LEMMA AcceptStep ==
  ASSUME NEW t \in Tasks, t \notin Issued, Issued' = Issued \cup {t}, Live' = Live,
         LaneOf(ConversationKey[t])' = Append(LaneOf(ConversationKey[t]), t),
         \A d \in Conversations \ {ConversationKey[t]} : LaneOf(d)' = LaneOf(d),
         Cardinality(InLanes) + Cardinality(Live) < max_concurrent + MaxQueueDepth
  PROVE  Lanes!LaneNext
<1> DEFINE c == ConversationKey[t]
           lane == [d \in Conversations |-> Unspawned(d) \o queued[d]]
<1>1. lane' = [lane EXCEPT ![c] = Append(@, t)]
  BY ConversationKeyAssumption DEF LaneOf
<1>2. Cardinality(Lanes!Pending) + Cardinality(Live) < max_concurrent + MaxQueueDepth
  <2>1. Lanes!Pending = InLanes
    BY DEF Lanes!Pending, InLanes, LaneOf
  <2> QED
    BY <2>1
<1>3. Lanes!Accept(t)
  BY <1>1, <1>2, LanesCount DEF Lanes!Accept
<1> QED
  BY <1>3 DEF Lanes!LaneNext

\* A task is rejected.
LEMMA RejectStep ==
  ASSUME NEW t \in Tasks, t \notin Issued, Issued' = Issued \cup {t}, Live' = Live,
         \A d \in Conversations : LaneOf(d)' = LaneOf(d),
         Cardinality(InLanes) >= MaxQueueDepth
  PROVE  Lanes!LaneNext
<1> DEFINE lane == [d \in Conversations |-> Unspawned(d) \o queued[d]]
<1>1. lane' = lane
  BY DEF LaneOf
<1>2. Cardinality(Lanes!Pending) >= MaxQueueDepth
  <2>1. Lanes!Pending = InLanes
    BY DEF Lanes!Pending, InLanes, LaneOf
  <2> QED
    BY <2>1
<1>3. Lanes!Reject(t)
  BY <1>1, <1>2, LanesCount DEF Lanes!Reject
<1> QED
  BY <1>3 DEF Lanes!LaneNext

\* The first task of a lane starts.
LEMMA StartStep ==
  ASSUME NEW c \in Conversations, Issued' = Issued, LaneOf(c) # << >>,
         LaneOf(c)' = Tail(LaneOf(c)), Live' = Live \cup {Head(LaneOf(c))},
         \A d \in Conversations \ {c} : LaneOf(d)' = LaneOf(d),
         \A t \in Live : ConversationKey[t] # c,
         Cardinality(Live) < max_concurrent
  PROVE  Lanes!LaneNext
<1> DEFINE lane == [d \in Conversations |-> Unspawned(d) \o queued[d]]
<1>1. lane' = [lane EXCEPT ![c] = Tail(@)] /\ lane[c] = LaneOf(c)
  BY DEF LaneOf
<1>2. Lanes!Start(c)
  BY <1>1, LanesCount DEF Lanes!Start
<1> QED
  BY <1>2 DEF Lanes!LaneNext

\* A task that has started completes.
LEMMA CompleteStep ==
  ASSUME NEW t \in Live, Issued' = Issued, Live' = Live \ {t},
         \A d \in Conversations : LaneOf(d)' = LaneOf(d)
  PROVE  Lanes!LaneNext
<1> DEFINE lane == [d \in Conversations |-> Unspawned(d) \o queued[d]]
<1>1. lane' = lane
  BY DEF LaneOf
<1>2. Lanes!Complete(t) /\ t \in Tasks
  BY <1>1 DEF Lanes!Complete, Live
<1> QED
  BY <1>2 DEF Lanes!LaneNext

\* The lanes do not move when no slot changes hands and nobody is spawned.
LEMMA StutterStep ==
  ASSUME UNCHANGED <<running, queued, issued>>, Live' = Live
  PROVE  UNCHANGED Lanes!laneVars
<1>1. \A d : Unspawned(d)' = Unspawned(d)
  BY DEF Unspawned, Active
<1>2. Issued' = Issued
  BY DEF Issued
<1> QED
  BY <1>1, <1>2 DEF Lanes!laneVars

\* A lane is as it was when its queue, its slot and the worker of that are.
LEMMA LaneStays ==
  ASSUME NEW c \in Conversations, queued'[c] = queued[c], running'[c] = running[c],
         running[c] \in Live' <=> running[c] \in Live
  PROVE  LaneOf(c)' = LaneOf(c)
<1>1. Unspawned(c)' = Unspawned(c)
  BY DEF Unspawned, Active
<1> QED
  BY <1>1 DEF LaneOf

-----------------------------------------------------------------------------
(* Every step of RunScheduler is a step of the lanes, or changes none of them *)

\* Submitting a run is one of the abstract lanes' arrivals: it is turned away, it waits in
\* its lane, or it takes a slot.
LEMMA SubmitImplements ==
  ASSUME RunInv, RunInv', NEW t \in Tasks,
         SubmitStartNow(t) \/ SubmitQueued(t) \/ SubmitQueueFull(t)
  PROVE  Lanes!LaneNext
<1> DEFINE c == ConversationKey[t]
<1>1. /\ c \in Conversations /\ TypeOK /\ IssuedOnce /\ Issue(t) /\ WithinLimits
      /\ CarrierInv /\ TypeOK' /\ RunTypeOK
  BY ConversationKeyAssumption
     DEF RunInv, SlotInv, OrderInv, CarrierInv, SubmitStartNow, SubmitQueued, SubmitQueueFull
<1>2. t \notin Issued /\ Issued' = Issued \cup {t}
  BY <1>1, IssueExtends
<1>3. worker' = worker /\ Live' = Live /\ t \notin Live
  <2>1. worker[t] = "none" /\ worker' = worker
    BY <1>1, <1>2, FreshTask DEF RunInv, SubmitStartNow, SubmitQueued, SubmitQueueFull
  <2> QED
    BY <2>1 DEF Live, LivePhases
<1>4. /\ Cardinality(InLanes) <= Cardinality(Spawning) + waiting_count
      /\ Cardinality(InLanes) >= waiting_count
      /\ Cardinality(Live) + Cardinality(Spawning) <= Cardinality(Active)
      /\ Cardinality(Active) <= max_concurrent /\ waiting_count <= MaxQueueDepth
  BY <1>1, PendingCount, SlotCount DEF WithinLimits
<1>5. /\ Cardinality(InLanes) \in Nat /\ Cardinality(Spawning) \in Nat /\ waiting_count \in Nat
      /\ Cardinality(Live) \in Nat /\ Cardinality(Active) \in Nat
      /\ max_concurrent \in Nat /\ MaxQueueDepth \in Nat
  BY <1>1, PendingCount, SlotCount, MaxConcurrentType, MaxQueueDepthAssumption
<1>6. CASE SubmitStartNow(t)
  <2>1. /\ Cardinality(Active) < max_concurrent /\ c \notin Active /\ queued[c] = << >>
        /\ running' = [running EXCEPT ![c] = t] /\ queued' = queued
    BY <1>6 DEF SubmitStartNow, AdmitStartNow, can_start_now
  <2>2. running'[c] = t /\ \A d \in Conversations \ {c} : running'[d] = running[d]
    BY <1>1, <2>1 DEF TypeOK
  <2>3. LaneOf(c) = << >>
    BY <1>1, <2>1, LaneShape DEF Spawning
  <2>4. LaneOf(c)' = <<t>>
    <3>1. Unspawned(c)' = <<t>>
      BY <1>1, <1>3, <2>2, NoTaskAssumption DEF Unspawned, Active
    <3>2. <<t>> \o << >> = <<t>>
      BY ConcatEmptySeq
    <3> QED
      BY <2>1, <3>1, <3>2 DEF LaneOf
  <2>5. Append(<< >>, t) = <<t>>
    OBVIOUS
  <2>6. \A d \in Conversations \ {c} : LaneOf(d)' = LaneOf(d)
    BY <1>3, <2>1, <2>2, LaneStays
  <2>7. Cardinality(InLanes) + Cardinality(Live) < max_concurrent + MaxQueueDepth
    BY <1>4, <1>5, <2>1
  <2> QED
    BY <1>2, <1>3, <2>3, <2>4, <2>5, <2>6, <2>7, AcceptStep
<1>7. CASE SubmitQueued(t)
  <2>1. /\ waiting_count < MaxQueueDepth /\ running' = running
        /\ queued' = [queued EXCEPT ![c] = Append(@, t)]
    BY <1>7 DEF SubmitQueued, AdmitQueued, Enqueue
  <2>2. /\ queued[c] \in Seq(Tasks) /\ queued'[c] = Append(queued[c], t)
        /\ \A d \in Conversations \ {c} : queued'[d] = queued[d]
    BY <1>1, <2>1 DEF TypeOK
  <2>3. LaneOf(c)' = Append(LaneOf(c), t)
    <3>1. Unspawned(c)' = Unspawned(c)
      BY <1>3, <2>1 DEF Unspawned, Active
    <3>2. Unspawned(c) \in Seq(Tasks)
      <4>1. c \in Active => running[c] \in Tasks
        BY <1>1 DEF Active, TypeOK
      <4> QED
        BY <4>1, EmptySeq DEF Unspawned
    <3>3. <<t>> \in Seq(Tasks) /\ LaneOf(c) \in Seq(Tasks)
      <4>1. <<t>> \in Seq(Tasks)
        OBVIOUS
      <4>2. LaneOf(c) \in Seq(Tasks)
        BY <1>1, LaneShape
      <4> QED
        BY <4>1, <4>2
    <3>4. /\ Append(queued[c], t) = queued[c] \o <<t>>
          /\ Append(LaneOf(c), t) = LaneOf(c) \o <<t>>
      BY <2>2, <3>3, AppendIsConcat
    <3>5. (Unspawned(c) \o queued[c]) \o <<t>> = Unspawned(c) \o (queued[c] \o <<t>>)
      <4> DEFINE one == <<t>>
                 first == Unspawned(c)
                 rest == queued[c]
      <4>1. one \in Seq(Tasks) /\ first \in Seq(Tasks) /\ rest \in Seq(Tasks)
        BY <2>2, <3>2, <3>3
      <4> HIDE DEF one, first, rest
      <4>2. (first \o rest) \o one = first \o (rest \o one)
        BY <4>1, ConcatAssociative
      <4> QED
        BY <4>2 DEF one, first, rest
    <3> QED
      BY <2>2, <3>1, <3>4, <3>5 DEF LaneOf
  <2>4. \A d \in Conversations \ {c} : LaneOf(d)' = LaneOf(d)
    BY <1>3, <2>1, <2>2, LaneStays
  <2>5. Cardinality(InLanes) + Cardinality(Live) < max_concurrent + MaxQueueDepth
    BY <1>4, <1>5, <2>1
  <2> QED
    BY <1>2, <1>3, <2>3, <2>4, <2>5, AcceptStep
<1>8. CASE SubmitQueueFull(t)
  <2>1. waiting_count >= MaxQueueDepth /\ running' = running /\ queued' = queued
    BY <1>8 DEF SubmitQueueFull, AdmitQueueFull, state
  <2>2. \A d \in Conversations : LaneOf(d)' = LaneOf(d)
    BY <1>3, <2>1, LaneStays
  <2>3. Cardinality(InLanes) >= MaxQueueDepth
    BY <1>4, <1>5, <2>1
  <2> QED
    BY <1>2, <1>3, <2>2, <2>3, RejectStep
<1> QED
  BY <1>6, <1>7, <1>8

\* A task that is carried to its worker leaves its lane and starts.
LEMMA SpawnImplements ==
  ASSUME RunInv, NEW t \in Tasks, t \notin Live, running[ConversationKey[t]] = t,
         Live' = Live \cup {t}, UNCHANGED <<running, queued, issued>>
  PROVE  Lanes!LaneNext
<1> DEFINE c == ConversationKey[t]
<1>1. c \in Conversations /\ TypeOK /\ Issued' = Issued
  BY ConversationKeyAssumption DEF RunInv, SlotInv, Issued
<1>2. c \in Spawning
  BY <1>1, NoTaskAssumption DEF Spawning, Active
<1>3. LaneOf(c) # << >> /\ Head(LaneOf(c)) = t /\ Tail(LaneOf(c)) = queued[c]
  BY <1>1, <1>2, LaneShape
<1>4. LaneOf(c)' = queued[c]
  <2>1. Unspawned(c)' = << >>
    BY DEF Unspawned
  <2>2. << >> \o queued[c] = queued[c]
    BY <1>1, ConcatEmptySeq DEF TypeOK
  <2> QED
    BY <2>1, <2>2 DEF LaneOf
<1>5. \A u \in Live : running[ConversationKey[u]] = u
  BY DEF RunInv, CarrierInv, SlotHasOneCarrier, Live
<1>6. \A u \in Live : ConversationKey[u] # c
  BY <1>5
<1>7. \A d \in Conversations \ {c} : LaneOf(d)' = LaneOf(d)
  <2> SUFFICES ASSUME NEW d \in Conversations \ {c}
               PROVE  running[d] \in Live' <=> running[d] \in Live
    BY LaneStays
  <2>1. running[d] # t
    <3> SUFFICES ASSUME running[d] = t PROVE FALSE
      OBVIOUS
    <3>1. d \in Active
      BY NoTaskAssumption DEF Active
    <3> QED
      BY <3>1 DEF RunInv, OrderInv, ServedInOrder
  <2> QED
    BY <2>1
<1>8. Cardinality(Live) < max_concurrent
  <2>1. /\ IsFiniteSet(Spawning) /\ Cardinality(Spawning) \in Nat
        /\ Cardinality(Live) \in Nat /\ Cardinality(Active) \in Nat
        /\ Cardinality(Live) + Cardinality(Spawning) <= Cardinality(Active)
        /\ Cardinality(Active) <= max_concurrent
    BY PendingCount, SlotCount DEF RunInv, SlotInv, WithinLimits
  <2>2. Cardinality(Spawning) # 0
    BY <1>2, <2>1, FS_EmptySet
  <2> QED
    BY <2>1, <2>2, MaxConcurrentType
<1> QED
  BY <1>1, <1>3, <1>4, <1>6, <1>7, <1>8, StartStep

\* The promoted tasks have a slot and no worker: they are where they were in their
\* lanes, and the only change is that t completes.
LEMMA FinishImplements ==
  ASSUME RunInv, NEW t \in Tasks, FinishRun(t)
  PROVE  Lanes!LaneNext
<1> DEFINE c == ConversationKey[t]
<1>1. TypeOK /\ RunTypeOK /\ CarrierInv /\ SlotInv /\ OrderInv
  BY DEF RunInv, SlotInv, CarrierInv
<1>2. PICK P \in SUBSET Conversations : TakesAlong(t, P)
  BY <1>1, FinishRunEffect
<1> USE DEF TakesAlong
<1>3. t \in Live /\ Live' = Live \ {t} /\ Issued' = Issued
  <2>1. /\ worker[t] \in {"completed", "failed"} /\ worker'[t] = "promoting"
        /\ \A u \in Tasks \ {t} : worker'[u] = worker[u]
    BY <1>1 DEF FinishRun, RunTypeOK
  <2> QED
    BY <1>2, <2>1 DEF Live, LivePhases
<1>4. ASSUME NEW d \in P PROVE LaneOf(d)' = LaneOf(d)
  <2>1. /\ queued[d] \in Seq(Tasks) /\ queued[d] # << >>
        /\ running'[d] = queued[d][1] /\ queued'[d] = Tail(queued[d])
        /\ d \in Conversations
        /\ Head(queued[d]) = queued[d][1] /\ 1 \in DOMAIN queued[d]
    BY <1>1, <1>2, QueuedTasksType
  <2>2. queued[d][1] \in queued_payloads /\ queued[d][1] \in Tasks
    BY <1>1, <1>2, <2>1 DEF RunTypeOK
  <2>3. queued[d][1] \notin Live
    BY <1>1, <2>2 DEF CarrierInv, WaitersAreIdle, Live, LivePhases
  <2>4. Unspawned(d)' = <<queued[d][1]>>
    BY <1>3, <2>1, <2>2, <2>3, NoTaskAssumption DEF Unspawned, Active
  <2>5. LaneOf(d)' = queued[d]
    BY <2>1, <2>4, HeadBeforeTail DEF LaneOf
  <2>6. d \notin Spawning
    BY <1>2, <1>3 DEF Spawning, Active
  <2> QED
    BY <1>1, <2>1, <2>5, <2>6, LaneShape
<1>5. ASSUME NEW d \in Conversations \ P PROVE LaneOf(d)' = LaneOf(d)
  <2>1. queued'[d] = queued[d] /\ running'[d] = IF d = c THEN NoTask ELSE running[d]
    BY <1>2
  <2>2. CASE d = c
    <3>1. Unspawned(d)' = << >> /\ Unspawned(d) = << >>
      BY <1>2, <1>3, <2>1, <2>2 DEF Unspawned, Active
    <3> QED
      BY <2>1, <3>1 DEF LaneOf
  <2>3. CASE d # c
    <3>1. running[d] # t
      <4> SUFFICES ASSUME running[d] = t PROVE FALSE
        OBVIOUS
      <4>1. d \in Active
        BY NoTaskAssumption DEF Active
      <4> QED
        BY <1>1, <2>3, <4>1 DEF OrderInv, ServedInOrder
    <3> QED
      BY <1>3, <2>1, <2>3, <3>1, LaneStays
  <2> QED
    BY <2>2, <2>3
<1> QED
  BY <1>3, <1>4, <1>5, CompleteStep

\* After a restart the lanes are empty.
LEMMA RestartImplements ==
  ASSUME RunInv, RunInv', RestartServer
  PROVE  Lanes!LaneNext
<1> DEFINE lane == [d \in Conversations |-> Unspawned(d) \o queued[d]]
<1>1. running' = NoneRunning /\ queued' = NoneQueued /\ issued' = issued
  BY DEF RestartServer, Restart
<1>2. Live' = {}
  <2>1. \A t \in Tasks : t \in Live' => running'[ConversationKey[t]] = t
    BY DEF RunInv, CarrierInv, SlotHasOneCarrier
  <2>2. \A t \in Tasks : running'[ConversationKey[t]] # t
    BY <1>1, ConversationKeyAssumption, NoTaskAssumption DEF NoneRunning
  <2> QED
    BY <2>1, <2>2 DEF Live
<1>3. ASSUME NEW d \in Conversations PROVE (Unspawned(d) \o queued[d])' = << >>
  <2>1. Unspawned(d)' = << >> /\ queued'[d] = << >>
    BY <1>1 DEF Unspawned, Active, NoneRunning, NoneQueued
  <2>2. << >> \o << >> = << >>
    BY ConcatEmptySeq, EmptySeq
  <2> QED
    BY <2>1, <2>2
<1>4. Lanes!Forget
  BY <1>1, <1>2, <1>3 DEF Lanes!Forget, Issued
<1> QED
  BY <1>4 DEF Lanes!LaneNext

\* Every step of the run scheduler is a step of the abstract lanes or changes none of them.
LEMMA StepImplements ==
  RunInv /\ RunInv' /\ [RunNext]_runVars => [Lanes!LaneNext]_Lanes!laneVars
<1> SUFFICES ASSUME RunInv, RunInv', [RunNext]_runVars
             PROVE  Lanes!LaneNext \/ UNCHANGED Lanes!laneVars
  OBVIOUS
<1>1. RunTypeOK
  BY DEF RunInv, CarrierInv
<1>2. ASSUME NEW t \in Tasks, HandlerNext(t)
      PROVE  Lanes!LaneNext \/ UNCHANGED Lanes!laneVars
  <2>1. CASE SubmitStartNow(t) \/ SubmitQueued(t) \/ SubmitQueueFull(t)
    BY <2>1, SubmitImplements
  <2>2. CASE SpawnStarted(t)
    <3>1. /\ t \in Starting /\ UNCHANGED <<running, queued, issued>>
          /\ worker' = [worker EXCEPT ![t] = "reaction"]
      BY <2>2 DEF SpawnStarted, Starting, schedulerVars
    <3>2. running[ConversationKey[t]] = t /\ worker[t] = "none"
      BY <3>1 DEF RunInv, CarrierInv, SlotHasOneCarrier
    <3>3. t \notin Live /\ Live' = Live \cup {t}
      BY <1>1, <3>1, <3>2 DEF Live, LivePhases, RunTypeOK
    <3> QED
      BY <3>1, <3>2, <3>3, SpawnImplements
  <2>3. CASE SendWaitNotice(t) \/ SendBusyNotice(t) \/ HandlerDropped(t)
    <3>1. worker' = worker /\ UNCHANGED <<running, queued, issued>>
      BY <2>3 DEF SendWaitNotice, SendBusyNotice, HandlerDropped, schedulerVars
    <3>2. Live' = Live
      BY <3>1 DEF Live
    <3> QED
      BY <3>1, <3>2, StutterStep
  <2> QED
    BY <1>2, <2>1, <2>2, <2>3 DEF HandlerNext
<1>3. ASSUME NEW t \in Tasks, WorkerNext(t)
      PROVE  Lanes!LaneNext \/ UNCHANGED Lanes!laneVars
  <2>1. CASE StartReaction(t) \/ ReplyDelivered(t) \/ RunFails(t) \/ NothingDelivered(t)
    <3>1. /\ UNCHANGED <<running, queued, issued>>
          /\ worker[t] \in LivePhases /\ worker'[t] \in LivePhases
          /\ \A u \in Tasks \ {t} : worker'[u] = worker[u]
      BY <1>1, <2>1 DEF StartReaction, ReplyDelivered, RunFails, NothingDelivered,
                        WorkerStep, schedulerVars, LivePhases, RunTypeOK
    <3>2. Live' = Live
      BY <3>1 DEF Live
    <3> QED
      BY <3>1, <3>2, StutterStep
  <2>2. CASE FinishRun(t)
    BY <2>2, FinishImplements
  <2>3. CASE EndRun(t)
    <3>1. /\ UNCHANGED <<running, queued, issued>>
          /\ worker[t] = "promoting" /\ worker'[t] = "ended"
          /\ \A u \in Tasks \ {t} : worker'[u] = worker[u]
      BY <1>1, <2>3 DEF EndRun, schedulerVars, RunTypeOK
    <3>2. Live' = Live
      BY <3>1 DEF Live, LivePhases
    <3> QED
      BY <3>1, <3>2, StutterStep
  <2>4. ASSUME NEW next \in Tasks, SpawnPromoted(t, next)
        PROVE  Lanes!LaneNext
    <3>1. /\ next \in promoted[t] /\ UNCHANGED <<running, queued, issued>>
          /\ worker' = [worker EXCEPT ![next] = "reaction"]
      BY <2>4 DEF SpawnPromoted, schedulerVars
    <3>2. running[ConversationKey[next]] = next /\ worker[next] = "none"
      BY <3>1 DEF RunInv, CarrierInv, SlotHasOneCarrier
    <3>3. next \notin Live /\ Live' = Live \cup {next}
      BY <1>1, <3>1, <3>2 DEF Live, LivePhases, RunTypeOK
    <3> QED
      BY <3>1, <3>2, <3>3, SpawnImplements
  <2> QED
    BY <1>3, <2>1, <2>2, <2>3, <2>4 DEF WorkerNext
<1>4. CASE RestartServer
  BY <1>4, RestartImplements
<1>5. CASE UNCHANGED runVars
  <2>1. worker' = worker /\ UNCHANGED <<running, queued, issued>>
    BY <1>5 DEF runVars, serverVars, schedulerVars
  <2>2. Live' = Live
    BY <2>1 DEF Live
  <2> QED
    BY <2>1, <2>2, StutterStep
<1> QED
  BY <1>2, <1>3, <1>4, <1>5 DEF RunNext

-----------------------------------------------------------------------------
\* The run scheduler, with its steps outside the lock, notices and restarts, keeps the
\* promise of SerialLanes: conversations are served one task at a time, in order.
THEOREM RunsImplementLanes == RunSpec => ImplementsLanes
<1>1. RunInit => Lanes!LaneInit
  <2> SUFFICES ASSUME RunInit PROVE Lanes!LaneInit
    OBVIOUS
  <2>1. Live = {} /\ Issued = {}
    BY DEF RunInit, SchedulerInit, Live, LivePhases, Issued
  <2>2. \A d \in Conversations : Unspawned(d) \o queued[d] = << >>
    <3>1. << >> \o << >> = << >>
      BY ConcatEmptySeq, EmptySeq
    <3>2. \A d \in Conversations : Unspawned(d) = << >> /\ queued[d] = << >>
      BY DEF RunInit, SchedulerInit, NoneRunning, NoneQueued, Unspawned, Active
    <3> QED
      BY <3>1, <3>2
  <2> QED
    BY <2>1, <2>2 DEF Lanes!LaneInit
<1>2. RunInv /\ RunInv' /\ [RunNext]_runVars => [Lanes!LaneNext]_Lanes!laneVars
  BY StepImplements
<1> QED
  BY <1>1, <1>2, RunInvariant, PTL DEF RunSpec, ImplementsLanes, Lanes!LaneSpec
=============================================================================
