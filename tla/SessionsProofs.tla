---------------------------- MODULE SessionsProofs ----------------------------
(***************************************************************************)
(* Proofs about Sessions, for any number of runs, conversations and keys,  *)
(* and however the keys collide: type correctness, that no Claude session  *)
(* ever holds the prompts of two conversations, and what a run makes of    *)
(* its session.                                                            *)
(*                                                                         *)
(* The first argument is about owners: a Claude session id names the run   *)
(* that made it up, so it has an owner, the conversation of that run.  A   *)
(* row holds an id of the conversation it names, a run only takes over the *)
(* id of a row that names its own conversation, and a transcript holds     *)
(* only prompts of the owner.                                              *)
(*                                                                         *)
(* The second follows a run through its one or two attempts (AttemptInv):  *)
(* the second has a fresh session, so that claude does not miss it.        *)
(* TurnInv says that the scheduler's runs of a conversation take turns,    *)
(* CurrentInv that the record of the run at work is therefore the row of   *)
(* its conversation, and MemoryInv that a session is left only when it     *)
(* holds nothing.                                                          *)
(***************************************************************************)
EXTENDS Sessions, SequenceTheorems, TLAPS

Owner(i) == Conversation[i[1]]

RowsOwned ==
    \A k \in Keys :
        sessions[k] # NoRow => sessions[k].conversation = Owner(sessions[k].claude)

RecordsOwned ==
    \A r \in Runs : record[r] # NoRecord => Owner(record[r].claude) = Conversation[r]

LoadedPhases ==
    {"bind", "upsert", "inspect", "create", "start", "exec", "collect",
     "revalidate", "reset", "rotate"}

Loaded ==
    \A r \in Runs :
        phase[r] \in LoadedPhases \/ process[r] = "running" => record[r] # NoRecord

RotatesOwnRow ==
    \A r \in Runs : phase[r] = "rotate" => HasRow(r) /\ RowIsOurs(r)

TranscriptsOwned ==
    \A i \in ClaudeIds : \A r \in transcripts[i] : Conversation[r] = Owner(i)

OwnedInv ==
    /\ SessionsTypeOK
    /\ RowsOwned
    /\ RecordsOwned
    /\ Loaded
    /\ RotatesOwnRow
    /\ TranscriptsOwned

USE ConversationAssumption, SessionKeyAssumption, ExternalAssumption, NoneAssumption
USE DEF NoRow, NoRecord, Rows, ClaudeIds, Owner

\* The initial state: empty tables, no transcripts.
LEMMA InitOwned == SessionInit => OwnedInv
BY DEF SessionInit, OwnedInv, SessionsTypeOK, RowsOwned, RecordsOwned, Loaded, LoadedPhases,
       RotatesOwnRow, TranscriptsOwned, Phases, ContainerStates

\* What an action that only moves its run on to another phase has to show.
LEMMA GotoOwned ==
    ASSUME OwnedInv, NEW r \in Runs, NEW p \in Phases,
           Goto(r, p), UNCHANGED <<storeVars, record, containerVars>>,
           p \in LoadedPhases => record[r] # NoRecord,
           p = "rotate" => HasRow(r) /\ RowIsOurs(r)
    PROVE  OwnedInv'
<1>1. SessionsTypeOK'
  BY DEF OwnedInv, SessionsTypeOK, Goto, storeVars, containerVars
<1>2. RowsOwned' /\ RecordsOwned' /\ TranscriptsOwned'
  BY DEF OwnedInv, RowsOwned, RecordsOwned, TranscriptsOwned, storeVars, containerVars
<1>3. Loaded'
  BY DEF OwnedInv, Loaded, SessionsTypeOK, Goto, storeVars, containerVars
<1>4. RotatesOwnRow'
  BY DEF OwnedInv, RotatesOwnRow, SessionsTypeOK, Goto, storeVars, HasRow, RowIsOurs, KeyOf
<1> QED
  BY <1>1, <1>2, <1>3, <1>4 DEF OwnedInv

\* The row that SELECT found becomes the session in hand only if it is its own.
LEMMA TakeRowOwned ==
    ASSUME OwnedInv, NEW r \in Runs, HasRow(r), TakeRow(r),
           UNCHANGED <<storeVars, containerVars>>
    PROVE  OwnedInv'
<1>1. sessions[KeyOf(r)] \in Rows /\ KeyOf(r) \in Keys
  BY DEF OwnedInv, SessionsTypeOK, HasRow, KeyOf
<1>2. CASE ~RowIsOurs(r)
  <2>1. Goto(r, "conflict") /\ UNCHANGED record
    BY <1>2 DEF TakeRow
  <2> QED
    BY <2>1, GotoOwned DEF Phases, LoadedPhases
<1>3. CASE RowIsOurs(r)
  <2> DEFINE taken == [claude |-> sessions[KeyOf(r)].claude, is_new |-> FALSE]
  <2>1. /\ record' = [record EXCEPT ![r] = taken]
        /\ Goto(r, AfterLoading(r))
        /\ AfterLoading(r) \in {"bind", "inspect"}
    BY <1>3 DEF TakeRow, AfterLoading
  <2>2. /\ taken \in [claude : ClaudeIds, is_new : BOOLEAN]
        /\ taken # NoRecord
        /\ Owner(taken.claude) = Conversation[r]
    BY <1>1, <1>3 DEF OwnedInv, RowsOwned, RowIsOurs, HasRow
  <2> HIDE DEF taken
  <2>3. SessionsTypeOK'
    BY <2>1, <2>2 DEF OwnedInv, SessionsTypeOK, Goto, storeVars, containerVars, Phases
  <2>4. RowsOwned' /\ TranscriptsOwned'
    BY DEF OwnedInv, RowsOwned, TranscriptsOwned, storeVars, containerVars
  <2>5. RecordsOwned' /\ Loaded'
    BY <2>1, <2>2 DEF OwnedInv, RecordsOwned, Loaded, SessionsTypeOK, Goto, containerVars
  <2>6. RotatesOwnRow'
    BY <2>1 DEF OwnedInv, RotatesOwnRow, SessionsTypeOK, Goto, storeVars, HasRow, RowIsOurs, KeyOf
  <2> QED
    BY <2>3, <2>4, <2>5, <2>6 DEF OwnedInv
<1> QED
  BY <1>2, <1>3

\* A new row gets a new id of the conversation it names.
LEMMA InsertOwned ==
    ASSUME OwnedInv, NEW r \in Runs, Insert(r)
    PROVE  OwnedInv'
<1>1. KeyOf(r) \in Keys
  BY DEF KeyOf
<1>2. CASE HasRow(r)
  <2>1. Goto(r, "refetch") /\ UNCHANGED <<storeVars, record, containerVars>>
    BY <1>2 DEF Insert, storeVars
  <2> QED
    BY <2>1, GotoOwned DEF Phases, LoadedPhases
<1>3. CASE ~HasRow(r)
  <2> DEFINE row == [claude |-> <<r, "created">>, conversation |-> Conversation[r]]
             new == [claude |-> <<r, "created">>, is_new |-> TRUE]
  <2>1. /\ sessions' = [sessions EXCEPT ![KeyOf(r)] = row]
        /\ record' = [record EXCEPT ![r] = new]
        /\ Goto(r, AfterLoading(r))
        /\ AfterLoading(r) \in {"bind", "inspect"}
        /\ UNCHANGED <<aliases, containerVars>>
    BY <1>3 DEF Insert, AfterLoading
  <2>2. /\ row \in Rows /\ row # NoRow /\ row.conversation = Owner(row.claude)
        /\ new \in [claude : ClaudeIds, is_new : BOOLEAN] /\ new # NoRecord
        /\ Owner(new.claude) = Conversation[r]
    OBVIOUS
  <2> HIDE DEF row, new
  <2>3. SessionsTypeOK'
    BY <1>1, <2>1, <2>2 DEF OwnedInv, SessionsTypeOK, Goto, containerVars, Phases
  <2>4. RowsOwned' /\ TranscriptsOwned'
    BY <1>1, <2>1, <2>2 DEF OwnedInv, RowsOwned, TranscriptsOwned, SessionsTypeOK, containerVars
  <2>5. RecordsOwned' /\ Loaded'
    BY <2>1, <2>2 DEF OwnedInv, RecordsOwned, Loaded, SessionsTypeOK, Goto, containerVars
  <2>6. RotatesOwnRow'
    BY <1>1, <1>3, <2>1 DEF OwnedInv, RotatesOwnRow, SessionsTypeOK, Goto, HasRow, RowIsOurs, KeyOf
  <2> QED
    BY <2>3, <2>4, <2>5, <2>6 DEF OwnedInv
<1> QED
  BY <1>2, <1>3

\* A row that is rotated keeps its conversation and gets an id of it.
LEMMA RotateOwned ==
    ASSUME OwnedInv, NEW r \in Runs, Rotate(r)
    PROVE  OwnedInv'
<1> DEFINE k == KeyOf(r)
           row == [claude |-> <<r, "reset">>, conversation |-> Conversation[r]]
           new == [claude |-> <<r, "reset">>, is_new |-> TRUE]
<1>1. k \in Keys /\ sessions[k] \in Rows /\ sessions[k].conversation = Conversation[r]
  BY DEF OwnedInv, SessionsTypeOK, RotatesOwnRow, Rotate, HasRow, RowIsOurs, KeyOf
<1>2. sessions' = [sessions EXCEPT ![k] = row]
  <2>1. [sessions[k] EXCEPT !.claude = <<r, "reset">>] = row
    BY <1>1
  <2> QED
    BY <1>1, <2>1 DEF Rotate, OwnedInv, SessionsTypeOK
<1>3. /\ record' = [record EXCEPT ![r] = new]
      /\ UNCHANGED <<aliases, containerVars>>
      /\ \E p \in {"bind", "exec"} : Goto(r, p)
  BY DEF Rotate
<1>4. /\ row \in Rows /\ row # NoRow /\ row.conversation = Owner(row.claude)
      /\ new \in [claude : ClaudeIds, is_new : BOOLEAN] /\ new # NoRecord
      /\ Owner(new.claude) = Conversation[r]
  OBVIOUS
<1> HIDE DEF row, new, k
<1>5. SessionsTypeOK'
  BY <1>1, <1>2, <1>3, <1>4 DEF OwnedInv, SessionsTypeOK, Goto, containerVars, Phases
<1>6. RowsOwned' /\ TranscriptsOwned'
  BY <1>1, <1>2, <1>3, <1>4
     DEF OwnedInv, RowsOwned, TranscriptsOwned, SessionsTypeOK, containerVars
<1>7. RecordsOwned' /\ Loaded'
  BY <1>3, <1>4 DEF OwnedInv, RecordsOwned, Loaded, SessionsTypeOK, Goto, containerVars
<1>8. RotatesOwnRow'
  <2> SUFFICES ASSUME NEW q \in Runs, phase'[q] = "rotate"
               PROVE  HasRow(q)' /\ RowIsOurs(q)'
    BY DEF RotatesOwnRow
  <2>1. phase[q] = "rotate"
    BY <1>3 DEF Goto, OwnedInv, SessionsTypeOK
  <2>2. HasRow(q) /\ RowIsOurs(q) /\ KeyOf(q) \in Keys
    BY <2>1 DEF OwnedInv, RotatesOwnRow, KeyOf
  <2>3. row.conversation = sessions[k].conversation
    BY <1>1 DEF row
  <2> QED
    BY <1>1, <1>2, <1>4, <2>2, <2>3 DEF HasRow, RowIsOurs, KeyOf, OwnedInv, SessionsTypeOK
<1> QED
  BY <1>5, <1>6, <1>7, <1>8 DEF OwnedInv

\* The prompt that a process ran goes to the transcript of its own session.
LEMMA ProcessEndsOwned ==
    ASSUME OwnedInv, NEW r \in Runs, NEW a \in Answers, ProcessEnds(r, a)
    PROVE  OwnedInv'
<1>1. /\ record[r] # NoRecord /\ record[r].claude \in ClaudeIds
      /\ Owner(record[r].claude) = Conversation[r]
  BY DEF ProcessEnds, OwnedInv, Loaded, RecordsOwned, SessionsTypeOK
<1>2. SessionsTypeOK'
  <2>1. answers' \in [Runs -> Seq(Answers)]
    <3>1. answers[r] \in Seq(Answers)
      BY DEF OwnedInv, SessionsTypeOK
    <3>2. Append(answers[r], a) \in Seq(Answers)
      BY <3>1
    <3> QED
      BY <3>2 DEF ProcessEnds, OwnedInv, SessionsTypeOK
  <2>2. transcripts' \in [ClaudeIds -> SUBSET Runs]
    BY <1>1 DEF ProcessEnds, OwnedInv, SessionsTypeOK
  <2> QED
    BY <2>1, <2>2 DEF ProcessEnds, OwnedInv, SessionsTypeOK, storeVars
<1>3. RowsOwned' /\ RecordsOwned' /\ RotatesOwnRow'
  BY DEF ProcessEnds, OwnedInv, RowsOwned, RecordsOwned, RotatesOwnRow, storeVars,
         HasRow, RowIsOurs, KeyOf
<1>4. Loaded'
  BY DEF ProcessEnds, OwnedInv, Loaded, SessionsTypeOK
<1>5. TranscriptsOwned'
  BY <1>1 DEF ProcessEnds, OwnedInv, TranscriptsOwned, SessionsTypeOK
<1> QED
  BY <1>2, <1>3, <1>4, <1>5 DEF OwnedInv

\* The steps of a run that change the alias table, its process or only its phase.
LEMMA OtherRunStepsOwned ==
    ASSUME OwnedInv, NEW r \in Runs,
           \/ Start(r)
           \/ Validate(r, "validate", "fetch") \/ Validate(r, "revalidate", "reset")
           \/ Bind(r) \/ UpsertAlias(r)
           \/ InspectContainer(r) \/ CreateContainer(r) \/ StartContainer(r)
           \/ StartProcess(r)
           \/ Fail(r) \/ Collect(r) \/ Reset(r)
    PROVE  OwnedInv'
<1>1. CASE Start(r) \/ Validate(r, "validate", "fetch")
  <2>1. \E p \in {"validate", "fetch", "conflict"} : Goto(r, p)
    BY <1>1 DEF Start, Validate
  <2> QED
    BY <1>1, <2>1, GotoOwned DEF Start, Validate, Phases, LoadedPhases
<1>2. CASE Validate(r, "revalidate", "reset") \/ Bind(r) \/ InspectContainer(r) \/ Collect(r)
  <2>1. \E p \in {"reset", "conflict", "upsert", "create", "start", "exec", "revalidate", "ok"} :
           Goto(r, p)
    BY <1>2 DEF Validate, Bind, InspectContainer, Collect, OwnedInv, SessionsTypeOK, ContainerStates
  <2>2. record[r] # NoRecord
    BY <1>2 DEF Validate, Bind, InspectContainer, Collect, OwnedInv, Loaded, LoadedPhases
  <2> QED
    BY <1>2, <2>1, <2>2, GotoOwned
       DEF Validate, Bind, InspectContainer, Collect, Phases, LoadedPhases
<1>3. CASE Reset(r)
  <2>1. record[r] # NoRecord
    BY <1>3 DEF Reset, OwnedInv, Loaded, LoadedPhases
  <2>2. CASE HasRow(r) /\ RowIsOurs(r)
    BY <1>3, <2>1, <2>2, GotoOwned DEF Reset, Phases
  <2>3. CASE ~(HasRow(r) /\ RowIsOurs(r))
    BY <1>3, <2>3, GotoOwned DEF Reset, Phases, LoadedPhases
  <2> QED
    BY <2>2, <2>3
<1>4. CASE Fail(r)
  BY <1>4, GotoOwned DEF Fail, Phases, LoadedPhases
<1>5. CASE UpsertAlias(r)
  <2>1. record[r] # NoRecord /\ KeyOf(r) \in Keys
    BY <1>5 DEF UpsertAlias, OwnedInv, Loaded, LoadedPhases, KeyOf
  <2>2. \E p \in {"inspect", "exec"} : Goto(r, p)
    BY <1>5 DEF UpsertAlias
  <2>3. SessionsTypeOK'
    BY <1>5, <2>1, <2>2 DEF UpsertAlias, OwnedInv, SessionsTypeOK, Goto, containerVars, Phases
  <2>4. RowsOwned' /\ RecordsOwned' /\ TranscriptsOwned'
    BY <1>5 DEF UpsertAlias, OwnedInv, RowsOwned, RecordsOwned, TranscriptsOwned, containerVars
  <2>5. Loaded' /\ RotatesOwnRow'
    BY <1>5, <2>1, <2>2 DEF UpsertAlias, OwnedInv, Loaded, RotatesOwnRow, SessionsTypeOK, Goto,
                            containerVars, HasRow, RowIsOurs, KeyOf
  <2> QED
    BY <2>3, <2>4, <2>5 DEF OwnedInv
<1>6. CASE CreateContainer(r) \/ StartContainer(r) \/ StartProcess(r)
  <2>1. record[r] # NoRecord
    BY <1>6 DEF CreateContainer, StartContainer, StartProcess, OwnedInv, Loaded, LoadedPhases
  <2>2. \E p \in {"start", "exec", "collect", "failed"} : Goto(r, p)
    BY <1>6 DEF CreateContainer, StartContainer, StartProcess
  <2>3. /\ UNCHANGED <<storeVars, record, answers, transcripts>>
        /\ container' \in ContainerStates
        /\ process' \in {process, [process EXCEPT ![r] = "running"]}
    BY <1>6 DEF CreateContainer, StartContainer, StartProcess, OwnedInv, SessionsTypeOK,
                ContainerStates
  <2>4. SessionsTypeOK'
    <3>1. process' \in [Runs -> {"none", "running"}]
      BY <2>3 DEF OwnedInv, SessionsTypeOK
    <3>2. phase' \in [Runs -> Phases]
      BY <2>2 DEF OwnedInv, SessionsTypeOK, Goto, Phases
    <3> QED
      BY <2>3, <3>1, <3>2 DEF OwnedInv, SessionsTypeOK, storeVars
  <2>5. RowsOwned' /\ RecordsOwned' /\ TranscriptsOwned'
    BY <2>3 DEF OwnedInv, RowsOwned, RecordsOwned, TranscriptsOwned, storeVars
  <2>6. Loaded' /\ RotatesOwnRow'
    BY <2>1, <2>2, <2>3 DEF OwnedInv, Loaded, RotatesOwnRow, SessionsTypeOK, Goto,
                            storeVars, HasRow, RowIsOurs, KeyOf
  <2> QED
    BY <2>4, <2>5, <2>6 DEF OwnedInv
<1> QED
  BY <1>1, <1>2, <1>3, <1>4, <1>5, <1>6

\* Neither a restart nor the end of the container, nor the loss of its state, gives anyone a session.
LEMMA RestartOwned == OwnedInv /\ RestartRunner => OwnedInv'
<1> SUFFICES ASSUME OwnedInv, RestartRunner PROVE OwnedInv'
  OBVIOUS
<1>1. SessionsTypeOK'
  BY DEF RestartRunner, OwnedInv, SessionsTypeOK, storeVars, containerVars, Phases
<1>2. RowsOwned' /\ RecordsOwned' /\ TranscriptsOwned'
  BY DEF RestartRunner, OwnedInv, RowsOwned, RecordsOwned, TranscriptsOwned, storeVars,
         containerVars
<1>3. Loaded' /\ RotatesOwnRow'
  BY DEF RestartRunner, OwnedInv, Loaded, LoadedPhases, RotatesOwnRow, storeVars, containerVars,
         HasRow, RowIsOurs, KeyOf
<1> QED
  BY <1>1, <1>2, <1>3 DEF OwnedInv

\* A container that goes ends the processes in it and leaves the store and the files alone.
LEMMA ContainerGoesOwned == OwnedInv /\ ContainerGoes => OwnedInv'
<1> SUFFICES ASSUME OwnedInv, ContainerGoes PROVE OwnedInv'
  OBVIOUS
<1>1. SessionsTypeOK'
  <2>1. answers' \in [Runs -> Seq(Answers)]
    <3>1. \A r \in Runs : answers[r] \in Seq(Answers) /\ Append(answers[r], "error") \in Seq(Answers)
      <4> SUFFICES ASSUME NEW r \in Runs
                   PROVE  answers[r] \in Seq(Answers) /\ Append(answers[r], "error") \in Seq(Answers)
        OBVIOUS
      <4>1. answers[r] \in Seq(Answers) /\ "error" \in Answers
        BY DEF OwnedInv, SessionsTypeOK, Answers
      <4> QED
        BY <4>1
    <3> QED
      BY <3>1 DEF ContainerGoes
  <2> QED
    BY <2>1 DEF ContainerGoes, OwnedInv, SessionsTypeOK, storeVars, ContainerStates
<1>2. RowsOwned' /\ RecordsOwned' /\ TranscriptsOwned'
  BY DEF ContainerGoes, OwnedInv, RowsOwned, RecordsOwned, TranscriptsOwned, storeVars
<1>3. Loaded' /\ RotatesOwnRow'
  BY DEF ContainerGoes, OwnedInv, Loaded, LoadedPhases, RotatesOwnRow, storeVars, HasRow,
         RowIsOurs, KeyOf
<1> QED
  BY <1>1, <1>2, <1>3 DEF OwnedInv

\* Transcripts that are lost belong to nobody.
LEMMA LoseStateOwned == OwnedInv /\ LoseState => OwnedInv'
BY DEF LoseState, OwnedInv, SessionsTypeOK, RowsOwned, RecordsOwned, Loaded, RotatesOwnRow,
       TranscriptsOwned, storeVars, HasRow, RowIsOurs, KeyOf

\* Every step of the session store and of the runs preserves the ownership invariant.
LEMMA NextOwned == OwnedInv /\ [SessionNext]_sessionVars => OwnedInv'
<1> SUFFICES ASSUME OwnedInv, [SessionNext]_sessionVars PROVE OwnedInv'
  OBVIOUS
<1>1. ASSUME NEW r \in Runs, RunStep(r) PROVE OwnedInv'
  <2>1. CASE Fetch(r)
    <3>1. CASE HasRow(r)
      BY <2>1, <3>1, TakeRowOwned DEF Fetch
    <3>2. CASE ~HasRow(r)
      BY <2>1, <3>2, GotoOwned DEF Fetch, Phases, LoadedPhases
    <3> QED
      BY <3>1, <3>2
  <2>2. CASE Refetch(r)
    BY <2>2, TakeRowOwned DEF Refetch
  <2>3. CASE Insert(r)
    BY <2>3, InsertOwned
  <2>4. CASE Rotate(r)
    BY <2>4, RotateOwned
  <2>5. CASE \E a \in Answers : ProcessEnds(r, a)
    BY <2>5, ProcessEndsOwned
  <2> QED
    BY <1>1, <2>1, <2>2, <2>3, <2>4, <2>5, OtherRunStepsOwned
       DEF RunStep, RunProgress
<1>2. CASE UNCHANGED sessionVars
  BY <1>2 DEF sessionVars, storeVars, containerVars, OwnedInv, SessionsTypeOK, RowsOwned,
              RecordsOwned, Loaded, RotatesOwnRow, TranscriptsOwned, HasRow, RowIsOurs, KeyOf
<1> QED
  BY <1>1, <1>2, RestartOwned, ContainerGoesOwned, LoseStateOwned DEF SessionNext

-----------------------------------------------------------------------------
\* The invariant the two theorems below rest on: every row, every record in hand and
\* every transcript belongs to the conversation its Claude session was made up for.
THEOREM SessionsOwned == SessionSpec => []OwnedInv
  BY InitOwned, NextOwned, PTL DEF SessionSpec

\* The tables, the runs and the container have their types, for all runs and keys.
THEOREM SessionsTypeCorrect == SessionSpec => []SessionsTypeOK
<1>1. OwnedInv => SessionsTypeOK
  BY DEF OwnedInv
<1> QED
  BY <1>1, SessionsOwned, PTL

\* Whatever the keys, the concurrent runs and the crashes, get_or_create_by_key and
\* reset_by_key never lead two conversations to one Claude session.
THEOREM IsolationHolds == SessionSpec => []ConversationsIsolated
<1>1. OwnedInv => ConversationsIsolated
  BY DEF OwnedInv, TranscriptsOwned, ConversationsIsolated
<1> QED
  BY <1>1, SessionsOwned, PTL

-----------------------------------------------------------------------------
(* What a run makes of its session *)

USE ConversationAssumption, SessionKeyAssumption, ExternalAssumption, NoneAssumption
USE DEF NoRow, NoRecord, Rows, ClaudeIds, Owner

-----------------------------------------------------------------------------
(* The attempts of a run *)

Printed(r) == Len(answers[r])

\* The second attempt, which has a session of its own.
Again(r) == Printed(r) = 1 /\ record[r].is_new

Quiet(r) == process[r] = "none"

Attempt(r) ==
    /\ phase[r] \in {"idle", "validate", "fetch", "insert", "refetch",
                     "inspect", "create", "start"} => Quiet(r) /\ Printed(r) = 0
    /\ phase[r] \in {"bind", "upsert", "exec"} => Quiet(r) /\ (Printed(r) = 0 \/ Again(r))
    /\ phase[r] \in {"revalidate", "reset", "rotate"} => Quiet(r) /\ Printed(r) = 1
    /\ phase[r] = "collect" =>
         \/ process[r] = "running" /\ (Printed(r) = 0 \/ Again(r))
         \/ Quiet(r) /\ Printed(r) = 1 /\ (LastAnswer(r) = "missing" => ~record[r].is_new)
         \/ Quiet(r) /\ Printed(r) = 2 /\ LastAnswer(r) # "missing"
    /\ phase[r] \in {"ok", "conflict"} => Quiet(r)
    /\ phase[r] = "ok" => LastAnswer(r) # "missing"

AttemptInv == \A r \in Runs : Attempt(r)

USE DEF Printed, Again, Quiet

\* A step that leaves the run, its process and what it printed alone.
LEMMA AttemptKept ==
  ASSUME NEW q \in Runs, Attempt(q), phase'[q] = phase[q], record'[q] = record[q],
         process'[q] = process[q], answers'[q] = answers[q]
  PROVE  Attempt(q)'
BY DEF Attempt, LastAnswer

\* What r does to itself it does to no other run.
LEMMA OwnStep ==
  ASSUME SessionsTypeOK, NEW r \in Runs, RunStep(r), NEW q \in Runs, q # r
  PROVE  /\ phase'[q] = phase[q] /\ record'[q] = record[q]
         /\ process'[q] = process[q] /\ answers'[q] = answers[q]
<1> USE DEF SessionsTypeOK, containerVars, storeVars, Goto
<1>1. CASE Start(r) \/ Fail(r)
  BY <1>1 DEF Start, Fail
<1>2. CASE Fetch(r) \/ Insert(r) \/ Refetch(r)
  BY <1>2 DEF Fetch, Insert, Refetch, TakeRow
<1>3. CASE Validate(r, "validate", "fetch") \/ Validate(r, "revalidate", "reset")
           \/ Bind(r) \/ UpsertAlias(r) \/ Reset(r) \/ Rotate(r) \/ Collect(r)
  BY <1>3 DEF Validate, Bind, UpsertAlias, Reset, Rotate, Collect
<1>4. CASE InspectContainer(r) \/ CreateContainer(r) \/ StartContainer(r) \/ StartProcess(r)
  BY <1>4 DEF InspectContainer, CreateContainer, StartContainer, StartProcess
<1>5. CASE \E a \in Answers : ProcessEnds(r, a)
  BY <1>5 DEF ProcessEnds
<1> QED
  BY <1>1, <1>2, <1>3, <1>4, <1>5 DEF RunStep, RunProgress

\* The end of a claude process: it misses the session only when it was told to
\* resume one, which the second attempt is not.
LEMMA EndOfProcess ==
  ASSUME OwnedInv, NEW r \in Runs, Attempt(r), NEW a \in Answers, ProcessEnds(r, a)
  PROVE  Attempt(r)'
<1>1. SessionsTypeOK /\ answers[r] \in Seq(Answers)
  BY DEF OwnedInv, SessionsTypeOK
<1>2. /\ process[r] = "running" /\ process'[r] = "none"
      /\ answers'[r] = Append(answers[r], a)
      /\ phase' = phase /\ record' = record
      /\ a = "missing" => ~record[r].is_new
  BY <1>1 DEF ProcessEnds, SessionsTypeOK, Resumable
<1>3. Printed(r)' = Printed(r) + 1 /\ Printed(r) \in Nat /\ LastAnswer(r)' = a
  BY <1>1, <1>2, AppendProperties, LenProperties DEF LastAnswer
<1>4. phase[r] \in {"collect", "failed", "gone"}
  BY <1>1, <1>2 DEF Attempt, SessionsTypeOK, Phases
<1>5. phase[r] = "collect" => Printed(r) = 0 \/ Again(r)
  BY <1>2 DEF Attempt
<1>6. CASE phase[r] = "collect" /\ Printed(r) = 0
  <2>1. Printed(r)' = 1
    BY <1>3, <1>6
  <2> HIDE DEF Printed
  <2> QED
    BY <1>2, <1>3, <1>6, <2>1 DEF Attempt
<1>7. CASE phase[r] = "collect" /\ Again(r)
  <2>1. Printed(r)' = 2
    BY <1>3, <1>7
  <2> HIDE DEF Printed
  <2> QED
    BY <1>2, <1>3, <1>7, <2>1 DEF Attempt
<1>8. CASE phase[r] \in {"failed", "gone"}
  BY <1>2, <1>8 DEF Attempt
<1> QED
  BY <1>4, <1>5, <1>6, <1>7, <1>8

\* Every step of a run leads from one stage of its attempts to the next.
LEMMA RunStepAttempt ==
  ASSUME OwnedInv, AttemptInv, NEW r \in Runs, RunStep(r)
  PROVE  AttemptInv'
<1>1. SessionsTypeOK /\ Attempt(r) /\ answers[r] \in Seq(Answers)
  BY DEF OwnedInv, AttemptInv, SessionsTypeOK
<1>2. Printed(r) \in Nat /\ (answers[r] = << >> <=> Printed(r) = 0)
  BY <1>1, LenProperties, EmptySeq
<1>3. Attempt(r)'
  <2> USE DEF SessionsTypeOK, containerVars, storeVars, Goto, Attempt, LastAnswer
  <2>1. CASE Start(r)
    BY <1>1, <2>1 DEF Start
  <2>2. CASE Fail(r)
    BY <1>1, <2>2 DEF Fail
  <2>3. CASE Fetch(r) \/ Insert(r) \/ Refetch(r)
    BY <1>1, <2>3 DEF Fetch, Insert, Refetch, TakeRow, AfterLoading
  <2>4. CASE Validate(r, "validate", "fetch") \/ Validate(r, "revalidate", "reset")
    BY <1>1, <2>4 DEF Validate
  <2>5. CASE Bind(r) \/ Reset(r)
    BY <1>1, <2>5 DEF Bind, Reset
  <2>6. CASE UpsertAlias(r)
    BY <1>1, <1>2, <2>6 DEF UpsertAlias, FirstAttempt
  <2>7. CASE Rotate(r)
    BY <1>1, <2>7 DEF Rotate
  <2>8. CASE Collect(r)
    BY <1>1, <2>8 DEF Collect, should_retry_with_fresh_session
  <2>9. CASE InspectContainer(r) \/ CreateContainer(r) \/ StartContainer(r)
    BY <1>1, <2>9 DEF InspectContainer, CreateContainer, StartContainer, ContainerStates
  <2>10. CASE StartProcess(r)
    BY <1>1, <2>10 DEF StartProcess
  <2>11. CASE \E a \in Answers : ProcessEnds(r, a)
    BY <1>1, <2>11, EndOfProcess
  <2> QED
    BY <2>1, <2>2, <2>3, <2>4, <2>5, <2>6, <2>7, <2>8, <2>9, <2>10, <2>11
       DEF RunStep, RunProgress
<1>4. ASSUME NEW q \in Runs, q # r
      PROVE  Attempt(q)'
  BY <1>1, <1>4, OwnStep, AttemptKept DEF AttemptInv
<1> QED
  BY <1>3, <1>4 DEF AttemptInv

\* A container that goes makes its processes print an error.
LEMMA ContainerGoesAttempt ==
  ASSUME OwnedInv, AttemptInv, ContainerGoes
  PROVE  AttemptInv'
<1> SUFFICES ASSUME NEW r \in Runs PROVE Attempt(r)'
  BY DEF AttemptInv
<1>1. Attempt(r) /\ answers[r] \in Seq(Answers) /\ process[r] \in {"none", "running"}
  BY DEF AttemptInv, OwnedInv, SessionsTypeOK
<1>2. phase' = phase /\ record' = record /\ process'[r] = "none"
      /\ answers'[r] = IF process[r] = "running" THEN Append(answers[r], "error") ELSE answers[r]
  BY DEF ContainerGoes
<1>3. CASE process[r] = "running"
  <2>1. answers'[r] = Append(answers[r], "error") /\ "error" \in Answers
    BY <1>2, <1>3 DEF Answers
  <2>2. Printed(r)' = Printed(r) + 1 /\ Printed(r) \in Nat /\ LastAnswer(r)' = "error"
    BY <1>1, <2>1, AppendProperties, LenProperties DEF LastAnswer
  <2> QED
    BY <1>1, <1>2, <1>3, <2>2 DEF Attempt
<1>4. CASE process[r] = "none"
  BY <1>1, <1>2, <1>4, AttemptKept
<1> QED
  BY <1>1, <1>3, <1>4

\* Whatever happens beside a run, it is in one of its two attempts.
LEMMA NextAttempt == OwnedInv /\ AttemptInv /\ [SessionNext]_sessionVars => AttemptInv'
<1> SUFFICES ASSUME OwnedInv, AttemptInv, [SessionNext]_sessionVars PROVE AttemptInv'
  OBVIOUS
<1>1. CASE RestartRunner
  BY <1>1 DEF RestartRunner, storeVars, containerVars, AttemptInv, Attempt, LastAnswer, InProgress,
              Done, Phases
<1>2. CASE LoseState
  BY <1>2, AttemptKept DEF LoseState, AttemptInv
<1>3. CASE UNCHANGED sessionVars
  BY <1>3, AttemptKept DEF sessionVars, containerVars, AttemptInv
<1> QED
  BY <1>1, <1>2, <1>3, RunStepAttempt, ContainerGoesAttempt DEF SessionNext

\* A run that has not begun printed nothing.
LEMMA InitAttempt == SessionInit => AttemptInv
  BY EmptySeq DEF SessionInit, AttemptInv, Attempt

\* No run ends with the answer that its session was not found: what a first attempt
\* misses is reset, and a second attempt brings its own session.
THEOREM NobodyMissesASession == SessionSpec => []NoMissingAnswer
<1>1. AttemptInv => NoMissingAnswer
  BY DEF AttemptInv, Attempt, NoMissingAnswer
<1> QED
  BY <1>1, InitAttempt, NextAttempt, SessionsOwned, PTL DEF SessionSpec

-----------------------------------------------------------------------------
(* The runs of a conversation take turns *)

TurnInv ==
    \A r, q \in Runs \ DirectRuns :
        /\ Conversation[r] = Conversation[q]
        /\ phase[r] \in InProgress /\ phase[q] \in InProgress
        => r = q

\* A run that is idle or has ended is not at work.
LEMMA Working == InProgress = {"validate", "fetch", "insert", "refetch", "bind", "upsert",
                               "inspect", "create", "start", "exec", "collect",
                               "revalidate", "reset", "rotate"}
  BY DEF InProgress, Phases, Done

\* A step of a run that is not its start is one of a run at work, or the end of its
\* process; no run becomes idle again, and none that has ended goes on.
LEMMA StepOfWorking ==
  ASSUME SessionsTypeOK, NEW r \in Runs, RunStep(r)
  PROVE  /\ Start(r) \/ phase[r] \in InProgress \/ phase'[r] = phase[r]
         /\ phase'[r] # "idle" \/ phase[r] = "idle"
         /\ phase[r] \in {"failed", "gone"} => phase'[r] = phase[r]
<1> USE Working DEF SessionsTypeOK, Goto
<1>1. CASE Start(r) \/ Fail(r)
  BY <1>1 DEF Start, Fail
<1>2. CASE Fetch(r) \/ Insert(r) \/ Refetch(r)
  BY <1>2 DEF Fetch, Insert, Refetch, TakeRow, AfterLoading
<1>3. CASE Validate(r, "validate", "fetch") \/ Validate(r, "revalidate", "reset")
           \/ Bind(r) \/ UpsertAlias(r) \/ Reset(r) \/ Rotate(r) \/ Collect(r)
  BY <1>3 DEF Validate, Bind, UpsertAlias, Reset, Rotate, Collect
<1>4. CASE InspectContainer(r) \/ CreateContainer(r) \/ StartContainer(r) \/ StartProcess(r)
  BY <1>4 DEF InspectContainer, CreateContainer, StartContainer, StartProcess, ContainerStates
<1>5. CASE \E a \in Answers : ProcessEnds(r, a)
  BY <1>5 DEF ProcessEnds
<1> QED
  BY <1>1, <1>2, <1>3, <1>4, <1>5 DEF RunStep, RunProgress

\* A run starts when no other of its conversation is at work.
LEMMA NextTurn == SessionsTypeOK /\ TurnInv /\ [SessionNext]_sessionVars => TurnInv'
<1> SUFFICES ASSUME SessionsTypeOK, TurnInv, [SessionNext]_sessionVars,
                    NEW r \in Runs \ DirectRuns, NEW q \in Runs \ DirectRuns,
                    Conversation[r] = Conversation[q],
                    phase'[r] \in InProgress, phase'[q] \in InProgress
             PROVE  r = q
  BY DEF TurnInv
<1>1. ASSUME NEW s \in Runs, RunStep(s)
      PROVE  r = q
  <2>1. \A p \in Runs : p # s => phase'[p] = phase[p]
    BY <1>1, OwnStep
  <2>2. CASE Start(s)
    BY <2>1, <2>2 DEF Start, TurnInv
  <2>3. CASE phase[s] \in InProgress \/ phase'[s] = phase[s]
    BY <2>1, <2>3 DEF TurnInv
  <2> QED
    BY <1>1, <2>2, <2>3, StepOfWorking
<1>2. CASE RestartRunner
  BY <1>2, Working DEF RestartRunner, TurnInv
<1>3. CASE ContainerGoes \/ LoseState \/ UNCHANGED sessionVars
  BY <1>3 DEF ContainerGoes, LoseState, sessionVars, TurnInv
<1> QED
  BY <1>1, <1>2, <1>3 DEF SessionNext

-----------------------------------------------------------------------------
(* Nobody changes the row under a scheduled run *)

NoDirectAtWork(c) == \A q \in DirectRuns : Conversation[q] = c => phase[q] = "idle"

HoldsRecord == {"bind", "upsert", "inspect", "create", "start", "exec", "collect"}

CurrentInv ==
    \A r \in Runs :
        phase[r] \in HoldsRecord /\ NoDirectAtWork(Conversation[r])
        => record[r].claude = Current(Conversation[r])

\* The row that a run holds is one of its own conversation.
LEMMA HeldRowIsOurs ==
  ASSUME OwnedInv, NEW r \in Runs, phase[r] \in HoldsRecord,
         record[r].claude = Current(Conversation[r])
  PROVE  HasRow(r) /\ RowIsOurs(r)
<1>1. record[r] # NoRecord /\ record[r].claude \in ClaudeIds
  BY DEF OwnedInv, Loaded, LoadedPhases, HoldsRecord, SessionsTypeOK
<1>2. Conversation[r] \in Conversations /\ KeyOf(r) \in Keys
  BY DEF KeyOf
<1>3. sessions[KeyOf(r)].claude \in ClaudeIds
  BY <1>1 DEF Current, KeyOf
<1>4. sessions[KeyOf(r)] # NoRow
  BY <1>3
<1>5. sessions[KeyOf(r)].conversation = Owner(sessions[KeyOf(r)].claude)
  BY <1>2, <1>4 DEF OwnedInv, RowsOwned
<1>6. Owner(record[r].claude) = Conversation[r]
  BY <1>1 DEF OwnedInv, RecordsOwned
<1> QED
  BY <1>4, <1>5, <1>6 DEF HasRow, RowIsOurs, Current, KeyOf

\* What a step of a run does to the rows.
LEMMA RowChanges ==
  ASSUME SessionsTypeOK, NEW s \in Runs, RunStep(s)
  PROVE  \/ sessions' = sessions
         \/ Insert(s) /\ ~HasRow(s)
            /\ sessions' = [sessions EXCEPT ![KeyOf(s)] =
                 [claude |-> <<s, "created">>, conversation |-> Conversation[s]]]
         \/ Rotate(s)
<1> USE DEF storeVars
<1>1. CASE Insert(s)
  BY <1>1 DEF Insert
<1>2. CASE Start(s) \/ Fail(s) \/ Fetch(s) \/ Refetch(s)
  BY <1>2 DEF Start, Fail, Fetch, Refetch
<1>3. CASE Validate(s, "validate", "fetch") \/ Validate(s, "revalidate", "reset")
           \/ Bind(s) \/ UpsertAlias(s) \/ Reset(s) \/ Collect(s)
  BY <1>3 DEF Validate, Bind, UpsertAlias, Reset, Collect
<1>4. CASE InspectContainer(s) \/ CreateContainer(s) \/ StartContainer(s) \/ StartProcess(s)
  BY <1>4 DEF InspectContainer, CreateContainer, StartContainer, StartProcess
<1>5. CASE \E a \in Answers : ProcessEnds(s, a)
  BY <1>5 DEF ProcessEnds
<1> QED
  BY <1>1, <1>2, <1>3, <1>4, <1>5 DEF RunStep, RunProgress

\* A run takes the record from the row, or writes both.
LEMMA OwnRecord ==
  ASSUME SessionsTypeOK, NEW r \in Runs, RunStep(r), phase'[r] \in HoldsRecord
  PROVE  \/ record'[r].claude = sessions'[KeyOf(r)].claude
         \/ phase[r] \in HoldsRecord /\ record' = record /\ sessions' = sessions
<1> USE DEF SessionsTypeOK, Goto, storeVars, HoldsRecord
<1> KeyOf(r) \in Keys
  BY DEF KeyOf
<1>1. CASE Start(r) \/ Fail(r)
  BY <1>1 DEF Start, Fail
<1>2. CASE Fetch(r) \/ Insert(r) \/ Refetch(r)
  <2>1. CASE Insert(r)
    <3>1. CASE HasRow(r)
      BY <2>1, <3>1 DEF Insert
    <3>2. CASE ~HasRow(r)
      <4>1. /\ sessions'[KeyOf(r)] = [claude |-> <<r, "created">>, conversation |-> Conversation[r]]
            /\ record'[r] = [claude |-> <<r, "created">>, is_new |-> TRUE]
        BY <2>1, <3>2 DEF Insert
      <4> QED
        BY <4>1
    <3> QED
      BY <3>1, <3>2
  <2>2. CASE (Fetch(r) \/ Refetch(r)) /\ TakeRow(r)
    <3>1. sessions' = sessions /\ phase[r] \in {"fetch", "refetch"}
      BY <2>2 DEF Fetch, Refetch
    <3> QED
      BY <2>2, <3>1 DEF TakeRow, AfterLoading
  <2>3. CASE Fetch(r) /\ ~HasRow(r)
    BY <2>3 DEF Fetch
  <2> QED
    BY <1>2, <2>1, <2>2, <2>3 DEF Fetch, Refetch
<1>3. CASE Validate(r, "validate", "fetch") \/ Validate(r, "revalidate", "reset")
           \/ Bind(r) \/ UpsertAlias(r) \/ Reset(r) \/ Collect(r)
  BY <1>3 DEF Validate, Bind, UpsertAlias, Reset, Collect
<1>4. CASE Rotate(r)
  BY <1>4 DEF Rotate
<1>5. CASE InspectContainer(r) \/ CreateContainer(r) \/ StartContainer(r) \/ StartProcess(r)
  BY <1>5 DEF InspectContainer, CreateContainer, StartContainer, StartProcess, ContainerStates
<1>6. CASE \E a \in Answers : ProcessEnds(r, a)
  BY <1>6 DEF ProcessEnds
<1> QED
  BY <1>1, <1>2, <1>3, <1>4, <1>5, <1>6 DEF RunStep, RunProgress

\* Another run changes the row only in its turn, or when there is none yet.
LEMMA RunStepCurrent ==
  ASSUME OwnedInv, TurnInv, CurrentInv, NEW s \in Runs, RunStep(s)
  PROVE  CurrentInv'
<1> SUFFICES ASSUME NEW r \in Runs, phase'[r] \in HoldsRecord, NoDirectAtWork(Conversation[r])'
             PROVE  record'[r].claude = sessions'[KeyOf(r)].claude
  BY DEF CurrentInv, Current, KeyOf
<1>1. SessionsTypeOK
  BY DEF OwnedInv
<1>2. NoDirectAtWork(Conversation[r])
  BY <1>1, OwnStep, StepOfWorking, RunsAssumption DEF NoDirectAtWork
<1>3. CASE r = s
  BY <1>1, <1>2, <1>3, OwnRecord DEF CurrentInv, Current, KeyOf
<1>4. CASE r # s
  <2>1. phase[r] \in HoldsRecord /\ record'[r] = record[r]
    BY <1>1, <1>4, OwnStep
  <2>2. record[r].claude = sessions[KeyOf(r)].claude /\ HasRow(r) /\ RowIsOurs(r)
    BY <1>2, <2>1, HeldRowIsOurs DEF CurrentInv, Current, KeyOf
  <2>3. CASE sessions' = sessions
    BY <2>1, <2>2, <2>3
  <2>4. CASE Insert(s) /\ ~HasRow(s) /\ sessions' = [sessions EXCEPT ![KeyOf(s)] =
                 [claude |-> <<s, "created">>, conversation |-> Conversation[s]]]
    BY <1>1, <2>1, <2>2, <2>4 DEF HasRow, SessionsTypeOK, KeyOf
  <2>5. CASE Rotate(s)
    <3>1. CASE KeyOf(s) # KeyOf(r)
      BY <1>1, <2>1, <2>2, <2>5, <3>1 DEF Rotate, SessionsTypeOK, KeyOf
    <3>2. CASE KeyOf(s) = KeyOf(r)
      <4>1. phase[s] = "rotate" /\ RowIsOurs(s)
        BY <2>5 DEF Rotate, OwnedInv, RotatesOwnRow
      <4>2. Conversation[s] = Conversation[r]
        BY <2>2, <3>2, <4>1 DEF RowIsOurs
      <4>3. s \notin DirectRuns /\ r \notin DirectRuns
        BY <1>2, <2>1, <4>1, <4>2 DEF NoDirectAtWork, HoldsRecord
      <4>4. s = r
        BY <2>1, <4>1, <4>2, <4>3, Working DEF TurnInv, HoldsRecord
      <4> QED
        BY <1>4, <4>4
    <3> QED
      BY <3>1, <3>2
  <2> QED
    BY <1>1, <2>3, <2>4, <2>5, RowChanges
<1> QED
  BY <1>3, <1>4

\* What else happens leaves the rows and the records alone.
LEMMA NextCurrent ==
  OwnedInv /\ TurnInv /\ CurrentInv /\ [SessionNext]_sessionVars => CurrentInv'
<1> SUFFICES ASSUME OwnedInv, TurnInv, CurrentInv, [SessionNext]_sessionVars PROVE CurrentInv'
  OBVIOUS
<1>1. CASE RestartRunner
  BY <1>1, Working, RunsAssumption
     DEF RestartRunner, storeVars, CurrentInv, Current, NoDirectAtWork, HoldsRecord
<1>2. CASE ContainerGoes \/ LoseState \/ UNCHANGED sessionVars
  BY <1>2 DEF ContainerGoes, LoseState, sessionVars, storeVars, CurrentInv, Current, NoDirectAtWork
<1> QED
  BY <1>1, <1>2, RunStepCurrent DEF SessionNext

\* Before anything happens nobody is at work.
LEMMA InitCurrent == SessionInit => TurnInv /\ CurrentInv
  BY Working DEF SessionInit, TurnInv, CurrentInv, HoldsRecord

\* The scheduler's runs of a conversation take turns, and each goes to the session
\* that the row names then, unless a direct run of the conversation interferes.
THEOREM TurnsAreTaken == SessionSpec => [](TurnInv /\ CurrentInv)
<1>1. OwnedInv => SessionsTypeOK
  BY DEF OwnedInv
<1> QED
  BY <1>1, InitCurrent, NextTurn, NextCurrent, SessionsOwned, PTL DEF SessionSpec

\* A scheduled run goes to the session its conversation has now.
THEOREM RunsResumeTheCurrentSession == SessionSpec => []ResumesCurrent
<1>1. CurrentInv => ResumesCurrent
  BY RunsAssumption DEF CurrentInv, ResumesCurrent, NoDirectAtWork, HoldsRecord, KeyOf
<1> QED
  BY <1>1, TurnsAreTaken, PTL

-----------------------------------------------------------------------------
(* A conversation that nothing disturbs is remembered *)

Members(c) == {r \in Runs : Conversation[r] = c}

Undisturbed(c) == \A q \in Members(c) : ~Disturbs(q)

\* All that the conversation said is in its current session.
Remembers(c) == \A i \in ClaudeIds : \A r \in transcripts[i] \cap Members(c) : i = Current(c)

\* A run whose session was missing, on its way to a fresh one.
Missed(r) ==
    \/ phase[r] \in {"revalidate", "reset", "rotate"}
    \/ phase[r] = "collect" /\ Quiet(r) /\ Printed(r) = 1 /\ LastAnswer(r) = "missing"

\* Nothing that the conversation said is left.
Forgotten(c) == \A i \in ClaudeIds : transcripts[i] \cap Members(c) = {}

MemoryInv ==
    \A c \in Conversations :
        Undisturbed(c) => /\ Remembers(c)
                          /\ \A r \in Members(c) : Missed(r) => Forgotten(c)

\* Who disturbs a conversation has disturbed it for good.
LEMMA DisturbedForGood ==
  ASSUME OwnedInv, [SessionNext]_sessionVars, NEW q \in Runs, Disturbs(q)
  PROVE  Disturbs(q)'
<1>1. SessionsTypeOK /\ answers[q] \in Seq(Answers)
  BY DEF OwnedInv, SessionsTypeOK
<1>2. answers'[q] = answers[q] \/ \E a \in Answers : answers'[q] = Append(answers[q], a)
  <2>1. ASSUME NEW s \in Runs, RunStep(s)
        PROVE  answers'[q] = answers[q] \/ \E a \in Answers : answers'[q] = Append(answers[q], a)
    <3>1. CASE q # s
      BY <1>1, <2>1, <3>1, OwnStep
    <3>2. CASE \E a \in Answers : ProcessEnds(s, a)
      BY <1>1, <3>2 DEF ProcessEnds, SessionsTypeOK
    <3>3. CASE Start(s) \/ Fail(s) \/ Fetch(s) \/ Insert(s) \/ Refetch(s)
      BY <3>3 DEF Start, Fail, Fetch, Insert, Refetch, containerVars
    <3>4. CASE Validate(s, "validate", "fetch") \/ Validate(s, "revalidate", "reset")
               \/ Bind(s) \/ UpsertAlias(s) \/ Reset(s) \/ Rotate(s) \/ Collect(s)
      BY <3>4 DEF Validate, Bind, UpsertAlias, Reset, Rotate, Collect, containerVars
    <3>5. CASE InspectContainer(s) \/ CreateContainer(s) \/ StartContainer(s) \/ StartProcess(s)
      BY <3>5 DEF InspectContainer, CreateContainer, StartContainer, StartProcess, containerVars
    <3> QED
      BY <2>1, <3>1, <3>2, <3>3, <3>4, <3>5 DEF RunStep, RunProgress
  <2>2. CASE ContainerGoes
    BY <2>2 DEF ContainerGoes, Answers
  <2>3. CASE RestartRunner \/ LoseState \/ UNCHANGED sessionVars
    BY <2>3 DEF RestartRunner, LoseState, sessionVars, containerVars
  <2> QED
    BY <2>1, <2>2, <2>3 DEF SessionNext
<1>3. answers[q] # << >> => answers'[q] # << >> /\ answers'[q][1] = answers[q][1]
  <2> SUFFICES ASSUME answers[q] # << >>
               PROVE  answers'[q] # << >> /\ answers'[q][1] = answers[q][1]
    OBVIOUS
  <2>1. Len(answers[q]) \in Nat /\ Len(answers[q]) # 0
    BY <1>1, LenProperties, EmptySeq
  <2>2. ASSUME NEW a \in Answers, answers'[q] = Append(answers[q], a)
        PROVE  answers'[q] # << >> /\ answers'[q][1] = answers[q][1]
    <3>1. /\ Append(answers[q], a) # << >>
          /\ \A k \in 1..Len(answers[q]) : Append(answers[q], a)[k] = answers[q][k]
      BY <1>1, AppendProperties
    <3> QED
      BY <2>1, <2>2, <3>1
  <2> QED
    BY <1>2, <2>2
<1>4. phase[q] \in {"failed", "gone"} => phase'[q] = phase[q]
  <2>1. ASSUME NEW s \in Runs, RunStep(s)
        PROVE  phase[q] \in {"failed", "gone"} => phase'[q] = phase[q]
    BY <1>1, <2>1, OwnStep, StepOfWorking
  <2>2. CASE RestartRunner
    BY <2>2, Working DEF RestartRunner
  <2>3. CASE ContainerGoes \/ LoseState \/ UNCHANGED sessionVars
    BY <2>3 DEF ContainerGoes, LoseState, sessionVars
  <2> QED
    BY <2>1, <2>2, <2>3 DEF SessionNext
<1>5. phase[q] # "idle" => phase'[q] # "idle"
  <2>1. ASSUME NEW s \in Runs, RunStep(s)
        PROVE  phase[q] # "idle" => phase'[q] # "idle"
    BY <1>1, <2>1, OwnStep, StepOfWorking
  <2>2. CASE RestartRunner
    BY <2>2, Working DEF RestartRunner
  <2>3. CASE ContainerGoes \/ LoseState \/ UNCHANGED sessionVars
    BY <2>3 DEF ContainerGoes, LoseState, sessionVars
  <2> QED
    BY <2>1, <2>2, <2>3 DEF SessionNext
<1>6. phase[q] \in {"failed", "gone"} /\ process[q] = "running"
        => process'[q] = "running" \/ answers'[q] # << >>
  <2> SUFFICES ASSUME phase[q] \in {"failed", "gone"}, process[q] = "running"
               PROVE  process'[q] = "running" \/ answers'[q] # << >>
    OBVIOUS
  <2>1. ASSUME NEW s \in Runs, RunStep(s)
        PROVE  process'[q] = "running" \/ answers'[q] # << >>
    <3>1. CASE q # s
      BY <1>1, <2>1, <3>1, OwnStep
    <3>2. CASE \E a \in Answers : ProcessEnds(q, a)
      <4>1. PICK a \in Answers : ProcessEnds(q, a)
        BY <3>2
      <4>2. answers'[q] = Append(answers[q], a)
        BY <1>1, <4>1 DEF ProcessEnds, SessionsTypeOK
      <4> QED
        BY <1>1, <4>2, AppendProperties
    <3>3. CASE q = s /\ ~\E a \in Answers : ProcessEnds(q, a)
      <4>1. phase[q] \notin InProgress /\ phase[q] # "idle"
        BY Working
      <4> QED
        BY <2>1, <3>3, <4>1, Working
           DEF RunStep, RunProgress, Start, Fail, Validate, Fetch, Insert, Refetch, Bind,
               UpsertAlias, InspectContainer, CreateContainer, StartContainer, StartProcess,
               Collect, Reset, Rotate
    <3> QED
      BY <3>1, <3>2, <3>3
  <2>2. CASE ContainerGoes
    <3>1. answers'[q] = Append(answers[q], "error") /\ "error" \in Answers
      BY <2>2 DEF ContainerGoes, Answers
    <3> QED
      BY <1>1, <3>1, AppendProperties
  <2>3. CASE RestartRunner \/ LoseState \/ UNCHANGED sessionVars
    BY <2>3 DEF RestartRunner, LoseState, sessionVars, containerVars
  <2> QED
    BY <2>1, <2>2, <2>3 DEF SessionNext
<1> QED
  BY <1>3, <1>4, <1>5, <1>6 DEF Disturbs

\* In an undisturbed conversation only the scheduler's runs are at work, each with
\* its process and its session.
LEMMA UndisturbedRuns ==
  ASSUME OwnedInv, AttemptInv, CurrentInv, NEW r \in Runs, Undisturbed(Conversation[r])
  PROVE  /\ NoDirectAtWork(Conversation[r])
         /\ phase[r] # "idle" => r \notin DirectRuns
         /\ process[r] = "running" =>
              phase[r] = "collect" /\ record[r].claude = Current(Conversation[r])
<1>1. \A q \in Runs : Conversation[q] = Conversation[r] => ~Disturbs(q)
  BY DEF Undisturbed, Members
<1>2. NoDirectAtWork(Conversation[r]) /\ (phase[r] # "idle" => r \notin DirectRuns)
  BY <1>1, RunsAssumption DEF NoDirectAtWork, Disturbs
<1>3. process[r] = "running" => phase[r] = "collect"
  <2> SUFFICES ASSUME process[r] = "running" PROVE phase[r] = "collect"
    OBVIOUS
  <2>1. phase[r] \in {"collect", "failed", "gone"}
    BY DEF AttemptInv, Attempt, OwnedInv, SessionsTypeOK, Phases
  <2>2. phase[r] \notin {"failed", "gone"}
    BY <1>1 DEF Disturbs
  <2> QED
    BY <2>1, <2>2
<1> QED
  BY <1>2, <1>3 DEF CurrentInv, HoldsRecord

\* A step of a run changes the session of a conversation only when nothing that the
\* conversation said is left in it.
LEMMA SessionChangesForgotten ==
  ASSUME OwnedInv, MemoryInv, NEW s \in Runs, RunStep(s),
         NEW c \in Conversations, Undisturbed(c)
  PROVE  sessions'[SessionKey[c]].claude = Current(c) \/ Forgotten(c)
<1>1. SessionsTypeOK /\ SessionKey[c] \in Keys /\ KeyOf(s) \in Keys
  BY DEF OwnedInv, KeyOf
<1>2. Remembers(c) /\ \A r \in Members(c) : Missed(r) => Forgotten(c)
  BY DEF MemoryInv
<1>3. CASE sessions' = sessions
  BY <1>3 DEF Current
<1>4. CASE ~HasRow(s) /\ sessions' = [sessions EXCEPT ![KeyOf(s)] =
                 [claude |-> <<s, "created">>, conversation |-> Conversation[s]]]
  <2>1. CASE KeyOf(s) # SessionKey[c]
    BY <1>1, <1>4, <2>1 DEF Current, SessionsTypeOK
  <2>2. CASE KeyOf(s) = SessionKey[c]
    <3>1. Current(c) = None
      BY <1>4, <2>2 DEF HasRow, Current
    <3> QED
      BY <1>2, <3>1 DEF Remembers, Forgotten
  <2> QED
    BY <2>1, <2>2
<1>5. CASE Rotate(s)
  <2>1. phase[s] = "rotate" /\ HasRow(s) /\ RowIsOurs(s)
    BY <1>5 DEF Rotate, OwnedInv, RotatesOwnRow
  <2>2. CASE KeyOf(s) # SessionKey[c]
    BY <1>1, <1>5, <2>2 DEF Current, SessionsTypeOK, Rotate
  <2>3. CASE Conversation[s] = c
    BY <1>2, <2>1, <2>3 DEF Missed, Members
  <2>4. CASE KeyOf(s) = SessionKey[c] /\ Conversation[s] # c
    <3>1. Owner(Current(c)) = Conversation[s]
      BY <1>1, <2>1, <2>4 DEF OwnedInv, RowsOwned, HasRow, RowIsOurs, Current
    <3>2. \A i \in ClaudeIds : \A r \in transcripts[i] : Conversation[r] = Owner(i)
      BY DEF OwnedInv, TranscriptsOwned
    <3> QED
      BY <1>2, <2>4, <3>1, <3>2 DEF Remembers, Forgotten, Members
  <2> QED
    BY <2>2, <2>3, <2>4
<1> QED
  BY <1>1, <1>3, <1>4, <1>5, RowChanges

\* The transcripts change only at the end of a process.
LEMMA TranscriptChanges ==
  ASSUME NEW s \in Runs, RunStep(s), ~\E a \in Answers : ProcessEnds(s, a)
  PROVE  transcripts' = transcripts /\ answers' = answers
<1> USE DEF containerVars
<1>1. CASE Start(s) \/ Fail(s) \/ Fetch(s) \/ Insert(s) \/ Refetch(s)
  BY <1>1 DEF Start, Fail, Fetch, Insert, Refetch
<1>2. CASE Validate(s, "validate", "fetch") \/ Validate(s, "revalidate", "reset")
           \/ Bind(s) \/ UpsertAlias(s) \/ Reset(s) \/ Rotate(s) \/ Collect(s)
  BY <1>2 DEF Validate, Bind, UpsertAlias, Reset, Rotate, Collect
<1>3. CASE InspectContainer(s) \/ CreateContainer(s) \/ StartContainer(s) \/ StartProcess(s)
  BY <1>3 DEF InspectContainer, CreateContainer, StartContainer, StartProcess
<1> QED
  BY <1>1, <1>2, <1>3 DEF RunStep, RunProgress

\* A run looks for a fresh session only because its own was missing.
LEMMA MissedBefore ==
  ASSUME OwnedInv, AttemptInv, NEW s \in Runs, RunStep(s), ~Disturbs(s),
         ~\E a \in Answers : ProcessEnds(s, a), Missed(s)'
  PROVE  Missed(s)
<1> USE DEF SessionsTypeOK, Goto, containerVars
<1>1. SessionsTypeOK /\ Attempt(s)
  BY DEF OwnedInv, AttemptInv
<1>2. CASE Start(s) \/ Fail(s)
  BY <1>1, <1>2 DEF Start, Fail, Missed, InProgress
<1>3. CASE Fetch(s) \/ Insert(s) \/ Refetch(s)
  BY <1>1, <1>3 DEF Fetch, Insert, Refetch, TakeRow, AfterLoading, Missed
<1>4. CASE Validate(s, "validate", "fetch") \/ Validate(s, "revalidate", "reset")
           \/ Bind(s) \/ UpsertAlias(s) \/ Reset(s) \/ Rotate(s)
  BY <1>1, <1>4 DEF Validate, Bind, UpsertAlias, Reset, Rotate, Missed
<1>5. CASE Collect(s)
  <2>1. phase[s] = "collect" /\ Quiet(s) /\ phase'[s] # "collect"
    BY <1>1, <1>5 DEF Collect
  <2>2. Printed(s) = 1 /\ LastAnswer(s) \in {"missing", "quoting"}
    BY <1>1, <1>5, <2>1 DEF Collect, should_retry_with_fresh_session, Missed
  <2>3. answers[s] # << >> /\ LastAnswer(s) = answers[s][1]
    <3>1. Len(answers[s]) = 1
      BY <2>2
    <3>2. answers[s] # << >>
      <4>1. answers[s] = << >> => Len(answers[s]) = 0
        BY EmptySeq, Zenon
      <4> QED
        BY <3>1, <4>1
    <3> QED
      BY <3>1, <3>2 DEF LastAnswer
  <2> QED
    BY <2>1, <2>2, <2>3 DEF Missed, Disturbs
<1>6. CASE InspectContainer(s) \/ CreateContainer(s) \/ StartContainer(s) \/ StartProcess(s)
  BY <1>1, <1>6 DEF InspectContainer, CreateContainer, StartContainer, StartProcess, ContainerStates,
                    Missed
<1> QED
  BY <1>2, <1>3, <1>4, <1>5, <1>6 DEF RunStep, RunProgress

\* What a process leaves in its session is remembered; one that misses its session
\* shows that there was nothing to remember.
LEMMA ProcessEndsMemory ==
  ASSUME OwnedInv, AttemptInv, TurnInv, CurrentInv, MemoryInv,
         NEW s \in Runs, NEW a \in Answers, ProcessEnds(s, a),
         NEW c \in Conversations, Undisturbed(c)
  PROVE  Remembers(c)' /\ \A r \in Members(c) : Missed(r)' => Forgotten(c)'
<1>1. SessionsTypeOK /\ Remembers(c) /\ \A r \in Members(c) : Missed(r) => Forgotten(c)
  BY DEF OwnedInv, MemoryInv
<1>2. /\ process[s] = "running" /\ phase' = phase /\ record' = record /\ sessions' = sessions
      /\ a = "missing" <=> ~Resumable(s)
      /\ transcripts' = IF a \in {"answer", "quoting"}
                        THEN [transcripts EXCEPT ![record[s].claude] = @ \cup {s}]
                        ELSE transcripts
  BY DEF ProcessEnds, storeVars
<1>3. CASE s \notin Members(c)
  <2>1. \A i \in ClaudeIds : transcripts'[i] \cap Members(c) = transcripts[i] \cap Members(c)
    BY <1>1, <1>2, <1>3 DEF SessionsTypeOK
  <2>2. \A r \in Members(c) : Missed(r)' => Missed(r)
    <3> SUFFICES ASSUME NEW r \in Members(c), Missed(r)' PROVE Missed(r)
      OBVIOUS
    <3>1. r \in Runs /\ r # s
      BY <1>3 DEF Members
    <3>2. process'[r] = process[r] /\ answers'[r] = answers[r]
      BY <1>1, <3>1 DEF ProcessEnds, SessionsTypeOK
    <3> QED
      BY <1>2, <3>2 DEF Missed, LastAnswer
  <2>3. Remembers(c)'
    BY <1>1, <1>2, <2>1 DEF Remembers, Current, Members
  <2>4. Forgotten(c) => Forgotten(c)'
    BY <2>1 DEF Forgotten, Members
  <2> QED
    BY <1>1, <2>2, <2>3, <2>4
<1>4. CASE s \in Members(c)
  <2>1. Conversation[s] = c
    BY <1>4 DEF Members
  <2>2. phase[s] = "collect" /\ record[s].claude = Current(c) /\ s \notin DirectRuns
    BY <1>2, <2>1, UndisturbedRuns
  <2>3. Remembers(c)'
    <3>1. \A i \in ClaudeIds : \A r \in transcripts'[i] : r \in transcripts[i] \/ i = Current(c)
      BY <1>1, <1>2, <2>2 DEF SessionsTypeOK
    <3> QED
      BY <1>1, <1>2, <3>1 DEF Remembers, Current, Members
  <2>4. ASSUME NEW r \in Members(c), Missed(r)'
        PROVE  Forgotten(c)'
    <3>1. r \in Runs /\ Conversation[r] = c
      BY DEF Members
    <3>2. CASE r = s
      <4>1. /\ answers[s] \in Seq(Answers) /\ answers'[s] = Append(answers[s], a)
        BY <1>1 DEF ProcessEnds, SessionsTypeOK
      <4>2. LastAnswer(s)' = a
        BY <4>1, AppendProperties DEF LastAnswer
      <4>3. a = "missing"
        BY <1>2, <2>2, <2>4, <3>2, <4>2 DEF Missed
      <4>4. transcripts[Current(c)] = {} /\ transcripts' = transcripts
        BY <1>2, <2>2, <4>3 DEF Resumable
      <4> QED
        BY <1>1, <4>4 DEF Remembers, Forgotten, Members
    <3>3. CASE r # s
      <4>1. process'[r] = process[r] /\ answers'[r] = answers[r]
        BY <1>1, <3>1, <3>3 DEF ProcessEnds, SessionsTypeOK
      <4>2. Missed(r)
        BY <1>2, <2>4, <4>1 DEF Missed, LastAnswer
      <4>3. phase[r] \in InProgress /\ phase[s] \in InProgress
        BY <2>2, <4>2, Working DEF Missed
      <4>4. r \notin DirectRuns
        BY <3>1, <4>3, Working, UndisturbedRuns
      <4> QED
        BY <2>1, <2>2, <3>1, <3>3, <4>3, <4>4 DEF TurnInv
    <3> QED
      BY <3>2, <3>3
  <2> QED
    BY <2>3, <2>4
<1> QED
  BY <1>3, <1>4

\* No step makes an undisturbed conversation forget.
LEMMA NextMemory ==
  /\ OwnedInv /\ AttemptInv /\ TurnInv /\ CurrentInv /\ MemoryInv
  /\ [SessionNext]_sessionVars
  => MemoryInv'
<1> SUFFICES ASSUME OwnedInv, AttemptInv, TurnInv, CurrentInv, MemoryInv,
                    [SessionNext]_sessionVars, NEW c \in Conversations, Undisturbed(c)'
             PROVE  Remembers(c)' /\ \A r \in Members(c) : Missed(r)' => Forgotten(c)'
  BY DEF MemoryInv, Members
<1>1. Undisturbed(c)
  BY DisturbedForGood DEF Undisturbed, Members
<1>2. SessionsTypeOK /\ Remembers(c) /\ \A r \in Members(c) : Missed(r) => Forgotten(c)
  BY <1>1 DEF OwnedInv, MemoryInv
<1>3. ASSUME NEW s \in Runs, RunStep(s), ~\E a \in Answers : ProcessEnds(s, a)
      PROVE  Remembers(c)' /\ \A r \in Members(c) : Missed(r)' => Forgotten(c)'
  <2>1. transcripts' = transcripts
    BY <1>3, TranscriptChanges
  <2>2. sessions'[SessionKey[c]].claude = Current(c) \/ Forgotten(c)
    BY <1>1, <1>3, SessionChangesForgotten
  <2>3. Remembers(c)'
    BY <1>2, <2>1, <2>2 DEF Remembers, Forgotten, Members, Current
  <2>4. ASSUME NEW r \in Members(c), Missed(r)'
        PROVE  Missed(r)
    <3>1. r \in Runs /\ ~Disturbs(r)
      BY <1>1 DEF Undisturbed, Members
    <3>2. CASE r = s
      BY <1>3, <2>4, <3>1, <3>2, MissedBefore
    <3>3. CASE r # s
      BY <1>2, <1>3, <2>4, <3>1, <3>3, OwnStep DEF Missed, LastAnswer
    <3> QED
      BY <3>2, <3>3
  <2> QED
    BY <1>2, <2>1, <2>3, <2>4 DEF Forgotten, Members
<1>4. ASSUME NEW s \in Runs, NEW a \in Answers, ProcessEnds(s, a)
      PROVE  Remembers(c)' /\ \A r \in Members(c) : Missed(r)' => Forgotten(c)'
  BY <1>1, <1>4, ProcessEndsMemory
<1>5. CASE RestartRunner
  BY <1>2, <1>5, Working
     DEF RestartRunner, storeVars, containerVars, Remembers, Current, Members, Missed
<1>6. CASE ContainerGoes
  <2>1. sessions' = sessions /\ transcripts' = transcripts /\ phase' = phase
    BY <1>6 DEF ContainerGoes, storeVars
  <2>2. ASSUME NEW r \in Members(c), Missed(r)'
        PROVE  Missed(r)
    <3>1. r \in Runs /\ answers[r] \in Seq(Answers) /\ process[r] \in {"none", "running"}
      BY <1>2 DEF Members, SessionsTypeOK
    <3>2. CASE process[r] = "running"
      <4>1. answers'[r] = Append(answers[r], "error") /\ "error" \in Answers
        BY <1>6, <3>1, <3>2 DEF ContainerGoes, Answers
      <4>2. LastAnswer(r)' = "error"
        BY <3>1, <4>1, AppendProperties DEF LastAnswer
      <4> QED
        BY <2>1, <2>2, <4>2 DEF Missed
    <3>3. CASE process[r] = "none"
      BY <1>6, <2>1, <2>2, <3>1, <3>3 DEF ContainerGoes, Missed, LastAnswer
    <3> QED
      BY <3>1, <3>2, <3>3
  <2> QED
    BY <1>2, <2>1, <2>2 DEF Remembers, Current, Forgotten, Members
<1>7. CASE LoseState
  BY <1>7 DEF LoseState, Remembers, Forgotten
<1>8. CASE UNCHANGED sessionVars
  BY <1>2, <1>8 DEF sessionVars, storeVars, containerVars, Remembers, Current, Forgotten, Members,
                    Missed, LastAnswer
<1> QED
  BY <1>3, <1>4, <1>5, <1>6, <1>7, <1>8 DEF SessionNext

\* At the start nothing was said.
LEMMA InitMemory == SessionInit => MemoryInv
  BY DEF SessionInit, MemoryInv, Remembers, Forgotten

\* The session of a conversation that only the scheduler serves holds all that was
\* said in it, but for what was lost with the container's state.
THEOREM ConversationsAreRemembered == SessionSpec => []ConversationRemembered
<1>1. MemoryInv => ConversationRemembered
  BY DEF MemoryInv, ConversationRemembered, Undisturbed, Remembers, Members
<1>2. SessionSpec => []AttemptInv
  BY InitAttempt, NextAttempt, SessionsOwned, PTL DEF SessionSpec
<1> QED
  BY <1>1, <1>2, InitMemory, NextMemory, SessionsOwned, TurnsAreTaken, PTL DEF SessionSpec
==============================================================================
