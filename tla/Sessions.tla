------------------------------- MODULE Sessions -------------------------------
(***************************************************************************)
(* How a run finds its Claude session: DockerRunner::execute (exec.rs)     *)
(* over the tables of SessionStore (session_store.rs) and the claude       *)
(* process it starts in the runner container.                              *)
(*                                                                         *)
(* Every SQL statement is a step: the store opens a connection for each    *)
(* operation and uses no transaction, so the statements of two runs        *)
(* interleave.  The scheduler gives a conversation one run at a time; the  *)
(* runs of POST /v1/runs go straight to execute (server.rs:940).           *)
(*                                                                         *)
(* Times of creation and use are left out: nothing reads them.             *)
(***************************************************************************)
EXTENDS Naturals, Sequences, FiniteSets

CONSTANTS
    Runs,            \* the runs requested so far and to come
    DirectRuns,      \* those of them that come from POST /v1/runs
    Conversations,   \* platform, account and conversation id of a request
    Conversation,    \* the conversation of each run
    Keys,            \* values of runner_sessions.session_key
    SessionKey,      \* conversation_session_key: it joins the parts with "::"
    Externals,       \* values of session_id
    External,        \* the session_id of each run; it names no account
    None             \* no row, no alias, an empty session_id

ASSUME RunsAssumption == DirectRuns \subseteq Runs
ASSUME ConversationAssumption == Conversation \in [Runs -> Conversations]
ASSUME SessionKeyAssumption == SessionKey \in [Conversations -> Keys]
ASSUME ExternalAssumption == External \in [Runs -> Externals \cup {None}]

VARIABLES
    sessions,      \* runner_sessions: key -> Claude session and conversation
    aliases,       \* runner_session_aliases: session_id -> key
    container,     \* the runner container
    phase,         \* run -> the statement or call that comes next
    record,        \* run -> the SessionRecord in hand
    process,       \* run -> its claude process in the container
    answers,       \* run -> what its claude processes printed, in order
    transcripts    \* Claude session -> the runs whose prompts it holds

storeVars == <<sessions, aliases>>
containerVars == <<container, process, answers, transcripts>>
sessionVars == <<storeVars, phase, record, containerVars>>

\* Uuid::new_v4, when a run creates the session and when it resets it.
ClaudeIds == Runs \X {"created", "reset"}

ASSUME NoneAssumption == None \notin Keys \cup Externals \cup ClaudeIds

Rows == [claude : ClaudeIds, conversation : Conversations]
NoRow == [claude |-> None, conversation |-> None]
NoRecord == [claude |-> None, is_new |-> FALSE]

Phases == {"idle", "validate", "fetch", "insert", "refetch", "bind", "upsert",
           "inspect", "create", "start", "exec", "collect",
           "revalidate", "reset", "rotate", "ok", "failed", "conflict", "gone"}
ContainerStates == {"absent", "stopped", "running"}
Done == {"ok", "failed", "conflict", "gone"}
InProgress == Phases \ (Done \cup {"idle"})

\* An answer; an answer that happens to contain the text looked for; the text
\* "No conversation found with session ID:"; any other error of claude.
Answers == {"answer", "quoting", "missing", "error"}

KeyOf(r) == SessionKey[Conversation[r]]
HasExternal(r) == External[r] # None

Goto(r, p) == phase' = [phase EXCEPT ![r] = p]

-----------------------------------------------------------------------------
(* load_runtime_session *)

\* The scheduler starts a run when no other scheduled run of its conversation
\* is at work in this process.
Start(r) ==
    /\ phase[r] = "idle"
    /\ r \notin DirectRuns =>
         \A q \in Runs \ DirectRuns :
             Conversation[q] = Conversation[r] => phase[q] \notin InProgress
    /\ Goto(r, IF HasExternal(r) THEN "validate" ELSE "fetch")
    /\ UNCHANGED <<storeVars, record, containerVars>>

\* validate_external_session_binding.  When the alias belongs to another
\* conversation it is a conflict, whatever its row holds.
AliasIsFree(r) == aliases[External[r]] \in {None, KeyOf(r)}

Validate(r, from, to) ==
    /\ phase[r] = from
    /\ Goto(r, IF AliasIsFree(r) THEN to ELSE "conflict")
    /\ UNCHANGED <<storeVars, record, containerVars>>

HasRow(r) == sessions[KeyOf(r)] # NoRow

\* Mutant: whatever row has the key is the session of the run.
AnyRowIsOurs(r) == TRUE

\* ensure_session_identity: two conversations may have the same joined key.
RowIsOurs(r) == sessions[KeyOf(r)].conversation = Conversation[r]

AfterLoading(r) == IF HasExternal(r) THEN "bind" ELSE "inspect"

\* SELECT found the row of the key.
TakeRow(r) ==
    IF RowIsOurs(r)
    THEN /\ record' = [record EXCEPT ![r] =
                         [claude |-> sessions[KeyOf(r)].claude, is_new |-> FALSE]]
         /\ Goto(r, AfterLoading(r))
    ELSE Goto(r, "conflict") /\ UNCHANGED record

\* get_or_create_by_key: SELECT,
Fetch(r) ==
    /\ phase[r] = "fetch"
    /\ IF HasRow(r) THEN TakeRow(r) ELSE Goto(r, "insert") /\ UNCHANGED record
    /\ UNCHANGED <<storeVars, containerVars>>

\* INSERT ... ON CONFLICT DO NOTHING,
Insert(r) ==
    /\ phase[r] = "insert"
    /\ IF HasRow(r)
       THEN Goto(r, "refetch") /\ UNCHANGED <<sessions, record>>
       ELSE /\ sessions' = [sessions EXCEPT ![KeyOf(r)] =
                  [claude |-> <<r, "created">>, conversation |-> Conversation[r]]]
            /\ record' = [record EXCEPT ![r] =
                            [claude |-> <<r, "created">>, is_new |-> TRUE]]
            /\ Goto(r, AfterLoading(r))
    /\ UNCHANGED <<aliases, containerVars>>

\* and SELECT again when another run inserted the row in between.
Refetch(r) ==
    /\ phase[r] = "refetch"
    /\ HasRow(r)
    /\ TakeRow(r)
    /\ UNCHANGED <<storeVars, containerVars>>

\* bind_external_session_id reads first: the alias, and the row of the key;
Bind(r) ==
    /\ phase[r] = "bind"
    /\ Goto(r, IF AliasIsFree(r) /\ HasRow(r) /\ RowIsOurs(r) THEN "upsert" ELSE "conflict")
    /\ UNCHANGED <<storeVars, record, containerVars>>

\* What a run has printed so far tells its first attempt from its second.
FirstAttempt(r) == answers[r] = << >>

\* then it writes the alias, over whatever the table holds by now.
UpsertAlias(r) ==
    /\ phase[r] = "upsert"
    /\ aliases' = [aliases EXCEPT ![External[r]] = KeyOf(r)]
    /\ Goto(r, IF FirstAttempt(r) THEN "inspect" ELSE "exec")
    /\ UNCHANGED <<sessions, record, containerVars>>

-----------------------------------------------------------------------------
(* execute and execute_once *)

\* ensure_container_running: inspect,
InspectContainer(r) ==
    /\ phase[r] = "inspect"
    /\ Goto(r, CASE container = "running" -> "exec"
                 [] container = "stopped" -> "start"
                 [] container = "absent" -> "create")
    /\ UNCHANGED <<storeVars, record, containerVars>>

\* Mutant: a run that is not the one to create the container does not go on.
CreateAlone(r) ==
    /\ phase[r] = "create"
    /\ container = "absent"
    /\ container' = "stopped"
    /\ Goto(r, "start")
    /\ UNCHANGED <<storeVars, record, process, answers, transcripts>>

\* create, where a 409 says that another run was faster,
CreateContainer(r) ==
    /\ phase[r] = "create"
    /\ container' = IF container = "absent" THEN "stopped" ELSE container
    /\ Goto(r, "start")
    /\ UNCHANGED <<storeVars, record, process, answers, transcripts>>

\* and start, which says 304 of a container that runs and 404 of one that is gone.
StartContainer(r) ==
    /\ phase[r] = "start"
    /\ container' = IF container = "absent" THEN "absent" ELSE "running"
    /\ Goto(r, IF container = "absent" THEN "failed" ELSE "exec")
    /\ UNCHANGED <<storeVars, record, process, answers, transcripts>>

\* create_claude_exec and start_exec, which need a container that runs.
StartProcess(r) ==
    /\ phase[r] = "exec"
    /\ IF container = "running"
       THEN process' = [process EXCEPT ![r] = "running"] /\ Goto(r, "collect")
       ELSE Goto(r, "failed") /\ UNCHANGED process
    /\ UNCHANGED <<storeVars, container, record, answers, transcripts>>

\* A statement, the container, the history token, the exec or its output stream
\* fails, and execute returns the error.  A process that was started goes on.
Fail(r) ==
    /\ phase[r] \in InProgress
    /\ Goto(r, "failed")
    /\ UNCHANGED <<storeVars, record, containerVars>>

\* What the record makes build_claude_command ask for: --session-id begins a
\* session, --resume needs one that exists.
Resumable(r) == record[r].is_new \/ transcripts[record[r].claude] # {}

\* The claude process of r ends; nobody needs to wait for it any more.
ProcessEnds(r, answer) ==
    /\ process[r] = "running"
    /\ answer = "missing" <=> ~Resumable(r)
    /\ process' = [process EXCEPT ![r] = "none"]
    /\ answers' = [answers EXCEPT ![r] = Append(@, answer)]
    /\ transcripts' = IF answer \in {"answer", "quoting"}
                      THEN [transcripts EXCEPT ![record[r].claude] = @ \cup {r}]
                      ELSE transcripts
    /\ UNCHANGED <<storeVars, container, phase, record>>

LastAnswer(r) == answers[r][Len(answers[r])]

\* Mutant: the session is reset after every error.
RetriesOnError(r) == ~record[r].is_new /\ LastAnswer(r) # "answer"

\* looks_like_missing_session reads the output, whoever wrote the text.
should_retry_with_fresh_session(r) ==
    ~record[r].is_new /\ LastAnswer(r) \in {"missing", "quoting"}

\* The first attempt may be followed by a second one, on a fresh session.
Collect(r) ==
    /\ phase[r] = "collect"
    /\ process[r] = "none"
    /\ Goto(r, IF Len(answers[r]) = 1 /\ should_retry_with_fresh_session(r)
               THEN (IF HasExternal(r) THEN "revalidate" ELSE "reset")
               ELSE "ok")
    /\ UNCHANGED <<storeVars, record, containerVars>>

\* reset_runtime_session: reset_by_key reads the row,
Reset(r) ==
    /\ phase[r] = "reset"
    /\ Goto(r, IF HasRow(r) /\ RowIsOurs(r) THEN "rotate" ELSE "conflict")
    /\ UNCHANGED <<storeVars, record, containerVars>>

\* Mutants: the record that was read is used on, not the one that was written; the
\* session of the row is cleared and not replaced.
RotatesOnlyRow(r) ==
    /\ phase[r] = "rotate"
    /\ sessions' = [sessions EXCEPT ![KeyOf(r)].claude = <<r, "reset">>]
    /\ Goto(r, IF HasExternal(r) THEN "bind" ELSE "exec")
    /\ UNCHANGED <<aliases, record, containerVars>>

RotateClears(r) ==
    /\ phase[r] = "rotate"
    /\ sessions' = [sessions EXCEPT ![KeyOf(r)].claude = None]
    /\ record' = [record EXCEPT ![r] = [claude |-> <<r, "reset">>, is_new |-> TRUE]]
    /\ Goto(r, IF HasExternal(r) THEN "bind" ELSE "exec")
    /\ UNCHANGED <<aliases, containerVars>>

\* and gives it a new Claude session, whichever it has by now.
Rotate(r) ==
    /\ phase[r] = "rotate"
    /\ sessions' = [sessions EXCEPT ![KeyOf(r)].claude = <<r, "reset">>]
    /\ record' = [record EXCEPT ![r] = [claude |-> <<r, "reset">>, is_new |-> TRUE]]
    /\ Goto(r, IF HasExternal(r) THEN "bind" ELSE "exec")
    /\ UNCHANGED <<aliases, containerVars>>

-----------------------------------------------------------------------------
\* agent-runner stops and starts again.  The rows stay, the runs are gone, and
\* the claude processes in the container go on.
RestartRunner ==
    /\ \E r \in Runs : phase[r] \in InProgress
    /\ phase' = [r \in Runs |-> IF phase[r] \in InProgress THEN "gone" ELSE phase[r]]
    /\ UNCHANGED <<storeVars, record, containerVars>>

\* The container stops, or is removed, and its processes end.
ContainerGoes ==
    /\ \/ container = "running" /\ container' = "stopped"
       \/ container # "absent" /\ container' = "absent"
    /\ answers' = [r \in Runs |-> IF process[r] = "running" THEN Append(answers[r], "error")
                                  ELSE answers[r]]
    /\ process' = [r \in Runs |-> "none"]
    /\ UNCHANGED <<storeVars, phase, record, transcripts>>

\* The state directory, which is a mount and outlives the container, is emptied
\* while the container does not run: the transcripts are gone.
LoseState ==
    /\ container # "running"
    /\ transcripts' = [i \in ClaudeIds |-> {}]
    /\ UNCHANGED <<storeVars, container, phase, record, process, answers>>

SessionInit ==
    /\ sessions = [k \in Keys |-> NoRow]
    /\ aliases = [e \in Externals |-> None]
    /\ container = "absent"
    /\ phase = [r \in Runs |-> "idle"]
    /\ record = [r \in Runs |-> NoRecord]
    /\ process = [r \in Runs |-> "none"]
    /\ answers = [r \in Runs |-> << >>]
    /\ transcripts = [i \in ClaudeIds |-> {}]

\* What a run does when nothing goes wrong from outside.
RunProgress(r) ==
    \/ Validate(r, "validate", "fetch") \/ Fetch(r) \/ Insert(r) \/ Refetch(r)
    \/ Bind(r) \/ UpsertAlias(r)
    \/ InspectContainer(r) \/ CreateContainer(r) \/ StartContainer(r)
    \/ StartProcess(r) \/ Collect(r)
    \/ Validate(r, "revalidate", "reset") \/ Reset(r) \/ Rotate(r)
    \/ \E a \in Answers : ProcessEnds(r, a)

RunStep(r) == Start(r) \/ RunProgress(r) \/ Fail(r)

SessionNext == (\E r \in Runs : RunStep(r)) \/ RestartRunner \/ ContainerGoes \/ LoseState

\* tokio polls a run that can go on.  That claude ends, and that the database and
\* docker answer, is assumed: nothing bounds the time of a run.
SessionFairness == \A r \in Runs : WF_sessionVars(RunProgress(r))

SessionSpec == SessionInit /\ [][SessionNext]_sessionVars

FairSessionSpec == SessionSpec /\ SessionFairness
-----------------------------------------------------------------------------
\* Every variable has its type.
SessionsTypeOK ==
    /\ sessions \in [Keys -> Rows \cup {NoRow}]
    /\ aliases \in [Externals -> Keys \cup {None}]
    /\ container \in ContainerStates
    /\ phase \in [Runs -> Phases]
    /\ record \in [Runs -> [claude : ClaudeIds, is_new : BOOLEAN] \cup {NoRecord}]
    /\ process \in [Runs -> {"none", "running"}]
    /\ answers \in [Runs -> Seq(Answers)]
    /\ transcripts \in [ClaudeIds -> SUBSET Runs]

\* A Claude session never holds the prompts of two conversations, although any
\* runs interleave on the tables, keys may collide, external ids are shared and
\* processes outlive their runs (session_store.rs:250-362).
ConversationsIsolated ==
    \A i \in ClaudeIds : \A r, q \in transcripts[i] : Conversation[r] = Conversation[q]

\* Nobody is answered that a session was not found: a run whose session has no
\* transcript, after a failed first run, a crash or the loss of the container's
\* state, gets a fresh one and runs its prompt (exec.rs:75-84).
NoMissingAnswer ==
    \A r \in Runs : phase[r] = "ok" => LastAnswer(r) # "missing"

Current(c) == sessions[SessionKey[c]].claude

\* The runs that may break the memory of their conversation: a direct run, a run
\* whose process may have outlived it, or one whose answer quoted the text.
Disturbs(q) ==
    \/ q \in DirectRuns /\ phase[q] # "idle"
    \/ phase[q] \in {"failed", "gone"} /\ (process[q] = "running" \/ answers[q] # << >>)
    \/ answers[q] # << >> /\ answers[q][1] = "quoting"

\* While every run of a conversation came from the scheduler and none of them
\* disturbs it, Claude remembers all of it: the session of the conversation
\* holds every prompt that was run, but for those lost with the container's state.
ConversationRemembered ==
    \A c \in Conversations :
        LET Members == {r \in Runs : Conversation[r] = c} IN
        (\A q \in Members : ~Disturbs(q)) =>
            \A i \in ClaudeIds : \A r \in transcripts[i] \cap Members : i = Current(c)

\* A scheduled run goes to the session its conversation has now: no one resets it
\* between the read of the row and the exec, unless the conversation has direct runs.
ResumesCurrent ==
    \A r \in Runs :
        /\ phase[r] \in {"bind", "upsert", "inspect", "create", "start", "exec", "collect"}
        /\ \A q \in DirectRuns : KeyOf(q) # KeyOf(r)
        => record[r].claude = Current(Conversation[r])

\* A run comes to its end whichever others it meets on the way: none waits for a
\* row, a container or an answer that another run keeps from it, none is repeated
\* for ever (docker_client.rs:124-169, session_store.rs:272-305).
RunsEnd == \A r \in Runs : phase[r] \in InProgress ~> phase[r] \in Done

\* The store's tests say that an "external session alias does not override
\* conversation scoping": a session_id that belongs to a conversation is refused
\* to any other.  The alias is read in one statement and written in another.
AliasNeverMoves ==
    [][\A e \in Externals : aliases[e] # None => aliases'[e] = aliases[e]]_sessionVars

\* dogbot.env.example says: "Each conversation still runs one task at a time".
\* A process that survived a restart runs beside the next one.
OneProcessPerConversation ==
    \A r, q \in Runs :
        /\ process[r] = "running" /\ process[q] = "running"
        /\ Conversation[r] = Conversation[q]
        => r = q
=============================================================================
