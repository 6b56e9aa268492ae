# DogBot: formal models

DogBot connects chat platforms (QQ through NapCat, WeChat through WeChatPadPro) to the Claude
CLI. One Rust server, `agent-runner`, takes the webhooks of the platforms, decides which messages
ask the agent for something, queues them, runs `claude` in a Docker container, and sends the
answer back. PostgreSQL keeps the Claude session of each conversation and the history of the
chats. This directory models the part of it that carries state and runs concurrently, checks the
models with TLC on small instances, and proves every safety property that TLC checks with TLAPS, for all instances.

Contents: [the system](#1-the-system), [the modules](#2-the-modules), [the runs](#3-the-runs),
[fairness](#4-fairness), [the proofs](#5-the-proofs),
[where code and documents disagree](#6-where-code-and-documents-disagree),
[what is not modelled](#7-what-is-not-modelled), [the plan](#8-the-plan), [how to run](#9-how-to-run).
Paths are relative to `src/`; `scheduler.rs:122` is short for `agent-runner/src/scheduler.rs:122`.

## 1. The system

### Components

| component | source | state | operations |
|---|---|---|---|
| Task scheduler | `scheduler.rs` | running and queued tasks per conversation, list of ready conversations, last ended tasks | `admit`, `finish`, `snapshot` |
| Run scheduler, webhooks | `server.rs` | the scheduler and the payloads of waiting tasks under one mutex, tokio tasks, webhook handlers | `submit`, `run_task`, wait/busy notices, start reaction |
| Sessions | `session_store.rs`, `exec.rs` | tables `runner_sessions`, `runner_session_aliases`; the `SessionRecord` in hand | get or create, bind, validate, reset; execute, retry |
| Container | `docker_client.rs`, `exec.rs` | the runner container, its processes, Claude's transcripts in its state directory | ensure running, exec, collect output |
| Reply normalizer | `normalizer.rs` | none | `normalize_agent_output`: text and `dogbot-action` blocks to a plan |
| Outbound delivery | `dispatch.rs`, `platforms/qq.rs`, `platforms/wechatpadpro.rs`, `protocol/outbound.rs` | none but what was already sent | `dispatch_plan`, `send_plan`, compilers |
| History, grants | `history/store.rs`, `history/cleanup.rs`, `server.rs` | tables `history_messages`, `history_read_grants`; time of the last purge | insert, purge, grant; read by row-level security |
| Platform ingress | `platforms/*.rs`, `server.rs` | none | decoding of webhook events, storing, building the run request and the address of its answer |
| Trigger resolver | `trigger_resolver.rs` | none | does this message ask for a run |
| HTTP API | `server.rs` | none of its own | `/v1/runs`, `/v1/messages`, `/healthz`, `/agent-status`, the webhooks |
| API proxy | `api_proxy.rs` | none | forwards model calls and holds the key |
| Configuration, prompts, protocol types, deployment | `config.rs`, `pipeline.rs`, `protocol/*`, `deploy/` | none | I/O and data |

### How they interact

    webhook -> decode -> history insert (purge first, once an hour) -> trigger resolver
            -> RunScheduler.submit --mutex--> SchedulerState.admit
                  start now -> spawn run_task      queued -> wait notice      full -> busy notice
    run_task -> start reaction -> DockerRunner.execute -> normalize -> dispatch -> send_plan
             --mutex--> SchedulerState.finish -> spawn run_task of each promoted task
    execute  -> session tables -> container -> history grants -> claude exec -> collect
             -> (session missing: reset, and once more)
    POST /v1/runs -> DockerRunner.execute      (past the scheduler)

* Handlers and runs are tokio tasks on several threads. They share the mutex of `RunScheduler`,
  which is never held across an await, and the mutex of the history database, which a purge
  holds over both its statements.
* The session store has no transaction: every operation opens a connection, and the statements of
  two runs interleave.
* A claude process belongs to the container, not to the run that started it, and can outlive it.
* Only the tables and the container survive a restart of `agent-runner`. The queue does not.

### What is hard, and what makes each component correct

* **Scheduler.** Three data structures (slots, queues, ready list) must agree after any sequence of
  admissions and ends. Correct: limits hold, no conversation with waiting tasks drops off the ready
  list, no slot is unused while one could run, and a conversation is served in order.
* **Run scheduler.** What the mutex makes atomic is not the whole operation: spawns, notices,
  payloads and runs happen outside. Correct: one run per conversation, every slot has exactly one
  task that will give it back, a promoted task finds its payload, feedback in the chat fits what
  happens, accepted tasks end.
* **Sessions.** Check-then-act over single statements, keys that are joined strings, runs that do
  not pass the scheduler, failures between the statements, a state directory that may be lost while
  the tables are not. Correct: no Claude session holds two conversations; nobody is answered
  that a session was not found; a conversation keeps its memory.
* **Ingress.** One message arrives in several shapes, from two platforms with rules of their own, and is read three
  times: for the decision, for the history and for the prompt. Correct: the shape makes no difference, the
  decision can be told from what was written, nothing of that is lost, and the answer goes back where the message came from.
* **Delivery.** A plan is sent piece by piece, every call can fail in its own way, nothing can be taken back.
  Correct: nothing of the output is lost or reordered, and a run counts as completed only if all was sent.
* **History.** Reading rights end with time, not with the run; purging races with granting and reading.
  Correct: a token never shows too much, shows enough while it is valid, nothing afterwards; old
  messages go.

`PROJECT.json` lists every hazard at its line with the properties that would notice it.

## 2. The modules

    SerialLanes  <--refined by--  RunScheduler  --EXTENDS-->  Scheduler
    Sessions         History           Ingress, Delivery  --EXTENDS-->  Selection

| module | proofs about it | constants for TLC |
|---|---|---|
| `Scheduler` | `SchedulerProofs` | `MCScheduler` |
| `RunScheduler`, `SerialLanes` | `RunSchedulerProofs`, `RunLanesProofs` | `MCRunScheduler` |
| `Sessions` | `SessionsProofs` | `MCSessions` |
| `History` | `HistoryProofs` | `MCHistory` |
| `Delivery` | `DeliveryProofs` | `MCDelivery` |
| `Ingress` | `IngressProofs` | `MCIngress` |
| `Selection` | `SequenceFacts` | |

A run is where the modules meet. `Ingress` ends with the request that `RunScheduler` begins with.
`RunScheduler` abstracts a run to "executing" and its outcome. `Sessions` is the inside of that step up to the
output, `History` the grants it takes, and `Delivery` what happens with the output. Each of the three takes from
the scheduler only what it relies on (for `Sessions`: one scheduled run of a conversation at a time, which is
what `OneRunPerConversation` of `RunScheduler` states).

### Scheduler (`scheduler.rs`)

`running`, `queued`, `ready_conversations`, `recent_terminal` are the fields of `SchedulerState`.
The map `queued` is two variables, its keys (`entries`) and the queues, so that an entry whose queue has become empty can
be told from no entry: `tasks_ahead_for` asks for the key (`scheduler.rs:172`), and `pop_next_for_conversation` has to remove it.
`issued` is the history of submitted ids (UUIDs: never the same twice), `told` the number of tasks ahead that each waiting
task's sender was told.
`Admit` is `admit`: `AdmitStartNow`, `AdmitQueued`, `AdmitQueueFull` are its three returns.
`Finish` is `finish`: the conversation's own next task first, then the loop over the ready list.
The loop is stated without iteration: it pops `k` entries, where `k` is the first number at which
the loop condition is false (`StopsFirstAt`), and starts those of them it does not skip.
`Restart` is a new process with an empty state. `snapshot` only reads.

### SerialLanes (abstract)

What the scheduler promises to the rest of the system without saying how: a lane of tasks per
conversation, started in order and one at a time, a bound on active tasks and one on pending
tasks; a task is rejected only when the waiting places are taken. It does not promise an order
between conversations: a conversation that has more to do keeps its slot while others wait
(`scheduler.rs:122`), so there is none to promise beyond the order of the ready list.

### RunScheduler (`server.rs`)

The handler of a triggering message (`handler`), the tokio task of a run (`worker`), parked
payloads, promoted tasks that still have to be spawned, and what the chat has seen (`sent`).
The two critical sections are one action each (`Submit...`, `FinishRun`); every step outside the
mutex is an action of its own. `HandlerDropped` is the platform closing its connection, possible
only where the handler awaits; between `admit` and the spawn there is no await.
The refinement mapping to `SerialLanes` counts a task as started when its worker is spawned, so
one that `finish` has promoted and nobody has spawned yet is still first in its lane.

### Sessions (`session_store.rs`, `exec.rs`)

`phase` of a run is the SQL statement or call that comes next: `Validate`, `Fetch`, `Insert`,
`Refetch`, `Bind`, `UpsertAlias`, then `InspectContainer`, `CreateContainer`, `StartContainer` (which
are `ensure_container_running` with the 404, 409 and 304 it can meet), `StartProcess`, `Collect`, and for the second
attempt `Validate`, `Reset`, `Rotate`, `Bind`, `UpsertAlias`, `StartProcess`. `Fail` is
any statement or call of it failing. `ProcessEnds` is the claude process; it does not need its run.
`transcripts` are Claude's own session files in the container's state directory, modelled
from the two flags the code uses (`--session-id` begins a session, `--resume` needs one) and the
message it looks for. An answer may quote that message: the code reads standard output and error
alike. `ContainerGoes` is the end of the container and of its processes, `LoseState` the loss of the state
directory, `RestartRunner` a restart of the server.

### Delivery (`normalizer.rs`, `dispatch.rs`, `platforms/`)

An output is a sequence of texts and `dogbot-action` blocks. `normalize_agent_output` folds over
it as the loop of the code does, the doubled text before an unclosed block included. A plan's
items are compiled one after the other, each when the one before has been sent, by operators per
platform; a call is done, refused, unanswered (it may have been done), or, over QQ, failed and not
noticed, because the body of NapCat's HTTP 200 is not read. A file is one of five kinds, by what the code tells apart:
`dispatch_plan` looks only whether the path begins with `/workspace/`, so one that leaves it again by way of `..`
is one of its own and passes. A blank id stands for the ids that the compilers leave out. `Segment` says what an output can be made of:
an unclosed block takes everything behind it, so it is the last segment. `Outputs` is any set of such
outputs, and `QqTargets` those ids that `normalize_qq_target_id` accepts.

### Selection

`Those(s, T)`, the elements of a sequence that are in a set, stands for the filters of `Delivery` and `Ingress`. It
is `SelectSeq` of the standard module, written out so that the provers can work with it.

### History (`history/`, `server.rs`)

`Receive` to `Submit` is a webhook up to the submission of its run: the hourly purge of grants and
of messages as two statements, then the insert, then the submission as a step of its own. `InsertGrant` is one row of `create_read_grants`,
`dogbot_can_read_history_row` the policy of the database. There is no clock: `age` is counted up to
just beyond the retention and what is left of a grant down to 0, which is all that the code compares.
`lease` is auxiliary: it remembers, beside the grants, when a run was given them.

An administrator's run in a private chat gets a row for each account: `admin_history_platform_accounts` lists
them as the code does, its own first and none twice.

### Ingress (`platforms/`, `trigger_resolver.rs`, `server.rs`)

A text is a sequence of tokens, one for each thing the code tells apart: words, the status command, an escaped
character, white space, mentions of the bot and of others, pictures and quotes, and a name with a colon on a line of
its own. `payload` is a message as its author wrote it, with the shape the platform gave it: segments, a string or
segments without mentions over QQ; sender and room in fields of their own, the room as the sender, or the
sender in front of the content over WeChat. `decode_napcat_event` and `decode_webhook_event` are the
two decoders with the helpers they call, `resolve` the decision, and the actions the handler
from the bytes to its answer: decode, store (which may fail), decide, answer or submit. What a message quotes is one of its
tokens in QQ and a field beside the text in WeChat. The 400 `invalid_request` of an invalid request (`server.rs:706`) cannot
happen to a message: validation looks at the working directory alone, which is always `/workspace` here.

## 3. The runs

All runs use 2 workers, all stop where the system does (`CHECK_DEADLOCK FALSE`: every instance has
finitely many tasks, runs or messages, and when all are over nothing has to happen).

| run | instance | states | shows |
|---|---|---|---|
| `scheduler` | 6 tasks, 4 conversations, 2 slots, 3 waiting places, history of 2 | 479,443 | `TypeOK`, `WithinLimits`, `NoLostConversation`, `WorkConserving`, `ToldEnough`, `ServedInOrder`, `ReadyInArrivalOrder`, `EndsOnce`, `OnlyOwnNextOvertakes` |
| `run_scheduler` | 4 tasks, 3 conversations, 2 slots, 1 waiting place | 243,792 | `RunTypeOK`, `OneRunPerConversation`, `SlotHasOneCarrier`, `PayloadsMatchQueue`, `FeedbackFits`, `ImplementsLanes` |
| `run_scheduler_live` | 3 tasks, 2 conversations, configured limit 0 (so 1 slot), 2 places | 91,765 | `AcceptedTasksEnd` |
| `sessions` | 3 messages of one chat, 1 of the same chat by another account | about 168,000 | `SessionsTypeOK`, `NoMissingAnswer`, `ConversationRemembered`, `ResumesCurrent` |
| `sessions_api` | a message, two API runs, colliding keys | 61,672 | `ConversationsIsolated`, `NoMissingAnswer`, `RunsEnd` |
| `delivery` | every output of at most 3 of 12 kinds of segment and an unclosed block, both platforms, group and private | 108,744 | `DeliveryTypeOK`, `NothingLost`, `ElsewhereFilesSendNothing`, `SentInOrder`, `MentionAddedOnce` |
| `history` | a group question with two attempts, an administrator's request over two accounts, a message of a former account | 495,655 | `HistoryTypeOK`, `HistoryScoped`, `RunSeesItsChat`, `AccessEnds`, `OldMessagesGo` |
| `ingress` | every text of up to 4 tokens, both platforms, group and private, every shape, with and without a quote | 270,934 | `AnswersReachTheAuthor`, `TriggersFitTheMessage`, `ShapeMakesNoDifference`, `NothingWrittenIsLost`, `RunFindsItsMessage` |
| `alias_moves`, `two_processes`, `reaction_aborts`, `private_heading` | | | one violated statement each, see section 6 |

### Why the bounds are enough

* **scheduler.** The conversation c1 has three tasks, so a queue of two behind a run. Four
  conversations on two slots give two ready conversations beside two running ones, the least in
  which the order of the ready list matters. Three waiting places with six tasks reach the limit.
* **run_scheduler.** Two slots and one place show start, wait, rejection and promotion at once, with
  all interleavings of four handlers and four workers. Depth 1 makes queues short; longer queues
  are in `scheduler` and, for the promises of `SerialLanes`, in `run_scheduler_live`, which has
  depth 2. Larger depths here multiply the states and add no new kind of step.
* **sessions.** Three messages of one conversation make a first run that leaves a bad state, a run that repairs
  it, and one that depends on the repair. The fourth shares their `session_id` and nothing else.
  `sessions_api` has two runs that race in the store on one key and a third whose key collides,
  and all of them race for the container, which may stop or go at any time.
* **delivery.** Three segments put a block before, between and after texts; one block carries
  several items; each kind of item, of target and of file handle occurs.
* **ingress.** The rules look at the ends of a text, at the first and the last mention and at what stands next to
  them: four tokens put one of each kind before, between and after two mentions. Every text has one author and
  one room; a text by another author shows that both are read from the payload.
* **history.** Two attempts give two tokens; two accounts give the administrator two rows, of which the first alone may be there. A grant lives 1 tick, the purge interval and
  the retention are 2: a grant ends before the next purge and a message before the second.
  There is one handler, because two of them multiply the states beyond reach; a purge and an insert exclude each
  other by the mutex of the store, what outlives a handler (the run) is a process of its own, and the safety properties are
  proved for any number of handlers. One run per message is a bound: another delivery stores the same row and would run
  with other tokens.

**Symmetry and view.** `MCSymmetry` of `run_scheduler` exchanges two conversations together with
their tasks, both on WeChat, and `MessageSymmetry` of `sessions` three messages of one
conversation: no definition tells them apart. Both runs have no liveness property. `ImplementsLanes`
is checked as the safety property it is. `MCView` of `run_scheduler` leaves out the order of the
issued ids and the terminal history, which no step of `RunScheduler` and no property of that run reads
(`Finish` only appends to the history; `scheduler` checks both without a view), and it does not tell
how a run or a handler that is over came to its end. `MCView` of `sessions` reduces a run that is over, process
included, to what the properties ask of it: no step reads its record or its answers any more.

Every property of a passing run has a mutant in `PROJECT.json`, a plausible slip in the code under which
TLC finds the property violated. The mutated forms stand next to the definitions ("Mutant: ...").

## 4. Fairness

* `RunFairness`: weak fairness of the spawn of a task that was admitted to start, which follows `admit` without an
  await, and of each worker. tokio polls whatever can go on, and the mutex is never held across an await. That a run or a call to a platform ever
  returns is not the code's doing (`exec.rs:121` sets no bound on a run, `qq.rs:41` none on a
  call): worker fairness stands for this assumption on the outside. Without it `AcceptedTasksEnd`
  does not hold, and one run that never returns keeps its slot for ever. `Submit...` is not fair:
  nobody has to write. Neither is `RestartServer`.
* `HistoryFairness`: time passes; messages keep coming (the purge runs only when one does); a handler
  gets on (weak fairness); a purge that is tried again and again does not fail every time
  (strong fairness of its two statements). `OldMessagesGo` is false without any of these four.
* `SessionFairness`: a run gets on, a claude process ends (the same assumption on the outside). `Fail` and
  `Start` are not fair, so a run that another one blocks would stay where it is: `RunsEnd` says there is none.
* `SchedulerSpec`, `SessionSpec` and `DeliverySpec` state no fairness and have safety properties only.

## 5. The proofs

TLAPS checks the modules named `...Proofs` and `SequenceFacts` (backends SMT, Zenon, LS4). The theorems hold for every set of
tasks, conversations, runs, messages and outputs, finite or not, for texts and outputs of any length, and for all limits, under
the named ASSUMEs of the modules only. These are types of the constants, and: `NoTask` and `None` are not values; no
account is listed twice (`HistoryAssumption`); an unclosed block is the last segment of an output
(`OutputsAssumption`); no token of a text is taken for another and no id of a room for one of a user, which is how the ids look
(`NamesAssumption`); a payload is a message in a shape of its platform and chat (`PayloadsAssumption`). TLC evaluates them on
every run.

Every invariant and the two action properties of the passing runs (`OnlyOwnNextOvertakes` and the refinement
`ImplementsLanes`) are stated by a theorem.

### Scheduler

`SlotInv == TypeOK /\ WithinLimits /\ NoLostConversation /\ WorkConserving` is inductive. The parts lean on each other:

* `finish` starts the conversation's own next task without a look at the limit, which is right because
  that conversation gives a slot back. The loop then pops entries that `NoLostConversation` says are idle
  and have a task, so it skips none, and its guard before each entry gives `WithinLimits`.
* `WorkConserving` needs `WithinLimits`: that the loop stopped before the end of the list, or that a task of an idle
  conversation could not start, says only that at least all slots are taken.
* `NoLostConversation` at `finish` needs that no entry is there twice, which is its own second half, and that
  what was popped does run now.

`ActiveAfterFinish` says which conversations run after `finish`, and `FinishKeepsCapacity` that they
are within the limit: one entry of the list adds at most one, and the loop stops at the first `k`
at which the limit is reached.

Its second half adds `OrderInv == IssuedOnce /\ ServedInOrder /\ ReadyInArrivalOrder /\ EndsOnce`, which is
inductive relative to `SlotInv`. The order is that of `issued`; `BeforeStable` says that it does not change when an id is
issued. A queue only grows at its end and shrinks at its front (`TailShifts`), and a conversation
enters the ready list with a task that is newer than all that wait. `ToldInv` adds that the map has an entry exactly for the
conversations with waiting tasks (`EntriesExact`): a task that has to wait is then told at least 1 and at least the tasks of its
conversation before it, and while it waits these only get fewer (`ToldEnough`). `NobodyOvertakes`
is about a step: a task that starts at `admit` does so because nobody waits while a slot is free (`WorkConserving`), and the
loop of `finish` takes the ready conversations from the front, where the oldest are (`ReadyInArrivalOrder`).

### RunScheduler

Every step of `RunScheduler` is a step of `Scheduler` or leaves the scheduler as it is (`RunStepsAreSchedulerSteps`), so that
the scheduler's invariants hold in the server. `CarrierInv` is the type with `SlotHasOneCarrier` and `PayloadsMatchQueue`:
the critical sections change the slots and their carriers together, and every other step hands a carrier on (handler to worker,
promotion to worker). `OneRunPerConversation` is a consequence: two runs of a conversation would be two carriers of its one
slot. `FeedbackInv` says of each task how far its handler and worker have come and which signs the chat has seen by then;
`FeedbackFits` leaves the wait notice its free place.

`RunLanesProofs` shows the refinement: under the mapping a lane is the slot's task, if no worker carries it yet, and then the
queue. Each kind of step is simulated by a step of `SerialLanes` or a stutter. The counting lemmas (`PendingCount`,
`SlotCount`) relate the sums over lanes to the counters of the scheduler: a task is rejected only when the lanes are full.

### Sessions

`ConversationsIsolated` speaks of transcripts, far from the steps that can break it. The idea of the
proof: every Claude session id has an owner, the conversation of the run that generated it.
`OwnedInv` adds to the type that a row's Claude session belongs to the row's conversation (`RowsOwned`), a
record in hand to the run's (`RecordsOwned`), that a run past loading and a run with a process have a record
(`Loaded`), that a run about to rotate a row has compared its identity (`RotatesOwnRow`; another run
may write the row between, but never changes its conversation), and that transcripts hold only prompts of the owner
(`TranscriptsOwned`). Nothing is assumed of `SessionKey`, which may collide, of `External`, or of the number
of direct runs: isolation does not lean on the scheduler.

What does lean on it has three more invariants:

* `AttemptInv`: a run's second attempt has a fresh record, which begins a session and never asks to resume one. So
  the second attempt is never answered that its session is missing (`NoMissingAnswer`).
* `TurnInv` and `CurrentInv`: the scheduled runs of a conversation take turns, so without direct runs on its row nobody else
  rotates it, and the record in hand is the row (`ResumesCurrent`).
* `MemoryInv`: of a conversation that nothing disturbs, all that is in a transcript is in that of its current session;
  and a run whose session was missing knows that nothing of the conversation is left, so that the new session loses nothing
  (`ConversationRemembered`).

### History

The rows of a token are those of its run (`RowsOfRun`): at least one, the first for the run's own account. `ScopeInv` keeps that for
every row in the table, which gives `HistoryScoped` because no chat has the name of all chats. `RightsInv` follows each row over its
life, as the time that is left of the row and the auxiliary `lease` decrease together: a run has no rows before it is submitted,
none that outlives its last insertion by more than the time granted, and its own row for as long as the first one was
granted for, through purges by other webhooks. A webhook that has stored its message and not submitted it yet carries that
over to its run: what it has recorded stays stored until it is too old (`HandedOn`). `RunSeesItsChat` and `AccessEnds` follow.

### Sequences

`Delivery` and `Ingress` are about what folds, filters and concatenations compute, so their proofs are inductions over
sequences. The library's induction theorems take a predicate as an operator, which no installed prover can
instantiate. `SequenceFacts` states induction with the *set* of what has the property (`InductionOnNat`, `InductionOnSeq`), which
follows from the existence of minimal elements (`WFMin`), and from there that the recursive functions in
`Those`, `FlattenSeq` and `FoldLeft` exist and take one step per element (`RecursionExists`, `FoldExists`, `ThoseOfOneMore`,
`FlattenOfOneMore`). The rest says how selecting, flattening, mapping and counting go together: selecting from a concatenation,
from a selection, from a mapped sequence (`ThoseOfConcat`, `ThoseOfThose`, `ThoseOfMapped`), and that the number of a
reference is the position of what it stands for among the selected (`CountsThose`).

### Delivery

* `ParsedOfOneMore` is one turn of the loop of `normalize_agent_output`; `ClosedIsParsed` is the induction over the segments: texts
  and items come out in their order. An unclosed block is last, so it adds only the doubled end to the texts (`OutputIsParsed`).
  `PlanOfParsed` says what the plan has of that, also that no message is empty. `PlanInv` keeps the plan of the output
  in the state; `DeliveryTypeOK` and `NothingLost` follow.
* `SentInv` relates the calls made and the requests in hand to `CallsUpTo(n)`, all the calls of the first items: as long as nothing
  failed they are the same sequence, afterwards what was made is a prefix of it. `CallsGoUp` is one item more.
  `SentInOrder` follows: `CallsUpTo` of an item is a prefix of `AllCalls`, and a completed run has compiled them all.
* `SendInv`: nothing is requested before dispatch_plan has passed the plan, so nothing is sent of one with a file
  from elsewhere (`ElsewhereFilesSendNothing`). `OrderInv` speaks of the calls that were made and of the requests that are next as
  one sequence: items in their order, a file before its text (`CallsOfItem`). The adapters' mention is added to the last call of the
  first message only, and in a QQ group to no less (`FirstMessageMentions`), which gives `MentionAddedOnce`.

### Ingress

The invariant is plain: `IngressInv` says of each part of the state what it was made from, so that the theorems are about the functions
from a payload to an event, a decision, a row and a run. The lemmas follow the text through them:

* Two texts say the same when the same of their tokens are selected (`WrittenIn`). Trimming takes away white space only
  (`WrittenOfTrim`), a selection that keeps what is written loses nothing of it (`WrittenOfThose`), and `raw_message` is
  what it shows but for escapes (`RawText`).
* `QqPartsAre` lists the sources that the parts of a QQ message can come from: the segments, when they mention
  somebody, or `raw_message`. `QqPartsSay` shows that whichever it is, the mentions and the words are those of the text; `QqTriggers` that both
  lead to the same decision (`ShapeMakesNoDifference`, `TriggersFitTheMessage`).
* `EventContent` shows that each shape of a WeChat payload is unwrapped to the same sender, room and content, unless the
  first line is taken for a sender (`WeChatEvent`); `WeChatPartsSay` that stripping the bot's name loses nothing written, and
  `StrippedTrigger` that it leaves nothing to run only when the name stood alone.
* `RunFindsItsMessage` compares two selections of one text: the row has the texts without the mentions, the prompt has both.

### Model-checked only

Liveness, which the prover does not do: `AcceptedTasksEnd`, `RunsEnd`, `OldMessagesGo`. (The four
statements of section 6 are refuted, not proved.)

## 6. Where code and documents disagree

Four are runs with one property each, which TLC finds violated; `PROJECT.json` quotes the lines.

* `alias_moves` / `AliasNeverMoves`: two API runs of different conversations that validate one `session_id` before either
  binds it both bind it; the second takes it over, where the tests promise a conflict. (Webhooks of one server cannot do
  that: they have one account per platform, and their `session_id` is their conversation.)
* `two_processes` / `OneProcessPerConversation`: when the stream of an exec breaks, or the server restarts, the claude
  process goes on beside the next run of its conversation.
* `reaction_aborts` / `AnswerSurvivesReaction`: a refused reaction of an answer keeps its text from
  being sent; two documents say it should not.
* `private_heading` / `OneSessionPerPrivateChat`: a private WeChat message whose first line looks like the name of a sender is
  taken for one of that sender, gets a session of its own and is answered to that name.

`ConversationRemembered` and `ResumesCurrent` state how far the code's promises reach instead: they except
direct runs, processes that outlived their run, and answers that quote the error text. `AnswersReachTheAuthor` and
`ShapeMakesNoDifference` except the heading.

Smaller ones that modelling showed and that have no run of their own:

* The notice that a task waits is sent after the lock is released (`server.rs:727`), so it can follow the start reaction and even the
  reply of the same task; `docs/superpowers/specs/2026-04-27-async-conversation-scheduler-design.md:102` puts it first. No
  property states an order for it: `FeedbackFits` leaves it any place, and `ToldEnough` says that its number holds while the task waits.
* `dispatch_plan` refuses a file by the beginning of its path alone (`dispatch.rs:20`), which `ElsewhereFilesSendNothing` states. The unified
  design (`docs/superpowers/specs/2026-04-24-unified-platform-protocol-design.md:372` and `:402`) says that every path outside
  `/workspace` is refused; a path that begins there and leaves it by way of `..` is not.
* `README.md:17` and `:19` require a mention of the bot and body text in a group. The code takes the mention alone for a run
  (`trigger_resolver.rs:35`), as `trigger_resolver_tests.rs:96` expects and the unified design (`:246`) has it. `TriggersFitTheMessage`
  states what the code does.
* `README.md:18` says that any non-empty text triggers in a private WeChat chat. The bot's name alone is stripped and then
  ignored (`wechatpadpro.rs:771`). In a group it runs, with an empty prompt.
* For an idle conversation that design (line 114) counts running tasks and heads of ready conversations, the code (`scheduler.rs:172`)
  running tasks and all waiting tasks: a sender can be told of 3 tasks ahead instead of 2. A unit test (`scheduler.rs:310`) pins the code.
* A private QQ message with only a picture mentions nobody, so it is read from `raw_message`: the run's prompt is the CQ code of the
  picture, though there is no text as `README.md:16` asks for. Characters that NapCat escapes there stay escaped in the prompt.
* A QQ message whose `message` field is a string and that quotes another runs the agent for `/agent-status` instead of showing the status.
* A WeChat message without a sender belongs to the conversation `wechatpadpro:private:`.
* A message that only mentions the bot starts a run and is not stored, so the run does not find its own trigger in the history.

## 7. What is not modelled

* **API proxy** (`api_proxy.rs`): stateless forwarding, one request at a time. **Prompt pipeline** (`pipeline.rs`): formatting.
* **Killing processes** (`exec_pid`, `kill_pid`, `kill_claude_execs`): nothing calls them.
* **Wording, markdown, encoding of media, layout of payloads, endpoints of a scope, times and display names of events.**
* **Set-up of roles, schema migration, configuration, deployment scripts**: I/O and data. `upsert_ingest_state` and `ingest_enabled` are
  constants in the code: every conversation is stored.
* **Mentions that the agent writes itself**, in an envelope (`qq.rs:385`) or as `@` and digits in a text (`qq.rs:622`): they are
  part of what is sent, and `MentionAddedOnce` speaks only of the mention that the adapter adds.
* **A text that trimming, or leaving out what a platform cannot show, makes empty**: `Words` are texts of which something is left.
* **The doubled text in front of an unclosed block** is modelled as the code has it (`normalizer.rs:90`); no document says
  what should come of such an output, so `NothingLost` asks only that the texts are there, in order.
* **A process that outlives its run** is in `Sessions`. What it may still read is in `History` for as long as its grants last
  (`HistoryScoped` is about every token); `AccessEnds` is about processes of runs in progress.
* **Panics** in `run_task`: no step of the code is expected to panic, and `SlotHasOneCarrier` is what one would break.
* **/v1/messages** reads the session store and sends one text: it is the `Delivery` of a plan with one message.
* **`get_bound_session...` variants of the session store**: called by its tests only.
* **Recognition of a delivery that comes twice**: the code has none. The history stores it once (`History`), and it is
  submitted as another run, which is another task of `RunScheduler`.

## 8. The plan

Done, in this order, the most important behaviour first: Scheduler; RunScheduler with SerialLanes; Sessions;
Delivery; History; the proofs of the scheduler's slots and of the isolation of sessions; Ingress; the order of the
scheduler; the carriers and the feedback of the server and its refinement; the runs of sessions; History; the sending of a
plan; what a plan has of an output; Ingress.

What is left:

1. A composition of `RunScheduler` with the outcome of `Sessions` in place of "executing", if its
   states stay within reach: then `Start` of `Sessions` needs no guard of its own.
2. /v1/messages as a reader of the session store in `Sessions`, two statements of which the second can miss what the first found.
3. `join_upstream_url` of the proxy as an operator over path segments.

## 9. How to run

    tlc -workers 2 -config MCScheduler.cfg MCScheduler
    tlapm SchedulerProofs.tla

Each run of `PROJECT.json` names its module and configuration. The longest (`run_scheduler`, `history`) take about two minutes,
the proofs a few each, `IngressProofs` the most.
