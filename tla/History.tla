------------------------------- MODULE History -------------------------------
(***************************************************************************)
(* The history of the chats, and the right of a run to read it             *)
(* (history/store.rs).  The handler of a webhook stores the message before *)
(* it submits its run, and once in a while deletes what is too old.  A run *)
(* gets a token, and the row-level security of the database lets its       *)
(* claude process read what the grants of the token say, for a time.       *)
(*                                                                         *)
(* Time passes in ticks.  There is no clock: ages and what is left of a    *)
(* grant are counted instead, up to where more makes no difference.        *)
(***************************************************************************)
EXTENDS Naturals, SequencesExt

CONSTANTS
    Handlers,         \* the webhooks that can be handled at one time
    Messages,         \* the messages; each can be delivered any number of times
    Account,          \* the platform account of a message
    Chat,             \* its conversation
    Triggers,         \* the messages that ask for a run
    AdminPrivate,     \* those of an administrator in a private chat
    Resumed,          \* those whose conversation has a session from before
    Textless,         \* messages of pictures and the like
    Timeless,         \* messages without a time, which are dated to 1970
    Former,           \* stored messages of an account that is no longer configured
    Accounts,         \* the configured platform accounts, one after the other
    GrantTtl,         \* history_run_token_ttl_secs in ticks
    CleanupInterval,  \* HISTORY_CLEANUP_INTERVAL
    Retention,        \* history_retention_days
    NoMessage

\* The conversation of a grant for all of an account.
AllChats == "all chats"

ASSUME HistoryAssumption ==
    /\ DOMAIN Account = Messages /\ DOMAIN Chat = Messages
    /\ AdminPrivate \cup Resumed \subseteq Triggers /\ Triggers \subseteq Messages
    /\ Textless \cup Timeless \cup Former \subseteq Messages
    /\ Former \cap (Textless \cup Triggers) = {}
    /\ NoMessage \notin Messages
    /\ \A m \in Messages : Chat[m] # AllChats
    /\ Accounts \in Seq(ToSet(Accounts))
    /\ \A i, j \in DOMAIN Accounts : Accounts[i] = Accounts[j] => i = j
    /\ GrantTtl \in Nat \ {0} /\ CleanupInterval \in Nat \ {0} /\ Retention \in Nat

VARIABLES
    age,          \* the age of each message, by the time that it carries
    stored,       \* the rows of history_messages
    grants,       \* the rows of history_read_grants, with the time that is left of them
    since_purge,  \* the time since last_run_started_at
    handler,      \* what each webhook is at
    run,          \* what the run of each trigger is at
    lease         \* what is left of the time of each run, since the first of its grants
                  \* and since the last (auxiliary)

vars == <<age, stored, grants, since_purge, handler, run, lease>>

Handling == {"idle", "purge_grants", "purge_messages", "ingest", "submit"}
Running == {"none", "granting", "running", "ended"}

\* A run is tried twice at most, each time with a new token.
Attempts == 1..2
Tokens == Triggers \X Attempts
Token(r) == <<r, run[r].attempt>>

Idle == [phase |-> "idle", message |-> NoMessage, recorded |-> FALSE]

\* A run that is not there yet, that waits for its turn or its grants, that is over.
NoRun == [phase |-> "none", attempt |-> 1, inserted |-> 0, recorded |-> FALSE]
Submitted(recorded) == [NoRun EXCEPT !.phase = "granting", !.recorded = recorded]
Over == [NoRun EXCEPT !.phase = "ended"]
NoLease == [first |-> 0, last |-> 0]

-----------------------------------------------------------------------------
(* What a token lets its bearer read *)

PlaceOf(account) == CHOOSE i \in DOMAIN Accounts : Accounts[i] = account

\* The account of the run, then the configured ones, none twice.
admin_history_platform_accounts(r) ==
    <<Account[r]>> \o
        (IF Account[r] \in ToSet(Accounts) THEN RemoveAt(Accounts, PlaceOf(Account[r]))
                                           ELSE Accounts)

\* history_read_grants_for_request: its own conversation, or for an administrator all
\* of these accounts.
history_read_grants(r) ==
    IF r \in AdminPrivate
    THEN LET accounts == admin_history_platform_accounts(r)
         IN [i \in DOMAIN accounts |-> [account |-> accounts[i], chat |-> AllChats]]
    ELSE <<[account |-> Account[r], chat |-> Chat[r]]>>

\* Mutants: the account is not compared; the time is not.
ComparesChatOnly(token, m) ==
    \E g \in grants :
        /\ g.token = token
        /\ g.left > 0
        /\ g.chat \in {AllChats, Chat[m]}

ComparesNoTime(token, m) ==
    \E g \in grants :
        /\ g.token = token
        /\ g.account = Account[m]
        /\ g.chat \in {AllChats, Chat[m]}

dogbot_can_read_history_row(token, m) ==
    \E g \in grants :
        /\ g.token = token
        /\ g.left > 0
        /\ g.account = Account[m]
        /\ g.chat \in {AllChats, Chat[m]}

Visible(token) == {m \in stored : dogbot_can_read_history_row(token, m)}

-----------------------------------------------------------------------------
(* Webhooks *)

\* Purge and insert share a mutex, which a purge holds for both of its statements.
StoreIsFree == \A h \in Handlers : handler[h].phase # "purge_messages"

\* Mutant: every webhook sets the time of the last purge.
MarksEveryTime(h, m) ==
    /\ handler[h].phase = "idle" /\ m \notin Former
    /\ handler' = [handler EXCEPT ![h] =
           [Idle EXCEPT !.phase = IF since_purge = CleanupInterval THEN "purge_grants"
                                                                  ELSE "ingest",
                        !.message = m]]
    /\ since_purge' = 0
    /\ UNCHANGED <<age, stored, grants, run, lease>>

\* should_run: the first webhook after the interval purges, and the time is taken
\* before it does, whatever comes of it.
Receive(h, m) ==
    /\ handler[h].phase = "idle" /\ m \notin Former
    /\ handler' = [handler EXCEPT ![h] =
           [Idle EXCEPT !.phase = IF since_purge = CleanupInterval THEN "purge_grants"
                                                                  ELSE "ingest",
                        !.message = m]]
    /\ since_purge' = IF since_purge = CleanupInterval THEN 0 ELSE since_purge
    /\ UNCHANGED <<age, stored, grants, run, lease>>

\* purge_expired, by two statements of their own.
PurgeGrants(h) ==
    /\ handler[h].phase = "purge_grants" /\ StoreIsFree
    /\ grants' = {g \in grants : g.left > 0}
    /\ handler' = [handler EXCEPT ![h].phase = "purge_messages"]
    /\ UNCHANGED <<age, stored, since_purge, run, lease>>

\* Mutant: what is as old as the retention goes, too.
PurgesADayEarly(h) ==
    /\ handler[h].phase = "purge_messages"
    /\ stored' = {m \in stored : age[m] < Retention}
    /\ handler' = [handler EXCEPT ![h].phase = "ingest"]
    /\ UNCHANGED <<age, grants, since_purge, run, lease>>

PurgeMessages(h) ==
    /\ handler[h].phase = "purge_messages"
    /\ stored' = {m \in stored : age[m] <= Retention}
    /\ handler' = [handler EXCEPT ![h].phase = "ingest"]
    /\ UNCHANGED <<age, grants, since_purge, run, lease>>

\* Either statement fails: a line in the log, and the next try an interval later.
PurgeFails(h) ==
    /\ \/ handler[h].phase = "purge_grants" /\ StoreIsFree
       \/ handler[h].phase = "purge_messages"
    /\ handler' = [handler EXCEPT ![h].phase = "ingest"]
    /\ UNCHANGED <<age, stored, grants, since_purge, run, lease>>

\* insert_canonical_event: a message that comes again has the key and the time that
\* it had, one without text is not stored, and an error is logged and no more.
Ingest(h) ==
    /\ handler[h].phase = "ingest" /\ StoreIsFree
    /\ LET m == handler[h].message
       IN \E done \in BOOLEAN :
            /\ done => m \notin Textless
            /\ stored' = IF done THEN stored \cup {m} ELSE stored
            /\ handler' = [handler EXCEPT ![h].phase = "submit", ![h].recorded = done]
    /\ UNCHANGED <<age, grants, since_purge, run, lease>>

\* A trigger is submitted, unless the queue is full.  Bound: one run of each message.
Submit(h) ==
    /\ handler[h].phase = "submit"
    /\ handler' = [handler EXCEPT ![h] = Idle]
    /\ LET m == handler[h].message
       IN \/ /\ m \in Triggers /\ run[m] = NoRun
             /\ run' = [run EXCEPT ![m] = Submitted(handler[h].recorded)]
          \/ UNCHANGED run
    /\ UNCHANGED <<age, stored, grants, since_purge, lease>>

-----------------------------------------------------------------------------
(* Runs *)

AllGranted(r) == run[r].inserted = Len(history_read_grants(r))

\* create_read_grants, when the run has its turn, its container and its session: one
\* row after the other and each for good.
InsertGrant(r) ==
    /\ run[r].phase = "granting" /\ ~AllGranted(r)
    /\ LET i == run[r].inserted + 1
           row == history_read_grants(r)[i]
       IN /\ grants' = grants \cup {[token |-> Token(r), left |-> GrantTtl,
                                     account |-> row.account, chat |-> row.chat]}
          /\ run' = [run EXCEPT ![r].inserted = i]
          /\ lease' = [lease EXCEPT ![r] = [first |-> IF i = 1 THEN GrantTtl ELSE @.first,
                                            last |-> GrantTtl]]
    /\ UNCHANGED <<age, stored, since_purge, handler>>

\* Mutant: the process does not wait for the grants of its token.
StartClaudeEarly(r) ==
    /\ run[r].phase = "granting"
    /\ run' = [run EXCEPT ![r].phase = "running"]
    /\ UNCHANGED <<age, stored, grants, since_purge, handler, lease>>

\* create_claude_exec with the token in the environment.
StartClaude(r) ==
    /\ run[r].phase = "granting" /\ AllGranted(r)
    /\ run' = [run EXCEPT ![r].phase = "running"]
    /\ UNCHANGED <<age, stored, grants, since_purge, handler, lease>>

\* The session was missing, and should not be: a second attempt with a token of its
\* own.  The first token is not taken back.
Retry(r) ==
    /\ run[r].phase = "running" /\ run[r].attempt = 1 /\ r \in Resumed
    /\ run' = [run EXCEPT ![r].phase = "granting", ![r].attempt = 2, ![r].inserted = 0]
    /\ UNCHANGED <<age, stored, grants, since_purge, handler, lease>>

\* The process ends, or an earlier step of the run fails.
EndRun(r) ==
    /\ run[r].phase \in {"granting", "running"}
    /\ run' = [run EXCEPT ![r] = Over]
    /\ lease' = [lease EXCEPT ![r] = NoLease]
    /\ UNCHANGED <<age, stored, grants, since_purge, handler>>

-----------------------------------------------------------------------------
Less(n) == IF n = 0 THEN 0 ELSE n - 1

Tick ==
    /\ age' = [m \in Messages |-> IF age[m] > Retention THEN age[m] ELSE age[m] + 1]
    /\ grants' = {[g EXCEPT !.left = Less(@)] : g \in grants}
    /\ since_purge' = IF since_purge = CleanupInterval THEN since_purge ELSE since_purge + 1
    /\ lease' = [r \in Triggers |-> [first |-> Less(lease[r].first), last |-> Less(lease[r].last)]]
    /\ UNCHANGED <<stored, handler, run>>

\* agent-runner restarts: it purges at its first webhook.
Restart ==
    /\ handler' = [h \in Handlers |-> Idle]
    /\ run' = [r \in Triggers |-> IF run[r] = NoRun THEN NoRun ELSE Over]
    /\ lease' = [r \in Triggers |-> NoLease]
    /\ since_purge' = CleanupInterval
    /\ UNCHANGED <<age, stored, grants>>

HistoryInit ==
    /\ age = [m \in Messages |-> IF m \in Timeless THEN Retention + 1 ELSE 0]
    /\ stored = Former
    /\ grants = {}
    /\ since_purge = CleanupInterval
    /\ handler = [h \in Handlers |-> Idle]
    /\ run = [r \in Triggers |-> NoRun]
    /\ lease = [r \in Triggers |-> NoLease]

\* Mutant: the run is submitted first, and the message stored when that has been done.
StoresLast(h) ==
    LET m == handler[h].message
    IN \/ PurgeGrants(h) \/ PurgeMessages(h) \/ PurgeFails(h)
       \/ /\ StoreIsFree /\ handler[h].phase = "ingest"
          /\ handler' = [handler EXCEPT ![h].phase = "submit"]
          /\ run' = IF m \in Triggers /\ run[m] = NoRun
                    THEN [run EXCEPT ![m] = Submitted(m \notin Textless)] ELSE run
          /\ UNCHANGED <<age, stored, grants, since_purge, lease>>
       \/ /\ StoreIsFree /\ handler[h].phase = "submit"
          /\ handler' = [handler EXCEPT ![h] = Idle]
          /\ stored' = stored \cup ({m} \ Textless)
          /\ UNCHANGED <<age, grants, since_purge, run, lease>>

HandlerStep(h) ==
    PurgeGrants(h) \/ PurgeMessages(h) \/ PurgeFails(h) \/ Ingest(h) \/ Submit(h)

HistoryNext ==
    \/ \E h \in Handlers, m \in Messages : Receive(h, m)
    \/ \E h \in Handlers : HandlerStep(h)
    \/ \E r \in Triggers :
         InsertGrant(r) \/ StartClaude(r) \/ Retry(r) \/ EndRun(r)
    \/ Tick
    \/ Restart

\* Time passes, messages keep coming, a webhook that is being handled gets on, and
\* a purge that is tried again and again does not fail for ever.
HistoryFairness ==
    /\ WF_vars(Tick)
    /\ WF_vars(\E h \in Handlers, m \in Messages : Receive(h, m))
    /\ \A h \in Handlers :
         WF_vars(HandlerStep(h)) /\ SF_vars(PurgeGrants(h)) /\ SF_vars(PurgeMessages(h))

HistorySpec == HistoryInit /\ [][HistoryNext]_vars /\ HistoryFairness
-----------------------------------------------------------------------------
\* Every variable has its type, and a process runs only when its token has all of
\* its grants.
HistoryTypeOK ==
    /\ age \in [Messages -> 0..(Retention + 1)]
    /\ stored \subseteq Messages \ Textless
    /\ grants \subseteq [token : Tokens, left : 0..GrantTtl,
                         account : ToSet(Accounts) \cup {Account[m] : m \in Messages},
                         chat : {AllChats} \cup {Chat[m] : m \in Messages}]
    /\ since_purge \in 0..CleanupInterval
    /\ handler \in [Handlers -> [phase : Handling, message : Messages \cup {NoMessage},
                             recorded : BOOLEAN]]
    /\ run \in [Triggers -> [phase : Running, attempt : Attempts,
                             inserted : Nat, recorded : BOOLEAN]]
    /\ \A r \in Triggers : run[r].inserted <= Len(history_read_grants(r))
    /\ lease \in [Triggers -> [first : 0..GrantTtl, last : 0..GrantTtl]]
    /\ \A r \in Triggers : run[r].phase = "running" => AllGranted(r)

SameChat(r, m) == Account[m] = Account[r] /\ Chat[m] = Chat[r]

MayRead(r) ==
    {m \in Messages :
        IF r \in AdminPrivate THEN Account[m] \in ToSet(Accounts) \cup {Account[r]}
                              ELSE SameChat(r, m)}

\* Whatever tokens are about, of runs that go on or were given up, none shows its
\* bearer more than its run may read: its own chat, or for an administrator in a
\* private chat the configured accounts.
HistoryScoped == \A t \in Tokens : Visible(t) \subseteq MayRead(t[1])

\* For as long as its token was granted for, a run reads all that is stored of its
\* chat; and its own trigger is there, if it could be stored and is not too old,
\* whichever other webhook purges in between.
RunSeesItsChat ==
    \A r \in Triggers : run[r].phase = "running" /\ lease[r].first > 0 =>
        /\ {m \in stored : SameChat(r, m)} \subseteq Visible(Token(r))
        /\ run[r].recorded /\ age[r] <= Retention => r \in stored

\* A process that goes on for longer reads nothing any more, be it with the token of
\* a first attempt, and whether or not a webhook comes that deletes its grants.
AccessEnds ==
    \A r \in Triggers : run[r].phase = "running" /\ lease[r].last = 0 =>
        \A a \in Attempts : Visible(<<r, a>>) = {}

TooOld == {m \in stored : age[m] > Retention}

\* Messages that are too old are deleted in the end, all that there are at once,
\* although purges fail, restarts interrupt them, and the platform may deliver them
\* once more.
OldMessagesGo == TooOld # {} ~> TooOld = {}
=============================================================================
