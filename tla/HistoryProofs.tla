---------------------------- MODULE HistoryProofs ----------------------------
(***************************************************************************)
(* Proofs about the history, for any number of webhooks and messages, any  *)
(* accounts and any times.                                                 *)
(*                                                                         *)
(* GrantsInv says what the rows of a token allow and when they end.  It    *)
(* follows every row from its insertion to its end, over the attempts of   *)
(* its run and the purges of other webhooks.                               *)
(***************************************************************************)
EXTENDS History, SequenceTheorems, TLAPS

USE DEF Idle, NoLease

-----------------------------------------------------------------------------
(* The rows of a token *)

\* What the constants are, the accounts apart.
LEMMA Constants ==
    /\ AdminPrivate \subseteq Triggers /\ Triggers \subseteq Messages
    /\ Timeless \subseteq Messages /\ Former \subseteq Messages
    /\ Former \cap Textless = {} /\ NoMessage \notin Messages
    /\ \A m \in Messages : Chat[m] # AllChats
    /\ GrantTtl \in Nat \ {0} /\ CleanupInterval \in Nat \ {0} /\ Retention \in Nat
  BY HistoryAssumption

\* The rows for an administrator are those of the account of the run, which comes
\* first, and of configured accounts.
LEMMA AccountsOfAdministrator ==
    ASSUME NEW r \in Triggers
    PROVE  LET accounts == admin_history_platform_accounts(r)
           IN /\ accounts \in Seq(ToSet(Accounts) \cup {Account[r]})
              /\ Len(accounts) >= 1
              /\ accounts[1] = Account[r]
<1> DEFINE S == ToSet(Accounts) \cup {Account[r]}
           others == IF Account[r] \in ToSet(Accounts)
                     THEN RemoveAt(Accounts, PlaceOf(Account[r])) ELSE Accounts
<1>1. /\ Accounts \in Seq(S)
      /\ \A i \in 1..Len(Accounts) : Accounts[i] \in S
      /\ DOMAIN Accounts = 1..Len(Accounts) /\ Len(Accounts) \in Nat
  <2>1. \A i \in 1..Len(Accounts) : Accounts[i] \in S
    BY HistoryAssumption, ElementOfSeq
  <2>. QED  BY <2>1, HistoryAssumption, LenProperties, SeqDef
<1>2. others \in Seq(S)
  <2>1. CASE Account[r] \notin ToSet(Accounts)
    BY <2>1, <1>1
  <2>2. CASE Account[r] \in ToSet(Accounts)
    <3> DEFINE p == PlaceOf(Account[r])
    <3>1. p \in 1..Len(Accounts)
      BY <2>2, <1>1 DEF PlaceOf, ToSet
    <3>2. /\ SubSeq(Accounts, 1, p - 1) \in Seq(S)
          /\ SubSeq(Accounts, p + 1, Len(Accounts)) \in Seq(S)
      BY <3>1, <1>1, SubSeqProperties
    <3>. HIDE DEF p, S
    <3>3. SubSeq(Accounts, 1, p - 1) \o SubSeq(Accounts, p + 1, Len(Accounts)) \in Seq(S)
      BY <3>2, ConcatProperties
    <3>. QED  BY <3>3, <2>2 DEF RemoveAt, p
  <2>. QED  BY <2>1, <2>2
<1>3. <<Account[r]>> \in Seq(S) /\ Len(<<Account[r]>>) = 1 /\ <<Account[r]>>[1] = Account[r]
  OBVIOUS
<1>4. admin_history_platform_accounts(r) = <<Account[r]>> \o others
  BY DEF admin_history_platform_accounts
<1>. HIDE DEF S, others
<1>5. /\ <<Account[r]>> \o others \in Seq(S)
      /\ Len(<<Account[r]>> \o others) = 1 + Len(others)
      /\ (<<Account[r]>> \o others)[1] = Account[r]
  BY <1>2, <1>3, ConcatProperties, LenProperties
<1>. QED  BY <1>2, <1>4, <1>5, LenProperties DEF S

\* A row of a run: for an administrator all of an account that he may read, else the
\* chat of the run.
RowOf(r, row) ==
    IF r \in AdminPrivate
    THEN row.account \in ToSet(Accounts) \cup {Account[r]} /\ row.chat = AllChats
    ELSE row.account = Account[r] /\ row.chat = Chat[r]

\* A run has a row at least; the first is about its own account and chat, and none
\* allows more than the run may read.
LEMMA RowsOfRun ==
    ASSUME NEW r \in Triggers
    PROVE  LET rows == history_read_grants(r)
           IN /\ Len(rows) \in Nat \ {0}
              /\ \A i \in 1..Len(rows) : RowOf(r, rows[i])
              /\ rows[1].account = Account[r]
<1>1. CASE r \notin AdminPrivate
  BY <1>1 DEF history_read_grants, RowOf
<1>2. CASE r \in AdminPrivate
  <2> DEFINE accounts == admin_history_platform_accounts(r)
             rows == [i \in DOMAIN accounts |-> [account |-> accounts[i], chat |-> AllChats]]
  <2>1. /\ accounts \in Seq(ToSet(Accounts) \cup {Account[r]})
        /\ Len(accounts) >= 1 /\ accounts[1] = Account[r]
    BY AccountsOfAdministrator
  <2>2. history_read_grants(r) = rows
    BY <1>2 DEF history_read_grants
  <2>3. /\ DOMAIN accounts = 1..Len(accounts) /\ Len(accounts) \in Nat
        /\ \A i \in 1..Len(accounts) : accounts[i] \in ToSet(Accounts) \cup {Account[r]}
    BY <2>1, LenProperties, ElementOfSeq
  <2>. HIDE DEF accounts
  <2>4. rows \in [1..Len(accounts) -> {[account |-> a, chat |-> AllChats] :
                                       a \in ToSet(Accounts) \cup {Account[r]}}]
    BY <2>3
  <2>5. Len(rows) = Len(accounts)
    BY <2>3, <2>4
  <2>6. \A i \in 1..Len(accounts) :
           rows[i].account = accounts[i] /\ rows[i].chat = AllChats
    BY <2>3
  <2>7. 1 \in 1..Len(accounts)
    BY <2>1, <2>3
  <2>. HIDE DEF rows
  <2>. QED  BY <1>2, <2>1, <2>2, <2>3, <2>5, <2>6, <2>7 DEF RowOf
<1>. QED  BY <1>1, <1>2


-----------------------------------------------------------------------------
(* Type correctness *)

USE Constants

RunStates == [phase : Running, attempt : Attempts, inserted : Nat, recorded : BOOLEAN]

\* The phases of a run and its attempts.
LEMMA RunPhases ==
    /\ {"none", "granting", "running", "ended"} = Running /\ {1, 2} = Attempts
  BY DEF Running, Attempts

\* A run that is not there, that is submitted, that is over: it has no grants yet.
LEMMA NewRuns ==
    /\ NoRun \in RunStates /\ NoRun.phase = "none" /\ NoRun.inserted = 0 /\ ~NoRun.recorded
    /\ Over \in RunStates /\ Over.phase = "ended" /\ Over.inserted = 0 /\ ~Over.recorded
    /\ \A done \in BOOLEAN :
         /\ Submitted(done) \in RunStates /\ Submitted(done).phase = "granting"
         /\ Submitted(done).inserted = 0 /\ Submitted(done).recorded = done
<1>1. /\ NoRun \in RunStates /\ NoRun.phase = "none" /\ NoRun.inserted = 0
      /\ NoRun.recorded = FALSE
  BY DEF NoRun, RunStates, Running, Attempts
<1>. QED  BY <1>1, RunPhases DEF Over, Submitted, RunStates

HandlerStates ==
    [phase : Handling, message : Messages \cup {NoMessage}, recorded : BOOLEAN]

StoreTypes ==
    /\ age \in [Messages -> 0..(Retention + 1)]
    /\ stored \subseteq Messages \ Textless
    /\ since_purge \in 0..CleanupInterval
    /\ handler \in [Handlers -> HandlerStates]
    /\ \A h \in Handlers : handler[h].phase # "idle" => handler[h].message \in Messages

GrantRows ==
    [token : Tokens, left : 0..GrantTtl,
     account : ToSet(Accounts) \cup {Account[m] : m \in Messages},
     chat : {AllChats} \cup {Chat[m] : m \in Messages}]

RunTypes ==
    /\ run \in [Triggers -> RunStates]
    /\ lease \in [Triggers -> [first : 0..GrantTtl, last : 0..GrantTtl]]
    /\ \A r \in Triggers : /\ run[r].inserted <= Len(history_read_grants(r))
                           /\ run[r].phase = "running" => AllGranted(r)

TypeInv == StoreTypes /\ grants \subseteq GrantRows /\ RunTypes

\* The types hold at the start.
LEMMA InitType == HistoryInit => TypeInv
<1> SUFFICES ASSUME HistoryInit PROVE TypeInv
  OBVIOUS
<1>1. \A r \in Triggers : run[r].inserted <= Len(history_read_grants(r))
  BY RowsOfRun, NewRuns DEF HistoryInit
<1>2. age \in [Messages -> 0..(Retention + 1)]
  BY DEF HistoryInit
<1>3. RunTypes
  BY <1>1, NewRuns DEF HistoryInit, RunTypes
<1>4. Idle \in HandlerStates
  BY DEF HandlerStates, Handling
<1>. HIDE DEF Idle
<1>5. /\ handler \in [Handlers -> HandlerStates]
      /\ \A h \in Handlers : handler[h].phase # "idle" => handler[h].message \in Messages
  <2>1. Idle.phase = "idle"
    BY DEF Idle
  <2>. QED  BY <1>4, <2>1 DEF HistoryInit
<1>. QED  BY <1>2, <1>3, <1>5 DEF HistoryInit, TypeInv, StoreTypes

\* The store and the webhooks keep their types.
LEMMA NextStoreTypes == StoreTypes /\ [HistoryNext]_vars => StoreTypes'
<1> SUFFICES ASSUME StoreTypes, [HistoryNext]_vars PROVE StoreTypes'
  OBVIOUS
<1>. USE DEF StoreTypes, Handling
<1>. USE DEF HandlerStates
<1>1. ASSUME NEW h \in Handlers, NEW m \in Messages, Receive(h, m) PROVE StoreTypes'
  <2>1. PICK p \in {"purge_grants", "ingest"} :
              handler' = [handler EXCEPT ![h] = [Idle EXCEPT !.phase = p, !.message = m]]
    BY <1>1 DEF Receive
  <2>3. Idle \in HandlerStates
    BY DEF HandlerStates
  <2>. HIDE DEF Idle
  <2>4. /\ [Idle EXCEPT !.phase = p, !.message = m] \in HandlerStates
        /\ [Idle EXCEPT !.phase = p, !.message = m].message = m
    BY <2>3 DEF HandlerStates
  <2>2. since_purge' \in 0..CleanupInterval
    BY <1>1 DEF Receive
  <2>. QED  BY <1>1, <2>1, <2>2, <2>4 DEF Receive
<1>2. ASSUME NEW h \in Handlers, PurgeGrants(h) PROVE StoreTypes'
  BY <1>2 DEF PurgeGrants
<1>3. ASSUME NEW h \in Handlers, PurgeMessages(h) PROVE StoreTypes'
  BY <1>3 DEF PurgeMessages
<1>4. ASSUME NEW h \in Handlers, PurgeFails(h) PROVE StoreTypes'
  BY <1>4 DEF PurgeFails
<1>5. ASSUME NEW h \in Handlers, Ingest(h) PROVE StoreTypes'
  <2>1. PICK done \in BOOLEAN :
          /\ done => handler[h].message \notin Textless
          /\ stored' = IF done THEN stored \cup {handler[h].message} ELSE stored
          /\ handler' = [handler EXCEPT ![h].phase = "submit", ![h].recorded = done]
    BY <1>5 DEF Ingest
  <2>2. handler[h].message \in Messages /\ UNCHANGED <<age, since_purge>>
    BY <1>5 DEF Ingest
  <2>3. handler' \in [Handlers -> HandlerStates]
    <3> DEFINE new == [handler[h] EXCEPT !.phase = "submit", !.recorded = done]
    <3>1. new \in HandlerStates
      OBVIOUS
    <3>2. handler' = [handler EXCEPT ![h] = new]
      BY <2>1
    <3>. HIDE DEF new, HandlerStates
    <3>. QED  BY <3>1, <3>2
  <2>4. \A g \in Handlers : handler'[g].phase # "idle" => handler'[g].message \in Messages
    BY <2>1, <2>2
  <2>5. stored' \subseteq Messages \ Textless
    BY <2>1, <2>2
  <2>. QED  BY <2>2, <2>3, <2>4, <2>5
<1>10. ASSUME NEW h \in Handlers, Submit(h) PROVE StoreTypes'
  BY <1>10 DEF Submit
<1>6. ASSUME NEW r \in Triggers, InsertGrant(r) \/ StartClaude(r) \/ Retry(r) \/ EndRun(r)
      PROVE  StoreTypes'
  BY <1>6 DEF InsertGrant, StartClaude, Retry, EndRun
<1>7. CASE Tick
  <2>1. age' \in [Messages -> 0..(Retention + 1)]
    BY <1>7 DEF Tick
  <2>2. since_purge' \in 0..CleanupInterval
    <3>1. since_purge' = IF since_purge = CleanupInterval THEN since_purge ELSE since_purge + 1
      BY <1>7 DEF Tick
    <3>2. since_purge \in 0..CleanupInterval /\ CleanupInterval \in Nat
      OBVIOUS
    <3>. QED  BY ONLY <3>1, <3>2
  <2>. QED  BY <1>7, <2>1, <2>2 DEF Tick
<1>8. CASE Restart
  BY <1>8 DEF Restart
<1>9. CASE UNCHANGED vars
  BY <1>9 DEF vars
<1>. QED  BY <1>1, <1>2, <1>3, <1>4, <1>5, <1>6, <1>7, <1>8, <1>9, <1>10 DEF HistoryNext, HandlerStep

\* The row that a step of a run inserts is one of the run's.
LEMMA NextRow ==
    ASSUME RunTypes, NEW r \in Triggers, InsertGrant(r)
    PROVE  LET i == run[r].inserted + 1
               row == history_read_grants(r)[i]
           IN /\ i \in 1..Len(history_read_grants(r))
              /\ RowOf(r, row)
<1>1. run[r].inserted + 1 \in 1..Len(history_read_grants(r))
  <2>1. run[r].inserted \in Nat
    BY DEF RunTypes, RunStates
  <2>. QED  BY <2>1, RowsOfRun DEF InsertGrant, RunTypes, AllGranted
<1>. QED  BY <1>1, RowsOfRun

\* The rows of the grants keep their types.
LEMMA NextGrantTypes ==
    RunTypes /\ grants \subseteq GrantRows /\ [HistoryNext]_vars => grants' \subseteq GrantRows
<1> SUFFICES ASSUME RunTypes, grants \subseteq GrantRows, [HistoryNext]_vars
             PROVE  grants' \subseteq GrantRows
  OBVIOUS
<1>1. ASSUME NEW r \in Triggers, InsertGrant(r) PROVE grants' \subseteq GrantRows
  <2> DEFINE row == history_read_grants(r)[run[r].inserted + 1]
             new == [token |-> Token(r), left |-> GrantTtl,
                     account |-> row.account, chat |-> row.chat]
  <2>1. RowOf(r, row)
    BY <1>1, NextRow
  <2>2. /\ row.account \in ToSet(Accounts) \cup {Account[m] : m \in Messages}
        /\ row.chat \in {AllChats} \cup {Chat[m] : m \in Messages}
    BY <2>1 DEF RowOf
  <2>3. Token(r) \in Tokens
    BY DEF RunTypes, RunStates, Token, Tokens
  <2>4. grants' = grants \cup {new}
    BY <1>1 DEF InsertGrant
  <2>. HIDE DEF row
  <2>5. new \in GrantRows
    BY <2>2, <2>3 DEF GrantRows
  <2>. QED  BY <2>4, <2>5
<1>2. CASE Tick
  <2>1. \A n \in 0..GrantTtl : Less(n) \in 0..GrantTtl
    BY DEF Less
  <2>2. \A g \in GrantRows : [g EXCEPT !.left = Less(@)] \in GrantRows
    BY <2>1 DEF GrantRows
  <2>. QED  BY <1>2, <2>2 DEF Tick
<1>3. ASSUME NEW h \in Handlers, NEW m \in Messages, Receive(h, m)
      PROVE  grants' \subseteq GrantRows
  BY <1>3 DEF Receive
<1>4. ASSUME NEW h \in Handlers, HandlerStep(h) PROVE grants' \subseteq GrantRows
  BY <1>4 DEF HandlerStep, PurgeGrants, PurgeMessages, PurgeFails, Ingest, Submit
<1>5. ASSUME NEW r \in Triggers, StartClaude(r) \/ Retry(r) \/ EndRun(r)
      PROVE  grants' \subseteq GrantRows
  BY <1>5 DEF StartClaude, Retry, EndRun
<1>6. CASE Restart \/ UNCHANGED vars
  BY <1>6 DEF Restart, vars
<1>. QED  BY <1>1, <1>2, <1>3, <1>4, <1>5, <1>6 DEF HistoryNext

\* A run that changes keeps the types if what becomes of it has them.
LEMMA ChangedRunTypes ==
    ASSUME RunTypes, NEW r \in Triggers, NEW changed \in RunStates,
           changed.inserted <= Len(history_read_grants(r)),
           changed.phase = "running" => changed.inserted = Len(history_read_grants(r)),
           run' = [run EXCEPT ![r] = changed],
           lease' \in [Triggers -> [first : 0..GrantTtl, last : 0..GrantTtl]]
    PROVE  RunTypes'
<1>1. run' \in [Triggers -> RunStates]
  BY DEF RunTypes
<1>2. \A q \in Triggers : run'[q] = IF q = r THEN changed ELSE run[q]
  BY DEF RunTypes
<1>3. ASSUME NEW q \in Triggers
      PROVE  /\ run'[q].inserted <= Len(history_read_grants(q))
             /\ run'[q].phase = "running" => run'[q].inserted = Len(history_read_grants(q))
  BY <1>2 DEF RunTypes, AllGranted
<1>. QED  BY <1>1, <1>3 DEF RunTypes, AllGranted

\* What a step makes of the run of a trigger keeps its type.
LEMMA NextRunTypes == StoreTypes /\ RunTypes /\ [HistoryNext]_vars => RunTypes'
<1> SUFFICES ASSUME StoreTypes, RunTypes, [HistoryNext]_vars PROVE RunTypes'
  OBVIOUS
<1>1. \A r \in Triggers : Len(history_read_grants(r)) \in Nat \ {0}
  BY RowsOfRun
<1>2. ASSUME NEW r \in Triggers, InsertGrant(r) PROVE RunTypes'
  <2> DEFINE changed == [run[r] EXCEPT !.inserted = @ + 1]
  <2>1. run[r].inserted + 1 \in 1..Len(history_read_grants(r)) /\ run[r].phase = "granting"
    BY <1>2, NextRow DEF InsertGrant
  <2>2. run' = [run EXCEPT ![r] = changed]
    BY <1>2 DEF InsertGrant, RunTypes, RunStates
  <2>3. lease' \in [Triggers -> [first : 0..GrantTtl, last : 0..GrantTtl]]
    BY <1>2 DEF InsertGrant, RunTypes
  <2>4. /\ changed \in RunStates
        /\ changed.inserted = run[r].inserted + 1 /\ changed.phase = "granting"
    <3>1. run[r] \in RunStates
      BY DEF RunTypes
    <3>. QED  BY <2>1, <3>1, RunPhases DEF RunStates
  <2>5. changed.inserted <= Len(history_read_grants(r)) /\ changed.phase # "running"
    BY <1>1, <2>1, <2>4
  <2>. HIDE DEF changed
  <2>. QED  BY <2>2, <2>3, <2>4, <2>5, ChangedRunTypes
<1>3. ASSUME NEW r \in Triggers, StartClaude(r) PROVE RunTypes'
  <2> DEFINE changed == [run[r] EXCEPT !.phase = "running"]
  <2>1. run' = [run EXCEPT ![r] = changed] /\ UNCHANGED lease
    BY <1>3 DEF StartClaude, RunTypes, RunStates
  <2>2. changed \in RunStates /\ changed.inserted = run[r].inserted
    <3>1. run[r] \in RunStates
      BY DEF RunTypes
    <3>. QED  BY <3>1, RunPhases DEF RunStates
  <2>3. changed.inserted = Len(history_read_grants(r))
    BY <1>3, <2>2 DEF StartClaude, AllGranted
  <2>4. changed.inserted <= Len(history_read_grants(r))
    BY <1>1, <2>3
  <2>. HIDE DEF changed
  <2>. QED  BY <2>1, <2>2, <2>3, <2>4, ChangedRunTypes DEF RunTypes
<1>4. ASSUME NEW r \in Triggers, Retry(r) PROVE RunTypes'
  <2> DEFINE changed == [run[r] EXCEPT !.phase = "granting", !.attempt = 2, !.inserted = 0]
  <2>1. run' = [run EXCEPT ![r] = changed] /\ UNCHANGED lease
    BY <1>4 DEF Retry, RunTypes, RunStates
  <2>2. changed \in RunStates /\ changed.inserted = 0 /\ changed.phase = "granting"
    <3>1. run[r] \in RunStates
      BY DEF RunTypes
    <3>. QED  BY <3>1, RunPhases DEF RunStates
  <2>3. changed.inserted <= Len(history_read_grants(r))
    BY <1>1, <2>2
  <2>. HIDE DEF changed
  <2>. QED  BY <2>1, <2>2, <2>3, ChangedRunTypes DEF RunTypes
<1>5. ASSUME NEW r \in Triggers, EndRun(r) PROVE RunTypes'
  <2>1. run' = [run EXCEPT ![r] = Over]
    BY <1>5 DEF EndRun
  <2>2. lease' \in [Triggers -> [first : 0..GrantTtl, last : 0..GrantTtl]]
    BY <1>5 DEF EndRun, RunTypes
  <2>4. Over.inserted <= Len(history_read_grants(r))
    BY <1>1, NewRuns
  <2>. QED  BY <2>1, <2>2, <2>4, NewRuns, ChangedRunTypes
<1>6. ASSUME NEW h \in Handlers, Submit(h) PROVE RunTypes'
  <2>1. \/ UNCHANGED run
        \/ \E m \in Triggers, done \in BOOLEAN : run' = [run EXCEPT ![m] = Submitted(done)]
    <3>1. handler[h].recorded \in BOOLEAN
      BY DEF StoreTypes, HandlerStates
    <3>. QED  BY <1>6, <3>1 DEF Submit
  <2>2. UNCHANGED lease
    BY <1>6 DEF Submit
  <2>3. ASSUME NEW m \in Triggers, NEW done \in BOOLEAN,
               run' = [run EXCEPT ![m] = Submitted(done)]
        PROVE  RunTypes'
    <3>1. Submitted(done).inserted <= Len(history_read_grants(m))
      BY <1>1, NewRuns
    <3>. QED  BY <2>2, <2>3, <3>1, NewRuns, ChangedRunTypes DEF RunTypes
  <2>. QED  BY <2>1, <2>2, <2>3 DEF RunTypes, AllGranted
<1>7. CASE Tick
  <2>1. \A n \in 0..GrantTtl : Less(n) \in 0..GrantTtl
    BY DEF Less
  <2>2. lease' \in [Triggers -> [first : 0..GrantTtl, last : 0..GrantTtl]]
    BY <1>7, <2>1 DEF Tick, RunTypes
  <2>. QED  BY <1>7, <2>2 DEF Tick, RunTypes, AllGranted
<1>8. CASE Restart
  <2>1. /\ \A r \in Triggers : run'[r] \in {NoRun, Over}
        /\ run' = [r \in Triggers |-> run'[r]]
    BY <1>8 DEF Restart
  <2>4. lease' \in [Triggers -> [first : 0..GrantTtl, last : 0..GrantTtl]]
    BY <1>8 DEF Restart
  <2>5. run' \in [Triggers -> RunStates]
    BY <2>1, NewRuns
  <2>6. \A r \in Triggers : run'[r].inserted = 0 /\ run'[r].phase # "running"
    BY <2>1, NewRuns
  <2>7. \A r \in Triggers : run'[r].inserted <= Len(history_read_grants(r))
    BY <1>1, <2>6
  <2>. QED  BY <2>4, <2>5, <2>6, <2>7 DEF RunTypes, AllGranted
<1>9. ASSUME NEW h \in Handlers, NEW m \in Messages, Receive(h, m) PROVE RunTypes'
  BY <1>9 DEF Receive, RunTypes, AllGranted
<1>10. ASSUME NEW h \in Handlers,
              PurgeGrants(h) \/ PurgeMessages(h) \/ PurgeFails(h) \/ Ingest(h)
       PROVE  RunTypes'
  BY <1>10 DEF PurgeGrants, PurgeMessages, PurgeFails, Ingest, RunTypes, AllGranted
<1>11. CASE UNCHANGED vars
  BY <1>11 DEF vars, RunTypes, AllGranted
<1>. QED  BY <1>2, <1>3, <1>4, <1>5, <1>6, <1>7, <1>8, <1>9, <1>10, <1>11 DEF HistoryNext, HandlerStep

\* Every step keeps the types.
LEMMA NextType == TypeInv /\ [HistoryNext]_vars => TypeInv'
  BY NextStoreTypes, NextGrantTypes, NextRunTypes DEF TypeInv, GrantRows

\* Every reachable state of the store, its grants, the webhooks and the runs has its
\* type, and no process runs before its token has all of its grants.
THEOREM HistoryTypeCorrect == HistorySpec => []HistoryTypeOK
<1>1. TypeInv => HistoryTypeOK
  BY DEF TypeInv, StoreTypes, GrantRows, RunTypes, RunStates, HandlerStates, HistoryTypeOK
<1>. QED  BY <1>1, InitType, NextType, PTL DEF HistorySpec


-----------------------------------------------------------------------------
(* What a token shows *)

ScopeInv == \A g \in grants : RowOf(g.token[1], g)

\* Every row in the table is one of those that its run had inserted.
LEMMA NextScope == TypeInv /\ ScopeInv /\ [HistoryNext]_vars => ScopeInv'
<1> SUFFICES ASSUME TypeInv, ScopeInv, [HistoryNext]_vars PROVE ScopeInv'
  OBVIOUS
<1>1. ASSUME NEW r \in Triggers, InsertGrant(r) PROVE ScopeInv'
  <2> DEFINE row == history_read_grants(r)[run[r].inserted + 1]
             new == [token |-> Token(r), left |-> GrantTtl,
                     account |-> row.account, chat |-> row.chat]
  <2>1. RowOf(r, row)
    BY <1>1, NextRow DEF TypeInv
  <2>2. grants' = grants \cup {new}
    BY <1>1 DEF InsertGrant
  <2>3. RowOf(new.token[1], new)
    BY <2>1 DEF RowOf, Token
  <2>. QED  BY <2>2, <2>3 DEF ScopeInv
<1>2. CASE Tick
  <2>1. \A g \in GrantRows : RowOf(g.token[1], g) =>
           RowOf([g EXCEPT !.left = Less(@)].token[1], [g EXCEPT !.left = Less(@)])
    BY DEF RowOf, GrantRows
  <2>. QED  BY <1>2, <2>1 DEF Tick, ScopeInv, TypeInv
<1>3. ASSUME NEW h \in Handlers, NEW m \in Messages, Receive(h, m) PROVE ScopeInv'
  BY <1>3 DEF Receive, ScopeInv
<1>4. ASSUME NEW h \in Handlers, HandlerStep(h) PROVE ScopeInv'
  BY <1>4 DEF HandlerStep, PurgeGrants, PurgeMessages, PurgeFails, Ingest, Submit, ScopeInv
<1>5. ASSUME NEW r \in Triggers, StartClaude(r) \/ Retry(r) \/ EndRun(r) PROVE ScopeInv'
  BY <1>5 DEF StartClaude, Retry, EndRun, ScopeInv
<1>6. CASE Restart \/ UNCHANGED vars
  BY <1>6 DEF Restart, vars, ScopeInv
<1>. QED  BY <1>1, <1>2, <1>3, <1>4, <1>5, <1>6 DEF HistoryNext

\* The types and what the rows say hold in every reachable state.
LEMMA ScopeHolds == HistorySpec => [](TypeInv /\ ScopeInv)
<1>1. HistoryInit => TypeInv /\ ScopeInv
  BY InitType DEF HistoryInit, ScopeInv
<1>. QED  BY <1>1, NextType, NextScope, PTL DEF HistorySpec

\* No token, of a run that goes on or one that was given up, ever shows its bearer
\* a message that its run may not read.
THEOREM NothingBeyondTheScope == HistorySpec => []HistoryScoped
<1>1. TypeInv /\ ScopeInv => HistoryScoped
  <2> SUFFICES ASSUME TypeInv, ScopeInv, NEW t \in Tokens, NEW m \in Visible(t)
               PROVE  m \in MayRead(t[1])
    BY DEF HistoryScoped
  <2>1. PICK g \in grants : /\ g.token = t /\ g.account = Account[m]
                            /\ g.chat \in {AllChats, Chat[m]}
    BY DEF Visible, dogbot_can_read_history_row
  <2>2. m \in Messages /\ t[1] \in Messages
    BY DEF Visible, TypeInv, StoreTypes, Tokens
  <2>3. RowOf(t[1], g)
    BY <2>1 DEF ScopeInv
  <2>. QED  BY <2>1, <2>2, <2>3 DEF RowOf, MayRead, SameChat
<1>. QED  BY <1>1, ScopeHolds, PTL

-----------------------------------------------------------------------------
(* For how long *)

Working == {"granting", "running"}

\* The row for the chat of the run: it ends with the lease of the first.
OwnRow(r, g) ==
    /\ g.token = <<r, run[r].attempt>> /\ g.left = lease[r].first
    /\ g.account = Account[r] /\ g.chat \in {AllChats, Chat[r]}

NoEarlyRow(r) == run[r].phase = "none" => \A g \in grants : g.token[1] # r

RowsEndInTime(r) ==
    run[r].phase \in Working => \A g \in grants : g.token[1] = r => g.left <= lease[r].last

HasOwnRow(r) ==
    run[r].phase \in Working /\ run[r].inserted > 0 /\ lease[r].first > 0 =>
        \E g \in grants : OwnRow(r, g)

IsRecorded(r) == run[r].recorded /\ age[r] <= Retention => r \in stored

Rights(r) == NoEarlyRow(r) /\ RowsEndInTime(r) /\ HasOwnRow(r) /\ IsRecorded(r)

RightsInv == \A r \in Triggers : Rights(r)

\* What a webhook has stored is there when it submits the run, if it is not too old.
HandedOn ==
    \A h \in Handlers : LET m == handler[h].message
                         IN handler[h].phase = "submit" /\ handler[h].recorded /\ age[m] <= Retention
                              => m \in stored

\* A message gets older and never younger.
LEMMA OnlyOlder ==
    ASSUME TypeInv, [HistoryNext]_vars, NEW m \in Messages
    PROVE  age'[m] <= Retention => age[m] <= Retention
<1>1. age[m] \in Nat
  BY DEF TypeInv, StoreTypes
<1>2. age'[m] = age[m] \/ age'[m] = age[m] + 1
  <2>1. CASE Tick
    BY <2>1 DEF Tick, TypeInv, StoreTypes
  <2>2. CASE ~Tick
    BY <2>2 DEF HistoryNext, vars, Receive, HandlerStep, PurgeGrants, PurgeMessages, PurgeFails,
                Ingest, Submit, InsertGrant, StartClaude, Retry, EndRun, Restart
  <2>. QED  BY <2>1, <2>2
<1>. QED  BY <1>1, <1>2

\* No step between storing and submitting takes the message away.
LEMMA NextHandedOn == TypeInv /\ HandedOn /\ [HistoryNext]_vars => HandedOn'
<1> SUFFICES ASSUME TypeInv, HandedOn, [HistoryNext]_vars,
                    NEW h \in Handlers, handler'[h].phase = "submit", handler'[h].recorded,
                    age'[handler'[h].message] <= Retention
             PROVE  handler'[h].message \in stored'
  BY DEF HandedOn
<1>1. /\ handler \in [Handlers -> HandlerStates]
      /\ \A g \in Handlers : handler[g].phase # "idle" => handler[g].message \in Messages
  BY DEF TypeInv, StoreTypes
<1>2. CASE Ingest(h)
  <2>1. PICK done \in BOOLEAN :
          /\ stored' = IF done THEN stored \cup {handler[h].message} ELSE stored
          /\ handler' = [handler EXCEPT ![h].phase = "submit", ![h].recorded = done]
    BY <1>2 DEF Ingest
  <2>2. handler'[h].recorded = done /\ handler'[h].message = handler[h].message
    BY <1>1, <2>1 DEF HandlerStates
  <2>. QED  BY <2>1, <2>2
<1>3. CASE ~Ingest(h)
  <2>1. handler'[h] = handler[h]
    <3>1. \/ handler'[h] = handler[h]
          \/ handler'[h] = Idle
          \/ \E m \in Messages : Receive(h, m)
          \/ PurgeGrants(h) \/ PurgeMessages(h) \/ PurgeFails(h)
      BY <1>1, <1>3 DEF HistoryNext, vars, Receive, HandlerStep, PurgeGrants, PurgeMessages,
         PurgeFails, Ingest, Submit, InsertGrant, StartClaude, Retry, EndRun, Tick, Restart
    <3>2. Idle.phase # "submit"
      OBVIOUS
    <3>3. \A m \in Messages : Receive(h, m) => handler'[h].phase # "submit"
      BY <1>1 DEF Receive, HandlerStates
    <3>4. PurgeGrants(h) \/ PurgeMessages(h) \/ PurgeFails(h) => handler'[h].phase # "submit"
      BY <1>1 DEF PurgeGrants, PurgeMessages, PurgeFails, HandlerStates
    <3>. QED  BY <3>1, <3>2, <3>3, <3>4
  <2> DEFINE m == handler[h].message
  <2>2. m \in Messages
    BY <1>1, <2>1
  <2>3. age[m] <= Retention /\ m \in stored
    BY <2>1, <2>2, OnlyOlder DEF HandedOn
  <2>. HIDE DEF m
  <2>4. m \in stored'
    BY <2>3 DEF HistoryNext, vars, Receive, HandlerStep, PurgeGrants, PurgeMessages, PurgeFails,
                Ingest, Submit, InsertGrant, StartClaude, Retry, EndRun, Tick, Restart
  <2>. QED  BY <2>1, <2>4 DEF m
<1>. QED  BY <1>2, <1>3

\* A step of another run inserts no row for this one.
LEMMA RightsBesideRun ==
    ASSUME TypeInv, NEW r \in Triggers, Rights(r), NEW q \in Triggers, q # r,
           InsertGrant(q) \/ StartClaude(q) \/ Retry(q) \/ EndRun(q)
    PROVE  Rights(r)'
<1>1. UNCHANGED <<age, stored, run[r], lease[r]>>
  BY DEF InsertGrant, StartClaude, Retry, EndRun, TypeInv, RunTypes
<1>2. \/ UNCHANGED grants
      \/ \E g : g.token = Token(q) /\ grants' = grants \cup {g}
  BY DEF InsertGrant, StartClaude, Retry, EndRun
<1>3. /\ grants \subseteq grants'
      /\ \A g \in grants' : g.token[1] = r => g \in grants
  BY <1>2 DEF Token
<1>4. NoEarlyRow(r)' /\ RowsEndInTime(r)' /\ IsRecorded(r)'
  BY <1>1, <1>3 DEF Rights, NoEarlyRow, RowsEndInTime, IsRecorded
<1>5. HasOwnRow(r)'
  BY <1>1, <1>3 DEF Rights, HasOwnRow, OwnRow
<1>. QED  BY <1>4, <1>5 DEF Rights

\* The row that a run inserts lasts as long as its lease, and the first is its own.
LEMMA RightsOfInsert ==
    ASSUME TypeInv, NEW r \in Triggers, Rights(r), InsertGrant(r)
    PROVE  Rights(r)'
<1> DEFINE i == run[r].inserted + 1
           row == history_read_grants(r)[i]
           new == [token |-> Token(r), left |-> GrantTtl,
                   account |-> row.account, chat |-> row.chat]
<1>1. i \in 1..Len(history_read_grants(r)) /\ RowOf(r, row)
  BY NextRow DEF TypeInv
<1>2. i = 1 => row.account = Account[r]
  BY RowsOfRun
<1>3. run[r] \in RunStates /\ run[r].phase = "granting"
  BY DEF TypeInv, RunTypes, InsertGrant
<1>4. /\ grants' = grants \cup {new}
      /\ UNCHANGED <<age, stored>>
  BY DEF InsertGrant
<1>5. /\ run'[r].phase = "granting" /\ run'[r].inserted = i
      /\ run'[r].attempt = run[r].attempt /\ run'[r].recorded = run[r].recorded
  BY <1>3 DEF InsertGrant, TypeInv, RunTypes, RunStates
<1>6. /\ lease'[r].last = GrantTtl
      /\ lease'[r].first = IF i = 1 THEN GrantTtl ELSE lease[r].first
  BY DEF InsertGrant, TypeInv, RunTypes
<1>7. run[r].inserted \in Nat
  BY <1>3 DEF RunStates
<1>8. \A g \in grants' : g.left <= GrantTtl
  BY <1>4 DEF TypeInv, GrantRows
<1>9. NoEarlyRow(r)' /\ RowsEndInTime(r)' /\ IsRecorded(r)'
  BY <1>4, <1>5, <1>6, <1>8 DEF Rights, NoEarlyRow, RowsEndInTime, IsRecorded
<1>. HIDE DEF row
<1>10. CASE i = 1
  <2>1. PICK g \in grants' : g = new
    BY <1>4
  <2>2. OwnRow(r, g)'
    BY <1>1, <1>2, <1>5, <1>6, <1>10, <2>1 DEF OwnRow, RowOf, Token
  <2>3. HasOwnRow(r)'
    BY <2>2 DEF HasOwnRow
  <2>. QED  BY <1>9, <2>3 DEF Rights
<1>11. CASE i # 1
  <2>1. run[r].inserted > 0 /\ lease'[r].first = lease[r].first
    BY <1>6, <1>7, <1>11
  <2>2. HasOwnRow(r)'
    BY <1>3, <1>4, <1>5, <2>1 DEF Rights, HasOwnRow, OwnRow, Working
  <2>. QED  BY <1>9, <2>2 DEF Rights
<1>. QED  BY <1>10, <1>11

\* The other steps of a run insert nothing: it goes on with its rows, or starts
\* again without any, or is over.
LEMMA RightsOfRun ==
    ASSUME TypeInv, NEW r \in Triggers, Rights(r), StartClaude(r) \/ Retry(r) \/ EndRun(r)
    PROVE  Rights(r)'
<1>1. run[r] \in RunStates /\ UNCHANGED <<grants, age, stored>>
  BY DEF TypeInv, RunTypes, StartClaude, Retry, EndRun
<1>2. CASE StartClaude(r)
  <2>1. /\ run[r].phase = "granting" /\ run'[r].phase = "running"
        /\ run'[r].inserted = run[r].inserted
        /\ run'[r].attempt = run[r].attempt /\ run'[r].recorded = run[r].recorded
        /\ UNCHANGED lease
    BY <1>1, <1>2 DEF StartClaude, TypeInv, RunTypes, RunStates
  <2>2. NoEarlyRow(r)' /\ RowsEndInTime(r)' /\ IsRecorded(r)'
    BY <1>1, <2>1 DEF Rights, NoEarlyRow, RowsEndInTime, IsRecorded, Working
  <2>3. HasOwnRow(r)'
    BY <1>1, <2>1 DEF Rights, HasOwnRow, OwnRow, Working
  <2>. QED  BY <2>2, <2>3 DEF Rights
<1>3. CASE Retry(r)
  <2>1. /\ run[r].phase = "running" /\ run'[r].phase = "granting"
        /\ run'[r].inserted = 0 /\ run'[r].recorded = run[r].recorded
        /\ UNCHANGED lease
    BY <1>1, <1>3 DEF Retry, TypeInv, RunTypes, RunStates
  <2>. QED
    BY <1>1, <2>1 DEF Rights, NoEarlyRow, RowsEndInTime, HasOwnRow, IsRecorded, Working
<1>4. CASE EndRun(r)
  <2>1. run'[r].phase = "ended" /\ ~run'[r].recorded
    BY <1>4, NewRuns DEF EndRun, TypeInv, RunTypes
  <2>. QED
    BY <2>1 DEF Rights, NoEarlyRow, RowsEndInTime, HasOwnRow, IsRecorded, Working
<1>. QED  BY <1>2, <1>3, <1>4

\* A webhook deletes what has ended and messages that are too old, and the run that
\* it submits has no rows yet.
LEMMA RightsBesideWebhook ==
    ASSUME TypeInv, HandedOn, NEW r \in Triggers, Rights(r), NEW h \in Handlers,
           (\E m \in Messages : Receive(h, m)) \/ HandlerStep(h)
    PROVE  Rights(r)'
<1>1. CASE (\E m \in Messages : Receive(h, m)) \/ PurgeFails(h)
  <2>1. UNCHANGED <<age, stored, grants, run, lease>>
    BY <1>1 DEF Receive, PurgeFails
  <2>. QED
    BY <2>1 DEF Rights, NoEarlyRow, RowsEndInTime, HasOwnRow, OwnRow, IsRecorded
<1>2. CASE PurgeGrants(h)
  <2>1. grants' = {g \in grants : g.left > 0} /\ UNCHANGED <<age, stored, run, lease>>
    BY <1>2 DEF PurgeGrants
  <2>2. NoEarlyRow(r)' /\ RowsEndInTime(r)' /\ IsRecorded(r)'
    BY <2>1 DEF Rights, NoEarlyRow, RowsEndInTime, IsRecorded
  <2>3. HasOwnRow(r)'
    BY <2>1 DEF Rights, HasOwnRow, OwnRow
  <2>. QED  BY <2>2, <2>3 DEF Rights
<1>3. CASE PurgeMessages(h)
  <2>1. stored' = {m \in stored : age[m] <= Retention} /\ UNCHANGED <<age, grants, run, lease>>
    BY <1>3 DEF PurgeMessages
  <2>. QED
    BY <2>1 DEF Rights, NoEarlyRow, RowsEndInTime, HasOwnRow, OwnRow, IsRecorded
<1>4. CASE Ingest(h)
  <2>1. stored \subseteq stored' /\ UNCHANGED <<age, grants, run, lease>>
    BY <1>4 DEF Ingest
  <2>. QED
    BY <2>1 DEF Rights, NoEarlyRow, RowsEndInTime, HasOwnRow, OwnRow, IsRecorded
<1>5. CASE Submit(h)
  <2>1. UNCHANGED <<age, stored, grants, lease>>
    BY <1>5 DEF Submit
  <2>2. CASE UNCHANGED run
    BY <2>1, <2>2 DEF Rights, NoEarlyRow, RowsEndInTime, HasOwnRow, OwnRow, IsRecorded
  <2>3. CASE ~UNCHANGED run
    <3>1. PICK m \in Triggers, done \in BOOLEAN :
              /\ run[m] = NoRun /\ run' = [run EXCEPT ![m] = Submitted(done)]
              /\ done /\ age[m] <= Retention => m \in stored
      <4>1. handler[h].recorded \in BOOLEAN
        BY DEF TypeInv, StoreTypes, HandlerStates
      <4>. QED  BY <1>5, <2>3, <4>1 DEF Submit, HandedOn
    <3>2. CASE m # r
      <4>1. run'[r] = run[r]
        BY <3>1, <3>2 DEF TypeInv, RunTypes
      <4>. QED
        BY <2>1, <4>1 DEF Rights, NoEarlyRow, RowsEndInTime, HasOwnRow, OwnRow, IsRecorded
    <3>3. CASE m = r
      <4>1. run'[r] = Submitted(done)
        BY <3>1, <3>3 DEF TypeInv, RunTypes
      <4>2. \A g \in grants : g.token[1] # r
        BY <3>1, <3>3, NewRuns DEF Rights, NoEarlyRow
      <4>. QED
        BY <2>1, <3>1, <3>3, <4>1, <4>2, NewRuns
           DEF Rights, NoEarlyRow, RowsEndInTime, HasOwnRow, IsRecorded
    <3>. QED  BY <3>2, <3>3
  <2>. QED  BY <2>2, <2>3
<1>. QED  BY <1>1, <1>2, <1>3, <1>4, <1>5 DEF HandlerStep

\* A tick takes as much from the rows as from the leases.
LEMMA RightsOverTime ==
    ASSUME TypeInv, NEW r \in Triggers, Rights(r), Tick
    PROVE  Rights(r)'
<1>1. UNCHANGED <<stored, run>>
  BY DEF Tick
<1>2. \A m, n \in 0..GrantTtl : m <= n => Less(m) <= Less(n)
  BY DEF Less
<1>3. /\ lease[r].first \in 0..GrantTtl /\ lease[r].last \in 0..GrantTtl
      /\ lease'[r].first = Less(lease[r].first) /\ lease'[r].last = Less(lease[r].last)
  BY DEF Tick, TypeInv, RunTypes
<1>4. ASSUME NEW g \in grants'
      PROVE  \E b \in grants : /\ g.token = b.token /\ b.left \in 0..GrantTtl
                               /\ g.left = Less(b.left)
  BY DEF Tick, TypeInv, GrantRows
<1>5. ASSUME NEW b \in grants
      PROVE  \E g \in grants' : /\ g.token = b.token /\ g.left = Less(b.left)
                                /\ g.account = b.account /\ g.chat = b.chat
  <2> DEFINE g == [b EXCEPT !.left = Less(@)]
  <2>1. g \in grants'
    BY DEF Tick
  <2>2. /\ g.token = b.token /\ g.left = Less(b.left)
        /\ g.account = b.account /\ g.chat = b.chat
    BY DEF TypeInv, GrantRows
  <2>. HIDE DEF g
  <2>. QED  BY <2>1, <2>2
<1>6. NoEarlyRow(r)'
  BY <1>1, <1>4 DEF Rights, NoEarlyRow
<1>7. RowsEndInTime(r)'
  BY <1>1, <1>2, <1>3, <1>4 DEF Rights, RowsEndInTime
<1>8. HasOwnRow(r)'
  <2> SUFFICES ASSUME run[r].phase \in Working, run[r].inserted > 0, lease'[r].first > 0
               PROVE  (\E g \in grants : OwnRow(r, g))'
    BY <1>1 DEF HasOwnRow
  <2>1. lease[r].first > 0
    BY <1>3 DEF Less
  <2>2. PICK b \in grants : OwnRow(r, b)
    BY <2>1 DEF Rights, HasOwnRow
  <2>3. PICK g \in grants' : /\ g.token = b.token /\ g.left = Less(b.left)
                             /\ g.account = b.account /\ g.chat = b.chat
    BY <1>5
  <2>4. OwnRow(r, g)'
    BY <1>1, <1>3, <2>2, <2>3 DEF OwnRow
  <2>. QED  BY <2>4
<1>9. IsRecorded(r)'
  <2>1. age[r] \in Nat /\ age'[r] = IF age[r] > Retention THEN age[r] ELSE age[r] + 1
    BY DEF Tick, TypeInv, StoreTypes
  <2>2. age'[r] <= Retention => age[r] <= Retention
    BY <2>1
  <2>. QED  BY <1>1, <2>2 DEF Rights, IsRecorded
<1>. QED  BY <1>6, <1>7, <1>8, <1>9 DEF Rights

\* Every step keeps what the rows of the runs' tokens say.
LEMMA NextRights == TypeInv /\ HandedOn /\ RightsInv /\ [HistoryNext]_vars => RightsInv'
<1> SUFFICES ASSUME TypeInv, HandedOn, RightsInv, [HistoryNext]_vars, NEW r \in Triggers
             PROVE  Rights(r)'
  BY DEF RightsInv
<1>1. Rights(r)
  BY DEF RightsInv
<1>2. ASSUME NEW q \in Triggers, InsertGrant(q) \/ StartClaude(q) \/ Retry(q) \/ EndRun(q)
      PROVE  Rights(r)'
  <2>1. CASE q = r
    BY <1>1, <1>2, <2>1, RightsOfInsert, RightsOfRun
  <2>2. CASE q # r
    BY <1>1, <1>2, <2>2, RightsBesideRun
  <2>. QED  BY <2>1, <2>2
<1>3. ASSUME NEW h \in Handlers, (\E m \in Messages : Receive(h, m)) \/ HandlerStep(h)
      PROVE  Rights(r)'
  BY <1>1, <1>3, RightsBesideWebhook
<1>4. CASE Tick
  BY <1>1, <1>4, RightsOverTime
<1>5. CASE Restart
  <2>1. /\ UNCHANGED <<age, stored, grants>>
        /\ run'[r] = IF run[r] = NoRun THEN NoRun ELSE Over
    BY <1>5 DEF Restart
  <2>. QED
    BY <1>1, <2>1, NewRuns
       DEF Rights, NoEarlyRow, RowsEndInTime, HasOwnRow, IsRecorded, Working
<1>6. CASE UNCHANGED vars
  BY <1>1, <1>6 DEF vars, Rights, NoEarlyRow, RowsEndInTime, HasOwnRow, OwnRow, IsRecorded
<1>. QED  BY <1>2, <1>3, <1>4, <1>5, <1>6 DEF HistoryNext

\* The types and the rights of the runs hold in every reachable state.
LEMMA RightsHold == HistorySpec => [](TypeInv /\ RightsInv)
<1>1. HistoryInit => TypeInv /\ HandedOn /\ RightsInv
  BY InitType, NewRuns
     DEF HistoryInit, HandedOn, RightsInv, Rights, NoEarlyRow, RowsEndInTime, HasOwnRow, IsRecorded, Working
<1>. QED  BY <1>1, NextType, NextHandedOn, NextRights, PTL DEF HistorySpec

\* A run reads all that is stored of its chat for as long as its token was granted
\* for, and its own trigger is there, whatever the other webhooks purge.
THEOREM RunsSeeTheirChats == HistorySpec => []RunSeesItsChat
<1>1. TypeInv /\ RightsInv => RunSeesItsChat
  <2> SUFFICES ASSUME TypeInv, RightsInv, NEW r \in Triggers,
                      run[r].phase = "running", lease[r].first > 0
               PROVE  /\ {m \in stored : SameChat(r, m)} \subseteq Visible(Token(r))
                      /\ run[r].recorded /\ age[r] <= Retention => r \in stored
    BY DEF RunSeesItsChat
  <2>1. run[r].inserted > 0
    BY RowsOfRun DEF TypeInv, RunTypes, AllGranted
  <2>2. PICK g \in grants : OwnRow(r, g)
    BY <2>1 DEF RightsInv, Rights, HasOwnRow, Working
  <2>3. {m \in stored : SameChat(r, m)} \subseteq Visible(Token(r))
    BY <2>2 DEF OwnRow, SameChat, Visible, Token, dogbot_can_read_history_row
  <2>. QED  BY <2>3 DEF RightsInv, Rights, IsRecorded
<1>. QED  BY <1>1, RightsHold, PTL

\* A process that goes on after its last grant has ended reads nothing with any
\* token of its run, purged or not.
THEOREM AccessIsTaken == HistorySpec => []AccessEnds
<1>1. TypeInv /\ RightsInv => AccessEnds
  <2> SUFFICES ASSUME TypeInv, RightsInv, NEW r \in Triggers, NEW a \in Attempts,
                      run[r].phase = "running", lease[r].last = 0, NEW m \in Visible(<<r, a>>)
               PROVE  FALSE
    BY DEF AccessEnds
  <2>1. PICK g \in grants : g.token = <<r, a>> /\ g.left > 0
    BY DEF Visible, dogbot_can_read_history_row
  <2>2. g.left <= 0 /\ g.left \in Nat
    BY <2>1 DEF RightsInv, Rights, RowsEndInTime, Working, TypeInv, GrantRows
  <2>. QED  BY <2>1, <2>2
<1>. QED  BY <1>1, RightsHold, PTL
=============================================================================
