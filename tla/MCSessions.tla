------------------------------ MODULE MCSessions ------------------------------
(***************************************************************************)
(* Constants for model checking Sessions.                                  *)
(***************************************************************************)
EXTENDS Sessions, TLC

CONSTANTS r1, r2, r3, r4, group, joined, other, k1, k2, e1

\* group and joined have parts that join to the same key; other is the chat of
\* group seen by another account, so it has another key and the same session_id.
MCConversations == {group, joined, other}
MCSessionKey == [c \in MCConversations |-> IF c = other THEN k2 ELSE k1]

\* Messages only: three in one conversation and one in the other account's.
MessageRuns == {r1, r2, r3, r4}
MessageConversation == [r \in MessageRuns |-> IF r = r4 THEN other ELSE group]
MessageExternal == [r \in MessageRuns |-> e1]

\* The messages of one conversation are interchangeable.
MessageSymmetry == Permutations({r1, r2, r3})

\* Of a run that is over, and whose process is, no step reads anything more, and the
\* properties only whether it disturbs and whether it was answered "missing".
MCRun(r) ==
    IF phase[r] \in Done /\ process[r] = "none"
    THEN <<Disturbs(r), phase[r] = "ok" /\ LastAnswer(r) = "missing">>
    ELSE <<phase[r], record[r], process[r], answers[r]>>

MCView == <<storeVars, container, transcripts, [r \in Runs |-> MCRun(r)]>>

\* A message and, over the API, a run of the same conversation and one of a
\* conversation with the same key, both without a session_id.
ApiRuns == {r1, r2, r3}
ApiDirectRuns == {r2, r3}
ApiConversation == [r \in ApiRuns |-> IF r = r3 THEN joined ELSE group]
ApiExternal == [r \in ApiRuns |-> IF r = r1 THEN e1 ELSE None]

\* Two runs over the API, of different conversations, that name one session_id.
AliasRuns == {r1, r2}
AliasConversation == [r \in AliasRuns |-> IF r = r1 THEN group ELSE other]
AliasExternal == [r \in AliasRuns |-> e1]
=============================================================================
