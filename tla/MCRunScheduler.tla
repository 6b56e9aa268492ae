--------------------------- MODULE MCRunScheduler ---------------------------
(***************************************************************************)
(* Constants for model checking RunScheduler.                              *)
(***************************************************************************)
EXTENDS RunScheduler

CONSTANTS c1, c2, c3, t1, t2, t3, t4

MCConversations == {c1, c2, c3}
MCTasks == {t1, t2, t3, t4}

\* Two messages in one conversation and one in each of two others.
MCConversationKey ==
    [t \in MCTasks |-> CASE t \in {t1, t2} -> c1 [] t = t3 -> c2 [] OTHER -> c3]

\* The conversation with two messages is on QQ, the others on WeChat.
MCQqTasks == {t1, t2}

\* The two conversations with one message are interchangeable.
MCSymmetry == {[v \in {c2, c3, t3, t4} |->
                  CASE v = c2 -> c3 [] v = c3 -> c2 [] v = t3 -> t4 [] v = t4 -> t3]}

\* No step and no property of the safety run tells apart the order of the issued ids,
\* the terminal history, what the waiting tasks were told (and the entries of the map
\* that it is computed from), or how a run and a handler that are over came to their
\* end.
MCWorkers == [t \in Tasks |-> CASE worker[t] = "failed" -> "completed"
                                [] worker[t] = "lost" -> "ended"
                                [] OTHER -> worker[t]]

MCHandlers == [t \in Tasks |-> IF handler[t] = "lost" THEN "answered" ELSE handler[t]]

MCView == <<running, queued, ready_conversations, Issued, queued_payloads,
            MCHandlers, MCWorkers, promoted, sent>>

\* The small instance: two messages in one conversation, one in another.
SmallConversations == {c1, c2}
SmallTasks == {t1, t2, t3}
SmallQqTasks == {t1, t2}
SmallConversationKey == [t \in SmallTasks |-> IF t = t3 THEN c2 ELSE c1]
=============================================================================
