---------------------------- MODULE MCScheduler ----------------------------
(***************************************************************************)
(* Constants for model checking Scheduler.                                 *)
(***************************************************************************)
EXTENDS Scheduler

CONSTANTS c1, c2, c3, c4, t1, t2, t3, t4, t5, t6

MCConversations == {c1, c2, c3, c4}
MCTasks == {t1, t2, t3, t4, t5, t6}

\* Three tasks for one conversation and one for each of the others: a queue of one
\* conversation, two ready conversations beside two that run, and rejected tasks.
MCConversationKey ==
    [t \in MCTasks |-> CASE t \in {t1, t2, t3} -> c1
                         [] t = t4 -> c2
                         [] t = t5 -> c3
                         [] OTHER -> c4]
=============================================================================
