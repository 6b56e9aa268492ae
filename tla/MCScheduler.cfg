CONSTANTS
    c1 = c1
    c2 = c2
    c3 = c3
    c4 = c4
    t1 = t1
    t2 = t2
    t3 = t3
    t4 = t4
    t5 = t5
    t6 = t6
    NoTask = NoTask
    Conversations <- MCConversations
    Tasks <- MCTasks
    ConversationKey <- MCConversationKey
    MaxConcurrentRuns = 2
    MaxQueueDepth = 3
    TerminalHistoryCapacity = 2
SPECIFICATION SchedulerSpec
INVARIANTS
    TypeOK
    WithinLimits
    NoLostConversation
    WorkConserving
    ToldEnough
    ServedInOrder
    ReadyInArrivalOrder
    EndsOnce
PROPERTIES
    OnlyOwnNextOvertakes
CHECK_DEADLOCK FALSE
