CONSTANTS
    c1 = c1
    c2 = c2
    c3 = c3
    t1 = t1
    t2 = t2
    t3 = t3
    t4 = t4
    NoTask = NoTask
    Conversations <- SmallConversations
    Tasks <- SmallTasks
    ConversationKey <- SmallConversationKey
    QqTasks <- SmallQqTasks
    MaxConcurrentRuns = 0
    MaxQueueDepth = 2
    TerminalHistoryCapacity = 1
SPECIFICATION RunSpec
PROPERTIES
    AcceptedTasksEnd
CHECK_DEADLOCK FALSE
