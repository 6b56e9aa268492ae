CONSTANTS
    c1 = c1
    c2 = c2
    c3 = c3
    t1 = t1
    t2 = t2
    t3 = t3
    t4 = t4
    NoTask = NoTask
    Conversations <- MCConversations
    Tasks <- MCTasks
    ConversationKey <- MCConversationKey
    QqTasks <- MCQqTasks
    MaxConcurrentRuns = 2
    MaxQueueDepth = 1
    TerminalHistoryCapacity = 1
SPECIFICATION RunSpec
VIEW MCView
SYMMETRY MCSymmetry
INVARIANTS
    RunTypeOK
    OneRunPerConversation
    SlotHasOneCarrier
    PayloadsMatchQueue
    FeedbackFits
PROPERTIES
    ImplementsLanes
CHECK_DEADLOCK FALSE
