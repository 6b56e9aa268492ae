CONSTANTS
    r1 = r1
    r2 = r2
    r3 = r3
    r4 = r4
    group = group
    joined = joined
    other = other
    k1 = k1
    k2 = k2
    e1 = e1
    None = None
    Runs <- MessageRuns
    DirectRuns = {}
    Conversations <- MCConversations
    Conversation <- MessageConversation
    Keys = {k1, k2}
    SessionKey <- MCSessionKey
    Externals = {e1}
    External <- MessageExternal
SPECIFICATION SessionSpec
VIEW MCView
SYMMETRY MessageSymmetry
INVARIANTS
    SessionsTypeOK
    NoMissingAnswer
    ConversationRemembered
    ResumesCurrent
CHECK_DEADLOCK FALSE
