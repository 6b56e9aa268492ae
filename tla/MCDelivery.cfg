CONSTANTS
    t1 = t1
    t2 = t2
    id = id
    foreign = foreign
    blank = blank
    Words = {t1, t2}
    Ids = {id, foreign, blank}
    BlankIds = {blank}
    QqTargets = {id}
    Outputs <- MCOutputs
SPECIFICATION DeliverySpec
INVARIANTS
    DeliveryTypeOK
    NothingLost
    ElsewhereFilesSendNothing
    SentInOrder
    MentionAddedOnce
CHECK_DEADLOCK FALSE
