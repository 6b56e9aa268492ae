CONSTANTS
    h1 = h1
    ask = ask
    admin = admin
    old = old
    qq = qq
    wechat = wechat
    gone = gone
    group = group
    private = private
    NoMessage = NoMessage
    Handlers = {h1}
    Messages <- MCMessages
    Account <- MCAccount
    Chat <- MCChat
    Triggers = {ask, admin}
    AdminPrivate = {admin}
    Resumed = {ask}
    Textless = {}
    Timeless = {}
    Former = {old}
    Accounts <- MCAccounts
    GrantTtl = 1
    CleanupInterval = 2
    Retention = 2
SPECIFICATION HistorySpec
INVARIANTS
    HistoryTypeOK
    HistoryScoped
    RunSeesItsChat
    AccessEnds
PROPERTIES
    OldMessagesGo
CHECK_DEADLOCK FALSE
