CONSTANTS
    u1 = u1
    u2 = u2
    r1 = r1
    heading = heading
    Users = {u1, u2}
    Rooms = {r1}
    Headings = {heading}
    Payloads <- MCPayloads
SPECIFICATION IngressSpec
INVARIANT
    OneSessionPerPrivateChat
CHECK_DEADLOCK FALSE
