SPECIFICATION Spec
CONSTANTS
    r1 = r1
    r2 = r2
    alice = alice
    bob = bob
    chat = chat
    t1 = t1
    t2 = t2
    Requests = {r1, r2}
    Users = {alice, bob}
    Sessions = {chat}
    NoSession = NoSession
    Texts = {t1, t2}
    NoText = NoText
    Limit = 1
    Messages <- MCTwoUsers
    NoUser = NoUser
PROPERTIES
    LimitedByOwnRequests
CHECK_DEADLOCK FALSE
