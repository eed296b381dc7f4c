CONSTANTS
    Group = {g1}
    User = {u1, u2}
    Server = server
    Unreadable = unreadable
    MaxSends = 1
    MaxTime = 1
    MaxRestarts = 1
SPECIFICATION Spec
CHECK_DEADLOCK FALSE
INVARIANT TypeOK
PROPERTIES
    ImplementsConversation
    EveryRequestTaken
