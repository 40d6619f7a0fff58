SPECIFICATION FairSpec
CONSTANTS
    Senders = {s1, s2}
    Items = {a, b}
    Capacity = 2
    Spurious = TRUE
    MaxCalls = 4
INVARIANT ReceiverWillWake
INVARIANT SendersWillWake
PROPERTY Linearizable
PROPERTY NoOneStuck
CHECK_DEADLOCK FALSE
