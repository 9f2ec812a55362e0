CONSTANTS
    Sides = {"commands", "replies"}
    Delimiter = "$"
    Messages <- PlainMessages
    Capacity = 9
    Buffer = 9
    MaxBacklog = 3
    MaxSent = 4
SPECIFICATION FairSpec
INVARIANTS
    TypeOK
    ReaderSurvives
PROPERTIES
    ImplementsChannel
    SentIsHandled
CHECK_DEADLOCK FALSE
