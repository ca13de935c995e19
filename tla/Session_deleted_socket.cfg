CONSTANTS
    p1 = p1
    p2 = p2
    s1 = s1
    s2 = s2
    None = None
    Pages <- OnePage
    Sessions <- OneSession
    Hangups = TRUE
    Losses <- OneSession
SPECIFICATION FairSpec
CHECK_DEADLOCK FALSE
PROPERTIES
    NoSendOnDeletedSocket
