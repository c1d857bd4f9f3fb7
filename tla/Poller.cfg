\* One mailbox, three messages; one call raises or one SIGHUP or edit of Users, one crash or shutdown.
SPECIFICATION FairSpec
CONSTANTS
    m1 = m1
    m2 = m2
    m3 = m3
    inbox1 = inbox1
    NoList = NoList
    NoCursor = NoCursor
    NoMailbox = NoMailbox
    Mailbox = {inbox1}
    Message = {m1, m2, m3}
    MailboxOf <- MCMailboxOf
    CacheTTL = 1
    Lookback = 1
    MaxTime = 1
    MaxDelay = 1
    MaxEvents = 1
    MaxStops = 1
INVARIANTS
    TypeOK
    NothingLostBehindCursor
PROPERTIES
    SighupTakesEffect
    ShutdownEnds
    EveryLeadTaken
CHECK_DEADLOCK FALSE
