\* One message; the user of the mailbox is disabled while the list is cached.
SPECIFICATION Spec
CONSTANTS
    m1 = m1
    m2 = m2
    m3 = m3
    inbox1 = inbox1
    NoList = NoList
    NoCursor = NoCursor
    NoMailbox = NoMailbox
    Mailbox = {inbox1}
    Message = {m1}
    MailboxOf <- MCMailboxOf
    CacheTTL = 2
    Lookback = 1
    MaxTime = 2
    MaxDelay = 0
    MaxEvents = 1
    MaxStops = 0
INVARIANTS
    RepliesAttributed
CHECK_DEADLOCK FALSE
