\* One message, no failure: the mailbox is polled twice before the message is listed.
SPECIFICATION Spec
CONSTANTS
    m1 = m1
    m2 = m2
    m3 = m3
    inbox1 = inbox1
    NoList = NoList
    NoCursor = NoCursor
    NoMailbox = NoMailbox
    Mailbox = {inbox1}
    Message = {m1}
    MailboxOf <- MCMailboxOf
    CacheTTL = 2
    Lookback = 1
    MaxTime = 4
    MaxDelay = 0
    MaxEvents = 0
    MaxStops = 0
PROPERTIES
    SubsequentCallsResume
CHECK_DEADLOCK FALSE
