\* Two copies of an inquiry; one call raises, two commands, one process ends before its time.
SPECIFICATION Spec
CONSTANTS
    copy1 = copy1
    copy2 = copy2
    inbox1 = inbox1
    content1 = content1
    NoLead = NoLead
    Lead = {copy1, copy2}
    Mailbox = {inbox1}
    Fingerprint = {content1}
    MailboxOf <- MCMailboxOf
    FingerprintOf <- MCFingerprintOf
    Answerable = {copy1}
    DedupWindow = 0
    Limits = {1, 2}
    MaxTime = 1
    MaxFaults = 1
    MaxCommands = 2
INVARIANTS
    TypeOK
    OneInquiryUnlessRaced
    WatchDraftsOnce
    SuppressedHasDraft
    ReplayDrafts
    BackfillWithinLimit
PROPERTIES
    BackfillCovers
CHECK_DEADLOCK FALSE
