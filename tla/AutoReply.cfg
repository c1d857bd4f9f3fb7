\* Three leads, two of them copies of one inquiry; any one call raises; nothing is cut short.
SPECIFICATION Spec
CONSTANTS
    a1 = a1
    a2 = a2
    b1 = b1
    mb = mb
    alice = alice
    NoLead = NoLead
    NoPerson = NoPerson
    Mailbox = {mb}
    Fingerprint = {"question", "tour"}
    Person = {alice}
    MailboxOf <- MCMailboxOf
    FingerprintOf <- MCFingerprintOf
    PersonOf <- MCPersonOf
    Lead = {a1, a2, b1}
    Addressed = {a1, a2, b1}
    Answerable = {a1, a2, b1}
    NumWorkers = 1
    DedupWindow = 1
    RepeatWindow = 1
    RepeatMode = "enforce"
    MaxTime = 2
    MaxFaults = 1
    MaxInterruptions = 0
SYMMETRY Copies
INVARIANTS
    TypeOK
    DedupWindowHolds
    OneJobPerLead
    NoSilentDrop
    RepeatHasPredecessor
    RepeatIsSeen
    OneReplyPerContent
CHECK_DEADLOCK FALSE
