\* One lead; nothing raises, the poller dies once.
SPECIFICATION Spec
CONSTANTS
    a1 = a1
    a2 = a2
    b1 = b1
    mb = mb
    alice = alice
    NoLead = NoLead
    NoPerson = NoPerson
    Mailbox = {mb}
    Fingerprint = {"question", "tour"}
    Person = {alice}
    MailboxOf <- MCMailboxOf
    FingerprintOf <- MCFingerprintOf
    PersonOf <- MCPersonOf
    Lead = {a1}
    Addressed = {a1}
    Answerable = {a1}
    NumWorkers = 2
    DedupWindow = 0
    RepeatWindow = 1
    RepeatMode = "enforce"
    MaxTime = 1
    MaxFaults = 0
    MaxInterruptions = 1
INVARIANTS
    SideEffectsOnce
CHECK_DEADLOCK FALSE
