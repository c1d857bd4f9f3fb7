\* a1 is to be answered, a2 is a copy of it without a recipient, b1 a mirror of another mailbox's
\* mail; two workers; one call raises and one run is cut short; weak fairness.
SPECIFICATION FairSpec
CONSTANTS
    a1 = a1
    a2 = a2
    b1 = b1
    mb = mb
    alice = alice
    NoLead = NoLead
    NoPerson = NoPerson
    Mailbox = {mb}
    Fingerprint = {"question", "tour"}
    Person = {alice}
    MailboxOf <- MCMailboxOf
    FingerprintOf <- MCFingerprintOf
    PersonOf <- MCPersonOf
    Lead = {a1, a2, b1}
    Addressed = {a1, a2}
    Answerable = {a1}
    NumWorkers = 2
    DedupWindow = 0
    RepeatWindow = 0
    RepeatMode = "enforce"
    MaxTime = 0
    MaxFaults = 1
    MaxInterruptions = 1
INVARIANTS
    SuppressedHasReply
    PhaseOrder
    ReplyRecordsAreTrue
    SecondInquiryAfterWriteback
    RepeatsPerInterruption
PROPERTIES
    ReplyNeverErased
    EveryLeadSettled
    EveryLeadAnswered
    ImplementsLeadOutcome
CHECK_DEADLOCK FALSE
