\* The cache of addresses outlives the lead it was filled for.
SPECIFICATION Spec
CONSTANTS
    noreply = noreply
    inbox1 = inbox1
    inbox2 = inbox2
    prospect = prospect
    phone1 = phone1
    unit1 = unit1
    unit2 = unit2
    listing1 = listing1
    agent1 = agent1
    ours = ours
    theirs = theirs
    Blank = Blank
    NoMessage = NoMessage
    NoApartment = NoApartment
    NoUser = NoUser
    NoTemplate = NoTemplate
    NoSplit = NoSplit
    NotCached = NotCached
    NoTime = NoTime
    Apartment = {1, 2}
    Listing = {listing1}
    Mailbox = {inbox1, inbox2}
    Person = {prospect}
    Platform = {noreply}
    Phone = {phone1}
    User = {agent1}
    Slot = {"first_name", "apartment_address"}
    Link = {ours, theirs}
    House = {"41"}
    Street = {"oak", "oaks", "elm"}
    Unit = {unit1, unit2}
    Similarity <- MCSimilarity
    Fallback <- MCFallback
    RepeatFallback <- MCRepeatFallback
    UserRows <- MCUserRows
    Rows <- MCRows
    Messages <- MCMessages
    Instants <- MCInstants
    Hour = 4
    Change = 24
    Before <- MCBefore
    AfterChange <- MCAfterChange
    Start = 8
    End = 23
    InMin = 0
    InMax = 1
    OutMin = 0
    OutMax = 4
    MaxCalls = 2
    MaxEvents = 1
PROPERTIES
    MatchIsCurrent
CHECK_DEADLOCK FALSE
