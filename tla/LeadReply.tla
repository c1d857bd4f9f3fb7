----------------------------- MODULE LeadReply -----------------------------
(***************************************************************************)
(* What a reply says, to whom, about which apartment and when: the part of  *)
(* process_lead between the email and the queue (steps 1, 2 and 3 to 11 of  *)
(* _phase_a_create_airtable), over two Airtable tables that people edit and *)
(* over the client's cache of addresses, which lives as long as the process *)
(* (services/airtable.py).  Modules LeadEmail, Users, Apartments, ReplyText *)
(* and SendTime hold the pure functions.                                   *)
(*                                                                         *)
(* ProcessLead models the same steps with their outcomes chosen freely: the *)
(* deduplication, the stores, the Inquiries row and the job are there.      *)
(***************************************************************************)
EXTENDS LeadEmail, SendTime

CONSTANTS Messages,     \* the emails that may come
          NoMessage,
          Apartment, NoApartment,
          User,         \* the rows of the Users table
          NoUser,
          UserRows,     \* what people may enter in one
          Rows,         \* what people may enter in a row of Apartments
          Instants,     \* the times the clock shows
          NoTime,
          MaxCalls,     \* bound: calls of process_lead
          MaxEvents     \* bound: edits, restarts and calls that raise

Field == {NoTemplate} \cup {Escape(t) : t \in Template}

UserRow == [enabled : BOOLEAN, staff : BOOLEAN,
            leads : Mailbox \cup {Blank},
            email : Mailbox \cup Address \cup {Blank},
            inbox : Mailbox \cup {Blank},
            phone : Phone \cup {Blank},
            template : Field, repeatTemplate : Field]

\* `listings` are the ids that occur in its Streeteasy URL.
ApartmentRow == [address : Split \cup {NoSplit}, listings : SUBSET Listing]

ASSUME LeadReplyAssumption ==
    /\ Messages \subseteq Message /\ NoMessage \notin Message
    /\ NoApartment \notin Apartment /\ NoUser \notin UserRow
    /\ Person \cap Platform = {}
    /\ Blank \notin Mailbox \cup Address \cup Phone \cup Listing
    /\ {"first_name", "apartment_address"} \subseteq Slot
    /\ UserRows \subseteq UserRow
    /\ Rows \subseteq ApartmentRow
    /\ Instants \subseteq Int /\ NoTime \notin Int
    /\ MaxCalls \in Nat /\ MaxEvents \in Nat

VARIABLES
    users,        \* Airtable's Users
    apartments,   \* Airtable's Apartments
    splits,       \* _apt_split_cache
    now,
    work,         \* the call in progress
    reply,        \* what the last call has queued, or why it has not
    calls, events,
    held          \* history: the addresses a row has had since the process started

vars == <<users, apartments, splits, now, work, reply, calls, events, held>>

tables == <<users, apartments, held>>

NoWork == [pc |-> "idle", box |-> Blank, message |-> NoMessage, repeat |-> FALSE,
           apartment |-> NoApartment, strategy |-> "none", user |-> NoUser,
           template |-> NoTemplate, body |-> <<>>]

NoReply == [message |-> NoMessage, template |-> NoTemplate, body |-> <<>>, route |-> "skipped",
            recipient |-> Blank, sendAt |-> NoTime]

lead == Parse(work.message)

RowsOf(table) == {table[r] : r \in DOMAIN table}

Event == events < MaxEvents /\ events' = events + 1

\* The mailbox is one of the recipients; the message is a lead; the person window has been asked.
\* A message that is not addressed to the mailbox, or is no lead, leaves no trace.
Take(m, box) ==
    /\ work.pc = "idle"
    /\ calls < MaxCalls /\ calls' = calls + 1
    /\ reply' = NoReply
    /\ \/ /\ box \in m.to /\ Parses(m)
          /\ \E repeat \in BOOLEAN :
                work' = [NoWork EXCEPT !.pc = "listing", !.box = box, !.message = m,
                                       !.repeat = repeat]
       \/ /\ ~(box \in m.to /\ Parses(m))
          /\ UNCHANGED work
    /\ UNCHANGED <<tables, splits, now, events>>

-----------------------------------------------------------------------------
(* _match_apartment_for_lead *)

\* FIND: the id occurs in the URL.
ByListing(id) == {i \in Apartment : id # Blank /\ id \in apartments[i].listings}

MatchByListing ==
    /\ work.pc = "listing"
    /\ \/ \E i \in ByListing(lead.listing) :
             work' = [work EXCEPT !.pc = "people", !.apartment = i, !.strategy = "streeteasy_id"]
       \/ /\ ByListing(lead.listing) = {}
          /\ work' = [work EXCEPT !.pc = "address"]
    /\ UNCHANGED <<tables, splits, now, reply, calls, events>>

Addresses == [i \in Apartment |-> apartments[i].address]

NoMatch == work' = [work EXCEPT !.pc = "people"]

\* All rows are read, and looked up in the cache.
MatchByAddress ==
    /\ work.pc = "address"
    /\ \/ /\ lead.address = NoSplit
          /\ NoMatch
          /\ UNCHANGED splits
       \/ /\ lead.address # NoSplit
          /\ splits' = Cached(splits, Addresses)
          /\ \/ \E i \in AddressMatches(splits', lead.address) :
                   work' = [work EXCEPT !.pc = "people", !.apartment = i, !.strategy = "address"]
             \/ AddressMatches(splits', lead.address) = {} /\ NoMatch
    /\ UNCHANGED <<tables, now, reply, calls, events>>

-----------------------------------------------------------------------------
\* One of the rows a query returns, or none.
OneOf(rows) == IF rows = {} THEN {NoUser} ELSE rows

FindUser ==
    /\ work.pc = "people"
    /\ \E u \in OneOf(ExistingUsers(RowsOf(users), lead.email, lead.phone)) :
          work' = [work EXCEPT !.pc = "agent", !.user = u]
    /\ UNCHANGED <<tables, splits, now, reply, calls, events>>

\* The agent's repeat template for a repeated inquiry, the first-touch template otherwise.
TemplateOf(agent) ==
    LET Of(field) == IF agent = NoUser THEN NoTemplate ELSE agent[field]
    IN  IF work.repeat THEN TemplateFor(Of("repeatTemplate"), RepeatFallback)
                       ELSE TemplateFor(Of("template"), Fallback)

FindAgent ==
    /\ work.pc = "agent"
    /\ \E agent \in OneOf(UsersByLeadsEmail(RowsOf(users), work.box)) :
          work' = [work EXCEPT !.pc = "fill", !.template = TemplateOf(agent)]
    /\ UNCHANGED <<tables, splits, now, reply, calls, events>>

ValuesOf(p) ==
    [s \in Slot |-> CASE s = "first_name" -> p.firstName
                      [] s = "apartment_address" -> p.addressText
                      [] OTHER -> Nothing]

values == ValuesOf(lead)

\* TemplateFillError leaves no body.
Fill ==
    /\ work.pc = "fill"
    /\ \/ /\ Missing(work.template, values) # {}
          /\ work' = [work EXCEPT !.pc = "send", !.body = <<>>]
       \/ /\ Missing(work.template, values) = {}
          /\ \E body \in Fillings(work.template, values) :
                work' = [work EXCEPT !.pc = "send", !.body = <<body>>]
    /\ UNCHANGED <<tables, splits, now, reply, calls, events>>

-----------------------------------------------------------------------------
\* Reply-To comes first, and is where the parsers take the prospect's address from as well.
Recipient(m) == IF m.replyTo # Blank THEN m.replyTo ELSE Parse(m).email

\* Mutant: a failed fill does not count.
RouteRegardless(m, body) ==
    IF Recipient(m) = Blank THEN "skipped" ELSE IF m.thread THEN "thread" ELSE "direct"

\* A failed fill overrides the route.
Route(m, body) ==
    IF body = <<>> \/ Recipient(m) = Blank THEN "skipped"
    ELSE IF m.thread THEN "thread" ELSE "direct"

\* LiveSend queues nothing for a skipped lead.
Send ==
    LET route == Route(work.message, work.body) IN
    /\ work.pc = "send"
    /\ \E at \in (IF route = "skipped" THEN {NoTime} ELSE SendTimes(now)) :
          reply' = [message |-> work.message, template |-> work.template, body |-> work.body,
                    route |-> route, sendAt |-> at,
                    recipient |-> IF route = "skipped" THEN Blank ELSE Recipient(work.message)]
    /\ work' = NoWork
    /\ UNCHANGED <<tables, splits, now, calls, events>>

-----------------------------------------------------------------------------
\* A query or a write raises.
CallRaises ==
    /\ work.pc \in {"listing", "address", "people", "agent", "send"}
    /\ Event
    /\ work' = NoWork
    /\ UNCHANGED <<tables, splits, now, reply, calls>>

\* A new process has a new client.
Restart ==
    /\ Event
    /\ splits' = [i \in Apartment |-> NotCached]
    /\ held' = [i \in Apartment |-> {apartments[i].address}]
    /\ work' = NoWork
    /\ reply' = NoReply
    /\ UNCHANGED <<users, apartments, now, calls>>

EditUser(u, row) ==
    /\ Event
    /\ users' = [users EXCEPT ![u] = row]
    /\ UNCHANGED <<apartments, held, splits, now, work, reply, calls>>

EditApartment(i, row) ==
    /\ Event
    /\ apartments' = [apartments EXCEPT ![i] = row]
    /\ held' = [held EXCEPT ![i] = @ \cup {row.address}]
    /\ UNCHANGED <<users, splits, now, work, reply, calls>>

Tick(t) ==
    /\ t > now
    /\ now' = t
    /\ UNCHANGED <<tables, splits, work, reply, calls, events>>

Init ==
    /\ users \in [User -> UserRows]
    /\ apartments \in [Apartment -> Rows]
    /\ splits = [i \in Apartment |-> NotCached]
    /\ now \in Instants
    /\ work = NoWork
    /\ reply = NoReply
    /\ calls = 0 /\ events = 0
    /\ held = [i \in Apartment |-> {apartments[i].address}]

Pipeline ==
    MatchByListing \/ MatchByAddress \/ FindUser \/ FindAgent \/ Fill \/ Send \/ CallRaises

Next ==
    \/ \E m \in Messages, box \in Mailbox : Take(m, box)
    \/ Pipeline
    \/ Restart
    \/ \E u \in User, row \in UserRows : EditUser(u, row)
    \/ \E i \in Apartment, row \in Rows : EditApartment(i, row)
    \/ \E t \in Instants : Tick(t)

Spec == Init /\ [][Next]_vars

-----------------------------------------------------------------------------
Pc == {"idle", "listing", "address", "people", "agent", "fill", "send"}

Bodies == {<<>>} \cup {<<body>> : body \in Body}

WorkOK ==
    /\ work \in [pc : Pc, box : Mailbox \cup {Blank}, message : Messages \cup {NoMessage}, repeat : BOOLEAN,
                 apartment : Apartment \cup {NoApartment},
                 strategy : {"streeteasy_id", "address", "none"},
                 user : UserRows \cup {NoUser},
                 template : Template \cup {NoTemplate},
                 body : Bodies]
    /\ work.pc # "idle" => work.message \in Messages
    /\ work.pc \in {"fill", "send"} => work.template # NoTemplate

ReplyOK ==
    /\ reply \in [message : Messages \cup {NoMessage}, template : Template \cup {NoTemplate},
                  body : Bodies, route : {"thread", "direct", "skipped"},
                  recipient : Address \cup {Blank}, sendAt : Int \cup {NoTime}]
    /\ reply.message # NoMessage => reply.template # NoTemplate

TypeOK ==
    /\ users \in [User -> UserRows]
    /\ apartments \in [Apartment -> Rows]
    /\ splits \in [Apartment -> Split \cup {NoSplit, NotCached}]
    /\ now \in Instants
    /\ WorkOK
    /\ ReplyOK
    /\ calls \in 0..MaxCalls /\ events \in 0..MaxEvents
    /\ held \in [Apartment -> SUBSET (Split \cup {NoSplit})]

\* A reply has no link but the template's and those the prospect wrote into a slot, and no braces but
\* the prospect's and those of a template that is malformed, whatever the model answered (llm.py:104-157, 219-250).
ReplySaysTemplate ==
    reply.body # <<>> =>
        LET body == reply.body[1]
            said == {ValuesOf(Parse(reply.message))[s] : s \in reply.template.slots}
        IN  /\ body.links \subseteq reply.template.links \cup UNION {v.links : v \in said}
            /\ body.braces => reply.template.broken \/ \E v \in said : v.braces

\* A lead is skipped only when nobody can be answered or a slot without a default has no value, and
\* in those cases nothing is queued (reply_route.py:41-51, llm.py:81-86, process_lead.py:422-440).
SkippedForAReason ==
    reply.message # NoMessage =>
        LET said == ValuesOf(Parse(reply.message))
            unfilled == \E s \in reply.template.slots \cap reply.template.required : said[s].empty
        IN  /\ reply.route = "skipped" <=> reply.message.replyTo = Blank \/ unfilled
            /\ reply.sendAt = NoTime <=> reply.route = "skipped"

\* A reply goes to a prospect, in the name of a mailbox the message was sent to, except that a
\* message with the subject of an inquiry is answered whatever its Reply-To (streeteasy.py:85-138;
\* Zillow's is not looked at: zillow.py:73-97).
ProspectsAnswered ==
    reply.recipient # Blank =>
        \/ reply.recipient \in Person
        \/ reply.message.subject.kind \in {"inquiry", "zillow"}

\* The two queries on Users agree: every mailbox that is polled has an agent's row, and a row that
\* is found belongs to a mailbox that is polled (airtable.py:65-97 and 114-143; 99-112 and 145-165).
AgentForEveryMailbox ==
    \A m \in Mailbox :
        /\ m \in MonitoredLeadsEmails(RowsOf(users)) <=> UsersByLeadsEmail(RowsOf(users), m) # {}
        /\ m \in MonitoredAutoreplyInboxes(RowsOf(users))
              <=> UsersByAutoreplyEmail(RowsOf(users), m) # {}

\* An apartment matched by its address has had that address, up to the spelling of the street, at
\* some time since the process started (airtable.py:203-240).
MatchedAddressWasTrue ==
    [][work'.strategy = "address" /\ work.strategy # "address" =>
          \E a \in held[work'.apartment] : Fits(lead.address, a)]_vars

\* A lead that ends up without an apartment fits no row whose address has stood still since the
\* process started (process_lead.py:604-624, airtable.py:222-240).
UnmatchedOnlyIfEdited ==
    [][MatchByAddress /\ work'.strategy = "none" =>
          \A i \in Apartment : held[i] = {apartments[i].address} =>
              ~Fits(lead.address, apartments[i].address)]_vars

\* The first instant from t on within the working hours.
FirstOpen(t) ==
    CHOOSE n \in t..(t + Day + Hour) : Open(n) /\ \A k \in t..(n - 1) : ~Open(k)

\* A lead that comes in outside the working hours is held until the first instant of them, on the
\* nights the clocks change too, and then for its jitter; one that comes in within them waits for
\* its jitter only, which may carry the reply past their end (humanization.py:14-52).
HeldUntilHours ==
    [][reply'.sendAt # NoTime /\ reply' # reply =>
          IF Open(now)
          THEN reply'.sendAt - now \in InMin..InMax
          ELSE reply'.sendAt - FirstOpen(now) \in OutMin..OutMax]_vars

-----------------------------------------------------------------------------
(***************************************************************************)
(* What the documents say, and the code does not do.                        *)
(***************************************************************************)

\* PLAN.md:370 says of a "send timestamp [that] falls in quiet hours (23:00-07:00 NY)": "Hold and
\* release at 07:00 + jitter", and PLAN.md:266 the same: no reply is scheduled for the night.
QuietHoursKept == reply.sendAt # NoTime => HourOf(Wall(reply.sendAt)) \in 7..22

\* airtable.py:55-57 says of the cache of addresses: "never invalidated (the client is short-lived
\* per lead, so stale data is not a concern)": an apartment matched by its address has that address.
MatchIsCurrent ==
    [][work'.strategy = "address" /\ work.strategy # "address" =>
          Fits(lead.address, apartments[work'.apartment].address)]_vars

=============================================================================
