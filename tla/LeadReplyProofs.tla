-------------------------- MODULE LeadReplyProofs --------------------------
(***************************************************************************)
(* Theorems about LeadReply, for every value of its constants.             *)
(***************************************************************************)
EXTENDS LeadReply, WellFoundedInduction, TLAPS

-----------------------------------------------------------------------------
(***************************************************************************)
(* The pure functions.                                                     *)
(***************************************************************************)
LEMMA NothingType == Nothing \in Value
  BY DEF Nothing, Value

LEMMA ParseType ==
    ASSUME NEW m \in Message
    PROVE  /\ Parse(m).firstName \in Value
           /\ Parse(m).addressText \in Value
           /\ Parse(m).address \in Split \cup {NoSplit}
           /\ Parse(m).email = m.replyTo
  <1>1. \A name \in Name : FirstName(name) \in Value
    BY NothingType DEF FirstName, Name
  <1>2. /\ m.subject \in Subject
        /\ m.plain \in Text /\ m.html \in Text
    BY DEF Message
  <1>3. m.subject.name \in Name /\ m.subject.text \in Value
        /\ m.subject.address \in Split \cup {NoSplit}
    BY <1>2 DEF Subject
  <1>4. \A text \in Text : Flat(text).name \in Name
    BY DEF Text, Flat
  <1>5. CASE m.from = "StreetEasy"
    <2>1. Parse(m) = StreetEasyLead(m)
      BY <1>5 DEF Parse
    <2> QED
      BY <2>1, <1>1, <1>3, NothingType DEF StreetEasyLead
  <1>6. CASE m.from # "StreetEasy"
    <2>1. Parse(m) = ZillowLead(m)
      BY <1>6 DEF Parse
    <2>2. Flat(IF m.html.some THEN m.html ELSE m.plain).name \in Name
      BY <1>2, <1>4
    <2> QED
      BY <2>1, <2>2, <1>1, <1>3 DEF ZillowLead
  <1> QED
    BY <1>5, <1>6

LEMMA ValuesType ==
    ASSUME NEW m \in Message
    PROVE  ValuesOf(Parse(m)) \in [Slot -> Value]
  BY ParseType, NothingType DEF ValuesOf

\* What a text may say beyond its template.
Says(t, of, body) ==
    LET said == {of[s] : s \in t.slots}
    IN  /\ body.links \subseteq t.links \cup UNION {v.links : v \in said}
        /\ body.braces => t.broken \/ \E v \in said : v.braces

LEMMA FilledType ==
    ASSUME NEW t \in Template, NEW of \in [Slot -> Value]
    PROVE  /\ Filled(t, of) \subseteq Value
           /\ Filled(t, of) \subseteq {of[s] : s \in t.slots}
  BY DEF Filled, SlotsOf, Template

LEMMA FillingsType ==
    ASSUME NEW t \in Template, NEW of \in [Slot -> Value]
    PROVE  Fillings(t, of) \subseteq Body
  <1>1. t.links \subseteq Link /\ t.broken \in BOOLEAN
    BY DEF Template
  <1>2. LiteralBody(t, of).links \subseteq Link
    BY <1>1, FilledType DEF LiteralBody, Value
  <1>3. LiteralBody(t, of) \in Body
    BY <1>2 DEF LiteralBody, Body
  <1> QED
    BY <1>3 DEF Fillings

LEMMA FillingsSay ==
    ASSUME NEW t \in Template, NEW of \in [Slot -> Value], ~t.escaped,
           NEW body \in Fillings(t, of)
    PROVE  Says(t, of, body)
  <1>1. CASE PostCheck(t, body)
    BY <1>1 DEF PostCheck, Says
  <1>2. CASE body = LiteralBody(t, of)
    <2>1. body.links = t.links \cup UNION {v.links : v \in Filled(t, of)}
      BY <1>2 DEF LiteralBody
    <2>2. body.braces = (t.broken \/ \E v \in Filled(t, of) : v.braces)
      BY <1>2 DEF LiteralBody, SlotsOf
    <2>3. body.links \subseteq t.links \cup UNION {v.links : v \in {of[s] : s \in t.slots}}
      BY <2>1, FilledType
    <2>4. body.braces => t.broken \/ \E v \in {of[s] : s \in t.slots} : v.braces
      BY <2>2, FilledType
    <2> QED
      BY <2>3, <2>4 DEF Says
  <1> QED
    BY <1>1, <1>2 DEF Fillings

LEMMA TemplateForType ==
    ASSUME NEW field \in Field, NEW fallback \in Template, ~fallback.escaped
    PROVE  TemplateFor(field, fallback) \in Template /\ ~TemplateFor(field, fallback).escaped
  <1>1. CASE field = NoTemplate
    BY <1>1 DEF TemplateFor
  <1>2. CASE field # NoTemplate
    <2>1. PICK t \in Template : field = Escape(t)
      BY <1>2 DEF Field
    <2>2. field \in Template
      BY <2>1 DEF Escape, Template
    <2>3. Unescape(field) \in Template /\ ~Unescape(field).escaped
      BY <2>2 DEF Unescape, Template
    <2> QED
      BY <1>2, <2>3 DEF TemplateFor
  <1> QED
    BY <1>1, <1>2

LEMMA SendTimesType ==
    ASSUME NEW t \in Int
    PROVE  SendTimes(t) \subseteq Int
  <1>1. \A j \in InMin..InMax : t + j \in Int
    BY SendTimeAssumption
  <1>2. Hour \in Int /\ Day \in Int /\ Day > 0
    BY SendTimeAssumption DEF Day
  <1>3. \A w \in Int : Wall(w) \in Int /\ Instant(w) \in Int
    BY SendTimeAssumption DEF Wall, Instant
  <1>4. \A w \in Int : NextStart(w) \in Int
    <2> TAKE w \in Int
    <2>1. w % Day \in Int
      BY <1>2
    <2>2. Start * Hour \in Int
      BY <1>2, SendTimeAssumption
    <2>3. StartOn(w) \in Int
      BY <2>1, <2>2 DEF StartOn
    <2> QED
      BY <2>3, <1>2 DEF NextStart
  <1>5. \A j \in OutMin..OutMax : OutOfHours(t, j) \in Int
    BY <1>3, <1>4, SendTimeAssumption DEF OutOfHours
  <1> QED
    BY <1>1, <1>5 DEF SendTimes

-----------------------------------------------------------------------------
(***************************************************************************)
(* Types.                                                                  *)
(***************************************************************************)
Work == [pc : Pc, box : Mailbox \cup {Blank}, message : Messages \cup {NoMessage}, repeat : BOOLEAN,
         apartment : Apartment \cup {NoApartment},
         strategy : {"streeteasy_id", "address", "none"},
         user : UserRows \cup {NoUser},
         template : Template \cup {NoTemplate},
         body : Bodies]

Reply == [message : Messages \cup {NoMessage}, template : Template \cup {NoTemplate},
          body : Bodies, route : {"thread", "direct", "skipped"},
          recipient : Address \cup {Blank}, sendAt : Int \cup {NoTime}]

LEMMA NoWorkType == NoWork \in Work /\ NoWork.pc = "idle" /\ NoWork.strategy = "none"
  BY DEF NoWork, Work, Pc, Bodies

LEMMA NoReplyType ==
    NoReply \in Reply /\ NoReply.message = NoMessage /\ NoReply.body = <<>> /\ NoReply.recipient = Blank
  BY DEF NoReply, Reply, Bodies

\* The steps of a call, by what they do to it.
LEMMA TakeEffect ==
    ASSUME NEW m \in Messages, NEW box \in Mailbox, Take(m, box)
    PROVE  /\ work' = work \/ /\ Parses(m) /\ work' \in Work
                              /\ work'.pc = "listing" /\ work'.message = m /\ work'.strategy = "none"
           /\ work.pc = "idle"
           /\ reply' = NoReply
           /\ UNCHANGED <<users, apartments, held, splits, now, events>>
           /\ calls < MaxCalls /\ calls' = calls + 1
  <1>1. ASSUME Parses(m), NEW repeat \in BOOLEAN,
               work' = [NoWork EXCEPT !.pc = "listing", !.box = box, !.message = m, !.repeat = repeat]
        PROVE  work' \in Work /\ work'.pc = "listing" /\ work'.message = m /\ work'.strategy = "none"
    BY <1>1, NoWorkType DEF Work, Pc
  <1> QED
    BY <1>1 DEF Take, tables

LEMMA MatchByListingEffect ==
    ASSUME TypeOK, MatchByListing
    PROVE  /\ work' \in Work
           /\ work.pc = "listing" /\ work'.pc \in {"people", "address"}
           /\ work'.message = work.message
           /\ work'.strategy \in {work.strategy, "streeteasy_id"}
           /\ UNCHANGED <<users, apartments, held, splits, now, reply, calls, events>>
  <1> DEFINE matched(i) == [work EXCEPT !.pc = "people", !.apartment = i, !.strategy = "streeteasy_id"]
             other == [work EXCEPT !.pc = "address"]
  <1>1. work \in Work
    BY DEF TypeOK, WorkOK, Work
  <1>2. \A i \in Apartment : /\ matched(i) \in Work /\ matched(i).pc = "people"
                             /\ matched(i).message = work.message
                             /\ matched(i).strategy = "streeteasy_id"
    BY <1>1 DEF Work, Pc
  <1>3. other \in Work /\ other.pc = "address" /\ other.message = work.message
        /\ other.strategy = work.strategy
    BY <1>1 DEF Work, Pc
  <1>4. /\ work.pc = "listing"
        /\ (\E i \in Apartment : work' = matched(i)) \/ work' = other
        /\ UNCHANGED <<users, apartments, held, splits, now, reply, calls, events>>
    BY DEF MatchByListing, ByListing, tables
  <1> HIDE DEF matched, other
  <1> QED
    BY <1>2, <1>3, <1>4

LEMMA MatchByAddressEffect ==
    ASSUME TypeOK, MatchByAddress
    PROVE  /\ work' \in Work
           /\ work.pc = "address" /\ work'.pc = "people"
           /\ work'.message = work.message
           /\ UNCHANGED <<users, apartments, held, now, reply, calls, events>>
           /\ \/ splits' = splits
              \/ splits' = Cached(splits, Addresses)
           /\ \/ lead.address = NoSplit /\ work'.strategy = work.strategy
              \/ /\ lead.address # NoSplit
                 /\ splits' = Cached(splits, Addresses)
                 /\ AddressMatches(splits', lead.address) = {}
                 /\ work'.strategy = work.strategy
              \/ /\ lead.address # NoSplit
                 /\ splits' = Cached(splits, Addresses)
                 /\ work'.apartment \in AddressMatches(splits', lead.address)
                 /\ work'.strategy = "address"
  <1> DEFINE matched(i) == [work EXCEPT !.pc = "people", !.apartment = i, !.strategy = "address"]
             other == [work EXCEPT !.pc = "people"]
  <1>1. work \in Work
    BY DEF TypeOK, WorkOK, Work
  <1>2. \A i \in Apartment : /\ matched(i) \in Work /\ matched(i).pc = "people"
                             /\ matched(i).message = work.message
                             /\ matched(i).apartment = i
                             /\ matched(i).strategy = "address"
    BY <1>1 DEF Work, Pc
  <1>3. other \in Work /\ other.pc = "people" /\ other.message = work.message
        /\ other.strategy = work.strategy
    BY <1>1 DEF Work, Pc
  <1>4. /\ work.pc = "address"
        /\ UNCHANGED <<users, apartments, held, now, reply, calls, events>>
        /\ \/ lead.address = NoSplit /\ work' = other /\ splits' = splits
           \/ /\ lead.address # NoSplit /\ splits' = Cached(splits, Addresses)
              /\ \/ \E i \in AddressMatches(splits', lead.address) : work' = matched(i)
                 \/ AddressMatches(splits', lead.address) = {} /\ work' = other
    BY DEF MatchByAddress, NoMatch, tables
  <1>5. AddressMatches(Cached(splits, Addresses), lead.address) \subseteq Apartment
    BY DEF AddressMatches, Cached, Addresses
  <1> HIDE DEF matched, other
  <1> QED
    BY <1>2, <1>3, <1>4, <1>5

\* One of the rows a query on Users returns, or none.
LEMMA OneOfType ==
    ASSUME users \in [User -> UserRows], NEW rows, rows \subseteq RowsOf(users)
    PROVE  OneOf(rows) \subseteq UserRows \cup {NoUser}
  BY DEF OneOf, RowsOf

LEMMA FindUserEffect ==
    ASSUME TypeOK, FindUser
    PROVE  /\ work' \in Work
           /\ work.pc = "people" /\ work'.pc = "agent"
           /\ work'.message = work.message /\ work'.strategy = work.strategy
           /\ UNCHANGED <<users, apartments, held, splits, now, reply, calls, events>>
  <1> DEFINE found(u) == [work EXCEPT !.pc = "agent", !.user = u]
  <1>1. work \in Work
    BY DEF TypeOK, WorkOK, Work
  <1>2. \A u \in UserRows \cup {NoUser} :
           /\ found(u) \in Work /\ found(u).pc = "agent"
           /\ found(u).message = work.message /\ found(u).strategy = work.strategy
    BY <1>1 DEF Work, Pc
  <1>3. ExistingUsers(RowsOf(users), lead.email, lead.phone) \subseteq RowsOf(users)
    BY DEF ExistingUsers
  <1>4. \E u \in UserRows \cup {NoUser} : work' = found(u)
    BY <1>3, OneOfType DEF FindUser, TypeOK
  <1>5. work.pc = "people" /\ UNCHANGED <<users, apartments, held, splits, now, reply, calls, events>>
    BY DEF FindUser, tables
  <1> HIDE DEF found
  <1> QED
    BY <1>2, <1>4, <1>5

LEMMA TemplateOfType ==
    ASSUME NEW agent \in UserRows \cup {NoUser}
    PROVE  TemplateOf(agent) \in Template /\ ~TemplateOf(agent).escaped
  <1>1. NoTemplate \in Field
    BY DEF Field
  <1>2. CASE agent = NoUser
    BY <1>1, <1>2, TemplateForType, ReplyTextAssumption DEF TemplateOf
  <1>3. CASE agent # NoUser
    <2>1. agent \in UserRow
      BY <1>3, LeadReplyAssumption
    <2>2. agent.template \in Field /\ agent.repeatTemplate \in Field
      BY <2>1 DEF UserRow
    <2> QED
      BY <1>3, <2>2, TemplateForType, ReplyTextAssumption DEF TemplateOf
  <1> QED
    BY <1>2, <1>3

LEMMA FindAgentEffect ==
    ASSUME TypeOK, FindAgent
    PROVE  /\ work' \in Work
           /\ work.pc = "agent" /\ work'.pc = "fill"
           /\ work'.message = work.message /\ work'.strategy = work.strategy
           /\ work'.template \in Template /\ ~work'.template.escaped
           /\ UNCHANGED <<users, apartments, held, splits, now, reply, calls, events>>
  <1> DEFINE filled(t) == [work EXCEPT !.pc = "fill", !.template = t]
  <1>1. work \in Work
    BY DEF TypeOK, WorkOK, Work
  <1>2. \A t \in Template :
           /\ filled(t) \in Work /\ filled(t).pc = "fill" /\ filled(t).template = t
           /\ filled(t).message = work.message /\ filled(t).strategy = work.strategy
    BY <1>1 DEF Work, Pc
  <1>3. UsersByLeadsEmail(RowsOf(users), work.box) \subseteq RowsOf(users)
    BY DEF UsersByLeadsEmail
  <1>4. \E agent \in UserRows \cup {NoUser} : work' = filled(TemplateOf(agent))
    BY <1>3, OneOfType DEF FindAgent, TypeOK
  <1>5. work.pc = "agent" /\ UNCHANGED <<users, apartments, held, splits, now, reply, calls, events>>
    BY DEF FindAgent, tables
  <1> HIDE DEF filled
  <1> QED
    BY <1>2, <1>4, <1>5, TemplateOfType

\* What filling has made of a template.
FilledIn(t, m, body) ==
    LET of == ValuesOf(Parse(m)) IN
    /\ body = <<>> <=> Missing(t, of) # {}
    /\ body # <<>> => \E text \in Fillings(t, of) : body = <<text>>

LEMMA FillEffect ==
    ASSUME TypeOK, Fill
    PROVE  /\ work' \in Work
           /\ work.pc = "fill" /\ work'.pc = "send"
           /\ work'.message = work.message /\ work'.strategy = work.strategy
           /\ work'.template = work.template
           /\ FilledIn(work'.template, work'.message, work'.body)
           /\ UNCHANGED <<users, apartments, held, splits, now, reply, calls, events>>
  <1> DEFINE filled(b) == [work EXCEPT !.pc = "send", !.body = b]
  <1>1. work \in Work
    BY DEF TypeOK, WorkOK, Work
  <1>2. \A b \in Bodies :
           /\ filled(b) \in Work /\ filled(b).pc = "send" /\ filled(b).body = b
           /\ filled(b).message = work.message /\ filled(b).strategy = work.strategy
           /\ filled(b).template = work.template
    BY <1>1 DEF Work, Pc
  <1>3. work.pc = "fill" /\ UNCHANGED <<users, apartments, held, splits, now, reply, calls, events>>
    BY DEF Fill, tables
  <1>4. work.message \in Message /\ work.template \in Template
    BY <1>1, <1>3, LeadReplyAssumption DEF TypeOK, WorkOK, Work
  <1>5. values \in [Slot -> Value] /\ values = ValuesOf(Parse(work.message))
    BY <1>4, ValuesType DEF values, lead
  <1>6. \E b \in Bodies : work' = filled(b) /\ FilledIn(work.template, work.message, b)
    <2>1. CASE Missing(work.template, values) # {} /\ work' = filled(<<>>)
      <3>1. FilledIn(work.template, work.message, <<>>)
        BY <1>5, <2>1 DEF FilledIn
      <3> QED
        BY <2>1, <3>1 DEF Bodies
    <2>2. ASSUME Missing(work.template, values) = {},
                 NEW text \in Fillings(work.template, values), work' = filled(<<text>>)
          PROVE  \E b \in Bodies : work' = filled(b) /\ FilledIn(work.template, work.message, b)
      <3>1. <<text>> \in Bodies
        BY <1>4, <1>5, <2>2, FillingsType DEF Bodies
      <3>2. FilledIn(work.template, work.message, <<text>>)
        BY <1>5, <2>2 DEF FilledIn
      <3> QED
        BY <2>2, <3>1, <3>2
    <2> QED
      BY <2>1, <2>2 DEF Fill
  <1> HIDE DEF filled
  <1> QED
    BY <1>2, <1>3, <1>6

\* The reply that is queued for a message, or is not.
LEMMA SendEffect ==
    ASSUME TypeOK, Send
    PROVE  /\ work' = NoWork /\ work.pc = "send"
           /\ reply' \in Reply
           /\ reply'.message = work.message /\ reply'.template = work.template
           /\ reply'.body = work.body
           /\ reply'.route = Route(work.message, work.body)
           /\ reply'.recipient = IF reply'.route = "skipped" THEN Blank ELSE work.message.replyTo
           /\ reply'.sendAt = NoTime <=> reply'.route = "skipped"
           /\ reply'.route = "skipped" <=> work.body = <<>> \/ work.message.replyTo = Blank
           /\ UNCHANGED <<users, apartments, held, splits, now, calls, events>>
  <1> DEFINE m == work.message
             route == Route(m, work.body)
             to == IF route = "skipped" THEN Blank ELSE Recipient(m)
             queued(at) == [message |-> m, template |-> work.template, body |-> work.body,
                            route |-> route, sendAt |-> at, recipient |-> to]
  <1>1. work \in Work /\ work.pc = "send"
    BY DEF TypeOK, WorkOK, Work, Send
  <1>2. m \in Messages /\ m \in Message
    BY <1>1, LeadReplyAssumption DEF TypeOK, WorkOK
  <1>3. m.replyTo \in Address \cup {Blank} /\ Recipient(m) = m.replyTo
    BY <1>2, ParseType DEF Message, Recipient
  <1>4. route \in {"thread", "direct", "skipped"}
        /\ (route = "skipped" <=> work.body = <<>> \/ m.replyTo = Blank)
    BY <1>3 DEF Route
  <1>5. to \in Address \cup {Blank}
    BY <1>3
  <1>6. \A at \in Int \cup {NoTime} : /\ queued(at) \in Reply
                                      /\ queued(at).message = m
                                      /\ queued(at).template = work.template
                                      /\ queued(at).body = work.body
                                      /\ queued(at).route = route
                                      /\ queued(at).recipient = to
                                      /\ queued(at).sendAt = at
    <2> HIDE DEF route, to
    <2> QED
      BY <1>1, <1>2, <1>4, <1>5 DEF Work, Reply
  <1>7. now \in Int
    BY LeadReplyAssumption DEF TypeOK
  <1>8. \E at \in Int \cup {NoTime} : reply' = queued(at) /\ (at = NoTime <=> route = "skipped")
    <2>1. PICK at \in (IF route = "skipped" THEN {NoTime} ELSE SendTimes(now)) : reply' = queued(at)
      BY DEF Send
    <2>2. at \in Int \cup {NoTime} /\ (at = NoTime <=> route = "skipped")
      BY <2>1, <1>7, SendTimesType, LeadReplyAssumption
    <2> QED
      BY <2>1, <2>2
  <1>9. work' = NoWork /\ UNCHANGED <<users, apartments, held, splits, now, calls, events>>
    BY DEF Send, tables
  <1> HIDE DEF queued
  <1> QED
    BY <1>1, <1>3, <1>4, <1>6, <1>8, <1>9

LEMMA CachedType ==
    ASSUME splits \in [Apartment -> Split \cup {NoSplit, NotCached}], apartments \in [Apartment -> Rows]
    PROVE  /\ Cached(splits, Addresses) \in [Apartment -> Split \cup {NoSplit}]
           /\ Addresses \in [Apartment -> Split \cup {NoSplit}]
           /\ \A i \in Apartment : Cached(splits, Addresses)[i] =
                 IF splits[i] = NotCached THEN apartments[i].address ELSE splits[i]
  BY LeadReplyAssumption DEF Cached, Addresses, ApartmentRow

\* What people and time do is not seen by the call in progress, nor by the reply of the last one.
LEMMA RestartEffect ==
    ASSUME Restart
    PROVE  /\ Event
           /\ splits' = [i \in Apartment |-> NotCached]
           /\ held' = [i \in Apartment |-> {apartments[i].address}]
           /\ work' = NoWork /\ reply' = NoReply
           /\ UNCHANGED <<users, apartments, now, calls>>
  BY DEF Restart

LEMMA EnvironmentEffects ==
    ASSUME TypeOK,
           \/ \E u \in User, row \in UserRows : EditUser(u, row)
           \/ \E i \in Apartment, row \in Rows : EditApartment(i, row)
           \/ \E t \in Instants : Tick(t)
    PROVE  /\ UNCHANGED <<splits, work, reply, calls>>
           /\ users' \in [User -> UserRows]
           /\ now' \in Instants
           /\ Event \/ UNCHANGED events
           /\ \/ UNCHANGED <<apartments, held>>
              \/ \E i \in Apartment, row \in Rows :
                    /\ apartments' = [apartments EXCEPT ![i] = row]
                    /\ held' = [held EXCEPT ![i] = @ \cup {row.address}]
  <1>1. ASSUME NEW u \in User, NEW row \in UserRows, EditUser(u, row)
        PROVE  /\ UNCHANGED <<apartments, held, splits, now, work, reply, calls>> /\ Event
               /\ users' \in [User -> UserRows]
    BY <1>1 DEF EditUser, TypeOK
  <1>2. ASSUME NEW i \in Apartment, NEW row \in Rows, EditApartment(i, row)
        PROVE  /\ UNCHANGED <<users, splits, now, work, reply, calls>> /\ Event
               /\ apartments' = [apartments EXCEPT ![i] = row]
               /\ held' = [held EXCEPT ![i] = @ \cup {row.address}]
    BY <1>2 DEF EditApartment
  <1>3. ASSUME NEW t \in Instants, Tick(t)
        PROVE  /\ UNCHANGED <<users, apartments, held, splits, work, reply, calls, events>>
               /\ now' \in Instants
    BY <1>3 DEF Tick, tables
  <1> QED
    BY <1>1, <1>2, <1>3 DEF TypeOK

\* The calls of the pipeline, by what they do to the call in progress and to the reply.
LEMMA PipelineEffects ==
    ASSUME TypeOK, Pipeline
    PROVE  /\ work' \in Work /\ work.pc # "idle"
           /\ UNCHANGED <<users, apartments, held, now, calls>>
           /\ Event \/ UNCHANGED events
           /\ \/ splits' = splits
              \/ splits' = Cached(splits, Addresses)
           /\ UNCHANGED reply \/ Send
           /\ \/ work'.pc = "idle"
              \/ work'.message = work.message
           /\ \/ work'.pc \notin {"fill", "send"}
              \/ work'.template \in Template
  <1>1. CASE MatchByListing
    BY <1>1, MatchByListingEffect
  <1>2. CASE MatchByAddress
    BY <1>2, MatchByAddressEffect
  <1>3. CASE FindUser
    BY <1>3, FindUserEffect
  <1>4. CASE FindAgent
    BY <1>4, FindAgentEffect
  <1>5. CASE Fill
    <2>1. work.template \in Template
      BY <1>5, FillEffect DEF TypeOK, WorkOK
    <2> QED
      BY <1>5, <2>1, FillEffect
  <1>6. CASE Send
    BY <1>6, SendEffect, NoWorkType
  <1>7. CASE CallRaises
    BY <1>7, NoWorkType DEF CallRaises, tables
  <1> QED
    BY <1>1, <1>2, <1>3, <1>4, <1>5, <1>6, <1>7 DEF Pipeline

LEMMA InitType ==
    ASSUME Init
    PROVE  TypeOK
  <1>1. held \in [Apartment -> SUBSET (Split \cup {NoSplit})]
    BY LeadReplyAssumption DEF Init, ApartmentRow
  <1>2. WorkOK /\ ReplyOK
    BY NoWorkType, NoReplyType DEF Init, WorkOK, Work, ReplyOK, Reply
  <1>3. calls \in 0..MaxCalls /\ events \in 0..MaxEvents
    BY LeadReplyAssumption DEF Init
  <1> QED
    BY <1>1, <1>2, <1>3 DEF Init, TypeOK

LEMMA TypeStep ==
    ASSUME TypeOK, [Next]_vars
    PROVE  TypeOK'
  <1>1. work \in Work /\ reply \in Reply
    BY DEF TypeOK, WorkOK, ReplyOK, Work, Reply
  <1>2. Event => events' \in 0..MaxEvents
    BY LeadReplyAssumption DEF TypeOK, Event
  <1>3. ASSUME NEW m \in Messages, NEW box \in Mailbox, Take(m, box)
        PROVE  TypeOK'
    <2>1. calls' \in 0..MaxCalls
      BY <1>3, TakeEffect, LeadReplyAssumption DEF TypeOK
    <2>2. WorkOK'
      BY <1>1, <1>3, TakeEffect DEF TypeOK, WorkOK, Work
    <2>3. ReplyOK'
      BY <1>3, TakeEffect, NoReplyType DEF ReplyOK, Reply
    <2> QED
      BY <1>3, <2>1, <2>2, <2>3, TakeEffect DEF TypeOK
  <1>4. CASE Pipeline
    <2>1. WorkOK'
      <3>1. work'.pc # "idle" => work'.message \in Messages
        BY <1>4, PipelineEffects DEF TypeOK, WorkOK
      <3>2. work'.pc \in {"fill", "send"} => work'.template # NoTemplate
        BY <1>4, PipelineEffects, ReplyTextAssumption
      <3> QED
        BY <1>4, <3>1, <3>2, PipelineEffects DEF WorkOK, Work
    <2>2. ReplyOK'
      <3>1. CASE UNCHANGED reply
        BY <3>1 DEF TypeOK, ReplyOK
      <3>2. CASE Send
        BY <3>2, SendEffect DEF TypeOK, WorkOK, ReplyOK, Reply
      <3> QED
        BY <1>4, <3>1, <3>2, PipelineEffects
    <2>3. splits' \in [Apartment -> Split \cup {NoSplit, NotCached}]
      BY <1>4, PipelineEffects, CachedType DEF TypeOK
    <2> QED
      BY <1>2, <1>4, <2>1, <2>2, <2>3, PipelineEffects DEF TypeOK
  <1>5. CASE Restart
    <2>1. held' \in [Apartment -> SUBSET (Split \cup {NoSplit})]
      BY <1>5, RestartEffect, LeadReplyAssumption DEF TypeOK, ApartmentRow
    <2>2. WorkOK' /\ ReplyOK'
      BY <1>5, RestartEffect, NoWorkType, NoReplyType DEF WorkOK, Work, ReplyOK, Reply
    <2> QED
      BY <1>2, <1>5, <2>1, <2>2, RestartEffect DEF TypeOK
  <1>6. CASE \/ \E u \in User, row \in UserRows : EditUser(u, row)
             \/ \E i \in Apartment, row \in Rows : EditApartment(i, row)
             \/ \E t \in Instants : Tick(t)
    <2>1. WorkOK' /\ ReplyOK'
      BY <1>6, EnvironmentEffects DEF TypeOK, WorkOK, ReplyOK
    <2>2. /\ apartments' \in [Apartment -> Rows]
          /\ held' \in [Apartment -> SUBSET (Split \cup {NoSplit})]
      <3>1. CASE UNCHANGED <<apartments, held>>
        BY <3>1 DEF TypeOK
      <3>2. ASSUME NEW i \in Apartment, NEW row \in Rows,
                   apartments' = [apartments EXCEPT ![i] = row],
                   held' = [held EXCEPT ![i] = @ \cup {row.address}]
            PROVE  /\ apartments' \in [Apartment -> Rows]
                   /\ held' \in [Apartment -> SUBSET (Split \cup {NoSplit})]
        <4>1. row.address \in Split \cup {NoSplit}
          BY LeadReplyAssumption DEF ApartmentRow
        <4> QED
          BY <3>2, <4>1 DEF TypeOK
      <3> QED
        BY <1>6, <3>1, <3>2, EnvironmentEffects
    <2> QED
      BY <1>2, <1>6, <2>1, <2>2, EnvironmentEffects DEF TypeOK
  <1>7. CASE UNCHANGED vars
    BY <1>7 DEF vars, TypeOK, WorkOK, ReplyOK
  <1> QED
    BY <1>3, <1>4, <1>5, <1>6, <1>7 DEF Next

\* Tables, cache, the call in progress and its reply keep their types under any edits, restarts and
\* calls that raise; a call that has come to its template has one, and a reply has the one it was
\* made from (services/airtable.py, pipeline/process_lead.py).
THEOREM TypeCorrectness == Spec => []TypeOK
  <1>1. Init => TypeOK
    BY InitType
  <1>2. TypeOK /\ [Next]_vars => TypeOK'
    BY TypeStep
  <1> QED
    BY <1>1, <1>2, PTL DEF Spec

\* Every mailbox that is polled has an agent's row, and a row that is found belongs to a polled
\* mailbox: the two queries of services/airtable.py agree, whatever is entered in Users.
THEOREM AgentForEveryMailboxCorrect == Spec => []AgentForEveryMailbox
  <1>1. TypeOK => AgentForEveryMailbox
    BY LeadReplyAssumption
    DEF AgentForEveryMailbox, MonitoredLeadsEmails, UsersByLeadsEmail,
        MonitoredAutoreplyInboxes, UsersByAutoreplyEmail
  <1> QED
    BY <1>1, TypeCorrectness, PTL

-----------------------------------------------------------------------------
(***************************************************************************)
(* What a reply says, to whom, and why there is none: what the call in      *)
(* progress has behind it when it comes to the route.                      *)
(***************************************************************************)
CallInv ==
    /\ work.pc # "idle" => Parses(work.message)
    /\ work.pc \in {"fill", "send"} => ~work.template.escaped
    /\ work.pc = "send" => FilledIn(work.template, work.message, work.body)

LEMMA CallStep ==
    ASSUME TypeOK, CallInv, [Next]_vars
    PROVE  CallInv'
  <1>1. ASSUME NEW m \in Messages, NEW box \in Mailbox, Take(m, box)
        PROVE  CallInv'
    <2>1. CASE work' = work
      BY <2>1 DEF CallInv
    <2>2. CASE Parses(m) /\ work'.pc = "listing" /\ work'.message = m
      BY <2>2 DEF CallInv
    <2> QED
      BY <1>1, <2>1, <2>2, TakeEffect
  <1>2. CASE MatchByListing
    BY <1>2, MatchByListingEffect DEF CallInv
  <1>3. CASE MatchByAddress
    BY <1>3, MatchByAddressEffect DEF CallInv
  <1>4. CASE FindUser
    BY <1>4, FindUserEffect DEF CallInv
  <1>5. CASE FindAgent
    BY <1>5, FindAgentEffect DEF CallInv
  <1>6. CASE Fill
    BY <1>6, FillEffect DEF CallInv
  <1>7. CASE Send \/ CallRaises \/ Restart
    <2>1. work'.pc = "idle"
      BY <1>7, SendEffect, RestartEffect, NoWorkType DEF CallRaises
    <2> QED
      BY <2>1 DEF CallInv
  <1>8. CASE UNCHANGED work
    BY <1>8 DEF CallInv
  <1>9. CASE UNCHANGED vars
    BY <1>8, <1>9 DEF vars
  <1> QED
    BY <1>1, <1>2, <1>3, <1>4, <1>5, <1>6, <1>7, <1>8, <1>9, EnvironmentEffects
    DEF Next, Pipeline

ReplyInv == ReplySaysTemplate /\ SkippedForAReason /\ ProspectsAnswered

\* No reply, and a reply that stays, have nothing to show.
LEMMA NoReplyInv ==
    ASSUME ReplyInv, UNCHANGED reply \/ reply' = NoReply
    PROVE  ReplyInv'
  <1>1. CASE UNCHANGED reply
    BY <1>1 DEF ReplyInv, ReplySaysTemplate, SkippedForAReason, ProspectsAnswered
  <1>2. CASE reply' = NoReply
    BY <1>2, NoReplyType DEF ReplyInv, ReplySaysTemplate, SkippedForAReason, ProspectsAnswered
  <1> QED
    BY <1>1, <1>2

\* A lead whose Reply-To is no prospect's has the subject of an inquiry.
LEMMA LeadIsProspect ==
    ASSUME NEW m \in Message, Parses(m), m.replyTo # Blank
    PROVE  m.replyTo \in Person \/ m.subject.kind \in {"inquiry", "zillow"}
  BY DEF Parses, IsLead, External

LEMMA SendInv ==
    ASSUME TypeOK, CallInv, Send
    PROVE  ReplyInv'
  <1> DEFINE m == work.message
             t == work.template
             of == ValuesOf(Parse(m))
  <1>1. /\ work \in Work /\ m \in Messages /\ m \in Message
        /\ t \in Template
    BY SendEffect, LeadReplyAssumption DEF TypeOK, WorkOK, Work
  <1>2. Parses(m) /\ ~t.escaped /\ FilledIn(t, m, work.body)
    BY SendEffect DEF CallInv
  <1>3. of \in [Slot -> Value]
    BY <1>1, ValuesType
  <1>4. ReplySaysTemplate'
    <2>1. ASSUME NEW body \in Fillings(t, of), reply'.body = <<body>>
          PROVE  ReplySaysTemplate'
      <3>1. Says(t, of, body)
        BY <1>1, <1>2, <1>3, FillingsSay
      <3>2. /\ reply'.message = m /\ reply'.template = t /\ reply'.body[1] = body
        BY <2>1, SendEffect
      <3> QED
        BY <3>1, <3>2 DEF ReplySaysTemplate, Says
    <2>2. CASE reply'.body = <<>>
      BY <2>2 DEF ReplySaysTemplate
    <2> QED
      BY <1>2, <2>1, <2>2, SendEffect DEF FilledIn
  <1>5. SkippedForAReason'
    <2>1. work.body = <<>> <=> \E s \in t.slots \cap t.required : of[s].empty
      BY <1>2 DEF FilledIn, Missing, SlotsOf
    <2>2. reply'.message = m /\ reply'.template = t
      BY SendEffect
    <2>3. reply'.route = "skipped" <=> work.body = <<>> \/ m.replyTo = Blank
      BY SendEffect
    <2>4. reply'.sendAt = NoTime <=> reply'.route = "skipped"
      BY SendEffect
    <2> QED
      BY <2>1, <2>2, <2>3, <2>4 DEF SkippedForAReason
  <1>6. ProspectsAnswered'
    <2>1. reply'.recipient # Blank => reply'.recipient = m.replyTo /\ m.replyTo # Blank
      BY SendEffect
    <2>2. reply'.message = m
      BY SendEffect
    <2> QED
      BY <1>1, <1>2, <2>1, <2>2, LeadIsProspect DEF ProspectsAnswered
  <1> QED
    BY <1>4, <1>5, <1>6 DEF ReplyInv

LEMMA ReplyStep ==
    ASSUME TypeOK, CallInv, ReplyInv, [Next]_vars
    PROVE  ReplyInv'
  <1>1. UNCHANGED reply \/ reply' = NoReply \/ Send
    <2>1. ASSUME NEW m \in Messages, NEW box \in Mailbox, Take(m, box)
          PROVE  reply' = NoReply
      BY <2>1, TakeEffect
    <2>2. CASE UNCHANGED vars
      BY <2>2 DEF vars
    <2> QED
      BY <2>1, <2>2, PipelineEffects, RestartEffect, EnvironmentEffects DEF Next
  <1> QED
    BY <1>1, NoReplyInv, SendInv

LEMMA ReplyInvariant == Spec => [](TypeOK /\ CallInv /\ ReplyInv)
  <1>1. ASSUME Init
        PROVE  CallInv /\ ReplyInv
    <2>1. CallInv
      BY <1>1, NoWorkType DEF Init, CallInv
    <2>2. ReplyInv
      BY <1>1, NoReplyType
      DEF Init, ReplyInv, ReplySaysTemplate, SkippedForAReason, ProspectsAnswered
    <2> QED
      BY <2>1, <2>2
  <1>2. (TypeOK /\ CallInv /\ ReplyInv) /\ [Next]_vars => (TypeOK /\ CallInv /\ ReplyInv)'
    BY TypeStep, CallStep, ReplyStep
  <1> QED
    BY <1>1, <1>2, InitType, PTL DEF Spec

\* Whatever the model answers to the prompt, a reply has no link but its template's and those the
\* prospect wrote into a slot, and no braces but theirs (llm.py:104-157, 219-250).
THEOREM ReplySaysTemplateCorrect == Spec => []ReplySaysTemplate
  BY ReplyInvariant, PTL DEF ReplyInv

\* A lead is skipped exactly if there is nobody to answer or a slot without a default has no value,
\* and only a skipped lead has no job (reply_route.py:41-51, process_lead.py:422-440).
THEOREM SkippedForAReasonCorrect == Spec => []SkippedForAReason
  BY ReplyInvariant, PTL DEF ReplyInv

\* Nobody but a prospect is answered, unless the subject alone made the message a lead
\* (streeteasy.py:85-138, zillow.py:73-97).
THEOREM ProspectsAnsweredCorrect == Spec => []ProspectsAnswered
  BY ReplyInvariant, PTL DEF ReplyInv

-----------------------------------------------------------------------------
(***************************************************************************)
(* The cache of addresses: an entry is an address the row has had since the *)
(* process started.                                                        *)
(***************************************************************************)
HeldInv ==
    \A i \in Apartment : /\ apartments[i].address \in held[i]
                         /\ splits[i] = NotCached \/ splits[i] \in held[i]

LEMMA HeldStep ==
    ASSUME TypeOK, HeldInv, [Next]_vars
    PROVE  HeldInv'
  <1>1. CASE UNCHANGED <<apartments, held>> /\ splits' = splits
    BY <1>1 DEF HeldInv
  <1>2. CASE UNCHANGED <<apartments, held>> /\ splits' = Cached(splits, Addresses)
    <2>1. \A i \in Apartment : splits'[i] \in held[i]
      BY <1>2, CachedType DEF TypeOK, HeldInv
    <2> QED
      BY <1>2, <2>1 DEF HeldInv
  <1>3. CASE Restart
    BY <1>3, RestartEffect DEF HeldInv
  <1>4. ASSUME NEW i \in Apartment, NEW row \in Rows, UNCHANGED splits,
               apartments' = [apartments EXCEPT ![i] = row],
               held' = [held EXCEPT ![i] = @ \cup {row.address}]
        PROVE  HeldInv'
    BY <1>4 DEF HeldInv, TypeOK
  <1>5. \/ UNCHANGED <<apartments, held>> /\ splits' = splits
        \/ UNCHANGED <<apartments, held>> /\ splits' = Cached(splits, Addresses)
        \/ Restart
        \/ /\ UNCHANGED splits
           /\ \E i \in Apartment, row \in Rows :
                 /\ apartments' = [apartments EXCEPT ![i] = row]
                 /\ held' = [held EXCEPT ![i] = @ \cup {row.address}]
    <2>1. ASSUME NEW m \in Messages, NEW box \in Mailbox, Take(m, box)
          PROVE  UNCHANGED <<apartments, held, splits>>
      BY <2>1, TakeEffect
    <2>2. CASE UNCHANGED vars
      BY <2>2 DEF vars
    <2>3. CASE Pipeline
      BY <2>3, PipelineEffects
    <2> QED
      BY <2>1, <2>2, <2>3, EnvironmentEffects DEF Next
  <1> QED
    BY <1>1, <1>2, <1>3, <1>4, <1>5

LEMMA HeldInvariant == Spec => [](TypeOK /\ HeldInv)
  <1>1. Init => HeldInv
    BY LeadReplyAssumption DEF Init, HeldInv
  <1>2. (TypeOK /\ HeldInv) /\ [Next]_vars => (TypeOK /\ HeldInv)'
    BY TypeStep, HeldStep
  <1> QED
    BY <1>1, <1>2, InitType, PTL DEF Spec

\* Only a match by address has that strategy.
LEMMA AddressStrategy ==
    ASSUME TypeOK, [Next]_vars, work'.strategy = "address", work.strategy # "address"
    PROVE  MatchByAddress
  <1>1. ASSUME NEW m \in Messages, NEW box \in Mailbox, Take(m, box)
        PROVE  FALSE
    BY <1>1, TakeEffect
  <1>2. CASE MatchByListing
    BY <1>2, MatchByListingEffect
  <1>3. CASE FindUser \/ FindAgent \/ Fill
    BY <1>3, FindUserEffect, FindAgentEffect, FillEffect
  <1>4. CASE Send \/ CallRaises \/ Restart
    BY <1>4, SendEffect, RestartEffect, NoWorkType DEF CallRaises
  <1>5. CASE UNCHANGED vars
    BY <1>5 DEF vars
  <1> QED
    BY <1>1, <1>2, <1>3, <1>4, <1>5, EnvironmentEffects DEF Next, Pipeline

\* An apartment matched by its address has had it since the process started: the cache is stale, but
\* never wrong (airtable.py:203-240).
THEOREM MatchedAddressWasTrueCorrect == Spec => MatchedAddressWasTrue
  <1>1. ASSUME TypeOK, HeldInv, [Next]_vars
        PROVE  [work'.strategy = "address" /\ work.strategy # "address" =>
                  \E a \in held[work'.apartment] : Fits(lead.address, a)]_vars
    <2> SUFFICES ASSUME work'.strategy = "address", work.strategy # "address"
                 PROVE  \E a \in held[work'.apartment] : Fits(lead.address, a)
      OBVIOUS
    <2> DEFINE cached == Cached(splits, Addresses)
               i == work'.apartment
    <2>1. MatchByAddress
      BY <1>1, AddressStrategy
    <2>2. lead.address # NoSplit /\ i \in AddressMatches(cached, lead.address)
      BY <1>1, <2>1, MatchByAddressEffect
    <2>3. cached \in [Apartment -> Split \cup {NoSplit}]
          /\ \A j \in Apartment : cached[j] = IF splits[j] = NotCached THEN apartments[j].address
                                                                  ELSE splits[j]
      BY <1>1, CachedType DEF TypeOK
    <2>4. i \in Apartment /\ SameDoor(cached[i], lead.address)
          /\ Similarity[lead.address.street, cached[i].street] >= StreetThreshold
      BY <2>2, <2>3 DEF AddressMatches
    <2>5. cached[i] \in held[i]
      BY <1>1, <2>3, <2>4 DEF HeldInv
    <2>6. Fits(lead.address, cached[i])
      BY <2>2, <2>4 DEF Fits, SameDoor
    <2> QED
      BY <2>5, <2>6
  <1> QED
    BY <1>1, HeldInvariant, PTL DEF Spec, MatchedAddressWasTrue

LEMMA HasMinimum ==
    ASSUME NEW T, T \subseteq Nat, T # {}
    PROVE  \E x \in T : \A y \in T : x <= y
  <1> DEFINE R == {ss \in Nat \X Nat : ss[1] < ss[2]}
  <1>1. IsWellFoundedOn(OpToRel(<, Nat), Nat)
    BY NatLessThanWellFounded
  <1>2. R = OpToRel(<, Nat)
    BY Zenon DEF OpToRel
  <1>3. IsWellFoundedOn(R, Nat)
    BY <1>1, <1>2, Zenon
  <1>4. \A x, y \in Nat : y < x => <<y, x>> \in R
    BY Zenon
  <1>5. \A x, y \in Nat : ~(y < x) => x <= y
    BY SMT
  <1> HIDE DEF R
  <1>6. \E x \in T : \A y \in T : ~(<<y, x>> \in R)
    BY <1>3, WFMin
  <1> QED
    BY <1>4, <1>5, <1>6

\* If some row fits, one is the best.
LEMMA BestMatch ==
    ASSUME NEW cached \in [Apartment -> Split \cup {NoSplit}],
           NEW a \in Split, NEW i \in Apartment, Fits(a, cached[i])
    PROVE  AddressMatches(cached, a) # {}
  <1> DEFINE candidates == {j \in Apartment : SameDoor(cached[j], a)}
             Score(j) == Similarity[a.street, cached[j].street]
             T == {100 - Score(j) : j \in candidates}
  <1>1. \A j \in candidates : Score(j) \in 0..100
    <2> TAKE j \in candidates
    <2>1. cached[j] \in Split
      BY DEF SameDoor
    <2>2. <<a.street, cached[j].street>> \in Street \X Street
      BY <2>1 DEF Split
    <2> QED
      BY <2>2, ApartmentsAssumption
  <1>2. i \in candidates /\ Score(i) >= StreetThreshold
    BY DEF Fits, SameDoor
  <1>3. T \subseteq Nat /\ T # {}
    <2> HIDE DEF candidates, Score
    <2>1. \A j \in candidates : 100 - Score(j) \in Nat
      BY <1>1
    <2> QED
      BY <1>2, <2>1
  <1>4. \E x \in T : \A y \in T : x <= y
    <2> HIDE DEF T
    <2> QED
      BY <1>3, HasMinimum
  <1>5. PICK j \in candidates : \A k \in candidates : 100 - Score(j) <= 100 - Score(k)
    <2> HIDE DEF candidates, Score
    <2> QED
      BY <1>4
  <1>6. \A k \in candidates : Score(k) <= Score(j)
    <2> HIDE DEF candidates, Score
    <2> QED
      BY <1>1, <1>5
  <1>7. Score(j) >= StreetThreshold
    <2> HIDE DEF candidates, Score
    <2> QED
      BY <1>1, <1>2, <1>6 DEF StreetThreshold
  <1> QED
    BY <1>5, <1>6, <1>7 DEF AddressMatches

\* A lead ends up without an apartment only if no row that nobody has edited since the process
\* started fits: the match is complete, and the cache hides edited rows only
\* (process_lead.py:604-624, airtable.py:222-240).
THEOREM UnmatchedOnlyIfEditedCorrect == Spec => UnmatchedOnlyIfEdited
  <1>1. ASSUME TypeOK, HeldInv, [Next]_vars
        PROVE  [MatchByAddress /\ work'.strategy = "none" =>
                  \A i \in Apartment : held[i] = {apartments[i].address} =>
                      ~Fits(lead.address, apartments[i].address)]_vars
    <2> SUFFICES ASSUME MatchByAddress, work'.strategy = "none",
                        NEW i \in Apartment, held[i] = {apartments[i].address},
                        Fits(lead.address, apartments[i].address)
                 PROVE  FALSE
      OBVIOUS
    <2> DEFINE cached == Cached(splits, Addresses)
    <2>1. AddressMatches(cached, lead.address) = {}
      BY <1>1, MatchByAddressEffect DEF Fits
    <2>2. cached \in [Apartment -> Split \cup {NoSplit}] /\ cached[i] = apartments[i].address
      BY <1>1, CachedType DEF TypeOK, HeldInv
    <2>3. lead.address \in Split
      <3>1. work.message \in Message
        BY <1>1, MatchByAddressEffect, LeadReplyAssumption DEF TypeOK, WorkOK
      <3> QED
        BY <3>1, ParseType DEF lead, Fits
    <2> HIDE DEF cached
    <2> QED
      BY <2>1, <2>2, <2>3, BestMatch
  <1> QED
    BY <1>1, HeldInvariant, PTL DEF Spec, UnmatchedOnlyIfEdited

-----------------------------------------------------------------------------
(***************************************************************************)
(* The hours of a day, by division with remainder.                         *)
(***************************************************************************)
LEMMA Division ==
    ASSUME NEW d \in Nat \ {0}, NEW w \in Int
    PROVE  /\ w \div d \in Int /\ w % d \in 0..(d - 1)
           /\ w = d * (w \div d) + (w % d)
  OBVIOUS

LEMMA Multiples ==
    ASSUME NEW d \in Nat \ {0}, NEW j \in Int, NEW k \in Int
    PROVE  /\ d * j \in Int /\ d * (j + 1) = d * j + d
           /\ j < k => d * j + d <= d * k
  <1>1. d * j \in Int /\ d * (j + 1) = d * j + d
    OBVIOUS
  <1>2. j < k => d * (j + 1) <= d * k
    OBVIOUS
  <1> QED
    BY <1>1, <1>2

\* Quotient and remainder are the only ones.
LEMMA Remainder ==
    ASSUME NEW d \in Nat \ {0}, NEW k \in Int, NEW r \in 0..(d - 1)
    PROVE  (d * k + r) % d = r
  <1> DEFINE w == d * k + r
             q == w \div d
  <1>1. d * k \in Int /\ w \in Int
    BY Multiples
  <1>2. q \in Int /\ w % d \in 0..(d - 1) /\ w = d * q + (w % d)
    BY <1>1, Division
  <1>3. d * q \in Int
    BY <1>2, Multiples
  <1>4. ~(q < k)
    <2>1. q < k => d * q + d <= d * k
      BY <1>2, Multiples
    <2> QED
      BY <1>1, <1>2, <1>3, <2>1
  <1>5. ~(k < q)
    <2>1. k < q => d * k + d <= d * q
      BY <1>2, Multiples
    <2> QED
      BY <1>1, <1>2, <1>3, <2>1
  <1>6. q = k
    BY <1>2, <1>4, <1>5
  <1> QED
    BY <1>1, <1>2, <1>6

LEMMA DayType ==
    /\ Hour \in Nat \ {0} /\ Day \in Nat \ {0} /\ Hour <= Day
    /\ Start * Hour \in 0..(Day - 1) /\ End * Hour \in 0..Day
    /\ Start * Hour < End * Hour
  <1>1. Hour \in Nat \ {0} /\ Start \in 0..23 /\ End \in 0..24 /\ Start < End
    BY SendTimeAssumption, NightAssumption
  <1>2. Start * Hour \in Nat /\ End * Hour \in Nat
    BY <1>1
  <1>3. Start * Hour + Hour <= End * Hour
    BY <1>1
  <1>4. End * Hour <= 24 * Hour
    BY <1>1
  <1> QED
    BY <1>1, <1>2, <1>3, <1>4 DEF Day

\* Within one day the remainder moves with the time.
LEMMA SameDay ==
    ASSUME NEW w \in Int, NEW j \in Int, (w % Day) + j \in 0..(Day - 1)
    PROVE  (w + j) % Day = (w % Day) + j
  <1> DEFINE k == w \div Day
             r == w % Day
  <1>1. k \in Int /\ r \in 0..(Day - 1) /\ w = Day * k + r
    BY DayType, Division
  <1>2. Day * k \in Int
    BY <1>1, DayType, Multiples
  <1>3. w + j = Day * k + (r + j)
    BY <1>1, <1>2
  <1> HIDE DEF k, r
  <1>4. (Day * k + (r + j)) % Day = r + j
    BY <1>1, DayType, Remainder DEF r
  <1> QED
    BY <1>3, <1>4 DEF r

LEMMA DayLater ==
    ASSUME NEW w \in Int
    PROVE  (w + Day) % Day = w % Day
  <1> DEFINE k == w \div Day
             r == w % Day
  <1>1. k \in Int /\ r \in 0..(Day - 1) /\ w = Day * k + r
    BY DayType, Division
  <1>2. Day * k \in Int /\ Day * (k + 1) = Day * k + Day
    BY <1>1, DayType, Multiples
  <1>3. w + Day = Day * (k + 1) + r
    BY <1>1, <1>2, DayType
  <1>4. (Day * (k + 1) + r) % Day = r
    <2>1. k + 1 \in Int
      BY <1>1
    <2> HIDE DEF k, r
    <2> QED
      BY <2>1, <1>1, DayType, Remainder
  <1> QED
    BY <1>3, <1>4

\* The working hours, as an interval of the day.
Working(w) == Start * Hour <= w % Day /\ w % Day < End * Hour

LEMMA HourBound ==
    ASSUME NEW r \in Nat, NEW k \in Nat
    PROVE  k <= r \div Hour <=> k * Hour <= r
  <1> DEFINE q == r \div Hour
  <1>1. q \in Int /\ r % Hour \in 0..(Hour - 1) /\ r = Hour * q + (r % Hour)
    <2>1. r \in Int
      OBVIOUS
    <2> QED
      BY <2>1, DayType, Division
  <1>2. Hour * q \in Int /\ Hour * k \in Int /\ Hour * k = k * Hour
    BY <1>1, DayType, Multiples
  <1>3. /\ q < k => Hour * q + Hour <= Hour * k
        /\ k < q => Hour * k + Hour <= Hour * q
    BY <1>1, DayType, Multiples
  <1> HIDE DEF q
  <1>4. CASE q < k
    BY <1>1, <1>2, <1>3, <1>4, DayType DEF q
  <1>5. CASE k <= q
    <2>1. Hour * k <= Hour * q
      BY <1>1, <1>2, <1>3, <1>5, DayType
    <2> QED
      BY <1>1, <1>2, <1>5, <2>1, DayType DEF q
  <1> QED
    BY <1>1, <1>4, <1>5

LEMMA WallType ==
    ASSUME NEW t \in Int
    PROVE  Wall(t) \in Int
  BY SendTimeAssumption DEF Wall

LEMMA OpenIsWorking ==
    ASSUME NEW t \in Int
    PROVE  Open(t) <=> Working(Wall(t))
  <1> DEFINE r == Wall(t) % Day
  <1>1. r \in Nat
    <2>1. Wall(t) \in Int
      BY WallType
    <2>2. r \in 0..(Day - 1)
      BY <2>1, DayType, Division
    <2> QED
      BY <2>2, DayType
  <1>2. Start \in Nat /\ End \in Nat
    BY SendTimeAssumption
  <1>3. r \div Hour \in Int
    BY <1>1, DayType, Division
  <1>4. Start * Hour \in Int /\ End * Hour \in Int
    BY DayType
  <1> HIDE DEF r
  <1>5. /\ Start <= r \div Hour <=> Start * Hour <= r
        /\ End <= r \div Hour <=> End * Hour <= r
    BY <1>1, <1>2, HourBound
  <1>6. r \div Hour < End <=> r < End * Hour
    BY <1>1, <1>2, <1>3, <1>4, <1>5
  <1> QED
    BY <1>5, <1>6 DEF Open, HourOf, Working, r

\* A time of the day at which the working hours start.
IsStart(n) == n % Day = Start * Hour

LEMMA StartOnType ==
    ASSUME NEW w \in Int
    PROVE  /\ StartOn(w) \in Int /\ IsStart(StartOn(w))
           /\ StartOn(w) - Start * Hour <= w /\ w < StartOn(w) - Start * Hour + Day
  <1>1. w % Day \in 0..(Day - 1) /\ Start * Hour \in 0..(Day - 1)
    BY DayType, Division
  <1>2. (w + (Start * Hour - (w % Day))) % Day = Start * Hour
    BY <1>1, SameDay
  <1> QED
    BY <1>1, <1>2, DayType DEF StartOn, IsStart

\* Between a closed hour and the next start there is no working hour.
LEMMA ClosedUntilStart ==
    ASSUME NEW w \in Int, ~Working(w)
    PROVE  /\ NextStart(w) \in (w + 1)..(w + Day)
           /\ IsStart(NextStart(w)) /\ Working(NextStart(w))
           /\ \A v \in w..(NextStart(w) - 1) : ~Working(v)
  <1> DEFINE r == w % Day
             s == Start * Hour
             e == End * Hour
  <1>1. r \in 0..(Day - 1)
    BY DayType, Division
  <1>2. s \in 0..(Day - 1) /\ e \in 0..Day /\ s < e
    BY DayType
  <1>3. r < s \/ e <= r
    BY <1>1, <1>2 DEF Working
  <1>4. StartOn(w) = w - r + s
    BY DEF StartOn
  <1> HIDE DEF r, s, e
  <1>5. NextStart(w) = IF r < s THEN w - r + s ELSE w - r + s + Day
    BY <1>1, <1>2, <1>3, <1>4 DEF NextStart
  <1>6. NextStart(w) \in (w + 1)..(w + Day)
    BY <1>1, <1>2, <1>3, <1>5, DayType
  <1>7. IsStart(NextStart(w))
    <2>1. StartOn(w) \in Int /\ IsStart(StartOn(w))
      BY StartOnType
    <2>2. IsStart(StartOn(w) + Day)
      BY <2>1, DayLater DEF IsStart
    <2> QED
      BY <2>1, <2>2 DEF NextStart
  <1>8. Working(NextStart(w))
    BY <1>2, <1>7 DEF Working, IsStart, s, e
  <1>9. ASSUME NEW v \in w..(NextStart(w) - 1)
        PROVE  ~Working(v)
    <2>1. v \in Int /\ w <= v /\ v < NextStart(w)
      BY <1>6
    <2>2. CASE r + (v - w) < Day
      <3> DEFINE j == v - w
      <3>1. j \in Int /\ r + j \in 0..(Day - 1) /\ v = w + j
        BY <2>1, <2>2, <1>1, DayType
      <3> HIDE DEF j
      <3>2. v % Day = r + j
        BY <3>1, SameDay DEF r
      <3> QED
        BY <2>1, <2>2, <3>2, <1>1, <1>2, <1>3, <1>5 DEF Working, s, e, j
    <2>3. CASE Day <= r + (v - w)
      <3>1. e <= r
        BY <2>1, <2>3, <1>1, <1>2, <1>3, <1>5, DayType
      <3>2. r + (v - w) - Day \in 0..(s - 1)
        BY <2>1, <2>3, <3>1, <1>1, <1>2, <1>5, DayType
      <3> DEFINE j == v - w - Day
      <3>3. j \in Int /\ w + Day \in Int /\ v = (w + Day) + j /\ r + j \in 0..(Day - 1)
        BY <2>1, <3>2, <1>1, <1>2, DayType
      <3> HIDE DEF j
      <3>4. (w + Day) % Day = r
        BY DayLater DEF r
      <3>5. v % Day = r + j
        BY <3>3, <3>4, SameDay
      <3> QED
        BY <2>1, <3>2, <3>5, <1>1, <1>2, DayType DEF Working, s, j
    <2> QED
      BY <2>1, <2>2, <2>3, <1>1, DayType
  <1> QED
    BY <1>6, <1>7, <1>8, <1>9

\* Two starts are the same or a day apart.
LEMMA StartsApart ==
    ASSUME NEW m \in Int, NEW n \in Int, IsStart(m), IsStart(n)
    PROVE  n <= m - Day \/ n >= m
  <1> DEFINE j == m \div Day
             k == n \div Day
             s == Start * Hour
  <1>1. j \in Int /\ k \in Int /\ m = Day * j + s /\ n = Day * k + s
    BY DayType, Division DEF IsStart
  <1>2. Day * j \in Int /\ Day * k \in Int /\ (k < j => Day * k + Day <= Day * j)
        /\ (j < k => Day * j + Day <= Day * k)
    BY <1>1, DayType, Multiples
  <1>3. s \in Int
    BY DayType
  <1> HIDE DEF j, k, s
  <1> QED
    BY <1>1, <1>2, <1>3, DayType

\* The start of the working hours after the clocks have changed.
Morning == StartOn(Change + Before)

LEMMA ChangeIsAtNight ==
    /\ Morning \in Int /\ IsStart(Morning)
    /\ Change + Before \in (Morning - Start * Hour)..(Morning - 1)
    /\ Change + AfterChange \in (Morning - Start * Hour)..(Morning - 1)
  <1>1. Change + Before \in Int /\ Change + AfterChange \in Int
    BY SendTimeAssumption
  <1>2. /\ Change + Before < Morning /\ Change + AfterChange < Morning
        /\ StartOn(Change + AfterChange) = Morning
    BY NightAssumption DEF Morning
  <1>3. /\ Morning \in Int /\ IsStart(Morning)
        /\ Morning - Start * Hour <= Change + Before
    BY <1>1, StartOnType DEF Morning
  <1>4. Morning - Start * Hour <= Change + AfterChange
    BY <1>1, <1>2, StartOnType
  <1> QED
    BY <1>1, <1>2, <1>3, <1>4, DayType

\* A start and its jitter lie on one side of the change.
LEMMA InstantOfStart ==
    ASSUME NEW m \in Int, IsStart(m), NEW j \in 0..OutMax
    PROVE  Instant(m + j) = IF m < Morning THEN m + j - Before ELSE m + j - AfterChange
  <1>1. OutMax \in Nat /\ Start * Hour + OutMax < Day
    BY SendTimeAssumption, NightAssumption
  <1>2. m <= Morning - Day \/ m >= Morning
    BY ChangeIsAtNight, StartsApart
  <1>3. CASE m < Morning
    <2>1. m + j < Change + Before
      BY <1>1, <1>2, <1>3, ChangeIsAtNight, DayType
    <2>2. m + j \in Int
      BY <1>1
    <2> QED
      BY <1>3, <2>1, <2>2, SendTimeAssumption DEF Instant
  <1>4. CASE m >= Morning
    <2>1. m + j >= Change + Before /\ m + j >= Change + AfterChange
      BY <1>1, <1>4, ChangeIsAtNight, DayType, SendTimeAssumption
    <2>2. m + j \in Int /\ Change + Before \in Int /\ Change + AfterChange \in Int
      BY <1>1, SendTimeAssumption
    <2>3. ~(m < Morning) /\ ~(m + j < Change + Before \/ m + j < Change + AfterChange)
      BY <1>4, <2>1, <2>2, ChangeIsAtNight
    <2> QED
      BY <2>2, <2>3, SendTimeAssumption DEF Instant
  <1> QED
    BY <1>3, <1>4, ChangeIsAtNight

Opening(t) == Instant(NextStart(Wall(t)))

LEMMA OpeningIsFirst ==
    ASSUME NEW t \in Int, ~Open(t)
    PROVE  /\ Opening(t) \in t..(t + Day + Hour) /\ Open(Opening(t))
           /\ \A k \in t..(Opening(t) - 1) : ~Open(k)
           /\ \A j \in 0..OutMax : OutOfHours(t, j) = Opening(t) + j
  <1> DEFINE w == Wall(t)
             m == NextStart(w)
             n == Opening(t)
  <1>1. w \in Int /\ ~Working(w)
    BY WallType, OpenIsWorking
  <1>2. /\ m \in Int /\ w < m /\ m <= w + Day
        /\ IsStart(m) /\ Working(m)
    BY <1>1, ClosedUntilStart, DayType
  <1>3. \A v \in Int : w <= v /\ v < m => ~Working(v)
    BY <1>1, <1>2, ClosedUntilStart
  <1>4. Before \in Int /\ AfterChange \in Int /\ Change \in Int /\ Before - AfterChange <= Hour
        /\ OutMax \in Nat
    BY SendTimeAssumption, NightAssumption
  <1>5. n = IF m < Morning THEN m - Before ELSE m - AfterChange
    <2>1. Instant(m + 0) = IF m < Morning THEN m + 0 - Before ELSE m + 0 - AfterChange
      BY <1>2, <1>4, InstantOfStart
    <2>2. m + 0 = m
      BY <1>2
    <2>3. n = Instant(m)
      BY DEF Opening
    <2> HIDE DEF m, n
    <2>4. n = Instant(m + 0)
      BY <2>2, <2>3
    <2> QED
      BY <2>1, <2>4, <1>2, <1>4, ChangeIsAtNight
  <1>6. m <= Morning - Day \/ m >= Morning
    BY <1>2, ChangeIsAtNight, StartsApart
  <1>7. \A j \in 0..OutMax : OutOfHours(t, j) = n + j
    <2> TAKE j \in 0..OutMax
    <2>1. Instant(m + j) = IF m < Morning THEN m + j - Before ELSE m + j - AfterChange
      BY <1>2, InstantOfStart
    <2>2. OutOfHours(t, j) = Instant(m + j)
      BY DEF OutOfHours
    <2> HIDE DEF m, n
    <2> QED
      BY <2>1, <2>2, <1>2, <1>4, <1>5
  <1>8. w = IF t < Change THEN t + Before ELSE t + AfterChange
    BY DEF Wall
  <1>9. \A k \in Int : Wall(k) = IF k < Change THEN k + Before ELSE k + AfterChange
    BY DEF Wall
  <1> HIDE DEF w, m, n
  <1>10. n \in Int
    BY <1>2, <1>4, <1>5
  <1>11. t <= n /\ n <= t + Day + Hour /\ Wall(n) = m
    BY <1>2, <1>4, <1>5, <1>6, <1>8, <1>9, <1>10, ChangeIsAtNight, DayType
  <1>12. Open(n)
    BY <1>2, <1>10, <1>11, OpenIsWorking
  <1>13. ASSUME NEW k \in Int, t <= k, k < n
         PROVE  ~Open(k)
    <2>1. Wall(k) < m
      BY <1>2, <1>4, <1>5, <1>6, <1>8, <1>9, <1>10, <1>13, ChangeIsAtNight, DayType
    <2>2. CASE w <= Wall(k)
      BY <2>1, <2>2, <1>3, <1>13, WallType, OpenIsWorking
    <2>3. CASE Wall(k) < w
      \* The clocks have gone back in between.
      <3>1. t < Change /\ Change <= k /\ Wall(k) = k + AfterChange
        BY <2>3, <1>4, <1>8, <1>9, <1>13
      <3>2. Wall(k) \in Int /\ Morning - Start * Hour <= Wall(k) /\ Wall(k) < Morning
        BY <3>1, <2>1, <2>3, <1>1, <1>2, <1>4, <1>6, <1>8, <1>13, ChangeIsAtNight, DayType
      <3>3. Wall(k) % Day < Start * Hour
        <4> DEFINE u == Morning - Start * Hour
                   j == Wall(k) - u
        <4>1. u \in Int /\ j \in 0..(Start * Hour - 1) /\ Wall(k) = Morning + (j - Start * Hour)
          BY <3>2, ChangeIsAtNight, DayType
        <4>2. (Morning % Day) + (j - Start * Hour) = j
          BY <4>1, ChangeIsAtNight, DayType DEF IsStart
        <4> HIDE DEF u, j
        <4>3. Wall(k) % Day = j
          <5>1. j - Start * Hour \in Int /\ j \in 0..(Day - 1)
            BY <4>1, DayType
          <5> QED
            BY <5>1, <4>1, <4>2, ChangeIsAtNight, SameDay
        <4> QED
          BY <4>1, <4>3, DayType
      <3>4. ~Working(Wall(k))
        <4>1. Wall(k) % Day \in Int
          BY <3>2, DayType, Division
        <4> QED
          BY <3>3, <4>1, DayType DEF Working
      <3> QED
        BY <3>4, <1>13, OpenIsWorking
    <2> QED
      BY <2>2, <2>3, <1>1, <1>13, WallType
  <1> QED
    BY <1>7, <1>10, <1>11, <1>12, <1>13 DEF n

LEMMA FirstOpenIsOpening ==
    ASSUME NEW t \in Int, ~Open(t)
    PROVE  FirstOpen(t) = Opening(t)
  <1> DEFINE First(n) == n \in t..(t + Day + Hour) /\ Open(n) /\ \A k \in t..(n - 1) : ~Open(k)
  <1>1. First(Opening(t)) /\ Opening(t) \in Int
    BY OpeningIsFirst, DayType
  <1>2. First(FirstOpen(t))
    BY <1>1 DEF FirstOpen
  <1>3. FirstOpen(t) \in Int
    BY <1>2, DayType
  <1>4. ~(FirstOpen(t) < Opening(t))
    BY <1>1, <1>2, <1>3
  <1>5. ~(Opening(t) < FirstOpen(t))
    BY <1>1, <1>2, <1>3
  <1> QED
    BY <1>1, <1>3, <1>4, <1>5

LEMMA SendTimesInHours ==
    ASSUME NEW t \in Int, NEW at \in SendTimes(t)
    PROVE  IF Open(t) THEN at - t \in InMin..InMax ELSE at - FirstOpen(t) \in OutMin..OutMax
  <1>1. InMin \in Nat /\ InMax \in Nat /\ OutMin \in Nat /\ OutMax \in Nat
    BY SendTimeAssumption
  <1>2. CASE Open(t)
    <2>1. PICK j \in InMin..InMax : at = t + j
      BY <1>2 DEF SendTimes
    <2> QED
      BY <1>1, <1>2, <2>1
  <1>3. CASE ~Open(t)
    <2>1. PICK j \in OutMin..OutMax : at = OutOfHours(t, j)
      BY <1>3 DEF SendTimes
    <2>2. j \in 0..OutMax
      BY <1>1, <2>1
    <2>3. at = Opening(t) + j /\ Opening(t) \in Int /\ FirstOpen(t) = Opening(t)
      BY <1>3, <2>1, <2>2, OpeningIsFirst, FirstOpenIsOpening, DayType
    <2> QED
      BY <1>1, <1>3, <2>1, <2>3
  <1> QED
    BY <1>2, <1>3

\* A reply that is queued within the working hours waits for its jitter only, any other one until
\* they begin and their jitter, whatever the zone's offsets and on the nights they change as well
\* (humanization.py:14-52, strategies.py:120-158).
THEOREM HeldUntilHoursCorrect == Spec => HeldUntilHours
  <1>1. ASSUME TypeOK, [Next]_vars
        PROVE  [reply'.sendAt # NoTime /\ reply' # reply =>
                  IF Open(now)
                  THEN reply'.sendAt - now \in InMin..InMax
                  ELSE reply'.sendAt - FirstOpen(now) \in OutMin..OutMax]_vars
    <2> SUFFICES ASSUME reply'.sendAt # NoTime, reply' # reply
                 PROVE  IF Open(now)
                        THEN reply'.sendAt - now \in InMin..InMax
                        ELSE reply'.sendAt - FirstOpen(now) \in OutMin..OutMax
      OBVIOUS
    <2>1. Send
      <3>1. ASSUME NEW m \in Messages, NEW box \in Mailbox, Take(m, box)
            PROVE  FALSE
        BY <3>1 DEF Take, NoReply
      <3>2. CASE Pipeline
        BY <1>1, <3>2, PipelineEffects
      <3>3. ~Restart
        BY DEF Restart, NoReply
      <3>4. ~UNCHANGED vars
        BY DEF vars
      <3> QED
        BY <1>1, <3>1, <3>2, <3>3, <3>4, EnvironmentEffects DEF Next
    <2>2. now \in Int
      BY <1>1, LeadReplyAssumption DEF TypeOK
    <2>3. reply'.sendAt \in SendTimes(now)
      <3> DEFINE route == Route(work.message, work.body)
      <3>1. PICK at \in (IF route = "skipped" THEN {NoTime} ELSE SendTimes(now)) :
               reply'.sendAt = at
        BY <2>1 DEF Send
      <3> QED
        BY <3>1
    <2> QED
      BY <2>2, <2>3, SendTimesInHours
  <1> QED
    BY <1>1, TypeCorrectness, PTL DEF Spec, HeldUntilHours

=============================================================================
