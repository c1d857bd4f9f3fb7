---------------------------- MODULE RepeatProofs ----------------------------
(***************************************************************************)
(* Repeat inquiries, for every value of the constants.                     *)
(***************************************************************************)
EXTENDS OutcomeProofs

-----------------------------------------------------------------------------
(***************************************************************************)
(* The inductive invariants.                                               *)
(***************************************************************************)

\* The calls of a run after its person lookup, up to the one that records the person.
AfterLookup == {"find", "create", "send", "record", "recordPerson"}

\* A row of the persons table is of a message that was replied to.
PersonRows ==
    \A r \in persons : /\ r.mailbox = MailboxOf[r.msg]
                       /\ r.person = PersonOf[r.msg]
                       /\ r.at <= now
                       /\ Replied(r.msg)

\* The run's person is its lead's.
PersonIsOwn == call.person # NoPerson => call.person = PersonOf[lead]

\* A reply to another message of the person of lead l.
Predecessor(l) == \E k \in DOMAIN jobs : jobs[k].lead # l /\ SamePerson(jobs[k].lead, l)

RepeatHasReason == call.repeat => Predecessor(lead)

PredecessorInv == PersonRows /\ PersonIsOwn /\ RepeatHasReason /\ RepeatHasPredecessor

\* What the lookup has found out about the person of a run that it lets go on as a first contact.
FirstContactStillHolds ==
    /\ RepeatMode = "enforce" /\ call.pc \in AfterLookup
    /\ call.person # NoPerson /\ ~call.repeat /\ lead \notin failedOpen
    => \A r \in persons :
          r.msg # lead /\ r.person = call.person /\ r.mailbox = MailboxOf[lead] =>
              now - r.at > RepeatWindow

RepeatReply(l) == \E j \in DOMAIN jobs : jobs[j].lead = l /\ jobs[j].template = "repeat"

\* A repeat run that is past its send has its repeat reply.
RepeatIsSent == call.pc \in {"record", "recordPerson"} /\ call.repeat => RepeatReply(lead)

SeenInv == FirstContactStillHolds /\ RepeatIsSent /\ RepeatIsSeen

LEMMA InitRepeat == Init => PredecessorInv /\ SeenInv
  BY DEF Init, ServicesInit, ProcessLeadInit, NoCall, PredecessorInv, PersonRows, PersonIsOwn,
         RepeatHasReason, RepeatHasPredecessor, SeenInv, FirstContactStillHolds, RepeatIsSent,
         RepeatIsSeen, AfterLookup

-----------------------------------------------------------------------------
(***************************************************************************)
(* The jobs, and the run that enqueues one.                                *)
(***************************************************************************)

\* What a step does to the jobs: none is taken away, one may be added.
LEMMA JobsGrow ==
    ASSUME TypeOK, [Next]_vars
    PROVE  /\ \A k \in DOMAIN jobs : /\ k \in DOMAIN jobs'
                                     /\ jobs'[k].lead = jobs[k].lead
                                     /\ jobs'[k].template = jobs[k].template
           /\ \/ DOMAIN jobs' = DOMAIN jobs
              \/ /\ call.pc = "send"
                 /\ DOMAIN jobs = 1..Len(jobs) /\ Len(jobs) \in Nat
                 /\ DOMAIN jobs' = DOMAIN jobs \cup {Len(jobs) + 1}
                 /\ jobs'[Len(jobs) + 1].lead = lead
                 /\ jobs'[Len(jobs) + 1].template = IF call.repeat THEN "repeat" ELSE "first"
  <1>1. CASE PollerStep \/ PollerFailure
    <2>1. CASE Enqueue /\ call.pc = "send"
      <3>1. call \in Call /\ lead \in Lead /\ ServicesTypeOK
        BY <2>1 DEF TypeOK, ProcessLeadTypeOK
      <3>2. DOMAIN jobs = 1..Len(jobs) /\ Len(jobs) \in Nat
        BY <3>1, LenProperties DEF ServicesTypeOK
      <3> QED
        BY <2>1, <3>1, <3>2, EnqueueEffect
    <2>2. CASE jobs' = jobs
      BY <2>2
    <2> QED
      BY <1>1, <2>1, <2>2, PollerEffects
  <1>2. CASE WorkerStep \/ WorkerFailure
    BY <1>2, WorkerKeepsJobs
  <1>3. CASE Tick \/ UNCHANGED vars
    BY <1>3 DEF Tick, vars, services
  <1> QED
    BY <1>1, <1>2, <1>3 DEF Next

LEMMA PredecessorStays ==
    ASSUME TypeOK, [Next]_vars, NEW l, Predecessor(l)
    PROVE  \E k \in DOMAIN jobs' : jobs'[k].lead # l /\ SamePerson(jobs'[k].lead, l)
  BY JobsGrow DEF Predecessor, SamePerson

\* Where a run gets its person and its template from.
LEMMA RepeatSteps ==
    ASSUME TypeOK, PollerStep \/ PollerFailure
    PROVE  \/ call'.person = NoPerson /\ call'.repeat = FALSE
              /\ call'.pc \in {"idle", "fetch"}
           \/ /\ lead' = lead /\ call.pc # "idle"
              /\ \/ /\ call'.person = call.person /\ call'.repeat = call.repeat
                    /\ call'.pc \in AfterLookup => call.pc \in AfterLookup
                    /\ call'.pc \in {"record", "recordPerson"} =>
                          call.pc \in {"record", "recordPerson"} \/ (SendReply /\ Enqueue)
                 \/ /\ call'.person \in {PersonOf[lead], NoPerson}
                    /\ call'.pc \in {"person", "find", "return"}
                    /\ call'.repeat = IsRepeat(call'.person)
                 \/ /\ CheckPersonFailsOpen
                    /\ call'.person = PersonOf[lead]
                    /\ call'.repeat = call.repeat
                    /\ call'.pc = "find"
  <1>1. call \in Call
    BY DEF TypeOK, ProcessLeadTypeOK
  <1> USE DEF lead, AfterLookup
  <1>2. ASSUME NEW pc \in Pc, Goto(pc)
        PROVE  /\ call'.pc = pc /\ lead' = lead
               /\ call'.person = call.person /\ call'.repeat = call.repeat
    BY <1>1, <1>2, GotoTypes
  <1>3. CASE \E l \in Lead : Dispatch(l)
    <2>1. ASSUME NEW l \in Lead PROVE
             /\ [NoCall EXCEPT !.pc = "fetch", !.lead = l].person = NoPerson
             /\ [NoCall EXCEPT !.pc = "fetch", !.lead = l].repeat = FALSE
             /\ [NoCall EXCEPT !.pc = "fetch", !.lead = l].pc = "fetch"
      BY DEF NoCall
    <2> QED
      BY <1>3, <2>1 DEF Dispatch
  <1>4. CASE MarkProcessed \/ Interrupted
    BY <1>4 DEF MarkProcessed, Interrupted, NoCall
  <1>5. CASE Fetch \/ FetchFailsOpen
    BY <1>2, <1>5 DEF Fetch, FetchFailsOpen, Pc
  <1>6. CASE CheckPerson
    <2>1. PICK p \in {PersonOf[lead], NoPerson} :
             call' = [call EXCEPT !.pc = "find", !.person = p, !.repeat = IsRepeat(p)]
      BY <1>6 DEF CheckPerson
    <2>2. call'.person = p /\ call'.repeat = IsRepeat(p) /\ call'.pc = "find" /\ lead' = lead
      BY <1>1, <2>1 DEF Call
    <2> QED
      BY <1>6, <2>2 DEF CheckPerson
  <1>7. CASE CheckPersonFailsOpen
    <2>1. call' = [call EXCEPT !.pc = "find", !.person = PersonOf[lead]]
      BY <1>7 DEF CheckPersonFailsOpen
    <2>2. /\ call'.person = PersonOf[lead] /\ call'.repeat = call.repeat
          /\ call'.pc = "find" /\ lead' = lead
      BY <1>1, <2>1 DEF Call
    <2> QED
      BY <1>7, <2>2 DEF CheckPersonFailsOpen
  <1>8. CASE FindOrCreate
    <2>1. CASE Goto("create")
      BY <1>2, <1>8, <2>1 DEF FindOrCreate, Pc
    <2>2. CASE \E i \in FindInquiry(lead) : call' = [call EXCEPT !.pc = "send", !.inquiry = i]
      <3>1. /\ call'.person = call.person /\ call'.repeat = call.repeat
            /\ call'.pc = "send" /\ lead' = lead
        BY <1>1, <2>2 DEF Call
      <3> QED
        BY <1>8, <3>1 DEF FindOrCreate
    <2> QED
      BY <1>8, <2>1, <2>2 DEF FindOrCreate
  <1>9. CASE CreateInquiry
    <2>1. /\ call'.person = call.person /\ call'.repeat = call.repeat
          /\ call'.pc = "send" /\ lead' = lead
      BY <1>1, <1>9 DEF CreateInquiry, Call
    <2> QED
      BY <1>9, <2>1 DEF CreateInquiry
  <1>10. CASE SendReply
    BY <1>2, <1>10 DEF SendReply, Pc
  <1>11. CASE RecordFingerprint \/ RecordPerson \/ RecordFails
    BY <1>2, <1>11 DEF RecordFingerprint, RecordPerson, RecordFails, AfterRecord, Pc
  <1>12. CASE WriteSupabaseRow \/ PostSlack
    BY <1>2, <1>12 DEF WriteSupabaseRow, PostSlack, Pc
  <1>13. CASE CallRaises \/ CallRaisesLate
    BY <1>2, <1>13 DEF CallRaises, CallRaisesLate, Pc
  <1> QED
    BY <1>3, <1>4, <1>5, <1>6, <1>7, <1>8, <1>9, <1>10, <1>11, <1>12, <1>13
    DEF PollerStep, PollerFailure

-----------------------------------------------------------------------------
(***************************************************************************)
(* A repeat reply has a predecessor.                                       *)
(***************************************************************************)

\* A row is recorded by a run that has enqueued its reply, for its own person.
LEMMA NextPersonRows ==
    ASSUME TypeOK, PredecessorInv, RunHasItsReason, PollerStep \/ PollerFailure
    PROVE  PersonRows'
  <1>1. \A l : Replied(l) => \E j \in DOMAIN jobs' : jobs'[j].lead = l
    BY RepliedStays DEF Next
  <1>2. now' = now
    BY PollerEffects
  <1>3. CASE persons' = persons
    BY <1>1, <1>2, <1>3 DEF PredecessorInv, PersonRows, Replied
  <1>4. CASE RecordPerson
    <2> DEFINE row == [person |-> call.person, mailbox |-> MailboxOf[lead],
                       msg |-> lead, at |-> now]
    <2>1. persons' = persons \cup {row}
      BY <1>4 DEF RecordPerson, DB!RecordPersonReply
    <2>2. /\ row.mailbox = MailboxOf[row.msg] /\ row.person = call.person
          /\ row.msg = lead /\ row.at = now
      OBVIOUS
    <2> HIDE DEF row
    <2>3. call.person = PersonOf[lead]
      <3>1. call.person \in Person
        BY <1>4 DEF RecordPerson, TypeOK, ProcessLeadTypeOK
      <3> QED
        BY <3>1, ProcessLeadAssumption DEF PredecessorInv, PersonIsOwn
    <2>4. Replied(lead)
      BY <1>4 DEF RecordPerson, RunHasItsReason
    <2>5. now \in Nat
      BY ProcessLeadAssumption DEF TypeOK, ProcessLeadTypeOK
    <2> QED
      BY <1>1, <1>2, <2>1, <2>2, <2>3, <2>4, <2>5 DEF PredecessorInv, PersonRows, Replied
  <1> QED
    BY <1>3, <1>4, PollerEffects

\* What the lookup has found when it says repeat.
LEMMA LookupHasPredecessor ==
    ASSUME PersonRows, IsRepeat(PersonOf[lead])
    PROVE  Predecessor(lead)
  <1>1. PICK r \in persons : /\ r.person = PersonOf[lead]
                             /\ r.mailbox = MailboxOf[lead]
                             /\ r.msg # lead
    BY DEF IsRepeat, DB!RecentPersonReply
  <1>2. Replied(r.msg) /\ SamePerson(r.msg, lead)
    BY <1>1 DEF PersonRows, SamePerson
  <1> QED
    BY <1>1, <1>2 DEF Predecessor, Replied

LEMMA NextPredecessor ==
    ASSUME TypeOK, PredecessorInv, RunHasItsReason, PollerStep \/ PollerFailure
    PROVE  PredecessorInv'
  <1>1. PersonRows'
    BY NextPersonRows
  <1>2. PersonIsOwn'
    BY RepeatSteps DEF PredecessorInv, PersonIsOwn
  <1>3. RepeatHasReason'
    <2> SUFFICES ASSUME call'.repeat
                 PROVE  \E k \in DOMAIN jobs' : jobs'[k].lead # lead' /\ SamePerson(jobs'[k].lead, lead')
      BY DEF RepeatHasReason, Predecessor, SamePerson
    <2>1. lead' = lead /\ (call.repeat \/ IsRepeat(PersonOf[lead]))
      BY RepeatSteps DEF IsRepeat
    <2>2. Predecessor(lead)
      BY <2>1, LookupHasPredecessor DEF PredecessorInv, RepeatHasReason
    <2> QED
      BY <2>1, <2>2, PredecessorStays DEF Next
  <1>4. RepeatHasPredecessor'
    <2> SUFFICES ASSUME NEW j \in DOMAIN jobs', jobs'[j].template = "repeat"
                 PROVE  \E k \in 1..(j - 1) : /\ jobs'[k].lead # jobs'[j].lead
                                              /\ SamePerson(jobs'[k].lead, jobs'[j].lead)
      BY DEF RepeatHasPredecessor, SamePerson
    <2>0. DOMAIN jobs = 1..Len(jobs) /\ Len(jobs) \in Nat
      BY LenProperties DEF TypeOK, ServicesTypeOK
    <2>1. CASE j \in DOMAIN jobs
      <3>1. jobs[j].template = "repeat" /\ jobs'[j].lead = jobs[j].lead
        BY <2>1, JobsGrow DEF Next
      <3>2. PICK k \in 1..(j - 1) : jobs[k].lead # jobs[j].lead
                                    /\ SamePerson(jobs[k].lead, jobs[j].lead)
        BY <2>1, <3>1 DEF PredecessorInv, RepeatHasPredecessor
      <3>3. k \in DOMAIN jobs
        BY <2>0, <2>1
      <3>4. jobs'[k].lead = jobs[k].lead
        BY <3>3, JobsGrow DEF Next
      <3> QED
        BY <3>1, <3>2, <3>4
    <2>2. CASE j \notin DOMAIN jobs
      <3>1. /\ j = Len(jobs) + 1
            /\ jobs'[j].lead = lead
            /\ call.repeat
        BY <2>2, JobsGrow DEF Next
      <3>2. PICK k \in DOMAIN jobs : jobs[k].lead # lead /\ SamePerson(jobs[k].lead, lead)
        BY <3>1 DEF PredecessorInv, RepeatHasReason, Predecessor
      <3>3. k \in 1..(j - 1)
        BY <2>0, <3>1
      <3>4. jobs'[k].lead = jobs[k].lead
        BY JobsGrow DEF Next
      <3> QED
        BY <3>1, <3>2, <3>3, <3>4
    <2> QED
      BY <2>1, <2>2
  <1> QED
    BY <1>1, <1>2, <1>3, <1>4 DEF PredecessorInv

-----------------------------------------------------------------------------
(***************************************************************************)
(* A repeat inside the window is seen.                                     *)
(***************************************************************************)

LEMMA PersonTimes ==
    ASSUME TypeOK
    PROVE  /\ now \in Nat /\ RepeatWindow \in Nat
           /\ \A r \in persons : r.at \in Nat
  BY ProcessLeadAssumption DEF TypeOK, ProcessLeadTypeOK

LEMMA RepeatReplyStays ==
    ASSUME TypeOK, [Next]_vars, NEW l, RepeatReply(l)
    PROVE  \E j \in DOMAIN jobs' : jobs'[j].lead = l /\ jobs'[j].template = "repeat"
  BY JobsGrow DEF RepeatReply

\* The new row is the youngest: every other of its person is out of the window, unless the run
\* knew and answered as to a repeat, or its lookup raised.
LEMMA RecordSeen ==
    ASSUME TypeOK, PredecessorInv, SeenInv, RecordPerson
    PROVE  RepeatIsSeen'
  <1> USE DEF SeenInv
  <1> SUFFICES ASSUME RepeatMode = "enforce", NEW r \in persons', NEW s \in persons',
                      r.msg # s.msg, r.person = s.person, r.mailbox = s.mailbox,
                      s.at - r.at \in 0..RepeatWindow
               PROVE  \/ RepeatReply(r.msg) \/ RepeatReply(s.msg)
                      \/ r.msg \in failedOpen \/ s.msg \in failedOpen
    BY DEF RepeatIsSeen, RepeatReply, JobsOf, RecordPerson, services, history
  <1> DEFINE row == [person |-> call.person, mailbox |-> MailboxOf[lead],
                     msg |-> lead, at |-> now]
  <1>1. persons' = persons \cup {row}
    BY DEF RecordPerson, DB!RecordPersonReply
  <1>2. /\ row.mailbox = MailboxOf[lead] /\ row.person = call.person
        /\ row.msg = lead /\ row.at = now
    OBVIOUS
  <1> HIDE DEF row
  <1>3. /\ call.pc = "recordPerson" /\ call.person \in Person
        /\ call.person # NoPerson
    BY ProcessLeadAssumption DEF RecordPerson, TypeOK, ProcessLeadTypeOK
  <1>4. \/ RepeatReply(lead) \/ lead \in failedOpen
        \/ \A q \in persons : q.msg # lead /\ q.person = call.person /\ q.mailbox = MailboxOf[lead]
              => now - q.at > RepeatWindow
    BY <1>3 DEF FirstContactStillHolds, RepeatIsSent, AfterLookup
  <1>5. /\ now \in Nat /\ RepeatWindow \in Nat
        /\ \A q \in persons : q.at \in Nat /\ q.at <= now
    BY PersonTimes DEF PredecessorInv, PersonRows
  <1>6. CASE r \in persons /\ s \in persons
    BY <1>6 DEF RepeatIsSeen, RepeatReply, JobsOf
  <1>7. CASE r \in persons /\ s = row
    BY <1>2, <1>4, <1>5, <1>7
  <1>8. CASE r = row /\ s \in persons
    <2>1. s.at = now
      BY <1>2, <1>5, <1>8
    <2> QED
      BY <1>2, <1>4, <1>5, <1>8, <2>1
  <1> QED
    BY <1>1, <1>6, <1>7, <1>8

LEMMA NextSeen ==
    ASSUME TypeOK, PredecessorInv, SeenInv, PollerStep \/ PollerFailure
    PROVE  SeenInv'
  <1> USE DEF SeenInv
  <1>1. now' = now /\ failedOpen \subseteq failedOpen'
    BY PollerEffects DEF FetchFailsOpen, CheckPersonFailsOpen
  <1>2. \A l : RepeatReply(l) => \E j \in DOMAIN jobs' : jobs'[j].lead = l /\ jobs'[j].template = "repeat"
    BY RepeatReplyStays DEF Next
  <1>3. RepeatIsSent'
    <2> SUFFICES ASSUME call'.pc \in {"record", "recordPerson"}, call'.repeat
                 PROVE  \E j \in DOMAIN jobs' : jobs'[j].lead = lead' /\ jobs'[j].template = "repeat"
      BY DEF RepeatIsSent, RepeatReply
    <2>1. /\ lead' = lead /\ call.repeat
          /\ call.pc \in {"record", "recordPerson"} \/ (SendReply /\ Enqueue)
      BY RepeatSteps
    <2>2. CASE call.pc \in {"record", "recordPerson"}
      BY <1>2, <2>1, <2>2 DEF RepeatIsSent
    <2>3. CASE SendReply /\ Enqueue
      <3>1. call \in Call /\ lead \in Lead
        BY <2>3 DEF SendReply, TypeOK, ProcessLeadTypeOK
      <3> QED
        BY <2>1, <2>3, <3>1, EnqueueEffect DEF TypeOK
    <2> QED
      BY <2>1, <2>2, <2>3
  <1>4. RepeatIsSeen'
    <2>1. CASE persons' = persons
      BY <1>1, <1>2, <2>1 DEF RepeatIsSeen, RepeatReply, JobsOf
    <2>2. CASE RecordPerson
      BY <2>2, RecordSeen
    <2> QED
      BY <2>1, <2>2, PollerEffects
  <1>5. FirstContactStillHolds'
    <2> SUFFICES ASSUME RepeatMode = "enforce", call'.pc \in AfterLookup,
                        call'.person # NoPerson, ~call'.repeat, lead' \notin failedOpen',
                        NEW r \in persons', r.msg # lead', r.person = call'.person,
                        r.mailbox = MailboxOf[lead']
                 PROVE  now - r.at > RepeatWindow
      BY <1>1 DEF FirstContactStillHolds
    <2>1. ~CheckPersonFailsOpen \/ lead' # lead
      BY DEF CheckPersonFailsOpen
    <2>2. /\ lead' = lead
          /\ \/ /\ call'.person = call.person /\ call'.repeat = call.repeat
                /\ call.pc \in AfterLookup
             \/ call'.repeat = IsRepeat(call'.person) /\ call'.pc \in {"person", "find", "return"}
      BY <2>1, RepeatSteps DEF AfterLookup
    <2>3. r \in persons
      <3>1. CASE persons' = persons
        BY <3>1
      <3>2. CASE RecordPerson
        <4>1. r \in persons \/ r = [person |-> call.person, mailbox |-> MailboxOf[lead],
                                    msg |-> lead, at |-> now]
          BY <3>2 DEF RecordPerson, DB!RecordPersonReply
        <4> QED
          BY <2>2, <4>1
      <3> QED
        BY <3>1, <3>2, PollerEffects
    <2>4. CASE call'.person = call.person /\ call'.repeat = call.repeat /\ call.pc \in AfterLookup
      BY <1>1, <2>2, <2>3, <2>4 DEF FirstContactStillHolds
    <2>5. CASE call'.repeat = IsRepeat(call'.person)
      <3>1. ~IsRepeat(call'.person)
        BY <2>5
      <3>2. ~(r.at >= now - RepeatWindow)
        BY <2>2, <2>3, <3>1 DEF IsRepeat, DB!RecentPersonReply
      <3> QED
        BY <2>3, <3>2, PersonTimes
    <2> QED
      BY <2>2, <2>4, <2>5
  <1> QED
    BY <1>3, <1>4, <1>5

-----------------------------------------------------------------------------
RepeatInv == OutcomeInv /\ PredecessorInv /\ SeenInv

LEMMA NextRepeat == TypeOK /\ DedupInv /\ RepeatInv /\ [Next]_vars => RepeatInv'
  <1> SUFFICES ASSUME TypeOK, DedupInv, RepeatInv, [Next]_vars PROVE RepeatInv'
    OBVIOUS
  <1> USE DEF RepeatInv
  <1>1. OutcomeInv'
    BY NextOutcome
  <1>2. CASE PollerStep \/ PollerFailure
    BY <1>1, <1>2, NextPredecessor, NextSeen DEF OutcomeInv
  <1>3. CASE ~(PollerStep \/ PollerFailure)
    <2>1. UNCHANGED <<call, persons, failedOpen>> /\ (now' = now \/ now' = now + 1)
      BY <1>3 DEF Next, WorkerStep, WorkerFailure, Tick, vars, poller, sqlite, history
    <2>2. now \in Nat /\ RepeatWindow \in Nat /\ \A r \in persons : r.at \in Nat
      BY PersonTimes
    <2>3. DOMAIN jobs' = DOMAIN jobs
          /\ \A k \in DOMAIN jobs : /\ jobs'[k].lead = jobs[k].lead
                                    /\ jobs'[k].template = jobs[k].template
      BY <1>3, WorkerKeepsJobs DEF Next, Tick, vars, services
    <2>4. PersonRows'
      BY <2>1, <2>2, <2>3 DEF PredecessorInv, PersonRows, Replied
    <2>5. PersonIsOwn' /\ RepeatHasReason'
      BY <2>1, <2>3 DEF PredecessorInv, PersonIsOwn, RepeatHasReason, Predecessor, SamePerson, lead
    <2>6. RepeatHasPredecessor'
      <3>1. DOMAIN jobs = 1..Len(jobs) /\ Len(jobs) \in Nat
        BY LenProperties DEF TypeOK, ServicesTypeOK
      <3>2. \A j \in DOMAIN jobs : \A k \in 1..(j - 1) : k \in DOMAIN jobs
        BY <3>1
      <3> QED
        BY <2>3, <3>2 DEF PredecessorInv, RepeatHasPredecessor, SamePerson
    <2>7. FirstContactStillHolds'
      BY <2>1, <2>2 DEF SeenInv, FirstContactStillHolds, lead
    <2>8. RepeatIsSent'
      BY <2>1, <2>3 DEF SeenInv, RepeatIsSent, RepeatReply, lead
    <2>9. RepeatIsSeen'
      <3>1. \A l : RepeatReply(l) => \E j \in DOMAIN jobs' : jobs'[j].lead = l /\ jobs'[j].template = "repeat"
        BY <2>3 DEF RepeatReply
      <3> QED
        BY <2>1, <3>1 DEF SeenInv, RepeatIsSeen, RepeatReply, JobsOf
    <2> QED
      BY <1>1, <2>4, <2>5, <2>6, <2>7, <2>8, <2>9 DEF PredecessorInv, SeenInv
  <1> QED
    BY <1>2, <1>3

LEMMA RepeatInvariant == Spec => []RepeatInv
  <1>1. TypeOK /\ DedupInv /\ RepeatInv /\ [Next]_vars => TypeOK' /\ DedupInv' /\ RepeatInv'
    BY NextTypes, NextDedup, NextRepeat
  <1>2. Init => RepeatInv
    BY InitOutcome, InitRepeat DEF RepeatInv
  <1> QED
    BY InitTypes, InitDedup, <1>1, <1>2, PTL DEF Spec

\* The repeat template goes only to somebody whose earlier inquiry, another message in the same
\* mailbox, was replied to before, wherever runs were cut short (process_lead.py:335-361, 503-511).
THEOREM RepeatHasPredecessorCorrect == Spec => []RepeatHasPredecessor
  <1>1. RepeatInv => RepeatHasPredecessor
    BY DEF RepeatInv, PredecessorInv
  <1> QED
    BY <1>1, RepeatInvariant, PTL

\* In mode "enforce", of two recorded replies to a person inside the window one is a repeat reply,
\* unless a lookup failed open: nothing records the person between a run's lookup and its record.
THEOREM RepeatIsSeenCorrect == Spec => []RepeatIsSeen
  <1>1. RepeatInv => RepeatIsSeen
    BY DEF RepeatInv, SeenInv
  <1> QED
    BY <1>1, RepeatInvariant, PTL

=============================================================================
