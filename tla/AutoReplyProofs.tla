-------------------------- MODULE AutoReplyProofs --------------------------
(***************************************************************************)
(* Theorems about AutoReply, for every value of its constants.             *)
(***************************************************************************)
EXTENDS AutoReply, SequenceTheorems, FiniteSetTheorems, TLAPS

-----------------------------------------------------------------------------
(***************************************************************************)
(* The two tables that are sequences.                                      *)
(***************************************************************************)

\* The elements of a sequence are reached by the numbers from 1.
LEMMA SeqElement ==
    ASSUME NEW S, NEW s \in Seq(S), NEW i \in DOMAIN s
    PROVE  s[i] \in S /\ i \in Nat \ {0} /\ i \in 1..Len(s)
  BY LenProperties, ElementOfSeq


\* Replacing one element keeps the sequence's type and domain.
LEMMA SeqUpdate ==
    ASSUME NEW S, NEW s \in Seq(S), NEW i, NEW e, i \in DOMAIN s => e \in S
    PROVE  /\ [s EXCEPT ![i] = e] \in Seq(S)
           /\ DOMAIN [s EXCEPT ![i] = e] = DOMAIN s
           /\ \A k \in DOMAIN s : [s EXCEPT ![i] = e][k] = IF k = i THEN e ELSE s[k]
  <1>1. CASE i \in DOMAIN s
    BY <1>1, LenProperties, ExceptSeq
  <1>2. CASE i \notin DOMAIN s
    <2>1. s = [k \in 1..Len(s) |-> s[k]] /\ DOMAIN s = 1..Len(s)
      BY LenProperties
    <2>2. [s EXCEPT ![i] = e] = s
      BY <1>2, <2>1
    <2> QED
      BY <1>2, <2>2
  <1> QED
    BY <1>1, <1>2

\* Appending keeps what is there and adds the next number to the domain.
LEMMA SeqAppend ==
    ASSUME NEW S, NEW s \in Seq(S), NEW e \in S
    PROVE  /\ Append(s, e) \in Seq(S)
           /\ DOMAIN Append(s, e) = DOMAIN s \cup {Len(s) + 1}
           /\ Len(s) + 1 \notin DOMAIN s
           /\ Append(s, e)[Len(s) + 1] = e
           /\ \A k \in DOMAIN s : Append(s, e)[k] = s[k]
  BY LenProperties, AppendProperties

-----------------------------------------------------------------------------
(***************************************************************************)
(* What each operation on a service does to the types, and to the rest of   *)
(* the record it changes.                                                  *)
(***************************************************************************)

LEMMA SetStatusEffect ==
    ASSUME ServicesTypeOK, NEW j \in DOMAIN jobs, NEW status \in JobStatus, SetStatus(j, status)
    PROVE  /\ jobs' \in Seq(Job)
           /\ DOMAIN jobs' = DOMAIN jobs
           /\ \A k \in DOMAIN jobs : /\ jobs'[k].lead = jobs[k].lead
                                     /\ jobs'[k].inquiry = jobs[k].inquiry
                                     /\ jobs'[k].template = jobs[k].template
  <1> DEFINE e == [jobs[j] EXCEPT !.status = status]
  <1>1. jobs \in Seq(Job) /\ jobs[j] \in Job
    BY SeqElement DEF ServicesTypeOK
  <1>2. /\ e \in Job
        /\ e.lead = jobs[j].lead
        /\ e.inquiry = jobs[j].inquiry
        /\ e.template = jobs[j].template
    BY <1>1 DEF Job
  <1>3. jobs' = [jobs EXCEPT ![j] = e]
    BY DEF SetStatus
  <1> HIDE DEF e
  <1> QED
    BY <1>1, <1>2, <1>3, SeqUpdate

LEMMA EnqueueEffect ==
    ASSUME ServicesTypeOK, call \in Call, lead \in Lead, Enqueue
    PROVE  /\ jobs' \in Seq(Job)
           /\ DOMAIN jobs' = DOMAIN jobs \cup {Len(jobs) + 1}
           /\ Len(jobs) + 1 \notin DOMAIN jobs
           /\ jobs'[Len(jobs) + 1].lead = lead
           /\ jobs'[Len(jobs) + 1].inquiry = call.inquiry
           /\ jobs'[Len(jobs) + 1].template = IF call.repeat THEN "repeat" ELSE "first"
           /\ \A k \in DOMAIN jobs : jobs'[k] = jobs[k]
  <1> DEFINE e == [lead |-> lead, inquiry |-> call.inquiry,
                   template |-> IF call.repeat THEN "repeat" ELSE "first",
                   status |-> "scheduled"]
  <1>1. jobs \in Seq(Job)
    BY DEF ServicesTypeOK
  <1>2. /\ e \in Job
        /\ e.lead = lead
        /\ e.inquiry = call.inquiry
        /\ e.template = IF call.repeat THEN "repeat" ELSE "first"
    BY DEF Call, Job, Template, JobStatus
  <1>3. jobs' = Append(jobs, e)
    BY DEF Enqueue
  <1> HIDE DEF e
  <1> QED
    BY <1>1, <1>2, <1>3, SeqAppend

LEMMA AddInquiryEffect ==
    ASSUME ServicesTypeOK, lead \in Lead, AddInquiry
    PROVE  /\ inquiries' \in Seq(Inquiry)
           /\ DOMAIN inquiries' = DOMAIN inquiries \cup {Len(inquiries) + 1}
           /\ Len(inquiries) + 1 \in Nat
           /\ Len(inquiries) + 1 \notin DOMAIN inquiries
           /\ inquiries'[Len(inquiries) + 1] = [lead |-> lead, key |-> 0, reply |-> 0]
           /\ \A k \in DOMAIN inquiries : inquiries'[k] = inquiries[k]
  <1> DEFINE e == [lead |-> lead, key |-> 0, reply |-> 0]
  <1>1. inquiries \in Seq(Inquiry) /\ Len(inquiries) \in Nat
    BY LenProperties DEF ServicesTypeOK
  <1>2. e \in Inquiry
    BY DEF Inquiry
  <1>3. inquiries' = Append(inquiries, e)
    BY DEF AddInquiry, NewInquiry
  <1> HIDE DEF e
  <1>4. /\ inquiries' \in Seq(Inquiry)
        /\ DOMAIN inquiries' = DOMAIN inquiries \cup {Len(inquiries) + 1}
        /\ Len(inquiries) + 1 \notin DOMAIN inquiries
        /\ inquiries'[Len(inquiries) + 1] = e
        /\ \A k \in DOMAIN inquiries : inquiries'[k] = inquiries[k]
    BY <1>1, <1>2, <1>3, SeqAppend
  <1> QED
    BY <1>1, <1>4 DEF e

LEMMA UpdateAutoreplyBodyEffect ==
    ASSUME ServicesTypeOK, NEW i \in Nat, NEW j \in Nat, UpdateAutoreplyBody(i, j)
    PROVE  /\ inquiries' \in Seq(Inquiry)
           /\ DOMAIN inquiries' = DOMAIN inquiries
           /\ \A k \in DOMAIN inquiries :
                 /\ inquiries'[k].lead = inquiries[k].lead
                 /\ k = i => inquiries'[k].key = j /\ inquiries'[k].reply = j
                 /\ k # i => inquiries'[k] = inquiries[k]
  <1> DEFINE e == [inquiries[i] EXCEPT !.key = j, !.reply = j]
  <1>1. inquiries \in Seq(Inquiry)
    BY DEF ServicesTypeOK
  <1>2. inquiries' = [inquiries EXCEPT ![i] = e]
    BY DEF UpdateAutoreplyBody
  <1>3. i \in DOMAIN inquiries => /\ e \in Inquiry
                                  /\ e.lead = inquiries[i].lead
                                  /\ e.key = j
                                  /\ e.reply = j
    <2> SUFFICES ASSUME i \in DOMAIN inquiries
                 PROVE  e \in Inquiry /\ e.lead = inquiries[i].lead /\ e.key = j /\ e.reply = j
      OBVIOUS
    <2>1. inquiries[i] \in Inquiry
      BY <1>1, SeqElement
    <2> QED
      BY <2>1 DEF Inquiry
  <1> HIDE DEF e
  <1> QED
    BY <1>1, <1>2, <1>3, SeqUpdate

LEMMA UpsertInquiryEffect ==
    ASSUME ServicesTypeOK, NEW i \in Nat, UpsertInquiry(i)
    PROVE  /\ supabase' \subseteq SupabaseRow
           /\ \E r \in supabase' : r.id = i
           /\ supabase \subseteq supabase'
           /\ \A r \in supabase' : r \in supabase \/ r = [id |-> i, reply |-> 0]
  <1>1. [id |-> i, reply |-> 0] \in SupabaseRow
    BY DEF SupabaseRow
  <1>2. CASE \E r \in supabase : r.id = i
    BY <1>2 DEF ServicesTypeOK, UpsertInquiry
  <1>3. CASE ~(\E r \in supabase : r.id = i)
    <2>1. supabase' = supabase \cup {[id |-> i, reply |-> 0]}
      BY <1>3 DEF UpsertInquiry
    <2> QED
      BY <1>1, <2>1 DEF ServicesTypeOK
  <1> QED
    BY <1>2, <1>3

LEMMA UpdateInquiryReplyEffect ==
    ASSUME ServicesTypeOK, NEW i \in Nat, NEW j \in Nat, UpdateInquiryReply(i, j)
    PROVE  supabase' \subseteq SupabaseRow
  <1> SUFFICES ASSUME NEW r \in supabase
               PROVE  (IF r.id = i THEN [r EXCEPT !.reply = j] ELSE r) \in SupabaseRow
    BY DEF UpdateInquiryReply
  <1>1. r \in SupabaseRow
    BY DEF ServicesTypeOK
  <1> QED
    BY <1>1 DEF SupabaseRow

-----------------------------------------------------------------------------
(***************************************************************************)
(* Type correctness.                                                       *)
(***************************************************************************)

LEMMA JobTypes ==
    ASSUME ServicesTypeOK, NEW j \in DOMAIN jobs
    PROVE  /\ j \in Nat \ {0}
           /\ jobs[j] \in Job
           /\ jobs[j].lead \in Lead
           /\ jobs[j].inquiry \in Nat
  <1>1. j \in Nat \ {0} /\ jobs[j] \in Job
    BY SeqElement DEF ServicesTypeOK
  <1> QED
    BY <1>1 DEF Job

\* The poller's half of the state, when a step leaves it alone.
LEMMA PollerTypesStay == ProcessLeadTypeOK /\ UNCHANGED poller => ProcessLeadTypeOK'
  BY DEF poller, sqlite, history, ProcessLeadTypeOK, lead

\* A step of a worker.
LEMMA WorkerTypes ==
    ASSUME TypeOK, NEW j \in DOMAIN jobs, UNCHANGED poller,
           StartJob(j) \/ RunJob(j) \/ JobFails(j) \/ JobFailsLate(j)
    PROVE  TypeOK'
  <1> USE DEF TypeOK
  <1>1. ProcessLeadTypeOK'
    BY PollerTypesStay
  <1>2. j \in Nat /\ jobs[j].inquiry \in Nat
    BY JobTypes
  <1>3. PICK status \in JobStatus : SetStatus(j, status)
    BY DEF StartJob, RunJob, GmailSend, WriteAirtable, WriteSupabase, JobFails, JobFailsLate,
           JobStatus
  <1>4. jobs' \in Seq(Job) /\ DOMAIN jobs' = DOMAIN jobs
    BY <1>3, SetStatusEffect
  <1>5. mail' \subseteq DOMAIN jobs
    BY DEF StartJob, RunJob, GmailSend, WriteAirtable, WriteSupabase, JobFails, JobFailsLate,
           ServicesTypeOK
  <1>6. inquiries' = inquiries \/ UpdateAutoreplyBody(jobs[j].inquiry, j)
    BY DEF StartJob, RunJob, GmailSend, WriteAirtable, WriteSupabase, JobFails, JobFailsLate
  <1>7. inquiries' \in Seq(Inquiry)
    BY <1>2, <1>6, UpdateAutoreplyBodyEffect DEF ServicesTypeOK
  <1>8. supabase' = supabase \/ UpdateInquiryReply(jobs[j].inquiry, j)
    BY DEF StartJob, RunJob, GmailSend, WriteAirtable, WriteSupabase, JobFails, JobFailsLate
  <1>9. supabase' \subseteq SupabaseRow
    BY <1>2, <1>8, UpdateInquiryReplyEffect DEF ServicesTypeOK
  <1>10. slack' = slack /\ faults' \in Nat
    BY DEF StartJob, RunJob, GmailSend, WriteAirtable, WriteSupabase, JobFails, JobFailsLate,
           Fault, ServicesTypeOK
  <1> QED
    BY <1>1, <1>4, <1>5, <1>7, <1>9, <1>10 DEF ServicesTypeOK

\* The step of a run that goes to pc.
LEMMA GotoTypes ==
    ASSUME call \in Call, NEW pc \in Pc, Goto(pc)
    PROVE  /\ call' \in Call
           /\ call'.pc = pc
           /\ call'.lead = call.lead
           /\ call'.person = call.person
           /\ call'.repeat = call.repeat
           /\ call'.inquiry = call.inquiry
  BY DEF Goto, Call

\* The run in progress keeps its type, and its lead.
LEMMA CallTypes ==
    ASSUME TypeOK, PollerStep \/ PollerFailure
    PROVE  call' \in Call /\ (call'.pc # "idle" => call'.lead \in Lead)
  <1>1. call \in Call /\ (call.pc # "idle" => call.lead \in Lead)
    BY DEF TypeOK, ProcessLeadTypeOK, lead
  <1>2. CASE call' = NoCall
    BY <1>2, ProcessLeadAssumption DEF NoCall, Call, Pc
  <1>3. ASSUME NEW l \in Lead, call' = [NoCall EXCEPT !.pc = "fetch", !.lead = l]
        PROVE  call' \in Call /\ call'.lead \in Lead
    BY <1>3 DEF NoCall, Call, Pc
  <1>4. ASSUME NEW pc \in Pc, Goto(pc), call.pc # "idle"
        PROVE  call' \in Call /\ call'.lead \in Lead
    BY <1>1, <1>4, GotoTypes
  <1>5. ASSUME call.pc # "idle",
               NEW p \in Person \cup {NoPerson}, NEW r \in BOOLEAN,
               call' = [call EXCEPT !.pc = "find", !.person = p, !.repeat = r]
        PROVE  call' \in Call /\ call'.lead \in Lead
    BY <1>1, <1>5 DEF Call, Pc
  <1>6. ASSUME call.pc # "idle",
               NEW i \in Nat, call' = [call EXCEPT !.pc = "send", !.inquiry = i]
        PROVE  call' \in Call /\ call'.lead \in Lead
    BY <1>1, <1>6 DEF Call, Pc
  <1>7. CASE \E l \in Lead : Dispatch(l)
    BY <1>3, <1>7 DEF Dispatch
  <1>8. CASE MarkProcessed \/ Interrupted
    BY <1>2, <1>8 DEF MarkProcessed, Interrupted
  <1>9. CASE Fetch \/ FetchFailsOpen
    BY <1>4, <1>9 DEF Fetch, FetchFailsOpen, Pc
  <1>10. CASE SendReply \/ RecordFingerprint \/ RecordPerson \/ RecordFails
    BY <1>4, <1>10 DEF SendReply, RecordFingerprint, RecordPerson, RecordFails, AfterRecord, Pc
  <1>11. CASE WriteSupabaseRow \/ PostSlack \/ CallRaises \/ CallRaisesLate
    BY <1>4, <1>11 DEF WriteSupabaseRow, PostSlack, CallRaises, CallRaisesLate, Pc
  <1>12. CASE CheckPerson
    <2>1. call.pc # "idle" /\ PersonOf[lead] \in Person \cup {NoPerson}
      BY <1>1, <1>12, ProcessLeadAssumption DEF CheckPerson, lead
    <2>2. PICK p \in Person \cup {NoPerson} :
             call' = [call EXCEPT !.pc = "find", !.person = p, !.repeat = IsRepeat(p)]
      BY <1>12, <2>1 DEF CheckPerson
    <2>3. IsRepeat(p) \in BOOLEAN
      BY DEF IsRepeat
    <2> QED
      BY <1>5, <2>1, <2>2, <2>3
  <1>13. CASE CheckPersonFailsOpen
    <2>1. /\ call.pc # "idle" /\ PersonOf[lead] \in Person \cup {NoPerson}
          /\ call' = [call EXCEPT !.pc = "find", !.person = PersonOf[lead]]
      BY <1>1, <1>13, ProcessLeadAssumption DEF CheckPersonFailsOpen, lead
    <2> QED
      BY <1>1, <2>1 DEF Call, Pc
  <1>14. CASE FindOrCreate
    <2>1. CASE Goto("create")
      BY <1>4, <1>14, <2>1 DEF FindOrCreate, Pc
    <2>2. CASE \E i \in FindInquiry(lead) : call' = [call EXCEPT !.pc = "send", !.inquiry = i]
      <3>1. FindInquiry(lead) \subseteq Nat
        BY SeqElement DEF FindInquiry, TypeOK, ServicesTypeOK
      <3> QED
        BY <1>6, <1>14, <2>2, <3>1 DEF FindOrCreate
    <2> QED
      BY <1>14, <2>1, <2>2 DEF FindOrCreate
  <1>15. CASE CreateInquiry
    <2>1. Len(inquiries) + 1 \in Nat
      BY LenProperties DEF TypeOK, ServicesTypeOK
    <2> QED
      BY <1>6, <1>15, <2>1 DEF CreateInquiry
  <1> QED
    BY <1>7, <1>8, <1>9, <1>10, <1>11, <1>12, <1>13, <1>14, <1>15 DEF PollerStep, PollerFailure

\* Only a person that has been resolved is recorded.
LEMMA RecordPersonTypes ==
    ASSUME TypeOK, PollerStep \/ PollerFailure
    PROVE  call'.pc = "recordPerson" => call'.person \in Person
  <1> SUFFICES ASSUME call'.pc = "recordPerson"
               PROVE  call'.person \in Person
    OBVIOUS
  <1>1. call \in Call
    BY DEF TypeOK, ProcessLeadTypeOK
  <1>2. call.person # NoPerson /\ Goto("recordPerson")
    <2> USE <1>1 DEF Call
    <2>1. ASSUME NEW pc \in Pc \ {"recordPerson"}, Goto(pc) PROVE FALSE
      BY <2>1, GotoTypes
    <2>2. CASE \E l \in Lead : Dispatch(l)
      BY <2>2 DEF Dispatch, NoCall
    <2>3. CASE MarkProcessed \/ Interrupted
      BY <2>3 DEF MarkProcessed, Interrupted, NoCall
    <2>4. CASE Fetch \/ FetchFailsOpen
      BY <2>1, <2>4 DEF Fetch, FetchFailsOpen, Pc
    <2>5. CASE SendReply \/ RecordPerson
      BY <2>1, <2>5 DEF SendReply, RecordPerson, Pc
    <2>6. CASE RecordFingerprint \/ RecordFails
      BY <2>1, <2>6 DEF RecordFingerprint, RecordFails, AfterRecord, Pc
    <2>7. CASE WriteSupabaseRow \/ PostSlack \/ CallRaises \/ CallRaisesLate
      BY <2>1, <2>7 DEF WriteSupabaseRow, PostSlack, CallRaises, CallRaisesLate, Pc
    <2>8. CASE CheckPerson \/ CheckPersonFailsOpen
      BY <2>8 DEF CheckPerson, CheckPersonFailsOpen
    <2>9. CASE FindOrCreate \/ CreateInquiry
      BY <2>1, <2>9 DEF FindOrCreate, CreateInquiry, Pc
    <2> QED
      BY <2>2, <2>3, <2>4, <2>5, <2>6, <2>7, <2>8, <2>9 DEF PollerStep, PollerFailure
  <1> QED
    BY <1>1, <1>2, GotoTypes DEF Call, Pc

\* What a step of the poller may do to each of the variables.
LEMMA PollerEffects ==
    ASSUME PollerStep \/ PollerFailure
    PROVE  /\ jobs' = jobs \/ (Enqueue /\ call.pc = "send" /\ lead \in Answerable)
           /\ inquiries' = inquiries \/ (AddInquiry /\ call.pc = "create")
           /\ supabase' = supabase \/ (UpsertInquiry(call.inquiry) /\ call.pc = "supabase")
           /\ slack' = slack \/ (slack' = [slack EXCEPT ![lead] = @ + 1] /\ call.pc = "slack")
           /\ processed' = processed \/ MarkProcessed
           /\ fingerprints' = fingerprints \/ RecordFingerprint
           /\ persons' = persons \/ RecordPerson
           /\ failedOpen' = failedOpen \/ FetchFailsOpen \/ CheckPersonFailsOpen
           /\ suppressed' = suppressed \/ Fetch
           /\ interruptions' = interruptions \/ Interrupted
           /\ faults' = faults \/ Fault
           /\ mail' = mail /\ now' = now
  <1> USE DEF services, sqlite, history
  <1>1. CASE PollerStep
    BY <1>1 DEF PollerStep, Dispatch, MarkProcessed, Fetch, CheckPerson, FindOrCreate, CreateInquiry, SendReply,
           RecordFingerprint, RecordPerson, WriteSupabaseRow, PostSlack
  <1>2. CASE PollerFailure
    BY <1>2 DEF PollerFailure, FetchFailsOpen, CheckPersonFailsOpen, RecordFails, CallRaises, CallRaisesLate, Interrupted
  <1> QED
    BY <1>1, <1>2

\* A step of the poller.
LEMMA PollerTypes ==
    ASSUME TypeOK, PollerStep \/ PollerFailure
    PROVE  TypeOK'
  <1> USE DEF TypeOK, ServicesTypeOK, ProcessLeadTypeOK
  <1>1. call' \in Call /\ (call'.pc # "idle" => lead' \in Lead)
    BY CallTypes DEF lead
  <1>14. call'.pc = "recordPerson" => call'.person \in Person
    BY RecordPersonTypes
  <1>2. call.pc # "idle" => lead \in Lead
    OBVIOUS
  <1>3. jobs' \in Seq(Job) /\ mail' \subseteq DOMAIN jobs'
    BY <1>2, PollerEffects, EnqueueEffect
  <1>4. inquiries' \in Seq(Inquiry)
    BY <1>2, PollerEffects, AddInquiryEffect
  <1>5. supabase' \subseteq SupabaseRow
    <2>1. call.inquiry \in Nat
      BY DEF Call
    <2> QED
      BY <2>1, PollerEffects, UpsertInquiryEffect
  <1>6. slack' \in [Lead -> Nat]
    BY PollerEffects
  <1>7. faults' \in Nat /\ now' \in 0..MaxTime
    BY PollerEffects DEF Fault
  <1>8. processed' \in [Lead -> DB!ProcessedVal]
    BY PollerEffects DEF MarkProcessed, DB!MarkProcessed, DB!ProcessedVal
  <1>9. fingerprints' \subseteq [mailbox : Mailbox, fingerprint : Fingerprint,
                                msg : Lead, at : 0..MaxTime]
    BY <1>2, PollerEffects, ProcessLeadAssumption DEF RecordFingerprint, DB!RecordReply
  <1>10. persons' \subseteq [person : Person, mailbox : Mailbox, msg : Lead, at : 0..MaxTime]
    BY <1>2, PollerEffects, ProcessLeadAssumption DEF RecordPerson, DB!RecordPersonReply
  <1>11. failedOpen' \subseteq Lead
    BY <1>2, PollerEffects DEF FetchFailsOpen, CheckPersonFailsOpen
  <1>12. suppressed' \subseteq Lead
    BY <1>2, PollerEffects DEF Fetch
  <1>13. interruptions' \in 0..MaxInterruptions
    BY PollerEffects, ProcessLeadAssumption DEF Interrupted
  <1> QED
    BY <1>1, <1>3, <1>4, <1>5, <1>6, <1>7, <1>8, <1>9, <1>10, <1>11, <1>12, <1>13, <1>14

LEMMA TickTypes ==
    ASSUME TypeOK, Tick
    PROVE  TypeOK'
  BY ProcessLeadAssumption
  DEF TypeOK, ServicesTypeOK, ProcessLeadTypeOK, Tick, services, sqlite, history, lead

LEMMA InitTypes == Init => TypeOK
  BY ProcessLeadAssumption
  DEF Init, ServicesInit, ProcessLeadInit, TypeOK, ServicesTypeOK, ProcessLeadTypeOK, NoCall,
      Call, Pc, DB!ProcessedVal, lead

LEMMA NextTypes == TypeOK /\ [Next]_vars => TypeOK'
  <1> SUFFICES ASSUME TypeOK, [Next]_vars PROVE TypeOK'
    OBVIOUS
  <1>1. CASE PollerStep \/ PollerFailure
    BY <1>1, PollerTypes
  <1>2. CASE WorkerStep \/ WorkerFailure
    BY <1>2, WorkerTypes DEF WorkerStep, WorkerFailure
  <1>3. CASE Tick
    BY <1>3, TickTypes
  <1>4. CASE UNCHANGED vars
    BY <1>4 DEF vars, poller, services, sqlite, history, TypeOK, ServicesTypeOK,
                ProcessLeadTypeOK, lead
  <1> QED
    BY <1>1, <1>2, <1>3, <1>4 DEF Next

\* Every variable keeps its type: the tables their rows, the run in progress its lead.
THEOREM TypeCorrectness == Spec => []TypeOK
  BY InitTypes, NextTypes, PTL DEF Spec

-----------------------------------------------------------------------------
(***************************************************************************)
(* The inductive invariants.  Each says what a run already knows about the  *)
(* stores at the call it has come to.                                      *)
(***************************************************************************)

\* The calls of a run after its dedup lookup and up to the one that records the reply, and those
\* after the reply has been enqueued.
BeforeRecord == {"person", "find", "create", "send", "record"}
AfterSend == {"record", "recordPerson", "supabase", "slack", "return", "raise"}

RowsAreOfTheirMessage ==
    \A r \in fingerprints : /\ r.at <= now
                             /\ r.mailbox = MailboxOf[r.msg]
                             /\ r.fingerprint = FingerprintOf[r.msg]

\* Since its lookup found nothing, every other copy was answered before the window.
LookupStillHolds ==
    call.pc \in BeforeRecord /\ lead \notin failedOpen =>
        \A r \in fingerprints : r.msg # lead /\ SameContent(r.msg, lead) => now - r.at > DedupWindow

DedupInv == RowsAreOfTheirMessage /\ LookupStillHolds /\ DedupWindowHolds

\* The lead of the run in progress has no row yet.
RunIsUnmarked == call.pc # "idle" => processed[lead] = "no"

\* As long as no run was cut short, a lead with a job is marked, or its run is past the send.
JobIsAccountedFor ==
    interruptions = 0 =>
        \A j \in DOMAIN jobs : \/ processed[jobs[j].lead] # "no"
                                \/ (jobs[j].lead = lead /\ call.pc \in AfterSend)

JobInv == RunIsUnmarked /\ JobIsAccountedFor /\ OneJobPerLead

-----------------------------------------------------------------------------
(***************************************************************************)
(* The control flow of a run, and what a step may do to the jobs.          *)
(***************************************************************************)

\* A step of a worker keeps every job, but for its status.
LEMMA WorkerKeepsJobs ==
    ASSUME TypeOK, WorkerStep \/ WorkerFailure
    PROVE  /\ DOMAIN jobs' = DOMAIN jobs
           /\ \A k \in DOMAIN jobs : /\ jobs'[k].lead = jobs[k].lead
                                     /\ jobs'[k].inquiry = jobs[k].inquiry
                                     /\ jobs'[k].template = jobs[k].template
           /\ UNCHANGED poller
  <1>1. PICK j \in DOMAIN jobs :
           (StartJob(j) \/ RunJob(j) \/ JobFails(j) \/ JobFailsLate(j)) /\ UNCHANGED poller
    BY DEF WorkerStep, WorkerFailure
  <1>2. PICK status \in JobStatus : SetStatus(j, status)
    BY <1>1 DEF StartJob, RunJob, GmailSend, WriteAirtable, WriteSupabase, JobFails, JobFailsLate,
           JobStatus
  <1> QED
    BY <1>1, <1>2, SetStatusEffect DEF TypeOK

\* A step of the poller begins a run, ends it, or takes it to its next call.
LEMMA RunSteps ==
    ASSUME TypeOK, PollerStep \/ PollerFailure
    PROVE  \/ \E l \in Lead : Dispatch(l)
           \/ MarkProcessed
           \/ Interrupted
           \/ /\ call.pc # "idle" /\ call'.pc # "idle" /\ lead' = lead
              /\ UNCHANGED <<processed, interruptions>>
              /\ call.pc \in AfterSend => call'.pc \in AfterSend
              /\ call.pc = "send" => call'.pc \in AfterSend
              /\ call'.pc \in BeforeRecord =>
                    call.pc \in BeforeRecord \/ Fetch \/ FetchFailsOpen
  <1>1. call \in Call
    BY DEF TypeOK, ProcessLeadTypeOK
  <1> USE DEF lead, BeforeRecord, AfterSend, sqlite, history
  <1>2. CASE Fetch \/ FetchFailsOpen
    <2>1. PICK pc \in {"person", "return"} : Goto(pc)
      BY <1>2 DEF Fetch, FetchFailsOpen
    <2> QED
      BY <1>1, <1>2, <2>1, GotoTypes DEF Fetch, FetchFailsOpen, Pc
  <1>3. CASE CheckPerson
    BY <1>1, <1>3 DEF CheckPerson, Call
  <1>4. CASE CheckPersonFailsOpen
    BY <1>1, <1>4 DEF CheckPersonFailsOpen, Call
  <1>5. CASE FindOrCreate
    <2>1. CASE Goto("create")
      BY <1>1, <1>5, <2>1, GotoTypes DEF FindOrCreate, Pc
    <2>2. CASE ~Goto("create")
      BY <1>1, <1>5, <2>2 DEF FindOrCreate, Call
    <2> QED
      BY <2>1, <2>2
  <1>6. CASE CreateInquiry
    BY <1>1, <1>6 DEF CreateInquiry, Call
  <1>7. CASE SendReply
    <2>1. PICK pc \in {"record", "supabase"} : Goto(pc)
      BY <1>7 DEF SendReply
    <2> QED
      BY <1>1, <1>7, <2>1, GotoTypes DEF SendReply, Pc
  <1>8. CASE RecordFingerprint \/ RecordPerson \/ RecordFails
    <2>1. PICK pc \in {"recordPerson", "supabase"} : Goto(pc)
      BY <1>8 DEF RecordFingerprint, RecordPerson, RecordFails, AfterRecord
    <2> QED
      BY <1>1, <1>8, <2>1, GotoTypes DEF RecordFingerprint, RecordPerson, RecordFails, Pc
  <1>9. CASE WriteSupabaseRow \/ PostSlack
    <2>1. PICK pc \in {"slack", "return"} : Goto(pc)
      BY <1>9 DEF WriteSupabaseRow, PostSlack
    <2> QED
      BY <1>1, <1>9, <2>1, GotoTypes DEF WriteSupabaseRow, PostSlack, Pc
  <1>10. CASE CallRaises \/ CallRaisesLate
    <2>1. Goto("raise")
      BY <1>10 DEF CallRaises, CallRaisesLate
    <2> QED
      BY <1>1, <1>10, <2>1, GotoTypes DEF CallRaises, CallRaisesLate, Pc
  <1> QED
    BY <1>2, <1>3, <1>4, <1>5, <1>6, <1>7, <1>8, <1>9, <1>10 DEF PollerStep, PollerFailure

-----------------------------------------------------------------------------
(***************************************************************************)
(* One job per lead.                                                       *)
(***************************************************************************)

LEMMA InitJobs == Init => JobInv
  BY DEF Init, ServicesInit, ProcessLeadInit, NoCall, JobInv, RunIsUnmarked, JobIsAccountedFor,
         OneJobPerLead

LEMMA PollerJobs ==
    ASSUME TypeOK, JobInv, PollerStep \/ PollerFailure
    PROVE  JobInv'
  <1> USE DEF JobInv, RunIsUnmarked, JobIsAccountedFor, OneJobPerLead
  <1>1. /\ call \in Call /\ (call.pc # "idle" => lead \in Lead)
        /\ processed \in [Lead -> DB!ProcessedVal]
        /\ interruptions \in Nat
        /\ ServicesTypeOK
        /\ \A j \in DOMAIN jobs : jobs[j].lead \in Lead
    BY ProcessLeadAssumption, JobTypes DEF TypeOK, ProcessLeadTypeOK
  <1>2. CASE \E l \in Lead : Dispatch(l)
    <2>1. PICK l \in Lead : Dispatch(l)
      BY <1>2
    <2>2. call'.pc = "fetch" /\ lead' = l
      BY <2>1 DEF Dispatch, NoCall, lead
    <2>3. processed[l] = "no" /\ call.pc = "idle"
      BY <2>1 DEF Dispatch, DB!WasProcessed
    <2>4. UNCHANGED <<jobs, processed, interruptions>>
      BY <2>1 DEF Dispatch, services, sqlite, history
    <2> QED
      BY <2>2, <2>3, <2>4 DEF AfterSend
  <1>3. CASE MarkProcessed
    <2>1. call'.pc = "idle" /\ UNCHANGED <<jobs, interruptions>>
      BY <1>3 DEF MarkProcessed, NoCall, services, history
    <2>2. PICK v \in {"ok", "error"} : processed' = [processed EXCEPT ![lead] = v]
      BY <1>3 DEF MarkProcessed, DB!MarkProcessed
    <2> QED
      BY <1>1, <2>1, <2>2 DEF AfterSend
  <1>4. CASE Interrupted
    BY <1>1, <1>4 DEF Interrupted, NoCall
  <1>5. CASE /\ call.pc # "idle" /\ call'.pc # "idle" /\ lead' = lead
             /\ UNCHANGED <<processed, interruptions>>
             /\ call.pc \in AfterSend => call'.pc \in AfterSend
             /\ call.pc = "send" => call'.pc \in AfterSend
    <2>1. CASE jobs' = jobs
      BY <1>5, <2>1
    <2>2. CASE Enqueue /\ call.pc = "send"
      <3>1. /\ DOMAIN jobs' = DOMAIN jobs \cup {Len(jobs) + 1}
            /\ jobs'[Len(jobs) + 1].lead = lead
            /\ \A k \in DOMAIN jobs : jobs'[k] = jobs[k]
        BY <1>1, <2>2, EnqueueEffect
      <3>2. interruptions = 0 => \A k \in DOMAIN jobs : jobs[k].lead # lead
        BY <1>1, <1>5, <2>2 DEF AfterSend
      <3>3. JobIsAccountedFor'
        BY <1>5, <2>2, <3>1
      <3>4. OneJobPerLead'
        BY <1>5, <3>1, <3>2
      <3> QED
        BY <1>5, <3>3, <3>4
    <2> QED
      BY <2>1, <2>2, PollerEffects
  <1> QED
    BY <1>2, <1>3, <1>4, <1>5, RunSteps

LEMMA NextJobs == TypeOK /\ JobInv /\ [Next]_vars => JobInv'
  <1> SUFFICES ASSUME TypeOK, JobInv, [Next]_vars PROVE JobInv'
    OBVIOUS
  <1> USE DEF JobInv, RunIsUnmarked, JobIsAccountedFor, OneJobPerLead, lead
  <1>1. CASE PollerStep \/ PollerFailure
    BY <1>1, PollerJobs
  <1>2. CASE WorkerStep \/ WorkerFailure
    BY <1>2, WorkerKeepsJobs DEF poller, sqlite, history
  <1>3. CASE Tick \/ UNCHANGED vars
    BY <1>3 DEF Tick, vars, poller, services, sqlite, history
  <1> QED
    BY <1>1, <1>2, <1>3 DEF Next

\* As long as no run of the poller has been cut short, no lead has two send jobs, whichever calls
\* raise and whatever the workers do.
THEOREM OneJobPerLeadCorrect == Spec => []OneJobPerLead
  <1>1. TypeOK /\ JobInv /\ [Next]_vars => TypeOK' /\ JobInv'
    BY NextTypes, NextJobs
  <1>2. JobInv => OneJobPerLead
    BY DEF JobInv
  <1> QED
    BY InitTypes, InitJobs, <1>1, <1>2, PTL DEF Spec

-----------------------------------------------------------------------------
(***************************************************************************)
(* What a run that is cut short may cost.                                  *)
(***************************************************************************)

\* The leads with a reply, and those of them that will be run again.
Replies == {jobs[j].lead : j \in DOMAIN jobs}
Waiting == {l \in Replies : processed[l] = "no" /\ ~(lead = l /\ call.pc \in AfterSend)}

\* Each further reply, and each lead with one that is not marked, has cost an interruption.
RepliesAreCounted == Len(jobs) + Cardinality(Waiting) <= Cardinality(Replies) + interruptions

\* So has each further post; and one is left to a lead that is to be posted still.
MayPost(l) == processed[l] = "no" /\ ~(lead = l /\ call.pc \in {"return", "raise"})

PostsAreCounted ==
    \A l \in Lead : slack[l] <= IF MayPost(l) THEN interruptions ELSE 1 + interruptions

CountInv == RepliesAreCounted /\ PostsAreCounted

LEMMA CountTypes ==
    ASSUME TypeOK
    PROVE  /\ Len(jobs) \in Nat /\ interruptions \in Nat
           /\ IsFiniteSet(Replies) /\ Cardinality(Replies) \in Nat
           /\ IsFiniteSet(Waiting) /\ Cardinality(Waiting) \in Nat
           /\ Replies \subseteq Lead /\ Waiting \subseteq Replies
  <1>1. jobs \in Seq(Job) /\ Len(jobs) \in Nat /\ DOMAIN jobs = 1..Len(jobs)
    BY LenProperties DEF TypeOK, ServicesTypeOK
  <1>2. interruptions \in Nat
    BY ProcessLeadAssumption DEF TypeOK, ProcessLeadTypeOK
  <1>3. IsFiniteSet(Replies)
    <2> DEFINE f == [j \in DOMAIN jobs |-> jobs[j].lead]
    <2>1. IsFiniteSet(DOMAIN jobs)
      BY <1>1, FS_Interval
    <2>2. f \in Surjection(DOMAIN jobs, Replies)
      BY DEF Replies, Surjection
    <2> QED
      BY <2>1, <2>2, FS_Surjection
  <1>4. Waiting \subseteq Replies
    BY DEF Waiting
  <1>5. IsFiniteSet(Waiting)
    BY <1>3, <1>4, FS_Subset
  <1>6. Replies \subseteq Lead
    BY JobTypes DEF Replies, TypeOK
  <1> QED
    BY <1>1, <1>2, <1>3, <1>4, <1>5, <1>6, FS_CardinalityType

LEMMA InitCount == Init => CountInv
  <1> SUFFICES ASSUME Init PROVE CountInv
    OBVIOUS
  <1>1. jobs = <<>> /\ Replies = {} /\ Waiting = {}
    BY DEF Init, ServicesInit, Replies, Waiting
  <1>2. Len(jobs) = 0 /\ Cardinality({}) = 0
    BY <1>1, FS_EmptySet
  <1>3. /\ \A l \in Lead : slack[l] = 0
        /\ interruptions = 0
    BY DEF Init, ServicesInit, ProcessLeadInit
  <1>4. RepliesAreCounted
    BY <1>1, <1>2, <1>3 DEF RepliesAreCounted
  <1> QED
    BY <1>3, <1>4 DEF CountInv, PostsAreCounted

\* As long as no reply is enqueued, it is enough that no lead is added to those that wait, or one
\* for an interruption.
LEMMA RepliesStayCounted ==
    ASSUME TypeOK, RepliesAreCounted,
           Len(jobs') = Len(jobs), Replies' = Replies,
           \/ Waiting' \subseteq Waiting /\ interruptions' = interruptions
           \/ Waiting' \subseteq Waiting \cup {lead} /\ interruptions' = interruptions + 1
    PROVE  RepliesAreCounted'
  <1>1. /\ Len(jobs) \in Nat /\ interruptions \in Nat
        /\ Cardinality(Replies) \in Nat /\ Cardinality(Waiting) \in Nat
        /\ IsFiniteSet(Waiting)
    BY CountTypes
  <1>2. CASE Waiting' \subseteq Waiting /\ interruptions' = interruptions
    <2>1. Cardinality(Waiting') \in Nat /\ Cardinality(Waiting') <= Cardinality(Waiting)
      BY <1>1, <1>2, FS_Subset, FS_CardinalityType
    <2> QED
      BY <1>1, <1>2, <2>1 DEF RepliesAreCounted
  <1>3. CASE Waiting' \subseteq Waiting \cup {lead} /\ interruptions' = interruptions + 1
    <2>1. IsFiniteSet(Waiting \cup {lead})
          /\ Cardinality(Waiting \cup {lead}) \in {Cardinality(Waiting), Cardinality(Waiting) + 1}
      BY <1>1, FS_AddElement
    <2>2. /\ Cardinality(Waiting') \in Nat
          /\ Cardinality(Waiting') <= Cardinality(Waiting \cup {lead})
      BY <1>3, <2>1, FS_Subset, FS_CardinalityType
    <2> QED
      BY <1>1, <1>3, <2>1, <2>2 DEF RepliesAreCounted
  <1> QED
    BY <1>2, <1>3

\* A reply is its lead's first, or the lead has waited for it.
LEMMA EnqueueIsCounted ==
    ASSUME TypeOK, RunIsUnmarked, RepliesAreCounted, Enqueue,
           call.pc = "send", lead' = lead, call'.pc \in AfterSend,
           UNCHANGED <<processed, interruptions>>
    PROVE  RepliesAreCounted'
  <1>1. /\ call \in Call /\ lead \in Lead /\ ServicesTypeOK
        /\ processed[lead] = "no"
    BY DEF TypeOK, ProcessLeadTypeOK, RunIsUnmarked
  <1>2. /\ DOMAIN jobs' = DOMAIN jobs \cup {Len(jobs) + 1}
        /\ jobs'[Len(jobs) + 1].lead = lead
        /\ \A k \in DOMAIN jobs : jobs'[k] = jobs[k]
    BY <1>1, EnqueueEffect
  <1>3. Len(jobs') = Len(jobs) + 1
    <2>1. jobs \in Seq(Job) /\ jobs' \in Seq(Job)
      BY <1>1, EnqueueEffect DEF ServicesTypeOK
    <2>2. /\ Len(jobs) \in Nat /\ DOMAIN jobs = 1..Len(jobs)
          /\ Len(jobs') \in Nat /\ DOMAIN jobs' = 1..Len(jobs')
      BY <2>1, LenProperties
    <2> QED
      BY <1>2, <2>2
  <1>4. Replies' = Replies \cup {lead}
    BY <1>2 DEF Replies
  <1>5. Waiting' \subseteq Waiting \ {lead}
    BY <1>4 DEF Waiting
  <1>6. lead \in Replies => lead \in Waiting
    BY <1>1 DEF Waiting, AfterSend
  <1>7. /\ Len(jobs) \in Nat /\ interruptions \in Nat
        /\ IsFiniteSet(Replies) /\ Cardinality(Replies) \in Nat
        /\ IsFiniteSet(Waiting) /\ Cardinality(Waiting) \in Nat
        /\ Waiting \subseteq Replies
    BY CountTypes
  <1>8. IsFiniteSet(Waiting \ {lead})
    BY <1>7, FS_RemoveElement
  <1>9. /\ Cardinality(Waiting') \in Nat
        /\ Cardinality(Waiting') <= Cardinality(Waiting \ {lead})
    BY <1>5, <1>8, FS_Subset, FS_CardinalityType
  <1>10. Cardinality(Waiting \ {lead}) = IF lead \in Waiting THEN Cardinality(Waiting) - 1
                                                             ELSE Cardinality(Waiting)
    BY <1>7, FS_RemoveElement
  <1>11. Cardinality(Replies') = IF lead \in Replies THEN Cardinality(Replies)
                                                     ELSE Cardinality(Replies) + 1
    BY <1>4, <1>7, FS_AddElement
  <1>12. interruptions' = interruptions
    OBVIOUS
  <1>13. lead \in Waiting <=> lead \in Replies
    BY <1>6, <1>7
  <1> QED
    BY <1>3, <1>7, <1>9, <1>10, <1>11, <1>12, <1>13 DEF RepliesAreCounted

\* A run that has come to its end takes no further call, and one that posts comes to it.
LEMMA RunEnds ==
    ASSUME TypeOK, PollerStep \/ PollerFailure
    PROVE  /\ call.pc \in {"return", "raise"} => MarkProcessed \/ Interrupted
           /\ slack' # slack => call'.pc \in {"return", "raise"}
  <1>1. call \in Call
    BY DEF TypeOK, ProcessLeadTypeOK
  <1>2. call.pc \in {"return", "raise"} => MarkProcessed \/ Interrupted
    BY DEF PollerStep, PollerFailure, Dispatch, Fetch, CheckPerson, FindOrCreate, CreateInquiry,
           SendReply, RecordFingerprint, RecordPerson, WriteSupabaseRow, PostSlack,
           FetchFailsOpen, CheckPersonFailsOpen, RecordFails, CallRaises, CallRaisesLate
  <1>3. slack' # slack => PostSlack \/ CallRaisesLate
    BY DEF PollerStep, PollerFailure, Dispatch, Fetch, CheckPerson, FindOrCreate, CreateInquiry,
           SendReply, RecordFingerprint, RecordPerson, WriteSupabaseRow, MarkProcessed, Interrupted,
           FetchFailsOpen, CheckPersonFailsOpen, RecordFails, CallRaises, services
  <1>4. PostSlack \/ CallRaisesLate => Goto("return") \/ Goto("raise")
    BY DEF PostSlack, CallRaisesLate
  <1> QED
    BY <1>1, <1>2, <1>3, <1>4, GotoTypes DEF Pc

LEMMA PollerReplies ==
    ASSUME TypeOK, RunIsUnmarked, RepliesAreCounted, PollerStep \/ PollerFailure
    PROVE  RepliesAreCounted'
  <1>1. /\ call \in Call /\ (call.pc # "idle" => lead \in Lead)
        /\ processed \in [Lead -> DB!ProcessedVal] /\ Replies \subseteq Lead
    BY CountTypes DEF TypeOK, ProcessLeadTypeOK
  <1>2. CASE \E l \in Lead : Dispatch(l)
    <2>1. call.pc = "idle" /\ UNCHANGED <<jobs, processed, interruptions>>
      BY <1>2 DEF Dispatch, services, sqlite, history
    <2>2. Replies' = Replies /\ Waiting' \subseteq Waiting
      BY <2>1 DEF Replies, Waiting, AfterSend
    <2> QED
      BY <2>1, <2>2, RepliesStayCounted
  <1>3. CASE MarkProcessed
    <2>1. call.pc # "idle" /\ UNCHANGED <<jobs, interruptions>>
      BY <1>3 DEF MarkProcessed, services, history
    <2>2. PICK v \in {"ok", "error"} : processed' = [processed EXCEPT ![lead] = v]
      BY <1>3 DEF MarkProcessed, DB!MarkProcessed
    <2>3. processed'[lead] # "no" /\ \A l \in Lead : l # lead => processed'[l] = processed[l]
      BY <1>1, <2>1, <2>2
    <2>4. Replies' = Replies
      BY <2>1 DEF Replies
    <2>5. Waiting' \subseteq Waiting
      BY <1>1, <2>3, <2>4 DEF Waiting
    <2> QED
      BY <2>1, <2>4, <2>5, RepliesStayCounted
  <1>4. CASE Interrupted
    <2>1. /\ interruptions' = interruptions + 1
          /\ UNCHANGED <<jobs, processed>>
      BY <1>4 DEF Interrupted, services, sqlite
    <2>2. Replies' = Replies /\ Waiting' \subseteq Waiting \cup {lead}
      BY <2>1 DEF Replies, Waiting
    <2> QED
      BY <2>1, <2>2, RepliesStayCounted
  <1>5. CASE /\ call.pc # "idle" /\ lead' = lead
             /\ UNCHANGED <<processed, interruptions>>
             /\ call.pc \in AfterSend => call'.pc \in AfterSend
             /\ call.pc = "send" => call'.pc \in AfterSend
    <2>1. CASE jobs' = jobs
      <3>1. Replies' = Replies /\ Waiting' \subseteq Waiting
        BY <1>5, <2>1 DEF Replies, Waiting
      <3> QED
        BY <1>5, <2>1, <3>1, RepliesStayCounted
    <2>2. CASE Enqueue /\ call.pc = "send"
      BY <1>5, <2>2, EnqueueIsCounted
    <2> QED
      BY <2>1, <2>2, PollerEffects
  <1> QED
    BY <1>2, <1>3, <1>4, <1>5, RunSteps

LEMMA PollerPosts ==
    ASSUME TypeOK, RunIsUnmarked, PostsAreCounted, PollerStep \/ PollerFailure
    PROVE  PostsAreCounted'
  <1>1. /\ call \in Call /\ (call.pc # "idle" => lead \in Lead)
        /\ processed \in [Lead -> DB!ProcessedVal]
        /\ interruptions \in Nat /\ slack \in [Lead -> Nat]
    BY CountTypes DEF TypeOK, ProcessLeadTypeOK, ServicesTypeOK
  <1> SUFFICES ASSUME NEW l \in Lead
               PROVE  slack'[l] <= IF MayPost(l)' THEN interruptions' ELSE 1 + interruptions'
    BY DEF PostsAreCounted
  <1>2. slack[l] \in Nat /\ slack[l] <= IF MayPost(l) THEN interruptions ELSE 1 + interruptions
    BY <1>1 DEF PostsAreCounted
  <1>3. CASE \E k \in Lead : Dispatch(k)
    <2>1. call.pc = "idle" /\ UNCHANGED <<slack, processed, interruptions>>
      BY <1>3 DEF Dispatch, services, sqlite, history
    <2>2. MayPost(l)' => MayPost(l)
      BY <2>1 DEF MayPost
    <2> QED
      BY <1>1, <1>2, <2>1, <2>2
  <1>4. CASE MarkProcessed
    <2>1. call.pc # "idle" /\ UNCHANGED <<slack, interruptions>>
      BY <1>4 DEF MarkProcessed, services, history
    <2>2. PICK v \in {"ok", "error"} : processed' = [processed EXCEPT ![lead] = v]
      BY <1>4 DEF MarkProcessed, DB!MarkProcessed
    <2>3. MayPost(l)' => MayPost(l)
      BY <1>1, <2>1, <2>2 DEF MayPost
    <2> QED
      BY <1>1, <1>2, <2>1, <2>3
  <1>5. CASE Interrupted
    <2>1. interruptions' = interruptions + 1 /\ slack' = slack
      BY <1>5 DEF Interrupted, services
    <2> QED
      BY <1>1, <1>2, <2>1
  <1>6. CASE /\ call.pc # "idle" /\ lead' = lead
             /\ UNCHANGED <<processed, interruptions>>
             /\ ~MarkProcessed /\ ~Interrupted
    <2>1. call.pc \notin {"return", "raise"}
      BY <1>6, RunEnds
    <2>2. CASE slack' = slack
      <3>1. MayPost(l)' => MayPost(l)
        BY <1>6, <2>1 DEF MayPost
      <3> QED
        BY <1>1, <1>2, <1>6, <2>2, <3>1
    <2>3. CASE slack' # slack
      <3>1. slack' = [slack EXCEPT ![lead] = @ + 1] /\ call'.pc \in {"return", "raise"}
        BY <2>3, PollerEffects, RunEnds
      <3>2. CASE l = lead
        <4>1. MayPost(l) /\ ~MayPost(l)'
          BY <1>6, <2>1, <3>1, <3>2 DEF MayPost, RunIsUnmarked
        <4>2. slack'[l] = slack[l] + 1 /\ interruptions' = interruptions
          BY <1>1, <1>6, <3>1, <3>2
        <4> QED
          BY <1>1, <1>2, <4>1, <4>2
      <3>3. CASE l # lead
        <4>1. MayPost(l)' <=> MayPost(l)
          BY <1>6, <3>3 DEF MayPost
        <4>2. slack'[l] = slack[l] /\ interruptions' = interruptions
          BY <1>1, <1>6, <3>1, <3>3
        <4> QED
          BY <1>1, <1>2, <4>1, <4>2
      <3> QED
        BY <3>2, <3>3
    <2> QED
      BY <2>2, <2>3
  <1> QED
    BY <1>3, <1>4, <1>5, <1>6, RunSteps

LEMMA NextCount == TypeOK /\ JobInv /\ CountInv /\ [Next]_vars => CountInv'
  <1> SUFFICES ASSUME TypeOK, JobInv, CountInv, [Next]_vars PROVE CountInv'
    OBVIOUS
  <1>1. CASE PollerStep \/ PollerFailure
    BY <1>1, PollerReplies, PollerPosts DEF CountInv, JobInv
  <1>2. CASE WorkerStep \/ WorkerFailure
    <2>1. /\ DOMAIN jobs' = DOMAIN jobs /\ \A j \in DOMAIN jobs : jobs'[j].lead = jobs[j].lead
          /\ UNCHANGED poller
      BY <1>2, WorkerKeepsJobs
    <2>2. slack' = slack
      BY <1>2 DEF WorkerStep, WorkerFailure, StartJob, RunJob, GmailSend, WriteAirtable,
                  WriteSupabase, JobFails, JobFailsLate
    <2>3. UNCHANGED <<call, processed, interruptions>>
      BY <2>1 DEF poller, sqlite, history
    <2>4. Replies' = Replies
      BY <2>1 DEF Replies
    <2>5. Waiting' = Waiting
      BY <2>3, <2>4 DEF Waiting, lead
    <2>6. Len(jobs') = Len(jobs)
      <3>1. jobs \in Seq(Job) /\ jobs' \in Seq(Job)
        BY NextTypes DEF TypeOK, ServicesTypeOK
      <3>2. /\ Len(jobs) \in Nat /\ DOMAIN jobs = 1..Len(jobs)
            /\ Len(jobs') \in Nat /\ DOMAIN jobs' = 1..Len(jobs')
        BY <3>1, LenProperties
      <3> QED
        BY <2>1, <3>2
    <2>7. RepliesAreCounted'
      BY <2>3, <2>4, <2>5, <2>6 DEF CountInv, RepliesAreCounted
    <2>8. PostsAreCounted'
      BY <2>2, <2>3 DEF CountInv, PostsAreCounted, MayPost, lead
    <2> QED
      BY <2>7, <2>8 DEF CountInv
  <1>3. CASE Tick \/ UNCHANGED vars
    <2>1. UNCHANGED <<jobs, slack, call, processed, interruptions>>
      BY <1>3 DEF Tick, vars, poller, services, sqlite, history
    <2>2. Replies' = Replies /\ Waiting' = Waiting
      BY <2>1 DEF Replies, Waiting, lead
    <2> QED
      BY <2>1, <2>2 DEF CountInv, RepliesAreCounted, PostsAreCounted, MayPost, lead
  <1> QED
    BY <1>1, <1>2, <1>3 DEF Next

\* Every further reply to a lead and every further post for it has cost a run cut short, whichever
\* calls raise, before or after their effect.
THEOREM RepeatsPerInterruptionCorrect == Spec => []RepeatsPerInterruption
  <1>1. TypeOK /\ JobInv /\ CountInv /\ [Next]_vars => TypeOK' /\ JobInv' /\ CountInv'
    BY NextTypes, NextJobs, NextCount
  <1>2. TypeOK /\ CountInv => RepeatsPerInterruption
    <2> SUFFICES ASSUME TypeOK, CountInv PROVE RepeatsPerInterruption
      OBVIOUS
    <2>1. /\ Len(jobs) \in Nat /\ interruptions \in Nat
          /\ Cardinality(Replies) \in Nat /\ Cardinality(Waiting) \in Nat
      BY CountTypes
    <2>2. Len(jobs) <= Cardinality(Replies) + interruptions
      BY <2>1 DEF CountInv, RepliesAreCounted
    <2>3. \A l \in Lead : slack[l] \in Nat
      BY DEF TypeOK, ServicesTypeOK
    <2>4. \A l \in Lead : slack[l] <= 1 + interruptions
      BY <2>1, <2>3 DEF CountInv, PostsAreCounted
    <2> QED
      BY <2>2, <2>4 DEF RepeatsPerInterruption, Replies
  <1> QED
    BY InitTypes, InitJobs, InitCount, <1>1, <1>2, PTL DEF Spec

-----------------------------------------------------------------------------
(***************************************************************************)
(* The dedup window.                                                       *)
(***************************************************************************)

\* The rows that are in the table have the types their columns need.
LEMMA RowTypes ==
    ASSUME TypeOK, NEW r \in fingerprints
    PROVE  r.at \in Nat /\ r.msg \in Lead
  BY ProcessLeadAssumption DEF TypeOK, ProcessLeadTypeOK

\* What the lookup of Fetch has found out when it lets a lead go on.
LEMMA LookupFound ==
    ASSUME TypeOK, RowsAreOfTheirMessage, lead \in Lead, ~IsDuplicate
    PROVE  \A r \in fingerprints : r.msg # lead /\ SameContent(r.msg, lead) =>
              now - r.at > DedupWindow
  <1> SUFFICES ASSUME NEW r \in fingerprints, r.msg # lead, SameContent(r.msg, lead)
               PROVE  now - r.at > DedupWindow
    OBVIOUS
  <1>1. r.mailbox = MailboxOf[lead] /\ r.fingerprint = FingerprintOf[lead]
    BY DEF RowsAreOfTheirMessage, SameContent
  <1>2. ~(r.at >= now - DedupWindow)
    BY <1>1 DEF IsDuplicate, DB!RecentDuplicate
  <1>3. r.at \in Nat /\ now \in Nat /\ DedupWindow \in Nat
    BY RowTypes, ProcessLeadAssumption DEF TypeOK, ProcessLeadTypeOK
  <1> QED
    BY <1>2, <1>3

LEMMA InitDedup == Init => DedupInv
  BY DEF Init, ServicesInit, ProcessLeadInit, NoCall, DedupInv, RowsAreOfTheirMessage,
         LookupStillHolds, DedupWindowHolds, BeforeRecord

\* The one step that adds a row: the new row is the youngest, and every older row of the same
\* content is out of its window.
LEMMA RecordDedup ==
    ASSUME TypeOK, DedupInv, RecordFingerprint
    PROVE  DedupInv'
  <1> DEFINE row == [mailbox |-> MailboxOf[lead], fingerprint |-> FingerprintOf[lead],
                     msg |-> lead, at |-> now]
  <1>1. /\ call \in Call /\ call.pc = "record" /\ now \in Nat /\ DedupWindow \in Nat
        /\ UNCHANGED <<now, failedOpen>>
    BY ProcessLeadAssumption
    DEF RecordFingerprint, TypeOK, ProcessLeadTypeOK, history
  <1>2. fingerprints' = fingerprints \cup {row}
    BY DEF RecordFingerprint, DB!RecordReply
  <1>3. /\ row.mailbox = MailboxOf[row.msg] /\ row.fingerprint = FingerprintOf[row.msg]
        /\ row.msg = lead /\ row.at = now
    OBVIOUS
  <1> HIDE DEF row
  <1>4. call'.pc \notin BeforeRecord
    <2>1. Goto("recordPerson") \/ Goto("supabase")
      BY DEF RecordFingerprint, AfterRecord
    <2> QED
      BY <1>1, <2>1, GotoTypes DEF BeforeRecord, Pc
  <1>5. RowsAreOfTheirMessage'
    BY <1>1, <1>2, <1>3 DEF DedupInv, RowsAreOfTheirMessage
  <1>6. \A r \in fingerprints : r.at \in Nat /\ r.at <= now
    BY RowTypes DEF DedupInv, RowsAreOfTheirMessage
  <1>7. \A r \in fingerprints : r.msg # lead /\ SameContent(r.msg, lead) /\ lead \notin failedOpen
                               => now - r.at > DedupWindow
    BY <1>1 DEF DedupInv, LookupStillHolds, BeforeRecord
  <1>8. DedupWindowHolds'
    <2> SUFFICES ASSUME NEW r \in fingerprints', NEW s \in fingerprints',
                        r.msg # s.msg, SameContent(r.msg, s.msg), s.at - r.at \in 0..DedupWindow
                 PROVE  r.msg \in failedOpen \/ s.msg \in failedOpen
      BY <1>1 DEF DedupWindowHolds, SameContent
    <2>1. CASE r \in fingerprints /\ s \in fingerprints
      BY <2>1 DEF DedupInv, DedupWindowHolds
    <2>2. CASE r \in fingerprints /\ s = row
      BY <1>1, <1>3, <1>6, <1>7, <2>2
    <2>3. CASE r = row /\ s \in fingerprints
      <3>1. s.at = now
        BY <1>1, <1>3, <1>6, <2>3
      <3>2. SameContent(s.msg, lead) /\ s.msg # lead
        BY <1>3, <2>3 DEF SameContent
      <3> QED
        BY <1>1, <1>3, <1>7, <2>3, <3>1, <3>2
    <2>4. CASE r = row /\ s = row
      BY <2>4
    <2> QED
      BY <1>2, <2>1, <2>2, <2>3, <2>4
  <1> QED
    BY <1>4, <1>5, <1>8 DEF DedupInv, LookupStillHolds

\* Every other step of the poller.
LEMMA PollerDedup ==
    ASSUME TypeOK, DedupInv, PollerStep \/ PollerFailure
    PROVE  DedupInv'
  <1>1. CASE RecordFingerprint
    BY <1>1, RecordDedup
  <1>2. CASE fingerprints' = fingerprints
    <2>1. now' = now
      BY PollerEffects
    <2>2. failedOpen \subseteq failedOpen'
      BY PollerEffects DEF FetchFailsOpen, CheckPersonFailsOpen
    <2>3. RowsAreOfTheirMessage' /\ DedupWindowHolds'
      BY <1>2, <2>1, <2>2
      DEF DedupInv, RowsAreOfTheirMessage, DedupWindowHolds, SameContent
    <2>4. LookupStillHolds'
      <3> SUFFICES ASSUME call'.pc \in BeforeRecord, lead' \notin failedOpen'
                   PROVE  \A r \in fingerprints : r.msg # lead' /\ SameContent(r.msg, lead') =>
                             now - r.at > DedupWindow
        BY <1>2, <2>1 DEF LookupStillHolds, SameContent
      <3>1. /\ lead' = lead
            /\ call.pc \in BeforeRecord \/ Fetch \/ FetchFailsOpen
        <4>1. ~(\E l \in Lead : Dispatch(l))
          BY DEF Dispatch, NoCall, BeforeRecord
        <4>2. ~MarkProcessed /\ ~Interrupted
          BY DEF MarkProcessed, Interrupted, NoCall, BeforeRecord
        <4> QED
          BY <4>1, <4>2, RunSteps
      <3>2. CASE call.pc \in BeforeRecord
        BY <2>2, <3>1, <3>2 DEF DedupInv, LookupStillHolds
      <3>3. CASE Fetch
        <4>1. call \in Call /\ lead \in Lead
          BY <3>3 DEF Fetch, TypeOK, ProcessLeadTypeOK
        <4>2. ~Goto("return")
          BY <4>1, GotoTypes DEF BeforeRecord, Pc
        <4> QED
          BY <3>1, <3>3, <4>1, <4>2, LookupFound DEF Fetch, DedupInv
      <3>4. CASE FetchFailsOpen
        BY <3>1, <3>4 DEF FetchFailsOpen
      <3> QED
        BY <3>1, <3>2, <3>3, <3>4
    <2> QED
      BY <2>3, <2>4 DEF DedupInv
  <1> QED
    BY <1>1, <1>2, PollerEffects

LEMMA NextDedup == TypeOK /\ DedupInv /\ [Next]_vars => DedupInv'
  <1> SUFFICES ASSUME TypeOK, DedupInv, [Next]_vars PROVE DedupInv'
    OBVIOUS
  <1>1. CASE PollerStep \/ PollerFailure
    BY <1>1, PollerDedup
  <1>2. CASE WorkerStep \/ WorkerFailure \/ UNCHANGED vars
    <2>1. UNCHANGED <<now, call, fingerprints, failedOpen>>
      BY <1>2 DEF WorkerStep, WorkerFailure, vars, poller, sqlite, history
    <2> QED
      BY <2>1 DEF DedupInv, RowsAreOfTheirMessage, LookupStillHolds, DedupWindowHolds,
                  SameContent, lead
  <1>3. CASE Tick
    <2>1. now' = now + 1 /\ UNCHANGED <<call, fingerprints, failedOpen>>
      BY <1>3 DEF Tick, sqlite, history
    <2>2. now \in Nat /\ DedupWindow \in Nat /\ \A r \in fingerprints : r.at \in Nat
      BY RowTypes, ProcessLeadAssumption DEF TypeOK, ProcessLeadTypeOK
    <2>3. RowsAreOfTheirMessage'
      BY <2>1, <2>2 DEF DedupInv, RowsAreOfTheirMessage
    <2>4. LookupStillHolds'
      BY <2>1, <2>2 DEF DedupInv, LookupStillHolds, SameContent, lead
    <2>5. DedupWindowHolds'
      BY <2>1 DEF DedupInv, DedupWindowHolds, SameContent
    <2> QED
      BY <2>3, <2>4, <2>5 DEF DedupInv
  <1> QED
    BY <1>1, <1>2, <1>3 DEF Next

\* No two copies of an inquiry are both answered within the window, unless a lookup failed open:
\* the row is written at the end of a run whose lookup was at its beginning, but no other run and
\* no worker writes a row between the two.
THEOREM DedupWindowCorrect == Spec => []DedupWindowHolds
  <1>1. TypeOK /\ DedupInv /\ [Next]_vars => TypeOK' /\ DedupInv'
    BY NextTypes, NextDedup
  <1>2. DedupInv => DedupWindowHolds
    BY DEF DedupInv
  <1> QED
    BY InitTypes, InitDedup, <1>1, <1>2, PTL DEF Spec

=============================================================================
