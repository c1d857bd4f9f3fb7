---------------------------- MODULE RecordProofs ----------------------------
(***************************************************************************)
(* The stores of AutoReply agree with each other and with what was sent,    *)
(* for every value of the constants.                                       *)
(***************************************************************************)
EXTENDS AutoReplyProofs

-----------------------------------------------------------------------------
(***************************************************************************)
(* The inductive invariant.                                                *)
(***************************************************************************)

\* The calls of a run that holds an inquiry.
HoldsInquiry == {"send", "record", "recordPerson", "supabase", "slack"}

\* The inquiry a run holds is a row of its own lead.
RunKnowsInquiry ==
    call.pc \in HoldsInquiry =>
        call.inquiry \in DOMAIN inquiries /\ inquiries[call.inquiry].lead = lead

\* A run about to insert still has no row it could have found.
RunHasNoInquiry == call.pc = "create" => FindInquiry(lead) = {}

\* A run about to post has its Supabase row.
RunHasRow == call.pc = "slack" => \E r \in supabase : r.id = call.inquiry

\* A job answers the lead of its own inquiry.
JobKnowsInquiry ==
    \A j \in DOMAIN jobs : /\ jobs[j].inquiry \in DOMAIN inquiries
                           /\ inquiries[jobs[j].inquiry].lead = jobs[j].lead

\* How far a job has come shows in the mailbox and in Airtable.
JobProgress ==
    \A j \in DOMAIN jobs :
        /\ jobs[j].status \in {"sent", "written"} => j \in mail
        /\ jobs[j].status = "written" => inquiries[jobs[j].inquiry].reply # 0

RecordInv ==
    /\ RunKnowsInquiry /\ RunHasNoInquiry /\ RunHasRow
    /\ JobKnowsInquiry /\ JobProgress
    /\ PhaseOrder /\ ReplyRecordsAreTrue /\ SecondInquiryAfterWriteback

LEMMA InitRecords == Init => RecordInv
  BY DEF Init, ServicesInit, ProcessLeadInit, NoCall, RecordInv, RunKnowsInquiry,
         RunHasNoInquiry, RunHasRow, JobKnowsInquiry, JobProgress, PhaseOrder,
         ReplyRecordsAreTrue, SecondInquiryAfterWriteback, HoldsInquiry

-----------------------------------------------------------------------------
(***************************************************************************)
(* What a step of a run knows of its inquiry.                              *)
(***************************************************************************)

LEMMA InquirySteps ==
    ASSUME TypeOK, PollerStep \/ PollerFailure
    PROVE  /\ call'.pc \in HoldsInquiry =>
                 /\ lead' = lead
                 /\ \/ call.pc \in HoldsInquiry /\ call'.inquiry = call.inquiry
                    \/ call'.inquiry \in FindInquiry(lead)
                    \/ CreateInquiry
           /\ call'.pc = "create" => /\ lead' = lead
                                     /\ FindInquiry(lead) = {}
                                     /\ inquiries' = inquiries
           /\ call'.pc = "slack" => WriteSupabaseRow
  <1>1. call \in Call
    BY DEF TypeOK, ProcessLeadTypeOK
  <1> USE DEF lead, HoldsInquiry
  <1>2. ASSUME NEW pc \in Pc, Goto(pc)
        PROVE  /\ call'.pc = pc
               /\ lead' = lead
               /\ call'.inquiry = call.inquiry
    BY <1>1, <1>2, GotoTypes
  <1>3. CASE \E l \in Lead : Dispatch(l)
    BY <1>3 DEF Dispatch, NoCall
  <1>4. CASE MarkProcessed \/ Interrupted
    BY <1>4 DEF MarkProcessed, Interrupted, NoCall
  <1>5. CASE Fetch \/ FetchFailsOpen
    BY <1>2, <1>5 DEF Fetch, FetchFailsOpen, Pc
  <1>6. CASE CheckPerson \/ CheckPersonFailsOpen
    BY <1>1, <1>6 DEF CheckPerson, CheckPersonFailsOpen, Call
  <1>7. CASE FindOrCreate
    <2>1. CASE FindInquiry(lead) = {} /\ Goto("create")
      BY <1>2, <1>7, <2>1 DEF FindOrCreate, Pc, services
    <2>2. CASE \E i \in FindInquiry(lead) : call' = [call EXCEPT !.pc = "send", !.inquiry = i]
      BY <1>1, <2>2 DEF Call
    <2> QED
      BY <1>7, <2>1, <2>2 DEF FindOrCreate
  <1>8. CASE CreateInquiry
    BY <1>1, <1>8 DEF CreateInquiry, Call
  <1>9. CASE SendReply \/ RecordFingerprint \/ RecordPerson \/ RecordFails
    <2>1. /\ call.pc \in HoldsInquiry
          /\ Goto("record") \/ Goto("recordPerson") \/ Goto("supabase")
      BY <1>9 DEF SendReply, RecordFingerprint, RecordPerson, RecordFails, AfterRecord
    <2> QED
      BY <1>2, <2>1 DEF Pc
  <1>10. CASE WriteSupabaseRow
    BY <1>2, <1>10 DEF WriteSupabaseRow, Pc
  <1>11. CASE PostSlack \/ CallRaises \/ CallRaisesLate
    BY <1>2, <1>11 DEF PostSlack, CallRaises, CallRaisesLate, Pc
  <1> QED
    BY <1>3, <1>4, <1>5, <1>6, <1>7, <1>8, <1>9, <1>10, <1>11 DEF PollerStep, PollerFailure

-----------------------------------------------------------------------------
(***************************************************************************)
(* The writes of a run, one at a time.                                     *)
(***************************************************************************)

\* The three facts about the run itself.
LEMMA PollerRun ==
    ASSUME TypeOK, RecordInv, PollerStep \/ PollerFailure
    PROVE  RunKnowsInquiry' /\ RunHasNoInquiry' /\ RunHasRow'
  <1> USE DEF RecordInv
  <1>1. \/ inquiries' = inquiries
        \/ /\ DOMAIN inquiries' = DOMAIN inquiries \cup {Len(inquiries) + 1}
           /\ inquiries'[Len(inquiries) + 1].lead = lead
           /\ \A k \in DOMAIN inquiries : inquiries'[k] = inquiries[k]
    <2>1. inquiries' = inquiries \/ (AddInquiry /\ call.pc = "create")
      BY PollerEffects
    <2>2. CASE AddInquiry /\ call.pc = "create"
      <3>1. lead \in Lead
        BY <2>2 DEF TypeOK, ProcessLeadTypeOK
      <3> QED
        BY <2>2, <3>1, AddInquiryEffect DEF TypeOK
    <2> QED
      BY <2>1, <2>2
  <1>2. RunKnowsInquiry'
    <2> SUFFICES ASSUME call'.pc \in HoldsInquiry
                 PROVE  call'.inquiry \in DOMAIN inquiries' /\ inquiries'[call'.inquiry].lead = lead'
      BY DEF RunKnowsInquiry
    <2>1. CASE call.pc \in HoldsInquiry /\ call'.inquiry = call.inquiry
      BY <1>1, <2>1, InquirySteps DEF RunKnowsInquiry
    <2>2. CASE call'.inquiry \in FindInquiry(lead)
      BY <1>1, <2>2, InquirySteps DEF FindInquiry
    <2>3. CASE CreateInquiry
      <3>1. call'.inquiry = Len(inquiries) + 1
        BY <2>3 DEF CreateInquiry, TypeOK, ProcessLeadTypeOK, Call
      <3>2. lead \in Lead /\ AddInquiry
        BY <2>3 DEF CreateInquiry, TypeOK, ProcessLeadTypeOK
      <3> QED
        BY <3>1, <3>2, AddInquiryEffect, InquirySteps DEF TypeOK
    <2> QED
      BY <2>1, <2>2, <2>3, InquirySteps
  <1>3. RunHasNoInquiry'
    BY InquirySteps DEF RunHasNoInquiry, FindInquiry
  <1>4. RunHasRow'
    <2> SUFFICES ASSUME call'.pc = "slack"
                 PROVE  \E r \in supabase' : r.id = call'.inquiry
      BY DEF RunHasRow
    <2>1. call \in Call /\ call.inquiry \in Nat
      BY DEF TypeOK, ProcessLeadTypeOK, Call
    <2>2. UpsertInquiry(call.inquiry) /\ Goto("slack")
      BY InquirySteps DEF WriteSupabaseRow
    <2>3. call'.inquiry = call.inquiry
      BY <2>1, <2>2, GotoTypes DEF Pc
    <2> QED
      BY <2>1, <2>2, <2>3, UpsertInquiryEffect DEF TypeOK
  <1> QED
    BY <1>2, <1>3, <1>4

\* A new row of Airtable, the only one of its lead that still has the lead's key.
LEMMA InsertKeepsRecords ==
    ASSUME TypeOK, RecordInv, AddInquiry, call.pc = "create",
           UNCHANGED <<jobs, mail, supabase, slack>>
    PROVE  /\ JobKnowsInquiry' /\ JobProgress'
           /\ PhaseOrder' /\ ReplyRecordsAreTrue' /\ SecondInquiryAfterWriteback'
  <1> USE DEF RecordInv
  <1> DEFINE n == Len(inquiries) + 1
  <1>1. lead \in Lead
    BY DEF TypeOK, ProcessLeadTypeOK
  <1>2. /\ DOMAIN inquiries' = DOMAIN inquiries \cup {n}
        /\ n \notin DOMAIN inquiries
        /\ inquiries'[n] = [lead |-> lead, key |-> 0, reply |-> 0]
        /\ \A k \in DOMAIN inquiries : inquiries'[k] = inquiries[k]
    BY <1>1, AddInquiryEffect DEF TypeOK
  <1> HIDE DEF n
  <1>3. inquiries'[n].lead = lead /\ inquiries'[n].key = 0 /\ inquiries'[n].reply = 0
    BY <1>2
  <1>4. JobKnowsInquiry' /\ JobProgress'
    BY <1>2 DEF JobKnowsInquiry, JobProgress
  <1>5. PhaseOrder'
    BY <1>2 DEF PhaseOrder
  <1>6. ReplyRecordsAreTrue'
    BY <1>2, <1>3 DEF ReplyRecordsAreTrue, PhaseOrder
  <1>7. \A i \in DOMAIN inquiries : inquiries[i].lead = lead => inquiries[i].key # 0
    BY DEF RunHasNoInquiry, FindInquiry
  <1>8. SecondInquiryAfterWriteback'
    BY <1>2, <1>3, <1>7 DEF SecondInquiryAfterWriteback
  <1> QED
    BY <1>4, <1>5, <1>6, <1>8

\* A new job answers the inquiry its run holds.
LEMMA EnqueueKeepsRecords ==
    ASSUME TypeOK, RecordInv, Enqueue, call.pc = "send",
           UNCHANGED <<inquiries, mail, supabase, slack>>
    PROVE  /\ JobKnowsInquiry' /\ JobProgress'
           /\ PhaseOrder' /\ ReplyRecordsAreTrue' /\ SecondInquiryAfterWriteback'
  <1> USE DEF RecordInv
  <1> DEFINE n == Len(jobs) + 1
  <1>1. lead \in Lead /\ call \in Call
    BY DEF TypeOK, ProcessLeadTypeOK
  <1>2. /\ DOMAIN jobs' = DOMAIN jobs \cup {n}
        /\ n \notin DOMAIN jobs
        /\ jobs'[n].lead = lead
        /\ jobs'[n].inquiry = call.inquiry
        /\ \A k \in DOMAIN jobs : jobs'[k] = jobs[k]
    BY <1>1, EnqueueEffect DEF TypeOK
  <1>3. jobs'[n].status = "scheduled"
    <2> DEFINE e == [lead |-> lead, inquiry |-> call.inquiry,
                     template |-> IF call.repeat THEN "repeat" ELSE "first",
                     status |-> "scheduled"]
    <2>1. e \in Job /\ e.status = "scheduled"
      BY <1>1 DEF Call, Job, Template, JobStatus
    <2>2. jobs' = Append(jobs, e) /\ jobs \in Seq(Job)
      BY DEF Enqueue, TypeOK, ServicesTypeOK
    <2> HIDE DEF e
    <2> QED
      BY <2>1, <2>2, SeqAppend
  <1> HIDE DEF n
  <1>4. call.inquiry \in DOMAIN inquiries /\ inquiries[call.inquiry].lead = lead
    BY DEF RunKnowsInquiry, HoldsInquiry
  <1>5. JobKnowsInquiry' /\ JobProgress'
    BY <1>2, <1>3, <1>4 DEF JobKnowsInquiry, JobProgress
  <1>6. mail \subseteq DOMAIN jobs
    BY DEF TypeOK, ServicesTypeOK
  <1>7. ReplyRecordsAreTrue'
    BY <1>2, <1>6 DEF ReplyRecordsAreTrue
  <1>8. PhaseOrder' /\ SecondInquiryAfterWriteback'
    BY DEF PhaseOrder, SecondInquiryAfterWriteback
  <1> QED
    BY <1>5, <1>7, <1>8

\* A new row of Supabase, for the inquiry the run holds, and the post that follows it.
LEMMA AnnounceKeepsRecords ==
    ASSUME TypeOK, RecordInv, UNCHANGED <<inquiries, jobs, mail>>,
           \/ UpsertInquiry(call.inquiry) /\ call.pc = "supabase" /\ UNCHANGED slack
           \/ slack' = [slack EXCEPT ![lead] = @ + 1] /\ call.pc = "slack" /\ UNCHANGED supabase
    PROVE  /\ JobKnowsInquiry' /\ JobProgress'
           /\ PhaseOrder' /\ ReplyRecordsAreTrue' /\ SecondInquiryAfterWriteback'
  <1> USE DEF RecordInv
  <1>1. call.inquiry \in DOMAIN inquiries /\ inquiries[call.inquiry].lead = lead
    BY DEF RunKnowsInquiry, HoldsInquiry
  <1>2. JobKnowsInquiry' /\ JobProgress' /\ SecondInquiryAfterWriteback'
    BY DEF JobKnowsInquiry, JobProgress, SecondInquiryAfterWriteback
  <1>3. CASE UpsertInquiry(call.inquiry) /\ UNCHANGED slack
    <2>1. call.inquiry \in Nat
      BY DEF TypeOK, ProcessLeadTypeOK, Call
    <2>2. /\ supabase \subseteq supabase'
          /\ \A r \in supabase' : r \in supabase \/ (r.id = call.inquiry /\ r.reply = 0)
      BY <1>3, <2>1, UpsertInquiryEffect DEF TypeOK
    <2> QED
      BY <1>1, <1>2, <1>3, <2>2 DEF PhaseOrder, ReplyRecordsAreTrue
  <1>4. CASE slack' = [slack EXCEPT ![lead] = @ + 1] /\ call.pc = "slack" /\ UNCHANGED supabase
    <2>1. \E r \in supabase : inquiries[r.id].lead = lead
      BY <1>1, <1>4 DEF RunHasRow
    <2>2. \A l \in Lead : l # lead => slack'[l] = slack[l]
      BY <1>4 DEF TypeOK, ServicesTypeOK
    <2> QED
      BY <1>2, <1>4, <2>1, <2>2 DEF PhaseOrder, ReplyRecordsAreTrue
  <1> QED
    BY <1>3, <1>4

LEMMA PollerRecords ==
    ASSUME TypeOK, RecordInv, PollerStep \/ PollerFailure
    PROVE  RecordInv'
  <1>1. RunKnowsInquiry' /\ RunHasNoInquiry' /\ RunHasRow'
    BY PollerRun
  <1>2. CASE UNCHANGED <<inquiries, jobs, supabase, slack>>
    <2>1. mail' = mail
      BY PollerEffects
    <2>2. JobKnowsInquiry' /\ JobProgress' /\ PhaseOrder' /\ ReplyRecordsAreTrue'
          /\ SecondInquiryAfterWriteback'
      BY <1>2, <2>1
      DEF RecordInv, JobKnowsInquiry, JobProgress, PhaseOrder, ReplyRecordsAreTrue,
          SecondInquiryAfterWriteback
    <2> QED
      BY <1>1, <2>2 DEF RecordInv
  <1>3. CASE inquiries' # inquiries
    <2>1. /\ AddInquiry /\ call.pc = "create"
          /\ UNCHANGED <<jobs, mail, supabase, slack>>
      BY <1>3, PollerEffects
    <2> QED
      BY <1>1, <2>1, InsertKeepsRecords DEF RecordInv
  <1>4. CASE jobs' # jobs
    <2>1. /\ Enqueue /\ call.pc = "send"
          /\ UNCHANGED <<inquiries, mail, supabase, slack>>
      BY <1>4, PollerEffects
    <2> QED
      BY <1>1, <2>1, EnqueueKeepsRecords DEF RecordInv
  <1>5. CASE supabase' # supabase \/ slack' # slack
    <2>1. /\ UNCHANGED <<inquiries, jobs, mail>>
          /\ \/ UpsertInquiry(call.inquiry) /\ call.pc = "supabase" /\ UNCHANGED slack
             \/ /\ slack' = [slack EXCEPT ![lead] = @ + 1]
                /\ call.pc = "slack"
                /\ UNCHANGED supabase
      BY <1>5, PollerEffects
    <2> QED
      BY <1>1, <2>1, AnnounceKeepsRecords DEF RecordInv
  <1> QED
    BY <1>2, <1>3, <1>4, <1>5

-----------------------------------------------------------------------------
(***************************************************************************)
(* The writes of a worker.                                                 *)
(***************************************************************************)

\* What the step of a worker does, one variable at a time.
LEMMA WorkerEffects ==
    ASSUME TypeOK, NEW j \in DOMAIN jobs,
           StartJob(j) \/ RunJob(j) \/ JobFails(j) \/ JobFailsLate(j)
    PROVE  /\ slack' = slack
           /\ DOMAIN jobs' = DOMAIN jobs
           /\ \A k \in DOMAIN jobs : /\ jobs'[k].lead = jobs[k].lead
                                     /\ jobs'[k].inquiry = jobs[k].inquiry
                                     /\ k # j => jobs'[k].status = jobs[k].status
           /\ mail' = mail \/ mail' = mail \cup {j}
           /\ jobs'[j].status \in {"sent", "written"} => j \in mail' \/ jobs[j].status = "sent"
           /\ jobs'[j].status = "written" => UpdateAutoreplyBody(jobs[j].inquiry, j)
           /\ \/ inquiries' = inquiries
              \/ /\ UpdateAutoreplyBody(jobs[j].inquiry, j)
                 /\ jobs[j].status = "sent"
                 /\ UNCHANGED <<supabase, mail>>
           /\ \/ supabase' = supabase
              \/ /\ UpdateInquiryReply(jobs[j].inquiry, j)
                 /\ jobs[j].status = "written"
                 /\ UNCHANGED <<inquiries, mail>>
  <1> DEFINE New(s) == SetStatus(j, s)
  <1>1. ASSUME NEW s \in JobStatus, SetStatus(j, s)
        PROVE  /\ DOMAIN jobs' = DOMAIN jobs
               /\ jobs'[j].status = s
               /\ \A k \in DOMAIN jobs : /\ jobs'[k].lead = jobs[k].lead
                                         /\ jobs'[k].inquiry = jobs[k].inquiry
                                         /\ k # j => jobs'[k].status = jobs[k].status
    <2> DEFINE e == [jobs[j] EXCEPT !.status = s]
    <2>1. jobs \in Seq(Job) /\ jobs[j] \in Job
      BY SeqElement DEF TypeOK, ServicesTypeOK
    <2>2. e \in Job /\ e.status = s
      BY <2>1 DEF Job
    <2>3. jobs' = [jobs EXCEPT ![j] = e]
      BY <1>1 DEF SetStatus
    <2>4. \A k \in DOMAIN jobs : /\ jobs'[k].lead = jobs[k].lead
                                 /\ jobs'[k].inquiry = jobs[k].inquiry
      BY <1>1, SetStatusEffect DEF TypeOK
    <2> HIDE DEF e
    <2> QED
      BY <2>1, <2>2, <2>3, <2>4, SeqUpdate
  <1>2. CASE StartJob(j)
    BY <1>1, <1>2 DEF StartJob, JobStatus
  <1>3. CASE GmailSend(j)
    BY <1>1, <1>3 DEF GmailSend, JobStatus
  <1>4. CASE WriteAirtable(j)
    BY <1>1, <1>4 DEF WriteAirtable, JobStatus
  <1>5. CASE WriteSupabase(j)
    BY <1>1, <1>5 DEF WriteSupabase, JobStatus
  <1>6. CASE JobFails(j) \/ JobFailsLate(j)
    BY <1>1, <1>6 DEF JobFails, JobFailsLate, JobStatus
  <1> QED
    BY <1>2, <1>3, <1>4, <1>5, <1>6 DEF RunJob

LEMMA WorkerRecords ==
    ASSUME TypeOK, RecordInv, NEW j \in DOMAIN jobs, UNCHANGED poller,
           StartJob(j) \/ RunJob(j) \/ JobFails(j) \/ JobFailsLate(j)
    PROVE  RecordInv'
  <1> USE DEF RecordInv
  <1> DEFINE i == jobs[j].inquiry
  <1>1. j \in Nat \ {0} /\ i \in Nat
    BY JobTypes DEF TypeOK
  <1>2. i \in DOMAIN inquiries /\ inquiries[i].lead = jobs[j].lead
    BY DEF JobKnowsInquiry
  <1>3. /\ call' = call /\ lead' = lead
    BY DEF poller, lead
  <1>4. /\ DOMAIN inquiries' = DOMAIN inquiries
        /\ \A k \in DOMAIN inquiries :
              /\ inquiries'[k].lead = inquiries[k].lead
              /\ \/ inquiries'[k] = inquiries[k]
                 \/ /\ k = i
                    /\ inquiries'[k].key = j
                    /\ inquiries'[k].reply = j
                    /\ jobs[j].status = "sent"
    BY <1>1, WorkerEffects, UpdateAutoreplyBodyEffect DEF TypeOK
  <1> HIDE DEF i
  <1>5. RunKnowsInquiry'
    BY <1>3, <1>4 DEF RunKnowsInquiry
  <1>6. RunHasNoInquiry'
    BY <1>1, <1>3, <1>4 DEF RunHasNoInquiry, FindInquiry
  <1>7. /\ \A r \in supabase : \E s \in supabase' : s.id = r.id
        /\ \A s \in supabase' : \/ s \in supabase
                                \/ /\ s.id = i /\ s.reply = j
                                   /\ jobs[j].status = "written"
                                   /\ inquiries' = inquiries /\ mail' = mail
                                   /\ \E r \in supabase : r.id = s.id
    <2>1. CASE supabase' = supabase
      BY <2>1
    <2>2. CASE UpdateInquiryReply(i, j) /\ jobs[j].status = "written"
               /\ UNCHANGED <<inquiries, mail>>
      <3>1. \A r \in supabase : r \in SupabaseRow
        BY DEF TypeOK, ServicesTypeOK
      <3>2. \A r \in supabase : [r EXCEPT !.reply = j].id = r.id
                                /\ [r EXCEPT !.reply = j].reply = j
        BY <3>1 DEF SupabaseRow
      <3> QED
        BY <2>2, <3>2 DEF UpdateInquiryReply
    <2> QED
      BY <2>1, <2>2, WorkerEffects DEF i
  <1>8. RunHasRow'
    BY <1>3, <1>7 DEF RunHasRow
  <1>9. JobKnowsInquiry'
    BY <1>4, WorkerEffects DEF JobKnowsInquiry
  <1>10. JobProgress'
    <2> SUFFICES ASSUME NEW k \in DOMAIN jobs
                 PROVE  /\ jobs'[k].status \in {"sent", "written"} => k \in mail'
                        /\ jobs'[k].status = "written" => inquiries'[jobs'[k].inquiry].reply # 0
      BY WorkerEffects DEF JobProgress
    <2>1. jobs'[k].status \in {"sent", "written"} => k \in mail'
      BY WorkerEffects DEF JobProgress
    <2>2. ASSUME jobs'[k].status = "written" PROVE inquiries'[jobs'[k].inquiry].reply # 0
      <3>1. jobs[k].inquiry \in DOMAIN inquiries /\ jobs'[k].inquiry = jobs[k].inquiry
        BY WorkerEffects DEF JobKnowsInquiry
      <3>2. CASE k # j
        BY <1>1, <1>4, <2>2, <3>1, <3>2, WorkerEffects DEF JobProgress
      <3>3. CASE k = j
        <4>1. UpdateAutoreplyBody(i, j)
          BY <2>2, <3>3, WorkerEffects DEF i
        <4> QED
          BY <1>1, <1>2, <3>1, <3>3, <4>1, UpdateAutoreplyBodyEffect DEF TypeOK, i
      <3> QED
        BY <3>2, <3>3
    <2> QED
      BY <2>1, <2>2
  <1>11. PhaseOrder'
    <2>1. \A r \in supabase' : r.id \in DOMAIN inquiries'
      BY <1>4, <1>7 DEF PhaseOrder
    <2>2. ASSUME NEW l \in Lead, slack'[l] > 0
          PROVE  \E r \in supabase' : inquiries'[r.id].lead = l
      <3>1. PICK r \in supabase : inquiries[r.id].lead = l
        BY <2>2, WorkerEffects DEF PhaseOrder
      <3> QED
        BY <1>4, <1>7, <3>1 DEF PhaseOrder
    <2> QED
      BY <2>1, <2>2 DEF PhaseOrder
  <1>12. ReplyRecordsAreTrue'
    <2>1. ASSUME NEW k \in DOMAIN inquiries, inquiries'[k].reply # 0
          PROVE  LET m == inquiries'[k].reply IN
                 m \in mail' /\ jobs'[m].inquiry = k /\ jobs'[m].lead = inquiries'[k].lead
      <3>1. CASE inquiries'[k] = inquiries[k]
        <4>1. inquiries[k].reply \in mail /\ mail \subseteq DOMAIN jobs
          BY <2>1, <3>1 DEF ReplyRecordsAreTrue, TypeOK, ServicesTypeOK
        <4> QED
          BY <2>1, <3>1, <4>1, WorkerEffects DEF ReplyRecordsAreTrue
      <3>2. CASE k = i /\ inquiries'[k].reply = j /\ jobs[j].status = "sent"
        BY <1>2, <1>4, <3>2, WorkerEffects DEF JobProgress, i
      <3> QED
        BY <1>4, <3>1, <3>2
    <2>2. ASSUME NEW s \in supabase', s.reply # 0
          PROVE  s.reply \in mail' /\ jobs'[s.reply].inquiry = s.id /\ inquiries'[s.id].reply # 0
      <3>1. CASE s \in supabase
        <4>1. s.reply \in mail /\ mail \subseteq DOMAIN jobs /\ s.id \in DOMAIN inquiries
          BY <2>2, <3>1 DEF ReplyRecordsAreTrue, PhaseOrder, TypeOK, ServicesTypeOK
        <4> QED
          BY <1>1, <1>4, <2>2, <3>1, <4>1, WorkerEffects DEF ReplyRecordsAreTrue
      <3>2. CASE s.id = i /\ s.reply = j /\ jobs[j].status = "written"
                 /\ inquiries' = inquiries /\ mail' = mail
        BY <3>2, WorkerEffects DEF JobProgress, i
      <3> QED
        BY <1>7, <3>1, <3>2
    <2> QED
      BY <1>4, <2>1, <2>2 DEF ReplyRecordsAreTrue
  <1>13. SecondInquiryAfterWriteback'
    BY <1>1, <1>4 DEF SecondInquiryAfterWriteback
  <1> QED
    BY <1>5, <1>6, <1>8, <1>9, <1>10, <1>11, <1>12, <1>13

-----------------------------------------------------------------------------
LEMMA NextRecords == TypeOK /\ RecordInv /\ [Next]_vars => RecordInv'
  <1> SUFFICES ASSUME TypeOK, RecordInv, [Next]_vars PROVE RecordInv'
    OBVIOUS
  <1>1. CASE PollerStep \/ PollerFailure
    BY <1>1, PollerRecords
  <1>2. CASE WorkerStep \/ WorkerFailure
    BY <1>2, WorkerRecords DEF WorkerStep, WorkerFailure
  <1>3. CASE Tick \/ UNCHANGED vars
    BY <1>3
    DEF Tick, vars, poller, services, RecordInv, RunKnowsInquiry, RunHasNoInquiry, RunHasRow,
        JobKnowsInquiry, JobProgress, PhaseOrder, ReplyRecordsAreTrue,
        SecondInquiryAfterWriteback, FindInquiry, lead
  <1> QED
    BY <1>1, <1>2, <1>3 DEF Next

LEMMA RecordInvariant == Spec => [](TypeOK /\ RecordInv)
  BY InitTypes, NextTypes, InitRecords, NextRecords, PTL DEF Spec

\* A lead announced on Slack has its Supabase row, and a Supabase row its Airtable record,
\* whichever calls raise and wherever a run is cut short (process_lead.py:178-206).
THEOREM PhaseOrderCorrect == Spec => []PhaseOrder
  BY RecordInvariant, PTL DEF RecordInv

\* What Airtable and Supabase say was sent was accepted by Gmail and answers the lead of that
\* inquiry, with any number of workers writing back at once (send_job.py:59-111).
THEOREM ReplyRecordsAreTrueCorrect == Spec => []ReplyRecordsAreTrue
  BY RecordInvariant, PTL DEF RecordInv

\* A message has two Inquiries rows only after a write-back has replaced the key of one of them,
\* although query and insert are two calls (airtable.py:242-247, 336-340).
THEOREM SecondInquiryCorrect == Spec => []SecondInquiryAfterWriteback
  BY RecordInvariant, PTL DEF RecordInv

-----------------------------------------------------------------------------
(***************************************************************************)
(* The reply columns of Supabase.                                          *)
(***************************************************************************)

LEMMA ReplyStays ==
    ASSUME TypeOK, [Next]_vars, NEW r \in supabase, r.reply # 0
    PROVE  \E s \in supabase' : s.id = r.id /\ s.reply # 0
  <1>1. r \in SupabaseRow /\ ServicesTypeOK
    BY DEF TypeOK, ServicesTypeOK
  <1>2. CASE PollerStep \/ PollerFailure
    <2>1. CASE supabase' = supabase
      BY <2>1
    <2>2. CASE UpsertInquiry(call.inquiry)
      <3>1. call.inquiry \in Nat
        BY DEF TypeOK, ProcessLeadTypeOK, Call
      <3>2. r \in supabase'
        BY <1>1, <2>2, <3>1, UpsertInquiryEffect
      <3> QED
        BY <3>2
    <2> QED
      BY <1>2, <2>1, <2>2, PollerEffects
  <1>3. CASE WorkerStep \/ WorkerFailure
    <2>1. PICK j \in DOMAIN jobs : StartJob(j) \/ RunJob(j) \/ JobFails(j) \/ JobFailsLate(j)
      BY <1>3 DEF WorkerStep, WorkerFailure
    <2>2. supabase' = supabase \/ UpdateInquiryReply(jobs[j].inquiry, j)
      BY <2>1, WorkerEffects
    <2>3. j # 0
      BY <1>1 DEF ServicesTypeOK
    <2>4. CASE UpdateInquiryReply(jobs[j].inquiry, j)
      <3> DEFINE s == IF r.id = jobs[j].inquiry THEN [r EXCEPT !.reply = j] ELSE r
      <3>1. s \in supabase'
        BY <2>4 DEF UpdateInquiryReply
      <3>2. s.id = r.id /\ s.reply # 0
        BY <1>1, <2>3 DEF SupabaseRow
      <3> QED
        BY <3>1, <3>2
    <2> QED
      BY <2>2, <2>4
  <1>4. CASE Tick \/ UNCHANGED vars
    BY <1>4 DEF Tick, vars, services
  <1> QED
    BY <1>2, <1>3, <1>4 DEF Next

\* A reply recorded in Supabase is never erased by the upsert of a later run of the same lead, for
\* any number of runs, workers and failures (supabase.py:28, 57-79).
THEOREM ReplyNeverErasedCorrect == Spec => ReplyNeverErased
  <1>1. TypeOK /\ [Next]_vars =>
            [\A r \in supabase : r.reply # 0 => \E s \in supabase' : s.id = r.id /\ s.reply # 0]_vars
    BY ReplyStays
  <1> QED
    BY <1>1, InitTypes, NextTypes, PTL DEF Spec, ReplyNeverErased

=============================================================================
