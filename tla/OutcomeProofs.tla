--------------------------- MODULE OutcomeProofs ---------------------------
(***************************************************************************)
(* What becomes of a lead: AutoReply drops none.                           *)
(***************************************************************************)
EXTENDS AutoReplyProofs

Replied(l) == \E j \in DOMAIN jobs : jobs[j].lead = l

\* A run that comes to its end has a reason: a job, a suppression, or nobody to answer.
RunHasItsReason ==
    /\ call.pc \in {"record", "recordPerson"} => Replied(lead)
    /\ call.pc \in {"supabase", "slack", "return"} /\ lead \in Addressed \cap Answerable =>
          Replied(lead) \/ lead \in suppressed

\* Only what was replied to is recorded, so what is suppressed has a copy that was.
RecordedIsReplied == \A r \in fingerprints : Replied(r.msg)

OutcomeInv == RunHasItsReason /\ RecordedIsReplied /\ NoSilentDrop /\ SuppressedHasReply

-----------------------------------------------------------------------------
LEMMA RepliedIsJobsOf == \A l : Replied(l) <=> JobsOf(l) # {}
  BY DEF Replied, JobsOf

\* A job once enqueued stays, and stays its lead's.
LEMMA RepliedStays ==
    ASSUME TypeOK, [Next]_vars, NEW l, Replied(l)
    PROVE  \E j \in DOMAIN jobs' : jobs'[j].lead = l
  <1>1. CASE PollerStep \/ PollerFailure
    <2>1. ASSUME Enqueue, call.pc = "send"
          PROVE  \E j \in DOMAIN jobs' : jobs'[j].lead = l
      BY <2>1, EnqueueEffect DEF TypeOK, ProcessLeadTypeOK, Replied
    <2> QED
      BY <1>1, <2>1, PollerEffects DEF Replied
  <1>2. CASE WorkerStep \/ WorkerFailure
    BY <1>2, WorkerKeepsJobs DEF Replied
  <1>3. CASE Tick \/ UNCHANGED vars
    BY <1>3 DEF Tick, vars, services, Replied
  <1> QED
    BY <1>1, <1>2, <1>3 DEF Next

\* A run goes on with its own lead: what it has behind it now, it has after the step.
LEMMA SameRun ==
    ASSUME TypeOK, OutcomeInv, PollerStep \/ PollerFailure, NEW pc \in Pc, Goto(pc),
           lead \in Lead,
           pc \in {"record", "recordPerson"} => \E j \in DOMAIN jobs' : jobs'[j].lead = lead,
           pc \in {"supabase", "slack", "return"} /\ lead \in Addressed \cap Answerable =>
              (\E j \in DOMAIN jobs' : jobs'[j].lead = lead) \/ lead \in suppressed'
    PROVE  RunHasItsReason'
  <1>1. call'.pc = pc /\ call'.lead = call.lead
    BY GotoTypes DEF TypeOK, ProcessLeadTypeOK
  <1> QED
    BY <1>1 DEF RunHasItsReason, Replied, lead

\* Where a run may go, and what it then has behind it.
LEMMA NextReason ==
    ASSUME TypeOK, OutcomeInv, PollerStep \/ PollerFailure
    PROVE  RunHasItsReason'
  <1>1. call \in Call /\ (call.pc # "idle" => lead \in Lead)
    BY DEF TypeOK, ProcessLeadTypeOK
  <1>2. ASSUME call'.pc \notin {"record", "recordPerson", "supabase", "slack", "return"}
        PROVE  RunHasItsReason'
    BY <1>2 DEF RunHasItsReason
  <1>3. Replied(lead) => \E j \in DOMAIN jobs' : jobs'[j].lead = lead
    BY RepliedStays DEF Next
  <1>4. CASE (\E l \in Lead : Dispatch(l)) \/ MarkProcessed \/ Interrupted
    <2>1. (\E l \in Lead : call' = [NoCall EXCEPT !.pc = "fetch", !.lead = l]) \/ call' = NoCall
      BY <1>4 DEF Dispatch, MarkProcessed, Interrupted
    <2>2. ASSUME NEW l \in Lead PROVE [NoCall EXCEPT !.pc = "fetch", !.lead = l].pc = "fetch"
      BY DEF NoCall
    <2>3. NoCall.pc = "idle"
      BY DEF NoCall
    <2> QED
      BY <1>2, <2>1, <2>2, <2>3
  <1>5. CASE Fetch
    <2>1. CASE Goto("person")
      BY <1>1, <1>2, <2>1, GotoTypes DEF Pc
    <2>2. CASE Goto("return") /\ (lead \notin Addressed \/ suppressed' = suppressed \cup {lead})
      BY <1>1, <1>5, <2>2, SameRun DEF Fetch, Pc
    <2> QED
      BY <1>5, <2>1, <2>2 DEF Fetch
  <1>6. CASE FetchFailsOpen \/ CallRaises \/ CallRaisesLate
    <2>1. PICK pc \in {"person", "raise"} : Goto(pc)
      BY <1>6 DEF FetchFailsOpen, CallRaises, CallRaisesLate
    <2> QED
      BY <1>1, <1>2, <2>1, GotoTypes DEF Pc
  <1>7. CASE CheckPerson \/ CheckPersonFailsOpen \/ CreateInquiry
    <2>1. call'.pc \in {"find", "send"}
      BY <1>1, <1>7 DEF CheckPerson, CheckPersonFailsOpen, CreateInquiry, Call
    <2> QED
      BY <1>2, <2>1
  <1>8. CASE FindOrCreate
    <2>1. CASE Goto("create")
      BY <1>1, <1>2, <2>1, GotoTypes DEF Pc
    <2>2. CASE ~Goto("create")
      <3>1. call'.pc = "send"
        BY <1>1, <1>8, <2>2 DEF FindOrCreate, Call
      <3> QED
        BY <1>2, <3>1
    <2> QED
      BY <2>1, <2>2
  <1>9. CASE SendReply
    <2>1. CASE Enqueue /\ Goto("record")
      <3>1. \E j \in DOMAIN jobs' : jobs'[j].lead = lead
        BY <1>1, <1>9, <2>1, EnqueueEffect DEF SendReply, TypeOK
      <3> QED
        BY <1>1, <1>9, <2>1, <3>1, SameRun DEF SendReply, Pc
    <2>2. CASE lead \notin Answerable /\ Goto("supabase")
      BY <1>1, <1>9, <2>2, SameRun DEF SendReply, Pc
    <2> QED
      BY <1>9, <2>1, <2>2 DEF SendReply
  <1>10. CASE RecordFingerprint \/ RecordPerson \/ RecordFails
    <2>1. /\ call.pc \in {"record", "recordPerson"}
          /\ Goto("recordPerson") \/ Goto("supabase")
      BY <1>10 DEF RecordFingerprint, RecordPerson, RecordFails, AfterRecord
    <2>2. Replied(lead)
      BY <2>1 DEF OutcomeInv, RunHasItsReason
    <2> QED
      BY <1>1, <1>3, <2>1, <2>2, SameRun DEF Pc
  <1>11. CASE WriteSupabaseRow \/ PostSlack
    <2>1. /\ call.pc \in {"supabase", "slack"}
          /\ Goto("slack") \/ Goto("return")
          /\ suppressed' = suppressed
      BY <1>11 DEF WriteSupabaseRow, PostSlack, history
    <2>2. lead \in Addressed \cap Answerable => Replied(lead) \/ lead \in suppressed
      BY <2>1 DEF OutcomeInv, RunHasItsReason
    <2> QED
      BY <1>1, <1>3, <2>1, <2>2, SameRun DEF Pc
  <1> QED
    BY <1>4, <1>5, <1>6, <1>7, <1>8, <1>9, <1>10, <1>11 DEF PollerStep, PollerFailure

\* A row is recorded by a run that has enqueued its reply.
LEMMA NextRecorded ==
    ASSUME TypeOK, OutcomeInv, PollerStep \/ PollerFailure
    PROVE  RecordedIsReplied'
  <1>1. \A l : Replied(l) => \E j \in DOMAIN jobs' : jobs'[j].lead = l
    BY RepliedStays DEF Next
  <1>2. \A r \in fingerprints' : Replied(r.msg)
    <2>1. CASE fingerprints' = fingerprints
      BY <2>1 DEF OutcomeInv, RecordedIsReplied
    <2>2. CASE RecordFingerprint
      BY <2>2 DEF RecordFingerprint, DB!RecordReply, OutcomeInv, RecordedIsReplied,
                  RunHasItsReason
    <2> QED
      BY <2>1, <2>2, PollerEffects
  <1> QED
    BY <1>1, <1>2 DEF RecordedIsReplied, Replied

\* A lead is suppressed because of a row, and the row because of a reply.
LEMMA NextSuppressed ==
    ASSUME TypeOK, RowsAreOfTheirMessage, OutcomeInv, PollerStep \/ PollerFailure
    PROVE  SuppressedHasReply'
  <1>1. \A l : Replied(l) => \E j \in DOMAIN jobs' : jobs'[j].lead = l
    BY RepliedStays DEF Next
  <1>2. ASSUME NEW l \in suppressed'
        PROVE  \E k \in Lead \ {l} : SameContent(k, l) /\ Replied(k)
    <2>1. CASE l \in suppressed
      BY <2>1, RepliedIsJobsOf DEF OutcomeInv, SuppressedHasReply
    <2>2. CASE l \notin suppressed
      <3>1. Fetch /\ IsDuplicate /\ l = lead
        BY <1>2, <2>2, PollerEffects DEF Fetch
      <3>2. PICK r \in fingerprints : /\ r.mailbox = MailboxOf[lead]
                                      /\ r.fingerprint = FingerprintOf[lead]
                                      /\ r.msg # lead
        BY <3>1 DEF IsDuplicate, DB!RecentDuplicate
      <3>3. r.msg \in Lead
        BY RowTypes
      <3>4. SameContent(r.msg, lead)
        BY <3>2 DEF RowsAreOfTheirMessage, SameContent
      <3>5. Replied(r.msg)
        BY DEF OutcomeInv, RecordedIsReplied
      <3> QED
        BY <3>1, <3>2, <3>3, <3>4, <3>5
    <2> QED
      BY <2>1, <2>2
  <1>3. ASSUME NEW l \in suppressed'
        PROVE  \E k \in Lead \ {l} : SameContent(k, l) /\ {j \in DOMAIN jobs' : jobs'[j].lead = k} # {}
    <2>1. PICK k \in Lead \ {l} : SameContent(k, l) /\ Replied(k)
      BY <1>2, <1>3
    <2>2. PICK j \in DOMAIN jobs' : jobs'[j].lead = k
      BY <1>1, <2>1
    <2> QED
      BY <2>1, <2>2
  <1> QED
    BY <1>3 DEF SuppressedHasReply, SameContent, JobsOf

\* A run that returns leaves its lead settled.
LEMMA NextDrop ==
    ASSUME TypeOK, OutcomeInv, PollerStep \/ PollerFailure
    PROVE  NoSilentDrop'
  <1>1. \A l : Replied(l) => \E j \in DOMAIN jobs' : jobs'[j].lead = l
    BY RepliedStays DEF Next
  <1>2. suppressed \subseteq suppressed'
    BY PollerEffects DEF Fetch
  <1>3. ASSUME NEW l \in Addressed \cap Answerable, processed'[l] = "ok"
        PROVE  Replied(l) \/ l \in suppressed
    <2>1. CASE processed[l] = "ok"
      BY <2>1, RepliedIsJobsOf DEF OutcomeInv, NoSilentDrop
    <2>2. CASE processed[l] # "ok"
      <3>1. l \in Lead /\ processed \in [Lead -> DB!ProcessedVal]
        BY <1>3, ProcessLeadAssumption DEF TypeOK, ProcessLeadTypeOK
      <3>2. MarkProcessed
        BY <1>3, <2>2, PollerEffects
      <3>3. call.pc = "return" /\ l = lead
        BY <1>3, <2>2, <3>1, <3>2 DEF MarkProcessed, DB!MarkProcessed
      <3> QED
        BY <1>3, <3>3 DEF OutcomeInv, RunHasItsReason
    <2> QED
      BY <2>1, <2>2
  <1>4. ASSUME NEW l \in Addressed \cap Answerable, processed'[l] = "ok"
        PROVE  {j \in DOMAIN jobs' : jobs'[j].lead = l} # {} \/ l \in suppressed'
    BY <1>1, <1>2, <1>3, <1>4
  <1> QED
    BY <1>4 DEF NoSilentDrop, JobsOf

-----------------------------------------------------------------------------
LEMMA InitOutcome == Init => OutcomeInv
  <1> SUFFICES ASSUME Init PROVE OutcomeInv
    OBVIOUS
  <1>1. RunHasItsReason
    BY DEF Init, ProcessLeadInit, NoCall, RunHasItsReason
  <1>2. RecordedIsReplied /\ SuppressedHasReply
    BY DEF Init, ProcessLeadInit, RecordedIsReplied, SuppressedHasReply
  <1>3. NoSilentDrop
    <2>1. \A l \in Addressed \cap Answerable : processed[l] = "no"
      BY ProcessLeadAssumption DEF Init, ProcessLeadInit
    <2> QED
      BY <2>1 DEF NoSilentDrop
  <1> QED
    BY <1>1, <1>2, <1>3 DEF OutcomeInv

LEMMA NextOutcome == TypeOK /\ DedupInv /\ OutcomeInv /\ [Next]_vars => OutcomeInv'
  <1> SUFFICES ASSUME TypeOK, DedupInv, OutcomeInv, [Next]_vars PROVE OutcomeInv'
    OBVIOUS
  <1>1. CASE PollerStep \/ PollerFailure
    BY <1>1, NextReason, NextRecorded, NextSuppressed, NextDrop DEF OutcomeInv, DedupInv
  <1>2. CASE UNCHANGED <<call, processed, fingerprints, suppressed>>
    <2>1. \A l : Replied(l) => \E j \in DOMAIN jobs' : jobs'[j].lead = l
      BY RepliedStays
    <2>2. RunHasItsReason' /\ RecordedIsReplied'
      BY <1>2, <2>1 DEF OutcomeInv, RunHasItsReason, RecordedIsReplied, Replied, lead
    <2>3. NoSilentDrop'
      BY <1>2, <2>1 DEF OutcomeInv, NoSilentDrop, JobsOf, Replied
    <2>4. SuppressedHasReply'
      BY <1>2, <2>1 DEF OutcomeInv, SuppressedHasReply, JobsOf, Replied, SameContent
    <2> QED
      BY <2>2, <2>3, <2>4 DEF OutcomeInv
  <1>3. CASE WorkerStep \/ WorkerFailure \/ Tick \/ UNCHANGED vars
    BY <1>2, <1>3 DEF WorkerStep, WorkerFailure, Tick, vars, poller, sqlite, history
  <1> QED
    BY <1>1, <1>3 DEF Next

\* Every lead that is marked processed without an error was replied to, was suppressed as a copy,
\* or needed no reply, whatever raised and however often the poller died.
THEOREM NoSilentDropCorrect == Spec => []NoSilentDrop
  <1>1. TypeOK /\ DedupInv /\ OutcomeInv /\ [Next]_vars => TypeOK' /\ DedupInv' /\ OutcomeInv'
    BY NextTypes, NextDedup, NextOutcome
  <1>2. OutcomeInv => NoSilentDrop
    BY DEF OutcomeInv
  <1> QED
    BY InitTypes, InitDedup, InitOutcome, <1>1, <1>2, PTL DEF Spec

\* Every suppressed lead is the copy of another one, for which a send job was enqueued.
THEOREM SuppressedHasReplyCorrect == Spec => []SuppressedHasReply
  <1>1. TypeOK /\ DedupInv /\ OutcomeInv /\ [Next]_vars => TypeOK' /\ DedupInv' /\ OutcomeInv'
    BY NextTypes, NextDedup, NextOutcome
  <1>2. OutcomeInv => SuppressedHasReply
    BY DEF OutcomeInv
  <1> QED
    BY InitTypes, InitDedup, InitOutcome, <1>1, <1>2, PTL DEF Spec

-----------------------------------------------------------------------------
(***************************************************************************)
(* One reply per content.                                                  *)
(***************************************************************************)

Quiet == faults = 0 /\ interruptions = 0

\* Until something fails, a lead with a job has its row, or its run is about to write it.
RepliedIsRecorded ==
    Quiet => \A l : Replied(l) => \/ call.pc = "record" /\ lead = l
                                  \/ \E r \in fingerprints : r.msg = l

LookupsAnswered == Quiet => failedOpen = {}

ContentInv == RepliedIsRecorded /\ LookupsAnswered

LEMMA InitContent == Init => ContentInv
  BY DEF Init, ServicesInit, ProcessLeadInit, ContentInv, RepliedIsRecorded, LookupsAnswered, Replied

\* What failed once has failed for good.
LEMMA QuietBefore ==
    ASSUME TypeOK, [Next]_vars, Quiet'
    PROVE  Quiet /\ ~PollerFailure
  <1>1. faults \in Nat /\ interruptions \in Nat
    BY ProcessLeadAssumption DEF TypeOK, ServicesTypeOK, ProcessLeadTypeOK
  <1>2. ~Fault
    BY <1>1 DEF Quiet, Fault
  <1>3. ~Interrupted
    BY <1>1 DEF Quiet, Interrupted
  <1>4. ~PollerFailure /\ ~WorkerFailure
    BY <1>2, <1>3 DEF PollerFailure, FetchFailsOpen, CheckPersonFailsOpen, RecordFails,
                      CallRaises, CallRaisesLate, WorkerFailure, JobFails, JobFailsLate
  <1>5. CASE PollerStep
    BY <1>2, <1>3, <1>4, <1>5, PollerEffects DEF Quiet
  <1>6. CASE WorkerStep
    <2>1. faults' = faults /\ interruptions' = interruptions
      BY <1>6 DEF WorkerStep, StartJob, RunJob, GmailSend, WriteAirtable, WriteSupabase, poller,
                  history
    <2> QED
      BY <1>4, <2>1 DEF Quiet
  <1>7. CASE Tick \/ UNCHANGED vars
    BY <1>4, <1>7 DEF Tick, vars, services, poller, history, Quiet
  <1> QED
    BY <1>4, <1>5, <1>6, <1>7 DEF Next

\* The calls of a run that raises nothing: the reply is enqueued on the way to the record, and the
\* row is written on the way from it.
LEMMA PollerContent ==
    ASSUME TypeOK, ContentInv, PollerStep, Quiet, ~PollerFailure
    PROVE  ContentInv'
  <1>1. call \in Call /\ (call.pc # "idle" => lead \in Lead) /\ ServicesTypeOK
    BY DEF TypeOK, ProcessLeadTypeOK
  <1>2. failedOpen' = {}
    BY PollerEffects DEF ContentInv, LookupsAnswered, PollerFailure
  <1>3. fingerprints \subseteq fingerprints'
    BY PollerEffects DEF RecordFingerprint, DB!RecordReply
  <1>4. ASSUME NEW l, \E j \in DOMAIN jobs' : jobs'[j].lead = l
        PROVE  \/ call'.pc = "record" /\ lead' = l
               \/ \E r \in fingerprints' : r.msg = l
    <2>1. CASE RecordFingerprint
      <3>1. jobs' = jobs /\ call.pc = "record"
        BY <2>1 DEF RecordFingerprint, services
      <3>2. \E r \in fingerprints' : r.msg = lead
        <4> DEFINE row == [mailbox |-> MailboxOf[lead], fingerprint |-> FingerprintOf[lead],
                           msg |-> lead, at |-> now]
        <4>1. row \in fingerprints' /\ row.msg = lead
          BY <2>1 DEF RecordFingerprint, DB!RecordReply
        <4> QED
          BY <4>1
      <3>3. CASE l = lead
        BY <3>2, <3>3
      <3>4. CASE l # lead
        BY <1>3, <1>4, <3>1, <3>4 DEF ContentInv, RepliedIsRecorded, Replied
      <3> QED
        BY <3>3, <3>4
    <2>2. CASE SendReply /\ jobs' # jobs
      <3>1. Enqueue /\ Goto("record")
        BY <2>2 DEF SendReply
      <3>2. call'.pc = "record" /\ lead' = lead /\ call.pc = "send"
        BY <1>1, <2>2, <3>1, GotoTypes DEF SendReply, lead, Pc
      <3>3. l = lead \/ Replied(l)
        BY <1>1, <1>4, <2>2, <3>1, EnqueueEffect DEF SendReply, Replied
      <3> QED
        BY <1>3, <3>2, <3>3 DEF ContentInv, RepliedIsRecorded
    <2>3. CASE jobs' = jobs /\ ~RecordFingerprint
      <3>1. call.pc # "record"
        BY <2>3 DEF PollerStep, Dispatch, MarkProcessed, Fetch, CheckPerson, FindOrCreate,
                    CreateInquiry, SendReply, RecordPerson, WriteSupabaseRow, PostSlack
      <3> QED
        BY <1>3, <1>4, <2>3, <3>1 DEF ContentInv, RepliedIsRecorded, Replied
    <2>4. jobs' = jobs \/ SendReply
      BY DEF PollerStep, Dispatch, MarkProcessed, Fetch, CheckPerson, FindOrCreate, CreateInquiry,
             RecordFingerprint, RecordPerson, WriteSupabaseRow, PostSlack, services
    <2> QED
      BY <2>1, <2>2, <2>3, <2>4
  <1> QED
    BY <1>2, <1>4 DEF ContentInv, RepliedIsRecorded, LookupsAnswered, Replied

LEMMA NextContent == TypeOK /\ ContentInv /\ [Next]_vars => ContentInv'
  <1> SUFFICES ASSUME TypeOK, ContentInv, [Next]_vars, Quiet' PROVE ContentInv'
    BY DEF ContentInv, RepliedIsRecorded, LookupsAnswered
  <1>1. Quiet /\ ~PollerFailure
    BY QuietBefore
  <1>2. CASE PollerStep
    BY <1>1, <1>2, PollerContent
  <1>3. CASE WorkerStep \/ WorkerFailure
    <2>1. /\ DOMAIN jobs' = DOMAIN jobs /\ \A k \in DOMAIN jobs : jobs'[k].lead = jobs[k].lead
          /\ UNCHANGED <<call, fingerprints, failedOpen>>
      BY <1>3, WorkerKeepsJobs DEF poller, sqlite, history
    <2> QED
      BY <1>1, <2>1 DEF ContentInv, RepliedIsRecorded, LookupsAnswered, Replied, lead
  <1>4. CASE Tick \/ UNCHANGED vars
    <2>1. UNCHANGED <<jobs, call, fingerprints, failedOpen>>
      BY <1>4 DEF Tick, vars, services, poller, sqlite, history
    <2> QED
      BY <1>1, <2>1 DEF ContentInv, RepliedIsRecorded, LookupsAnswered, Replied, lead
  <1> QED
    BY <1>1, <1>2, <1>3, <1>4 DEF Next

\* Two rows of one content that no lookup failed open for are more than the window apart.
LEMMA ContentIsApart ==
    ASSUME TypeOK, DedupInv, ContentInv
    PROVE  OneReplyPerContent
  <1> SUFFICES ASSUME Quiet, NEW k \in Lead, NEW l \in Lead, k # l, SameContent(k, l),
                      JobsOf(k) # {}, JobsOf(l) # {}, ~(call.pc = "record" /\ lead \in {k, l})
               PROVE  \E r, s \in fingerprints :
                         /\ r.msg = k /\ s.msg = l
                         /\ s.at - r.at \notin (-DedupWindow)..DedupWindow
    BY DEF OneReplyPerContent, Quiet
  <1>1. PICK r \in fingerprints : r.msg = k
    BY RepliedIsJobsOf DEF ContentInv, RepliedIsRecorded
  <1>2. PICK s \in fingerprints : s.msg = l
    BY RepliedIsJobsOf DEF ContentInv, RepliedIsRecorded
  <1>3. SameContent(l, k) /\ failedOpen = {}
    BY DEF SameContent, ContentInv, LookupsAnswered
  <1>4. s.at - r.at \notin 0..DedupWindow /\ r.at - s.at \notin 0..DedupWindow
    BY <1>1, <1>2, <1>3 DEF DedupInv, DedupWindowHolds
  <1>5. r.at \in Nat /\ s.at \in Nat /\ DedupWindow \in Nat
    BY RowTypes, ProcessLeadAssumption
  <1> QED
    BY <1>1, <1>2, <1>4, <1>5

\* Until a call raises or a run is cut short, no inquiry is answered twice within the window, however
\* many copies of it come and in whatever order the jobs run.
THEOREM OneReplyPerContentCorrect == Spec => []OneReplyPerContent
  <1>1. /\ TypeOK /\ DedupInv /\ ContentInv /\ [Next]_vars => TypeOK' /\ DedupInv' /\ ContentInv'
        /\ TypeOK /\ DedupInv /\ ContentInv => OneReplyPerContent
    BY NextTypes, NextDedup, NextContent, ContentIsApart
  <1> QED
    BY InitTypes, InitDedup, InitContent, <1>1, PTL DEF Spec

-----------------------------------------------------------------------------
(***************************************************************************)
(* The refinement: every step of AutoReply settles one lead, or none.       *)
(***************************************************************************)

\* Only a lead that is addressed to its mailbox comes past the first call.
RunIsAddressed == call.pc \in BeforeRecord => lead \in Addressed

LEMMA NextAddressed ==
    ASSUME TypeOK, RunIsAddressed, [Next]_vars
    PROVE  RunIsAddressed'
  <1> USE DEF RunIsAddressed
  <1>1. call \in Call
    BY DEF TypeOK, ProcessLeadTypeOK
  <1>2. CASE PollerStep \/ PollerFailure
    <2>1. CASE \E l \in Lead : Dispatch(l)
      BY <2>1 DEF Dispatch, NoCall, BeforeRecord
    <2>2. CASE MarkProcessed \/ Interrupted
      BY <2>2 DEF MarkProcessed, Interrupted, NoCall, BeforeRecord
    <2>3. CASE /\ lead' = lead
               /\ call'.pc \in BeforeRecord => call.pc \in BeforeRecord \/ Fetch \/ FetchFailsOpen
      <3>1. Fetch /\ call'.pc \in BeforeRecord => lead \in Addressed
        BY <1>1, GotoTypes DEF Fetch, Pc, BeforeRecord
      <3>2. FetchFailsOpen => lead \in Addressed
        BY DEF FetchFailsOpen
      <3> QED
        BY <2>3, <3>1, <3>2
    <2> QED
      BY <1>2, <2>1, <2>2, <2>3, RunSteps
  <1>3. CASE WorkerStep \/ WorkerFailure
    BY <1>3, WorkerKeepsJobs DEF poller, lead
  <1>4. CASE Tick \/ UNCHANGED vars
    BY <1>4 DEF Tick, vars, poller, lead
  <1> QED
    BY <1>2, <1>3, <1>4 DEF Next

\* What the outcome of a lead depends on.
LEMMA OutcomeUnchanged ==
    ASSUME NEW l \in Lead, Replied(l)' <=> Replied(l), processed'[l] = processed[l],
           processed[l] # "no" => (l \in suppressed' <=> l \in suppressed)
    PROVE  OutcomeOf(l)' = OutcomeOf(l)
  BY DEF OutcomeOf, JobsOf, Replied

LEMMA OthersUnchanged ==
    ASSUME TypeOK, JobInv, PollerStep \/ PollerFailure, NEW l \in Lead, l # lead \/ call.pc = "idle"
    PROVE  OutcomeOf(l)' = OutcomeOf(l)
  <1>1. /\ ServicesTypeOK /\ call \in Call /\ (call.pc # "idle" => lead \in Lead)
        /\ processed \in [Lead -> DB!ProcessedVal]
    BY DEF TypeOK, ProcessLeadTypeOK
  <1>2. Replied(l)' <=> Replied(l)
    <2>1. CASE jobs' = jobs
      BY <2>1 DEF Replied
    <2>2. CASE Enqueue /\ call.pc = "send"
      BY <1>1, <2>2, EnqueueEffect DEF Replied
    <2> QED
      BY <2>1, <2>2, PollerEffects
  <1>3. processed'[l] = processed[l]
    BY <1>1, PollerEffects DEF MarkProcessed, DB!MarkProcessed
  <1>4. l \in suppressed' <=> l \in suppressed
    BY <1>1, PollerEffects DEF Fetch
  <1> QED
    BY <1>2, <1>3, <1>4, OutcomeUnchanged

LEMMA SettleStep ==
    ASSUME NEW l \in Lead, NEW o, OutcomeOf(l) = "new", OutcomeOf(l)' = o,
           \A k \in Lead \ {l} : OutcomeOf(k)' = OutcomeOf(k)
    PROVE  Ledger!Settle(l, o)
  <1> DEFINE before == [k \in Lead |-> OutcomeOf(k)]
             after == [k \in Lead |-> OutcomeOf(k)']
  <1>1. before[l] = "new" /\ after = [before EXCEPT ![l] = o]
    OBVIOUS
  <1> QED
    BY <1>1 DEF Ledger!Settle

\* The run of the lead ends.
LEMMA MarkSettles ==
    ASSUME TypeOK, JobInv, OutcomeInv, MarkProcessed, NEW l \in Lead, l = lead
    PROVE  OutcomeOf(l)' = OutcomeOf(l) \/ Ledger!Next
  <1>1. /\ call.pc \in {"return", "raise"} /\ lead \in Lead
        /\ UNCHANGED <<jobs, suppressed>>
        /\ processed \in [Lead -> DB!ProcessedVal]
    BY DEF MarkProcessed, TypeOK, ProcessLeadTypeOK, services, history
  <1>2. processed[l] = "no"
    BY <1>1 DEF JobInv, RunIsUnmarked
  <1>3. /\ call.pc = "return" => processed'[l] = "ok"
        /\ call.pc = "raise" => processed'[l] = "error"
    BY <1>1 DEF MarkProcessed, DB!MarkProcessed
  <1>4. \A k \in Lead \ {l} : OutcomeOf(k)' = OutcomeOf(k)
    BY OthersUnchanged DEF PollerStep
  <1>5. \A m : Replied(m)' <=> Replied(m)
    BY <1>1 DEF Replied
  <1>6. CASE Replied(l)
    <2>1. OutcomeOf(l) = "replied"
      BY <1>6, RepliedIsJobsOf DEF OutcomeOf
    <2>2. OutcomeOf(l)' = "replied"
      BY <1>1, <1>6 DEF OutcomeOf, JobsOf, Replied
    <2> QED
      BY <2>1, <2>2
  <1>7. CASE ~Replied(l)
    <2>1. OutcomeOf(l) = "new" /\ JobsOf(l) = {}
      BY <1>2, <1>7, RepliedIsJobsOf DEF OutcomeOf
    <2>2. OutcomeOf(l)' = IF processed'[l] = "no" THEN "new"
                             ELSE IF processed'[l] = "error" THEN "failed"
                             ELSE IF l \in suppressed THEN "suppressed" ELSE "skipped"
      BY <1>1, <2>1 DEF OutcomeOf, JobsOf
    <2>3. CASE call.pc = "raise"
      BY <1>1, <1>3, <1>4, <2>1, <2>2, <2>3, SettleStep DEF Ledger!Next, Ledger!Fail
    <2>4. CASE call.pc = "return" /\ l \in suppressed
      <3>1. PICK k \in Lead \ {l} : SameContent(k, l) /\ JobsOf(k) # {}
        BY <2>4 DEF OutcomeInv, SuppressedHasReply
      <3>2. [m \in Lead |-> OutcomeOf(m)][k] = "replied"
        BY <3>1 DEF OutcomeOf
      <3>3. Ledger!Settle(l, "suppressed")
        BY <1>1, <1>3, <1>4, <2>1, <2>2, <2>4, SettleStep
      <3> QED
        BY <1>1, <3>1, <3>2, <3>3 DEF Ledger!Next, Ledger!Suppress
    <2>5. CASE call.pc = "return" /\ l \notin suppressed
      <3>1. l \notin Addressed \cap Answerable
        BY <1>7, <2>5 DEF OutcomeInv, RunHasItsReason
      <3>2. Ledger!Settle(l, "skipped")
        BY <1>1, <1>3, <1>4, <2>1, <2>2, <2>5, SettleStep
      <3> QED
        BY <1>1, <3>1, <3>2 DEF Ledger!Next, Ledger!Skip
    <2> QED
      BY <1>1, <2>3, <2>4, <2>5
  <1> QED
    BY <1>6, <1>7

\* The run of the lead goes on: it stays new until its job is enqueued.
LEMMA RunSettles ==
    ASSUME TypeOK, JobInv, RunIsAddressed, PollerStep \/ PollerFailure,
           call.pc # "idle", processed' = processed, NEW l \in Lead, l = lead
    PROVE  OutcomeOf(l)' = OutcomeOf(l) \/ Ledger!Next
  <1>1. ServicesTypeOK /\ call \in Call /\ lead \in Lead /\ processed[l] = "no"
    BY DEF TypeOK, ProcessLeadTypeOK, JobInv, RunIsUnmarked
  <1>2. CASE Replied(l)' <=> Replied(l)
    BY <1>1, <1>2, OutcomeUnchanged
  <1>3. CASE ~Replied(l) /\ Enqueue /\ call.pc = "send" /\ lead \in Answerable
    <2>1. OutcomeOf(l) = "new"
      BY <1>1, <1>3, RepliedIsJobsOf DEF OutcomeOf
    <2>2. OutcomeOf(l)' = "replied"
      BY <1>1, <1>3, EnqueueEffect DEF OutcomeOf, JobsOf
    <2>3. \A k \in Lead \ {l} : OutcomeOf(k)' = OutcomeOf(k)
      BY OthersUnchanged
    <2>4. l \in Addressed \cap Answerable
      BY <1>3 DEF RunIsAddressed, BeforeRecord
    <2> QED
      BY <1>1, <2>1, <2>2, <2>3, <2>4, SettleStep DEF Ledger!Next, Ledger!Reply
  <1>4. jobs' = jobs => (Replied(l)' <=> Replied(l))
    BY DEF Replied
  <1>5. Enqueue /\ Replied(l) => Replied(l)'
    BY <1>1, EnqueueEffect DEF Replied
  <1> QED
    BY <1>2, <1>3, <1>4, <1>5, PollerEffects

LEMMA StepImplementsNext ==
    ASSUME TypeOK, JobInv, OutcomeInv, RunIsAddressed, [Next]_vars
    PROVE  (\A l \in Lead : OutcomeOf(l)' = OutcomeOf(l)) \/ Ledger!Next
  <1>1. CASE PollerStep \/ PollerFailure
    <2>1. \A l \in Lead : l # lead \/ call.pc = "idle" => OutcomeOf(l)' = OutcomeOf(l)
      BY <1>1, OthersUnchanged
    <2>2. \A l \in Lead : l = lead /\ call.pc # "idle" => OutcomeOf(l)' = OutcomeOf(l) \/ Ledger!Next
      BY <1>1, MarkSettles, RunSettles, PollerEffects
    <2> QED
      BY <2>1, <2>2
  <1>2. CASE WorkerStep \/ WorkerFailure
    <2>1. \A l : Replied(l)' <=> Replied(l)
      BY <1>2, WorkerKeepsJobs DEF Replied
    <2>2. processed' = processed /\ suppressed' = suppressed
      BY <1>2, WorkerKeepsJobs DEF poller, sqlite, history
    <2> QED
      BY <2>1, <2>2, OutcomeUnchanged
  <1>3. CASE Tick \/ UNCHANGED vars
    <2>1. UNCHANGED <<jobs, processed, suppressed>>
      BY <1>3 DEF Tick, vars, poller, services, sqlite, history
    <2>2. \A l : Replied(l)' <=> Replied(l)
      BY <2>1 DEF Replied
    <2> QED
      BY <2>1, <2>2, OutcomeUnchanged
  <1> QED
    BY <1>1, <1>2, <1>3 DEF Next

LEMMA InitImplementsInit ==
    ASSUME Init
    PROVE  Ledger!Init
  BY DEF Init, ServicesInit, ProcessLeadInit, OutcomeOf, JobsOf, Ledger!Init

\* AutoReply implements LeadOutcome: exactly one thing becomes of a lead, for good, and for the
\* reason that LeadOutcome gives, whichever calls raise and however often the poller dies.
THEOREM ImplementsLeadOutcomeCorrect == Spec => ImplementsLeadOutcome
  <1> DEFINE Inv == TypeOK /\ JobInv /\ DedupInv /\ OutcomeInv /\ RunIsAddressed
  <1>1. Init => Inv /\ Ledger!Init
    <2>1. Init => RunIsAddressed
      BY DEF Init, ProcessLeadInit, NoCall, RunIsAddressed, BeforeRecord
    <2> QED
      BY <2>1, InitTypes, InitJobs, InitDedup, InitOutcome, InitImplementsInit
  <1>2. Inv /\ [Next]_vars => Inv'
    BY NextTypes, NextJobs, NextDedup, NextOutcome, NextAddressed
  <1>3. Inv /\ [Next]_vars => [Ledger!Next]_[l \in Lead |-> OutcomeOf(l)]
    BY StepImplementsNext
  <1> HIDE DEF Inv
  <1> QED
    BY <1>1, <1>2, <1>3, PTL DEF Spec, ImplementsLeadOutcome, Ledger!Spec

\* What has become of a lead is not changed again: not by a later run of it, which starts without
\* any memory of the first (process_lead.py:630-639), by a copy of it, by its job or by a death.
OutcomesAreFinal == [][\A l \in Lead : OutcomeOf(l) # "new" => OutcomeOf(l)' = OutcomeOf(l)]_vars

\* What LeadOutcome says of one variable, for the tables of AutoReply: by the refinement's steps.
THEOREM OutcomesAreFinalCorrect == Spec => OutcomesAreFinal
  <1> DEFINE Inv == TypeOK /\ JobInv /\ DedupInv /\ OutcomeInv /\ RunIsAddressed
             Kept(l) == OutcomeOf(l) # "new" => OutcomeOf(l)' = OutcomeOf(l)
  <1>1. Init => Inv
    <2>1. Init => RunIsAddressed
      BY DEF Init, ProcessLeadInit, NoCall, RunIsAddressed, BeforeRecord
    <2> QED
      BY <2>1, InitTypes, InitJobs, InitDedup, InitOutcome
  <1>2. Inv /\ [Next]_vars => Inv'
    BY NextTypes, NextJobs, NextDedup, NextOutcome, NextAddressed
  <1>3. Ledger!Next => \A l \in Lead : Kept(l)
    <2> SUFFICES ASSUME NEW k \in Lead, NEW o, Ledger!Settle(k, o), NEW l \in Lead
                 PROVE  Kept(l)
      BY DEF Ledger!Next, Ledger!Reply, Ledger!Suppress, Ledger!Skip, Ledger!Fail
    <2>1. /\ OutcomeOf(k) = "new"
          /\ [i \in Lead |-> OutcomeOf(i)]' = [[i \in Lead |-> OutcomeOf(i)] EXCEPT ![k] = o]
      BY DEF Ledger!Settle
    <2>2. l # k => OutcomeOf(l)' = OutcomeOf(l)
      BY <2>1, Zenon
    <2> QED
      BY <2>1, <2>2
  <1>4. Inv /\ [Next]_vars => \A l \in Lead : Kept(l)
    BY <1>3, StepImplementsNext
  <1>5. Inv /\ [Next]_vars => [\A l \in Lead : Kept(l)]_vars
    BY <1>4
  <1> HIDE DEF Inv, Kept
  <1> QED
    <2>1. Spec => [][\A l \in Lead : Kept(l)]_vars
      BY <1>1, <1>2, <1>5, PTL DEF Spec
    <2> QED
      BY <2>1 DEF OutcomesAreFinal, Kept

=============================================================================
