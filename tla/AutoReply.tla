----------------------------- MODULE AutoReply -----------------------------
(***************************************************************************)
(* The production system: one poller (workers/poller.py) that runs          *)
(* process_lead on the leads it finds, and NumWorkers RQ workers that run   *)
(* the send jobs it enqueues, over the shared services.                    *)
(***************************************************************************)
EXTENDS ProcessLead, SendReplyJob

poller == <<now, call, sqlite, history>>

vars == <<services, poller>>

WorkerStep == \E j \in DOMAIN jobs : (StartJob(j) \/ RunJob(j)) /\ UNCHANGED poller

WorkerFailure == \E j \in DOMAIN jobs : (JobFails(j) \/ JobFailsLate(j)) /\ UNCHANGED poller

Init == ServicesInit /\ ProcessLeadInit

Next ==
    \/ PollerStep \/ PollerFailure
    \/ WorkerStep \/ WorkerFailure
    \/ Tick

Spec == Init /\ [][Next]_vars

(***************************************************************************)
(* Fairness: run_forever loops for as long as the process is up, and a      *)
(* process that dies is restarted; a worker runs the job it has taken, and  *)
(* an idle worker takes a job once its time has come.  Nothing is assumed   *)
(* of the failures and of the outside.                                     *)
(***************************************************************************)
FairSpec == Spec /\ WF_vars(PollerStep) /\ WF_vars(WorkerStep)

TypeOK == ServicesTypeOK /\ ProcessLeadTypeOK

SameContent(k, l) == MailboxOf[k] = MailboxOf[l] /\ FingerprintOf[k] = FingerprintOf[l]

SamePerson(k, l) == MailboxOf[k] = MailboxOf[l] /\ PersonOf[k] = PersonOf[l]

-----------------------------------------------------------------------------
(***************************************************************************)
(* Deduplication.                                                          *)
(***************************************************************************)

\* Two messages with the same content whose replies are both recorded are more than the window
\* apart, unless a lookup raised and failed open (process_lead.py:296-315, 489-496).
DedupWindowHolds ==
    \A r, s \in fingerprints :
        /\ r.msg # s.msg /\ SameContent(r.msg, s.msg)
        /\ s.at - r.at \in 0..DedupWindow
        => r.msg \in failedOpen \/ s.msg \in failedOpen

\* A message is suppressed only when a reply to another copy of it has been enqueued: the
\* fingerprint is recorded after enqueue_at, never before (process_lead.py:462-496).
SuppressedHasReply ==
    \A l \in suppressed : \E k \in Lead \ {l} : SameContent(k, l) /\ JobsOf(k) # {}

\* As long as no run has been cut short, a message has at most one send job, whatever calls
\* raised on the way (poller.py:175-193).
OneJobPerLead ==
    interruptions = 0 => \A j, k \in DOMAIN jobs : jobs[j].lead = jobs[k].lead => j = k

\* Every reply beyond the first to a message, whichever it is, and every Slack post beyond the first
\* for one, has cost a run that was cut short: a message is marked whether process_lead returns or
\* raises, so that nothing else ever runs it again (poller.py:175-193, process_lead.py:630-639).
RepeatsPerInterruption ==
    /\ Len(jobs) <= Cardinality({jobs[j].lead : j \in DOMAIN jobs}) + interruptions
    /\ \A l \in Lead : slack[l] <= 1 + interruptions

\* As long as no call has raised and no run was cut short, two copies of an inquiry are both answered
\* only more than the window apart: no path to a reply goes around the fingerprint, a repeat reply's
\* neither (process_lead.py:442-496).
OneReplyPerContent ==
    faults = 0 /\ interruptions = 0 =>
        \A k, l \in Lead :
            k # l /\ SameContent(k, l) /\ JobsOf(k) # {} /\ JobsOf(l) # {} =>
                \/ call.pc = "record" /\ lead \in {k, l}
                \/ \E r, s \in fingerprints : /\ r.msg = k /\ s.msg = l
                                              /\ s.at - r.at \notin (-DedupWindow)..DedupWindow

\* A message marked processed without an error was replied to, suppressed, or needed no reply:
\* no path through phase A returns without one of them.
NoSilentDrop ==
    \A l \in Addressed \cap Answerable :
        processed[l] = "ok" => JobsOf(l) # {} \/ l \in suppressed

-----------------------------------------------------------------------------
(***************************************************************************)
(* Repeat inquiries (mode "enforce").                                      *)
(***************************************************************************)

\* The repeat template goes only to a person whose earlier inquiry, another message in the same
\* mailbox, got a reply before (process_lead.py:335-361, 503-511).
RepeatHasPredecessor ==
    \A j \in DOMAIN jobs : jobs[j].template = "repeat" =>
        \E k \in 1..(j - 1) : /\ jobs[k].lead # jobs[j].lead
                              /\ SamePerson(jobs[k].lead, jobs[j].lead)

\* Of two recorded replies to one person inside the window, one is a repeat reply, unless a
\* lookup failed open.
RepeatIsSeen ==
    RepeatMode = "enforce" =>
        \A r, s \in persons :
            /\ r.msg # s.msg /\ r.person = s.person /\ r.mailbox = s.mailbox
            /\ s.at - r.at \in 0..RepeatWindow
            => \/ \E j \in JobsOf(r.msg) \cup JobsOf(s.msg) : jobs[j].template = "repeat"
               \/ r.msg \in failedOpen \/ s.msg \in failedOpen

-----------------------------------------------------------------------------
(***************************************************************************)
(* The stores agree with each other and with what was sent.                *)
(***************************************************************************)

\* A Supabase row has its Airtable record, and a lead announced on Slack its Supabase row: the
\* phases run in order, whichever calls raise (process_lead.py:178-206).
PhaseOrder ==
    /\ \A r \in supabase : r.id \in DOMAIN inquiries
    /\ \A l \in Lead : slack[l] > 0 => \E r \in supabase : inquiries[r.id].lead = l

\* What the two tables say was sent as the reply to an inquiry was accepted by Gmail, and answers
\* the lead of that very inquiry; Supabase never says it before Airtable (send_job.py:59-111).
ReplyRecordsAreTrue ==
    /\ \A i \in DOMAIN inquiries :
          LET j == inquiries[i].reply IN
          j # 0 => j \in mail /\ jobs[j].inquiry = i /\ jobs[j].lead = inquiries[i].lead
    /\ \A r \in supabase :
          r.reply # 0 => /\ r.reply \in mail
                         /\ jobs[r.reply].inquiry = r.id
                         /\ inquiries[r.id].reply # 0

\* Two Inquiries rows for one message: only after the write-back of a reply has replaced the key
\* of one of them (airtable.py:242-247, 336-340).
SecondInquiryAfterWriteback ==
    \A i, k \in DOMAIN inquiries :
        i # k /\ inquiries[i].lead = inquiries[k].lead =>
            inquiries[i].key # 0 \/ inquiries[k].key # 0

\* The reply columns of a Supabase row are never cleared: a later upsert of the same inquiry
\* merges (supabase.py:28, 57-79).
ReplyNeverErased ==
    [][\A r \in supabase : r.reply # 0 => \E s \in supabase' : s.id = r.id /\ s.reply # 0]_vars

-----------------------------------------------------------------------------
(***************************************************************************)
(* What becomes of a lead.                                                 *)
(***************************************************************************)
OutcomeOf(l) ==
    IF JobsOf(l) # {} THEN "replied"
    ELSE IF processed[l] = "no" THEN "new"
    ELSE IF processed[l] = "error" THEN "failed"
    ELSE IF l \in suppressed THEN "suppressed" ELSE "skipped"

Ledger == INSTANCE LeadOutcome WITH
              NeedsReply <- Addressed \cap Answerable,
              outcome <- [l \in Lead |-> OutcomeOf(l)]

\* The system implements the abstract account of a lead's fate.
ImplementsLeadOutcome == Ledger!Spec

\* Every lead is eventually marked processed: however calls fail, none is retried for ever.
EveryLeadSettled ==
    \A l \in Lead : <>(processed[l] # "no")

\* As long as no call raises, every lead that needs a reply gets one, or a copy of it does: runs
\* that are cut short are taken up again.
EveryLeadAnswered ==
    \A l \in Addressed \cap Answerable :
        <>(faults > 0 \/ \E j \in mail : jobs[j].lead = l \/ SameContent(jobs[j].lead, l))

-----------------------------------------------------------------------------
(***************************************************************************)
(* What the code says of itself, and does not keep.                        *)
(***************************************************************************)

\* process_lead's docstring (148-149): "safe to call N times for the same message_id.  State
\* checks at each phase ensure side-effects happen exactly once."
SideEffectsOnce == \A j, k \in DOMAIN jobs : jobs[j].lead = jobs[k].lead => j = k

\* process_lead.py:454 "find_or_create_inquiry is idempotent - safe to retry", airtable.py:243
\* "Durable backstop for idempotency": one Inquiries row per message.
OneInquiryPerMessage ==
    \A i, k \in DOMAIN inquiries : inquiries[i].lead = inquiries[k].lead => i = k

=============================================================================
