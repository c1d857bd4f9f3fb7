---------------------------- MODULE ProcessLead ----------------------------
(***************************************************************************)
(* pipeline/process_lead.py as the poller calls it (workers/poller.py): one *)
(* message at a time, every call to a service a step of its own, since the  *)
(* workers and the clock run between any two of them.                      *)
(*                                                                         *)
(* _load_state returns a fresh JobState and _save_state does nothing, so    *)
(* what a run knows lives in `call` and is gone when the process dies.     *)
(***************************************************************************)
EXTENDS Services

CONSTANTS
    Mailbox, Fingerprint, Person, NoLead, NoPerson,
    MailboxOf,          \* the mailbox a lead message lies in
    FingerprintOf,      \* compute_fingerprint of its content
    PersonOf,           \* the person its contact data resolves to, or NoPerson
    Addressed,          \* the leads addressed to the mailbox they lie in
    Answerable,         \* the leads with a recipient and a template that can be filled
    DedupWindow,        \* settings.dedup_window_seconds
    RepeatWindow,       \* settings.repeat_inquiry_window_seconds
    RepeatMode,         \* settings.repeat_inquiry_mode
    MaxTime,            \* bound: the clock stops here
    MaxInterruptions    \* bound: runs cut short before the message is marked

ASSUME ProcessLeadAssumption ==
    /\ NoLead \notin Lead
    /\ NoPerson \notin Person
    /\ MailboxOf \in [Lead -> Mailbox]
    /\ FingerprintOf \in [Lead -> Fingerprint]
    /\ PersonOf \in [Lead -> Person \cup {NoPerson}]
    /\ Addressed \subseteq Lead
    /\ Answerable \subseteq Lead
    /\ DedupWindow \in Nat
    /\ RepeatWindow \in Nat
    /\ RepeatMode \in {"off", "observe", "enforce"}
    /\ MaxTime \in Nat
    /\ MaxInterruptions \in Nat

VARIABLES
    now,            \* the clock of the poller's host
    call,           \* the run of process_lead in progress
    processed,      \* SQLite: processed_messages
    fingerprints,   \* SQLite: replied_fingerprints
    persons,        \* SQLite: replied_persons
    interruptions,  \* history: runs cut short before mark_processed
    failedOpen,     \* history: the leads whose dedup or person lookup raised
    suppressed      \* history: the leads a run suppressed as duplicates

sqlite == <<processed, fingerprints, persons>>
history == <<interruptions, failedOpen, suppressed>>

DB == INSTANCE PollerState

(***************************************************************************)
(* The run in progress.  `pc` names the next call to make; "return" and     *)
(* "raise" are how process_lead ends.                                      *)
(***************************************************************************)
Pc == {"idle", "fetch", "person", "find", "create", "send",
       "record", "recordPerson", "supabase", "slack", "return", "raise"}

Call == [pc : Pc, lead : Lead \cup {NoLead}, person : Person \cup {NoPerson},
         repeat : BOOLEAN, inquiry : Nat]

NoCall == [pc |-> "idle", lead |-> NoLead, person |-> NoPerson,
           repeat |-> FALSE, inquiry |-> 0]

Goto(pc) == call' = [call EXCEPT !.pc = pc]

lead == call.lead

(***************************************************************************)
(* The poller's loop over the messages it has not processed (the cursor and *)
(* the mailbox list are modules of their own, Poller and MailboxCache).    *)
(***************************************************************************)
\* Mutant: the message is marked as it is taken.
DispatchMarked(l) ==
    /\ call.pc = "idle"
    /\ ~DB!WasProcessed(processed, l)
    /\ call' = [NoCall EXCEPT !.pc = "fetch", !.lead = l]
    /\ processed' = DB!MarkProcessed(processed, l, "ok")
    /\ UNCHANGED <<services, now, fingerprints, persons, history>>

\* poll_once lists lead l, delivered by then, and finds no processed_messages row for it.
Dispatch(l) ==
    /\ call.pc = "idle"
    /\ ~DB!WasProcessed(processed, l)
    /\ call' = [NoCall EXCEPT !.pc = "fetch", !.lead = l]
    /\ UNCHANGED <<services, now, sqlite, history>>

\* Mutant: a run that left no inquiry is not marked.
MarkProcessedWithInquiry ==
    /\ call.pc \in {"return", "raise"}
    /\ processed' = IF call.inquiry = 0 THEN processed ELSE DB!MarkProcessed(processed, lead, "ok")
    /\ call' = NoCall
    /\ UNCHANGED <<services, now, fingerprints, persons, history>>

\* Mutant: a run that raised leaves no row.
MarkProcessedOnReturn ==
    /\ call.pc \in {"return", "raise"}
    /\ processed' = IF call.pc = "raise" THEN processed ELSE DB!MarkProcessed(processed, lead, "ok")
    /\ call' = NoCall
    /\ UNCHANGED <<services, now, fingerprints, persons, history>>

\* process_lead returned, or raised: the row that says so ends the run.
MarkProcessed ==
    /\ \/ /\ call.pc = "return"
          /\ processed' = DB!MarkProcessed(processed, lead, "ok")
       \/ /\ call.pc = "raise"
          /\ processed' = DB!MarkProcessed(processed, lead, "error")
    /\ call' = NoCall
    /\ UNCHANGED <<services, now, fingerprints, persons, history>>

(***************************************************************************)
(* Phase A.                                                                *)
(***************************************************************************)
IsDuplicate ==
    DB!RecentDuplicate(fingerprints, MailboxOf[lead], FingerprintOf[lead], lead, now, DedupWindow)

\* Steps 1 to 2b: a Hiver mirror of another mailbox's mail is skipped, a duplicate is suppressed
\* (both exceptions are turned into a return), any other lead goes on.
Fetch ==
    /\ call.pc = "fetch"
    /\ \/ /\ lead \notin Addressed
          /\ Goto("return")
          /\ UNCHANGED suppressed
       \/ /\ lead \in Addressed /\ IsDuplicate
          /\ Goto("return")
          /\ suppressed' = suppressed \cup {lead}
       \/ /\ lead \in Addressed /\ ~IsDuplicate
          /\ Goto("person")
          /\ UNCHANGED suppressed
    /\ UNCHANGED <<services, now, sqlite, interruptions, failedOpen>>

\* Mutant: fail closed.
FetchFailsClosed ==
    /\ call.pc = "fetch"
    /\ lead \in Addressed
    /\ Fault
    /\ Goto("return")
    /\ UNCHANGED <<inquiries, supabase, slack, jobs, mail, now, sqlite, history>>

\* The lookup raises: fail open, as if nothing was found.
FetchFailsOpen ==
    /\ call.pc = "fetch"
    /\ lead \in Addressed
    /\ Fault
    /\ Goto("person")
    /\ failedOpen' = failedOpen \cup {lead}
    /\ UNCHANGED <<inquiries, supabase, slack, jobs, mail, now, sqlite,
                   interruptions, suppressed>>

IsRepeat(p) ==
    /\ RepeatMode = "enforce"
    /\ p # NoPerson
    /\ DB!RecentPersonReply(persons, p, MailboxOf[lead], lead, now, RepeatWindow)

\* Step 2c.  resolve_person_id returns None when unmatched and on every error.
CheckPerson ==
    /\ call.pc = "person"
    /\ \E p \in IF RepeatMode = "off" THEN {NoPerson} ELSE {PersonOf[lead], NoPerson} :
          call' = [call EXCEPT !.pc = "find", !.person = p, !.repeat = IsRepeat(p)]
    /\ UNCHANGED <<services, now, sqlite, history>>

\* Mutant: a lookup that raises counts as a repeat.
CheckPersonFailsRepeat ==
    /\ call.pc = "person"
    /\ RepeatMode # "off"
    /\ PersonOf[lead] # NoPerson
    /\ Fault
    /\ call' = [call EXCEPT !.pc = "find", !.person = PersonOf[lead], !.repeat = TRUE]
    /\ failedOpen' = failedOpen \cup {lead}
    /\ UNCHANGED <<inquiries, supabase, slack, jobs, mail, now, sqlite,
                   interruptions, suppressed>>

\* recent_person_reply raises: fail open, as a first contact.
CheckPersonFailsOpen ==
    /\ call.pc = "person"
    /\ RepeatMode # "off"
    /\ PersonOf[lead] # NoPerson
    /\ Fault
    /\ call' = [call EXCEPT !.pc = "find", !.person = PersonOf[lead]]
    /\ failedOpen' = failedOpen \cup {lead}
    /\ UNCHANGED <<inquiries, supabase, slack, jobs, mail, now, sqlite,
                   interruptions, suppressed>>

\* Steps 3 to 10: the lookups that decide what the reply says, then find_or_create_inquiry: a
\* query by message id ...
FindOrCreate ==
    /\ call.pc = "find"
    /\ \/ \E i \in FindInquiry(lead) :
             call' = [call EXCEPT !.pc = "send", !.inquiry = i]
       \/ /\ FindInquiry(lead) = {}
          /\ Goto("create")
    /\ UNCHANGED <<services, now, sqlite, history>>

AddInquiry == inquiries' = Append(inquiries, NewInquiry(lead))

\* ... and, when it found nothing, an insert.
CreateInquiry ==
    /\ call.pc = "create"
    /\ AddInquiry
    /\ call' = [call EXCEPT !.pc = "send", !.inquiry = Len(inquiries) + 1]
    /\ UNCHANGED <<supabase, slack, jobs, mail, faults, now, sqlite, history>>

\* Mutant: the job is handed the mode instead of the template.
EnqueueMode ==
    jobs' = Append(jobs, [lead |-> lead, inquiry |-> call.inquiry,
                          template |-> IF call.repeat THEN RepeatMode ELSE "first",
                          status |-> "scheduled"])

Enqueue ==
    jobs' = Append(jobs, [lead |-> lead, inquiry |-> call.inquiry,
                          template |-> IF call.repeat THEN "repeat" ELSE "first",
                          status |-> "scheduled"])

\* Step 11: LiveSend.  The skipped route enqueues nothing and records nothing.
SendReply ==
    /\ call.pc = "send"
    /\ \/ /\ lead \in Answerable
          /\ Enqueue
          /\ Goto("record")
       \/ /\ lead \notin Answerable
          /\ Goto("supabase")
          /\ UNCHANGED jobs
    /\ UNCHANGED <<inquiries, supabase, slack, mail, faults, now, sqlite, history>>

AfterRecord == IF call.person # NoPerson THEN "recordPerson" ELSE "supabase"

\* Mutant: repeat replies are not recorded.
RecordFingerprintOfFirst ==
    /\ call.pc = "record"
    /\ fingerprints' =
          IF call.repeat THEN fingerprints
          ELSE DB!RecordReply(fingerprints, MailboxOf[lead], FingerprintOf[lead], lead, now)
    /\ Goto(AfterRecord)
    /\ UNCHANGED <<services, now, processed, persons, history>>

\* Step 11b.
RecordFingerprint ==
    /\ call.pc = "record"
    /\ fingerprints' = DB!RecordReply(fingerprints, MailboxOf[lead], FingerprintOf[lead], lead, now)
    /\ Goto(AfterRecord)
    /\ UNCHANGED <<services, now, processed, persons, history>>

\* Step 11c.
RecordPerson ==
    /\ call.pc = "recordPerson"
    /\ persons' = DB!RecordPersonReply(persons, call.person, MailboxOf[lead], lead, now)
    /\ Goto("supabase")
    /\ UNCHANGED <<services, now, processed, fingerprints, history>>

\* Either insert raises, which is logged and swallowed.
RecordFails ==
    /\ Fault
    /\ \/ call.pc = "record" /\ Goto(AfterRecord)
       \/ call.pc = "recordPerson" /\ Goto("supabase")
    /\ UNCHANGED <<inquiries, supabase, slack, jobs, mail, now, sqlite, history>>

(***************************************************************************)
(* Phases B and C.                                                         *)
(***************************************************************************)
\* Mutant: the upsert is best effort.
WriteSupabaseRowBestEffort ==
    /\ call.pc = "supabase"
    /\ UpsertInquiry(call.inquiry) \/ UNCHANGED supabase
    /\ Goto("slack")
    /\ UNCHANGED <<inquiries, slack, jobs, mail, faults, now, sqlite, history>>

WriteSupabaseRow ==
    /\ call.pc = "supabase"
    /\ UpsertInquiry(call.inquiry)
    /\ Goto("slack")
    /\ UNCHANGED <<inquiries, slack, jobs, mail, faults, now, sqlite, history>>

PostSlack ==
    /\ call.pc = "slack"
    /\ slack' = [slack EXCEPT ![lead] = @ + 1]
    /\ Goto("return")
    /\ UNCHANGED <<inquiries, supabase, jobs, mail, faults, now, sqlite, history>>

(***************************************************************************)
(* A call that process_lead does not guard raises: last_error is set on the *)
(* JobState nobody keeps, and the exception reaches poll_once.             *)
(***************************************************************************)
CallRaises ==
    /\ Fault
    /\ call.pc \in {"fetch", "find", "create", "send", "supabase", "slack"}
    /\ Goto("raise")
    /\ UNCHANGED <<inquiries, supabase, slack, jobs, mail, now, sqlite, history>>

\* The same, after the write took effect.
CallRaisesLate ==
    /\ Fault
    /\ \/ call.pc = "create" /\ AddInquiry /\ UNCHANGED <<supabase, slack, jobs>>
       \/ /\ call.pc = "send" /\ lead \in Answerable
          /\ Enqueue
          /\ UNCHANGED <<inquiries, supabase, slack>>
       \/ /\ call.pc = "supabase"
          /\ UpsertInquiry(call.inquiry)
          /\ UNCHANGED <<inquiries, slack, jobs>>
       \/ /\ call.pc = "slack"
          /\ slack' = [slack EXCEPT ![lead] = @ + 1]
          /\ UNCHANGED <<inquiries, supabase, jobs>>
    /\ Goto("raise")
    /\ UNCHANGED <<mail, now, sqlite, history>>

(***************************************************************************)
(* The poller dies at any point of a run, or mark_processed itself raises   *)
(* and run_forever goes on to the next mailbox: the message stays unmarked. *)
(***************************************************************************)
Interrupted ==
    /\ call.pc # "idle"
    /\ interruptions < MaxInterruptions
    /\ interruptions' = interruptions + 1
    /\ call' = NoCall
    /\ UNCHANGED <<services, now, sqlite, failedOpen, suppressed>>

(***************************************************************************)
(* The clock of the poller's host.                                         *)
(***************************************************************************)
Tick ==
    /\ now < MaxTime
    /\ now' = now + 1
    /\ UNCHANGED <<services, call, sqlite, history>>

(***************************************************************************)
(* The poller's own steps, and its initial state: an empty store.          *)
(***************************************************************************)
PollerStep ==
    \/ \E l \in Lead : Dispatch(l)
    \/ MarkProcessed
    \/ Fetch \/ CheckPerson
    \/ FindOrCreate \/ CreateInquiry \/ SendReply \/ RecordFingerprint \/ RecordPerson
    \/ WriteSupabaseRow \/ PostSlack

PollerFailure ==
    \/ FetchFailsOpen \/ CheckPersonFailsOpen \/ RecordFails
    \/ CallRaises \/ CallRaisesLate \/ Interrupted

ProcessLeadTypeOK ==
    /\ now \in 0..MaxTime
    /\ call \in Call
    /\ call.pc # "idle" => lead \in Lead
    /\ call.pc = "recordPerson" => call.person \in Person
    /\ processed \in [Lead -> DB!ProcessedVal]
    /\ fingerprints \subseteq [mailbox : Mailbox, fingerprint : Fingerprint,
                               msg : Lead, at : 0..MaxTime]
    /\ persons \subseteq [person : Person, mailbox : Mailbox, msg : Lead, at : 0..MaxTime]
    /\ interruptions \in 0..MaxInterruptions
    /\ failedOpen \subseteq Lead
    /\ suppressed \subseteq Lead

ProcessLeadInit ==
    /\ now = 0
    /\ call = NoCall
    /\ processed = [l \in Lead |-> "no"]
    /\ fingerprints = {}
    /\ persons = {}
    /\ interruptions = 0
    /\ failedOpen = {}
    /\ suppressed = {}

=============================================================================
