------------------------------ MODULE Services ------------------------------
(***************************************************************************)
(* The services the two processes of the system share: the poller, which   *)
(* runs process_lead, and the RQ workers, which run send_reply_job.        *)
(*                                                                         *)
(* Each service is a variable with the operations that src/ performs on it; *)
(* the data of a lead (names, addresses, bodies) is carried by the lead's   *)
(* identity, a member of Lead, which stands for the Gmail message id.      *)
(***************************************************************************)
EXTENDS Integers, Sequences, FiniteSets

CONSTANTS Lead,       \* the lead messages, by Gmail message id
          NumWorkers, \* RQ worker processes
          MaxFaults   \* bound: calls to a service, or to SQLite, that raise

ASSUME ServicesAssumption == NumWorkers \in Nat \ {0} /\ MaxFaults \in Nat

VARIABLES
    inquiries,  \* Airtable's Inquiries table: a sequence, the index is the record id
    supabase,   \* Supabase's inquiries table: a set of rows [id, reply]
    slack,      \* Slack posts per lead
    jobs,       \* the RQ jobs ever enqueued: the index is the job id
    mail,       \* the jobs whose reply Gmail has accepted
    faults      \* the calls that have raised so far

services == <<inquiries, supabase, slack, jobs, mail, faults>>

\* A call raises.  It may have taken effect all the same: the response is lost or times out.
Fault == faults < MaxFaults /\ faults' = faults + 1

(***************************************************************************)
(* Airtable.  `key` is the field gmail_message_id_autoreply: 0 while it     *)
(* holds the id of the lead's own message, and j once it holds the id Gmail *)
(* gave to the reply of job j; `reply` is the body field reply_autoreply, 0 *)
(* while empty, j for the body of job j.                                   *)
(***************************************************************************)
Inquiry == [lead : Lead, key : Nat, reply : Nat]

\* Mutant: no lookup before the insert.
FindInquiryNone(m) == {}

\* The rows whose key is the message id of lead m.
FindInquiry(m) == {i \in DOMAIN inquiries : inquiries[i].lead = m /\ inquiries[i].key = 0}

NewInquiry(m) == [lead |-> m, key |-> 0, reply |-> 0]

\* One PATCH: the body, and the id of the sent reply over the id of the lead.
UpdateAutoreplyBody(i, j) ==
    inquiries' = [inquiries EXCEPT ![i].key = j, ![i].reply = j]

(***************************************************************************)
(* Supabase.  The primary key is the Airtable record id.                   *)
(***************************************************************************)
SupabaseRow == [id : Nat, reply : Nat]

\* Mutant: the upsert replaces the row instead of merging into it.
UpsertInquiryReplace(i) ==
    supabase' = {r \in supabase : r.id # i} \cup {[id |-> i, reply |-> 0]}

\* resolution=merge-duplicates: the payload has no reply column, so a row that is there keeps it.
UpsertInquiry(i) ==
    supabase' = IF \E r \in supabase : r.id = i
                THEN supabase
                ELSE supabase \cup {[id |-> i, reply |-> 0]}

\* PATCH ?id=eq.i: matches the row with that id, or none.
UpdateInquiryReply(i, j) ==
    supabase' = {IF r.id = i THEN [r EXCEPT !.reply = j] ELSE r : r \in supabase}

(***************************************************************************)
(* Redis queue.  A job goes scheduled -> started -> sent (Gmail accepted    *)
(* the reply) -> written (Airtable updated) -> finished, or to failed.  The *)
(* delay of compute_send_at (a minute to a night) is not counted: a         *)
(* scheduled job may start at any time.                                    *)
(***************************************************************************)
JobStatus == {"scheduled", "started", "sent", "written", "finished", "failed"}
Template == {"first", "repeat"}
Job == [lead : Lead, inquiry : Nat, template : Template, status : JobStatus]

JobsOf(m) == {j \in DOMAIN jobs : jobs[j].lead = m}
Running == {j \in DOMAIN jobs : jobs[j].status \in {"started", "sent", "written"}}

SetStatus(j, status) == jobs' = [jobs EXCEPT ![j].status = status]

(***************************************************************************)
(* Initially every service is empty.                                       *)
(***************************************************************************)
ServicesTypeOK ==
    /\ inquiries \in Seq(Inquiry)
    /\ supabase \subseteq SupabaseRow
    /\ slack \in [Lead -> Nat]
    /\ jobs \in Seq(Job)
    /\ mail \subseteq DOMAIN jobs
    /\ faults \in Nat

ServicesInit ==
    /\ inquiries = <<>>
    /\ supabase = {}
    /\ slack = [m \in Lead |-> 0]
    /\ jobs = <<>>
    /\ mail = {}
    /\ faults = 0

=============================================================================
