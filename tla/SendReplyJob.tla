---------------------------- MODULE SendReplyJob ----------------------------
(***************************************************************************)
(* workers/send_job.py: what an RQ worker does with one job.  enqueue_at is *)
(* called without retry=, so a job that raises, or whose worker dies, is    *)
(* never run again; nothing it did before is undone.                       *)
(*                                                                         *)
(* A call that raises may have taken effect at the far end (the response is *)
(* lost, the client times out): every failure below leaves both outcomes.  *)
(***************************************************************************)
EXTENDS Services

\* A worker takes a job whose time has come.
StartJob(j) ==
    /\ jobs[j].status = "scheduled"
    /\ Cardinality(Running) < NumWorkers
    /\ SetStatus(j, "started")
    /\ UNCHANGED <<inquiries, supabase, slack, mail, faults>>

\* The signature is fetched (best effort) and the reply is sent.
GmailSend(j) ==
    /\ jobs[j].status = "started"
    /\ mail' = mail \cup {j}
    /\ SetStatus(j, "sent")
    /\ UNCHANGED <<inquiries, supabase, slack, faults>>

\* Mutant: the row is written before the reply is sent.
WriteAirtableEarly(j) ==
    /\ jobs[j].status \in {"started", "sent"}
    /\ UpdateAutoreplyBody(jobs[j].inquiry, j)
    /\ SetStatus(j, "written")
    /\ UNCHANGED <<supabase, slack, mail, faults>>

\* The body and the id of the sent reply go to the Airtable row.
WriteAirtable(j) ==
    /\ jobs[j].status = "sent"
    /\ UpdateAutoreplyBody(jobs[j].inquiry, j)
    /\ SetStatus(j, "written")
    /\ UNCHANGED <<supabase, slack, mail, faults>>

\* ... and then to the Supabase row.
WriteSupabase(j) ==
    /\ jobs[j].status = "written"
    /\ UpdateInquiryReply(jobs[j].inquiry, j)
    /\ SetStatus(j, "finished")
    /\ UNCHANGED <<inquiries, slack, mail, faults>>

RunJob(j) == GmailSend(j) \/ WriteAirtable(j) \/ WriteSupabase(j)

\* The call the job is at raises, or the worker is killed there.
JobFails(j) ==
    /\ Fault
    /\ j \in Running
    /\ SetStatus(j, "failed")
    /\ UNCHANGED <<inquiries, supabase, slack, mail>>

\* The call the job is at takes effect, and then raises.
JobFailsLate(j) ==
    /\ Fault
    /\ SetStatus(j, "failed")
    /\ \/ /\ jobs[j].status = "started"
          /\ mail' = mail \cup {j}
          /\ UNCHANGED <<inquiries, supabase>>
       \/ /\ jobs[j].status = "sent"
          /\ UpdateAutoreplyBody(jobs[j].inquiry, j)
          /\ UNCHANGED <<supabase, mail>>
       \/ /\ jobs[j].status = "written"
          /\ UpdateInquiryReply(jobs[j].inquiry, j)
          /\ UNCHANGED <<inquiries, mail>>
    /\ UNCHANGED slack

=============================================================================
