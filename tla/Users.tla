------------------------------- MODULE Users -------------------------------
(***************************************************************************)
(* The queries on Airtable's Users table (services/airtable.py), of a user  *)
(* record [enabled, staff, leads, email, inbox, phone]: Autoreply Enabled,  *)
(* a Type of Agent or Admin, Leads Email, Email, Autoreply Email and Phone. *)
(***************************************************************************)
CONSTANTS Blank     \* an empty field, and a value that a lead does not have

\* The mailboxes production polls: Leads Email, or Email where that is blank.
MonitoredLeadsEmails(users) ==
    {IF u.leads # Blank THEN u.leads ELSE u.email : u \in {v \in users : v.enabled}} \ {Blank}

\* Mutant: Email counts even where there is a Leads Email.
UsersByLeadsEmailOrEmail(users, mailbox) ==
    {u \in users : u.enabled /\ (u.leads = mailbox \/ u.email = mailbox)}

\* The rows from which the agent of a mailbox is taken.
UsersByLeadsEmail(users, mailbox) ==
    {u \in users : /\ u.enabled
                   /\ u.leads = mailbox \/ (u.leads = Blank /\ u.email = mailbox)}

\* The mailboxes the harness polls.
MonitoredAutoreplyInboxes(users) == {u.inbox : u \in {v \in users : v.enabled}} \ {Blank}

UsersByAutoreplyEmail(users, mailbox) == {u \in users : u.enabled /\ u.inbox = mailbox}

\* The rows from which the prospect's own record is taken.
ExistingUsers(users, email, phone) ==
    {u \in users : /\ ~u.staff
                   /\ \/ email # Blank /\ u.email = email
                      \/ phone # Blank /\ u.phone = phone}

=============================================================================
