---------------------------- MODULE PollerState ----------------------------
(***************************************************************************)
(* The queries and statements of the poller's SQLite store                 *)
(* (workers/poller_state.py), as operators on the tables they read and      *)
(* write.  A table is a set of rows: two identical rows of the append-only  *)
(* tables are indistinguishable to every query the code makes.  Every       *)
(* method commits before it returns, so a call is one atomic step of the    *)
(* process that makes it, and what it wrote survives a restart.            *)
(***************************************************************************)
EXTENDS Integers

(***************************************************************************)
(* processed_messages: one row per Gmail message id, of a success ("ok") or *)
(* of a failure ("error", the row whose error column is set).              *)
(***************************************************************************)
ProcessedVal == {"no", "ok", "error"}

\* Mutant: only a successful attempt counts.
WasProcessedOk(processed, msg) == processed[msg] = "ok"

\* A failed message counts as processed: the query does not read `error`.
WasProcessed(processed, msg) == processed[msg] # "no"

MarkProcessed(processed, msg, outcome) == [processed EXCEPT ![msg] = outcome]

(***************************************************************************)
(* replied_fingerprints: rows [mailbox, fingerprint, msg, at], inserted     *)
(* when a reply is enqueued and never updated or deleted.                  *)
(***************************************************************************)

\* Mutant: the bound of the window is strict.
RecentDuplicateStrict(rows, mailbox, fingerprint, exclude, now, within) ==
    \E r \in rows : /\ r.mailbox = mailbox
                    /\ r.fingerprint = fingerprint
                    /\ r.msg # exclude
                    /\ r.at > now - within

\* Mutant: the message itself is not excluded.
RecentDuplicateSelf(rows, mailbox, fingerprint, exclude, now, within) ==
    \E r \in rows : /\ r.mailbox = mailbox
                    /\ r.fingerprint = fingerprint
                    /\ r.at >= now - within

\* Is there a reply to the same content, from another message, replied_at >= now - within?
RecentDuplicate(rows, mailbox, fingerprint, exclude, now, within) ==
    \E r \in rows : /\ r.mailbox = mailbox
                    /\ r.fingerprint = fingerprint
                    /\ r.msg # exclude
                    /\ r.at >= now - within

RecordReply(rows, mailbox, fingerprint, msg, now) ==
    rows \cup {[mailbox |-> mailbox, fingerprint |-> fingerprint,
                msg |-> msg, at |-> now]}

(***************************************************************************)
(* replied_persons: rows [person, mailbox, msg, at].                       *)
(***************************************************************************)

\* Mutant: the bound of the window is strict.
RecentPersonReplyStrict(rows, person, mailbox, exclude, now, within) ==
    \E r \in rows : /\ r.person = person
                    /\ r.mailbox = mailbox
                    /\ r.msg # exclude
                    /\ r.at > now - within

RecentPersonReply(rows, person, mailbox, exclude, now, within) ==
    \E r \in rows : /\ r.person = person
                    /\ r.mailbox = mailbox
                    /\ r.msg # exclude
                    /\ r.at >= now - within

RecordPersonReply(rows, person, mailbox, msg, now) ==
    rows \cup {[person |-> person, mailbox |-> mailbox, msg |-> msg, at |-> now]}

=============================================================================
