---------------------------- MODULE MailboxCache ----------------------------
(***************************************************************************)
(* The cached list of the mailboxes to poll (workers/poller.py MailboxCache) *)
(* as run_forever reads it at the top of every iteration.  The SIGHUP       *)
(* handler runs in the thread of the loop, between any two of its steps, so *)
(* get() is modelled in the steps whose order the handler can tell apart.   *)
(*                                                                         *)
(* Times are whole seconds of one clock.                                   *)
(***************************************************************************)
EXTENDS Integers, FiniteSets

CONSTANTS Mailbox,      \* the Leads Email values of Airtable's Users table
          NoList,       \* the cache when it is empty
          CacheTTL,     \* mailbox_cache_ttl_seconds
          MaxTime,      \* bound: the clock stops here
          MaxEvents     \* bound: calls that raise, SIGHUPs, and edits of Users

ASSUME CacheAssumption ==
    /\ \A boxes \in SUBSET Mailbox : NoList # boxes
    /\ CacheTTL \in Nat
    /\ MaxTime \in Nat
    /\ MaxEvents \in Nat

VARIABLES now,
          pc,           \* where the loop of run_forever is
          enabled,      \* Airtable: the mailboxes whose user has Autoreply Enabled
          cached,       \* _cached
          fetchedAt,    \* _fetched_at
          answer,       \* the list Airtable has returned to get()
          todo,         \* the mailboxes left in this iteration
          hup,          \* history: a SIGHUP since which Airtable has not been asked
          signals,      \* history: SIGHUPs, and edits of Users
          faults        \* history: calls that have raised

cache == <<cached, fetchedAt, answer>>
cacheHistory == <<hup, signals>>

Fault == faults + signals < MaxEvents /\ faults' = faults + 1

Signal == faults + signals < MaxEvents /\ signals' = signals + 1

\* get(): is there a list, and is it young enough?
TestCache ==
    /\ pc = "get"
    /\ pc' = IF cached = NoList \/ now - fetchedAt >= CacheTTL THEN "fetch" ELSE "copy"
    /\ UNCHANGED <<now, enabled, cache, todo, cacheHistory, faults>>

\* list_monitored_leads_emails: the enabled users, as they are when Airtable answers.
FetchList ==
    /\ pc = "fetch"
    /\ answer' = enabled
    /\ hup' = FALSE
    /\ pc' = "store"
    /\ UNCHANGED <<now, enabled, cached, fetchedAt, todo, signals, faults>>

StoreList ==
    /\ pc = "store"
    /\ cached' = answer
    /\ fetchedAt' = now
    /\ answer' = {}
    /\ pc' = "copy"
    /\ UNCHANGED <<now, enabled, todo, cacheHistory, faults>>

\* list(self._cached), which raises when a SIGHUP has just emptied the cache: run_forever takes
\* any exception of the discovery for an empty list.
CopyList ==
    /\ pc = "copy"
    /\ todo' = IF cached = NoList THEN {} ELSE cached
    /\ pc' = "next"
    /\ UNCHANGED <<now, enabled, cache, cacheHistory, faults>>

\* The call to Airtable raises.
FetchFails ==
    /\ pc = "fetch"
    /\ Fault
    /\ todo' = {}
    /\ pc' = "next"
    /\ UNCHANGED <<now, enabled, cache, cacheHistory>>

\* Mutant: invalidate() forgets the time but not the list.
SighupStampOnly ==
    /\ Signal
    /\ fetchedAt' = 0
    /\ hup' = (pc # "store" \/ hup)
    /\ UNCHANGED <<now, pc, enabled, cached, answer, todo, faults>>

\* invalidate().  A SIGHUP that comes between Airtable's answer and the store is overwritten.
Sighup ==
    /\ Signal
    /\ cached' = NoList
    /\ fetchedAt' = 0
    /\ hup' = (pc # "store" \/ hup)
    /\ UNCHANGED <<now, pc, enabled, answer, todo, faults>>

\* Somebody edits Users in Airtable.
EditUsers ==
    /\ Signal
    /\ \E b \in Mailbox : enabled' = IF b \in enabled THEN enabled \ {b} ELSE enabled \cup {b}
    /\ UNCHANGED <<now, pc, cache, todo, hup, faults>>

CacheStep == TestCache \/ FetchList \/ StoreList \/ CopyList

CacheTypeOK ==
    /\ now \in 0..MaxTime
    /\ enabled \subseteq Mailbox
    /\ cached = NoList \/ cached \subseteq Mailbox
    /\ fetchedAt \in 0..MaxTime
    /\ answer \subseteq Mailbox
    /\ todo \subseteq Mailbox
    /\ hup \in BOOLEAN
    /\ signals \in 0..MaxEvents
    /\ faults \in 0..MaxEvents

CacheInit ==
    /\ now = 0
    /\ pc = "get"
    /\ enabled \in SUBSET Mailbox
    /\ cached = NoList
    /\ fetchedAt = 0
    /\ answer = {}
    /\ todo = {}
    /\ hup = FALSE
    /\ signals = 0
    /\ faults = 0

=============================================================================
