------------------------------ MODULE Harness ------------------------------
(***************************************************************************)
(* The testing harness (harness/runner.py): watch, a long-running poller,   *)
(* and the one-shot commands backfill and replay, which people start beside *)
(* it.  All three run process_lead with strategies that write a row of the  *)
(* test base's Drafts table instead of sending a reply (harness/pipeline.py) *)
(* and with calls that do nothing instead of Supabase and Slack.  They      *)
(* share the test base; watch and backfill also share an SQLite file        *)
(* (harness/state.py), whose statements are those of the production store. *)
(*                                                                         *)
(* Lead holds the messages addressed to the mailbox they lie in: the others *)
(* leave process_lead at once, as module ProcessLead says.  The person      *)
(* window only chooses a template, and is left to that module too, and the  *)
(* cursor of the watch loop to Poller: here watch comes by any message that *)
(* has no row, and backfill's window holds all that has been delivered.     *)
(***************************************************************************)
EXTENDS Integers, FiniteSets

CONSTANTS Lead, NoLead, Mailbox, Fingerprint,
          MailboxOf,      \* the autoreply inbox a lead lies in
          FingerprintOf,  \* compute_fingerprint of its content
          Answerable,     \* the leads with a recipient and a template that can be filled
          DedupWindow,    \* dedup_window_seconds
          Limits,         \* the values of backfill's --limit
          MaxTime,        \* bound: the clock stops here
          MaxFaults,      \* bound: calls that raise, and processes that are killed
          MaxCommands     \* bound: backfills and replays

ASSUME HarnessAssumption ==
    /\ NoLead \notin Lead
    /\ MailboxOf \in [Lead -> Mailbox]
    /\ FingerprintOf \in [Lead -> Fingerprint]
    /\ Answerable \subseteq Lead
    /\ DedupWindow \in Nat
    /\ Limits \subseteq Nat
    /\ MaxTime \in Nat /\ MaxFaults \in Nat /\ MaxCommands \in Nat

Process == {"watch", "backfill", "replay"}

VARIABLES
    now,
    inbox,          \* Gmail: the leads delivered
    processed,      \* SQLite: processed_messages
    fingerprints,   \* SQLite: replied_fingerprints
    inquiries,      \* Airtable: Inquiries rows per lead; nothing overwrites their key here
    drafts,         \* Airtable: Drafts rows per lead
    run,            \* the run of process_lead in progress in each process
    backfill,       \* the backfill in progress
    faults, commands,
    raced,          \* history: misses of a lead's inquiry while another process was to create it
    reruns,         \* history: runs of a lead by a command, and runs that watch left unmarked
    suppressed,     \* history: leads suppressed as copies
    draftsBefore    \* history: the drafts of the lead that replay is running, when it started

store == <<processed, fingerprints>>
base == <<inquiries, drafts>>
history == <<raced, reruns, suppressed, draftsBefore>>
vars == <<now, inbox, store, base, run, backfill, faults, commands, history>>

DB == INSTANCE PollerState

Fault == faults < MaxFaults /\ faults' = faults + 1

(***************************************************************************)
(* The statements of the harness's own store.                              *)
(***************************************************************************)
Seen(l) == DB!WasProcessed(processed, l)

Mark(l, outcome) == processed' = DB!MarkProcessed(processed, l, outcome)

Copied(l) ==
    DB!RecentDuplicate(fingerprints, MailboxOf[l], FingerprintOf[l], l, now, DedupWindow)

Recorded(l) == DB!RecordReply(fingerprints, MailboxOf[l], FingerprintOf[l], l, now)

\* Mutant: replay is given the store as well.
UsesStoreAlways(p) == TRUE

\* replay runs with NoopDedup, which finds nothing and records nothing.
UsesStore(p) == p # "replay"

(***************************************************************************)
(* process_lead with the harness's strategies.                             *)
(***************************************************************************)
NoRun == [pc |-> "idle", lead |-> NoLead]

Idle(p) == run[p].pc = "idle"

Ended(p) == run[p].pc \in {"return", "raise"}

Begin(p, l) == run' = [run EXCEPT ![p] = [pc |-> "lookup", lead |-> l]]

Goto(p, pc) == run' = [run EXCEPT ![p].pc = pc]

EndRun(p) == run' = [run EXCEPT ![p] = NoRun]

\* The message is fetched and parsed, and its content looked up.
Lookup(p) ==
    /\ run[p].pc = "lookup"
    /\ \/ /\ UsesStore(p) /\ Copied(run[p].lead)
          /\ Goto(p, "return")
          /\ suppressed' = suppressed \cup {run[p].lead}
       \/ /\ ~(UsesStore(p) /\ Copied(run[p].lead))
          /\ Goto(p, "find")
          /\ UNCHANGED suppressed
    /\ UNCHANGED <<now, inbox, store, base, backfill, faults, commands,
                   raced, reruns, draftsBefore>>

Creating(l) == {p \in Process : run[p] = [pc |-> "create", lead |-> l]}

\* Mutant: the lookup finds nothing.
FindNone(p) ==
    /\ run[p].pc = "find"
    /\ Goto(p, "create")
    /\ UNCHANGED <<now, inbox, store, base, backfill, faults, commands, history>>

\* find_or_create_inquiry: the query ...
Find(p) ==
    LET l == run[p].lead IN
    /\ run[p].pc = "find"
    /\ \/ /\ inquiries[l] > 0
          /\ Goto(p, "draft")
          /\ UNCHANGED raced
       \/ /\ inquiries[l] = 0
          /\ Goto(p, "create")
          /\ raced' = IF Creating(l) = {} THEN raced ELSE [raced EXCEPT ![l] = @ + 1]
    /\ UNCHANGED <<now, inbox, store, base, backfill, faults, commands,
                   reruns, suppressed, draftsBefore>>

AddInquiry(l) == inquiries' = [inquiries EXCEPT ![l] = @ + 1] /\ UNCHANGED drafts

\* ... and the insert.
Create(p) ==
    /\ run[p].pc = "create"
    /\ AddInquiry(run[p].lead)
    /\ Goto(p, "draft")
    /\ UNCHANGED <<now, inbox, store, backfill, faults, commands, history>>

\* DraftSend writes a row for every route.
AddDraft(l) == drafts' = [drafts EXCEPT ![l] = @ + 1] /\ UNCHANGED inquiries

\* Mutant: a skipped lead is recorded as well.
AfterDraftAll(l) == "record"

\* Only a reply is recorded, not a draft whose route is "skipped".
AfterDraft(l) == IF l \in Answerable THEN "record" ELSE "return"

Draft(p) ==
    /\ run[p].pc = "draft"
    /\ AddDraft(run[p].lead)
    /\ Goto(p, AfterDraft(run[p].lead))
    /\ UNCHANGED <<now, inbox, store, backfill, faults, commands, history>>

\* The fingerprint.  Supabase and Slack, which come after it, do nothing.
Record(p) ==
    /\ run[p].pc = "record"
    /\ fingerprints' = IF UsesStore(p) THEN Recorded(run[p].lead) ELSE fingerprints
    /\ Goto(p, "return")
    /\ UNCHANGED <<now, inbox, processed, base, backfill, faults, commands, history>>

\* The store raises: the lookup fails open, the record is left out.
StoreRaises(p) ==
    /\ UsesStore(p)
    /\ Fault
    /\ \/ run[p].pc = "lookup" /\ Goto(p, "find")
       \/ run[p].pc = "record" /\ Goto(p, "return")
    /\ UNCHANGED <<now, inbox, store, base, backfill, commands, history>>

\* Gmail or Airtable raises, perhaps after the row is there.
CallRaises(p) ==
    /\ Fault
    /\ \/ run[p].pc \in {"lookup", "find", "create", "draft"} /\ UNCHANGED base
       \/ run[p].pc = "create" /\ AddInquiry(run[p].lead)
       \/ run[p].pc = "draft" /\ AddDraft(run[p].lead)
    /\ Goto(p, "raise")
    /\ UNCHANGED <<now, inbox, store, backfill, commands, history>>

Pipeline(p) == Lookup(p) \/ Find(p) \/ Create(p) \/ Draft(p) \/ Record(p)

(***************************************************************************)
(* watch: the dispatch of poll_once (harness/poller.py).                    *)
(***************************************************************************)
WatchTake(l) ==
    /\ l \in inbox /\ ~Seen(l)
    /\ Idle("watch")
    /\ Begin("watch", l)
    /\ UNCHANGED <<now, inbox, store, base, backfill, faults, commands, history>>

\* Mutant: a failed message gets no row.
OutcomeRowOkOnly == IF run["watch"].pc = "raise" THEN "no" ELSE "ok"

\* Mutant: the row holds how the run ended.
OutcomeRowRepr == run["watch"].pc

OutcomeRow == IF run["watch"].pc = "raise" THEN "error" ELSE "ok"

WatchDone ==
    /\ Ended("watch")
    /\ Mark(run["watch"].lead, OutcomeRow)
    /\ EndRun("watch")
    /\ UNCHANGED <<now, inbox, fingerprints, base, backfill, faults, commands, history>>

\* mark_processed raises, and run_forever goes on; or the process is killed at any point of a run,
\* and restarted.
WatchDrops ==
    /\ ~Idle("watch")
    /\ Fault
    /\ EndRun("watch")
    /\ reruns' = [reruns EXCEPT ![run["watch"].lead] = @ + 1]
    /\ UNCHANGED <<now, inbox, store, base, backfill, commands, raced, suppressed, draftsBefore>>

(***************************************************************************)
(* backfill.                                                               *)
(***************************************************************************)
NoBackfill == [on |-> FALSE, boxes |-> {}, limit |-> 0, todo |-> {}, total |-> 0,
               scope |-> {}, ran |-> {}]

Command == commands < MaxCommands /\ commands' = commands + 1

\* `scope` and `ran` are history: what it has to look at, and what it has run.
Backfill(boxes, limit) ==
    /\ ~backfill.on
    /\ Command
    /\ backfill' = [NoBackfill EXCEPT !.on = TRUE, !.boxes = boxes, !.limit = limit,
                                      !.scope = {l \in inbox : MailboxOf[l] \in boxes}]
    /\ UNCHANGED <<now, inbox, store, base, run, faults, history>>

BackfillList(b) ==
    /\ b \in backfill.boxes /\ backfill.todo = {} /\ Idle("backfill")
    /\ backfill' = [backfill EXCEPT !.boxes = @ \ {b}, !.todo = {l \in inbox : MailboxOf[l] = b}]
    /\ UNCHANGED <<now, inbox, store, base, run, faults, commands, history>>

\* Mutant: a processed message ends the loop.
AfterSeenBreak(l) == {}

AfterSeen(l) == backfill.todo \ {l}

\* The next message of a mailbox: the limit, which counts over all of them, ends its loop; a
\* processed one is skipped.
BackfillTake(l) ==
    /\ l \in backfill.todo /\ Idle("backfill")
    /\ \/ /\ backfill.total >= backfill.limit
          /\ backfill' = [backfill EXCEPT !.todo = {}]
          /\ UNCHANGED <<run, reruns>>
       \/ /\ backfill.total < backfill.limit /\ Seen(l)
          /\ backfill' = [backfill EXCEPT !.todo = AfterSeen(l)]
          /\ UNCHANGED <<run, reruns>>
       \/ /\ backfill.total < backfill.limit /\ ~Seen(l)
          /\ backfill' = [backfill EXCEPT !.todo = @ \ {l}, !.ran = @ \cup {l}]
          /\ Begin("backfill", l)
          /\ reruns' = [reruns EXCEPT ![l] = @ + 1]
    /\ UNCHANGED <<now, inbox, store, base, faults, commands, raced, suppressed, draftsBefore>>

\* Mutant: a failed run is not counted.
CountedOkOnly == IF run["backfill"].pc = "raise" THEN 0 ELSE 1

\* A run is counted whatever came of it.
Counted == 1

\* Nothing is marked.
BackfillDone ==
    /\ Ended("backfill")
    /\ backfill' = [backfill EXCEPT !.total = @ + Counted]
    /\ EndRun("backfill")
    /\ UNCHANGED <<now, inbox, store, base, faults, commands, history>>

BackfillEnd ==
    /\ backfill.on /\ backfill.boxes = {} /\ backfill.todo = {} /\ Idle("backfill")
    /\ backfill' = NoBackfill
    /\ UNCHANGED <<now, inbox, store, base, run, faults, commands, history>>

\* It is killed, or a listing or a lookup in the store raises, which nothing catches.
BackfillDies ==
    /\ backfill.on
    /\ Fault
    /\ backfill' = NoBackfill
    /\ EndRun("backfill")
    /\ UNCHANGED <<now, inbox, store, base, commands, history>>

(***************************************************************************)
(* replay.                                                                 *)
(***************************************************************************)
Replay(l) ==
    /\ l \in inbox /\ Idle("replay")
    /\ Command
    /\ Begin("replay", l)
    /\ reruns' = [reruns EXCEPT ![l] = @ + 1]
    /\ draftsBefore' = drafts[l]
    /\ UNCHANGED <<now, inbox, store, base, backfill, faults, raced, suppressed>>

\* It returns 0 or 1, or is killed.
ReplayEnds ==
    /\ ~Idle("replay")
    /\ \/ Ended("replay") /\ UNCHANGED faults
       \/ Fault
    /\ EndRun("replay")
    /\ draftsBefore' = 0
    /\ UNCHANGED <<now, inbox, store, base, backfill, commands, raced, reruns, suppressed>>

(***************************************************************************)
(* Gmail and the clock.                                                    *)
(***************************************************************************)
Deliver(l) ==
    /\ l \notin inbox
    /\ inbox' = inbox \cup {l}
    /\ UNCHANGED <<now, store, base, run, backfill, faults, commands, history>>

Tick ==
    /\ now < MaxTime
    /\ now' = now + 1
    /\ UNCHANGED <<inbox, store, base, run, backfill, faults, commands, history>>

Init ==
    /\ now = 0
    /\ inbox = {}
    /\ processed = [l \in Lead |-> "no"]
    /\ fingerprints = {}
    /\ inquiries = [l \in Lead |-> 0]
    /\ drafts = [l \in Lead |-> 0]
    /\ run = [p \in Process |-> NoRun]
    /\ backfill = NoBackfill
    /\ faults = 0 /\ commands = 0
    /\ raced = [l \in Lead |-> 0]
    /\ reruns = [l \in Lead |-> 0]
    /\ suppressed = {}
    /\ draftsBefore = 0

WatchStep == (\E l \in Lead : WatchTake(l)) \/ WatchDone \/ WatchDrops

BackfillStep ==
    \/ \E boxes \in {Mailbox} \cup {{b} : b \in Mailbox}, limit \in Limits : Backfill(boxes, limit)
    \/ \E b \in Mailbox : BackfillList(b)
    \/ \E l \in Lead : BackfillTake(l)
    \/ BackfillDone \/ BackfillEnd \/ BackfillDies

ReplayStep == (\E l \in Lead : Replay(l)) \/ ReplayEnds

Next ==
    \/ \E p \in Process : Pipeline(p) \/ StoreRaises(p) \/ CallRaises(p)
    \/ WatchStep \/ BackfillStep \/ ReplayStep
    \/ \E l \in Lead : Deliver(l)
    \/ Tick

Spec == Init /\ [][Next]_vars

-----------------------------------------------------------------------------
Pc == {"idle", "lookup", "find", "create", "draft", "record", "return", "raise"}

TypeOK ==
    /\ now \in 0..MaxTime
    /\ inbox \subseteq Lead
    /\ processed \in [Lead -> DB!ProcessedVal]
    /\ fingerprints \subseteq [mailbox : Mailbox, fingerprint : Fingerprint,
                               msg : Lead, at : 0..MaxTime]
    /\ inquiries \in [Lead -> Nat]
    /\ drafts \in [Lead -> Nat]
    /\ run \in [Process -> [pc : Pc, lead : Lead \cup {NoLead}]]
    /\ \A p \in Process : ~Idle(p) => run[p].lead \in Lead
    /\ backfill \in [on : BOOLEAN, boxes : SUBSET Mailbox, limit : Nat, todo : SUBSET Lead,
                     total : Nat, scope : SUBSET Lead, ran : SUBSET Lead]
    /\ ~backfill.on => backfill = NoBackfill /\ Idle("backfill")
    /\ faults \in 0..MaxFaults
    /\ commands \in 0..MaxCommands
    /\ raced \in [Lead -> Nat]
    /\ reruns \in [Lead -> Nat]
    /\ suppressed \subseteq Lead
    /\ draftsBefore \in Nat

\* A lead has more than one Inquiries row only for each time that two processes missed it at once
\* (airtable.py:292-313): no failure, kill or repetition by itself leads to a second one.
OneInquiryUnlessRaced == \A l \in Lead : inquiries[l] <= 1 + raced[l]

\* watch drafts a lead once: further drafts come from backfill, from replay, or from a run of watch
\* that ended without its row (poller.py:208-228, runner.py:95-107), even though a run that failed
\* may have written its draft.
WatchDraftsOnce == \A l \in Lead : drafts[l] <= 1 + reruns[l]

\* A lead is only suppressed when a copy of it in the same mailbox has a draft with a recipient
\* (process_lead.py:489, airtable.py:342-396).
SuppressedHasDraft ==
    \A l \in suppressed : \E k \in Answerable \ {l} :
        /\ MailboxOf[k] = MailboxOf[l] /\ FingerprintOf[k] = FingerprintOf[l]
        /\ drafts[k] > 0

\* A replay that ends well has drafted its lead anew, whatever the stores know of it and of its
\* copies (runner.py:111-121).
ReplayDrafts == run["replay"].pc = "return" => drafts[run["replay"].lead] > draftsBefore

\* backfill runs no more than its limit over all mailboxes, failures included (runner.py:84-105).
BackfillWithinLimit == Cardinality(backfill.ran) <= backfill.limit

\* A backfill that ends short of its limit has run every lead that lay in its window when it
\* started, or left it because watch had marked it (runner.py:86-107).
BackfillCovers ==
    [][BackfillEnd /\ backfill.total < backfill.limit =>
          \A l \in backfill.scope : Seen(l) \/ l \in backfill.ran]_vars

=============================================================================
