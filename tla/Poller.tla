------------------------------- MODULE Poller -------------------------------
(***************************************************************************)
(* run_forever and poll_once (workers/poller.py): the loop over the         *)
(* mailboxes, and the cursor that tells the next query where to start.     *)
(* harness/poller.py runs the same loop over its own store.                *)
(*                                                                         *)
(* The query's `after:` takes whole seconds, the cursor being floored to    *)
(* them, and nothing else is done with a date than to take a maximum, so    *)
(* all dates are whole seconds here.  A dispatch is one step that ends with *)
(* its row in processed_messages: what happens inside it, and what becomes  *)
(* of one that is cut short, is module ProcessLead's matter.               *)
(***************************************************************************)
EXTENDS MailboxCache

CONSTANTS Message,
          MailboxOf,    \* the mailbox a message is delivered to
          NoCursor,     \* no mailbox_state row
          NoMailbox,
          Lookback,     \* poller_bootstrap_lookback_seconds
          MaxDelay,     \* bound: how late Gmail may list a message
          MaxStops      \* bound: crashes and shutdown requests

ASSUME PollerAssumption ==
    /\ MailboxOf \in [Message -> Mailbox]
    /\ NoCursor \notin Int
    /\ NoMailbox \notin Mailbox
    /\ Lookback \in Nat
    /\ MaxDelay \in Nat
    /\ MaxStops \in Nat

VARIABLES
    inbox,          \* Gmail: the messages a query can return
    date,           \* Gmail: their internalDate
    cursor,         \* SQLite: mailbox_state
    processed,      \* SQLite: processed_messages
    box,            \* the mailbox being polled
    batch,          \* the messages of the current list left to look at
    maxSeen,        \* max_seen
    stop,           \* ShutdownFlag
    late,           \* history: messages listed in a later second than their internalDate
    since,          \* history: where the query of the current batch started
    low,            \* history: where the query started whose batch stored the first cursor
    polled,         \* history: when a mailbox was first polled
    unattributed,   \* history: messages processed in full with no agent record
    stops           \* history: crashes and shutdown requests

gmail == <<inbox, date, late>>
store == <<cursor, processed>>
poll == <<box, batch, maxSeen, since>>
pollHistory == <<low, polled, unattributed>>
discovery == <<enabled, cache, cacheHistory>>

vars == <<now, pc, todo, faults, discovery, gmail, store, poll, stop, stops, pollHistory>>

DB == INSTANCE PollerState

(***************************************************************************)
(* Gmail: a message becomes visible to queries, normally in the second of   *)
(* its internalDate.                                                       *)
(***************************************************************************)
Deliver(m) ==
    /\ m \notin inbox
    /\ inbox' = inbox \cup {m}
    /\ \E d \in {d \in 0..now : now - d <= MaxDelay} :
          /\ date' = [date EXCEPT ![m] = d]
          /\ late' = IF d < now THEN late \cup {m} ELSE late
    /\ UNCHANGED <<now, pc, todo, faults, discovery, store, poll, stop, stops, pollHistory>>

\* Mutant: the second of the cursor itself is left out.
ListedStrict(b, after) == {m \in inbox : MailboxOf[m] = b /\ date[m] > after}

\* LEAD_SENDER_QUERY after:<second>: list_messages pages through all of it.
Listed(b, after) == {m \in inbox : MailboxOf[m] = b /\ date[m] >= after}

(***************************************************************************)
(* The loop of run_forever.                                                *)
(***************************************************************************)
NextMailbox ==
    /\ pc = "next" /\ ~stop
    /\ \/ \E b \in todo :
             /\ box' = b
             /\ todo' = todo \ {b}
             /\ pc' = "list"
       \/ /\ todo = {}
          /\ pc' = "wait"
          /\ UNCHANGED <<box, todo>>
    /\ UNCHANGED <<now, faults, discovery, gmail, store, batch, maxSeen, since, stop, stops,
                   pollHistory>>

\* Mutant: the flag is cleared when the wait is over.
WakeClearing ==
    /\ pc = "wait"
    /\ pc' = "get"
    /\ stop' = FALSE
    /\ UNCHANGED <<now, todo, faults, discovery, gmail, store, poll, stops, pollHistory>>

Wake ==
    /\ pc = "wait" /\ ~stop
    /\ pc' = "get"
    /\ UNCHANGED <<now, todo, faults, discovery, gmail, store, poll, stop, stops, pollHistory>>

\* What dies with the process.
Down ==
    /\ pc' = "down"
    /\ cached' = NoList /\ fetchedAt' = 0 /\ answer' = {} /\ todo' = {}
    /\ box' = NoMailbox /\ batch' = {} /\ maxSeen' = 0 /\ since' = 0
    /\ hup' = FALSE
    /\ UNCHANGED <<now, faults, enabled, signals, gmail, store, pollHistory>>

\* The flag is looked at between mailboxes and between iterations: a batch is always finished.
Exit ==
    /\ pc \in {"next", "wait"} /\ stop
    /\ Down
    /\ UNCHANGED <<stop, stops>>

(***************************************************************************)
(* poll_once.                                                              *)
(***************************************************************************)
After(b) == IF cursor[b] = NoCursor THEN now - Lookback ELSE cursor[b]

\* poll_once returns or raises: its locals are gone.
EndPoll ==
    /\ pc' = "next"
    /\ box' = NoMailbox /\ batch' = {} /\ maxSeen' = 0 /\ since' = 0

\* Mutant: max_seen starts from the stored cursor, which a new mailbox does not have.
ListMessagesRaw ==
    /\ pc = "list"
    /\ \/ /\ Listed(box, After(box)) = {}
          /\ EndPoll
       \/ /\ Listed(box, After(box)) # {}
          /\ batch' = Listed(box, After(box))
          /\ since' = After(box)
          /\ maxSeen' = cursor[box]
          /\ pc' = "batch"
          /\ UNCHANGED box
    /\ polled' = IF polled[box] = NoCursor THEN [polled EXCEPT ![box] = now] ELSE polled
    /\ UNCHANGED <<now, todo, faults, discovery, gmail, store, stop, stops, low, unattributed>>

\* An empty list ends the poll, and leaves the cursor as it was.
ListMessages ==
    /\ pc = "list"
    /\ LET after == After(box) IN
          \/ /\ Listed(box, after) = {}
             /\ EndPoll
          \/ /\ Listed(box, after) # {}
             /\ batch' = Listed(box, after)
             /\ since' = after
             /\ maxSeen' = after
             /\ pc' = "batch"
             /\ UNCHANGED box
    /\ polled' = IF polled[box] = NoCursor THEN [polled EXCEPT ![box] = now] ELSE polled
    /\ UNCHANGED <<now, todo, faults, discovery, gmail, store, stop, stops, low, unattributed>>

\* Dispatched unless it has a row.  The dispatch looks the agent of the mailbox up, and goes on
\* without one.
DispatchIfNew(m) ==
    \/ /\ DB!WasProcessed(processed, m)
       /\ UNCHANGED <<processed, unattributed>>
    \/ /\ ~DB!WasProcessed(processed, m)
       /\ processed' = DB!MarkProcessed(processed, m, "ok")
       /\ unattributed' = IF box \in enabled THEN unattributed ELSE unattributed \cup {m}
    \/ /\ ~DB!WasProcessed(processed, m)
       /\ processed' = DB!MarkProcessed(processed, m, "error")
       /\ UNCHANGED unattributed

\* Mutant: the cursor is stored with every message.
TakeMessageSaving(m) ==
    /\ pc = "batch" /\ m \in batch
    /\ batch' = batch \ {m}
    /\ maxSeen' = IF date[m] > maxSeen THEN date[m] ELSE maxSeen
    /\ cursor' = [cursor EXCEPT ![box] = maxSeen']
    /\ low' = IF cursor[box] = NoCursor THEN [low EXCEPT ![box] = since] ELSE low
    /\ DispatchIfNew(m)
    /\ UNCHANGED <<now, pc, todo, faults, discovery, gmail, box, since, stop, stops, polled>>

\* One message of the batch.
TakeMessage(m) ==
    /\ pc = "batch" /\ m \in batch
    /\ batch' = batch \ {m}
    /\ maxSeen' = IF date[m] > maxSeen THEN date[m] ELSE maxSeen
    /\ DispatchIfNew(m)
    /\ UNCHANGED <<now, pc, todo, faults, discovery, gmail, cursor, box, since, stop, stops,
                   low, polled>>

\* set_last_seen, once the whole batch has been gone through.
SetLastSeen ==
    /\ pc = "batch" /\ batch = {}
    /\ cursor' = [cursor EXCEPT ![box] = maxSeen]
    /\ low' = IF cursor[box] = NoCursor THEN [low EXCEPT ![box] = since] ELSE low
    /\ EndPoll
    /\ UNCHANGED <<now, todo, faults, discovery, gmail, processed, stop, stops,
                   polled, unattributed>>

\* list_messages, a statement on the store or mark_processed raises: the rest of the batch is
\* dropped, and the loop goes on to the next mailbox.
PollFails ==
    /\ pc \in {"list", "batch"}
    /\ Fault
    /\ EndPoll
    /\ UNCHANGED <<now, todo, discovery, gmail, store, stop, stops, pollHistory>>

(***************************************************************************)
(* The process: SIGTERM sets the flag, a crash does not wait for the loop,  *)
(* and Render restarts what has ended.                                     *)
(***************************************************************************)
RequestShutdown ==
    /\ pc # "down" /\ ~stop
    /\ stops < MaxStops /\ stops' = stops + 1
    /\ stop' = TRUE
    /\ UNCHANGED <<now, pc, todo, faults, discovery, gmail, store, poll, pollHistory>>

Crash ==
    /\ pc # "down"
    /\ stops < MaxStops /\ stops' = stops + 1
    /\ Down
    /\ UNCHANGED stop

Restart ==
    /\ pc = "down"
    /\ pc' = "get"
    /\ stop' = FALSE
    /\ UNCHANGED <<now, todo, faults, discovery, gmail, store, poll, stops, pollHistory>>

Tick ==
    /\ now < MaxTime
    /\ now' = now + 1
    /\ UNCHANGED <<pc, todo, faults, discovery, gmail, store, poll, stop, stops, pollHistory>>

-----------------------------------------------------------------------------
Pc == {"get", "fetch", "store", "copy", "next", "list", "batch", "wait", "down"}

TypeOK ==
    /\ CacheTypeOK
    /\ pc \in Pc
    /\ inbox \subseteq Message
    /\ date \in [Message -> 0..MaxTime]
    /\ cursor \in [Mailbox -> Int \cup {NoCursor}]
    /\ processed \in [Message -> DB!ProcessedVal]
    /\ box \in Mailbox \cup {NoMailbox}
    /\ pc \in {"list", "batch"} => box \in Mailbox
    /\ batch \subseteq inbox
    /\ maxSeen \in Int
    /\ since \in Int
    /\ stop \in BOOLEAN
    /\ late \subseteq inbox
    /\ low \in [Mailbox -> Int]
    /\ polled \in [Mailbox -> Nat \cup {NoCursor}]
    /\ unattributed \subseteq Message
    /\ stops \in 0..MaxStops

Init ==
    /\ CacheInit
    /\ inbox = {}
    /\ date = [m \in Message |-> 0]
    /\ cursor = [b \in Mailbox |-> NoCursor]
    /\ processed = [m \in Message |-> "no"]
    /\ box = NoMailbox
    /\ batch = {}
    /\ maxSeen = 0
    /\ since = 0
    /\ stop = FALSE
    /\ late = {}
    /\ low = [b \in Mailbox |-> 0]
    /\ polled = [b \in Mailbox |-> NoCursor]
    /\ unattributed = {}
    /\ stops = 0

PollStep ==
    \/ NextMailbox \/ Wake \/ Exit \/ ListMessages \/ SetLastSeen
    \/ \E m \in Message : TakeMessage(m)

Undisturbed == UNCHANGED <<gmail, store, poll, stop, stops, pollHistory>>

LoopStep == PollStep \/ Restart \/ (CacheStep /\ Undisturbed)

Environment ==
    \/ \E m \in Message : Deliver(m)
    \/ PollFails \/ RequestShutdown \/ Crash \/ Tick
    \/ (FetchFails \/ Sighup \/ EditUsers) /\ Undisturbed

Next == LoopStep \/ Environment

Spec == Init /\ [][Next]_vars

\* The loop runs for as long as the process is up, and an ended process is restarted.
FairSpec == Spec /\ WF_vars(LoopStep)

-----------------------------------------------------------------------------
\* No message in time is lost behind the cursor: every message that Gmail listed in the second of
\* its date, and that the mailbox's next query will not return, has been processed, whatever
\* failed, crashed or arrived on the way (poller.py:159-195: the floor to the second, the cursor
\* stored after the whole batch).  Only what predates the query that led to the first cursor is
\* left out.
NothingLostBehindCursor ==
    \A m \in inbox \ late :
        LET b == MailboxOf[m] IN
        cursor[b] # NoCursor /\ date[m] >= low[b] =>
            m \in Listed(b, cursor[b]) \/ DB!WasProcessed(processed, m)

\* A list that run_forever polls by was asked of Airtable after the last SIGHUP, unless that one
\* came between Airtable's answer and the store (poller.py:105-113).
SighupTakesEffect ==
    [][pc = "copy" /\ pc' = "next" /\ cached # NoList => ~hup]_vars

\* A shutdown request ends the process, whatever it is doing (poller.py:252, 277, 289).
ShutdownEnds == stop ~> pc = "down"

\* The next query of the message's mailbox will return it, and nothing says that the cursor is about
\* to pass it: it was in time, or no batch of that mailbox is being gone through.
Due(m) ==
    LET b == MailboxOf[m] IN
    /\ cursor[b] # NoCursor /\ m \in Listed(b, cursor[b])
    /\ m \in late => ~(pc = "batch" /\ box = b)

\* A message at or in front of its mailbox's cursor is processed in the end, a late one too, unless
\* it came late during the very batch that moves the cursor over it (poller.py:163-197), or the
\* mailbox's user is disabled: polls that fail, crashes and restarts only delay it.
EveryLeadTaken ==
    \A m \in Message :
        Due(m) ~> DB!WasProcessed(processed, m) \/ MailboxOf[m] \notin enabled

-----------------------------------------------------------------------------
(***************************************************************************)
(* What the documents say, and the code does not do.                       *)
(***************************************************************************)

\* "On first run for a mailbox, set last_seen = now - 60s" (TESTING_HARNESS_PLAN.md:129), and
\* "Subsequent calls resume from the persisted cursor" (harness/poller.py:184-186): no query but
\* the first starts after a message that arrived since the mailbox was first polled.
SubsequentCallsResume ==
    [][\A m \in inbox \ late :
          /\ ListMessages /\ MailboxOf[m] = box
          /\ polled[box] # NoCursor /\ date[m] >= polled[box]
          => date[m] >= After(box) \/ DB!WasProcessed(processed, m)]_vars

\* "Agent not found for recipient: Do not send" (PLAN.md:359).
RepliesAttributed == unattributed = {}

=============================================================================
