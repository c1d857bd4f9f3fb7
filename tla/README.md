# Verification of pear-autoreply

`pear-autoreply` watches the mailboxes of a brokerage for leads (StreetEasy and
Zillow notifications), records each inquiry in Airtable, Supabase and Slack,
and schedules a reply that a background worker sends through Gmail. This
directory holds TLA+ models of that program, the TLC runs that check them and
the proofs, checked by TLAPS, of what holds for every value of their constants.
Paths below are relative to `src/` of this verification tree, so the Python
package is under `src/src/autoreplies/`, shortened to `autoreplies/`.

## 1. The system

### Components, their state and their operations

| component | code | state | operations |
|---|---|---|---|
| poller loop | `workers/poller.py` `run_forever`, `poll_once`, `ShutdownFlag` | the shutdown flag; nothing else survives an iteration | discover mailboxes, poll each, dispatch each new message, move the cursor, sleep |
| mailbox cache | `workers/poller.py` `MailboxCache`, `_sighup_handler` | `_cached`, `_fetched_at` | `get`, `invalidate` (in a signal handler) |
| poller store | `workers/poller_state.py` | SQLite: `mailbox_state` (cursor), `processed_messages`, `replied_fingerprints`, `replied_persons` | one committed statement per method |
| lead pipeline | `pipeline/process_lead.py` | `JobState`, in memory only: `_load_state` returns a fresh one and `_save_state` does nothing | phase A (dedup, person window, inquiry, reply, records), phase B (Supabase), phase C (Slack) |
| production strategies | `pipeline/strategies.py` | none | `LiveSend.send_reply` computes a send time and enqueues, `LiveSupabase`, `LiveSlack` |
| RQ queue and workers | `workers/worker.py`, Redis (outside `src/`) | the jobs | run a job once; no `Retry` is passed, so a failed job stays failed |
| send job | `workers/send_job.py` | none | Gmail send, Airtable write-back, Supabase write-back |
| Airtable client | `services/airtable.py` | Airtable `Inquiries`, `Users`, `Apartments`, ...; in the client `_apt_split_cache` | find, create, update an inquiry; list mailboxes; look up agent, user and apartment |
| Supabase client | `services/supabase.py` | table `inquiries` | upsert, PATCH, resolve a person |
| Gmail, Slack, LLM clients | `services/*.py` | remote | list, fetch, send; post; fill a template |
| parsers, addresses, templates, routing, send time | `parsers/`, `services/address.py`, `services/templates.py`, `services/llm.py`, `pipeline/reply_route.py`, `utils/humanization.py` | none (pure, but for what the model answers) | an email in; a lead, an apartment, a text, a route and a send time out |
| harness | `harness/` | its own SQLite, a test base with a Drafts table | watch, backfill, replay; diff and stats, which only read |
| web app | `main.py`, `routes/`, `ratelimit.py` | counters of the rate limiter | health check; the admin endpoints answer 501 |

### How they interact

In production there are three kinds of process. The **poller** is a singleton:
it owns the SQLite file, and calls `process_lead` synchronously, one message at
a time. The **RQ workers** (two of them in `render.yaml`) share with it only
Redis, Airtable, Supabase and Gmail. The **web app** shares nothing that
changes; its rate limiter is modelled by itself. There is no transaction across
any two stores: the only coordination is the order of the calls, the primary key
of `processed_messages`, the primary key of Supabase's table, and the field
`gmail_message_id_autoreply` of Airtable, which is the lookup key of an inquiry
at first, and the id of the sent reply later.

The **harness** runs the same pipeline against a test base: `watch` is a second
poller, and `backfill` and `replay` are commands that people start beside it.
They share the test base without any coordination; `watch` and `backfill` also
share an SQLite file, which `replay` does not open.

People edit two Airtable tables under all of these processes: `Users`, which
decides which mailboxes are polled, in whose name a reply goes out and what it
says, and `Apartments`.

### What is hard

* The poller can die, or any call can raise (with or without having taken
  effect), between any two calls of a run; the next run of the message starts
  without any memory of the first.
* Workers and poller write the same two rows (Airtable, Supabase) of an inquiry
  in any order; the worker may reach Supabase before the poller has.
* Both dedup windows are read at the beginning of a run and written at its end,
  with the clock running, and both fail open.
* The cursor of a mailbox is a maximum over a batch, is stored once after the
  batch and is floored to the second in the query.
* The SIGHUP handler runs inside the loop's own thread, between any two steps of
  the function whose state it resets; SIGTERM only sets a flag.
* The harness's three commands run the same lead at the same time, and two of
  them leave no mark.
* The client's cache of parsed addresses lives as long as the process, while the
  rows it was read from are edited.
* What the language model returns is anything at all.
* Working hours are computed on a wall clock that jumps twice a year.

`PROJECT.json` lists every one of these at its line under `hazards`, with the
property that covers it.

### What makes each part correct

* **pipeline**: a lead gets one reply; a lead that needs a reply and is marked
  done got one, or is a copy of a lead that did; no two copies are both
  answered within the window; the repeat template goes only to a repeat; the
  phases run in order; every lead is eventually settled.
* **stores**: what Airtable and Supabase say was sent was sent, in answer to
  that inquiry; a reply recorded is never erased; one row per inquiry as long as
  its key has not been overwritten.
* **the reply**: it says no more than its template and what the prospect wrote;
  it goes to a prospect, in the name of the mailbox's agent, about an apartment
  the address fits; a lead that comes in outside the working hours is held until
  they begin; a lead is skipped only for one of two reasons.
* **poller loop**: no message is lost behind the cursor; every message in front
  of it is taken, unless it comes late during the batch that moves the cursor
  over it; a shutdown request ends the process.
* **mailbox cache**: after a SIGHUP the loop polls by a list asked for later.
* **harness**: watch drafts a lead once; replay always drafts; backfill keeps to
  its limit and, below it, covers its window; one Inquiries row unless two
  processes raced for it.
* **rate limiter**: the limit per window, no refusal without cause, a bounded
  past.

## 2. The modules

| module | models | lines of `src/` |
|---|---|---|
| `PollerState` | the queries of the SQLite store, as operators on its tables | `workers/poller_state.py` 20-206 |
| `Services` | Airtable, Supabase, Slack, Redis and Gmail as the two processes see them | `services/airtable.py` 242-340, `services/supabase.py` 31-192, `pipeline/strategies.py` 156-167 |
| `SendReplyJob` | one send job on a worker | `workers/send_job.py` 23-112 |
| `ProcessLead` | one run of `process_lead` after the other, with the poller's bookkeeping around it | `pipeline/process_lead.py` 75-639, `workers/poller.py` 171-193 |
| `AutoReply` | the composition: one poller, `NumWorkers` workers, and the properties of the whole | |
| `LeadOutcome` | the abstract specification: what becomes of a lead, once and for good | |
| `MailboxCache` | `MailboxCache.get` in the steps a SIGHUP can fall between | `workers/poller.py` 79-113 |
| `Poller` | `run_forever` and `poll_once` over the cache, with Gmail, crashes and restarts | `workers/poller.py` 147-294 |
| `Harness` | watch, backfill and replay over one store and one test base | `harness/runner.py`, `harness/pipeline.py`, `harness/poller.py`, `harness/state.py` |
| `Users` | the queries on the Users table | `services/airtable.py` 65-200 |
| `LeadEmail` | what an email says: the gate, the fields of a lead | `parsers/base.py`, `parsers/streeteasy.py`, `parsers/zillow.py` |
| `Apartments` | the match by address, with its cache | `services/airtable.py` 203-240, `services/address.py` |
| `ReplyText` | the choice of a template, its filling and the checks on the text | `services/templates.py`, `services/llm.py` |
| `SendTime` | `compute_send_at` over a zone with a change of its clocks | `utils/humanization.py` 14-52 |
| `LeadReply` | from the email to the queue, over tables that people edit | `pipeline/process_lead.py` 248-461, 604-624, `pipeline/reply_route.py` |
| `RateLimiter` | the fixed-window limiter of the web app, its clock and its restarts | `ratelimit.py` 66-166 |
| `MCAutoReply`, `MCPoller`, `MCHarness`, `MCLeadReply`, `MCRateLimiter` | the instances TLC checks | |
| `AutoReplyProofs`, `OutcomeProofs`, `RecordProofs`, `RepeatProofs` | the theorems about `AutoReply` | |
| `PollerProofs`, `HarnessProofs`, `LeadReplyProofs`, `RateLimiterProofs` | the theorems about the module each is named for | |

`AutoReply` extends `ProcessLead` and `SendReplyJob`, which both extend
`Services`. `ProcessLead`, `Poller` and `Harness` use `PollerState` as `DB!...`.
`Poller` extends `MailboxCache`. `LeadReply` extends `LeadEmail` (with
`ReplyText`, `Users` and `Apartments` behind it) and `SendTime`.

### State and code

* A *lead* (`Lead`) of `AutoReply` is a Gmail message id. Everything the code
  computes from the message alone is a constant: the mailbox, the fingerprint,
  the person it resolves to, whether it is addressed to the mailbox it lies in
  (`Addressed`, process_lead.py 266-287) and whether it has a recipient and a
  text (`Answerable`). How those come about is `LeadReply`'s matter.
* `call` is the `JobState` and the locals of the run in progress, with `pc`
  naming the next call to a service. It is set by `Dispatch`, gone with
  `Interrupted`, and ends in `MarkProcessed`. One action per call: the dedup
  lookup (`Fetch`), the person lookup (`CheckPerson`), the two halves of
  `find_or_create_inquiry` (`FindOrCreate`, `CreateInquiry`), the enqueue
  (`SendReply`), the two records, the upsert, the post.
* A call that raises is an action of its own next to the one that succeeds.
  Where the code catches it, it goes on as the code does (`FetchFailsOpen`,
  `CheckPersonFailsOpen`, `RecordFails`); elsewhere it ends the run
  (`CallRaises`), and a write may have taken effect first (`CallRaisesLate`).
* `jobs[j].status` says how far job j has come: `sent` is "Gmail has accepted
  it", `written` is "Airtable has been updated". `JobFails` and `JobFailsLate`
  are an exception, or the death of the worker, before and after the effect.
* `inquiries[i].key` is the field `gmail_message_id_autoreply`: 0 while it holds
  the lead's own id, j once `update_inquiry_autoreply_body` has put the id of
  job j's reply there. `reply` is the body column.
* In `Poller`, `pc` is the place in `run_forever`; `Deliver` is Gmail, which may
  list a message up to `MaxDelay` seconds after its `internalDate`.
* In `Harness`, `run[p]` is the run of `process_lead` in progress in process p
  (`watch`, `backfill` or `replay`), one action per call as in `ProcessLead`;
  `backfill` is the command in progress (its mailboxes left, its list, its
  count), `inquiries` and `drafts` count a lead's rows in the test base.
  `UsesStore` is what distinguishes replay, which is given `NoopDedup`.
* In `LeadReply`, `work` is the call of `process_lead` in progress: the email,
  the apartment and how it was found, the user, the template, the text. `splits`
  is `_apt_split_cache`; `held` is history: the addresses a row has had since
  the process, and with it the cache, started. An email (`Message`) is what the
  parsers' patterns find in it: a sender, a Reply-To, the kind of its subject,
  and per part of it the addresses, numbers and listings. A text is its slots,
  links and braces.
* In `RateLimiter`, `store` is `_store` and a hit is one step: `dispatch` is a
  coroutine and `hit` has no await, so the web process never runs two at once.
  `FirstOfWindow`, `Another` and `Refuse` are its three returns, each with the
  collection of old entries that may precede it.
* The *history* variables (`failedOpen`, `suppressed`, `interruptions`, `hup`,
  `late`, `low`, `polled`, `unattributed`, `raced`, `reruns`, `draftsBefore`,
  `held`, ...) are written, and read only by properties and bounds.

### Abstractions that matter

* A scheduled job may start at any time: `AutoReply` does not measure the delay
  of `compute_send_at`, a minute to a night. This allows every order of jobs and
  runs the delays allow, and more. `SendTime` computes the delay itself.
* Intervals and the pauses between mailboxes are not measured either; time
  passes by `Tick`, between any two steps.
* Times in `Poller` are whole seconds. The query takes whole seconds, and a
  date is otherwise only compared by `max`.
* In `Poller` a dispatch is one step that ends with its row; inside it, and for
  one that is cut short, the account is `ProcessLead`'s.
* Rows of the two append-only tables are sets: no query counts them.
* `Harness` leaves the cursor to `Poller`: watch comes by any message that has
  no row, in any order, and backfill's window holds all that was delivered.
* The model's answer (`Fillings`) is any body at all that passes the checks of
  `llm.py`, or the literal fill. `Similarity` is any function of two streets.

## 3. The runs

| run | specification | what it asks |
|---|---|---|
| `auto_reply` | `Spec` | deduplication, one job per lead, one reply per content, no silent drop, repeat inquiries |
| `auto_reply_crash` | `FairSpec` | the stores, with two workers and a poller that dies; what a death can repeat; every lead is settled and answered; `LeadOutcome` is implemented |
| `poller` | `FairSpec` | the cursor, the SIGHUP, shutdown, and every message in front of the cursor |
| `harness` | `Spec` | inquiries and drafts of watch, backfill and replay side by side |
| `lead_reply` | `Spec` | the apartment, the agent, the text, the route and the time of a reply |
| `rate_limiter` | `Spec` | the limit, refusals, the size of the table |
| `finding_*` | `Spec` | six statements of the documents and comments that the code does not keep |

### Bounds, and why they are enough

* `auto_reply`: two copies of one inquiry and a third message by the same
  person, all in one mailbox, so that a copy, a repeat and both at once occur;
  windows of one tick and a clock of three, so that a lookup can fall before,
  at and after the end of a window; one failing call, anywhere
  (`MaxFaults = 1`), which is what opens the windows. No run is cut short here:
  that is what `OneJobPerLead` assumes, and a copy lost to a crash is the other
  run's case.
* `auto_reply_crash`: a lead to be answered, a copy of it without a recipient and
  a mirror of another mailbox's mail, so that a suppression, a run that answers
  nobody and a mirror occur; two workers, so that two jobs of one inquiry run at
  once after a run was cut short; one death and one failing call, in either
  order and anywhere; the clock stands still and both windows are a point. What
  deaths do to windows that pass, and to two copies that are both answered, is
  in the theorems only. No symmetry is used, as liveness is checked.
* `poller`: three messages in one mailbox (the cursors of different mailboxes
  share nothing), any of them late by up to a second, a clock of two seconds, a
  lookback of one; one event (`MaxEvents`: a call that raises, a SIGHUP or an
  edit of Users) and one crash or shutdown (`MaxStops`). Three messages are what
  the cursor takes: one to set it, one to move it, and one that comes late while
  that batch is gone through. With a lookback as long as the clock nothing
  predates the query that leads to the first cursor, so that the exception of
  `NothingLostBehindCursor` is needed by its theorem only. No symmetry here
  either.
* `harness`: two copies of one inquiry in one mailbox, the second without a
  recipient, so that suppression, a skipped draft and a replayed copy occur; a
  window of zero ticks and a clock of one; two commands, so that a backfill and
  a replay run beside watch; limits of one and two, below and at the number of
  leads; one failing call or death.
* `lead_reply`: five emails, one for each way to or past the parsers (an inquiry
  with everything, one without a Reply-To, a "New Message", StreetEasy's own
  mail, Zillow's); two apartments in one house with three possible addresses and
  a near spelling of a street; one row of Users with three contents, two
  calls, two edits, restarts or failing calls; six instants of the night the
  clocks go back, in quarter hours, at both ends of the working hours and in the
  hour that comes twice.
* `rate_limiter`: four keys in a table of two, so that the collection runs with
  one and with two windows in the table and the table outgrows its cap; limits
  of 2 and of 0, two windows, one set-back or restart.

`MaxFaults`, `MaxInterruptions`, `MaxTime`, `MaxEvents`, `MaxStops`, `MaxDelay`,
`MaxCommands`, `MaxCalls`, `MaxWindow` and `MaxResets` are the only bounds, and
each is a guard of the actions it bounds. Deadlock is not checked: when the
clock has stopped, all leads are marked and all jobs have ended, an instance is
at rest, as the system is.

### Fairness

`AutoReply`: weak fairness of the poller's own steps together (`run_forever`
loops as long as the process lives, and Render restarts it) and of the workers'
steps together. `Poller`: weak fairness of the steps of the loop, the restart
included. No fairness is given to failures, deaths, signals, deliveries, edits
or the clock, and none to a single mailbox or message: the loop goes through
all of them by itself. `Harness` and `LeadReply` state no liveness: a command
ends when a person's patience does, and a call of `process_lead` that does not
return is the pipeline's hazard, checked in `AutoReply`.

### What the properties say

* `DedupWindowHolds`, `SuppressedHasReply`: the dedup window is exact (two
  recorded replies to the same content in one mailbox are more than the window
  apart, unless a lookup failed open) and never suppresses a lead without a
  reply to a copy having been enqueued. *Enqueued* is all it can say: if the job
  then fails, nobody is answered, see the hazard at `strategies.py` 156.
* `OneJobPerLead`: the row in `processed_messages`, written whether the
  dispatch succeeds or raises, is what keeps a lead from a second reply; it
  does so as long as no run is cut short before it.
* `RepeatsPerInterruption`: what is left of exactly-once when runs are cut short
  (finding 1). All the replies beyond the first to their message together, and
  the posts beyond the first of any one message, are at most the deaths there
  have been: a death costs one message one repetition, and no failing call
  costs any.
* `OneReplyPerContent`: `DedupWindowHolds` speaks of recorded replies. This one
  speaks of all replies: while nothing has failed or died, two copies of an
  inquiry that are both answered are recorded more than the window apart, so
  that no way to a reply, a repeat reply's neither, goes around the record.
* `NoSilentDrop`: no path through phase A returns without a reply, a
  suppression or the absence of anybody to answer.
* `RepeatHasPredecessor`, `RepeatIsSeen`: the person window in mode `enforce`.
* `PhaseOrder`, `ReplyRecordsAreTrue`, `SecondInquiryAfterWriteback`,
  `ReplyNeverErased`: the stores, whichever calls raise and whichever worker
  comes first. Airtable and Supabase may name *different* replies when two jobs
  race, but each was sent and answers that inquiry.
* `ImplementsLeadOutcome`: the refinement. `OutcomeOf` maps the detailed state
  to one of `new, replied, suppressed, skipped, failed`, and every step of
  `AutoReply` is a step of `LeadOutcome` or a stutter: an outcome is final,
  however often the poller dies.
* `EveryLeadSettled`, `EveryLeadAnswered`: liveness.
* `NothingLostBehindCursor`: what the next query will not return has been
  processed, for every message listed in the second of its date, except what
  predates the query that led to the first cursor, and of what Gmail listed late.
* `EveryLeadTaken`: what the next query will return is processed in the end,
  over failures, crashes and restarts, late messages included. Excepted is the
  one case in which the cursor may pass a message that has no row: Gmail lists
  it late while a batch of its mailbox is gone through, and `SetLastSeen` at the
  end of that batch moves the cursor over it. Such a message is lost, in the
  model as in the code (the hazard at `workers/poller.py` 172). The documents ask
  for no message to be skipped over a redeploy only (RENDER_MIGRATION.md 231), and
  that holds.
* `SighupTakesEffect`: whenever the loop takes the list over, no SIGHUP has come
  since Airtable was asked, except one between Airtable's answer and the store,
  which the code loses. `ShutdownEnds`: SIGTERM ends the process from anywhere.
* `OneInquiryUnlessRaced`, `WatchDraftsOnce`: the harness's rows are bounded by
  what can be blamed for them: an Inquiries row beyond the first by a race
  between two processes, a draft beyond the first by a command or by a run of
  watch that was not marked. A failed run of watch may have written its draft,
  and is marked all the same. `SuppressedHasDraft` and `ReplayDrafts` are the
  two halves of what `NoopDedup` is for: watch and backfill suppress copies only
  of what was drafted, and replay drafts always.
* `BackfillWithinLimit`, `BackfillCovers`: the limit counts over all mailboxes,
  failures included, and messages skipped because watch marked them do not use
  it up.
* `ReplySaysTemplate`: whatever the model answers, a reply has no link but its
  template's and those the prospect wrote into a slot, and no braces but the
  prospect's, unless the template itself is malformed. The literal fill is not
  checked again after the model's answer was refused, which is why both
  exceptions are there.
* `SkippedForAReason`: a lead is skipped exactly when there is no Reply-To or a
  slot without a default has no value, and then nothing is queued.
* `ProspectsAnswered`: only a prospect's address is answered, unless the subject
  alone makes the message a lead: then the Reply-To is not looked at. The denylist
  of relay domains that PLAN.md 270-272 puts before the fallback to the parsed
  address does not exist in `resolve_reply_destination` (reply_route.py 41), so
  what keeps a reply from a platform's own address is the gate of the parsers, and
  under such a subject nothing does. The exception states that; it has no run of
  its own.
* `AgentForEveryMailbox`: the two formulas on `Users` agree in any contents of the
  table, in production and in the harness. A disabled user only becomes a
  mailbox without an agent through the cached list (finding 4), and that takes an
  edit (`AttributedUnlessEditedCorrect`).
* `MatchedAddressWasTrue`, `UnmatchedOnlyIfEdited`: what the cache of addresses
  still guarantees although it is never refreshed: a match is to an address that
  row has had since the process started, and a row that nobody has edited since
  is not missed.
* `HeldUntilHours`: a lead that comes in outside the working hours is held until
  they next begin and for its jitter then, also in the night that has an hour
  twice; one that comes in within them waits for its jitter only. That is what
  the docstring of `compute_send_at` says, and it lets a reply leave the hours by
  its jitter, which PLAN.md does not (finding 6).
* `LimitPerWindow`, `RefusalIsEarned`, `OnlyOneWindowOutgrows`: the rate limiter
  admits no more than the limit per window (one allowance more for each set-back
  of the clock and each restart; and one request at least, as a limit of 0 is
  only looked at from the second request on), refuses nobody for others or for
  an earlier window, and outgrows `max_keys` by a single window only. Nothing
  bounds that window: "predictably bounded memory" (ratelimit.py 19-20) holds of
  old windows, not of the clients of one.

Every property has a mutant: a definition in the same module, marked as such,
that changes the modelled code as a plausible bug would, under which TLC finds
the property violated.

### Findings

1. `SideEffectsOnce`. The docstring of `process_lead` promises exactly-once side
   effects over repeated calls; the state is never persisted, so a poller that
   dies between `enqueue_at` and `mark_processed` enqueues a second reply.
2. `OneInquiryPerMessage`. The backstop against duplicate inquiries looks up the
   very field that the send job overwrites with the id of the reply.
3. `SubsequentCallsResume`. A mailbox whose first poll is empty stores no
   cursor, so the next poll starts from its own now minus the lookback, which is
   not longer than the pause; a message between the two is never listed.
4. `RepliesAttributed`. PLAN.md says not to send when no agent is found for the
   recipient; the code warns and goes on. The cached mailbox list, six hours old
   at most, makes the case reachable.
5. `MatchIsCurrent`. A comment on the cache of apartment addresses says it needs
   no invalidation because the client is short-lived per lead (airtable.py
   55-57); poller and harness build one client per process (workers/poller.py
   333-336, harness/pipeline.py 182), so a lead is matched by an address that
   has been corrected since.
6. `QuietHoursKept`. PLAN.md (266, 370) holds a reply whose *send* time falls
   into 23:00-07:00 until the morning; `compute_send_at` looks at the time the
   lead is handled (humanization.py 39-42), so that one handled just before 23:00
   goes out after it, by its jitter of five minutes at most. (In the run's
   quarter hours: handled at 22:45, sent at 23:00.) That the mornings begin at
   08:00 and not at 07:00 is configuration (config.py 65).

## 4. The proofs

Assumed are the types of the constants, and one fact about the night the clocks
change. The types are `ServicesAssumption` and
`ProcessLeadAssumption` (AutoReply), `CacheAssumption` and `PollerAssumption`
(Poller), `HarnessAssumption`, `RateLimiterAssumption` (finitely many clients and
prefixes), and for `LeadReply` `LeadReplyAssumption`, `SendTimeAssumption`,
`ReplyTextAssumption` (the fallback templates are not escaped) and
`ApartmentsAssumption` (similarities lie between 0 and 100). The night is
`NightAssumption` (SendTime), which only `HeldUntilHoursCorrect` uses: the hours
begin before they end; the clock reads a time before one and the same start of
the hours just before and just after its change; it goes back by an hour at
most; and the jitter of a start is over by midnight. It holds of New York, whose
clocks change at two in the morning, with the hours and jitters of config.py
65-71; TLC evaluates it, as it does every assumption, in the runs of the module
it belongs to. Nothing is assumed of the number of leads, mailboxes, workers,
commands, apartments or emails, or of any bound.

| module | theorem | states | invariant |
|---|---|---|---|
| `AutoReplyProofs` | `TypeCorrectness` | `TypeOK` | itself |
| | `OneJobPerLeadCorrect` | `OneJobPerLead` | `JobInv` |
| | `DedupWindowCorrect` | `DedupWindowHolds` | `DedupInv` |
| | `RepeatsPerInterruptionCorrect` | `RepeatsPerInterruption` | `CountInv`, with `JobInv` |
| `OutcomeProofs` | `NoSilentDropCorrect` | `NoSilentDrop` | `OutcomeInv`, with `DedupInv` |
| | `SuppressedHasReplyCorrect` | `SuppressedHasReply` | the same |
| | `OneReplyPerContentCorrect` | `OneReplyPerContent` | `ContentInv`, with `DedupInv` |
| | `ImplementsLeadOutcomeCorrect` | the refinement of `LeadOutcome` | the same, and `RunIsAddressed` |
| | `OutcomesAreFinalCorrect` | an outcome is never changed again (a step property, stated with its proof) | as for the refinement |
| `RecordProofs` | `PhaseOrderCorrect` | `PhaseOrder` | `RecordInv` |
| | `ReplyRecordsAreTrueCorrect` | `ReplyRecordsAreTrue` | the same |
| | `SecondInquiryCorrect` | `SecondInquiryAfterWriteback` | the same |
| | `ReplyNeverErasedCorrect` | `ReplyNeverErased` (a step property) | `TypeOK` |
| `RepeatProofs` | `RepeatHasPredecessorCorrect` | `RepeatHasPredecessor` | `RepeatInv` |
| | `RepeatIsSeenCorrect` | `RepeatIsSeen` | the same |
| `PollerProofs` | `TypeCorrectness` | `TypeOK` | itself |
| | `NothingLostCorrect` | `NothingLostBehindCursor` | `CursorInv` |
| | `SighupTakesEffectCorrect` | `SighupTakesEffect` (a step property) | `ListFollowsHup` |
| | `AttributedUnlessEditedCorrect` | without an edit of `Users` no lead goes through without an agent (stated with its proof) | `AgentInv` |
| `HarnessProofs` | `TypeCorrectness` | `TypeOK` | `TypeInv` |
| | `OneInquiryUnlessRacedCorrect` | `OneInquiryUnlessRaced` | `InquiryInv` |
| | `WatchDraftsOnceCorrect` | `WatchDraftsOnce` | `DraftsInv` |
| | `SuppressedHasDraftCorrect` | `SuppressedHasDraft` | `SuppressionInv` |
| | `ReplayDraftsCorrect` | `ReplayDrafts` | `ReplayInv` |
| | `BackfillWithinLimitCorrect` | `BackfillWithinLimit` | `CountInv` |
| | `BackfillCoversCorrect` | `BackfillCovers` (a step property) | `CoverInv` |
| `LeadReplyProofs` | `TypeCorrectness` | `TypeOK` | itself |
| | `AgentForEveryMailboxCorrect` | `AgentForEveryMailbox` | `TypeOK` |
| | `ReplySaysTemplateCorrect` | `ReplySaysTemplate` | `CallInv`, `ReplyInv` |
| | `SkippedForAReasonCorrect` | `SkippedForAReason` | the same |
| | `ProspectsAnsweredCorrect` | `ProspectsAnswered` | the same |
| | `MatchedAddressWasTrueCorrect` | `MatchedAddressWasTrue` (a step property) | `HeldInv` |
| | `UnmatchedOnlyIfEditedCorrect` | `UnmatchedOnlyIfEdited` (a step property) | `HeldInv` |
| | `HeldUntilHoursCorrect` | `HeldUntilHours` (a step property) | `TypeOK` |
| `RateLimiterProofs` | `TypeCorrectness` | `TypeOK` | itself |
| | `LimitPerWindowCorrect` | `LimitPerWindow` | `LimitInv` |
| | `RefusalIsEarnedCorrect` | `RefusalIsEarned` | the same |
| | `OnlyOneWindowOutgrowsCorrect` | `OnlyOneWindowOutgrows` | itself, with `TypeOK` |

* **Types.** One effect lemma per operation on a service (`EnqueueEffect`,
  `AddInquiryEffect`, ...) says what it does to the table's type and to the rest
  of the row; `PollerEffects` and `WorkerEffects` say which variable which step
  may touch. The type invariant has the one conjunct that is not a type and that
  induction needs: a person is recorded only when one was resolved.
* **One job.** `OneJobPerLead` is not inductive: a second enqueue is only
  excluded by where the first run left its trace. `JobIsAccountedFor` says that
  a lead with a job is marked, or its run is past the send; `RunIsUnmarked` that
  the run in progress is of an unmarked lead. `RunSteps` gives the control flow:
  a run past the send never comes back to it.
* **The repetitions.** That there are no more than deaths is not inductive either:
  between a death and the next run nothing can be seen of the repetition to
  come. `CountInv` counts it before it happens: a lead that has a job and is
  still waiting to be run, or is being run, has been charged to a death already,
  so that its second enqueue only turns a debt into a job.
* **The window.** Lookup and record are separate steps. `LookupStillHolds` says
  what a run that has passed the lookup still knows at every later call: every
  row of the same content by another message is older than the window. The
  clock only makes that truer, and no other step adds rows.
* **One reply per content.** `RepliedIsRecorded` is the half `DedupInv` lacks:
  with nothing failed or cut short, every lead with a job is in the table of
  fingerprints, or its run is just about to put it there; `LookupsAnswered` that
  no lookup has failed open, so that `DedupWindowHolds` applies to the two rows.
* **The outcome.** `RunHasItsReason` says what a run has behind it at each call
  (a job at the record, a job or a suppression or nobody to answer later);
  `RecordedIsReplied` that a recorded row belongs to a lead with a job.
* **The refinement.** Initial states map to the initial state. For a step,
  `OutcomeUnchanged` and `OthersUnchanged` say that an outcome depends on the
  lead's own jobs, suppression and row only; `RunSettles` and `MarkSettles` show
  that an enqueue, a suppression and a row each take *their* lead from `new` to
  its outcome, or find it settled: a suppressed lead is never replied to later
  because the run that would do it has passed its lookup, and a row never
  changes an outcome already there.
* **The stores.** `RunKnowsInquiry` and `JobKnowsInquiry` tie a run and a job to
  the row of their own lead, over deaths in between; `JobProgress` turns a job's
  status into what Gmail and Airtable know. `RunHasNoInquiry` is why the query
  and the insert, two calls, need no lock as long as the poller is alone.
* **The person window.** `FirstContactStillHolds` is `LookupStillHolds` for
  persons; `RepeatHasReason` and `RepeatIsSent` carry the answer of the lookup
  to the job and from the job to the record. `OutcomeInv` is needed because a
  predecessor is one whose reply was recorded, and that it has a job is there.
* **The cursor.** `NothingLostBehindCursor` says nothing of a batch in progress.
  `BatchIsComplete` does: of what the query could return, each message has its
  row, or is in the batch, or came after the query, and is then as young as
  anything the query returned, because `DatesArePast`. `BatchFollowsCursor` is
  that the query started at the cursor, so nothing lies between.
* **The SIGHUP.** `ListFollowsHup`: neither a list in the cache nor one about to
  be stored predates a SIGHUP, but for the one the code loses.
* **The agents.** What finding 4 leaves: until `Users` is edited, every mailbox
  between Airtable's answer and a dispatch (`OnWay`: in the answer, the cache,
  the list at hand or being polled) has an enabled user, over crashes, failing
  calls and answers that were never stored.
* **The harness.** The three counting properties hold because a row to come is
  counted before it is there: `InquiryInv` adds the runs about to insert,
  `DraftsInv` the runs that may still write a draft and the run that watch still
  owes the lead. `CoverInv` says where a lead of backfill's window can be: marked,
  run, in the list at hand, or in a mailbox to come.
* **The reply.** `CallInv` says what a call has behind it when it comes to the
  route (the message is a lead, its template is unescaped, its text is
  either missing for a reason or passes the checks). `HeldInv`: an entry of the
  cache is an address its row has had since the process started. That a best
  match exists at all (`BestMatch`) is well-founded induction on the scores of
  finitely many rows.
* **The hours.** `HeldUntilHours` is about quotients and remainders by a day and an
  hour of any length: `Division`, `Multiples` and `Remainder` are the little of
  their theory it takes. A reading of the clock and the start of its day are
  less than a day apart (`DayType`, `SameDay`), two starts are equal or a day
  apart (`StartsApart`), a reading is inside the hours only from its own start on
  (`ClosedUntilStart`), and the change, being between a midnight and its start
  (`ChangeIsAtNight`), never lies between a start and the jitter behind it
  (`InstantOfStart`). So the start `compute_send_at` goes for is the first
  instant of working hours (`FirstOpenIsOpening`), by either of the two offsets.
* **The rate limiter.** `LimitPerWindow` does not say how much of the current
  window is left. `AdmittedIsCounted` does: beside one limit for each reset so
  far, a key has had its counter's worth of the current window, at most a limit
  of a window gone by, and nothing of a window not reached. A set-back or a
  restart loses the counter, and pays for it with the reset it is.
  `CountIsAdmitted` is the other half: a counter never exceeds what was let
  through in its window, also when the clock returns to it.

Only model-checked: liveness (`EveryLeadSettled`, `EveryLeadAnswered`,
`ShutdownEnds`, `EveryLeadTaken`), as fairness and `ENABLED` are out of this
prover's reach. There is no recursion in any module.

## 5. Not modelled

* The free text of a message, and all wording and layout of replies, subjects
  and Slack posts. The columns of the tables other than the keys, the reply, the
  fields of `Users` and the address and listings of `Apartments`.
* The normalisations of a text for its fingerprint and of an address: a
  fingerprint and a split address are data here. `rapidfuzz` is a table of
  scores, the language model a choice.
* Names, addresses and listings as strings: `LeadEmail` knows which patterns of
  the parsers match in which part, not the characters they match. A plain-text
  part is what StreetEasy's mails have; without one their HTML is flattened by
  `html_to_text`, which drops the targets of links, so that a "New Message" with
  HTML only is no lead (streeteasy.py 119-138): the model does the same (`Flat`),
  no run has such a message.
* The web app's routes (a health check and answers of 501), the harness's
  reports `diff` and `stats` (they only read), configuration, logging, scripts
  and legacy code.
* MIME and the pages of Gmail's lists: `list_messages` and `send_reply` are
  modelled by what they promise.

## 6. Plan

1. (done) The core: `Services`, `ProcessLead`, `SendReplyJob`, `AutoReply`,
   `LeadOutcome`; `MailboxCache`, `Poller`; type correctness and the first
   safety theorems.
2. (done) `Harness`: watch, backfill and replay over one store and one test base.
3. (done) `RateLimiter` and its proofs.
4. (done) `LeadReply` over `LeadEmail`, `Users`, `Apartments`, `ReplyText` and
   `SendTime`.
5. (done) Proofs of the safety properties, of the refinement and of the send
   time: every safety and step property of a passing run is a theorem.
6. (left) `diff` as operators on the two bases: it pairs rows of Inquiries by
   the field in which production keeps the id of the *sent reply* once there is
   one, and takes the last of several rows with one id. A composition of
   `LeadReply` and `AutoReply`, in which `Answerable` and the outcome of the
   person lookup come from the former.
