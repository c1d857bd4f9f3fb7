---------------------------- MODULE PollerProofs ----------------------------
(***************************************************************************)
(* Theorems about Poller, for any mailboxes, messages, lookback and bounds. *)
(***************************************************************************)
EXTENDS Poller, TLAPS

-----------------------------------------------------------------------------
(***************************************************************************)
(* Types.                                                                  *)
(***************************************************************************)

LEMMA AfterType ==
    ASSUME TypeOK, pc = "list"
    PROVE  After(box) \in Int /\ box \in Mailbox
  BY PollerAssumption, CacheAssumption DEF TypeOK, CacheTypeOK, After

LEMMA InitType == Init => TypeOK
  <1> SUFFICES ASSUME Init PROVE TypeOK
    OBVIOUS
  <1>1. CacheTypeOK
    <2>1. cached = NoList \/ cached \subseteq Mailbox
      BY DEF Init, CacheInit
    <2>2. now \in 0..MaxTime /\ fetchedAt \in 0..MaxTime
      BY CacheAssumption DEF Init, CacheInit
    <2>3. enabled \subseteq Mailbox /\ answer \subseteq Mailbox /\ todo \subseteq Mailbox
      BY DEF Init, CacheInit
    <2>4. hup \in BOOLEAN
      BY DEF Init, CacheInit
    <2>5. signals \in 0..MaxEvents /\ faults \in 0..MaxEvents
      BY CacheAssumption DEF Init, CacheInit
    <2> QED
      BY <2>1, <2>2, <2>3, <2>4, <2>5 DEF CacheTypeOK
  <1>2. date \in [Message -> 0..MaxTime] /\ processed \in [Message -> DB!ProcessedVal]
    BY CacheAssumption DEF Init, DB!ProcessedVal
  <1>3. cursor \in [Mailbox -> Int \cup {NoCursor}] /\ low \in [Mailbox -> Int]
    BY DEF Init
  <1>4. polled \in [Mailbox -> Nat \cup {NoCursor}]
    BY DEF Init
  <1>5. stop \in BOOLEAN
    BY DEF Init
  <1>6. stops \in 0..MaxStops
    BY PollerAssumption DEF Init
  <1> QED
    BY <1>1, <1>2, <1>3, <1>4, <1>5, <1>6 DEF Init, CacheInit, TypeOK, Pc

\* What a process leaves behind.
LEMMA DownType ==
    ASSUME TypeOK, Down, stop' = stop, stops' \in 0..MaxStops
    PROVE  TypeOK'
  <1>1. CacheTypeOK'
    <2>1. cached' = NoList \/ cached' \subseteq Mailbox'
      BY DEF Down
    <2>2. now' \in 0..MaxTime /\ fetchedAt' \in 0..MaxTime
      BY CacheAssumption DEF TypeOK, CacheTypeOK, Down
    <2>3. enabled' \subseteq Mailbox /\ answer' \subseteq Mailbox /\ todo' \subseteq Mailbox
      BY DEF TypeOK, CacheTypeOK, Down
    <2>4. hup' \in BOOLEAN
      BY DEF Down
    <2>5. signals' \in 0..MaxEvents /\ faults' \in 0..MaxEvents
      BY DEF TypeOK, CacheTypeOK, Down
    <2> QED
      BY <2>1, <2>2, <2>3, <2>4, <2>5 DEF CacheTypeOK
  <1> QED
    BY <1>1 DEF TypeOK, Down, gmail, store, pollHistory, Pc, DB!ProcessedVal

\* The cache's steps, and what may happen to it.
LEMMA CacheType ==
    ASSUME TypeOK, CacheStep \/ FetchFails \/ Sighup \/ EditUsers, Undisturbed
    PROVE  TypeOK'
  <1> USE CacheAssumption DEF TypeOK, CacheTypeOK, Undisturbed, gmail, store, poll, pollHistory,
          cache, cacheHistory, Pc, DB!ProcessedVal
  <1>1. CASE TestCache
    BY <1>1 DEF TestCache
  <1>2. CASE FetchList
    BY <1>2 DEF FetchList
  <1>3. CASE StoreList
    BY <1>3 DEF StoreList
  <1>4. CASE CopyList
    BY <1>4 DEF CopyList
  <1>5. CASE FetchFails
    BY <1>5 DEF FetchFails, Fault
  <1>6. CASE Sighup
    BY <1>6 DEF Sighup, Signal
  <1>7. CASE EditUsers
    BY <1>7 DEF EditUsers, Signal
  <1> QED
    BY <1>1, <1>2, <1>3, <1>4, <1>5, <1>6, <1>7 DEF CacheStep

\* The loop's own steps.
LEMMA LoopType ==
    ASSUME TypeOK, PollStep \/ Restart \/ PollFails
    PROVE  TypeOK'
  <1> USE DEF TypeOK, CacheTypeOK, gmail, store, poll, pollHistory, discovery, cache, cacheHistory,
          Pc, DB!ProcessedVal
  <1>1. CASE NextMailbox
    BY <1>1 DEF NextMailbox
  <1>2. CASE Wake \/ Restart
    BY <1>2 DEF Wake, Restart
  <1>3. CASE Exit
    BY <1>3, DownType DEF Exit
  <1>4. CASE ListMessages
    <2>1. After(box) \in Int /\ box \in Mailbox
      BY <1>4, AfterType DEF ListMessages
    <2>2. polled' \in [Mailbox -> Nat \cup {NoCursor}]
      BY <1>4, <2>1, CacheAssumption DEF ListMessages
    <2>3. CASE EndPoll
      BY <1>4, <2>2, <2>3 DEF ListMessages, EndPoll
    <2>4. CASE ~EndPoll
      BY <1>4, <2>1, <2>2, <2>4 DEF ListMessages, Listed
    <2> QED
      BY <2>3, <2>4
  <1>5. CASE SetLastSeen
    <2>1. cursor' \in [Mailbox -> Int \cup {NoCursor}] /\ low' \in [Mailbox -> Int]
      BY <1>5 DEF SetLastSeen
    <2> QED
      BY <1>5, <2>1 DEF SetLastSeen, EndPoll
  <1>6. ASSUME NEW m \in Message, TakeMessage(m) PROVE TypeOK'
    <2>1. maxSeen' \in Int
      BY <1>6, CacheAssumption DEF TakeMessage
    <2>2. processed' \in [Message -> DB!ProcessedVal] /\ unattributed' \subseteq Message
      BY <1>6 DEF TakeMessage, DispatchIfNew, DB!MarkProcessed
    <2> QED
      BY <1>6, <2>1, <2>2 DEF TakeMessage
  <1>7. CASE PollFails
    BY <1>7, CacheAssumption DEF PollFails, EndPoll, Fault
  <1> QED
    BY <1>1, <1>2, <1>3, <1>4, <1>5, <1>6, <1>7 DEF PollStep

\* Gmail, the clock and the process.
LEMMA WorldType ==
    ASSUME TypeOK, (\E m \in Message : Deliver(m)) \/ RequestShutdown \/ Crash \/ Tick
    PROVE  TypeOK'
  <1> USE DEF TypeOK, CacheTypeOK, gmail, store, poll, pollHistory, discovery, cache, cacheHistory,
          Pc, DB!ProcessedVal
  <1>1. ASSUME NEW m \in Message, Deliver(m) PROVE TypeOK'
    <2>1. PICK d \in 0..now : /\ date' = [date EXCEPT ![m] = d]
                              /\ late' = IF d < now THEN late \cup {m} ELSE late
      BY <1>1 DEF Deliver
    <2>2. d \in 0..MaxTime
      BY CacheAssumption
    <2> QED
      BY <1>1, <2>1, <2>2 DEF Deliver
  <1>2. CASE RequestShutdown
    BY <1>2, PollerAssumption DEF RequestShutdown
  <1>3. CASE Crash
    BY <1>3, DownType, PollerAssumption DEF Crash
  <1>4. CASE Tick
    BY <1>4, CacheAssumption DEF Tick
  <1> QED
    BY <1>1, <1>2, <1>3, <1>4

LEMMA TypeStep == TypeOK /\ [Next]_vars => TypeOK'
  <1> SUFFICES ASSUME TypeOK, [Next]_vars PROVE TypeOK'
    OBVIOUS
  <1>1. CASE LoopStep
    BY <1>1, CacheType, LoopType DEF LoopStep
  <1>2. CASE Environment
    BY <1>2, CacheType, LoopType, WorldType DEF Environment
  <1>3. CASE UNCHANGED vars
    BY <1>3 DEF vars, TypeOK, CacheTypeOK, gmail, store, poll, pollHistory, discovery, cache,
                cacheHistory
  <1> QED
    BY <1>1, <1>2, <1>3 DEF Next

\* Whatever fails, crashes or arrives, the loop's variables keep their type; a message is only in
\* the batch once Gmail can list it (workers/poller.py).
THEOREM TypeCorrectness == Spec => []TypeOK
  BY InitType, TypeStep, PTL DEF Spec

-----------------------------------------------------------------------------
(***************************************************************************)
(* The cursor.                                                             *)
(***************************************************************************)

\* Nothing that has been listed, stored or compared lies in the future.
DatesArePast ==
    /\ \A m \in inbox : date[m] <= now
    /\ \A b \in Mailbox : cursor[b] # NoCursor => cursor[b] <= now
    /\ pc = "batch" => since <= now /\ maxSeen <= now

\* The query of the batch started at the cursor, if there is one.
BatchFollowsCursor == pc = "batch" /\ cursor[box] # NoCursor => since = cursor[box]

\* What the query could return has been gone through, or is left to look at, or came after the
\* query, and then it is as young as anything the query returned.
BatchIsComplete ==
    pc = "batch" =>
        \A m \in inbox \ late :
            MailboxOf[m] = box /\ date[m] >= since =>
                \/ processed[m] # "no"
                \/ m \in batch
                \/ date[m] >= maxSeen /\ \A k \in batch : date[m] >= date[k]

\* NothingLostBehindCursor, with the query and the table expanded.
CursorIsSafe ==
    \A m \in inbox \ late :
        cursor[MailboxOf[m]] # NoCursor /\ date[m] >= low[MailboxOf[m]] =>
            date[m] >= cursor[MailboxOf[m]] \/ processed[m] # "no"

CursorInv == DatesArePast /\ BatchFollowsCursor /\ BatchIsComplete /\ CursorIsSafe

LEMMA InitCursor == Init => CursorInv
  BY DEF Init, CacheInit, CursorInv, DatesArePast, BatchFollowsCursor, BatchIsComplete,
         CursorIsSafe

\* A step that leaves Gmail, the store and a batch in progress alone.
LEMMA OtherStep ==
    ASSUME CursorInv, UNCHANGED <<inbox, date, late, cursor, processed, low>>,
           now \in Int, now' \in Int, now' >= now, TypeOK,
           pc' = "batch" => pc = "batch" /\ UNCHANGED <<box, batch, maxSeen, since>>
    PROVE  CursorInv'
  <1> USE DEF CursorInv
  <1>1. DatesArePast'
    <2>1. \A m \in inbox : date[m] \in Int
      BY DEF TypeOK
    <2>2. \A b \in Mailbox : cursor[b] # NoCursor => cursor[b] \in Int
      BY DEF TypeOK
    <2>3. maxSeen \in Int /\ since \in Int
      BY DEF TypeOK
    <2> QED
      BY <2>1, <2>2, <2>3 DEF DatesArePast
  <1>2. BatchFollowsCursor' /\ BatchIsComplete' /\ CursorIsSafe'
    BY DEF BatchFollowsCursor, BatchIsComplete, CursorIsSafe
  <1> QED
    BY <1>1, <1>2

\* Gmail: a message that is not late has the date of this second.
LEMMA DeliverStep ==
    ASSUME TypeOK, CursorInv, NEW m \in Message, Deliver(m)
    PROVE  CursorInv'
  <1> USE DEF CursorInv
  <1>1. /\ m \notin inbox /\ inbox' = inbox \cup {m}
        /\ UNCHANGED <<now, pc, cursor, processed, box, batch, maxSeen, since, low>>
    BY DEF Deliver, store, poll, pollHistory
  <1>2. PICK d \in 0..now : /\ date' = [date EXCEPT ![m] = d]
                            /\ late' = IF d < now THEN late \cup {m} ELSE late
    BY DEF Deliver
  <1>3. now \in Nat /\ date \in [Message -> Int] /\ inbox \subseteq Message /\ d \in Int /\ d <= now
        /\ batch \subseteq inbox /\ maxSeen \in Int /\ since \in Int
        /\ \A b \in Mailbox : cursor[b] # NoCursor => cursor[b] \in Int
    BY <1>2 DEF TypeOK, CacheTypeOK
  <1>4. \A k \in inbox : k # m /\ k \in Message /\ date'[k] = date[k] /\ date[k] \in Int
    BY <1>1, <1>2, <1>3
  <1>5. date'[m] = d /\ MailboxOf[m] \in Mailbox /\ (m \notin late' => d = now)
    BY <1>2, <1>3, PollerAssumption
  <1>6. inbox' \ late' \subseteq (inbox \ late) \cup {m}
    BY <1>1, <1>2
  <1>7. DatesArePast'
    BY <1>1, <1>3, <1>4, <1>5 DEF DatesArePast
  <1>8. BatchFollowsCursor'
    BY <1>1 DEF BatchFollowsCursor
  <1>9. BatchIsComplete'
    <2> SUFFICES ASSUME pc = "batch", NEW n \in inbox' \ late', MailboxOf[n] = box,
                        date'[n] >= since
                 PROVE  \/ processed[n] # "no"
                        \/ n \in batch
                        \/ date'[n] >= maxSeen /\ \A k \in batch : date'[n] >= date'[k]
      BY <1>1 DEF BatchIsComplete
    <2>1. CASE n = m
      BY <1>3, <1>4, <1>5, <2>1 DEF DatesArePast
    <2>2. CASE n # m
      BY <1>3, <1>4, <1>6, <2>2 DEF BatchIsComplete
    <2> QED
      BY <2>1, <2>2
  <1>10. CursorIsSafe'
    <2> SUFFICES ASSUME NEW n \in inbox' \ late', cursor[MailboxOf[n]] # NoCursor,
                        date'[n] >= low[MailboxOf[n]]
                 PROVE  date'[n] >= cursor[MailboxOf[n]] \/ processed[n] # "no"
      BY <1>1 DEF CursorIsSafe
    <2>1. CASE n = m
      BY <1>3, <1>5, <2>1 DEF DatesArePast
    <2>2. CASE n # m
      BY <1>4, <1>6, <2>2 DEF CursorIsSafe
    <2> QED
      BY <2>1, <2>2
  <1> QED
    BY <1>7, <1>8, <1>9, <1>10

\* The batch is all that the query could return.
LEMMA ListStep ==
    ASSUME TypeOK, CursorInv, ListMessages
    PROVE  CursorInv'
  <1> USE DEF CursorInv
  <1>1. /\ UNCHANGED <<inbox, date, late, cursor, processed, low, now>>
        /\ now \in Int /\ pc = "list"
    BY DEF ListMessages, gmail, store, TypeOK, CacheTypeOK
  <1>2. CASE EndPoll
    BY <1>1, <1>2, OtherStep DEF EndPoll
  <1>3. CASE ~EndPoll
    <2>1. /\ batch' = Listed(box, After(box)) /\ since' = After(box) /\ maxSeen' = After(box)
          /\ pc' = "batch" /\ box' = box
      BY <1>3 DEF ListMessages
    <2>2. After(box) \in Int /\ box \in Mailbox
      BY <1>1, AfterType
    <2>3. After(box) <= now
      BY <1>1, PollerAssumption, <2>2 DEF After, DatesArePast
    <2>4. DatesArePast'
      BY <1>1, <2>1, <2>3 DEF DatesArePast
    <2>5. BatchFollowsCursor'
      BY <1>1, <2>1 DEF BatchFollowsCursor, After
    <2>6. BatchIsComplete'
      BY <1>1, <2>1 DEF BatchIsComplete, Listed
    <2>7. CursorIsSafe'
      BY <1>1 DEF CursorIsSafe
    <2> QED
      BY <2>4, <2>5, <2>6, <2>7
  <1> QED
    BY <1>2, <1>3

\* The message leaves the batch with its row; maxSeen takes its date.
LEMMA TakeStep ==
    ASSUME TypeOK, CursorInv, NEW m \in Message, TakeMessage(m)
    PROVE  CursorInv'
  <1> USE DEF CursorInv
  <1>1. /\ UNCHANGED <<now, pc, inbox, date, late, cursor, low, box, since>>
        /\ m \in batch /\ batch' = batch \ {m} /\ pc = "batch"
        /\ maxSeen' = IF date[m] > maxSeen THEN date[m] ELSE maxSeen
    BY DEF TakeMessage, gmail
  <1>2. /\ processed'[m] # "no"
        /\ \A n \in Message : processed[n] # "no" => processed'[n] # "no"
    BY DEF TakeMessage, DispatchIfNew, DB!WasProcessed, DB!MarkProcessed, TypeOK
  <1>3. /\ inbox \subseteq Message /\ batch \subseteq inbox /\ now \in Int /\ maxSeen \in Int
        /\ \A n \in Message : date[n] \in Int
    BY DEF TypeOK, CacheTypeOK
  <1>4. DatesArePast'
    BY <1>1, <1>3 DEF DatesArePast
  <1>5. BatchFollowsCursor'
    BY <1>1 DEF BatchFollowsCursor
  <1>6. BatchIsComplete'
    <2> SUFFICES ASSUME NEW n \in inbox \ late, MailboxOf[n] = box, date[n] >= since,
                        processed'[n] = "no", n \notin batch'
                 PROVE  date[n] >= maxSeen' /\ \A k \in batch' : date[n] >= date[k]
      BY <1>1 DEF BatchIsComplete
    <2>1. processed[n] = "no" /\ n \notin batch
      BY <1>1, <1>2, <1>3
    <2>2. date[n] >= maxSeen /\ \A k \in batch : date[n] >= date[k]
      BY <1>1, <2>1 DEF BatchIsComplete
    <2> QED
      BY <1>1, <2>2
  <1>7. CursorIsSafe'
    BY <1>1, <1>2, <1>3 DEF CursorIsSafe
  <1> QED
    BY <1>4, <1>5, <1>6, <1>7

\* The cursor moves to the youngest message of a batch that has been gone through.
LEMMA StoreStep ==
    ASSUME TypeOK, CursorInv, SetLastSeen
    PROVE  CursorInv'
  <1> USE DEF CursorInv
  <1>1. /\ UNCHANGED <<now, inbox, date, late, processed>>
        /\ pc = "batch" /\ batch = {} /\ pc' = "next"
        /\ cursor' = [cursor EXCEPT ![box] = maxSeen]
        /\ low' = IF cursor[box] = NoCursor THEN [low EXCEPT ![box] = since] ELSE low
    BY DEF SetLastSeen, EndPoll, gmail
  <1>2. /\ box \in Mailbox /\ cursor \in [Mailbox -> Int \cup {NoCursor}]
        /\ low \in [Mailbox -> Int] /\ maxSeen \in Int /\ since \in Int /\ inbox \subseteq Message
        /\ \A n \in Message : date[n] \in Int
    BY <1>1 DEF TypeOK
  <1>3. DatesArePast'
    BY <1>1, <1>2 DEF DatesArePast
  <1>4. BatchFollowsCursor' /\ BatchIsComplete'
    BY <1>1 DEF BatchFollowsCursor, BatchIsComplete
  <1>5. CursorIsSafe'
    <2> SUFFICES ASSUME NEW n \in inbox \ late, cursor'[MailboxOf[n]] # NoCursor,
                        date[n] >= low'[MailboxOf[n]], processed[n] = "no"
                 PROVE  date[n] >= cursor'[MailboxOf[n]]
      BY <1>1 DEF CursorIsSafe
    <2>1. MailboxOf[n] \in Mailbox /\ n \in Message
      BY <1>2, PollerAssumption
    <2>2. CASE MailboxOf[n] # box
      <3>1. cursor'[MailboxOf[n]] = cursor[MailboxOf[n]] /\ low'[MailboxOf[n]] = low[MailboxOf[n]]
        BY <1>1, <1>2, <2>1, <2>2
      <3> QED
        BY <3>1 DEF CursorIsSafe
    <2>3. CASE MailboxOf[n] = box
      <3>1. date[n] >= since
        <4>1. CASE cursor[box] = NoCursor
          BY <1>1, <1>2, <2>3, <4>1
        <4>2. CASE cursor[box] # NoCursor
          BY <1>1, <2>3, <4>2 DEF CursorIsSafe, BatchFollowsCursor
        <4> QED
          BY <4>1, <4>2
      <3>2. date[n] >= maxSeen
        BY <1>1, <2>3, <3>1 DEF BatchIsComplete
      <3> QED
        BY <1>1, <1>2, <2>3, <3>2
    <2> QED
      BY <2>2, <2>3
  <1> QED
    BY <1>3, <1>4, <1>5

LEMMA CursorStep == TypeOK /\ CursorInv /\ [Next]_vars => CursorInv'
  <1> SUFFICES ASSUME TypeOK, CursorInv, [Next]_vars PROVE CursorInv'
    OBVIOUS
  <1> USE DEF gmail, store, poll, pollHistory
  <1>1. now \in Int
    BY DEF TypeOK, CacheTypeOK
  <1>2. CASE NextMailbox \/ Wake \/ Exit \/ Restart \/ PollFails \/ RequestShutdown \/ Crash
    BY <1>1, <1>2, OtherStep
    DEF NextMailbox, Wake, Exit, Restart, PollFails, RequestShutdown, Crash, Down, EndPoll
  <1>3. CASE (CacheStep \/ FetchFails \/ Sighup \/ EditUsers) /\ Undisturbed
    BY <1>1, <1>3, OtherStep
    DEF CacheStep, TestCache, FetchList, StoreList, CopyList, FetchFails, Sighup, EditUsers, Signal,
        Undisturbed
  <1>4. CASE Tick
    BY <1>1, <1>4, OtherStep DEF Tick
  <1>5. CASE UNCHANGED vars
    BY <1>1, <1>5, OtherStep DEF vars
  <1> QED
    BY <1>2, <1>3, <1>4, <1>5, DeliverStep, ListStep, TakeStep, StoreStep
    DEF Next, LoopStep, PollStep, Environment

\* No message in time is lost behind the cursor of its mailbox, for any lookback, any delay and any
\* number of mailboxes, failures, crashes and shutdowns (poller.py:159-195).
THEOREM NothingLostCorrect == Spec => []NothingLostBehindCursor
  <1>1. CursorInv => NothingLostBehindCursor
    BY DEF CursorInv, CursorIsSafe, NothingLostBehindCursor, Listed, DB!WasProcessed
  <1> QED
    BY <1>1, InitCursor, CursorStep, InitType, TypeStep, PTL DEF Spec

-----------------------------------------------------------------------------
(***************************************************************************)
(* The cache.                                                              *)
(***************************************************************************)

\* Neither a list in the cache nor one that is about to be stored predates a SIGHUP, but for one
\* that came after Airtable's answer.
ListFollowsHup == cached # NoList \/ pc = "store" => hup = FALSE

LEMMA InitHup == Init => ListFollowsHup
  BY DEF Init, CacheInit, ListFollowsHup

LEMMA HupStep == ListFollowsHup /\ [Next]_vars => ListFollowsHup'
  <1> SUFFICES ASSUME ListFollowsHup, [Next]_vars PROVE ListFollowsHup'
    OBVIOUS
  <1> USE DEF ListFollowsHup, cache, cacheHistory, discovery
  <1>1. CASE CacheStep
    BY <1>1 DEF CacheStep, TestCache, FetchList, StoreList, CopyList
  <1>2. CASE FetchFails \/ EditUsers
    BY <1>2 DEF FetchFails, EditUsers, Signal
  <1>3. CASE Sighup
    BY <1>3 DEF Sighup, Signal
  <1>4. CASE Exit \/ Crash
    BY <1>4 DEF Exit, Crash, Down
  <1>5. CASE NextMailbox \/ Wake \/ Restart \/ ListMessages \/ SetLastSeen \/ PollFails
    BY <1>5 DEF NextMailbox, Wake, Restart, ListMessages, SetLastSeen, PollFails, EndPoll
  <1>6. CASE (\E m \in Message : TakeMessage(m) \/ Deliver(m)) \/ RequestShutdown \/ Tick
    BY <1>6 DEF TakeMessage, Deliver, RequestShutdown, Tick
  <1>7. CASE UNCHANGED vars
    BY <1>7 DEF vars
  <1> QED
    BY <1>1, <1>2, <1>3, <1>4, <1>5, <1>6, <1>7 DEF Next, LoopStep, PollStep, Environment

\* The loop never polls by a list that was fetched before a SIGHUP, for any number of signals,
\* edits of Users, failures and crashes (poller.py:105-113).
THEOREM SighupTakesEffectCorrect == Spec => SighupTakesEffect
  <1>1. ListFollowsHup => [pc = "copy" /\ pc' = "next" /\ cached # NoList => ~hup]_vars
    BY DEF ListFollowsHup
  <1> QED
    BY <1>1, InitHup, HupStep, PTL DEF Spec, SighupTakesEffect

-----------------------------------------------------------------------------
(***************************************************************************)
(* The agents.                                                             *)
(***************************************************************************)

\* As long as nobody has edited Users (or sent a SIGHUP, which signals counts as well), no lead goes
\* through without an agent: RepliesAttributed fails only by a list that an edit has made stale, not
\* by a crash, a failing call, or an answer of Airtable's that was never stored (poller.py:79-113).
AttributedUnlessEdited == signals = 0 => unattributed = {}

\* Every mailbox on its way from Airtable's answer to a dispatch has a user who is enabled.
OnWay ==
    (IF cached = NoList THEN {} ELSE cached) \cup answer \cup todo \cup ({box} \ {NoMailbox})

AgentInv == signals = 0 => unattributed = {} /\ OnWay \subseteq enabled

LEMMA InitAgent == Init => AgentInv
  BY DEF Init, CacheInit, AgentInv, OnWay

\* A step that brings no mailbox on its way keeps the invariant.
LEMMA NothingNewOnWay ==
    ASSUME AgentInv, OnWay' \subseteq OnWay, signals' = 0 => signals = 0,
           enabled' = enabled, unattributed' = unattributed
    PROVE  AgentInv'
  BY DEF AgentInv

LEMMA AgentStep == TypeOK /\ AgentInv /\ [Next]_vars => AgentInv'
  <1> SUFFICES ASSUME TypeOK, AgentInv, [Next]_vars PROVE AgentInv'
    OBVIOUS
  <1> USE DEF cache, cacheHistory, discovery, gmail, store, poll, pollHistory
  <1>1. CASE FetchList /\ Undisturbed
    BY <1>1 DEF FetchList, Undisturbed, AgentInv, OnWay
  <1>2. CASE (TestCache \/ StoreList \/ CopyList \/ FetchFails) /\ Undisturbed
    <2>1. OnWay' \subseteq OnWay
      BY <1>2, CacheAssumption
      DEF TestCache, StoreList, CopyList, FetchFails, Undisturbed, OnWay, TypeOK, CacheTypeOK
    <2> QED
      BY <1>2, <2>1, NothingNewOnWay
      DEF TestCache, StoreList, CopyList, FetchFails, Undisturbed
  <1>3. CASE Sighup \/ EditUsers
    <2>1. signals' = signals + 1 /\ signals \in Nat
      BY <1>3 DEF Sighup, EditUsers, Signal, TypeOK, CacheTypeOK
    <2> QED
      BY <2>1 DEF AgentInv
  <1>4. CASE NextMailbox \/ Wake \/ Exit \/ Restart \/ ListMessages \/ SetLastSeen
    <2>1. OnWay' \subseteq OnWay
      BY <1>4
      DEF NextMailbox, Wake, Exit, Restart, ListMessages, SetLastSeen, Down, EndPoll, OnWay
    <2> QED
      BY <1>4, <2>1, NothingNewOnWay
      DEF NextMailbox, Wake, Exit, Restart, ListMessages, SetLastSeen, Down, EndPoll
  <1>5. CASE PollFails \/ RequestShutdown \/ Crash \/ Tick \/ UNCHANGED vars
    <2>1. OnWay' \subseteq OnWay
      BY <1>5 DEF PollFails, RequestShutdown, Crash, Tick, vars, Down, EndPoll, OnWay
    <2> QED
      BY <1>5, <2>1, NothingNewOnWay
      DEF PollFails, RequestShutdown, Crash, Tick, vars, Down, EndPoll
  <1>6. CASE \E m \in Message : Deliver(m)
    BY <1>6 DEF Deliver, AgentInv, OnWay
  \* The mailbox being polled is on its way, so its user is still enabled.
  <1>7. CASE \E m \in Message : TakeMessage(m)
    <2> PICK m \in Message : TakeMessage(m)
      BY <1>7
    <2>1. OnWay' = OnWay /\ UNCHANGED <<enabled, signals>> /\ pc = "batch"
      BY DEF TakeMessage, OnWay
    <2>2. box \in OnWay
      BY <2>1, PollerAssumption DEF TypeOK, OnWay
    <2>3. box \in enabled => unattributed' = unattributed
      BY DEF TakeMessage, DispatchIfNew
    <2> QED
      BY <2>1, <2>2, <2>3 DEF AgentInv
  <1> QED
    BY <1>1, <1>2, <1>3, <1>4, <1>5, <1>6, <1>7
    DEF Next, LoopStep, PollStep, CacheStep, Environment

\* For any mailboxes, messages, failures and crashes: finding a mailbox without an agent takes an
\* edit of Users.
THEOREM AttributedUnlessEditedCorrect == Spec => []AttributedUnlessEdited
  <1>1. AgentInv => AttributedUnlessEdited
    BY DEF AgentInv, AttributedUnlessEdited
  <1> QED
    BY <1>1, InitAgent, AgentStep, InitType, TypeStep, PTL DEF Spec

=============================================================================
