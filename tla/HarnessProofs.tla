---------------------------- MODULE HarnessProofs ----------------------------
(***************************************************************************)
(* Theorems about Harness, for every value of its constants.               *)
(***************************************************************************)
EXTENDS Harness, FiniteSetTheorems, TLAPS

-----------------------------------------------------------------------------
(***************************************************************************)
(* What a step does to the runs.                                           *)
(***************************************************************************)
Run == [pc : Pc, lead : Lead \cup {NoLead}]

RunTypeOK == run \in [Process -> Run] /\ \A p \in Process : ~Idle(p) => run[p].lead \in Lead

\* A process without a run has no lead.
IdleIsNoRun == \A p \in Process : Idle(p) => run[p] = NoRun

LEMMA NoRunType == NoRun \in Run /\ NoRun.pc = "idle" /\ NoRun.lead = NoLead
  BY DEF NoRun, Run, Pc

LEMMA GotoEffect ==
    ASSUME RunTypeOK, NEW p \in Process, NEW pc \in Pc, Goto(p, pc)
    PROVE  /\ run' \in [Process -> Run]
           /\ run'[p].pc = pc
           /\ run'[p].lead = run[p].lead
           /\ \A q \in Process : q # p => run'[q] = run[q]
  <1>1. run[p] \in Run
    BY DEF RunTypeOK
  <1>2. [run[p] EXCEPT !.pc = pc] \in Run
        /\ [run[p] EXCEPT !.pc = pc].pc = pc
        /\ [run[p] EXCEPT !.pc = pc].lead = run[p].lead
    BY <1>1 DEF Run
  <1>3. run' = [run EXCEPT ![p] = [run[p] EXCEPT !.pc = pc]]
    BY DEF Goto
  <1> QED
    BY <1>2, <1>3 DEF RunTypeOK

LEMMA BeginEffect ==
    ASSUME RunTypeOK, NEW p \in Process, NEW l \in Lead, Begin(p, l)
    PROVE  /\ run' \in [Process -> Run]
           /\ run'[p].pc = "lookup"
           /\ run'[p].lead = l
           /\ \A q \in Process : q # p => run'[q] = run[q]
  <1> DEFINE r == [pc |-> "lookup", lead |-> l]
  <1>1. r \in Run /\ r.pc = "lookup" /\ r.lead = l
    BY DEF Run, Pc
  <1>2. run' = [run EXCEPT ![p] = r]
    BY DEF Begin
  <1> HIDE DEF r
  <1> QED
    BY <1>1, <1>2 DEF RunTypeOK

LEMMA EndRunEffect ==
    ASSUME RunTypeOK, NEW p \in Process, EndRun(p)
    PROVE  /\ run' \in [Process -> Run]
           /\ run'[p] = NoRun
           /\ \A q \in Process : q # p => run'[q] = run[q]
  BY NoRunType DEF EndRun, RunTypeOK

(***************************************************************************)
(* The steps of process p inside a run, in the order of the code, by where  *)
(* they lead and what they write.                                          *)
(***************************************************************************)
Before == {"lookup", "find", "create", "draft"}

PipelineStep(p) == Pipeline(p) \/ StoreRaises(p) \/ CallRaises(p)

LEMMA PipelineEffects ==
    ASSUME NEW p \in Process, PipelineStep(p)
    PROVE  /\ UNCHANGED <<now, inbox, processed, backfill, commands, reruns, draftsBefore>>
           /\ faults' = faults \/ Fault
           /\ run[p].pc \in {"lookup", "find", "create", "draft", "record"}
           /\ \/ /\ run[p].pc = "lookup" /\ (Goto(p, "return") \/ Goto(p, "find"))
                 /\ UNCHANGED <<base, fingerprints, raced>>
                 /\ \/ /\ Goto(p, "return") /\ UsesStore(p) /\ Copied(run[p].lead)
                       /\ suppressed' = suppressed \cup {run[p].lead}
                    \/ Goto(p, "find") /\ UNCHANGED suppressed
              \/ /\ run[p].pc = "find"
                 /\ UNCHANGED <<base, fingerprints, suppressed>>
                 /\ \/ Goto(p, "draft") /\ UNCHANGED raced
                    \/ /\ inquiries[run[p].lead] = 0
                       /\ Goto(p, "create")
                       /\ raced' = IF Creating(run[p].lead) = {} THEN raced
                                   ELSE [raced EXCEPT ![run[p].lead] = @ + 1]
              \/ /\ run[p].pc = "create"
                 /\ Goto(p, "draft") \/ Goto(p, "raise")
                 /\ AddInquiry(run[p].lead)
                 /\ UNCHANGED <<fingerprints, raced, suppressed>>
              \/ /\ run[p].pc = "draft"
                 /\ Goto(p, AfterDraft(run[p].lead)) \/ Goto(p, "raise")
                 /\ AddDraft(run[p].lead)
                 /\ UNCHANGED <<fingerprints, raced, suppressed>>
              \/ /\ run[p].pc = "record" /\ Goto(p, "return")
                 /\ UNCHANGED <<base, raced, suppressed>>
                 /\ fingerprints' = fingerprints \/ fingerprints' = Recorded(run[p].lead)
              \/ /\ run[p].pc \in Before /\ Goto(p, "raise")
                 /\ UNCHANGED <<base, fingerprints, raced, suppressed>>
  <1> USE DEF store, base, history, Before
  <1>1. CASE Lookup(p)
    BY <1>1 DEF Lookup
  <1>2. CASE Find(p)
    BY <1>2 DEF Find
  <1>3. CASE Create(p)
    BY <1>3 DEF Create, AddInquiry
  <1>4. CASE Draft(p)
    BY <1>4 DEF Draft, AddDraft
  <1>5. CASE Record(p)
    BY <1>5 DEF Record
  <1>6. CASE StoreRaises(p)
    BY <1>6 DEF StoreRaises
  <1>7. CASE CallRaises(p)
    BY <1>7 DEF CallRaises, AddInquiry, AddDraft
  <1> QED
    BY <1>1, <1>2, <1>3, <1>4, <1>5, <1>6, <1>7 DEF PipelineStep, Pipeline

\* Where a run may be after a step of the pipeline: still its own lead's.
LEMMA PipelineRun ==
    ASSUME RunTypeOK, IdleIsNoRun, NEW p \in Process, PipelineStep(p)
    PROVE  /\ RunTypeOK' /\ IdleIsNoRun'
           /\ run[p].lead \in Lead
           /\ run'[p].lead = run[p].lead
           /\ \A q \in Process : q # p => run'[q] = run[q]
           /\ \E pc \in Pc \ {"idle", "lookup"} : Goto(p, pc) /\ run'[p].pc = pc
  <1>1. PICK pc \in Pc \ {"idle", "lookup"} : Goto(p, pc)
    BY PipelineEffects DEF Pc, AfterDraft
  <1>2. run[p].pc # "idle"
    BY PipelineEffects
  <1>3. run[p].lead \in Lead
    BY <1>2 DEF RunTypeOK, Idle
  <1>4. /\ run' \in [Process -> Run]
        /\ run'[p].pc = pc
        /\ run'[p].lead = run[p].lead
        /\ \A q \in Process : q # p => run'[q] = run[q]
    BY <1>1, GotoEffect
  <1>5. RunTypeOK'
    BY <1>3, <1>4 DEF RunTypeOK, Idle
  <1>6. IdleIsNoRun'
    BY <1>1, <1>4 DEF IdleIsNoRun, Idle
  <1> QED
    BY <1>1, <1>3, <1>4, <1>5, <1>6

LEMMA BeginRun ==
    ASSUME RunTypeOK, IdleIsNoRun, NEW p \in Process, NEW l \in Lead, Begin(p, l)
    PROVE  RunTypeOK' /\ IdleIsNoRun'
  BY BeginEffect DEF RunTypeOK, IdleIsNoRun, Idle

LEMMA EndRunRun ==
    ASSUME RunTypeOK, IdleIsNoRun, NEW p \in Process, EndRun(p)
    PROVE  RunTypeOK' /\ IdleIsNoRun'
  BY EndRunEffect, NoRunType DEF RunTypeOK, IdleIsNoRun, Idle

-----------------------------------------------------------------------------
(***************************************************************************)
(* Type correctness.                                                       *)
(***************************************************************************)
BackfillType == [on : BOOLEAN, boxes : SUBSET Mailbox, limit : Nat, todo : SUBSET Lead,
                 total : Nat, scope : SUBSET Lead, ran : SUBSET Lead]

BackfillTypeOK ==
    /\ backfill \in BackfillType
    /\ ~backfill.on => backfill = NoBackfill /\ Idle("backfill")

Row == [mailbox : Mailbox, fingerprint : Fingerprint, msg : Lead, at : 0..MaxTime]

TableTypeOK ==
    /\ now \in 0..MaxTime
    /\ inbox \subseteq Lead
    /\ processed \in [Lead -> DB!ProcessedVal]
    /\ fingerprints \subseteq Row
    /\ inquiries \in [Lead -> Nat]
    /\ drafts \in [Lead -> Nat]

HistoryTypeOK ==
    /\ faults \in 0..MaxFaults
    /\ commands \in 0..MaxCommands
    /\ raced \in [Lead -> Nat]
    /\ reruns \in [Lead -> Nat]
    /\ suppressed \subseteq Lead
    /\ draftsBefore \in Nat

TypeInv == RunTypeOK /\ IdleIsNoRun /\ BackfillTypeOK /\ TableTypeOK /\ HistoryTypeOK

LEMMA TypeParts == TypeInv => TypeOK
  BY DEF TypeInv, TypeOK, RunTypeOK, BackfillTypeOK, TableTypeOK, HistoryTypeOK, Run,
         BackfillType, Row

LEMMA NoBackfillType ==
    /\ NoBackfill \in BackfillType
    /\ NoBackfill.on = FALSE
    /\ NoBackfill.boxes = {} /\ NoBackfill.todo = {} /\ NoBackfill.ran = {}
    /\ NoBackfill.scope = {}
    /\ NoBackfill.limit = 0 /\ NoBackfill.total = 0
  BY DEF NoBackfill, BackfillType

LEMMA InitTypes == Init => TypeInv
  <1> SUFFICES ASSUME Init PROVE TypeInv
    OBVIOUS
  <1>1. RunTypeOK /\ IdleIsNoRun /\ Idle("backfill")
    BY NoRunType DEF Init, RunTypeOK, IdleIsNoRun, Idle, Process
  <1>2. BackfillTypeOK
    BY <1>1, NoBackfillType DEF Init, BackfillTypeOK
  <1>3. TableTypeOK /\ HistoryTypeOK
    BY HarnessAssumption DEF Init, TableTypeOK, HistoryTypeOK, DB!ProcessedVal
  <1> QED
    BY <1>1, <1>2, <1>3 DEF TypeInv

LEMMA FaultTypes == HistoryTypeOK /\ (faults' = faults \/ Fault) => faults' \in 0..MaxFaults
  BY HarnessAssumption DEF HistoryTypeOK, Fault

LEMMA PipelineTypes ==
    ASSUME TypeInv, NEW p \in Process, PipelineStep(p)
    PROVE  TypeInv'
  <1>1. RunTypeOK /\ BackfillTypeOK /\ TableTypeOK /\ HistoryTypeOK /\ IdleIsNoRun
    BY DEF TypeInv
  <1>2. RunTypeOK' /\ IdleIsNoRun' /\ run[p].lead \in Lead /\ ~Idle(p)
    BY <1>1, PipelineRun, PipelineEffects DEF Idle
  <1>3. UNCHANGED <<now, inbox, processed, backfill, commands, reruns, draftsBefore>>
    BY PipelineEffects
  <1>4. BackfillTypeOK'
    <2>1. \A q \in Process : Idle(q) => q # p /\ run'[q] = run[q]
      BY <1>1, <1>2, PipelineRun
    <2> QED
      BY <1>1, <1>3, <2>1 DEF BackfillTypeOK, Idle, Process
  <1>5. inquiries' \in [Lead -> Nat] /\ drafts' \in [Lead -> Nat]
    BY <1>1, <1>2, PipelineEffects DEF TableTypeOK, AddInquiry, AddDraft, base
  <1>6. raced' \in [Lead -> Nat]
    BY <1>1, <1>2, PipelineEffects DEF HistoryTypeOK
  <1>7. suppressed' \subseteq Lead
    BY <1>1, <1>2, PipelineEffects DEF HistoryTypeOK
  <1>8. fingerprints' \subseteq Row
    <2>1. Recorded(run[p].lead) \subseteq Row
      BY <1>1, <1>2, HarnessAssumption DEF Recorded, DB!RecordReply, TableTypeOK, Row
    <2> QED
      BY <1>1, <2>1, PipelineEffects DEF TableTypeOK
  <1>9. faults' \in 0..MaxFaults
    BY FaultTypes, PipelineEffects DEF TypeInv
  <1>10. TableTypeOK' /\ HistoryTypeOK'
    BY <1>1, <1>3, <1>5, <1>6, <1>7, <1>8, <1>9 DEF TableTypeOK, HistoryTypeOK
  <1> QED
    BY <1>2, <1>4, <1>10 DEF TypeInv

LEMMA WatchTypes ==
    ASSUME TypeInv, WatchStep
    PROVE  TypeInv'
  <1>1. RunTypeOK /\ BackfillTypeOK /\ TableTypeOK /\ HistoryTypeOK /\ IdleIsNoRun
    BY DEF TypeInv
  <1> USE DEF store, base, history, WatchStep
  <1>2. RunTypeOK' /\ IdleIsNoRun' /\ (\A q \in Process : q # "watch" => run'[q] = run[q])
    <2>1. "watch" \in Process
      BY DEF Process
    <2>2. ASSUME NEW l \in Lead, WatchTake(l)
          PROVE  RunTypeOK' /\ IdleIsNoRun' /\ (\A q \in Process : q # "watch" => run'[q] = run[q])
      BY <1>1, <2>1, <2>2, BeginRun, BeginEffect DEF WatchTake
    <2>3. CASE WatchDone \/ WatchDrops
      BY <1>1, <2>1, <2>3, EndRunRun, EndRunEffect DEF WatchDone, WatchDrops
    <2> QED
      BY <2>2, <2>3
  <1>3. UNCHANGED <<now, inbox, base, fingerprints, backfill, commands, raced, suppressed,
                    draftsBefore>>
    BY DEF WatchTake, WatchDone, WatchDrops
  <1>4. BackfillTypeOK'
    BY <1>1, <1>2, <1>3 DEF BackfillTypeOK, Idle, Process
  <1>5. processed' \in [Lead -> DB!ProcessedVal]
    BY <1>1 DEF TableTypeOK, WatchTake, WatchDone, WatchDrops, Mark, DB!MarkProcessed, OutcomeRow,
                DB!ProcessedVal
  <1>6. reruns' \in [Lead -> Nat]
    BY <1>1 DEF HistoryTypeOK, WatchTake, WatchDone, WatchDrops
  <1>7. faults' \in 0..MaxFaults
    BY FaultTypes DEF TypeInv, WatchTake, WatchDone, WatchDrops
  <1>8. TableTypeOK' /\ HistoryTypeOK'
    BY <1>1, <1>3, <1>5, <1>6, <1>7 DEF TableTypeOK, HistoryTypeOK
  <1> QED
    BY <1>2, <1>4, <1>8 DEF TypeInv

\* The steps of backfill on its own record.
LEMMA BackfillEffects ==
    ASSUME TypeInv, BackfillStep
    PROVE  /\ UNCHANGED <<now, inbox, store, base, raced, suppressed, draftsBefore>>
           /\ faults' = faults \/ Fault
           /\ commands' = commands \/ Command
           /\ backfill' \in BackfillType
           /\ \/ /\ ~backfill.on /\ run' = run /\ reruns' = reruns
                 /\ backfill'.on /\ backfill'.total = 0 /\ backfill'.ran = {}
                 /\ backfill'.scope = {l \in inbox : MailboxOf[l] \in backfill'.boxes}
              \/ /\ backfill.on /\ backfill'.on /\ run' = run /\ reruns' = reruns
                 /\ Idle("backfill")
                 /\ \E b \in Mailbox :
                       backfill' = [backfill EXCEPT !.boxes = @ \ {b},
                                                    !.todo = {l \in inbox : MailboxOf[l] = b}]
                 /\ backfill.todo = {}
              \/ \E l \in Lead : BackfillTake(l) /\ backfill'.on /\ backfill.on
              \/ BackfillDone /\ backfill'.on /\ backfill.on /\ reruns' = reruns
              \/ /\ backfill' = NoBackfill /\ reruns' = reruns
                 /\ (run' = run /\ Idle("backfill")) \/ EndRun("backfill")
  <1> USE DEF store, base, history
  <1>1. backfill \in BackfillType /\ (~backfill.on => backfill = NoBackfill /\ Idle("backfill"))
    BY DEF TypeInv, BackfillTypeOK
  <1>2. ASSUME NEW boxes \in SUBSET Mailbox, NEW limit \in Limits, Backfill(boxes, limit)
        PROVE  /\ ~backfill.on /\ backfill' \in BackfillType
               /\ backfill'.on /\ backfill'.total = 0 /\ backfill'.ran = {}
               /\ backfill'.scope = {l \in inbox : MailboxOf[l] \in backfill'.boxes}
    <2>1. backfill' = [NoBackfill EXCEPT !.on = TRUE, !.boxes = boxes, !.limit = limit,
                                         !.scope = {l \in inbox : MailboxOf[l] \in boxes}]
      BY <1>2 DEF Backfill
    <2>2. limit \in Nat /\ {l \in inbox : MailboxOf[l] \in boxes} \subseteq Lead
      BY HarnessAssumption DEF TypeInv, TableTypeOK
    <2>3. /\ backfill' \in BackfillType
          /\ backfill'.on = TRUE /\ backfill'.boxes = boxes
          /\ backfill'.total = NoBackfill.total /\ backfill'.ran = NoBackfill.ran
          /\ backfill'.scope = {l \in inbox : MailboxOf[l] \in boxes}
      BY <2>1, <2>2, NoBackfillType DEF BackfillType
    <2> QED
      BY <1>2, <2>3, NoBackfillType DEF Backfill
  <1>3. ASSUME NEW b \in Mailbox, BackfillList(b)
        PROVE  backfill' \in BackfillType /\ backfill'.on = backfill.on /\ backfill.on
    <2>1. backfill.on
      BY <1>1, <1>3, NoBackfillType DEF BackfillList
    <2>2. {l \in inbox : MailboxOf[l] = b} \subseteq Lead
      BY DEF TypeInv, TableTypeOK
    <2>3. backfill' = [backfill EXCEPT !.boxes = @ \ {b}, !.todo = {l \in inbox : MailboxOf[l] = b}]
      BY <1>3 DEF BackfillList
    <2> QED
      BY <1>1, <2>1, <2>2, <2>3 DEF BackfillType
  <1>4. ASSUME NEW l \in Lead, BackfillTake(l)
        PROVE  backfill' \in BackfillType /\ backfill'.on = backfill.on /\ backfill.on
    <2>1. backfill.on
      BY <1>1, <1>4, NoBackfillType DEF BackfillTake
    <2>2. PICK todo, ran \in SUBSET Lead :
             backfill' = [backfill EXCEPT !.todo = todo, !.ran = ran]
      <3>1. /\ backfill.todo \subseteq Lead /\ backfill.ran \subseteq Lead
            /\ [backfill EXCEPT !.todo = {}] = [backfill EXCEPT !.todo = {}, !.ran = backfill.ran]
            /\ [backfill EXCEPT !.todo = AfterSeen(l)]
                = [backfill EXCEPT !.todo = AfterSeen(l), !.ran = backfill.ran]
        BY <1>1 DEF BackfillType
      <3>2. AfterSeen(l) \in SUBSET Lead
        BY <3>1 DEF AfterSeen
      <3>3. \/ backfill' = [backfill EXCEPT !.todo = {}]
            \/ backfill' = [backfill EXCEPT !.todo = AfterSeen(l)]
            \/ backfill' = [backfill EXCEPT !.todo = @ \ {l}, !.ran = @ \cup {l}]
        BY <1>4 DEF BackfillTake
      <3> QED
        BY <3>1, <3>2, <3>3
    <2> QED
      BY <1>1, <2>1, <2>2 DEF BackfillType
  <1>5. ASSUME BackfillDone
        PROVE  backfill' \in BackfillType /\ backfill'.on = backfill.on /\ backfill.on
    <2>1. backfill.on
      BY <1>1, <1>5 DEF BackfillDone, Ended, Idle
    <2>2. PICK n \in Nat : backfill' = [backfill EXCEPT !.total = n]
      <3>1. backfill.total \in Nat
        BY <1>1 DEF BackfillType
      <3> QED
        BY <1>5, <3>1 DEF BackfillDone, Counted
    <2> QED
      BY <1>1, <2>1, <2>2 DEF BackfillType
  <1>6. CASE \E boxes \in {Mailbox} \cup {{b} : b \in Mailbox}, limit \in Limits :
                Backfill(boxes, limit)
    <2>1. PICK boxes \in SUBSET Mailbox, limit \in Limits : Backfill(boxes, limit)
      BY <1>6
    <2> QED
      BY <1>2, <2>1 DEF Backfill
  <1>7. CASE \E b \in Mailbox : BackfillList(b)
    BY <1>3, <1>7 DEF BackfillList
  <1>8. CASE \E l \in Lead : BackfillTake(l)
    BY <1>4, <1>8 DEF BackfillTake
  <1>9. CASE BackfillDone
    BY <1>5, <1>9 DEF BackfillDone
  <1>10. CASE BackfillEnd \/ BackfillDies
    BY <1>10, NoBackfillType DEF BackfillEnd, BackfillDies
  <1> QED
    BY <1>6, <1>7, <1>8, <1>9, <1>10 DEF BackfillStep

LEMMA BackfillTypes ==
    ASSUME TypeInv, BackfillStep
    PROVE  TypeInv'
  <1>1. RunTypeOK /\ BackfillTypeOK /\ TableTypeOK /\ HistoryTypeOK /\ IdleIsNoRun
    BY DEF TypeInv
  <1>2. "backfill" \in Process
    BY DEF Process
  <1>3. RunTypeOK' /\ IdleIsNoRun'
    <2>1. CASE run' = run
      BY <1>1, <2>1 DEF RunTypeOK, IdleIsNoRun, Idle
    <2>2. CASE EndRun("backfill")
      BY <1>1, <1>2, <2>2, EndRunRun
    <2>3. CASE \E l \in Lead : Begin("backfill", l)
      BY <1>1, <1>2, <2>3, BeginRun
    <2> QED
      BY <2>1, <2>2, <2>3, BackfillEffects DEF BackfillTake, BackfillDone
  <1>4. BackfillTypeOK'
    <2>1. backfill' \in BackfillType
      BY BackfillEffects
    <2>2. ASSUME ~backfill'.on
          PROVE  backfill' = NoBackfill /\ run'["backfill"].pc = "idle"
      <3>1. /\ backfill' = NoBackfill
            /\ (run' = run /\ Idle("backfill")) \/ EndRun("backfill")
        BY <2>2, BackfillEffects
      <3> QED
        BY <1>1, <1>2, <3>1, EndRunEffect, NoRunType DEF Idle
    <2> QED
      BY <2>1, <2>2 DEF BackfillTypeOK, Idle
  <1>5. reruns' \in [Lead -> Nat]
    <2>1. reruns' = reruns \/ \E l \in Lead : reruns' = [reruns EXCEPT ![l] = @ + 1]
      BY BackfillEffects DEF BackfillTake
    <2> QED
      BY <1>1, <2>1 DEF HistoryTypeOK
  <1>6. commands' \in 0..MaxCommands
    <2>1. commands' = commands \/ Command
      BY BackfillEffects
    <2> QED
      BY <1>1, <2>1, HarnessAssumption DEF HistoryTypeOK, Command
  <1>7. faults' \in 0..MaxFaults
    BY <1>1, FaultTypes, BackfillEffects
  <1>8. TableTypeOK' /\ HistoryTypeOK'
    BY <1>1, <1>5, <1>6, <1>7, BackfillEffects DEF TableTypeOK, HistoryTypeOK, store, base
  <1> QED
    BY <1>3, <1>4, <1>8 DEF TypeInv

LEMMA ReplayTypes ==
    ASSUME TypeInv, ReplayStep
    PROVE  TypeInv'
  <1>1. RunTypeOK /\ BackfillTypeOK /\ TableTypeOK /\ HistoryTypeOK /\ IdleIsNoRun
    BY DEF TypeInv
  <1> USE DEF store, base, history
  <1>2. "replay" \in Process /\ "backfill" \in Process
    BY DEF Process
  <1>3. /\ RunTypeOK' /\ IdleIsNoRun'
        /\ run'["backfill"] = run["backfill"]
    <2>1. ASSUME NEW l \in Lead, Replay(l)
          PROVE  RunTypeOK' /\ IdleIsNoRun' /\ run'["backfill"] = run["backfill"]
      BY <1>1, <1>2, <2>1, BeginRun, BeginEffect DEF Replay
    <2>2. CASE ReplayEnds
      BY <1>1, <1>2, <2>2, EndRunRun, EndRunEffect DEF ReplayEnds
    <2> QED
      BY <2>1, <2>2 DEF ReplayStep
  <1>4. UNCHANGED <<now, inbox, store, base, backfill, raced, suppressed>>
    BY DEF ReplayStep, Replay, ReplayEnds
  <1>5. BackfillTypeOK'
    BY <1>1, <1>3, <1>4 DEF BackfillTypeOK, Idle
  <1>6. reruns' \in [Lead -> Nat] /\ draftsBefore' \in Nat
    BY <1>1 DEF HistoryTypeOK, TableTypeOK, ReplayStep, Replay, ReplayEnds
  <1>7. commands' \in 0..MaxCommands
    BY <1>1, HarnessAssumption DEF HistoryTypeOK, ReplayStep, Replay, ReplayEnds, Command
  <1>8. faults' \in 0..MaxFaults
    BY <1>1, FaultTypes DEF ReplayStep, Replay, ReplayEnds
  <1>9. TableTypeOK' /\ HistoryTypeOK'
    BY <1>1, <1>4, <1>6, <1>7, <1>8 DEF TableTypeOK, HistoryTypeOK
  <1> QED
    BY <1>3, <1>5, <1>9 DEF TypeInv

\* The outside: a delivery, the clock, or nothing.
Outside == (\E l \in Lead : Deliver(l)) \/ Tick \/ UNCHANGED vars

LEMMA OutsideEffects ==
    ASSUME Outside
    PROVE  /\ UNCHANGED <<store, base, run, backfill, faults, commands, history>>
           /\ inbox \subseteq inbox'
  BY DEF Outside, Deliver, Tick, vars

LEMMA OutsideTypes ==
    ASSUME TypeInv, Outside
    PROVE  TypeInv'
  <1>1. inbox' \subseteq Lead /\ now' \in 0..MaxTime
    BY HarnessAssumption DEF TypeInv, TableTypeOK, Outside, Deliver, Tick, vars
  <1>2. RunTypeOK' /\ IdleIsNoRun' /\ BackfillTypeOK'
    BY OutsideEffects DEF TypeInv, RunTypeOK, IdleIsNoRun, BackfillTypeOK, Idle
  <1>3. TableTypeOK' /\ HistoryTypeOK'
    BY <1>1, OutsideEffects DEF TypeInv, TableTypeOK, HistoryTypeOK, store, base, history
  <1> QED
    BY <1>2, <1>3 DEF TypeInv

LEMMA NextCases ==
    [Next]_vars => \/ \E p \in Process : PipelineStep(p)
                   \/ WatchStep \/ BackfillStep \/ ReplayStep \/ Outside
  BY DEF Next, PipelineStep, Outside

LEMMA NextTypeInv == TypeInv /\ [Next]_vars => TypeInv'
  BY NextCases, PipelineTypes, WatchTypes, BackfillTypes, ReplayTypes, OutsideTypes

\* Every variable of the harness keeps its type, and a backfill that is over leaves no run behind.
THEOREM TypeCorrectness == Spec => []TypeOK
  BY InitTypes, NextTypeInv, TypeParts, PTL DEF Spec

LEMMA TypeInvariant == Spec => []TypeInv
  BY InitTypes, NextTypeInv, PTL DEF Spec

-----------------------------------------------------------------------------
(***************************************************************************)
(* Counting processes.                                                     *)
(***************************************************************************)
LEMMA ProcessFinite == IsFiniteSet(Process)
  <1>1. Process = {"watch"} \cup {"backfill"} \cup {"replay"}
    BY DEF Process
  <1> QED
    BY <1>1, FS_Singleton, FS_Union

LEMMA CountProcesses ==
    ASSUME NEW S \in SUBSET Process, NEW T \in SUBSET Process
    PROVE  /\ Cardinality(S) \in Nat
           /\ S = {} => Cardinality(S) = 0
           /\ T \subseteq S => Cardinality(T) <= Cardinality(S)
           /\ \A p \in Process : T \subseteq S \cup {p} => Cardinality(T) <= Cardinality(S) + 1
           /\ \A p \in S : T \subseteq S \ {p} => Cardinality(T) <= Cardinality(S) - 1
  <1>1. IsFiniteSet(S) /\ IsFiniteSet(T)
    BY ProcessFinite, FS_Subset
  <1>2. Cardinality(S) \in Nat /\ Cardinality(T) \in Nat
    BY <1>1, FS_CardinalityType
  <1>3. S = {} => Cardinality(S) = 0
    BY FS_EmptySet
  <1>4. T \subseteq S => Cardinality(T) <= Cardinality(S)
    BY <1>1, FS_Subset
  <1>5. ASSUME NEW p \in Process, T \subseteq S \cup {p}
        PROVE  Cardinality(T) <= Cardinality(S) + 1
    <2>1. /\ IsFiniteSet(S \cup {p})
          /\ Cardinality(S \cup {p}) = Cardinality(S) \/ Cardinality(S \cup {p}) = Cardinality(S) + 1
      BY <1>1, FS_AddElement
    <2>2. Cardinality(T) <= Cardinality(S \cup {p})
      BY <1>5, <2>1, FS_Subset
    <2> QED
      BY <1>2, <2>1, <2>2
  <1>6. ASSUME NEW p \in S, T \subseteq S \ {p}
        PROVE  Cardinality(T) <= Cardinality(S) - 1
    <2>1. IsFiniteSet(S \ {p}) /\ Cardinality(S \ {p}) = Cardinality(S) - 1
      BY <1>1, FS_RemoveElement
    <2> QED
      BY <1>6, <2>1, FS_Subset
  <1> QED
    BY <1>2, <1>3, <1>4, <1>5, <1>6

\* Outside of the pipeline a run is begun, or ended, or left alone.
LEMMA OtherRuns ==
    ASSUME TypeInv, WatchStep \/ BackfillStep \/ ReplayStep \/ Outside
    PROVE  \A p \in Process : run'[p] = run[p] \/ run'[p].pc = "lookup" \/ run'[p] = NoRun
  <1>1. \/ run' = run
        \/ \E p \in Process, l \in Lead : Begin(p, l)
        \/ \E p \in Process : EndRun(p)
    <2>1. "watch" \in Process /\ "backfill" \in Process /\ "replay" \in Process
      BY DEF Process
    <2>2. CASE WatchStep
      BY <2>1, <2>2 DEF WatchStep, WatchTake, WatchDone, WatchDrops
    <2>3. CASE BackfillStep
      BY <2>1, <2>3, BackfillEffects DEF BackfillTake, BackfillDone
    <2>4. CASE ReplayStep
      BY <2>1, <2>4 DEF ReplayStep, Replay, ReplayEnds
    <2>5. CASE Outside
      BY <2>5, OutsideEffects
    <2> QED
      BY <2>2, <2>3, <2>4, <2>5
  <1>2. RunTypeOK
    BY DEF TypeInv
  <1> QED
    BY <1>1, <1>2, BeginEffect, EndRunEffect

-----------------------------------------------------------------------------
(***************************************************************************)
(* Inquiries.                                                              *)
(***************************************************************************)

\* Each process about to insert, but the first, was counted as it missed the row.
InquiryInv == \A l \in Lead : inquiries[l] + Cardinality(Creating(l)) <= 1 + raced[l]

LEMMA CreatingIs ==
    ASSUME NEW r \in Run, NEW l
    PROVE  r = [pc |-> "create", lead |-> l] <=> r.pc = "create" /\ r.lead = l
  BY DEF Run

LEMMA InitInquiries == Init => InquiryInv
  <1> SUFFICES ASSUME Init, NEW l \in Lead PROVE inquiries[l] + Cardinality(Creating(l)) <= 1 + raced[l]
    BY DEF InquiryInv
  <1>1. Creating(l) = {}
    BY NoRunType DEF Init, Creating, NoRun
  <1> QED
    BY <1>1, FS_EmptySet DEF Init

LEMMA NextInquiries == TypeInv /\ InquiryInv /\ [Next]_vars => InquiryInv'
  <1> SUFFICES ASSUME TypeInv, InquiryInv, [Next]_vars, NEW l \in Lead
               PROVE  inquiries'[l] + Cardinality(Creating(l)') <= 1 + raced'[l]
    BY DEF InquiryInv
  <1>1. /\ inquiries[l] \in Nat /\ raced[l] \in Nat
        /\ inquiries[l] + Cardinality(Creating(l)) <= 1 + raced[l]
    BY DEF TypeInv, TableTypeOK, HistoryTypeOK, InquiryInv
  <1>2. /\ Creating(l) \in SUBSET Process /\ Creating(l)' \in SUBSET Process
        /\ Cardinality(Creating(l)) \in Nat /\ Cardinality(Creating(l)') \in Nat
    <2>1. Creating(l) \in SUBSET Process /\ Creating(l)' \in SUBSET Process
      BY DEF Creating
    <2> QED
      BY <2>1, CountProcesses
  <1>3. run \in [Process -> Run] /\ run' \in [Process -> Run]
    BY NextTypeInv DEF TypeInv, RunTypeOK
  <1>4. \A p \in Process : /\ p \in Creating(l) <=> run[p].pc = "create" /\ run[p].lead = l
                           /\ p \in Creating(l)' <=> run'[p].pc = "create" /\ run'[p].lead = l
    BY <1>3, CreatingIs DEF Creating
  <1>5. CASE inquiries' = inquiries /\ raced' = raced /\ Creating(l)' \subseteq Creating(l)
    <2>1. Cardinality(Creating(l)') <= Cardinality(Creating(l))
      BY <1>2, <1>5, CountProcesses
    <2> QED
      BY <1>1, <1>2, <1>5, <2>1
  <1>6. CASE WatchStep \/ BackfillStep \/ ReplayStep \/ Outside
    <2>1. inquiries' = inquiries /\ raced' = raced
      BY <1>6, BackfillEffects, OutsideEffects
      DEF WatchStep, WatchTake, WatchDone, WatchDrops, ReplayStep, Replay, ReplayEnds, base, history
    <2>2. Creating(l)' \subseteq Creating(l)
      BY <1>2, <1>4, <1>6, OtherRuns, NoRunType
    <2> QED
      BY <1>5, <2>1, <2>2
  <1>7. ASSUME NEW p \in Process, PipelineStep(p)
        PROVE  inquiries'[l] + Cardinality(Creating(l)') <= 1 + raced'[l]
    <2>1. /\ run[p].lead \in Lead
          /\ run'[p].lead = run[p].lead
          /\ \A q \in Process : q # p => run'[q] = run[q]
      BY <1>7, PipelineRun DEF TypeInv
    <2>2. ASSUME NEW pc \in Pc, Goto(p, pc) PROVE run'[p].pc = pc
      BY <2>2, GotoEffect DEF TypeInv
    <2>3. CASE run[p].lead # l
      <3>1. inquiries'[l] = inquiries[l] /\ raced'[l] = raced[l]
        BY <1>7, <2>3, PipelineEffects DEF AddInquiry, AddDraft, base, TypeInv, TableTypeOK,
           HistoryTypeOK
      <3>2. Creating(l)' \subseteq Creating(l)
        BY <1>2, <1>4, <2>1, <2>3
      <3>3. Cardinality(Creating(l)') <= Cardinality(Creating(l))
        BY <1>2, <3>2, CountProcesses
      <3> QED
        BY <1>1, <1>2, <3>1, <3>3
    <2>4. CASE run[p].lead = l /\ run[p].pc = "find" /\ Goto(p, "create")
      <3>1. /\ inquiries[l] = 0 /\ inquiries' = inquiries
            /\ raced' = IF Creating(l) = {} THEN raced ELSE [raced EXCEPT ![l] = @ + 1]
        <4>1. ~Goto(p, "draft") /\ ~Goto(p, "raise")
          BY <2>2, <2>4 DEF Pc
        <4> QED
          BY <1>7, <2>4, <4>1, PipelineEffects DEF base, Before
      <3>2. Creating(l)' \subseteq Creating(l) \cup {p}
        BY <1>2, <1>4, <2>1
      <3>3. Cardinality(Creating(l)') <= Cardinality(Creating(l)) + 1
        BY <1>2, <3>2, CountProcesses
      <3>4. CASE Creating(l) = {}
        <4>1. Cardinality(Creating(l)) = 0
          BY <1>2, <3>4, CountProcesses
        <4> QED
          BY <1>1, <1>2, <3>1, <3>3, <3>4, <4>1
      <3>5. CASE Creating(l) # {}
        <4>1. raced'[l] = raced[l] + 1
          BY <3>1, <3>5 DEF TypeInv, HistoryTypeOK
        <4> QED
          BY <1>1, <1>2, <3>1, <3>3, <4>1
      <3> QED
        BY <3>4, <3>5
    <2>5. CASE /\ run[p].lead = l /\ run[p].pc = "create" /\ AddInquiry(l)
               /\ Goto(p, "draft") \/ Goto(p, "raise")
               /\ raced' = raced
      <3>1. inquiries'[l] = inquiries[l] + 1
        BY <2>5 DEF AddInquiry, TypeInv, TableTypeOK
      <3>2. run'[p].pc # "create" /\ p \in Creating(l)
        BY <1>4, <2>2, <2>5 DEF Pc
      <3>3. Creating(l)' \subseteq Creating(l) \ {p}
        BY <1>2, <1>4, <2>1, <3>2
      <3>4. Cardinality(Creating(l)') <= Cardinality(Creating(l)) - 1
        BY <1>2, <3>2, <3>3, CountProcesses
      <3> QED
        BY <1>1, <1>2, <2>5, <3>1, <3>4
    <2>6. CASE /\ run[p].lead = l
               /\ ~(run[p].pc = "find" /\ Goto(p, "create"))
               /\ ~(run[p].pc = "create" /\ AddInquiry(l) /\ (Goto(p, "draft") \/ Goto(p, "raise")))
      <3>1. inquiries' = inquiries /\ raced' = raced
        BY <1>7, <2>6, PipelineEffects DEF base, AddDraft
      <3>2. run'[p].pc # "create"
        <4>1. PICK pc \in Pc \ {"create"} : Goto(p, pc)
          BY <1>7, <2>6, PipelineEffects DEF Pc, AfterDraft
        <4> QED
          BY <2>2, <4>1
      <3>3. Creating(l)' \subseteq Creating(l)
        BY <1>2, <1>4, <2>1, <3>2
      <3> QED
        BY <1>5, <3>1, <3>3
    <2>7. CASE run[p].lead = l /\ run[p].pc = "create" /\ raced' # raced
      BY <1>7, <2>7, PipelineEffects
    <2> QED
      BY <2>3, <2>4, <2>5, <2>6, <2>7
  <1> QED
    BY <1>6, <1>7, NextCases

\* A lead has a second row of Inquiries only for a time that two processes missed it at once, with
\* any number of failures, kills and commands (airtable.py:292-313).
THEOREM OneInquiryUnlessRacedCorrect == Spec => []OneInquiryUnlessRaced
  <1>1. TypeInv /\ InquiryInv => OneInquiryUnlessRaced
    <2> SUFFICES ASSUME TypeInv, InquiryInv, NEW l \in Lead PROVE inquiries[l] <= 1 + raced[l]
      BY DEF OneInquiryUnlessRaced
    <2>1. Creating(l) \in SUBSET Process
      BY DEF Creating
    <2>2. Cardinality(Creating(l)) \in Nat
      BY <2>1, CountProcesses
    <2>3. inquiries[l] \in Nat /\ raced[l] \in Nat
      BY DEF TypeInv, TableTypeOK, HistoryTypeOK
    <2> QED
      BY <2>2, <2>3 DEF InquiryInv
  <1>2. TypeInv /\ InquiryInv /\ [Next]_vars => TypeInv' /\ InquiryInv'
    BY NextTypeInv, NextInquiries
  <1> QED
    BY InitTypes, InitInquiries, <1>1, <1>2, PTL DEF Spec

-----------------------------------------------------------------------------
(***************************************************************************)
(* Drafts.                                                                 *)
(***************************************************************************)

\* The processes whose run of lead l may still write a draft, and the run that watch owes it.
Pending(l) == {p \in Process : run[p].lead = l /\ run[p].pc \in Before}

Owed(l) == IF processed[l] = "no" /\ run["watch"].lead # l THEN 1 ELSE 0

DraftsInv == \A l \in Lead : drafts[l] + Cardinality(Pending(l)) + Owed(l) <= 1 + reruns[l]

LEMMA InitDrafts == Init => DraftsInv
  <1> SUFFICES ASSUME Init, NEW l \in Lead
               PROVE  drafts[l] + Cardinality(Pending(l)) + Owed(l) <= 1 + reruns[l]
    BY DEF DraftsInv
  <1>1. Pending(l) = {}
    BY NoRunType DEF Init, Pending, Before
  <1>2. Cardinality(Pending(l)) = 0 /\ Owed(l) \in 0..1
    BY <1>1, FS_EmptySet DEF Owed
  <1> QED
    BY <1>2 DEF Init

\* The watch loop: a run is owed, begun, and settled or dropped.
LEMMA WatchOwes ==
    ASSUME TypeInv, WatchStep, NEW l \in Lead
    PROVE  \/ Pending(l)' \subseteq Pending(l) /\ Owed(l)' <= Owed(l) /\ reruns'[l] = reruns[l]
           \/ /\ Pending(l)' \subseteq Pending(l) \cup {"watch"}
              /\ Owed(l) = 1 /\ Owed(l)' = 0
              /\ reruns'[l] = reruns[l]
           \/ Pending(l)' \subseteq Pending(l) /\ Owed(l) = 0 /\ reruns'[l] = reruns[l] + 1
  <1>1. "watch" \in Process /\ NoLead \notin Lead
    BY HarnessAssumption DEF Process
  <1>2. RunTypeOK /\ IdleIsNoRun /\ processed \in [Lead -> DB!ProcessedVal] /\ reruns \in [Lead -> Nat]
    BY DEF TypeInv, TableTypeOK, HistoryTypeOK
  <1> USE DEF Pending, store, base, history
  <1>3. ASSUME NEW k \in Lead, WatchTake(k)
        PROVE  \/ Pending(l)' \subseteq Pending(l) /\ Owed(l)' <= Owed(l)
               \/ /\ Pending(l)' \subseteq Pending(l) \cup {"watch"}
                  /\ Owed(l) = 1 /\ Owed(l)' = 0
    <2>1. /\ run["watch"].lead = NoLead /\ run'["watch"].lead = k
          /\ processed[k] = "no" /\ processed' = processed
          /\ \A q \in Process : q # "watch" => run'[q] = run[q]
      BY <1>1, <1>2, <1>3, BeginEffect, NoRunType DEF WatchTake, IdleIsNoRun, Seen, DB!WasProcessed
    <2>2. Pending(l)' \subseteq Pending(l) \cup {"watch"}
      BY <2>1
    <2>3. CASE k = l
      BY <1>1, <2>1, <2>2, <2>3 DEF Owed
    <2>4. CASE k # l
      <3>1. Pending(l)' \subseteq Pending(l)
        BY <1>1, <2>1, <2>4
      <3>2. Owed(l)' = Owed(l)
        BY <1>1, <2>1, <2>4 DEF Owed
      <3>3. Owed(l) \in Int
        BY DEF Owed
      <3> QED
        BY <3>1, <3>2, <3>3
    <2> QED
      BY <2>3, <2>4
  <1>4. CASE WatchDone
    <2> DEFINE k == run["watch"].lead
    <2>1. /\ k \in Lead
          /\ run'["watch"] = NoRun
          /\ \A q \in Process : q # "watch" => run'[q] = run[q]
          /\ reruns' = reruns
      BY <1>1, <1>2, <1>4, EndRunEffect DEF WatchDone, Ended, RunTypeOK, Idle
    <2>2. processed' = [processed EXCEPT ![k] = OutcomeRow] /\ OutcomeRow # "no"
      BY <1>4 DEF WatchDone, Mark, DB!MarkProcessed, OutcomeRow
    <2>3. Pending(l)' \subseteq Pending(l)
      BY <2>1, NoRunType DEF Before
    <2>4. Owed(l)' <= Owed(l)
      BY <1>1, <1>2, <2>1, <2>2, NoRunType DEF Owed
    <2> QED
      BY <2>1, <2>3, <2>4
  <1>5. CASE WatchDrops
    <2> DEFINE k == run["watch"].lead
    <2>1. /\ k \in Lead
          /\ run'["watch"] = NoRun
          /\ \A q \in Process : q # "watch" => run'[q] = run[q]
          /\ processed' = processed
          /\ reruns' = [reruns EXCEPT ![k] = @ + 1]
      BY <1>1, <1>2, <1>5, EndRunEffect DEF WatchDrops, RunTypeOK
    <2>2. Pending(l)' \subseteq Pending(l)
      BY <2>1, NoRunType DEF Before
    <2>3. CASE k = l
      BY <1>2, <2>1, <2>2, <2>3 DEF Owed
    <2>4. CASE k # l
      <3>1. Owed(l)' = Owed(l) /\ Owed(l) \in Int
        BY <1>1, <2>1, <2>4, NoRunType DEF Owed
      <3> QED
        BY <1>2, <2>1, <2>2, <2>4, <3>1
    <2> QED
      BY <2>3, <2>4
  <1>6. ASSUME NEW k \in Lead, WatchTake(k) PROVE reruns'[l] = reruns[l]
    BY <1>6 DEF WatchTake
  <1> QED
    BY <1>3, <1>4, <1>5, <1>6 DEF WatchStep

\* A command that begins a run of the lead has counted it.
LEMMA CommandOwes ==
    ASSUME TypeInv, BackfillStep \/ ReplayStep, NEW l \in Lead
    PROVE  /\ Owed(l)' = Owed(l)
           /\ \/ Pending(l)' \subseteq Pending(l) /\ reruns'[l] = reruns[l]
              \/ /\ \E p \in Process : Pending(l)' \subseteq Pending(l) \cup {p}
                 /\ reruns'[l] = reruns[l] + 1
  <1>1. "backfill" \in Process /\ "replay" \in Process /\ "watch" \in Process
    BY DEF Process
  <1>2. RunTypeOK /\ reruns \in [Lead -> Nat]
    BY DEF TypeInv, HistoryTypeOK
  <1> USE DEF Pending
  <1>3. \/ run' = run /\ reruns' = reruns
        \/ \E p \in {"backfill", "replay"} : EndRun(p) /\ reruns' = reruns
        \/ \E p \in {"backfill", "replay"}, k \in Lead :
              Begin(p, k) /\ reruns' = [reruns EXCEPT ![k] = @ + 1]
    <2>1. CASE BackfillStep
      BY <2>1, BackfillEffects DEF BackfillTake, BackfillDone
    <2>2. CASE ReplayStep
      BY <2>2 DEF ReplayStep, Replay, ReplayEnds
    <2> QED
      BY <2>1, <2>2
  <1>4. processed' = processed
    BY BackfillEffects DEF ReplayStep, Replay, ReplayEnds, store
  <1>5. CASE run' = run /\ reruns' = reruns
    BY <1>4, <1>5 DEF Owed
  <1>6. ASSUME NEW p \in {"backfill", "replay"}, EndRun(p), reruns' = reruns
        PROVE  Pending(l)' \subseteq Pending(l) /\ Owed(l)' = Owed(l)
    <2>1. /\ run'[p] = NoRun
          /\ \A q \in Process : q # p => run'[q] = run[q]
      BY <1>1, <1>2, <1>6, EndRunEffect
    <2>2. run'["watch"] = run["watch"]
      BY <1>1, <2>1
    <2> QED
      BY <1>4, <2>1, <2>2, NoRunType DEF Owed, Before
  <1>7. ASSUME NEW p \in {"backfill", "replay"}, NEW k \in Lead, Begin(p, k),
               reruns' = [reruns EXCEPT ![k] = @ + 1]
        PROVE  /\ Owed(l)' = Owed(l)
               /\ \/ Pending(l)' \subseteq Pending(l) /\ reruns'[l] = reruns[l]
                  \/ Pending(l)' \subseteq Pending(l) \cup {p} /\ reruns'[l] = reruns[l] + 1
    <2>1. /\ run'[p].lead = k
          /\ \A q \in Process : q # p => run'[q] = run[q]
      BY <1>1, <1>2, <1>7, BeginEffect
    <2>2. run'["watch"] = run["watch"]
      BY <1>1, <2>1
    <2>3. Owed(l)' = Owed(l)
      BY <1>4, <2>2 DEF Owed
    <2>4. CASE k = l
      <3>1. Pending(l)' \subseteq Pending(l) \cup {p}
        BY <2>1
      <3>2. reruns'[l] = reruns[l] + 1
        BY <1>2, <1>7, <2>4
      <3> QED
        BY <2>3, <3>1, <3>2
    <2>5. CASE k # l
      <3>1. Pending(l)' \subseteq Pending(l)
        BY <2>1, <2>5
      <3>2. reruns'[l] = reruns[l]
        BY <1>2, <1>7, <2>5
      <3> QED
        BY <2>3, <3>1, <3>2
    <2> QED
      BY <2>4, <2>5
  <1> QED
    BY <1>1, <1>3, <1>5, <1>6, <1>7

LEMMA NextDrafts == TypeInv /\ DraftsInv /\ [Next]_vars => DraftsInv'
  <1> SUFFICES ASSUME TypeInv, DraftsInv, [Next]_vars, NEW l \in Lead
               PROVE  drafts'[l] + Cardinality(Pending(l)') + Owed(l)' <= 1 + reruns'[l]
    BY DEF DraftsInv
  <1>1. /\ drafts[l] \in Nat /\ reruns[l] \in Nat
        /\ Owed(l) \in 0..1 /\ Owed(l)' \in 0..1
        /\ drafts[l] + Cardinality(Pending(l)) + Owed(l) <= 1 + reruns[l]
    BY DEF TypeInv, TableTypeOK, HistoryTypeOK, DraftsInv, Owed
  <1>2. /\ Pending(l) \in SUBSET Process /\ Pending(l)' \in SUBSET Process
        /\ Cardinality(Pending(l)) \in Nat /\ Cardinality(Pending(l)') \in Nat
    <2>1. Pending(l) \in SUBSET Process /\ Pending(l)' \in SUBSET Process
      BY DEF Pending
    <2> QED
      BY <2>1, CountProcesses
  <1>3. /\ Pending(l)' \subseteq Pending(l) => Cardinality(Pending(l)') <= Cardinality(Pending(l))
        /\ \A p \in Process : Pending(l)' \subseteq Pending(l) \cup {p} =>
              Cardinality(Pending(l)') <= Cardinality(Pending(l)) + 1
        /\ \A p \in Pending(l) : Pending(l)' \subseteq Pending(l) \ {p} =>
              Cardinality(Pending(l)') <= Cardinality(Pending(l)) - 1
    BY <1>2, CountProcesses
  <1>4. CASE WatchStep
    <2>1. drafts' = drafts /\ "watch" \in Process
      BY <1>4 DEF WatchStep, WatchTake, WatchDone, WatchDrops, base, Process
    <2> QED
      BY <1>1, <1>2, <1>3, <1>4, <2>1, WatchOwes
  <1>5. CASE BackfillStep \/ ReplayStep
    <2>1. drafts' = drafts
      BY <1>5, BackfillEffects DEF ReplayStep, Replay, ReplayEnds, base
    <2> QED
      BY <1>1, <1>2, <1>3, <1>5, <2>1, CommandOwes
  <1>6. CASE Outside
    <2>1. drafts' = drafts /\ reruns' = reruns /\ Pending(l)' = Pending(l) /\ Owed(l)' = Owed(l)
      BY <1>6, OutsideEffects DEF base, store, history, Pending, Owed
    <2> QED
      BY <1>1, <2>1
  <1>7. ASSUME NEW p \in Process, PipelineStep(p)
        PROVE  drafts'[l] + Cardinality(Pending(l)') + Owed(l)' <= 1 + reruns'[l]
    <2>1. /\ run'[p].lead = run[p].lead
          /\ \A q \in Process : q # p => run'[q] = run[q]
          /\ reruns' = reruns /\ processed' = processed
      BY <1>7, PipelineRun, PipelineEffects DEF TypeInv
    <2>2. Owed(l)' = Owed(l)
      BY <2>1 DEF Owed, Process
    <2>3. \/ drafts' = drafts
          \/ /\ run[p].pc = "draft" /\ AddDraft(run[p].lead)
             /\ Goto(p, AfterDraft(run[p].lead)) \/ Goto(p, "raise")
      BY <1>7, PipelineEffects DEF base, AddInquiry
    <2>4. run[p].pc \in Before \/ run'[p].pc \notin Before
      <3>1. run[p].pc \in Before \/ Goto(p, "return")
        BY <1>7, PipelineEffects DEF Before
      <3> QED
        BY <3>1, GotoEffect DEF TypeInv, Pc, Before
    <2>5. Pending(l)' \subseteq Pending(l)
      BY <2>1, <2>4 DEF Pending
    <2>6. CASE drafts'[l] = drafts[l]
      BY <1>1, <1>2, <1>3, <2>1, <2>2, <2>5, <2>6
    <2>7. CASE drafts'[l] # drafts[l]
      <3>1. /\ run[p].pc = "draft" /\ AddDraft(run[p].lead)
            /\ Goto(p, AfterDraft(run[p].lead)) \/ Goto(p, "raise")
        BY <2>3, <2>7
      <3>2. run[p].lead = l /\ drafts'[l] = drafts[l] + 1
        BY <2>7, <3>1 DEF AddDraft, TypeInv, TableTypeOK
      <3>3. PICK pc \in {"record", "return", "raise"} : Goto(p, pc)
        BY <3>1 DEF AfterDraft
      <3>4. run'[p].pc \notin Before
        BY <3>3, GotoEffect DEF TypeInv, Pc, Before
      <3>5. p \in Pending(l) /\ Pending(l)' \subseteq Pending(l) \ {p}
        BY <2>5, <3>1, <3>2, <3>4 DEF Pending, Before
      <3> QED
        BY <1>1, <1>2, <1>3, <2>1, <2>2, <3>2, <3>5
    <2> QED
      BY <2>6, <2>7
  <1> QED
    BY <1>4, <1>5, <1>6, <1>7, NextCases

\* watch drafts a lead once; every further draft is that of a command, or follows a run of watch
\* that was cut short before its row (poller.py:208-228, runner.py:95-107).
THEOREM WatchDraftsOnceCorrect == Spec => []WatchDraftsOnce
  <1>1. TypeInv /\ DraftsInv => WatchDraftsOnce
    <2> SUFFICES ASSUME TypeInv, DraftsInv, NEW l \in Lead PROVE drafts[l] <= 1 + reruns[l]
      BY DEF WatchDraftsOnce
    <2>1. Pending(l) \in SUBSET Process
      BY DEF Pending
    <2>2. Cardinality(Pending(l)) \in Nat /\ Owed(l) \in 0..1
      BY <2>1, CountProcesses DEF Owed
    <2>3. drafts[l] \in Nat /\ reruns[l] \in Nat
      BY DEF TypeInv, TableTypeOK, HistoryTypeOK
    <2> QED
      BY <2>2, <2>3 DEF DraftsInv
  <1>2. TypeInv /\ DraftsInv /\ [Next]_vars => TypeInv' /\ DraftsInv'
    BY NextTypeInv, NextDrafts
  <1> QED
    BY InitTypes, InitDrafts, <1>1, <1>2, PTL DEF Spec

-----------------------------------------------------------------------------
(***************************************************************************)
(* Suppression and replay.                                                 *)
(***************************************************************************)

\* No step takes a draft back.
LEMMA DraftsGrow ==
    ASSUME TypeInv, [Next]_vars, NEW l \in Lead
    PROVE  drafts[l] \in Nat /\ drafts'[l] >= drafts[l]
  <1>1. drafts \in [Lead -> Nat]
    BY DEF TypeInv, TableTypeOK
  <1>2. drafts' = drafts \/ \E k \in Lead : AddDraft(k)
    <2>1. CASE WatchStep \/ BackfillStep \/ ReplayStep \/ Outside
      BY <2>1, BackfillEffects, OutsideEffects
      DEF WatchStep, WatchTake, WatchDone, WatchDrops, ReplayStep, Replay, ReplayEnds, base
    <2>2. ASSUME NEW p \in Process, PipelineStep(p)
          PROVE  drafts' = drafts \/ \E k \in Lead : AddDraft(k)
      BY <2>2, PipelineEffects, PipelineRun DEF base, AddInquiry, TypeInv
    <2> QED
      BY <2>1, <2>2, NextCases
  <1> QED
    BY <1>1, <1>2 DEF AddDraft

\* A recorded row is of a lead that can be answered, and has its draft.
RecordedIsDrafted ==
    \A r \in fingerprints : /\ r.msg \in Answerable /\ drafts[r.msg] > 0
                             /\ r.mailbox = MailboxOf[r.msg]
                             /\ r.fingerprint = FingerprintOf[r.msg]

\* A run about to record has written its draft.
RecordHasDraft ==
    \A p \in Process : run[p].pc = "record" =>
        run[p].lead \in Answerable /\ drafts[run[p].lead] > 0

SuppressionInv == RecordedIsDrafted /\ RecordHasDraft /\ SuppressedHasDraft

LEMMA InitSuppression == Init => SuppressionInv
  BY NoRunType DEF Init, SuppressionInv, RecordedIsDrafted, RecordHasDraft, SuppressedHasDraft

LEMMA NextSuppression == TypeInv /\ SuppressionInv /\ [Next]_vars => SuppressionInv'
  <1> SUFFICES ASSUME TypeInv, SuppressionInv, [Next]_vars PROVE SuppressionInv'
    OBVIOUS
  <1> USE DEF SuppressionInv
  <1>1. \A l \in Lead : drafts[l] \in Nat /\ drafts'[l] >= drafts[l] /\ drafts'[l] \in Nat
    <2>1. drafts' \in [Lead -> Nat]
      BY NextTypeInv DEF TypeInv, TableTypeOK
    <2> QED
      BY <2>1, DraftsGrow
  <1>2. Answerable \subseteq Lead /\ (\A r \in fingerprints : r.msg \in Lead)
    BY HarnessAssumption DEF TypeInv, TableTypeOK, Row
  <1>3. \A l \in Answerable : drafts[l] > 0 => drafts'[l] > 0
    BY <1>1, <1>2
  <1>4. CASE WatchStep \/ BackfillStep \/ ReplayStep \/ Outside
    <2>1. fingerprints' = fingerprints /\ suppressed' = suppressed
      BY <1>4, BackfillEffects, OutsideEffects
      DEF WatchStep, WatchTake, WatchDone, WatchDrops, ReplayStep, Replay, ReplayEnds, store, history
    <2>2. \A p \in Process : run'[p].pc = "record" => run'[p] = run[p]
      BY <1>4, OtherRuns, NoRunType
    <2>3. RecordedIsDrafted'
      BY <1>3, <2>1 DEF RecordedIsDrafted
    <2>4. RecordHasDraft'
      BY <1>3, <2>2 DEF RecordHasDraft
    <2>5. SuppressedHasDraft'
      BY <1>3, <2>1 DEF SuppressedHasDraft
    <2> QED
      BY <2>3, <2>4, <2>5
  <1>5. ASSUME NEW p \in Process, PipelineStep(p)
        PROVE  SuppressionInv'
    <2> DEFINE l == run[p].lead
    <2>1. /\ l \in Lead
          /\ run'[p].lead = l
          /\ \A q \in Process : q # p => run'[q] = run[q]
      BY <1>5, PipelineRun DEF TypeInv
    <2>2. RecordedIsDrafted'
      <3>1. fingerprints' = fingerprints
            \/ (run[p].pc = "record" /\ fingerprints' = Recorded(l))
        BY <1>5, PipelineEffects
      <3>2. CASE fingerprints' = fingerprints
        BY <1>3, <3>2 DEF RecordedIsDrafted
      <3>3. CASE run[p].pc = "record" /\ fingerprints' = Recorded(l)
        <4>1. l \in Answerable /\ drafts[l] > 0
          BY <3>3 DEF RecordHasDraft
        <4>2. \A r \in fingerprints' :
                 r \in fingerprints \/ (/\ r.msg = l /\ r.mailbox = MailboxOf[l]
                                        /\ r.fingerprint = FingerprintOf[l])
          BY <3>3 DEF Recorded, DB!RecordReply
        <4> QED
          BY <1>3, <4>1, <4>2 DEF RecordedIsDrafted
      <3> QED
        BY <3>1, <3>2, <3>3
    <2>3. RecordHasDraft'
      <3>1. ASSUME run'[p].pc = "record" PROVE l \in Answerable /\ drafts'[l] > 0
        <4>1. run[p].pc = "draft" /\ AddDraft(l) /\ Goto(p, AfterDraft(l))
          <5>1. \A pc \in Pc : Goto(p, pc) => run'[p].pc = pc
            BY GotoEffect DEF TypeInv
          <5>2. ~Goto(p, "return") /\ ~Goto(p, "find") /\ ~Goto(p, "draft")
                /\ ~Goto(p, "create") /\ ~Goto(p, "raise")
            BY <3>1, <5>1 DEF Pc
          <5> QED
            BY <1>5, <5>2, PipelineEffects
        <4>2. l \in Answerable
          <5>1. l \notin Answerable => Goto(p, "return")
            BY <4>1 DEF AfterDraft
          <5>2. Goto(p, "return") => run'[p].pc = "return"
            BY GotoEffect DEF TypeInv, Pc
          <5> QED
            BY <3>1, <5>1, <5>2
        <4>3. drafts'[l] = drafts[l] + 1
          BY <2>1, <4>1 DEF AddDraft, TypeInv, TableTypeOK
        <4> QED
          BY <1>1, <2>1, <4>2, <4>3
      <3> QED
        BY <1>3, <2>1, <3>1 DEF RecordHasDraft
    <2>4. SuppressedHasDraft'
      <3>1. suppressed' = suppressed \/ (Copied(l) /\ suppressed' = suppressed \cup {l})
        BY <1>5, PipelineEffects
      <3>2. ASSUME Copied(l)
            PROVE  \E k \in Answerable \ {l} :
                      /\ MailboxOf[k] = MailboxOf[l] /\ FingerprintOf[k] = FingerprintOf[l]
                      /\ drafts[k] > 0
        BY <3>2 DEF Copied, DB!RecentDuplicate, RecordedIsDrafted
      <3> QED
        BY <1>3, <3>1, <3>2 DEF SuppressedHasDraft
    <2> QED
      BY <2>2, <2>3, <2>4
  <1> QED
    BY <1>4, <1>5, NextCases

\* A lead is suppressed only as the copy of one that has a draft with a recipient, whichever of
\* the two processes that share the store recorded it (process_lead.py:489, airtable.py:342-396).
THEOREM SuppressedHasDraftCorrect == Spec => []SuppressedHasDraft
  <1>1. TypeInv /\ SuppressionInv /\ [Next]_vars => TypeInv' /\ SuppressionInv'
    BY NextTypeInv, NextSuppression
  <1>2. SuppressionInv => SuppressedHasDraft
    BY DEF SuppressionInv
  <1> QED
    BY InitTypes, InitSuppression, <1>1, <1>2, PTL DEF Spec

-----------------------------------------------------------------------------
\* What a replay still has to write, and what it has written.
ReplayInv ==
    LET r == run["replay"] IN
    /\ r.pc \in Before => drafts[r.lead] >= draftsBefore
    /\ r.pc \in {"record", "return"} => drafts[r.lead] > draftsBefore

LEMMA NextReplay == TypeInv /\ ReplayInv /\ [Next]_vars => ReplayInv'
  <1> SUFFICES ASSUME TypeInv, ReplayInv, [Next]_vars PROVE ReplayInv'
    OBVIOUS
  <1> DEFINE r == run["replay"]
  <1>0. "replay" \in Process /\ "watch" \in Process /\ "backfill" \in Process
    BY DEF Process
  <1>1. /\ drafts \in [Lead -> Nat] /\ drafts' \in [Lead -> Nat] /\ draftsBefore \in Nat
        /\ RunTypeOK
        /\ r.pc # "idle" => r.lead \in Lead
    BY <1>0, NextTypeInv DEF TypeInv, TableTypeOK, HistoryTypeOK, RunTypeOK, Idle
  <1>2. \A l \in Lead : drafts'[l] >= drafts[l]
    BY DraftsGrow
  <1>3. CASE draftsBefore' = draftsBefore /\ run'["replay"] = r
    BY <1>1, <1>2, <1>3 DEF ReplayInv, Before
  <1>4. CASE ReplayEnds
    BY <1>0, <1>1, <1>4, EndRunEffect, NoRunType DEF ReplayEnds, ReplayInv, Before
  <1>5. ASSUME NEW l \in Lead, Replay(l)
        PROVE  ReplayInv'
    <2>1. run'["replay"].pc = "lookup" /\ run'["replay"].lead = l
      BY <1>0, <1>1, <1>5, BeginEffect DEF Replay
    <2>2. drafts' = drafts /\ draftsBefore' = drafts[l]
      BY <1>5 DEF Replay, base
    <2> QED
      BY <1>1, <2>1, <2>2 DEF ReplayInv
  <1>6. CASE PipelineStep("replay")
    <2>1. /\ run'["replay"].lead = r.lead /\ r.lead \in Lead /\ draftsBefore' = draftsBefore
      BY <1>0, <1>6, PipelineRun, PipelineEffects DEF TypeInv
    <2>2. \A pc \in Pc : Goto("replay", pc) => run'["replay"].pc = pc
      BY <1>0, <1>1, GotoEffect
    <2>3. CASE r.pc = "draft" /\ AddDraft(r.lead)
      <3>1. drafts'[r.lead] = drafts[r.lead] + 1
        BY <1>1, <2>1, <2>3 DEF AddDraft
      <3> QED
        BY <1>1, <2>1, <2>3, <3>1 DEF ReplayInv, Before
    <2>4. CASE r.pc = "record"
      BY <1>1, <1>2, <2>1, <2>4 DEF ReplayInv, Before
    <2>5. CASE r.pc \in {"lookup", "find", "create"} \/ (r.pc = "draft" /\ ~AddDraft(r.lead))
      <3>1. PICK pc \in {"find", "create", "draft", "raise"} : Goto("replay", pc)
        BY <1>0, <1>6, <2>5, PipelineEffects DEF UsesStore
      <3>2. run'["replay"].pc \notin {"record", "return"}
        BY <2>2, <3>1 DEF Pc
      <3> QED
        BY <1>1, <1>2, <2>1, <2>5, <3>2 DEF ReplayInv, Before
    <2> QED
      BY <1>0, <1>6, <2>3, <2>4, <2>5, PipelineEffects
  <1>7. ASSUME NEW p \in Process, PipelineStep(p), p # "replay"
        PROVE  draftsBefore' = draftsBefore /\ run'["replay"] = r
    BY <1>0, <1>7, PipelineRun, PipelineEffects DEF TypeInv
  <1>8. CASE WatchStep
    BY <1>0, <1>1, <1>3, <1>8, BeginEffect, EndRunEffect
    DEF WatchStep, WatchTake, WatchDone, WatchDrops, history
  <1>9. CASE BackfillStep
    <2>1. draftsBefore' = draftsBefore
      BY <1>9, BackfillEffects
    <2>2. run' = run \/ EndRun("backfill") \/ \E l \in Lead : Begin("backfill", l)
      BY <1>9, BackfillEffects DEF BackfillTake, BackfillDone
    <2> QED
      BY <1>0, <1>1, <1>3, <2>1, <2>2, BeginEffect, EndRunEffect
  <1>10. CASE Outside
    BY <1>3, <1>10, OutsideEffects DEF history
  <1> QED
    BY <1>3, <1>4, <1>5, <1>6, <1>7, <1>8, <1>9, <1>10, NextCases DEF ReplayStep

\* A replay that ends well has drafted its lead anew: neither the rows nor the fingerprints of the
\* store it must not use can stop it (runner.py:111-121, pipeline.py's NoopDedup).
THEOREM ReplayDraftsCorrect == Spec => []ReplayDrafts
  <1>1. Init => ReplayInv
    BY NoRunType DEF Init, ReplayInv, Before, Process
  <1>2. TypeInv /\ ReplayInv /\ [Next]_vars => TypeInv' /\ ReplayInv'
    BY NextTypeInv, NextReplay
  <1>3. ReplayInv => ReplayDrafts
    BY DEF ReplayInv, ReplayDrafts
  <1> QED
    BY InitTypes, <1>1, <1>2, <1>3, PTL DEF Spec

-----------------------------------------------------------------------------
(***************************************************************************)
(* Backfill.                                                               *)
(***************************************************************************)

\* What has been run is counted, or is being run.
CountInv ==
    /\ IsFiniteSet(backfill.ran)
    /\ Cardinality(backfill.ran) <= backfill.limit
    /\ Cardinality(backfill.ran) <= backfill.total + (IF Idle("backfill") THEN 0 ELSE 1)

\* What lay in the window is behind the backfill, in the mailbox at hand, or in one to come.
CoverInv ==
    /\ backfill.scope \subseteq inbox
    /\ backfill.on /\ backfill.total < backfill.limit =>
          \A l \in backfill.scope : \/ Seen(l) \/ l \in backfill.ran
                                    \/ l \in backfill.todo \/ MailboxOf[l] \in backfill.boxes

\* What every step but those of backfill leaves alone.
LEMMA OthersKeepBackfill ==
    ASSUME TypeInv, [Next]_vars
    PROVE  /\ \A l \in Lead : Seen(l) => processed'[l] # "no"
           /\ inbox \subseteq inbox'
           /\ BackfillStep \/ (backfill' = backfill /\ (Idle("backfill") <=> Idle("backfill")'))
  <1>0. "backfill" \in Process /\ "watch" \in Process /\ "replay" \in Process /\ RunTypeOK
    BY DEF Process, TypeInv
  <1>1. processed' = processed \/ WatchDone
    BY NextCases, PipelineEffects, BackfillEffects, OutsideEffects
    DEF WatchStep, WatchTake, WatchDrops, ReplayStep, Replay, ReplayEnds, store
  <1>2. processed \in [Lead -> DB!ProcessedVal]
    BY DEF TypeInv, TableTypeOK
  <1>3. \A l \in Lead : Seen(l) => processed'[l] # "no"
    BY <1>1, <1>2 DEF WatchDone, Mark, DB!MarkProcessed, OutcomeRow, Seen, DB!WasProcessed
  <1>4. inbox \subseteq inbox'
    BY NextCases, PipelineEffects, BackfillEffects, OutsideEffects
    DEF WatchStep, WatchTake, WatchDone, WatchDrops, ReplayStep, Replay, ReplayEnds
  <1>5. ASSUME WatchStep \/ ReplayStep
        PROVE  backfill' = backfill /\ (Idle("backfill") <=> Idle("backfill")')
    <2>1. backfill' = backfill
      BY <1>5 DEF WatchStep, WatchTake, WatchDone, WatchDrops, ReplayStep, Replay, ReplayEnds
    <2>2. run'["backfill"] = run["backfill"]
      BY <1>0, <1>5, BeginEffect, EndRunEffect
      DEF WatchStep, WatchTake, WatchDone, WatchDrops, ReplayStep, Replay, ReplayEnds
    <2> QED
      BY <2>1, <2>2 DEF Idle
  <1>6. ASSUME NEW p \in Process, PipelineStep(p)
        PROVE  backfill' = backfill /\ (Idle("backfill") <=> Idle("backfill")')
    <2>1. backfill' = backfill
      BY <1>6, PipelineEffects
    <2>2. ~Idle(p) /\ ~Idle(p)' /\ \A q \in Process : q # p => run'[q] = run[q]
      BY <1>6, PipelineEffects, PipelineRun DEF TypeInv, Idle
    <2> QED
      BY <1>0, <2>1, <2>2 DEF Idle
  <1>7. ASSUME Outside
        PROVE  backfill' = backfill /\ (Idle("backfill") <=> Idle("backfill")')
    BY <1>7, OutsideEffects DEF Idle
  <1> QED
    BY <1>3, <1>4, <1>5, <1>6, <1>7, NextCases

\* The fields that each step of backfill changes.
LEMMA BackfillFields ==
    ASSUME TypeInv, BackfillStep
    PROVE  \/ /\ ~backfill.on /\ Idle("backfill") /\ run' = run
              /\ backfill'.total = 0 /\ backfill'.ran = {} /\ backfill'.limit \in Nat
              /\ backfill'.scope = {l \in inbox : MailboxOf[l] \in backfill'.boxes}
           \/ /\ backfill.on /\ run' = run /\ backfill.todo = {}
              /\ \E b \in Mailbox : /\ backfill'.boxes = backfill.boxes \ {b}
                                    /\ backfill'.todo = {l \in inbox : MailboxOf[l] = b}
              /\ backfill'.total = backfill.total /\ backfill'.limit = backfill.limit
              /\ backfill'.ran = backfill.ran /\ backfill'.scope = backfill.scope
           \/ /\ backfill.on /\ Idle("backfill")
              /\ backfill'.boxes = backfill.boxes
              /\ backfill'.total = backfill.total /\ backfill'.limit = backfill.limit
              /\ backfill'.scope = backfill.scope
              /\ \/ /\ backfill.total >= backfill.limit /\ run' = run
                    /\ backfill'.ran = backfill.ran
                 \/ \E l \in Lead :
                       /\ backfill.total < backfill.limit
                       /\ backfill'.todo = backfill.todo \ {l}
                       /\ \/ Seen(l) /\ run' = run /\ backfill'.ran = backfill.ran
                          \/ /\ Begin("backfill", l)
                             /\ backfill'.ran = backfill.ran \cup {l}
           \/ /\ backfill.on /\ ~Idle("backfill") /\ EndRun("backfill")
              /\ backfill'.total = backfill.total + 1
              /\ backfill'.boxes = backfill.boxes /\ backfill'.limit = backfill.limit
              /\ backfill'.todo = backfill.todo
              /\ backfill'.ran = backfill.ran /\ backfill'.scope = backfill.scope
           \/ /\ backfill' = NoBackfill
              /\ (run' = run /\ Idle("backfill")) \/ EndRun("backfill")
  <1>1. backfill \in BackfillType /\ backfill' \in BackfillType
        /\ (~backfill.on => backfill = NoBackfill /\ Idle("backfill"))
    BY BackfillEffects DEF TypeInv, BackfillTypeOK
  <1>2. CASE ~backfill.on /\ backfill'.on
    <2>1. backfill'.limit \in Nat
      BY <1>1 DEF BackfillType
    <2> QED
      BY <1>1, <1>2, <2>1, NoBackfillType, BackfillEffects
  <1>3. ASSUME NEW b \in Mailbox, backfill.on, run' = run, backfill.todo = {},
               backfill' = [backfill EXCEPT !.boxes = @ \ {b},
                                            !.todo = {l \in inbox : MailboxOf[l] = b}]
        PROVE  /\ backfill'.boxes = backfill.boxes \ {b}
               /\ backfill'.todo = {l \in inbox : MailboxOf[l] = b}
               /\ backfill'.total = backfill.total /\ backfill'.limit = backfill.limit
               /\ backfill'.ran = backfill.ran /\ backfill'.scope = backfill.scope
    BY <1>1, <1>3 DEF BackfillType
  <1>4. ASSUME NEW l \in Lead, BackfillTake(l), backfill.on
        PROVE  /\ Idle("backfill")
               /\ backfill'.boxes = backfill.boxes
               /\ backfill'.total = backfill.total /\ backfill'.limit = backfill.limit
               /\ backfill'.scope = backfill.scope
               /\ \/ /\ backfill.total >= backfill.limit /\ run' = run
                     /\ backfill'.ran = backfill.ran
                  \/ /\ backfill.total < backfill.limit
                     /\ backfill'.todo = backfill.todo \ {l}
                     /\ \/ Seen(l) /\ run' = run /\ backfill'.ran = backfill.ran
                        \/ /\ Begin("backfill", l)
                           /\ backfill'.ran = backfill.ran \cup {l}
    <2>1. CASE /\ backfill.total >= backfill.limit /\ run' = run
               /\ backfill' = [backfill EXCEPT !.todo = {}]
      BY <1>1, <1>4, <2>1 DEF BackfillTake, BackfillType
    <2>2. CASE /\ backfill.total < backfill.limit /\ Seen(l) /\ run' = run
               /\ backfill' = [backfill EXCEPT !.todo = backfill.todo \ {l}]
      BY <1>1, <1>4, <2>2 DEF BackfillTake, BackfillType
    <2>3. CASE /\ backfill.total < backfill.limit /\ Begin("backfill", l)
               /\ backfill' = [backfill EXCEPT !.todo = @ \ {l}, !.ran = @ \cup {l}]
      BY <1>1, <1>4, <2>3 DEF BackfillTake, BackfillType
    <2> QED
      BY <1>4, <2>1, <2>2, <2>3 DEF BackfillTake, AfterSeen
  <1>5. ASSUME BackfillDone
        PROVE  /\ ~Idle("backfill") /\ EndRun("backfill")
               /\ backfill'.total = backfill.total + 1
               /\ backfill'.boxes = backfill.boxes /\ backfill'.limit = backfill.limit
               /\ backfill'.todo = backfill.todo
               /\ backfill'.ran = backfill.ran /\ backfill'.scope = backfill.scope
    <2>1. backfill' = [backfill EXCEPT !.total = backfill.total + 1]
      BY <1>5 DEF BackfillDone, Counted
    <2>2. /\ backfill'.total = backfill.total + 1
          /\ backfill'.boxes = backfill.boxes /\ backfill'.limit = backfill.limit
          /\ backfill'.todo = backfill.todo
          /\ backfill'.ran = backfill.ran /\ backfill'.scope = backfill.scope
      BY <1>1, <2>1 DEF BackfillType
    <2> QED
      BY <1>5, <2>2 DEF BackfillDone, Ended, Idle
  <1> QED
    BY <1>2, <1>3, <1>4, <1>5, BackfillEffects

LEMMA NextCount == TypeInv /\ CountInv /\ [Next]_vars => CountInv'
  <1> SUFFICES ASSUME TypeInv, CountInv, [Next]_vars PROVE CountInv'
    OBVIOUS
  <1>1. CASE backfill' = backfill /\ (Idle("backfill") <=> Idle("backfill")')
    BY <1>1 DEF CountInv
  <1>2. CASE BackfillStep
    <2>0. "backfill" \in Process /\ RunTypeOK
      BY DEF Process, TypeInv
    <2>1. /\ IsFiniteSet(backfill.ran) /\ Cardinality(backfill.ran) \in Nat
          /\ backfill.total \in Nat /\ backfill.limit \in Nat
          /\ Cardinality(backfill.ran) <= backfill.limit
          /\ Cardinality(backfill.ran) <= backfill.total + (IF Idle("backfill") THEN 0 ELSE 1)
      BY FS_CardinalityType DEF CountInv, TypeInv, BackfillTypeOK, BackfillType
    <2>2. IsFiniteSet({}) /\ Cardinality({}) = 0
      BY FS_EmptySet
    <2>3. ASSUME backfill'.ran = {}, backfill'.total \in Nat, backfill'.limit \in Nat
          PROVE  CountInv'
      BY <2>2, <2>3 DEF CountInv
    <2>4. ASSUME backfill'.ran = backfill.ran, backfill'.limit = backfill.limit,
                 backfill'.total = backfill.total, run' = run
          PROVE  CountInv'
      BY <2>1, <2>4 DEF CountInv, Idle
    <2>5. ASSUME NEW l \in Lead, Begin("backfill", l), Idle("backfill"),
                 backfill.total < backfill.limit,
                 backfill'.total = backfill.total, backfill'.limit = backfill.limit,
                 backfill'.ran = backfill.ran \cup {l}
          PROVE  CountInv'
      <3>1. ~Idle("backfill")'
        BY <2>0, <2>5, BeginEffect DEF Idle
      <3>2. /\ IsFiniteSet(backfill'.ran)
            /\ \/ Cardinality(backfill'.ran) = Cardinality(backfill.ran)
               \/ Cardinality(backfill'.ran) = Cardinality(backfill.ran) + 1
        <4>1. LET S == backfill.ran \cup {l} IN
              /\ IsFiniteSet(S)
              /\ \/ Cardinality(S) = Cardinality(backfill.ran)
                 \/ Cardinality(S) = Cardinality(backfill.ran) + 1
          BY <2>1, FS_AddElement
        <4> QED
          BY <2>5, <4>1
      <3>3. Cardinality(backfill.ran) <= backfill.total
        BY <2>1, <2>5
      <3>4. /\ Cardinality(backfill'.ran) <= backfill'.limit
            /\ Cardinality(backfill'.ran) <= backfill'.total + 1
        BY <2>1, <2>5, <3>2, <3>3
      <3> QED
        BY <3>1, <3>2, <3>4 DEF CountInv
    <2>6. ASSUME EndRun("backfill"), backfill'.total = backfill.total + 1,
                 backfill'.limit = backfill.limit, backfill'.ran = backfill.ran
          PROVE  CountInv'
      <3>1. Idle("backfill")'
        BY <2>0, <2>6, EndRunEffect, NoRunType DEF Idle
      <3>2. Cardinality(backfill.ran) <= backfill.total + 1
        BY <2>1
      <3> QED
        BY <2>1, <2>6, <3>1, <3>2 DEF CountInv
    <2>7. NoBackfill.total \in Nat /\ NoBackfill.limit \in Nat /\ NoBackfill.ran = {}
      BY NoBackfillType
    <2> QED
      BY <1>2, <2>3, <2>4, <2>5, <2>6, <2>7, BackfillFields
  <1> QED
    BY <1>1, <1>2, OthersKeepBackfill

LEMMA NextCover == TypeInv /\ CoverInv /\ [Next]_vars => CoverInv'
  <1> SUFFICES ASSUME TypeInv, CoverInv, [Next]_vars PROVE CoverInv'
    OBVIOUS
  <1>1. /\ inbox \subseteq inbox'
        /\ inbox \subseteq Lead
        /\ \A l \in Lead : Seen(l) => processed'[l] # "no"
    BY OthersKeepBackfill DEF TypeInv, TableTypeOK
  <1>2. CASE backfill' = backfill
    BY <1>1, <1>2 DEF CoverInv, Seen, DB!WasProcessed
  <1>3. CASE BackfillStep
    <2>1. processed' = processed /\ inbox' = inbox
      BY <1>3, BackfillEffects DEF store
    <2>2. backfill.total \in Nat /\ backfill.limit \in Nat
      BY DEF TypeInv, BackfillTypeOK, BackfillType
    <2>3. ASSUME backfill'.scope = {l \in inbox : MailboxOf[l] \in backfill'.boxes}
          PROVE  CoverInv'
      BY <1>1, <2>3 DEF CoverInv
    <2>4. ASSUME NEW b \in Mailbox, backfill.on, backfill.todo = {},
                 backfill'.boxes = backfill.boxes \ {b},
                 backfill'.todo = {l \in inbox : MailboxOf[l] = b},
                 backfill'.total = backfill.total, backfill'.limit = backfill.limit,
                 backfill'.ran = backfill.ran, backfill'.scope = backfill.scope
          PROVE  CoverInv'
      BY <2>1, <2>4 DEF CoverInv, Seen
    <2>5. ASSUME backfill'.total >= backfill'.limit, backfill'.scope = backfill.scope,
                 backfill'.total = backfill.total, backfill'.limit = backfill.limit
          PROVE  CoverInv'
      BY <2>1, <2>2, <2>5 DEF CoverInv
    <2>6. ASSUME NEW l \in Lead, backfill.on,
                 backfill'.boxes = backfill.boxes, backfill'.scope = backfill.scope,
                 backfill'.total = backfill.total, backfill'.limit = backfill.limit,
                 backfill'.todo = backfill.todo \ {l},
                 \/ Seen(l) /\ backfill'.ran = backfill.ran
                 \/ backfill'.ran = backfill.ran \cup {l}
          PROVE  CoverInv'
      BY <2>1, <2>6 DEF CoverInv, Seen
    <2>7. ASSUME backfill.on, backfill'.total = backfill.total + 1,
                 backfill'.boxes = backfill.boxes, backfill'.limit = backfill.limit,
                 backfill'.todo = backfill.todo,
                 backfill'.ran = backfill.ran, backfill'.scope = backfill.scope
          PROVE  CoverInv'
      <3>1. backfill'.total < backfill'.limit => backfill.total < backfill.limit
        BY <2>2, <2>7
      <3> QED
        BY <2>1, <2>7, <3>1 DEF CoverInv, Seen
    <2>8. ASSUME backfill' = NoBackfill PROVE CoverInv'
      BY <2>8, NoBackfillType DEF CoverInv
    <2> QED
      BY <1>3, <2>3, <2>4, <2>5, <2>6, <2>7, <2>8, BackfillFields
  <1> QED
    BY <1>2, <1>3, OthersKeepBackfill

LEMMA InitBackfill == Init => CountInv /\ CoverInv
  <1> SUFFICES ASSUME Init PROVE CountInv /\ CoverInv
    OBVIOUS
  <1>1. /\ backfill.ran = {} /\ backfill.limit = 0 /\ backfill.total = 0
        /\ backfill.scope = {} /\ backfill.on = FALSE
    BY NoBackfillType DEF Init
  <1>2. IsFiniteSet({}) /\ Cardinality({}) = 0
    BY FS_EmptySet
  <1> QED
    BY <1>1, <1>2 DEF CountInv, CoverInv

\* backfill never runs more leads than its limit, over all the mailboxes together and whatever
\* becomes of each run (runner.py:84-105).
THEOREM BackfillWithinLimitCorrect == Spec => []BackfillWithinLimit
  <1>1. TypeInv /\ CountInv /\ [Next]_vars => TypeInv' /\ CountInv'
    BY NextTypeInv, NextCount
  <1>2. CountInv => BackfillWithinLimit
    BY DEF CountInv, BackfillWithinLimit
  <1> QED
    BY InitTypes, InitBackfill, <1>1, <1>2, PTL DEF Spec

\* A backfill that ends below its limit has gone through every mailbox it was given: each lead that
\* lay there when it started was run, or had been marked by watch (runner.py:86-107).
THEOREM BackfillCoversCorrect == Spec => BackfillCovers
  <1>1. TypeInv /\ CoverInv /\ [Next]_vars => TypeInv' /\ CoverInv'
    BY NextTypeInv, NextCover
  <1>2. TypeInv /\ CoverInv /\ [Next]_vars =>
           [BackfillEnd /\ backfill.total < backfill.limit =>
               \A l \in backfill.scope : Seen(l) \/ l \in backfill.ran]_vars
    BY DEF CoverInv, BackfillEnd
  <1> QED
    BY InitTypes, InitBackfill, <1>1, <1>2, PTL DEF Spec, BackfillCovers

=============================================================================
