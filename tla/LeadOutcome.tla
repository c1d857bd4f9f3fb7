---------------------------- MODULE LeadOutcome ----------------------------
(***************************************************************************)
(* What the autoreply system promises of every lead message, without the   *)
(* machinery: it stays new until exactly one thing becomes of it, for good. *)
(*                                                                         *)
(*   replied     a reply to it has been queued;                            *)
(*   suppressed  it repeats the content of another message in the same     *)
(*               mailbox, and that one has been replied to;                *)
(*   skipped     there is nobody to answer: it was not addressed to the     *)
(*               mailbox it lies in, or it has no recipient or no text;    *)
(*   failed      its one attempt raised.                                   *)
(***************************************************************************)
CONSTANTS Lead,
          NeedsReply,     \* the leads somebody should be answered for
          SameContent(_, _)

VARIABLE outcome

Outcome == {"new", "replied", "suppressed", "skipped", "failed"}

Init == outcome = [l \in Lead |-> "new"]

Settle(l, o) ==
    /\ outcome[l] = "new"
    /\ outcome' = [outcome EXCEPT ![l] = o]

Reply(l) == l \in NeedsReply /\ Settle(l, "replied")

Suppress(l) ==
    /\ \E k \in Lead \ {l} : SameContent(k, l) /\ outcome[k] = "replied"
    /\ Settle(l, "suppressed")

Skip(l) == l \notin NeedsReply /\ Settle(l, "skipped")

Fail(l) == Settle(l, "failed")

Next == \E l \in Lead : Reply(l) \/ Suppress(l) \/ Skip(l) \/ Fail(l)

Spec == Init /\ [][Next]_outcome

=============================================================================
