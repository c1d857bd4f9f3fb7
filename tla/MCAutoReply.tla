---------------------------- MODULE MCAutoReply ----------------------------
(***************************************************************************)
(* An instance of AutoReply: three leads in one mailbox.  a1 and a2 are two *)
(* deliveries of one inquiry, b1 is another inquiry of the same person.     *)
(***************************************************************************)
EXTENDS AutoReply, TLC

CONSTANTS a1, a2, b1, mb, alice

MCMailboxOf == [l \in Lead |-> mb]
MCFingerprintOf == [l \in Lead |-> IF l = b1 THEN "tour" ELSE "question"]
MCPersonOf == [l \in Lead |-> alice]

\* The two copies are interchangeable.
Copies == Permutations({a1, a2})

=============================================================================
