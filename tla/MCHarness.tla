------------------------------ MODULE MCHarness ------------------------------
(***************************************************************************)
(* An instance of Harness: two copies of an inquiry in one mailbox, the     *)
(* second of which has nobody to answer to.                                *)
(***************************************************************************)
EXTENDS Harness

CONSTANTS copy1, copy2, inbox1, content1

MCMailboxOf == [l \in Lead |-> inbox1]

MCFingerprintOf == [l \in Lead |-> content1]

=============================================================================
