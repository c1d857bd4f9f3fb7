------------------------------ MODULE MCPoller ------------------------------
(***************************************************************************)
(* An instance of Poller: all the messages go to one mailbox, inbox1.       *)
(***************************************************************************)
EXTENDS Poller

CONSTANTS m1, m2, m3, inbox1

MCMailboxOf == [m \in Message |-> inbox1]

=============================================================================
