---------------------------- MODULE RateLimiter ----------------------------
(***************************************************************************)
(* ratelimit.py: the fixed-window counters in front of the web app.         *)
(*                                                                         *)
(* dispatch is a coroutine and hit() has no await in it, so that the web    *)
(* process runs one hit() at a time: a hit is one step.  What can go wrong  *)
(* lies between hits: the window is taken from the wall clock, which may    *)
(* be set back, the counters are lost with the process, and the collection *)
(* of old entries runs inside whatever hit finds the table full.           *)
(*                                                                         *)
(* Requests whose path matches no rule never reach hit() and are left out.  *)
(***************************************************************************)
EXTENDS Integers, FiniteSets

CONSTANTS Client,     \* what client_ip tells apart
          Prefix,     \* the path prefixes that have a rule
          LimitOf,    \* the rules: requests per window
          MaxKeys,    \* max_keys
          MaxWindow,  \* bound: the last window
          MaxResets   \* bound: set-backs of the clock and restarts

ASSUME RateLimiterAssumption ==
    /\ IsFiniteSet(Client) /\ IsFiniteSet(Prefix)
    /\ LimitOf \in [Prefix -> Nat]
    /\ MaxKeys \in Nat
    /\ MaxWindow \in Nat
    /\ MaxResets \in Nat

VARIABLES
    window,     \* int(time.time() // window_seconds)
    store,      \* _store: (client, prefix) -> the window and the count in it
    admitted,   \* history: the requests let through in each window
    resets      \* history: set-backs of the clock and restarts of the process

vars == <<window, store, admitted, resets>>

Key == Client \X Prefix
Window == 0..MaxWindow
Entry == [window : Window, count : Nat]

Limit(k) == LimitOf[k[2]]

\* At least one request per window, whatever the rule says.
Ceiling(k) == IF Limit(k) = 0 THEN 1 ELSE Limit(k)

\* Mutant: the table may hold one key more before it is collected.
FullLate == Cardinality(DOMAIN store) > MaxKeys

Full == Cardinality(DOMAIN store) >= MaxKeys

\* The keys with an entry of the current window.
Current == {k \in DOMAIN store : store[k].window = window}

\* Mutant: a full table is emptied.
CollectedAll == [k \in IF Full THEN {} ELSE DOMAIN store |-> store[k]]

\* The cheap GC at the head of a hit.
Collected == [k \in IF Full THEN Current ELSE DOMAIN store |-> store[k]]

\* Mutant: a counter goes on in the next window.
StaleCarried(k) == k \in DOMAIN Collected

\* The key is counted in the current window already.
Counted(k) == k \in DOMAIN Collected /\ Collected[k].window = window

\* Mutant: the limit itself is let through once more.
ExhaustedLate(k) == Collected[k].count > Limit(k)

Exhausted(k) == Collected[k].count >= Limit(k)

Put(k, n) ==
    store' = [i \in DOMAIN Collected \cup {k} |->
                 IF i = k THEN [window |-> window, count |-> n] ELSE Collected[i]]

Admit(k) ==
    /\ admitted' = [admitted EXCEPT ![k][window] = @ + 1]
    /\ UNCHANGED <<window, resets>>

(***************************************************************************)
(* hit: the first request of a window is let through whatever the limit is. *)
(***************************************************************************)
FirstOfWindow(k) ==
    /\ ~Counted(k)
    /\ Put(k, 1)
    /\ Admit(k)

Another(k) ==
    /\ Counted(k) /\ ~Exhausted(k)
    /\ Put(k, Collected[k].count + 1)
    /\ Admit(k)

\* 429, with nothing counted.  The collection has happened.
Refuse(k) ==
    /\ Counted(k) /\ Exhausted(k)
    /\ store' = Collected
    /\ UNCHANGED <<window, admitted, resets>>

(***************************************************************************)
(* Time, the operator who sets the clock, and the platform.                *)
(***************************************************************************)
Advance ==
    /\ window' \in {w \in Window : w > window}
    /\ UNCHANGED <<store, admitted, resets>>

SetBack ==
    /\ resets < MaxResets
    /\ window' \in {w \in Window : w < window}
    /\ resets' = resets + 1
    /\ UNCHANGED <<store, admitted>>

Restart ==
    /\ resets < MaxResets
    /\ resets' = resets + 1
    /\ store' = [k \in {} |-> 0]
    /\ UNCHANGED <<window, admitted>>

Init ==
    /\ window = 0
    /\ store = [k \in {} |-> 0]
    /\ admitted = [k \in Key |-> [w \in Window |-> 0]]
    /\ resets = 0

Hit(k) == FirstOfWindow(k) \/ Another(k) \/ Refuse(k)

Next == (\E k \in Key : Hit(k)) \/ Advance \/ SetBack \/ Restart

Spec == Init /\ [][Next]_vars

-----------------------------------------------------------------------------
\* Types of ratelimit.py's table; a stored count is never past its rule's limit.
TypeOK ==
    /\ window \in Window
    /\ DOMAIN store \subseteq Key
    /\ \A k \in DOMAIN store : store[k] \in Entry /\ store[k].count \in 1..Ceiling(k)
    /\ admitted \in [Key -> [Window -> Nat]]
    /\ resets \in 0..MaxResets

\* No client gets more than the limit through in a window: not by the
\* collection of entries, nor by the traffic of others.  Each set-back of the
\* clock and each restart gives it at most one more allowance.
LimitPerWindow ==
    \A k \in Key, w \in Window : admitted[k][w] <= Ceiling(k) * (1 + resets)

\* A client is only refused for what it got through itself, under that rule and
\* in that very window: nobody is refused for others, for earlier windows, or
\* for requests that were refused.
RefusalIsEarned ==
    \A k \in Key : (Counted(k) /\ Exhausted(k)) => admitted[k][window] >= Limit(k)

\* max_keys bounds what is left of other windows: a table that has outgrown it
\* holds entries of a single window only.
OnlyOneWindowOutgrows ==
    Cardinality(DOMAIN store) > MaxKeys =>
        \A i, j \in DOMAIN store : store[i].window = store[j].window

=============================================================================
