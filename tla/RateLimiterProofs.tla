------------------------- MODULE RateLimiterProofs -------------------------
(***************************************************************************)
(* Theorems about RateLimiter, for any clients, rules, and bounds.          *)
(***************************************************************************)
EXTENDS RateLimiter, FiniteSetTheorems, TLAPS

-----------------------------------------------------------------------------
(***************************************************************************)
(* The invariant.                                                          *)
(***************************************************************************)

\* What a key may still count in window w, beside the allowances of the resets:
\* its counter in the current window, all of the limit in a window gone by,
\* nothing in a window not reached.
Allowance(k, w) ==
    CASE w < window -> Ceiling(k)
      [] w = window -> IF k \in Current THEN store[k].count ELSE 0
      [] OTHER -> 0

\* LimitPerWindow with what is left of the current window taken into account.
AdmittedIsCounted ==
    \A k \in Key, w \in Window : admitted[k][w] <= Ceiling(k) * resets + Allowance(k, w)

\* A counter never exceeds what was let through in its window.
CountIsAdmitted ==
    \A k \in DOMAIN store : store[k].count <= admitted[k][store[k].window]

LimitInv == TypeOK /\ AdmittedIsCounted /\ CountIsAdmitted

-----------------------------------------------------------------------------
LEMMA CeilingType ==
    ASSUME NEW k \in Key
    PROVE  Ceiling(k) \in Nat \ {0} /\ Limit(k) \in Nat /\ Limit(k) <= Ceiling(k)
  BY RateLimiterAssumption DEF Ceiling, Limit, Key

\* One reset more is one limit more.
LEMMA OneMore ==
    ASSUME NEW c \in Nat, NEW r \in Nat
    PROVE  c * (r + 1) = c * r + c /\ c * (1 + r) = c * r + c /\ c * r \in Nat
  OBVIOUS

\* The collection drops entries and changes none.
LEMMA CollectedEffect ==
    /\ DOMAIN Collected \subseteq DOMAIN store
    /\ \A k \in DOMAIN Collected : Collected[k] = store[k]
    /\ Current \subseteq DOMAIN Collected
    /\ \A k : Counted(k) <=> k \in Current
    /\ Full => DOMAIN Collected = Current
  BY DEF Collected, Current, Counted

\* What a hit that is let through does to the table.
LEMMA PutEffect ==
    ASSUME TypeOK, NEW k \in Key, NEW n \in Nat, Put(k, n)
    PROVE  /\ DOMAIN store' = DOMAIN Collected \cup {k}
           /\ store'[k] = [window |-> window, count |-> n]
           /\ store'[k] \in Entry
           /\ \A i \in DOMAIN store' \ {k} : i \in DOMAIN store /\ store'[i] = store[i]
           /\ \A i \in Current \ {k} : i \in DOMAIN store'
  BY CollectedEffect DEF TypeOK, Put, Entry

\* The new count of a request that is let through.
LEMMA HitCount ==
    ASSUME TypeOK, NEW k \in Key, FirstOfWindow(k) \/ Another(k)
    PROVE  \E n \in 1..Ceiling(k) :
              /\ Put(k, n) /\ Admit(k)
              /\ n = (IF k \in Current THEN store[k].count ELSE 0) + 1
  <1>1. CASE FirstOfWindow(k)
    <2>1. k \notin Current
      BY <1>1, CollectedEffect DEF FirstOfWindow
    <2> QED
      BY <1>1, <2>1, CeilingType DEF FirstOfWindow
  <1>2. CASE Another(k)
    <2>1. k \in Current /\ k \in DOMAIN store /\ Collected[k] = store[k]
      BY <1>2, CollectedEffect DEF Another, Current
    <2>2. store[k].count \in Nat /\ store[k].count >= 1 /\ ~(store[k].count >= Limit(k))
      BY <1>2, <2>1, CeilingType DEF TypeOK, Another, Exhausted, Entry
    <2>3. store[k].count + 1 \in 1..Ceiling(k)
      BY <2>2, CeilingType
    <2> QED
      BY <1>2, <2>1, <2>3 DEF Another
  <1> QED
    BY <1>1, <1>2

-----------------------------------------------------------------------------
LEMMA InitLimit == Init => LimitInv
  <1> SUFFICES ASSUME Init PROVE LimitInv
    OBVIOUS
  <1>1. TypeOK
    BY RateLimiterAssumption DEF Init, TypeOK, Window
  <1>2. AdmittedIsCounted
    <2> SUFFICES ASSUME NEW k \in Key, NEW w \in Window
                 PROVE  0 <= Ceiling(k) * 0 + Allowance(k, w)
      BY DEF Init, AdmittedIsCounted
    <2>1. Allowance(k, w) = 0
      BY DEF Init, Allowance, Window, Current
    <2> QED
      BY <2>1, CeilingType
  <1>3. CountIsAdmitted
    BY DEF Init, CountIsAdmitted
  <1> QED
    BY <1>1, <1>2, <1>3 DEF LimitInv

\* A request that is let through.
LEMMA AdmittedStep ==
    ASSUME LimitInv, NEW k \in Key, FirstOfWindow(k) \/ Another(k)
    PROVE  LimitInv'
  <1> USE DEF LimitInv
  <1>1. PICK n \in 1..Ceiling(k) :
              /\ Put(k, n) /\ Admit(k)
              /\ n = (IF k \in Current THEN store[k].count ELSE 0) + 1
    BY HitCount
  <1>2. n \in Nat /\ window \in Window
    BY <1>1, CeilingType DEF TypeOK
  <1>3. /\ DOMAIN store' = DOMAIN Collected \cup {k}
        /\ store'[k] = [window |-> window, count |-> n]
        /\ store'[k] \in Entry
        /\ \A i \in DOMAIN store' \ {k} : i \in DOMAIN store /\ store'[i] = store[i]
        /\ \A i \in Current \ {k} : i \in DOMAIN store'
    BY <1>1, <1>2, PutEffect
  <1>4. /\ window' = window /\ resets' = resets
        /\ admitted' \in [Key -> [Window -> Nat]]
        /\ \A i \in Key, w \in Window :
              admitted'[i][w] = IF i = k /\ w = window THEN admitted[i][w] + 1 ELSE admitted[i][w]
    BY <1>1, <1>2 DEF Admit, TypeOK
  <1>5. TypeOK'
    <2>1. DOMAIN store' \subseteq Key
      BY <1>3, CollectedEffect DEF TypeOK
    <2>2. ASSUME NEW i \in DOMAIN store' PROVE store'[i] \in Entry /\ store'[i].count \in 1..Ceiling(i)
      BY <1>1, <1>3 DEF TypeOK
    <2> QED
      BY <1>4, <2>1, <2>2 DEF TypeOK, Ceiling, Limit
  <1>6. AdmittedIsCounted'
    <2> SUFFICES ASSUME NEW i \in Key, NEW w \in Window
                 PROVE  admitted'[i][w] <= Ceiling(i) * resets + Allowance(i, w)'
      BY <1>4 DEF AdmittedIsCounted, Ceiling, Limit
    <2>1. admitted[i][w] <= Ceiling(i) * resets + Allowance(i, w) /\ admitted[i][w] \in Nat
      BY DEF AdmittedIsCounted, TypeOK
    <2>2. Ceiling(i) * resets \in Nat
      BY CeilingType, OneMore DEF TypeOK
    <2>3. CASE i = k /\ w = window
      <3>1. Allowance(i, w)' = n
        BY <1>3, <1>4, <2>3 DEF Allowance, Current, Window
      <3>2. Allowance(i, w) = n - 1
        BY <1>1, <1>2, <2>3, CeilingType DEF Allowance, Window, TypeOK, Current, Entry
      <3> QED
        BY <1>2, <1>4, <2>1, <2>2, <2>3, <3>1, <3>2
    <2>4. CASE ~(i = k /\ w = window)
      <3>1. Allowance(i, w)' = Allowance(i, w)
        <4>1. CASE w # window
          BY <1>4, <4>1 DEF Allowance, Ceiling, Limit
        <4>2. CASE w = window
          <5>1. i # k /\ (i \in Current <=> i \in Current')
            BY <1>3, <1>4, <2>4, <4>2, CollectedEffect DEF Current
          <5>2. i \in Current => store'[i] = store[i]
            BY <1>3, <5>1 DEF Current
          <5> QED
            BY <1>4, <4>2, <5>1, <5>2, <1>2 DEF Allowance, Window
        <4> QED
          BY <4>1, <4>2
      <3> QED
        BY <1>4, <2>1, <2>4, <3>1
    <2> QED
      BY <2>3, <2>4
  <1>7. CountIsAdmitted'
    <2> SUFFICES ASSUME NEW i \in DOMAIN store'
                 PROVE  store'[i].count <= admitted'[i][store'[i].window]
      BY DEF CountIsAdmitted
    <2>1. CASE i = k
      <3>1. admitted[k][window] \in Nat
        BY <1>2 DEF TypeOK
      <3>2. n - 1 <= admitted[k][window]
        BY <1>1, <1>2, <3>1 DEF CountIsAdmitted, Current, TypeOK, Entry
      <3> QED
        BY <1>2, <1>3, <1>4, <2>1, <3>1, <3>2
    <2>2. CASE i # k
      <3>1. i \in DOMAIN store /\ store'[i] = store[i] /\ store[i] \in Entry /\ i \in Key
        BY <1>3, <2>2 DEF TypeOK
      <3> QED
        BY <1>4, <2>2, <3>1 DEF CountIsAdmitted, Entry
    <2> QED
      BY <2>1, <2>2
  <1> QED
    BY <1>5, <1>6, <1>7

\* A refusal only drops entries of other windows.
LEMMA RefusedStep ==
    ASSUME LimitInv, NEW k \in Key, Refuse(k)
    PROVE  LimitInv'
  <1> USE DEF LimitInv
  <1>1. /\ window' = window /\ resets' = resets /\ admitted' = admitted
        /\ DOMAIN store' \subseteq DOMAIN store
        /\ \A i \in DOMAIN store' : store'[i] = store[i]
        /\ Current' = Current
    BY CollectedEffect DEF Refuse, Current
  <1>2. TypeOK'
    BY <1>1 DEF TypeOK, Ceiling, Limit
  <1>3. \A i \in Key, w \in Window : Allowance(i, w)' = Allowance(i, w)
    BY <1>1 DEF Allowance, Ceiling, Limit, Current
  <1>4. AdmittedIsCounted'
    BY <1>1, <1>3 DEF AdmittedIsCounted, Ceiling, Limit
  <1>5. CountIsAdmitted'
    BY <1>1 DEF CountIsAdmitted
  <1> QED
    BY <1>2, <1>4, <1>5

\* The clock goes on.
LEMMA AdvanceStep ==
    ASSUME LimitInv, Advance
    PROVE  LimitInv'
  <1> USE DEF LimitInv
  <1>1. TypeOK' /\ CountIsAdmitted'
    BY DEF Advance, TypeOK, CountIsAdmitted, Ceiling, Limit
  <1>2. ASSUME NEW i \in Key, NEW w \in Window PROVE Allowance(i, w) <= Allowance(i, w)'
    <2>1. window \in Int /\ window' \in Int /\ w \in Int /\ window < window' /\ store' = store
      BY DEF Advance, TypeOK, Window
    <2>2. Ceiling(i) \in Nat /\ Ceiling(i)' = Ceiling(i)
      BY CeilingType DEF Ceiling, Limit
    <2>3. i \in DOMAIN store => store[i].count \in Nat /\ store[i].count <= Ceiling(i)
      BY <2>2 DEF TypeOK, Entry
    <2>4. CASE w < window
      BY <2>1, <2>2, <2>4 DEF Allowance
    <2>5. CASE w = window
      BY <2>1, <2>2, <2>3, <2>5 DEF Allowance, Current
    <2>6. CASE w > window
      <3>1. Allowance(i, w) = 0
        BY <2>1, <2>6 DEF Allowance
      <3>2. Allowance(i, w)' \in Nat
        BY <2>1, <2>2, <2>3 DEF Allowance, Current
      <3> QED
        BY <3>1, <3>2
    <2> QED
      BY <2>1, <2>4, <2>5, <2>6
  <1>3. AdmittedIsCounted'
    <2> SUFFICES ASSUME NEW i \in Key, NEW w \in Window
                 PROVE  admitted[i][w] <= Ceiling(i) * resets + Allowance(i, w)'
      BY DEF AdmittedIsCounted, Ceiling, Limit, Advance
    <2>1. admitted[i][w] <= Ceiling(i) * resets + Allowance(i, w) /\ admitted[i][w] \in Nat
      BY DEF AdmittedIsCounted, TypeOK
    <2>2. Ceiling(i) * resets \in Nat
      BY CeilingType, OneMore DEF TypeOK
    <2>3. Allowance(i, w) \in Nat /\ Allowance(i, w)' \in Nat
      BY CeilingType, <1>1 DEF Allowance, Current, TypeOK, Entry, Ceiling, Limit
    <2> QED
      BY <1>2, <2>1, <2>2, <2>3
  <1> QED
    BY <1>1, <1>3

\* The clock is set back, or the process restarts: one more allowance for everyone.
LEMMA ResetStep ==
    ASSUME LimitInv, SetBack \/ Restart
    PROVE  LimitInv'
  <1> USE DEF LimitInv
  <1>1. /\ resets \in Nat /\ resets' = resets + 1 /\ admitted' = admitted
        /\ \A k \in DOMAIN store' : k \in DOMAIN store /\ store'[k] = store[k]
    BY DEF TypeOK, SetBack, Restart
  <1>2. TypeOK'
    <2>1. window' \in Window /\ resets' \in 0..MaxResets
      BY RateLimiterAssumption DEF TypeOK, SetBack, Restart
    <2> QED
      BY <1>1, <2>1 DEF TypeOK, Ceiling, Limit
  <1>3. CountIsAdmitted'
    BY <1>1 DEF CountIsAdmitted
  <1>4. AdmittedIsCounted'
    <2> SUFFICES ASSUME NEW i \in Key, NEW w \in Window
                 PROVE  admitted[i][w] <= Ceiling(i) * (resets + 1) + Allowance(i, w)'
      BY <1>1 DEF AdmittedIsCounted, Ceiling, Limit
    <2>1. admitted[i][w] <= Ceiling(i) * resets + Allowance(i, w) /\ admitted[i][w] \in Nat
      BY DEF AdmittedIsCounted, TypeOK
    <2>2. /\ Ceiling(i) \in Nat /\ Ceiling(i) * resets \in Nat
          /\ Ceiling(i) * (resets + 1) = Ceiling(i) * resets + Ceiling(i)
      BY <1>1, CeilingType, OneMore
    <2>3. Allowance(i, w) \in 0..Ceiling(i)
      BY CeilingType DEF Allowance, Current, TypeOK, Entry
    <2>4. Allowance(i, w)' \in Nat
      BY CeilingType, <1>2 DEF Allowance, Current, TypeOK, Entry, Ceiling, Limit
    <2> QED
      BY <2>1, <2>2, <2>3, <2>4
  <1> QED
    BY <1>2, <1>3, <1>4

LEMMA LimitStep == LimitInv /\ [Next]_vars => LimitInv'
  <1> SUFFICES ASSUME LimitInv, [Next]_vars PROVE LimitInv'
    OBVIOUS
  <1>1. CASE \E k \in Key : Hit(k)
    BY <1>1, AdmittedStep, RefusedStep DEF Hit
  <1>2. CASE Advance
    BY <1>2, AdvanceStep
  <1>3. CASE SetBack \/ Restart
    BY <1>3, ResetStep
  <1>4. CASE UNCHANGED vars
    BY <1>4 DEF vars, LimitInv, TypeOK, AdmittedIsCounted, CountIsAdmitted, Allowance,
                Current, Ceiling, Limit
  <1> QED
    BY <1>1, <1>2, <1>3, <1>4 DEF Next

LEMMA LimitInvariant == Spec => []LimitInv
  BY InitLimit, LimitStep, PTL DEF Spec

\* The table keeps its type, and no stored count ever passes the ceiling of its rule.
THEOREM TypeCorrectness == Spec => []TypeOK
  <1>1. LimitInv => TypeOK
    BY DEF LimitInv
  <1> QED
    BY <1>1, LimitInvariant, PTL

-----------------------------------------------------------------------------
\* Every client is held to its limit in every window, up to one allowance more
\* for each set-back of the clock and each restart (_FixedWindowLimiter.hit).
THEOREM LimitPerWindowCorrect == Spec => []LimitPerWindow
  <1>1. LimitInv => LimitPerWindow
    <2> SUFFICES ASSUME LimitInv, NEW k \in Key, NEW w \in Window
                 PROVE  admitted[k][w] <= Ceiling(k) * (1 + resets)
      BY DEF LimitPerWindow
    <2>1. admitted[k][w] <= Ceiling(k) * resets + Allowance(k, w) /\ admitted[k][w] \in Nat
      BY DEF LimitInv, AdmittedIsCounted, TypeOK
    <2>2. resets \in Nat
      BY DEF LimitInv, TypeOK
    <2>3. /\ Ceiling(k) \in Nat /\ Ceiling(k) * resets \in Nat
          /\ Ceiling(k) * (1 + resets) = Ceiling(k) * resets + Ceiling(k)
      BY <2>2, CeilingType, OneMore
    <2>4. Allowance(k, w) \in 0..Ceiling(k)
      BY CeilingType DEF LimitInv, Allowance, Current, TypeOK, Entry
    <2> QED
      BY <2>1, <2>3, <2>4
  <1> QED
    BY <1>1, LimitInvariant, PTL

\* Nobody is refused for what others did, for an earlier window, or for requests
\* that were refused (_FixedWindowLimiter.hit).
THEOREM RefusalIsEarnedCorrect == Spec => []RefusalIsEarned
  <1>1. LimitInv => RefusalIsEarned
    <2> SUFFICES ASSUME LimitInv, NEW k \in Key, Counted(k), Exhausted(k)
                 PROVE  admitted[k][window] >= Limit(k)
      BY DEF RefusalIsEarned
    <2>1. k \in DOMAIN store /\ Collected[k] = store[k] /\ store[k].window = window
      BY CollectedEffect DEF Current
    <2>2. store[k].count >= Limit(k) /\ store[k].count <= admitted[k][window]
      BY <2>1 DEF Exhausted, LimitInv, CountIsAdmitted
    <2>3. store[k].count \in Nat /\ admitted[k][window] \in Nat /\ Limit(k) \in Nat
      BY <2>1, CeilingType DEF LimitInv, TypeOK, Entry
    <2> QED
      BY <2>2, <2>3
  <1> QED
    BY <1>1, LimitInvariant, PTL

-----------------------------------------------------------------------------
LEMMA StoreIsFinite ==
    ASSUME TypeOK
    PROVE  IsFiniteSet(DOMAIN store) /\ Cardinality(DOMAIN store) \in Nat
  <1>1. IsFiniteSet(Key)
    BY FS_Product, RateLimiterAssumption DEF Key
  <1> QED
    BY <1>1, FS_Subset, FS_CardinalityType DEF TypeOK

\* The table outgrows max_keys by entries of one window only (the GC of hit).
THEOREM OnlyOneWindowOutgrowsCorrect == Spec => []OnlyOneWindowOutgrows
  <1>1. Init => OnlyOneWindowOutgrows
    BY DEF Init, OnlyOneWindowOutgrows
  <1>2. TypeOK /\ OnlyOneWindowOutgrows /\ [Next]_vars => OnlyOneWindowOutgrows'
    <2> SUFFICES ASSUME TypeOK, OnlyOneWindowOutgrows, [Next]_vars
                 PROVE  OnlyOneWindowOutgrows'
      OBVIOUS
    <2>1. ASSUME NEW k \in Key, Hit(k) PROVE OnlyOneWindowOutgrows'
      <3>1. window' = window /\ DOMAIN store' \subseteq DOMAIN Collected \cup {k}
        BY <2>1 DEF Hit, FirstOfWindow, Another, Refuse, Put, Admit
      <3>2. \A i \in DOMAIN store' : i \in DOMAIN store \cup {k}
        BY <3>1, CollectedEffect
      <3>3. CASE Full
        <4>1. ASSUME NEW i \in DOMAIN store' PROVE store'[i].window = window
          <5>1. CASE Refuse(k)
            BY <3>3, <5>1, CollectedEffect DEF Refuse, Current
          <5>2. CASE FirstOfWindow(k) \/ Another(k)
            <6>1. PICK n \in 1..Ceiling(k) : Put(k, n)
              BY <5>2, HitCount
            <6>2. n \in Nat
              BY <6>1, CeilingType
            <6>3. CASE i = k
              <7>1. store'[k] = [window |-> window, count |-> n]
                BY <6>1, <6>2, PutEffect
              <7> QED
                BY <6>3, <7>1
            <6>4. CASE i # k
              <7>1. i \in Current
                BY <3>1, <3>3, <6>4, CollectedEffect
              <7> QED
                BY <6>1, <6>2, <6>4, <7>1, PutEffect DEF Current
            <6> QED
              BY <6>3, <6>4
          <5> QED
            BY <2>1, <5>1, <5>2 DEF Hit
        <4> QED
          BY <4>1 DEF OnlyOneWindowOutgrows
      <3>4. CASE ~Full
        <4>1. IsFiniteSet(DOMAIN store) /\ Cardinality(DOMAIN store) \in Nat
          BY StoreIsFinite
        <4>2. Cardinality(DOMAIN store) < MaxKeys
          BY <3>4, <4>1, RateLimiterAssumption DEF Full
        <4>3. /\ IsFiniteSet(DOMAIN store \cup {k})
              /\ Cardinality(DOMAIN store \cup {k}) \in Nat
              /\ Cardinality(DOMAIN store \cup {k}) <= Cardinality(DOMAIN store) + 1
          BY <4>1, FS_AddElement
        <4>4. Cardinality(DOMAIN store') <= Cardinality(DOMAIN store \cup {k})
              /\ Cardinality(DOMAIN store') \in Nat
          <5>1. DOMAIN store' \subseteq DOMAIN store \cup {k}
            BY <3>2
          <5> QED
            BY <4>3, <5>1, FS_Subset, FS_CardinalityType
        <4>5. ~(Cardinality(DOMAIN store') > MaxKeys)
          BY <4>1, <4>2, <4>3, <4>4, RateLimiterAssumption
        <4> QED
          BY <4>5 DEF OnlyOneWindowOutgrows
      <3> QED
        BY <3>3, <3>4
    <2>2. CASE Advance \/ SetBack \/ UNCHANGED vars
      BY <2>2 DEF Advance, SetBack, vars, OnlyOneWindowOutgrows
    <2>3. CASE Restart
      BY <2>3 DEF Restart, OnlyOneWindowOutgrows
    <2> QED
      BY <2>1, <2>2, <2>3 DEF Next
  <1>3. LimitInv => TypeOK
    BY DEF LimitInv
  <1> QED
    BY <1>1, <1>2, <1>3, LimitInvariant, PTL DEF Spec

=============================================================================
