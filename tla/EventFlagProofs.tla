-------------------------- MODULE EventFlagProofs --------------------------
(***************************************************************************)
(* Theorems about EventFlag, for any threads, bits, modes and priorities.  *)
(*                                                                         *)
(* NoMissedSet holds inside Set for the waiters the walk has passed        *)
(* (Passed): serving a waiter only clears bits, and a condition that does  *)
(* not hold does not begin to hold when bits are cleared.  Cancel may set  *)
(* any bits, but tells every waiter.  DestroyedAlone needs that one thread *)
(* at most runs the destructor and that nobody is let in after it started  *)
(* (Destroying).                                                           *)
(***************************************************************************)
EXTENDS EventFlag, SequenceLemmas

Walking ==
    /\ \A t \in Threads : pc[t] = "walk" <=> m_mutex = t
    /\ m_mutex = None <=> it = 0

Listed == \A t \in Threads : t \in Range(m_waiters) <=> pc[t] = "waiting"

Passed ==
    \A i \in DOMAIN m_waiters :
        (m_mutex = None \/ i < it) /\ flags[m_waiters[i]] = {} =>
            ~ConditionMet(waiter[m_waiters[i]])

Reset == \A t \in Threads : pc[t] # "waiting" => flags[t] = {}

Destroying ==
    /\ \A t \in Threads : pc[t] = "destroying" => m_deleted
    /\ \A t, u \in Threads : pc[t] = "destroying" /\ pc[u] = "destroying" => t = u
    /\ ~exists => m_deleted
    /\ DestroyedAlone

IInv ==
    /\ TypeOK
    /\ Walking
    /\ Listed
    /\ OnceEach(m_waiters)
    /\ Passed
    /\ Reset
    /\ ResultShowsWhy
    /\ Destroying

USE ThreadsAssumption, EventFlagAssumption

\* The inductive invariant holds at the start.
LEMMA InitInv == Init => IInv
<1> SUFFICES ASSUME Init PROVE IInv
  OBVIOUS
<1>1. TypeOK
  <2>1. NoWaiter \in Waiters /\ {} \in Patterns
    BY DEF Patterns, Waiters, NoWaiter
  <2>2. waiter \in [Threads -> Waiters] /\ result \in [Threads -> Patterns]
    BY <2>1 DEF Init
  <2>3. m_waiters \in Seq(Threads) /\ it \in 0 .. (Len(m_waiters) + 1)
    BY DEF Init
  <2> QED
    BY <2>2, <2>3 DEF Init, TypeOK
<1>2. Range(m_waiters) = {} /\ OnceEach(m_waiters)
  BY DEF Init, Range, OnceEach
<1> QED
  BY <1>1, <1>2 DEF Init, IInv, Walking, Listed, Passed, Reset, ResultShowsWhy,
                    Destroying, DestroyedAlone

\* Clearing bits does not make a condition true.
LEMMA FewerBits ==
    ASSUME NEW b \in Patterns, NEW c \in Patterns, c \subseteq b,
           NEW w \in Waiters, ~Satisfies(b, w)
    PROVE  ~Satisfies(c, w)
BY DEF Satisfies, Patterns, Waiters

\* ApplyClear only clears bits.
LEMMA AfterClearFewer ==
    ASSUME TypeOK, NEW w \in Waiters
    PROVE  AfterClear(w) \in Patterns /\ AfterClear(w) \subseteq m_bits
BY DEF TypeOK, AfterClear, Patterns, Waiters

\* A step that only clears bits, or leaves them, misses nothing.
LEMMA PassedWithFewerBits ==
    ASSUME IInv, m_bits' \in Patterns, m_bits' \subseteq m_bits,
           UNCHANGED <<m_waiters, m_mutex, it, flags, waiter>>
    PROVE  Passed'
<1> SUFFICES ASSUME NEW i \in DOMAIN m_waiters, m_mutex = None \/ i < it,
                    flags[m_waiters[i]] = {}
             PROVE  ~Satisfies(m_bits', waiter[m_waiters[i]])
  BY DEF Passed, ConditionMet
<1>1. ~Satisfies(m_bits, waiter[m_waiters[i]])
  BY DEF IInv, Passed, ConditionMet
<1>2. waiter[m_waiters[i]] \in Waiters /\ m_bits \in Patterns
  BY DEF IInv, TypeOK
<1> QED
  BY <1>1, <1>2, FewerBits

\* WaitTake preserves the invariant.
LEMMA WaitTakeInv ==
    ASSUME IInv, NEW t \in Threads, NEW w \in Waiters, WaitTake(t, w)
    PROVE  IInv'
<1>1. m_bits' \in Patterns /\ m_bits' \subseteq m_bits
  BY AfterClearFewer DEF IInv, WaitTake
<1>2. TypeOK'
  BY <1>1 DEF IInv, TypeOK, WaitTake, waiterVars
<1>3. Passed'
  BY <1>1, PassedWithFewerBits DEF WaitTake, waiterVars
<1>4. Walking' /\ Listed' /\ OnceEach(m_waiters)' /\ Reset'
  BY DEF IInv, Walking, Listed, OnceEach, Reset, WaitTake, waiterVars
<1>5. ResultShowsWhy' /\ Destroying'
  BY DEF IInv, ResultShowsWhy, Satisfies, Destroying, DestroyedAlone, WaitTake, waiterVars
<1> QED
  BY <1>2, <1>3, <1>4, <1>5 DEF IInv

\* Clear preserves the invariant.
LEMMA ClearInv ==
    ASSUME IInv, NEW t \in Threads, NEW b \in Patterns, Clear(t, b)
    PROVE  IInv'
<1>1. m_bits' \in Patterns /\ m_bits' \subseteq m_bits
  BY DEF IInv, TypeOK, Patterns, Clear
<1>2. TypeOK'
  BY <1>1 DEF IInv, TypeOK, Clear, waiterVars
<1>3. Passed'
  BY <1>1, PassedWithFewerBits DEF Clear, waiterVars
<1>4. Walking' /\ Listed' /\ OnceEach(m_waiters)' /\ Reset'
  BY DEF IInv, Walking, Listed, OnceEach, Reset, Clear, waiterVars
<1>5. ResultShowsWhy' /\ Destroying'
  BY DEF IInv, ResultShowsWhy, Satisfies, Destroying, DestroyedAlone, Clear, waiterVars
<1> QED
  BY <1>2, <1>3, <1>4, <1>5 DEF IInv

\* WaitBlock preserves the invariant.
LEMMA WaitBlockInv ==
    ASSUME IInv, NEW t \in Threads, NEW w \in Waiters, WaitBlock(t, w)
    PROVE  IInv'
<1>1. /\ pc[t] = "run" /\ m_mutex = None /\ exists /\ ~m_deleted
      /\ t \notin Range(m_waiters) /\ flags[t] = {}
  BY DEF IInv, Listed, Reset, WaitBlock, Calling, Admitted
<1>2. /\ m_waiters' \in Seq(Threads)
      /\ Range(m_waiters') = Range(m_waiters) \cup {t}
      /\ OnceEach(m_waiters')
  <2>1. PICK i \in 1 .. (Len(m_waiters) + 1) : m_waiters' = InsertAt(m_waiters, i, t)
    BY DEF WaitBlock, AddWaiter, Positions
  <2>2. m_waiters \in Seq(Threads) /\ OnceEach(m_waiters)
    BY DEF IInv, TypeOK
  <2>3. InsertAt(m_waiters, i, t) \in Seq(Threads)
    BY <2>2, InsertAtFacts
  <2>4. /\ Range(InsertAt(m_waiters, i, t)) = Range(m_waiters) \cup {t}
        /\ OnceEach(InsertAt(m_waiters, i, t))
    BY <1>1, <2>2, InsertAtRange
  <2> QED
    BY <2>1, <2>3, <2>4
<1>3. it = 0 /\ it' = 0
  BY <1>1 DEF IInv, Walking, WaitBlock
<1>4. TypeOK'
  <2>1. it' \in 0 .. (Len(m_waiters') + 1)
    BY <1>2, <1>3
  <2>2. timed' \in [Threads -> BOOLEAN]
    BY DEF IInv, TypeOK, WaitBlock
  <2>3. waiter' \in [Threads -> Waiters]
    BY DEF IInv, TypeOK, WaitBlock
  <2> QED
    BY <1>2, <2>1, <2>2, <2>3 DEF IInv, TypeOK, WaitBlock, GoTo
<1>5. Walking'
  BY <1>1, <1>3 DEF IInv, TypeOK, Walking, WaitBlock, GoTo
<1>6. Listed'
  BY <1>2 DEF IInv, TypeOK, Listed, WaitBlock, GoTo
<1>7. \A u \in Range(m_waiters') : flags[u] = {} => ~Satisfies(m_bits, waiter'[u])
  <2> SUFFICES ASSUME NEW u \in Range(m_waiters'), flags[u] = {}
               PROVE  ~Satisfies(m_bits, waiter'[u])
    OBVIOUS
  <2>1. CASE u = t
    BY <2>1 DEF IInv, TypeOK, WaitBlock, ConditionMet
  <2>2. CASE u # t
    <3>1. PICK i \in DOMAIN m_waiters : m_waiters[i] = u
      BY <1>2, <2>2 DEF Range
    <3>2. ~Satisfies(m_bits, waiter[u])
      BY <1>1, <3>1 DEF IInv, Passed, ConditionMet
    <3> QED
      BY <2>2, <3>2 DEF IInv, TypeOK, WaitBlock
  <2> QED
    BY <2>1, <2>2
<1>8. Passed'
  BY <1>7 DEF Passed, ConditionMet, Range, WaitBlock
<1>9. Reset'
  BY DEF IInv, TypeOK, Reset, WaitBlock, GoTo
<1>10. ResultShowsWhy'
  BY <1>1 DEF IInv, TypeOK, ResultShowsWhy, WaitBlock
<1>11. Destroying'
  BY <1>1 DEF IInv, TypeOK, Destroying, DestroyedAlone, WaitBlock, GoTo
<1> QED
  BY <1>2, <1>4, <1>5, <1>6, <1>8, <1>9, <1>10, <1>11 DEF IInv

\* Leave preserves the invariant.
LEMMA LeaveInv ==
    ASSUME IInv, NEW t \in Threads, pc[t] = "waiting", m_mutex = None, Leave(t)
    PROVE  IInv'
<1>1. /\ m_waiters' \in Seq(Threads)
      /\ Range(m_waiters') = Range(m_waiters) \ {t}
      /\ OnceEach(m_waiters')
  <2>1. PICK i \in DOMAIN m_waiters :
           m_waiters[i] = t /\ m_waiters' = RemoveAt(m_waiters, i)
    BY DEF Leave, RemoveWaiter
  <2>2. m_waiters \in Seq(Threads) /\ OnceEach(m_waiters)
    BY DEF IInv, TypeOK
  <2>3. i \in 1 .. Len(m_waiters)
    BY <2>2
  <2> QED
    BY <2>1, <2>2, <2>3, RemoveAtFacts, RemoveAtRange
<1>2. it = 0 /\ it' = 0
  BY DEF IInv, Walking, Leave
<1>3. TypeOK'
  <2>1. it' \in 0 .. (Len(m_waiters') + 1)
    BY <1>1, <1>2
  <2>2. destroy_notified' \in BOOLEAN
    BY DEF IInv, TypeOK, Leave, RemoveWaiter, NotifyDestructor
  <2>3. waiter' \in [Threads -> Waiters]
    BY DEF IInv, TypeOK, Leave, NoWaiter, Waiters, Patterns
  <2>4. /\ flags' \in [Threads -> SUBSET Flags] /\ result' \in [Threads -> Patterns]
        /\ pc' \in [Threads -> {"run", "waiting", "walk", "destroying"}]
    BY DEF IInv, TypeOK, Leave, Patterns, GoTo
  <2>5. notified' \in [Threads -> BOOLEAN] /\ timed' \in [Threads -> BOOLEAN]
    BY DEF IInv, TypeOK, Leave
  <2> QED
    BY <1>1, <2>1, <2>2, <2>3, <2>4, <2>5 DEF IInv, TypeOK, Leave
<1>4. Walking'
  BY <1>2 DEF IInv, TypeOK, Walking, Leave, GoTo
<1>5. Listed'
  BY <1>1 DEF IInv, TypeOK, Listed, Leave, GoTo
<1>6. \A u \in Range(m_waiters') : flags'[u] = {} => ~Satisfies(m_bits, waiter'[u])
  <2> SUFFICES ASSUME NEW u \in Range(m_waiters'), flags'[u] = {}
               PROVE  ~Satisfies(m_bits, waiter'[u])
    OBVIOUS
  <2>1. PICK i \in DOMAIN m_waiters : m_waiters[i] = u /\ u # t
    BY <1>1 DEF Range
  <2>2. flags'[u] = flags[u] /\ waiter'[u] = waiter[u]
    BY <2>1 DEF IInv, TypeOK, Leave
  <2> QED
    BY <2>1, <2>2 DEF IInv, Passed, ConditionMet
<1>7. Passed'
  BY <1>6 DEF Passed, ConditionMet, Range, Leave
<1>8. Reset'
  BY DEF IInv, TypeOK, Reset, Leave, GoTo
<1>9. ResultShowsWhy'
  BY DEF IInv, TypeOK, ResultShowsWhy, Leave
<1>10. Destroying'
  BY DEF IInv, TypeOK, Destroying, DestroyedAlone, Leave, GoTo
<1> QED
  BY <1>1, <1>3, <1>4, <1>5, <1>7, <1>8, <1>9, <1>10 DEF IInv

\* SetEnter preserves the invariant.
LEMMA SetEnterInv ==
    ASSUME IInv, NEW t \in Threads, NEW b \in Patterns, SetEnter(t, b)
    PROVE  IInv'
<1>1. it' = 1 /\ m_mutex' = t /\ m_mutex = None /\ pc[t] = "run" /\ exists
  BY DEF SetEnter, Calling
<1>2. TypeOK'
  <2>1. m_bits' \in Patterns
    BY DEF IInv, TypeOK, SetEnter, Patterns
  <2>2. it' \in 0 .. (Len(m_waiters) + 1)
    BY <1>1 DEF IInv, TypeOK
  <2> QED
    BY <2>1, <2>2 DEF IInv, TypeOK, SetEnter, GoTo, waiterVars
<1>3. Walking'
  BY <1>1 DEF IInv, TypeOK, Walking, SetEnter, GoTo
<1>4. Listed' /\ OnceEach(m_waiters)' /\ Reset'
  BY <1>1 DEF IInv, TypeOK, Listed, OnceEach, Reset, SetEnter, GoTo, waiterVars
<1>5. Passed'
  BY <1>1 DEF IInv, TypeOK, Passed, SetEnter
<1>6. ResultShowsWhy'
  BY DEF IInv, ResultShowsWhy, Satisfies, SetEnter, waiterVars
<1>7. Destroying'
  BY <1>1 DEF IInv, TypeOK, Destroying, DestroyedAlone, SetEnter, GoTo
<1> QED
  BY <1>2, <1>3, <1>4, <1>5, <1>6, <1>7 DEF IInv

\* SetSkip preserves the invariant.
LEMMA SetSkipInv ==
    ASSUME IInv, NEW t \in Threads, SetSkip(t)
    PROVE  IInv'
<1>1. /\ it \in 1 .. Len(m_waiters) /\ it' = it + 1 /\ m_mutex = t
      /\ m_waiters \in Seq(Threads)
  BY DEF IInv, TypeOK, Walking, SetSkip, OneOn
<1>2. TypeOK'
  <2>1. it' \in 0 .. (Len(m_waiters) + 1)
    BY <1>1
  <2> QED
    BY <2>1 DEF IInv, TypeOK, SetSkip, waiterVars
<1>3. Walking'
  BY <1>1 DEF IInv, Walking, SetSkip
<1>4. Listed' /\ OnceEach(m_waiters)' /\ Reset'
  BY DEF IInv, Listed, OnceEach, Reset, SetSkip, waiterVars
<1>5. Passed'
  <2> SUFFICES ASSUME NEW i \in DOMAIN m_waiters, i < it + 1,
                      flags[m_waiters[i]] = {}
               PROVE  ~ConditionMet(waiter[m_waiters[i]])
    BY <1>1 DEF Passed, ConditionMet, Satisfies, SetSkip, waiterVars
  <2>1. CASE i = it
    BY <2>1 DEF SetSkip
  <2>2. CASE i < it
    BY <2>2 DEF IInv, Passed
  <2> QED
    BY <1>1, <2>1, <2>2
<1>6. ResultShowsWhy' /\ Destroying'
  BY DEF IInv, ResultShowsWhy, Satisfies, Destroying, DestroyedAlone, SetSkip, waiterVars
<1> QED
  BY <1>2, <1>3, <1>4, <1>5, <1>6 DEF IInv

\* SetServe preserves the invariant.
LEMMA SetServeInv ==
    ASSUME IInv, NEW t \in Threads, SetServe(t)
    PROVE  IInv'
<1> DEFINE u == m_waiters[it]
<1>1. /\ it \in 1 .. Len(m_waiters) /\ m_mutex = t /\ m_waiters \in Seq(Threads)
      /\ OnceEach(m_waiters)
  BY DEF IInv, TypeOK, Walking, SetServe
<1>2. u \in Threads /\ u \in Range(m_waiters) /\ it \in DOMAIN m_waiters
  BY <1>1 DEF Range
<1>3. /\ Satisfies(m_bits, waiter[u])
      /\ result' = [result EXCEPT ![u] = m_bits]
      /\ m_bits' = AfterClear(waiter[u])
      /\ flags' = [flags EXCEPT ![u] = @ \cup {"ready"}]
      /\ notified' = [notified EXCEPT ![u] = TRUE]
      /\ it' = it + 1
      /\ UNCHANGED <<m_waiters, m_deleted, m_mutex, destroy_notified, exists, pc,
                     waiter, timed>>
  BY DEF SetServe, ConditionMet, BitsSeen, OneOn
<1>4. m_bits' \in Patterns /\ m_bits' \subseteq m_bits /\ m_bits \in Patterns
  BY <1>2, <1>3, AfterClearFewer DEF IInv, TypeOK
<1>5. /\ flags'[u] = flags[u] \cup {"ready"}
      /\ result'[u] = m_bits
      /\ \A v \in Threads \ {u} : flags'[v] = flags[v] /\ result'[v] = result[v]
  BY <1>2, <1>3 DEF IInv, TypeOK
<1>6. TypeOK'
  <2>1. it' \in 0 .. (Len(m_waiters) + 1)
    BY <1>1, <1>3
  <2>2. result' \in [Threads -> Patterns]
    BY <1>2, <1>3 DEF IInv, TypeOK
  <2>3. flags' \in [Threads -> SUBSET Flags]
    BY <1>2, <1>3 DEF IInv, TypeOK, Flags
  <2>4. notified' \in [Threads -> BOOLEAN]
    BY <1>2, <1>3 DEF IInv, TypeOK
  <2> QED
    BY <1>3, <1>4, <2>1, <2>2, <2>3, <2>4 DEF IInv, TypeOK
<1>7. Walking'
  BY <1>1, <1>3 DEF IInv, Walking
<1>8. Listed' /\ OnceEach(m_waiters)'
  BY <1>3 DEF IInv, Listed, OnceEach
<1>9. Reset'
  BY <1>2, <1>3, <1>5 DEF IInv, Listed, Reset
<1>10. Passed'
  <2> SUFFICES ASSUME NEW i \in DOMAIN m_waiters, i < it + 1,
                      flags'[m_waiters[i]] = {}
               PROVE  ~Satisfies(m_bits', waiter[m_waiters[i]])
    BY <1>1, <1>3 DEF Passed, ConditionMet
  <2>1. m_waiters[i] \in Threads /\ m_waiters[i] # u
    <3>1. m_waiters[i] \in Threads
      BY <1>1
    <3>2. "ready" \in flags'[u]
      BY <1>5
    <3> QED
      BY <3>1, <3>2
  <2>2. i < it
    BY <1>1, <2>1
  <2>3. ~Satisfies(m_bits, waiter[m_waiters[i]])
    BY <1>5, <2>1, <2>2 DEF IInv, Passed, ConditionMet
  <2>4. waiter[m_waiters[i]] \in Waiters
    BY <2>1 DEF IInv, TypeOK
  <2> HIDE DEF u
  <2> QED
    BY <1>4, <2>3, <2>4, FewerBits
<1> HIDE DEF u
<1>11. ResultShowsWhy'
  <2> SUFFICES ASSUME NEW v \in Threads, flags'[v] \cap {"ready", "canceled"} = {"ready"}
               PROVE  Satisfies(result'[v], waiter[v])
    BY <1>3 DEF ResultShowsWhy
  <2>1. CASE v = u
    BY <1>3, <1>5, <2>1
  <2>2. CASE v # u
    BY <1>5, <2>2 DEF IInv, ResultShowsWhy
  <2> QED
    BY <2>1, <2>2
<1>12. Destroying'
  BY <1>3 DEF IInv, Destroying, DestroyedAlone
<1> QED
  BY <1>6, <1>7, <1>8, <1>9, <1>10, <1>11, <1>12 DEF IInv

\* SetDone preserves the invariant.
LEMMA SetDoneInv ==
    ASSUME IInv, NEW t \in Threads, SetDone(t)
    PROVE  IInv'
<1>1. /\ m_mutex = t /\ m_mutex' = None /\ it' = 0 /\ it > Len(m_waiters)
      /\ m_waiters \in Seq(Threads) /\ it \in Nat
  BY DEF IInv, TypeOK, Walking, SetDone, WalkOver
<1>2. TypeOK'
  <2>1. it' \in 0 .. (Len(m_waiters) + 1)
    BY <1>1
  <2> QED
    BY <2>1 DEF IInv, TypeOK, SetDone, GoTo, waiterVars
<1>3. Walking'
  BY <1>1 DEF IInv, TypeOK, Walking, SetDone, GoTo
<1>4. Listed' /\ OnceEach(m_waiters)' /\ Reset'
  BY DEF IInv, TypeOK, Listed, OnceEach, Reset, SetDone, GoTo, waiterVars
<1>5. Passed'
  <2>1. \A i \in DOMAIN m_waiters : i < it
    BY <1>1
  <2>2. \A i \in DOMAIN m_waiters :
           flags[m_waiters[i]] = {} => ~ConditionMet(waiter[m_waiters[i]])
    BY <2>1 DEF IInv, Passed
  <2> QED
    BY <2>2 DEF Passed, ConditionMet, Satisfies, SetDone, waiterVars
<1>6. ResultShowsWhy'
  BY DEF IInv, ResultShowsWhy, Satisfies, SetDone, waiterVars
<1>7. Destroying'
  BY DEF IInv, TypeOK, Destroying, DestroyedAlone, SetDone, GoTo
<1> QED
  BY <1>2, <1>3, <1>4, <1>5, <1>6, <1>7 DEF IInv

\* Raise tells every waiter.
LEMMA RaiseFacts ==
    ASSUME IInv, NEW flag \in Flags, Raise(flag)
    PROVE  /\ flags' \in [Threads -> SUBSET Flags]
           /\ notified' \in [Threads -> BOOLEAN]
           /\ \A u \in Range(m_waiters) : flags'[u] = flags[u] \cup {flag}
           /\ \A u \in Threads \ Range(m_waiters) : flags'[u] = flags[u]
<1>1. \A u \in Range(m_waiters) : u \in Threads
  BY DEF IInv, TypeOK, Range
<1> QED
  BY <1>1 DEF IInv, TypeOK, Raise

\* Cancel preserves the invariant.
LEMMA CancelInv ==
    ASSUME IInv, NEW t \in Threads, NEW b \in Patterns, Cancel(t, b)
    PROVE  IInv'
<1>1. "canceled" \in Flags /\ Raise("canceled")
  BY DEF Cancel, Flags
<1>2. /\ flags' \in [Threads -> SUBSET Flags]
      /\ notified' \in [Threads -> BOOLEAN]
      /\ \A u \in Range(m_waiters) : flags'[u] = flags[u] \cup {"canceled"}
      /\ \A u \in Threads \ Range(m_waiters) : flags'[u] = flags[u]
  BY <1>1, RaiseFacts
<1>3. result' \in [Threads -> Patterns]
  BY DEF IInv, TypeOK, Cancel
<1>4. TypeOK'
  BY <1>2, <1>3 DEF IInv, TypeOK, Cancel
<1>5. Walking' /\ Listed' /\ OnceEach(m_waiters)'
  BY DEF IInv, Walking, Listed, OnceEach, Cancel
<1>6. Passed'
  <2>1. m_waiters' = m_waiters
    BY DEF Cancel
  <2>2. \A i \in DOMAIN m_waiters : flags'[m_waiters[i]] # {}
    BY <1>2 DEF Range
  <2> QED
    BY <2>1, <2>2 DEF Passed
<1>7. Reset'
  BY <1>2 DEF IInv, Listed, Reset, Cancel
<1>8. ResultShowsWhy'
  BY <1>2 DEF IInv, ResultShowsWhy, Cancel
<1>9. Destroying'
  BY DEF IInv, Destroying, DestroyedAlone, Cancel
<1> QED
  BY <1>4, <1>5, <1>6, <1>7, <1>8, <1>9 DEF IInv

\* Delete preserves the invariant.
LEMMA DeleteInv ==
    ASSUME IInv, NEW t \in Threads, Delete(t)
    PROVE  IInv'
<1>1. "deleted" \in Flags /\ Raise("deleted")
  BY DEF Delete, Flags
<1>2. /\ flags' \in [Threads -> SUBSET Flags]
      /\ notified' \in [Threads -> BOOLEAN]
      /\ \A u \in Range(m_waiters) : flags'[u] = flags[u] \cup {"deleted"}
      /\ \A u \in Threads \ Range(m_waiters) : flags'[u] = flags[u]
  BY <1>1, RaiseFacts
<1>3. /\ pc[t] = "run" /\ exists /\ m_mutex = None /\ ~m_deleted /\ m_deleted' = TRUE
      /\ \A u \in Threads : pc[u] # "destroying" /\ pc[u] # "walk"
  BY DEF IInv, Walking, Destroying, Delete, Calling
<1>4. \/ exists' = FALSE /\ pc' = pc /\ m_waiters = <<>>
      \/ exists' = exists /\ pc' = [pc EXCEPT ![t] = "destroying"]
  BY DEF Delete, AllGone, GoTo
<1>5. UNCHANGED <<m_bits, m_waiters, m_mutex, it, destroy_notified, waiter, result, timed>>
  BY DEF Delete
<1>6. TypeOK'
  <2>1. pc' \in [Threads -> {"run", "waiting", "walk", "destroying"}]
    BY <1>4 DEF IInv, TypeOK
  <2>2. exists' \in BOOLEAN /\ m_deleted' \in BOOLEAN
    BY <1>3, <1>4 DEF IInv, TypeOK
  <2> QED
    BY <1>2, <1>5, <2>1, <2>2 DEF IInv, TypeOK
<1>7. Walking'
  BY <1>3, <1>4, <1>5 DEF IInv, TypeOK, Walking
<1>8. Listed' /\ OnceEach(m_waiters)'
  BY <1>3, <1>4, <1>5 DEF IInv, TypeOK, Listed, OnceEach
<1>9. Passed'
  <2>1. \A i \in DOMAIN m_waiters : flags'[m_waiters[i]] # {}
    BY <1>2 DEF Range
  <2> QED
    BY <1>5, <2>1 DEF Passed
<1>10. Reset'
  BY <1>2, <1>3, <1>4 DEF IInv, TypeOK, Listed, Reset
<1>11. ResultShowsWhy'
  <2> SUFFICES ASSUME NEW v \in Threads, flags'[v] \cap {"ready", "canceled"} = {"ready"}
               PROVE  Satisfies(result[v], waiter[v])
    BY <1>5 DEF ResultShowsWhy
  <2>1. flags[v] \cap {"ready", "canceled"} = {"ready"}
    BY <1>2
  <2> QED
    BY <2>1 DEF IInv, ResultShowsWhy
<1>12. Destroying'
  <2>1. CASE exists' = FALSE /\ pc' = pc /\ m_waiters = <<>>
    <3>1. Range(m_waiters) = {}
      BY <2>1 DEF Range
    <3>2. \A u \in Threads : pc[u] = "run"
      BY <1>3, <3>1 DEF IInv, TypeOK, Listed
    <3> QED
      BY <1>3, <1>5, <2>1, <3>2 DEF Destroying, DestroyedAlone
  <2>2. CASE exists' = exists /\ pc' = [pc EXCEPT ![t] = "destroying"]
    BY <1>3, <1>5, <2>2 DEF IInv, TypeOK, Destroying, DestroyedAlone
  <2> QED
    BY <1>4, <2>1, <2>2
<1> QED
  BY <1>6, <1>7, <1>8, <1>9, <1>10, <1>11, <1>12 DEF IInv

\* DeleteDone preserves the invariant.
LEMMA DeleteDoneInv ==
    ASSUME IInv, NEW t \in Threads, DeleteDone(t)
    PROVE  IInv'
<1>1. /\ pc[t] = "destroying" /\ m_mutex = None /\ m_waiters = <<>>
      /\ exists' = FALSE /\ pc' = [pc EXCEPT ![t] = "run"] /\ m_deleted
  BY DEF IInv, Destroying, DeleteDone, AllGone, GoTo
<1>2. TypeOK'
  <2>1. pc' \in [Threads -> {"run", "waiting", "walk", "destroying"}]
    BY <1>1 DEF IInv, TypeOK
  <2> QED
    BY <1>1, <2>1 DEF IInv, TypeOK, DeleteDone, waiterVars
<1>3. Walking'
  BY <1>1 DEF IInv, TypeOK, Walking, DeleteDone
<1>4. Listed' /\ OnceEach(m_waiters)' /\ Reset'
  BY <1>1 DEF IInv, TypeOK, Listed, OnceEach, Reset, DeleteDone, waiterVars
<1>5. Passed' /\ ResultShowsWhy'
  BY DEF IInv, Passed, ConditionMet, Satisfies, ResultShowsWhy, DeleteDone, waiterVars
<1>6. Destroying'
  <2>1. Range(m_waiters) = {}
    BY <1>1 DEF Range
  <2>2. \A u \in Threads : pc'[u] = "run"
    BY <1>1, <2>1 DEF IInv, TypeOK, Walking, Listed, Destroying
  <2> QED
    BY <1>1, <2>2 DEF Destroying, DestroyedAlone, DeleteDone
<1> QED
  BY <1>2, <1>3, <1>4, <1>5, <1>6 DEF IInv

\* A stuttering step preserves it.
LEMMA StutterInv ==
    ASSUME IInv, UNCHANGED vars
    PROVE  IInv'
<1> USE DEF IInv, vars, objectVars, waiterVars
<1>1. TypeOK' /\ Walking' /\ Listed' /\ OnceEach(m_waiters)' /\ Reset'
  BY DEF TypeOK, Walking, Listed, OnceEach, Reset
<1>2. Passed' /\ ResultShowsWhy' /\ Destroying'
  BY DEF Passed, ConditionMet, Satisfies, ResultShowsWhy, Destroying, DestroyedAlone
<1> QED
  BY <1>1, <1>2

\* Every step preserves it.
LEMMA NextInv ==
    ASSUME IInv, [Next]_vars
    PROVE  IInv'
<1>1. CASE UNCHANGED vars
  BY <1>1, StutterInv
<1>2. ASSUME NEW t \in Threads, WaitWoken(t) \/ WaitTimeout(t)
      PROVE  IInv'
  BY <1>2, LeaveInv DEF WaitWoken, WaitTimeout
<1>3. ASSUME NEW t \in Threads, Step(t)
      PROVE  IInv'
  BY <1>2, <1>3, SetSkipInv, SetServeInv, SetDoneInv, DeleteDoneInv DEF Step
<1>4. ASSUME NEW t \in Threads, Call(t)
      PROVE  IInv'
  BY <1>4, WaitTakeInv, WaitBlockInv, SetEnterInv, ClearInv, CancelInv, DeleteInv DEF Call
<1> QED
  BY <1>1, <1>2, <1>3, <1>4 DEF Next

-----------------------------------------------------------------------------
\* The inductive invariant holds always.
LEMMA InvHolds == Spec => []IInv
<1>1. IInv /\ [Next]_vars => IInv'
  BY NextInv
<1> QED
  BY InitInv, <1>1, PTL DEF Spec

\* Every variable keeps its type; the walk of Set never leaves the list.
THEOREM TypeCorrect == Spec => []TypeOK
<1>1. IInv => TypeOK
  BY DEF IInv
<1> QED
  BY InvHolds, <1>1, PTL

\* Whenever m_mutex is free, a waiter of an event flag that has not been told
\* anything is one whose condition does not hold, for any bits and modes.
THEOREM NoMissedSetHolds == Spec => []NoMissedSet
<1>1. IInv => NoMissedSet
  BY DEF IInv, Passed, NoMissedSet, Range
<1> QED
  BY InvHolds, <1>1, PTL

\* A served waiter gets a pattern that satisfies what it waited for.
THEOREM ResultShowsWhyHolds == Spec => []ResultShowsWhy
<1>1. IInv => ResultShowsWhy
  BY DEF IInv
<1> QED
  BY InvHolds, <1>1, PTL

\* m_waiters holds exactly the Waiters of the threads inside Wait, once each.
THEOREM ListedWhileWaitingHolds == Spec => []ListedWhileWaiting
<1>1. IInv => ListedWhileWaiting
  BY DEF IInv, Listed, OnceEach, ListedWhileWaiting
<1> QED
  BY InvHolds, <1>1, PTL

\* ~EventFlagInternal returns only when nobody is inside the object.
THEOREM DestroyedAloneHolds == Spec => []DestroyedAlone
<1>1. IInv => DestroyedAlone
  BY DEF IInv, Destroying
<1> QED
  BY InvHolds, <1>1, PTL

=============================================================================
