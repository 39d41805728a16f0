--------------------------- MODULE OrbisSemProofs ---------------------------
(***************************************************************************)
(* Theorems about OrbisSem, for any threads, counts and priorities.        *)
(*                                                                         *)
(* NoStrandedWaiter speaks of the moments when the mutex is free.  Inside  *)
(* Signal it holds for the waiters the walk has passed (Passed): a waiter  *)
(* it serves lowers token_count, so nobody it has passed becomes           *)
(* servable.  That the walk and a time-out work on valid list elements     *)
(* rests on ListedUntilTold, and WokenOnce on the fact that a waiter that  *)
(* is still listed has not been woken (Asleep).                            *)
(*                                                                         *)
(* The guest may pass any counts.  A need below zero would raise           *)
(* token_count without a walk of the list, so what token_count is compared *)
(* with, and what it adds up to, is proved under NoNegativeNeed.           *)
(***************************************************************************)
EXTENDS OrbisSem, SequenceLemmas, FiniteSetTheorems

Walking ==
    /\ \A t \in Threads : pc[t] = "walk" <=> mutex = t
    /\ mutex # None => it > 0

Passed ==
    NoNegativeNeed =>
        \A i \in DOMAIN wait_list :
            mutex = None \/ i < it => need_count[wait_list[i]] > token_count

Asleep == \A t \in Threads : sem[t] <= 1 /\ (flags[t] = {} => sem[t] = 0)

Told ==
    \A t \in Threads :
        t \in Range(wait_list) <=> pc[t] \in {"blocked", "relock"} /\ flags[t] = {}

IInv ==
    /\ TypeOK
    /\ Walking
    /\ Told
    /\ OnceEach(wait_list)
    /\ Passed
    /\ Asleep

USE ThreadsAssumption, OrbisSemAssumption

-----------------------------------------------------------------------------
(***************************************************************************)
(* Arithmetic of an s32.                                                   *)
(***************************************************************************)

\* The remainder lies below the modulus, and what is left is a multiple of it.
LEMMA Remainder ==
    ASSUME NEW m \in Nat \ {0}, NEW x \in Int
    PROVE  x % m \in 0 .. (m - 1) /\ x \div m \in Int /\ x = m * (x \div m) + (x % m)
OBVIOUS

\* Only one remainder will do.
LEMMA RemainderIs ==
    ASSUME NEW m \in Nat \ {0}, NEW k \in Int, NEW r \in 0 .. (m - 1)
    PROVE  (m * k + r) % m = r
OBVIOUS

\* A wrapped sum is an s32, some multiple of the width away from the sum.
LEMMA WrapType ==
    ASSUME NEW x \in Int
    PROVE  Wrap(x) \in Int32 /\ \E k \in Int : Wrap(x) = x + (2 * S32) * k
<1> DEFINE m == 2 * S32
           y == x + S32
           q == y \div m
<1>1. m \in Nat \ {0} /\ y \in Int
  OBVIOUS
<1>2. y % m \in 0 .. (m - 1) /\ q \in Int /\ y = m * q + (y % m)
  BY <1>1, Remainder
<1>3. Wrap(x) = (y % m) - S32
  BY DEF Wrap
<1>4. Wrap(x) \in Int32
  BY <1>2, <1>3 DEF Int32
<1> HIDE DEF q, y, m
<1>5. -q \in Int /\ m * (-q) = -(m * q) /\ m * q \in Int
  BY <1>1, <1>2
<1>6. x = y - S32
  BY DEF y
<1>7. Wrap(x) = x + m * (-q)
  BY <1>1, <1>2, <1>3, <1>5, <1>6
<1> QED
  BY <1>4, <1>5, <1>7 DEF m

\* And it is the only such s32.
LEMMA WrapIs ==
    ASSUME NEW x \in Int, NEW k \in Int, NEW a \in Int32, a = x + (2 * S32) * k
    PROVE  Wrap(x) = a
<1> DEFINE m == 2 * S32
<1>1. m \in Nat \ {0} /\ -k \in Int /\ a + S32 \in 0 .. (m - 1)
  BY DEF Int32
<1>2. m * (-k) = -(m * k) /\ m * k \in Int
  BY <1>1
<1>3. (m * (-k) + (a + S32)) % m = a + S32
  BY <1>1, RemainderIs
<1>4. x + S32 = m * (-k) + (a + S32)
  BY <1>1, <1>2 DEF Int32
<1>5. (x + S32) % m = a + S32
  BY <1>3, <1>4
<1> HIDE DEF m
<1>6. Wrap(x) = ((x + S32) % m) - S32
  BY DEF Wrap, m
<1> QED
  BY <1>5, <1>6 DEF Int32

\* A sum that is an s32 stays as it is.
LEMMA WrapSame ==
    ASSUME NEW x \in Int32
    PROVE  Wrap(x) = x
<1>1. x \in Int /\ 0 \in Int /\ x = x + (2 * S32) * 0
  BY DEF Int32
<1> QED
  BY <1>1, WrapIs

\* A need is a number, and one that may be set aside under the hypothesis.
LEMMA NeedType ==
    ASSUME NEW n \in Needs \cup {0}
    PROVE  n \in Int /\ (NoNegativeNeed => n \in Nat)
BY DEF Int32, NoNegativeNeed

\* Serving a need that is not negative lowers token_count by it.
LEMMA TakeType ==
    ASSUME TypeOK, NEW n \in Needs \cup {0}, n <= token_count
    PROVE  /\ Take(n) \in Int32
           /\ NoNegativeNeed => Take(n) = token_count - n /\ Take(n) <= token_count
<1>1. token_count \in Int /\ token_count \in Int32 /\ n \in Int
  BY DEF TypeOK, Int32
<1>2. Take(n) \in Int32
  BY <1>1, WrapType DEF Take
<1>3. ASSUME NoNegativeNeed
      PROVE  Take(n) = token_count - n /\ Take(n) <= token_count
  <2>1. n \in Nat
    BY <1>3 DEF NoNegativeNeed
  <2>2. token_count - n \in Int32 /\ token_count - n <= token_count
    BY <1>1, <2>1 DEF Int32
  <2> QED
    BY <2>2, WrapSame DEF Take
<1> QED
  BY <1>2, <1>3

\* A lower token_count keeps to the limit.
LEMMA LowerIsBelow ==
    ASSUME TypeOK, token_count' \in Int, token_count' <= token_count
    PROVE  BelowLimit'
<1>1. token_count \in Int /\ max_count \in Int /\ SetCounts \subseteq Int
  BY DEF TypeOK, Int32
<1> QED
  BY <1>1 DEF TypeOK, BelowLimit

-----------------------------------------------------------------------------

\* The inductive invariant holds at the start.
LEMMA InitInv == Init => IInv
<1> SUFFICES ASSUME Init PROVE IInv
  OBVIOUS
<1>1. TypeOK
  BY DEF Init, TypeOK, BelowLimit, Int32
<1>2. Range(wait_list) = {} /\ OnceEach(wait_list)
  BY DEF Init, Range, OnceEach
<1> QED
  BY <1>1, <1>2 DEF Init, IInv, Walking, Told, Passed, Asleep

\* The list after AddWaiter: t, and everybody else in their order.
LEMMA AddWaiterFacts ==
    ASSUME IInv, NEW t \in Threads, AddWaiter(t), t \notin Range(wait_list)
    PROVE  /\ wait_list' \in Seq(Threads)
           /\ Range(wait_list') = Range(wait_list) \cup {t}
           /\ OnceEach(wait_list')
<1>1. PICK i \in 1 .. (Len(wait_list) + 1) : wait_list' = InsertAt(wait_list, i, t)
  BY DEF AddWaiter, Positions
<1>2. wait_list \in Seq(Threads) /\ OnceEach(wait_list)
  BY DEF IInv, TypeOK
<1> QED
  BY <1>1, <1>2, InsertAtFacts, InsertAtRange

\* An element of a list in terms of its range.
LEMMA ListRange ==
    ASSUME NEW S, NEW s \in Seq(S)
    PROVE  /\ \A i \in DOMAIN s : s[i] \in Range(s) /\ s[i] \in S
           /\ \A x \in Range(s) : \E i \in DOMAIN s : s[i] = x
BY DEF Range

\* WaitTake preserves the invariant.
LEMMA WaitTakeInv ==
    ASSUME IInv, NEW t \in Threads, NEW n \in Needs, WaitTake(t, n)
    PROVE  IInv'
<1>1. /\ token_count' \in Int32
      /\ NoNegativeNeed => token_count' <= token_count
  BY TakeType DEF IInv, WaitTake, TypeOK, Int32
<1>2. TypeOK'
  <2>1. token_count' \in Int /\ balance' \in Int32
    BY <1>1, WrapType DEF IInv, TypeOK, WaitTake, Int32
  <2>2. BelowLimit'
    BY <1>1, <2>1, LowerIsBelow DEF IInv, BelowLimit
  <2> QED
    BY <1>1, <2>1, <2>2 DEF IInv, TypeOK, WaitTake, waiterVars
<1>3. Walking' /\ Told' /\ OnceEach(wait_list)' /\ Asleep'
  BY DEF IInv, WaitTake, Walking, Told, OnceEach, Asleep, waiterVars
<1>4. Passed'
  <2> SUFFICES ASSUME NoNegativeNeed, NEW i \in DOMAIN wait_list
               PROVE  need_count[wait_list[i]] > token_count'
    BY DEF WaitTake, waiterVars, Passed
  <2>1. need_count[wait_list[i]] > token_count /\ wait_list[i] \in Threads
    BY ListRange DEF IInv, Passed, TypeOK, WaitTake, Calling
  <2>2. need_count[wait_list[i]] \in Int /\ token_count \in Int /\ token_count' \in Int
    BY <1>1, <2>1 DEF IInv, TypeOK, Int32
  <2> QED
    BY <1>1, <2>1, <2>2
<1> QED
  BY <1>2, <1>3, <1>4 DEF IInv

\* WaitBlock preserves the invariant.
LEMMA WaitBlockInv ==
    ASSUME IInv, NEW t \in Threads, NEW n \in Needs, WaitBlock(t, n)
    PROVE  IInv'
<1>1. t \notin Range(wait_list) /\ pc[t] = "run" /\ mutex = None
  BY DEF IInv, Told, WaitBlock, Calling
<1>2. /\ wait_list' \in Seq(Threads)
      /\ Range(wait_list') = Range(wait_list) \cup {t}
      /\ OnceEach(wait_list')
  BY <1>1, AddWaiterFacts DEF WaitBlock
<1>3. TypeOK'
  BY <1>2 DEF IInv, TypeOK, BelowLimit, WaitBlock, GoTo
<1>4. Walking'
  BY <1>1 DEF IInv, TypeOK, Walking, WaitBlock, GoTo
<1>5. Told'
  BY <1>2 DEF IInv, TypeOK, Told, WaitBlock, GoTo
<1>6. NoNegativeNeed => \A u \in Range(wait_list') : need_count'[u] > token_count
  BY <1>1, <1>2, ListRange DEF IInv, TypeOK, Passed, WaitBlock, Int32
<1>7. Passed'
  BY <1>2, <1>6, ListRange DEF Passed, WaitBlock
<1>8. Asleep'
  BY DEF IInv, TypeOK, Asleep, WaitBlock
<1> QED
  BY <1>2, <1>3, <1>4, <1>5, <1>7, <1>8 DEF IInv

\* BlockAcquire preserves the invariant.
LEMMA BlockAcquireInv ==
    ASSUME IInv, NEW t \in Threads, BlockAcquire(t)
    PROVE  IInv'
<1>1. TypeOK'
  BY DEF IInv, TypeOK, BelowLimit, BlockAcquire, GoTo, objectVars
<1>2. Walking' /\ OnceEach(wait_list)'
  BY DEF IInv, TypeOK, Walking, OnceEach, BlockAcquire, GoTo, objectVars
<1>3. Told'
  BY DEF IInv, TypeOK, Told, BlockAcquire, GoTo, objectVars
<1>4. Passed'
  BY DEF IInv, Passed, BlockAcquire, objectVars
<1>5. Asleep'
  BY DEF IInv, TypeOK, Asleep, BlockAcquire
<1> QED
  BY <1>1, <1>2, <1>3, <1>4, <1>5 DEF IInv

\* BlockTimeout preserves the invariant.
LEMMA BlockTimeoutInv ==
    ASSUME IInv, NEW t \in Threads, BlockTimeout(t)
    PROVE  IInv'
<1>1. TypeOK'
  BY DEF IInv, TypeOK, BelowLimit, BlockTimeout, GoTo, objectVars, waiterVars
<1>2. Walking' /\ OnceEach(wait_list)'
  BY DEF IInv, TypeOK, Walking, OnceEach, BlockTimeout, GoTo, objectVars
<1>3. Told'
  BY DEF IInv, TypeOK, Told, BlockTimeout, GoTo, objectVars, waiterVars
<1>4. Passed' /\ Asleep'
  BY DEF IInv, Passed, Asleep, BlockTimeout, objectVars, waiterVars
<1> QED
  BY <1>1, <1>2, <1>3, <1>4 DEF IInv

\* WaitReturn preserves the invariant.
LEMMA WaitReturnInv ==
    ASSUME IInv, NEW t \in Threads, WaitReturn(t)
    PROVE  IInv'
<1>1. /\ wait_list' \in Seq(Threads)
      /\ Range(wait_list') = Range(wait_list) \ {t}
      /\ OnceEach(wait_list')
  <2>1. wait_list \in Seq(Threads) /\ OnceEach(wait_list)
    BY DEF IInv, TypeOK
  <2>2. CASE GetResult(t) = "ETIMEDOUT"
    <3>1. PICK i \in DOMAIN wait_list :
             wait_list[i] = t /\ wait_list' = RemoveAt(wait_list, i)
      BY <2>2 DEF WaitReturn, EraseWaiter
    <3>2. i \in 1 .. Len(wait_list)
      BY <2>1, <3>1
    <3> QED
      BY <2>1, <3>1, <3>2, RemoveAtFacts, RemoveAtRange
  <2>3. CASE GetResult(t) # "ETIMEDOUT"
    <3>1. flags[t] # {}
      BY <2>3 DEF GetResult
    <3>2. t \notin Range(wait_list)
      BY <3>1 DEF IInv, Told
    <3>3. wait_list' = wait_list
      BY <2>3 DEF WaitReturn, EraseWaiter
    <3> QED
      BY <2>1, <3>2, <3>3
  <2> QED
    BY <2>2, <2>3
<1>2. TypeOK'
  <2>1. balance' \in Int32
    <3>1. need_count[t] \in Int
      BY NeedType DEF IInv, TypeOK
    <3>2. balance \in Int32 /\ balance - need_count[t] \in Int
      BY <3>1 DEF IInv, TypeOK, Int32
    <3>3. Wrap(balance - need_count[t]) \in Int32
      BY <3>2, WrapType
    <3> QED
      BY <3>2, <3>3 DEF WaitReturn
  <2>2. BelowLimit'
    BY DEF IInv, TypeOK, BelowLimit, WaitReturn
  <2> QED
    BY <1>1, <2>1, <2>2 DEF IInv, TypeOK, WaitReturn, GoTo
<1>3. Walking'
  BY DEF IInv, TypeOK, Walking, WaitReturn, GoTo
<1>4. Told'
  BY <1>1 DEF IInv, TypeOK, Told, WaitReturn, GoTo
<1>5. NoNegativeNeed => \A u \in Range(wait_list') : need_count'[u] > token_count
  BY <1>1, ListRange DEF IInv, TypeOK, Passed, WaitReturn
<1>6. Passed'
  BY <1>1, <1>5, ListRange DEF Passed, WaitReturn
<1>7. Asleep'
  BY DEF IInv, TypeOK, Asleep, WaitReturn
<1> QED
  BY <1>1, <1>2, <1>3, <1>4, <1>6, <1>7 DEF IInv

\* SignalEnter preserves the invariant.
LEMMA SignalEnterInv ==
    ASSUME IInv, NEW t \in Threads, NEW n \in Signals, SignalEnter(t, n)
    PROVE  IInv'
<1>1. TypeOK'
  <2>1. token_count + n \in Int /\ balance + n \in Int
    BY DEF IInv, TypeOK, Int32
  <2>2. token_count' \in Int32 /\ balance' \in Int32
    BY <2>1, WrapType DEF SignalEnter
  <2>3. BelowLimit'
    BY DEF SignalEnter, Fits, BelowLimit
  <2> QED
    BY <2>2, <2>3 DEF IInv, TypeOK, SignalEnter, GoTo, waiterVars
<1>2. Walking'
  BY DEF IInv, TypeOK, Walking, SignalEnter, Calling, GoTo
<1>3. Told' /\ OnceEach(wait_list)'
  BY DEF IInv, TypeOK, Told, OnceEach, SignalEnter, Calling, GoTo, waiterVars
<1>4. Passed'
  <2>1. mutex' = t /\ it' = 1 /\ wait_list' = wait_list /\ wait_list \in Seq(Threads)
    BY DEF IInv, TypeOK, SignalEnter
  <2>2. \A i \in DOMAIN wait_list : ~(i < 1)
    BY <2>1
  <2> QED
    BY <2>1, <2>2 DEF Passed
<1>5. Asleep'
  BY DEF IInv, Asleep, SignalEnter, waiterVars
<1> QED
  BY <1>1, <1>2, <1>3, <1>4, <1>5 DEF IInv

\* SignalSkip preserves the invariant.
LEMMA SignalSkipInv ==
    ASSUME IInv, NEW t \in Threads, SignalSkip(t)
    PROVE  IInv'
<1>1. TypeOK'
  <2>1. it \in Nat /\ it' = it + 1
    BY DEF IInv, TypeOK, SignalSkip, StepOver
  <2>2. it' \in Nat
    BY <2>1
  <2> QED
    BY <2>2 DEF IInv, TypeOK, BelowLimit, SignalSkip, waiterVars
<1>2. Walking'
  <2>1. it \in Nat /\ it' = it + 1 /\ pc' = pc /\ mutex' = mutex
    BY DEF IInv, TypeOK, SignalSkip, StepOver
  <2>2. it > 0 => it' > 0
    BY <2>1
  <2> QED
    BY <2>1, <2>2 DEF IInv, Walking
<1>3. Told' /\ OnceEach(wait_list)' /\ Asleep'
  BY DEF IInv, Told, OnceEach, Asleep, SignalSkip, waiterVars
<1>4. Passed'
  BY ListRange DEF IInv, TypeOK, Walking, Passed, SignalSkip, StepOver, waiterVars
<1> QED
  BY <1>1, <1>2, <1>3, <1>4 DEF IInv

\* SignalServe preserves the invariant.
LEMMA SignalServeInv ==
    ASSUME IInv, NEW t \in Threads, SignalServe(t)
    PROVE  IInv'
<1> DEFINE w == wait_list[it]
<1>1. /\ wait_list \in Seq(Threads) /\ OnceEach(wait_list)
      /\ mutex = t /\ it \in 1 .. Len(wait_list)
  BY DEF IInv, TypeOK, Walking, SignalServe, Take
<1>2. w \in Threads /\ w \in Range(wait_list)
  BY <1>1, ListRange
<1> HIDE DEF w
<1>3. /\ need_count[w] <= token_count
      /\ wait_list' = RemoveAt(wait_list, it)
      /\ token_count' = Take(need_count[w])
      /\ flags' = [flags EXCEPT ![w] = @ \cup {"signaled"}]
      /\ sem' = [sem EXCEPT ![w] = @ + 1]
      /\ UNCHANGED <<mutex, it, allocated, pc, need_count, timed, balance>>
  BY DEF SignalServe, w
<1>4. /\ need_count[w] \in Needs \cup {0}
      /\ token_count' \in Int32
      /\ NoNegativeNeed => token_count' <= token_count
  <2>1. need_count[w] \in Needs \cup {0}
    BY <1>2 DEF IInv, TypeOK
  <2> QED
    BY <1>3, <2>1, TakeType DEF IInv
<1>5. /\ wait_list' \in Seq(Threads)
      /\ Len(wait_list') = Len(wait_list) - 1
      /\ \A j \in 1 .. (Len(wait_list) - 1) :
            wait_list'[j] = IF j < it THEN wait_list[j] ELSE wait_list[j + 1]
  BY <1>1, <1>3, RemoveAtFacts
<1>6. Range(wait_list') = Range(wait_list) \ {w} /\ OnceEach(wait_list')
  BY <1>1, <1>3, RemoveAtRange DEF w
<1>7. TypeOK'
  <2>1. token_count' \in Int32 /\ BelowLimit'
    <3>1. token_count' \in Int
      BY <1>4 DEF Int32
    <3> QED
      BY <1>4, <3>1, LowerIsBelow DEF IInv, BelowLimit
  <2>2. flags' \in [Threads -> SUBSET Flags]
    BY <1>2, <1>3 DEF IInv, TypeOK, Flags
  <2>3. sem' \in [Threads -> Nat]
    BY <1>2, <1>3 DEF IInv, TypeOK
  <2> QED
    BY <1>3, <1>5, <2>1, <2>2, <2>3 DEF IInv, TypeOK
<1>8. Walking'
  BY <1>3 DEF IInv, Walking
<1>9. Told'
  BY <1>2, <1>3, <1>6 DEF IInv, TypeOK, Told
<1>10. Passed'
  <2> SUFFICES ASSUME NoNegativeNeed, NEW j \in DOMAIN wait_list', j < it
               PROVE  need_count[wait_list'[j]] > token_count'
    BY <1>1, <1>3 DEF Passed
  <2>1. j \in DOMAIN wait_list /\ wait_list'[j] = wait_list[j]
    <3>1. j \in 1 .. (Len(wait_list) - 1)
      BY <1>5
    <3>2. wait_list'[j] = wait_list[j]
      BY <1>5, <3>1
    <3>3. j \in 1 .. Len(wait_list)
      BY <1>1, <3>1
    <3> QED
      BY <1>1, <3>2, <3>3
  <2>2. need_count[wait_list[j]] > token_count /\ wait_list[j] \in Threads
    BY <1>1, <2>1 DEF IInv, Passed
  <2> QED
    <3>1. /\ need_count[wait_list[j]] \in Int
          /\ token_count \in Int /\ token_count' \in Int
      <4>1. need_count[wait_list[j]] \in Needs \cup {0} /\ token_count \in Int32
        BY <2>2 DEF IInv, TypeOK
      <4>2. need_count[wait_list[j]] \in Int
        BY <4>1, NeedType
      <4> QED
        BY <1>4, <4>1, <4>2 DEF Int32
    <3> QED
      BY <1>4, <2>1, <2>2, <3>1
<1>11. Asleep'
  <2>1. flags[w] = {} /\ sem[w] = 0
    BY <1>2 DEF IInv, Told, Asleep
  <2>2. sem'[w] = 1 /\ flags'[w] # {}
    BY <1>2, <1>3, <2>1 DEF IInv, TypeOK
  <2>3. \A u \in Threads \ {w} : sem'[u] = sem[u] /\ flags'[u] = flags[u]
    BY <1>3 DEF IInv, TypeOK
  <2> QED
    BY <2>2, <2>3 DEF IInv, Asleep
<1> QED
  BY <1>6, <1>7, <1>8, <1>9, <1>10, <1>11 DEF IInv

\* SignalDone preserves the invariant.
LEMMA SignalDoneInv ==
    ASSUME IInv, NEW t \in Threads, SignalDone(t)
    PROVE  IInv'
<1>1. TypeOK'
  BY DEF IInv, TypeOK, BelowLimit, SignalDone, GoTo, waiterVars
<1>2. Walking'
  BY DEF IInv, TypeOK, Walking, SignalDone, GoTo
<1>3. Told' /\ OnceEach(wait_list)'
  BY DEF IInv, TypeOK, Told, OnceEach, SignalDone, GoTo, waiterVars
<1>4. Passed'
  BY DEF IInv, TypeOK, Passed, SignalDone, waiterVars
<1>5. Asleep'
  BY DEF IInv, Asleep, SignalDone, waiterVars
<1> QED
  BY <1>1, <1>2, <1>3, <1>4, <1>5 DEF IInv

\* What Dismiss does to the list, the flags and the semaphores.
LEMMA DismissInv ==
    ASSUME IInv, NEW why \in Flags, Dismiss(why), UNCHANGED pc
    PROVE  /\ wait_list' = <<>>
           /\ flags' \in [Threads -> SUBSET Flags]
           /\ sem' \in [Threads -> Nat]
           /\ Told' /\ OnceEach(wait_list)' /\ Asleep'
<1>1. wait_list' = <<>> /\ Range(wait_list') = {} /\ OnceEach(wait_list')
  BY DEF Dismiss, Range, OnceEach
<1>2. flags' \in [Threads -> SUBSET Flags] /\ sem' \in [Threads -> Nat]
  BY DEF IInv, TypeOK, Dismiss
<1>3. Told'
  BY <1>1 DEF IInv, Told, Dismiss
<1>4. Asleep'
  <2> SUFFICES ASSUME NEW u \in Threads
               PROVE  sem'[u] <= 1 /\ (flags'[u] = {} => sem'[u] = 0)
    BY DEF Asleep
  <2>1. CASE u \in Range(wait_list)
    <3>1. flags[u] = {} /\ sem[u] = 0
      BY <2>1 DEF IInv, Told, Asleep
    <3>2. sem'[u] = sem[u] + 1 /\ why \in flags'[u]
      BY <2>1 DEF Dismiss
    <3> QED
      BY <3>1, <3>2
  <2>2. CASE u \notin Range(wait_list)
    BY <2>2 DEF IInv, Asleep, Dismiss
  <2> QED
    BY <2>1, <2>2
<1> QED
  BY <1>1, <1>2, <1>3, <1>4

\* Cancel preserves the invariant.
LEMMA CancelInv ==
    ASSUME IInv, NEW t \in Threads, Cancel(t)
    PROVE  IInv'
<1>1. "canceled" \in Flags /\ Dismiss("canceled") /\ pc' = pc
  BY DEF Cancel, Flags
<1>2. /\ wait_list' = <<>>
      /\ flags' \in [Threads -> SUBSET Flags]
      /\ sem' \in [Threads -> Nat]
      /\ Told' /\ OnceEach(wait_list)' /\ Asleep'
  BY <1>1, DismissInv
<1>3. TypeOK'
  <2>1. PICK n \in SetCounts :
           /\ token_count' = IF n < 0 THEN init_count ELSE n
           /\ balance' = Wrap(balance - token_count + token_count')
    BY DEF Cancel
  <2>2. token_count' \in Int32 /\ BelowLimit'
    BY <2>1 DEF BelowLimit, Int32
  <2>3. balance - token_count + token_count' \in Int
    BY <2>2 DEF IInv, TypeOK, Int32
  <2>4. balance' \in Int32
    BY <2>1, <2>3, WrapType
  <2> QED
    BY <1>2, <2>2, <2>4 DEF IInv, TypeOK, Cancel
<1>4. Walking' /\ Passed'
  BY <1>2 DEF IInv, Walking, Passed, Cancel
<1> QED
  BY <1>2, <1>3, <1>4 DEF IInv

\* Delete preserves the invariant.
LEMMA DeleteInv ==
    ASSUME IInv, NEW t \in Threads, Delete(t)
    PROVE  IInv'
<1>1. "deleted" \in Flags /\ Dismiss("deleted") /\ pc' = pc
  BY DEF Delete, Flags
<1>2. /\ wait_list' = <<>>
      /\ flags' \in [Threads -> SUBSET Flags]
      /\ sem' \in [Threads -> Nat]
      /\ Told' /\ OnceEach(wait_list)' /\ Asleep'
  BY <1>1, DismissInv
<1>3. TypeOK'
  <2>1. allocated' = FALSE
    BY DEF Delete
  <2>2. wait_list' \in Seq(Threads)
    BY <1>2
  <2> QED
    BY <1>2, <2>1, <2>2 DEF IInv, TypeOK, BelowLimit, Delete
<1>4. Walking' /\ Passed'
  BY <1>2 DEF IInv, Walking, Passed, Delete
<1> QED
  BY <1>2, <1>3, <1>4 DEF IInv

\* A stuttering step preserves it.
LEMMA StutterInv ==
    ASSUME IInv, UNCHANGED vars
    PROVE  IInv'
BY DEF IInv, TypeOK, BelowLimit, Walking, Told, OnceEach, Passed, Asleep,
   vars, objectVars, waiterVars

\* Every step preserves it.
LEMMA NextInv ==
    ASSUME IInv, [Next]_vars
    PROVE  IInv'
<1>1. CASE UNCHANGED vars
  BY <1>1, StutterInv
<1>2. ASSUME NEW t \in Threads, Step(t) \/ BlockTimeout(t)
      PROVE  IInv'
  BY <1>2, BlockAcquireInv, BlockTimeoutInv, WaitReturnInv, SignalSkipInv,
     SignalServeInv, SignalDoneInv DEF Step
<1>3. ASSUME NEW t \in Threads, Call(t)
      PROVE  IInv'
  BY <1>3, WaitTakeInv, WaitBlockInv, SignalEnterInv, CancelInv, DeleteInv DEF Call
<1> QED
  BY <1>1, <1>2, <1>3 DEF Next

-----------------------------------------------------------------------------
\* The inductive invariant holds always.
LEMMA InvHolds == Spec => []IInv
<1>1. IInv /\ [Next]_vars => IInv'
  BY NextInv
<1> QED
  BY InitInv, <1>1, PTL DEF Spec

\* With any counts passed to it token_count stays an s32.  Unless a guest waits
\* for a negative number of tokens it goes above max_count no further than a
\* Cancel has set it, also where the sum that Signal tests wraps; and every other
\* variable keeps its type.
THEOREM TypeCorrect == Spec => []TypeOK
<1>1. IInv => TypeOK
  BY DEF IInv
<1> QED
  BY InvHolds, <1>1, PTL

\* Whenever the mutex of an OrbisSem is free, no listed waiter could be served
\* with the tokens that are there, for any priorities, any needs that are not
\* negative, and any counts in Signal and Cancel, negative or wrapping ones too.
THEOREM NoStrandedWaiterHolds == NoNegativeNeed => (Spec => []NoStrandedWaiter)
<1> SUFFICES ASSUME NoNegativeNeed PROVE Spec => []NoStrandedWaiter
  OBVIOUS
<1>1. IInv => NoStrandedWaiter
  BY ListRange DEF IInv, TypeOK, Passed, NoStrandedWaiter
<1> QED
  BY InvHolds, <1>1, PTL

\* A waiter is on wait_list exactly once until Signal, Cancel, Delete or its own
\* time-out takes it off.
THEOREM ListedUntilToldHolds == Spec => []ListedUntilTold
<1>1. IInv => ListedUntilTold
  BY DEF IInv, Told, OnceEach, ListedUntilTold
<1> QED
  BY InvHolds, <1>1, PTL

\* Signal, Cancel and Delete release the sem of a WaitingThread at most once.
THEOREM WokenOnceHolds == Spec => []WokenOnce
<1>1. IInv => WokenOnce
  BY DEF IInv, Asleep, WokenOnce
<1> QED
  BY InvHolds, <1>1, PTL

-----------------------------------------------------------------------------
\* A priority is a number.
LEMMA PriorityType ==
    ASSUME NEW t \in Threads
    PROVE  Priority(t) \in Nat
BY DEF Priority

\* Erasing an element keeps the order of the others.
LEMMA EraseSorted ==
    ASSUME IInv, SortedByPriority, NEW i \in 1 .. Len(wait_list),
           wait_list' = RemoveAt(wait_list, i)
    PROVE  SortedByPriority'
<1>1. wait_list \in Seq(Threads) /\ DOMAIN wait_list = 1 .. Len(wait_list)
  BY DEF IInv, TypeOK
<1>2. /\ wait_list' \in Seq(Threads)
      /\ Len(wait_list') = Len(wait_list) - 1
      /\ \A j \in 1 .. (Len(wait_list) - 1) :
            wait_list'[j] = IF j < i THEN wait_list[j] ELSE wait_list[j + 1]
  BY <1>1, RemoveAtFacts
<1> SUFFICES ASSUME NEW j \in DOMAIN wait_list', NEW k \in DOMAIN wait_list', j < k
             PROVE  Priority(wait_list'[j]) <= Priority(wait_list'[k])
  BY DEF SortedByPriority, Priority
<1>3. j \in 1 .. (Len(wait_list) - 1) /\ k \in 1 .. (Len(wait_list) - 1)
  BY <1>2
<1> DEFINE from(n) == IF n < i THEN n ELSE n + 1
<1>4. /\ wait_list'[j] = wait_list[from(j)] /\ wait_list'[k] = wait_list[from(k)]
  BY <1>2, <1>3
<1>5. from(j) \in DOMAIN wait_list /\ from(k) \in DOMAIN wait_list /\ from(j) < from(k)
  BY SMTT(30), <1>1, <1>3
<1> HIDE DEF from
<1> QED
  BY <1>4, <1>5 DEF SortedByPriority

\* AddWaiter inserts behind the last waiter it must not pass.
LEMMA AddWaiterSorted ==
    ASSUME IInv, SortedByPriority, NEW t \in Threads, AddWaiter(t)
    PROVE  SortedByPriority'
<1>1. wait_list \in Seq(Threads) /\ DOMAIN wait_list = 1 .. Len(wait_list)
  BY DEF IInv, TypeOK
<1>2. PICK i \in 1 .. (Len(wait_list) + 1) :
         /\ wait_list' = InsertAt(wait_list, i, t)
         /\ \A j \in 1 .. (i - 1) : ~LowerPriority(wait_list[j], t)
         /\ i <= Len(wait_list) => LowerPriority(wait_list[i], t)
  BY DEF AddWaiter, Positions
<1>3. /\ wait_list' \in Seq(Threads)
      /\ Len(wait_list') = Len(wait_list) + 1
      /\ \A j \in 1 .. (Len(wait_list) + 1) :
            wait_list'[j] = IF j < i THEN wait_list[j]
                            ELSE IF j = i THEN t ELSE wait_list[j - 1]
  <2> DEFINE r == InsertAt(wait_list, i, t)
  <2>0. wait_list \in Seq(Threads)
    BY <1>1
  <2>1. /\ r \in Seq(Threads)
        /\ Len(r) = Len(wait_list) + 1
        /\ \A j \in 1 .. (Len(wait_list) + 1) :
              r[j] = IF j < i THEN wait_list[j]
                     ELSE IF j = i THEN t ELSE wait_list[j - 1]
    BY <2>0, InsertAtFacts
  <2>2. wait_list' = r
    BY <1>2
  <2> HIDE DEF r
  <2> QED
    BY <2>1, <2>2
<1>4. \A j \in 1 .. Len(wait_list) : wait_list[j] \in Threads
  BY <1>1
<1>5. ASSUME NEW j \in 1 .. Len(wait_list), j < i
      PROVE  Priority(wait_list[j]) <= Priority(t)
  <2>1. ~LowerPriority(wait_list[j], t)
    BY <1>2, <1>5
  <2>2. Priority(wait_list[j]) \in Nat /\ Priority(t) \in Nat
    BY <1>4, PriorityType
  <2> QED
    BY <2>1, <2>2 DEF LowerPriority
<1>6. ASSUME NEW j \in 1 .. Len(wait_list), j >= i
      PROVE  Priority(t) <= Priority(wait_list[j])
  <2>1. i \in 1 .. Len(wait_list) /\ Priority(wait_list[i]) > Priority(t)
    BY <1>2, <1>6 DEF LowerPriority
  <2>2. Priority(wait_list[i]) <= Priority(wait_list[j])
    <3>1. CASE i = j
      BY <1>4, <2>1, <3>1, PriorityType
    <3>2. CASE i < j
      BY <1>1, <2>1, <3>2 DEF SortedByPriority
    <3> QED
      BY <1>6, <2>1, <3>1, <3>2
  <2>3. /\ Priority(wait_list[j]) \in Nat /\ Priority(wait_list[i]) \in Nat
        /\ Priority(t) \in Nat
    BY <1>4, <2>1, PriorityType
  <2> QED
    BY <2>1, <2>2, <2>3
<1> SUFFICES ASSUME NEW j \in 1 .. (Len(wait_list) + 1),
                    NEW k \in 1 .. (Len(wait_list) + 1), j < k
             PROVE  Priority(wait_list'[j]) <= Priority(wait_list'[k])
  BY <1>3 DEF SortedByPriority, Priority
<1> DEFINE from(n) == IF n < i THEN n ELSE n - 1
<1>7. /\ j # i => wait_list'[j] = wait_list[from(j)] /\ from(j) \in 1 .. Len(wait_list)
      /\ k # i => wait_list'[k] = wait_list[from(k)] /\ from(k) \in 1 .. Len(wait_list)
      /\ wait_list'[i] = t
  <2>1. wait_list'[i] = t
    <3>1. i \in 1 .. (Len(wait_list) + 1) /\ ~(i < i)
      OBVIOUS
    <3> QED
      BY Zenon, <1>3, <3>1
  <2>2. ASSUME NEW n \in 1 .. (Len(wait_list) + 1), n # i
        PROVE  wait_list'[n] = wait_list[from(n)] /\ from(n) \in 1 .. Len(wait_list)
    <3>1. CASE n < i
      BY SMTT(30), <1>3, <3>1
    <3>2. CASE n > i
      BY SMTT(30), <1>3, <3>2
    <3> QED
      BY <2>2, <3>1, <3>2
  <2> HIDE DEF from
  <2> QED
    BY <2>1, <2>2
<1>8. CASE j = i
  <2>1. k # i /\ from(k) >= i
    BY <1>8
  <2> QED
    BY <1>6, <1>7, <1>8, <2>1
<1>9. CASE k = i
  <2>1. j # i /\ from(j) < i
    BY <1>9
  <2> QED
    BY <1>5, <1>7, <1>9, <2>1
<1>10. CASE j # i /\ k # i
  <2>1. from(j) < from(k)
    BY <1>10
  <2> HIDE DEF from
  <2> QED
    BY <1>1, <1>7, <1>10, <2>1 DEF SortedByPriority
<1> QED
  BY <1>8, <1>9, <1>10

\* "Wake up threads in order of priority": wait_list is sorted by priority after
\* any waits, time-outs, signals and cancellations, for any priorities.
THEOREM SortedByPriorityHolds == Spec => []SortedByPriority
<1>1. Init => SortedByPriority
  BY DEF Init, SortedByPriority
<1>2. ASSUME IInv, SortedByPriority, wait_list' = wait_list
      PROVE  SortedByPriority'
  BY <1>2 DEF SortedByPriority, Priority
<1>3. ASSUME IInv, SortedByPriority, wait_list' = <<>>
      PROVE  SortedByPriority'
  BY <1>3 DEF SortedByPriority
<1>4. ASSUME IInv, SortedByPriority, NEW t \in Threads, SignalServe(t)
      PROVE  SortedByPriority'
  <2>1. it \in 1 .. Len(wait_list) /\ wait_list' = RemoveAt(wait_list, it)
    BY <1>4 DEF IInv, TypeOK, Walking, SignalServe, Take
  <2> QED
    BY <1>4, <2>1, EraseSorted
<1>5. ASSUME IInv, SortedByPriority, NEW t \in Threads, WaitReturn(t)
      PROVE  SortedByPriority'
  <2>1. CASE wait_list' = wait_list
    BY <1>2, <1>5, <2>1
  <2>2. CASE wait_list' # wait_list
    <3>1. PICK i \in 1 .. Len(wait_list) : wait_list' = RemoveAt(wait_list, i)
      BY <1>5, <2>2 DEF IInv, TypeOK, WaitReturn, EraseWaiter
    <3> QED
      BY <1>5, <3>1, EraseSorted
  <2> QED
    BY <2>1, <2>2
<1>6. ASSUME IInv, SortedByPriority, NEW t \in Threads, Step(t) \/ BlockTimeout(t)
      PROVE  SortedByPriority'
  <2>1. BlockAcquire(t) \/ BlockTimeout(t) \/ SignalSkip(t) \/ SignalDone(t)
           => wait_list' = wait_list
    BY DEF BlockAcquire, BlockTimeout, SignalSkip, SignalDone, objectVars
  <2> QED
    BY <1>2, <1>4, <1>5, <1>6, <2>1 DEF Step
<1>7. ASSUME IInv, SortedByPriority, NEW t \in Threads, Call(t)
      PROVE  SortedByPriority'
  <2>1. CASE \E n \in Needs : WaitBlock(t, n)
    BY <1>7, <2>1, AddWaiterSorted DEF WaitBlock
  <2>2. CASE \E n \in Int : WaitTake(t, n) \/ SignalEnter(t, n)
    BY <1>2, <1>7, <2>2 DEF WaitTake, SignalEnter
  <2>3. CASE Cancel(t) \/ Delete(t)
    BY <1>3, <1>7, <2>3 DEF Cancel, Delete, Dismiss
  <2> QED
    BY <1>7, <2>1, <2>2, <2>3 DEF Call, Int32
<1>8. IInv /\ SortedByPriority /\ [Next]_vars => SortedByPriority'
  BY <1>2, <1>6, <1>7 DEF Next, vars, objectVars
<1> QED
  BY InvHolds, <1>1, <1>8, PTL DEF Spec

-----------------------------------------------------------------------------
(***************************************************************************)
(* The account of the tokens.  What a served waiter gets is a set of       *)
(* tokens of its own, so serving it is a disjoint union and its return a   *)
(* difference.  That nobody starts to wait with flags of an earlier call   *)
(* (Fresh) keeps a new need_count from changing the account.  The balance  *)
(* and token_count wrap each at its own time, so the two sides of the      *)
(* account differ by a multiple of the width until the sum is wrapped too. *)
(***************************************************************************)
Fresh == \A t \in Threads : pc[t] \notin {"blocked", "relock"} => flags[t] = {}

Account ==
    \E k \in Int : balance = token_count + Cardinality(SetAside) + (2 * S32) * k

TokenInv == IsFiniteSet(SetAside) /\ Fresh /\ Account

\* Multiples of the width add up to multiples of it.
LEMMA Multiples ==
    ASSUME NEW a \in Int, NEW b \in Int
    PROVE  /\ (2 * S32) * a \in Int /\ (2 * S32) * b \in Int
           /\ a + b \in Int /\ (2 * S32) * (a + b) = (2 * S32) * a + (2 * S32) * b
           /\ a - b \in Int /\ (2 * S32) * (a - b) = (2 * S32) * a - (2 * S32) * b
OBVIOUS

\* The tokens depend on the needs of the threads they are set aside for only.
LEMMA SameTokens ==
    ASSUME NEW S, NEW need, NEW other, \A t \in S : other[t] = need[t]
    PROVE  TokensOf(other, S) = TokensOf(need, S)
BY DEF TokensOf

\* One thread's tokens.
LEMMA OwnTokens ==
    ASSUME NEW w, NEW n \in Nat
    PROVE  IsFiniteSet({w} \X (1 .. n)) /\ Cardinality({w} \X (1 .. n)) = n
<1>1. IsFiniteSet(1 .. n) /\ Cardinality(1 .. n) = n
  BY FS_Interval
<1>2. IsFiniteSet({w}) /\ Cardinality({w}) = 1
  BY FS_Singleton
<1>3. /\ IsFiniteSet({w} \X (1 .. n))
      /\ Cardinality({w} \X (1 .. n)) = Cardinality({w}) * Cardinality(1 .. n)
  BY <1>1, <1>2, FS_Product
<1> QED
  BY <1>1, <1>2, <1>3

\* A thread that joins the served ones adds what it needs.
LEMMA MoreTokens ==
    ASSUME NEW S, NEW need, NEW w, w \notin S, need[w] \in Nat,
           IsFiniteSet(TokensOf(need, S))
    PROVE  /\ IsFiniteSet(TokensOf(need, S \cup {w}))
           /\ Cardinality(TokensOf(need, S \cup {w}))
                 = Cardinality(TokensOf(need, S)) + need[w]
<1> DEFINE A == TokensOf(need, S)
           B == {w} \X (1 .. need[w])
<1>1. TokensOf(need, S \cup {w}) = A \cup B
  BY DEF TokensOf
<1>2. A \cap B = {}
  BY DEF TokensOf
<1>3. IsFiniteSet(B) /\ Cardinality(B) = need[w]
  BY OwnTokens
<1>4. IsFiniteSet(A) /\ Cardinality(A) \in Nat
  BY FS_CardinalityType
<1> HIDE DEF A, B
<1>5. /\ IsFiniteSet(A \cup B)
      /\ Cardinality(A \cup B) = Cardinality(A) + Cardinality(B) - Cardinality(A \cap B)
  BY <1>3, <1>4, FS_Union
<1>6. Cardinality(A \cap B) = 0
  BY <1>2, FS_EmptySet
<1>7. Cardinality(A \cup B) = Cardinality(A) + need[w]
  BY <1>3, <1>4, <1>5, <1>6
<1> QED
  BY <1>1, <1>5, <1>7 DEF A

\* A thread that leaves them takes that along.
LEMMA FewerTokens ==
    ASSUME NEW S, NEW need, NEW w \in S, need[w] \in Nat,
           IsFiniteSet(TokensOf(need, S))
    PROVE  /\ IsFiniteSet(TokensOf(need, S \ {w}))
           /\ Cardinality(TokensOf(need, S))
                 = Cardinality(TokensOf(need, S \ {w})) + need[w]
<1> DEFINE R == S \ {w}
<1>1. TokensOf(need, R) \in SUBSET TokensOf(need, S)
  BY DEF TokensOf
<1>2. IsFiniteSet(TokensOf(need, R))
  BY <1>1, FS_Subset
<1>3. w \notin R /\ R \cup {w} = S
  OBVIOUS
<1> HIDE DEF R
<1>4. Cardinality(TokensOf(need, R \cup {w})) = Cardinality(TokensOf(need, R)) + need[w]
  BY <1>2, <1>3, MoreTokens
<1> QED
  BY <1>2, <1>3, <1>4 DEF R

\* A step that serves nobody and lets no served waiter return changes the balance
\* and token_count alike, up to a multiple of the width.
LEMMA AccountKept ==
    ASSUME IInv, TokenInv, Fresh', Served' = Served,
           \A u \in Served : need_count'[u] = need_count[u],
           token_count' \in Int, balance' \in Int, NEW k \in Int,
           balance' = balance - token_count + token_count' + (2 * S32) * k
    PROVE  TokenInv'
<1>1. TokensOf(need_count', Served) = TokensOf(need_count, Served)
  BY SameTokens
<1>2. SetAside' = SetAside
  BY <1>1 DEF SetAside
<1>3. Cardinality(SetAside) \in Nat
  BY FS_CardinalityType DEF TokenInv
<1>4. token_count \in Int /\ balance \in Int
  BY DEF IInv, TypeOK, Int32
<1>5. PICK j \in Int : balance = token_count + Cardinality(SetAside) + (2 * S32) * j
  BY DEF TokenInv, Account
<1>6. /\ (2 * S32) * j \in Int /\ (2 * S32) * k \in Int
      /\ j + k \in Int /\ (2 * S32) * (j + k) = (2 * S32) * j + (2 * S32) * k
  BY Multiples
<1>7. balance' = token_count' + Cardinality(SetAside) + (2 * S32) * (j + k)
  BY <1>3, <1>4, <1>5, <1>6
<1> QED
  BY <1>2, <1>6, <1>7 DEF TokenInv, Account

\* A step that changes neither.
LEMMA AccountSame ==
    ASSUME IInv, TokenInv, Fresh', Served' = Served,
           \A u \in Served : need_count'[u] = need_count[u],
           UNCHANGED <<token_count, balance>>
    PROVE  TokenInv'
<1>1. token_count' \in Int /\ balance' \in Int
  BY DEF IInv, TypeOK, Int32
<1>2. 0 \in Int /\ balance' = balance - token_count + token_count' + (2 * S32) * 0
  BY <1>1
<1> QED
  BY <1>1, <1>2, AccountKept

\* The guest's calls.
LEMMA CallAccount ==
    ASSUME NoNegativeNeed, IInv, IInv', TokenInv, NEW t \in Threads, Call(t)
    PROVE  TokenInv'
<1>1. token_count' \in Int /\ balance' \in Int /\ token_count \in Int /\ balance \in Int
  BY DEF IInv, TypeOK, Int32
<1>2. CASE \E n \in Needs : WaitTake(t, n)
  <2>1. PICK n \in Needs : WaitTake(t, n)
    BY <1>2
  <2>2. n \in Int /\ token_count' = token_count - n /\ balance' = Wrap(balance - n)
    BY <2>1, TakeType DEF IInv, WaitTake, Int32
  <2>3. UNCHANGED <<pc, need_count, flags>>
    BY <2>1 DEF WaitTake, waiterVars
  <2>4. balance - n \in Int
    BY <1>1, <2>2
  <2>5. PICK k \in Int : balance' = (balance - n) + (2 * S32) * k
    BY <2>2, <2>4, WrapType
  <2>6. balance' = balance - token_count + token_count' + (2 * S32) * k
    BY <1>1, <2>2, <2>5, Multiples
  <2> QED
    BY <1>1, <2>3, <2>6, AccountKept DEF TokenInv, Fresh, Served
<1>3. CASE \E n \in Signals : SignalEnter(t, n)
  <2>1. PICK n \in Signals : SignalEnter(t, n)
    BY <1>3
  <2>2. /\ n \in Int
        /\ token_count' = Wrap(token_count + n) /\ balance' = Wrap(balance + n)
    BY <2>1 DEF SignalEnter, Int32
  <2>3. UNCHANGED <<need_count, flags>> /\ pc[t] = "run" /\ pc' = [pc EXCEPT ![t] = "walk"]
    BY <2>1 DEF SignalEnter, Calling, GoTo, waiterVars
  <2>4. token_count + n \in Int /\ balance + n \in Int
    BY <1>1, <2>2
  <2>5. PICK j \in Int : token_count' = (token_count + n) + (2 * S32) * j
    BY <2>2, <2>4, WrapType
  <2>6. PICK k \in Int : balance' = (balance + n) + (2 * S32) * k
    BY <2>2, <2>4, WrapType
  <2>7. /\ (2 * S32) * k \in Int /\ (2 * S32) * j \in Int
        /\ k - j \in Int /\ (2 * S32) * (k - j) = (2 * S32) * k - (2 * S32) * j
    BY Multiples
  <2>8. balance' = balance - token_count + token_count' + (2 * S32) * (k - j)
    BY <1>1, <2>2, <2>5, <2>6, <2>7
  <2>9. Fresh'
    BY <2>3 DEF TokenInv, Fresh, IInv, TypeOK
  <2> QED
    BY <1>1, <2>3, <2>8, <2>9, <2>7, AccountKept DEF Served
<1>4. CASE \E n \in Needs : WaitBlock(t, n)
  <2>1. PICK n \in Needs : WaitBlock(t, n)
    BY <1>4
  <2>2. /\ UNCHANGED <<token_count, balance>> /\ pc[t] = "run"
        /\ pc' = [pc EXCEPT ![t] = "blocked"] /\ flags' = [flags EXCEPT ![t] = {}]
        /\ need_count' = [need_count EXCEPT ![t] = n]
    BY <2>1 DEF WaitBlock, Calling, GoTo
  <2>3. flags[t] = {}
    BY <2>2 DEF TokenInv, Fresh
  <2>4. flags' = flags
    BY <2>2, <2>3 DEF IInv, TypeOK
  <2>5. \A u \in Served : need_count'[u] = need_count[u]
    BY <2>2, <2>3 DEF Served, IInv, TypeOK
  <2>6. Fresh'
    BY <2>2, <2>4 DEF TokenInv, Fresh, IInv, TypeOK
  <2> QED
    BY <2>2, <2>4, <2>5, <2>6, AccountSame DEF Served
<1>5. CASE Cancel(t) \/ Delete(t)
  <2>1. PICK why \in {"canceled", "deleted"} :
           flags' = [u \in Threads |->
                       IF u \in Range(wait_list) THEN flags[u] \cup {why} ELSE flags[u]]
    BY <1>5 DEF Cancel, Delete, Dismiss
  <2>2. UNCHANGED <<pc, need_count>>
    BY <1>5 DEF Cancel, Delete
  <2>3. PICK k \in Int :
           balance' = balance - token_count + token_count' + (2 * S32) * k
    <3>1. CASE Cancel(t)
      <4>1. balance' = Wrap(balance - token_count + token_count')
        BY <3>1 DEF Cancel
      <4>2. balance - token_count + token_count' \in Int
        BY <1>1
      <4> QED
        BY <4>1, <4>2, WrapType
    <3>2. CASE Delete(t)
      <4>1. 0 \in Int /\ balance' = balance - token_count + token_count' + (2 * S32) * 0
        BY <1>1, <3>2 DEF Delete
      <4> QED
        BY <4>1
    <3> QED
      BY <1>5, <3>1, <3>2
  <2>4. Served' = Served
    BY <2>1 DEF Served
  <2>5. Fresh'
    BY <2>1, <2>2 DEF TokenInv, Fresh, IInv, Told
  <2> QED
    BY <1>1, <2>2, <2>3, <2>4, <2>5, AccountKept
<1> QED
  BY <1>2, <1>3, <1>4, <1>5 DEF Call

\* A step inside a call.  SignalServe moves tokens out of token_count, and the
\* return of a served waiter moves them out of the balance.
LEMMA StepAccount ==
    ASSUME NoNegativeNeed, IInv, IInv', TokenInv, NEW t \in Threads,
           Step(t) \/ BlockTimeout(t)
    PROVE  TokenInv'
<1>1. token_count' \in Int /\ balance' \in Int /\ token_count \in Int /\ balance \in Int
  BY DEF IInv, TypeOK, Int32
<1>2. CASE BlockAcquire(t) \/ BlockTimeout(t)
  <2>1. /\ UNCHANGED <<token_count, balance, need_count, flags>>
        /\ pc[t] = "blocked" /\ pc' = [pc EXCEPT ![t] = "relock"]
    BY <1>2 DEF BlockAcquire, BlockTimeout, GoTo, objectVars, waiterVars
  <2>2. Fresh'
    BY <2>1 DEF TokenInv, Fresh, IInv, TypeOK
  <2> QED
    BY <2>1, <2>2, AccountSame DEF Served
<1>3. CASE SignalSkip(t)
  <2>1. UNCHANGED <<token_count, balance, need_count, flags, pc>>
    BY <1>3 DEF SignalSkip, waiterVars
  <2> QED
    BY <2>1, AccountSame DEF Served, TokenInv, Fresh
<1>4. CASE SignalDone(t)
  <2>1. /\ UNCHANGED <<token_count, balance, need_count, flags>>
        /\ pc[t] = "walk" /\ pc' = [pc EXCEPT ![t] = "run"]
    BY <1>4 DEF SignalDone, GoTo, waiterVars
  <2>2. Fresh'
    BY <2>1 DEF TokenInv, Fresh, IInv, TypeOK
  <2> QED
    BY <2>1, <2>2, AccountSame DEF Served
<1>5. CASE SignalServe(t)
  <2>1. PICK w \in Threads :
           /\ w \in Range(wait_list)
           /\ token_count' = token_count - need_count[w]
           /\ flags' = [flags EXCEPT ![w] = @ \cup {"signaled"}]
           /\ UNCHANGED <<pc, need_count, balance>>
    <3>1. wait_list \in Seq(Threads) /\ it \in 1 .. Len(wait_list)
      BY <1>5 DEF IInv, TypeOK, Walking, SignalServe
    <3>2. wait_list[it] \in Threads /\ wait_list[it] \in Range(wait_list)
      BY <3>1, ListRange
    <3>3. need_count[wait_list[it]] \in Needs \cup {0}
      BY <3>2 DEF IInv, TypeOK
    <3>4. /\ need_count[wait_list[it]] <= token_count
          /\ token_count' = Take(need_count[wait_list[it]])
          /\ flags' = [flags EXCEPT ![wait_list[it]] = @ \cup {"signaled"}]
          /\ UNCHANGED <<pc, need_count, balance>>
      BY <1>5 DEF SignalServe
    <3>5. token_count' = token_count - need_count[wait_list[it]]
      BY <3>3, <3>4, TakeType DEF IInv
    <3> QED
      BY <3>2, <3>4, <3>5
  <2>2. flags[w] = {} /\ pc[w] \in {"blocked", "relock"}
    BY <2>1 DEF IInv, Told
  <2>3. w \notin Served /\ Served' = Served \cup {w}
    BY <2>1, <2>2 DEF Served, IInv, TypeOK
  <2>4. need_count[w] \in Nat
    <3>1. need_count[w] \in Needs \cup {0}
      BY DEF IInv, TypeOK
    <3> QED
      BY <3>1, NeedType
  <2>5. IsFiniteSet(TokensOf(need_count, Served))
    BY DEF TokenInv, SetAside
  <2>6. /\ IsFiniteSet(TokensOf(need_count, Served \cup {w}))
        /\ Cardinality(TokensOf(need_count, Served \cup {w}))
              = Cardinality(TokensOf(need_count, Served)) + need_count[w]
    BY <2>3, <2>4, <2>5, MoreTokens
  <2>7. SetAside' = TokensOf(need_count, Served \cup {w})
    BY <2>1, <2>3 DEF SetAside
  <2>8. /\ Cardinality(SetAside) \in Nat
        /\ Cardinality(SetAside') = Cardinality(SetAside) + need_count[w]
    BY <2>5, <2>6, <2>7, FS_CardinalityType DEF SetAside
  <2>9. Account'
    <3>1. PICK k \in Int : balance = token_count + Cardinality(SetAside) + (2 * S32) * k
      BY DEF TokenInv, Account
    <3>2. balance' = token_count' + Cardinality(SetAside') + (2 * S32) * k
      BY <1>1, <2>1, <2>4, <2>8, <3>1, Multiples
    <3> QED
      BY <3>2 DEF Account
  <2>10. Fresh'
    BY <2>1, <2>2 DEF TokenInv, Fresh, IInv, TypeOK
  <2> QED
    BY <2>6, <2>7, <2>9, <2>10 DEF TokenInv
<1>6. CASE WaitReturn(t)
  <2>1. /\ pc[t] = "relock" /\ pc' = [pc EXCEPT ![t] = "run"]
        /\ flags' = [flags EXCEPT ![t] = {}] /\ need_count' = [need_count EXCEPT ![t] = 0]
        /\ balance' = IF "signaled" \in flags[t] THEN Wrap(balance - need_count[t])
                                                 ELSE balance
        /\ token_count' = token_count
    BY <1>6 DEF WaitReturn, GetResult, GoTo
  <2>2. Fresh'
    BY <2>1 DEF TokenInv, Fresh, IInv, TypeOK
  <2>3. Served' = Served \ {t}
    BY <2>1 DEF Served, IInv, TypeOK
  <2>4. \A u \in Served \ {t} : need_count'[u] = need_count[u]
    BY <2>1 DEF Served, IInv, TypeOK
  <2>5. CASE t \notin Served
    <3>1. balance' = balance /\ Served' = Served
      BY <2>1, <2>3, <2>5 DEF Served
    <3> QED
      BY <2>1, <2>2, <2>4, <2>5, <3>1, AccountSame
  <2>6. CASE t \in Served
    <3>1. need_count[t] \in Needs \cup {0}
      BY DEF IInv, TypeOK
    <3>2. need_count[t] \in Nat
      BY <3>1, NeedType
    <3>3. balance' = Wrap(balance - need_count[t]) /\ need_count[t] \in Nat
      BY <2>1, <2>6, <3>2 DEF Served
    <3>4. IsFiniteSet(TokensOf(need_count, Served))
      BY DEF TokenInv, SetAside
    <3>5. /\ IsFiniteSet(TokensOf(need_count, Served \ {t}))
          /\ Cardinality(TokensOf(need_count, Served))
                = Cardinality(TokensOf(need_count, Served \ {t})) + need_count[t]
      BY <2>6, <3>3, <3>4, FewerTokens
    <3>6. TokensOf(need_count', Served \ {t}) = TokensOf(need_count, Served \ {t})
      BY <2>4, SameTokens
    <3>7. SetAside' = TokensOf(need_count, Served \ {t})
      BY <2>3, <3>6 DEF SetAside
    <3>8. /\ Cardinality(SetAside') \in Nat
          /\ Cardinality(SetAside) = Cardinality(SetAside') + need_count[t]
      BY <3>5, <3>7, FS_CardinalityType DEF SetAside
    <3>9. Account'
      <4>1. PICK k \in Int : balance = token_count + Cardinality(SetAside) + (2 * S32) * k
        BY DEF TokenInv, Account
      <4>2. balance - need_count[t] \in Int
        BY <1>1, <3>3
      <4>3. PICK j \in Int : balance' = (balance - need_count[t]) + (2 * S32) * j
        BY <3>3, <4>2, WrapType
      <4>4. /\ (2 * S32) * k \in Int /\ (2 * S32) * j \in Int
            /\ k + j \in Int /\ (2 * S32) * (k + j) = (2 * S32) * k + (2 * S32) * j
        BY Multiples
      <4>5. balance' = token_count' + Cardinality(SetAside') + (2 * S32) * (k + j)
        BY <1>1, <2>1, <3>3, <3>8, <4>1, <4>3, <4>4
      <4> QED
        BY <4>4, <4>5 DEF Account
    <3> QED
      BY <2>2, <3>5, <3>7, <3>9 DEF TokenInv
  <2> QED
    BY <2>5, <2>6
<1> QED
  BY <1>2, <1>3, <1>4, <1>5, <1>6 DEF Step

\* Tokens are neither lost nor invented, for any threads, any needs that are not
\* negative and any counts in Signal and Cancel: modulo the width of an s32, what
\* was supplied and not returned to a successful Wait is in token_count or set
\* aside for a waiter Signal has served, whatever time-outs, Cancel and Delete do
\* in between.
THEOREM TokensAccountedHolds == NoNegativeNeed => (Spec => []TokensAccounted)
<1> SUFFICES ASSUME NoNegativeNeed PROVE Spec => []TokensAccounted
  OBVIOUS
<1>1. Init => TokenInv
  <2> SUFFICES ASSUME Init PROVE TokenInv
    OBVIOUS
  <2>1. Served = {}
    BY DEF Init, Served
  <2>2. SetAside = {}
    BY <2>1 DEF SetAside, TokensOf
  <2>3. IsFiniteSet(SetAside) /\ Cardinality(SetAside) = 0
    BY <2>2, FS_EmptySet
  <2>4. 0 \in Int /\ balance = token_count + Cardinality(SetAside) + (2 * S32) * 0
    BY <2>3 DEF Init
  <2>5. Account
    BY <2>4 DEF Account
  <2> QED
    BY <2>3, <2>5 DEF Init, TokenInv, Fresh
<1>2. IInv /\ IInv' /\ TokenInv /\ [Next]_vars => TokenInv'
  <2> SUFFICES ASSUME IInv, IInv', TokenInv, [Next]_vars
               PROVE  TokenInv'
    OBVIOUS
  <2>1. CASE UNCHANGED vars
    BY <2>1 DEF TokenInv, Fresh, Account, SetAside, Served, vars, objectVars, waiterVars
  <2> QED
    BY <2>1, CallAccount, StepAccount DEF Next
<1>3. IInv /\ TokenInv => TokensAccounted
  <2> SUFFICES ASSUME IInv, TokenInv PROVE TokensAccounted
    OBVIOUS
  <2>1. PICK k \in Int : balance = token_count + Cardinality(SetAside) + (2 * S32) * k
    BY DEF TokenInv, Account
  <2>2. token_count + Cardinality(SetAside) \in Int /\ balance \in Int32
    BY FS_CardinalityType DEF IInv, TypeOK, Int32, TokenInv
  <2> QED
    BY <2>1, <2>2, WrapIs DEF TokensAccounted
<1> QED
  BY InvHolds, <1>1, <1>2, <1>3, PTL DEF Spec

=============================================================================
