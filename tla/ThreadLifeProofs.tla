-------------------------- MODULE ThreadLifeProofs --------------------------
(***************************************************************************)
(* What holds of ThreadLife for every set of threads and objects, every    *)
(* program of the guest and every threshold.                               *)
(***************************************************************************)
EXTENDS ThreadLife, FiniteSetTheorems, SequenceTheorems, TLAPS

-----------------------------------------------------------------------------
(***************************************************************************)
(* Lists.                                                                  *)
(***************************************************************************)
Distinct(s) == \A i, j \in DOMAIN s : s[i] = s[j] => i = j

\* A list without repetition has as many elements as places.
LEMMA DistinctCount ==
    ASSUME NEW S, NEW s \in Seq(S), Distinct(s)
    PROVE  Cardinality(Elements(s)) = Len(s)
<1>1. Len(s) \in Nat /\ DOMAIN s = 1 .. Len(s) /\ s \in [1 .. Len(s) -> Elements(s)]
  BY DEF Elements
<1>2. s \in Bijection(1 .. Len(s), Elements(s))
  BY <1>1 DEF Distinct, Elements, Bijection, Injection, Surjection, IsInjective
<1>3. ExistsBijection(1 .. Len(s), Elements(s))
  BY <1>2 DEF ExistsBijection
<1> QED
  BY <1>1, <1>3, FS_CountingElements

\* A set of places is finite.
LEMMA Bounded ==
    ASSUME NEW n \in Nat, NEW I \in SUBSET (1 .. n)
    PROVE  IsFiniteSet(I) /\ Cardinality(I) \in Nat
<1>1. IsFiniteSet(1 .. n)
  BY FS_Interval
<1>2. IsFiniteSet(I)
  BY <1>1, FS_Subset
<1> QED
  BY <1>2, FS_CardinalityType

\* The places of a set of numbers have the ranks 1, 2, ...
LEMMA Ranks ==
    ASSUME NEW n \in Nat, NEW I \in SUBSET (1 .. n), NEW k \in 1 .. Cardinality(I)
    PROVE  \E i \in I : Cardinality({j \in I : j <= i}) = k
<1> DEFINE upto(i) == {j \in I : j <= i}
           rank == [i \in I |-> Cardinality(upto(i))]
           N == 1 .. Cardinality(I)
<1>1. IsFiniteSet(I) /\ Cardinality(I) \in Nat
  BY Bounded
<1>2. ASSUME NEW i \in I PROVE IsFiniteSet(upto(i)) /\ rank[i] \in N
  <2>1. upto(i) \in SUBSET I /\ upto(i) # {}
    OBVIOUS
  <2>2. IsFiniteSet(upto(i)) /\ Cardinality(upto(i)) <= Cardinality(I)
    BY <1>1, <2>1, FS_Subset
  <2>3. Cardinality(upto(i)) \in Nat /\ Cardinality(upto(i)) # 0
    BY <2>1, <2>2, FS_CardinalityType, FS_EmptySet
  <2> QED
    BY <1>1, <2>2, <2>3
<1>3. ASSUME NEW i \in I, NEW j \in I, i < j PROVE rank[i] # rank[j]
  <2>1. upto(i) \in SUBSET upto(j) /\ upto(i) # upto(j)
    <3>1. i \in Nat /\ j \in Nat /\ \A l \in I : l \in Nat
      OBVIOUS
    <3>2. j \in upto(j) /\ j \notin upto(i)
      BY <1>3, <3>1
    <3>3. \A l \in I : l <= i => l <= j
      BY <1>3, <3>1
    <3> QED
      BY <3>2, <3>3
  <2> QED
    BY <1>2, <2>1, FS_Subset
<1>4. rank \in Injection(I, N)
  <2>1. rank \in [I -> N]
    BY <1>2
  <2>2. \A i, j \in I : rank[i] = rank[j] => i = j
    BY <1>3
  <2> HIDE DEF rank, N
  <2> QED
    BY <2>1, <2>2 DEF Injection, IsInjective
<1>5. IsFiniteSet(N) /\ Cardinality(N) = Cardinality(I)
  BY <1>1, FS_Interval
<1> HIDE DEF rank, N
<1>6. rank \in Surjection(I, N)
  BY <1>1, <1>4, <1>5, FS_Injection
<1>7. \E i \in I : rank[i] = k
  BY <1>6 DEF Surjection, N
<1> QED
  BY <1>7 DEF rank

\* What is selected from a list without repetition has none either.
LEMMA SelectedFacts ==
    ASSUME NEW S, NEW s \in Seq(S), NEW K
    PROVE  /\ Selected(s, K) \in Seq(S)
           /\ Elements(Selected(s, K)) \subseteq Elements(s) \cap K
           /\ Distinct(s) => Distinct(Selected(s, K))
<1> DEFINE I == {i \in DOMAIN s : s[i] \in K}
           kth(k) == CHOOSE i \in I : Cardinality({j \in I : j <= i}) = k
           r == [k \in 1 .. Cardinality(I) |-> s[kth(k)]]
<1>1. Selected(s, K) = r
  BY DEF Selected
<1>2. Len(s) \in Nat /\ I \in SUBSET (1 .. Len(s)) /\ \A i \in I : s[i] \in S \cap K
  OBVIOUS
<1>3. Cardinality(I) \in Nat
  BY <1>2, Bounded
<1>4. ASSUME NEW k \in 1 .. Cardinality(I)
      PROVE  kth(k) \in I /\ Cardinality({j \in I : j <= kth(k)}) = k
  <2>1. \E i \in I : Cardinality({j \in I : j <= i}) = k
    BY <1>2, Ranks
  <2> QED
    BY <2>1
<1> HIDE DEF I, kth
<1>5. r \in Seq(S) /\ Len(r) = Cardinality(I) /\ DOMAIN r = 1 .. Cardinality(I)
  <2>1. r \in [1 .. Cardinality(I) -> S]
    BY <1>2, <1>4
  <2> HIDE DEF r
  <2> QED
    BY <1>3, <2>1
<1>6. Elements(r) \subseteq Elements(s) \cap K
  <2> SUFFICES ASSUME NEW k \in DOMAIN r PROVE r[k] \in Elements(s) \cap K
    BY DEF Elements
  <2>1. kth(k) \in DOMAIN s /\ s[kth(k)] \in K /\ r[k] = s[kth(k)]
    BY <1>4, <1>5 DEF I
  <2> QED
    BY <2>1 DEF Elements
<1>7. ASSUME Distinct(s) PROVE Distinct(r)
  <2> SUFFICES ASSUME NEW k \in DOMAIN r, NEW l \in DOMAIN r, r[k] = r[l] PROVE k = l
    BY DEF Distinct
  <2>1. kth(k) \in DOMAIN s /\ kth(l) \in DOMAIN s /\ s[kth(k)] = s[kth(l)]
    BY <1>4, <1>5 DEF I
  <2>2. kth(k) = kth(l)
    BY <1>7, <2>1 DEF Distinct
  <2> QED
    BY <1>4, <1>5, <2>2
<1> QED
  BY <1>1, <1>5, <1>6, <1>7

\* A list followed by another.
LEMMA ConcatFacts ==
    ASSUME NEW S, NEW s \in Seq(S), NEW r \in Seq(S)
    PROVE  /\ s \o r \in Seq(S)
           /\ Elements(s \o r) = Elements(s) \cup Elements(r)
           /\ Distinct(s) /\ Distinct(r) /\ Elements(s) \cap Elements(r) = {}
                => Distinct(s \o r)
<1>1. /\ s \o r \in Seq(S) /\ Len(s \o r) = Len(s) + Len(r)
      /\ Len(s) \in Nat /\ Len(r) \in Nat
      /\ DOMAIN s = 1 .. Len(s) /\ DOMAIN r = 1 .. Len(r)
      /\ DOMAIN (s \o r) = 1 .. Len(s) + Len(r)
  OBVIOUS
<1>2. \A i \in 1 .. Len(s) + Len(r) :
         (s \o r)[i] = IF i <= Len(s) THEN s[i] ELSE r[i - Len(s)]
  OBVIOUS
<1> DEFINE c == s \o r
<1>3. c = s \o r
  OBVIOUS
<1> HIDE DEF c
<1>4. \A i \in 1 .. Len(s) : c[i] = s[i]
  BY <1>1, <1>2, <1>3
<1>5. \A i \in 1 .. Len(r) : c[Len(s) + i] = r[i]
  BY <1>1, <1>2, <1>3
<1>6. \A i \in DOMAIN c : \/ i \in 1 .. Len(s) /\ c[i] = s[i]
                          \/ i - Len(s) \in 1 .. Len(r) /\ c[i] = r[i - Len(s)]
  BY <1>1, <1>2, <1>3
<1>7. Elements(c) \subseteq Elements(s) \cup Elements(r)
  BY <1>1, <1>6 DEF Elements
<1>8. Elements(s) \subseteq Elements(c)
  BY <1>1, <1>3, <1>4 DEF Elements
<1>9. Elements(r) \subseteq Elements(c)
  <2> SUFFICES ASSUME NEW i \in 1 .. Len(r) PROVE r[i] \in Elements(c)
    BY <1>1 DEF Elements
  <2>1. Len(s) + i \in DOMAIN c
    BY <1>1, <1>3
  <2> QED
    BY <1>5, <2>1 DEF Elements
<1>10. ASSUME Distinct(s), Distinct(r), Elements(s) \cap Elements(r) = {}
       PROVE  Distinct(c)
  <2> SUFFICES ASSUME NEW i \in DOMAIN c, NEW j \in DOMAIN c, c[i] = c[j] PROVE i = j
    BY DEF Distinct
  <2>1. i \in Int /\ j \in Int
    BY <1>1, <1>3
  <2>2. CASE i \in 1 .. Len(s) /\ j \in 1 .. Len(s)
    BY <1>1, <1>4, <1>10, <2>2 DEF Distinct
  <2>3. CASE i \notin 1 .. Len(s) /\ j \notin 1 .. Len(s)
    <3>1. i - Len(s) \in DOMAIN r /\ j - Len(s) \in DOMAIN r /\ r[i - Len(s)] = r[j - Len(s)]
      BY <1>1, <1>6, <2>3
    <3>2. i - Len(s) = j - Len(s)
      BY <1>10, <3>1 DEF Distinct
    <3> QED
      BY <1>1, <2>1, <3>2
  <2>4. ASSUME NEW k \in DOMAIN c, NEW l \in DOMAIN c, k \in 1 .. Len(s), l \notin 1 .. Len(s)
        PROVE  c[k] # c[l]
    <3>1. c[k] \in Elements(s)
      BY <1>1, <1>4, <2>4 DEF Elements
    <3>2. c[l] \in Elements(r)
      BY <1>1, <1>6, <2>4 DEF Elements
    <3> QED
      BY <1>10, <3>1, <3>2
  <2> QED
    BY <2>2, <2>3, <2>4
<1> QED
  BY <1>1, <1>3, <1>7, <1>8, <1>9, <1>10

\* push_back and pop_back.
LEMMA PushFacts ==
    ASSUME NEW S, NEW s \in Seq(S), NEW e \in S
    PROVE  /\ Append(s, e) \in Seq(S)
           /\ Elements(Append(s, e)) = Elements(s) \cup {e}
           /\ Distinct(s) /\ e \notin Elements(s) => Distinct(Append(s, e))
<1> DEFINE r == <<e>>
<1>1. r \in Seq(S) /\ Elements(r) = {e} /\ Distinct(r)
  BY DEF Elements, Distinct
<1>2. Append(s, e) = s \o r
  OBVIOUS
<1> HIDE DEF r
<1>3. /\ s \o r \in Seq(S)
      /\ Elements(s \o r) = Elements(s) \cup Elements(r)
      /\ Distinct(s) /\ Distinct(r) /\ Elements(s) \cap Elements(r) = {}
           => Distinct(s \o r)
  BY <1>1, ConcatFacts
<1> QED
  BY <1>1, <1>2, <1>3

LEMMA PopFacts ==
    ASSUME NEW S, NEW s \in Seq(S), s # <<>>
    PROVE  /\ SubSeq(s, 1, Len(s) - 1) \in Seq(S)
           /\ Elements(SubSeq(s, 1, Len(s) - 1)) \subseteq Elements(s)
           /\ s[Len(s)] \in Elements(s)
           /\ Distinct(s) => /\ Distinct(SubSeq(s, 1, Len(s) - 1))
                             /\ s[Len(s)] \notin Elements(SubSeq(s, 1, Len(s) - 1))
<1> DEFINE r == SubSeq(s, 1, Len(s) - 1)
<1>1. Len(s) \in Nat /\ Len(s) > 0 /\ DOMAIN s = 1 .. Len(s)
  OBVIOUS
<1>2. /\ r \in Seq(S) /\ Len(r) = Len(s) - 1 /\ DOMAIN r = 1 .. Len(s) - 1
      /\ \A i \in 1 .. Len(s) - 1 : r[i] = s[i]
  BY <1>1, SubSeqProperties
<1> HIDE DEF r
<1>3. Elements(r) \subseteq Elements(s) /\ s[Len(s)] \in Elements(s)
  BY <1>1, <1>2 DEF Elements
<1>4. ASSUME Distinct(s) PROVE Distinct(r) /\ s[Len(s)] \notin Elements(r)
  BY <1>1, <1>2, <1>4 DEF Distinct, Elements
<1> QED
  BY <1>2, <1>3, <1>4 DEF r

-----------------------------------------------------------------------------
(***************************************************************************)
(* The inductive invariant.                                                *)
(***************************************************************************)
Asking == {"join", "timedjoin", "detach", "cancel", "getname"}
Collecting == {"collect", "collect_list", "collect_unlock"}
Ended == {"exit_store", "exit_notify", "exit_native"}

\* Where a thread has a reference on arg, the lock of arg, or arg to itself.
RefHeld == {"ref_use", "ref_delete", "collect_list"}
LockHeld == {"join", "detach", "cancel", "cancel_notify", "collect"}
Making == {"link", "start"}

\* Where a thread is the join_target of its own object.
Targeting == Joining \ {"reap", "back_target"}

\* The thread has not been through ExitThread.
Alive(t) ==
    /\ pc[t] \notin {"unborn", "gone"} \cup Ended
    /\ ~(exiting[t] /\ pc[t] \in Collecting)

\* The locals of a call.
CallInv(t) ==
    /\ pc[t] \in Using => arg[t] \in Objects /\ known[t] \in Threads
    /\ pc[t] = "find" => arg[t] \in Objects /\ call[t] \in Asking

\* A thread that has not exited has its own object.
LiveInv(t) ==
    Alive(t) => cur[t] \in threads /\ owner[cur[t]] = t /\ ~dead[cur[t]]

\* What a thread holds is a thread still, and the one it was.
HoldInv(t) ==
    /\ pc[t] \in RefHeld \cup LockHeld \cup Joining => arg[t] \in threads /\ ~Stale(t)
    /\ pc[t] \in LockHeld => lock[arg[t]] = t
    /\ pc[t] = "collect_unlock" /\ ~Stale(t) => lock[arg[t]] = t
    /\ pc[t] \in Joining => joiner[arg[t]] = cur[t] /\ ~detached[arg[t]]

\* A thread that is being created belongs to its creator; a native thread whose
\* object has been recycled is not to come.
MakeInv(t) ==
    /\ pc[t] \in Making =>
          /\ owner[arg[t]] = known[t] /\ pc[known[t]] = "unborn" /\ ~dead[arg[t]]
          /\ \A u \in Threads \ {t} : pc[u] \in Making => arg[u] # arg[t]
    /\ pc[t] = "link" => arg[t] \notin threads
    /\ pc[t] = "start" => arg[t] \in threads
    /\ pc[t] \in Using /\ Stale(t) => pc[known[t]] # "unborn"

\* The references on an object, other than the thread's own.
Refs(o) == {t \in Threads : pc[t] \in RefHeld /\ arg[t] = o}

\* refcount counts them.
Counted(o) ==
    o \in threads => refcount[o] = Cardinality(Refs(o)) + (IF dead[o] THEN 0 ELSE 1)

\* The thread that the object says it is joining.
TargetInv(o) ==
    join_target[o] # None =>
        /\ owner[o] \in Threads /\ cur[owner[o]] = o
        /\ pc[owner[o]] \in Targeting /\ arg[owner[o]] = join_target[o]

\* Dead objects and their owners; no native thread has two.
OwnInv(o) ==
    /\ dead[o] => owner[o] \in Threads /\ pc[owner[o]] # "unborn"
    /\ o \in Elements(gc_list) \cup Elements(free_threads) => dead[o] /\ o \notin threads
    /\ o \in threads => owner[o] # None
    /\ \A p \in Objects : owner[o] = owner[p] /\ owner[o] # None => o = p

\* No object is twice on the lists.
ListInv ==
    /\ Distinct(gc_list) /\ Distinct(free_threads)
    /\ Elements(gc_list) \cap Elements(free_threads) = {}

ThreadPart(t) == CallInv(t) /\ LiveInv(t) /\ HoldInv(t) /\ MakeInv(t)
ObjectPart(o) == Counted(o) /\ TargetInv(o) /\ OwnInv(o)

LifeInv ==
    /\ TypeOK
    /\ \A t \in Threads : ThreadPart(t)
    /\ \A o \in Objects : ObjectPart(o)
    /\ ListInv

\* At the start there is one thread.
LEMMA LifeInit == Init => LifeInv
<1> SUFFICES ASSUME Init PROVE LifeInv
  OBVIOUS
<1> DEFINE o == CHOOSE x \in Objects : TRUE
<1>1. o \in Objects /\ o # None /\ Main \in Threads /\ Main # None
  BY LifeAssumption, ThreadsAssumption
<1>2. /\ threads = {o} /\ gc_list = <<>> /\ free_threads = <<>>
      /\ owner = [x \in Objects |-> IF x = o THEN Main ELSE None]
      /\ cur = [t \in Threads |-> IF t = Main THEN o ELSE None]
      /\ pc = [t \in Threads |-> IF t = Main THEN "run" ELSE "unborn"]
      /\ refcount = [x \in Objects |-> IF x = o THEN 1 ELSE 0]
  BY DEF Init
<1>3. /\ lock = [x \in Objects |-> None] /\ join_mutex = [x \in Objects |-> None]
      /\ dead = [x \in Objects |-> FALSE] /\ detached = [x \in Objects |-> FALSE]
      /\ tid = [x \in Objects |-> "live"]
      /\ joiner = [x \in Objects |-> None] /\ join_target = [x \in Objects |-> None]
      /\ cancel_pending = [x \in Objects |-> FALSE]
      /\ call = [t \in Threads |-> None] /\ arg = [t \in Threads |-> None]
      /\ known = [t \in Threads |-> None]
      /\ exiting = [t \in Threads |-> FALSE]
      /\ calls_left = Budget
      /\ corrupt = FALSE
  BY DEF Init
<1> HIDE DEF o
<1>4. TypeOK
  <2>1. /\ threads \subseteq Objects /\ gc_list \in Seq(Objects) /\ free_threads \in Seq(Objects)
        /\ owner \in [Objects -> Threads \cup {None}] /\ refcount \in [Objects -> Nat]
        /\ cur \in [Threads -> Pointer] /\ pc \in [Threads -> PCs]
    BY <1>1, <1>2 DEF PCs, Pointer
  <2>2. /\ lock \in [Objects -> Threads \cup {None}]
        /\ join_mutex \in [Objects -> Threads \cup {None}]
        /\ dead \in [Objects -> BOOLEAN] /\ detached \in [Objects -> BOOLEAN]
        /\ tid \in [Objects -> {"live", "terminated"}]
        /\ joiner \in [Objects -> Pointer] /\ join_target \in [Objects -> Pointer]
        /\ cancel_pending \in [Objects -> BOOLEAN]
    BY <1>3 DEF Pointer
  <2>3. /\ call \in [Threads -> Calls \cup {None}] /\ arg \in [Threads -> Pointer]
        /\ known \in [Threads -> Threads \cup {None}]
        /\ exiting \in [Threads -> BOOLEAN] /\ calls_left \in [Threads -> Nat]
        /\ corrupt \in BOOLEAN
    BY <1>3, LifeAssumption DEF Pointer
  <2> QED
    BY <2>1, <2>2, <2>3 DEF TypeOK
<1>5. \A t \in Threads : pc[t] = "unborn" \/ (t = Main /\ pc[t] = "run")
  BY <1>2
<1>6. ASSUME NEW t \in Threads PROVE ThreadPart(t)
  <2>1. CallInv(t) /\ HoldInv(t) /\ MakeInv(t)
    BY <1>5 DEF CallInv, HoldInv, MakeInv, Using, RefHeld, LockHeld, Joining, Making
  <2>2. LiveInv(t)
    BY <1>1, <1>2, <1>3, <1>5 DEF LiveInv, Alive
  <2> QED
    BY <2>1, <2>2 DEF ThreadPart
<1>7. ASSUME NEW x \in Objects PROVE ObjectPart(x)
  <2>1. Refs(x) = {}
    BY <1>5 DEF Refs, RefHeld
  <2>2. Counted(x)
    BY <1>2, <1>3, <2>1, FS_EmptySet DEF Counted
  <2>3. TargetInv(x)
    BY <1>3 DEF TargetInv
  <2>4. OwnInv(x)
    BY <1>1, <1>2, <1>3 DEF OwnInv, Elements
  <2> QED
    BY <2>2, <2>3, <2>4 DEF ObjectPart
<1>8. ListInv
  BY <1>2 DEF ListInv, Distinct, Elements
<1> QED
  BY <1>4, <1>6, <1>7, <1>8 DEF LifeInv

-----------------------------------------------------------------------------
(***************************************************************************)
(* References.                                                             *)
(***************************************************************************)

\* A thread that has a reference is counted.
LEMMA RefCounted ==
    ASSUME LifeInv, NEW t \in Threads, pc[t] \in RefHeld
    PROVE  /\ arg[t] \in Objects /\ arg[t] \in threads
           /\ refcount[arg[t]] \in Nat /\ refcount[arg[t]] > 0
<1>1. arg[t] \in threads /\ threads \subseteq Objects
  BY DEF LifeInv, ThreadPart, HoldInv, TypeOK
<1>2. /\ refcount[arg[t]] \in Nat
      /\ refcount[arg[t]] = Cardinality(Refs(arg[t])) + (IF dead[arg[t]] THEN 0 ELSE 1)
  BY <1>1 DEF LifeInv, ObjectPart, Counted, TypeOK
<1>3. IsFiniteSet(Refs(arg[t])) /\ t \in Refs(arg[t])
  BY LifeAssumption, FS_Subset DEF Refs
<1>4. Cardinality(Refs(arg[t])) \in Nat /\ Cardinality(Refs(arg[t])) # 0
  BY <1>3, FS_CardinalityType, FS_EmptySet
<1> QED
  BY <1>1, <1>2, <1>4

\* A thread that has not exited has a reference on its own object.
LEMMA OwnCounted ==
    ASSUME LifeInv, NEW o \in threads, ~dead[o]
    PROVE  /\ o \in Objects /\ refcount[o] \in Nat /\ refcount[o] > 0
<1>1. o \in Objects /\ refcount[o] \in Nat /\ refcount[o] = Cardinality(Refs(o)) + 1
  BY DEF LifeInv, ObjectPart, Counted, TypeOK
<1>2. IsFiniteSet(Refs(o))
  BY LifeAssumption, FS_Subset DEF Refs
<1>3. Cardinality(Refs(o)) \in Nat
  BY <1>2, FS_CardinalityType
<1> QED
  BY <1>1, <1>3

-----------------------------------------------------------------------------
(***************************************************************************)
(* Types.                                                                  *)
(***************************************************************************)

\* What a thread may use: arg and known are pointers there.
LEMMA Usable ==
    ASSUME LifeInv, NEW t \in Threads
    PROVE  /\ pc[t] \in Using => arg[t] \in Objects /\ known[t] \in Threads
           /\ pc[t] = "find" => arg[t] \in Objects /\ call[t] \in Asking
           /\ Alive(t) => cur[t] \in Objects /\ cur[t] \in threads /\ ~dead[cur[t]]
  BY DEF LifeInv, ThreadPart, CallInv, LiveInv, TypeOK

\* Going on, or back to the guest.
LEMMA GotoTypes ==
    ASSUME TypeOK, NEW t \in Threads, NEW place \in PCs, Goto(t, place)
    PROVE  /\ pc' \in [Threads -> PCs]
           /\ call' \in [Threads -> Calls \cup {None}]
           /\ arg' \in [Threads -> Pointer]
           /\ known' \in [Threads -> Threads \cup {None}]
<1>1. /\ call' = call \/ call' = [call EXCEPT ![t] = None]
      /\ arg' = arg \/ arg' = [arg EXCEPT ![t] = None]
      /\ known' = known \/ known' = [known EXCEPT ![t] = None]
  BY DEF Goto, callVars
<1> QED
  BY <1>1 DEF Goto, Move, TypeOK, Pointer

\* Every step keeps the types of the lists.
LEMMA ListTypes ==
    ASSUME LifeInv, NEW t \in Threads, Collect(t) \/ Alloc(t) \/ Erase(t) \/ Link(t)
    PROVE  threads' \subseteq Objects /\ gc_list' \in Seq(Objects) /\ free_threads' \in Seq(Objects)
<1>1. /\ threads \subseteq Objects /\ gc_list \in Seq(Objects) /\ free_threads \in Seq(Objects)
      /\ pc[t] \in Using => arg[t] \in Objects
  BY Usable DEF LifeInv, TypeOK
<1>2. CASE Collect(t)
  <2>1. /\ UNCHANGED threads
        /\ \/ UNCHANGED <<gc_list, free_threads>>
           \/ /\ gc_list' = Selected(gc_list, Objects \ Terminated)
              /\ free_threads' = free_threads \o Selected(gc_list, Terminated)
    BY <1>2 DEF Collect
  <2>2. \A K : Selected(gc_list, K) \in Seq(Objects)
    BY <1>1, SelectedFacts
  <2>3. \A r \in Seq(Objects) : free_threads \o r \in Seq(Objects)
    BY <1>1, ConcatFacts
  <2> QED
    BY <1>1, <2>1, <2>2, <2>3
<1>3. CASE Alloc(t)
  <2>1. /\ UNCHANGED <<threads, gc_list>>
        /\ \/ UNCHANGED free_threads
           \/ /\ free_threads # <<>>
              /\ free_threads' = SubSeq(free_threads, 1, Len(free_threads) - 1)
    BY <1>3 DEF Alloc
  <2>2. free_threads # <<>> => SubSeq(free_threads, 1, Len(free_threads) - 1) \in Seq(Objects)
    BY <1>1, PopFacts
  <2> QED
    BY <1>1, <2>1, <2>2
<1>4. CASE Erase(t)
  <2>1. /\ UNCHANGED free_threads /\ threads' \subseteq threads /\ pc[t] \in Using
        /\ gc_list' = gc_list \/ gc_list' = Append(gc_list, arg[t])
    BY <1>4 DEF Erase, Using, PCs
  <2>2. Append(gc_list, arg[t]) \in Seq(Objects)
    BY <1>1, <2>1, PushFacts
  <2> QED
    BY <1>1, <2>1, <2>2
<1>5. CASE Link(t)
  <2>1. UNCHANGED <<gc_list, free_threads>> /\ threads' = threads \cup {arg[t]} /\ pc[t] \in Using
    BY <1>5 DEF Link, Using, PCs
  <2> QED
    BY <1>1, <2>1
<1> QED
  BY <1>2, <1>3, <1>4, <1>5

\* Every step keeps the types.
LEMMA LifeTypes == LifeInv /\ [Next]_vars => TypeOK'
<1> SUFFICES ASSUME LifeInv, [Next]_vars PROVE TypeOK'
  OBVIOUS
<1>1. TypeOK
  BY DEF LifeInv
<1> USE DEF Move, Lock, Unlock, Set, listVars, lockVars, objectVars, callVars
<1>2. ASSUME NEW t \in Threads, AllocFails(t), UNCHANGED corrupt, calls_left' \in [Threads -> Nat]
      PROVE  TypeOK'
  <2>1. pc[t] \in Using => arg[t] \in Objects /\ known[t] \in Threads
    BY Usable
  <2>2. \E place \in PCs : Goto(t, place)
    BY <1>2 DEF AllocFails, PCs
  <2>3. /\ pc' \in [Threads -> PCs]
        /\ call' \in [Threads -> Calls \cup {None}]
        /\ arg' \in [Threads -> Pointer]
        /\ known' \in [Threads -> Threads \cup {None}]
    BY <1>1, <2>2, GotoTypes
  <2>4. /\ UNCHANGED <<threads, gc_list, free_threads, lock, join_mutex, owner, dead,
                       detached, refcount, tid, joiner, join_target,
                       cancel_pending, cur, exiting>>
    BY <1>1, <1>2, <2>1 DEF AllocFails, Using, PCs, TypeOK, Pointer
  <2> QED
    BY <1>1, <1>2, <2>3, <2>4 DEF TypeOK
<1>3. ASSUME NEW t \in Threads, Link(t), UNCHANGED corrupt, calls_left' \in [Threads -> Nat]
      PROVE  TypeOK'
  <2>1. arg[t] \in Objects
    BY <1>3, Usable DEF Link, Using, PCs
  <2>2. threads' \subseteq Objects /\ gc_list' \in Seq(Objects) /\ free_threads' \in Seq(Objects)
    BY <1>3, ListTypes
  <2> QED
    BY <1>1, <1>3, <2>1, <2>2 DEF Link, TypeOK, PCs, Pointer, Calls, Goto
<1>4. ASSUME NEW t \in Threads, Start(t), UNCHANGED corrupt, calls_left' \in [Threads -> Nat]
      PROVE  TypeOK'
  <2>1. pc[t] \in Using => arg[t] \in Objects /\ known[t] \in Threads
    BY Usable
  <2> QED
    BY <1>1, <1>4, <2>1 DEF Start, Using, TypeOK, PCs, Pointer, Calls, Goto
<1>5. ASSUME NEW t \in Threads, SetAffinity(t), UNCHANGED corrupt, calls_left' \in [Threads -> Nat]
      PROVE  TypeOK'
  <2>1. pc[t] \in Using => arg[t] \in Objects /\ known[t] \in Threads
    BY Usable
  <2>2. \E place \in PCs : Goto(t, place)
    BY <1>5 DEF SetAffinity, PCs
  <2>3. /\ pc' \in [Threads -> PCs]
        /\ call' \in [Threads -> Calls \cup {None}]
        /\ arg' \in [Threads -> Pointer]
        /\ known' \in [Threads -> Threads \cup {None}]
    BY <1>1, <2>2, GotoTypes
  <2>4. /\ UNCHANGED <<threads, gc_list, free_threads, lock, join_mutex, owner, dead,
                       detached, refcount, tid, joiner, join_target,
                       cancel_pending, cur, exiting>>
    BY <1>1, <1>5, <2>1 DEF SetAffinity, Using, PCs, TypeOK, Pointer
  <2> QED
    BY <1>1, <1>5, <2>3, <2>4 DEF TypeOK
<1>6. ASSUME NEW t \in Threads, FindThread(t), UNCHANGED corrupt, calls_left' \in [Threads -> Nat]
      PROVE  TypeOK'
  <2>1. arg[t] \in Objects /\ call[t] \in Asking
    BY <1>6, Usable DEF FindThread
  <2>2. CASE Goto(t, "run") /\ UNCHANGED <<lock, refcount>>
    <3>1. /\ pc' \in [Threads -> PCs]
          /\ call' \in [Threads -> Calls \cup {None}]
          /\ arg' \in [Threads -> Pointer]
          /\ known' \in [Threads -> Threads \cup {None}]
      BY <1>1, <2>2, GotoTypes DEF PCs
    <3> QED
      BY <1>1, <1>6, <2>2, <3>1 DEF FindThread, TypeOK
  <2>3. CASE ~Goto(t, "run") \/ ~UNCHANGED <<lock, refcount>>
    <3>1. /\ known' = [known EXCEPT ![t] = owner[arg[t]]] /\ UNCHANGED <<call, arg>>
          /\ pc' = [pc EXCEPT ![t] = Found(call[t])]
          /\ \/ refcount' = Set(refcount, arg[t], refcount[arg[t]] + 1) /\ UNCHANGED lock
             \/ lock' = Set(lock, arg[t], t) /\ UNCHANGED refcount
      BY <1>6, <2>3 DEF FindThread, Referenced
    <3>2. Found(call[t]) \in PCs
      BY <2>1 DEF Found, Asking, PCs
    <3>3. /\ UNCHANGED <<listVars, join_mutex, owner, dead, detached, tid, joiner,
                         join_target, cancel_pending, cur, exiting>>
          /\ owner[arg[t]] \in Threads \cup {None}
      BY <1>1, <1>6, <2>1 DEF FindThread, TypeOK
    <3>4. /\ refcount' \in [Objects -> Nat]
          /\ lock' \in [Objects -> Threads \cup {None}]
      <4>1. /\ refcount \in [Objects -> Nat] /\ refcount[arg[t]] + 1 \in Nat
            /\ lock \in [Objects -> Threads \cup {None}]
        BY <1>1, <2>1 DEF TypeOK
      <4>2. CASE refcount' = Set(refcount, arg[t], refcount[arg[t]] + 1) /\ UNCHANGED lock
        BY <4>1, <4>2
      <4>3. CASE lock' = Set(lock, arg[t], t) /\ UNCHANGED refcount
        BY <4>1, <4>3
      <4> QED
        BY <3>1, <4>2, <4>3
    <3>5. /\ known' \in [Threads -> Threads \cup {None}]
          /\ pc' \in [Threads -> PCs]
      BY <1>1, <3>1, <3>2, <3>3 DEF TypeOK
    <3> QED
      BY <1>1, <1>6, <3>1, <3>3, <3>4, <3>5 DEF TypeOK
  <2> QED
    BY <2>2, <2>3
<1>7. ASSUME NEW t \in Threads, JoinStart(t), UNCHANGED corrupt, calls_left' \in [Threads -> Nat]
      PROVE  TypeOK'
  <2>1. arg[t] \in Objects /\ cur[t] \in Objects
    BY <1>7, Usable DEF JoinStart, Using, PCs, Alive, Ended, Collecting
  <2>2. \E place \in PCs : Goto(t, place)
    BY <1>7 DEF JoinStart, PCs
  <2>3. /\ pc' \in [Threads -> PCs]
        /\ call' \in [Threads -> Calls \cup {None}]
        /\ arg' \in [Threads -> Pointer]
        /\ known' \in [Threads -> Threads \cup {None}]
    BY <1>1, <2>2, GotoTypes
  <2>4. /\ UNCHANGED <<listVars, join_mutex, owner, dead, detached, refcount, tid,
                       cancel_pending, cur, exiting>>
        /\ lock' \in [Objects -> Threads \cup {None}]
        /\ joiner' \in [Objects -> Pointer] /\ join_target' \in [Objects -> Pointer]
    BY <1>1, <1>7, <2>1 DEF JoinStart, TypeOK, Pointer
  <2> QED
    BY <1>1, <1>7, <2>3, <2>4 DEF TypeOK
<1>8. ASSUME NEW t \in Threads, JoinTest(t), UNCHANGED corrupt, calls_left' \in [Threads -> Nat]
      PROVE  TypeOK'
  <2>1. arg[t] \in Objects /\ cur[t] \in Objects
    BY <1>8, Usable DEF JoinTest, Using, PCs, Alive, Ended, Collecting
  <2> QED
    BY ZenonT(30), <1>1, <1>8, <2>1 DEF JoinTest, BackOut, TypeOK, PCs, Pointer, Calls, Goto
<1>9. ASSUME NEW t \in Threads, JoinLock(t), UNCHANGED corrupt, calls_left' \in [Threads -> Nat]
      PROVE  TypeOK'
  <2>1. pc[t] \in Using => arg[t] \in Objects /\ known[t] \in Threads
    BY Usable
  <2> QED
    BY <1>1, <1>9, <2>1 DEF JoinLock, Using, TypeOK, PCs, Pointer, Calls, Goto
<1>10. ASSUME NEW t \in Threads, JoinCheck(t), UNCHANGED corrupt, calls_left' \in [Threads -> Nat]
      PROVE  TypeOK'
  <2>1. arg[t] \in Objects /\ cur[t] \in Objects
    BY <1>10, Usable DEF JoinCheck, Using, PCs, Alive, Ended, Collecting
  <2> QED
    BY ZenonT(30), <1>1, <1>10, <2>1 DEF JoinCheck, BackOut, TypeOK, PCs, Pointer, Calls, Goto
<1>11. ASSUME NEW t \in Threads, JoinBlock(t), UNCHANGED corrupt, calls_left' \in [Threads -> Nat]
      PROVE  TypeOK'
  <2>1. pc[t] \in Using => arg[t] \in Objects /\ known[t] \in Threads
    BY Usable
  <2> QED
    BY <1>1, <1>11, <2>1 DEF JoinBlock, Using, TypeOK, PCs, Pointer, Calls, Goto
<1>12. ASSUME NEW t \in Threads, BackoutSelf(t), UNCHANGED corrupt, calls_left' \in [Threads -> Nat]
      PROVE  TypeOK'
  <2>1. arg[t] \in Objects /\ cur[t] \in Objects
    BY <1>12, Usable DEF BackoutSelf, Using, PCs, Alive, Ended, Collecting
  <2> QED
    BY <1>1, <1>12, <2>1 DEF BackoutSelf, TypeOK, PCs, Pointer, Calls, Goto
<1>13. ASSUME NEW t \in Threads, BackoutTarget(t), UNCHANGED corrupt, calls_left' \in [Threads -> Nat]
      PROVE  TypeOK'
  <2>1. pc[t] \in Using => arg[t] \in Objects /\ known[t] \in Threads
    BY Usable
  <2> QED
    BY ZenonT(30), <1>1, <1>13, <2>1 DEF BackoutTarget, Using, TypeOK, PCs, Pointer, Calls, Goto
<1>14. ASSUME NEW t \in Threads, JoinDone(t), UNCHANGED corrupt, calls_left' \in [Threads -> Nat]
      PROVE  TypeOK'
  <2>1. arg[t] \in Objects /\ cur[t] \in Objects
    BY <1>14, Usable DEF JoinDone, Using, PCs, Alive, Ended, Collecting
  <2> QED
    BY <1>1, <1>14, <2>1 DEF JoinDone, TypeOK, PCs, Pointer, Calls, Goto
<1>15. ASSUME NEW t \in Threads, Reap(t), UNCHANGED corrupt, calls_left' \in [Threads -> Nat]
      PROVE  TypeOK'
  <2>1. pc[t] \in Using => arg[t] \in Objects /\ known[t] \in Threads
    BY Usable
  <2> QED
    BY <1>1, <1>15, <2>1 DEF Reap, Using, TypeOK, PCs, Pointer, Calls, Goto
<1>16. ASSUME NEW t \in Threads, Detach(t), UNCHANGED corrupt, calls_left' \in [Threads -> Nat]
      PROVE  TypeOK'
  <2>1. pc[t] \in Using => arg[t] \in Objects /\ known[t] \in Threads
    BY Usable
  <2>2. \E place \in PCs : Goto(t, place)
    BY <1>16 DEF Detach, PCs
  <2>3. /\ pc' \in [Threads -> PCs]
        /\ call' \in [Threads -> Calls \cup {None}]
        /\ arg' \in [Threads -> Pointer]
        /\ known' \in [Threads -> Threads \cup {None}]
    BY <1>1, <2>2, GotoTypes
  <2>4. /\ UNCHANGED <<threads, gc_list, free_threads, join_mutex, owner, dead,
                       refcount, tid, joiner, join_target, cancel_pending, cur,
                       exiting>>
        /\ lock' \in [Objects -> Threads \cup {None}]
        /\ detached' \in [Objects -> BOOLEAN]
    BY <1>1, <1>16, <2>1 DEF Detach, Using, PCs, TypeOK, Pointer
  <2> QED
    BY <1>1, <1>16, <2>3, <2>4 DEF TypeOK
<1>17. ASSUME NEW t \in Threads, Cancel(t), UNCHANGED corrupt, calls_left' \in [Threads -> Nat]
      PROVE  TypeOK'
  <2>1. pc[t] \in Using => arg[t] \in Objects /\ known[t] \in Threads
    BY Usable
  <2>2. \E place \in PCs : Goto(t, place)
    BY <1>17 DEF Cancel, PCs
  <2>3. /\ pc' \in [Threads -> PCs]
        /\ call' \in [Threads -> Calls \cup {None}]
        /\ arg' \in [Threads -> Pointer]
        /\ known' \in [Threads -> Threads \cup {None}]
    BY <1>1, <2>2, GotoTypes
  <2>4. /\ UNCHANGED <<threads, gc_list, free_threads, join_mutex, owner, dead,
                       detached, refcount, tid, joiner, join_target, cur,
                       exiting>>
        /\ lock' \in [Objects -> Threads \cup {None}]
        /\ cancel_pending' \in [Objects -> BOOLEAN]
    BY <1>1, <1>17, <2>1 DEF Cancel, Using, PCs, TypeOK, Pointer
  <2> QED
    BY <1>1, <1>17, <2>3, <2>4 DEF TypeOK
<1>18. ASSUME NEW t \in Threads, CancelNotify(t), UNCHANGED corrupt, calls_left' \in [Threads -> Nat]
      PROVE  TypeOK'
  <2>1. pc[t] \in Using => arg[t] \in Objects /\ known[t] \in Threads
    BY Usable
  <2> QED
    BY <1>1, <1>18, <2>1 DEF CancelNotify, Wake, Using, TypeOK, PCs, Pointer, Calls, Goto
<1>19. ASSUME NEW t \in Threads, RefUse(t), UNCHANGED corrupt, calls_left' \in [Threads -> Nat]
      PROVE  TypeOK'
  <2>1. pc[t] \in Using => arg[t] \in Objects /\ known[t] \in Threads
    BY Usable
  <2> QED
    BY <1>1, <1>19, <2>1 DEF RefUse, Using, TypeOK, PCs, Pointer, Calls, Goto
<1>20. ASSUME NEW t \in Threads, RefDelete(t), UNCHANGED corrupt, calls_left' \in [Threads -> Nat]
      PROVE  TypeOK'
  <2>1. arg[t] \in Objects /\ refcount[arg[t]] \in Nat /\ refcount[arg[t]] > 0
    BY <1>20, RefCounted DEF RefDelete, RefHeld
  <2> QED
    BY <1>1, <1>20, <2>1 DEF RefDelete, TypeOK, PCs, Pointer, Calls, Goto
<1>21. ASSUME NEW t \in Threads, TryCollect(t), UNCHANGED corrupt, calls_left' \in [Threads -> Nat]
      PROVE  TypeOK'
  <2>1. pc[t] \in Using => arg[t] \in Objects /\ known[t] \in Threads
    BY Usable
  <2>2. \E place \in PCs : Goto(t, place)
    BY <1>21 DEF TryCollect, Leave, PCs
  <2>3. /\ pc' \in [Threads -> PCs]
        /\ call' \in [Threads -> Calls \cup {None}]
        /\ arg' \in [Threads -> Pointer]
        /\ known' \in [Threads -> Threads \cup {None}]
    BY <1>1, <2>2, GotoTypes
  <2>4. /\ UNCHANGED <<threads, gc_list, free_threads, join_mutex, owner, dead,
                       detached, tid, joiner, join_target, cancel_pending, cur,
                       exiting>>
        /\ lock' \in [Objects -> Threads \cup {None}]
        /\ UNCHANGED refcount \/ refcount' = [refcount EXCEPT ![arg[t]] = refcount[arg[t]] + 1]
        /\ arg[t] \in Objects
    BY <1>1, <1>21, <2>1 DEF TryCollect, Leave, Using, PCs, TypeOK, Pointer
  <2> QED
    BY <1>1, <1>21, <2>3, <2>4 DEF TypeOK
<1>22. ASSUME NEW t \in Threads, CollectUnlock(t), UNCHANGED corrupt, calls_left' \in [Threads -> Nat]
      PROVE  TypeOK'
  <2>1. pc[t] \in Using => arg[t] \in Objects /\ known[t] \in Threads
    BY Usable
  <2>2. \E place \in PCs : Goto(t, place)
    BY <1>22 DEF CollectUnlock, Leave, PCs
  <2>3. /\ pc' \in [Threads -> PCs]
        /\ call' \in [Threads -> Calls \cup {None}]
        /\ arg' \in [Threads -> Pointer]
        /\ known' \in [Threads -> Threads \cup {None}]
    BY <1>1, <2>2, GotoTypes
  <2>4. /\ UNCHANGED <<threads, gc_list, free_threads, join_mutex, owner, dead,
                       detached, refcount, tid, joiner, join_target,
                       cancel_pending, cur, exiting>>
        /\ lock' \in [Objects -> Threads \cup {None}]
    BY <1>1, <1>22, <2>1 DEF CollectUnlock, Leave, Using, PCs, TypeOK, Pointer
  <2> QED
    BY <1>1, <1>22, <2>3, <2>4 DEF TypeOK
<1>23. ASSUME NEW t \in Threads, ExitThread(t), UNCHANGED corrupt, calls_left' \in [Threads -> Nat]
      PROVE  TypeOK'
  <2>1. cur[t] \in threads /\ ~dead[cur[t]]
    BY <1>23, Usable DEF ExitThread, Alive, Ended, Collecting
  <2>2. cur[t] \in Objects /\ refcount[cur[t]] \in Nat /\ refcount[cur[t]] > 0
    BY <2>1, OwnCounted
  <2> QED
    BY <1>1, <1>23, <2>2 DEF ExitThread, TypeOK, PCs, Pointer, Calls, Goto
<1>24. ASSUME NEW t \in Threads, ExitStore(t), UNCHANGED corrupt, calls_left' \in [Threads -> Nat]
      PROVE  TypeOK'
  <2>1. pc[t] \in Using => arg[t] \in Objects /\ known[t] \in Threads
    BY Usable
  <2> QED
    BY <1>1, <1>24, <2>1 DEF ExitStore, Using, TypeOK, PCs, Pointer, Calls, Goto
<1>25. ASSUME NEW t \in Threads, ExitNotify(t), UNCHANGED corrupt, calls_left' \in [Threads -> Nat]
      PROVE  TypeOK'
  <2>1. pc[t] \in Using => arg[t] \in Objects /\ known[t] \in Threads
    BY Usable
  <2> QED
    BY <1>1, <1>25, <2>1 DEF ExitNotify, Wake, Using, TypeOK, PCs, Pointer, Calls, Goto
<1>26. ASSUME NEW t \in Threads, ExitNative(t), UNCHANGED corrupt, calls_left' \in [Threads -> Nat]
      PROVE  TypeOK'
  <2>1. pc[t] \in Using => arg[t] \in Objects /\ known[t] \in Threads
    BY Usable
  <2> QED
    BY <1>1, <1>26, <2>1 DEF ExitNative, Using, TypeOK, PCs, Pointer, Calls, Goto
<1>27. ASSUME NEW t \in Threads, Erase(t), UNCHANGED corrupt, calls_left' \in [Threads -> Nat]
      PROVE  TypeOK'
  <2>1. arg[t] \in Objects /\ refcount[arg[t]] \in Nat /\ refcount[arg[t]] > 0
    BY <1>27, RefCounted DEF Erase, RefHeld
  <2>2. threads' \subseteq Objects /\ gc_list' \in Seq(Objects) /\ free_threads' \in Seq(Objects)
    BY <1>27, ListTypes
  <2> QED
    BY SMTT(30), <1>1, <1>27, <2>1, <2>2 DEF Erase, TypeOK, PCs, Pointer, Calls, Goto
<1>28. ASSUME NEW t \in Threads, Alloc(t), UNCHANGED corrupt, calls_left' \in [Threads -> Nat]
      PROVE  TypeOK'
  <2>1. threads' \subseteq Objects /\ gc_list' \in Seq(Objects) /\ free_threads' \in Seq(Objects)
    BY <1>28, ListTypes
  <2>2. PICK o \in Objects, new \in Unborn :
          /\ owner' = Set(owner, o, new)
          /\ Unlock(o) /\ join_mutex' = Set(join_mutex, o, None)
          /\ dead' = Set(dead, o, FALSE) /\ detached' = Set(detached, o, FALSE)
          /\ refcount' = Set(refcount, o, 0) /\ tid' = Set(tid, o, "live")
          /\ joiner' = Set(joiner, o, None) /\ join_target' = Set(join_target, o, None)
          /\ cancel_pending' = Set(cancel_pending, o, FALSE)
          /\ arg' = [arg EXCEPT ![t] = o] /\ known' = [known EXCEPT ![t] = new]
    BY <1>28 DEF Alloc
  <2>3. new \in Threads
    BY DEF Unborn
  <2>4. Move(t, "link") /\ UNCHANGED <<cur, call, exiting>>
    BY <1>28 DEF Alloc
  <2> QED
    BY <1>1, <1>28, <2>1, <2>2, <2>3, <2>4 DEF TypeOK, PCs, Pointer, Calls, Goto
<1>29. ASSUME NEW t \in Threads, Collect(t), UNCHANGED corrupt, calls_left' \in [Threads -> Nat]
      PROVE  TypeOK'
  <2>1. threads' \subseteq Objects /\ gc_list' \in Seq(Objects) /\ free_threads' \in Seq(Objects)
    BY <1>29, ListTypes
  <2>2. Goto(t, "alloc") /\ UNCHANGED <<lockVars, objectVars, cur, exiting>>
    BY <1>29 DEF Collect
  <2> QED
    BY <1>1, <1>29, <2>1, <2>2 DEF TypeOK, PCs, Pointer, Calls, Goto
<1>30. ASSUME NEW t \in Threads, Call(t), UNCHANGED corrupt, calls_left' \in [Threads -> Nat]
      PROVE  TypeOK'
  <2>1. PICK c \in Program[t] \ {"create", "exit"}, o \in Elements(cur) :
          /\ o # None
          /\ call' = [call EXCEPT ![t] = c] /\ arg' = [arg EXCEPT ![t] = o]
    BY <1>30 DEF Call
  <2>2. c \in Calls /\ o \in Pointer
    BY <1>1, LifeAssumption DEF Elements, TypeOK
  <2>3. Move(t, "find") /\ UNCHANGED <<listVars, lockVars, objectVars, cur, known, exiting>>
    BY <1>30 DEF Call
  <2> QED
    BY <1>1, <1>30, <2>1, <2>2, <2>3 DEF TypeOK, PCs
<1>31. ASSUME NEW t \in Threads, Exit(t), UNCHANGED corrupt, calls_left' \in [Threads -> Nat]
      PROVE  TypeOK'
  <2>1. pc[t] \in Using => arg[t] \in Objects /\ known[t] \in Threads
    BY Usable
  <2> QED
    BY <1>1, <1>31, <2>1 DEF Exit, Using, TypeOK, PCs, Pointer, Calls, Goto
<1>32. ASSUME NEW t \in Threads, JoinTimeout(t), UNCHANGED corrupt, calls_left' \in [Threads -> Nat]
      PROVE  TypeOK'
  <2>1. pc[t] \in Using => arg[t] \in Objects /\ known[t] \in Threads
    BY Usable
  <2> QED
    BY <1>1, <1>32, <2>1 DEF JoinTimeout, Using, TypeOK, PCs, Pointer, Calls, Goto
<1>33. ASSUME NEW t \in Threads, Corrupts(t) PROVE TypeOK'
  BY <1>1, <1>33 DEF Corrupts, TypeOK
<1>34. CASE UNCHANGED vars
  BY <1>1, <1>34 DEF vars, TypeOK
<1>35. ASSUME NEW t \in Threads, Step(t) PROVE TypeOK'
  <2>1. calls_left' \in [Threads -> Nat] /\ UNCHANGED corrupt /\ Finishing(t)
    BY <1>1, <1>35 DEF Step, TypeOK
  <2> QED
    BY <1>2, <1>3, <1>4, <1>5, <1>6, <1>7, <1>8, <1>9, <1>10, <1>11, <1>12, <1>13, <1>14,
       <1>15, <1>16, <1>17, <1>18, <1>19, <1>20, <1>21, <1>22, <1>23, <1>24, <1>25, <1>26,
       <1>27, <1>28, <2>1 DEF Finishing
<1>36. ASSUME NEW t \in Threads, Begin(t) PROVE TypeOK'
  <2>1. calls_left' \in [Threads -> Nat] /\ UNCHANGED corrupt
    BY <1>1, <1>36 DEF Begin, Calling, Leaving, TypeOK
  <2>2. Collect(t) \/ Call(t) \/ Exit(t) \/ JoinTimeout(t)
    BY <1>36 DEF Begin, Calling, Leaving
  <2> QED
    BY <1>29, <1>30, <1>31, <1>32, <2>1, <2>2
<1> QED
  BY <1>33, <1>34, <1>35, <1>36 DEF Next

-----------------------------------------------------------------------------
(***************************************************************************)
(* Steps that leave the lists of threads and their owners as they are.     *)
(***************************************************************************)

\* The threads that a step of t does not concern, but for a notify_all.
Bystanders(t) ==
    \A u \in Threads \ {t} :
        /\ pc'[u] = pc[u] \/ (pc[u] = "join_sleep" /\ pc'[u] = "join_lock")
        /\ call'[u] = call[u] /\ arg'[u] = arg[u] /\ known'[u] = known[u]
        /\ exiting'[u] = exiting[u]

\* A notify_all does not change what a thread holds.
LEMMA SamePlace ==
    ASSUME NEW t, NEW u \in Threads \ {t}, Bystanders(t)
    PROVE  /\ pc'[u] \in Using <=> pc[u] \in Using
           /\ pc'[u] \in RefHeld <=> pc[u] \in RefHeld
           /\ pc'[u] \in LockHeld <=> pc[u] \in LockHeld
           /\ pc'[u] \in Joining <=> pc[u] \in Joining
           /\ pc'[u] \in Targeting <=> pc[u] \in Targeting
           /\ pc'[u] \in Making <=> pc[u] \in Making
           /\ pc'[u] \in Collecting <=> pc[u] \in Collecting
           /\ pc'[u] \in {"unborn", "gone"} \cup Ended <=> pc[u] \in {"unborn", "gone"} \cup Ended
           /\ \A x \in {"unborn", "find", "link", "start", "collect_unlock"} :
                 pc'[u] = x <=> pc[u] = x
<1>1. pc'[u] = pc[u] \/ (pc[u] = "join_sleep" /\ pc'[u] = "join_lock")
  BY DEF Bystanders
<1> QED
  BY <1>1 DEF Using, PCs, RefHeld, LockHeld, Joining, Targeting, Making, Collecting, Ended

\* Two threads do not have the same object.
LEMMA OwnObject ==
    ASSUME LifeInv, NEW t \in Threads, NEW u \in Threads, Alive(t), Alive(u), cur[t] = cur[u]
    PROVE  t = u
  BY DEF LifeInv, ThreadPart, LiveInv

\* Two threads do not join the same thread.
LEMMA OneJoiner ==
    ASSUME LifeInv, NEW t \in Threads, NEW u \in Threads, pc[t] \in Joining, pc[u] \in Joining,
           arg[t] = arg[u]
    PROVE  t = u
<1>1. Alive(t) /\ Alive(u)
  BY DEF Alive, Joining, Ended, Collecting
<1>2. cur[t] = cur[u]
  BY DEF LifeInv, ThreadPart, HoldInv
<1> QED
  BY <1>1, <1>2, OwnObject

\* A joiner is a thread.
LEMMA JoinerThere ==
    ASSUME LifeInv, NEW u \in Threads, pc[u] \in Joining
    PROVE  arg[u] \in Objects /\ joiner[arg[u]] # None /\ ~detached[arg[u]]
<1>1. Alive(u) /\ pc[u] \in Using
  BY DEF Alive, Joining, Ended, Collecting, Using, PCs
<1>2. cur[u] \in Objects /\ arg[u] \in Objects
  BY <1>1, Usable
<1> QED
  BY <1>2, LifeAssumption DEF LifeInv, ThreadPart, HoldInv

\* A step of t that leaves every object to its owner.
LEMMA Frame ==
    ASSUME LifeInv, TypeOK', NEW t \in Threads, Bystanders(t), UNCHANGED <<owner, cur>>,
           \A u \in Threads \ {t} :
               /\ pc[u] \in RefHeld \cup LockHeld \cup Joining \cup {"start"} => arg[u] \in threads'
               /\ pc[u] = "link" => arg[u] \notin threads'
               /\ pc[u] \in Making => ~dead'[arg[u]]
               /\ pc[u] \in Joining =>
                     joiner'[arg[u]] = joiner[arg[u]] /\ detached'[arg[u]] = detached[arg[u]],
           \A u \in Threads : Alive(u)' => Alive(u) /\ cur[u] \in threads' /\ ~dead'[cur[u]],
           \A o \in Objects : lock'[o] = lock[o] \/ lock[o] \in {None, t},
           \A o \in Objects : owner[o] # t => join_target'[o] = join_target[o],
           \A o \in Objects : owner[o] = t /\ join_target'[o] # None =>
               cur[t] = o /\ pc'[t] \in Targeting /\ arg'[t] = join_target'[o],
           \A o \in Objects : Counted(o)',
           \A o \in Objects : dead'[o] => owner[o] \in Threads /\ pc[owner[o]] # "unborn",
           \A o \in Objects : o \in threads' => owner[o] # None,
           \A o \in Objects : o \in Elements(gc_list') \cup Elements(free_threads') =>
               dead'[o] /\ o \notin threads',
           ListInv',
           pc[t] # "unborn", pc'[t] # "unborn",
           pc'[t] \in Making => pc[t] \in Making /\ arg'[t] = arg[t],
           CallInv(t)', HoldInv(t)', MakeInv(t)'
    PROVE  LifeInv'
<1>1. \A u \in Threads : pc'[u] = "unborn" <=> pc[u] = "unborn"
  BY SamePlace
<1>2. \A u \in Threads : ThreadPart(u)
  BY DEF LifeInv
<1>3. ASSUME NEW u \in Threads, u # t PROVE ThreadPart(u)'
  <2> USE <1>3
  <2>1. /\ arg'[u] = arg[u] /\ known'[u] = known[u] /\ call'[u] = call[u]
        /\ exiting'[u] = exiting[u]
    BY DEF Bystanders
  <2>2. CallInv(u)'
    BY <1>2, <2>1, SamePlace DEF ThreadPart, CallInv
  <2>3. LiveInv(u)'
    BY <1>2 DEF ThreadPart, LiveInv
  <2>4. Stale(u)' <=> Stale(u)
    BY <2>1 DEF Stale
  <2>5. HoldInv(u)'
    <3>1. pc[u] \in LockHeld \cup {"collect_unlock"} => arg[u] \in Objects
      BY <1>2 DEF ThreadPart, CallInv, Using, PCs, LockHeld
    <3>2. u # None
      BY ThreadsAssumption
    <3>3. HoldInv(u)
      BY <1>2 DEF ThreadPart
    <3>4. pc'[u] \in LockHeld => lock'[arg[u]] = u
      BY <3>1, <3>2, <3>3, SamePlace DEF HoldInv
    <3>5. pc'[u] = "collect_unlock" /\ ~Stale(u) => lock'[arg[u]] = u
      BY <3>1, <3>2, <3>3, SamePlace DEF HoldInv
    <3>6. pc'[u] \in Joining => joiner'[arg[u]] = cur[u] /\ ~detached'[arg[u]]
      BY <3>3, SamePlace DEF HoldInv
    <3>7. pc'[u] \in RefHeld \cup LockHeld \cup Joining => arg[u] \in threads' /\ ~Stale(u)
      BY <3>3, SamePlace DEF HoldInv
    <3> QED
      BY <2>1, <2>4, <3>4, <3>5, <3>6, <3>7 DEF HoldInv
  <2>6. MakeInv(u)'
    <3>1. MakeInv(u) /\ CallInv(u)
      BY <1>2 DEF ThreadPart
    <3>2. \A v \in Threads \ {u} : pc'[v] \in Making => pc[v] \in Making /\ arg'[v] = arg[v]
      BY SamePlace DEF Bystanders
    <3>3. pc[u] \in Making => pc[u] \in Using
      BY DEF Making, Using, PCs
    <3>4. pc[u] \in Using => (pc'[known[u]] = "unborn" <=> pc[known[u]] = "unborn")
      BY <1>1, <3>1 DEF CallInv
    <3>5. pc'[u] \in Making =>
            /\ owner[arg[u]] = known[u] /\ pc'[known[u]] = "unborn" /\ ~dead'[arg[u]]
            /\ \A v \in Threads \ {u} : pc'[v] \in Making => arg'[v] # arg[u]
      BY <3>1, <3>2, <3>3, <3>4, SamePlace DEF MakeInv
    <3>6. pc'[u] = "link" => arg[u] \notin threads'
      BY <3>1, SamePlace DEF MakeInv
    <3>7. pc'[u] = "start" => arg[u] \in threads'
      BY <3>1, SamePlace DEF MakeInv
    <3>8. pc'[u] \in Using /\ Stale(u) => pc'[known[u]] # "unborn"
      BY <3>1, <3>4, SamePlace DEF MakeInv
    <3> QED
      BY <2>1, <2>4, <3>5, <3>6, <3>7, <3>8 DEF MakeInv
  <2> QED
    BY <2>2, <2>3, <2>5, <2>6 DEF ThreadPart
<1>4. ThreadPart(t)'
  <2>1. LiveInv(t)'
    BY <1>2 DEF ThreadPart, LiveInv
  <2> QED
    BY <2>1 DEF ThreadPart
<1>5. ASSUME NEW o \in Objects PROVE ObjectPart(o)'
  <2>1. TargetInv(o) /\ OwnInv(o)
    BY DEF LifeInv, ObjectPart
  <2>2. TargetInv(o)'
    <3>1. CASE owner[o] = t
      BY <3>1 DEF TargetInv
    <3>2. CASE owner[o] # t
      <4>1. join_target'[o] = join_target[o]
        BY <3>2
      <4>2. ASSUME join_target[o] # None
            PROVE  /\ owner[o] \in Threads /\ cur[owner[o]] = o
                   /\ pc'[owner[o]] \in Targeting /\ arg'[owner[o]] = join_target[o]
        <5>1. owner[o] \in Threads \ {t} /\ cur[owner[o]] = o
              /\ pc[owner[o]] \in Targeting /\ arg[owner[o]] = join_target[o]
          BY <2>1, <3>2, <4>2 DEF TargetInv
        <5>2. arg'[owner[o]] = arg[owner[o]]
          BY <5>1 DEF Bystanders
        <5>3. pc'[owner[o]] \in Targeting
          BY <5>1, SamePlace
        <5> QED
          BY <5>1, <5>2, <5>3
      <4> QED
        BY <4>1, <4>2 DEF TargetInv
    <3> QED
      BY <3>1, <3>2
  <2>3. OwnInv(o)'
    BY <1>1, <2>1 DEF OwnInv
  <2> QED
    BY <2>2, <2>3 DEF ObjectPart
<1> QED
  BY <1>3, <1>4, <1>5 DEF LifeInv

\* A step of t that only concerns its own call, locks and joins.
LEMMA Quiet ==
    ASSUME LifeInv, TypeOK', NEW t \in Threads, Bystanders(t),
           UNCHANGED <<owner, cur, threads, gc_list, free_threads, dead>>,
           \A o \in Objects : Counted(o)',
           \A o \in Objects : lock'[o] = lock[o] \/ lock[o] \in {None, t},
           \A o \in Objects : owner[o] # t => join_target'[o] = join_target[o],
           \A o \in Objects : owner[o] = t /\ join_target'[o] # None =>
               cur[t] = o /\ pc'[t] \in Targeting /\ arg'[t] = join_target'[o],
           \A u \in Threads \ {t} : pc[u] \in Joining =>
               joiner'[arg[u]] = joiner[arg[u]] /\ detached'[arg[u]] = detached[arg[u]],
           pc[t] \notin Making \cup {"unborn"}, pc'[t] \notin Making \cup {"unborn"},
           Alive(t)' => Alive(t), CallInv(t)', HoldInv(t)',
           pc'[t] \in Using => ~Stale(t)'
    PROVE  LifeInv'
<1>1. \A u \in Threads \ {t} :
         /\ pc[u] \in RefHeld \cup LockHeld \cup Joining \cup {"start"} => arg[u] \in threads'
         /\ pc[u] = "link" => arg[u] \notin threads'
         /\ pc[u] \in Making => ~dead'[arg[u]]
  BY DEF LifeInv, ThreadPart, HoldInv, MakeInv
<1>2. \A u \in Threads : Alive(u)' => Alive(u) /\ cur[u] \in threads' /\ ~dead'[cur[u]]
  <2>1. \A u \in Threads : Alive(u)' => Alive(u)
    BY SamePlace DEF Alive, Bystanders
  <2> QED
    BY <2>1 DEF LifeInv, ThreadPart, LiveInv
<1>3. \A o \in Objects :
         /\ dead'[o] => owner[o] \in Threads /\ pc[owner[o]] # "unborn"
         /\ o \in threads' => owner[o] # None
         /\ o \in Elements(gc_list') \cup Elements(free_threads') => dead'[o] /\ o \notin threads'
  BY DEF LifeInv, ObjectPart, OwnInv
<1>4. ListInv' /\ MakeInv(t)'
  BY DEF LifeInv, ListInv, MakeInv, Making
<1> QED
  BY <1>1, <1>2, <1>3, <1>4, Frame

\* The references are counted as before when t neither takes nor drops one.
LEMMA SameCount ==
    ASSUME LifeInv, NEW t \in Threads, Bystanders(t), UNCHANGED <<threads, dead, refcount>>,
           pc'[t] \in RefHeld <=> pc[t] \in RefHeld,
           pc[t] \in RefHeld => arg'[t] = arg[t]
    PROVE  \A o \in Objects : Counted(o)'
<1> SUFFICES ASSUME NEW o \in Objects PROVE Counted(o)'
  OBVIOUS
<1>1. Refs(o)' = Refs(o)
  <2>1. ASSUME NEW u \in Threads
        PROVE  (pc'[u] \in RefHeld /\ arg'[u] = o) <=> (pc[u] \in RefHeld /\ arg[u] = o)
    <3>1. CASE u = t
      BY <3>1
    <3>2. CASE u # t
      BY <3>2, SamePlace DEF Bystanders
    <3> QED
      BY <3>1, <3>2
  <2> QED
    BY <2>1 DEF Refs
<1> QED
  BY <1>1 DEF LifeInv, ObjectPart, Counted

\* The commonest case: t goes on, and at most a lock changes.
LEMMA QuietCall ==
    ASSUME LifeInv, TypeOK', NEW t \in Threads, Bystanders(t),
           UNCHANGED <<owner, cur, threads, gc_list, free_threads, dead, refcount, joiner,
                       join_target, detached>>,
           pc'[t] \in RefHeld <=> pc[t] \in RefHeld,
           pc[t] \in RefHeld \cup Targeting => arg'[t] = arg[t],
           pc[t] \in Targeting => pc'[t] \in Targeting,
           \A o \in Objects : lock'[o] = lock[o] \/ lock[o] \in {None, t},
           pc[t] \notin Making \cup {"unborn"}, pc'[t] \notin Making \cup {"unborn"},
           Alive(t)' => Alive(t), CallInv(t)', HoldInv(t)',
           pc'[t] \in Using => ~Stale(t)'
    PROVE  LifeInv'
<1>1. \A o \in Objects : Counted(o)'
  BY SameCount
<1>2. \A o \in Objects : owner[o] = t /\ join_target'[o] # None =>
               cur[t] = o /\ pc'[t] \in Targeting /\ arg'[t] = join_target'[o]
  BY DEF LifeInv, ObjectPart, TargetInv
<1> QED
  BY <1>1, <1>2, Quiet

\* Where a thread goes on to, and what it takes along.
LEMMA GotoShape ==
    ASSUME LifeInv, NEW t \in Threads, NEW place, Goto(t, place),
           exiting' = exiting \/ exiting' = [exiting EXCEPT ![t] = TRUE]
    PROVE  /\ Bystanders(t) /\ pc'[t] = place
           /\ place # "run" => arg'[t] = arg[t] /\ known'[t] = known[t] /\ call'[t] = call[t]
<1>1. /\ call \in [Threads -> Calls \cup {None}] /\ arg \in [Threads -> Pointer]
      /\ known \in [Threads -> Threads \cup {None}] /\ pc \in [Threads -> PCs]
      /\ exiting \in [Threads -> BOOLEAN]
  BY DEF LifeInv, TypeOK
<1>2. pc'[t] = place /\ \A u \in Threads \ {t} : pc'[u] = pc[u] /\ exiting'[u] = exiting[u]
  BY <1>1 DEF Goto, Move
<1>3. CASE place = "run"
  BY <1>1, <1>2, <1>3 DEF Goto, Bystanders
<1>4. CASE place # "run"
  BY <1>1, <1>2, <1>4 DEF Goto, callVars, Bystanders
<1> QED
  BY <1>3, <1>4

\* The same for a notify_all.
LEMMA WakeShape ==
    ASSUME LifeInv, NEW t \in Threads, NEW o, NEW place, Wake(o, t, place), UNCHANGED exiting,
           \A u \in Threads \ {t} : call'[u] = call[u] /\ arg'[u] = arg[u] /\ known'[u] = known[u]
    PROVE  Bystanders(t) /\ pc'[t] = place
  BY DEF Wake, Bystanders

\* A place where nothing is held.
Free(place) ==
    /\ place \notin RefHeld \cup LockHeld \cup Joining \cup Making
    /\ place \notin {"unborn", "find", "collect_unlock"}

\* Going where nothing is held.
LEMMA QuietReturn ==
    ASSUME LifeInv, TypeOK', NEW t \in Threads, Bystanders(t),
           UNCHANGED <<owner, cur, threads, gc_list, free_threads, dead, refcount, joiner,
                       join_target, detached>>,
           pc[t] \notin RefHeld \cup Targeting \cup Making \cup {"unborn"}, Free(pc'[t]),
           \A o \in Objects : lock'[o] = lock[o] \/ lock[o] \in {None, t},
           Alive(t)' => Alive(t),
           pc'[t] \in Using => /\ pc[t] \in Using /\ ~Stale(t)
                               /\ arg'[t] = arg[t] /\ known'[t] = known[t]
    PROVE  LifeInv'
<1>1. CallInv(t)'
  BY Usable DEF CallInv, Free
<1>2. HoldInv(t)'
  BY DEF HoldInv, Free
<1>3. pc'[t] \in Using => ~Stale(t)'
  BY DEF Stale
<1>4. pc'[t] \notin RefHeld /\ pc'[t] \notin Making \cup {"unborn"}
  BY DEF Free
<1> QED
  BY <1>1, <1>2, <1>3, <1>4, QuietCall

\* Going on inside a join.
LEMMA QuietJoin ==
    ASSUME LifeInv, TypeOK', NEW t \in Threads, Bystanders(t), ~Stale(t),
           UNCHANGED <<owner, cur, threads, gc_list, free_threads, dead, refcount, joiner,
                       join_target, detached, lock>>,
           pc[t] \in Targeting, pc'[t] \in Targeting, arg'[t] = arg[t], known'[t] = known[t]
    PROVE  LifeInv'
<1>1. /\ pc[t] \in Joining /\ pc'[t] \in Joining /\ pc[t] \in Using
      /\ pc[t] \notin RefHeld \cup LockHeld \cup Making \cup {"unborn", "find", "collect_unlock"}
      /\ pc'[t] \notin RefHeld \cup LockHeld \cup Making \cup {"unborn", "find", "collect_unlock"}
      /\ Alive(t)
  BY DEF Targeting, Joining, Using, PCs, RefHeld, LockHeld, Making, Alive, Ended, Collecting
<1>2. CallInv(t)'
  BY <1>1, Usable DEF CallInv
<1>3. ~Stale(t)'
  BY DEF Stale
<1>4. HoldInv(t)'
  BY <1>1, <1>3 DEF LifeInv, ThreadPart, HoldInv
<1> QED
  BY <1>1, <1>2, <1>3, <1>4, QuietCall

\* The lock of an object that t has or nobody has.
LEMMA LockShape ==
    ASSUME LifeInv, NEW t \in Threads, NEW o \in Objects, NEW v,
           lock[o] \in {None, t}, lock' = [lock EXCEPT ![o] = v]
    PROVE  /\ \A x \in Objects : lock'[x] = lock[x] \/ lock[x] \in {None, t}
           /\ lock'[o] = v
  BY DEF LifeInv, TypeOK

\* What a thread with the lock of arg knows.
LEMMA HasLock ==
    ASSUME LifeInv, NEW t \in Threads, pc[t] \in LockHeld
    PROVE  /\ arg[t] \in Objects /\ arg[t] \in threads /\ lock[arg[t]] = t
           /\ ~Stale(t) /\ pc[t] \in Using
<1>1. pc[t] \in Using
  BY DEF LockHeld, Using, PCs
<1> QED
  BY <1>1, Usable DEF LifeInv, ThreadPart, HoldInv

\* pthread_create without memory.
LEMMA AllocFailsKeeps ==
    ASSUME LifeInv, TypeOK', NEW t \in Threads, Sound(t), AllocFails(t)
    PROVE  LifeInv'
<1>1. /\ UNCHANGED <<owner, cur, threads, gc_list, free_threads, dead, refcount, joiner,
                     join_target, detached, lock>>
      /\ Goto(t, "run") /\ pc[t] = "alloc"
      /\ UNCHANGED exiting
  BY DEF AllocFails, listVars, lockVars, objectVars, callVars
<1>2. Bystanders(t) /\ pc'[t] = "run"
  BY <1>1, GotoShape
<1>3. /\ "run" # "run" => arg'[t] = arg[t] /\ known'[t] = known[t]
      /\ pc[t] \in Using => ~Stale(t)
  BY <1>1, GotoShape DEF Sound
<1> QED
  BY <1>1, <1>2, <1>3, QuietReturn
  DEF RefHeld, LockHeld, Joining, Targeting, Making, Using, PCs, Alive, Ended, Collecting, Free

\* The end of pthread_create.
LEMMA SetAffinityKeeps ==
    ASSUME LifeInv, TypeOK', NEW t \in Threads, Sound(t), SetAffinity(t)
    PROVE  LifeInv'
<1>1. /\ UNCHANGED <<owner, cur, threads, gc_list, free_threads, dead, refcount, joiner,
                     join_target, detached, lock>>
      /\ Goto(t, "run") /\ pc[t] = "affinity"
      /\ UNCHANGED exiting
  BY DEF SetAffinity, listVars, lockVars, objectVars, callVars
<1>2. Bystanders(t) /\ pc'[t] = "run"
  BY <1>1, GotoShape
<1>3. /\ "run" # "run" => arg'[t] = arg[t] /\ known'[t] = known[t]
      /\ pc[t] \in Using => ~Stale(t)
  BY <1>1, GotoShape DEF Sound
<1> QED
  BY <1>1, <1>2, <1>3, QuietReturn
  DEF RefHeld, LockHeld, Joining, Targeting, Making, Using, PCs, Alive, Ended, Collecting, Free

\* The end of a thread.
LEMMA ExitNativeKeeps ==
    ASSUME LifeInv, TypeOK', NEW t \in Threads, Sound(t), ExitNative(t)
    PROVE  LifeInv'
<1>1. /\ UNCHANGED <<owner, cur, threads, gc_list, free_threads, dead, refcount, joiner,
                     join_target, detached, lock>>
      /\ Goto(t, "gone") /\ pc[t] = "exit_native"
      /\ UNCHANGED exiting
  BY DEF ExitNative, listVars, lockVars, objectVars, callVars
<1>2. Bystanders(t) /\ pc'[t] = "gone"
  BY <1>1, GotoShape
<1>3. /\ "gone" # "run" => arg'[t] = arg[t] /\ known'[t] = known[t]
      /\ pc[t] \in Using => ~Stale(t)
  BY <1>1, GotoShape DEF Sound
<1> QED
  BY <1>1, <1>2, <1>3, QuietReturn
  DEF RefHeld, LockHeld, Joining, Targeting, Making, Using, PCs, Alive, Ended, Collecting, Free

\* The identifier of a thread that ends.
LEMMA ExitStoreKeeps ==
    ASSUME LifeInv, TypeOK', NEW t \in Threads, Sound(t), ExitStore(t)
    PROVE  LifeInv'
<1>1. /\ UNCHANGED <<owner, cur, threads, gc_list, free_threads, dead, refcount, joiner,
                     join_target, detached, lock>>
      /\ Goto(t, "exit_notify") /\ pc[t] = "exit_store"
      /\ UNCHANGED exiting
  BY DEF ExitStore, listVars, lockVars, objectVars, callVars
<1>2. Bystanders(t) /\ pc'[t] = "exit_notify"
  BY <1>1, GotoShape
<1>3. /\ "exit_notify" # "run" => arg'[t] = arg[t] /\ known'[t] = known[t]
      /\ pc[t] \in Using => ~Stale(t)
  BY <1>1, GotoShape DEF Sound
<1> QED
  BY <1>1, <1>2, <1>3, QuietReturn
  DEF RefHeld, LockHeld, Joining, Targeting, Making, Using, PCs, Alive, Ended, Collecting, Free

\* A thread begins to exit.
LEMMA ExitKeeps ==
    ASSUME LifeInv, TypeOK', NEW t \in Threads, Sound(t), Exit(t)
    PROVE  LifeInv'
<1>1. /\ UNCHANGED <<owner, cur, threads, gc_list, free_threads, dead, refcount, joiner,
                     join_target, detached, lock>>
      /\ Goto(t, "exit") /\ pc[t] = "run"
      /\ exiting' = [exiting EXCEPT ![t] = TRUE]
  BY DEF Exit, listVars, lockVars, objectVars, callVars
<1>2. Bystanders(t) /\ pc'[t] = "exit"
  BY <1>1, GotoShape
<1>3. /\ "exit" # "run" => arg'[t] = arg[t] /\ known'[t] = known[t]
      /\ pc[t] \in Using => ~Stale(t)
  BY <1>1, GotoShape DEF Sound
<1> QED
  BY <1>1, <1>2, <1>3, QuietReturn
  DEF RefHeld, LockHeld, Joining, Targeting, Making, Using, PCs, Alive, Ended, Collecting, Free

\* The wake-ups of a thread that ends.
LEMMA ExitNotifyKeeps ==
    ASSUME LifeInv, TypeOK', NEW t \in Threads, Sound(t), ExitNotify(t)
    PROVE  LifeInv'
<1>1. /\ UNCHANGED <<owner, cur, threads, gc_list, free_threads, dead, refcount, joiner,
                     join_target, detached, lock, arg, known,
                     call, exiting>>
      /\ Wake(arg[t], t, "exit_native") /\ pc[t] = "exit_notify"
  BY DEF ExitNotify, listVars, lockVars, objectVars, callVars
<1>2. Bystanders(t) /\ pc'[t] = "exit_native"
  BY <1>1, WakeShape
<1>3. ~Stale(t)
  BY <1>1 DEF Sound, Using, PCs
<1> QED
  BY <1>1, <1>2, <1>3, QuietReturn
  DEF RefHeld, LockHeld, Joining, Targeting, Making, Using, PCs, Alive, Ended, Collecting, Free

\* The wake-up of a cancelled thread that is joining.
LEMMA CancelNotifyKeeps ==
    ASSUME LifeInv, TypeOK', NEW t \in Threads, Sound(t), CancelNotify(t)
    PROVE  LifeInv'
<1>1. /\ UNCHANGED <<owner, cur, threads, gc_list, free_threads, dead, refcount, joiner,
                     join_target, detached, exiting>>
      /\ Wake(join_target[arg[t]], t, "run") /\ pc[t] = "cancel_notify"
      /\ lock' = [lock EXCEPT ![arg[t]] = None]
  BY DEF CancelNotify, Unlock, listVars, lockVars, objectVars, callVars
<1>2. \A u \in Threads \ {t} : call'[u] = call[u] /\ arg'[u] = arg[u] /\ known'[u] = known[u]
  BY DEF CancelNotify, Set, LifeInv, TypeOK
<1>3. Bystanders(t) /\ pc'[t] = "run"
  BY <1>1, <1>2, WakeShape
<1>4. arg[t] \in Objects /\ lock[arg[t]] = t
  BY <1>1, HasLock DEF LockHeld
<1>5. \A x \in Objects : lock'[x] = lock[x] \/ lock[x] \in {None, t}
  BY <1>1, <1>4, LockShape
<1> QED
  BY <1>1, <1>3, <1>5, QuietReturn
  DEF RefHeld, LockHeld, Joining, Targeting, Making, Using, PCs, Alive, Ended, Collecting, Free

\* The collector's lock is released.
LEMMA CollectUnlockKeeps ==
    ASSUME LifeInv, TypeOK', NEW t \in Threads, Sound(t), CollectUnlock(t)
    PROVE  LifeInv'
<1>1. /\ UNCHANGED <<owner, cur, threads, gc_list, free_threads, dead, refcount, joiner,
                     join_target, detached, exiting>>
      /\ Goto(t, IF exiting[t] THEN "exit_store" ELSE "run") /\ pc[t] = "collect_unlock"
      /\ lock' = [lock EXCEPT ![arg[t]] = None]
  BY DEF CollectUnlock, Leave, Unlock, listVars, lockVars, objectVars, callVars
<1>2. /\ Bystanders(t) /\ pc'[t] = IF exiting[t] THEN "exit_store" ELSE "run"
      /\ pc'[t] # "run" => arg'[t] = arg[t] /\ known'[t] = known[t]
  BY <1>1, GotoShape
<1>3. ~Stale(t) /\ arg[t] \in Objects
  BY <1>1, Usable DEF Sound, Using, PCs
<1>4. lock[arg[t]] = t
  BY <1>1, <1>3 DEF LifeInv, ThreadPart, HoldInv
<1>5. \A x \in Objects : lock'[x] = lock[x] \/ lock[x] \in {None, t}
  BY <1>1, <1>3, <1>4, LockShape
<1>6. Alive(t)' => Alive(t)
  BY <1>1, <1>2 DEF Alive, Ended, Collecting
<1> QED
  BY <1>1, <1>2, <1>3, <1>5, <1>6, QuietReturn
  DEF RefHeld, LockHeld, Joining, Targeting, Making, Using, PCs, Alive, Ended, Collecting, Free

\* posix_pthread_cancel: the mark.
LEMMA CancelKeeps ==
    ASSUME LifeInv, TypeOK', NEW t \in Threads, Sound(t), Cancel(t)
    PROVE  LifeInv'
<1>1. /\ UNCHANGED <<owner, cur, threads, gc_list, free_threads, dead, refcount, joiner,
                     join_target, detached, exiting>>
      /\ pc[t] = "cancel"
      /\ \/ Goto(t, "run") /\ lock' = [lock EXCEPT ![arg[t]] = None]
         \/ Goto(t, "cancel_notify") /\ UNCHANGED lock
  BY DEF Cancel, Unlock, listVars, lockVars, objectVars, callVars
<1>2. arg[t] \in Objects /\ arg[t] \in threads /\ lock[arg[t]] = t /\ ~Stale(t)
  BY <1>1, HasLock DEF LockHeld
<1>3. CASE Goto(t, "run") /\ lock' = [lock EXCEPT ![arg[t]] = None]
  <2>1. Bystanders(t) /\ pc'[t] = "run"
    BY <1>1, <1>3, GotoShape
  <2>2. \A x \in Objects : lock'[x] = lock[x] \/ lock[x] \in {None, t}
    BY <1>2, <1>3, LockShape
  <2> QED
    BY <1>1, <2>1, <2>2, QuietReturn
    DEF RefHeld, LockHeld, Joining, Targeting, Making, Using, PCs, Alive, Ended, Collecting,
       Free
<1>4. CASE Goto(t, "cancel_notify") /\ UNCHANGED lock
  <2>1. /\ Bystanders(t) /\ pc'[t] = "cancel_notify"
        /\ arg'[t] = arg[t] /\ known'[t] = known[t]
    BY <1>1, <1>4, GotoShape
  <2>2. CallInv(t)' /\ HoldInv(t)' /\ ~Stale(t)'
    BY <1>1, <1>2, <1>4, <2>1, Usable DEF CallInv, HoldInv, Stale, LockHeld, RefHeld,
       Joining, Using, PCs
  <2> QED
    BY <1>1, <1>4, <2>1, <2>2, QuietCall
    DEF RefHeld, LockHeld, Joining, Targeting, Making, Using, PCs, Alive, Ended, Collecting,
       Free
<1> QED
  BY <1>1, <1>3, <1>4

\* pthread_getname_np uses its reference.
LEMMA RefUseKeeps ==
    ASSUME LifeInv, TypeOK', NEW t \in Threads, Sound(t), RefUse(t)
    PROVE  LifeInv'
<1>1. /\ UNCHANGED <<owner, cur, threads, gc_list, free_threads, dead, refcount, joiner,
                     join_target, detached, exiting, lock>>
      /\ pc[t] = "ref_use" /\ Goto(t, "ref_delete")
  BY DEF RefUse, listVars, lockVars, objectVars, callVars
<1>2. /\ Bystanders(t) /\ pc'[t] = "ref_delete"
      /\ arg'[t] = arg[t] /\ known'[t] = known[t]
  BY <1>1, GotoShape
<1>3. arg[t] \in Objects /\ known[t] \in Threads /\ arg[t] \in threads /\ ~Stale(t)
  BY <1>1, Usable DEF LifeInv, ThreadPart, HoldInv, RefHeld, Using, PCs
<1>4. CallInv(t)' /\ HoldInv(t)' /\ ~Stale(t)'
  BY <1>1, <1>2, <1>3 DEF CallInv, HoldInv, Stale, LockHeld, RefHeld, Joining
<1> QED
  BY <1>1, <1>2, <1>4, QuietCall
  DEF RefHeld, LockHeld, Joining, Targeting, Making, Using, PCs, Alive, Ended, Collecting, Free

\* The guest names a thread.
LEMMA CallKeeps ==
    ASSUME LifeInv, TypeOK', NEW t \in Threads, Call(t)
    PROVE  LifeInv'
<1>1. /\ UNCHANGED <<owner, cur, threads, gc_list, free_threads, dead, refcount, joiner,
                     join_target, detached, exiting, lock,
                     known>>
      /\ pc[t] = "run" /\ pc' = [pc EXCEPT ![t] = "find"]
  BY DEF Call, Move, listVars, lockVars, objectVars, callVars
<1>2. PICK c \in Program[t] \ {"create", "exit"}, o \in Elements(cur) :
        /\ o # None
        /\ call' = [call EXCEPT ![t] = c] /\ arg' = [arg EXCEPT ![t] = o]
  BY DEF Call
<1>3. Bystanders(t) /\ pc'[t] = "find" /\ arg'[t] = o /\ call'[t] = c
  BY <1>1, <1>2 DEF Bystanders, LifeInv, TypeOK
<1>4. o \in Objects /\ c \in Asking
  <2>1. cur \in [Threads -> Pointer] /\ Program[t] \subseteq Calls
    BY LifeAssumption DEF LifeInv, TypeOK
  <2>2. o \in Pointer
    BY <2>1 DEF Elements
  <2> QED
    BY <1>2, <2>1, <2>2 DEF Pointer, Calls, Asking
<1>5. CallInv(t)' /\ HoldInv(t)'
  BY <1>3, <1>4 DEF CallInv, HoldInv, RefHeld, LockHeld, Joining, Targeting, Making, Using,
     PCs, Alive, Ended, Collecting, Free
<1> QED
  BY <1>1, <1>3, <1>5, QuietCall
  DEF RefHeld, LockHeld, Joining, Targeting, Making, Using, PCs, Alive, Ended, Collecting, Free

\* The cancellation point before the wait.
LEMMA JoinTestKeeps ==
    ASSUME LifeInv, TypeOK', NEW t \in Threads, Sound(t), JoinTest(t)
    PROVE  LifeInv'
<1>1. /\ UNCHANGED <<owner, cur, threads, gc_list, free_threads, dead, refcount, joiner,
                     join_target, detached, lock>>
      /\ pc[t] \in Targeting /\ pc[t] \in Using
      /\ \E place \in Targeting : place # "run" /\ Goto(t, place)
      /\ exiting' = exiting \/ exiting' = [exiting EXCEPT ![t] = TRUE]
  BY DEF JoinTest, BackOut, listVars, lockVars, objectVars, callVars, Targeting, Joining,
     Using, PCs
<1>2. /\ Bystanders(t) /\ pc'[t] \in Targeting
      /\ arg'[t] = arg[t] /\ known'[t] = known[t]
  BY <1>1, GotoShape
<1>3. ~Stale(t)
  BY <1>1 DEF Sound
<1> QED
  BY <1>1, <1>2, <1>3, QuietJoin

\* join_wait_mutex.
LEMMA JoinLockKeeps ==
    ASSUME LifeInv, TypeOK', NEW t \in Threads, Sound(t), JoinLock(t)
    PROVE  LifeInv'
<1>1. /\ UNCHANGED <<owner, cur, threads, gc_list, free_threads, dead, refcount, joiner,
                     join_target, detached, lock>>
      /\ pc[t] \in Targeting /\ pc[t] \in Using
      /\ \E place \in Targeting : place # "run" /\ Goto(t, place)
      /\ exiting' = exiting \/ exiting' = [exiting EXCEPT ![t] = TRUE]
  BY DEF JoinLock, listVars, lockVars, objectVars, callVars, Targeting, Joining, Using, PCs
<1>2. /\ Bystanders(t) /\ pc'[t] \in Targeting
      /\ arg'[t] = arg[t] /\ known'[t] = known[t]
  BY <1>1, GotoShape
<1>3. ~Stale(t)
  BY <1>1 DEF Sound
<1> QED
  BY <1>1, <1>2, <1>3, QuietJoin

\* The predicate of the wait.
LEMMA JoinCheckKeeps ==
    ASSUME LifeInv, TypeOK', NEW t \in Threads, Sound(t), JoinCheck(t)
    PROVE  LifeInv'
<1>1. /\ UNCHANGED <<owner, cur, threads, gc_list, free_threads, dead, refcount, joiner,
                     join_target, detached, lock>>
      /\ pc[t] \in Targeting /\ pc[t] \in Using
      /\ \E place \in Targeting : place # "run" /\ Goto(t, place)
      /\ exiting' = exiting \/ exiting' = [exiting EXCEPT ![t] = TRUE]
  BY DEF JoinCheck, BackOut, listVars, lockVars, objectVars, callVars, Targeting, Joining,
     Using, PCs
<1>2. /\ Bystanders(t) /\ pc'[t] \in Targeting
      /\ arg'[t] = arg[t] /\ known'[t] = known[t]
  BY <1>1, GotoShape
<1>3. ~Stale(t)
  BY <1>1 DEF Sound
<1> QED
  BY <1>1, <1>2, <1>3, QuietJoin

\* The wait.
LEMMA JoinBlockKeeps ==
    ASSUME LifeInv, TypeOK', NEW t \in Threads, Sound(t), JoinBlock(t)
    PROVE  LifeInv'
<1>1. /\ UNCHANGED <<owner, cur, threads, gc_list, free_threads, dead, refcount, joiner,
                     join_target, detached, lock>>
      /\ pc[t] \in Targeting /\ pc[t] \in Using
      /\ \E place \in Targeting : place # "run" /\ Goto(t, place)
      /\ exiting' = exiting \/ exiting' = [exiting EXCEPT ![t] = TRUE]
  BY DEF JoinBlock, listVars, lockVars, objectVars, callVars, Targeting, Joining, Using, PCs
<1>2. /\ Bystanders(t) /\ pc'[t] \in Targeting
      /\ arg'[t] = arg[t] /\ known'[t] = known[t]
  BY <1>1, GotoShape
<1>3. ~Stale(t)
  BY <1>1 DEF Sound
<1> QED
  BY <1>1, <1>2, <1>3, QuietJoin

\* The wait times out.
LEMMA JoinTimeoutKeeps ==
    ASSUME LifeInv, TypeOK', NEW t \in Threads, Sound(t), JoinTimeout(t)
    PROVE  LifeInv'
<1>1. /\ UNCHANGED <<owner, cur, threads, gc_list, free_threads, dead, refcount, joiner,
                     join_target, detached, lock>>
      /\ pc[t] \in Targeting /\ pc[t] \in Using
      /\ \E place \in Targeting : place # "run" /\ Goto(t, place)
      /\ exiting' = exiting \/ exiting' = [exiting EXCEPT ![t] = TRUE]
  BY DEF JoinTimeout, listVars, lockVars, objectVars, callVars, Targeting, Joining, Using, PCs
<1>2. /\ Bystanders(t) /\ pc'[t] \in Targeting
      /\ arg'[t] = arg[t] /\ known'[t] = known[t]
  BY <1>1, GotoShape
<1>3. ~Stale(t)
  BY <1>1 DEF Sound
<1> QED
  BY <1>1, <1>2, <1>3, QuietJoin

\* JoinThread: the joiner is entered, or the join is refused.
LEMMA JoinStartKeeps ==
    ASSUME LifeInv, TypeOK', NEW t \in Threads, Sound(t), JoinStart(t)
    PROVE  LifeInv'
<1> DEFINE o == arg[t]
<1>1. /\ UNCHANGED <<owner, cur, threads, gc_list, free_threads, dead, refcount, detached,
                     exiting>>
      /\ pc[t] = "join" /\ lock' = [lock EXCEPT ![o] = None]
      /\ \/ Goto(t, "run") /\ UNCHANGED <<joiner, join_target>>
         \/ /\ ~detached[o] /\ joiner[o] = None
            /\ joiner' = [joiner EXCEPT ![o] = cur[t]]
            /\ join_target' = [join_target EXCEPT ![cur[t]] = o]
            /\ Goto(t, "test")
  BY DEF JoinStart, HasJoiner, Unlock, Set, listVars
<1>2. o \in Objects /\ o \in threads /\ lock[o] = t /\ ~Stale(t) /\ known[t] \in Threads
  BY <1>1, HasLock, Usable DEF LockHeld
<1>3. \A x \in Objects : lock'[x] = lock[x] \/ lock[x] \in {None, t}
  BY <1>1, <1>2, LockShape
<1>4. Alive(t)
  BY <1>1 DEF Alive, Ended, Collecting
<1>5. cur[t] \in Objects /\ owner[cur[t]] = t
  BY <1>4, Usable DEF LifeInv, ThreadPart, LiveInv
<1>6. CASE Goto(t, "run") /\ UNCHANGED <<joiner, join_target>>
  <2>1. Bystanders(t) /\ pc'[t] = "run"
    BY <1>1, <1>6, GotoShape
  <2> QED
    BY <1>1, <1>3, <1>4, <1>6, <2>1, QuietReturn
    DEF RefHeld, LockHeld, Joining, Targeting, Making, Using, Free
<1>7. CASE /\ ~detached[o] /\ joiner[o] = None
           /\ joiner' = [joiner EXCEPT ![o] = cur[t]]
           /\ join_target' = [join_target EXCEPT ![cur[t]] = o]
           /\ Goto(t, "test")
  <2>1. Bystanders(t) /\ pc'[t] = "test" /\ arg'[t] = o /\ known'[t] = known[t]
    BY <1>1, <1>7, GotoShape
  <2>2. joiner \in [Objects -> Pointer] /\ join_target \in [Objects -> Pointer]
    BY DEF LifeInv, TypeOK
  <2>3. joiner'[o] = cur[t] /\ join_target'[cur[t]] = o
    BY <1>2, <1>5, <1>7, <2>2
  <2>4. \A u \in Threads \ {t} : pc[u] \in Joining =>
           joiner'[arg[u]] = joiner[arg[u]] /\ detached'[arg[u]] = detached[arg[u]]
    BY <1>1, <1>7, <2>2, JoinerThere
  <2>5. \A x \in Objects : x # cur[t] => join_target'[x] = join_target[x]
    BY <1>7, <2>2
  <2>6. \A x \in Objects : owner[x] # t => join_target'[x] = join_target[x]
    BY <1>5, <2>5
  <2>7. ASSUME NEW x \in Objects, owner[x] = t, join_target'[x] # None
        PROVE  cur[t] = x /\ pc'[t] \in Targeting /\ arg'[t] = join_target'[x]
    <3>1. x = cur[t]
      BY <1>5, <2>7, LifeAssumption, ThreadsAssumption DEF LifeInv, ObjectPart, OwnInv
    <3> QED
      BY <2>1, <2>3, <3>1 DEF Targeting, Joining
  <2>8. CallInv(t)' /\ HoldInv(t)' /\ ~Stale(t)'
    BY <1>1, <1>2, <1>7, <2>1, <2>3
    DEF CallInv, HoldInv, Stale, RefHeld, LockHeld, Joining
  <2>9. \A x \in Objects : Counted(x)'
    BY <1>1, <2>1, SameCount DEF RefHeld
  <2> HIDE DEF o
  <2> QED
    BY <1>1, <1>3, <1>4, <2>1, <2>4, <2>6, <2>7, <2>8, <2>9, Quiet DEF Making
<1> QED
  BY <1>1, <1>6, <1>7

\* The joiner's own half of the join ends, by success or by backing out.
LEMMA OwnHalfKeeps ==
    ASSUME LifeInv, TypeOK', NEW t \in Threads, Sound(t), BackoutSelf(t) \/ JoinDone(t)
    PROVE  LifeInv'
<1>1. /\ UNCHANGED <<owner, cur, threads, gc_list, free_threads, dead, refcount, detached,
                     exiting, lock, joiner>>
      /\ pc[t] \in {"back_self", "join_done"}
      /\ join_target' = [join_target EXCEPT ![cur[t]] = None]
      /\ \E place \in {"back_target", "reap"} : Goto(t, place)
  BY DEF BackoutSelf, JoinDone, Set, listVars, lockVars
<1>2. /\ Bystanders(t) /\ pc'[t] \in {"back_target", "reap"}
      /\ arg'[t] = arg[t] /\ known'[t] = known[t]
  BY <1>1, GotoShape
<1>3. Alive(t) /\ pc[t] \in Using /\ pc[t] \in Joining
  BY <1>1 DEF Alive, Ended, Collecting, Using, PCs, Joining
<1>4. cur[t] \in Objects /\ owner[cur[t]] = t /\ arg[t] \in Objects /\ known[t] \in Threads
  BY <1>3, Usable DEF LifeInv, ThreadPart, LiveInv
<1>5. /\ join_target'[cur[t]] = None
      /\ \A x \in Objects : x # cur[t] => join_target'[x] = join_target[x]
  BY <1>1, <1>4 DEF LifeInv, TypeOK
<1>6. \A x \in Objects : owner[x] # t => join_target'[x] = join_target[x]
  BY <1>4, <1>5
<1>7. \A x \in Objects : owner[x] = t => join_target'[x] = None
  BY <1>4, <1>5, ThreadsAssumption DEF LifeInv, ObjectPart, OwnInv
<1>8. HoldInv(t)' /\ CallInv(t)' /\ ~Stale(t)'
  <2>1. HoldInv(t)
    BY DEF LifeInv, ThreadPart
  <2> QED
    BY <1>1, <1>2, <1>3, <1>4, <2>1 DEF CallInv, HoldInv, Stale, RefHeld, LockHeld, Joining
<1>9. \A x \in Objects : Counted(x)'
  BY <1>1, <1>2, SameCount DEF RefHeld
<1>10. /\ \A x \in Objects : lock'[x] = lock[x]
       /\ \A u \in Threads \ {t} : pc[u] \in Joining =>
             joiner'[arg[u]] = joiner[arg[u]] /\ detached'[arg[u]] = detached[arg[u]]
  BY <1>1
<1>11. pc[t] \notin Making \cup {"unborn"} /\ pc'[t] \notin Making \cup {"unborn"}
  BY <1>1, <1>2 DEF Making
<1> QED
  BY <1>1, <1>2, <1>3, <1>6, <1>7, <1>8, <1>9, <1>10, <1>11, Quiet

\* Outside the wait nobody is the join_target of t's object.
LEMMA NoTarget ==
    ASSUME LifeInv, NEW t \in Threads, pc[t] \notin Targeting, UNCHANGED join_target
    PROVE  \A x \in Objects : owner[x] = t => join_target'[x] = None
  BY DEF LifeInv, ObjectPart, TargetInv

\* backout_join: the joiner is taken out of the target.
LEMMA BackoutTargetKeeps ==
    ASSUME LifeInv, TypeOK', NEW t \in Threads, Sound(t), BackoutTarget(t)
    PROVE  LifeInv'
<1> DEFINE place == IF exiting[t] THEN "exit" ELSE "run"
<1>1. /\ UNCHANGED <<owner, cur, threads, gc_list, free_threads, dead, refcount, detached,
                     exiting, lock, join_target>>
      /\ pc[t] = "back_target"
      /\ joiner' = [joiner EXCEPT ![arg[t]] = None]
      /\ Goto(t, place)
  BY DEF BackoutTarget, Set, listVars, lockVars
<1>2. Bystanders(t) /\ pc'[t] \in {"exit", "run"}
  BY <1>1, GotoShape
<1>3. Alive(t) /\ pc[t] \in Joining /\ pc[t] \in Using
  BY <1>1 DEF Alive, Ended, Collecting, Joining, Using, PCs
<1>4. \A u \in Threads \ {t} : pc[u] \in Joining =>
         joiner'[arg[u]] = joiner[arg[u]] /\ detached'[arg[u]] = detached[arg[u]]
  <2> SUFFICES ASSUME NEW u \in Threads \ {t}, pc[u] \in Joining
               PROVE  joiner'[arg[u]] = joiner[arg[u]]
    BY <1>1
  <2>1. arg[u] # arg[t] /\ arg[u] \in Objects
    BY <1>3, OneJoiner, JoinerThere
  <2> QED
    BY <1>1, <2>1 DEF LifeInv, TypeOK
<1>5. \A x \in Objects : owner[x] = t => join_target'[x] = None
  BY <1>1, NoTarget DEF Targeting
<1>6. CallInv(t)' /\ HoldInv(t)'
  BY <1>2 DEF CallInv, HoldInv, RefHeld, LockHeld, Joining, Using
<1>7. \A x \in Objects : Counted(x)'
  BY <1>1, <1>2, SameCount DEF RefHeld
<1>8. /\ pc[t] \notin Making \cup {"unborn"} /\ pc'[t] \notin Making \cup {"unborn"}
      /\ pc'[t] \notin Using
  BY <1>1, <1>2 DEF Making, Using
<1> QED
  BY <1>1, <1>2, <1>3, <1>4, <1>5, <1>6, <1>7, <1>8, Quiet

\* A successful join detaches the thread and goes on to collect it.
LEMMA ReapKeeps ==
    ASSUME LifeInv, TypeOK', NEW t \in Threads, Sound(t), Reap(t)
    PROVE  LifeInv'
<1>1. /\ UNCHANGED <<owner, cur, threads, gc_list, free_threads, dead, refcount,
                     exiting, join_target>>
      /\ pc[t] = "reap"
      /\ joiner' = [joiner EXCEPT ![arg[t]] = None]
      /\ detached' = [detached EXCEPT ![arg[t]] = TRUE]
      /\ lock[arg[t]] = None /\ lock' = [lock EXCEPT ![arg[t]] = t]
      /\ Goto(t, "collect")
  BY DEF Reap, Set, Lock, listVars
<1>2. Bystanders(t) /\ pc'[t] = "collect" /\ arg'[t] = arg[t] /\ known'[t] = known[t]
  BY <1>1, GotoShape
<1>3. Alive(t) /\ pc[t] \in Joining /\ pc[t] \in Using
  BY <1>1 DEF Alive, Ended, Collecting, Joining, Using, PCs
<1>4. \A u \in Threads \ {t} : pc[u] \in Joining =>
         joiner'[arg[u]] = joiner[arg[u]] /\ detached'[arg[u]] = detached[arg[u]]
  <2> SUFFICES ASSUME NEW u \in Threads \ {t}, pc[u] \in Joining
               PROVE  joiner'[arg[u]] = joiner[arg[u]] /\ detached'[arg[u]] = detached[arg[u]]
    OBVIOUS
  <2>1. arg[u] # arg[t] /\ arg[u] \in Objects
    BY <1>3, OneJoiner, JoinerThere
  <2> QED
    BY <1>1, <2>1 DEF LifeInv, TypeOK
<1>5. \A x \in Objects : owner[x] = t => join_target'[x] = None
  BY <1>1, NoTarget DEF Targeting
<1>6. arg[t] \in Objects /\ known[t] \in Threads /\ arg[t] \in threads /\ ~Stale(t)
  BY <1>3, Usable DEF LifeInv, ThreadPart, HoldInv
<1>7. /\ \A x \in Objects : lock'[x] = lock[x] \/ lock[x] \in {None, t}
      /\ lock'[arg[t]] = t
  BY <1>1, <1>6, LockShape
<1>8. CallInv(t)' /\ HoldInv(t)' /\ ~Stale(t)'
  BY <1>1, <1>2, <1>6, <1>7 DEF CallInv, HoldInv, Stale, RefHeld, LockHeld, Joining
<1>9. \A x \in Objects : Counted(x)'
  BY <1>1, <1>2, SameCount DEF RefHeld
<1>10. pc[t] \notin Making \cup {"unborn"} /\ pc'[t] \notin Making \cup {"unborn"}
  BY <1>1, <1>2 DEF Making
<1> QED
  BY <1>1, <1>2, <1>3, <1>4, <1>5, <1>7, <1>8, <1>9, <1>10, Quiet

\* pthread_detach.
LEMMA DetachKeeps ==
    ASSUME LifeInv, TypeOK', NEW t \in Threads, Sound(t), Detach(t)
    PROVE  LifeInv'
<1>1. /\ UNCHANGED <<owner, cur, threads, gc_list, free_threads, dead, refcount,
                     exiting, join_target, joiner>>
      /\ pc[t] = "detach"
      /\ \/ /\ joiner[arg[t]] = None
            /\ detached' = [detached EXCEPT ![arg[t]] = TRUE]
            /\ Goto(t, "collect") /\ UNCHANGED lock
         \/ /\ lock' = [lock EXCEPT ![arg[t]] = None]
            /\ Goto(t, "run") /\ UNCHANGED detached
  BY DEF Detach, MayDetach, HasJoiner, Unlock, Set, listVars
<1>2. /\ arg[t] \in Objects /\ arg[t] \in threads /\ lock[arg[t]] = t /\ ~Stale(t)
      /\ known[t] \in Threads
  BY <1>1, HasLock, Usable DEF LockHeld
<1>3. Alive(t) /\ pc[t] \notin Making \cup {"unborn"} \cup RefHeld \cup Targeting
  BY <1>1 DEF Alive, Ended, Collecting, Making, RefHeld, Targeting, Joining
<1>4. CASE /\ lock' = [lock EXCEPT ![arg[t]] = None]
           /\ Goto(t, "run") /\ UNCHANGED detached
  <2>1. Bystanders(t) /\ pc'[t] = "run"
    BY <1>1, <1>4, GotoShape
  <2>2. \A x \in Objects : lock'[x] = lock[x] \/ lock[x] \in {None, t}
    BY <1>2, <1>4, LockShape
  <2> QED
    BY <1>1, <1>3, <1>4, <2>1, <2>2, QuietReturn
    DEF Free, RefHeld, LockHeld, Joining, Making, Using
<1>5. CASE /\ joiner[arg[t]] = None
           /\ detached' = [detached EXCEPT ![arg[t]] = TRUE]
           /\ Goto(t, "collect") /\ UNCHANGED lock
  <2>1. Bystanders(t) /\ pc'[t] = "collect" /\ arg'[t] = arg[t] /\ known'[t] = known[t]
    BY <1>1, <1>5, GotoShape
  <2>2. \A u \in Threads \ {t} : pc[u] \in Joining =>
           joiner'[arg[u]] = joiner[arg[u]] /\ detached'[arg[u]] = detached[arg[u]]
    <3> SUFFICES ASSUME NEW u \in Threads \ {t}, pc[u] \in Joining
                 PROVE  detached'[arg[u]] = detached[arg[u]]
      BY <1>1
    <3>1. arg[u] # arg[t] /\ arg[u] \in Objects
      BY <1>5, JoinerThere
    <3> QED
      BY <1>5, <3>1 DEF LifeInv, TypeOK
  <2>3. \A x \in Objects : owner[x] = t => join_target'[x] = None
    BY <1>1, <1>3, NoTarget
  <2>4. CallInv(t)' /\ HoldInv(t)' /\ ~Stale(t)'
    BY <1>1, <1>2, <1>5, <2>1 DEF CallInv, HoldInv, Stale, RefHeld, LockHeld, Joining
  <2>5. \A x \in Objects : Counted(x)'
    BY <1>1, <1>3, <2>1, SameCount DEF RefHeld
  <2>6. pc'[t] \notin Making \cup {"unborn"}
    BY <2>1 DEF Making
  <2>7. \A x \in Objects : lock'[x] = lock[x] \/ lock[x] \in {None, t}
    BY <1>5
  <2> QED
    BY <1>1, <1>3, <2>1, <2>2, <2>3, <2>4, <2>5, <2>6, <2>7, Quiet
<1> QED
  BY <1>1, <1>4, <1>5

-----------------------------------------------------------------------------
(***************************************************************************)
(* Steps that count references.                                            *)
(***************************************************************************)

\* The references of an object are finitely many.
LEMMA FewRefs == \A o : IsFiniteSet(Refs(o)) /\ Cardinality(Refs(o)) \in Nat
<1> SUFFICES ASSUME NEW o PROVE IsFiniteSet(Refs(o)) /\ Cardinality(Refs(o)) \in Nat
  OBVIOUS
<1>1. Refs(o) \in SUBSET Threads
  BY DEF Refs
<1>2. IsFiniteSet(Refs(o))
  BY <1>1, LifeAssumption, FS_Subset
<1> QED
  BY <1>2, FS_CardinalityType

\* t takes a reference.
LEMMA OneMore ==
    ASSUME LifeInv, NEW t \in Threads, Bystanders(t), NEW o \in Objects,
           UNCHANGED <<threads, dead>>,
           refcount' = [refcount EXCEPT ![o] = refcount[o] + 1],
           pc[t] \notin RefHeld, pc'[t] \in RefHeld, arg'[t] = o
    PROVE  \A x \in Objects : Counted(x)'
<1>1. refcount \in [Objects -> Nat]
  BY DEF LifeInv, TypeOK
<1> SUFFICES ASSUME NEW x \in Objects PROVE Counted(x)'
  OBVIOUS
<1>2. Counted(x)
  BY DEF LifeInv, ObjectPart
<1>3. \A u \in Threads : u # t =>
         ((pc'[u] \in RefHeld /\ arg'[u] = x) <=> (pc[u] \in RefHeld /\ arg[u] = x))
  BY SamePlace DEF Bystanders
<1>4. CASE x = o
  <2>1. Refs(x)' = Refs(x) \cup {t} /\ t \notin Refs(x)
    BY <1>3, <1>4 DEF Refs
  <2>2. Cardinality(Refs(x)') = Cardinality(Refs(x)) + 1
    BY <2>1, FewRefs, FS_AddElement
  <2>3. refcount'[x] = refcount[x] + 1
    BY <1>1, <1>4
  <2> QED
    BY <1>2, <2>2, <2>3, FewRefs DEF Counted
<1>5. CASE x # o
  <2>1. Refs(x)' = Refs(x)
    BY <1>3, <1>5 DEF Refs
  <2>2. refcount'[x] = refcount[x]
    BY <1>1, <1>5
  <2> QED
    BY <1>2, <2>1, <2>2 DEF Counted
<1> QED
  BY <1>4, <1>5

\* t drops a reference.
LEMMA OneLess ==
    ASSUME LifeInv, NEW t \in Threads, Bystanders(t),
           UNCHANGED dead, threads' \subseteq threads,
           refcount' = [refcount EXCEPT ![arg[t]] = refcount[arg[t]] - 1],
           pc[t] \in RefHeld, pc'[t] \notin RefHeld
    PROVE  \A x \in Objects : Counted(x)'
<1> DEFINE o == arg[t]
<1>1. refcount \in [Objects -> Nat] /\ o \in Objects
  BY RefCounted DEF LifeInv, TypeOK
<1> SUFFICES ASSUME NEW x \in Objects PROVE Counted(x)'
  OBVIOUS
<1>2. Counted(x)
  BY DEF LifeInv, ObjectPart
<1>3. \A u \in Threads : u # t =>
         ((pc'[u] \in RefHeld /\ arg'[u] = x) <=> (pc[u] \in RefHeld /\ arg[u] = x))
  BY SamePlace DEF Bystanders
<1>4. CASE x = o
  <2>1. Refs(x)' = Refs(x) \ {t} /\ t \in Refs(x)
    BY <1>3, <1>4 DEF Refs
  <2>2. Cardinality(Refs(x)') = Cardinality(Refs(x)) - 1
    BY <2>1, FewRefs, FS_RemoveElement
  <2>3. refcount'[x] = refcount[x] - 1
    BY <1>1, <1>4
  <2> QED
    BY <1>2, <2>2, <2>3, FewRefs DEF Counted
<1>5. CASE x # o
  <2>1. Refs(x)' = Refs(x)
    BY <1>3, <1>5 DEF Refs
  <2>2. refcount'[x] = refcount[x]
    BY <1>1, <1>5
  <2> QED
    BY <1>2, <2>1, <2>2 DEF Counted
<1> QED
  BY <1>4, <1>5

\* ThreadState::FindThread, with RefAdd.
LEMMA FindThreadKeeps ==
    ASSUME LifeInv, TypeOK', NEW t \in Threads, FindThread(t)
    PROVE  LifeInv'
<1> DEFINE o == arg[t]
<1>1. /\ UNCHANGED <<owner, cur, threads, gc_list, free_threads, dead, detached, joiner,
                     join_target, exiting>>
      /\ pc[t] = "find"
      /\ \/ Goto(t, "run") /\ UNCHANGED <<lock, refcount>>
         \/ /\ o \in threads /\ lock[o] = None
            /\ known' = [known EXCEPT ![t] = owner[o]]
            /\ pc' = [pc EXCEPT ![t] = Found(call[t])] /\ UNCHANGED <<call, arg>>
            /\ \/ /\ call[t] = "getname" /\ UNCHANGED lock
                  /\ refcount' = [refcount EXCEPT ![o] = refcount[o] + 1]
               \/ /\ call[t] # "getname" /\ UNCHANGED refcount
                  /\ lock' = [lock EXCEPT ![o] = t]
  BY DEF FindThread, Move, Lock, Set, Referenced, listVars
<1>2. o \in Objects /\ call[t] \in Asking
  BY <1>1, Usable
<1>3. Alive(t) /\ pc[t] \notin Making \cup {"unborn"} \cup RefHeld \cup Targeting
  BY <1>1 DEF Alive, Ended, Collecting, Making, RefHeld, Targeting, Joining
<1>4. CASE Goto(t, "run") /\ UNCHANGED <<lock, refcount>>
  <2>1. Bystanders(t) /\ pc'[t] = "run"
    BY <1>1, <1>4, GotoShape
  <2> QED
    BY <1>1, <1>3, <1>4, <2>1, QuietReturn
    DEF Free, RefHeld, LockHeld, Joining, Making, Using
<1>5. ASSUME o \in threads, lock[o] = None,
             known' = [known EXCEPT ![t] = owner[o]],
             pc' = [pc EXCEPT ![t] = Found(call[t])], UNCHANGED <<call, arg>>
      PROVE  /\ Bystanders(t) /\ pc'[t] = Found(call[t]) /\ arg'[t] = o /\ known'[t] = owner[o]
             /\ owner[o] \in Threads
  <2>1. owner[o] \in Threads
    BY <1>2, <1>5 DEF LifeInv, ObjectPart, OwnInv, TypeOK
  <2> QED
    BY <1>1, <1>5, <2>1 DEF Bystanders, LifeInv, TypeOK
<1>6. CASE /\ o \in threads /\ lock[o] = None
           /\ known' = [known EXCEPT ![t] = owner[o]]
           /\ pc' = [pc EXCEPT ![t] = Found(call[t])] /\ UNCHANGED <<call, arg>>
           /\ call[t] = "getname" /\ UNCHANGED lock
           /\ refcount' = [refcount EXCEPT ![o] = refcount[o] + 1]
  <2>1. Bystanders(t) /\ pc'[t] = "ref_use" /\ arg'[t] = o /\ known'[t] = owner[o] /\ owner[o] \in Threads
    BY <1>5, <1>6 DEF Found
  <2>2. \A x \in Objects : Counted(x)'
    BY <1>1, <1>2, <1>3, <1>6, <2>1, OneMore DEF RefHeld
  <2>3. CallInv(t)' /\ HoldInv(t)' /\ ~Stale(t)'
    BY <1>1, <1>2, <1>6, <2>1 DEF CallInv, HoldInv, Stale, RefHeld, LockHeld, Joining
  <2>4. \A x \in Objects : owner[x] = t => join_target'[x] = None
    BY <1>1, <1>3, NoTarget
  <2>5. /\ \A x \in Objects : lock'[x] = lock[x]
        /\ \A u \in Threads \ {t} : pc[u] \in Joining =>
              joiner'[arg[u]] = joiner[arg[u]] /\ detached'[arg[u]] = detached[arg[u]]
    BY <1>1, <1>6
  <2>6. pc'[t] \notin Making \cup {"unborn"}
    BY <2>1 DEF Making
  <2> QED
    BY <1>1, <1>3, <2>1, <2>2, <2>3, <2>4, <2>5, <2>6, Quiet
<1>7. CASE /\ o \in threads /\ lock[o] = None
           /\ known' = [known EXCEPT ![t] = owner[o]]
           /\ pc' = [pc EXCEPT ![t] = Found(call[t])] /\ UNCHANGED <<call, arg>>
           /\ call[t] # "getname" /\ UNCHANGED refcount
           /\ lock' = [lock EXCEPT ![o] = t]
  <2>1. /\ Bystanders(t) /\ arg'[t] = o /\ known'[t] = owner[o] /\ owner[o] \in Threads
        /\ pc'[t] \in {"join", "detach", "cancel"}
    BY <1>2, <1>5, <1>7 DEF Found, Asking
  <2>2. /\ \A x \in Objects : lock'[x] = lock[x] \/ lock[x] \in {None, t}
        /\ lock'[o] = t
    BY <1>2, <1>7, LockShape
  <2>3. CallInv(t)' /\ HoldInv(t)' /\ ~Stale(t)'
    BY <1>1, <1>2, <1>7, <2>1, <2>2 DEF CallInv, HoldInv, Stale, RefHeld, LockHeld, Joining
  <2> QED
    BY <1>1, <1>3, <1>7, <2>1, <2>2, <2>3, QuietCall DEF RefHeld, Making
<1> QED
  BY <1>1, <1>4, <1>6, <1>7

\* ThreadState::RefDelete.
LEMMA RefDeleteKeeps ==
    ASSUME LifeInv, TypeOK', NEW t \in Threads, RefDelete(t)
    PROVE  LifeInv'
<1>1. /\ UNCHANGED <<owner, cur, threads, gc_list, free_threads, dead, detached, joiner,
                     join_target, exiting>>
      /\ pc[t] = "ref_delete" /\ Goto(t, "collect")
      /\ lock[arg[t]] = None /\ lock' = [lock EXCEPT ![arg[t]] = t]
      /\ refcount' = [refcount EXCEPT ![arg[t]] = refcount[arg[t]] - 1]
  BY DEF RefDelete, Lock, Set, listVars
<1>2. Bystanders(t) /\ pc'[t] = "collect" /\ arg'[t] = arg[t] /\ known'[t] = known[t]
  BY <1>1, GotoShape
<1>3. Alive(t) /\ pc[t] \notin Making \cup {"unborn"} \cup Targeting /\ pc[t] \in RefHeld \cap Using
  BY <1>1 DEF Alive, Ended, Collecting, Making, RefHeld, Targeting, Joining, Using, PCs
<1>4. arg[t] \in Objects /\ known[t] \in Threads /\ arg[t] \in threads /\ ~Stale(t)
  BY <1>3, Usable DEF LifeInv, ThreadPart, HoldInv
<1>5. \A x \in Objects : Counted(x)'
  BY <1>1, <1>2, <1>3, OneLess DEF RefHeld
<1>6. /\ \A x \in Objects : lock'[x] = lock[x] \/ lock[x] \in {None, t}
      /\ lock'[arg[t]] = t
  BY <1>1, <1>4, LockShape
<1>7. CallInv(t)' /\ HoldInv(t)' /\ ~Stale(t)'
  BY <1>1, <1>2, <1>4, <1>6 DEF CallInv, HoldInv, Stale, RefHeld, LockHeld, Joining
<1>8. \A x \in Objects : owner[x] = t => join_target'[x] = None
  BY <1>1, <1>3, NoTarget
<1>9. \A u \in Threads \ {t} : pc[u] \in Joining =>
         joiner'[arg[u]] = joiner[arg[u]] /\ detached'[arg[u]] = detached[arg[u]]
  BY <1>1
<1>10. pc'[t] \notin Making \cup {"unborn"}
  BY <1>2 DEF Making
<1> QED
  BY <1>1, <1>2, <1>3, <1>5, <1>6, <1>7, <1>8, <1>9, <1>10, Quiet

\* TryCollect: a reference is taken before the lock is released.
LEMMA TryCollectKeeps ==
    ASSUME LifeInv, TypeOK', NEW t \in Threads, TryCollect(t)
    PROVE  LifeInv'
<1>1. /\ UNCHANGED <<owner, cur, threads, gc_list, free_threads, dead, detached, joiner,
                     join_target, exiting>>
      /\ pc[t] = "collect" /\ lock' = [lock EXCEPT ![arg[t]] = None]
      /\ \/ /\ refcount' = [refcount EXCEPT ![arg[t]] = refcount[arg[t]] + 1]
            /\ Goto(t, "collect_list")
         \/ /\ Goto(t, IF exiting[t] THEN "exit_store" ELSE "run")
            /\ UNCHANGED refcount
  BY DEF TryCollect, Leave, Unlock, Set, listVars
<1>2. /\ arg[t] \in Objects /\ arg[t] \in threads /\ lock[arg[t]] = t /\ ~Stale(t)
      /\ known[t] \in Threads /\ pc[t] \in Using
  BY <1>1, HasLock, Usable DEF LockHeld
<1>3. \A x \in Objects : lock'[x] = lock[x] \/ lock[x] \in {None, t}
  BY <1>1, <1>2, LockShape
<1>4. pc[t] \notin Making \cup {"unborn"} \cup Targeting \cup RefHeld
  BY <1>1 DEF Making, RefHeld, Targeting, Joining
<1>5. CASE /\ Goto(t, IF exiting[t] THEN "exit_store" ELSE "run")
           /\ UNCHANGED refcount
  <2>1. /\ Bystanders(t) /\ pc'[t] = IF exiting[t] THEN "exit_store" ELSE "run"
        /\ pc'[t] # "run" => arg'[t] = arg[t] /\ known'[t] = known[t]
    BY <1>1, <1>5, GotoShape
  <2>2. Alive(t)' => Alive(t)
    BY <1>1, <2>1 DEF Alive, Ended, Collecting
  <2> QED
    BY <1>1, <1>2, <1>3, <1>4, <1>5, <2>1, <2>2, QuietReturn
    DEF Free, RefHeld, LockHeld, Joining, Making, Using
<1>6. CASE /\ refcount' = [refcount EXCEPT ![arg[t]] = refcount[arg[t]] + 1]
           /\ Goto(t, "collect_list")
  <2>1. Bystanders(t) /\ pc'[t] = "collect_list" /\ arg'[t] = arg[t] /\ known'[t] = known[t]
    BY <1>1, <1>6, GotoShape
  <2>2. \A x \in Objects : Counted(x)'
    BY <1>1, <1>2, <1>4, <1>6, <2>1, OneMore DEF RefHeld
  <2>3. CallInv(t)' /\ HoldInv(t)' /\ ~Stale(t)'
    BY <1>1, <1>2, <2>1 DEF CallInv, HoldInv, Stale, RefHeld, LockHeld, Joining
  <2>4. \A x \in Objects : owner[x] = t => join_target'[x] = None
    BY <1>1, <1>4, NoTarget
  <2>5. \A u \in Threads \ {t} : pc[u] \in Joining =>
           joiner'[arg[u]] = joiner[arg[u]] /\ detached'[arg[u]] = detached[arg[u]]
    BY <1>1
  <2>6. pc'[t] \notin Making \cup {"unborn"}
    BY <2>1 DEF Making
  <2>7. Alive(t)' => Alive(t)
    BY <1>1, <2>1 DEF Alive, Ended, Collecting
  <2> QED
    BY <1>1, <1>3, <1>4, <2>1, <2>2, <2>3, <2>4, <2>5, <2>6, <2>7, Quiet
<1> QED
  BY <1>1, <1>5, <1>6

-----------------------------------------------------------------------------
(***************************************************************************)
(* Steps that move an object between the lists.                            *)
(***************************************************************************)

\* What everybody else needs, when the threads and the dead stay as they are.
LEMMA Standing ==
    ASSUME LifeInv, NEW t \in Threads, Bystanders(t), UNCHANGED <<threads, dead>>,
           Alive(t)' => Alive(t)
    PROVE  /\ \A u \in Threads \ {t} :
                 /\ pc[u] \in RefHeld \cup LockHeld \cup Joining \cup {"start"} => arg[u] \in threads'
                 /\ pc[u] = "link" => arg[u] \notin threads'
                 /\ pc[u] \in Making => ~dead'[arg[u]]
           /\ \A u \in Threads : Alive(u)' => Alive(u) /\ cur[u] \in threads' /\ ~dead'[cur[u]]
           /\ \A o \in Objects :
                 /\ dead'[o] => owner[o] \in Threads /\ pc[owner[o]] # "unborn"
                 /\ o \in threads' => owner[o] # None
<1>1. \A u \in Threads \ {t} :
         /\ pc[u] \in RefHeld \cup LockHeld \cup Joining \cup {"start"} => arg[u] \in threads'
         /\ pc[u] = "link" => arg[u] \notin threads'
         /\ pc[u] \in Making => ~dead'[arg[u]]
  BY DEF LifeInv, ThreadPart, HoldInv, MakeInv
<1>2. \A u \in Threads : Alive(u)' => Alive(u)
  BY SamePlace DEF Alive, Bystanders
<1>3. \A u \in Threads : Alive(u)' => Alive(u) /\ cur[u] \in threads' /\ ~dead'[cur[u]]
  BY <1>2 DEF LifeInv, ThreadPart, LiveInv
<1>4. \A o \in Objects :
         /\ dead'[o] => owner[o] \in Threads /\ pc[owner[o]] # "unborn"
         /\ o \in threads' => owner[o] # None
  BY DEF LifeInv, ObjectPart, OwnInv
<1> QED
  BY <1>1, <1>3, <1>4

\* ThreadState::Collect: terminated threads become free.
LEMMA CollectKeeps ==
    ASSUME LifeInv, TypeOK', NEW t \in Threads, Collect(t)
    PROVE  LifeInv'
<1> DEFINE kept == Selected(gc_list, Objects \ Terminated)
           freed == Selected(gc_list, Terminated)
<1>1. /\ UNCHANGED <<owner, cur, threads, dead, refcount, detached, joiner, join_target, lock,
                     exiting>>
      /\ pc[t] = "run" /\ Goto(t, "alloc")
      /\ \/ UNCHANGED <<gc_list, free_threads>>
         \/ gc_list' = kept /\ free_threads' = free_threads \o freed
  BY DEF Collect, lockVars, objectVars
<1>2. Bystanders(t) /\ pc'[t] = "alloc"
  BY <1>1, GotoShape
<1>3. Alive(t) /\ pc[t] \notin Targeting \cup RefHeld
  BY <1>1 DEF Alive, Ended, Collecting, Targeting, Joining, RefHeld
<1>4. gc_list \in Seq(Objects) /\ free_threads \in Seq(Objects)
  BY DEF LifeInv, TypeOK
<1>5. /\ kept \in Seq(Objects) /\ Elements(kept) \subseteq Elements(gc_list) \cap (Objects \ Terminated)
      /\ Distinct(gc_list) => Distinct(kept)
  BY <1>4, SelectedFacts
<1>6. /\ freed \in Seq(Objects) /\ Elements(freed) \subseteq Elements(gc_list) \cap Terminated
      /\ Distinct(gc_list) => Distinct(freed)
  BY <1>4, SelectedFacts
<1> HIDE DEF kept, freed
<1>7. /\ Elements(free_threads \o freed) = Elements(free_threads) \cup Elements(freed)
      /\ Distinct(free_threads) /\ Distinct(freed) /\ Elements(free_threads) \cap Elements(freed) = {}
           => Distinct(free_threads \o freed)
  BY <1>4, <1>6, ConcatFacts
<1>8. ListInv
  BY DEF LifeInv
<1>9. ListInv' /\ Elements(gc_list') \cup Elements(free_threads')
                    \subseteq Elements(gc_list) \cup Elements(free_threads)
  <2>1. CASE UNCHANGED <<gc_list, free_threads>>
    BY <1>8, <2>1 DEF ListInv
  <2>2. CASE gc_list' = kept /\ free_threads' = free_threads \o freed
    <3>1. Distinct(gc_list') /\ Distinct(free_threads')
      BY <1>5, <1>6, <1>7, <1>8, <2>2 DEF ListInv
    <3>2. Elements(gc_list') \cap Elements(free_threads') = {}
      BY <1>5, <1>6, <1>7, <1>8, <2>2 DEF ListInv
    <3>3. Elements(gc_list') \cup Elements(free_threads')
            \subseteq Elements(gc_list) \cup Elements(free_threads)
      BY <1>5, <1>6, <1>7, <2>2
    <3> QED
      BY <3>1, <3>2, <3>3 DEF ListInv
  <2> QED
    BY <1>1, <2>1, <2>2
<1>10. \A o \in Objects : o \in Elements(gc_list') \cup Elements(free_threads') =>
          dead'[o] /\ o \notin threads'
  BY <1>1, <1>9 DEF LifeInv, ObjectPart, OwnInv
<1>11. CallInv(t)' /\ HoldInv(t)' /\ MakeInv(t)'
  BY <1>2 DEF CallInv, HoldInv, MakeInv, RefHeld, LockHeld, Joining, Making, Using
<1>12. \A o \in Objects : Counted(o)'
  BY <1>1, <1>2, SameCount DEF RefHeld
<1>13. \A o \in Objects : owner[o] = t => join_target'[o] = None
  BY <1>1, <1>3, NoTarget
<1>14. pc'[t] \notin Making
  BY <1>2 DEF Making
<1> QED
  BY <1>1, <1>2, <1>3, <1>9, <1>10, <1>11, <1>12, <1>13, <1>14, Standing, Frame

\* ThreadState::Link.
LEMMA LinkKeeps ==
    ASSUME LifeInv, TypeOK', NEW t \in Threads, Link(t)
    PROVE  LifeInv'
<1> DEFINE o == arg[t]
<1>1. /\ UNCHANGED <<owner, cur, gc_list, free_threads, dead, joiner, join_target, lock, exiting>>
      /\ pc[t] = "link" /\ Goto(t, "start")
      /\ threads' = threads \cup {o} /\ refcount' = [refcount EXCEPT ![o] = 1]
      /\ \E d \in BOOLEAN : detached' = [detached EXCEPT ![o] = d]
  BY DEF Link, Set, lockVars
<1>2. Bystanders(t) /\ pc'[t] = "start" /\ arg'[t] = o /\ known'[t] = known[t]
  BY <1>1, GotoShape
<1>3. /\ Alive(t) /\ pc[t] \notin Targeting \cup RefHeld /\ pc[t] \in Making \cap Using
      /\ pc'[t] \notin RefHeld \cup LockHeld \cup Joining /\ pc'[t] \in Making
  BY <1>1, <1>2 DEF Alive, Ended, Collecting, Targeting, Joining, RefHeld, LockHeld, Making,
     Using, PCs
<1>4. /\ o \in Objects /\ known[t] \in Threads /\ owner[o] = known[t]
      /\ pc[known[t]] = "unborn" /\ ~dead[o] /\ o \notin threads
      /\ \A u \in Threads \ {t} : pc[u] \in Making => arg[u] # o
  BY <1>1, <1>3, Usable DEF LifeInv, ThreadPart, MakeInv
<1> HIDE DEF o
<1>5. \A x \in Objects : x # o => refcount'[x] = refcount[x] /\ detached'[x] = detached[x]
  BY <1>1 DEF LifeInv, TypeOK
<1>6. refcount'[o] = 1
  BY <1>1, <1>4 DEF LifeInv, TypeOK
<1>7. \A u \in Threads \ {t} :
         /\ pc[u] \in RefHeld \cup LockHeld \cup Joining \cup {"start"} => arg[u] \in threads'
         /\ pc[u] = "link" => arg[u] \notin threads'
         /\ pc[u] \in Making => ~dead'[arg[u]]
         /\ pc[u] \in Joining =>
               joiner'[arg[u]] = joiner[arg[u]] /\ detached'[arg[u]] = detached[arg[u]]
  <2> SUFFICES ASSUME NEW u \in Threads \ {t}
               PROVE  /\ pc[u] \in RefHeld \cup LockHeld \cup Joining \cup {"start"} => arg[u] \in threads'
                      /\ pc[u] = "link" => arg[u] \notin threads'
                      /\ pc[u] \in Making => ~dead'[arg[u]]
                      /\ pc[u] \in Joining => detached'[arg[u]] = detached[arg[u]]
    BY <1>1
  <2>1. HoldInv(u) /\ MakeInv(u)
    BY DEF LifeInv, ThreadPart
  <2>2. pc[u] \in Joining => detached'[arg[u]] = detached[arg[u]]
    BY <1>4, <1>5, <2>1, JoinerThere DEF HoldInv
  <2>3. pc[u] \in RefHeld \cup LockHeld \cup Joining => arg[u] \in threads'
    BY <1>1, <2>1 DEF HoldInv
  <2> QED
    BY <1>1, <1>4, <2>1, <2>2, <2>3 DEF MakeInv, Making
<1>8. \A u \in Threads : Alive(u)' => Alive(u) /\ cur[u] \in threads' /\ ~dead'[cur[u]]
  <2>1. \A u \in Threads : Alive(u)' => Alive(u)
    BY <1>2, <1>3, SamePlace DEF Alive, Bystanders
  <2> QED
    BY <1>1, <2>1 DEF LifeInv, ThreadPart, LiveInv
<1>9. ASSUME NEW x \in Objects PROVE Counted(x)'
  <2>1. \A u \in Threads : (pc'[u] \in RefHeld /\ arg'[u] = x) <=> (pc[u] \in RefHeld /\ arg[u] = x)
    BY <1>2, <1>3, SamePlace DEF Bystanders
  <2>2. Refs(x)' = Refs(x)
    BY <2>1 DEF Refs
  <2>3. CASE x = o
    <3>1. Refs(x) = {}
      BY <1>4, <2>3 DEF Refs, LifeInv, ThreadPart, HoldInv
    <3>2. Cardinality(Refs(x)') = 0
      BY <2>2, <3>1, FS_EmptySet
    <3> QED
      BY <1>1, <1>4, <1>6, <2>3, <3>2 DEF Counted
  <2>4. CASE x # o
    <3>1. Counted(x) /\ refcount'[x] = refcount[x] /\ (x \in threads' => x \in threads)
      BY <1>1, <1>5, <2>4 DEF LifeInv, ObjectPart
    <3> QED
      BY <1>1, <2>2, <3>1 DEF Counted
  <2> QED
    BY <2>3, <2>4
<1>10. \A x \in Objects :
         /\ dead'[x] => owner[x] \in Threads /\ pc[owner[x]] # "unborn"
         /\ x \in threads' => owner[x] # None
         /\ x \in Elements(gc_list') \cup Elements(free_threads') => dead'[x] /\ x \notin threads'
  BY <1>1, <1>4, ThreadsAssumption DEF LifeInv, ObjectPart, OwnInv
<1>11. \A x \in Objects : owner[x] = t => join_target'[x] = None
  BY <1>1, <1>3, NoTarget
<1>12. CallInv(t)' /\ HoldInv(t)'
  BY <1>2, <1>3, <1>4 DEF CallInv, HoldInv
<1>13. pc'[known[t]] = "unborn"
  BY <1>1, <1>2, <1>4, SamePlace
<1>14. \A u \in Threads \ {t} : pc'[u] \in Making => arg'[u] # o
  BY <1>2, <1>4, SamePlace DEF Bystanders
<1>15. MakeInv(t)'
  BY <1>1, <1>2, <1>4, <1>13, <1>14 DEF MakeInv, Stale
<1>16. ListInv'
  BY <1>1 DEF LifeInv, ListInv
<1>17. arg'[t] = arg[t]
  BY <1>2 DEF o
<1> QED
  BY <1>1, <1>2, <1>3, <1>7, <1>8, <1>9, <1>10, <1>11, <1>12, <1>15, <1>16, <1>17, Frame

\* TryCollect with the list lock: only the last reference lets the object go.
LEMMA LastReference ==
    ASSUME LifeInv, NEW t \in Threads, pc[t] = "collect_list", lock[arg[t]] = None,
           refcount[arg[t]] - 1 = 0, dead[arg[t]], detached[arg[t]]
    PROVE  /\ \A u \in Threads \ {t} :
                 pc[u] \in RefHeld \cup LockHeld \cup Joining \cup {"start"} => arg[u] # arg[t]
           /\ \A u \in Threads : Alive(u) => cur[u] # arg[t]
<1> DEFINE o == arg[t]
<1>1. pc[t] \in RefHeld
  BY DEF RefHeld
<1>2. o \in Objects /\ o \in threads /\ refcount[o] \in Nat
  BY <1>1, RefCounted
<1>3. t \in Refs(o) /\ IsFiniteSet(Refs(o)) /\ Cardinality(Refs(o)) \in Nat
  BY <1>1, FewRefs DEF Refs
<1>4. refcount[o] = Cardinality(Refs(o))
  BY <1>2, <1>3 DEF LifeInv, ObjectPart, Counted
<1>5. IsFiniteSet(Refs(o) \ {t}) /\ Cardinality(Refs(o) \ {t}) = Cardinality(Refs(o)) - 1
  BY <1>3, FS_RemoveElement
<1>6. Cardinality(Refs(o) \ {t}) = 0
  BY <1>2, <1>4, <1>5
<1>7. Refs(o) \ {t} = {}
  BY <1>5, <1>6, FS_EmptySet
<1>8. ASSUME NEW u \in Threads \ {t}, pc[u] \in RefHeld \cup LockHeld \cup Joining \cup {"start"}
      PROVE  arg[u] # o
  <2>1. HoldInv(u) /\ MakeInv(u)
    BY DEF LifeInv, ThreadPart
  <2>2. CASE pc[u] \in RefHeld
    BY <1>7, <2>2 DEF Refs
  <2>3. CASE pc[u] \in LockHeld
    BY <2>1, <2>3, ThreadsAssumption DEF HoldInv
  <2>4. CASE pc[u] \in Joining
    BY <2>1, <2>4 DEF HoldInv
  <2>5. CASE pc[u] = "start"
    BY <2>1, <2>5 DEF MakeInv, Making
  <2> QED
    BY <1>8, <2>2, <2>3, <2>4, <2>5
<1>9. \A u \in Threads : Alive(u) => cur[u] # o
  BY DEF LifeInv, ThreadPart, LiveInv
<1> QED
  BY <1>8, <1>9

LEMMA EraseKeeps ==
    ASSUME LifeInv, TypeOK', NEW t \in Threads, Erase(t)
    PROVE  LifeInv'
<1> DEFINE o == arg[t]
<1>1. pc[t] \in RefHeld \cap Using /\ pc[t] \notin Targeting /\ pc[t] = "collect_list"
  BY DEF Erase, RefHeld, Using, PCs, Targeting, Joining
<1>2. o \in Objects /\ o \in threads /\ refcount[o] \in Nat /\ known[t] \in Threads
  BY <1>1, RefCounted, Usable
<1>3. /\ refcount' = [refcount EXCEPT ![o] = refcount[o] - 1]
      /\ refcount'[o] = refcount[o] - 1
  BY <1>2 DEF Erase, Set, LifeInv, TypeOK
<1>4. /\ UNCHANGED <<owner, cur, free_threads, dead, detached, joiner, join_target, exiting>>
      /\ Goto(t, "collect_unlock")
      /\ lock[o] = None /\ lock' = [lock EXCEPT ![o] = t]
      /\ \/ UNCHANGED <<threads, gc_list>>
         \/ /\ refcount[o] - 1 = 0 /\ dead[o] /\ detached[o]
            /\ threads' = threads \ {o} /\ gc_list' = Append(gc_list, o)
  BY <1>3 DEF Erase, Lock, Set, ShouldCollect
<1>5. Bystanders(t) /\ pc'[t] = "collect_unlock" /\ arg'[t] = o /\ known'[t] = known[t]
  BY <1>4, GotoShape
<1>6. /\ pc'[t] \notin RefHeld \cup LockHeld \cup Joining \cup Making
      /\ Alive(t)' => Alive(t)
  BY <1>1, <1>4, <1>5 DEF RefHeld, LockHeld, Joining, Making, Alive, Collecting, Ended
<1>7. ~Stale(t) /\ HoldInv(t)
  BY <1>1 DEF LifeInv, ThreadPart, HoldInv
<1>8. /\ \A x \in Objects : lock'[x] = lock[x] \/ lock[x] \in {None, t}
      /\ lock'[o] = t
  BY <1>2, <1>4, LockShape
<1>9. CallInv(t)' /\ HoldInv(t)' /\ MakeInv(t)'
  BY <1>2, <1>4, <1>5, <1>6, <1>7, <1>8 DEF CallInv, HoldInv, MakeInv, Stale
<1>10. threads' \subseteq threads
  BY <1>4
<1>11. \A x \in Objects : Counted(x)'
  BY <1>1, <1>3, <1>4, <1>5, <1>6, <1>10, OneLess
<1>12. \A x \in Objects : owner[x] = t => join_target'[x] = None
  BY <1>1, <1>4, NoTarget
<1>13. gc_list \in Seq(Objects) /\ ListInv
  BY DEF LifeInv, TypeOK
<1>14. \A x \in Objects : x \in Elements(gc_list) \cup Elements(free_threads) =>
          dead[x] /\ x \notin threads
  BY DEF LifeInv, ObjectPart, OwnInv
<1>15. /\ Elements(Append(gc_list, o)) = Elements(gc_list) \cup {o}
       /\ Distinct(gc_list) /\ o \notin Elements(gc_list) => Distinct(Append(gc_list, o))
  BY <1>2, <1>13, PushFacts
<1>16. ListInv' /\ \A x \in Objects : x \in Elements(gc_list') \cup Elements(free_threads') =>
                      dead'[x] /\ x \notin threads'
  <2>1. CASE UNCHANGED <<threads, gc_list>>
    BY <1>4, <1>13, <1>14, <2>1 DEF ListInv
  <2>2. CASE /\ dead[o] /\ threads' = threads \ {o} /\ gc_list' = Append(gc_list, o)
    <3>1. Elements(gc_list') = Elements(gc_list) \cup {o} /\ Distinct(gc_list')
      BY <1>2, <1>13, <1>14, <1>15, <2>2 DEF ListInv
    <3>2. ListInv'
      BY <1>2, <1>4, <1>13, <1>14, <3>1 DEF ListInv
    <3>3. \A x \in Objects : x \in Elements(gc_list') \cup Elements(free_threads') =>
             dead'[x] /\ x \notin threads'
      BY <1>4, <1>14, <2>2, <3>1
    <3> QED
      BY <3>2, <3>3
  <2> QED
    BY <1>4, <2>1, <2>2
<1>17. \A u \in Threads \ {t} :
          /\ pc[u] \in RefHeld \cup LockHeld \cup Joining \cup {"start"} => arg[u] \in threads
          /\ pc[u] = "link" => arg[u] \notin threads
          /\ pc[u] \in Making => ~dead[arg[u]]
  BY DEF LifeInv, ThreadPart, HoldInv, MakeInv
<1>18. \A u \in Threads : Alive(u)' => Alive(u) /\ cur[u] \in threads /\ ~dead[cur[u]]
  <2>1. \A u \in Threads : Alive(u)' => Alive(u)
    BY <1>5, <1>6, SamePlace DEF Alive, Bystanders
  <2> QED
    BY <2>1 DEF LifeInv, ThreadPart, LiveInv
<1>19. \A x \in Objects :
          /\ dead'[x] => owner[x] \in Threads /\ pc[owner[x]] # "unborn"
          /\ x \in threads' => owner[x] # None
  BY <1>4, <1>10 DEF LifeInv, ObjectPart, OwnInv
<1>20. /\ \A u \in Threads \ {t} :
             /\ pc[u] \in RefHeld \cup LockHeld \cup Joining \cup {"start"} => arg[u] \in threads'
             /\ pc[u] = "link" => arg[u] \notin threads'
       /\ \A u \in Threads : Alive(u)' => cur[u] \in threads'
  <2>1. CASE UNCHANGED <<threads, gc_list>>
    BY <1>17, <1>18, <2>1
  <2>2. CASE refcount[o] - 1 = 0 /\ dead[o] /\ detached[o] /\ threads' = threads \ {o}
    <3>1. /\ \A u \in Threads \ {t} :
                 pc[u] \in RefHeld \cup LockHeld \cup Joining \cup {"start"} => arg[u] # o
          /\ \A u \in Threads : Alive(u) => cur[u] # o
      BY <1>1, <1>4, <2>2, LastReference
    <3> QED
      BY <1>17, <1>18, <2>2, <3>1
  <2> QED
    BY <1>4, <2>1, <2>2
<1>21. pc[t] # "unborn" /\ pc'[t] # "unborn" /\ pc'[t] \notin Making
  BY <1>1, <1>5 DEF Making
<1>22. \A u \in Threads \ {t} :
          /\ pc[u] \in RefHeld \cup LockHeld \cup Joining \cup {"start"} => arg[u] \in threads'
          /\ pc[u] = "link" => arg[u] \notin threads'
          /\ pc[u] \in Making => ~dead'[arg[u]]
          /\ pc[u] \in Joining =>
                joiner'[arg[u]] = joiner[arg[u]] /\ detached'[arg[u]] = detached[arg[u]]
  BY <1>4, <1>17, <1>20
<1>23. \A u \in Threads : Alive(u)' => Alive(u) /\ cur[u] \in threads' /\ ~dead'[cur[u]]
  BY <1>4, <1>18, <1>20
<1>24. UNCHANGED <<owner, cur, join_target>>
  BY <1>4
<1> HIDE DEF o
<1> QED
  BY <1>5, <1>8, <1>9, <1>11, <1>12, <1>16, <1>19, <1>21, <1>22, <1>23, <1>24, Frame

\* Whoever is on the way out of its thread is exiting.
ExitInv == \A t \in Threads : pc[t] = "exit" => exiting[t]

\* ExitThread: the thread dies, and its own reference is dropped.
LEMMA ExitThreadKeeps ==
    ASSUME LifeInv, ExitInv, TypeOK', NEW t \in Threads, ExitThread(t)
    PROVE  LifeInv'
<1> DEFINE o == cur[t]
<1>1. /\ UNCHANGED <<owner, cur, threads, gc_list, free_threads, detached, joiner, join_target,
                     exiting, call>>
      /\ pc[t] = "exit" /\ pc' = [pc EXCEPT ![t] = "collect"]
      /\ lock[o] = None /\ lock' = [lock EXCEPT ![o] = t]
      /\ dead' = [dead EXCEPT ![o] = TRUE]
      /\ refcount' = [refcount EXCEPT ![o] = refcount[o] - 1]
      /\ arg' = [arg EXCEPT ![t] = o] /\ known' = [known EXCEPT ![t] = t]
  BY DEF ExitThread, Lock, Set, Move, listVars
<1>2. Alive(t) /\ exiting[t] /\ pc[t] \notin Targeting \cup RefHeld
  BY <1>1 DEF ExitInv, Alive, Collecting, Ended, Targeting, Joining, RefHeld
<1>3. o \in Objects /\ o \in threads /\ owner[o] = t /\ ~dead[o]
  BY <1>2, Usable DEF LifeInv, ThreadPart, LiveInv
<1>4. /\ Bystanders(t) /\ pc'[t] = "collect" /\ arg'[t] = o /\ known'[t] = t
  BY <1>1, <1>3 DEF Bystanders, LifeInv, TypeOK
<1>5. /\ \A x \in Objects : x # o => dead'[x] = dead[x] /\ refcount'[x] = refcount[x]
      /\ refcount'[o] = refcount[o] - 1 /\ refcount[o] \in Nat
  BY <1>1, <1>3 DEF LifeInv, TypeOK
<1>6. dead'[o]
  BY <1>1, <1>3 DEF LifeInv, TypeOK
<1>7. /\ \A x \in Objects : lock'[x] = lock[x] \/ lock[x] \in {None, t}
      /\ lock'[o] = t
  BY <1>1, <1>3, LockShape
<1> HIDE DEF o
<1>8. CallInv(t)' /\ HoldInv(t)' /\ MakeInv(t)'
  BY <1>1, <1>3, <1>4, <1>7
  DEF CallInv, HoldInv, MakeInv, Stale, RefHeld, LockHeld, Joining, Making
<1>9. \A u \in Threads : Alive(u)' => Alive(u) /\ cur[u] \in threads' /\ ~dead'[cur[u]]
  <2> SUFFICES ASSUME NEW u \in Threads, Alive(u)' PROVE Alive(u) /\ cur[u] \in threads' /\ ~dead'[cur[u]]
    OBVIOUS
  <2>1. u # t
    BY <1>1, <1>2, <1>4 DEF Alive, Collecting
  <2>2. Alive(u)
    BY <1>4, <2>1, SamePlace DEF Alive, Bystanders
  <2>3. cur[u] \in threads /\ owner[cur[u]] = u /\ ~dead[cur[u]] /\ cur[u] \in Objects
    BY <2>2 DEF LifeInv, ThreadPart, LiveInv, TypeOK
  <2> QED
    BY <1>1, <1>3, <1>5, <2>1, <2>2, <2>3
<1>10. ASSUME NEW u \in Threads \ {t}
       PROVE  /\ pc[u] \in RefHeld \cup LockHeld \cup Joining \cup {"start"} => arg[u] \in threads'
              /\ pc[u] = "link" => arg[u] \notin threads'
              /\ pc[u] \in Making => ~dead'[arg[u]]
              /\ pc[u] \in Joining =>
                    joiner'[arg[u]] = joiner[arg[u]] /\ detached'[arg[u]] = detached[arg[u]]
  <2>1. HoldInv(u) /\ MakeInv(u) /\ CallInv(u)
    BY DEF LifeInv, ThreadPart
  <2>2. ASSUME pc[u] \in Making PROVE ~dead'[arg[u]]
    <3>1. arg[u] \in Objects /\ owner[arg[u]] = known[u] /\ pc[known[u]] = "unborn" /\ ~dead[arg[u]]
      BY <2>1, <2>2 DEF MakeInv, CallInv, Making, Using, PCs
    <3> QED
      BY <1>1, <1>3, <1>5, <3>1
  <2>3. pc[u] \in RefHeld \cup LockHeld \cup Joining \cup {"start"} => arg[u] \in threads
    BY <2>1 DEF HoldInv, MakeInv
  <2>4. pc[u] = "link" => arg[u] \notin threads
    BY <2>1 DEF MakeInv
  <2> QED
    BY <1>1, <2>2, <2>3, <2>4
<1>11. ASSUME NEW x \in Objects PROVE Counted(x)'
  <2>1. \A u \in Threads : (pc'[u] \in RefHeld /\ arg'[u] = x) <=> (pc[u] \in RefHeld /\ arg[u] = x)
    BY <1>2, <1>4, SamePlace DEF Bystanders, RefHeld
  <2>2. Refs(x)' = Refs(x)
    BY <2>1 DEF Refs
  <2>3. Counted(x)
    BY DEF LifeInv, ObjectPart
  <2>4. CASE x = o
    BY <1>1, <1>3, <1>5, <1>6, <2>2, <2>3, <2>4, FewRefs DEF Counted
  <2>5. CASE x # o
    BY <1>1, <1>5, <2>2, <2>3, <2>5 DEF Counted
  <2> QED
    BY <2>4, <2>5
<1>12. \A x \in Objects :
          /\ dead'[x] => owner[x] \in Threads /\ pc[owner[x]] # "unborn"
          /\ x \in threads' => owner[x] # None
          /\ x \in Elements(gc_list') \cup Elements(free_threads') => dead'[x] /\ x \notin threads'
  BY <1>1, <1>3, <1>5 DEF LifeInv, ObjectPart, OwnInv
<1>13. \A x \in Objects : owner[x] = t => join_target'[x] = None
  BY <1>1, <1>2, NoTarget
<1>14. ListInv'
  BY <1>1 DEF LifeInv, ListInv
<1>15. /\ pc[t] # "unborn" /\ pc'[t] # "unborn" /\ pc'[t] \notin Making
       /\ UNCHANGED <<owner, cur, join_target>>
  BY <1>1, <1>4 DEF Making
<1> QED
  BY <1>4, <1>7, <1>8, <1>9, <1>10, <1>11, <1>12, <1>13, <1>14, <1>15, Frame

\* The native thread starts: its g_curthread is the object of pthread_create.
LEMMA StartKeeps ==
    ASSUME LifeInv, TypeOK', NEW t \in Threads, Start(t)
    PROVE  LifeInv'
<1> DEFINE o == arg[t]
<1>0. PICK k : k = known[t]
  OBVIOUS
<1>1. /\ UNCHANGED <<owner, threads, gc_list, free_threads, dead, detached, refcount, lock,
                     joiner, join_target, exiting, call, arg, known>>
      /\ pc[t] = "start"
      /\ cur' = [cur EXCEPT ![k] = o]
      /\ pc' = [pc EXCEPT ![t] = "affinity", ![k] = "run"]
  BY <1>0 DEF Start, listVars, lockVars, objectVars, callVars
<1>2. pc[t] \in Making \cap Using /\ Alive(t)
  BY <1>1 DEF Making, Using, PCs, Alive, Ended, Collecting
<1>3. /\ o \in Objects /\ k \in Threads /\ owner[o] = k /\ pc[k] = "unborn" /\ ~dead[o]
      /\ o \in threads
      /\ \A u \in Threads \ {t} : pc[u] \in Making => arg[u] # o
  BY <1>0, <1>1, <1>2, Usable DEF LifeInv, ThreadPart, MakeInv
<1>4. k # t /\ o # None
  BY <1>1, <1>3, LifeAssumption
<1>5. /\ pc'[t] = "affinity" /\ pc'[k] = "run" /\ cur'[k] = o
      /\ \A u \in Threads \ {t, k} : pc'[u] = pc[u]
      /\ \A u \in Threads \ {k} : cur'[u] = cur[u]
  BY <1>1, <1>3, <1>4 DEF LifeInv, TypeOK
<1>6. \A u \in Threads : ThreadPart(u)
  BY DEF LifeInv
<1>7. ThreadPart(k)'
  <2>1. LiveInv(k)'
    BY <1>1, <1>3, <1>5 DEF LiveInv
  <2>2. CallInv(k)' /\ HoldInv(k)' /\ MakeInv(k)'
    BY <1>5 DEF CallInv, HoldInv, MakeInv, Using, RefHeld, LockHeld, Joining, Making
  <2> QED
    BY <2>1, <2>2 DEF ThreadPart
<1>8. ThreadPart(t)'
  <2>1. LiveInv(t)'
    BY <1>1, <1>2, <1>4, <1>5, <1>6 DEF ThreadPart, LiveInv
  <2>2. CallInv(t)'
    BY <1>0, <1>1, <1>3, <1>5 DEF CallInv
  <2>3. HoldInv(t)' /\ MakeInv(t)'
    BY <1>0, <1>1, <1>3, <1>5 DEF HoldInv, MakeInv, Stale, RefHeld, LockHeld, Joining, Making
  <2> QED
    BY <2>1, <2>2, <2>3 DEF ThreadPart
<1>9. ASSUME NEW u \in Threads \ {t, k} PROVE ThreadPart(u)'
  <2>1. /\ pc'[u] = pc[u] /\ cur'[u] = cur[u] /\ CallInv(u) /\ LiveInv(u) /\ HoldInv(u)
        /\ MakeInv(u)
    BY <1>5, <1>6 DEF ThreadPart
  <2>2. CallInv(u)' /\ LiveInv(u)' /\ HoldInv(u)'
    BY <1>1, <2>1 DEF CallInv, LiveInv, HoldInv, Alive, Stale
  <2>3. pc[u] \in Making => pc[u] \in Using
    BY DEF Making, Using, PCs
  <2>4. ASSUME pc[u] \in Making
        PROVE  pc'[known[u]] = "unborn" /\ \A v \in Threads \ {u} : pc'[v] \in Making => arg[v] # arg[u]
    <3>1. /\ arg[u] \in Objects /\ known[u] \in Threads /\ owner[arg[u]] = known[u]
          /\ pc[known[u]] = "unborn" /\ arg[u] # o
      BY <1>3, <2>1, <2>3, <2>4 DEF CallInv, MakeInv
    <3>2. known[u] # k
      BY <1>3, <3>1, ThreadsAssumption DEF LifeInv, ObjectPart, OwnInv
    <3>3. pc'[known[u]] = "unborn"
      BY <1>1, <1>5, <3>1, <3>2
    <3>4. \A v \in Threads : pc'[v] \in Making => pc[v] \in Making
      BY <1>5 DEF Making
    <3> QED
      BY <2>1, <2>4, <3>3, <3>4 DEF MakeInv
  <2>5. pc[u] \in Using /\ Stale(u) => pc'[known[u]] # "unborn"
    BY <1>5, <2>1 DEF CallInv, MakeInv
  <2>6. MakeInv(u)'
    BY <1>1, <2>1, <2>4, <2>5 DEF MakeInv, Stale
  <2> QED
    BY <2>2, <2>6 DEF ThreadPart
<1>10. ASSUME NEW x \in Objects PROVE ObjectPart(x)'
  <2>1. Counted(x) /\ TargetInv(x) /\ OwnInv(x)
    BY DEF LifeInv, ObjectPart
  <2>2. \A u \in Threads : pc'[u] \in RefHeld <=> pc[u] \in RefHeld
    BY <1>1, <1>3, <1>5 DEF RefHeld
  <2>3. Refs(x)' = Refs(x)
    BY <1>1, <2>2 DEF Refs
  <2>4. Counted(x)'
    BY <1>1, <2>1, <2>3 DEF Counted
  <2>5. \A u \in Threads : pc[u] \in Targeting => pc'[u] = pc[u] /\ cur'[u] = cur[u]
    BY <1>1, <1>3, <1>5 DEF Targeting, Joining
  <2>6. TargetInv(x)'
    BY <1>1, <2>1, <2>5 DEF TargetInv
  <2>7. \A u \in Threads : pc[u] # "unborn" => pc'[u] # "unborn"
    BY <1>5
  <2>8. OwnInv(x)'
    BY <1>1, <2>1, <2>7 DEF OwnInv
  <2> QED
    BY <2>4, <2>6, <2>8 DEF ObjectPart
<1>11. ListInv'
  BY <1>1 DEF LifeInv, ListInv
<1>12. \A u \in Threads : ThreadPart(u)'
  BY <1>7, <1>8, <1>9
<1> QED
  BY <1>10, <1>11, <1>12 DEF LifeInv

\* What Alloc constructs anew is nobody's thread.
LEMMA FreeObject ==
    ASSUME LifeInv, NEW o \in Objects, o \in Elements(free_threads) \/ o \in Heap
    PROVE  /\ o \notin threads
           /\ \A u \in Threads :
                 /\ pc[u] \in RefHeld \cup LockHeld \cup Joining \cup Making => arg[u] # o
                 /\ Alive(u) => cur[u] # o
           /\ o \in Heap => ~dead[o] /\ o \notin Elements(gc_list) \cup Elements(free_threads)
           /\ owner[o] \in Threads => pc[owner[o]] # "unborn"
<1>1. OwnInv(o)
  BY DEF LifeInv, ObjectPart
<1>2. o \in Heap => owner[o] = None /\ owner[o] \notin Threads
  BY ThreadsAssumption DEF Heap
<1>3. o \notin Heap => dead[o]
  BY <1>1 DEF OwnInv
<1>4. /\ o \notin threads
      /\ o \in Heap => ~dead[o] /\ o \notin Elements(gc_list) \cup Elements(free_threads)
      /\ owner[o] \in Threads => pc[owner[o]] # "unborn"
  BY <1>1, <1>2, <1>3 DEF OwnInv
<1>5. ASSUME NEW u \in Threads
      PROVE  /\ pc[u] \in RefHeld \cup LockHeld \cup Joining \cup Making => arg[u] # o
             /\ Alive(u) => cur[u] # o
  <2>1. HoldInv(u) /\ MakeInv(u) /\ LiveInv(u) /\ CallInv(u)
    BY DEF LifeInv, ThreadPart
  <2>2. pc[u] \in Making => arg[u] # o
    BY <1>2, <1>3, <2>1 DEF MakeInv, CallInv, Making, Using, PCs
  <2> QED
    BY <1>4, <2>1, <2>2 DEF HoldInv, LiveInv
<1> QED
  BY <1>4, <1>5

\* ThreadState::Alloc.
LEMMA AllocKeeps ==
    ASSUME LifeInv, TypeOK', NEW t \in Threads, Alloc(t)
    PROVE  LifeInv'
<1>1. PICK o \in Objects, new \in Unborn :
        /\ \/ /\ free_threads # <<>> /\ o = free_threads[Len(free_threads)]
              /\ free_threads' = SubSeq(free_threads, 1, Len(free_threads) - 1)
           \/ o \in Heap /\ UNCHANGED free_threads
        /\ owner' = [owner EXCEPT ![o] = new]
        /\ lock' = [lock EXCEPT ![o] = None]
        /\ dead' = [dead EXCEPT ![o] = FALSE] /\ detached' = [detached EXCEPT ![o] = FALSE]
        /\ refcount' = [refcount EXCEPT ![o] = 0]
        /\ joiner' = [joiner EXCEPT ![o] = None] /\ join_target' = [join_target EXCEPT ![o] = None]
        /\ arg' = [arg EXCEPT ![t] = o] /\ known' = [known EXCEPT ![t] = new]
  BY DEF Alloc, Set, Unlock
<1>2. /\ UNCHANGED <<threads, gc_list, cur, call, exiting>>
      /\ pc[t] = "alloc" /\ pc' = [pc EXCEPT ![t] = "link"]
  BY DEF Alloc, Move
<1>3. new \in Threads /\ pc[new] = "unborn" /\ \A x \in Objects : owner[x] # new
  BY DEF Unborn
<1>4. new # t /\ new # None
  BY <1>2, <1>3, ThreadsAssumption
<1>5. gc_list \in Seq(Objects) /\ free_threads \in Seq(Objects) /\ ListInv
  BY DEF LifeInv, TypeOK
<1>6. free_threads # <<>> =>
         /\ Elements(SubSeq(free_threads, 1, Len(free_threads) - 1)) \subseteq Elements(free_threads)
         /\ free_threads[Len(free_threads)] \in Elements(free_threads)
         /\ Distinct(free_threads) =>
               /\ Distinct(SubSeq(free_threads, 1, Len(free_threads) - 1))
               /\ free_threads[Len(free_threads)]
                    \notin Elements(SubSeq(free_threads, 1, Len(free_threads) - 1))
  BY <1>5, PopFacts
<1>7. o \in Elements(free_threads) \/ o \in Heap
  BY <1>1, <1>6
<1>8. /\ o \notin threads
      /\ \A u \in Threads :
            /\ pc[u] \in RefHeld \cup LockHeld \cup Joining \cup Making => arg[u] # o
            /\ Alive(u) => cur[u] # o
      /\ o \in Heap => ~dead[o] /\ o \notin Elements(gc_list) \cup Elements(free_threads)
      /\ owner[o] \in Threads => pc[owner[o]] # "unborn"
  BY <1>7, FreeObject
<1>9. /\ Distinct(free_threads') /\ Elements(free_threads') \subseteq Elements(free_threads)
      /\ o \notin Elements(gc_list) \cup Elements(free_threads')
  BY <1>1, <1>5, <1>6, <1>8 DEF ListInv
<1>10. ListInv'
  BY <1>2, <1>5, <1>9 DEF ListInv
<1>11. /\ \A x \in Objects \ {o} :
             /\ owner'[x] = owner[x] /\ lock'[x] = lock[x] /\ dead'[x] = dead[x]
             /\ refcount'[x] = refcount[x] /\ detached'[x] = detached[x]
             /\ joiner'[x] = joiner[x] /\ join_target'[x] = join_target[x]
       /\ owner'[o] = new /\ refcount'[o] = 0 /\ join_target'[o] = None
  BY <1>1 DEF LifeInv, TypeOK
<1>12. ~dead'[o]
  BY <1>1 DEF LifeInv, TypeOK
<1>13. /\ \A u \in Threads \ {t} : pc'[u] = pc[u] /\ arg'[u] = arg[u] /\ known'[u] = known[u]
       /\ pc'[t] = "link" /\ arg'[t] = o /\ known'[t] = new
  BY <1>1, <1>2, <1>3 DEF LifeInv, TypeOK
<1>14. /\ \A u \in Threads : ThreadPart(u)
       /\ \A u \in Threads : pc[u] \in Making => pc[u] \in Using
       /\ Alive(t) /\ pc[t] \notin RefHeld \cup Targeting
       /\ pc'[t] \notin RefHeld \cup LockHeld \cup Joining /\ pc'[t] \in Making
  BY <1>2, <1>13 DEF LifeInv, Making, Using, PCs, Alive, Ended, Collecting, RefHeld, Targeting,
     Joining, LockHeld
<1>15. /\ owner \in [Objects -> Threads \cup {None}] /\ arg \in [Threads -> Pointer]
       /\ cur \in [Threads -> Pointer] /\ threads \subseteq Objects
  BY DEF LifeInv, TypeOK
<1>16. LiveInv(t)'
  <2>1. cur[t] \in threads /\ owner[cur[t]] = t /\ ~dead[cur[t]] /\ cur[t] \in Objects \ {o}
    BY <1>8, <1>14, <1>15 DEF ThreadPart, LiveInv
  <2> QED
    BY <1>2, <1>11, <2>1 DEF LiveInv
<1>17. CallInv(t)' /\ HoldInv(t)'
  BY <1>3, <1>13, <1>14 DEF CallInv, HoldInv
<1>18. pc'[new] = "unborn" /\ \A u \in Threads \ {t} : pc'[u] \in Making => arg'[u] # o
  BY <1>3, <1>4, <1>8, <1>13
<1>19. MakeInv(t)'
  BY <1>2, <1>8, <1>11, <1>12, <1>13, <1>18 DEF MakeInv, Stale
<1>20. ASSUME NEW u \in Threads \ {t} PROVE ThreadPart(u)'
  <2>1. CallInv(u) /\ LiveInv(u) /\ HoldInv(u) /\ MakeInv(u)
    BY <1>14 DEF ThreadPart
  <2>2. pc'[u] = pc[u] /\ arg'[u] = arg[u] /\ known'[u] = known[u]
    BY <1>13
  <2>3. CallInv(u)'
    BY <1>2, <2>1, <2>2 DEF CallInv
  <2>4. LiveInv(u)'
    <3>1. Alive(u)' => Alive(u)
      BY <1>2, <2>2 DEF Alive
    <3>2. Alive(u) => cur[u] \in threads /\ owner[cur[u]] = u /\ ~dead[cur[u]] /\ cur[u] \in Objects \ {o}
      BY <1>8, <1>15, <2>1 DEF LiveInv
    <3> QED
      BY <1>2, <1>11, <3>1, <3>2 DEF LiveInv
  <2>5. ASSUME pc[u] \in Using, arg[u] = o PROVE Stale(u)' /\ pc'[known[u]] # "unborn"
    <3>1. known[u] \in Threads /\ (Stale(u) => pc[known[u]] # "unborn")
      BY <2>1, <2>5 DEF CallInv, MakeInv
    <3>2. ~Stale(u) => owner[o] = known[u]
      BY <2>5 DEF Stale
    <3>3. pc[known[u]] # "unborn"
      BY <1>8, <3>1, <3>2
    <3>4. known[u] # new /\ pc'[known[u]] # "unborn"
      BY <1>3, <1>13, <3>1, <3>3
    <3> QED
      BY <1>11, <2>2, <2>5, <3>4 DEF Stale
  <2>6. pc[u] \in Using /\ arg[u] # o =>
           /\ Stale(u)' <=> Stale(u)
           /\ lock'[arg[u]] = lock[arg[u]] /\ joiner'[arg[u]] = joiner[arg[u]]
           /\ detached'[arg[u]] = detached[arg[u]] /\ dead'[arg[u]] = dead[arg[u]]
           /\ owner'[arg[u]] = owner[arg[u]]
    BY <1>11, <2>1, <2>2 DEF CallInv, Stale
  <2>7. pc[u] \in RefHeld \cup LockHeld \cup Joining \cup {"collect_unlock"} => pc[u] \in Using
    BY DEF RefHeld, LockHeld, Joining, Using, PCs
  <2>8. HoldInv(u)'
    <3>1. ASSUME pc[u] \in RefHeld \cup LockHeld \cup Joining PROVE HoldInv(u)'
      <4>1. arg[u] # o /\ pc[u] \in Using
        BY <1>8, <2>7, <3>1
      <4>2. UNCHANGED <<threads, cur>>
        BY <1>2
      <4> QED
        BY <2>1, <2>2, <2>6, <4>1, <4>2 DEF HoldInv
    <3>2. ASSUME pc[u] \notin RefHeld \cup LockHeld \cup Joining PROVE HoldInv(u)'
      <4>1. pc[u] = "collect_unlock" /\ ~Stale(u)' => lock'[arg[u]] = u
        BY <2>1, <2>5, <2>6, <2>7 DEF HoldInv
      <4> QED
        BY <2>2, <3>2, <4>1 DEF HoldInv
    <3> QED
      BY <3>1, <3>2
  <2>9. MakeInv(u)'
    <3>1. pc[u] \in Making => arg[u] # o /\ pc[u] \in Using
      BY <1>8, <1>14
    <3>2. ASSUME pc[u] \in Making
          PROVE  /\ owner'[arg[u]] = known[u] /\ pc'[known[u]] = "unborn" /\ ~dead'[arg[u]]
                 /\ \A v \in Threads \ {u} : pc'[v] \in Making => arg'[v] # arg[u]
      <4>1. owner[arg[u]] = known[u] /\ pc[known[u]] = "unborn" /\ ~dead[arg[u]] /\ known[u] \in Threads
        BY <2>1, <3>1, <3>2 DEF MakeInv, CallInv
      <4>2. known[u] # t
        BY <1>2, <4>1
      <4>3. ASSUME NEW v \in Threads \ {u}, pc'[v] \in Making PROVE arg'[v] # arg[u]
        <5>1. CASE v = t
          BY <1>13, <3>1, <3>2, <5>1
        <5>2. CASE v # t
          BY <1>13, <2>1, <3>2, <4>3, <5>2 DEF MakeInv
        <5> QED
          BY <5>1, <5>2
      <4> QED
        BY <1>13, <2>6, <3>1, <3>2, <4>1, <4>2, <4>3
    <3>3. pc[u] = "link" => arg[u] \notin threads
      BY <2>1 DEF MakeInv
    <3>4. pc[u] = "start" => arg[u] \in threads
      BY <2>1 DEF MakeInv
    <3>5. ASSUME pc[u] \in Using, Stale(u)' PROVE pc'[known[u]] # "unborn"
      <4>1. CASE arg[u] = o
        BY <2>5, <3>5, <4>1
      <4>2. CASE arg[u] # o
        <5>1. Stale(u) /\ known[u] \in Threads /\ pc[known[u]] # "unborn"
          BY <2>1, <2>6, <3>5, <4>2 DEF MakeInv, CallInv
        <5> QED
          BY <1>13, <5>1
      <4> QED
        BY <4>1, <4>2
    <3> QED
      BY <1>2, <2>2, <3>2, <3>3, <3>4, <3>5 DEF MakeInv
  <2> QED
    BY <2>3, <2>4, <2>8, <2>9 DEF ThreadPart
<1>21. ASSUME NEW x \in Objects PROVE ObjectPart(x)'
  <2>1. Counted(x) /\ TargetInv(x) /\ OwnInv(x)
    BY DEF LifeInv, ObjectPart
  <2>2. Counted(x)'
    <3>1. \A u \in Threads : (pc'[u] \in RefHeld /\ arg'[u] = x) <=> (pc[u] \in RefHeld /\ arg[u] = x)
      BY <1>13, <1>14
    <3>2. Refs(x)' = Refs(x)
      BY <3>1 DEF Refs
    <3>3. x \in threads' => x \in threads /\ refcount'[x] = refcount[x] /\ dead'[x] = dead[x]
      BY <1>2, <1>8, <1>11
    <3> QED
      BY <2>1, <3>2, <3>3 DEF Counted
  <2>3. TargetInv(x)'
    <3>1. CASE x = o
      BY <1>11, <3>1 DEF TargetInv
    <3>2. CASE x # o
      <4>1. join_target'[x] = join_target[x] /\ owner'[x] = owner[x]
        BY <1>11, <3>2
      <4>2. \A u \in Threads : pc[u] \in Targeting => pc'[u] = pc[u] /\ arg'[u] = arg[u]
        BY <1>13, <1>14
      <4> QED
        BY <1>2, <2>1, <4>1, <4>2 DEF TargetInv
    <3> QED
      BY <3>1, <3>2
  <2>4. dead'[x] => owner'[x] \in Threads /\ pc'[owner'[x]] # "unborn"
    BY <1>11, <1>12, <1>13, <2>1 DEF OwnInv
  <2>5. x \in Elements(gc_list') \cup Elements(free_threads') => dead'[x] /\ x \notin threads'
    <3>1. ASSUME x \in Elements(gc_list') \cup Elements(free_threads')
          PROVE  x # o /\ x \in Elements(gc_list) \cup Elements(free_threads)
      BY <1>2, <1>9, <3>1
    <3> QED
      BY <1>2, <1>11, <2>1, <3>1 DEF OwnInv
  <2>6. x \in threads' => owner'[x] # None
    BY <1>2, <1>8, <1>11, <2>1 DEF OwnInv
  <2>7. \A p \in Objects : owner'[x] = owner'[p] /\ owner'[x] # None => x = p
    BY <1>3, <1>11, <2>1 DEF OwnInv
  <2>8. OwnInv(x)'
    BY <2>4, <2>5, <2>6, <2>7 DEF OwnInv
  <2> QED
    BY <2>2, <2>3, <2>8 DEF ObjectPart
<1>22. ThreadPart(t)'
  BY <1>16, <1>17, <1>19 DEF ThreadPart
<1>23. \A u \in Threads : ThreadPart(u)'
  BY <1>20, <1>22
<1> QED
  BY <1>10, <1>21, <1>23 DEF LifeInv

-----------------------------------------------------------------------------
(***************************************************************************)
(* The theorems.                                                           *)
(***************************************************************************)

\* Only a thread that is exiting goes to ExitThread.
LEMMA ExitNext == LifeInv /\ ExitInv /\ [Next]_vars => ExitInv'
<1> SUFFICES ASSUME LifeInv, ExitInv, [Next]_vars PROVE ExitInv'
  OBVIOUS
<1>1. pc \in [Threads -> PCs] /\ exiting \in [Threads -> BOOLEAN] /\ known \in [Threads -> Threads \cup {None}]
  BY DEF LifeInv, TypeOK
<1>2. ASSUME NEW t \in Threads, NEW place, place # "exit", Move(t, place), UNCHANGED exiting
      PROVE  ExitInv'
  BY <1>1, <1>2 DEF Move, ExitInv
<1>3. ASSUME NEW t \in Threads, NEW place, exiting' = [exiting EXCEPT ![t] = TRUE], Move(t, place)
      PROVE  ExitInv'
  BY <1>1, <1>3 DEF Move, ExitInv
<1> DEFINE elsewhere(t) == \E place \in PCs \ {"exit"} : Move(t, place) /\ UNCHANGED exiting
<1>4. ASSUME NEW t \in Threads, AllocFails(t) PROVE elsewhere(t)
  BY <1>4 DEF AllocFails, Goto, PCs
<1>5. ASSUME NEW t \in Threads, Link(t) PROVE elsewhere(t)
  BY <1>5 DEF Link, Goto, PCs
<1>6. ASSUME NEW t \in Threads, SetAffinity(t) PROVE elsewhere(t)
  BY <1>6 DEF SetAffinity, Goto, PCs
<1>7. ASSUME NEW t \in Threads, JoinStart(t) PROVE elsewhere(t)
  BY <1>7 DEF JoinStart, Goto, PCs
<1>8. ASSUME NEW t \in Threads, JoinLock(t) PROVE elsewhere(t)
  BY <1>8 DEF JoinLock, Goto, PCs
<1>9. ASSUME NEW t \in Threads, JoinBlock(t) PROVE elsewhere(t)
  BY <1>9 DEF JoinBlock, Goto, PCs
<1>10. ASSUME NEW t \in Threads, BackoutSelf(t) PROVE elsewhere(t)
  BY <1>10 DEF BackoutSelf, Goto, PCs
<1>11. ASSUME NEW t \in Threads, JoinDone(t) PROVE elsewhere(t)
  BY <1>11 DEF JoinDone, Goto, PCs
<1>12. ASSUME NEW t \in Threads, Reap(t) PROVE elsewhere(t)
  BY <1>12 DEF Reap, Goto, PCs
<1>13. ASSUME NEW t \in Threads, Detach(t) PROVE elsewhere(t)
  BY <1>13 DEF Detach, Goto, PCs
<1>14. ASSUME NEW t \in Threads, Cancel(t) PROVE elsewhere(t)
  BY <1>14 DEF Cancel, Goto, PCs
<1>15. ASSUME NEW t \in Threads, RefUse(t) PROVE elsewhere(t)
  BY <1>15 DEF RefUse, Goto, PCs
<1>16. ASSUME NEW t \in Threads, RefDelete(t) PROVE elsewhere(t)
  BY <1>16 DEF RefDelete, Goto, PCs
<1>17. ASSUME NEW t \in Threads, TryCollect(t) PROVE elsewhere(t)
  BY <1>17 DEF TryCollect, Goto, PCs, Leave
<1>18. ASSUME NEW t \in Threads, Erase(t) PROVE elsewhere(t)
  BY <1>18 DEF Erase, Goto, PCs
<1>19. ASSUME NEW t \in Threads, CollectUnlock(t) PROVE elsewhere(t)
  BY <1>19 DEF CollectUnlock, Goto, PCs, Leave
<1>20. ASSUME NEW t \in Threads, ExitStore(t) PROVE elsewhere(t)
  BY <1>20 DEF ExitStore, Goto, PCs
<1>21. ASSUME NEW t \in Threads, ExitNative(t) PROVE elsewhere(t)
  BY <1>21 DEF ExitNative, Goto, PCs
<1>22. ASSUME NEW t \in Threads, Collect(t) PROVE elsewhere(t)
  BY <1>22 DEF Collect, Goto, PCs
<1>23. ASSUME NEW t \in Threads, JoinTimeout(t) PROVE elsewhere(t)
  BY <1>23 DEF JoinTimeout, Goto, PCs
<1>24. ASSUME NEW t \in Threads, Call(t) PROVE elsewhere(t)
  BY <1>24 DEF Call, Goto, PCs
<1>25. ASSUME NEW t \in Threads, Alloc(t) PROVE elsewhere(t)
  BY <1>25 DEF Alloc, Goto, PCs
<1>26. ASSUME NEW t \in Threads, ExitThread(t) PROVE elsewhere(t)
  BY <1>26 DEF ExitThread, Goto, PCs
<1> HIDE DEF elsewhere
<1>27. ASSUME NEW t \in Threads, elsewhere(t) PROVE ExitInv'
  BY <1>2, <1>27 DEF elsewhere
<1>28. ASSUME NEW t \in Threads, Exit(t) PROVE ExitInv'
  BY <1>3, <1>28 DEF Exit, Goto
<1>29. ASSUME NEW t \in Threads, JoinTest(t) PROVE ExitInv'
  <2>1. \/ exiting' = [exiting EXCEPT ![t] = TRUE] /\ Move(t, "back_self")
        \/ Move(t, "join_lock") /\ UNCHANGED exiting
    BY <1>29 DEF JoinTest, BackOut, Goto
  <2> QED
    BY <1>2, <1>3, <2>1
<1>30. ASSUME NEW t \in Threads, JoinCheck(t) PROVE ExitInv'
  <2>1. \/ exiting' = [exiting EXCEPT ![t] = TRUE] /\ Move(t, "back_self")
        \/ \E place \in {"join_done", "join_block"} : Move(t, place) /\ UNCHANGED exiting
    BY <1>30 DEF JoinCheck, BackOut, Goto
  <2> QED
    BY <1>2, <1>3, <2>1
<1>31. ASSUME NEW t \in Threads, BackoutTarget(t) PROVE ExitInv'
  <2>1. Move(t, IF exiting[t] THEN "exit" ELSE "run") /\ UNCHANGED exiting
    BY <1>31 DEF BackoutTarget, Goto
  <2>2. \A u \in Threads \ {t} : pc'[u] = pc[u]
    BY <1>1, <2>1 DEF Move
  <2>3. pc'[t] = "exit" => exiting[t]
    BY <1>1, <2>1 DEF Move
  <2> QED
    BY <2>1, <2>2, <2>3 DEF ExitInv
<1>32. ASSUME NEW t \in Threads, Start(t) PROVE ExitInv'
  <2>1. UNCHANGED exiting /\ pc' = [pc EXCEPT ![t] = "affinity", ![known[t]] = "run"]
    BY <1>32 DEF Start
  <2> QED
    BY <1>1, <2>1 DEF ExitInv
<1>33. ASSUME NEW t \in Threads, FindThread(t) PROVE ExitInv'
  <2>1. call[t] \in Asking
    BY <1>33, Usable DEF FindThread
  <2>2. UNCHANGED exiting /\ (Move(t, "run") \/ Move(t, Found(call[t])))
    BY <1>33 DEF FindThread, Goto
  <2>3. Found(call[t]) # "exit"
    BY <2>1 DEF Found, Asking
  <2> QED
    BY <1>2, <2>2, <2>3
<1>34. ASSUME NEW t \in Threads, ExitNotify(t) \/ CancelNotify(t) PROVE ExitInv'
  <2>1. UNCHANGED exiting /\ \E o, next : next # "exit" /\ Wake(o, t, next)
    BY <1>34 DEF ExitNotify, CancelNotify
  <2>2. PICK o, next : next # "exit" /\ Wake(o, t, next)
    BY <2>1
  <2>3. \A u \in Threads : pc'[u] = "exit" => pc[u] = "exit"
    BY <2>2 DEF Wake
  <2> QED
    BY <2>1, <2>3 DEF ExitInv
<1>35. ASSUME NEW t \in Threads, Corrupts(t) PROVE ExitInv'
  BY <1>35 DEF Corrupts, ExitInv
<1>36. CASE UNCHANGED vars
  BY <1>36 DEF vars, ExitInv
<1>37. ASSUME NEW t \in Threads, Step(t) \/ Begin(t) PROVE ExitInv'
  <2>1. Finishing(t) \/ Collect(t) \/ Call(t) \/ Exit(t) \/ JoinTimeout(t)
    BY <1>37 DEF Step, Begin, Calling, Leaving
  <2> QED
    BY <1>4, <1>5, <1>6, <1>7, <1>8, <1>9, <1>10, <1>11, <1>12, <1>13, <1>14, <1>15, <1>16,
       <1>17, <1>18, <1>19, <1>20, <1>21, <1>22, <1>23, <1>24, <1>25, <1>26, <1>27, <1>28,
       <1>29, <1>30, <1>31, <1>32, <1>33, <1>34, <2>1 DEF Finishing
<1> QED
  BY <1>35, <1>36, <1>37 DEF Next

\* Every step keeps the invariant.
LEMMA LifeNext == LifeInv /\ ExitInv /\ [Next]_vars => LifeInv'
<1> SUFFICES ASSUME LifeInv, ExitInv, [Next]_vars PROVE LifeInv'
  OBVIOUS
<1>1. TypeOK'
  BY LifeTypes
<1>2. ASSUME NEW t \in Threads, Step(t) PROVE LifeInv'
  <2>1. Sound(t) /\ Finishing(t)
    BY <1>2 DEF Step
  <2> QED
    BY <1>1, <2>1, AllocKeeps, AllocFailsKeeps, LinkKeeps, StartKeeps,
       SetAffinityKeeps, FindThreadKeeps, JoinStartKeeps, JoinTestKeeps, JoinLockKeeps,
       JoinCheckKeeps, JoinBlockKeeps, BackoutTargetKeeps, ReapKeeps, DetachKeeps,
       CancelKeeps, CancelNotifyKeeps, RefUseKeeps, RefDeleteKeeps, TryCollectKeeps,
       EraseKeeps, CollectUnlockKeeps, ExitThreadKeeps, ExitStoreKeeps,
       ExitNotifyKeeps, ExitNativeKeeps, OwnHalfKeeps
    DEF Finishing
<1>3. ASSUME NEW t \in Threads, Begin(t) PROVE LifeInv'
  <2>1. Sound(t) /\ (Collect(t) \/ Call(t) \/ Exit(t) \/ JoinTimeout(t))
    BY <1>3 DEF Begin, Calling, Leaving
  <2> QED
    BY <1>1, <2>1, CollectKeeps, CallKeeps, ExitKeeps, JoinTimeoutKeeps
<1>4. ASSUME UNCHANGED <<listVars, lockVars, objectVars, cur, pc, callVars, exiting>>
      PROVE  LifeInv'
  <2>1. UNCHANGED <<threads, gc_list, free_threads, lock, join_mutex, owner, dead, detached,
                    refcount, tid, joiner, join_target, cur, pc, call, arg, known, exiting>>
    BY <1>4 DEF listVars, lockVars, objectVars, callVars
  <2>2. ASSUME NEW t \in Threads PROVE ThreadPart(t)'
    <3>1. ThreadPart(t)
      BY DEF LifeInv
    <3> QED
      BY <2>1, <3>1 DEF ThreadPart, CallInv, LiveInv, HoldInv, MakeInv, Alive, Stale
  <2>3. ASSUME NEW o \in Objects PROVE ObjectPart(o)'
    <3>1. ObjectPart(o)
      BY DEF LifeInv
    <3>2. Refs(o)' = Refs(o)
      BY <2>1 DEF Refs
    <3> QED
      BY <2>1, <3>1, <3>2 DEF ObjectPart, Counted, TargetInv, OwnInv
  <2>4. ListInv'
    BY <2>1 DEF LifeInv, ListInv
  <2> QED
    BY <1>1, <2>2, <2>3, <2>4 DEF LifeInv
<1>5. ASSUME NEW t \in Threads, Corrupts(t) PROVE LifeInv'
  BY <1>4, <1>5 DEF Corrupts
<1>6. CASE UNCHANGED vars
  BY <1>4, <1>6 DEF vars
<1> QED
  BY <1>2, <1>3, <1>5, <1>6 DEF Next

LEMMA LifeInvariant == Spec => []LifeInv
<1>1. Init => ExitInv
  BY DEF Init, ExitInv
<1>2. LifeInv /\ ExitInv /\ [Next]_vars => (LifeInv /\ ExitInv)'
  BY LifeNext, ExitNext
<1> QED
  BY LifeInit, <1>1, <1>2, PTL DEF Spec

\* Every variable keeps its type: in particular no reference count of a thread
\* goes below zero, and no step follows a null pointer, whatever the guest
\* creates, joins, detaches, cancels and asks for.
THEOREM TypeCorrect == Spec => []TypeOK
<1>1. LifeInv => TypeOK
  BY DEF LifeInv
<1> QED
  BY LifeInvariant, <1>1, PTL

\* No thread is collected twice or freed twice, however many threads race to
\* collect it in TryCollect: the reference that each takes before it lets the
\* thread's lock go leaves the collection to the last of them.
THEOREM CollectedOnceHolds == Spec => []CollectedOnce
<1>1. LifeInv => CollectedOnce
  <2> SUFFICES ASSUME LifeInv PROVE CollectedOnce
    OBVIOUS
  <2>1. gc_list \in Seq(Objects) /\ free_threads \in Seq(Objects) /\ ListInv
    BY DEF LifeInv, TypeOK
  <2>2. Cardinality(Elements(gc_list)) = Len(gc_list)
    BY <2>1, DistinctCount DEF ListInv
  <2>3. Cardinality(Elements(free_threads)) = Len(free_threads)
    BY <2>1, DistinctCount DEF ListInv
  <2>4. \A o \in threads : o \notin Elements(gc_list) \cup Elements(free_threads)
    BY DEF LifeInv, ObjectPart, OwnInv, TypeOK
  <2> QED
    BY <2>1, <2>2, <2>3, <2>4 DEF CollectedOnce, ListInv
<1> QED
  BY LifeInvariant, <1>1, PTL

\* The target of a join, a thread with a reference and the join_target that
\* pthread_cancel reads are never collected while they are in use.
THEOREM KeptWhileUsedHolds == Spec => []KeptWhileUsed
<1>1. LifeInv => KeptWhileUsed
  <2> SUFFICES ASSUME LifeInv PROVE KeptWhileUsed
    OBVIOUS
  <2>1. \A t \in Threads : HoldInv(t)
    BY DEF LifeInv, ThreadPart
  <2>2. JoinedIsKept
    BY <2>1 DEF JoinedIsKept, HoldInv
  <2>3. ReferencedIsKept
    BY <2>1 DEF ReferencedIsKept, HoldInv, RefHeld
  <2>4. ASSUME NEW o \in threads, join_target[o] # None PROVE join_target[o] \in threads
    <3>1. TargetInv(o)
      BY DEF LifeInv, ObjectPart, TypeOK
    <3> QED
      BY <2>1, <2>4, <3>1 DEF TargetInv, HoldInv, Targeting
  <2> QED
    BY <2>2, <2>3, <2>4 DEF KeptWhileUsed, JoinTargetIsThread
<1> QED
  BY LifeInvariant, <1>1, PTL
=============================================================================
