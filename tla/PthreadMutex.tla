---------------------------- MODULE PthreadMutex ----------------------------
(***************************************************************************)
(* The guest mutex of core/libraries/kernel/threads/mutex.cpp.             *)
(*                                                                         *)
(* A PthreadMutex is two locks in one: the host lock m_lock decides who    *)
(* may run, and the atomic m_owner names that thread.  The two are written *)
(* by separate host operations, so this module gives the pieces (one       *)
(* operator per host operation) and the modules that use a mutex put them  *)
(* in sequence, one action per piece.                                      *)
(***************************************************************************)
EXTENDS Pthread

CONSTANTS
    Mutexes,      \* guest mutexes
    MutexType,    \* Type() of each mutex, fixed when it is initialised
    MaxCount      \* bound on m_count; INT_MAX in the code

ASSUME MutexAssumption ==
    /\ None \notin Mutexes
    /\ MutexType \in [Mutexes -> {"ErrorCheck", "Recursive"}]
    /\ MaxCount \in Nat

VARIABLES
    m_owner,      \* the atomic owner pointer
    m_lock,       \* holder of the host TimedMutex
    m_count,      \* extra acquisitions of a recursive mutex by its owner
    m_deferred    \* PthreadMutexFlags::Deferred in m_flags

mutexVars == <<m_owner, m_lock, m_count, m_deferred>>

MutexTypeOK ==
    /\ m_owner \in [Mutexes -> Threads \cup {None}]
    /\ m_lock \in [Mutexes -> Threads \cup {None}]
    /\ m_count \in [Mutexes -> Nat]
    /\ m_deferred \in [Mutexes -> BOOLEAN]

\* MutexInit.
MutexInit ==
    /\ m_owner = [m \in Mutexes |-> None]
    /\ m_lock = [m \in Mutexes |-> None]
    /\ m_count = [m \in Mutexes |-> 0]
    /\ m_deferred = [m \in Mutexes |-> FALSE]

Owns(t, m) == m_owner[m] = t

\* SelfLock and SelfTryLock of a mutex the caller owns: a recursive mutex
\* counts up to the limit, every other outcome is an error that changes
\* nothing.
SelfLock(t, m) ==
    /\ Owns(t, m)
    /\ MutexType[m] = "Recursive"
    /\ m_count[m] < MaxCount
    /\ m_count' = [m_count EXCEPT ![m] = @ + 1]
    /\ UNCHANGED <<m_owner, m_lock, m_deferred>>

\* m_lock.lock(), try_lock() or a timed lock that succeeds.
HostLock(t, m) ==
    /\ m_lock[m] = None
    /\ m_lock' = [m_lock EXCEPT ![m] = t]
    /\ UNCHANGED <<m_owner, m_count, m_deferred>>

\* The store of m_owner that ends Lock and TryLock.
StoreOwner(t, m) == m_owner' = [m_owner EXCEPT ![m] = t]

\* Mutant of UnlockCount: a level is given back that was never taken.
UnlockCountUnguarded(t, m) ==
    /\ Owns(t, m)
    /\ MutexType[m] = "Recursive"
    /\ m_count' = [m_count EXCEPT ![m] = @ - 1]
    /\ UNCHANGED <<m_owner, m_lock, m_deferred>>

\* Unlock by the owner, first part: one level of a recursive mutex.
UnlockCount(t, m) ==
    /\ Owns(t, m)
    /\ MutexType[m] = "Recursive" /\ m_count[m] > 0
    /\ m_count' = [m_count EXCEPT ![m] = @ - 1]
    /\ UNCHANGED <<m_owner, m_lock, m_deferred>>

\* Unlock of the last level: the Deferred flag is taken (the caller keeps its
\* old value) and the owner is cleared, before the host lock is released.
ClearOwner(t, m) ==
    /\ m_deferred' = [m_deferred EXCEPT ![m] = FALSE]
    /\ m_owner' = [m_owner EXCEPT ![m] = None]

HostUnlock(t, m) == m_lock' = [m_lock EXCEPT ![m] = None]

=============================================================================
