----------------------------- MODULE SleepQueue -----------------------------
(***************************************************************************)
(* The sleep queues of core/libraries/kernel/threads/sleepq.cpp.           *)
(*                                                                         *)
(* Every thread is born with one SleepQueue object and lends it to the     *)
(* wait channel it blocks on: the first blocked thread's object becomes    *)
(* the channel's queue, the objects of later threads wait on that queue's  *)
(* sq_freeq, and whoever leaves takes some object home.  The objects are   *)
(* named after the threads they were allocated for.                        *)
(*                                                                         *)
(* SC_LOOKUP hashes a wait channel to a chain; channels of one chain share *)
(* its spin lock sc_lock.                                                  *)
(***************************************************************************)
EXTENDS Pthread

CONSTANTS
    Conds,        \* wait channels: condition variables
    Chains,       \* buckets of sc_table
    SC_HASH       \* the bucket of each wait channel

ASSUME SleepQueueAssumption ==
    /\ None \notin Conds
    /\ SC_HASH \in [Conds -> Chains]

VARIABLES
    sc_lock,      \* holder of each chain's spin lock
    sc_queues,    \* the queue object SleepqLookup finds for a channel
    sq_blocked,   \* blocked threads of each queue object, oldest first
    sq_freeq,     \* objects lent by the other blocked threads
    sleepqueue,   \* the object a thread has at home
    wchan         \* the channel a thread is queued on

queueVars == <<sc_queues, sq_blocked, sq_freeq, sleepqueue, wchan>>
sleepqVars == <<sc_lock, queueVars>>

SleepQueueTypeOK ==
    /\ sc_lock \in [Chains -> Threads \cup {None}]
    /\ sc_queues \in [Conds -> Threads \cup {None}]
    /\ sq_blocked \in [Threads -> Seq(Threads)]
    /\ sq_freeq \in [Threads -> Seq(Threads)]
    /\ sleepqueue \in [Threads -> Threads \cup {None}]
    /\ wchan \in [Threads -> Conds \cup {None}]

SleepQueueInit ==
    /\ sc_lock = [s \in Chains |-> None]
    /\ sc_queues = [c \in Conds |-> None]
    /\ sq_blocked = [q \in Threads |-> <<>>]
    /\ sq_freeq = [q \in Threads |-> <<>>]
    /\ sleepqueue = [t \in Threads |-> t]
    /\ wchan = [t \in Threads |-> None]

\* SleepqLock and SleepqUnlock of the chain of a channel.
ChainFree(c) == sc_lock[SC_HASH[c]] = None
SleepqLock(t, c) ==
    /\ ChainFree(c)
    /\ sc_lock' = [sc_lock EXCEPT ![SC_HASH[c]] = t]
SleepqUnlock(c) == sc_lock' = [sc_lock EXCEPT ![SC_HASH[c]] = None]

\* SleepqAdd: lend the object and queue up last.
SleepqAdd(c, td) ==
    LET own == sleepqueue[td]
        sq  == IF sc_queues[c] = None THEN own ELSE sc_queues[c]
    IN  /\ sq_freeq' = IF sc_queues[c] = None
                       THEN sq_freeq
                       ELSE [sq_freeq EXCEPT ![sq] = <<own>> \o @]
        /\ sc_queues' = [sc_queues EXCEPT ![c] = sq]
        /\ sleepqueue' = [sleepqueue EXCEPT ![td] = None]
        /\ wchan' = [wchan EXCEPT ![td] = c]
        /\ sq_blocked' = [sq_blocked EXCEPT ![sq] = Append(@, td)]

\* SleepqRemove of the thread at position i of the queue of channel c.  The
\* last thread out takes the queue object itself, any other one the first
\* object of sq_freeq.
HasWaiters(c) == Len(sq_blocked[sc_queues[c]]) > 1
SleepqRemove(c, i) ==
    LET sq == sc_queues[c]
        td == sq_blocked[sq][i]
    IN  /\ sq_blocked' = [sq_blocked EXCEPT ![sq] = RemoveAt(@, i)]
        /\ wchan' = [wchan EXCEPT ![td] = None]
        /\ IF HasWaiters(c)
           THEN /\ sleepqueue' = [sleepqueue EXCEPT ![td] = Head(sq_freeq[sq])]
                /\ sq_freeq' = [sq_freeq EXCEPT ![sq] = Tail(@)]
                /\ UNCHANGED sc_queues
           ELSE /\ sleepqueue' = [sleepqueue EXCEPT ![td] = sq]
                /\ sc_queues' = [sc_queues EXCEPT ![c] = None]
                /\ UNCHANGED sq_freeq

\* SleepqDrop, one thread at a time: the first thread takes the unlinked
\* queue object, the others take the lent objects in order.
SleepqDropFirst(c) ==
    LET sq == sc_queues[c]
        td == Head(sq_blocked[sq])
    IN  /\ sc_queues' = [sc_queues EXCEPT ![c] = None]
        /\ sq_blocked' = [sq_blocked EXCEPT ![sq] = Tail(@)]
        /\ sleepqueue' = [sleepqueue EXCEPT ![td] = sq]
        /\ wchan' = [wchan EXCEPT ![td] = None]
        /\ UNCHANGED sq_freeq
\* Mutant: the lent object is handed out but stays on sq_freeq.
SleepqDropNextKeepsLent(sq) ==
    LET td == Head(sq_blocked[sq])
    IN  /\ sq_blocked' = [sq_blocked EXCEPT ![sq] = Tail(@)]
        /\ sleepqueue' = [sleepqueue EXCEPT ![td] = Head(sq_freeq[sq])]
        /\ wchan' = [wchan EXCEPT ![td] = None]
        /\ UNCHANGED <<sc_queues, sq_freeq>>
SleepqDropNext(sq) ==
    LET td == Head(sq_blocked[sq])
    IN  /\ sq_blocked' = [sq_blocked EXCEPT ![sq] = Tail(@)]
        /\ sleepqueue' = [sleepqueue EXCEPT ![td] = Head(sq_freeq[sq])]
        /\ sq_freeq' = [sq_freeq EXCEPT ![sq] = Tail(@)]
        /\ wchan' = [wchan EXCEPT ![td] = None]
        /\ UNCHANGED sc_queues

=============================================================================
