-------------------------- MODULE LiverpoolProofs --------------------------
(***************************************************************************)
(* What holds of Liverpool for every set of guest threads, every number of *)
(* queues, every width of the counter and every program of the guest.      *)
(***************************************************************************)
EXTENDS Liverpool, FiniteSetTheorems, SequenceTheorems, TLAPS

-----------------------------------------------------------------------------
(***************************************************************************)
(* Counting modulo the width of a counter.                                 *)
(***************************************************************************)
LEMMA ModRange ==
    ASSUME NEW m \in Nat \ {0}, NEW x \in Int PROVE x % m \in 0 .. (m - 1)
  OBVIOUS

\* A number is a multiple of the modulus and its remainder, in one way.
LEMMA ModDivide ==
    ASSUME NEW m \in Nat \ {0}, NEW x \in Int PROVE x = m * (x \div m) + (x % m)
  OBVIOUS

LEMMA ModUnique ==
    ASSUME NEW m \in Nat \ {0}, NEW k \in Int, NEW r \in 0 .. (m - 1)
    PROVE  (m * k + r) % m = r
  OBVIOUS

LEMMA ModZero ==
    ASSUME NEW m \in Nat \ {0}, NEW x \in Int, -m < x, x < m, x % m = 0 PROVE x = 0
  OBVIOUS

\* A counter that wraps counts on from where it is.
LEMMA ModUp ==
    ASSUME NEW m \in Nat \ {0}, NEW x \in Int PROVE ((x % m) + 1) % m = (x + 1) % m
<1> DEFINE k == x \div m
           r == x % m
<1>1. k \in Int /\ r \in 0 .. (m - 1) /\ x = m * k + r /\ x % m = r
  BY ModRange, ModDivide
<1> HIDE DEF k, r
<1>2. CASE r + 1 < m
  <2>1. (m * k + (r + 1)) % m = r + 1
    BY <1>1, <1>2, ModUnique
  <2>2. x + 1 = m * k + (r + 1)
    BY <1>1
  <2>3. (r + 1) % m = r + 1
    BY <1>1, <1>2
  <2> QED
    BY <1>1, <2>1, <2>2, <2>3
<1>3. CASE r + 1 = m
  <2>1. (m * (k + 1) + 0) % m = 0
    BY <1>1, ModUnique
  <2>2. x + 1 = m * (k + 1) + 0
    BY <1>1, <1>3
  <2>3. (r + 1) % m = 0
    BY <1>3
  <2> QED
    BY <1>1, <2>1, <2>2, <2>3
<1> QED
  BY <1>1, <1>2, <1>3

LEMMA ModDown ==
    ASSUME NEW m \in Nat \ {0}, NEW x \in Int PROVE ((x % m) - 1) % m = (x - 1) % m
<1> DEFINE k == x \div m
           r == x % m
<1>1. k \in Int /\ r \in 0 .. (m - 1) /\ x = m * k + r /\ x % m = r
  BY ModRange, ModDivide
<1> HIDE DEF k, r
<1>2. CASE r > 0
  <2>1. (m * k + (r - 1)) % m = r - 1
    <3>1. r - 1 \in 0 .. (m - 1)
      BY <1>1, <1>2
    <3> QED
      BY <1>1, <3>1, ModUnique
  <2>2. x - 1 = m * k + (r - 1)
    BY <1>1
  <2>3. (r - 1) % m = r - 1
    BY <1>1, <1>2
  <2> QED
    BY <1>1, <2>1, <2>2, <2>3
<1>3. CASE r = 0
  <2>1. (m * (k - 1) + (m - 1)) % m = m - 1
    BY <1>1, ModUnique
  <2>2. x - 1 = m * (k - 1) + (m - 1)
    BY <1>1, <1>3
  <2>3. (r - 1) % m = m - 1
    BY <1>3
  <2> QED
    BY <1>1, <2>1, <2>2, <2>3
<1> QED
  BY <1>1, <1>2, <1>3

-----------------------------------------------------------------------------
(***************************************************************************)
(* Types.                                                                  *)
(***************************************************************************)

\* What Process resumes is there: nobody else takes a coroutine off a queue.
GpuInv ==
    /\ resumed => /\ gpu \in {"commands", "callback", "resume"}
                  /\ curr_qid \in Queues /\ submits[curr_qid] # <<>>
    /\ gpu = "resume" => resumed

\* A thread that submits has something to submit.
GuestInv(g) ==
    /\ pc[g] = "wait_idle" => call[g] \in Program[g]
    /\ pc[g] \in {"push", "count"} =>
          call[g] \in Program[g] /\ call[g].op = "submit" /\ todo[g] # <<>>

CallInv == call = [g \in Guests |-> call[g]]

TypeInv == TypeOK /\ CallInv /\ GpuInv /\ \A g \in Guests : GuestInv(g)

LEMMA TypeInit == Init => TypeInv
<1> SUFFICES ASSUME Init PROVE TypeInv
  OBVIOUS
<1>1. /\ submits \in [Queues -> Seq(Tasks)] /\ num_submits \in 0 .. (U32 - 1)
      /\ num_mapped_queues \in 1 .. NumTotalQueues /\ command_queue \in Seq(Guests \cup {None})
      /\ curr_qid \in Queues \cup {-1} /\ calls \in [Guests -> Nat]
  BY LiverpoolAssumption DEF Init, Queues
<1>2. /\ pc = [g \in Guests |-> "run"] /\ call = [g \in Guests |-> NoCall]
      /\ todo \in [Guests -> Seq(Kinds \cup {"init"})]
      /\ gpu = "test" /\ resumed = FALSE
  BY DEF Init
<1>3. TypeOK
  BY <1>1, <1>2 DEF Init, TypeOK
<1> QED
  BY <1>2, <1>3 DEF TypeInv, CallInv, GpuInv, GuestInv

\* What a submission has still to queue.
LEMMA Submission ==
    ASSUME TypeInv, NEW g \in Guests, pc[g] \in {"push", "count"}
    PROVE  /\ call[g].qid \in Queues /\ todo[g] \in Seq(Kinds \cup {"init"}) /\ todo[g] # <<>>
           /\ Head(todo[g]) \in Kinds \cup {"init"}
           /\ Tail(todo[g]) \in Seq(Kinds \cup {"init"})
<1>1. call[g] \in Program[g] /\ call[g].op = "submit" /\ todo[g] # <<>>
  BY DEF TypeInv, GuestInv
<1>2. call[g].qid \in Queues
  BY <1>1, LiverpoolAssumption
<1>3. todo[g] \in Seq(Kinds \cup {"init"})
  BY DEF TypeInv, TypeOK
<1> QED
  BY <1>1, <1>2, <1>3

\* The coroutine that Process resumes.
LEMMA Resumed ==
    ASSUME TypeInv, gpu = "resume"
    PROVE  /\ curr_qid \in Queues /\ submits[curr_qid] \in Seq(Tasks) /\ submits[curr_qid] # <<>>
           /\ submits \in [Queues -> Seq(Tasks)]
           /\ submits[curr_qid][1] \in Tasks
<1>1. curr_qid \in Queues /\ submits[curr_qid] # <<>> /\ submits \in [Queues -> Seq(Tasks)]
  BY DEF TypeInv, GpuInv, TypeOK
<1> QED
  BY <1>1

\* One that yields is marked as started.
LEMMA Yielded ==
    ASSUME TypeInv, TaskYields
    PROVE  /\ submits' \in [Queues -> Seq(Tasks)]
           /\ \A q \in Queues : DOMAIN submits'[q] = DOMAIN submits[q]
<1> DEFINE s == submits[curr_qid]
           e == [s[1] EXCEPT !.started = TRUE]
           r == [s EXCEPT ![1] = e]
<1>1. gpu = "resume" /\ submits' = [submits EXCEPT ![curr_qid] = r]
  BY DEF TaskYields
<1>2. /\ curr_qid \in Queues /\ s \in Seq(Tasks) /\ s # <<>> /\ submits \in [Queues -> Seq(Tasks)]
      /\ s[1] \in Tasks
  BY <1>1, Resumed
<1>3. e \in Tasks
  BY <1>2 DEF Tasks
<1> HIDE DEF s, e
<1>4. r \in Seq(Tasks) /\ DOMAIN r = DOMAIN s
  BY <1>2, <1>3
<1> HIDE DEF r
<1> QED
  BY <1>1, <1>2, <1>4 DEF s

\* One that ends is taken off its queue.
LEMMA Ended ==
    ASSUME TypeInv, TaskEnds
    PROVE  /\ submits' \in [Queues -> Seq(Tasks)] /\ curr_qid \in Queues
           /\ Len(submits[curr_qid]) \in Nat \ {0}
           /\ DOMAIN submits[curr_qid] = 1 .. Len(submits[curr_qid])
           /\ DOMAIN submits'[curr_qid] = 1 .. (Len(submits[curr_qid]) - 1)
           /\ \A q \in Queues \ {curr_qid} : submits'[q] = submits[q]
<1> DEFINE s == submits[curr_qid]
<1>1. gpu = "resume" /\ submits' = [submits EXCEPT ![curr_qid] = Tail(s)]
  BY DEF TaskEnds, Pop
<1>2. curr_qid \in Queues /\ s \in Seq(Tasks) /\ s # <<>> /\ submits \in [Queues -> Seq(Tasks)]
  BY <1>1, Resumed
<1> HIDE DEF s
<1>3. /\ Tail(s) \in Seq(Tasks) /\ Len(s) \in Nat \ {0} /\ DOMAIN s = 1 .. Len(s)
      /\ DOMAIN Tail(s) = 1 .. (Len(s) - 1)
  BY <1>2
<1> QED
  BY <1>1, <1>2, <1>3 DEF s

\* One that is submitted is queued last.
LEMMA Pushed ==
    ASSUME TypeInv, NEW g \in Guests, PushSubmit(g)
    PROVE  /\ submits' \in [Queues -> Seq(Tasks)] /\ call[g].qid \in Queues
           /\ Len(submits[call[g].qid]) \in Nat
           /\ DOMAIN submits[call[g].qid] = 1 .. Len(submits[call[g].qid])
           /\ DOMAIN submits'[call[g].qid] = 1 .. (Len(submits[call[g].qid]) + 1)
           /\ \A q \in Queues \ {call[g].qid} : submits'[q] = submits[q]
           /\ submits'[call[g].qid] # <<>>
<1> DEFINE q == call[g].qid
           s == submits[q]
           e == [kind |-> Head(todo[g]), started |-> FALSE]
<1>1. q \in Queues /\ Head(todo[g]) \in Kinds \cup {"init"}
  BY Submission DEF PushSubmit
<1>2. e \in Tasks
  BY <1>1 DEF Tasks
<1>3. submits' = [submits EXCEPT ![q] = Append(s, e)] /\ submits \in [Queues -> Seq(Tasks)]
  BY DEF PushSubmit, TypeInv, TypeOK
<1>4. s \in Seq(Tasks)
  BY <1>1, <1>3
<1> HIDE DEF q, s, e
<1>5. /\ Append(s, e) \in Seq(Tasks) /\ Len(s) \in Nat /\ DOMAIN s = 1 .. Len(s)
      /\ DOMAIN Append(s, e) = 1 .. (Len(s) + 1) /\ Append(s, e) # <<>>
  BY <1>2, <1>4
<1>6. /\ submits' \in [Queues -> Seq(Tasks)] /\ submits'[q] = Append(s, e)
      /\ \A x \in Queues \ {q} : submits'[x] = submits[x]
  BY <1>1, <1>3, <1>5
<1> QED
  BY <1>1, <1>5, <1>6 DEF q, s

\* A step of Process leaves the guest threads to themselves, and theirs leave
\* Process to itself.
LEMMA GuestsStill ==
    ASSUME TypeInv, UNCHANGED <<pc, call, todo>>
    PROVE  CallInv' /\ \A g \in Guests : GuestInv(g)'
  BY DEF TypeInv, CallInv, GuestInv

LEMMA GpuStill ==
    ASSUME TypeInv, UNCHANGED <<gpu, resumed, curr_qid, submits>>
    PROVE  GpuInv'
  BY DEF TypeInv, GpuInv

\* The flags, one by one.
FlagTypes ==
    /\ submit_done \in BOOLEAN /\ notified \in BOOLEAN /\ resumed \in BOOLEAN
    /\ submission_lock \in BOOLEAN /\ send_init_packet \in BOOLEAN
    /\ label \in BOOLEAN /\ owed \in BOOLEAN

LEMMA FlagNext == TypeOK /\ Next => FlagTypes'
<1> SUFFICES ASSUME TypeOK, Next PROVE FlagTypes'
  OBVIOUS
<1>1. FlagTypes
  BY DEF TypeOK, FlagTypes
<1> USE DEF queueVars, gpuVars, lockVars, guestVars, FlagTypes, Notify
<1>2. CASE Process
  <2>1. CASE GpuTest \/ GpuWake \/ GpuLoop
    BY <1>1, <2>1 DEF GpuTest, GpuWake, GpuLoop
  <2>2. CASE PopCommand \/ RunCommand \/ CommandsDone \/ GpuPick
    BY <1>1, <2>2 DEF PopCommand, RunCommand, CommandsDone, GpuPick
  <2>3. CASE TaskYields \/ FrameEnds \/ ClearDone \/ GpuIdle
    BY <1>1, <2>3 DEF TaskYields, FrameEnds, ClearDone, GpuIdle
  <2>4. CASE TaskEnds
    BY <1>1, <2>4 DEF TaskEnds
  <2> QED
    BY <1>2, <2>1, <2>2, <2>3, <2>4 DEF Process
<1>3. ASSUME NEW g \in Guests, Step(g) PROVE FlagTypes'
  <2>1. CASE WaitGpuIdle(g) \/ PushSubmit(g) \/ DoneCheck(g) \/ FrameDone(g)
    BY <1>1, <2>1 DEF WaitGpuIdle, PushSubmit, DoneCheck, FrameDone
  <2>2. CASE CountSubmit(g)
    BY <1>1, <2>2 DEF CountSubmit
  <2>3. CASE DoneLock(g)
    <3>1. busy[g] \in BOOLEAN
      BY DEF TypeOK
    <3> QED
      BY <1>1, <2>3, <3>1 DEF DoneLock
  <2>4. CASE SubmitDone(g)
    BY <1>1, <2>4 DEF SubmitDone
  <2> QED
    BY <1>3, <2>1, <2>2, <2>3, <2>4 DEF Step
<1>4. ASSUME NEW g \in Guests, NEW c, Enter(g, c) \/ SendCommand(g, c) PROVE FlagTypes'
  BY <1>1, <1>4 DEF Enter, SendCommand
<1>5. CASE WriteLabel
  BY <1>1, <1>5 DEF WriteLabel
<1> QED
  BY <1>2, <1>3, <1>4, <1>5 DEF Next

\* The rest of the types.
DataTypes ==
    /\ submits \in [Queues -> Seq(Tasks)]
    /\ num_submits \in 0 .. (U32 - 1)
    /\ num_mapped_queues \in 1 .. NumTotalQueues
    /\ command_queue \in Seq(Guests \cup {None})
    /\ gpu \in {"test", "sleep", "loop", "commands", "callback", "pick", "resume",
                "frame", "clear", "idle"}
    /\ curr_qid \in Queues \cup {-1}
    /\ callback \in Guests \cup {None}

GuestTypes ==
    /\ pc \in [Guests -> {"run", "wait_idle", "push", "count", "check", "lock",
                          "submit_done", "frame_done", "acquire"}]
    /\ \A g \in Guests : call[g] \in Program[g] \cup {NoCall}
    /\ todo \in [Guests -> Seq(Kinds \cup {"init"})]
    /\ busy \in [Guests -> BOOLEAN]
    /\ calls \in [Guests -> Nat]

LEMMA TypeParts == TypeOK <=> DataTypes /\ GuestTypes /\ FlagTypes
  BY DEF TypeOK, DataTypes, GuestTypes, FlagTypes

\* A step of Process keeps the types.
LEMMA ProcessTypes ==
    ASSUME TypeInv, Process
    PROVE  DataTypes' /\ GuestTypes' /\ GpuInv' /\ CallInv' /\ \A g \in Guests : GuestInv(g)'
<1>1. DataTypes /\ GuestTypes /\ GpuInv /\ CallInv
  BY TypeParts DEF TypeInv
<1> USE DEF queueVars, gpuVars, lockVars, guestVars, GpuGoes
<1>2. CASE GpuTest \/ GpuWake \/ GpuLoop \/ CommandsDone \/ FrameEnds \/ ClearDone \/ GpuIdle
  <2>1. UNCHANGED <<submits, num_submits, num_mapped_queues, command_queue, callback, resumed,
                    pc, call, todo, busy, calls>>
    BY <1>2 DEF GpuTest, GpuWake, GpuLoop, CommandsDone, FrameEnds, ClearDone, GpuIdle
  <2>2. /\ gpu' \in {"test", "sleep", "loop", "commands", "pick", "resume", "frame", "clear", "idle"}
        /\ gpu' = "resume" => resumed
        /\ resumed => curr_qid' = curr_qid /\ gpu' \in {"commands", "resume"}
        /\ curr_qid' = curr_qid \/ curr_qid' = -1
    BY <1>1, <1>2
    DEF GpuTest, GpuWake, GpuLoop, CommandsDone, FrameEnds, ClearDone, GpuIdle, GpuInv
  <2>3. DataTypes' /\ GuestTypes'
    BY <1>1, <2>1, <2>2 DEF DataTypes, GuestTypes
  <2>4. GpuInv'
    BY <1>1, <2>1, <2>2 DEF GpuInv
  <2> QED
    BY <2>1, <2>3, <2>4, GuestsStill
<1>3. CASE PopCommand
  <2>1. /\ UNCHANGED <<submits, num_submits, num_mapped_queues, curr_qid, resumed,
                       pc, call, todo, busy, calls>>
        /\ gpu = "commands" /\ gpu' = "callback" /\ command_queue # <<>>
        /\ callback' = Head(command_queue) /\ command_queue' = Tail(command_queue)
    BY <1>3 DEF PopCommand
  <2>2. command_queue \in Seq(Guests \cup {None})
    BY <1>1 DEF DataTypes
  <2>3. Head(command_queue) \in Guests \cup {None} /\ Tail(command_queue) \in Seq(Guests \cup {None})
    BY <2>1, <2>2
  <2>4. DataTypes' /\ GuestTypes'
    BY <1>1, <2>1, <2>3 DEF DataTypes, GuestTypes
  <2>5. GpuInv'
    BY <1>1, <2>1 DEF GpuInv
  <2> QED
    BY <2>1, <2>4, <2>5, GuestsStill
<1>4. CASE RunCommand
  <2>1. /\ UNCHANGED <<submits, num_submits, num_mapped_queues, command_queue, curr_qid, resumed,
                       call, todo, busy, calls>>
        /\ gpu = "callback" /\ gpu' = "commands" /\ callback' = None
        /\ pc' = [g \in Guests |-> IF g = callback THEN "run" ELSE pc[g]]
    BY <1>4 DEF RunCommand
  <2>2. DataTypes' /\ GuestTypes' /\ CallInv'
    BY <1>1, <2>1 DEF DataTypes, GuestTypes, CallInv
  <2>3. GpuInv'
    BY <1>1, <2>1 DEF GpuInv
  <2>4. \A g \in Guests : GuestInv(g)'
    BY <2>1 DEF TypeInv, GuestInv
  <2> QED
    BY <2>2, <2>3, <2>4
<1>5. CASE GpuPick
  <2>1. /\ UNCHANGED <<submits, num_submits, num_mapped_queues, command_queue, callback,
                       pc, call, todo, busy, calls>>
        /\ gpu = "pick" /\ curr_qid' = NextQueue
        /\ \/ gpu' = "loop" /\ UNCHANGED resumed
           \/ submits[NextQueue] # <<>> /\ resumed' = TRUE /\ gpu' \in {"resume", "commands"}
    BY <1>5 DEF GpuPick
  <2>2. NextQueue \in Queues
    BY <1>1, LiverpoolAssumption DEF DataTypes, NextQueue, Queues
  <2>3. DataTypes' /\ GuestTypes'
    BY <1>1, <2>1, <2>2 DEF DataTypes, GuestTypes
  <2>4. ~resumed
    BY <1>1, <2>1 DEF GpuInv
  <2>5. GpuInv'
    BY <2>1, <2>2, <2>4 DEF GpuInv
  <2> QED
    BY <2>1, <2>3, <2>5, GuestsStill
<1>6. CASE TaskYields
  <2>1. /\ UNCHANGED <<num_submits, num_mapped_queues, command_queue, callback, curr_qid,
                       pc, call, todo, busy, calls>>
        /\ resumed' = FALSE /\ gpu' = "loop"
    BY <1>6 DEF TaskYields
  <2>2. DataTypes' /\ GuestTypes'
    BY <1>1, <1>6, <2>1, Yielded DEF DataTypes, GuestTypes
  <2>3. GpuInv'
    BY <2>1 DEF GpuInv
  <2> QED
    BY <2>1, <2>2, <2>3, GuestsStill
<1>7. CASE TaskEnds
  <2>1. /\ UNCHANGED <<num_mapped_queues, command_queue, callback, curr_qid,
                       pc, call, todo, busy, calls>>
        /\ resumed' = FALSE /\ gpu' = "loop" /\ num_submits' = (num_submits - 1) % U32
    BY <1>7 DEF TaskEnds, CountedDown
  <2>2. num_submits' \in 0 .. (U32 - 1)
    BY <1>1, <2>1, LiverpoolAssumption DEF DataTypes
  <2>3. DataTypes' /\ GuestTypes'
    BY <1>1, <1>7, <2>1, <2>2, Ended DEF DataTypes, GuestTypes
  <2>4. GpuInv'
    BY <2>1 DEF GpuInv
  <2> QED
    BY <2>1, <2>3, <2>4, GuestsStill
<1> QED
  BY <1>2, <1>3, <1>4, <1>5, <1>6, <1>7 DEF Process

\* A step of a guest thread, or of its CPU, does.
LEMMA GuestStepTypes ==
    ASSUME TypeInv, NEW g \in Guests,
           Step(g) \/ \E c \in Program[g] : Enter(g, c) \/ SendCommand(g, c)
    PROVE  DataTypes' /\ GuestTypes' /\ GpuInv' /\ CallInv' /\ \A h \in Guests : GuestInv(h)'
<1>1. DataTypes /\ GuestTypes /\ GpuInv /\ CallInv /\ \A h \in Guests : GuestInv(h)
  BY TypeParts DEF TypeInv
<1> USE DEF queueVars, gpuVars, lockVars, guestVars, GoTo
<1>2. ASSUME NEW c \in Program[g], Enter(g, c)
      PROVE  DataTypes' /\ GuestTypes' /\ GpuInv' /\ CallInv' /\ \A h \in Guests : GuestInv(h)'
  <2>1. /\ UNCHANGED <<submits, num_submits, num_mapped_queues, command_queue, gpu, curr_qid,
                       callback, resumed, todo, busy>>
        /\ call' = [call EXCEPT ![g] = c] /\ pc' = [pc EXCEPT ![g] = "wait_idle"]
        /\ calls' = [calls EXCEPT ![g] = @ - 1] /\ calls[g] > 0
    BY <1>2 DEF Enter
  <2>2. calls' \in [Guests -> Nat]
    BY <1>1, <2>1 DEF GuestTypes
  <2>3. /\ call'[g] = c /\ pc'[g] = "wait_idle"
        /\ \A h \in Guests \ {g} : call'[h] = call[h] /\ pc'[h] = pc[h]
        /\ CallInv'
    BY <1>1, <2>1 DEF GuestTypes, CallInv
  <2>4. DataTypes' /\ GuestTypes'
    BY <1>1, <2>1, <2>2, <2>3 DEF DataTypes, GuestTypes
  <2>5. \A h \in Guests : GuestInv(h)'
    BY <1>1, <2>1, <2>3 DEF GuestInv
  <2> QED
    BY <2>1, <2>3, <2>4, <2>5, GpuStill
<1>3. ASSUME NEW c \in Program[g], SendCommand(g, c)
      PROVE  DataTypes' /\ GuestTypes' /\ GpuInv' /\ CallInv' /\ \A h \in Guests : GuestInv(h)'
  <2>1. /\ UNCHANGED <<submits, num_submits, num_mapped_queues, gpu, curr_qid,
                       callback, resumed, todo, busy, call>>
        /\ \E where \in {"run", "acquire"} : pc' = [pc EXCEPT ![g] = where]
        /\ \E e \in {g, None} : command_queue' = Append(command_queue, e)
        /\ calls' = [calls EXCEPT ![g] = @ - 1] /\ calls[g] > 0
    BY <1>3 DEF SendCommand
  <2>2. calls' \in [Guests -> Nat]
    BY <1>1, <2>1 DEF GuestTypes
  <2>3. command_queue' \in Seq(Guests \cup {None})
    BY <1>1, <2>1 DEF DataTypes
  <2>4. /\ pc'[g] \in {"run", "acquire"}
        /\ \A h \in Guests \ {g} : pc'[h] = pc[h]
    BY <1>1, <2>1 DEF GuestTypes
  <2>5. DataTypes' /\ GuestTypes' /\ CallInv'
    BY <1>1, <2>1, <2>2, <2>3 DEF DataTypes, GuestTypes, CallInv
  <2>6. \A h \in Guests : GuestInv(h)'
    BY <1>1, <2>1, <2>4 DEF GuestInv
  <2> QED
    BY <2>1, <2>5, <2>6, GpuStill
<1>4. CASE WaitGpuIdle(g)
  <2>1. /\ UNCHANGED <<submits, num_submits, num_mapped_queues, command_queue, gpu, curr_qid,
                       callback, resumed, busy, call, calls>>
        /\ pc[g] = "wait_idle"
        /\ \/ /\ call[g].op = "submit" /\ pc' = [pc EXCEPT ![g] = "push"]
              /\ \E s \in {<<"init">> \o call[g].tasks, call[g].tasks} : todo' = [todo EXCEPT ![g] = s]
           \/ pc' = [pc EXCEPT ![g] = "check"] /\ UNCHANGED todo
    BY <1>4 DEF WaitGpuIdle
  <2>2. call[g] \in Program[g]
    BY <1>1, <2>1 DEF GuestInv
  <2>3. call[g].op = "submit" => call[g].tasks \in Seq(Kinds) /\ call[g].tasks # <<>>
    BY <2>2, LiverpoolAssumption
  <2>4. \A r \in Seq(Kinds) : r # <<>> =>
           /\ r \in Seq(Kinds \cup {"init"})
           /\ <<"init">> \o r \in Seq(Kinds \cup {"init"}) /\ <<"init">> \o r # <<>>
    OBVIOUS
  <2>5. CASE pc' = [pc EXCEPT ![g] = "check"] /\ UNCHANGED todo
    <3>1. pc'[g] = "check" /\ \A h \in Guests \ {g} : pc'[h] = pc[h]
      BY <1>1, <2>5 DEF GuestTypes
    <3>2. DataTypes' /\ GuestTypes' /\ CallInv'
      BY <1>1, <2>1, <2>5 DEF DataTypes, GuestTypes, CallInv
    <3>3. \A h \in Guests : GuestInv(h)'
      BY <1>1, <2>1, <2>5, <3>1 DEF GuestInv
    <3> QED
      BY <2>1, <3>2, <3>3, GpuStill
  <2>6. CASE /\ call[g].op = "submit" /\ pc' = [pc EXCEPT ![g] = "push"]
             /\ \E s \in {<<"init">> \o call[g].tasks, call[g].tasks} : todo' = [todo EXCEPT ![g] = s]
    <3>1. PICK s \in Seq(Kinds \cup {"init"}) : s # <<>> /\ todo' = [todo EXCEPT ![g] = s]
      BY <2>3, <2>4, <2>6
    <3>2. /\ pc'[g] = "push" /\ todo'[g] = s
          /\ \A h \in Guests \ {g} : pc'[h] = pc[h] /\ todo'[h] = todo[h]
      BY <1>1, <2>6, <3>1 DEF GuestTypes
    <3>3. DataTypes' /\ GuestTypes' /\ CallInv'
      BY <1>1, <2>1, <2>6, <3>1 DEF DataTypes, GuestTypes, CallInv
    <3>4. \A h \in Guests : GuestInv(h)'
      BY <1>1, <2>1, <2>2, <2>6, <3>1, <3>2 DEF GuestInv
    <3> QED
      BY <2>1, <3>3, <3>4, GpuStill
  <2> QED
    BY <2>1, <2>5, <2>6
<1>5. CASE PushSubmit(g)
  <2>1. /\ UNCHANGED <<num_submits, num_mapped_queues, command_queue, gpu, curr_qid,
                       callback, resumed, busy, call, calls, todo>>
        /\ pc[g] = "push" /\ pc' = [pc EXCEPT ![g] = "count"]
    BY <1>5 DEF PushSubmit
  <2>2. pc'[g] = "count" /\ \A h \in Guests \ {g} : pc'[h] = pc[h]
    BY <1>1, <2>1 DEF GuestTypes
  <2>3. DataTypes' /\ GuestTypes' /\ CallInv'
    BY <1>1, <1>5, <2>1, Pushed DEF DataTypes, GuestTypes, CallInv
  <2>4. \A h \in Guests : GuestInv(h)'
    BY <1>1, <2>1, <2>2 DEF GuestInv
  <2>5. \A q \in Queues : submits[q] # <<>> => submits'[q] # <<>>
    BY <1>5, Pushed
  <2>6. GpuInv'
    BY <1>1, <2>1, <2>5 DEF GpuInv
  <2> QED
    BY <2>3, <2>4, <2>6
<1>6. CASE CountSubmit(g)
  <2> DEFINE rest == Tail(todo[g])
  <2>1. /\ UNCHANGED <<submits, command_queue, gpu, curr_qid, callback, resumed, busy, calls>>
        /\ pc[g] = "count" /\ num_submits' = (num_submits + 1) % U32
        /\ num_mapped_queues' = Max({num_mapped_queues, call[g].qid + 1})
        /\ todo' = [todo EXCEPT ![g] = rest]
        /\ \/ /\ rest = <<>> /\ pc' = [pc EXCEPT ![g] = "run"]
              /\ call' = [call EXCEPT ![g] = NoCall]
           \/ /\ rest # <<>> /\ pc' = [pc EXCEPT ![g] = "push"]
              /\ call' = [call EXCEPT ![g] = call[g]]
    BY <1>6 DEF CountSubmit
  <2>2. call[g].qid \in Queues /\ rest \in Seq(Kinds \cup {"init"})
    BY <2>1, Submission
  <2>3. num_submits' \in 0 .. (U32 - 1)
    BY SMTT(30), <1>1, <2>1, LiverpoolAssumption DEF DataTypes
  <2>4. num_mapped_queues' \in 1 .. NumTotalQueues
    <3>1. num_mapped_queues \in 1 .. NumTotalQueues /\ call[g].qid + 1 \in 1 .. NumTotalQueues
      BY <1>1, <2>2, LiverpoolAssumption DEF DataTypes, Queues
    <3>2. \E x \in {num_mapped_queues, call[g].qid + 1} :
             \A y \in {num_mapped_queues, call[g].qid + 1} : x >= y
      BY <3>1, LiverpoolAssumption
    <3>3. num_mapped_queues' \in {num_mapped_queues, call[g].qid + 1}
      BY <2>1, <3>2 DEF Max
    <3> QED
      BY <3>1, <3>3
  <2> HIDE DEF rest
  <2>5. /\ todo'[g] = rest /\ \A h \in Guests \ {g} :
                                 todo'[h] = todo[h] /\ pc'[h] = pc[h] /\ call'[h] = call[h]
        /\ \/ pc'[g] = "run" /\ call'[g] = NoCall
           \/ pc'[g] = "push" /\ rest # <<>> /\ call'[g] = call[g]
    BY <1>1, <2>1 DEF GuestTypes, CallInv
  <2>6. CallInv'
    BY <1>1, <2>1 DEF CallInv
  <2>7. DataTypes' /\ GuestTypes'
    <3>1. /\ todo' \in [Guests -> Seq(Kinds \cup {"init"})]
          /\ \A h \in Guests : call'[h] \in Program[h] \cup {NoCall}
          /\ pc' \in [Guests -> {"run", "wait_idle", "push", "count", "check", "lock",
                                 "submit_done", "frame_done", "acquire"}]
      BY <1>1, <2>1, <2>2, <2>5 DEF GuestTypes
    <3> QED
      BY <1>1, <2>1, <2>3, <2>4, <3>1 DEF DataTypes, GuestTypes
  <2>8. \A h \in Guests : GuestInv(h)'
    BY <1>1, <2>1, <2>5 DEF GuestInv
  <2> QED
    BY <2>1, <2>6, <2>7, <2>8, GpuStill
<1>7. CASE DoneCheck(g) \/ DoneLock(g) \/ SubmitDone(g) \/ FrameDone(g)
  <2>1. /\ UNCHANGED <<submits, num_submits, num_mapped_queues, command_queue, gpu, curr_qid,
                       callback, resumed, todo, calls>>
        /\ \E where \in {"lock", "submit_done", "frame_done", "run"} : pc' = [pc EXCEPT ![g] = where]
        /\ call' = call \/ call' = [call EXCEPT ![g] = NoCall]
        /\ \E b \in BOOLEAN : busy' = busy \/ busy' = [busy EXCEPT ![g] = b]
    BY <1>7 DEF DoneCheck, DoneLock, SubmitDone, FrameDone
  <2>2. /\ pc'[g] \notin {"wait_idle", "push", "count"}
        /\ \A h \in Guests \ {g} : pc'[h] = pc[h] /\ call'[h] = call[h]
        /\ call'[g] \in {call[g], NoCall}
    BY <1>1, <2>1 DEF GuestTypes, CallInv
  <2>3. CallInv'
    BY <1>1, <2>1 DEF CallInv
  <2>4. busy' \in [Guests -> BOOLEAN]
    BY <1>1, <2>1 DEF GuestTypes
  <2>5. DataTypes' /\ GuestTypes'
    BY ZenonT(30), <1>1, <2>1, <2>2, <2>4 DEF DataTypes, GuestTypes
  <2>6. \A h \in Guests : GuestInv(h)'
    BY <1>1, <2>1, <2>2 DEF GuestInv
  <2> QED
    BY <2>1, <2>3, <2>5, <2>6, GpuStill
<1> QED
  BY <1>2, <1>3, <1>4, <1>5, <1>6, <1>7 DEF Step

LEMMA TypeNext == TypeInv /\ [Next]_vars => TypeInv'
<1> SUFFICES ASSUME TypeInv, [Next]_vars PROVE TypeInv'
  OBVIOUS
<1>1. TypeOK
  BY DEF TypeInv
<1>2. ASSUME DataTypes', GuestTypes', GpuInv', CallInv', \A g \in Guests : GuestInv(g)', Next
      PROVE  TypeInv'
  <2>1. FlagTypes'
    BY <1>1, <1>2, FlagNext
  <2>2. TypeOK'
    BY <1>2, <2>1 DEF TypeOK, DataTypes, GuestTypes, FlagTypes
  <2> QED
    BY <1>2, <2>2 DEF TypeInv
<1>3. CASE Process
  BY <1>2, <1>3, ProcessTypes DEF Next
<1>4. ASSUME NEW g \in Guests, Step(g) \/ \E c \in Program[g] : Enter(g, c) \/ SendCommand(g, c)
      PROVE  TypeInv'
  BY <1>2, <1>4, GuestStepTypes DEF Next
<1>5. CASE WriteLabel
  <2>1. UNCHANGED <<queueVars, command_queue, submit_done, gpuVars, lockVars, guestVars>>
    BY <1>5 DEF WriteLabel
  <2>2. DataTypes' /\ GuestTypes'
    BY <1>1, <2>1, TypeParts DEF DataTypes, GuestTypes, queueVars, gpuVars, guestVars
  <2> QED
    BY <1>2, <1>5, <2>1, <2>2, GpuStill, GuestsStill DEF Next, queueVars, gpuVars, guestVars
<1>6. CASE UNCHANGED vars
  <2>1. TypeOK'
    BY <1>1, <1>6 DEF vars, TypeOK, queueVars, gpuVars, lockVars, guestVars
  <2> QED
    BY <1>6, <2>1, GpuStill, GuestsStill DEF TypeInv, vars, queueVars, gpuVars, guestVars
<1> QED
  BY <1>3, <1>4, <1>5, <1>6 DEF Next

LEMMA TypeInvariant == Spec => []TypeInv
  BY TypeInit, TypeNext, PTL DEF Spec

\* Every variable keeps its type: Process never resumes or pops a coroutine from
\* an empty queue, and never turns to a queue that is not there.
THEOREM TypeCorrect == Spec => []TypeOK
<1>1. TypeInv => TypeOK
  BY DEF TypeInv
<1> QED
  BY TypeInvariant, <1>1, PTL

-----------------------------------------------------------------------------
(***************************************************************************)
(* The callbacks.                                                          *)
(***************************************************************************)

\* A thread whose callback is pending waits for it, and has only one.
PendInv ==
    /\ \A i \in DOMAIN command_queue :
          command_queue[i] # None => /\ pc[command_queue[i]] = "acquire"
                                     /\ command_queue[i] # callback
    /\ callback # None => pc[callback] = "acquire"
    /\ \A i, j \in DOMAIN command_queue :
          command_queue[i] = command_queue[j] /\ command_queue[i] # None => i = j

LEMMA PendKept ==
    ASSUME TypeInv, PendInv, UNCHANGED <<command_queue, callback>>,
           \A g \in Guests : pc[g] = "acquire" => pc'[g] = "acquire"
    PROVE  PendInv'
<1>1. callback \in Guests \cup {None} /\ \A i \in DOMAIN command_queue : command_queue[i] \in Guests \cup {None}
  BY DEF TypeInv, TypeOK
<1> QED
  BY <1>1 DEF PendInv

\* A guest thread inside a call, but for SendCommand, changes no other one.
LEMMA OneGuest ==
    ASSUME TypeInv, NEW g \in Guests, NEW where, pc' = [pc EXCEPT ![g] = where]
    PROVE  pc'[g] = where /\ \A h \in Guests \ {g} : pc'[h] = pc[h]
  BY DEF TypeInv, TypeOK

LEMMA PendNext == TypeInv /\ PendInv /\ [Next]_vars => PendInv'
<1> SUFFICES ASSUME TypeInv, PendInv, [Next]_vars PROVE PendInv'
  OBVIOUS
<1>1. command_queue \in Seq(Guests \cup {None}) /\ callback \in Guests \cup {None}
  BY DEF TypeInv, TypeOK
<1> USE DEF queueVars, gpuVars, lockVars, guestVars
<1>2. CASE PopCommand
  <2>1. /\ command_queue # <<>> /\ callback' = Head(command_queue)
        /\ command_queue' = Tail(command_queue) /\ UNCHANGED pc
    BY <1>2 DEF PopCommand
  <2> DEFINE c == command_queue
             d == Tail(command_queue)
  <2>2. /\ Len(c) \in Nat \ {0} /\ DOMAIN c = 1 .. Len(c) /\ DOMAIN d = 1 .. (Len(c) - 1)
        /\ Head(c) = c[1] /\ \A i \in 1 .. (Len(c) - 1) : d[i] = c[i + 1]
    BY <1>1, <2>1
  <2>3. command_queue' = d /\ callback' = c[1]
    BY <2>1, <2>2
  <2>4. PendInv <=> /\ \A i \in DOMAIN c : c[i] # None => pc[c[i]] = "acquire" /\ c[i] # callback
                    /\ callback # None => pc[callback] = "acquire"
                    /\ \A i, j \in DOMAIN c : c[i] = c[j] /\ c[i] # None => i = j
    BY DEF PendInv
  <2> HIDE DEF c, d
  <2>5. \A i \in DOMAIN d : i + 1 \in DOMAIN c /\ d[i] = c[i + 1] /\ i + 1 # 1
    BY <2>2
  <2>6. 1 \in DOMAIN c
    BY <2>2
  <2>7. \A i \in DOMAIN d : d[i] # None => pc[d[i]] = "acquire" /\ d[i] # c[1]
    BY <2>4, <2>5, <2>6
  <2>8. \A i, j \in DOMAIN d : d[i] = d[j] /\ d[i] # None => i = j
    <3> SUFFICES ASSUME NEW i \in DOMAIN d, NEW j \in DOMAIN d, d[i] = d[j], d[i] # None PROVE i = j
      OBVIOUS
    <3>1. i + 1 = j + 1
      BY <2>4, <2>5
    <3> QED
      BY <2>2, <3>1
  <2> QED
    BY <2>1, <2>3, <2>4, <2>6, <2>7, <2>8 DEF PendInv
<1>3. CASE RunCommand
  <2>1. /\ UNCHANGED command_queue /\ callback' = None
        /\ pc' = [g \in Guests |-> IF g = callback THEN "run" ELSE pc[g]]
    BY <1>3 DEF RunCommand
  <2> QED
    BY <1>1, <2>1 DEF PendInv
<1>4. ASSUME NEW g \in Guests, NEW c, SendCommand(g, c) PROVE PendInv'
  <2>1. /\ pc[g] = "run" /\ UNCHANGED callback
        /\ \/ command_queue' = Append(command_queue, g) /\ pc' = [pc EXCEPT ![g] = "acquire"]
           \/ command_queue' = Append(command_queue, None) /\ pc' = [pc EXCEPT ![g] = "run"]
    BY <1>4 DEF SendCommand, GoTo
  <2>2. callback # g /\ \A i \in DOMAIN command_queue : command_queue[i] # g
    BY <2>1, LiverpoolAssumption DEF PendInv
  <2>3. PICK e \in {g, None} : /\ command_queue' = Append(command_queue, e)
                               /\ e = g => pc'[g] = "acquire"
                               /\ \A h \in Guests \ {g} : pc'[h] = pc[h]
    BY <2>1, OneGuest, LiverpoolAssumption
  <2> DEFINE c1 == command_queue
             d == Append(command_queue, e)
  <2>4. /\ Len(c1) \in Nat /\ DOMAIN c1 = 1 .. Len(c1) /\ DOMAIN d = 1 .. (Len(c1) + 1)
        /\ d[Len(c1) + 1] = e /\ \A i \in 1 .. Len(c1) : d[i] = c1[i]
        /\ \A i \in 1 .. Len(c1) : c1[i] \in Guests \cup {None}
    BY <1>1
  <2>5. command_queue' = d /\ \A i \in DOMAIN c1 : c1[i] # g
    BY <2>2, <2>3
  <2>6. /\ \A i \in DOMAIN c1 : c1[i] # None => pc[c1[i]] = "acquire" /\ c1[i] # callback
        /\ callback # None => pc[callback] = "acquire"
        /\ \A i, j \in DOMAIN c1 : c1[i] = c1[j] /\ c1[i] # None => i = j
    BY DEF PendInv
  <2> HIDE DEF c1, d
  <2>7. \A i \in DOMAIN d : \/ i = Len(c1) + 1 /\ d[i] = e
                            \/ i \in DOMAIN c1 /\ d[i] = c1[i] /\ d[i] \in Guests \cup {None}
    BY <2>4
  <2>8. \A i \in DOMAIN d : d[i] # None => pc'[d[i]] = "acquire" /\ d[i] # callback
    BY <2>2, <2>3, <2>5, <2>6, <2>7
  <2>9. \A i, j \in DOMAIN d : d[i] = d[j] /\ d[i] # None => i = j
    BY <2>3, <2>5, <2>6, <2>7
  <2>10. callback # None => pc'[callback] = "acquire"
    BY <1>1, <2>2, <2>3, <2>6
  <2> QED
    BY <2>1, <2>5, <2>8, <2>9, <2>10 DEF PendInv
<1>5. CASE Process /\ ~PopCommand /\ ~RunCommand
  <2>1. UNCHANGED <<command_queue, callback, pc>>
    BY <1>5
    DEF Process, GpuTest, GpuWake, GpuLoop, CommandsDone, GpuPick, TaskYields, TaskEnds,
        FrameEnds, ClearDone, GpuIdle
  <2> QED
    BY <2>1, PendKept
<1>6. ASSUME NEW g \in Guests, Step(g) \/ \E c \in Program[g] : Enter(g, c) PROVE PendInv'
  <2>1. /\ UNCHANGED <<command_queue, callback>> /\ pc[g] # "acquire"
        /\ \E where : pc' = [pc EXCEPT ![g] = where]
    BY <1>6
    DEF Step, Enter, WaitGpuIdle, PushSubmit, CountSubmit, DoneCheck, DoneLock, SubmitDone,
        FrameDone, GoTo
  <2>2. \A h \in Guests : pc[h] = "acquire" => pc'[h] = "acquire"
    BY <2>1, OneGuest
  <2> QED
    BY <2>1, <2>2, PendKept
<1>7. CASE WriteLabel \/ UNCHANGED vars
  <2>1. UNCHANGED <<command_queue, callback, pc>>
    BY <1>7 DEF WriteLabel, vars
  <2> QED
    BY <2>1, PendKept
<1> QED
  BY <1>2, <1>3, <1>4, <1>5, <1>6, <1>7 DEF Next

LEMMA PendInvariant == Spec => []PendInv
<1>1. Init => PendInv
  BY DEF Init, PendInv
<1> QED
  BY <1>1, TypeInvariant, PendNext, PTL DEF Spec

-----------------------------------------------------------------------------
(***************************************************************************)
(* The counter.                                                            *)
(***************************************************************************)
CountInv == IsFiniteSet(Coroutines) /\ SubmitsCounted

LEMMA FewCounting ==
    /\ IsFiniteSet(Counting) /\ Cardinality(Counting) \in Nat
    /\ Cardinality(Counting) <= Cardinality(Guests) /\ Cardinality(Guests) \in Nat
<1>1. Counting \in SUBSET Guests
  BY DEF Counting
<1>2. IsFiniteSet(Counting) /\ Cardinality(Counting) <= Cardinality(Guests)
  BY <1>1, LiverpoolAssumption, FS_Subset
<1> QED
  BY <1>2, LiverpoolAssumption, FS_CardinalityType

\* A coroutine is a place on a queue.
LEMMA Places == \A q, i : <<q, i>> \in Coroutines <=> q \in Queues /\ i \in DOMAIN submits[q]
<1> SUFFICES ASSUME NEW q, NEW i
             PROVE  <<q, i>> \in Coroutines <=> q \in Queues /\ i \in DOMAIN submits[q]
  OBVIOUS
<1> QED
  BY DEF Coroutines

LEMMA CountKept ==
    ASSUME CountInv, UNCHANGED <<num_submits>>, Coroutines' = Coroutines, Counting' = Counting
    PROVE  CountInv'
  BY DEF CountInv, SubmitsCounted, Queued

LEMMA SameCoroutines ==
    ASSUME \A q \in Queues : DOMAIN submits'[q] = DOMAIN submits[q]
    PROVE  Coroutines' = Coroutines
  BY DEF Coroutines

LEMMA CountNext == TypeInv /\ PendInv /\ CountInv /\ [Next]_vars => CountInv'
<1> SUFFICES ASSUME TypeInv, PendInv, CountInv, [Next]_vars PROVE CountInv'
  OBVIOUS
<1> DEFINE n == Cardinality(Coroutines)
           k == Cardinality(Counting)
<1>1. IsFiniteSet(Coroutines) /\ n \in Nat /\ k \in Nat /\ num_submits = (n - k) % U32
  BY FewCounting, FS_CardinalityType DEF CountInv, SubmitsCounted, Queued
<1>2. U32 \in Nat \ {0} /\ n - k \in Int
  BY <1>1, LiverpoolAssumption
<1> USE DEF queueVars, gpuVars, lockVars, guestVars
<1>3. CASE TaskEnds
  <2> DEFINE q == curr_qid
             l == Len(submits[curr_qid])
             e == <<q, l>>
  <2>1. /\ q \in Queues /\ l \in Nat \ {0} /\ DOMAIN submits[q] = 1 .. l
        /\ DOMAIN submits'[q] = 1 .. (l - 1)
        /\ \A x \in Queues \ {q} : submits'[x] = submits[x]
    BY <1>3, Ended
  <2>2. UNCHANGED <<pc, curr_qid>> /\ num_submits' = (num_submits - 1) % U32
    BY <1>3 DEF TaskEnds, CountedDown
  <2> HIDE DEF q, l
  <2>3. e \in Coroutines
    BY <2>1, Places
  <2>4. Coroutines' = Coroutines \ {e}
    <3>1. \A x \in Queues : {x} \X DOMAIN submits'[x] = ({x} \X DOMAIN submits[x]) \ {e}
      <4> SUFFICES ASSUME NEW x \in Queues
                   PROVE  {x} \X DOMAIN submits'[x] = ({x} \X DOMAIN submits[x]) \ {e}
        OBVIOUS
      <4>1. CASE x = q
        <5>1. DOMAIN submits'[x] = DOMAIN submits[x] \ {l}
          BY <2>1, <4>1
        <5> QED
          BY <4>1, <5>1
      <4>2. CASE x # q
        BY <2>1, <4>2
      <4> QED
        BY <4>1, <4>2
    <3> QED
      BY <3>1 DEF Coroutines
  <2> HIDE DEF e
  <2>5. IsFiniteSet(Coroutines') /\ Cardinality(Coroutines') = n - 1
    BY <1>1, <2>3, <2>4, FS_RemoveElement
  <2>6. Counting' = Counting
    BY <2>2 DEF Counting
  <2>7. num_submits' = ((n - k) - 1) % U32
    BY <1>1, <1>2, <2>2, ModDown
  <2>8. (n - k) - 1 = (n - 1) - k
    BY <1>1
  <2> QED
    BY <2>5, <2>6, <2>7, <2>8 DEF CountInv, SubmitsCounted, Queued
<1>4. CASE TaskYields
  <2>1. Coroutines' = Coroutines
    BY <1>4, Yielded, SameCoroutines
  <2>2. UNCHANGED <<pc, num_submits>>
    BY <1>4 DEF TaskYields
  <2> QED
    BY <2>1, <2>2, CountKept DEF Counting
<1>5. CASE RunCommand
  <2>1. /\ UNCHANGED <<submits, num_submits>>
        /\ pc' = [g \in Guests |-> IF g = callback THEN "run" ELSE pc[g]]
    BY <1>5 DEF RunCommand
  <2>2. \A g \in Guests : g = callback => pc[g] = "acquire"
    BY LiverpoolAssumption DEF PendInv
  <2>3. Counting' = Counting
    BY <2>1, <2>2 DEF Counting
  <2> QED
    BY <2>1, <2>3, CountKept DEF Coroutines
<1>6. CASE Process /\ ~TaskEnds /\ ~TaskYields /\ ~RunCommand
  <2>1. UNCHANGED <<submits, num_submits, pc>>
    BY <1>6
    DEF Process, GpuTest, GpuWake, GpuLoop, PopCommand, CommandsDone, GpuPick, FrameEnds,
        ClearDone, GpuIdle
  <2> QED
    BY <2>1, CountKept DEF Coroutines, Counting
<1>7. ASSUME NEW g \in Guests, PushSubmit(g) PROVE CountInv'
  <2> DEFINE q == call[g].qid
             l == Len(submits[call[g].qid])
             e == <<q, l + 1>>
  <2>1. /\ q \in Queues /\ l \in Nat /\ DOMAIN submits[q] = 1 .. l
        /\ DOMAIN submits'[q] = 1 .. (l + 1)
        /\ \A x \in Queues \ {q} : submits'[x] = submits[x]
    BY <1>7, Pushed
  <2>2. UNCHANGED num_submits /\ pc[g] = "push" /\ pc'[g] = "count" /\ \A h \in Guests \ {g} : pc'[h] = pc[h]
    BY <1>7, OneGuest DEF PushSubmit, GoTo
  <2> HIDE DEF q, l
  <2>3. e \notin Coroutines
    BY <2>1, Places
  <2>4. Coroutines' = Coroutines \cup {e}
    <3>1. \A x \in Queues \ {q} : {x} \X DOMAIN submits'[x] = {x} \X DOMAIN submits[x]
      BY <2>1
    <3>2. {q} \X DOMAIN submits'[q] = ({q} \X DOMAIN submits[q]) \cup {e}
      <4>1. DOMAIN submits'[q] = DOMAIN submits[q] \cup {l + 1}
        BY <2>1
      <4> QED
        BY <4>1
    <3> HIDE DEF e
    <3> QED
      BY <2>1, <3>1, <3>2 DEF Coroutines
  <2> HIDE DEF e
  <2>5. IsFiniteSet(Coroutines') /\ Cardinality(Coroutines') = n + 1
    BY <1>1, <2>3, <2>4, FS_AddElement
  <2>6. Counting' = Counting \cup {g} /\ g \notin Counting
    BY <2>2 DEF Counting
  <2>7. Cardinality(Counting') = k + 1
    BY <2>6, FewCounting, FS_AddElement
  <2>8. n - k = (n + 1) - (k + 1)
    BY <1>1
  <2> QED
    BY <1>1, <2>2, <2>5, <2>7, <2>8 DEF CountInv, SubmitsCounted, Queued
<1>8. ASSUME NEW g \in Guests, CountSubmit(g) PROVE CountInv'
  <2>1. /\ UNCHANGED submits /\ num_submits' = (num_submits + 1) % U32 /\ pc[g] = "count"
        /\ \E where \in {"run", "push"} : pc' = [pc EXCEPT ![g] = where]
    BY <1>8 DEF CountSubmit, GoTo
  <2>2. pc'[g] # "count" /\ \A h \in Guests \ {g} : pc'[h] = pc[h]
    BY <2>1, OneGuest
  <2>3. Counting' = Counting \ {g} /\ g \in Counting
    BY <2>1, <2>2 DEF Counting
  <2>4. Cardinality(Counting') = k - 1
    BY <2>3, FewCounting, FS_RemoveElement
  <2>5. Coroutines' = Coroutines
    BY <2>1 DEF Coroutines
  <2>6. num_submits' = ((n - k) + 1) % U32
    BY <1>1, <1>2, <2>1, ModUp
  <2>7. (n - k) + 1 = n - (k - 1)
    BY <1>1
  <2> QED
    BY <1>1, <2>4, <2>5, <2>6, <2>7 DEF CountInv, SubmitsCounted, Queued
<1>9. ASSUME NEW g \in Guests,
             \/ WaitGpuIdle(g) \/ DoneCheck(g) \/ DoneLock(g) \/ SubmitDone(g) \/ FrameDone(g)
             \/ \E c \in Program[g] : Enter(g, c) \/ SendCommand(g, c)
      PROVE  CountInv'
  <2>1. /\ UNCHANGED <<submits, num_submits>> /\ pc[g] # "count"
        /\ \E where : where # "count" /\ pc' = [pc EXCEPT ![g] = where]
    BY <1>9 DEF WaitGpuIdle, DoneCheck, DoneLock, SubmitDone, FrameDone, Enter, SendCommand,
       GoTo
  <2>2. pc'[g] # "count" /\ \A h \in Guests \ {g} : pc'[h] = pc[h]
    BY <2>1, OneGuest
  <2>3. Counting' = Counting
    BY <2>1, <2>2 DEF Counting
  <2> QED
    BY <2>1, <2>3, CountKept DEF Coroutines
<1>10. CASE WriteLabel \/ UNCHANGED vars
  <2>1. UNCHANGED <<submits, num_submits, pc>>
    BY <1>10 DEF WriteLabel, vars
  <2> QED
    BY <2>1, CountKept DEF Coroutines, Counting
<1> QED
  BY <1>3, <1>4, <1>5, <1>6, <1>7, <1>8, <1>9, <1>10 DEF Next, Step

LEMMA CountInit == Init => CountInv
<1> SUFFICES ASSUME Init PROVE CountInv
  OBVIOUS
<1>1. submits = [q \in Queues |-> <<>>] /\ pc = [g \in Guests |-> "run"] /\ num_submits = 0
  BY DEF Init
<1>2. Coroutines = {}
  BY <1>1 DEF Coroutines
<1>3. Counting = {}
  BY <1>1 DEF Counting
<1>4. IsFiniteSet(Coroutines) /\ Cardinality(Coroutines) = 0 /\ Cardinality(Counting) = 0
  BY <1>2, <1>3, FS_EmptySet
<1>5. (0 - 0) % U32 = 0
  BY LiverpoolAssumption
<1> QED
  BY <1>1, <1>4, <1>5 DEF CountInv, SubmitsCounted, Queued

LEMMA CountInvariant == Spec => []CountInv
  BY CountInit, CountNext, TypeInvariant, PendInvariant, PTL DEF Spec

\* num_submits counts the coroutines on the queues, but for the threads between
\* the queue and ++num_submits, modulo its width: it may pass below zero when
\* Process ends a coroutine that is not counted yet, and always comes back.
THEOREM SubmitsCountedHolds == Spec => []SubmitsCounted
<1>1. CountInv => SubmitsCounted
  BY DEF CountInv
<1> QED
  BY CountInvariant, <1>1, PTL

-----------------------------------------------------------------------------
(***************************************************************************)
(* The sleep of Process.                                                   *)
(***************************************************************************)
SleepInv == gpu = "sleep" /\ ~notified => command_queue = <<>> /\ ~submit_done /\ num_submits = 0

LEMMA SleepNext == SleepInv /\ [Next]_vars => SleepInv'
<1> SUFFICES ASSUME SleepInv, [Next]_vars PROVE SleepInv'
  OBVIOUS
<1> USE DEF queueVars, gpuVars, lockVars, guestVars, SleepInv, GpuGoes, Notify
<1>1. CASE GpuTest
  BY <1>1 DEF GpuTest, Work
<1>2. CASE Process /\ ~GpuTest
  <2>1. gpu' # "sleep"
    BY <1>2
    DEF Process, GpuWake, GpuLoop, PopCommand, RunCommand, CommandsDone, GpuPick, TaskYields,
        TaskEnds, FrameEnds, ClearDone, GpuIdle
  <2> QED
    BY <2>1
<1>3. ASSUME NEW g \in Guests, Step(g) PROVE SleepInv'
  <2>1. CASE WaitGpuIdle(g) \/ PushSubmit(g) \/ DoneCheck(g) \/ DoneLock(g) \/ FrameDone(g)
    BY <2>1 DEF WaitGpuIdle, PushSubmit, DoneCheck, DoneLock, FrameDone
  <2>2. CASE CountSubmit(g) \/ SubmitDone(g)
    BY <2>2 DEF CountSubmit, SubmitDone
  <2> QED
    BY <1>3, <2>1, <2>2 DEF Step
<1>4. ASSUME NEW g \in Guests, NEW c, Enter(g, c) \/ SendCommand(g, c) PROVE SleepInv'
  BY <1>4 DEF Enter, SendCommand
<1>5. CASE WriteLabel \/ UNCHANGED vars
  BY <1>5 DEF WriteLabel, vars
<1> QED
  BY <1>1, <1>2, <1>3, <1>4, <1>5 DEF Next

LEMMA SleepInvariant == Spec => []SleepInv
<1>1. Init => SleepInv
  BY DEF Init, SleepInv
<1> QED
  BY <1>1, SleepNext, PTL DEF Spec

\* The counter has not gone all the way round: fewer coroutines are queued, and
\* fewer threads submit, than a u32 has values.
Fits == Queued < U32 /\ Cardinality(Guests) < U32

\* Process does not sleep on a callback, on the end of a frame or on a coroutine
\* that has been counted, while nobody is about to wake it, unless num_submits
\* has wrapped to zero over as many queued coroutines as it can count.
THEOREM NoSleepOnWorkHolds == Spec => [](Fits => NoSleepOnWork)
<1>1. CountInv /\ SleepInv /\ Fits => NoSleepOnWork
  <2> SUFFICES ASSUME CountInv, SleepInv, Fits, gpu = "sleep", ~notified
               PROVE  command_queue = <<>> /\ ~submit_done /\ Queued = Cardinality(Counting)
    BY DEF NoSleepOnWork
  <2> DEFINE n == Queued
             k == Cardinality(Counting)
  <2>1. n \in Nat /\ k \in Nat /\ n < U32 /\ k < U32
    BY FewCounting, FS_CardinalityType, LiverpoolAssumption DEF CountInv, Queued, Fits
  <2>2. (n - k) % U32 = 0 /\ U32 \in Nat \ {0}
    BY LiverpoolAssumption DEF CountInv, SubmitsCounted, SleepInv
  <2> HIDE DEF n, k
  <2>3. n - k \in Int /\ -U32 < n - k /\ n - k < U32
    BY <2>1, <2>2
  <2>4. n - k = 0
    BY <2>2, <2>3, ModZero
  <2>5. n = k
    BY <2>1, <2>4
  <2> QED
    BY <2>5 DEF n, k, SleepInv
<1> QED
  BY CountInvariant, SleepInvariant, <1>1, PTL

=============================================================================
