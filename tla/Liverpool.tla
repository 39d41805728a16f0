----------------------------- MODULE Liverpool -----------------------------
(***************************************************************************)
(* The GPU command processor: Liverpool of video_core/amdgpu, with the     *)
(* calls of core/libraries/gnmdriver that feed it.                         *)
(*                                                                         *)
(* Guest threads put coroutines (a command buffer each) on the queues and  *)
(* callbacks on command_queue; one host thread, Process, runs them.  It    *)
(* resumes the first coroutine of each queue in turn; one that waits for   *)
(* memory yields.  sceGnmSubmitDone ends a frame: if the GPU is busy it    *)
(* takes submission_lock, which the GpuIdle interrupt gives back.          *)
(*                                                                         *)
(* A command buffer is one packet: "work" runs through, "wait" is a        *)
(* WAIT_REG_MEM on a label that the guest's CPU writes, "init" is the      *)
(* InitSequence.  num_submits is raised after the coroutine has been       *)
(* queued, so Process can finish it before it is counted.                  *)
(***************************************************************************)
EXTENDS Integers, Sequences, FiniteSets, FiniteSetsExt

CONSTANTS
    Guests,          \* the guest threads
    NumTotalQueues,  \* GfxQueueId is 0, the compute queues follow
    U32,             \* the modulus of the counter num_submits
    Program,         \* the calls each thread makes (a bound on the guest)
    Budget,          \* and how many of them
    None

Kinds == {"work", "wait"}
Queues == 0 .. (NumTotalQueues - 1)

ASSUME LiverpoolAssumption ==
    /\ NumTotalQueues \in Nat \ {0}
    /\ U32 \in Nat \ {0}
    /\ \A g \in Guests : \A c \in Program[g] :
          /\ c.op \in {"submit", "done", "read", "flip"}
          /\ c.op = "submit" => c.qid \in Queues /\ c.tasks \in Seq(Kinds) \ {<<>>}
    /\ Budget \in [Guests -> Nat]
    /\ IsFiniteSet(Guests) /\ None \notin Guests

VARIABLES
    \* members of Liverpool
    submits,             \* mapped_queues[q].submits
    num_submits, num_mapped_queues,
    command_queue,       \* the thread to release after the callback, or None
    submit_done,
    \* the Process thread
    gpu,                 \* where it is
    notified,            \* submit_cv was notified while it slept
    curr_qid,
    callback,            \* the callback taken from command_queue
    resumed,             \* inside a coroutine
    \* gnmdriver.cpp
    submission_lock, send_init_packet,
    \* the guest
    pc, call, todo,      \* the call, and what it has still to submit
    busy,                \* what IsGpuIdle told sceGnmSubmitDone
    calls,               \* calls left
    label,               \* the memory that "wait" looks at
    owed                 \* since a submitDone found it busy the GPU was not idle

gpuVars == <<gpu, notified, curr_qid, callback, resumed>>
queueVars == <<submits, num_submits, num_mapped_queues>>
lockVars == <<submission_lock, send_init_packet, owed>>
guestVars == <<pc, call, todo, busy, calls>>
vars == <<queueVars, command_queue, submit_done, gpuVars, lockVars, guestVars, label>>

Tasks == [kind : Kinds \cup {"init"}, started : BOOLEAN]
NoCall == [op |-> "none"]

TypeOK ==
    /\ submits \in [Queues -> Seq(Tasks)]
    /\ num_submits \in 0 .. (U32 - 1)
    /\ num_mapped_queues \in 1 .. NumTotalQueues
    /\ command_queue \in Seq(Guests \cup {None})
    /\ submit_done \in BOOLEAN
    /\ gpu \in {"test", "sleep", "loop", "commands", "callback", "pick", "resume",
                "frame", "clear", "idle"}
    /\ notified \in BOOLEAN
    /\ curr_qid \in Queues \cup {-1}
    /\ callback \in Guests \cup {None}
    /\ resumed \in BOOLEAN
    /\ submission_lock \in BOOLEAN
    /\ send_init_packet \in BOOLEAN
    /\ pc \in [Guests -> {"run", "wait_idle", "push", "count", "check", "lock",
                          "submit_done", "frame_done", "acquire"}]
    /\ \A g \in Guests : call[g] \in Program[g] \cup {NoCall}
    /\ todo \in [Guests -> Seq(Kinds \cup {"init"})]
    /\ busy \in [Guests -> BOOLEAN]
    /\ calls \in [Guests -> Nat]
    /\ label \in BOOLEAN
    /\ owed \in BOOLEAN

Init ==
    /\ submits = [q \in Queues |-> <<>>]
    /\ num_submits = 0
    /\ num_mapped_queues = 1
    /\ command_queue = <<>>
    /\ submit_done = FALSE
    /\ gpu = "test"
    /\ notified = FALSE
    /\ curr_qid = -1
    /\ callback = None
    /\ resumed = FALSE
    /\ submission_lock = FALSE
    /\ send_init_packet = TRUE
    /\ pc = [g \in Guests |-> "run"]
    /\ call = [g \in Guests |-> NoCall]
    /\ todo = [g \in Guests |-> <<>>]
    /\ busy = [g \in Guests |-> FALSE]
    /\ calls = Budget
    /\ label = FALSE
    /\ owed = FALSE

GoTo(g, where) == pc' = [pc EXCEPT ![g] = where]
GpuGoes(where) == gpu' = where

\* submit_cv.notify_one(): Process is the only thread that waits on it.
Notify == notified' = (notified \/ gpu = "sleep")

-----------------------------------------------------------------------------
\* Process: there is something to do.  The test and the sleep are one step
\* under submit_mutex.  (WorkSeen is a mutant that overlooks submit_done.)
WorkSeen == command_queue # <<>> \/ num_submits # 0
Work == command_queue # <<>> \/ num_submits # 0 \/ submit_done

GpuTest ==
    /\ gpu = "test"
    /\ IF Work THEN GpuGoes("loop") /\ curr_qid' = -1
               ELSE GpuGoes("sleep") /\ UNCHANGED curr_qid
    /\ notified' = FALSE
    /\ UNCHANGED <<queueVars, command_queue, submit_done, callback, resumed, lockVars,
                   guestVars, label>>

GpuWake ==
    /\ gpu = "sleep"
    /\ notified
    /\ GpuGoes("test")
    /\ UNCHANGED <<queueVars, command_queue, submit_done, notified, curr_qid, callback,
                   resumed, lockVars, guestVars, label>>

\* while (num_submits || num_commands).  num_commands is the length of
\* command_queue: both change under submit_mutex.
GpuLoop ==
    /\ gpu = "loop"
    /\ GpuGoes(IF num_submits # 0 \/ command_queue # <<>> THEN "commands" ELSE "frame")
    /\ UNCHANGED <<queueVars, command_queue, submit_done, notified, curr_qid, callback,
                   resumed, lockVars, guestVars, label>>

\* ProcessCommands, called by the loop and by a coroutine before its packet.
PopCommand ==
    /\ gpu = "commands"
    /\ command_queue # <<>>
    /\ callback' = Head(command_queue)
    /\ command_queue' = Tail(command_queue)
    /\ GpuGoes("callback")
    /\ UNCHANGED <<queueVars, submit_done, notified, curr_qid, resumed, lockVars,
                   guestVars, label>>

RunCommand ==
    /\ gpu = "callback"
    /\ pc' = [g \in Guests |-> IF g = callback THEN "run" ELSE pc[g]]
    /\ callback' = None
    /\ GpuGoes("commands")
    /\ UNCHANGED <<queueVars, command_queue, submit_done, notified, curr_qid, resumed,
                   lockVars, call, todo, busy, calls, label>>

CommandsDone ==
    /\ gpu = "commands"
    /\ command_queue = <<>>
    /\ GpuGoes(IF resumed THEN "resume" ELSE "pick")
    /\ UNCHANGED <<queueVars, command_queue, submit_done, notified, curr_qid, callback,
                   resumed, lockVars, guestVars, label>>

\* The next queue in turn.  (SameQueue is a mutant.)
SameQueue == IF curr_qid = -1 THEN 0 ELSE curr_qid
NextQueue == (curr_qid + 1) % num_mapped_queues

GpuPick ==
    /\ gpu = "pick"
    /\ curr_qid' = NextQueue
    /\ LET s == submits[NextQueue]
       IN  IF s = <<>> THEN GpuGoes("loop") /\ UNCHANGED resumed
           ELSE /\ resumed' = TRUE
                /\ GpuGoes(IF Head(s).started THEN "resume" ELSE "commands")
    /\ UNCHANGED <<queueVars, command_queue, submit_done, notified, callback, lockVars,
                   guestVars, label>>

Waits(task) == task.kind = "wait" /\ ~label

TaskYields ==
    /\ gpu = "resume"
    /\ Waits(Head(submits[curr_qid]))
    /\ submits' = [submits EXCEPT ![curr_qid][1].started = TRUE]
    /\ resumed' = FALSE
    /\ GpuGoes("loop")
    /\ UNCHANGED <<num_submits, num_mapped_queues, command_queue, submit_done, notified,
                   curr_qid, callback, lockVars, guestVars, label>>

\* The coroutine ends and is popped, and the u32 counted down.  (PopAll and
\* CountedDownSigned are mutants.)
PopAll(s) == <<>>
Pop(s) == Tail(s)
CountedDownSigned == num_submits - 1
CountedDown == (num_submits - 1) % U32
TaskEnds ==
    /\ gpu = "resume"
    /\ ~Waits(Head(submits[curr_qid]))
    /\ submits' = [submits EXCEPT ![curr_qid] = Pop(@)]
    /\ num_submits' = CountedDown
    /\ owed' = (owed /\ num_submits' # 0)
    /\ resumed' = FALSE
    /\ GpuGoes("loop")
    /\ UNCHANGED <<num_mapped_queues, command_queue, submit_done, notified, curr_qid,
                   callback, submission_lock, send_init_packet, guestVars, label>>

\* if (submit_done): OnSubmit and Flush; the flag is reset after them.
FrameEnds ==
    /\ gpu = "frame"
    /\ GpuGoes(IF submit_done THEN "clear" ELSE "idle")
    /\ UNCHANGED <<queueVars, command_queue, submit_done, notified, curr_qid, callback,
                   resumed, lockVars, guestVars, label>>

ClearDone ==
    /\ gpu = "clear"
    /\ submit_done' = FALSE
    /\ GpuGoes("idle")
    /\ UNCHANGED <<queueVars, command_queue, notified, curr_qid, callback, resumed,
                   lockVars, guestVars, label>>

\* The GpuIdle interrupt: ResetSubmissionLock.
GpuIdle ==
    /\ gpu = "idle"
    /\ submission_lock' = FALSE
    /\ GpuGoes("test")
    /\ UNCHANGED <<queueVars, command_queue, submit_done, notified, curr_qid, callback,
                   resumed, send_init_packet, owed, guestVars, label>>

-----------------------------------------------------------------------------
\* A guest thread makes a call.  sceGnmSubmitCommandBuffers, sceGnmDingDong
\* and sceGnmSubmitDone begin with WaitGpuIdle.
Enter(g, c) ==
    /\ pc[g] = "run"
    /\ calls[g] > 0
    /\ c \in Program[g]
    /\ c.op \in {"submit", "done"}
    /\ call' = [call EXCEPT ![g] = c]
    /\ calls' = [calls EXCEPT ![g] = @ - 1]
    /\ GoTo(g, "wait_idle")
    /\ UNCHANGED <<queueVars, command_queue, submit_done, gpuVars, lockVars, todo, busy,
                   label>>

\* The first submission of a frame to the graphics queue is preceded by the
\* InitSequence.
WaitGpuIdle(g) ==
    /\ pc[g] = "wait_idle"
    /\ ~submission_lock
    /\ IF call[g].op = "submit"
       THEN /\ GoTo(g, "push")
            /\ todo' = [todo EXCEPT ![g] =
                           IF call[g].qid = 0 /\ send_init_packet
                           THEN <<"init">> \o call[g].tasks ELSE call[g].tasks]
       ELSE GoTo(g, "check") /\ UNCHANGED todo
    /\ UNCHANGED <<queueVars, command_queue, submit_done, gpuVars, lockVars, call, busy,
                   calls, label>>

\* SubmitGfx and SubmitAsc: queue the coroutine, then count it under
\* submit_mutex.
PushSubmit(g) ==
    /\ pc[g] = "push"
    /\ submits' = [submits EXCEPT ![call[g].qid] =
                      Append(@, [kind |-> Head(todo[g]), started |-> FALSE])]
    /\ GoTo(g, "count")
    /\ UNCHANGED <<num_submits, num_mapped_queues, command_queue, submit_done, gpuVars,
                   lockVars, call, todo, busy, calls, label>>

CountSubmit(g) ==
    LET rest == Tail(todo[g])
    IN  /\ pc[g] = "count"
        /\ num_submits' = (num_submits + 1) % U32
        /\ num_mapped_queues' = Max({num_mapped_queues, call[g].qid + 1})
        /\ Notify
        /\ send_init_packet' = (send_init_packet /\ Head(todo[g]) # "init")
        /\ todo' = [todo EXCEPT ![g] = rest]
        /\ GoTo(g, IF rest = <<>> THEN "run" ELSE "push")
        /\ call' = [call EXCEPT ![g] = IF rest = <<>> THEN NoCall ELSE @]
        /\ UNCHANGED <<submits, command_queue, submit_done, gpu, curr_qid, callback,
                       resumed, submission_lock, owed, busy, calls, label>>

\* sceGnmSubmitDone: IsGpuIdle, submission_lock, Liverpool::SubmitDone,
\* send_init_packet.
DoneCheck(g) ==
    /\ pc[g] = "check"
    /\ busy' = [busy EXCEPT ![g] = num_submits # 0]
    /\ GoTo(g, "lock")
    /\ UNCHANGED <<queueVars, command_queue, submit_done, gpuVars, lockVars, call, todo,
                   calls, label>>

DoneLock(g) ==
    /\ pc[g] = "lock"
    /\ submission_lock' = (submission_lock \/ busy[g])
    /\ owed' = (owed \/ (busy[g] /\ num_submits # 0))
    /\ busy' = [busy EXCEPT ![g] = FALSE]
    /\ GoTo(g, "submit_done")
    /\ UNCHANGED <<queueVars, command_queue, submit_done, gpuVars, send_init_packet, call,
                   todo, calls, label>>

SubmitDone(g) ==
    /\ pc[g] = "submit_done"
    /\ submit_done' = TRUE
    /\ Notify
    /\ GoTo(g, "frame_done")
    /\ UNCHANGED <<queueVars, command_queue, gpu, curr_qid, callback, resumed, lockVars,
                   call, todo, busy, calls, label>>

FrameDone(g) ==
    /\ pc[g] = "frame_done"
    /\ send_init_packet' = TRUE
    /\ call' = [call EXCEPT ![g] = NoCall]
    /\ GoTo(g, "run")
    /\ UNCHANGED <<queueVars, command_queue, submit_done, gpuVars, submission_lock, owed,
                   todo, busy, calls, label>>

\* SendCommand<true> (a read of memory the GPU has modified) waits until its
\* callback has run, SendCommand (a flip) does not.
SendCommand(g, c) ==
    /\ pc[g] = "run"
    /\ calls[g] > 0
    /\ c \in Program[g]
    /\ c.op \in {"read", "flip"}
    /\ command_queue' = Append(command_queue, IF c.op = "read" THEN g ELSE None)
    /\ Notify
    /\ calls' = [calls EXCEPT ![g] = @ - 1]
    /\ GoTo(g, IF c.op = "read" THEN "acquire" ELSE "run")
    /\ UNCHANGED <<queueVars, submit_done, gpu, curr_qid, callback, resumed, lockVars,
                   call, todo, busy, label>>

\* The guest's CPU writes the label.
WriteLabel ==
    /\ ~label
    /\ label' = TRUE
    /\ UNCHANGED <<queueVars, command_queue, submit_done, gpuVars, lockVars, guestVars>>

-----------------------------------------------------------------------------
Process ==
    \/ GpuTest \/ GpuWake \/ GpuLoop \/ PopCommand \/ RunCommand \/ CommandsDone
    \/ GpuPick \/ TaskYields \/ TaskEnds \/ FrameEnds \/ ClearDone \/ GpuIdle

Step(g) ==
    \/ WaitGpuIdle(g) \/ PushSubmit(g) \/ CountSubmit(g)
    \/ DoneCheck(g) \/ DoneLock(g) \/ SubmitDone(g) \/ FrameDone(g)

Next ==
    \/ Process
    \/ \E g \in Guests :
          \/ Step(g)
          \/ \E c \in Program[g] : Enter(g, c) \/ SendCommand(g, c)
    \/ WriteLabel

Spec == Init /\ [][Next]_vars

\* The host runs Process and every guest thread inside a call, and the guest
\* writes the labels that its command buffers wait for.
LiveSpec ==
    /\ Spec
    /\ WF_vars(Process)
    /\ \A g \in Guests : WF_vars(Step(g))
    /\ WF_vars(WriteLabel)

-----------------------------------------------------------------------------
Counting == {g \in Guests : pc[g] = "count"}
Coroutines == UNION {{q} \X DOMAIN submits[q] : q \in Queues}
Queued == Cardinality(Coroutines)

\* num_submits counts the queued coroutines but for those whose SubmitGfx or
\* SubmitAsc has not reached ++num_submits; it passes below zero when one of
\* them ends first, and comes back.
SubmitsCounted == num_submits = (Queued - Cardinality(Counting)) % U32

\* Process sleeps, with nobody about to wake it, only when there is no
\* callback, no frame to end, and no coroutine but those not counted yet.
NoSleepOnWork ==
    gpu = "sleep" /\ ~notified =>
        /\ command_queue = <<>>
        /\ ~submit_done
        /\ Queued = Cardinality(Counting)

\* gnmdriver.cpp:66: "In case if `submitDone` is issued we need to block
\* submissions until GPU idle".
SubmissionsBlocked == owed => submission_lock

\* No guest thread is left inside a call: submission_lock is given back, and
\* a callback sent to Process is run.
CallsReturn == \A g \in Guests : pc[g] # "run" ~> pc[g] = "run"

=============================================================================
