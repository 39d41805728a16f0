--------------------------- MODULE FlightRecorder ---------------------------
(***************************************************************************)
(* The crash-safe trace of the Graphics Lab: the flight recorder of        *)
(* graphics_lab/diagnostics, the trace probe that feeds it, the shutdown   *)
(* and crash paths of the emulator around it, and the collector process    *)
(* that decodes the file.                                                  *)
(*                                                                         *)
(* Any thread records events in a ring that is mapped from a file, without *)
(* a lock: the slot of event n is (n - 1) % capacity.  The collector reads *)
(* the file while the emulator may still be writing it.  A thread that     *)
(* crashes marks the header and then runs the same Emulator::Shutdown as a *)
(* thread that exits; the process may also be killed at any moment.        *)
(*                                                                         *)
(* Left out: the flushes (the mapping is coherent for the collector), the  *)
(* write_sequence that nobody reads, and the minidump.  A thread that is   *)
(* still inside the recorder when it is closed and its module unloaded     *)
(* faults, and its own crash event is refused: it is still dispatching.    *)
(***************************************************************************)
EXTENDS Naturals, FiniteSets

CONSTANTS
    Threads, None,
    Capacity,          \* slots of the ring
    ShutdownEvents,    \* events Emulator::Shutdown records before the probe goes
    MaxEvents,         \* bound on event_sequence for ordinary events
    MaxAttempts        \* attempts to decode (10)

ASSUME RecorderAssumption ==
    /\ None \notin Threads /\ IsFiniteSet(Threads)
    /\ Capacity \in Nat \ {0}
    /\ ShutdownEvents \in Nat
    /\ MaxEvents \in Nat
    /\ MaxAttempts \in Nat \ {0}

VARIABLES
    alive,             \* the emulator process runs
    pc, mode, seq,     \* of each thread: place, way out, event it records
    event_sequence, initialized,           \* of the plugin host and its bridge
    exit_mutex, exit_done, events_left,    \* of Emulator::Shutdown
    open,              \* the probe's recorder is there and mapped
    ring, last, producer_state, crash,     \* the file: records and header
    cpc, header, reading, record, decoded, attempts, output,   \* the collector
    intact,            \* events that were last in their slot, and alone there
    complete,          \* events whose Record has returned
    due                \* those of them that the collector has to find

threadVars == <<pc, mode, seq>>
hostVars == <<event_sequence, initialized>>
exitVars == <<exit_mutex, exit_done, events_left>>
headerVars == <<last, producer_state, crash>>
historyVars == <<intact, complete>>
producerVars ==
    <<alive, threadVars, hostVars, exitVars, open, ring, headerVars, historyVars>>
collectorVars == <<cpc, header, reading, record, decoded, attempts, output, due>>
vars == <<producerVars, collectorVars>>

Slot(n) == (n - 1) % Capacity
Slots == 0 .. Capacity - 1
NoCrash == [code |-> None, address |-> None]
Crashes == [code : Threads \cup {None}, address : Threads \cup {None}]
States == {"active", "clean", "crashed"}
NoHeader == [last |-> 0, state |-> "active", crash |-> NoCrash]
Headers == [last : Nat, state : States, crash : Crashes]

\* The places inside FlightRecorder::Record and ::MarkCrashed.
Recording == {"wipe", "fill", "commit", "max"}
Marking == {"mark_code", "mark_address", "mark_state"}

TypeOK ==
    /\ alive \in BOOLEAN /\ initialized \in BOOLEAN /\ open \in BOOLEAN
    /\ record \in BOOLEAN
    /\ pc \in [Threads -> {"run", "observe", "lock", "shut", "close", "end"}
                            \cup Recording \cup Marking]
    /\ mode \in [Threads -> {"run", "crash", "exit", "fault"}]
    /\ seq \in [Threads -> Nat]
    /\ event_sequence \in Nat
    /\ exit_mutex \in Threads \cup {None} /\ exit_done \in BOOLEAN
    /\ events_left \in 0 .. ShutdownEvents
    /\ ring \in [Slots -> [committed : Nat, sequence : Nat, body : Nat]]
    /\ last \in 0 .. event_sequence
    /\ producer_state \in States /\ crash \in Crashes
    /\ cpc \in {"watch", "header", "head", "body", "publish", "published", "done", "failed"}
    /\ header \in Headers
    /\ reading \in Nat
    /\ decoded \subseteq [sequence : Nat, body : Nat, whole : BOOLEAN]
    /\ attempts \in 0 .. MaxAttempts
    /\ output \in {None} \cup
                  [state : States, crash : Crashes, last : Nat, events : SUBSET Nat]
    /\ intact \subseteq 1 .. event_sequence /\ complete \subseteq 1 .. event_sequence
    /\ due \subseteq complete

Init ==
    /\ alive = TRUE /\ initialized = TRUE /\ open = TRUE
    /\ pc = [t \in Threads |-> "run"]
    /\ mode = [t \in Threads |-> "run"]
    /\ seq = [t \in Threads |-> 0]
    /\ event_sequence = 0
    /\ exit_mutex = None /\ exit_done = FALSE /\ events_left = ShutdownEvents
    /\ ring = [s \in Slots |-> [committed |-> 0, sequence |-> 0, body |-> 0]]
    /\ last = 0 /\ producer_state = "active" /\ crash = NoCrash
    /\ cpc = "watch" /\ reading = 0 /\ record = FALSE /\ decoded = {} /\ attempts = 0
    /\ header = NoHeader
    /\ output = None
    /\ intact = {} /\ complete = {} /\ due = {}

Goto(t, place) == pc' = [pc EXCEPT ![t] = place]
-----------------------------------------------------------------------------
(***************************************************************************)
(* Events: Bridge::EmitEvent, PluginHost::PublishEvent, Observe, Record.   *)
(***************************************************************************)

\* The sequence number is taken before the event is recorded; an event that
\* is refused takes none.
Publish(t, refused) ==
    IF initialized /\ mode[t] # "fault"
    THEN /\ event_sequence' = event_sequence + 1
         /\ seq' = [seq EXCEPT ![t] = event_sequence + 1]
         /\ Goto(t, "observe")
    ELSE /\ Goto(t, refused)
         /\ UNCHANGED <<event_sequence, seq>>

Emit(t) ==
    /\ pc[t] = "run"
    /\ event_sequence < MaxEvents
    /\ Publish(t, "run")
    /\ UNCHANGED <<mode, initialized, exitVars, open, ring, headerVars, historyVars>>

\* Where a thread goes on when its event is recorded, or dropped.
Recorded(t) ==
    CASE exit_mutex = t -> "shut"
      [] exit_mutex # t /\ mode[t] = "crash" -> "mark_code"
      [] OTHER -> "run"
Dropped(t) ==
    CASE exit_mutex = t -> "shut"
      [] exit_mutex # t /\ mode[t] = "crash" -> "lock"
      [] OTHER -> "run"

ObserveDrop(t) ==
    /\ pc[t] = "observe" /\ ~open
    /\ Goto(t, Dropped(t))
    /\ UNCHANGED <<mode, seq, hostVars, exitVars, open, ring, headerVars, historyVars>>

Others(t) ==
    {u \in Threads \ {t} : pc[u] \in Recording /\ Slot(seq[u]) = Slot(seq[t])}

\* What the slot says while it is being written.  (CommittedEarly is a mutant.)
CommittedEarly(n) == n
Uncommitted(n) == 0

Clear(t) ==
    /\ pc[t] = "observe" /\ open
    /\ ring' = [ring EXCEPT ![Slot(seq[t])].committed = Uncommitted(seq[t])]
    /\ intact' = {n \in intact : Slot(n) # Slot(seq[t])}
                   \cup (IF Others(t) = {} THEN {seq[t]} ELSE {})
    /\ Goto(t, "wipe")
    /\ UNCHANGED <<mode, seq, hostVars, exitVars, open, headerVars, complete>>

Write(t, place, next, r) ==
    /\ pc[t] = place /\ open
    /\ ring' = [ring EXCEPT ![Slot(seq[t])] = r]
    /\ Goto(t, next)
    /\ UNCHANGED <<mode, seq, hostVars, exitVars, open, headerVars, historyVars>>

\* The memset and the sequence number, then the other fields.
Wipe(t) ==
    LET r == ring[Slot(seq[t])] IN
    Write(t, "wipe", "fill", [r EXCEPT !.sequence = seq[t], !.body = 0])

Fill(t) ==
    LET r == ring[Slot(seq[t])] IN
    Write(t, "fill", "commit", [r EXCEPT !.body = seq[t]])

Commit(t) ==
    LET r == ring[Slot(seq[t])] IN
    Write(t, "commit", "max", [r EXCEPT !.committed = seq[t]])

\* (PlainStore and NextSequence are mutants.)
PlainStore(observed, n) == n
NextSequence(observed, n) == IF observed < n THEN n + 1 ELSE observed
AtomicMax(observed, n) == IF observed < n THEN n ELSE observed

Advance(t) ==
    /\ pc[t] = "max" /\ open
    /\ last' = AtomicMax(last, seq[t])
    /\ complete' = complete \cup {seq[t]}
    /\ Goto(t, Recorded(t))
    /\ UNCHANGED <<mode, seq, hostVars, exitVars, open, ring, producer_state, crash, intact>>

\* The mapping has gone from under a thread inside Record or MarkCrashed.
Fault(t) ==
    /\ pc[t] \in Recording \cup Marking /\ ~open
    /\ mode' = [mode EXCEPT ![t] = "fault"]
    /\ Goto(t, "lock")
    /\ UNCHANGED <<seq, hostVars, exitVars, open, ring, headerVars, historyVars>>
-----------------------------------------------------------------------------
(***************************************************************************)
(* Crash and exit: SignalHandler, MarkCrashed, Emulator::Shutdown.         *)
(***************************************************************************)

\* An unhandled exception; NotifyGraphicsLabCrash emits the crash event.
Crash(t) ==
    /\ pc[t] = "run" /\ mode[t] = "run"
    /\ mode' = [mode EXCEPT ![t] = "crash"]
    /\ Publish(t, "lock")
    /\ UNCHANGED <<initialized, exitVars, open, ring, headerVars, historyVars>>

Mark(t, place, next) ==
    /\ pc[t] = place /\ open
    /\ Goto(t, next)
    /\ UNCHANGED <<mode, seq, hostVars, exitVars, open, ring, last, historyVars>>

\* The details come before the state.  (MarkCodeAndState is a mutant.)
MarkCodeAndState(t) ==
    /\ Mark(t, "mark_code", "mark_address")
    /\ crash' = [crash EXCEPT !.code = t]
    /\ producer_state' = "crashed"

MarkCode(t) ==
    /\ Mark(t, "mark_code", "mark_address")
    /\ crash' = [crash EXCEPT !.code = t]
    /\ UNCHANGED producer_state

MarkAddress(t) ==
    /\ Mark(t, "mark_address", "mark_state")
    /\ crash' = [crash EXCEPT !.address = t]
    /\ UNCHANGED producer_state

MarkState(t) ==
    /\ Mark(t, "mark_state", "lock")
    /\ producer_state' = "crashed"
    /\ UNCHANGED crash

\* QuickExit on any thread while the others go on.
Exit(t) ==
    /\ pc[t] = "run" /\ mode[t] = "run"
    /\ mode' = [mode EXCEPT ![t] = "exit"]
    /\ Goto(t, "lock")
    /\ UNCHANGED <<seq, hostVars, exitVars, open, ring, headerVars, historyVars>>

ShutdownEnter(t) ==
    /\ pc[t] = "lock" /\ exit_mutex = None
    /\ IF exit_done THEN Goto(t, "end") /\ UNCHANGED exit_mutex
                    ELSE Goto(t, "shut") /\ exit_mutex' = t
    /\ UNCHANGED <<mode, seq, hostVars, exit_done, events_left, open, ring,
                   headerVars, historyVars>>

\* "emulator.shutdown.begin", "bridge.shutdown.begin" and an "unloading" for
\* every plugin down to the probe.
ShutdownEvent(t) ==
    /\ pc[t] = "shut" /\ events_left > 0
    /\ events_left' = events_left - 1
    /\ Publish(t, "shut")
    /\ UNCHANGED <<mode, initialized, exit_mutex, exit_done, open, ring,
                   headerVars, historyVars>>

\* The compare and exchange.  (AlwaysClean is a mutant.)
AlwaysClean(state) == "clean"
AfterCleanShutdown(state) == IF state = "active" THEN "clean" ELSE state

MarkCleanShutdown(t) ==
    /\ pc[t] = "shut" /\ events_left = 0 /\ open
    /\ producer_state' = AfterCleanShutdown(producer_state)
    /\ Goto(t, "close")
    /\ UNCHANGED <<mode, seq, hostVars, exitVars, open, ring, last, crash, historyVars>>

Close(t) ==
    /\ pc[t] = "close" /\ open
    /\ open' = FALSE
    /\ UNCHANGED <<threadVars, hostVars, exitVars, ring, headerVars, historyVars>>

ShutdownReturn(t) ==
    /\ pc[t] = "close" /\ ~open
    /\ initialized' = FALSE
    /\ exit_mutex' = None /\ exit_done' = TRUE
    /\ Goto(t, "end")
    /\ UNCHANGED <<mode, seq, event_sequence, events_left, open, ring, headerVars,
                   historyVars>>

\* _Exit, or nobody handles the exception.
End(t) == pc[t] = "end" /\ alive' = FALSE

\* The process is terminated from outside, or by a second QuickExit.
Kill == alive' = FALSE

ThreadStep(t) ==
    \/ ObserveDrop(t) \/ Clear(t) \/ Wipe(t) \/ Fill(t) \/ Commit(t) \/ Advance(t)
    \/ Fault(t)
    \/ MarkCode(t) \/ MarkAddress(t) \/ MarkState(t)
    \/ ShutdownEnter(t) \/ ShutdownEvent(t) \/ MarkCleanShutdown(t) \/ Close(t)
    \/ ShutdownReturn(t)

Running(t) == alive /\ ThreadStep(t) /\ UNCHANGED <<alive, collectorVars>>
Starting(t) ==
    alive /\ (Emit(t) \/ Crash(t) \/ Exit(t)) /\ UNCHANGED <<alive, collectorVars>>
Ending ==
    /\ alive
    /\ Kill \/ \E t \in Threads : End(t)
    /\ UNCHANGED <<threadVars, hostVars, exitVars, open, ring, headerVars, historyVars>>
    /\ UNCHANGED collectorVars
-----------------------------------------------------------------------------
(***************************************************************************)
(* The collector: CollectorMain --watch and DecodeFlightRecorder.          *)
(***************************************************************************)

\* ProducerMonitor.  (NeverExited is a mutant.)
NeverExited == FALSE
Exited == ~alive

Watch ==
    /\ cpc = "watch"
    /\ producer_state = "clean" \/ Exited
    /\ cpc' = "header"
    /\ UNCHANGED <<header, reading, record, decoded, attempts, output, due>>

First(n) == IF n > Capacity THEN n - Capacity + 1 ELSE IF n = 0 THEN 0 ELSE 1

ReadHeader ==
    /\ cpc = "header"
    /\ header' = [last |-> last, state |-> producer_state, crash |-> crash]
    /\ reading' = First(last)
    /\ decoded' = {}
    /\ due' = complete \cap intact
    /\ cpc' = IF First(last) = 0 THEN "publish" ELSE "head"
    /\ UNCHANGED <<record, attempts, output>>

\* One read of the record, which a writer may overtake half-way.
ReadHead ==
    /\ cpc = "head"
    /\ record' = (/\ ring[Slot(reading)].committed = reading
                  /\ ring[Slot(reading)].sequence = reading)
    /\ cpc' = "body"
    /\ UNCHANGED <<header, reading, decoded, attempts, output, due>>

ReadBody ==
    /\ cpc = "body"
    /\ decoded' = decoded \cup
           (IF record THEN {[sequence |-> reading, body |-> ring[Slot(reading)].body,
                             whole |-> reading \in intact]}
                      ELSE {})
    /\ IF reading = header.last THEN cpc' = "publish" /\ reading' = 0
                                ELSE cpc' = "head" /\ reading' = reading + 1
    /\ record' = FALSE
    /\ UNCHANGED <<header, attempts, output, due>>

\* The decoded trace is written aside and renamed.
PublishTrace ==
    /\ cpc = "publish"
    /\ output' = [state |-> header.state, crash |-> header.crash, last |-> header.last,
                  events |-> {r.sequence : r \in decoded}]
    /\ due' = due \cap intact
    /\ cpc' = "published"
    /\ UNCHANGED <<header, reading, record, decoded, attempts>>

WriteDoneFile ==
    /\ cpc = "published"
    /\ cpc' \in {"done", "failed"}
    /\ decoded' = {} /\ due' = {} /\ header' = NoHeader
    /\ UNCHANGED <<reading, record, attempts, output>>

\* A file operation of the attempt fails.
DecodeFails ==
    /\ cpc \in {"header", "publish"}
    /\ attempts' = attempts + 1
    /\ cpc' = IF attempts + 1 = MaxAttempts THEN "failed" ELSE "header"
    /\ decoded' = {} /\ due' = {} /\ header' = NoHeader
    /\ UNCHANGED <<reading, record, output>>

CollectorStep == Watch \/ ReadHeader \/ ReadHead \/ ReadBody \/ PublishTrace \/ WriteDoneFile
Collector == (CollectorStep \/ DecodeFails) /\ UNCHANGED producerVars

Next == Collector \/ Ending \/ \E t \in Threads : Running(t) \/ Starting(t)
Spec == Init /\ [][Next]_vars

(***************************************************************************)
(* The host runs every thread that can run, ends a process that asks for   *)
(* it and runs the collector; nobody has to emit, to crash or to be        *)
(* killed, and no file operation has to fail.                              *)
(***************************************************************************)
Fairness ==
    /\ \A t \in Threads : WF_vars(Running(t))
    /\ WF_vars(alive /\ (\E t \in Threads : End(t))
               /\ UNCHANGED <<threadVars, hostVars, exitVars, open, ring, headerVars,
                              historyVars, collectorVars>>)
    /\ WF_vars(CollectorStep /\ UNCHANGED producerVars)
LiveSpec == Spec /\ Fairness
-----------------------------------------------------------------------------
(***************************************************************************)
(* Properties.                                                             *)
(***************************************************************************)

\* A decoded record holds the fields of the event it is numbered for, unless
\* another writer of its slot got in its way: Record commits a slot only when
\* its fields are there, and the reader accepts only committed slots.
DecodedExact == \A r \in decoded : r.whole => r.body = r.sequence

\* Whenever the emulator dies, the trace has every event whose Record had
\* returned when the header was read, that is no more than a ring behind the
\* last one and whose slot nobody else has used: committed_sequence never goes
\* back, whatever the order in which the recording threads get there.
CompletedAreDecoded ==
    cpc = "published" =>
        \A n \in due : n > output.last - Capacity => n \in output.events

\* A trace labelled crashed shows the crash: MarkCrashed stores the details
\* before the state.  With one crashing thread they are all of that thread.
CrashedHasDetails ==
    output # None /\ output.state = "crashed" =>
        /\ output.crash.code # None /\ output.crash.address # None
        /\ Cardinality({t \in Threads : mode[t] \in {"crash", "fault"}}) = 1
             => output.crash.code = output.crash.address

\* Normal teardown never relabels a crashed session (MarkCleanShutdown).
CrashStaysCrashed == [][producer_state = "crashed" => producer_state' = "crashed"]_vars

\* Once a thread exits or crashes, the emulator ends and the collector is done
\* with the trace or has given up: it notices the end of a process that never
\* got to mark its header, and the crashing and exiting threads do not block
\* each other in Emulator::Shutdown.
CollectorFinishes ==
    (\E t \in Threads : mode[t] # "run") ~> (~alive /\ cpc \in {"done", "failed"})

\* "Normal teardown can no longer relabel that session as clean": a session
\* whose header says crashed is published as crashed.
CrashIsPublished ==
    ~alive /\ cpc = "done" /\ producer_state = "crashed" => output.state = "crashed"
=============================================================================
