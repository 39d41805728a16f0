----------------------- MODULE FlightRecorderProofs -----------------------
(***************************************************************************)
(* What holds of FlightRecorder for every set of threads, every capacity   *)
(* of the ring and every number of events.                                 *)
(***************************************************************************)
EXTENDS FlightRecorder, FiniteSetTheorems, TLAPS

\* Every event has a slot.
LEMMA SlotInRing ==
    ASSUME NEW n \in Nat, n > 0
    PROVE  Slot(n) \in Slots
  BY RecorderAssumption DEF Slot, Slots

-----------------------------------------------------------------------------
(***************************************************************************)
(* Types.                                                                  *)
(***************************************************************************)

\* The places where a thread has a sequence number of its own.
Busy == {"observe"} \cup Recording

\* Besides the types: sequence numbers are below the counter and start at 1, the
\* collector reads from 1 on, and it has failed when its attempts are used up.
TypeInv ==
    /\ TypeOK
    /\ \A t \in Threads : seq[t] <= event_sequence /\ (pc[t] \in Busy => seq[t] > 0)
    /\ \A s \in Slots : ring[s].committed <= event_sequence
    /\ cpc \in {"head", "body"} => reading > 0
    /\ cpc # "failed" => attempts < MaxAttempts

\* The types hold at the start.
LEMMA TypeInit == Init => TypeInv
<1> SUFFICES ASSUME Init PROVE TypeInv
  OBVIOUS
<1>1. NoCrash \in Crashes /\ NoHeader \in Headers /\ producer_state \in States
  BY DEF Init, NoCrash, Crashes, NoHeader, Headers, States
<1>2. /\ ring \in [Slots -> [committed : Nat, sequence : Nat, body : Nat]]
      /\ \A s \in Slots : ring[s].committed = 0
  BY DEF Init
<1>3. /\ pc \in [Threads -> {"run", "observe", "lock", "shut", "close", "end"}
                            \cup Recording \cup Marking]
      /\ \A t \in Threads : pc[t] \notin Busy
  BY DEF Init, Busy, Recording
<1>4. /\ mode \in [Threads -> {"run", "crash", "exit", "fault"}]
      /\ seq \in [Threads -> Nat]
      /\ \A t \in Threads : seq[t] = 0
  BY DEF Init
<1>5. /\ event_sequence = 0 /\ last = 0 /\ events_left = ShutdownEvents /\ attempts = 0
      /\ reading = 0 /\ cpc = "watch"
      /\ intact = {} /\ complete = {} /\ due = {} /\ decoded = {}
  BY DEF Init
<1>6. /\ alive \in BOOLEAN /\ initialized \in BOOLEAN /\ open \in BOOLEAN
      /\ record \in BOOLEAN /\ exit_done \in BOOLEAN
      /\ exit_mutex \in Threads \cup {None}
      /\ crash \in Crashes /\ header \in Headers
      /\ output \in {None} \cup
                     [state : States, crash : Crashes, last : Nat, events : SUBSET Nat]
  BY <1>1 DEF Init
<1>7. TypeOK
  BY <1>1, <1>2, <1>3, <1>4, <1>5, <1>6, RecorderAssumption DEF TypeOK
<1> QED
  BY <1>2, <1>3, <1>4, <1>5, <1>7, RecorderAssumption DEF TypeInv

\* Every step keeps the types.
LEMMA TypeNext == TypeInv /\ [Next]_vars => TypeInv'
<1> SUFFICES ASSUME TypeInv, [Next]_vars PROVE TypeInv'
  OBVIOUS
<1> USE RecorderAssumption DEF Goto, threadVars, hostVars, exitVars, headerVars, historyVars, producerVars,
            collectorVars
<1>1. ASSUME NEW t \in Threads, Emit(t), UNCHANGED <<alive, collectorVars>>
      PROVE  TypeInv'
  BY <1>1 DEF Emit, Publish, TypeInv, TypeOK, Busy, Recording, Marking, States, Crashes
<1>2. ASSUME NEW t \in Threads, Crash(t), UNCHANGED <<alive, collectorVars>>
      PROVE  TypeInv'
  BY <1>2 DEF Crash, Publish, TypeInv, TypeOK, Busy, Recording, Marking, States, Crashes
<1>3. ASSUME NEW t \in Threads, Exit(t), UNCHANGED <<alive, collectorVars>>
      PROVE  TypeInv'
  BY <1>3 DEF Exit, TypeInv, TypeOK, Busy, Recording, Marking, States, Crashes
<1>4. ASSUME NEW t \in Threads, ObserveDrop(t), UNCHANGED <<alive, collectorVars>>
      PROVE  TypeInv'
  BY <1>4 DEF ObserveDrop, Dropped, TypeInv, TypeOK, Busy, Recording, Marking, States, Crashes
<1>5. ASSUME NEW t \in Threads, Clear(t), UNCHANGED <<alive, collectorVars>>
      PROVE  TypeInv'
  <2>1. Slot(seq[t]) \in Slots /\ seq[t] \in Nat /\ seq[t] > 0 /\ seq[t] <= event_sequence
    BY <1>5, SlotInRing DEF Clear, Uncommitted, TypeInv, TypeOK, Busy, Recording
  <2>2. ring' \in [Slots -> [committed : Nat, sequence : Nat, body : Nat]]
    BY <1>5, <2>1 DEF Clear, Uncommitted, TypeInv, TypeOK
  <2>3. \A s \in Slots : ring'[s].committed <= event_sequence
    BY <1>5, <2>1 DEF Clear, Uncommitted, TypeInv, TypeOK
  <2>4. /\ UNCHANGED <<alive, collectorVars, mode, seq, hostVars, exitVars, open, headerVars, complete>>
        /\ intact' \subseteq intact \cup {seq[t]}
        /\ \E l \in Recording : Goto(t, l)
        /\ pc[t] \in Busy
    BY <1>5 DEF Clear, Uncommitted, Recording, Busy
  <2>5. /\ pc' \in [Threads -> {"run", "observe", "lock", "shut", "close", "end"}
                               \cup Recording \cup Marking]
        /\ intact' \subseteq 1 .. event_sequence
    BY <2>1, <2>4 DEF TypeInv, TypeOK, Recording
  <2>6. TypeOK'
    BY <2>2, <2>4, <2>5 DEF TypeInv, TypeOK
  <2>7. \A u \in Threads : pc'[u] \in Busy => pc[u] \in Busy
    BY <2>4 DEF TypeInv, TypeOK
  <2> QED
    BY <2>3, <2>4, <2>6, <2>7 DEF TypeInv
<1>6. ASSUME NEW t \in Threads, Wipe(t), UNCHANGED <<alive, collectorVars>>
      PROVE  TypeInv'
  <2>1. Slot(seq[t]) \in Slots /\ seq[t] \in Nat /\ seq[t] > 0 /\ seq[t] <= event_sequence
    BY <1>6, SlotInRing DEF Wipe, Write, TypeInv, TypeOK, Busy, Recording
  <2>2. ring' \in [Slots -> [committed : Nat, sequence : Nat, body : Nat]]
    BY <1>6, <2>1 DEF Wipe, Write, TypeInv, TypeOK
  <2>3. \A s \in Slots : ring'[s].committed <= event_sequence
    BY <1>6, <2>1 DEF Wipe, Write, TypeInv, TypeOK
  <2>4. /\ UNCHANGED <<alive, collectorVars, mode, seq, hostVars, exitVars, open, headerVars, complete>>
        /\ intact' \subseteq intact \cup {seq[t]}
        /\ \E l \in Recording : Goto(t, l)
        /\ pc[t] \in Busy
    BY <1>6 DEF Wipe, Write, Recording, Busy
  <2>5. /\ pc' \in [Threads -> {"run", "observe", "lock", "shut", "close", "end"}
                               \cup Recording \cup Marking]
        /\ intact' \subseteq 1 .. event_sequence
    BY <2>1, <2>4 DEF TypeInv, TypeOK, Recording
  <2>6. TypeOK'
    BY <2>2, <2>4, <2>5 DEF TypeInv, TypeOK
  <2>7. \A u \in Threads : pc'[u] \in Busy => pc[u] \in Busy
    BY <2>4 DEF TypeInv, TypeOK
  <2> QED
    BY <2>3, <2>4, <2>6, <2>7 DEF TypeInv
<1>7. ASSUME NEW t \in Threads, Fill(t), UNCHANGED <<alive, collectorVars>>
      PROVE  TypeInv'
  <2>1. Slot(seq[t]) \in Slots /\ seq[t] \in Nat /\ seq[t] > 0 /\ seq[t] <= event_sequence
    BY <1>7, SlotInRing DEF Fill, Write, TypeInv, TypeOK, Busy, Recording
  <2>2. ring' \in [Slots -> [committed : Nat, sequence : Nat, body : Nat]]
    BY <1>7, <2>1 DEF Fill, Write, TypeInv, TypeOK
  <2>3. \A s \in Slots : ring'[s].committed <= event_sequence
    BY <1>7, <2>1 DEF Fill, Write, TypeInv, TypeOK
  <2>4. /\ UNCHANGED <<alive, collectorVars, mode, seq, hostVars, exitVars, open, headerVars, complete>>
        /\ intact' \subseteq intact \cup {seq[t]}
        /\ \E l \in Recording : Goto(t, l)
        /\ pc[t] \in Busy
    BY <1>7 DEF Fill, Write, Recording, Busy
  <2>5. /\ pc' \in [Threads -> {"run", "observe", "lock", "shut", "close", "end"}
                               \cup Recording \cup Marking]
        /\ intact' \subseteq 1 .. event_sequence
    BY <2>1, <2>4 DEF TypeInv, TypeOK, Recording
  <2>6. TypeOK'
    BY <2>2, <2>4, <2>5 DEF TypeInv, TypeOK
  <2>7. \A u \in Threads : pc'[u] \in Busy => pc[u] \in Busy
    BY <2>4 DEF TypeInv, TypeOK
  <2> QED
    BY <2>3, <2>4, <2>6, <2>7 DEF TypeInv
<1>8. ASSUME NEW t \in Threads, Commit(t), UNCHANGED <<alive, collectorVars>>
      PROVE  TypeInv'
  <2>1. Slot(seq[t]) \in Slots /\ seq[t] \in Nat /\ seq[t] > 0 /\ seq[t] <= event_sequence
    BY <1>8, SlotInRing DEF Commit, Write, TypeInv, TypeOK, Busy, Recording
  <2>2. ring' \in [Slots -> [committed : Nat, sequence : Nat, body : Nat]]
    BY <1>8, <2>1 DEF Commit, Write, TypeInv, TypeOK
  <2>3. \A s \in Slots : ring'[s].committed <= event_sequence
    BY <1>8, <2>1 DEF Commit, Write, TypeInv, TypeOK
  <2>4. /\ UNCHANGED <<alive, collectorVars, mode, seq, hostVars, exitVars, open, headerVars, complete>>
        /\ intact' \subseteq intact \cup {seq[t]}
        /\ \E l \in Recording : Goto(t, l)
        /\ pc[t] \in Busy
    BY <1>8 DEF Commit, Write, Recording, Busy
  <2>5. /\ pc' \in [Threads -> {"run", "observe", "lock", "shut", "close", "end"}
                               \cup Recording \cup Marking]
        /\ intact' \subseteq 1 .. event_sequence
    BY <2>1, <2>4 DEF TypeInv, TypeOK, Recording
  <2>6. TypeOK'
    BY <2>2, <2>4, <2>5 DEF TypeInv, TypeOK
  <2>7. \A u \in Threads : pc'[u] \in Busy => pc[u] \in Busy
    BY <2>4 DEF TypeInv, TypeOK
  <2> QED
    BY <2>3, <2>4, <2>6, <2>7 DEF TypeInv
<1>9. ASSUME NEW t \in Threads, Advance(t), UNCHANGED <<alive, collectorVars>>
      PROVE  TypeInv'
  BY <1>9 DEF Advance, AtomicMax, Recorded, TypeInv, TypeOK, Busy, Recording, Marking,
     States, Crashes
<1>10. ASSUME NEW t \in Threads, Fault(t), UNCHANGED <<alive, collectorVars>>
      PROVE  TypeInv'
  BY <1>10 DEF Fault, TypeInv, TypeOK, Busy, Recording, Marking, States, Crashes
<1>11. ASSUME NEW t \in Threads, MarkCode(t), UNCHANGED <<alive, collectorVars>>
      PROVE  TypeInv'
  BY <1>11 DEF MarkCode, Mark, TypeInv, TypeOK, Busy, Recording, Marking, States, Crashes
<1>12. ASSUME NEW t \in Threads, MarkAddress(t), UNCHANGED <<alive, collectorVars>>
      PROVE  TypeInv'
  BY <1>12 DEF MarkAddress, Mark, TypeInv, TypeOK, Busy, Recording, Marking, States, Crashes
<1>13. ASSUME NEW t \in Threads, MarkState(t), UNCHANGED <<alive, collectorVars>>
      PROVE  TypeInv'
  BY <1>13 DEF MarkState, Mark, TypeInv, TypeOK, Busy, Recording, Marking, States, Crashes
<1>14. ASSUME NEW t \in Threads, ShutdownEnter(t), UNCHANGED <<alive, collectorVars>>
      PROVE  TypeInv'
  BY <1>14 DEF ShutdownEnter, TypeInv, TypeOK, Busy, Recording, Marking, States, Crashes
<1>15. ASSUME NEW t \in Threads, ShutdownEvent(t), UNCHANGED <<alive, collectorVars>>
      PROVE  TypeInv'
  BY <1>15 DEF ShutdownEvent, Publish, TypeInv, TypeOK, Busy, Recording, Marking, States,
     Crashes
<1>16. ASSUME NEW t \in Threads, MarkCleanShutdown(t), UNCHANGED <<alive, collectorVars>>
      PROVE  TypeInv'
  BY <1>16 DEF MarkCleanShutdown, AfterCleanShutdown, TypeInv, TypeOK, Busy, Recording,
     Marking, States, Crashes
<1>17. ASSUME NEW t \in Threads, Close(t), UNCHANGED <<alive, collectorVars>>
      PROVE  TypeInv'
  <2>1. /\ UNCHANGED <<alive, collectorVars, threadVars, hostVars, exitVars, ring,
                       headerVars, historyVars>>
        /\ open' \in BOOLEAN
    BY <1>17 DEF Close
  <2> QED
    BY <2>1 DEF TypeInv, TypeOK
<1>18. ASSUME NEW t \in Threads, ShutdownReturn(t), UNCHANGED <<alive, collectorVars>>
      PROVE  TypeInv'
  <2>1. /\ UNCHANGED <<alive, collectorVars, mode, seq, event_sequence, events_left, open,
                       ring, headerVars, historyVars>>
        /\ initialized' \in BOOLEAN /\ exit_done' \in BOOLEAN
        /\ exit_mutex' \in Threads \cup {None}
    BY <1>18 DEF ShutdownReturn
  <2>2. /\ pc' \in [Threads -> {"run", "observe", "lock", "shut", "close", "end"}
                               \cup Recording \cup Marking]
        /\ \A u \in Threads : pc'[u] \in Busy => pc[u] \in Busy
    BY <1>18 DEF ShutdownReturn, TypeInv, TypeOK, Busy, Recording
  <2>3. TypeOK'
    BY <2>1, <2>2 DEF TypeInv, TypeOK
  <2> QED
    BY <2>1, <2>2, <2>3 DEF TypeInv
<1>19. ASSUME Watch, UNCHANGED producerVars PROVE TypeInv'
  BY <1>19 DEF Watch, TypeInv, TypeOK, Crashes, Headers, States, NoHeader, NoCrash
<1>20. ASSUME ReadHeader, UNCHANGED producerVars PROVE TypeInv'
  BY <1>20 DEF ReadHeader, First, TypeInv, TypeOK, Crashes, Headers, States, NoHeader, NoCrash
<1>21. ASSUME ReadHead, UNCHANGED producerVars PROVE TypeInv'
  BY <1>21 DEF ReadHead, TypeInv, TypeOK, Crashes, Headers, States, NoHeader, NoCrash
<1>22. ASSUME ReadBody, UNCHANGED producerVars PROVE TypeInv'
  <2>1. Slot(reading) \in Slots /\ reading \in Nat /\ reading > 0
    BY <1>22, SlotInRing DEF ReadBody, TypeInv, TypeOK
  <2>2. ring[Slot(reading)].body \in Nat
    BY <2>1 DEF TypeInv, TypeOK
  <2>3. decoded' \subseteq [sequence : Nat, body : Nat, whole : BOOLEAN]
    <3> DEFINE e == [sequence |-> reading, body |-> ring[Slot(reading)].body,
                     whole |-> reading \in intact]
    <3>1. (reading \in intact) \in BOOLEAN
      OBVIOUS
    <3>2. e \in [sequence : Nat, body : Nat, whole : BOOLEAN]
      BY <2>1, <2>2, <3>1
    <3>3. decoded' \subseteq decoded \cup {e}
      BY <1>22, Zenon DEF ReadBody
    <3> HIDE DEF e
    <3> QED
      BY <3>2, <3>3 DEF TypeInv, TypeOK
  <2>4. /\ UNCHANGED <<header, attempts, output, due, producerVars>>
        /\ record' \in BOOLEAN
        /\ cpc' \in {"publish", "head"} /\ reading' \in Nat
        /\ cpc' = "head" => reading' > 0
        /\ cpc # "failed"
    <3>1. /\ UNCHANGED <<header, attempts, output, due, producerVars>>
          /\ record' \in BOOLEAN /\ cpc = "body"
          /\ \/ cpc' = "publish" /\ reading' = 0
             \/ cpc' = "head" /\ reading' = reading + 1
      BY <1>22, Zenon DEF ReadBody
    <3> QED
      BY <2>1, <3>1
  <2>5. TypeOK'
    BY <2>3, <2>4 DEF TypeInv, TypeOK
  <2> QED
    BY <2>4, <2>5 DEF TypeInv
<1>23. ASSUME PublishTrace, UNCHANGED producerVars PROVE TypeInv'
  BY <1>23 DEF PublishTrace, TypeInv, TypeOK, Crashes, Headers, States, NoHeader, NoCrash
<1>24. ASSUME WriteDoneFile, UNCHANGED producerVars PROVE TypeInv'
  BY <1>24 DEF WriteDoneFile, TypeInv, TypeOK, Crashes, Headers, States, NoHeader, NoCrash
<1>25. ASSUME DecodeFails, UNCHANGED producerVars PROVE TypeInv'
  BY <1>25 DEF DecodeFails, TypeInv, TypeOK, Crashes, Headers, States, NoHeader, NoCrash
<1>26. CASE Ending
  BY ZenonT(30), <1>26 DEF Ending, Kill, End, TypeInv, TypeOK
<1>27. CASE UNCHANGED vars
  BY <1>27 DEF vars, TypeInv, TypeOK
<1> HIDE DEF TypeInv
<1> QED
  BY <1>1, <1>2, <1>3, <1>4, <1>5, <1>6, <1>7, <1>8, <1>9, <1>10, <1>11, <1>12, <1>13,
     <1>14, <1>15, <1>16, <1>17, <1>18, <1>19, <1>20, <1>21, <1>22, <1>23, <1>24, <1>25,
     <1>26, <1>27
  DEF Next, Collector, CollectorStep, Running, Starting, ThreadStep

\* The type invariant is an invariant of the specification.
LEMMA TypeInvariant == Spec => []TypeInv
  BY TypeInit, TypeNext, PTL DEF Spec

\* Types: the sequence numbers, slots and counters of the recorder stay in
\* range; committed_sequence never passes the number of events published.
THEOREM TypeCorrect == Spec => []TypeOK
<1>1. TypeInv => TypeOK
  BY DEF TypeInv
<1> QED
  BY TypeInvariant, <1>1, PTL

\* Normal teardown never relabels a crashed session, in any interleaving of
\* crashing and exiting threads.
THEOREM CrashStaysCrashedHolds == Spec => CrashStaysCrashed
<1>1. [Next]_vars => (producer_state = "crashed" => producer_state' = "crashed")
  <2> SUFFICES ASSUME [Next]_vars, producer_state = "crashed"
               PROVE  producer_state' = "crashed"
    OBVIOUS
  <2> USE DEF threadVars, hostVars, exitVars, headerVars, historyVars, producerVars
  <2>1. ASSUME NEW t \in Threads, Running(t) PROVE producer_state' = "crashed"
    BY <2>1
    DEF Running, ThreadStep, ObserveDrop, Clear, Wipe, Fill, Commit, Write, Advance,
        Fault, MarkCode, MarkAddress, MarkState, ShutdownEnter, ShutdownEvent,
        MarkCleanShutdown, AfterCleanShutdown, Close, ShutdownReturn
  <2>2. ASSUME NEW t \in Threads, Starting(t) PROVE producer_state' = "crashed"
    BY <2>2 DEF Starting, Emit, Crash, Exit
  <2>3. CASE Collector \/ Ending \/ UNCHANGED vars
    BY <2>3 DEF Collector, Ending, vars
  <2> QED
    BY <2>1, <2>2, <2>3 DEF Next
<1> QED
  BY <1>1, PTL DEF Spec, CrashStaysCrashed
-----------------------------------------------------------------------------
(***************************************************************************)
(* The ring.                                                               *)
(***************************************************************************)

\* How far the writer t of an event that has its slot to itself has come.
Written(t) ==
    LET r == ring[Slot(seq[t])]
    IN  /\ pc[t] \in {"wipe", "fill", "commit"} => r.committed = 0
        /\ pc[t] = "fill" => r.sequence = seq[t]
        /\ pc[t] \in {"commit", "max"} => r.sequence = seq[t] /\ r.body = seq[t]
        /\ pc[t] = "max" => r.committed = seq[t]

\* No two threads have the same event, nobody has one that is complete, and one
\* that is still to be recorded is nowhere in the ring.
WriterState(t) ==
    /\ pc[t] \in Busy =>
          /\ seq[t] \notin complete
          /\ \A u \in Threads \ {t} : pc[u] \in Busy => seq[u] # seq[t]
    /\ pc[t] = "observe" => \A s \in Slots : ring[s].committed # seq[t]
    /\ pc[t] \in Recording /\ seq[t] \in intact => Written(t)

\* The slot of an event that nobody else has written is uncommitted or holds
\* the event; it holds the event once Record has returned.
IntactState(n) ==
    LET r == ring[Slot(n)]
    IN  /\ r.committed \in {0, n}
        /\ r.committed = n => r.sequence = n /\ r.body = n
        /\ n \in complete => r.committed = n
        /\ \A t \in Threads :
              pc[t] \in Recording /\ Slot(seq[t]) = Slot(n) => seq[t] = n

\* What the writers, the slots and committed_sequence say of each other.
RingInv ==
    /\ \A t \in Threads : WriterState(t)
    /\ \A n \in intact : IntactState(n)
    /\ \A n \in complete : n <= last

\* At the start nobody writes and nothing is written.
LEMMA RingInit == Init => RingInv
<1> SUFFICES ASSUME Init PROVE RingInv
  OBVIOUS
<1>1. /\ \A t \in Threads : pc[t] = "run"
      /\ intact = {} /\ complete = {}
  BY DEF Init
<1> QED
  BY <1>1 DEF RingInv, WriterState, Busy, Recording

\* A step outside the recorder leaves the ring as it is.
LEMMA RingFrame ==
    ASSUME RingInv, UNCHANGED <<seq, ring, intact, complete, last>>,
           \A u \in Threads : pc'[u] \in Busy => pc'[u] = pc[u]
    PROVE  RingInv'
<1>1. ASSUME NEW t \in Threads PROVE WriterState(t)'
  BY <1>1 DEF RingInv, WriterState, Written, Busy, Recording
<1>2. ASSUME NEW n \in intact PROVE IntactState(n)'
  BY <1>2 DEF RingInv, IntactState, Busy
<1> QED
  BY <1>1, <1>2 DEF RingInv

\* A published event is new: nobody else has its number and no slot has it.
LEMMA RingPublish ==
    ASSUME TypeInv, RingInv, NEW t \in Threads, pc[t] \notin Busy,
           event_sequence' = event_sequence + 1,
           seq' = [seq EXCEPT ![t] = event_sequence + 1], Goto(t, "observe"),
           UNCHANGED <<ring, intact, complete, last>>
    PROVE  RingInv'
<1>1. /\ event_sequence \in Nat
      /\ \A u \in Threads : seq[u] \in Nat /\ seq[u] <= event_sequence
      /\ \A s \in Slots : ring[s].committed \in Nat /\ ring[s].committed <= event_sequence
      /\ complete \subseteq 1 .. event_sequence
  BY DEF TypeInv, TypeOK
<1>2. /\ seq'[t] = event_sequence + 1 /\ pc'[t] = "observe"
      /\ \A u \in Threads \ {t} : seq'[u] = seq[u] /\ pc'[u] = pc[u]
  BY DEF TypeInv, TypeOK, Goto
<1>3. ASSUME NEW u \in Threads PROVE WriterState(u)'
  <2>1. CASE u = t
    <3>1. seq'[t] \notin complete
      BY <1>1, <1>2
    <3>2. \A v \in Threads \ {t} : seq'[v] # seq'[t]
      BY <1>1, <1>2
    <3>3. \A s \in Slots : ring'[s].committed # seq'[t]
      BY <1>1, <1>2
    <3> QED
      BY <1>2, <2>1, <3>1, <3>2, <3>3 DEF WriterState, Recording
  <2>2. CASE u # t
    <3>1. pc'[u] = pc[u] /\ seq'[u] = seq[u]
      BY <1>2, <2>2
    <3>2. seq'[u] # seq'[t]
      BY <1>1, <1>2, <3>1
    <3>3. WriterState(u)
      BY DEF RingInv
    <3>4. Written(u) => Written(u)'
      BY <3>1 DEF Written
    <3> QED
      BY <1>2, <3>1, <3>2, <3>3, <3>4 DEF WriterState
  <2> QED
    BY <2>1, <2>2
<1>4. ASSUME NEW n \in intact PROVE IntactState(n)'
  BY <1>2, <1>4 DEF RingInv, IntactState, Recording
<1> QED
  BY <1>3, <1>4 DEF RingInv

\* Emitting, crashing and shutting down publish an event or go on without one.
LEMMA RingPublishing ==
    ASSUME TypeInv, RingInv, NEW t \in Threads, NEW place, place \notin Busy,
           pc[t] \notin Busy, Publish(t, place), UNCHANGED <<ring, intact, complete, last>>
    PROVE  RingInv'
<1>1. CASE initialized /\ mode[t] # "fault"
  BY <1>1, RingPublish DEF Publish
<1>2. CASE ~(initialized /\ mode[t] # "fault")
  <2>1. UNCHANGED seq /\ Goto(t, place)
    BY <1>2 DEF Publish
  <2>2. \A u \in Threads : pc'[u] \in Busy => pc'[u] = pc[u]
    BY <2>1 DEF Goto, TypeInv, TypeOK
  <2> QED
    BY <2>1, <2>2, RingFrame
<1> QED
  BY <1>1, <1>2

\* A writer takes its slot: what was intact there no longer is, and the new
\* event is when nobody else writes the slot.
LEMMA RingClear ==
    ASSUME TypeInv, RingInv, NEW t \in Threads, Clear(t)
    PROVE  RingInv'
<1> DEFINE m == seq[t]
           c == Slot(m)
<1>1. m \in Nat /\ m > 0 /\ c \in Slots
  BY SlotInRing DEF Clear, TypeInv, TypeOK, Busy
<1>2. /\ pc[t] = "observe" /\ pc'[t] = "wipe"
      /\ \A u \in Threads \ {t} : pc'[u] = pc[u]
      /\ UNCHANGED <<seq, complete, last>>
  BY DEF Clear, TypeInv, TypeOK, Goto, headerVars
<1>3. /\ ring'[c].committed = 0
      /\ \A s \in Slots : s # c => ring'[s] = ring[s]
  BY <1>1 DEF Clear, Uncommitted, TypeInv, TypeOK
<1>4. /\ \A n \in intact' : n # m => n \in intact /\ Slot(n) # c
      /\ m \in intact' => \/ Others(t) = {}
                          \/ m \in intact /\ Slot(m) # c
  BY DEF Clear
<1>5. m \notin complete /\ \A u \in Threads \ {t} : pc[u] \in Busy => seq[u] # m
  BY <1>2 DEF RingInv, WriterState, Busy
<1>6. /\ \A u \in Threads : seq[u] \in Nat /\ (pc[u] \in Busy => seq[u] > 0)
      /\ \A n \in intact : n \in Nat /\ n > 0
  BY DEF TypeInv, TypeOK
<1> HIDE DEF m, c
<1>7. c = Slot(m) /\ m = seq[t]
  BY DEF m, c
<1>8. ASSUME NEW u \in Threads PROVE WriterState(u)'
  <2>1. CASE u = t
    <3>1. Written(t)'
      BY <1>2, <1>3, <1>7 DEF Written
    <3> QED
      BY <1>2, <1>5, <1>7, <2>1, <3>1 DEF WriterState, Busy, Recording
  <2>2. CASE u # t
    <3>1. pc'[u] = pc[u] /\ seq'[u] = seq[u] /\ WriterState(u)
      BY <1>2, <2>2 DEF RingInv
    <3>2. pc[u] = "observe" => \A s \in Slots : ring'[s].committed # seq[u]
      BY <1>3, <1>6, <3>1 DEF WriterState, Busy
    <3>3. ASSUME pc[u] \in Recording, seq[u] \in intact' PROVE Written(u)'
      <4>1. seq[u] \in intact /\ Slot(seq[u]) # c
        BY <1>4, <1>5, <2>2, <3>3 DEF Busy
      <4>2. Slot(seq[u]) \in Slots
        BY <1>6, <3>3, SlotInRing DEF Busy
      <4>3. ring'[Slot(seq[u])] = ring[Slot(seq[u])] /\ Written(u)
        BY <1>3, <3>1, <3>3, <4>1, <4>2 DEF WriterState
      <4> QED
        BY <3>1, <4>3 DEF Written
    <3>4. pc[u] \in Busy => \A v \in Threads \ {u} : pc'[v] \in Busy => seq[v] # seq[u]
      BY <1>2, <1>5, <1>7, <2>2, <3>1 DEF WriterState
    <3> QED
      BY <1>2, <3>1, <3>2, <3>3, <3>4 DEF WriterState
  <2> QED
    BY <2>1, <2>2
<1>9. ASSUME NEW n \in intact' PROVE IntactState(n)'
  <2>1. CASE n = m
    <3>1. Others(t) = {}
      BY <1>4, <1>7, <2>1
    <3>2. \A u \in Threads : pc'[u] \in Recording /\ Slot(seq[u]) = c => u = t
      BY <1>2, <1>7, <3>1 DEF Others
    <3> QED
      BY <1>1, <1>2, <1>3, <1>5, <1>7, <2>1, <3>2 DEF IntactState
  <2>2. CASE n # m
    <3>1. n \in intact /\ Slot(n) # c /\ Slot(n) \in Slots
      BY <1>4, <1>6, <2>2, SlotInRing
    <3>2. ring'[Slot(n)] = ring[Slot(n)] /\ IntactState(n)
      BY <1>3, <3>1 DEF RingInv
    <3> QED
      BY <1>2, <1>7, <3>1, <3>2 DEF IntactState
  <2> QED
    BY <2>1, <2>2
<1> QED
  BY <1>2, <1>8, <1>9 DEF RingInv

\* A writer fills in its slot.  If the event in that slot is intact, it is the
\* writer's own, and no other thread writes there.
LEMMA RingWrite ==
    ASSUME TypeInv, RingInv, NEW t \in Threads, NEW r, NEW next \in Recording,
           pc[t] \in Recording,
           Write(t, pc[t], next, r),
           r.committed \in {ring[Slot(seq[t])].committed, seq[t]},
           seq[t] \in intact => /\ Written(t)'
                                /\ r.committed \in {0, seq[t]}
                                /\ r.committed = seq[t] => r.sequence = seq[t] /\ r.body = seq[t]
    PROVE  RingInv'
<1> DEFINE m == seq[t]
           c == Slot(m)
<1>1. m \in Nat /\ m > 0 /\ c \in Slots /\ pc[t] \in Busy
  BY SlotInRing DEF TypeInv, TypeOK, Busy
<1>2. /\ pc'[t] = next
      /\ \A u \in Threads \ {t} : pc'[u] = pc[u]
      /\ UNCHANGED <<seq, intact, complete, last>>
  BY DEF Write, TypeInv, TypeOK, Goto, headerVars, historyVars
<1>3. /\ ring'[c] = r
      /\ \A s \in Slots : s # c => ring'[s] = ring[s]
  BY <1>1 DEF Write, TypeInv, TypeOK
<1>4. m \notin complete /\ \A u \in Threads \ {t} : pc[u] \in Busy => seq[u] # m
  BY <1>1 DEF RingInv, WriterState
<1>5. \A n \in intact : Slot(n) = c => n = m
  BY DEF RingInv, IntactState
<1>6. /\ \A u \in Threads : seq[u] \in Nat /\ (pc[u] \in Busy => seq[u] > 0)
      /\ \A n \in intact : n \in Nat /\ n > 0
  BY DEF TypeInv, TypeOK
<1> HIDE DEF m, c
<1>7. c = Slot(m) /\ m = seq[t]
  BY DEF m, c
<1>8. ASSUME NEW u \in Threads PROVE WriterState(u)'
  <2>1. CASE u = t
    BY <1>1, <1>2, <1>4, <1>7, <2>1 DEF WriterState, Busy, Recording
  <2>2. CASE u # t
    <3>1. pc'[u] = pc[u] /\ seq'[u] = seq[u] /\ WriterState(u)
      BY <1>2, <2>2 DEF RingInv
    <3>2. pc[u] = "observe" => \A s \in Slots : ring'[s].committed # seq[u]
      BY <1>1, <1>3, <1>4, <1>7, <2>2, <3>1 DEF WriterState, Busy
    <3>3. ASSUME pc[u] \in Recording, seq[u] \in intact PROVE Written(u)'
      <4>1. Slot(seq[u]) # c /\ Slot(seq[u]) \in Slots
        BY <1>4, <1>5, <1>6, <2>2, <3>3, SlotInRing DEF Busy
      <4>2. ring'[Slot(seq[u])] = ring[Slot(seq[u])] /\ Written(u)
        BY <1>3, <3>1, <3>3, <4>1 DEF WriterState
      <4> QED
        BY <3>1, <4>2 DEF Written
    <3>4. pc[u] \in Busy => \A v \in Threads \ {u} : pc'[v] \in Busy => seq[v] # seq[u]
      BY <1>2, <1>4, <1>7, <2>2, <3>1 DEF WriterState
    <3> QED
      BY <1>2, <3>1, <3>2, <3>3, <3>4 DEF WriterState
  <2> QED
    BY <2>1, <2>2
<1>9. ASSUME NEW n \in intact PROVE IntactState(n)'
  <2>1. IntactState(n)
    BY <1>9 DEF RingInv
  <2>2. \A u \in Threads : pc'[u] \in Recording /\ Slot(seq[u]) = Slot(n) => seq[u] = n
    BY <1>2, <2>1 DEF IntactState
  <2>3. CASE Slot(n) = c
    <3>1. n = m
      BY <1>5, <1>9, <2>3
    <3> QED
      BY <1>2, <1>3, <1>4, <1>7, <1>9, <2>2, <2>3, <3>1 DEF IntactState
  <2>4. CASE Slot(n) # c
    <3>1. ring'[Slot(n)] = ring[Slot(n)]
      BY <1>3, <1>6, <1>9, <2>4, SlotInRing
    <3> QED
      BY <1>2, <2>1, <2>2, <3>1 DEF IntactState
  <2> QED
    BY <2>3, <2>4
<1> QED
  BY <1>2, <1>8, <1>9 DEF RingInv

\* The memset, the fields and the commit, in this order.
LEMMA RingFilling ==
    ASSUME TypeInv, RingInv, NEW t \in Threads, Wipe(t) \/ Fill(t) \/ Commit(t)
    PROVE  RingInv'
<1> DEFINE m == seq[t]
           q == ring[Slot(m)]
<1>1. m \in Nat /\ m > 0 /\ Slot(m) \in Slots
  BY SlotInRing DEF Wipe, Fill, Commit, Write, TypeInv, TypeOK, Busy, Recording
<1>2. q \in [committed : Nat, sequence : Nat, body : Nat]
  BY <1>1 DEF TypeInv, TypeOK
<1>3. m \in intact /\ pc[t] \in Recording => Written(t)
  BY DEF RingInv, WriterState
<1>4. CASE Wipe(t)
  <2> DEFINE r == [q EXCEPT !.sequence = m, !.body = 0]
  <2>1. /\ Write(t, "wipe", "fill", r) /\ pc[t] = "wipe"
        /\ UNCHANGED seq
    BY <1>4 DEF Wipe, Write
  <2>2. ring'[Slot(m)] = r /\ pc'[t] = "fill"
    BY <1>1, <2>1 DEF Write, Goto, TypeInv, TypeOK
  <2>3. r.committed = q.committed /\ r.sequence = m
    BY <1>2
  <2> HIDE DEF r
  <2>4. m \in intact => q.committed = 0 /\ Written(t)'
    BY <1>3, <2>1, <2>2, <2>3 DEF Written, Recording
  <2> QED
    BY <1>1, <2>1, <2>3, <2>4, RingWrite DEF Recording
<1>5. CASE Fill(t)
  <2> DEFINE r == [q EXCEPT !.body = m]
  <2>1. /\ Write(t, "fill", "commit", r) /\ pc[t] = "fill"
        /\ UNCHANGED seq
    BY <1>5 DEF Fill, Write
  <2>2. ring'[Slot(m)] = r /\ pc'[t] = "commit"
    BY <1>1, <2>1 DEF Write, Goto, TypeInv, TypeOK
  <2>3. r.committed = q.committed /\ r.sequence = q.sequence /\ r.body = m
    BY <1>2
  <2> HIDE DEF r
  <2>4. m \in intact => q.committed = 0 /\ Written(t)'
    BY <1>3, <2>1, <2>2, <2>3 DEF Written, Recording
  <2> QED
    BY <1>1, <2>1, <2>3, <2>4, RingWrite DEF Recording
<1>6. CASE Commit(t)
  <2> DEFINE r == [q EXCEPT !.committed = m]
  <2>1. /\ Write(t, "commit", "max", r) /\ pc[t] = "commit"
        /\ UNCHANGED seq
    BY <1>6 DEF Commit, Write
  <2>2. ring'[Slot(m)] = r /\ pc'[t] = "max"
    BY <1>1, <2>1 DEF Write, Goto, TypeInv, TypeOK
  <2>3. r.committed = m /\ r.sequence = q.sequence /\ r.body = q.body
    BY <1>2
  <2> HIDE DEF r
  <2>4. m \in intact => Written(t)' /\ r.sequence = m /\ r.body = m
    BY <1>3, <2>1, <2>2, <2>3 DEF Written, Recording
  <2> QED
    BY <1>1, <2>1, <2>3, <2>4, RingWrite DEF Recording
<1> QED
  BY <1>4, <1>5, <1>6

\* A writer is done: its event is complete, and still in its slot if intact.
LEMMA RingAdvance ==
    ASSUME TypeInv, RingInv, NEW t \in Threads, Advance(t)
    PROVE  RingInv'
<1>1. /\ pc[t] = "max" /\ pc'[t] \notin Busy
      /\ \A u \in Threads \ {t} : pc'[u] = pc[u]
      /\ UNCHANGED <<seq, ring, intact>>
      /\ complete' = complete \cup {seq[t]}
      /\ last' = AtomicMax(last, seq[t])
  BY DEF Advance, Recorded, Goto, TypeInv, TypeOK, Busy, Recording
<1>2. \A u \in Threads \ {t} : pc[u] \in Busy => seq[u] # seq[t]
  BY <1>1 DEF RingInv, WriterState, Busy, Recording
<1>3. ASSUME NEW u \in Threads PROVE WriterState(u)'
  <2>1. CASE u = t
    BY <1>1, <2>1 DEF WriterState, Busy
  <2>2. CASE u # t
    <3>1. pc'[u] = pc[u] /\ seq'[u] = seq[u] /\ WriterState(u)
      BY <1>1, <2>2 DEF RingInv
    <3>2. Written(u) => Written(u)'
      BY <1>1, <3>1 DEF Written
    <3>3. pc[u] \in Busy => seq[u] \notin complete'
      BY <1>1, <1>2, <2>2, <3>1 DEF WriterState
    <3>4. \A v \in Threads : pc'[v] \in Busy => pc[v] \in Busy
      BY <1>1
    <3> QED
      BY <1>1, <3>1, <3>2, <3>3, <3>4 DEF WriterState
  <2> QED
    BY <2>1, <2>2
<1>4. ASSUME NEW n \in intact PROVE IntactState(n)'
  <2>1. IntactState(n)
    BY <1>4 DEF RingInv
  <2>2. n = seq[t] => ring[Slot(n)].committed = n
    BY <1>1, <1>4 DEF RingInv, WriterState, Written, Recording
  <2>3. \A u \in Threads : pc'[u] \in Recording => pc[u] \in Recording
    BY <1>1 DEF Busy
  <2> QED
    BY <1>1, <2>1, <2>2, <2>3 DEF IntactState
<1>5. \A n \in complete' : n <= last'
  <2>1. /\ last \in Nat /\ seq[t] \in Nat
        /\ \A n \in complete : n \in Nat /\ n <= last
    BY DEF TypeInv, TypeOK, RingInv
  <2> QED
    BY <1>1, <2>1 DEF AtomicMax
<1> QED
  BY <1>1, <1>3, <1>4, <1>5 DEF RingInv

\* Every step keeps the ring consistent.
LEMMA RingNext == TypeInv /\ RingInv /\ [Next]_vars => RingInv'
<1> SUFFICES ASSUME TypeInv, RingInv, [Next]_vars PROVE RingInv'
  OBVIOUS
<1> USE DEF threadVars, hostVars, exitVars, headerVars, historyVars, producerVars
<1>1. ASSUME NEW t \in Threads, Starting(t) PROVE RingInv'
  <2>1. CASE Emit(t)
    BY <2>1, RingPublishing DEF Emit, Busy, Recording
  <2>2. CASE Crash(t)
    BY <2>2, RingPublishing DEF Crash, Busy, Recording
  <2>3. CASE Exit(t)
    <3>1. /\ UNCHANGED <<seq, ring, intact, complete, last>>
          /\ \A u \in Threads : pc'[u] \in Busy => pc'[u] = pc[u]
      BY <2>3 DEF Exit, Goto, TypeInv, TypeOK, Busy, Recording
    <3> QED
      BY <3>1, RingFrame
  <2> QED
    BY <1>1, <2>1, <2>2, <2>3 DEF Starting
<1>2. ASSUME NEW t \in Threads, Running(t) PROVE RingInv'
  <2>1. CASE ShutdownEvent(t)
    BY <2>1, RingPublishing DEF ShutdownEvent, Busy, Recording
  <2>2. CASE Clear(t)
    BY <2>2, RingClear
  <2>3. CASE Wipe(t) \/ Fill(t) \/ Commit(t)
    BY <2>3, RingFilling
  <2>4. CASE Advance(t)
    BY <2>4, RingAdvance
  <2>5. CASE \/ ObserveDrop(t) \/ Fault(t) \/ MarkCode(t) \/ MarkAddress(t) \/ MarkState(t)
             \/ ShutdownEnter(t) \/ MarkCleanShutdown(t) \/ Close(t) \/ ShutdownReturn(t)
    <3>1. UNCHANGED <<seq, ring, intact, complete, last>>
      BY <2>5 DEF ObserveDrop, Fault, MarkCode, MarkAddress, MarkState, Mark, ShutdownEnter,
                  MarkCleanShutdown, Close, ShutdownReturn
    <3>2. \/ UNCHANGED pc
          \/ \E place : place \notin Busy /\ Goto(t, place)
      BY <2>5 DEF ObserveDrop, Dropped, Fault, MarkCode, MarkAddress, MarkState, Mark,
                  ShutdownEnter, MarkCleanShutdown, Close, ShutdownReturn, Busy, Recording
    <3>3. \A u \in Threads : pc'[u] \in Busy => pc'[u] = pc[u]
      BY <3>2 DEF Goto, TypeInv, TypeOK
    <3> QED
      BY <3>1, <3>3, RingFrame
  <2> QED
    BY <1>2, <2>1, <2>2, <2>3, <2>4, <2>5 DEF Running, ThreadStep
<1>3. CASE Collector \/ Ending \/ UNCHANGED vars
  <2>1. UNCHANGED <<pc, seq, ring, intact, complete, last>>
    BY <1>3 DEF Collector, Ending, vars
  <2> QED
    BY <2>1, RingFrame
<1> QED
  BY <1>1, <1>2, <1>3 DEF Next

\* The ring is consistent in every reachable state.
LEMMA RingInvariant == Spec => []RingInv
  BY RingInit, RingNext, TypeInvariant, PTL DEF Spec

-----------------------------------------------------------------------------
(***************************************************************************)
(* The collector.                                                          *)
(***************************************************************************)

\* The event is in the trace that is being decoded.
Decoded(n) == \E r \in decoded : r.sequence = n

\* The events of the ring that the collector has to find.
Wanted(n) == n \in due /\ n \in intact /\ n > header.last - Capacity

\* A record whose head was accepted is still committed when its body is read,
\* unless another event has taken the slot since: its own writer is done with it.
Accepted ==
    cpc = "body" /\ record =>
        /\ reading <= event_sequence
        /\ \A t \in Threads : pc[t] = "observe" => seq[t] # reading
        /\ reading \in intact => ring[Slot(reading)].committed = reading

\* What the collector has found so far.
Found ==
    /\ cpc = "body" /\ reading \in due /\ reading \in intact => record
    /\ cpc \in {"head", "body"} =>
          /\ \A n \in due : n <= header.last
          /\ \A n \in due : Wanted(n) /\ n < reading => Decoded(n)
    /\ cpc = "publish" => \A n \in due : Wanted(n) => Decoded(n)

ReadInv == DecodedExact /\ Accepted /\ Found /\ CompletedAreDecoded

\* At the start the collector waits.
LEMMA ReadInit == Init => ReadInv
<1> SUFFICES ASSUME Init PROVE ReadInv
  OBVIOUS
<1>1. cpc = "watch" /\ decoded = {}
  BY DEF Init
<1> QED
  BY <1>1 DEF ReadInv, DecodedExact, Accepted, Found, CompletedAreDecoded

\* A complete event that lost its slot does not get it back.
LEMMA IntactKept ==
    ASSUME TypeInv, RingInv, NEW t \in Threads, Running(t) \/ Starting(t)
    PROVE  \A n \in complete : n \in intact' => n \in intact
<1> USE DEF threadVars, hostVars, exitVars, headerVars, historyVars
<1>1. CASE Clear(t)
  <2>1. seq[t] \notin complete
    BY <1>1 DEF Clear, RingInv, WriterState, Busy
  <2> QED
    BY <1>1, <2>1 DEF Clear
<1>2. CASE ~Clear(t)
  <2>1. UNCHANGED intact
    BY <1>2
    DEF Running, Starting, ThreadStep, ObserveDrop, Wipe, Fill, Commit, Write, Advance,
        Fault, MarkCode, MarkAddress, MarkState, Mark, ShutdownEnter, ShutdownEvent,
        MarkCleanShutdown, Close, ShutdownReturn, Emit, Crash, Exit
  <2> QED
    BY <2>1
<1> QED
  BY <1>1, <1>2

\* Taking a number for a new event does not touch an accepted record.
LEMMA AcceptedPublish ==
    ASSUME TypeInv, Accepted, NEW t \in Threads, NEW place, place # "observe",
           Publish(t, place), UNCHANGED <<cpc, record, reading, intact, ring>>
    PROVE  Accepted'
<1> SUFFICES ASSUME cpc = "body", record
             PROVE  /\ reading <= event_sequence'
                    /\ \A u \in Threads : pc'[u] = "observe" => seq'[u] # reading
  BY DEF Accepted
<1>1. /\ event_sequence \in Nat /\ reading \in Nat /\ reading <= event_sequence
      /\ \A u \in Threads : pc[u] = "observe" => seq[u] # reading
  BY DEF TypeInv, TypeOK, Accepted
<1>2. CASE initialized /\ mode[t] # "fault"
  <2>1. /\ event_sequence' = event_sequence + 1
        /\ seq'[t] = event_sequence + 1
        /\ \A u \in Threads \ {t} : seq'[u] = seq[u] /\ pc'[u] = pc[u]
    BY <1>2 DEF Publish, Goto, TypeInv, TypeOK
  <2> QED
    BY <1>1, <2>1
<1>3. CASE ~(initialized /\ mode[t] # "fault")
  <2>1. /\ UNCHANGED <<event_sequence, seq>>
        /\ \A u \in Threads : pc'[u] = "observe" => pc[u] = "observe"
    BY <1>3 DEF Publish, Goto, TypeInv, TypeOK
  <2> QED
    BY <1>1, <2>1
<1> QED
  BY <1>2, <1>3

\* No step of a thread takes a record back that the collector has accepted,
\* other than by writing another event in its slot.
LEMMA AcceptedKept ==
    ASSUME TypeInv, RingInv, Accepted, NEW t \in Threads, Running(t) \/ Starting(t)
    PROVE  Accepted'
<1> USE DEF threadVars, hostVars, exitVars, headerVars, historyVars
<1>1. UNCHANGED <<cpc, record, reading>>
  BY DEF Running, Starting, collectorVars
<1>2. CASE Emit(t) \/ Crash(t) \/ ShutdownEvent(t)
  BY <1>1, <1>2, AcceptedPublish DEF Emit, Crash, ShutdownEvent
<1>3. CASE Clear(t)
  <2> SUFFICES ASSUME cpc = "body", record
               PROVE  /\ reading <= event_sequence'
                      /\ \A u \in Threads : pc'[u] = "observe" => seq'[u] # reading
                      /\ reading \in intact' => ring'[Slot(reading)].committed = reading
    BY <1>1 DEF Accepted
  <2>1. /\ UNCHANGED <<event_sequence, seq>>
        /\ \A u \in Threads : pc'[u] = "observe" => pc[u] = "observe"
    BY <1>3 DEF Clear, Goto, TypeInv, TypeOK
  <2>2. /\ reading <= event_sequence /\ seq[t] # reading
        /\ \A u \in Threads : pc[u] = "observe" => seq[u] # reading
        /\ reading \in intact => ring[Slot(reading)].committed = reading
    BY <1>3 DEF Accepted, Clear
  <2>3. ASSUME reading \in intact' PROVE ring'[Slot(reading)].committed = reading
    <3>1. reading \in intact /\ Slot(reading) # Slot(seq[t])
      BY <1>3, <2>2, <2>3 DEF Clear
    <3>2. Slot(reading) \in Slots
      BY <3>1, SlotInRing DEF TypeInv, TypeOK
    <3>3. ring'[Slot(reading)] = ring[Slot(reading)]
      BY <1>3, <3>1, <3>2 DEF Clear, TypeInv, TypeOK
    <3> QED
      BY <2>2, <3>1, <3>3
  <2> QED
    BY <2>1, <2>2, <2>3
<1>4. CASE Wipe(t) \/ Fill(t) \/ Commit(t)
  <2>1. /\ UNCHANGED <<event_sequence, seq, intact>>
        /\ pc[t] \in Recording
        /\ \A u \in Threads : pc'[u] = "observe" => pc[u] = "observe"
    BY <1>4 DEF Wipe, Fill, Commit, Write, Goto, TypeInv, TypeOK, Recording
  <2>2. seq[t] \in Nat /\ Slot(seq[t]) \in Slots
    BY <2>1, SlotInRing DEF TypeInv, TypeOK, Busy
  <2>3. /\ ring'[Slot(seq[t])].committed \in {ring[Slot(seq[t])].committed, seq[t]}
        /\ \A s \in Slots : s # Slot(seq[t]) => ring'[s] = ring[s]
    <3>1. /\ ring[Slot(seq[t])] \in [committed : Nat, sequence : Nat, body : Nat]
          /\ ring \in [Slots -> [committed : Nat, sequence : Nat, body : Nat]]
      BY <2>2 DEF TypeInv, TypeOK
    <3>2. CASE Wipe(t)
      BY <2>2, <3>1, <3>2 DEF Wipe, Write
    <3>3. CASE Fill(t)
      BY <2>2, <3>1, <3>3 DEF Fill, Write
    <3>4. CASE Commit(t)
      BY <2>2, <3>1, <3>4 DEF Commit, Write
    <3> QED
      BY <1>4, <3>2, <3>3, <3>4
  <2>4. ASSUME reading \in intact, ring[Slot(reading)].committed = reading
        PROVE  ring'[Slot(reading)].committed = reading
    <3>1. Slot(reading) \in Slots
      BY <2>4, SlotInRing DEF TypeInv, TypeOK
    <3>2. Slot(reading) = Slot(seq[t]) => seq[t] = reading
      BY <2>1, <2>4 DEF RingInv, IntactState
    <3> QED
      BY <2>3, <2>4, <3>1, <3>2
  <2> QED
    BY <1>1, <2>1, <2>4 DEF Accepted
<1>5. CASE \/ Exit(t) \/ ObserveDrop(t) \/ Advance(t) \/ Fault(t)
           \/ MarkCode(t) \/ MarkAddress(t) \/ MarkState(t)
           \/ ShutdownEnter(t) \/ MarkCleanShutdown(t) \/ Close(t) \/ ShutdownReturn(t)
  <2>1. UNCHANGED <<event_sequence, seq, ring, intact>>
    BY <1>5 DEF Exit, ObserveDrop, Advance, Fault, MarkCode, MarkAddress, MarkState, Mark,
                ShutdownEnter, MarkCleanShutdown, Close, ShutdownReturn
  <2>2. \/ UNCHANGED pc
        \/ \E place : place # "observe" /\ Goto(t, place)
    BY <1>5 DEF Exit, ObserveDrop, Dropped, Advance, Recorded, Fault, MarkCode, MarkAddress,
                MarkState, Mark, ShutdownEnter, MarkCleanShutdown, Close, ShutdownReturn
  <2>3. \A u \in Threads : pc'[u] = "observe" => pc[u] = "observe"
    BY <2>2 DEF Goto, TypeInv, TypeOK
  <2> QED
    BY <1>1, <2>1, <2>3 DEF Accepted
<1> QED
  BY <1>2, <1>3, <1>4, <1>5 DEF Running, Starting, ThreadStep

\* The threads of the emulator leave the collector's findings alone.
LEMMA ReadThread ==
    ASSUME TypeInv, RingInv, ReadInv, NEW t \in Threads, Running(t) \/ Starting(t)
    PROVE  ReadInv'
<1>1. UNCHANGED <<cpc, header, reading, record, decoded, output, due>>
  BY DEF Running, Starting, collectorVars
<1>2. \A n \in due : n \in intact' => n \in intact
  BY IntactKept DEF TypeInv, TypeOK
<1>3. Accepted'
  BY AcceptedKept DEF ReadInv
<1>4. DecodedExact' /\ CompletedAreDecoded'
  BY <1>1 DEF ReadInv, DecodedExact, CompletedAreDecoded
<1>5. \A n \in due : (Wanted(n)' => Wanted(n)) /\ (Decoded(n) => Decoded(n)')
  BY <1>1, <1>2 DEF Wanted, Decoded
<1>6. Found'
  BY <1>1, <1>2, <1>5 DEF ReadInv, Found
<1> QED
  BY <1>3, <1>4, <1>6 DEF ReadInv

\* The first event that is read is the oldest that the ring can hold.
LEMMA FirstIsOldest ==
    ASSUME NEW n \in Nat, NEW m \in Nat, n > 0, n <= m, n > m - Capacity
    PROVE  First(m) # 0 /\ First(m) <= n
  BY RecorderAssumption DEF First

\* Reading the header: nothing is found yet, and nothing due is passed over.
LEMMA ReadTheHeader ==
    ASSUME TypeInv, RingInv, ReadInv, ReadHeader, UNCHANGED producerVars
    PROVE  ReadInv'
<1>1. /\ header'.last = last /\ decoded' = {} /\ due' = complete \cap intact
      /\ reading' = First(last)
      /\ cpc' = IF First(last) = 0 THEN "publish" ELSE "head"
  BY DEF ReadHeader
<1>2. last \in Nat /\ \A n \in due' : n \in Nat /\ n > 0 /\ n <= last
  BY <1>1 DEF TypeInv, TypeOK, RingInv
<1>3. \A n \in due' : Wanted(n)' => First(last) # 0 /\ First(last) <= n
  BY <1>1, <1>2, FirstIsOldest DEF Wanted
<1>4. First(last) \in Nat
  BY <1>2, RecorderAssumption DEF First
<1>5. Found'
  BY <1>1, <1>2, <1>3, <1>4 DEF Found
<1> QED
  BY <1>1, <1>5 DEF ReadInv, DecodedExact, Accepted, CompletedAreDecoded

\* The head of a record: an intact event that is complete is accepted, and an
\* accepted one is no longer to be recorded by anybody.
LEMMA ReadTheHead ==
    ASSUME TypeInv, RingInv, ReadInv, ReadHead, UNCHANGED producerVars
    PROVE  ReadInv'
<1> USE DEF producerVars, threadVars, hostVars, exitVars, headerVars, historyVars
<1>1. /\ cpc = "head" /\ cpc' = "body"
      /\ UNCHANGED <<header, reading, decoded, output, due, pc, seq, event_sequence, ring,
                     intact, complete>>
  BY DEF ReadHead
<1>2. record' <=> (/\ ring[Slot(reading)].committed = reading
                   /\ ring[Slot(reading)].sequence = reading)
  BY DEF ReadHead
<1>3. reading \in Nat /\ reading > 0 /\ Slot(reading) \in Slots /\ event_sequence \in Nat
  BY <1>1, SlotInRing DEF TypeInv, TypeOK
<1>4. reading \in due /\ reading \in intact => record'
  BY <1>2, <1>3 DEF TypeInv, TypeOK, RingInv, IntactState
<1>5. ASSUME record' PROVE /\ reading <= event_sequence
                           /\ \A t \in Threads : pc[t] = "observe" => seq[t] # reading
  BY <1>2, <1>3, <1>5 DEF TypeInv, RingInv, WriterState
<1>6. Accepted'
  BY <1>1, <1>2, <1>5 DEF Accepted
<1>7. \A n \in due : (Wanted(n)' <=> Wanted(n)) /\ (Decoded(n)' <=> Decoded(n))
  BY <1>1 DEF Wanted, Decoded
<1>8. Found'
  BY <1>1, <1>4, <1>7 DEF ReadInv, Found
<1> QED
  BY <1>1, <1>6, <1>8 DEF ReadInv, DecodedExact, CompletedAreDecoded

\* The body of a record: what is whole is exact, and what is due is found.
LEMMA ReadTheBody ==
    ASSUME TypeInv, RingInv, ReadInv, ReadBody, UNCHANGED producerVars
    PROVE  ReadInv'
<1> USE DEF producerVars, threadVars, hostVars, exitVars, headerVars, historyVars
<1> DEFINE e == [sequence |-> reading, body |-> ring[Slot(reading)].body,
                 whole |-> reading \in intact]
<1>1. /\ cpc = "body"
      /\ UNCHANGED <<header, due, intact>>
  BY DEF ReadBody
<1>2. /\ record => decoded' = decoded \cup {e}
      /\ ~record => decoded' = decoded
  BY Zenon DEF ReadBody
<1>3. \/ reading = header.last /\ cpc' = "publish"
      \/ cpc' = "head" /\ reading' = reading + 1
  BY Zenon DEF ReadBody
<1>4. reading \in Nat /\ header.last \in Nat /\ \A n \in due : n \in Nat
  BY DEF TypeInv, TypeOK, Headers
<1>5. record /\ reading \in intact => ring[Slot(reading)].body = reading
  BY <1>1 DEF ReadInv, Accepted, RingInv, IntactState
<1>6. /\ e.sequence = reading
      /\ e.whole => reading \in intact
      /\ e.body = ring[Slot(reading)].body
  OBVIOUS
<1> HIDE DEF e
<1>7. DecodedExact'
  BY <1>2, <1>5, <1>6 DEF ReadInv, DecodedExact
<1>8. /\ \A n \in due : Decoded(n) => Decoded(n)'
      /\ record => \A n \in due : n = reading => Decoded(n)'
  BY <1>2, <1>6 DEF Decoded
<1>9. \A n \in due : Wanted(n)' /\ n <= reading => Decoded(n)'
  <2> SUFFICES ASSUME NEW n \in due, Wanted(n)', n <= reading PROVE Decoded(n)'
    OBVIOUS
  <2>1. Wanted(n)
    BY <1>1 DEF Wanted
  <2>2. CASE n = reading
    BY <1>1, <1>8, <2>1, <2>2 DEF ReadInv, Found, Wanted
  <2>3. CASE n < reading
    BY <1>1, <1>8, <2>1, <2>3 DEF ReadInv, Found
  <2> QED
    BY <1>4, <2>2, <2>3
<1>10. \A n \in due : n <= header.last
  BY <1>1 DEF ReadInv, Found
<1>11. Found'
  BY <1>1, <1>3, <1>4, <1>9, <1>10 DEF Found
<1> QED
  BY <1>3, <1>7, <1>11 DEF ReadInv, Accepted, CompletedAreDecoded

\* Every step of the collector and of the emulator keeps the findings right.
LEMMA ReadNext == TypeInv /\ RingInv /\ ReadInv /\ [Next]_vars => ReadInv'
<1> SUFFICES ASSUME TypeInv, RingInv, ReadInv, [Next]_vars PROVE ReadInv'
  OBVIOUS
<1> USE DEF producerVars, threadVars, hostVars, exitVars, headerVars, historyVars
<1>1. ASSUME NEW t \in Threads, Running(t) \/ Starting(t) PROVE ReadInv'
  BY <1>1, ReadThread
<1>2. CASE Watch
  BY <1>2 DEF Watch, ReadInv, DecodedExact, Accepted, Found, CompletedAreDecoded
<1>3. ASSUME PublishTrace, UNCHANGED producerVars PROVE ReadInv'
  <2>1. /\ cpc = "publish" /\ cpc' = "published" /\ UNCHANGED decoded
        /\ output'.last = header.last /\ output'.events = {r.sequence : r \in decoded}
        /\ due' = due \cap intact
    BY <1>3 DEF PublishTrace
  <2>2. \A n \in due' : n > output'.last - Capacity => n \in output'.events
    BY <2>1 DEF ReadInv, Found, Wanted, Decoded
  <2> QED
    BY <2>1, <2>2 DEF ReadInv, DecodedExact, Accepted, Found, CompletedAreDecoded
<1>4. CASE WriteDoneFile
  BY <1>4 DEF WriteDoneFile, ReadInv, DecodedExact, Accepted, Found, CompletedAreDecoded
<1>5. CASE DecodeFails
  BY <1>5 DEF DecodeFails, ReadInv, DecodedExact, Accepted, Found, CompletedAreDecoded
<1>6. CASE Ending \/ UNCHANGED vars
  <2>1. UNCHANGED <<pc, seq, event_sequence, ring, intact, collectorVars>>
    BY <1>6 DEF Ending, vars
  <2> QED
    BY <2>1 DEF collectorVars, ReadInv, DecodedExact, Accepted, Found, CompletedAreDecoded,
                Wanted, Decoded
<1> QED
  BY <1>1, <1>2, <1>3, <1>4, <1>5, <1>6, ReadTheHeader, ReadTheHead, ReadTheBody
  DEF Next, Collector, CollectorStep

\* The collector's findings are right in every reachable state.
LEMMA ReadInvariant == Spec => []ReadInv
  BY ReadInit, ReadNext, TypeInvariant, RingInvariant, PTL DEF Spec

\* The record of an event that had its slot to itself is decoded with the event's
\* own fields, although the collector reads it in two parts while the threads
\* go on writing without a lock: whatever the capacity and the number of writers.
THEOREM DecodedExactHolds == Spec => []DecodedExact
<1>1. ReadInv => DecodedExact
  BY DEF ReadInv
<1> QED
  BY ReadInvariant, <1>1, PTL

\* The published trace has every event that was complete and still in the ring
\* when the header was read, and that nobody has overwritten since: a crash or
\* a kill at any moment loses only what was being written.
THEOREM CompletedAreDecodedHolds == Spec => []CompletedAreDecoded
<1>1. ReadInv => CompletedAreDecoded
  BY DEF ReadInv
<1> QED
  BY ReadInvariant, <1>1, PTL

-----------------------------------------------------------------------------
(***************************************************************************)
(* The crash label.                                                        *)
(***************************************************************************)

\* A thread whose crash can be in the header.
Crashed(t) == t \in Threads /\ mode[t] \in {"crash", "fault"}

\* The details are of threads that crashed, and complete once the state says so.
Details(state, c) ==
    /\ c.code # None => Crashed(c.code)
    /\ c.address # None => Crashed(c.address)
    /\ state = "crashed" => c.code # None /\ c.address # None

\* How far a thread inside MarkCrashed has come.
MarkerState(t) ==
    /\ pc[t] \in Marking => mode[t] = "crash"
    /\ pc[t] = "mark_address" => crash.code # None
    /\ pc[t] = "mark_state" => crash.code # None /\ crash.address # None

\* The header in the file, the one the collector read and the published one all
\* have their details, if they say crashed.
CrashInv ==
    /\ \A t \in Threads : MarkerState(t)
    /\ Details(producer_state, crash)
    /\ Details(header.state, header.crash)
    /\ output # None => Details(output.state, output.crash)

\* At the start nobody has crashed.
LEMMA CrashInit == Init => CrashInv
<1> SUFFICES ASSUME Init PROVE CrashInv
  OBVIOUS
<1>1. /\ producer_state = "active" /\ header.state = "active"
      /\ crash.code = None /\ crash.address = None
      /\ header.crash.code = None /\ header.crash.address = None
      /\ output = None
      /\ \A t \in Threads : pc[t] = "run"
  BY DEF Init, NoHeader, NoCrash
<1> QED
  BY <1>1 DEF CrashInv, MarkerState, Details, Marking

\* A thread that has crashed has crashed for good.
LEMMA CrashedForGood ==
    ASSUME TypeInv, CrashInv, NEW t \in Threads, Running(t) \/ Starting(t), NEW u, Crashed(u)
    PROVE  Crashed(u)'
<1>1. CASE Crash(t) \/ Exit(t) \/ Fault(t)
  BY <1>1 DEF Crash, Exit, Fault, Crashed, TypeInv, TypeOK
<1>2. CASE ~(Crash(t) \/ Exit(t) \/ Fault(t))
  <2>1. UNCHANGED mode
    BY <1>2
    DEF threadVars, Running, Starting, ThreadStep, ObserveDrop, Clear, Wipe, Fill, Commit,
        Write, Advance, MarkCode, MarkAddress, MarkState, Mark, ShutdownEnter, ShutdownEvent,
        MarkCleanShutdown, Close, ShutdownReturn, Emit
  <2> QED
    BY <2>1 DEF Crashed
<1> QED
  BY <1>1, <1>2

\* A step of a thread other than inside MarkCrashed.
LEMMA CrashFrame ==
    ASSUME TypeInv, CrashInv, NEW t \in Threads, Running(t) \/ Starting(t),
           UNCHANGED crash, producer_state' = "crashed" => producer_state = "crashed",
           \A u \in Threads \ {t} : pc'[u] = pc[u] /\ mode'[u] = mode[u],
           \/ pc'[t] \notin Marking
           \/ pc'[t] = "mark_code" /\ mode'[t] = "crash"
    PROVE  CrashInv'
<1>1. \A u \in Threads : MarkerState(u)'
  BY DEF CrashInv, MarkerState, Marking
<1>2. UNCHANGED <<header, output>>
  BY DEF Running, Starting, collectorVars
<1>3. \A u : Crashed(u) => Crashed(u)'
  BY CrashedForGood
<1> QED
  BY <1>1, <1>2, <1>3 DEF CrashInv, Details

\* MarkCrashed: the code, then the address, then the state.
LEMMA CrashMark ==
    ASSUME TypeInv, CrashInv, NEW t \in Threads, Running(t),
           MarkCode(t) \/ MarkAddress(t) \/ MarkState(t)
    PROVE  CrashInv'
<1>1. UNCHANGED <<header, output, mode>>
  BY DEF Running, collectorVars, MarkCode, MarkAddress, MarkState, Mark
<1>2. /\ Crashed(t) /\ pc[t] \in Marking /\ mode[t] = "crash" /\ t # None
      /\ crash \in [code : Threads \cup {None}, address : Threads \cup {None}]
  BY RecorderAssumption DEF CrashInv, MarkerState, Marking, Crashed, MarkCode, MarkAddress,
                            MarkState, Mark, TypeInv, TypeOK, Crashes
<1>3. \A u \in Threads \ {t} : pc'[u] = pc[u]
  BY DEF MarkCode, MarkAddress, MarkState, Mark, Goto, TypeInv, TypeOK
<1>4. \A u : Crashed(u)' <=> Crashed(u)
  BY <1>1 DEF Crashed
<1>5. CASE MarkCode(t)
  <2>1. /\ crash'.code = t /\ crash'.address = crash.address /\ UNCHANGED producer_state
        /\ pc'[t] = "mark_address"
    BY <1>2, <1>5 DEF MarkCode, Mark, Goto, TypeInv, TypeOK
  <2> QED
    BY <1>1, <1>2, <1>3, <1>4, <2>1 DEF CrashInv, MarkerState, Details, Marking
<1>6. CASE MarkAddress(t)
  <2>1. /\ crash'.address = t /\ crash'.code = crash.code /\ UNCHANGED producer_state
        /\ pc[t] = "mark_address" /\ pc'[t] = "mark_state"
    BY <1>2, <1>6 DEF MarkAddress, Mark, Goto, TypeInv, TypeOK
  <2> QED
    BY <1>1, <1>2, <1>3, <1>4, <2>1 DEF CrashInv, MarkerState, Details, Marking
<1>7. CASE MarkState(t)
  <2>1. /\ UNCHANGED crash /\ producer_state' = "crashed"
        /\ pc[t] = "mark_state" /\ pc'[t] = "lock"
    BY <1>7 DEF MarkState, Mark, Goto, TypeInv, TypeOK
  <2> QED
    BY <1>1, <1>2, <1>3, <1>4, <2>1 DEF CrashInv, MarkerState, Details, Marking
<1> QED
  BY <1>5, <1>6, <1>7

\* Every step keeps the details with the label.
LEMMA CrashNext == TypeInv /\ CrashInv /\ [Next]_vars => CrashInv'
<1> SUFFICES ASSUME TypeInv, CrashInv, [Next]_vars PROVE CrashInv'
  OBVIOUS
<1> USE DEF threadVars, hostVars, exitVars, headerVars, historyVars, producerVars
<1>1. ASSUME NEW t \in Threads, Starting(t) PROVE CrashInv'
  <2>1. UNCHANGED <<crash, producer_state>>
    BY <1>1 DEF Starting, Emit, Crash, Exit
  <2>2. /\ \A u \in Threads \ {t} : pc'[u] = pc[u] /\ mode'[u] = mode[u]
        /\ pc'[t] \notin Marking
    BY <1>1 DEF Starting, Emit, Crash, Exit, Publish, Goto, TypeInv, TypeOK, Marking
  <2> QED
    BY <1>1, <2>1, <2>2, CrashFrame
<1>2. ASSUME NEW t \in Threads, Running(t) PROVE CrashInv'
  <2>1. CASE MarkCode(t) \/ MarkAddress(t) \/ MarkState(t)
    BY <1>2, <2>1, CrashMark
  <2>2. CASE Close(t)
    <3>1. UNCHANGED <<pc, mode, crash, producer_state>> /\ pc[t] = "close"
      BY <2>2 DEF Close
    <3> QED
      BY <1>2, <3>1, CrashFrame DEF Marking
  <2>3. CASE \/ ObserveDrop(t) \/ Clear(t) \/ Wipe(t) \/ Fill(t) \/ Commit(t) \/ Advance(t)
             \/ Fault(t) \/ ShutdownEnter(t) \/ ShutdownEvent(t) \/ MarkCleanShutdown(t)
             \/ ShutdownReturn(t)
    <3>1. UNCHANGED crash
      BY <2>3 DEF ObserveDrop, Clear, Wipe, Fill, Commit, Write, Advance, Fault, ShutdownEnter,
                  ShutdownEvent, MarkCleanShutdown, ShutdownReturn
    <3>2. producer_state' = "crashed" => producer_state = "crashed"
      BY <2>3 DEF ObserveDrop, Clear, Wipe, Fill, Commit, Write, Advance, Fault, ShutdownEnter,
                  ShutdownEvent, MarkCleanShutdown, AfterCleanShutdown, ShutdownReturn
    <3>3. \A u \in Threads \ {t} : mode'[u] = mode[u]
      BY <2>3 DEF ObserveDrop, Clear, Wipe, Fill, Commit, Write, Advance, Fault, ShutdownEnter,
                  ShutdownEvent, MarkCleanShutdown, ShutdownReturn, TypeInv, TypeOK
    <3>4. \E place : /\ Goto(t, place)
                     /\ \/ place \notin Marking
                        \/ place = "mark_code" /\ mode'[t] = "crash"
      <4>1. CASE Advance(t)
        BY <4>1 DEF Advance, Recorded, Marking
      <4>2. CASE ObserveDrop(t)
        BY <4>2 DEF ObserveDrop, Dropped, Marking
      <4>3. CASE ShutdownEvent(t) \/ ShutdownEnter(t)
        BY <4>3 DEF ShutdownEvent, Publish, ShutdownEnter, Marking
      <4>4. CASE \/ Clear(t) \/ Wipe(t) \/ Fill(t) \/ Commit(t) \/ Fault(t)
                 \/ MarkCleanShutdown(t) \/ ShutdownReturn(t)
        BY <4>4 DEF Clear, Wipe, Fill, Commit, Write, Fault, MarkCleanShutdown, ShutdownReturn,
                    Marking
      <4> QED
        BY <2>3, <4>1, <4>2, <4>3, <4>4
    <3>5. /\ \A u \in Threads \ {t} : pc'[u] = pc[u]
          /\ pc'[t] \notin Marking \/ (pc'[t] = "mark_code" /\ mode'[t] = "crash")
      BY <3>4 DEF Goto, TypeInv, TypeOK
    <3> QED
      BY <1>2, <3>1, <3>2, <3>3, <3>5, CrashFrame
  <2> QED
    BY <1>2, <2>1, <2>2, <2>3 DEF Running, ThreadStep
<1>3. ASSUME Collector PROVE CrashInv'
  <2>1. UNCHANGED <<pc, mode, producer_state, crash>>
    BY <1>3 DEF Collector
  <2>2. \A u \in Threads : MarkerState(u)'
    BY <2>1 DEF CrashInv, MarkerState
  <2>3. Details(producer_state, crash)'
    BY <2>1 DEF CrashInv, Details, Crashed
  <2>4. CASE ReadHeader
    <3>1. header'.state = producer_state /\ header'.crash = crash /\ UNCHANGED output
      BY <2>4 DEF ReadHeader
    <3> QED
      BY <2>1, <2>2, <2>3, <3>1 DEF CrashInv, Details, Crashed
  <2>5. CASE PublishTrace
    <3>1. /\ output'.state = header.state /\ output'.crash = header.crash
          /\ UNCHANGED header
      BY <2>5 DEF PublishTrace
    <3> QED
      BY <2>1, <2>2, <2>3, <3>1 DEF CrashInv, Details, Crashed
  <2>6. CASE WriteDoneFile \/ DecodeFails
    <3>1. /\ header'.state = "active"
          /\ header'.crash.code = None /\ header'.crash.address = None
          /\ UNCHANGED output
      BY <2>6 DEF WriteDoneFile, DecodeFails, NoHeader, NoCrash
    <3> QED
      BY <2>1, <2>2, <2>3, <3>1 DEF CrashInv, Details, Crashed
  <2>7. CASE Watch \/ ReadHead \/ ReadBody
    <3>1. UNCHANGED <<header, output>>
      BY <2>7 DEF Watch, ReadHead, ReadBody
    <3> QED
      BY <2>1, <2>2, <2>3, <3>1 DEF CrashInv, Details, Crashed
  <2> QED
    BY <1>3, <2>4, <2>5, <2>6, <2>7 DEF Collector, CollectorStep
<1>4. CASE Ending \/ UNCHANGED vars
  <2>1. UNCHANGED <<pc, mode, producer_state, crash, header, output>>
    BY <1>4 DEF Ending, vars, collectorVars
  <2> QED
    BY <2>1 DEF CrashInv, MarkerState, Details, Crashed
<1> QED
  BY <1>1, <1>2, <1>3, <1>4 DEF Next

\* The crash label is consistent in every reachable state.
LEMMA CrashInvariant == Spec => []CrashInv
  BY CrashInit, CrashNext, TypeInvariant, PTL DEF Spec

\* A trace published as crashed shows a code and an address, and both are of the
\* one thread that crashed when only one did: the collector may read the header
\* at any point of MarkCrashed, and the process may end there.
THEOREM CrashedHasDetailsHolds == Spec => []CrashedHasDetails
<1>1. CrashInv => CrashedHasDetails
  <2> SUFFICES ASSUME CrashInv, output # None, output.state = "crashed"
               PROVE  /\ output.crash.code # None /\ output.crash.address # None
                      /\ Cardinality({t \in Threads : mode[t] \in {"crash", "fault"}}) = 1
                           => output.crash.code = output.crash.address
    BY DEF CrashedHasDetails
  <2> DEFINE C == {t \in Threads : mode[t] \in {"crash", "fault"}}
  <2>1. output.crash.code # None /\ output.crash.address # None
    BY DEF CrashInv, Details
  <2>2. output.crash.code \in C /\ output.crash.address \in C
    BY <2>1 DEF CrashInv, Details, Crashed
  <2>3. IsFiniteSet(C)
    BY RecorderAssumption, FS_Subset
  <2> HIDE DEF C
  <2>4. Cardinality(C) = 1 => \E x : C = {x}
    BY <2>3, FS_Singleton
  <2>5. Cardinality(C) = 1 => output.crash.code = output.crash.address
    BY <2>2, <2>4
  <2> QED
    BY <2>1, <2>5 DEF C
<1> QED
  BY CrashInvariant, <1>1, PTL

=============================================================================
