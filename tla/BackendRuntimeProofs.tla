------------------------- MODULE BackendRuntimeProofs -------------------------
(***************************************************************************)
(* Proofs about BackendRuntime for every number of processes, commands and *)
(* daemon goroutines.                                                      *)
(***************************************************************************)
EXTENDS BackendRuntime, FiniteSetTheorems, TLAPS

\* The phases only a native process goes through, and those in which it has a
\* tracker.
NativePhases == {"tracking", "tracked", "opened", "closing", "leaving"}
TrackedPhases == {"tracking"} \cup TrackerPhases

NativeIsTracked(p) ==
  /\ proc[p] \in NativePhases => kind[p] = "native"
  /\ kind[p] = "native" /\ proc[p] \in TrackedPhases => note[p] \in Records

TypeInv == TypeOK /\ \A p \in Pids : NativeIsTracked(p)

-------------------------------------------------------------------------------
(* Types. *)

\* A caller's step does nothing to a process but end it, reap it, or let it
\* begin its shutdown.
Quiet ==
  /\ proc' \in [Pids -> Phases]
  /\ \A p \in Pids : proc'[p] \in LivePhases =>
       \/ proc'[p] = proc[p]
       \/ proc[p] \in {"serving", "stopping"} /\ proc'[p] = "stopping"
  /\ UNCHANGED <<kind, note>>

LEMMA QuietType ==
  ASSUME TypeInv, Quiet
  PROVE  \A p \in Pids : NativeIsTracked(p)'
  BY DEF TypeInv, Quiet, NativeIsTracked, NativePhases, TrackedPhases,
         TrackerPhases, SocketPhases, LivePhases, Phases

\* What the ways to move a caller do to it and to the processes.
LEMMA MoveType ==
  ASSUME TypeOK, NEW c \in Callers
  PROVE  /\ \A l \in Points : Goto(c, l) =>
              /\ pc' \in [Callers -> Points]
              /\ proc' = proc
              /\ parent' = parent
         /\ Return(c) =>
              /\ pc' \in [Callers -> Points]
              /\ proc' \in [Pids -> Phases]
              /\ \A p \in Pids : proc'[p] # proc[p] => proc'[p] = "gone"
              /\ parent' \in [Pids -> Callers \cup {Init1}]
<1> USE DEF TypeOK
<1>1. \A l \in Points : Goto(c, l) =>
        /\ pc' \in [Callers -> Points]
        /\ proc' = proc
        /\ parent' = parent
  BY DEF Goto
<1>2. ASSUME Return(c)
      PROVE  /\ pc' \in [Callers -> Points]
             /\ proc' \in [Pids -> Phases]
             /\ \A p \in Pids : proc'[p] # proc[p] => proc'[p] = "gone"
             /\ parent' \in [Pids -> Callers \cup {Init1}]
  BY <1>2 DEF Return, Orphaned, Points, Phases
<1>3. QED
  BY <1>1, <1>2

LEMMA DiesType ==
  ASSUME TypeOK, NEW P \in SUBSET Pids, Dies(P)
  PROVE  /\ proc' \in [Pids -> Phases]
         /\ port' \in Pids \cup {NoPid}
         /\ \A p \in Pids : proc'[p] = IF p \in P THEN DeadPhase(p) ELSE proc[p]
         /\ \A p \in P : proc'[p] \in {"zombie", "gone"}
  BY DEF Dies, DeadPhase, TypeOK, Phases

LEMMA TermType ==
  ASSUME TypeOK, NEW p \in Pids, Term(p)
  PROVE  /\ proc' \in [Pids -> Phases]
         /\ port' \in Pids \cup {NoPid}
         /\ \A q \in Pids \ {p} : proc'[q] = proc[q]
         /\ \/ proc[p] \in {"serving", "stopping"} /\ proc'[p] = "stopping"
            \/ proc'[p] \in {"zombie", "gone"}
         /\ faults' \in SUBSET Faults
<1>1. CASE HandlesTerm(p)
  BY <1>1 DEF Term, HandlesTerm, TypeOK, Phases
<1>2. CASE ~HandlesTerm(p)
  <2>1. Dies({p}) /\ faults' = faults \cup Unclean({p})
    BY <1>2 DEF Term
  <2>2. faults' \in SUBSET Faults
    BY <2>1 DEF Unclean, TypeOK, Faults
  <2>3. /\ proc' \in [Pids -> Phases]
        /\ port' \in Pids \cup {NoPid}
        /\ \A q \in Pids : proc'[q] = IF q \in {p} THEN DeadPhase(q) ELSE proc[q]
        /\ proc'[p] \in {"zombie", "gone"}
    BY <2>1, DiesType
  <2>4. QED
    BY <2>2, <2>3
<1>3. QED
  BY <1>1, <1>2

LEMMA CallerQuiet ==
  ASSUME TypeOK, NEW c \in Callers,
         CallerNext(c) \/ InterruptCommand(c) \/ \E j \in Jobs : Begin(c, j),
         ~\E p \in Pids, k \in Families : Launch(c, p, k)
  PROVE  Quiet /\ pc' \in [Callers -> Points]
               /\ parent' \in [Pids -> Callers \cup {Init1}]
               /\ port' \in Pids \cup {NoPid}
               /\ faults' \in SUBSET Faults
<1> USE DEF TypeOK, Quiet
<1>0. {"idle", "start", "clearStale", "launch", "save", "stop", "signal", "wait",
       "clear", "ensure"} \subseteq Points
  BY DEF Points
<1>1. CASE EnsureBackendRunning(c) \/ CheckStart(c) \/ ClearStale(c)
  BY <1>0, <1>1, MoveType
     DEF EnsureBackendRunning, CheckStart, ClearStale, Misjudged, Faults, files,
         LivePhases
<1>2. CASE (\E k \in Families : LaunchFails(c, k)) \/ SaveStart(c) \/ SaveFails(c)
           \/ InterruptCommand(c)
  BY <1>0, <1>2, MoveType
     DEF LaunchFails, SaveStart, SaveFails, InterruptCommand, Unrecorded, Faults,
         files, LivePhases
<1>3. CASE CheckStop(c) \/ SignalInvalid(c) \/ SignalGone(c) \/ ClearRuntime(c)
  BY <1>0, <1>3, MoveType
     DEF CheckStop, SignalInvalid, SignalGone, ClearRuntime, AfterStop,
         Misjudged, Faults, files, LivePhases
<1>4. CASE Signal(c)
  <2>1. CASE Live(seen[c].pid)
    <3>1. seen[c].pid \in Pids /\ Term(seen[c].pid)
      BY <1>4, <2>1 DEF Signal, Live
    <3>2. QED
      BY <1>0, <1>4, <3>1, TermType DEF Signal, LivePhases
  <2>2. CASE ~Live(seen[c].pid)
    BY <1>0, <1>4, <2>2 DEF Signal
  <2>3. QED
    BY <2>1, <2>2
<1>5. CASE Waited(c)
  BY <1>0, <1>5 DEF Waited, files, Phases, LivePhases
<1>6. CASE Kill(c)
  <2>1. CASE Live(seen[c].pid)
    <3>1. seen[c].pid \in Pids /\ Dies({seen[c].pid})
      BY <1>6, <2>1 DEF Kill, Live
    <3>2. /\ proc' \in [Pids -> Phases]
          /\ port' \in Pids \cup {NoPid}
          /\ \A p \in Pids : proc'[p] \in {proc[p], "zombie", "gone"}
      BY <3>1, DiesType DEF DeadPhase
    <3>3. faults' \in SUBSET Faults
      BY <1>6, <2>1 DEF Kill, Unclean, Faults
    <3>4. UNCHANGED <<kind, note, parent>> /\ pc' \in [Callers -> Points]
      BY <1>0, <1>6 DEF Kill
    <3>5. QED
      BY <3>2, <3>3, <3>4 DEF LivePhases
  <2>2. CASE ~Live(seen[c].pid)
    BY <1>0, <1>6, <2>2 DEF Kill
  <2>3. QED
    BY <2>1, <2>2
<1>7. ASSUME NEW j \in Jobs, Begin(c, j)
      PROVE  Quiet /\ pc' \in [Callers -> Points]
                   /\ parent' \in [Pids -> Callers \cup {Init1}]
                   /\ port' \in Pids \cup {NoPid}
                   /\ faults' \in SUBSET Faults
  <2>1. \E l \in Points : Goto(c, l)
    BY <1>0, <1>7 DEF Begin
  <2>2. QED
    BY <1>7, <2>1, MoveType DEF Begin, Faults, files
<1>8. QED
  BY <1>1, <1>2, <1>3, <1>4, <1>5, <1>6, <1>7 DEF CallerNext

LEMMA TypeInit == Init => TypeInv
<1> SUFFICES ASSUME Init PROVE TypeInv
  OBVIOUS
<1>1. TypeOK
  BY DEF Init, TypeOK, Phases, Families, Points, Jobs
<1>2. \A p \in Pids : NativeIsTracked(p)
  BY DEF Init, NativeIsTracked, NativePhases
<1>3. QED
  BY <1>1, <1>2 DEF TypeInv

\* What a caller writes to runtime.json and to its own variables.
LEMMA CallerType ==
  ASSUME TypeOK, NEW c \in Callers,
         CallerNext(c) \/ InterruptCommand(c) \/ \E j \in Jobs : Begin(c, j)
  PROVE  /\ runtime' \in Records \cup {NoFile}
         /\ job' \in [Callers -> Jobs]
         /\ seen' \in [Callers -> Records \cup {NoFile}]
         /\ UNCHANGED <<socket, note>>
<1> USE DEF TypeOK, files
<1>1. CASE \E k \in Families : LaunchFails(c, k) \/ \E p \in Pids : Launch(c, p, k)
  <2>1. \A q \in Pids \cup {NoPid}, k \in Families : BuildRuntimeState(q, k) \in Records
    BY DEF BuildRuntimeState, Records
  <2>2. PICK r \in Records : seen' = [seen EXCEPT ![c] = r]
    BY <1>1, <2>1 DEF LaunchFails, Launch
  <2>3. UNCHANGED <<runtime, job, socket, note>>
    BY <1>1 DEF LaunchFails, Launch
  <2>4. QED
    BY <2>2, <2>3
<1>2. CASE EnsureBackendRunning(c) \/ CheckStart(c) \/ ClearStale(c)
           \/ SaveStart(c) \/ SaveFails(c) \/ InterruptCommand(c)
  BY <1>2
     DEF EnsureBackendRunning, CheckStart, ClearStale, SaveStart, SaveFails,
         InterruptCommand
<1>3. CASE CheckStop(c) \/ SignalInvalid(c) \/ SignalGone(c) \/ ClearRuntime(c)
  BY <1>3 DEF CheckStop, SignalInvalid, SignalGone, ClearRuntime
<1>4. CASE Signal(c) \/ Waited(c) \/ Kill(c)
  <2>1. UNCHANGED <<runtime, socket, job, seen, note>>
    BY <1>4 DEF Signal, Waited, Kill
  <2>2. QED
    BY <2>1
<1>5. CASE \E j \in Jobs : Begin(c, j)
  BY <1>5 DEF Begin
<1>6. QED
  BY <1>1, <1>2, <1>3, <1>4, <1>5 DEF CallerNext

LEMMA TypeStep == TypeInv /\ [Next]_vars => TypeInv'
<1> SUFFICES ASSUME TypeInv, [Next]_vars PROVE TypeInv'
  OBVIOUS
<1>0. TypeOK
  BY DEF TypeInv
<1>1. ASSUME NEW c \in Callers,
             CallerNext(c) \/ InterruptCommand(c) \/ \E j \in Jobs : Begin(c, j)
      PROVE  TypeInv'
  <2>1. /\ runtime' \in Records \cup {NoFile}
        /\ job' \in [Callers -> Jobs]
        /\ seen' \in [Callers -> Records \cup {NoFile}]
        /\ UNCHANGED <<socket, note>>
    BY <1>0, <1>1, CallerType
  <2>2. ASSUME NEW p \in Pids, NEW k \in Families, Launch(c, p, k)
        PROVE  TypeInv'
    <3>1. TypeOK'
      BY <1>0, <2>1, <2>2 DEF Launch, TypeOK, Phases, Points, files
    <3>2. ASSUME NEW q \in Pids PROVE NativeIsTracked(q)'
      <4>1. NativeIsTracked(q) /\ note'[q] = note[q]
        BY <2>1 DEF TypeInv
      <4>2. CASE q = p
        BY <1>0, <2>2, <4>2
           DEF Launch, NativeIsTracked, TypeOK, NativePhases, TrackedPhases,
               TrackerPhases, SocketPhases
      <4>3. CASE q # p
        BY <1>0, <2>2, <4>1, <4>3 DEF Launch, NativeIsTracked, TypeOK
      <4>4. QED
        BY <4>2, <4>3
    <3>3. QED
      BY <3>1, <3>2 DEF TypeInv
  <2>3. CASE ~\E p \in Pids, k \in Families : Launch(c, p, k)
    <3>1. /\ Quiet
          /\ pc' \in [Callers -> Points]
          /\ parent' \in [Pids -> Callers \cup {Init1}]
          /\ port' \in Pids \cup {NoPid}
          /\ faults' \in SUBSET Faults
      BY <1>0, <1>1, <2>3, CallerQuiet
    <3>2. TypeOK'
      BY <1>0, <2>1, <3>1 DEF TypeOK, Quiet
    <3>3. QED
      BY <3>1, <3>2, QuietType DEF TypeInv
  <2>4. QED
    BY <2>2, <2>3
<1>2. CASE StopDaemon
  <2>1. Quiet
    BY <1>0, <1>2 DEF StopDaemon, Quiet, TypeOK, Phases, LivePhases
  <2>2. TypeOK'
    BY <1>0, <1>2, <2>1
       DEF StopDaemon, Quiet, TypeOK, Points, Faults, Unclean, Unrecorded
  <2>3. QED
    BY <2>1, <2>2, QuietType DEF TypeInv
<1>3. ASSUME NEW p \in Pids, ProcessNext(p) PROVE TypeInv'
  <2> USE <1>0 DEF TypeInv, TypeOK, NativeIsTracked, NativePhases, TrackedPhases,
          TrackerPhases, SocketPhases, Phases, Families, files, procs, calls, Step
  <2>1. CASE Track(p)
    BY <2>1 DEF Track, Records, Faults
  <2>2. CASE FirstSnapshot(p) \/ Snapshot(p) \/ WriteSocket(p)
    BY <2>2 DEF FirstSnapshot, Snapshot, WriteSocket
  <2>3. CASE Serve(p)
    <3>1. note[p] \in Records
      BY <2>3 DEF Serve
    <3>2. [note[p] EXCEPT !.path = TRUE] \in Records
      BY <3>1 DEF Records
    <3>3. QED
      BY <2>3, <3>2 DEF Serve
  <2>4. CASE ServeLegacy(p)
    BY <2>4, DiesType DEF ServeLegacy
  <2>5. CASE EngineFails(p) \/ StopTracker(p) \/ RemoveSocket(p)
    BY <2>5 DEF EngineFails, StopTracker, RemoveSocket
  <2>6. CASE Exit(p)
    BY <2>6, DiesType DEF Exit
  <2>7. CASE Crash(p)
    BY <2>7, DiesType DEF Crash, Unclean, Faults
  <2>8. QED
    BY <1>3, <2>1, <2>2, <2>3, <2>4, <2>5, <2>6, <2>7 DEF ProcessNext
<1>4. CASE UNCHANGED vars
  BY <1>4
     DEF vars, files, procs, calls, TypeInv, TypeOK, NativeIsTracked
<1>5. QED
  BY <1>1, <1>2, <1>3, <1>4 DEF Next

\* Every variable of the lifecycle keeps its type.
THEOREM RuntimeTypeCorrect == Spec => []TypeOK
<1>1. TypeInv => TypeOK
  BY DEF TypeInv
<1>2. QED
  BY <1>1, TypeInit, TypeStep, PTL DEF Spec

-------------------------------------------------------------------------------
(* The order of an orderly lifecycle. *)

\* One caller at most is at work.
OneAtATime ==
  \A c, d \in Callers : pc[c] # "idle" /\ pc[d] # "idle" => c = d

\* What a caller has made sure of at each point.
CallerKnows(c) ==
  /\ pc[c] \in {"clear", "clearStale", "launch"} => \A p \in Pids : ~Live(p)
  /\ pc[c] \in {"launch", "save"} => runtime = NoFile
  /\ pc[c] = "save" => seen[c] \in Records
  /\ pc[c] \in {"signal", "wait"} => \A p \in Pids : Live(p) => p = seen[c].pid

RecordedAs(p) == runtime # NoFile /\ runtime.pid = p
Launched(p) == \E c \in Callers : pc[c] = "save" /\ seen[c].pid = p

\* A live process is recorded, or about to be; one with a tracker is recorded,
\* and its tracker knows its PID.
ProcessKnown(p) ==
  /\ Live(p) => RecordedAs(p) \/ Launched(p)
  /\ kind[p] = "native" /\ proc[p] \in TrackedPhases
       => RecordedAs(p) /\ note[p].pid = p

OrderInv ==
  Orderly => /\ OneAtATime
             /\ \A c \in Callers : CallerKnows(c)
             /\ \A p \in Pids : ProcessKnown(p)

\* runtime.json names one process, and nothing is launched while it does.
LEMMA AtMostOne ==
  ASSUME OrderInv, Orderly, NEW p \in Pids, NEW q \in Pids, Live(p), Live(q)
  PROVE  p = q
<1>1. /\ RecordedAs(p) \/ Launched(p)
      /\ RecordedAs(q) \/ Launched(q)
  BY DEF OrderInv, ProcessKnown
<1>2. \A r \in Pids : Launched(r) => runtime = NoFile
  BY DEF OrderInv, CallerKnows, Launched
<1>3. CASE RecordedAs(p) /\ RecordedAs(q)
  BY <1>3 DEF RecordedAs
<1>4. CASE Launched(p) /\ Launched(q)
  BY <1>4 DEF Launched, OrderInv, OneAtATime
<1>5. QED
  BY <1>1, <1>2, <1>3, <1>4 DEF RecordedAs

\* A step of a caller concerns no other.
LEMMA CallerMoves ==
  ASSUME TypeOK, NEW c \in Callers, CallerNext(c) \/ InterruptCommand(c)
  PROVE  /\ pc[c] # "idle"
         /\ \A d \in Callers \ {c} : pc'[d] = pc[d]
         /\ faults \subseteq faults'
<1> USE DEF TypeOK
<1>1. \A l : Goto(c, l) => \A d \in Callers \ {c} : pc'[d] = pc[d]
  BY DEF Goto
<1>2. Return(c) => \A d \in Callers \ {c} : pc'[d] = pc[d]
  BY DEF Return
<1>3. CASE EnsureBackendRunning(c) \/ CheckStart(c) \/ ClearStale(c)
           \/ (\E k \in Families : LaunchFails(c, k) \/ \E p \in Pids : Launch(c, p, k))
           \/ SaveStart(c) \/ SaveFails(c) \/ InterruptCommand(c)
  BY <1>1, <1>2, <1>3
     DEF EnsureBackendRunning, CheckStart, ClearStale, LaunchFails, Launch,
         SaveStart, SaveFails, InterruptCommand
<1>4. CASE CheckStop(c) \/ SignalInvalid(c) \/ SignalGone(c) \/ ClearRuntime(c)
  BY <1>1, <1>2, <1>4
     DEF CheckStop, SignalInvalid, SignalGone, ClearRuntime, AfterStop
<1>5. CASE Signal(c) \/ Waited(c) \/ Kill(c)
  <2>1. faults \subseteq faults'
    BY <1>5 DEF Signal, Term, Waited, Kill
  <2>2. pc[c] # "idle" /\ \A d \in Callers \ {c} : pc'[d] = pc[d]
    BY <1>5 DEF Signal, Waited, Kill
  <2>3. QED
    BY <2>1, <2>2
<1>6. QED
  BY <1>3, <1>4, <1>5 DEF CallerNext

\* A caller that keeps runtime.json, and has launched nothing, keeps every
\* process as it is known.
LEMMA KeepsProcesses ==
  ASSUME TypeInv, OrderInv, Orderly, Quiet, UNCHANGED runtime,
         \A p \in Pids : Live(p) => ~Launched(p)
  PROVE  \A p \in Pids : ProcessKnown(p)'
<1> TAKE p \in Pids
<1>1. ProcessKnown(p)
  BY DEF OrderInv
<1>2. Live(p)' => Live(p)
  BY DEF Quiet, Live, LivePhases, Phases
<1>3. proc'[p] \in TrackedPhases => proc[p] \in TrackedPhases
  BY DEF Quiet, TrackedPhases, TrackerPhases, SocketPhases, LivePhases, Phases
<1>4. QED
  BY <1>1, <1>2, <1>3 DEF ProcessKnown, RecordedAs, Quiet

LEMMA CallerOrder ==
  ASSUME TypeInv, OrderInv, Orderly', NEW c \in Callers,
         CallerNext(c) \/ InterruptCommand(c)
  PROVE  /\ OneAtATime'
         /\ \A d \in Callers : CallerKnows(d)'
         /\ \A p \in Pids : ProcessKnown(p)'
<1> DEFINE Known == \A p \in Pids : ProcessKnown(p)'
<1>0. TypeOK /\ TypeOK' /\ TypeInv'
  <2>1. [Next]_vars
    BY DEF Next
  <2>2. QED
    BY <2>1, TypeStep DEF TypeInv
<1>1. /\ Orderly
      /\ pc[c] # "idle"
      /\ \A d \in Callers \ {c} : pc[d] = "idle" /\ pc'[d] = "idle"
  BY <1>0, CallerMoves DEF Orderly, OrderInv, OneAtATime
<1>2. OneAtATime'
  BY <1>1 DEF OneAtATime
<1>3. \A d \in Callers \ {c} : CallerKnows(d)'
  BY <1>1 DEF CallerKnows
<1>4. /\ CallerKnows(c)
      /\ \A p \in Pids : ProcessKnown(p)
      /\ \A p \in Pids : Launched(p) => pc[c] = "save" /\ seen[c].pid = p
  BY <1>1 DEF OrderInv, Launched
<1>5. SUFFICES CallerKnows(c)' /\ Known
  BY <1>2, <1>3
<1>6. \A p, k : Launch(c, p, k) => pc[c] = "launch"
  BY DEF Launch
<1>7. pc[c] # "launch" =>
        /\ Quiet
        /\ \A p \in Pids : Live(p)' => Live(p)
  <2>1. pc[c] # "launch" => Quiet
    BY <1>0, <1>6, CallerQuiet
  <2>2. Quiet => \A p \in Pids : Live(p)' => Live(p)
    BY DEF Quiet, Live, LivePhases, Phases
  <2>3. QED
    BY <2>1, <2>2
<1>8. pc[c] \notin {"launch", "save"} /\ UNCHANGED runtime => Known
  BY <1>1, <1>4, <1>7, KeepsProcesses
<1>9. (\A p \in Pids : ~Live(p)') => Known
  BY <1>0 DEF ProcessKnown, TypeInv, TypeOK, TrackedPhases, TrackerPhases,
              SocketPhases, Live, LivePhases, Phases
<1>10. CASE EnsureBackendRunning(c)
  <2>1. pc'[c] \in {"idle", "start"} /\ pc[c] = "ensure" /\ UNCHANGED runtime
    BY <1>0, <1>10 DEF EnsureBackendRunning, Goto, Return, files, TypeOK
  <2>2. QED
    BY <1>8, <2>1 DEF CallerKnows
<1>11. CASE CheckStart(c)
  <2>1. pc[c] = "start" /\ UNCHANGED runtime
    BY <1>11 DEF CheckStart, files
  <2>2. Known
    BY <1>8, <2>1
  <2>3. pc'[c] = "launch" => runtime = NoFile
    BY <1>0, <1>11 DEF CheckStart, Goto, Return, TypeOK
  <2>4. ASSUME pc'[c] \in {"launch", "clearStale"}, NEW p \in Pids, Live(p)
        PROVE  FALSE
    <3>1. RecordedAs(p)
      BY <1>4, <2>1, <2>4 DEF ProcessKnown
    <3>2. runtime # NoFile /\ ~SeemsRunning(c, runtime)
      BY <1>0, <1>11, <2>4, <3>1 DEF CheckStart, Goto, Return, TypeOK, RecordedAs
    <3>3. "misjudged" \in faults'
      BY <1>11, <2>4, <3>1, <3>2 DEF CheckStart, Misjudged, RecordedAs
    <3>4. QED
      BY <3>3 DEF Orderly
  <2>5. pc'[c] \in {"idle", "launch", "clearStale"}
    BY <1>0, <1>11 DEF CheckStart, Goto, Return, TypeOK
  <2>6. QED
    BY <1>7, <2>1, <2>2, <2>3, <2>4, <2>5 DEF CallerKnows
<1>12. CASE ClearStale(c)
  <2>1. pc[c] = "clearStale" /\ pc'[c] = "launch" /\ runtime' = NoFile
    BY <1>0, <1>12 DEF ClearStale, Goto, TypeOK
  <2>2. \A p \in Pids : ~Live(p)'
    BY <1>4, <1>7, <2>1 DEF CallerKnows
  <2>3. QED
    BY <1>9, <2>1, <2>2 DEF CallerKnows
<1>13. ASSUME NEW k \in Families, LaunchFails(c, k) PROVE CallerKnows(c)' /\ Known
  <2>1. /\ pc[c] = "launch" /\ pc'[c] = "save"
        /\ proc' = proc /\ runtime' = runtime
        /\ seen'[c] = BuildRuntimeState(NoPid, k)
    BY <1>0, <1>13 DEF LaunchFails, Goto, TypeOK, files
  <2>2. \A p \in Pids : ~Live(p)'
    BY <1>4, <2>1 DEF CallerKnows, Live
  <2>3. seen'[c] \in Records
    BY <2>1 DEF BuildRuntimeState, Records
  <2>4. QED
    BY <1>4, <1>9, <2>1, <2>2, <2>3 DEF CallerKnows
<1>14. ASSUME NEW k \in Families, NEW p \in Pids, Launch(c, p, k)
       PROVE  CallerKnows(c)' /\ Known
  <2>1. /\ pc[c] = "launch" /\ pc'[c] = "save"
        /\ runtime' = runtime /\ note' = note
        /\ seen'[c] = BuildRuntimeState(p, k)
        /\ proc' = [proc EXCEPT ![p] = "starting"]
        /\ kind' = [kind EXCEPT ![p] = k]
    BY <1>0, <1>14 DEF Launch, TypeOK, files
  <2>2. runtime' = NoFile /\ \A q \in Pids \ {p} : ~Live(q)'
    BY <1>0, <1>4, <2>1 DEF CallerKnows, Live, TypeOK
  <2>3. seen'[c] \in Records /\ seen'[c].pid = p
    BY <2>1 DEF BuildRuntimeState, Records
  <2>4. Launched(p)'
    BY <2>1, <2>3 DEF Launched
  <2>5. proc'[p] \notin TrackedPhases
    BY <1>0, <2>1 DEF TrackedPhases, TrackerPhases, SocketPhases, TypeOK
  <2>6. \A q \in Pids \ {p} : proc'[q] \notin TrackedPhases
    BY <2>2 DEF Live, LivePhases, Phases, TrackedPhases, TrackerPhases, SocketPhases
  <2>7. QED
    BY <2>1, <2>2, <2>3, <2>4, <2>5, <2>6 DEF CallerKnows, ProcessKnown
<1>15. CASE SaveStart(c)
  <2>1. pc[c] = "save" /\ pc'[c] = "idle" /\ runtime' = seen[c] /\ seen[c] \in Records
    BY <1>0, <1>4, <1>15 DEF SaveStart, Return, TypeOK, CallerKnows
  <2>2. runtime' # NoFile
    BY <2>1, NoFileAssumption DEF Records, Families
  <2>3. ASSUME NEW p \in Pids PROVE ProcessKnown(p)'
    <3>1. ~RecordedAs(p)
      BY <1>4, <2>1 DEF CallerKnows, RecordedAs
    <3>2. Live(p) => seen[c].pid = p
      BY <1>4, <3>1 DEF ProcessKnown
    <3>3. Quiet /\ (Live(p)' => Live(p))
      BY <1>7, <2>1
    <3>4. ~(kind'[p] = "native" /\ proc'[p] \in TrackedPhases)
      BY <1>4, <3>1, <3>3
         DEF ProcessKnown, Quiet, TrackedPhases, TrackerPhases, SocketPhases,
             LivePhases, Phases
    <3>5. QED
      BY <2>1, <2>2, <3>2, <3>3, <3>4 DEF ProcessKnown, RecordedAs
  <2>4. QED
    BY <2>1, <2>3 DEF CallerKnows
<1>16. CASE SaveFails(c) \/ InterruptCommand(c)
  <2>1. pc'[c] = "idle" /\ UNCHANGED runtime /\ faults' = faults \cup Unrecorded({c})
    BY <1>0, <1>16 DEF SaveFails, InterruptCommand, Return, TypeOK, files
  <2>2. CallerKnows(c)'
    BY <2>1 DEF CallerKnows
  <2>4. ~\E p \in Pids, k \in Families : Launch(c, p, k)
    BY <1>0, <2>1 DEF Launch, TypeOK
  <2>5. Quiet
    BY <1>0, <2>4, CallerQuiet
  <2>6. \A p \in Pids : Live(p) => ~Launched(p)
    <3>1. "interrupted" \notin Unrecorded({c})
      BY <2>1 DEF Orderly
    <3>2. QED
      BY <1>4, <3>1 DEF Unrecorded
  <2>7. QED
    BY <1>1, <2>1, <2>2, <2>5, <2>6, KeepsProcesses
<1>17. CASE CheckStop(c)
  <2>1. pc[c] = "stop" /\ UNCHANGED runtime /\ seen'[c] = runtime
    BY <1>0, <1>17 DEF CheckStop, files, TypeOK
  <2>2. Known
    BY <1>8, <2>1
  <2>3. pc'[c] \in {"idle", "start", "signal", "clear"}
    BY <1>0, <1>17 DEF CheckStop, AfterStop, Goto, Return, TypeOK
  <2>4. \A p \in Pids : Live(p) => RecordedAs(p)
    BY <1>4, <2>1 DEF ProcessKnown
  <2>5. ASSUME pc'[c] = "clear", NEW p \in Pids, Live(p)
        PROVE  FALSE
    <3>1. runtime # NoFile /\ ~IsRuntimeActive(runtime)
      BY <1>0, <1>17, <2>5 DEF CheckStop, AfterStop, Goto, Return, TypeOK
    <3>2. "misjudged" \in faults'
      BY <1>17, <2>4, <2>5, <3>1 DEF CheckStop, Misjudged, RecordedAs
    <3>3. QED
      BY <3>2 DEF Orderly
  <2>6. QED
    BY <1>7, <2>1, <2>2, <2>3, <2>4, <2>5 DEF CallerKnows, RecordedAs
<1>18. CASE SignalInvalid(c)
  <2>1. pc[c] = "signal" /\ pc'[c] = "idle" /\ UNCHANGED runtime
    BY <1>0, <1>18 DEF SignalInvalid, Return, files, TypeOK
  <2>2. QED
    BY <1>8, <2>1 DEF CallerKnows
<1>19. CASE SignalGone(c)
  <2>1. /\ pc[c] = "signal" /\ pc'[c] = "clear" /\ UNCHANGED runtime
        /\ ~Live(seen[c].pid)
    BY <1>0, <1>19 DEF SignalGone, Goto, files, TypeOK, IsRunning
  <2>2. \A p \in Pids : ~Live(p)
    BY <1>4, <2>1 DEF CallerKnows
  <2>3. QED
    BY <1>7, <1>8, <2>1, <2>2 DEF CallerKnows
<1>20. CASE Signal(c)
  <2>1. pc[c] = "signal" /\ pc'[c] = "wait" /\ UNCHANGED <<runtime, seen>>
    BY <1>0, <1>20 DEF Signal, TypeOK
  <2>2. QED
    BY <1>4, <1>7, <1>8, <2>1 DEF CallerKnows
<1>21. CASE Waited(c)
  <2>1. /\ pc[c] = "wait" /\ pc'[c] = "clear" /\ UNCHANGED runtime
        /\ ~Live(seen[c].pid)
    BY <1>0, <1>21 DEF Waited, files, TypeOK
  <2>2. \A p \in Pids : ~Live(p)
    BY <1>4, <2>1 DEF CallerKnows
  <2>3. QED
    BY <1>7, <1>8, <2>1, <2>2 DEF CallerKnows
<1>22. CASE Kill(c)
  <2>1. pc[c] = "wait" /\ pc'[c] = "clear" /\ UNCHANGED runtime
    BY <1>0, <1>22 DEF Kill, TypeOK
  <2>2. ASSUME NEW p \in Pids, Live(p)' PROVE FALSE
    <3>1. Live(p) /\ p = seen[c].pid
      BY <1>4, <1>7, <2>1, <2>2 DEF CallerKnows
    <3>2. Dies({p})
      BY <1>22, <3>1 DEF Kill
    <3>3. proc'[p] \in {"zombie", "gone"}
      BY <1>0, <3>2, DiesType
    <3>4. QED
      BY <2>2, <3>3 DEF Live, LivePhases
  <2>3. QED
    BY <1>8, <2>1, <2>2 DEF CallerKnows
<1>23. CASE ClearRuntime(c)
  <2>1. pc[c] = "clear" /\ pc'[c] \in {"idle", "start"}
    BY <1>0, <1>23 DEF ClearRuntime, AfterStop, Goto, Return, TypeOK
  <2>2. \A p \in Pids : ~Live(p)'
    BY <1>4, <1>7, <2>1 DEF CallerKnows
  <2>3. QED
    BY <1>9, <2>1, <2>2 DEF CallerKnows
<1>24. QED
  BY <1>10, <1>11, <1>12, <1>13, <1>14, <1>15, <1>16, <1>17, <1>18, <1>19, <1>20,
     <1>21, <1>22, <1>23 DEF CallerNext

\* Begin moves an idle caller only when no other is at work, StopDaemon leaves
\* nobody at work unless it is a command, and neither touches runtime.json.
LEMMA BeginOrder ==
  ASSUME TypeInv, OrderInv, Orderly', NEW c \in Callers, NEW j \in Jobs, Begin(c, j)
  PROVE  /\ OneAtATime'
         /\ \A d \in Callers : CallerKnows(d)'
         /\ \A p \in Pids : ProcessKnown(p)'
<1>0. TypeOK /\ Orderly
  BY DEF TypeInv, Begin, Orderly
<1>1. ~\E d \in Callers : pc[d] # "idle"
  BY <1>0 DEF Begin, Orderly, TypeOK
<1>2. /\ \A d \in Callers \ {c} : pc'[d] = "idle"
      /\ pc'[c] \in {"ensure", "start", "stop"}
      /\ proc' = proc
  BY <1>0, <1>1 DEF Begin, Goto, TypeOK
<1>3. \A p \in Pids : Live(p) => ~Launched(p)
  BY <1>1 DEF Launched
<1>4. Quiet /\ UNCHANGED runtime
  BY <1>0, <1>2 DEF Begin, Quiet, TypeOK, files
<1>5. \A p \in Pids : ProcessKnown(p)'
  BY <1>0, <1>3, <1>4, KeepsProcesses
<1>6. OneAtATime'
  BY <1>2 DEF OneAtATime
<1>7. \A d \in Callers : CallerKnows(d)'
  BY <1>2 DEF CallerKnows
<1>8. QED
  BY <1>5, <1>6, <1>7

LEMMA StopDaemonOrder ==
  ASSUME TypeInv, OrderInv, Orderly', StopDaemon
  PROVE  /\ OneAtATime'
         /\ \A d \in Callers : CallerKnows(d)'
         /\ \A p \in Pids : ProcessKnown(p)'
<1>0. TypeOK /\ Orderly
  BY DEF TypeInv, StopDaemon, Orderly
<1>1. /\ \A d \in Callers : pc'[d] = pc[d] \/ pc'[d] = "idle"
      /\ UNCHANGED <<runtime, seen>>
  BY <1>0 DEF StopDaemon, TypeOK
<1>2. Quiet
  BY <1>0 DEF StopDaemon, Quiet, TypeOK, Phases, LivePhases
<1>3. \A p \in Pids : Live(p)' => Live(p)
  BY <1>2 DEF Quiet, Live, LivePhases, Phases
<1>4. OneAtATime'
  BY <1>0, <1>1 DEF OneAtATime, OrderInv
<1>5. \A d \in Callers : CallerKnows(d)'
  BY <1>0, <1>1, <1>3 DEF CallerKnows, OrderInv
<1>6. ASSUME NEW p \in Pids PROVE ProcessKnown(p)'
  <2>1. ProcessKnown(p)
    BY <1>0 DEF OrderInv
  <2>2. proc'[p] \in TrackedPhases => proc[p] \in TrackedPhases
    BY <1>2 DEF Quiet, TrackedPhases, TrackerPhases, SocketPhases, LivePhases, Phases
  <2>3. Live(p) /\ Launched(p) => Launched(p)'
    <3>1. SUFFICES ASSUME Live(p), NEW c \in Callers, pc[c] = "save", seen[c].pid = p
                   PROVE  Launched(p)'
      BY DEF Launched
    <3>2. "interrupted" \notin Unrecorded(DaemonCallers)
      BY DEF StopDaemon, Orderly
    <3>3. c \notin DaemonCallers
      BY <3>1, <3>2 DEF Unrecorded
    <3>4. pc'[c] = "save"
      BY <3>1, <3>3 DEF StopDaemon
    <3>5. QED
      BY <1>1, <3>1, <3>4 DEF Launched
  <2>4. QED
    BY <1>1, <1>2, <1>3, <2>1, <2>2, <2>3 DEF ProcessKnown, RecordedAs, Quiet
<1>7. QED
  BY <1>4, <1>5, <1>6

\* What a process writes to runtime.json names the process that is there.
LEMMA ProcessWrites ==
  ASSUME TypeInv, OrderInv, Orderly', NEW p \in Pids, ProcessNext(p)
  PROVE  /\ Orderly
         /\ UNCHANGED <<pc, seen>>
         /\ \A q \in Pids : Live(q)' => Live(q)
         /\ runtime' # NoFile <=> runtime # NoFile
         /\ \A q \in Pids : RecordedAs(q)' <=> RecordedAs(q)
         /\ \A q \in Pids : /\ kind'[q] = "native"
                            /\ proc'[q] \in TrackedPhases
                            => RecordedAs(q) /\ note'[q].pid = q
<1> USE DEF TypeInv, TypeOK
<1> DEFINE Goal ==
      /\ Orderly
      /\ UNCHANGED <<pc, seen>>
      /\ \A q \in Pids : Live(q)' => Live(q)
      /\ runtime' # NoFile <=> runtime # NoFile
      /\ \A q \in Pids : RecordedAs(q)' <=> RecordedAs(q)
      /\ \A q \in Pids : kind'[q] = "native" /\ proc'[q] \in TrackedPhases
           => RecordedAs(q) /\ note'[q].pid = q
<1> USE DEF TrackedPhases, TrackerPhases, SocketPhases
<1>1. Orderly /\ \A q \in Pids : ProcessKnown(q)
  <2>1. faults \subseteq faults'
    BY DEF ProcessNext, Track, FirstSnapshot, Snapshot, WriteSocket, Serve,
           ServeLegacy, EngineFails, StopTracker, RemoveSocket, Exit, Crash, calls
  <2>2. QED
    BY <2>1 DEF Orderly, OrderInv
<1>2. NoFile \notin Records
  BY NoFileAssumption DEF Records, Families
<1>3. kind[p] = "native" /\ proc[p] \in TrackedPhases =>
        /\ note[p] \in Records
        /\ RecordedAs(p) /\ note[p].pid = p
  BY <1>1 DEF NativeIsTracked, ProcessKnown
<1>4. proc[p] \in NativePhases => kind[p] = "native"
  BY DEF NativeIsTracked
<1>5. CASE Track(p)
  <2>1. runtime # NoFile /\ runtime.pid = p
    BY <1>5 DEF Track, Orderly
  <2>2. QED
    BY <1>1, <1>5, <2>1
       DEF Track, Step, files, calls, Live, LivePhases, Phases, RecordedAs, ProcessKnown
<1>6. CASE FirstSnapshot(p) \/ Snapshot(p) \/ StopTracker(p)
  <2>1. /\ UNCHANGED <<kind, note, pc, seen>>
        /\ runtime' = note[p]
        /\ kind[p] = "native" /\ proc[p] \in TrackedPhases \cup {"stopping"}
        /\ proc' \in [Pids -> Phases]
        /\ \A q \in Pids : proc'[q] # proc[q] => q = p /\ proc'[p] \in {"tracked", "closing"}
    BY <1>4, <1>6
       DEF FirstSnapshot, Snapshot, StopTracker, Step, procs, calls, NativePhases, Phases
  <2>2. RecordedAs(p) /\ runtime' # NoFile /\ runtime'.pid = p
    BY <1>2, <1>3, <2>1
  <2>3. \A q \in Pids : Live(q)' => Live(q)
    BY <2>1 DEF Live, LivePhases, Phases
  <2>4. QED
    BY <1>1, <2>1, <2>2, <2>3 DEF RecordedAs, ProcessKnown
<1>7. CASE Serve(p)
  <2>1. kind[p] = "native" /\ proc[p] = "opened" /\ note'[p] = [note[p] EXCEPT !.path = TRUE]
    BY <1>4, <1>7 DEF Serve, Step, NativePhases
  <2>2. note'[p] \in Records /\ note'[p].pid = p /\ RecordedAs(p)
    BY <1>3, <2>1 DEF Records
  <2>3. /\ runtime' = note'[p]
        /\ UNCHANGED <<kind, pc, seen>>
        /\ \A q \in Pids \ {p} : proc'[q] = proc[q] /\ note'[q] = note[q]
    BY <1>7 DEF Serve, Step, calls
  <2>4. QED
    BY <1>1, <1>2, <2>1, <2>2, <2>3
       DEF RecordedAs, ProcessKnown, Live, LivePhases, Phases
<1>8. CASE EngineFails(p) \/ WriteSocket(p) \/ RemoveSocket(p)
  <2>1. /\ UNCHANGED <<runtime, kind, note, pc, seen>>
        /\ kind[p] = "native" /\ proc[p] \in TrackedPhases
        /\ \A q \in Pids \ {p} : proc'[q] = proc[q]
    BY <1>4, <1>8
       DEF EngineFails, WriteSocket, RemoveSocket, Step, files, calls, NativePhases
  <2>2. QED
    BY <1>1, <1>3, <2>1 DEF RecordedAs, ProcessKnown, Live, LivePhases, Phases
<1>9. CASE ServeLegacy(p) \/ Exit(p) \/ Crash(p)
  <2>1. UNCHANGED <<runtime, kind, note, pc, seen>>
    BY <1>9 DEF ServeLegacy, Exit, Crash, calls
  <2>2. Dies({p}) => /\ \A q \in Pids \ {p} : proc'[q] = proc[q]
                     /\ proc'[p] \in {"zombie", "gone"}
    BY DiesType
  <2>3. /\ \A q \in Pids \ {p} : proc'[q] = proc[q]
        /\ Live(p)
        /\ proc'[p] \in {"zombie", "gone"} \/ kind[p] = "legacy"
    BY <1>4, <1>9, <2>2
       DEF ServeLegacy, Exit, Crash, Live, LivePhases, Phases
  <2>4. QED
    BY <1>1, <2>1, <2>3 DEF RecordedAs, ProcessKnown, Live, LivePhases, Phases
<1>10. QED
  BY <1>5, <1>6, <1>7, <1>8, <1>9 DEF ProcessNext

LEMMA OrderInit == Init => OrderInv
BY DEF Init, OrderInv, OneAtATime, CallerKnows, ProcessKnown, Live, LivePhases,
       TrackedPhases, TrackerPhases, SocketPhases

LEMMA OrderStep == TypeInv /\ OrderInv /\ [Next]_vars => OrderInv'
<1> SUFFICES ASSUME TypeInv, OrderInv, [Next]_vars, Orderly'
             PROVE  /\ OneAtATime'
                    /\ \A c \in Callers : CallerKnows(c)'
                    /\ \A p \in Pids : ProcessKnown(p)'
  BY DEF OrderInv
<1>1. CASE \E c \in Callers : CallerNext(c) \/ InterruptCommand(c)
  BY <1>1, CallerOrder
<1>2. CASE \E c \in Callers, j \in Jobs : Begin(c, j)
  BY <1>2, BeginOrder
<1>3. CASE StopDaemon
  BY <1>3, StopDaemonOrder
<1>4. ASSUME NEW p \in Pids, ProcessNext(p)
      PROVE  /\ OneAtATime'
             /\ \A c \in Callers : CallerKnows(c)'
             /\ \A q \in Pids : ProcessKnown(q)'
  <2>1. /\ Orderly
        /\ UNCHANGED <<pc, seen>>
        /\ \A q \in Pids : Live(q)' => Live(q)
        /\ runtime' # NoFile <=> runtime # NoFile
        /\ \A q \in Pids : RecordedAs(q)' <=> RecordedAs(q)
        /\ \A q \in Pids : kind'[q] = "native" /\ proc'[q] \in TrackedPhases
             => RecordedAs(q) /\ note'[q].pid = q
    BY <1>4, ProcessWrites
  <2>2. OneAtATime'
    BY <2>1 DEF OrderInv, OneAtATime
  <2>3. \A c \in Callers : CallerKnows(c)'
    BY <2>1 DEF OrderInv, CallerKnows
  <2>4. \A q \in Pids : Launched(q)' <=> Launched(q)
    BY <2>1 DEF Launched
  <2>5. \A q \in Pids : ProcessKnown(q)'
    BY <2>1, <2>4 DEF OrderInv, ProcessKnown
  <2>6. QED
    BY <2>2, <2>3, <2>5
<1>5. CASE UNCHANGED vars
  <2>1. Orderly
    BY <1>5 DEF vars, Orderly
  <2>2. QED
    BY <1>5, <2>1
       DEF vars, files, procs, calls, OrderInv, OneAtATime, CallerKnows, ProcessKnown,
           RecordedAs, Launched, Live
<1>6. QED
  BY <1>1, <1>2, <1>3, <1>4, <1>5 DEF Next

\* Whatever the number of processes and callers, in an orderly lifecycle no two
\* backends are alive, a live one can be found, and runtime.json is cleared
\* only when none is.
LEMMA OrderCorrect == Spec => [](TypeInv /\ OrderInv)
BY TypeInit, TypeStep, OrderInit, OrderStep, PTL DEF Spec

\* At most one backend is alive: the "already running" guards of
\* startBackendRuntime and up.
THEOREM OneBackend == Spec => []SingleBackend
<1>1. TypeInv /\ OrderInv => SingleBackend
  <2> SUFFICES ASSUME OrderInv, Orderly
               PROVE  Cardinality({p \in Pids : Live(p)}) <= 1
    BY DEF SingleBackend
  <2>1. CASE \E p \in Pids : Live(p)
    <3>1. PICK p \in Pids : Live(p)
      BY <2>1
    <3>2. {q \in Pids : Live(q)} = {p}
      BY <3>1, AtMostOne
    <3>3. QED
      BY <3>2, FS_Singleton
  <2>2. CASE ~\E p \in Pids : Live(p)
    <3>1. {q \in Pids : Live(q)} = {}
      BY <2>2
    <3>2. QED
      BY <3>1, FS_EmptySet
  <2>3. QED
    BY <2>1, <2>2
<1>2. QED
  BY <1>1, OrderCorrect, PTL

\* A backend that is alive can be found again through runtime.json, or its
\* launcher is about to record it.
THEOREM LiveIsRecorded == Spec => []BackendIsRecorded
<1>1. TypeInv /\ OrderInv => BackendIsRecorded
  BY DEF OrderInv, BackendIsRecorded, ProcessKnown, RecordedAs, Launched
<1>2. QED
  BY <1>1, OrderCorrect, PTL

\* stop and start clear runtime.json only when no backend is alive.
THEOREM OnlyTheDeadAreCleared == Spec => []ClearsOnlyTheDead
<1>1. TypeInv /\ OrderInv => ClearsOnlyTheDead
  BY DEF OrderInv, ClearsOnlyTheDead, CallerKnows
<1>2. QED
  BY <1>1, OrderCorrect, PTL

-------------------------------------------------------------------------------
(* service.sock. *)

HasSocket(p) == kind[p] = "native" /\ proc[p] \in SocketPhases

\* A death with service.sock on disk is a fault, so a caller that causes none
\* leaves every process with its socket.
LEMMA CallerKeepsSocket ==
  ASSUME TypeInv, faults' = {},
         \/ \E c \in Callers : \/ CallerNext(c) \/ InterruptCommand(c)
                               \/ \E j \in Jobs : Begin(c, j)
         \/ StopDaemon
  PROVE  \A p \in Pids : HasSocket(p) => proc'[p] \in SocketPhases
<1> USE DEF TypeOK, HasSocket, SocketPhases
<1>0. TypeOK
  BY DEF TypeInv
<1>1. SUFFICES ASSUME NEW p \in Pids, HasSocket(p) PROVE proc'[p] \in SocketPhases
  OBVIOUS
<1>2. \A P : p \in P => Unclean(P) = {"unclean"}
  BY <1>1 DEF Unclean, LeavesSocket
<1>3. /\ \A c, l : Goto(c, l) => proc'[p] = proc[p]
      /\ \A c : Return(c) => proc'[p] = proc[p]
  BY <1>0, <1>1 DEF Goto, Return, Orphaned
<1>4. ASSUME NEW q \in Pids, Dies({q}), faults' = faults \cup Unclean({q})
      PROVE  proc'[p] = proc[p]
  <2>1. q # p
    BY <1>2, <1>4
  <2>2. QED
    BY <2>1, <1>4 DEF Dies
<1>5. ASSUME NEW c \in Callers,
             CallerNext(c) \/ InterruptCommand(c) \/ \E j \in Jobs : Begin(c, j)
      PROVE  proc'[p] \in SocketPhases
  <2>1. CASE EnsureBackendRunning(c) \/ CheckStart(c) \/ ClearStale(c)
             \/ (\E k \in Families : LaunchFails(c, k)) \/ SaveStart(c)
             \/ SaveFails(c) \/ InterruptCommand(c)
    BY <1>1, <1>3, <2>1
       DEF EnsureBackendRunning, CheckStart, ClearStale, LaunchFails, SaveStart,
           SaveFails, InterruptCommand
  <2>2. CASE CheckStop(c) \/ SignalInvalid(c) \/ SignalGone(c) \/ ClearRuntime(c)
             \/ \E j \in Jobs : Begin(c, j)
    BY <1>1, <1>3, <2>2
       DEF CheckStop, SignalInvalid, SignalGone, ClearRuntime, AfterStop, Begin
  <2>3. CASE \E k \in Families, q \in Pids : Launch(c, q, k)
    BY <1>0, <1>1, <2>3 DEF Launch
  <2>4. CASE Signal(c)
    <3>1. CASE Live(seen[c].pid) /\ ~HandlesTerm(seen[c].pid)
      BY <1>1, <1>4, <2>4, <3>1 DEF Signal, Term, Live
    <3>2. CASE Live(seen[c].pid) /\ HandlesTerm(seen[c].pid)
      BY <1>0, <1>1, <2>4, <3>2 DEF Signal, Term, Live
    <3>3. CASE ~Live(seen[c].pid)
      BY <1>1, <2>4, <3>3 DEF Signal
    <3>4. QED
      BY <3>1, <3>2, <3>3
  <2>5. CASE Waited(c)
    <3>1. p # seen[c].pid
      BY <1>1, <2>5 DEF Waited, Live, LivePhases, Phases
    <3>2. QED
      BY <1>0, <1>1, <2>5, <3>1 DEF Waited
  <2>6. CASE Kill(c)
    BY <1>1, <1>4, <2>6 DEF Kill, Live
  <2>7. QED
    BY <1>5, <2>1, <2>2, <2>3, <2>4, <2>5, <2>6 DEF CallerNext
<1>6. CASE StopDaemon
  <2>1. PICK K \in SUBSET {q \in Pids : Live(q) /\ parent[q] \in DaemonCallers} :
          /\ faults' = faults \cup Unclean(K) \cup Unrecorded(DaemonCallers)
          /\ proc' = [q \in Pids |->
                        IF q \in K \/ (parent[q] \in DaemonCallers /\ proc[q] = "zombie")
                        THEN "gone" ELSE proc[q]]
    BY <1>6 DEF StopDaemon
  <2>2. p \notin K
    BY <1>2, <2>1
  <2>3. QED
    BY <1>1, <2>1, <2>2
<1>7. QED
  BY <1>5, <1>6

LEMMA SocketStep ==
  TypeInv /\ OrderInv /\ SocketTellsTheTruth /\ [Next]_vars => SocketTellsTheTruth'
<1> SUFFICES ASSUME TypeInv, OrderInv, SocketTellsTheTruth, [Next]_vars, faults' = {}
             PROVE  socket' <=> \E p \in Pids : HasSocket(p)'
  BY DEF SocketTellsTheTruth, LeavesSocket, HasSocket
<1>0. TypeOK
  BY DEF TypeInv
<1> DEFINE SameSockets == UNCHANGED socket /\ \A p \in Pids : HasSocket(p)' <=> HasSocket(p)
<1>1. faults = {} => (socket <=> \E p \in Pids : HasSocket(p))
  BY DEF SocketTellsTheTruth, LeavesSocket, HasSocket
<1>2. CASE \/ \E c \in Callers : \/ CallerNext(c) \/ InterruptCommand(c)
                                 \/ \E j \in Jobs : Begin(c, j)
           \/ StopDaemon
  <2>1. \A p \in Pids : HasSocket(p) => proc'[p] \in SocketPhases
    BY <1>2, CallerKeepsSocket
  <2>2. faults = {} /\ UNCHANGED socket
    <3>1. UNCHANGED socket
      BY <1>0, <1>2, CallerType DEF StopDaemon
    <3>2. CASE StopDaemon
      BY <3>1, <3>2 DEF StopDaemon
    <3>3. CASE \E c \in Callers : CallerNext(c) \/ InterruptCommand(c)
      BY <1>0, <3>1, <3>3, CallerMoves
    <3>4. CASE \E c \in Callers, j \in Jobs : Begin(c, j)
      BY <3>1, <3>4 DEF Begin
    <3>5. QED
      BY <1>2, <3>2, <3>3, <3>4
  <2>3. ASSUME NEW p \in Pids PROVE HasSocket(p)' <=> HasSocket(p)
    <3>1. CASE Quiet
      BY <2>1, <3>1 DEF Quiet, HasSocket, SocketPhases, LivePhases, Phases
    <3>2. CASE \E c \in Callers, q \in Pids, k \in Families : Launch(c, q, k)
      BY <1>0, <3>2 DEF Launch, TypeOK, HasSocket, SocketPhases
    <3>3. StopDaemon => Quiet
      BY <1>0 DEF StopDaemon, Quiet, TypeOK, Phases, LivePhases
    <3>4. QED
      BY <1>0, <1>2, <3>1, <3>2, <3>3, CallerQuiet
  <2>4. QED
    BY <1>1, <2>2, <2>3
<1>3. ASSUME NEW p \in Pids, ProcessNext(p)
      PROVE  socket' <=> \E q \in Pids : HasSocket(q)'
  <2> USE DEF TypeOK, HasSocket, SocketPhases
  <2>1. Orderly' /\ faults \subseteq faults'
    BY <1>3
       DEF Orderly, ProcessNext, Track, FirstSnapshot, Snapshot, WriteSocket, Serve,
           ServeLegacy, EngineFails, StopTracker, RemoveSocket, Exit, Crash, calls
  <2>2. faults = {} /\ Orderly
    BY <2>1 DEF Orderly
  <2>3. proc[p] \in NativePhases => kind[p] = "native"
    BY DEF TypeInv, NativeIsTracked
  <2>4. CASE Track(p) \/ FirstSnapshot(p) \/ Snapshot(p) \/ EngineFails(p)
             \/ StopTracker(p)
    BY <1>0, <1>1, <2>2, <2>3, <2>4
       DEF Track, FirstSnapshot, Snapshot, EngineFails, StopTracker, Step, files,
           procs, NativePhases
  <2>5. CASE WriteSocket(p)
    BY <1>0, <2>3, <2>5 DEF WriteSocket, Step, NativePhases
  <2>6. CASE Serve(p)
    BY <1>0, <1>1, <2>2, <2>6 DEF Serve, Step
  <2>7. CASE RemoveSocket(p)
    <3>1. \A q \in Pids : Live(q) => q = p
      BY <2>2, <2>7, AtMostOne
         DEF RemoveSocket, Step, Live, LivePhases, Phases
    <3>2. ~HasSocket(p)' /\ \A q \in Pids \ {p} : UNCHANGED <<proc[q], kind[q]>>
      BY <1>0, <2>7 DEF RemoveSocket, Step
    <3>3. QED
      BY <2>7, <3>1, <3>2 DEF RemoveSocket, Live, LivePhases, Phases
  <2>8. CASE ServeLegacy(p) \/ Exit(p) \/ Crash(p)
    <3>1. UNCHANGED <<socket, kind>>
      BY <2>8 DEF ServeLegacy, Exit, Crash
    <3>2. ~HasSocket(p)
      BY <2>8 DEF ServeLegacy, Exit, Crash, Unclean, LeavesSocket
    <3>3. /\ \A q \in Pids \ {p} : proc'[q] = proc[q]
          /\ proc'[p] \in {"zombie", "gone"} \/ kind[p] = "legacy"
      BY <1>0, <2>8, DiesType DEF ServeLegacy, Exit, Crash
    <3>4. QED
      BY <1>1, <2>2, <3>1, <3>2, <3>3
  <2>9. QED
    BY <1>3, <2>4, <2>5, <2>6, <2>7, <2>8 DEF ProcessNext
<1>4. CASE UNCHANGED vars
  BY <1>1, <1>4 DEF vars, files, procs, HasSocket
<1>5. QED
  BY <1>2, <1>3, <1>4 DEF Next

LEMMA SocketInit == Init => SocketTellsTheTruth
BY DEF Init, SocketTellsTheTruth, LeavesSocket

\* While nothing has gone wrong, service.sock exists exactly while a native
\* process that wrote it is up.
THEOREM SocketIsTrue == Spec => []SocketTellsTheTruth
BY TypeInit, TypeStep, OrderInit, OrderStep, SocketInit, SocketStep, PTL DEF Spec

LEMMA TargetStep ==
  /\ TypeInv /\ OrderInv /\ SocketTellsTheTruth /\ StopKnowsItsTarget
  /\ [Next]_vars
  => StopKnowsItsTarget'
<1> SUFFICES ASSUME TypeInv, OrderInv, SocketTellsTheTruth, StopKnowsItsTarget,
                    [Next]_vars, faults' = {},
                    NEW c \in Callers, pc'[c] = "signal"
             PROVE  seen'[c].pid # NoPid
  BY DEF StopKnowsItsTarget
<1>0. TypeOK
  BY DEF TypeInv
<1>1. faults = {}
  <2>1. CASE \E d \in Callers : CallerNext(d) \/ InterruptCommand(d)
    BY <1>0, <2>1, CallerMoves
  <2>2. CASE (\E d \in Callers, j \in Jobs : Begin(d, j)) \/ StopDaemon
    BY <2>2 DEF Begin, StopDaemon
  <2>3. CASE \E p \in Pids : ProcessNext(p)
    BY <2>3
       DEF ProcessNext, Track, FirstSnapshot, Snapshot, WriteSocket, Serve,
           ServeLegacy, EngineFails, StopTracker, RemoveSocket, Exit, Crash, calls
  <2>4. QED
    BY <2>1, <2>2, <2>3 DEF Next, vars
<1>2. ASSUME NEW d \in Callers, CheckStop(d) PROVE seen'[c].pid # NoPid
  <2>1. CASE d = c
    <3>1. runtime # NoFile /\ IsRuntimeActive(runtime) /\ seen'[c] = runtime
      BY <1>0, <1>2, <2>1 DEF CheckStop, AfterStop, Goto, Return, TypeOK
    <3>2. CASE runtime.family # "native"
      BY <3>1, <3>2 DEF IsRuntimeActive, IsRunning
    <3>3. CASE runtime.family = "native"
      <4>1. PICK p \in Pids : HasSocket(p)
        BY <1>1, <3>1, <3>3
           DEF IsRuntimeActive, SocketTellsTheTruth, LeavesSocket, HasSocket
      <4>2. RecordedAs(p)
        BY <1>1, <4>1
           DEF OrderInv, Orderly, ProcessKnown, HasSocket, TrackedPhases, TrackerPhases
      <4>3. QED
        BY <3>1, <4>2, PidsAssumption DEF RecordedAs
    <3>4. QED
      BY <3>2, <3>3
  <2>2. CASE d # c
    <3>1. pc[c] = "signal" /\ seen'[c] = seen[c]
      <4>1. pc'[c] = pc[c]
        BY <1>0, <1>2, <2>2, CallerMoves DEF CallerNext
      <4>2. QED
        BY <1>0, <1>2, <2>2, <4>1 DEF CheckStop, TypeOK
    <3>2. QED
      BY <1>1, <3>1 DEF StopKnowsItsTarget
  <2>3. QED
    BY <2>1, <2>2
<1>3. ASSUME pc[c] = "signal", UNCHANGED seen[c] PROVE seen'[c].pid # NoPid
  BY <1>1, <1>3 DEF StopKnowsItsTarget
<1>4. ASSUME NEW d \in Callers, CallerNext(d) \/ InterruptCommand(d), ~CheckStop(d)
      PROVE  pc[c] = "signal" /\ UNCHANGED seen[c]
  <2> USE <1>0 DEF TypeOK
  <2>1. d # c
    <3>1. SUFFICES ASSUME d = c PROVE FALSE
      OBVIOUS
    <3>2. CASE EnsureBackendRunning(c) \/ CheckStart(c) \/ ClearStale(c)
               \/ (\E k \in Families : LaunchFails(c, k) \/ \E p \in Pids : Launch(c, p, k))
               \/ SaveStart(c) \/ SaveFails(c) \/ InterruptCommand(c)
      BY <3>2
         DEF EnsureBackendRunning, CheckStart, ClearStale, LaunchFails, Launch,
             SaveStart, SaveFails, InterruptCommand, Goto, Return
    <3>3. CASE SignalInvalid(c) \/ SignalGone(c) \/ ClearRuntime(c)
      BY <3>3 DEF SignalInvalid, SignalGone, ClearRuntime, AfterStop, Goto, Return
    <3>4. CASE Signal(c) \/ Waited(c) \/ Kill(c)
      BY <3>4 DEF Signal, Waited, Kill
    <3>5. QED
      BY <1>4, <3>1, <3>2, <3>3, <3>4 DEF CallerNext
  <2>2. pc'[c] = pc[c]
    BY <1>4, <2>1, CallerMoves
  <2>3. UNCHANGED seen[c]
    BY <1>4, <2>1
       DEF CallerNext, EnsureBackendRunning, CheckStart, ClearStale, LaunchFails, Launch,
           SaveStart, SaveFails, InterruptCommand, SignalInvalid, SignalGone, Signal,
           Waited, Kill, ClearRuntime
  <2>4. QED
    BY <2>2, <2>3
<1>5. ASSUME NEW d \in Callers, NEW j \in Jobs, Begin(d, j)
      PROVE  pc[c] = "signal" /\ UNCHANGED seen[c]
  BY <1>0, <1>5 DEF Begin, Goto, TypeOK
<1>6. CASE StopDaemon \/ \E p \in Pids : ProcessNext(p)
  <2>1. pc'[c] \in {pc[c], "idle"} /\ UNCHANGED seen
    BY <1>0, <1>6
       DEF StopDaemon, TypeOK, ProcessNext, Track, FirstSnapshot, Snapshot, WriteSocket,
           Serve, ServeLegacy, EngineFails, StopTracker, RemoveSocket, Exit, Crash, calls
  <2>2. QED
    BY <1>3, <2>1
<1>7. CASE UNCHANGED vars
  BY <1>3, <1>7 DEF vars, calls
<1>8. QED
  BY <1>2, <1>3, <1>4, <1>5, <1>6, <1>7 DEF Next

LEMMA TargetInit == Init => StopKnowsItsTarget
BY DEF Init, StopKnowsItsTarget

\* While nothing has gone wrong, stop never meets a runtime state without a PID.
THEOREM TargetIsKnown == Spec => []StopKnowsItsTarget
BY TypeInit, TypeStep, OrderInit, OrderStep, SocketInit, SocketStep, TargetInit,
   TargetStep, PTL DEF Spec
-------------------------------------------------------------------------------
(* The lifecycle is a slot. *)

LiveBackends == {p \in Pids : Live(p)}
Unsaved == {seen[c].pid : c \in {d \in Callers : pc[d] = "save"}} \ {NoPid}
Recorded == IF runtime = NoFile THEN NoPid ELSE runtime.pid

\* A step of the slot, named by what becomes of its variables.
SlotStep == Slot!Orderly \/ (Slot!vars)' = Slot!vars

\* Faults do not go away.
LEMMA FaultsStay ==
  ASSUME TypeOK, [Next]_vars
  PROVE  faults \subseteq faults'
<1>1. CASE \E c \in Callers : CallerNext(c) \/ InterruptCommand(c)
  BY <1>1, CallerMoves
<1>2. CASE \E c \in Callers, j \in Jobs : Begin(c, j)
  BY <1>2 DEF Begin
<1>3. CASE StopDaemon
  BY <1>3 DEF StopDaemon
<1>4. CASE \E p \in Pids : ProcessNext(p)
  BY <1>4 DEF ProcessNext, Track, FirstSnapshot, Snapshot, WriteSocket, Serve,
              ServeLegacy, EngineFails, StopTracker, RemoveSocket, Exit, Crash, calls
<1>5. CASE UNCHANGED vars
  BY <1>5 DEF vars
<1>6. QED
  BY <1>1, <1>2, <1>3, <1>4, <1>5 DEF Next

\* At most one backend is in the slot, so that it keeps its holder or is free.
LEMMA HolderEnds ==
  ASSUME OrderInv, Orderly, Orderly', LiveBackends' \subseteq LiveBackends,
         Unsaved' = Unsaved, Recorded' = Recorded
  PROVE  SlotStep
<1>1. LiveBackends' = LiveBackends \/ LiveBackends' = {}
  <2>1. \A p, q \in LiveBackends : p = q
    BY AtMostOne DEF LiveBackends
  <2>2. QED
    BY <2>1
<1>2. CASE LiveBackends' = LiveBackends
  BY <1>2 DEF SlotStep, Slot!vars, LiveBackends, Unsaved, Recorded
<1>3. CASE LiveBackends' = {}
  BY <1>3 DEF SlotStep, Slot!Orderly, Slot!End, LiveBackends, Unsaved, Recorded
<1>4. QED
  BY <1>1, <1>2, <1>3

\* Only the caller at work can have launched what is not recorded.
LEMMA UnsavedIs ==
  ASSUME OrderInv, Orderly, NEW c \in Callers, pc[c] # "idle"
  PROVE  Unsaved = IF pc[c] = "save" THEN {seen[c].pid} \ {NoPid} ELSE {}
<1>1. \A d \in Callers : pc[d] = "save" => d = c
  BY DEF OrderInv, OneAtATime
<1>2. QED
  BY <1>1 DEF Unsaved

\* A step of a caller is one of the slot.
LEMMA CallerSlot ==
  ASSUME TypeInv, OrderInv, Orderly, Orderly', NEW c \in Callers,
         CallerNext(c) \/ InterruptCommand(c)
  PROVE  SlotStep
<1>0. TypeOK /\ TypeOK' /\ OrderInv'
  <2>1. [Next]_vars
    BY DEF Next
  <2>2. QED
    BY <2>1, TypeStep, OrderStep DEF TypeInv
<1>1. /\ pc[c] # "idle"
      /\ \A d \in Callers \ {c} : pc[d] = "idle" /\ pc'[d] = "idle"
      /\ CallerKnows(c)
  BY <1>0, CallerMoves DEF OrderInv, OneAtATime
<1>2. Unsaved = IF pc[c] = "save" THEN {seen[c].pid} \ {NoPid} ELSE {}
  BY <1>1, UnsavedIs
<1>3. Unsaved' = IF pc'[c] = "save" THEN {seen'[c].pid} \ {NoPid} ELSE {}
  BY <1>1 DEF Unsaved
<1>4. pc[c] # "launch" => LiveBackends' \subseteq LiveBackends
  <2>1. pc[c] # "launch" => ~\E p \in Pids, k \in Families : Launch(c, p, k)
    BY DEF Launch
  <2>2. pc[c] # "launch" => Quiet
    BY <1>0, <2>1, CallerQuiet
  <2>3. QED
    BY <2>2 DEF Quiet, LiveBackends, Live, LivePhases, Phases
<1>5. pc[c] \notin {"launch", "save"} /\ pc'[c] # "save" /\ UNCHANGED runtime => SlotStep
  BY <1>2, <1>3, <1>4, HolderEnds DEF Recorded
<1>6. (\A p \in Pids : ~Live(p)) => LiveBackends = {}
  BY DEF LiveBackends
<1>7. CASE EnsureBackendRunning(c) \/ CheckStart(c)
  BY <1>0, <1>5, <1>7
     DEF EnsureBackendRunning, CheckStart, Goto, Return, files, TypeOK
<1>8. CASE CheckStop(c) \/ SignalInvalid(c) \/ SignalGone(c)
  BY <1>0, <1>5, <1>8
     DEF CheckStop, SignalInvalid, SignalGone, AfterStop, Goto, Return, files, TypeOK
<1>9. CASE Signal(c) \/ Waited(c) \/ Kill(c)
  BY <1>0, <1>5, <1>9 DEF Signal, Waited, Kill, files, TypeOK
<1>10. CASE ClearStale(c) \/ ClearRuntime(c)
  <2>1. /\ pc[c] \in {"clearStale", "clear"} /\ pc'[c] \in {"launch", "idle", "start"}
        /\ runtime' = NoFile
    BY <1>0, <1>10 DEF ClearStale, ClearRuntime, AfterStop, Goto, Return, TypeOK
  <2>2. LiveBackends = {} /\ LiveBackends' = {}
    BY <1>1, <1>4, <1>6, <2>1 DEF CallerKnows
  <2>3. Unsaved = {} /\ Unsaved' = {} /\ Recorded' = NoPid
    BY <1>2, <1>3, <2>1 DEF Recorded
  <2>4. QED
    BY <2>2, <2>3
       DEF SlotStep, Slot!Orderly, Slot!Clear, Slot!Free, LiveBackends, Unsaved, Recorded
<1>11. ASSUME NEW k \in Families, LaunchFails(c, k) PROVE SlotStep
  <2>1. /\ pc[c] = "launch" /\ pc'[c] = "save"
        /\ UNCHANGED <<proc, runtime>>
        /\ seen'[c].pid = NoPid
    BY <1>0, <1>11 DEF LaunchFails, BuildRuntimeState, Goto, TypeOK, files
  <2>2. LiveBackends' = LiveBackends /\ Unsaved' = Unsaved /\ Recorded' = Recorded
    BY <1>2, <1>3, <2>1 DEF LiveBackends, Live, Recorded
  <2>3. QED
    BY <2>2, HolderEnds
<1>12. ASSUME NEW k \in Families, NEW p \in Pids, Launch(c, p, k) PROVE SlotStep
  <2>1. /\ pc[c] = "launch" /\ pc'[c] = "save"
        /\ runtime' = runtime
        /\ seen'[c].pid = p
        /\ proc' = [proc EXCEPT ![p] = "starting"]
    BY <1>0, <1>12 DEF Launch, BuildRuntimeState, TypeOK, files
  <2>2. runtime = NoFile /\ LiveBackends = {}
    BY <1>1, <1>6, <2>1 DEF CallerKnows
  <2>3. LiveBackends' = {p}
    BY <1>0, <2>1, <2>2 DEF LiveBackends, Live, LivePhases, Phases, TypeOK
  <2>4. Unsaved = {} /\ Unsaved' = {p}
    BY <1>2, <1>3, <2>1, PidsAssumption
  <2>5. Recorded = NoPid /\ Recorded' = NoPid
    BY <2>1, <2>2 DEF Recorded
  <2>6. QED
    BY <2>2, <2>3, <2>4, <2>5
       DEF SlotStep, Slot!Orderly, Slot!Launch, Slot!Free, LiveBackends, Unsaved, Recorded
<1>13. CASE SaveStart(c)
  <2>1. /\ pc[c] = "save" /\ pc'[c] = "idle" /\ runtime' = seen[c]
        /\ runtime = NoFile /\ seen[c] \in Records
    BY <1>0, <1>1, <1>13 DEF SaveStart, Return, TypeOK, CallerKnows
  <2>2. Recorded = NoPid /\ Recorded' = seen[c].pid
    BY <2>1, NoFileAssumption DEF Recorded, Records, Families
  <2>3. Unsaved = {seen[c].pid} \ {NoPid} /\ Unsaved' = {}
    BY <1>2, <1>3, <2>1
  <2>4. LiveBackends' = LiveBackends
    BY <1>0, <1>13 DEF SaveStart, Return, Orphaned, LiveBackends, Live, LivePhases, TypeOK
  <2>5. CASE seen[c].pid = NoPid
    BY <2>2, <2>3, <2>4, <2>5, HolderEnds
  <2>6. CASE seen[c].pid # NoPid
    <3>1. PICK p \in Pids : p = seen[c].pid
      BY <2>1, <2>6 DEF Records
    <3>2. Unsaved = {p} /\ Unsaved' = {} /\ Recorded' = p
      BY <2>2, <2>3, <2>6, <3>1
    <3>3. QED
      BY <2>2, <2>4, <3>2
         DEF SlotStep, Slot!Orderly, Slot!Record, LiveBackends, Unsaved, Recorded
  <2>7. QED
    BY <2>5, <2>6
<1>14. CASE SaveFails(c) \/ InterruptCommand(c)
  <2>1. pc'[c] = "idle" /\ UNCHANGED runtime /\ faults' = faults \cup Unrecorded({c})
    BY <1>0, <1>14 DEF SaveFails, InterruptCommand, Return, TypeOK, files
  <2>2. LiveBackends' = LiveBackends
    BY <1>0, <1>14
       DEF SaveFails, InterruptCommand, Return, Orphaned, LiveBackends, Live, LivePhases,
           TypeOK
  <2>3. Unsaved' = {} /\ Recorded' = Recorded
    BY <1>3, <2>1 DEF Recorded
  <2>4. CASE pc[c] = "save"
    <3>1. ~Live(seen[c].pid)
      BY <2>1, <2>4 DEF Unrecorded, Orderly
    <3>2. \A p \in Pids : ~Live(p)
      BY <1>1, <2>4, <3>1
         DEF OrderInv, ProcessKnown, CallerKnows, RecordedAs, Launched
    <3>3. LiveBackends = {}
      BY <1>6, <3>2
    <3>4. QED
      BY <2>2, <2>3, <3>3
         DEF SlotStep, Slot!Orderly, Slot!GiveUp, LiveBackends, Unsaved, Recorded
  <2>5. CASE pc[c] # "save"
    BY <1>2, <2>2, <2>3, <2>5, HolderEnds
  <2>6. QED
    BY <2>4, <2>5
<1>15. QED
  BY <1>7, <1>8, <1>9, <1>10, <1>11, <1>12, <1>13, <1>14 DEF CallerNext

\* The end of the daemon is the end of its backend, or of what it has launched
\* and not recorded, which is dead: never of both.
LEMMA StopDaemonSlot ==
  ASSUME TypeInv, OrderInv, Orderly, Orderly', StopDaemon
  PROVE  SlotStep
<1>0. TypeOK
  BY DEF TypeInv
<1>1. /\ \A d \in Callers : pc'[d] = IF d \in DaemonCallers THEN "idle" ELSE pc[d]
      /\ UNCHANGED <<runtime, seen>>
      /\ Unrecorded(DaemonCallers) \subseteq faults'
  BY <1>0 DEF StopDaemon, TypeOK
<1>2. LiveBackends' \subseteq LiveBackends /\ Recorded' = Recorded
  BY <1>0, <1>1 DEF StopDaemon, LiveBackends, Live, LivePhases, Recorded, TypeOK
<1>3. CASE \E c \in DaemonCallers : pc[c] = "save"
  <2>1. PICK c \in DaemonCallers : c \in Callers /\ pc[c] = "save"
    BY <1>3, CallersAssumption
  <2>2. ~Live(seen[c].pid)
    BY <1>1, <2>1 DEF Unrecorded, Orderly
  <2>3. \A d \in Callers : pc[d] = "save" => d = c
    BY <2>1 DEF OrderInv, OneAtATime
  <2>4. \A p \in Pids : ~Live(p)
    BY <2>1, <2>2, <2>3 DEF OrderInv, ProcessKnown, CallerKnows, RecordedAs, Launched
  <2>5. LiveBackends = {} /\ LiveBackends' = {}
    BY <1>2, <2>4 DEF LiveBackends
  <2>6. Unsaved' = {}
    BY <1>1, <2>1, <2>3 DEF Unsaved
  <2>7. QED
    BY <1>2, <2>5, <2>6
       DEF SlotStep, Slot!Orderly, Slot!GiveUp, LiveBackends, Unsaved, Recorded
<1>4. CASE ~\E c \in DaemonCallers : pc[c] = "save"
  <2>1. \A d \in Callers : pc'[d] = "save" <=> pc[d] = "save"
    BY <1>1, <1>4
  <2>2. Unsaved' = Unsaved
    BY <1>1, <2>1 DEF Unsaved
  <2>3. QED
    BY <1>2, <2>2, HolderEnds
<1>5. QED
  BY <1>3, <1>4

\* An orderly step of the lifecycle is one of the slot.
LEMMA SlotStepHolds ==
  ASSUME TypeInv, OrderInv, [Next]_vars, Orderly, Orderly'
  PROVE  SlotStep
<1>1. CASE \E c \in Callers : CallerNext(c) \/ InterruptCommand(c)
  BY <1>1, CallerSlot
<1>2. ASSUME NEW c \in Callers, NEW j \in Jobs, Begin(c, j)
      PROVE  SlotStep
  <2>1. \A d \in Callers : pc[d] = "idle"
    BY <1>2 DEF Begin, Orderly
  <2>2. UNCHANGED <<proc, runtime>> /\ \A d \in Callers : pc'[d] # "save"
    BY <1>2, <2>1 DEF Begin, Goto, files, TypeInv, TypeOK
  <2>3. Unsaved = {} /\ Unsaved' = {}
    BY <2>1, <2>2 DEF Unsaved
  <2>4. LiveBackends' = LiveBackends /\ Recorded' = Recorded
    BY <2>2 DEF LiveBackends, Live, Recorded
  <2>5. QED
    BY <2>3, <2>4, HolderEnds
<1>3. CASE StopDaemon
  BY <1>3, StopDaemonSlot
<1>4. ASSUME NEW p \in Pids, ProcessNext(p)
      PROVE  SlotStep
  <2>1. /\ UNCHANGED <<pc, seen>>
        /\ \A q \in Pids : Live(q)' => Live(q)
        /\ runtime' # NoFile <=> runtime # NoFile
        /\ \A q \in Pids : RecordedAs(q)' <=> RecordedAs(q)
    BY <1>4, ProcessWrites
  <2>2. LiveBackends' \subseteq LiveBackends /\ Unsaved' = Unsaved
    BY <2>1 DEF LiveBackends, Unsaved
  <2>3. Recorded' = Recorded
    <3>1. /\ runtime # NoFile => runtime.pid \in Pids \cup {NoPid}
          /\ runtime' # NoFile => runtime'.pid \in Pids \cup {NoPid}
      <4>1. TypeOK /\ TypeOK'
        BY TypeStep DEF TypeInv
      <4>2. QED
        BY <4>1 DEF TypeOK, Records
    <3>2. QED
      BY <2>1, <3>1, PidsAssumption DEF Recorded, RecordedAs
  <2>4. QED
    BY <2>2, <2>3, HolderEnds
<1>5. CASE UNCHANGED vars
  <2>1. LiveBackends' = LiveBackends /\ Unsaved' = Unsaved /\ Recorded' = Recorded
    BY <1>5 DEF vars, files, procs, calls, LiveBackends, Live, Unsaved, Recorded
  <2>2. QED
    BY <2>1, HolderEnds
<1>6. QED
  BY <1>1, <1>2, <1>3, <1>4, <1>5 DEF Next

LEMMA SlotInit == Init => Slot!Init
BY DEF Init, Slot!Init, Orderly, Live, LivePhases, Phases

\* The lifecycle implements the slot, which is how the daemon and rotate take it:
\* for any processes, commands and daemon goroutines, until a fault, nothing is
\* launched before the last backend is dead and its record cleared, and a record
\* is made once and names the backend until then.
THEOREM LifecycleIsASlot == Spec => ImplementsBackendSlot
<1>1. TypeInv /\ OrderInv /\ [Next]_vars => [Slot!Next]_(Slot!vars)
  <2> SUFFICES ASSUME TypeInv, OrderInv, [Next]_vars PROVE [Slot!Next]_(Slot!vars)
    OBVIOUS
  <2>1. CASE Orderly /\ Orderly'
    BY <2>1, SlotStepHolds DEF SlotStep, Slot!Next
  <2>2. CASE ~Orderly'
    BY <2>2 DEF Slot!Next, Slot!Disturbed, Orderly
  <2>3. Orderly' => Orderly
    BY FaultsStay DEF TypeInv, Orderly
  <2>4. QED
    BY <2>1, <2>2, <2>3
<1>2. QED
  BY <1>1, SlotInit, OrderCorrect, PTL DEF Spec, ImplementsBackendSlot, Slot!Spec
===============================================================================
