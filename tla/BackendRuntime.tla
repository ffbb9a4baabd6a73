---------------------------- MODULE BackendRuntime ----------------------------
(***************************************************************************)
(* The life of backend processes: sing-box (the legacy family) and the     *)
(* program's own `service run-native` child (the native family), started   *)
(* and stopped through runtime.json and service.sock by the up, down and   *)
(* rotate commands and by the daemon.                                      *)
(*                                                                         *)
(* Callers act on shared files and processes without a lock.  A caller's   *)
(* load of runtime.json and the liveness probe that follows it are one     *)
(* step; every later clear, launch, signal, wait and save is a step of its *)
(* own.  A load and a save of runtime.json are single steps (StateStore    *)
(* says what that needs).  A PID is handed out once.  Not modelled: up     *)
(* --foreground, and errors of the account, the settings and the config    *)
(* file that end a caller before it reaches runtime.json.                  *)
(***************************************************************************)
EXTENDS Naturals, FiniteSets

CONSTANTS Pids,           \* process ids, each handed out once (bounds the starts)
          Callers,        \* commands and daemon goroutines using the lifecycle
          DaemonCallers,  \* those of the daemon process; the others are commands
          NoPid,          \* PID 0
          Init1,          \* the process that adopts orphans
          NoFile          \* runtime.json does not exist

ASSUME PidsAssumption == NoPid \notin Pids
ASSUME CallersAssumption ==
  /\ DaemonCallers \subseteq Callers
  /\ Init1 \notin Callers
ASSUME NoFileAssumption ==
  NoFile \notin [pid : Pids \cup {NoPid}, family : {"legacy", "native"}, path : BOOLEAN]

VARIABLES
  runtime,  \* runtime.json: pid, runtime family, service socket path known
  socket,   \* service.sock exists
  port,     \* the process listening on the access port, NoPid if none
  proc,     \* where each process is in its life
  kind,     \* the family of each process
  parent,   \* who can reap each process
  note,     \* the runtimeTracker's copy of runtime.json in a native process
  pc, job,  \* where each caller is, and in which operation
  seen,     \* the runtime state the caller loaded, or is about to save
  faults    \* auxiliary: what has happened that the code is not written for

files == <<runtime, socket, port>>
procs == <<proc, kind, parent, note>>
calls == <<pc, job, seen>>
vars == <<files, procs, calls, faults>>

Families == {"legacy", "native"}
Records == [pid : Pids \cup {NoPid}, family : Families, path : BOOLEAN]
Phases == {"unborn", "starting", "tracking", "tracked", "opened", "serving",
           "stopping", "closing", "leaving", "zombie", "gone"}
LivePhases == Phases \ {"unborn", "zombie", "gone"}
SocketPhases == {"opened", "serving", "stopping", "closing"}
TrackerPhases == SocketPhases \cup {"tracked", "leaving"}
Jobs == {"ensure", "up", "down", "reload"}
Points == {"idle", "ensure", "start", "clearStale", "launch", "save",
           "stop", "signal", "wait", "clear"}
Faults == {"overlap", "misjudged", "untracked", "unclean", "interrupted"}

Live(p) == p \in Pids /\ proc[p] \in LivePhases

-------------------------------------------------------------------------------
(* Liveness as the callers see it. *)

\* supervisor.IsRunning: signal 0 also reaches a zombie nobody has reaped.
IsRunning(p) == p # NoPid /\ (Live(p) \/ proc[p] = "zombie")

\* Mutant: a native runtime with a socket path is taken to be alive.
IsRuntimeActiveByPath(rt) ==
  IF rt.family = "native" THEN rt.path ELSE IsRunning(rt.pid)

\* orchestrator.IsRuntimeActive
IsRuntimeActive(rt) ==
  IF rt.family = "native" THEN rt.path /\ socket ELSE IsRunning(rt.pid)

\* up asks supervisor.CheckStale instead of IsRuntimeActive.
SeemsRunning(c, rt) ==
  IF job[c] = "up" THEN IsRunning(rt.pid) ELSE IsRuntimeActive(rt)

OwnChild(c, p) == parent[p] = c \/ {c, parent[p]} \subseteq DaemonCallers

\* What the death of the processes P leaves: a zombie while a parent could
\* still reap it, and a free port.
DeadPhase(p) == IF parent[p] = Init1 THEN "gone" ELSE "zombie"
Dies(P) ==
  /\ proc' = [p \in Pids |-> IF p \in P THEN DeadPhase(p) ELSE proc[p]]
  /\ port' = IF port \in P THEN NoPid ELSE port

\* A native process that dies before its deferred os.Remove leaves service.sock.
LeavesSocket(P) ==
  \E p \in P : kind[p] = "native" /\ proc[p] \in SocketPhases
Unclean(P) == IF LeavesSocket(P) THEN {"unclean"} ELSE {}

-------------------------------------------------------------------------------
Init ==
  /\ runtime = NoFile
  /\ socket = FALSE
  /\ port = NoPid
  /\ proc = [p \in Pids |-> "unborn"]
  /\ kind = [p \in Pids |-> "legacy"]
  /\ parent = [p \in Pids |-> Init1]
  /\ note = [p \in Pids |-> NoFile]
  /\ pc = [c \in Callers |-> "idle"]
  /\ job = [c \in Callers |-> "down"]
  /\ seen = [c \in Callers |-> NoFile]
  /\ faults = {}

Goto(c, l) == pc' = [pc EXCEPT ![c] = l] /\ UNCHANGED <<proc, parent>>

\* A command that ends leaves its children to Init1, which reaps them.
Orphaned(C) ==
  /\ parent' = [p \in Pids |-> IF parent[p] \in C THEN Init1 ELSE parent[p]]
  /\ proc' = [p \in Pids |-> IF parent[p] \in C /\ proc[p] = "zombie"
                             THEN "gone" ELSE proc[p]]

Return(c) ==
  /\ pc' = [pc EXCEPT ![c] = "idle"]
  /\ Orphaned({c} \ DaemonCallers)

JobsOf(c) == IF c \in DaemonCallers THEN {"ensure", "reload"}
                                    ELSE {"up", "down", "reload"}

\* ensure: ensureBackendRunning.  reload: stop, then start, as in reload,
\* restoreLastGood, rotateOnce and the rotate command.
Begin(c, j) ==
  /\ pc[c] = "idle"
  /\ j \in JobsOf(c)
  /\ job' = [job EXCEPT ![c] = j]
  /\ Goto(c, CASE j = "ensure" -> "ensure"
               [] j = "up"     -> "start"
               [] OTHER        -> "stop")
  /\ seen' = [seen EXCEPT ![c] = NoFile]
  /\ faults' = IF \E d \in Callers : pc[d] # "idle"
               THEN faults \cup {"overlap"} ELSE faults
  /\ UNCHANGED <<files, kind, note>>

EnsureBackendRunning(c) ==
  /\ pc[c] = "ensure"
  /\ IF runtime # NoFile /\ IsRuntimeActive(runtime)
     THEN Return(c) ELSE Goto(c, "start")
  /\ UNCHANGED <<files, kind, note, job, seen, faults>>

-------------------------------------------------------------------------------
(* startBackendRuntime, and up. *)

\* The recorded process is alive, yet the caller's probe says it is not.
Misjudged(rt, running) ==
  IF rt # NoFile /\ Live(rt.pid) /\ ~running THEN {"misjudged"} ELSE {}

\* Mutant: the "already running" error is not returned.
CheckStartUnguarded(c) ==
  /\ pc[c] = "start"
  /\ Goto(c, IF runtime = NoFile THEN "launch" ELSE "clearStale")
  /\ UNCHANGED <<files, kind, note, job, seen, faults>>

CheckStart(c) ==
  LET running == runtime # NoFile /\ SeemsRunning(c, runtime)
  IN /\ pc[c] = "start"
     /\ CASE runtime = NoFile -> Goto(c, "launch")
          [] running          -> Return(c)          \* "backend already running"
          [] OTHER            -> Goto(c, "clearStale")
     /\ faults' = faults \cup Misjudged(runtime, running)
     /\ UNCHANGED <<files, kind, note, job, seen>>

ClearStale(c) ==
  /\ pc[c] = "clearStale"
  /\ runtime' = NoFile
  /\ Goto(c, "launch")
  /\ UNCHANGED <<socket, port, kind, note, job, seen, faults>>

\* Mutant: the settings are not normalised, and the default family is empty.
BuildRuntimeStateRaw(p, k) ==
  [pid |-> p, family |-> IF k = "legacy" THEN "" ELSE k, path |-> TRUE]

\* BuildRuntimeState always fills in the service socket path.
BuildRuntimeState(p, k) == [pid |-> p, family |-> k, path |-> TRUE]

Launch(c, p, k) ==
  /\ pc[c] = "launch"
  /\ proc[p] = "unborn"
  /\ pc' = [pc EXCEPT ![c] = "save"]
  /\ proc' = [proc EXCEPT ![p] = "starting"]
  /\ kind' = [kind EXCEPT ![p] = k]
  /\ parent' = [parent EXCEPT ![p] = c]
  /\ seen' = [seen EXCEPT ![c] = BuildRuntimeState(p, k)]
  /\ UNCHANGED <<files, note, job, faults>>

\* The process cannot be started: PID 0 is what gets saved.
LaunchFails(c, k) ==
  /\ pc[c] = "launch"
  /\ Goto(c, "save")
  /\ seen' = [seen EXCEPT ![c] = BuildRuntimeState(NoPid, k)]
  /\ UNCHANGED <<files, kind, note, job, faults>>

SaveStart(c) ==
  /\ pc[c] = "save"
  /\ runtime' = seen[c]
  /\ Return(c)
  /\ UNCHANGED <<socket, port, kind, note, job, seen, faults>>

\* A process launched by one of C and not yet recorded will not be.
Unrecorded(C) ==
  IF \E c \in C : pc[c] = "save" /\ Live(seen[c].pid) THEN {"interrupted"} ELSE {}

\* A failed save is only a warning: the process runs and nothing records it.
SaveFails(c) ==
  /\ pc[c] = "save"
  /\ Return(c)
  /\ faults' = faults \cup Unrecorded({c})
  /\ UNCHANGED <<files, kind, note, job, seen>>

-------------------------------------------------------------------------------
(* stopBackendRuntime, down, and supervisor.Stop. *)

AfterStop(c) == IF job[c] = "reload" THEN Goto(c, "start") ELSE Return(c)

CheckStop(c) ==
  LET running == runtime # NoFile /\ IsRuntimeActive(runtime)
  IN /\ pc[c] = "stop"
     /\ CASE runtime = NoFile -> AfterStop(c)
          [] running          -> Goto(c, "signal")
          [] OTHER            -> Goto(c, "clear")
     /\ seen' = [seen EXCEPT ![c] = runtime]
     /\ faults' = faults \cup Misjudged(runtime, running)
     /\ UNCHANGED <<files, kind, note, job>>

\* SIGTERM: a process that serves shuts down; before signal.Notify and after
\* signal.Stop it dies of it.
HandlesTerm(p) == proc[p] \in {"serving", "stopping"}

Term(p) ==
  IF HandlesTerm(p)
  THEN /\ proc' = [proc EXCEPT ![p] = "stopping"]
       /\ UNCHANGED <<port, faults>>
  ELSE /\ Dies({p})
       /\ faults' = faults \cup Unclean({p})

\* supervisor.Stop up to the signal.
SignalInvalid(c) ==
  /\ pc[c] = "signal"
  /\ seen[c].pid = NoPid
  /\ Return(c)                                      \* "invalid PID"
  /\ UNCHANGED <<files, kind, note, job, seen, faults>>

SignalGone(c) ==
  /\ pc[c] = "signal"
  /\ seen[c].pid # NoPid
  /\ ~IsRunning(seen[c].pid)
  /\ Goto(c, "clear")
  /\ UNCHANGED <<files, kind, note, job, seen, faults>>

\* Mutant: Stop returns without waiting for the process.
SignalAndLeave(c) ==
  /\ pc[c] = "signal"
  /\ IsRunning(seen[c].pid)
  /\ pc' = [pc EXCEPT ![c] = "clear"]
  /\ IF Live(seen[c].pid)
     THEN Term(seen[c].pid)
     ELSE UNCHANGED <<proc, port, faults>>
  /\ UNCHANGED <<runtime, socket, kind, parent, note, job, seen>>

Signal(c) ==
  /\ pc[c] = "signal"
  /\ IsRunning(seen[c].pid)
  /\ pc' = [pc EXCEPT ![c] = "wait"]
  /\ IF Live(seen[c].pid)
     THEN Term(seen[c].pid)
     ELSE UNCHANGED <<proc, port, faults>>
  /\ UNCHANGED <<runtime, socket, kind, parent, note, job, seen>>

\* proc.Wait returns once an own child is dead, and reaps it; for any other
\* process it fails at once and IsRunning decides.
Waited(c) ==
  LET p == seen[c].pid
  IN /\ pc[c] = "wait"
     /\ ~Live(p)
     /\ proc[p] = "zombie" => OwnChild(c, p)
     /\ pc' = [pc EXCEPT ![c] = "clear"]
     /\ proc' = [proc EXCEPT ![p] = "gone"]
     /\ UNCHANGED <<files, kind, parent, note, job, seen, faults>>

\* The grace period is over: SIGKILL, and Stop returns whatever it finds.  An
\* own child never gets here: proc.Wait does not return before the child ends.
Kill(c) ==
  LET p == seen[c].pid
  IN /\ pc[c] = "wait"
     /\ IsRunning(p)
     /\ ~OwnChild(c, p)
     /\ pc' = [pc EXCEPT ![c] = "clear"]
     /\ IF Live(p)
        THEN /\ Dies({p})
             /\ faults' = faults \cup Unclean({p})
        ELSE UNCHANGED <<proc, port, faults>>
     /\ UNCHANGED <<runtime, socket, kind, parent, note, job, seen>>

ClearRuntime(c) ==
  /\ pc[c] = "clear"
  /\ runtime' = NoFile
  /\ AfterStop(c)
  /\ UNCHANGED <<socket, port, kind, note, job, seen, faults>>

-------------------------------------------------------------------------------
(* A caller that ends in the middle. *)

InterruptCommand(c) ==
  /\ c \notin DaemonCallers
  /\ pc[c] # "idle"
  /\ Return(c)
  /\ faults' = faults \cup Unrecorded({c})
  /\ UNCHANGED <<files, kind, note, job, seen>>

\* The daemon is stopped: exec.CommandContext kills the children that its
\* watcher gets to before the daemon exits.
StopDaemon ==
  \E K \in SUBSET {p \in Pids : Live(p) /\ parent[p] \in DaemonCallers} :
    /\ \E p \in Pids : parent[p] \in DaemonCallers
    /\ pc' = [c \in Callers |-> IF c \in DaemonCallers THEN "idle" ELSE pc[c]]
    /\ proc' = [p \in Pids |->
                  IF p \in K \/ (parent[p] \in DaemonCallers /\ proc[p] = "zombie")
                  THEN "gone" ELSE proc[p]]
    /\ parent' = [p \in Pids |-> IF parent[p] \in DaemonCallers THEN Init1
                                                                ELSE parent[p]]
    /\ port' = IF port \in K THEN NoPid ELSE port
    /\ faults' = faults \cup Unclean(K) \cup Unrecorded(DaemonCallers)
    /\ UNCHANGED <<runtime, socket, kind, note, job, seen>>

-------------------------------------------------------------------------------
(* The processes themselves. *)

Step(p, from, to) == proc[p] = from /\ proc' = [proc EXCEPT ![p] = to]

\* Mutant: the tracker starts from an empty runtime state.
TrackAfresh(p) ==
  /\ kind[p] = "native"
  /\ Step(p, "starting", "tracking")
  /\ note' = [note EXCEPT ![p] = [pid |-> NoPid, family |-> "native",
                                 path |-> FALSE]]
  /\ UNCHANGED <<files, kind, parent, calls, faults>>

\* newRuntimeTracker, once the transport is connected: a missing runtime.json
\* leaves the tracker without a PID.
Track(p) ==
  /\ kind[p] = "native"
  /\ Step(p, "starting", "tracking")
  /\ note' = [note EXCEPT ![p] =
                [pid |-> IF runtime = NoFile THEN NoPid ELSE runtime.pid,
                 family |-> "native",
                 path |-> runtime # NoFile /\ runtime.path]]
  /\ faults' = IF runtime = NoFile \/ runtime.pid # p
               THEN faults \cup {"untracked"} ELSE faults
  /\ UNCHANGED <<files, kind, parent, calls>>

\* The first snapshot is written before the listeners start.
FirstSnapshot(p) ==
  /\ Step(p, "tracking", "tracked")
  /\ runtime' = note[p]
  /\ UNCHANGED <<socket, port, kind, parent, note, calls, faults>>

\* The ticker and the transport's events write at any later time.
Snapshot(p) ==
  /\ kind[p] = "native"
  /\ proc[p] \in TrackerPhases
  /\ runtime' = note[p]
  /\ UNCHANGED <<socket, port, procs, calls, faults>>

WriteSocket(p) ==
  /\ Step(p, "tracked", "opened")
  /\ socket' = TRUE
  /\ UNCHANGED <<runtime, port, kind, parent, note, calls, faults>>

\* setServiceSocket and signal.Notify; the listener has bound the port, or
\* its error ends the process.
Serve(p) ==
  /\ Step(p, "opened", IF port = NoPid THEN "serving" ELSE "stopping")
  /\ port' = IF port = NoPid THEN p ELSE port
  /\ note' = [note EXCEPT ![p] = [@ EXCEPT !.path = TRUE]]
  /\ runtime' = note'[p]
  /\ UNCHANGED <<socket, kind, parent, calls, faults>>

\* sing-box binds the port, or dies.
ServeLegacy(p) ==
  /\ kind[p] = "legacy"
  /\ proc[p] = "starting"
  /\ IF port = NoPid
     THEN /\ proc' = [proc EXCEPT ![p] = "serving"]
          /\ port' = p
     ELSE Dies({p})
  /\ UNCHANGED <<runtime, socket, kind, parent, note, calls, faults>>

\* The engine or a listener reports an error.
EngineFails(p) ==
  /\ kind[p] = "native"
  /\ Step(p, "serving", "stopping")
  /\ UNCHANGED <<files, kind, parent, note, calls, faults>>

\* tracker.stop, then the deferred calls in reverse order: signal.Stop,
\* os.Remove of the socket, the listeners, the engine and the tunnel.
StopTracker(p) ==
  /\ kind[p] = "native"
  /\ Step(p, "stopping", "closing")
  /\ runtime' = note[p]
  /\ UNCHANGED <<socket, port, kind, parent, note, calls, faults>>

\* Mutant: the deferred os.Remove is missing.
KeepSocket(p) ==
  /\ Step(p, "closing", "leaving")
  /\ UNCHANGED <<files, kind, parent, note, calls, faults>>

RemoveSocket(p) ==
  /\ Step(p, "closing", "leaving")
  /\ socket' = FALSE
  /\ UNCHANGED <<runtime, port, kind, parent, note, calls, faults>>

\* The process ends on its own: its shutdown is over, sing-box is done, or
\* the start failed (no transport, no configuration).
Exit(p) ==
  /\ \/ proc[p] \in {"starting", "leaving"}
     \/ kind[p] = "legacy" /\ proc[p] = "stopping"
  /\ Dies({p})
  /\ UNCHANGED <<runtime, socket, kind, parent, note, calls, faults>>

\* A panic, the OOM killer, a power cycle of the container's processes.
Crash(p) ==
  /\ Live(p)
  /\ Dies({p})
  /\ faults' = faults \cup Unclean({p})
  /\ UNCHANGED <<runtime, socket, kind, parent, note, calls>>

-------------------------------------------------------------------------------
CallerNext(c) ==
  \/ EnsureBackendRunning(c)
  \/ CheckStart(c) \/ ClearStale(c)
  \/ \E k \in Families : LaunchFails(c, k) \/ \E p \in Pids : Launch(c, p, k)
  \/ SaveStart(c) \/ SaveFails(c)
  \/ CheckStop(c)
  \/ SignalInvalid(c) \/ SignalGone(c) \/ Signal(c)
  \/ Waited(c) \/ Kill(c)
  \/ ClearRuntime(c)

ProcessNext(p) ==
  \/ Track(p) \/ FirstSnapshot(p) \/ Snapshot(p)
  \/ WriteSocket(p) \/ Serve(p) \/ ServeLegacy(p)
  \/ EngineFails(p) \/ StopTracker(p) \/ RemoveSocket(p)
  \/ Exit(p) \/ Crash(p)

Next ==
  \/ \E c \in Callers : CallerNext(c) \/ InterruptCommand(c)
  \/ \E c \in Callers, j \in Jobs : Begin(c, j)
  \/ StopDaemon
  \/ \E p \in Pids : ProcessNext(p)

Spec == Init /\ [][Next]_vars

-------------------------------------------------------------------------------
(* Properties. *)

TypeOK ==
  /\ runtime \in Records \cup {NoFile}
  /\ socket \in BOOLEAN
  /\ port \in Pids \cup {NoPid}
  /\ proc \in [Pids -> Phases]
  /\ kind \in [Pids -> Families]
  /\ parent \in [Pids -> Callers \cup {Init1}]
  /\ note \in [Pids -> Records \cup {NoFile}]
  /\ pc \in [Callers -> Points]
  /\ job \in [Callers -> Jobs]
  /\ seen \in [Callers -> Records \cup {NoFile}]
  /\ faults \in SUBSET Faults

\* What the lifecycle is written for.  A socket that a dead native process
\* left behind ("unclean") does not lead to a second backend.
Orderly == faults \subseteq {"unclean"}

\* The "already running" guards of startBackendRuntime and up: at most one
\* backend is alive.
SingleBackend == Orderly => Cardinality({p \in Pids : Live(p)}) <= 1

\* A backend that is alive can be found again: runtime.json holds its PID, or
\* the caller that launched it is about to record it.
BackendIsRecorded ==
  Orderly => \A p \in Pids : Live(p) =>
    \/ runtime # NoFile /\ runtime.pid = p
    \/ \E c \in Callers : pc[c] = "save" /\ seen[c].pid = p

\* runtime.json is cleared only when no backend is alive: stop has waited for
\* it, and a start calls stale only what is dead.
ClearsOnlyTheDead ==
  Orderly => \A c \in Callers :
    pc[c] \in {"clear", "clearStale", "launch"} => \A p \in Pids : ~Live(p)

\* service.sock, by which a native backend is judged alive, exists exactly
\* while a native process that wrote it is up.
SocketTellsTheTruth ==
  faults = {} => (socket <=> LeavesSocket(Pids))

\* Stop never meets a runtime state without a PID, on which it fails without
\* clearing anything, so that every later stop fails too.
StopKnowsItsTarget ==
  faults = {} => \A c \in Callers : pc[c] = "signal" => seen[c].pid # NoPid

\* The lifecycle as the daemon and the commands see it.
Slot == INSTANCE BackendSlot WITH
  alive   <- {p \in Pids : Live(p)},
  pending <- {seen[c].pid : c \in {d \in Callers : pc[d] = "save"}} \ {NoPid},
  record  <- IF runtime = NoFile THEN NoPid ELSE runtime.pid,
  orderly <- Orderly

\* As long as it is orderly, starts, stops, trackers and deaths in any order are
\* steps of one slot: nothing is launched before the last backend is dead and its
\* record cleared, and nobody writes another process over it.
ImplementsBackendSlot == Slot!Spec

\* cmd/down.go:15: down stops the managed backend process.  Whatever the
\* probe has said, nothing is alive when down clears runtime.json.
DownStopsTheBackend ==
  faults \subseteq {"misjudged"} => \A c \in Callers :
    pc[c] = "clear" /\ job[c] = "down" => \A p \in Pids : ~Live(p)

\* docs/warp-rotation-unlock.md:105: the daemon ensures that the backend is
\* running.  When ensureBackendRunning finds nothing to do, one is.
EnsureFindsABackend ==
  [][faults = {} => \A c \in Callers :
       pc[c] = "ensure" /\ pc'[c] = "idle" /\ EnsureBackendRunning(c)
         => \E p \in Pids : Live(p)]_vars

\* internal/supervisor/supervisor.go:94-96: Stop waits up to stopTimeout and
\* then kills, so it ends whatever the process does about SIGTERM.
FairSpec == Spec /\ \A c \in Callers : WF_vars(CallerNext(c))
StopTerminates == \A c \in Callers : pc[c] = "wait" ~> pc[c] # "wait"

===============================================================================
