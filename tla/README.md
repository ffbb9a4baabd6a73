# A verification project for cfwarp-cli

`cfwarp-cli` registers a Cloudflare WARP device, runs a proxy backend (a
sing-box process, or a native MASQUE process that is the program itself), and
has a daemon that watches the backend and rotates the account when capability
checks fail. There is no server and no lock: every command, the daemon and the
backend process share a state directory, and nearly all of the program's
correctness is about who reads and writes which file, when, and what a process
does at the same time.

The modules here model that part of the program in TLA+, TLC checks them on
small instances, and TLAPS proves the theorems at the end for every instance.
`PROJECT.json` maps every definition to the source lines it translates.

## Inventory

| component | state it keeps | operations | talks to |
|---|---|---|---|
| State files (`internal/state/store.go`) | `account.json`, `settings.json`, `runtime.json`, `last-good-account.json`, the rotation history | save (temporary file and rename), load, clear | used by everything below, from several processes |
| Rotation memory (`internal/state/rotation_history.go`, `cmd/rotation_memory.go`) | the history of address assignments | judge novelty, remember, trim | the state files; called by the daemon, `rotate`, `status` |
| Backend lifecycle (`cmd/runtime_helpers.go`, `up`, `down`, `internal/supervisor`, `internal/orchestrator`, `cmd/native_runtime.go`) | `runtime.json`, `service.sock`, the process, its port | start, stop, ensure, the native process's tracker | the state files; the operating system; called by the daemon and the commands |
| Daemon (`cmd/daemon.go`) | cooldown, settings, last results (in memory); the two account files | check loop, control connections, remediation, restore, reload | all of the above, the probes, the WARP service |
| Rotate command (`cmd/rotate.go`) | none of its own: the account it found is in memory only | stop, attempts with registration, start and unlock checks, restore | as the daemon |
| Account registration (`cmd/account_helpers.go`, `cmd/import.go`) | `account.json` | look, register, enroll a MASQUE key, save | the WARP service; called by `register`, `import`, `up`, `rotate` and the daemon |
| MASQUE transport (`internal/transport/masque`) | the session bundle, pending reads, the event channel | read, write, reconnect, dial with back-off, close | the engine, the tracker (events) |
| Dataplane (`internal/dataplane`) | two forwarding loops, error channel, netstack | forward, snapshot, close | the tunnel; the SOCKS and HTTP front ends |
| Settings (`internal/settings`, `internal/state/models.go`, `transport set`, `mode set`) | `settings.json` | resolve from five sources, normalise, validate, save | every command and the daemon start from the result |
| Probes (`internal/unlock`, `internal/caps`, `internal/health`) | none | ask a service through the proxy, judge its answer | `rotate`, the daemon, `status` |
| Configuration rendering (`internal/backend/singbox/renderer.go`, `cmd/access_helpers.go`, the native front ends) | none | from settings to listeners, resolvers, the listener to wait for and to probe | every start; `rotate` and the daemon |
| Read-only commands, deployment files | none | formatting; containers and playbooks | the commands |

What is hard in it:

* *Several processes, no lock.* A start is a load, a launch and a save; a stop
  is a load, a signal, a wait and a clear; `markLastGood` loads the account
  again after the checks. Any of them can be interleaved with another command,
  a control connection of the daemon, or the backend's own tracker.
* *Judging liveness.* A sing-box backend is alive when its PID answers signal 0
  (a zombie does), a native one when `service.sock` exists (a process that is
  connecting has none yet, a killed one leaves it).
* *Partial failure.* Saves, launches, stops, registrations and checks fail, in
  the middle of operations that change several files; a failed save of
  `runtime.json` is only a warning.
* *Crashes.* The daemon, a command or a backend may end between any two steps.
* *Retries and time.* Attempts, cooldown, settle time, the grace period of a stop.
* *Two homes for one setting.* The listener is in the legacy fields and in the first
  access entry; five sources, the JSON form and each normalisation write to one or
  the other.
* *What is served, awaited and probed.* The backend's listeners, the listener that is
  waited for and the one probes go through are derived from the settings in
  three places; the native process resolves its settings again, for itself.
* *Answers that are not the service's.* A probe sees text, not who wrote it.
* *Boundaries.* The history's size, the attempts' budget, the 16 events of the
  transport's channel.

What makes the components correct, in a sentence each: a state file always
holds one complete document that somebody saved; the rotation history is
bounded, free of duplicates and holds the newest assignments; there is at most
one backend and it can be found and stopped; the daemon goes back to an account
known to work, and ends only when it has to; `rotate` leaves
an account it has tested or the one it found; a setting is what the strongest
source says, and stays it when it is saved; the listener that is probed is one
that is served. `PROJECT.json`
lists the hazards behind these, each at its line, with the properties that
watch over it.

## The modules

| module | models | checked by |
|---|---|---|
| `AtomicFile` | what a state file promises: replace, remove, look, each in one step | (abstract specification) |
| `StateStore` | `writeSecure`, `readJSON`, `SaveAccount`, the clears, one step per system call | `MCStateStore` |
| `StateStoreProofs` | type correctness, the one-writer invariant, the refinement of `AtomicFile` | TLAPS |
| `RotationMemory` | novelty, remember and trim, and the load / judge / save of its callers | `MCRotationMemory` |
| `RotationMemoryProofs` | its type and its invariants | TLAPS |
| `BackendSlot` | what the backend lifecycle promises: one place, launched, recorded, ended, cleared in this order | (abstract specification) |
| `BackendRuntime` | callers that start and stop backends, and the backend processes | `MCBackendRuntime` |
| `BackendRuntimeProofs` | its type, the order of its operations, its socket and its targets, the refinement of `BackendSlot` | TLAPS |
| `ManagedBackend` | a stop and a start as the daemon and `rotate` see them, and what backends do by themselves | through `Daemon` and `RotateCommand` |
| `Daemon` | the check loop and the control connections over the accounts | `MCDaemon` |
| `DaemonProofs` | its type, the copies of the settings, the accounts, the daemon's exit | TLAPS |
| `UnlockProbe` | the services `rotate` is asked for, and what their answers say | through `RotateCommand` |
| `RotateCommand` | `rotate`, and the commands that put an account into place beside it | `MCRotateCommand` |
| `RotateCommandProofs` | its type, and what it leaves behind | TLAPS |
| `MasqueTunnel` | the tunnel's session, reconnects, dials, `Close`, its event channel | through `NativeRuntime` |
| `NativeRuntime` | `service run-native`: main goroutine, forwarding loops and event loop over a `MasqueTunnel` | `MCNativeRuntime` |
| `NativeRuntimeProofs` | its type, its sessions, its panics, its loops, its events | TLAPS |
| `Settings` | the layers of `settings.Load`, `Normalize`, `Validate`, the JSON form, the commands that save | `MCSettings` |
| `Rendering` | the sing-box document and the native front ends made of resolved settings, and the listener that is awaited and probed | `MCSettings` |
| `SettingsLemmas` | what the operators of `Settings` return, field by field | TLAPS |
| `SettingsProofs` | the type, the order of the sources, the round trip, the set commands, the listeners | TLAPS |

Every layer takes the one below as its contract. `RotationMemory` and
`BackendRuntime` load and save a file in one step, which is what `StateStore`
is shown to implement for one writer (and shown not to for two). `Daemon` and
`RotateCommand` take a stop and a start as one step each (`ManagedBackend`),
without the order that `BackendSlot` promises: a stop that returns nil may leave
a process running, as `backend_native_down` shows. A verdict of the rotation
memory is either answer to them. `Rendering` takes the
settings that `Settings` resolves. `NativeRuntime` is the inside of one native process of
`BackendRuntime`: its stages `preparing`, `serving`, `stopped` and what follows
are the phases tracking to tracked, opened and serving, stopping, closing and
leaving there.

### StateStore

`target` and `tmp` are the inodes under the path and under `path+".tmp"`, `data`
the content of every inode: a document, `Empty` or `Torn`. A writer opens the
temporary file with `O_TRUNC` (`OpenTmp`; an existing one keeps its inode, which
is what makes two writers dangerous), encodes, closes, renames; each of these
may fail and then cleans up as `writeSecure` does. A reader opens the target and
decodes later, from the inode it holds. A crash ends a writer at any step and
keeps the files.

### RotationMemory

An assignment is an IPv4 and an IPv6; a fingerprint is their pair. `Novelty`
is `EvaluateRotationNovelty`, `Remember` puts a new one in front and trims, and a
caller goes through load, judge, save with a local copy, as
`ensureRotationAccount`, `rememberRotationAccount` and
`rememberCurrentRotationAccount` do; `verdict` is the novelty each caller
computed last. A save is `Stale` when the file is no longer what its caller has
loaded. The auxiliary `age` counts, for each assignment, how many new ones
were recorded after it, and knows nothing of places and trims; a stale save
makes everything but its own assignment too old. `ReuseIsRefused` holds the
verdicts to it: what is young enough for `history_size` is not accepted again.

### BackendRuntime

`runtime` is `runtime.json` cut down to PID, family and socket path; `socket`
is `service.sock`; `port` is the process that listens. A process goes from
`starting` through the native phases of `runNativeRuntime` (tracking, tracked,
opened, serving, stopping, closing, leaving), with `note` its tracker's copy of
the runtime state, to `zombie` or `gone`; a sing-box process starts, serves and
stops. A caller is the daemon or a command: its `job` is up, down, ensure or
reload (stop, then start), and its `pc` follows `startBackendRuntime`,
`stopBackendRuntime` and `supervisor.Stop`. `faults` names what has happened
that the code makes no provision for, at the step where it happens:

* `overlap`: two operations at once;
* `interrupted`: a launched process whose save did not happen;
* `misjudged`: the recorded process is alive and its probe says it is not;
* `untracked`: the tracker read a `runtime.json` that is not about its process;
* `unclean`: a native process died with its socket in place.

The properties are conditional on the absence of some of them, and the
violation runs show what one of them alone leads to. A fault is never a
precondition the run cannot falsify: the passing run reaches all five.

`BackendSlot` is the same seen from outside: `alive` maps to the processes that
are alive, `pending` to the one a caller has launched and not yet saved, `record`
to the PID in `runtime.json`, and `orderly` to the absence of the faults that
break the order (all but `unclean`). A launch and a
clear are steps of the slot only when nothing is alive, and a tracker's save only
when it writes the PID that is there; after a fault the slot promises nothing.

### ManagedBackend

`backend` is the account of the live process `runtime.json` names, `active` what
`IsRuntimeActive` says of that file, and `strays` the accounts of live processes
it does not name. `StopSucceeds` is `stopBackendRuntime` returning nil: an active
backend has been stopped, of any other only the record is removed, so that a
native backend that is still connecting (`runtime_helpers.go:90-94`) becomes a
stray; `StopFails` returns an error. A start is refused when a backend is
active (for `up`, when its process lives), and else clears the record the same way; its process may
stay unrecorded when the save fails. A stray may hold the port, connect, end,
take the socket with it, and save `runtime.json` as its tracker knows it
(`StrayMoves`). The step that makes a stray is marked (`Strayed`), and its
caller keeps that as the fault `stray`. Both runtime families are one here, so
the module allows more than each of them does.

### Daemon

A worker is the loop or a control connection. A process is the account it was
started with (`ManagedBackend`), and a probe reaches any that runs; `account` and `lastGood` are the two files. The program counter
follows `scheduledCheck`, `remediate`, `rotateOnce`, `restoreLastGood` and
`reload`; every `continue` of the attempts loop is `NextAttempt`. The auxiliary
`passed` holds the accounts whose backend has done what was demanded of it.

The settings (`sett`) are one of `Configs`, or `Invalid` ones that do not resolve;
the operator edits them at any moment (`EditSettings`). Every step that calls
`resolveSettings` takes them as they are then, stores them in `m.settings`
(`current`), and has an error path for the ones that do not resolve. Copies
live on in `job`: `plan` is what `remediate` goes by from its first line to its
last, `own` the checks `scheduledCheck` judges by before and after it, `ran` and
`failed` are the checks `runChecks` has run and the positions at which they
failed. `checkFailurePolicy` matches results with checks by position and leaves
out what has no counterpart (`Failing`), whichever documents the two come from.

`faults` names what has happened beside the operations the code is written for:
`overlap` (two at once), `command` (an account registered under the daemon),
`stopFailed`, `interrupted` (stopped between a restored account and its backend),
`edited` (settings changed under an operation), `stray` (a stop or a start has left
a process to itself). Settings that change between
operations are no fault.

### RotateCommand and UnlockProbe

Every command is a process with a request (operation, attempts, service names,
MASQUE, force) and the local variables of its code in `job`: the attempt, the
previous account, `wasRunning`, the account at hand, the services left to probe.
`Load` and `Stop` are how `rotate` begins; `Look`, `Register`, `Enroll` and `Save`
are `registerAccount`, which `register` and `up` go through as well; every
`continue` of the attempts is `NextAttempt`; `Restore` and `Restart` are the way
back. What happens to a command that its code makes no provision for is kept
with the command (`overlap`, `stopFailed`, `saveFailed`, `errorPage`, and `stray`, also
for one that begins while a stray is there), so that one that starts later and runs undisturbed is held to every promise.

An account has the services that are open from its address. A probe fetches
pages, and an answer is the set of markers the code looks for in each: the
service's own answer for an open or a closed region (`Answers`), a page of
somebody else (`ErrorPages`), or nothing. The code never looks at the status.

### MasqueTunnel and NativeRuntime

`session` is the state of every session bundle (up, down because the peer or the
network ended it, or closed by the tunnel), `bundle` the tunnel's own, `events`
the event channel, `pending` the ICMP answers that wait for a reader. A caller
holds in `held` the session in its local variable and walks with `pc` through
`ReadPacket` or `WritePacket`, `reconnect`, `dialWithRetry` and `dial`. What
happens under `t.mu` is one step; what happens after the unlock (closing the old
session, the event, loading the session again) is another. The event types are
cut down to what the tracker tells apart.

`NativeRuntime` adds the engine's two loops (a reader of the tunnel and a
writer), the error channel, the receiver of events with the tracker's
`LastTransportError` (`degraded`), and the main goroutine's `stage`, up to the
deferred `eng.Close` and `tun.Close`. The context of the process is never done
(`cmd.Context()` without a signal handler), so no back-off is cut short by it. A
panic in any goroutine ends the process. `faults` names what has happened: a
`loss`, another (`lossAgain`), a dial `refused`, a session that worked `replaced`
by another caller's, an event `missed` because the channel was full.

### Settings

Settings, a document, the variables and the flags are partial functions from
field names to values, merged with `@@`: Go's zero value, a nil pointer and an
omitted JSON field are an absent key, which is what every `if v != ""` of
`load.go` and every `omitempty` come to. `Layered` is `Load` before its
validation, `Normalize`, `Marshal`, `Unmarshal` and `Validate` are the functions
of these names. `file` is `settings.json`; `command` is the one command that
runs, with what it was given and has resolved, and `Exit` ends it. The operator
may write or remove the file between commands, and a save may fail.
`SettingsAssumption` says what an operator can write, which is what Go's types
and `omitempty` admit: known fields, no zero values in a file, and among the
variables a zero only in a number or a switch.

The properties compare the result with a reference that knows nothing of the
two homes of a listener setting: `SourcesInOrder` takes the first of flags,
variables and file that states a field, `OthersUntouched` says what a listener
flag or a variable may not reach, `SavedIsFound` and `SetChangesOnlyItsPart` take
a value through `Marshal`, the file and `Layered` again. `SourcesInOrder` excepts
the credentials of `Leaking` and an address no source states (`open`), and
`SetChangesOnlyItsPart` the `address` of a listener that was a tun; the findings
below say why.

### Rendering

A listener is its type, host, port and credentials. `SingBox` is what the renderer
writes of inbounds and resolvers; `FrontEnds` what the native process opens, of
settings it resolves for itself (`ServiceSettings`), because it is started with
`--state-dir` alone; `Awaited` and `ProbeTarget` are what `rotate` and the daemon
wait for and probe. `ListenersAgree` says that settings that validate can be
rendered, with resolvers that can be asked, and that what is awaited is what is
probed and what is served, in the same type and for the credentials the probe
sends. Hosts are of four kinds, which the constants name: addresses, host names
(sing-box refuses its document for one, `Accepts`), IPv6 addresses without brackets
(`BareIPv6`: the native process joins host and port with a colon, cannot
listen, and that ends it with all its front ends), and with them (`Bracketed`:
`net.JoinHostPort` puts them into brackets again, so that no dial reaches them).
The native process is excepted where it does not hear what chose the
listener (`Unheard`), for a bare address in any entry and a bracketed one in the
first, and need not run at all when a flag gave the log level or the
endpoint. `AssignedAssumption` says of an account that it has an IPv4 address, and
an endpoint to dial if any. The property runs over every `resolve` of
`settings_sources`.

## The runs

| run | shows | bounds |
|---|---|---|
| `store_one_writer` | no torn or lost document and no open handle, through failures and crashes; refines `AtomicFile` | 1 writer, 2 readers, 2 documents, 4 inodes |
| `store_two_writers` | *violated*: a reader finds a torn document | 2 writers, 2 readers |
| `memory_concurrent` | bounded, no duplicates, verdicts are about new assignments, the newest are refused unless a stale save dropped them | 2 callers, 3 assignments that share addresses, one without IPv6, history size 2, all policies |
| `settings_sources` | precedence, what a source may not touch, what is saved is found again, what is served is what is probed | 39 documents (3 selections, each with one of 10 listener or 4 section parts, one of them empty in both) and those the commands make of them, 5 standalone files, 7 environments, 7 sets of flags, 4 transports and 4 modes as arguments (an empty one among each), 2 accounts, absent and corrupt files |
| `backend_lifecycle` | one backend, recorded, cleared only when dead; socket and PID tell the truth; refines `BackendSlot` | 2 processes, the daemon and one command |
| `backend_native_down` | *violated*: `down` leaves a connecting backend running | 2 processes, the daemon and one command |
| `backend_ensure` | *violated*: the daemon takes its zombie for a backend | 2 processes, the daemon and one command |
| `backend_stop_hangs` | *violated*: a stop of an own child that ignores SIGTERM does not end | 1 process, the daemon and one command |
| `daemon_remediation` | last good is known good, results are judged by the checks that were run, the backend is that of the account, restores, exit conditions | the loop and one connection, 3 accounts, 4 settings and invalid ones, 4 edits, up to 2 attempts |
| `rotate_attempts` | a failure goes back, a success is tested, no backend is left where none was | 2 commands (one `rotate` at a time), 3 accounts, 1 stray, 2 regions, 10 requests, up to 2 attempts |
| `tunnel_reconnect` | no session left behind, one loss is survived, the tracker settles, no loop runs alone, no early panic | a reader, a writer, the main goroutine; 3 sessions, 2 attempts, 5 events, 1 pending packet |
| `tunnel_session_loss` | *violated*: one loss ends the process when reader and writer both reconnect | as above |

Why these bounds are enough: the races are between two parties (a writer and a
writer, a caller and a caller, the loop and a connection), so the second of each
is where the behaviour starts, and a third only repeats it. Two PIDs are what it
takes to have two backends or a restart; PIDs are not reused, so a behaviour
with more restarts is cut off, not misjudged. A history of size two with three
assignments reaches the trim. Three accounts are the first one and one for each
of two attempts, or one rotated away under a check. The four settings are: a
required check that rotates, with restore and two attempts; an optional one; a
required one that does not rotate beside an optional one, with rotation
disabled; no check at all. The edits lead from no check, or from two in another
order, to the optional one, from that to settings that do not resolve, and on to
the required one: checks appear, move to another position, vanish, and change
their kind, under an operation or between two. The accounts are handed out in a
fixed order, as nothing depends on which one comes. The engine has exactly one reader and one writer.
The requests of `MCRotateCommand` are a rotate for an address only, for one service
under two names, for two services, for an unknown one, and one of every other
command with and without what changes its way; three accounts are the one found
and one for each of two attempts, and a region that opens every service and one
that opens some are what a verdict tells apart.
The documents of `MCSettings` have each value a check of the code tells apart:
none, half and whole credentials, one, two and colliding listeners, hosts of
every kind as a first and a second one, aliases of older versions, empty and full sections.
Three sessions are the tunnel's and one for each of the two; a closed one that
nobody refers to is used again, so the number of reconnects is not bounded. Two
attempts have a last one and one before it, and five events are, as the code's
sixteen are for its five attempts, just more than a start can emit
(`CapAssumption`), which lets reconnects fill the channel.

`MCBackendRuntime` and `MCDaemon` explore what follows a first fault and stop at
a second (`AtMostOneFault`), a state constraint; every property is stated for
the states before and after that single fault. `MCBackendRuntime` uses symmetry
over the PIDs (its run has no liveness property) and a view that forgets
`job` and `seen` of an idle caller and `kind`, `parent` and `note` of a process
that has not started or is gone: none of them is read before it is written.
`MCRotateCommand` allows one `rotate` at a time beside a command of another kind
(`Bound`): two of them void each other's promises from the first step on. A
rotate for two services runs alone, there is one stray at most, and while there
is one, or once the third account is handed out, one command at a time:
what such a rotate is promised is decided by the stray and the command itself, and an
overlap with another one voids it.
Its view forgets the request and the variables of an idle command, and its
symmetry is over commands and accounts.
`MCNativeRuntime` stops at a third fault (`AtMostTwoFaults`) and uses symmetry
over the sessions. Its runs do not check for deadlock: the process ends.

**Fairness.** Only `backend_stop_hangs` uses it: `BackendRuntime!FairSpec` assumes
weak fairness of the caller's steps, which are local code, file operations and
signals, and none of the process's, which may ignore them. It finds that a stop
may not end, which is also why nothing is said of the daemon's operations
ending: each of them contains a stop. The other runs check safety only.

## Findings

Five runs end in a counterexample to a sentence of the code's comments or docs;
each is quoted in `PROJECT.json`:

1. The shared temporary name makes `writeSecure` not atomic for two writers.
2. `down` removes `runtime.json` of a native backend that is still connecting
   and leaves the process.
3. The daemon does not notice that its own sing-box child has died (zombie).
4. `Stop` does not get to SIGKILL for an own child.
5. Reader and writer of the MASQUE tunnel both reconnect after one loss; the
   second `setBundle` closes the session the first has just installed, whose one
   retry then fails and ends the process.

Some observations are part of the passing models. `defer tun.Close()` in
`runNativeRuntime` runs after `eng.Close()`, which has closed the tunnel already,
and the tunnel's `Close`, unlike the fake tunnel's of the tests, closes its event
channel unconditionally: the second one panics. The model takes that step too
(`CloseAgain`), and `PanicsOnlyWhileClosing` says that a panic is met there or
while the engine closes the tunnel under a loop that is still in it, and nowhere
else. And the snapshot ticker and the event loop run on after `tracker.stop`, so
that the phase `stopped` may be overwritten.

Of the accounts:

* A check that passed on one account marks another one as last good when a control
  connection rotates between the check and `markLastGood`, which loads
  `account.json` again; so does a `register` command (both are excepted in
  `LastGoodPassed`).
* `rotate` takes an empty or an error page for an open service when the service is
  chatgpt, claude (behind a redirect) or netflix, whose probes look for a refusal
  or at the address alone, and never at the status (`errorPage`).
* Settings edited under a remediation: `remediate` judges the results of checks it
  has just resolved by the checks it has resolved at its beginning, and
  `scheduledCheck` by those from before. An account can become the last good one
  without having passed what is demanded now, and the daemon can end for a check
  nobody requires any more (excepted in `ChecksJudgedAsRun`, `LastGoodPassed` and
  `DegradedKeepsRunning`; TLC finds both as soon as an exception is dropped).
* Settings that do not resolve end the daemon at its next check, whatever they
  required before (`DegradedKeepsRunning` excepts them).
* A stop that reports success and leaves a connecting native process (finding 2)
  reaches the upper layers without any error: after a settle timeout the daemon's, or `rotate`'s, next
  attempt registers another account beside it, the old process may take the port
  and answer for the new account, which becomes the last good one, or `rotate`'s
  success, untested; and `rotate` may leave a process where none was (`stray`,
  excepted in `LastGoodPassed`, `BackendHasCurrentAccount`, `SuccessIsTested` and
  `LeavesAsFound`; TLC finds each as soon as the exception is dropped).
* Two operations of the daemon at once pass the check of the cooldown both, and rotate
  both. `register` and `import` without `--force` look for `account.json` before they
  save, and nothing holds the name in between: the account of another
  registration is lost (`store.go:64`).
* The account `rotate` goes back to is in its memory: a killed command has lost it.
  Without a previous account the last rejected one stays. Two overlapping
  commands void every promise, as nothing locks the state directory.

`distinctness=either` also accepts an IPv4 and an IPv6 that are both known, when
their pair is new (`Qualifies`); `docs/warp-rotation-unlock.md:203` speaks of a
new address only. And of the settings:

* A backend named by a flag, a variable or a file has no effect: the defaults
  always name a family and a transport, and `Normalize` derives the backend from
  those (`Selected`). The flag's help (`cmd/settings.go:28`) says "backend to use",
  `internal/settings/load.go:15-16` that a value supplied on the command line
  overrides, and `internal/state/models.go:286` that older settings are upgraded: a file of an
  older version that has a `backend` only is read as the default selection. The
  code and these sentences disagree, so no property says anything of a named
  backend.
* A standalone file is not laid over `settings.json` but over the defaults, as
  `UnmarshalJSON` starts from them: fields it leaves out are reset, while an
  endpoint and whole sections, which have no default, stay (`InForce`).
* Credentials of `settings.json` return to the listener of a standalone file that
  has none as soon as an unrelated variable or flag about the listener is there
  (`Leaking`, excepted in `SourcesInOrder`).
* A listener of a standalone file's access list that has no port of its own takes
  that of `settings.json` or the default as soon as a variable or flag about the
  listener is there, and so does a host: `syncPrimaryAccessFromLegacy` fills both from the
  legacy fields (`open` in `SourcesInOrder`).
* `mode set` on a `settings.json` whose first listener is a tun gives it the host
  `0.0.0.0`, which `Normalize` makes up for every type but that one (`address` in
  `SetChangesOnlyItsPart`).
* A log level or an endpoint that a flag puts right for the command is still wrong
  for the native process it starts, which then refuses its settings
  (`ListenersAgree` excepts it).
* Empty `--proxy-username` and `--proxy-password`, and `--listen-port 0`, do not
  clear what a file says.
* The native process resolves its settings again from the state directory and the
  environment: flags, and a file named by `--settings-file`, choose what is started,
  waited for and probed, and not what it opens (`Unheard`).
* It joins host and port with a colon, so that one bare IPv6 address in its access
  list, which sing-box and the probes take, ends the process (`BareIPv6`). With
  brackets it listens, and then `rotate` and the daemon wait in vain, as they dial
  `[[::]]` (`Bracketed`).

## What is proved

`StateStoreProofs`, for any set of writers, readers, documents and inodes:
`TypeOK` is invariant; with one writer, `TargetWhole` is (no run checks it by
itself: the refinement says more), so are
`SuccessPublishesOwnDocument`, and the module implements `AtomicFile`. The target alone is not inductive: that the target is
whole after a rename needs that the temporary file is whole at that moment,
hence the strengthening ties the writer's step to the inode its descriptor
refers to, to what the temporary name refers to and to the content of both, and
keeps the target's inode apart from the temporary one.

`RotationMemoryProofs`, for any callers, assignments, policies and history size
of at least one: `TypeOK` (with the history's bound), `OneEntryPerAssignment`,
`QualifiedIsNovel`, `ReuseIsRefused`. The strengthening says of every loaded copy
what is said of the file (no duplicates, bounded), and of every assignment that
is not too old that its place in the file is its age (`AgeIsPlace`): a new
entry moves the others one place on as it makes them one older (`NewGoesToFront`), and
the trim cuts exactly those that have become too old (`AgesArePlaces`).

`BackendRuntimeProofs`, for any processes, commands and daemon goroutines:
`TypeOK`, `SingleBackend`, `BackendIsRecorded`, `ClearsOnlyTheDead`,
`SocketTellsTheTruth`, `StopKnowsItsTarget`. That two backends are never alive
does not follow from itself: a launch is safe because the caller has seen no
live backend since its operation began, and the record is right because every
tracker that may still write it writes the same PID. `OrderInv` says both: as
long as no fault has happened that breaks the order of operations, at most one
caller is inside one (`OneAtATime`), what it has seen is what is there
(`CallerKnows`), and a live process is in `runtime.json` or held by the caller
about to save it, with a tracker whose copy agrees (`ProcessKnown`). The type
invariant carries what the process phases say of a tracker's note. The socket
and the targets of a stop are then their own invariants on top of `OrderInv`.
On it too rests `LifecycleIsASlot`, that the module implements `BackendSlot`: as
long as it is orderly the only launches and clears are those of the one caller at
work, who knows that nothing is alive (`CallerSlot`); a process that writes
`runtime.json` writes the PID it finds there; and a death empties the place and leaves the record (`HolderEnds`). The other
steps are stutters, and a step with an order-breaking fault ends the promise.

`DaemonProofs`, for any connections, accounts, settings, edits and number of
attempts: `TypeOK`, `ChecksJudgedAsRun`, `LastGoodPassed`,
`FailureRestores`, `BackendHasCurrentAccount`, and the action property
`DegradedKeepsRunning`. `ControlInv` says that without an overlap one worker at
most is in an operation; `CopyInv`, that every copy in use is the
settings as long as no edit falls into an operation, and that even with one
`m.settings` is what a result at hand was found under, unless operations
overlap; `NoStrays`, that until a stop or a start has left a process to itself the one that
runs is the one `runtime.json` names; `AccountInv` ties backend and account at each
point of an operation;
`PassedInv`, that an account a worker is about to mark has done what is demanded,
which needs the copies to agree; `IntactInv`, that without a fault only a
restore separates the backend from `account.json`. Each is needed because a
check and what is done about its result are many steps apart. That a worker gets
to judge only by running the checks (`JudgesWhatItRan`), and that the attempts
leave the copies alone (`AttemptKeeps`, `RemediationKeeps`), are lemmas.

`RotateCommandProofs`, for any number of commands at once, any accounts, regions and
requests: `TypeOK`, `FailureGoesBack`, `SuccessIsTested`, `LeavesAsFound`. What a
command leaves is decided many steps after what it knows it by, and any other
command may come between. `Alone` says that a command nobody has disturbed is the
only one under way; the rest of its invariant says what such a command knows at
each point: that the account is the one it found or a new one that keeps its
MASQUE key, that the backend is none or that of the account, and that every
service probed so far is open to it as long as all answers were good (`Tested`);
where the backend has been stopped (`Stopped`), and that nothing runs beside what
`runtime.json` names unless a stop has left it there (`Tidied`); why a backend is started or
retired (`Judged`); and, whoever interferes, that the accounts it holds have
been handed out (`Remembered`) and that it is inside its own code (`Inside`).
That a good answer means an open service is the lemma `AvailableIsOpen` about
`UnlockProbe`.

`NativeRuntimeProofs`, for any readers and writers of the tunnel, any number of
attempts and every channel that `CapAssumption` admits: all seven invariants of
`tunnel_reconnect`. `IInv` adds to the type where the main goroutine is in
the tunnel's code at each stage, that there is a bundle and an open channel
until the shutdown, and that an install has a session in its hands; on it
rest `PanicsOnlyWhileClosing`, `NoHalfTunnel` and `NoSessionLeaks`. Three
invariants need their own strengthening. `StartFits` counts the events of a start
attempt by attempt: two for each that fails and three for the last, which is
where `2 * MaxAttempts + 1` comes from. `ErrorIsCurrent` reads the tracker's flag
and the channel as one sequence: if its last word is an error, whoever said it is
still at it. `OneLoss` has two parts: before the loss everything in use works and
nobody reconnects; after it every session dialled works, the one about to be
closed does not, and the tunnel's works as soon as one reconnect has installed
it. It is the last part that a second reconnect breaks (`tunnel_session_loss`).

`SettingsProofs`, for any documents, variables, flags, arguments and accounts that
`SettingsAssumption` and `AssignedAssumption` admit, access lists of any length
among them: `TypeOK`, `SourcesInOrder`, `OthersUntouched`, `SavedIsFound`,
`SetChangesOnlyItsPart`, `ListenersAgree`. The properties relate what a command has
to sources it read steps earlier, of which `settings.json` may have been written
over since; `CommandInv` keeps the relation: a command that has resolved has
computed `Layered` of the files, variables and flags it was given, and one that has
saved has written `Marshal` of what it made of the file it read. The rest is about
the operators, and `SettingsLemmas` has it:

* what `Normalize` returns is `IsNormal`, and `Normalize` leaves that as it is
  (`NormalFixed`), so that the many normalisations on the way of a value are one;
* a layer is followed field by field, in the legacy fields and in the first entry of
  the access list together (`StageStates`, `StageAmong`): a field that the layer
  states is in both, one that it empties is in neither, any other is as beneath;
* `Marshal`, the file and `Layered` without other sources return valid settings, but
  for empty sections (`FoundAgain`): what `Marshal` leaves out is what `Normalize`
  makes again, which is why `IsNormal` has to say what the selection, the aliases
  and a list of one entry are.

On these rest the round trip and the set commands; `SourcesInOrder` needs the three
layers in turn; `ListenersAgree` compares the first proxy of the list with the
legacy fields, and the settings the native process resolves without flags with
those of the command (`ServiceResolves`).

The assumptions are the named `ASSUME`s of the modules: non-empty or disjoint
sets of actors, a positive history size, at least one attempt, markers that are
not members of the sets they stand outside of. TLC evaluates them in every run.

## What is only model-checked, and what is not modelled

Only model-checked: the sentences the violation runs refute, one of them
(`StopTerminates`) a liveness property. Every other
property of a run is a theorem.

Not modelled: `up --foreground`; the diagnostics and the phase in `runtime.json`; the
tunnel's statistics and the length of its back-offs; the netstack and the
relaying in the proxy front ends; power loss without a sync; PIDs that are reused; and everything that is
network, cryptography or layout: the WARP client's requests, the capability,
health and endpoint probes (their results are inputs of `Daemon`), keys and
constants of the sing-box document, the status output, the deployment files.

## Plan

Done: the state store, the rotation memory, the backend lifecycle, the daemon, the
account commands with `rotate`, the native process with its tunnel, the settings and
what is rendered of them, each with its proofs. What is left, the most important
first:

1. The phases that `BackendRuntime` gives a native process, as an abstract
   specification that `NativeRuntime` implements.
2. The reader of `runtime.json` in `status`, against the phases of a native process.
