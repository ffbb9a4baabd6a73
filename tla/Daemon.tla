-------------------------------- MODULE Daemon --------------------------------
(***************************************************************************)
(* The daemon manager of cmd/daemon.go: the check loop, the control        *)
(* connections that run the same operations at the same time, the          *)
(* remediation of an incident by rotating the account, and the accounts    *)
(* it leaves in account.json and last-good-account.json.                   *)
(*                                                                         *)
(* A worker is the goroutine of daemon run ("the loop") or that of a       *)
(* control connection.  The manager's mutex only protects single fields,   *)
(* so the steps of two workers interleave freely.  What their stops and    *)
(* starts do to the backend, one step each here, is ManagedBackend's: a    *)
(* stop that reports success may leave a process running.  Probes reach    *)
(* whichever process has the port.  Probes, registrations and the novelty  *)
(* of an assignment have every outcome the code handles.                   *)
(*                                                                         *)
(* Every operation resolves the settings again, some of them several       *)
(* times, and keeps copies; they are edited while it runs.  The results of *)
(* the checks and the checks they are judged by are matched by position.   *)
(*                                                                         *)
(* Abstracted: saving an account does not fail (StateStore); the cooldown  *)
(* is running or not; an account is registered before the daemon starts.   *)
(***************************************************************************)
EXTENDS Naturals, FiniteSets, Sequences, ManagedBackend

CONSTANTS Loop,         \* the goroutine of daemon run
          Connections,  \* goroutines of control connections
          Accounts,     \* accounts the WARP service hands out, each once
          First,        \* the account registered before the daemon starts
          Configs,      \* settings: the daemon's caps and rotation sections
          Invalid,      \* settings that do not resolve
          Edits         \* what the operator makes of which settings

ASSUME DaemonAssumption ==
  /\ Loop \notin Connections
  /\ First \in Accounts
  /\ NoAccount \notin Accounts
  /\ Invalid \notin Configs
  /\ Edits \subseteq (Configs \cup {Invalid}) \X (Configs \cup {Invalid})
  /\ Configs \subseteq
       [enabled : BOOLEAN, attempts : Nat \ {0}, cooldown : BOOLEAN,
        restore : BOOLEAN,
        checks : Seq([required : BOOLEAN, rotate : BOOLEAN])]

VARIABLES
  sett,      \* the settings, as they would resolve now
  current,   \* the settings the daemon has resolved last (m.settings)
  daemon,    \* the daemon process: starting, running, down, or failed (exit code)
  account,   \* account.json
  lastGood,  \* last-good-account.json
  cooldown,  \* cooldownUntil lies in the future
  pc,        \* where each worker is
  job,       \* its operation, rotation attempt, results and copies
  used,      \* auxiliary: accounts handed out
  passed,    \* auxiliary: accounts whose backend did what was demanded of it
  faults     \* auxiliary: what has happened that the code is not written for

disk == <<account, lastGood>>
work == <<pc, job>>
vars == <<sett, current, daemon, disk, managed, cooldown, work, used, passed, faults>>

Workers == {Loop} \cup Connections
CheckKinds == [required : BOOLEAN, rotate : BOOLEAN]
Faults == {"overlap", "command", "stopFailed", "interrupted", "edited", "stray"}
Operations == {"check", "rotate", "reload"}
Remediation == {"rotateStop", "register", "remember", "rotateStart", "settle",
                "recheck", "mark", "restore", "restoreStop", "restoreStart",
                "restoreCheck", "cool"}
Points == {"idle", "ensure", "ensureStart", "check", "judge", "remediate",
           "finalCheck", "finalJudge", "reloadStop", "reloadStart"} \cup Remediation

-------------------------------------------------------------------------------
(* checkFailurePolicy, over the checks that count as failing: results are *)
(* matched with checks by position, and what has no counterpart is left   *)
(* out.                                                                    *)

\* F: where the results say a check has failed.
Failing(checks, F) == {checks[i] : i \in F \cap DOMAIN checks}

ActiveFailed(F) == \E k \in F : k.required \/ k.rotate
RequiredFailed(F) == \E k \in F : k.required
AnyRotate(F) == \E k \in F : k.rotate

\* Some check can fail a backend.
Demanding(checks) == ActiveFailed(Failing(checks, DOMAIN checks))

-------------------------------------------------------------------------------

\* What a worker's copy of the settings is before it takes one.
Unread == [enabled |-> FALSE, attempts |-> 1, cooldown |-> FALSE,
           restore |-> FALSE, checks |-> <<>>]

\* ran, failed: the checks that were run last, and where they failed; own: the
\* checks scheduledCheck judges by; plan: the settings remediate goes by.
Fresh(o) == [op |-> o, attempt |-> 1, ran |-> <<>>, failed |-> {},
             own |-> <<>>, plan |-> Unread]

Init ==
  /\ sett \in Configs
  /\ current = Unread
  /\ daemon = "down"
  /\ account = First
  /\ lastGood = NoAccount
  /\ NoBackend
  /\ cooldown = FALSE
  /\ pc = [w \in Workers |-> "idle"]
  /\ job = [w \in Workers |-> Fresh("check")]
  /\ used = {First}
  /\ passed = {}
  /\ faults = {}

Goto(w, l) == pc' = [pc EXCEPT ![w] = l] /\ UNCHANGED job
Return(w) ==
  /\ pc' = [pc EXCEPT ![w] = "idle"]
  /\ job' = [job EXCEPT ![w] = Fresh("check")]

\* The loop's operation ends without error: the daemon serves connections
\* from its first check on.
Succeed(w) ==
  /\ Return(w)
  /\ daemon' = IF w = Loop THEN "running" ELSE daemon
  /\ UNCHANGED cooldown

Up == daemon \in {"starting", "running"}

\* The daemon process ends, and with it every worker and the cooldown.  That
\* its context kills the backends it has started is left to BackendMoves.
ProcessEnds(how) ==
  /\ daemon' = how
  /\ pc' = [w \in Workers |-> "idle"]
  /\ job' = [w \in Workers |-> Fresh("check")]
  /\ cooldown' = FALSE

\* An error ends the daemon when it is the loop's; a connection reports it.
Fail(w) ==
  IF w = Loop THEN ProcessEnds("failed")
  ELSE Return(w) /\ UNCHANGED <<daemon, cooldown>>

-------------------------------------------------------------------------------
(* The environment. *)

\* resolveSettings, and setSettings.
Resolve == sett # Invalid /\ current' = sett
ResolveFails == sett = Invalid /\ UNCHANGED current

\* The operator edits settings.json, or a set command does.  "edited": under
\* a running operation.
EditSettings(c) ==
  /\ <<sett, c>> \in Edits
  /\ sett' = c
  /\ faults' = IF \E w \in Workers : pc[w] # "idle"
               THEN faults \cup {"edited"} ELSE faults
  /\ UNCHANGED <<current, daemon, disk, managed, cooldown, work, used, passed>>

\* daemon run, by hand or by the container's restart policy.
StartDaemon ==
  /\ ~Up
  /\ Resolve
  /\ daemon' = "starting"
  /\ Goto(Loop, "ensure")
  /\ UNCHANGED <<sett, disk, managed, cooldown, used, passed, faults>>

\* SIGINT or SIGTERM, or a crash of the daemon.  "interrupted": the account
\* has been restored, the backend not.
StopDaemon ==
  /\ Up
  /\ ProcessEnds("down")
  /\ faults' = IF \E w \in Workers : pc[w] = "restoreStop"
               THEN faults \cup {"interrupted"} ELSE faults
  /\ UNCHANGED <<sett, current, disk, managed, used, passed>>

\* handleControlConn, and the loop's ticker.
Begin(w, o) ==
  /\ daemon = "running"
  /\ pc[w] = "idle"
  /\ w = Loop => o = "check"
  /\ job' = [job EXCEPT ![w] = Fresh(o)]
  /\ pc' = [pc EXCEPT ![w] = CASE o = "check"  -> "ensure"
                                [] o = "rotate" -> "remediate"
                                [] o = "reload" -> "reloadStop"]
  /\ faults' = IF \E v \in Workers : pc[v] # "idle"
               THEN faults \cup {"overlap"} ELSE faults
  /\ UNCHANGED <<sett, current, daemon, disk, managed, cooldown, used, passed>>

\* What a backend does by itself: BackendMoves, of ManagedBackend.
Backend ==
  /\ BackendMoves
  /\ UNCHANGED <<sett, current, daemon, disk, cooldown, work, used, passed, faults>>

CooldownEnds ==
  /\ cooldown
  /\ cooldown' = FALSE
  /\ UNCHANGED <<sett, current, daemon, disk, managed, work, used, passed, faults>>

\* The WARP service hands out every account once, in an order of no consequence.
Available ==
  IF Accounts \subseteq used THEN {} ELSE {CHOOSE a \in Accounts : a \notin used}

\* The register and import commands replace the account under the daemon.
RegisterCommand(a) ==
  /\ a \in Available
  /\ used' = used \cup {a}
  /\ account' = a
  /\ faults' = faults \cup {"command"}
  /\ UNCHANGED <<sett, current, daemon, lastGood, managed, cooldown, work, passed>>

-------------------------------------------------------------------------------
(* stopBackendRuntime and startBackendRuntime, as the workers use them. *)

Stops ==
  /\ StopSucceeds
  /\ faults' = faults \cup Strayed

StopsNot ==
  /\ StopFails
  /\ faults' = faults \cup {"stopFailed"}

Starts ==
  /\ StartSucceeds(account, active)
  /\ faults' = faults \cup Strayed

StartsNot ==
  /\ StartFails(active)
  /\ faults' = faults \cup Strayed

-------------------------------------------------------------------------------
(* scheduledCheck. *)

EnsureBackendRunning(w) ==
  /\ pc[w] = "ensure"
  /\ Goto(w, IF active THEN "check" ELSE "ensureStart")
  /\ UNCHANGED <<sett, current, daemon, disk, managed, cooldown, used, passed, faults>>

EnsureStart(w) ==
  /\ pc[w] = "ensureStart"
  /\ \/ Resolve /\ Starts /\ Goto(w, "check") /\ UNCHANGED <<daemon, cooldown>>
     \/ Resolve /\ StartsNot /\ Fail(w)
     \/ ResolveFails /\ Fail(w) /\ UNCHANGED <<managed, faults>>
  /\ UNCHANGED <<sett, disk, used, passed>>

\* Where the checks may fail.
Results == IF sett = Invalid THEN {} ELSE SUBSET DOMAIN sett.checks

\* The probes; with no process behind the port all of them fail.  When nothing
\* is demanded, any account will do.
ProbeChecks(F) ==
  /\ Running = {} => F = DOMAIN sett.checks
  /\ passed' \in IF ActiveFailed(Failing(sett.checks, F)) THEN {passed}
                 ELSE {passed \cup {a} : a \in IF Demanding(sett.checks)
                                              THEN Running ELSE {account}}

\* Mutant: the settings that name the checks are not kept.
RunChecksAside(F) == sett # Invalid /\ UNCHANGED current /\ ProbeChecks(F)

RunChecks(F) == Resolve /\ ProbeChecks(F)

RunAndJudge(w, next) ==
  \/ /\ \E F \in Results :
          /\ RunChecks(F)
          /\ job' = [job EXCEPT ![w].ran = sett.checks, ![w].failed = F]
     /\ pc' = [pc EXCEPT ![w] = next]
     /\ UNCHANGED <<daemon, cooldown>>
  \/ ResolveFails /\ Fail(w) /\ UNCHANGED passed

Check(w) ==
  /\ pc[w] = "check"
  /\ RunAndJudge(w, "judge")
  /\ UNCHANGED <<sett, disk, managed, used, faults>>

\* markLastGood saves what account.json holds now.
MarkLastGood == lastGood' = account

\* scheduledCheck reads m.settings for the checks to judge by, without a lock.
Found(w) == Failing(current.checks, job[w].failed)

JudgePasses(w) ==
  /\ current.checks = <<>> \/ ~ActiveFailed(Found(w))
  /\ Return(w)
  /\ daemon' = IF w = Loop THEN "running" ELSE daemon
  /\ IF current.checks = <<>>
     THEN UNCHANGED <<lastGood, cooldown>>
     ELSE MarkLastGood /\ cooldown' = FALSE

JudgeRemediates(w) ==
  /\ ActiveFailed(Found(w))
  /\ AnyRotate(Found(w))
  /\ ~cooldown
  /\ pc' = [pc EXCEPT ![w] = "remediate"]
  /\ job' = [job EXCEPT ![w] = [Fresh("check") EXCEPT !.own = current.checks]]
  /\ UNCHANGED <<daemon, cooldown, lastGood>>

JudgeGivesUp(w) ==
  /\ ActiveFailed(Found(w))
  /\ ~AnyRotate(Found(w)) \/ cooldown
  /\ IF RequiredFailed(Found(w)) THEN Fail(w) ELSE Succeed(w)
  /\ UNCHANGED lastGood

Judge(w) ==
  /\ pc[w] = "judge"
  /\ JudgePasses(w) \/ JudgeRemediates(w) \/ JudgeGivesUp(w)
  /\ UNCHANGED <<sett, current, account, managed, used, passed, faults>>

-------------------------------------------------------------------------------
(* remediate.  force is TRUE exactly for the rotate operation. *)

\* What follows a remediation, whatever its result: the answer to the client,
\* or scheduledCheck's second look, by the copy it has.
AfterRemediation(w) ==
  IF job[w].op = "rotate"
  THEN Return(w)
  ELSE /\ pc' = [pc EXCEPT ![w] = "finalCheck"]
       /\ job' = [job EXCEPT ![w] = [Fresh("check") EXCEPT !.own = job[w].own]]

Remediate(w) ==
  /\ pc[w] = "remediate"
  /\ \/ ResolveFails /\ AfterRemediation(w)
     \/ /\ Resolve
        /\ IF job[w].op # "rotate" /\ ~sett.enabled
           THEN AfterRemediation(w)
           ELSE /\ pc' = [pc EXCEPT ![w] = "rotateStop"]
                /\ job' = [job EXCEPT ![w].attempt = 1, ![w].plan = sett]
  /\ UNCHANGED <<sett, daemon, disk, managed, cooldown, used, passed, faults>>

\* Mutant: one attempt too many.
NextAttemptOneMore(w) ==
  IF job[w].attempt <= job[w].plan.attempts
  THEN /\ job' = [job EXCEPT ![w].attempt = @ + 1]
       /\ pc' = [pc EXCEPT ![w] = "rotateStop"]
  ELSE Goto(w, IF job[w].plan.restore THEN "restore" ELSE "cool")

\* When the attempts are used up, the last good account is restored if asked.
NextAttempt(w) ==
  IF job[w].attempt < job[w].plan.attempts
  THEN /\ job' = [job EXCEPT ![w].attempt = @ + 1]
       /\ pc' = [pc EXCEPT ![w] = "rotateStop"]
  ELSE Goto(w, IF job[w].plan.restore THEN "restore" ELSE "cool")

\* Mutant: the account is replaced under the running backend.
RotateRunning(w) ==
  /\ pc[w] = "rotateStop"
  /\ Resolve
  /\ Goto(w, "register")
  /\ UNCHANGED <<sett, daemon, disk, managed, cooldown, used, passed, faults>>

\* rotateOnce: stop, register, remember the assignment, start.
RotateStop(w) ==
  /\ pc[w] = "rotateStop"
  /\ \/ Resolve /\ Stops /\ Goto(w, "register")
     \/ Resolve /\ StopsNot /\ NextAttempt(w)
     \/ ResolveFails /\ NextAttempt(w) /\ UNCHANGED <<managed, faults>>
  /\ UNCHANGED <<sett, daemon, disk, cooldown, used, passed>>

Register(w) ==
  /\ pc[w] = "register"
  /\ \/ \E a \in Available :
          /\ used' = used \cup {a}
          /\ account' = a
          /\ Goto(w, "remember")
     \/ NextAttempt(w) /\ UNCHANGED <<used, account>>
  /\ UNCHANGED <<sett, current, daemon, lastGood, managed, cooldown, passed, faults>>

\* RotationMemory says when an assignment qualifies.
RememberRotationAccount(w) ==
  /\ pc[w] = "remember"
  /\ \/ Goto(w, "rotateStart")
     \/ NextAttempt(w)
  /\ UNCHANGED <<sett, current, daemon, disk, managed, cooldown, used, passed, faults>>

RotateStart(w) ==
  /\ pc[w] = "rotateStart"
  /\ \/ Starts /\ Goto(w, "settle")
     \/ StartsNot /\ NextAttempt(w)
  /\ UNCHANGED <<sett, current, daemon, disk, cooldown, used, passed>>

\* waitForPrimaryAccess; without checks, to be reachable is enough.
Settle(w) ==
  /\ pc[w] = "settle"
  /\ \/ /\ NextAttempt(w)
        /\ UNCHANGED <<lastGood, cooldown, passed>>
     \/ \E a \in Running :
          /\ job[w].plan.checks = <<>>
          /\ MarkLastGood
          /\ passed' = passed \cup {a}
          /\ cooldown' = FALSE
          /\ AfterRemediation(w)
     \/ /\ Running # {}
        /\ job[w].plan.checks # <<>>
        /\ Goto(w, "recheck")
        /\ UNCHANGED <<lastGood, cooldown, passed>>
  /\ UNCHANGED <<sett, current, daemon, account, managed, used, faults>>

\* Mutant: a rotation is good because it has been checked.
RecheckIgnored(w) ==
  /\ pc[w] = "recheck"
  /\ \E F \in Results : RunChecks(F)
  /\ Goto(w, "mark")
  /\ UNCHANGED <<sett, daemon, disk, managed, cooldown, used, faults>>

\* runChecks, and what remediate makes of it.
Recheck(w) ==
  /\ pc[w] = "recheck"
  /\ \/ \E F \in Results :
          /\ RunChecks(F)
          /\ IF ActiveFailed(Failing(job[w].plan.checks, F))
             THEN NextAttempt(w)
             ELSE Goto(w, "mark")
     \/ ResolveFails /\ NextAttempt(w) /\ UNCHANGED passed
  /\ UNCHANGED <<sett, daemon, disk, managed, cooldown, used, faults>>

MarkRotated(w) ==
  /\ pc[w] = "mark"
  /\ MarkLastGood
  /\ cooldown' = FALSE
  /\ AfterRemediation(w)
  /\ UNCHANGED <<sett, current, daemon, account, managed, used, passed, faults>>

\* Mutant: the backend is restarted on the account of the last attempt.
RestoreBackendOnly(w) ==
  /\ pc[w] = "restore"
  /\ Goto(w, IF lastGood = NoAccount THEN "cool" ELSE "restoreStop")
  /\ UNCHANGED <<sett, current, daemon, disk, managed, cooldown, used, passed, faults>>

\* restoreLastGood: the account first, then the backend.
Restore(w) ==
  /\ pc[w] = "restore"
  /\ IF lastGood = NoAccount
     THEN Goto(w, "cool") /\ UNCHANGED account
     ELSE Goto(w, "restoreStop") /\ account' = lastGood
  /\ UNCHANGED <<sett, current, daemon, lastGood, managed, cooldown, used, passed, faults>>

RestoreStop(w) ==
  /\ pc[w] = "restoreStop"
  /\ \/ Stops /\ Goto(w, "restoreStart")
     \/ StopsNot /\ Goto(w, "cool")
  /\ UNCHANGED <<sett, current, daemon, disk, cooldown, used, passed>>

RestoreStart(w) ==
  /\ pc[w] = "restoreStart"
  /\ \/ Resolve /\ Starts /\ Goto(w, "restoreCheck")
     \/ Resolve /\ StartsNot /\ Goto(w, "cool")
     \/ ResolveFails /\ Goto(w, "cool") /\ UNCHANGED <<managed, faults>>
  /\ UNCHANGED <<sett, daemon, disk, cooldown, used, passed>>

\* The results are only shown.
RestoreCheck(w) ==
  /\ pc[w] = "restoreCheck"
  /\ \/ \E F \in Results : RunChecks(F)
     \/ ResolveFails /\ UNCHANGED passed
  /\ Goto(w, "cool")
  /\ UNCHANGED <<sett, daemon, disk, managed, cooldown, used, faults>>

Cool(w) ==
  /\ pc[w] = "cool"
  /\ cooldown' = job[w].plan.cooldown
  /\ AfterRemediation(w)
  /\ UNCHANGED <<sett, current, daemon, disk, managed, used, passed, faults>>

\* scheduledCheck looks again after the remediation.
FinalCheck(w) ==
  /\ pc[w] = "finalCheck"
  /\ RunAndJudge(w, "finalJudge")
  /\ UNCHANGED <<sett, disk, managed, used, faults>>

\* Mutant: any check that counts ends the daemon, not only a required one.
FinalJudgeStrictly(w) ==
  /\ pc[w] = "finalJudge"
  /\ IF ~ActiveFailed(Failing(job[w].own, job[w].failed))
     THEN MarkLastGood /\ Succeed(w)
     ELSE Fail(w) /\ UNCHANGED lastGood
  /\ UNCHANGED <<sett, current, account, managed, used, passed, faults>>

FinalJudge(w) ==
  /\ pc[w] = "finalJudge"
  /\ LET found == Failing(job[w].own, job[w].failed)
     IN IF ~ActiveFailed(found)
        THEN MarkLastGood /\ Succeed(w)
        ELSE /\ IF RequiredFailed(found) THEN Fail(w) ELSE Succeed(w)
             /\ UNCHANGED lastGood
  /\ UNCHANGED <<sett, current, account, managed, used, passed, faults>>

-------------------------------------------------------------------------------
(* reload. *)

ReloadStop(w) ==
  /\ pc[w] = "reloadStop"
  /\ \/ Resolve /\ Stops /\ Goto(w, "reloadStart")
     \/ Resolve /\ StopsNot /\ Return(w)
     \/ ResolveFails /\ Return(w) /\ UNCHANGED <<managed, faults>>
  /\ UNCHANGED <<sett, daemon, disk, cooldown, used, passed>>

ReloadStart(w) ==
  /\ pc[w] = "reloadStart"
  /\ Starts \/ StartsNot
  /\ Return(w)
  /\ UNCHANGED <<sett, current, daemon, disk, cooldown, used, passed>>

-------------------------------------------------------------------------------
WorkerNext(w) ==
  \/ EnsureBackendRunning(w) \/ EnsureStart(w)
  \/ Check(w) \/ Judge(w)
  \/ Remediate(w)
  \/ RotateStop(w) \/ Register(w) \/ RememberRotationAccount(w) \/ RotateStart(w)
  \/ Settle(w) \/ Recheck(w) \/ MarkRotated(w)
  \/ Restore(w) \/ RestoreStop(w) \/ RestoreStart(w) \/ RestoreCheck(w)
  \/ Cool(w)
  \/ FinalCheck(w) \/ FinalJudge(w)
  \/ ReloadStop(w) \/ ReloadStart(w)

Next ==
  \/ StartDaemon \/ StopDaemon
  \/ Backend \/ CooldownEnds
  \/ \E c \in Configs \cup {Invalid} : EditSettings(c)
  \/ \E a \in Accounts : RegisterCommand(a)
  \/ \E w \in Workers : WorkerNext(w) \/ \E o \in Operations : Begin(w, o)

Spec == Init /\ [][Next]_vars

-------------------------------------------------------------------------------
(* Properties. *)

Jobs ==
  {j \in [op : Operations, attempt : Nat, ran : Seq(CheckKinds),
          failed : SUBSET Nat, own : Seq(CheckKinds),
          plan : Configs \cup {Unread}] :
     j.attempt \in 1..j.plan.attempts /\ j.failed \subseteq DOMAIN j.ran}

TypeOK ==
  /\ sett \in Configs \cup {Invalid}
  /\ current \in Configs \cup {Unread}
  /\ daemon \in {"down", "failed", "starting", "running"}
  /\ account \in Accounts
  /\ lastGood \in Accounts \cup {NoAccount}
  /\ backend \in Accounts \cup {NoAccount}
  /\ active \in BOOLEAN
  /\ strays \in SUBSET Accounts
  /\ cooldown \in BOOLEAN
  /\ pc \in [Workers -> Points]
  /\ job \in [Workers -> Jobs]
  /\ used \in SUBSET Accounts
  /\ passed \in SUBSET Accounts
  /\ faults \in SUBSET Faults

\* The account restoreLastGood goes back to is one whose backend has done what
\* was demanded of it: markLastGood saves what was checked, although it reads
\* account.json again.  Settings that change between operations do no harm.
LastGoodPassed ==
  faults \subseteq {"stopFailed", "interrupted"} => lastGood \in passed \cup {NoAccount}

\* Results are judged by the checks that were run, although runChecks resolves
\* the settings anew: at first even if they change meanwhile, unless another
\* operation resolves them as well; after a remediation if they have not changed.
ChecksJudgedAsRun ==
  \A w \in Workers :
    /\ pc[w] = "judge" /\ ~({"overlap", "edited"} \subseteq faults)
         => current.checks = job[w].ran
    /\ pc[w] = "finalJudge" /\ "edited" \notin faults
         => job[w].own = job[w].ran

\* Between two operations no process runs but on the account that account.json
\* holds, whatever rotations and restores have failed before, and whatever has
\* become of the settings meanwhile; unless a stop or a start has left a process
\* to itself.
BackendHasCurrentAccount ==
  faults \subseteq {"edited"} /\ (\A w \in Workers : pc[w] = "idle")
    => Running \subseteq {account}

\* With restore_last_good, a remediation that has failed leaves the last good
\* account behind, not the one it registered last.
FailureRestores ==
  faults \subseteq {"stopFailed", "interrupted", "edited", "stray"} => \A w \in Workers :
    pc[w] = "cool" /\ job[w].plan.restore /\ lastGood # NoAccount
      => account = lastGood

\* docs/warp-rotation-unlock.md:240: without required checks the daemon keeps
\* running, as long as the settings resolve and a backend can be started.
DegradedKeepsRunning ==
  [][daemon # "failed" /\ daemon' = "failed" /\ sett # Invalid /\ "edited" \notin faults
       => RequiredFailed(Failing(sett.checks, DOMAIN sett.checks))
            \/ pc[Loop] = "ensureStart"]_vars

===============================================================================
