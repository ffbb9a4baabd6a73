----------------------------- MODULE DaemonProofs -----------------------------
(***************************************************************************)
(* Proofs about Daemon for every set of control connections, every supply  *)
(* of accounts, any settings documents and edits of them, and any number   *)
(* of attempts.                                                            *)
(***************************************************************************)
EXTENDS Daemon, TLAPS

-------------------------------------------------------------------------------
(* Types. *)

\* A settings document allows an attempt, and has a list of checks.
LEMMA SettingsType ==
  /\ \A c \in Configs \cup {Unread} :
       /\ c.attempts \in Nat \ {0}
       /\ c.cooldown \in BOOLEAN
       /\ c.checks \in Seq(CheckKinds)
       /\ 1 \in 1..c.attempts
  /\ \A o \in Operations : Fresh(o) \in Jobs
<1>1. \A c \in Configs : c \in [enabled : BOOLEAN, attempts : Nat \ {0},
                               cooldown : BOOLEAN, restore : BOOLEAN,
                               checks : Seq(CheckKinds)]
  BY DaemonAssumption DEF CheckKinds
<1>2. <<>> \in Seq(CheckKinds)
  OBVIOUS
<1>3. Unread \in [enabled : BOOLEAN, attempts : Nat \ {0}, cooldown : BOOLEAN,
                 restore : BOOLEAN, checks : Seq(CheckKinds)]
  BY <1>2 DEF Unread
<1>4. \A c \in Configs \cup {Unread} :
        /\ c.attempts \in Nat \ {0}
        /\ c.cooldown \in BOOLEAN
        /\ c.checks \in Seq(CheckKinds)
        /\ 1 \in 1..c.attempts
  BY <1>1, <1>3
<1>5. ASSUME NEW o \in Operations PROVE Fresh(o) \in Jobs
  <2>1. Fresh(o) \in [op : Operations, attempt : Nat, ran : Seq(CheckKinds),
                      failed : SUBSET Nat, own : Seq(CheckKinds),
                      plan : Configs \cup {Unread}]
    BY <1>2 DEF Fresh
  <2>2. /\ Fresh(o).attempt \in 1..Fresh(o).plan.attempts
        /\ Fresh(o).failed \subseteq DOMAIN Fresh(o).ran
    BY <1>4 DEF Fresh
  <2>3. QED
    BY <2>1, <2>2 DEF Jobs
<1>6. QED
  BY <1>4, <1>5

\* Whatever happens to the backends keeps their types.
Backends == /\ backend \in Accounts \cup {NoAccount}
            /\ active \in BOOLEAN
            /\ strays \in SUBSET Accounts

LEMMA ManagedType ==
  ASSUME TypeOK
  PROVE  /\ Stops \/ StopsNot \/ Starts \/ StartsNot
              => Backends' /\ faults' \in SUBSET Faults
         /\ BackendMoves => Backends'
<1> USE DEF TypeOK, Backends, Running, managed
<1>0. Strayed \subseteq Faults /\ "stopFailed" \in Faults
  BY DEF Strayed, Faults
<1>1. Stops => Backends' /\ faults' \in SUBSET Faults
  BY <1>0 DEF Stops, StopSucceeds
<1>2. StopsNot => Backends' /\ faults' \in SUBSET Faults
  BY <1>0 DEF StopsNot, StopFails
<1>3. Starts => Backends' /\ faults' \in SUBSET Faults
  BY <1>0 DEF Starts, StartSucceeds
<1>4. StartsNot => Backends' /\ faults' \in SUBSET Faults
  BY <1>0 DEF StartsNot, StartFails
<1>5. BackendMoves => Backends'
  BY DEF BackendMoves, BackendConnects, BackendDies, StrayMoves
<1>6. QED
  BY <1>1, <1>2, <1>3, <1>4, <1>5

LEMMA TypeInit == Init => TypeOK
<1> SUFFICES ASSUME Init PROVE TypeOK
  OBVIOUS
<1>1. job \in [Workers -> Jobs]
  BY SettingsType DEF Init, Operations
<1>2. pc \in [Workers -> Points]
  BY DEF Init, Points
<1>3. QED
  BY <1>1, <1>2, DaemonAssumption DEF Init, NoBackend, TypeOK

\* A job with another attempt, results, copy or plan is a job.
LEMMA JobType ==
  ASSUME NEW j \in Jobs
  PROVE  /\ j.attempt < j.plan.attempts => [j EXCEPT !.attempt = @ + 1] \in Jobs
         /\ \A c \in Seq(CheckKinds), F \in SUBSET Nat :
              F \subseteq DOMAIN c => [j EXCEPT !.ran = c, !.failed = F] \in Jobs
         /\ \A c \in Seq(CheckKinds) : [j EXCEPT !.own = c] \in Jobs
         /\ \A c \in Configs : [j EXCEPT !.attempt = 1, !.plan = c] \in Jobs
<1>1. /\ j \in [op : Operations, attempt : Nat, ran : Seq(CheckKinds),
                failed : SUBSET Nat, own : Seq(CheckKinds),
                plan : Configs \cup {Unread}]
      /\ j.attempt \in 1..j.plan.attempts
      /\ j.failed \subseteq DOMAIN j.ran
  BY DEF Jobs
<1>2. ASSUME j.attempt < j.plan.attempts
      PROVE  [j EXCEPT !.attempt = @ + 1] \in Jobs
  <2>1. j.plan.attempts \in Nat
    BY <1>1, SettingsType
  <2>2. j.attempt + 1 \in 1..j.plan.attempts
    BY <1>1, <1>2, <2>1
  <2>3. QED
    BY <1>1, <2>2 DEF Jobs
<1>3. ASSUME NEW c \in Seq(CheckKinds), NEW F \in SUBSET Nat, F \subseteq DOMAIN c
      PROVE  [j EXCEPT !.ran = c, !.failed = F] \in Jobs
  BY <1>1, <1>3 DEF Jobs
<1>4. ASSUME NEW c \in Seq(CheckKinds)
      PROVE  [j EXCEPT !.own = c] \in Jobs
  BY <1>1 DEF Jobs
<1>5. ASSUME NEW c \in Configs
      PROVE  [j EXCEPT !.attempt = 1, !.plan = c] \in Jobs
  BY <1>1, SettingsType DEF Jobs
<1>6. QED
  BY <1>2, <1>3, <1>4, <1>5

\* What a check may report is among the positions of the checks it ran.
LEMMA ResultsType ==
  ASSUME TypeOK, NEW F \in Results
  PROVE  /\ sett \in Configs
         /\ sett.checks \in Seq(CheckKinds)
         /\ F \in SUBSET Nat
         /\ F \subseteq DOMAIN sett.checks
<1>1. sett # Invalid
  BY DEF Results
<1>2. sett \in Configs /\ F \subseteq DOMAIN sett.checks
  BY <1>1 DEF Results, TypeOK
<1>3. QED
  BY <1>2, SettingsType

\* The ways a step moves a worker keep the types of pc and job.
LEMMA MoveType ==
  ASSUME TypeOK, NEW w \in Workers
  PROVE  /\ \A l \in Points : Goto(w, l)
                => pc' \in [Workers -> Points] /\ job' \in [Workers -> Jobs]
         /\ Return(w) => pc' \in [Workers -> Points] /\ job' \in [Workers -> Jobs]
         /\ NextAttempt(w)
                => pc' \in [Workers -> Points] /\ job' \in [Workers -> Jobs]
         /\ AfterRemediation(w)
                => pc' \in [Workers -> Points] /\ job' \in [Workers -> Jobs]
<1> USE DEF TypeOK
<1>1. "check" \in Operations /\ {"idle", "rotateStop", "restore", "cool", "finalCheck"} \subseteq Points
  BY DEF Operations, Points, Remediation
<1>2. job[w] \in Jobs /\ job[w].own \in Seq(CheckKinds)
  BY DEF Jobs
<1>3. \A l \in Points : Goto(w, l)
                => pc' \in [Workers -> Points] /\ job' \in [Workers -> Jobs]
  BY DEF Goto
<1>4. Return(w) => pc' \in [Workers -> Points] /\ job' \in [Workers -> Jobs]
  BY <1>1, SettingsType DEF Return
<1>5. NextAttempt(w) => pc' \in [Workers -> Points] /\ job' \in [Workers -> Jobs]
  <2>1. CASE job[w].attempt < job[w].plan.attempts
    <3>1. [job[w] EXCEPT !.attempt = @ + 1] \in Jobs
      BY <2>1, <1>2, JobType
    <3>2. QED
      BY <2>1, <3>1, <1>1 DEF NextAttempt
  <2>2. CASE ~(job[w].attempt < job[w].plan.attempts)
    BY <2>2, <1>1, <1>3 DEF NextAttempt
  <2>3. QED
    BY <2>1, <2>2
<1>6. AfterRemediation(w) => pc' \in [Workers -> Points] /\ job' \in [Workers -> Jobs]
  <2>1. [Fresh("check") EXCEPT !.own = job[w].own] \in Jobs
    BY <1>1, <1>2, SettingsType, JobType
  <2>2. QED
    BY <2>1, <1>1, <1>4 DEF AfterRemediation
<1>7. QED
  BY <1>3, <1>4, <1>5, <1>6

\* Every outcome of the steps that end an operation keeps all types.
LEMMA EndType ==
  ASSUME TypeOK, NEW w \in Workers
  PROVE  /\ \A how \in {"down", "failed"} : ProcessEnds(how) =>
              /\ daemon' \in {"down", "failed", "starting", "running"}
              /\ cooldown' \in BOOLEAN
              /\ pc' \in [Workers -> Points] /\ job' \in [Workers -> Jobs]
         /\ Fail(w) \/ Succeed(w) =>
              /\ daemon' \in {"down", "failed", "starting", "running"}
              /\ cooldown' \in BOOLEAN
              /\ pc' \in [Workers -> Points] /\ job' \in [Workers -> Jobs]
<1>1. \A how \in {"down", "failed"} : ProcessEnds(how) =>
        /\ daemon' \in {"down", "failed", "starting", "running"}
        /\ cooldown' \in BOOLEAN
        /\ pc' \in [Workers -> Points] /\ job' \in [Workers -> Jobs]
  <2>1. Fresh("check") \in Jobs /\ "idle" \in Points
    BY SettingsType DEF Operations, Points
  <2>2. QED
    BY <2>1 DEF ProcessEnds, TypeOK
<1>2. Succeed(w) =>
        /\ daemon' \in {"down", "failed", "starting", "running"}
        /\ cooldown' \in BOOLEAN
        /\ pc' \in [Workers -> Points] /\ job' \in [Workers -> Jobs]
  BY MoveType DEF Succeed, TypeOK
<1>3. Fail(w) =>
        /\ daemon' \in {"down", "failed", "starting", "running"}
        /\ cooldown' \in BOOLEAN
        /\ pc' \in [Workers -> Points] /\ job' \in [Workers -> Jobs]
  BY <1>1, MoveType DEF Fail, TypeOK
<1>4. QED
  BY <1>1, <1>2, <1>3

\* Running the checks keeps types and resolves the settings.
LEMMA ChecksType ==
  ASSUME TypeOK, NEW F \in Results, RunChecks(F)
  PROVE  /\ current' = sett
         /\ sett \in Configs
         /\ passed \subseteq passed'
         /\ passed' \in SUBSET Accounts
<1>1. sett \in Configs
  BY ResultsType
<1>2. Running \subseteq Accounts
  BY DEF Running, TypeOK
<1>3. PICK A \in SUBSET Accounts :
        passed' \in IF ActiveFailed(Failing(sett.checks, F)) THEN {passed}
                   ELSE {passed \cup {a} : a \in A}
  <2>1. (IF Demanding(sett.checks) THEN Running ELSE {account}) \in SUBSET Accounts
    BY <1>2 DEF TypeOK
  <2>2. QED
    BY <2>1 DEF RunChecks, ProbeChecks
<1>4. passed \subseteq passed' /\ passed' \in SUBSET Accounts
  BY <1>3 DEF TypeOK
<1>5. QED
  BY <1>1, <1>4 DEF RunChecks, Resolve

LEMMA RunAndJudgeType ==
  ASSUME TypeOK, NEW w \in Workers, NEW l \in Points, RunAndJudge(w, l)
  PROVE  /\ current' \in Configs \cup {Unread}
         /\ daemon' \in {"down", "failed", "starting", "running"}
         /\ cooldown' \in BOOLEAN
         /\ passed' \in SUBSET Accounts
         /\ pc' \in [Workers -> Points] /\ job' \in [Workers -> Jobs]
<1>1. CASE \E F \in Results : RunChecks(F)
             /\ job' = [job EXCEPT ![w].ran = sett.checks, ![w].failed = F]
             /\ pc' = [pc EXCEPT ![w] = l]
             /\ UNCHANGED <<daemon, cooldown>>
  <2>1. PICK F \in Results : RunChecks(F)
             /\ job' = [job EXCEPT ![w].ran = sett.checks, ![w].failed = F]
             /\ pc' = [pc EXCEPT ![w] = l]
             /\ UNCHANGED <<daemon, cooldown>>
    BY <1>1
  <2>2. [job[w] EXCEPT !.ran = sett.checks, !.failed = F] \in Jobs
    BY ResultsType, JobType DEF TypeOK
  <2>3. job' \in [Workers -> Jobs]
    BY <2>1, <2>2 DEF TypeOK
  <2>4. current' = sett /\ sett \in Configs /\ passed' \in SUBSET Accounts
    BY <2>1, ChecksType
  <2>5. QED
    BY <2>1, <2>3, <2>4 DEF TypeOK
<1>2. CASE ResolveFails /\ Fail(w) /\ UNCHANGED passed
  BY <1>2, EndType DEF ResolveFails, TypeOK
<1>3. QED
  BY <1>1, <1>2 DEF RunAndJudge

LEMMA TypeStep == TypeOK /\ [Next]_vars => TypeOK'
<1> SUFFICES ASSUME TypeOK, [Next]_vars PROVE TypeOK'
  OBVIOUS
<1>0. /\ {"idle", "ensure", "ensureStart", "check", "judge", "remediate",
           "finalCheck", "finalJudge", "reloadStop", "reloadStart"} \subseteq Points
      /\ Remediation \subseteq Points
  BY DEF Points
<1>a. sett' = sett /\ current' \in Configs \cup {Unread} => (TypeOK' <=>
        /\ daemon' \in {"down", "failed", "starting", "running"}
        /\ account' \in Accounts
        /\ lastGood' \in Accounts \cup {NoAccount}
        /\ Backends'
        /\ cooldown' \in BOOLEAN
        /\ pc' \in [Workers -> Points]
        /\ job' \in [Workers -> Jobs]
        /\ used' \in SUBSET Accounts
        /\ passed' \in SUBSET Accounts
        /\ faults' \in SUBSET Faults)
  BY DEF TypeOK, Backends
<1>b. Resolve \/ ResolveFails \/ UNCHANGED current => current' \in Configs \cup {Unread}
  BY DEF Resolve, ResolveFails, TypeOK
<1>d. Available \subseteq Accounts \ used
  BY DEF Available
<1>c. Loop \in Workers
  BY DEF Workers
<1>f. UNCHANGED managed => Backends'
  BY DEF TypeOK, Backends, managed
<1> USE <1>0, <1>a, <1>b, <1>f, MoveType, EndType, ManagedType DEF TypeOK, disk, work
<1>1. CASE StartDaemon
  BY <1>1, <1>c DEF StartDaemon
<1>2. CASE StopDaemon
  <2>1. ProcessEnds("down") /\ UNCHANGED <<sett, current, account, lastGood, managed, used, passed>>
    BY <1>2 DEF StopDaemon
  <2>2. faults' \in SUBSET Faults
    BY <1>2 DEF StopDaemon, Faults
  <2>3. QED
    BY <2>1, <2>2, <1>c
<1>3. CASE Backend
  BY <1>3 DEF Backend
<1>4. CASE CooldownEnds
  BY <1>4 DEF CooldownEnds
<1>5. ASSUME NEW a \in Accounts, RegisterCommand(a) PROVE TypeOK'
  BY <1>5, <1>d DEF RegisterCommand, Faults
<1>e. ASSUME NEW c \in Configs \cup {Invalid}, EditSettings(c) PROVE TypeOK'
  <2>1. Backends' /\ faults' \in SUBSET Faults
    BY <1>e DEF EditSettings, Faults
  <2>2. /\ sett' \in Configs \cup {Invalid}
        /\ UNCHANGED <<current, daemon, disk, cooldown, pc, job, used, passed>>
    BY <1>e DEF EditSettings
  <2>3. QED
    BY <2>1, <2>2 DEF Backends
<1>6. ASSUME NEW w \in Workers, NEW o \in Operations, Begin(w, o) PROVE TypeOK'
  <2>1. job' \in [Workers -> Jobs]
    BY <1>6, SettingsType DEF Begin
  <2>2. pc' \in [Workers -> Points]
    BY <1>6 DEF Begin, Operations
  <2>3. QED
    BY <1>6, <2>1, <2>2 DEF Begin, Faults
<1>7. ASSUME NEW w \in Workers, WorkerNext(w) PROVE TypeOK'
  <2>1. CASE EnsureBackendRunning(w)
    BY <2>1 DEF EnsureBackendRunning
  <2>2. CASE EnsureStart(w)
    BY <2>2 DEF EnsureStart
  <2>3. CASE Check(w)
    BY <2>3, RunAndJudgeType DEF Check
  <2>4. CASE Judge(w)
    <3>1. CASE JudgePasses(w) \/ JudgeGivesUp(w)
      BY <2>4, <3>1 DEF Judge, JudgePasses, JudgeGivesUp, MarkLastGood
    <3>2. CASE JudgeRemediates(w)
      <4>1. [Fresh("check") EXCEPT !.own = current.checks] \in Jobs
        BY SettingsType, JobType DEF Operations
      <4>2. job' \in [Workers -> Jobs] /\ pc' \in [Workers -> Points]
        BY <3>2, <4>1 DEF JudgeRemediates
      <4>3. QED
        BY <2>4, <3>2, <4>2 DEF Judge, JudgeRemediates
    <3>3. QED
      BY <2>4, <3>1, <3>2 DEF Judge
  <2>5. CASE Remediate(w)
    <3>1. CASE AfterRemediation(w)
      BY <2>5, <3>1 DEF Remediate
    <3>2. CASE Resolve /\ pc' = [pc EXCEPT ![w] = "rotateStop"]
                       /\ job' = [job EXCEPT ![w].attempt = 1, ![w].plan = sett]
      <4>1. [job[w] EXCEPT !.attempt = 1, !.plan = sett] \in Jobs
        BY <3>2, JobType DEF Resolve
      <4>2. job' \in [Workers -> Jobs] /\ pc' \in [Workers -> Points]
        BY <3>2, <4>1 DEF Remediation
      <4>3. QED
        BY <2>5, <3>2, <4>2 DEF Remediate
    <3>3. QED
      BY <2>5, <3>1, <3>2 DEF Remediate
  <2>6. CASE RotateStop(w)
    BY <2>6 DEF RotateStop, Remediation
  <2>7. CASE Register(w)
    BY <2>7, <1>d DEF Register, Remediation
  <2>8. CASE RememberRotationAccount(w)
    BY <2>8 DEF RememberRotationAccount, Remediation
  <2>9. CASE RotateStart(w)
    BY <2>9 DEF RotateStart, Remediation
  <2>10. CASE Settle(w)
    <3>1. Running \subseteq Accounts
      BY DEF Running
    <3>2. passed' \in SUBSET Accounts
      BY <2>10, <3>1 DEF Settle
    <3>3. Backends' /\ faults' \in SUBSET Faults /\ UNCHANGED <<sett, current, daemon, account, used>>
      BY <2>10 DEF Settle
    <3>4. /\ lastGood' \in Accounts \cup {NoAccount} /\ cooldown' \in BOOLEAN
          /\ pc' \in [Workers -> Points] /\ job' \in [Workers -> Jobs]
      BY <2>10 DEF Settle, MarkLastGood, Remediation
    <3>5. QED
      BY <3>2, <3>3, <3>4
  <2>11. CASE Recheck(w)
    BY <2>11, ChecksType DEF Recheck, Remediation
  <2>12. CASE MarkRotated(w)
    BY <2>12 DEF MarkRotated, MarkLastGood
  <2>13. CASE Restore(w)
    BY <2>13 DEF Restore, Remediation
  <2>14. CASE RestoreStop(w)
    BY <2>14 DEF RestoreStop, Remediation
  <2>15. CASE RestoreStart(w)
    BY <2>15 DEF RestoreStart, Remediation
  <2>16. CASE RestoreCheck(w)
    BY <2>16, ChecksType DEF RestoreCheck, Remediation
  <2>17. CASE Cool(w)
    <3>1. job[w].plan.cooldown \in BOOLEAN
      BY SettingsType DEF Jobs
    <3>2. QED
      BY <2>17, <3>1 DEF Cool
  <2>18. CASE FinalCheck(w)
    BY <2>18, RunAndJudgeType DEF FinalCheck
  <2>19. CASE FinalJudge(w)
    BY <2>19 DEF FinalJudge, MarkLastGood
  <2>20. CASE ReloadStop(w)
    BY <2>20 DEF ReloadStop
  <2>21. CASE ReloadStart(w)
    BY <2>21 DEF ReloadStart
  <2>22. QED
    BY <1>7, <2>1, <2>2, <2>3, <2>4, <2>5, <2>6, <2>7, <2>8, <2>9, <2>10, <2>11,
       <2>12, <2>13, <2>14, <2>15, <2>16, <2>17, <2>18, <2>19, <2>20, <2>21
       DEF WorkerNext
<1>8. CASE UNCHANGED vars
  BY <1>8 DEF vars
<1>9. QED
  BY <1>1, <1>2, <1>3, <1>4, <1>5, <1>e, <1>6, <1>7, <1>8 DEF Next

\* Every variable of the daemon keeps its type: in particular the attempts of
\* an incident never exceed MaxAttemptsPerIncident.
THEOREM DaemonTypeCorrect == Spec => []TypeOK
<1>1. QED
  BY TypeInit, TypeStep, PTL DEF Spec

-------------------------------------------------------------------------------
(* How a step moves the workers. *)

\* A daemon that is not up has no worker at work.
DownIsIdle == ~Up => \A w \in Workers : pc[w] = "idle"

\* Unless operations have overlapped, one worker at most is at work.
OneAtATime ==
  "overlap" \notin faults =>
    \A v, w \in Workers : pc[v] # "idle" /\ pc[w] # "idle" => v = w

ControlInv == TypeOK /\ DownIsIdle /\ OneAtATime

\* A worker that moves was at work, leaves the other workers alone, and puts
\* the daemon up if it touches it, or else the daemon ends and all are idle.
Moves(w) ==
  /\ \A v \in Workers \ {w} : pc'[v] = pc[v] /\ job'[v] = job[v]
  /\ daemon' \in {daemon, "running"}
Ends == daemon' = "failed" /\ \A v \in Workers : pc'[v] = "idle"

LEMMA WorkerMoves ==
  ASSUME TypeOK, NEW w \in Workers, WorkerNext(w)
  PROVE  /\ pc[w] # "idle"
         /\ Moves(w) \/ Ends
         /\ faults \subseteq faults'
         /\ sett' = sett
         /\ current' = current \/ (sett \in Configs /\ current' = sett)
<1> USE DEF TypeOK, Moves, Ends, Resolve, ResolveFails
<1>1. \A l : Goto(w, l) => \A v \in Workers \ {w} : pc'[v] = pc[v] /\ job'[v] = job[v]
  BY DEF Goto
<1>2. Return(w) \/ NextAttempt(w) \/ AfterRemediation(w)
        => \A v \in Workers \ {w} : pc'[v] = pc[v] /\ job'[v] = job[v]
  BY <1>1 DEF Return, NextAttempt, AfterRemediation
<1>4. Succeed(w) => Moves(w)
  BY <1>2 DEF Succeed
<1>5. Fail(w) => Moves(w) \/ Ends
  BY <1>2 DEF Fail, ProcessEnds
<1>3. \A l : RunAndJudge(w, l)
        => /\ Moves(w) \/ Ends
           /\ current' = current \/ (sett \in Configs /\ current' = sett)
  BY <1>5 DEF RunAndJudge, RunChecks
<1>a. Stops \/ StopsNot \/ Starts \/ StartsNot => faults \subseteq faults'
  BY DEF Stops, StopsNot, Starts, StartsNot
<1>6. CASE EnsureBackendRunning(w) \/ EnsureStart(w) \/ Check(w)
           \/ FinalCheck(w) \/ Remediate(w)
  BY <1>6, <1>1, <1>2, <1>3, <1>5, <1>a
     DEF EnsureBackendRunning, EnsureStart, Check, FinalCheck, Remediate
<1>7. CASE Judge(w) \/ FinalJudge(w)
  BY <1>7, <1>1, <1>2, <1>4, <1>5
     DEF Judge, JudgePasses, JudgeRemediates, JudgeGivesUp, FinalJudge
<1>8. CASE RotateStop(w) \/ Register(w) \/ RememberRotationAccount(w)
           \/ RotateStart(w) \/ Settle(w) \/ Recheck(w) \/ MarkRotated(w)
  BY <1>8, <1>1, <1>2, <1>a
     DEF RunChecks, RotateStop, Register, RememberRotationAccount, RotateStart, Settle,
         Recheck, MarkRotated
<1>9. CASE Restore(w) \/ RestoreStop(w) \/ RestoreStart(w) \/ RestoreCheck(w)
           \/ Cool(w) \/ ReloadStop(w) \/ ReloadStart(w)
  BY <1>9, <1>1, <1>2, <1>a
     DEF RunChecks, Restore, RestoreStop, RestoreStart, RestoreCheck, Cool, ReloadStop,
         ReloadStart
<1>10. QED
  BY <1>6, <1>7, <1>8, <1>9 DEF WorkerNext

\* The next attempt is the same operation's, by the same settings.
LEMMA AttemptKeeps ==
  ASSUME TypeOK, NEW w \in Workers, NextAttempt(w)
  PROVE  /\ job'[w].op = job[w].op
         /\ job'[w].own = job[w].own
         /\ job'[w].plan = job[w].plan
         /\ pc'[w] \in {"rotateStop", "restore", "cool"}
         /\ pc'[w] = "cool" => ~job[w].plan.restore
<1>1. job[w] \in [op : Operations, attempt : Nat, ran : Seq(CheckKinds),
                 failed : SUBSET Nat, own : Seq(CheckKinds),
                 plan : Configs \cup {Unread}]
  BY DEF TypeOK, Jobs
<1>2. CASE job[w].attempt < job[w].plan.attempts
  <2>1. job'[w] = [job[w] EXCEPT !.attempt = @ + 1] /\ pc'[w] = "rotateStop"
    BY <1>2 DEF NextAttempt, TypeOK
  <2>2. QED
    BY <1>1, <2>1
<1>3. CASE ~(job[w].attempt < job[w].plan.attempts)
  BY <1>3 DEF NextAttempt, Goto, TypeOK
<1>4. QED
  BY <1>2, <1>3

LEMMA ControlInit == Init => ControlInv
  BY TypeInit DEF Init, ControlInv, DownIsIdle, OneAtATime

LEMMA ControlStep == ControlInv /\ [Next]_vars => ControlInv'
<1> SUFFICES ASSUME ControlInv, [Next]_vars PROVE ControlInv'
  OBVIOUS
<1>0. TypeOK'
  BY TypeStep DEF ControlInv
<1> USE <1>0 DEF ControlInv, TypeOK, DownIsIdle, OneAtATime, Up
<1>1. CASE StartDaemon
  BY <1>1 DEF StartDaemon, Goto
<1>2. CASE StopDaemon
  BY <1>2 DEF StopDaemon, ProcessEnds
<1>3. CASE Backend \/ CooldownEnds \/ (\E a \in Accounts : RegisterCommand(a))
             \/ (\E c \in Configs \cup {Invalid} : EditSettings(c))
  BY <1>3 DEF Backend, CooldownEnds, RegisterCommand, EditSettings, work
<1>4. ASSUME NEW w \in Workers, NEW o \in Operations, Begin(w, o)
      PROVE  ControlInv'
  BY <1>4 DEF Begin
<1>5. ASSUME NEW w \in Workers, WorkerNext(w) PROVE ControlInv'
  BY <1>5, WorkerMoves DEF Moves, Ends
<1>6. CASE UNCHANGED vars
  BY <1>6 DEF vars, work
<1>7. QED
  BY <1>1, <1>2, <1>3, <1>4, <1>5, <1>6 DEF Next

-------------------------------------------------------------------------------
(* The copies of the settings. *)

\* As long as no edit falls into an operation, every copy in use is the settings.
CopiesFit(w) ==
  /\ pc[w] = "judge" =>
       sett \in Configs /\ current = sett /\ job[w].ran = sett.checks
  /\ pc[w] \in {"remediate", "finalCheck", "finalJudge"} \cup Remediation
       /\ job[w].op = "check" => job[w].own = sett.checks
  /\ pc[w] \in {"finalCheck", "finalJudge"} => job[w].op = "check"
  /\ pc[w] \in {"remediate"} \cup Remediation => job[w].op # "reload"
  /\ pc[w] = "finalJudge" => job[w].ran = sett.checks
  /\ pc[w] \in Remediation => job[w].plan = sett

\* Even with one, m.settings is what the results at hand were found under.
ResultsFit(w) == pc[w] = "judge" => current.checks = job[w].ran

CopyInv ==
  /\ "edited" \notin faults => \A w \in Workers : CopiesFit(w)
  /\ "overlap" \notin faults => \A w \in Workers : ResultsFit(w)

\* A step of a worker at work, alone: the others are idle before and after.
LEMMA Alone ==
  ASSUME ControlInv, NEW w \in Workers, WorkerNext(w), "overlap" \notin faults
  PROVE  \A v \in Workers \ {w} : pc[v] = "idle" /\ pc'[v] = "idle"
  BY WorkerMoves DEF ControlInv, OneAtATime, Moves, Ends

\* Where a worker gets to judge, it has just run the checks of the settings,
\* which are the daemon's now.
LEMMA JudgesWhatItRan ==
  ASSUME TypeOK, NEW w \in Workers, WorkerNext(w), pc'[w] \in {"judge", "finalJudge"}
  PROVE  /\ sett \in Configs
         /\ current' = sett
         /\ job'[w].ran = sett.checks
         /\ job'[w].own = job[w].own
         /\ job'[w].op = job[w].op
         /\ pc[w] = IF pc'[w] = "judge" THEN "check" ELSE "finalCheck"
<1>1. RunAndJudge(w, pc'[w]) /\ pc[w] = IF pc'[w] = "judge" THEN "check" ELSE "finalCheck"
  <2>1. ~(Return(w) \/ NextAttempt(w) \/ AfterRemediation(w) \/ Fail(w) \/ Succeed(w))
    BY AttemptKeeps DEF TypeOK, Return, AfterRemediation, Fail, Succeed, ProcessEnds
  <2>2. \A l : Goto(w, l) \/ pc' = [pc EXCEPT ![w] = l] => pc'[w] = l
    BY DEF TypeOK, Goto
  <2>3. CASE EnsureBackendRunning(w) \/ EnsureStart(w) \/ Remediate(w)
             \/ Judge(w) \/ FinalJudge(w)
    BY <2>1, <2>2, <2>3
       DEF EnsureBackendRunning, EnsureStart, Remediate, Judge, JudgePasses,
           JudgeRemediates, JudgeGivesUp, FinalJudge
  <2>4. CASE RotateStop(w) \/ Register(w) \/ RememberRotationAccount(w)
             \/ RotateStart(w) \/ Settle(w) \/ Recheck(w) \/ MarkRotated(w)
    BY <2>1, <2>2, <2>4
       DEF RotateStop, Register, RememberRotationAccount, RotateStart, Settle,
           Recheck, MarkRotated
  <2>5. CASE Restore(w) \/ RestoreStop(w) \/ RestoreStart(w) \/ RestoreCheck(w)
             \/ Cool(w) \/ ReloadStop(w) \/ ReloadStart(w)
    BY <2>1, <2>2, <2>5
       DEF Restore, RestoreStop, RestoreStart, RestoreCheck, Cool, ReloadStop,
           ReloadStart
  <2>6. CASE Check(w)
    BY <2>1, <2>2, <2>6 DEF Check, RunAndJudge
  <2>7. CASE FinalCheck(w)
    BY <2>1, <2>2, <2>7 DEF FinalCheck, RunAndJudge
  <2>8. QED
    BY <2>3, <2>4, <2>5, <2>6, <2>7 DEF WorkerNext
<1>2. PICK F \in Results :
        /\ RunChecks(F)
        /\ job' = [job EXCEPT ![w].ran = sett.checks, ![w].failed = F]
  <2>1. ~Fail(w)
    BY DEF TypeOK, Return, Fail, ProcessEnds
  <2>2. QED
    BY <1>1, <2>1 DEF RunAndJudge
<1>3. sett \in Configs /\ current' = sett
  BY <1>2, ChecksType
<1>4. job[w] \in [op : Operations, attempt : Nat, ran : Seq(CheckKinds),
                 failed : SUBSET Nat, own : Seq(CheckKinds),
                 plan : Configs \cup {Unread}]
  BY DEF TypeOK, Jobs
<1>5. job'[w] = [job[w] EXCEPT !.ran = sett.checks, !.failed = F]
  BY <1>2 DEF TypeOK
<1>6. QED
  BY <1>1, <1>3, <1>4, <1>5

\* Inside a remediation the copies stay what they are.
LEMMA RemediationKeeps ==
  ASSUME TypeOK, NEW w \in Workers, WorkerNext(w), CopiesFit(w),
         pc'[w] \in Remediation \cup {"remediate", "finalCheck"}
  PROVE  CopiesFit(w)'
<1> USE DEF TypeOK
<1>0. sett' = sett
  BY WorkerMoves
<1>1. job[w] \in [op : Operations, attempt : Nat, ran : Seq(CheckKinds),
                 failed : SUBSET Nat, own : Seq(CheckKinds),
                 plan : Configs \cup {Unread}]
  BY DEF Jobs
<1>2. CASE Judge(w)
  <2>1. JudgeRemediates(w) /\ pc[w] = "judge"
    BY <1>2
       DEF Judge, JudgePasses, JudgeGivesUp, Return, Fail, Succeed, ProcessEnds,
           Remediation
  <2>2. /\ pc'[w] = "remediate"
        /\ job'[w] = [Fresh("check") EXCEPT !.own = current.checks]
    BY <2>1 DEF JudgeRemediates
  <2>3. job'[w].op = "check" /\ job'[w].own = current.checks
    BY <2>2 DEF Fresh
  <2>4. QED
    BY <1>0, <2>1, <2>2, <2>3 DEF CopiesFit, Remediation
<1>3. CASE AfterRemediation(w) /\ pc[w] \in {"remediate"} \cup Remediation
  <2>1. job[w].op = "check" /\ pc'[w] = "finalCheck"
    BY <1>1, <1>3 DEF AfterRemediation, Return, CopiesFit, Operations, Remediation
  <2>2. job'[w] = [Fresh("check") EXCEPT !.own = job[w].own]
    BY <1>3, <2>1 DEF AfterRemediation
  <2>3. job'[w].op = "check" /\ job'[w].own = job[w].own
    BY <2>2 DEF Fresh
  <2>4. QED
    BY <1>0, <1>3, <2>1, <2>3 DEF CopiesFit, Remediation
<1>4. CASE Remediate(w) /\ ~AfterRemediation(w)
  <2>1. /\ pc[w] = "remediate"
        /\ pc'[w] = "rotateStop"
        /\ job'[w] = [job[w] EXCEPT !.attempt = 1, !.plan = sett]
    BY <1>4 DEF Remediate
  <2>2. /\ job'[w].op = job[w].op /\ job'[w].own = job[w].own
        /\ job'[w].plan = sett
    BY <1>1, <2>1
  <2>3. QED
    BY <1>0, <2>1, <2>2 DEF CopiesFit, Remediation
<1>5. CASE /\ pc[w] \in Remediation
           /\ NextAttempt(w) \/ \E l \in Remediation : Goto(w, l)
  <2>1. /\ job'[w].op = job[w].op /\ job'[w].own = job[w].own
        /\ job'[w].plan = job[w].plan /\ pc'[w] \in Remediation
    BY <1>5, AttemptKeeps DEF Goto, Remediation
  <2>2. QED
    BY <1>0, <1>5, <2>1 DEF CopiesFit, Remediation
<1>6. CASE EnsureBackendRunning(w) \/ EnsureStart(w) \/ Check(w) \/ FinalCheck(w)
           \/ FinalJudge(w) \/ ReloadStop(w) \/ ReloadStart(w)
  BY <1>6
     DEF EnsureBackendRunning, EnsureStart, Check, FinalCheck, FinalJudge,
         ReloadStop, ReloadStart, RunAndJudge, Goto, Return, Fail, Succeed,
         ProcessEnds, Remediation
<1>7. CASE RotateStop(w) \/ Register(w) \/ RememberRotationAccount(w)
           \/ RotateStart(w) \/ Settle(w) \/ Recheck(w) \/ MarkRotated(w)
  BY <1>3, <1>5, <1>7
     DEF RotateStop, Register, RememberRotationAccount, RotateStart, Settle,
         Recheck, MarkRotated, Remediation
<1>8. CASE Restore(w) \/ RestoreStop(w) \/ RestoreStart(w) \/ RestoreCheck(w)
           \/ Cool(w)
  BY <1>3, <1>5, <1>8
     DEF Restore, RestoreStop, RestoreStart, RestoreCheck, Cool, Remediation
<1>9. CASE Remediate(w) /\ AfterRemediation(w)
  BY <1>3, <1>9 DEF Remediate
<1>10. QED
  BY <1>2, <1>4, <1>6, <1>7, <1>8, <1>9 DEF WorkerNext

LEMMA CopyStep == ControlInv /\ CopyInv /\ [Next]_vars => CopyInv'
<1> SUFFICES ASSUME ControlInv, CopyInv, [Next]_vars PROVE CopyInv'
  OBVIOUS
<1> DEFINE Idle(v) == pc'[v] = "idle"
<1>0. \A v \in Workers : Idle(v) => CopiesFit(v)' /\ ResultsFit(v)'
  BY DEF CopiesFit, ResultsFit, Remediation
<1>1. CASE StartDaemon
  BY <1>1
     DEF StartDaemon, Goto, ControlInv, TypeOK, DownIsIdle, CopyInv, CopiesFit,
         ResultsFit, Remediation
<1>2. CASE StopDaemon
  BY <1>0, <1>2 DEF StopDaemon, ProcessEnds, CopyInv
<1>3. CASE Backend \/ CooldownEnds \/ \E a \in Accounts : RegisterCommand(a)
  BY <1>3
     DEF Backend, CooldownEnds, RegisterCommand, work, CopyInv, CopiesFit,
         ResultsFit
<1>4. ASSUME NEW c \in Configs \cup {Invalid}, EditSettings(c) PROVE CopyInv'
  <2>1. UNCHANGED <<current, pc, job>> /\ faults \subseteq faults'
    BY <1>4 DEF EditSettings, work
  <2>2. "edited" \notin faults' => \A v \in Workers : Idle(v)
    BY <1>4, <2>1 DEF EditSettings
  <2>3. QED
    BY <1>0, <2>1, <2>2 DEF CopyInv, ResultsFit
<1>5. ASSUME NEW w \in Workers, NEW o \in Operations, Begin(w, o)
      PROVE  CopyInv'
  <2>1. UNCHANGED <<sett, current>> /\ faults \subseteq faults'
    BY <1>5 DEF Begin
  <2>2. \A v \in Workers \ {w} : pc'[v] = pc[v] /\ job'[v] = job[v]
    BY <1>5 DEF Begin, ControlInv, TypeOK
  <2>3. CopiesFit(w)' /\ ResultsFit(w)'
    BY <1>5
       DEF Begin, ControlInv, TypeOK, Operations, Fresh, CopiesFit, ResultsFit,
           Remediation
  <2>4. \A v \in Workers \ {w} :
          (CopiesFit(v) => CopiesFit(v)') /\ (ResultsFit(v) => ResultsFit(v)')
    BY <2>1, <2>2 DEF CopiesFit, ResultsFit
  <2>5. QED
    BY <2>1, <2>3, <2>4 DEF CopyInv
<1>6. ASSUME NEW w \in Workers, WorkerNext(w) PROVE CopyInv'
  <2>1. /\ Moves(w) \/ Ends
        /\ faults \subseteq faults'
        /\ sett' = sett
        /\ current' = current \/ (sett \in Configs /\ current' = sett)
    BY <1>6, WorkerMoves DEF ControlInv
  <2>2. CASE Ends
    BY <1>0, <2>2 DEF Ends, CopyInv
  <2>3. ASSUME Moves(w), "edited" \notin faults'
        PROVE  \A v \in Workers : CopiesFit(v)'
    <3>1. \A v \in Workers \ {w} : CopiesFit(v)'
      BY <2>1, <2>3 DEF Moves, CopyInv, CopiesFit
    <3>2. CopiesFit(w)
      BY <2>1, <2>3 DEF CopyInv
    <3>3. ASSUME pc'[w] \in {"judge", "finalJudge"} PROVE CopiesFit(w)'
      BY <1>6, <2>1, <3>2, <3>3, JudgesWhatItRan DEF ControlInv, CopiesFit, Remediation
    <3>4. ASSUME pc'[w] \in Remediation \cup {"remediate", "finalCheck"}
          PROVE  CopiesFit(w)'
      BY <1>6, <3>2, <3>4, RemediationKeeps DEF ControlInv
    <3>5. ASSUME pc'[w] \notin Remediation \cup {"judge", "finalJudge", "remediate", "finalCheck"}
          PROVE  CopiesFit(w)'
      BY <3>5 DEF CopiesFit
    <3>6. QED
      BY <3>1, <3>3, <3>4, <3>5
  <2>4. ASSUME Moves(w), "overlap" \notin faults'
        PROVE  \A v \in Workers : ResultsFit(v)'
    <3>1. \A v \in Workers \ {w} : ResultsFit(v)'
      BY <1>6, <2>1, <2>4, Alone DEF ResultsFit
    <3>2. ResultsFit(w)'
      BY <1>6, <2>1, JudgesWhatItRan DEF ControlInv, ResultsFit
    <3>3. QED
      BY <3>1, <3>2
  <2>5. QED
    BY <2>1, <2>2, <2>3, <2>4 DEF CopyInv
<1>7. CASE UNCHANGED vars
  BY <1>7 DEF vars, work, CopyInv, CopiesFit, ResultsFit
<1>8. QED
  BY <1>1, <1>2, <1>3, <1>4, <1>5, <1>6, <1>7 DEF Next

LEMMA CopyInvariant == Spec => [](ControlInv /\ CopyInv)
<1>1. Init => ControlInv /\ CopyInv
  BY ControlInit DEF Init, CopyInv, CopiesFit, ResultsFit, Remediation
<1>2. ControlInv /\ CopyInv /\ [Next]_vars => ControlInv' /\ CopyInv'
  BY ControlStep, CopyStep
<1>3. QED
  BY <1>1, <1>2, PTL DEF Spec

\* Results are judged by the checks they are of, unless the settings change
\* under overlapping operations, or under one that remediates.
THEOREM ChecksFit == Spec => []ChecksJudgedAsRun
<1>1. ControlInv /\ CopyInv => ChecksJudgedAsRun
  BY DEF CopyInv, CopiesFit, ResultsFit, ChecksJudgedAsRun
<1>2. QED
  BY <1>1, CopyInvariant, PTL

-------------------------------------------------------------------------------
(* What is left running. *)

\* Until a stop or a start has left a process to itself, runtime.json names the
\* one that runs.
NoStrays == "stray" \notin faults => strays = {}

\* What a step then does to the backend, unless it is the one.
LEMMA Tidy ==
  ASSUME TypeOK, strays = {}, "stray" \notin faults'
  PROVE  /\ Stops => backend' = NoAccount /\ strays' = {}
         /\ Starts => backend' = account /\ strays' = {}
         /\ StopsNot \/ StartsNot \/ BackendMoves
              => backend' \in {backend, NoAccount} /\ strays' = {}
         /\ Running = {backend} \ {NoAccount}
<1> USE DEF TypeOK, Running, managed
<1>1. ASSUME faults' = faults \cup Strayed PROVE strays' = {}
  BY <1>1 DEF Strayed
<1>2. Stops => backend' = NoAccount /\ strays' = {}
  BY <1>1 DEF Stops, StopSucceeds
<1>3. Starts => backend' = account /\ strays' = {}
  <2>1. ASSUME Starts PROVE strays' = {}
    BY <2>1, <1>1 DEF Starts
  <2>2. ASSUME Starts, backend' # account PROVE FALSE
    <3>1. account \in strays'
      BY <2>2 DEF Starts, StartSucceeds
    <3>2. QED
      BY <2>1, <2>2, <3>1
  <2>3. QED
    BY <2>1, <2>2
<1>4. StopsNot => backend' \in {backend, NoAccount} /\ strays' = {}
  BY DEF StopsNot, StopFails
<1>5. StartsNot => backend' \in {backend, NoAccount} /\ strays' = {}
  BY <1>1 DEF StartsNot, StartFails
<1>6. BackendMoves => backend' \in {backend, NoAccount} /\ strays' = {}
  BY DEF BackendMoves, BackendConnects, BackendDies, StrayMoves
<1>7. QED
  BY <1>2, <1>3, <1>4, <1>5, <1>6

\* The workers change backends by these steps alone.
LEMMA WorkerManages ==
  ASSUME TypeOK, NEW w \in Workers, WorkerNext(w)
  PROVE  Stops \/ StopsNot \/ Starts \/ StartsNot \/ UNCHANGED managed
<1>1. CASE EnsureBackendRunning(w) \/ EnsureStart(w) \/ Check(w) \/ Judge(w)
           \/ FinalCheck(w) \/ FinalJudge(w) \/ Remediate(w)
  BY <1>1
     DEF EnsureBackendRunning, EnsureStart, Check, Judge, FinalCheck, FinalJudge,
         Remediate
<1>2. CASE RotateStop(w) \/ Register(w) \/ RememberRotationAccount(w)
           \/ RotateStart(w) \/ Settle(w) \/ Recheck(w) \/ MarkRotated(w)
  BY <1>2
     DEF RotateStop, Register, RememberRotationAccount, RotateStart, Settle,
         Recheck, MarkRotated
<1>3. CASE Restore(w) \/ RestoreStop(w) \/ RestoreStart(w) \/ RestoreCheck(w)
           \/ Cool(w) \/ ReloadStop(w) \/ ReloadStart(w)
  BY <1>3
     DEF Restore, RestoreStop, RestoreStart, RestoreCheck, Cool, ReloadStop,
         ReloadStart
<1>4. QED
  BY <1>1, <1>2, <1>3 DEF WorkerNext

LEMMA StraysStep == TypeOK /\ NoStrays /\ [Next]_vars => NoStrays'
<1> SUFFICES ASSUME TypeOK, NoStrays, [Next]_vars, "stray" \notin faults'
             PROVE  strays' = {}
  BY DEF NoStrays
<1>1. ASSUME "stray" \notin faults, UNCHANGED managed PROVE strays' = {}
  BY <1>1 DEF NoStrays, managed
<1>2. ASSUME NEW w \in Workers, WorkerNext(w) PROVE strays' = {}
  BY <1>1, <1>2, WorkerMoves, WorkerManages, Tidy DEF NoStrays
<1>3. CASE Backend
  BY <1>3, Tidy DEF Backend, NoStrays
<1>4. CASE StartDaemon \/ StopDaemon \/ CooldownEnds
           \/ (\E c \in Configs \cup {Invalid} : EditSettings(c))
           \/ (\E a \in Accounts : RegisterCommand(a))
           \/ (\E w \in Workers, o \in Operations : Begin(w, o))
  BY <1>1, <1>4
     DEF StartDaemon, StopDaemon, CooldownEnds, EditSettings, RegisterCommand,
         Begin
<1>5. CASE UNCHANGED vars
  BY <1>1, <1>5 DEF vars
<1>6. QED
  BY <1>2, <1>3, <1>4, <1>5 DEF Next

-------------------------------------------------------------------------------
(* The accounts, while nothing but the daemon changes them. *)

Undisturbed == faults \subseteq {"stopFailed", "interrupted", "edited", "stray"}

\* And no process is left to itself.
Tracked == faults \subseteq {"stopFailed", "interrupted", "edited"}

\* And the settings do not change under an operation.
Steady == faults \subseteq {"stopFailed", "interrupted"}

\* Between the restored account and the end of the incident.
RestoresLastGood(w) ==
  /\ pc[w] \in {"restoreStop", "restoreStart", "restoreCheck"} => account = lastGood
  /\ pc[w] = "cool" /\ job[w].plan.restore /\ lastGood # NoAccount => account = lastGood

\* A backend runs on account.json, or the account has been restored under it.
BackendFits == strays = {} /\ (backend \in {account, NoAccount} \/ account = lastGood)

AccountInv ==
  /\ Undisturbed => \A w \in Workers : RestoresLastGood(w)
  /\ Tracked =>
       /\ BackendFits
       /\ \A w \in Workers : pc[w] = "register" => backend = NoAccount

\* What is about to be marked as last good has passed.
MarksPassed(w) ==
  /\ pc[w] = "judge" /\ ~ActiveFailed(Found(w)) => account \in passed
  /\ pc[w] = "finalJudge" /\ ~ActiveFailed(Failing(job[w].own, job[w].failed))
       => account \in passed
  /\ pc[w] = "mark" => account \in passed

PassedInv ==
  Steady =>
    /\ lastGood \in passed \cup {NoAccount}
    /\ \A w \in Workers : MarksPassed(w)

\* Without a fault only a restore separates backend and account.json.
IntactInv ==
  faults \subseteq {"edited"} =>
    \/ backend \in {account, NoAccount}
    \/ \E w \in Workers : pc[w] = "restoreStop"

AccountsInv ==
  ControlInv /\ CopyInv /\ NoStrays /\ AccountInv /\ PassedInv /\ IntactInv

\* What the restore puts into account.json stays there.
LEMMA RestoreStep ==
  ASSUME ControlInv, AccountInv, [Next]_vars, Undisturbed'
  PROVE  \A w \in Workers : RestoresLastGood(w)'
<1> DEFINE Goal == \A w \in Workers : RestoresLastGood(w)'
<1> USE DEF ControlInv, AccountInv, Undisturbed, RestoresLastGood, TypeOK, disk, work
<1>1. CASE StartDaemon
  BY <1>1 DEF StartDaemon, Goto, DownIsIdle
<1>2. CASE StopDaemon
  BY <1>2 DEF StopDaemon, ProcessEnds
<1>3. CASE Backend \/ CooldownEnds \/ (\E c \in Configs \cup {Invalid} : EditSettings(c))
  <2>1. UNCHANGED <<account, lastGood, pc, job>> /\ faults \subseteq faults'
    BY <1>3 DEF Backend, CooldownEnds, EditSettings
  <2>2. QED
    BY <2>1
<1>7. ASSUME NEW a \in Accounts, RegisterCommand(a) PROVE Goal
  BY <1>7 DEF RegisterCommand
<1>4. ASSUME NEW w \in Workers, NEW o \in Operations, Begin(w, o)
      PROVE  Goal
  BY <1>4 DEF Begin, Operations
<1>5. ASSUME NEW w \in Workers, WorkerNext(w) PROVE Goal
  <2>1. Undisturbed
    BY <1>5, WorkerMoves
  <2>2. \A v \in Workers \ {w} : pc'[v] = "idle"
    BY <1>5, <2>1, Alone
  <2>3. SUFFICES RestoresLastGood(w)'
    BY <2>2
  <2> USE <2>1
  <2>4. CASE EnsureBackendRunning(w) \/ EnsureStart(w) \/ Check(w)
             \/ FinalCheck(w) \/ Remediate(w)
    BY <2>4
       DEF EnsureBackendRunning, EnsureStart, Check, FinalCheck, Remediate,
           RunAndJudge, Goto, Return, Fail, ProcessEnds, AfterRemediation
  <2>5. CASE Judge(w) \/ FinalJudge(w)
    BY <2>5
       DEF Judge, JudgePasses, JudgeRemediates, JudgeGivesUp, FinalJudge,
           MarkLastGood, Return, Fail, Succeed, ProcessEnds
  <2>6. CASE NextAttempt(w)
    BY <2>6, AttemptKeeps
  <2>7. CASE RotateStop(w) \/ Register(w) \/ RememberRotationAccount(w)
             \/ RotateStart(w) \/ Recheck(w)
    BY <2>6, <2>7
       DEF RotateStop, Register, RememberRotationAccount, RotateStart, Recheck,
           Goto
  <2>8. CASE Settle(w) \/ MarkRotated(w) \/ Cool(w)
    BY <2>6, <2>8 DEF Settle, MarkRotated, Cool, AfterRemediation, Goto, Return
  <2>9. CASE Restore(w) \/ RestoreStop(w) \/ RestoreStart(w) \/ RestoreCheck(w)
    BY <2>9 DEF Restore, RestoreStop, RestoreStart, RestoreCheck, Goto
  <2>10. CASE ReloadStop(w) \/ ReloadStart(w)
    BY <2>10 DEF ReloadStop, ReloadStart, Goto, Return
  <2>11. QED
    BY <1>5, <2>4, <2>5, <2>7, <2>8, <2>9, <2>10 DEF WorkerNext
<1>6. CASE UNCHANGED vars
  BY <1>6 DEF vars
<1>8. QED
  BY <1>1, <1>2, <1>3, <1>4, <1>5, <1>6, <1>7 DEF Next

\* Without a stray, the backend keeps fitting account.json.
LEMMA FitStep ==
  ASSUME ControlInv, AccountInv, [Next]_vars, Tracked'
  PROVE  /\ BackendFits'
         /\ \A w \in Workers : pc'[w] = "register" => backend' = NoAccount
<1> DEFINE Goal == /\ BackendFits'
                   /\ \A w \in Workers : pc'[w] = "register" => backend' = NoAccount
<1>0. "stray" \notin faults' /\ "overlap" \notin faults'
  BY DEF Tracked
<1> USE DEF ControlInv, AccountInv, Tracked, BackendFits, TypeOK, disk, work
<1>m. UNCHANGED managed => UNCHANGED <<backend, strays>>
  BY DEF managed
<1>1. CASE StartDaemon
  BY <1>1, <1>m DEF StartDaemon, Goto, DownIsIdle
<1>2. CASE StopDaemon
  BY <1>2, <1>m DEF StopDaemon, ProcessEnds
<1>3. CASE CooldownEnds \/ (\E c \in Configs \cup {Invalid} : EditSettings(c))
  <2>1. UNCHANGED <<account, lastGood, managed, pc>> /\ faults \subseteq faults'
    BY <1>3 DEF CooldownEnds, EditSettings
  <2>2. QED
    BY <2>1, <1>m
<1>8. ASSUME NEW a \in Accounts, RegisterCommand(a) PROVE Goal
  BY <1>8 DEF RegisterCommand
<1>b. CASE Backend
  BY <1>b, <1>0, Tidy DEF Backend
<1>4. ASSUME NEW w \in Workers, NEW o \in Operations, Begin(w, o)
      PROVE  Goal
  BY <1>4, <1>m DEF Begin, Operations
<1>5. ASSUME NEW w \in Workers, WorkerNext(w) PROVE Goal
  <2>1. Tracked
    BY <1>5, WorkerMoves
  <2>2. \A v \in Workers \ {w} : pc'[v] = "idle"
    BY <1>5, <1>0, <2>1, Alone
  <2>3. SUFFICES BackendFits' /\ (pc'[w] = "register" => backend' = NoAccount)
    BY <2>2
  <2>a. /\ Stops => backend' = NoAccount /\ strays' = {}
        /\ Starts => backend' = account /\ strays' = {}
        /\ StopsNot \/ StartsNot => backend' \in {backend, NoAccount} /\ strays' = {}
    BY <2>1, <1>0, Tidy
  <2>b. NextAttempt(w) => pc'[w] # "register"
    BY AttemptKeeps
  <2> USE <2>1, <2>a, <2>b, <1>m
  <2>4. CASE EnsureBackendRunning(w) \/ EnsureStart(w) \/ Check(w)
             \/ FinalCheck(w) \/ Remediate(w)
    <3>1. pc'[w] # "register"
      BY <2>4
         DEF EnsureBackendRunning, EnsureStart, Check, FinalCheck, Remediate,
             RunAndJudge, Goto, Return, Fail, ProcessEnds, AfterRemediation
    <3>2. /\ UNCHANGED <<account, lastGood>>
          /\ backend' \in {backend, account, NoAccount}
          /\ strays' = {}
      BY <2>4
         DEF EnsureBackendRunning, EnsureStart, Check, FinalCheck, Remediate
    <3>3. QED
      BY <3>1, <3>2
  <2>5. CASE Judge(w) \/ FinalJudge(w)
    BY <2>5
       DEF Judge, JudgePasses, JudgeRemediates, JudgeGivesUp, FinalJudge,
           MarkLastGood, Return, Fail, Succeed, ProcessEnds
  <2>6. CASE RotateStop(w) \/ Register(w) \/ RememberRotationAccount(w)
             \/ RotateStart(w) \/ Recheck(w)
    BY <2>6
       DEF RotateStop, Register, RememberRotationAccount, RotateStart, Recheck,
           Goto
  <2>7. CASE Settle(w) \/ MarkRotated(w) \/ Cool(w)
    BY <2>7
       DEF Settle, MarkRotated, Cool, MarkLastGood, AfterRemediation, Goto, Return
  <2>8. CASE Restore(w) \/ RestoreStop(w) \/ RestoreStart(w) \/ RestoreCheck(w)
    <3>1. pc[w] \in {"restoreStop", "restoreStart", "restoreCheck"} => account = lastGood
      BY <2>1 DEF Undisturbed, RestoresLastGood
    <3>2. QED
      BY <2>8, <3>1
         DEF Restore, RestoreStop, RestoreStart, RestoreCheck, Goto
  <2>9. CASE ReloadStop(w) \/ ReloadStart(w)
    BY <2>9 DEF ReloadStop, ReloadStart, Goto, Return
  <2>10. QED
    BY <1>5, <2>4, <2>5, <2>6, <2>7, <2>8, <2>9 DEF WorkerNext
<1>6. CASE UNCHANGED vars
  BY <1>6, <1>m DEF vars
<1>9. QED
  BY <1>1, <1>2, <1>3, <1>b, <1>4, <1>5, <1>6, <1>8 DEF Next

LEMMA AccountStep == ControlInv /\ AccountInv /\ [Next]_vars => AccountInv'
  BY RestoreStep, FitStep DEF AccountInv

\* Checks that find nothing to object to have been run against a backend, if
\* they demand anything, and what account.json holds at that moment has passed.
LEMMA ChecksProve ==
  ASSUME TypeOK, BackendFits, lastGood \in passed \cup {NoAccount},
         NEW F \in Results, RunChecks(F)
  PROVE  /\ passed \subseteq passed'
         /\ ~ActiveFailed(Failing(sett.checks, F)) => account \in passed'
<1>1. passed \subseteq passed'
  BY ChecksType
<1>2. ASSUME ~ActiveFailed(Failing(sett.checks, F)), Demanding(sett.checks)
      PROVE  account \in passed'
  <2>1. PICK a \in Running : passed' = passed \cup {a}
    BY <1>2 DEF RunChecks, ProbeChecks
  <2>2. a = backend /\ a # NoAccount
    BY <2>1 DEF Running, BackendFits
  <2>3. account # NoAccount
    BY DaemonAssumption DEF TypeOK
  <2>4. QED
    BY <1>1, <2>1, <2>2, <2>3 DEF BackendFits
<1>3. ASSUME ~ActiveFailed(Failing(sett.checks, F)), ~Demanding(sett.checks)
      PROVE  account \in passed'
  BY <1>3 DEF RunChecks, ProbeChecks
<1>4. QED
  BY <1>1, <1>2, <1>3

\* The same for a worker that runs the checks to judge by them.
LEMMA ChecksKeep ==
  ASSUME TypeOK, BackendFits, lastGood \in passed \cup {NoAccount},
         NEW w \in Workers, NEW l \in Points, RunAndJudge(w, l)
  PROVE  \/ /\ pc'[w] = "idle"
            /\ passed' = passed
         \/ /\ pc'[w] = l
            /\ current' = sett
            /\ job'[w].own = job[w].own
            /\ passed \subseteq passed'
            /\ ~ActiveFailed(Failing(sett.checks, job'[w].failed))
                 => account \in passed'
<1>1. CASE ResolveFails /\ Fail(w) /\ UNCHANGED passed
  BY <1>1 DEF TypeOK, Fail, Return, ProcessEnds
<1>2. CASE \E F \in Results : RunChecks(F)
             /\ job' = [job EXCEPT ![w].ran = sett.checks, ![w].failed = F]
             /\ pc' = [pc EXCEPT ![w] = l]
  <2>1. PICK F \in Results : RunChecks(F)
             /\ job' = [job EXCEPT ![w].ran = sett.checks, ![w].failed = F]
             /\ pc' = [pc EXCEPT ![w] = l]
    BY <1>2
  <2>2. job[w] \in [op : Operations, attempt : Nat, ran : Seq(CheckKinds),
                   failed : SUBSET Nat, own : Seq(CheckKinds),
                   plan : Configs \cup {Unread}]
    BY DEF TypeOK, Jobs
  <2>3. job'[w] = [job[w] EXCEPT !.ran = sett.checks, !.failed = F]
    BY <2>1 DEF TypeOK
  <2>4. job'[w].failed = F /\ job'[w].own = job[w].own
    BY <2>2, <2>3
  <2>5. QED
    BY <2>1, <2>4, ChecksProve DEF RunChecks, Resolve, TypeOK
<1>3. QED
  BY <1>1, <1>2 DEF RunAndJudge

LEMMA PassedStep ==
  ControlInv /\ CopyInv /\ AccountInv /\ PassedInv /\ [Next]_vars => PassedInv'
<1> SUFFICES ASSUME ControlInv, CopyInv, AccountInv, PassedInv, [Next]_vars,
                    Steady'
             PROVE  /\ lastGood' \in passed' \cup {NoAccount}
                    /\ \A w \in Workers : MarksPassed(w)'
  BY DEF PassedInv
<1> DEFINE Goal == /\ lastGood' \in passed' \cup {NoAccount}
                   /\ \A w \in Workers : MarksPassed(w)'
<1> USE DEF ControlInv, PassedInv, Steady, MarksPassed, TypeOK, disk, work
<1>1. CASE StartDaemon
  BY <1>1 DEF StartDaemon, Goto, DownIsIdle
<1>2. CASE StopDaemon
  BY <1>2 DEF StopDaemon, ProcessEnds
<1>3. CASE Backend \/ CooldownEnds
  <2>1. UNCHANGED <<current, lastGood, account, passed, pc, job, faults>>
    BY <1>3 DEF Backend, CooldownEnds
  <2>2. QED
    BY <2>1 DEF Found
<1>4. ASSUME NEW a \in Accounts, RegisterCommand(a) PROVE Goal
  <2>1. "command" \in faults'
    BY <1>4 DEF RegisterCommand
  <2>2. QED
    BY <2>1
<1>5. ASSUME NEW c \in Configs \cup {Invalid}, EditSettings(c) PROVE Goal
  <2>1. /\ UNCHANGED <<lastGood, passed, pc>>
        /\ faults' = IF \E w \in Workers : pc[w] # "idle"
                     THEN faults \cup {"edited"} ELSE faults
    BY <1>5 DEF EditSettings
  <2>2. \A w \in Workers : pc[w] = "idle"
    BY <2>1
  <2>3. QED
    BY <2>1, <2>2
<1>6. ASSUME NEW w \in Workers, NEW o \in Operations, Begin(w, o)
      PROVE  Goal
  <2>1. /\ UNCHANGED <<current, lastGood, account, passed>>
        /\ pc'[w] \notin {"judge", "finalJudge", "mark"}
        /\ \A v \in Workers \ {w} : pc'[v] = pc[v] /\ job'[v] = job[v]
        /\ Steady
    BY <1>6 DEF Begin, Operations
  <2>2. QED
    BY <2>1 DEF Found
<1>7. ASSUME NEW w \in Workers, WorkerNext(w) PROVE Goal
  <2>1. Steady
    BY <1>7, WorkerMoves
  <2>2. \A v \in Workers \ {w} : pc'[v] = "idle"
    BY <1>7, <2>1, Alone
  <2>3. SUFFICES /\ lastGood' \in passed' \cup {NoAccount}
                 /\ MarksPassed(w)'
    BY <2>2
  <2>4. /\ BackendFits
        /\ lastGood \in passed \cup {NoAccount}
        /\ MarksPassed(w)
        /\ CopiesFit(w)
    BY <2>1 DEF AccountInv, Tracked, CopyInv
  <2> HIDE DEF MarksPassed
  <2>5. CASE Check(w) \/ FinalCheck(w)
    <3>1. /\ UNCHANGED <<account, lastGood>>
          /\ sett' = sett
          /\ \/ pc[w] = "check" /\ RunAndJudge(w, "judge")
             \/ pc[w] = "finalCheck" /\ RunAndJudge(w, "finalJudge")
      BY <2>5 DEF Check, FinalCheck
    <3>2. pc[w] = "finalCheck" => job[w].own = sett.checks
      BY <2>4 DEF CopiesFit
    <3>3. {"judge", "finalJudge"} \subseteq Points
      BY DEF Points
    <3>4. QED
      BY <2>4, <3>1, <3>2, <3>3, ChecksKeep DEF MarksPassed, Found
  <2>6. CASE Recheck(w)
    <3>1. job[w].plan = sett
      BY <2>4, <2>6 DEF Recheck, CopiesFit, Remediation
    <3>2. CASE ResolveFails /\ NextAttempt(w) /\ UNCHANGED passed
      BY <2>4, <2>6, <3>2, AttemptKeeps DEF Recheck, MarksPassed
    <3>3. CASE \E F \in Results :
                 /\ RunChecks(F)
                 /\ IF ActiveFailed(Failing(job[w].plan.checks, F))
                    THEN NextAttempt(w)
                    ELSE Goto(w, "mark")
      <4>1. PICK F \in Results :
              /\ RunChecks(F)
              /\ IF ActiveFailed(Failing(job[w].plan.checks, F))
                 THEN NextAttempt(w)
                 ELSE Goto(w, "mark")
        BY <3>3
      <4>2. /\ passed \subseteq passed'
            /\ ~ActiveFailed(Failing(sett.checks, F)) => account \in passed'
        BY <2>4, <4>1, ChecksProve
      <4>3. CASE NextAttempt(w)
        BY <2>4, <2>6, <4>2, <4>3, AttemptKeeps DEF Recheck, MarksPassed
      <4>4. CASE Goto(w, "mark") /\ ~ActiveFailed(Failing(sett.checks, F))
        BY <2>4, <2>6, <4>2, <4>4 DEF Recheck, MarksPassed, Goto
      <4>5. QED
        BY <3>1, <4>1, <4>3, <4>4
    <3>4. QED
      BY <2>6, <3>2, <3>3 DEF Recheck
  <2>7. CASE RestoreCheck(w)
    <3>1. passed \subseteq passed'
      BY <2>4, <2>7, ChecksProve DEF RestoreCheck
    <3>2. QED
      BY <2>4, <2>7, <3>1 DEF RestoreCheck, Goto, MarksPassed
  <2>8. CASE Judge(w) \/ FinalJudge(w)
    BY <2>4, <2>8
       DEF Judge, JudgePasses, JudgeRemediates, JudgeGivesUp, FinalJudge,
           MarkLastGood, Return, Fail, Succeed, ProcessEnds, MarksPassed
  <2>9. CASE EnsureBackendRunning(w) \/ EnsureStart(w) \/ Remediate(w)
    BY <2>4, <2>9
       DEF EnsureBackendRunning, EnsureStart, Remediate, Goto, Return, Fail,
           ProcessEnds, AfterRemediation, MarksPassed
  <2>10. CASE RotateStop(w) \/ Register(w) \/ RememberRotationAccount(w)
              \/ RotateStart(w)
    BY <2>4, <2>10, AttemptKeeps
       DEF RotateStop, Register, RememberRotationAccount, RotateStart, Goto,
           MarksPassed
  <2>11. CASE Settle(w)
    <3>1. CASE NextAttempt(w) /\ UNCHANGED <<lastGood, passed>>
      BY <2>4, <3>1, AttemptKeeps DEF MarksPassed
    <3>2. CASE Goto(w, "recheck") /\ UNCHANGED <<lastGood, passed>>
      BY <2>4, <3>2 DEF MarksPassed, Goto
    <3>3. ASSUME NEW a \in Running, MarkLastGood, passed' = passed \cup {a},
                 AfterRemediation(w)
          PROVE  /\ lastGood' \in passed' \cup {NoAccount}
                 /\ MarksPassed(w)'
      <4>1. a = backend /\ a # NoAccount
        BY <2>4 DEF Running, BackendFits
      <4>2. account # NoAccount
        BY DaemonAssumption
      <4>3. account \in passed'
        BY <2>4, <3>3, <4>1, <4>2 DEF BackendFits
      <4>4. QED
        BY <3>3, <4>3 DEF MarkLastGood, AfterRemediation, Return, MarksPassed
    <3>4. QED
      BY <2>11, <3>1, <3>2, <3>3 DEF Settle
  <2>12. CASE MarkRotated(w) \/ Cool(w)
    BY <2>4, <2>12
       DEF MarkRotated, Cool, MarkLastGood, AfterRemediation, Return, MarksPassed
  <2>13. CASE Restore(w) \/ RestoreStop(w) \/ RestoreStart(w)
              \/ ReloadStop(w) \/ ReloadStart(w)
    BY <2>4, <2>13
       DEF Restore, RestoreStop, RestoreStart, ReloadStop, ReloadStart, Goto,
           Return, MarksPassed
  <2>14. QED
    BY <1>7, <2>5, <2>6, <2>7, <2>8, <2>9, <2>10, <2>11, <2>12, <2>13
       DEF WorkerNext
<1>8. CASE UNCHANGED vars
  BY <1>8 DEF vars, Found
<1>9. QED
  BY <1>1, <1>2, <1>3, <1>4, <1>5, <1>6, <1>7, <1>8 DEF Next

LEMMA IntactStep ==
  ControlInv /\ NoStrays /\ AccountInv /\ IntactInv /\ [Next]_vars => IntactInv'
<1> SUFFICES ASSUME ControlInv, NoStrays, AccountInv, IntactInv, [Next]_vars,
                    faults' \subseteq {"edited"}
             PROVE  \/ backend' \in {account', NoAccount}
                    \/ \E w \in Workers : pc'[w] = "restoreStop"
  BY DEF IntactInv
<1> DEFINE Goal == \/ backend' \in {account', NoAccount}
                   \/ \E w \in Workers : pc'[w] = "restoreStop"
<1> USE DEF ControlInv, IntactInv, TypeOK, disk, work
<1>m. UNCHANGED managed => backend' = backend
  BY DEF managed
<1>1. CASE StartDaemon
  BY <1>1, <1>m DEF StartDaemon, Goto, DownIsIdle
<1>2. CASE StopDaemon
  BY <1>2, <1>m DEF StopDaemon, ProcessEnds
<1>3. CASE CooldownEnds \/ (\E a \in Accounts : RegisterCommand(a))
             \/ (\E c \in Configs \cup {Invalid} : EditSettings(c))
  <2>2. CASE CooldownEnds
    BY <2>2, <1>m DEF CooldownEnds
  <2>3. ASSUME NEW a \in Accounts, RegisterCommand(a) PROVE Goal
    BY <2>3 DEF RegisterCommand
  <2>4. ASSUME NEW c \in Configs \cup {Invalid}, EditSettings(c) PROVE Goal
    <3>1. UNCHANGED <<account, managed, pc>> /\ faults \subseteq faults'
      BY <2>4 DEF EditSettings
    <3>2. QED
      BY <3>1, <1>m
  <2>5. QED
    BY <1>3, <2>2, <2>3, <2>4
<1>b. CASE Backend
  <2>1. backend' \in {backend, NoAccount}
    BY <1>b, Tidy DEF Backend, NoStrays
  <2>2. QED
    BY <1>b, <2>1 DEF Backend
<1>4. ASSUME NEW w \in Workers, NEW o \in Operations, Begin(w, o)
      PROVE  Goal
  BY <1>4, <1>m DEF Begin
<1>5. ASSUME NEW w \in Workers, WorkerNext(w) PROVE Goal
  <2>1. faults \subseteq {"edited"}
    BY <1>5, WorkerMoves
  <2>2. pc[w] # "restoreStop" => backend \in {account, NoAccount}
    BY <1>5, <2>1, Alone
  <2>a. /\ Stops => backend' = NoAccount
        /\ Starts => backend' = account
        /\ StopsNot \/ StartsNot => backend' \in {backend, NoAccount}
    BY <2>1, Tidy DEF NoStrays
  <2>b. ~StopsNot
    BY DEF StopsNot
  <2> USE <1>m, <2>a, <2>b
  <2>3. CASE EnsureBackendRunning(w) \/ EnsureStart(w) \/ Check(w)
             \/ FinalCheck(w) \/ Remediate(w)
    BY <2>2, <2>3
       DEF EnsureBackendRunning, EnsureStart, Check, FinalCheck, Remediate
  <2>4. CASE Judge(w) \/ FinalJudge(w)
    BY <2>2, <2>4 DEF Judge, FinalJudge
  <2>5. CASE Register(w)
    BY <2>1, <2>2, <2>5 DEF Register, AccountInv, Tracked
  <2>6. CASE RotateStop(w) \/ RememberRotationAccount(w) \/ RotateStart(w)
             \/ Recheck(w) \/ Settle(w) \/ MarkRotated(w) \/ Cool(w)
    BY <2>2, <2>6
       DEF RotateStop, RememberRotationAccount, RotateStart, Recheck, Settle,
           MarkRotated, Cool
  <2>7. CASE Restore(w)
    BY <2>2, <2>7 DEF Restore, Goto
  <2>8. CASE RestoreStop(w)
    BY <2>8 DEF RestoreStop
  <2>9. CASE RestoreStart(w) \/ RestoreCheck(w) \/ ReloadStop(w) \/ ReloadStart(w)
    BY <2>2, <2>9
       DEF RestoreStart, RestoreCheck, ReloadStop, ReloadStart
  <2>10. QED
    BY <1>5, <2>3, <2>4, <2>5, <2>6, <2>7, <2>8, <2>9 DEF WorkerNext
<1>6. CASE UNCHANGED vars
  BY <1>6, <1>m DEF vars
<1>7. QED
  BY <1>1, <1>2, <1>3, <1>b, <1>4, <1>5, <1>6 DEF Next

LEMMA AccountsInvariant == Spec => []AccountsInv
<1>1. Init => AccountsInv
  BY ControlInit
     DEF Init, NoBackend, AccountsInv, CopyInv, CopiesFit, ResultsFit, Remediation,
         NoStrays, AccountInv, BackendFits, RestoresLastGood, PassedInv,
         MarksPassed, IntactInv
<1>2. AccountsInv /\ [Next]_vars => AccountsInv'
  BY ControlStep, CopyStep, StraysStep, AccountStep, PassedStep, IntactStep
     DEF AccountsInv, ControlInv
<1>3. QED
  BY <1>1, <1>2, PTL DEF Spec

\* What restoreLastGood goes back to has satisfied the checks, as long as
\* operations do not overlap, no command replaces the account, the settings do
\* not change under an operation and no process is left to itself.
THEOREM LastGoodHolds == Spec => []LastGoodPassed
<1>1. AccountsInv => LastGoodPassed
  BY DEF AccountsInv, PassedInv, Steady, LastGoodPassed
<1>2. QED
  BY <1>1, AccountsInvariant, PTL

\* A remediation that has failed leaves the last good account in account.json.
THEOREM RestoreHolds == Spec => []FailureRestores
<1>1. AccountsInv => FailureRestores
  BY DEF AccountsInv, AccountInv, Undisturbed, RestoresLastGood, FailureRestores
<1>2. QED
  BY <1>1, AccountsInvariant, PTL

\* Between operations whatever runs is on account.json.
THEOREM BackendMatches == Spec => []BackendHasCurrentAccount
<1>1. AccountsInv => BackendHasCurrentAccount
  BY DEF AccountsInv, NoStrays, IntactInv, Running, BackendHasCurrentAccount
<1>2. QED
  BY <1>1, AccountsInvariant, PTL

-------------------------------------------------------------------------------
(* The exit of the daemon. *)

\* Without a required check, and with settings that resolve and do not change
\* under an operation, only a backend that cannot be started makes the daemon
\* exit with an error.
THEOREM DegradedHolds == Spec => DegradedKeepsRunning
<1> DEFINE Demand == Failing(sett.checks, DOMAIN sett.checks)
           Step == daemon # "failed" /\ daemon' = "failed"
                     /\ sett # Invalid /\ "edited" \notin faults
                     => RequiredFailed(Demand) \/ pc[Loop] = "ensureStart"
<1>1. ASSUME ControlInv, CopyInv, [Next]_vars PROVE [Step]_vars
  <2> SUFFICES ASSUME daemon # "failed", daemon' = "failed",
                      sett # Invalid, "edited" \notin faults,
                      ~RequiredFailed(Demand)
               PROVE  pc[Loop] = "ensureStart"
    OBVIOUS
  <2>1. PICK w \in Workers : WorkerNext(w)
    BY <1>1 DEF Next, vars, StartDaemon, StopDaemon, ProcessEnds, Backend,
                CooldownEnds, RegisterCommand, EditSettings, Begin
  <2>2. CopiesFit(w)
    BY <1>1 DEF CopyInv
  <2>3. \A F : ~RequiredFailed(Failing(sett.checks, F))
    BY DEF RequiredFailed, Failing
  <2>4. CASE EnsureStart(w)
    BY <2>4 DEF EnsureStart, Fail
  <2>5. CASE Judge(w)
    BY <2>2, <2>3, <2>5
       DEF Judge, JudgePasses, JudgeRemediates, JudgeGivesUp, Succeed, Found,
           CopiesFit
  <2>6. CASE FinalJudge(w)
    BY <2>2, <2>3, <2>6 DEF FinalJudge, Succeed, CopiesFit, Remediation
  <2>7. CASE Check(w) \/ FinalCheck(w)
    BY <2>7 DEF Check, FinalCheck, RunAndJudge, ResolveFails
  <2>8. CASE ~(EnsureStart(w) \/ Judge(w) \/ FinalJudge(w) \/ Check(w) \/ FinalCheck(w))
    BY <2>1, <2>8
       DEF WorkerNext, EnsureBackendRunning, Remediate, RotateStop, Register,
           RememberRotationAccount, RotateStart, Settle, Recheck, MarkRotated,
           Restore, RestoreStop, RestoreStart, RestoreCheck, Cool, ReloadStop,
           ReloadStart
  <2>9. QED
    BY <2>4, <2>5, <2>6, <2>7, <2>8
<1>2. QED
  BY <1>1, CopyInvariant, PTL DEF Spec, DegradedKeepsRunning
===============================================================================
