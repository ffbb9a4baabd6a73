----------------------------- MODULE RotateCommand -----------------------------
(***************************************************************************)
(* The commands that put an account into account.json by hand: register    *)
(* (registration new), import, up with its automatic registration, and     *)
(* rotate, which registers until an account brings a new address and       *)
(* passes the unlock checks, and goes back to the account it found when no *)
(* attempt does (cmd/rotate.go, cmd/account_helpers.go).                   *)
(*                                                                         *)
(* Every command is a process of its own and may be killed at any step;    *)
(* nothing locks the state directory.  What others do to a command is kept *)
(* with the command, so that one that starts after a mess and runs         *)
(* undisturbed is held to all its promises.                                *)
(*                                                                         *)
(* Stops and starts are ManagedBackend's: a stop that reports success may  *)
(* leave a process running, and probes reach whichever process has the     *)
(* port.  Files load (StateStore), and whether an assignment qualifies is  *)
(* open (RotationMemory).  Settings resolve, and have a proxy listener     *)
(* (Settings).                                                             *)
(***************************************************************************)
EXTENDS Naturals, UnlockProbe, ManagedBackend

CONSTANTS Commands,   \* processes of the command line
          Accounts,   \* accounts the WARP service registers or a file holds
          Regions,    \* which services are open from an account's address
          Requests    \* what the operator asks for

Operations == {"rotate", "register", "import", "up", "down"}

\* masque: a flag, or for rotate and up the transport, asks for a MASQUE key.
ASSUME RotateAssumption ==
  /\ Regions \subseteq SUBSET Services
  /\ Requests \subseteq [op : Operations, attempts : Nat \ {0},
                         names : SUBSET STRING, masque : BOOLEAN, force : BOOLEAN]
  /\ NoAccount \notin [id : Accounts, masque : BOOLEAN, open : Regions]

VARIABLES
  account,  \* account.json
  pc,       \* where each command is
  request,  \* what it was asked for
  job,      \* its local variables
  result,   \* how it has ended
  used      \* auxiliary: accounts handed out

vars == <<account, managed, pc, request, job, result, used>>

Registrations == [id : Accounts, masque : BOOLEAN, open : Regions]
Faults == {"overlap", "stopFailed", "saveFailed", "errorPage", "stray"}
Points == {"idle", "load", "stop", "look", "register", "enroll", "import", "save",
           "remember", "upLook", "start", "reach", "probe", "judge", "discard",
           "retire", "restore", "restart"}

\* attempt, previous account and wasRunning of rotate, the account being
\* registered, services to probe and whether all so far were available;
\* auxiliary: what has happened to the command.
Fresh == [attempt |-> 1, previous |-> NoAccount, wasRunning |-> FALSE,
          acc |-> NoAccount, left |-> {}, available |-> TRUE, faults |-> {}]

Jobs == [attempt : Nat \ {0}, previous : Registrations \cup {NoAccount},
         wasRunning : BOOLEAN, acc : Registrations \cup {NoAccount},
         left : SUBSET Services, available : BOOLEAN, faults : SUBSET Faults]

Init ==
  /\ account \in Registrations \cup {NoAccount}
  /\ NoBackend
  /\ pc = [c \in Commands |-> "idle"]
  /\ request \in [Commands -> Requests]
  /\ job = [c \in Commands |-> Fresh]
  /\ result = [c \in Commands |-> "none"]
  /\ used = {acc.id : acc \in {account} \ {NoAccount}}

-------------------------------------------------------------------------------
(* How a command goes on with its local variables j, and how it ends. *)

Rotates(c) == request[c].op = "rotate"
Wanted(c) == NormalizeServices(request[c].names)

Continue(c, l, j) ==
  /\ pc' = [pc EXCEPT ![c] = l]
  /\ job' = [job EXCEPT ![c] = j]
  /\ UNCHANGED result

Goto(c, l) == Continue(c, l, job[c])

End(c, how, j) ==
  /\ pc' = [pc EXCEPT ![c] = "idle"]
  /\ job' = [job EXCEPT ![c] = [Fresh EXCEPT !.faults = j.faults]]
  /\ result' = [result EXCEPT ![c] = how]

Suffered(c, F) == [job[c] EXCEPT !.faults = @ \cup F]

\* Mutant: one attempt too many.
NextAttemptOneMore(c, j) ==
  IF j.attempt <= request[c].attempts
  THEN Continue(c, "look", [j EXCEPT !.attempt = @ + 1, !.acc = NoAccount])
  ELSE IF j.previous # NoAccount
       THEN Continue(c, "restore", [j EXCEPT !.acc = NoAccount])
       ELSE End(c, "failure", j)

\* Mutant: the previous account is only restored for a backend that ran.
NextAttemptKeepLast(c, j) ==
  IF j.attempt < request[c].attempts
  THEN Continue(c, "look", [j EXCEPT !.attempt = @ + 1, !.acc = NoAccount])
  ELSE IF j.previous # NoAccount /\ j.wasRunning
       THEN Continue(c, "restore", [j EXCEPT !.acc = NoAccount])
       ELSE End(c, "failure", j)

\* Every continue of the loop over the attempts, and its end.
NextAttempt(c, j) ==
  IF j.attempt < request[c].attempts
  THEN Continue(c, "look", [j EXCEPT !.attempt = @ + 1, !.acc = NoAccount])
  ELSE IF j.previous # NoAccount
       THEN Continue(c, "restore", [j EXCEPT !.acc = NoAccount])
       ELSE End(c, "failure", j)

RegistrationFails(c) ==
  IF Rotates(c) THEN NextAttempt(c, job[c]) ELSE End(c, "failure", job[c])

-------------------------------------------------------------------------------
(* The environment. *)

First == [rotate |-> "load", register |-> "look", import |-> "look",
          up |-> "upLook", down |-> "stop"]

\* A command line; rotate refuses services it does not know.
Begin(c, r) ==
  LET others == {d \in Commands \ {c} : pc[d] # "idle"}
      found == (IF others = {} THEN {} ELSE {"overlap"})
                 \cup (IF strays = {} THEN {} ELSE {"stray"})
  IN /\ pc[c] = "idle"
     /\ r.op = "rotate" => Supported(r.names)
     /\ request' = [request EXCEPT ![c] = r]
     /\ pc' = [pc EXCEPT ![c] = First[r.op]]
     /\ job' = [d \in Commands |->
                  IF d = c THEN [Fresh EXCEPT !.faults = found]
                  ELSE IF d \in others THEN Suffered(d, {"overlap"}) ELSE job[d]]
     /\ result' = [result EXCEPT ![c] = "none"]
     /\ UNCHANGED <<account, managed, used>>

\* An interrupted command: none of them handles a signal.
Kill(c) ==
  /\ pc[c] # "idle"
  /\ pc' = [pc EXCEPT ![c] = "idle"]
  /\ job' = [job EXCEPT ![c] = Fresh]
  /\ UNCHANGED <<account, managed, request, result, used>>

\* What a backend does by itself: BackendMoves, of ManagedBackend.
Backend ==
  /\ BackendMoves
  /\ UNCHANGED <<account, pc, request, job, result, used>>

-------------------------------------------------------------------------------
(* Registration. *)

Forced(c) == Rotates(c) \/ (request[c].op # "up" /\ request[c].force)

Look(c) ==
  /\ pc[c] = "look"
  /\ IF account = NoAccount \/ Forced(c)
     THEN Goto(c, IF request[c].op = "import" THEN "import" ELSE "register")
     ELSE RegistrationFails(c)
  /\ UNCHANGED <<account, managed, request, used>>

\* A MASQUE key is kept up: rotate asks for one if the previous account had it.
MasqueEnroll(c) ==
  \/ request[c].masque
  \/ Rotates(c) /\ job[c].previous # NoAccount /\ job[c].previous.masque

\* The service may register a device and the answer be lost or incomplete.
Register(c) ==
  /\ pc[c] = "register"
  /\ \/ RegistrationFails(c) /\ UNCHANGED used
     \/ \E a \in Accounts \ used, open \in Regions :
          /\ used' = used \cup {a}
          /\ \/ RegistrationFails(c)
             \/ LET acc == [id |-> a, masque |-> FALSE, open |-> open]
                IN Continue(c, IF MasqueEnroll(c) THEN "enroll" ELSE "save",
                            [job[c] EXCEPT !.acc = acc])
  /\ UNCHANGED <<account, managed, request>>

\* A device that cannot be enrolled stays registered, and is not saved.
Enroll(c) ==
  /\ pc[c] = "enroll"
  /\ \/ Continue(c, "save", [job[c] EXCEPT !.acc.masque = TRUE])
     \/ RegistrationFails(c)
  /\ UNCHANGED <<account, managed, request, used>>

Import(c) ==
  /\ pc[c] = "import"
  /\ \/ End(c, "failure", job[c]) /\ UNCHANGED used
     \/ \E acc \in Registrations :
          /\ acc.id \notin used
          /\ used' = used \cup {acc.id}
          /\ Continue(c, "save", [job[c] EXCEPT !.acc = acc])
  /\ UNCHANGED <<account, managed, request>>

\* SaveAccount looks for an account again.
Save(c) ==
  /\ pc[c] = "save"
  /\ \/ RegistrationFails(c) /\ UNCHANGED account
     \/ /\ account = NoAccount \/ Forced(c)
        /\ account' = job[c].acc
        /\ CASE Rotates(c) -> Continue(c, "remember", [job[c] EXCEPT !.acc = NoAccount])
             [] request[c].op = "up" -> Goto(c, "start")
             [] OTHER -> End(c, "success", job[c])
  /\ UNCHANGED <<managed, request, used>>

\* up registers when there is no account and CFWARP_REGISTER_ON_START says so.
UpLook(c) ==
  /\ pc[c] = "upLook"
  /\ IF account # NoAccount THEN Continue(c, "start", [job[c] EXCEPT !.acc = account])
     ELSE Goto(c, "look") \/ End(c, "failure", job[c])
  /\ UNCHANGED <<account, managed, request, used>>

-------------------------------------------------------------------------------
(* Backends.  rotate loads the account where it starts the backend, up     *)
(* before; up asks whether the recorded process lives, rotate whether the  *)
(* backend is active.                                                      *)

Taken(c) == IF Rotates(c) THEN active ELSE backend # NoAccount

Start(c) ==
  /\ pc[c] = "start"
  /\ \/ /\ StartSucceeds(IF Rotates(c) THEN account ELSE job[c].acc, Taken(c))
        /\ IF Rotates(c) THEN Continue(c, "reach", Suffered(c, Strayed))
           ELSE End(c, "success", Suffered(c, Strayed))
     \/ /\ StartFails(Taken(c))
        /\ IF Rotates(c) THEN Continue(c, "discard", Suffered(c, Strayed))
           ELSE End(c, "failure", Suffered(c, Strayed))
  /\ UNCHANGED <<account, request, used>>

\* The stop of down, and the one rotate begins with: its error ends them.
Stop(c) ==
  /\ pc[c] = "stop"
  /\ \/ /\ StopSucceeds
        /\ IF Rotates(c) THEN Continue(c, "look", Suffered(c, Strayed))
           ELSE End(c, "success", Suffered(c, Strayed))
     \/ /\ StopFails
        /\ End(c, "failure", Suffered(c, {"stopFailed"}))
  /\ UNCHANGED <<account, request, used>>

-------------------------------------------------------------------------------
(* rotate. *)

\* LoadAccount, and IsRuntimeActive of the loaded runtime.
Load(c) ==
  /\ pc[c] = "load"
  /\ Continue(c, "stop", [job[c] EXCEPT !.previous = account,
                                        !.wasRunning = active])
  /\ UNCHANGED <<account, managed, request, used>>

\* The account does not load, is not remembered or does not qualify; or it
\* will do as it is; or it is to be started.
RememberRotationAccount(c) ==
  /\ pc[c] = "remember"
  /\ \/ NextAttempt(c, job[c])
     \/ IF job[c].wasRunning \/ Wanted(c) # {}
        THEN Goto(c, "start") ELSE End(c, "success", job[c])
  /\ UNCHANGED <<account, managed, request, used>>

\* waitForProxyReachable.
Reach(c) ==
  /\ pc[c] = "reach"
  /\ \/ Goto(c, "discard")
     \/ /\ Running # {}
        /\ IF Wanted(c) = {} THEN End(c, "success", job[c])
           ELSE Continue(c, "probe", [job[c] EXCEPT !.left = Wanted(c),
                                                    !.available = TRUE])
  /\ UNCHANGED <<account, managed, request, used>>

\* What comes back through the proxy of whichever process has the port, error
\* pages included.
Genuine(s) == UNION {Answers(s, s \in acc.open) : acc \in Running}
Replies(s) ==
  {Unreached(s)} \cup Genuine(s) \cup (IF Running = {} THEN {} ELSE ErrorPages(s))

ProbeService(c) ==
  /\ pc[c] = "probe"
  /\ \E s \in job[c].left : \E answer \in Replies(s) :
       LET faults == IF answer \in Genuine(s) \cup {Unreached(s)}
                     THEN {} ELSE {"errorPage"}
       IN Continue(c, IF job[c].left = {s} THEN "judge" ELSE "probe",
            [job[c] EXCEPT !.left = @ \ {s},
                           !.available = @ /\ OK(Probe(s, answer)),
                           !.faults = @ \cup faults])
  /\ UNCHANGED <<account, managed, request, used>>

\* Mutant: the backend started for the checks is left running.
JudgeAndLeave(c) ==
  /\ pc[c] = "judge"
  /\ IF job[c].available THEN End(c, "success", job[c]) ELSE Goto(c, "discard")
  /\ UNCHANGED <<account, managed, request, used>>

\* requireUnlockResults.
Judge(c) ==
  /\ pc[c] = "judge"
  /\ IF ~job[c].available THEN Goto(c, "discard")
     ELSE IF job[c].wasRunning THEN End(c, "success", job[c])
     ELSE Goto(c, "retire")
  /\ UNCHANGED <<account, managed, request, used>>

\* The stops inside the loop, whose errors are ignored: after an attempt that
\* has failed, and of a backend that ran for the checks only.
Discard(c) ==
  /\ pc[c] = "discard"
  /\ \/ StopSucceeds /\ NextAttempt(c, Suffered(c, Strayed))
     \/ StopFails /\ NextAttempt(c, Suffered(c, {"stopFailed"}))
  /\ UNCHANGED <<account, request, used>>

Retire(c) ==
  /\ pc[c] = "retire"
  /\ \/ StopSucceeds /\ End(c, "success", Suffered(c, Strayed))
     \/ StopFails /\ End(c, "success", Suffered(c, {"stopFailed"}))
  /\ UNCHANGED <<account, request, used>>

Restore(c) ==
  /\ pc[c] = "restore"
  /\ \/ /\ account' = job[c].previous
        /\ IF job[c].wasRunning THEN Goto(c, "restart")
           ELSE End(c, "failure", job[c])
     \/ End(c, "failure", Suffered(c, {"saveFailed"})) /\ UNCHANGED account
  /\ UNCHANGED <<managed, request, used>>

Restart(c) ==
  /\ pc[c] = "restart"
  /\ StartSucceeds(account, active) \/ StartFails(active)
  /\ End(c, "failure", Suffered(c, Strayed))
  /\ UNCHANGED <<account, request, used>>

-------------------------------------------------------------------------------
CommandNext(c) ==
  \/ Look(c) \/ Register(c) \/ Enroll(c) \/ Import(c) \/ Save(c) \/ UpLook(c)
  \/ Start(c) \/ Stop(c)
  \/ Load(c) \/ RememberRotationAccount(c) \/ Reach(c) \/ ProbeService(c)
  \/ Judge(c) \/ Discard(c) \/ Retire(c) \/ Restore(c) \/ Restart(c)

Next ==
  \/ Backend
  \/ \E c \in Commands :
       CommandNext(c) \/ Kill(c) \/ \E r \in Requests : Begin(c, r)

Spec == Init /\ [][Next]_vars

-------------------------------------------------------------------------------
(* Properties. *)

TypeOK ==
  /\ account \in Registrations \cup {NoAccount}
  /\ backend \in Registrations \cup {NoAccount}
  /\ active \in BOOLEAN
  /\ strays \in SUBSET Registrations
  /\ pc \in [Commands -> Points]
  /\ request \in [Commands -> Requests]
  /\ job \in [Commands -> Jobs]
  /\ \A c \in Commands : job[c].attempt <= request[c].attempts
  /\ result \in [Commands -> {"none", "success", "failure"}]
  /\ used \subseteq Accounts

\* A rotate that is past its first look ends, in a step.
Ends(c, how) ==
  /\ Rotates(c) /\ pc[c] \notin {"idle", "load"}
  /\ pc'[c] = "idle" /\ result'[c] = how

\* A rotate that reports failure leaves the account it found, whichever of its
\* attempts failed where, and whatever state an earlier command left behind.
FailureGoesBack ==
  [][\A c \in Commands :
       /\ Ends(c, "failure")
       /\ job'[c].faults \subseteq {"stopFailed", "errorPage", "stray"}
       /\ job[c].previous # NoAccount
       => account' = job[c].previous]_vars

\* A rotate that reports success leaves an account it has registered, with a
\* MASQUE key if the previous one had one, and from whose address every service
\* asked for is open.  The probes of chatgpt, claude and netflix take an error
\* page for a yes, and those of a process left behind by an earlier attempt are
\* taken for those of the new account.
SuccessIsTested ==
  [][\A c \in Commands :
       Ends(c, "success") /\ "overlap" \notin job'[c].faults =>
         /\ account' # NoAccount
         /\ job[c].previous # NoAccount =>
              /\ account'.id # job[c].previous.id
              /\ job[c].previous.masque => account'.masque
         /\ \A s \in Wanted(c) :
              \/ s \in account'.open
              \/ s \in {"chatgpt", "claude", "netflix"} /\ "errorPage" \in job'[c].faults
              \/ "stray" \in job'[c].faults]_vars

\* However it ends, a rotate leaves no backend where it found none, and none
\* but that of account.json where it found one; unless a stop or a start has
\* left a process to itself.
LeavesAsFound ==
  [][\A c \in Commands :
       /\ Ends(c, "success") \/ Ends(c, "failure")
       /\ job'[c].faults \subseteq {"errorPage"}
       => Running' \subseteq (IF job[c].wasRunning THEN {account'} ELSE {})]_vars

===============================================================================
