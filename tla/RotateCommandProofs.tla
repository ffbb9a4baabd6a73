-------------------------- MODULE RotateCommandProofs --------------------------
(***************************************************************************)
(* Proofs about RotateCommand for any number of commands at once, every    *)
(* supply of accounts and every list of requests.                          *)
(***************************************************************************)
EXTENDS RotateCommand, TLAPS

USE DEF managed

-------------------------------------------------------------------------------
(* Probes. *)

\* A refusal of YouTube is one whatever else the page says.
LEMMA YouTubeRefuses ==
  ASSUME NEW home, "google.cn" \in home \/ "not available" \in home
  PROVE  YouTube(home) = "unavailable"
  BY DEF YouTube

\* A service found available is open, unless an error page answered for
\* chatgpt, claude or netflix.
LEMMA AvailableIsOpen ==
  ASSUME NEW s \in Services, NEW region, NEW answer,
         answer \in Answers(s, s \in region) \cup ErrorPages(s) \cup {Unreached(s)},
         OK(Probe(s, answer))
  PROVE  \/ s \in region
         \/ /\ s \in {"chatgpt", "claude", "netflix"}
            /\ answer \notin Answers(s, s \in region) \cup {Unreached(s)}
<1> SUFFICES ASSUME s \notin region
             PROVE  /\ s \in {"chatgpt", "claude", "netflix"}
                    /\ answer \notin Answers(s, s \in region) \cup {Unreached(s)}
  OBVIOUS
<1>1. ~Lost(answer) /\ Evaluate(s, answer) = "available"
  BY DEF OK, Probe
<1>2. answer # Unreached(s)
  <2>1. \E page \in Pages(s) : TRUE
    BY DEF Services, Pages
  <2>2. QED
    BY <1>1, <2>1 DEF Lost, Unreached
<1>3. CASE s = "gemini"
  BY <1>1, <1>2, <1>3 DEF Evaluate, Gemini, Answers, ErrorPages, Pages
<1>4. CASE s = "youtube"
  <2>1. answer.home \in {{"google.cn"}, {"not available"}, {"not available", "ad-free"}, {}}
    BY <1>2, <1>4 DEF Answers, ErrorPages, Pages
  <2>2. YouTube(answer.home) = "available"
    BY <1>1, <1>4 DEF Evaluate
  <2>3. CASE answer.home = {}
    BY <2>2, <2>3 DEF YouTube
  <2>4. CASE answer.home # {}
    <3>1. "google.cn" \in answer.home \/ "not available" \in answer.home
      BY <2>1, <2>4
    <3>2. QED
      BY <2>2, <3>1, YouTubeRefuses
  <2>5. QED
    BY <2>3, <2>4
<1>5. CASE s = "chatgpt"
  <2>1. ASSUME answer \in Answers(s, s \in region)
        PROVE  FALSE
    <3>1. /\ answer.cookies \in {{}, {"unsupported_country"}}
          /\ answer.ios \in {{}, {"vpn"}}
          /\ answer # [cookies |-> {}, ios |-> {}]
          /\ answer = [cookies |-> answer.cookies, ios |-> answer.ios]
      BY <1>5, <2>1 DEF Answers
    <3>2. ChatGPT(answer.cookies, answer.ios) = "available"
      BY <1>1, <1>5 DEF Evaluate
    <3>3. "unsupported_country" \in answer.cookies \/ "vpn" \in answer.ios
      BY <3>1
    <3>4. QED
      BY <3>2, <3>3 DEF ChatGPT
  <2>2. QED
    BY <1>2, <1>5, <2>1
<1>6. CASE s = "claude"
  <2>1. ASSUME answer \in Answers(s, s \in region)
        PROVE  FALSE
    <3>1. answer.final = {"unavailable-in-region"}
      BY <1>6, <2>1 DEF Answers
    <3>2. QED
      BY <1>1, <1>6, <3>1 DEF Evaluate, Claude
  <2>2. QED
    BY <1>2, <1>6, <2>1
<1>7. CASE s = "netflix"
  <2>1. ASSUME answer \in Answers(s, s \in region)
        PROVE  FALSE
    <3>1. answer = [titleA |-> {"oh no"}, titleB |-> {"oh no"}]
      <4>1. Answers(s, s \in region) = {[titleA |-> {"oh no"}, titleB |-> {"oh no"}]}
        BY <1>7 DEF Answers
      <4>2. QED
        BY <2>1, <4>1
    <3>2. answer.titleA = {"oh no"} /\ answer.titleB = {"oh no"}
      BY <3>1, Zenon
    <3>3. Evaluate(s, answer) = Netflix(answer.titleA, answer.titleB)
      BY <1>7 DEF Evaluate
    <3>4. Netflix(answer.titleA, answer.titleB) = "web_only"
      BY <3>2 DEF Netflix
    <3>5. QED
      BY <1>1, <3>3, <3>4
  <2>2. QED
    BY <1>2, <1>7, <2>1
<1>8. QED
  BY <1>3, <1>4, <1>5, <1>6, <1>7 DEF Services

\* What has not been reached is not available.
LEMMA UnreachedIsNot ==
  ASSUME NEW s \in Services
  PROVE  ~OK(Probe(s, Unreached(s)))
<1>1. \E page \in Pages(s) : TRUE
  BY DEF Services, Pages
<1>2. Lost(Unreached(s))
  BY <1>1 DEF Lost, Unreached
<1>3. QED
  BY <1>2 DEF Probe, OK

-------------------------------------------------------------------------------
(* Types. *)

\* What a command is asked for, and how it starts out.
LEMMA RequestType ==
  ASSUME NEW r \in Requests
  PROVE  /\ r.op \in Operations /\ r.attempts \in Nat \ {0}
         /\ r.masque \in BOOLEAN /\ r.force \in BOOLEAN
         /\ First[r.op] \in Points
         /\ 1 \in 1..r.attempts
<1>1. r \in [op : Operations, attempts : Nat \ {0}, names : SUBSET STRING,
             masque : BOOLEAN, force : BOOLEAN]
  BY RotateAssumption
<1>2. QED
  BY <1>1 DEF Operations, First, Points

LEMMA FreshType ==
  /\ Fresh \in Jobs
  /\ \A F \in SUBSET Faults : [Fresh EXCEPT !.faults = F] \in Jobs
<1>1. {} \in SUBSET Services /\ {} \in SUBSET Faults /\ 1 \in Nat \ {0}
  OBVIOUS
<1>2. Fresh \in Jobs
  BY <1>1 DEF Fresh, Jobs
<1>3. QED
  BY <1>2 DEF Jobs

LEMMA TypeInit == Init => TypeOK
<1> SUFFICES ASSUME Init PROVE TypeOK
  OBVIOUS
<1>1. job \in [Commands -> Jobs]
  BY FreshType DEF Init
<1>2. \A c \in Commands : job[c].attempt <= request[c].attempts
  BY RequestType DEF Init, Fresh
<1>3. pc \in [Commands -> Points]
  BY DEF Init, Points
<1>4. used \subseteq Accounts
  BY DEF Init, Registrations
<1>5. QED
  BY <1>1, <1>2, <1>3, <1>4 DEF Init, NoBackend, TypeOK

\* Jobs with one of their fields changed.
LEMMA JobUpdates ==
  ASSUME NEW j \in Jobs
  PROVE  /\ [j EXCEPT !.attempt = @ + 1] \in Jobs
         /\ \A a \in Registrations \cup {NoAccount} : [j EXCEPT !.acc = a] \in Jobs
         /\ \A F \in SUBSET Faults : [j EXCEPT !.faults = @ \cup F] \in Jobs
<1>1. [j EXCEPT !.attempt = @ + 1] \in Jobs
  <2>1. j.attempt + 1 \in Nat \ {0}
    BY DEF Jobs
  <2>2. QED
    BY <2>1 DEF Jobs
<1>2. \A a \in Registrations \cup {NoAccount} : [j EXCEPT !.acc = a] \in Jobs
  BY DEF Jobs
<1>3. \A F \in SUBSET Faults : [j EXCEPT !.faults = @ \cup F] \in Jobs
  BY DEF Jobs
<1>4. QED
  BY <1>1, <1>2, <1>3

\* A job that command c may have.
Fits(c, j) == j \in Jobs /\ j.attempt <= request[c].attempts

\* What a step keeps that moves a command on, or ends it.
Typed ==
  /\ pc' \in [Commands -> Points]
  /\ job' \in [Commands -> Jobs]
  /\ \A d \in Commands : job'[d].attempt <= request[d].attempts
  /\ result' \in [Commands -> {"none", "success", "failure"}]

LEMMA ContinueType ==
  ASSUME TypeOK, NEW c \in Commands, NEW l \in Points, NEW j, Fits(c, j),
         Continue(c, l, j)
  PROVE  Typed
<1>1. job' = [job EXCEPT ![c] = j] /\ pc' = [pc EXCEPT ![c] = l] /\ result' = result
  BY DEF Continue
<1>2. job' \in [Commands -> Jobs]
  BY <1>1 DEF TypeOK, Fits
<1>3. \A d \in Commands : job'[d].attempt <= request[d].attempts
  <2> TAKE d \in Commands
  <2>1. job'[d] = IF d = c THEN j ELSE job[d]
    BY <1>1 DEF TypeOK
  <2>2. QED
    BY <2>1 DEF TypeOK, Fits
<1>4. QED
  BY <1>1, <1>2, <1>3 DEF TypeOK, Typed

LEMMA EndType ==
  ASSUME TypeOK, NEW c \in Commands, NEW how \in {"success", "failure"},
         NEW j, Fits(c, j), End(c, how, j)
  PROVE  Typed
<1>1. j.faults \in SUBSET Faults
  BY DEF Fits, Jobs
<1>2. [Fresh EXCEPT !.faults = j.faults] \in Jobs
  BY <1>1, FreshType
<1>3. [Fresh EXCEPT !.faults = j.faults].attempt <= request[c].attempts
  BY RequestType DEF TypeOK, Fresh
<1>4. /\ job' = [job EXCEPT ![c] = [Fresh EXCEPT !.faults = j.faults]]
      /\ pc' = [pc EXCEPT ![c] = "idle"] /\ "idle" \in Points
      /\ result' = [result EXCEPT ![c] = how]
  BY DEF End, Points
<1>5. job' \in [Commands -> Jobs]
  BY <1>2, <1>4 DEF TypeOK
<1>6. \A d \in Commands : job'[d].attempt <= request[d].attempts
  <2> TAKE d \in Commands
  <2>1. job'[d] = IF d = c THEN [Fresh EXCEPT !.faults = j.faults] ELSE job[d]
    BY <1>4 DEF TypeOK
  <2>2. QED
    BY <1>3, <2>1 DEF TypeOK
<1>7. QED
  BY <1>4, <1>5, <1>6 DEF TypeOK, Typed

LEMMA NextAttemptType ==
  ASSUME TypeOK, NEW c \in Commands, NEW j, Fits(c, j), NextAttempt(c, j)
  PROVE  Typed
<1>1. "look" \in Points /\ "restore" \in Points
  BY DEF Points
<1>2. request[c].attempts \in Nat
  BY RequestType DEF TypeOK
<1>3. CASE j.attempt < request[c].attempts
  <2>1. Fits(c, [j EXCEPT !.attempt = @ + 1, !.acc = NoAccount])
    <3>1. j \in Jobs /\ j.attempt \in Nat
      BY DEF Fits, Jobs
    <3>2. [j EXCEPT !.attempt = @ + 1, !.acc = NoAccount] \in Jobs
      BY <3>1, JobUpdates
    <3>3. [j EXCEPT !.attempt = @ + 1, !.acc = NoAccount].attempt = j.attempt + 1
      BY <3>1 DEF Jobs
    <3>4. QED
      BY <1>2, <1>3, <3>1, <3>2, <3>3 DEF Fits
  <2>2. Continue(c, "look", [j EXCEPT !.attempt = @ + 1, !.acc = NoAccount])
    BY <1>3 DEF NextAttempt
  <2>3. QED
    BY <1>1, <2>1, <2>2, ContinueType, Zenon
<1>4. CASE ~(j.attempt < request[c].attempts) /\ j.previous # NoAccount
  <2>1. Fits(c, [j EXCEPT !.acc = NoAccount])
    BY DEF Fits, Jobs
  <2>2. Continue(c, "restore", [j EXCEPT !.acc = NoAccount])
    BY <1>4 DEF NextAttempt
  <2>3. QED
    BY <1>1, <2>1, <2>2, ContinueType, Zenon
<1>5. CASE ~(j.attempt < request[c].attempts) /\ j.previous = NoAccount
  BY <1>5, EndType DEF NextAttempt
<1>6. QED
  BY <1>3, <1>4, <1>5

LEMMA JobFits ==
  ASSUME TypeOK, NEW c \in Commands
  PROVE  Fits(c, job[c])
BY DEF TypeOK, Fits

LEMMA RegistrationFailsType ==
  ASSUME TypeOK, NEW c \in Commands, RegistrationFails(c)
  PROVE  Typed
BY JobFits, NextAttemptType, EndType DEF RegistrationFails

LEMMA SufferedFits ==
  ASSUME TypeOK, NEW c \in Commands
  PROVE  /\ \A F \in SUBSET Faults : Fits(c, Suffered(c, F))
         /\ Fits(c, Suffered(c, Strayed))
         /\ Fits(c, Suffered(c, {"stopFailed"})) /\ Fits(c, Suffered(c, {"saveFailed"}))
<1>1. ASSUME NEW F \in SUBSET Faults PROVE Fits(c, Suffered(c, F))
  <2>1. Suffered(c, F) \in Jobs
    BY JobFits, JobUpdates DEF Fits, Suffered
  <2>2. Suffered(c, F).attempt = job[c].attempt
    BY JobFits DEF Fits, Jobs, Suffered
  <2>3. QED
    BY <2>1, <2>2, JobFits DEF Fits
<1>2. Strayed \in SUBSET Faults /\ {"stopFailed"} \in SUBSET Faults
      /\ {"saveFailed"} \in SUBSET Faults
  BY DEF Strayed, Faults
<1>3. QED
  BY <1>1, <1>2

LEMMA GotoType ==
  ASSUME TypeOK, NEW c \in Commands, NEW l \in Points, Goto(c, l)
  PROVE  Typed
BY JobFits, ContinueType DEF Goto

\* Where commands are for each operation, and what a registration leaves them
\* with.
Inside(c) ==
  /\ pc[c] \in {"load", "remember", "reach", "probe", "judge", "discard", "retire",
               "restore", "restart"} => Rotates(c)
  /\ Rotates(c) /\ pc[c] # "idle" =>
       Wanted(c) \subseteq Services /\ pc[c] \notin {"import", "upLook"}
  /\ pc[c] \in {"enroll", "save"} =>
       /\ job[c].acc \in Registrations
       /\ Rotates(c) /\ job[c].previous # NoAccount =>
            /\ job[c].acc.id # job[c].previous.id
            /\ pc[c] = "save" /\ job[c].previous.masque => job[c].acc.masque

\* Registrations and backends, for the steps of a command on its own.
Backends ==
  /\ backend \in Registrations \cup {NoAccount}
  /\ active \in BOOLEAN
  /\ strays \in SUBSET Registrations

TypeAround ==
  /\ account \in Registrations \cup {NoAccount}
  /\ used \subseteq Accounts
  /\ Backends

\* Whatever happens to the backends keeps their types.
LEMMA ManagedType ==
  ASSUME TypeOK, NEW acc \in Registrations \cup {NoAccount}, NEW taken
  PROVE  \/ StopSucceeds \/ StopFails \/ StartSucceeds(acc, taken)
         \/ StartFails(taken) \/ BackendMoves
         => Backends'
<1> USE DEF TypeOK, Backends, Running
<1>1. StopSucceeds \/ StopFails => Backends'
  BY DEF StopSucceeds, StopFails
<1>2. StartSucceeds(acc, taken) => Backends'
  BY DEF StartSucceeds
<1>3. StartFails(taken) => Backends'
  BY DEF StartFails
<1>4. BackendMoves => Backends'
  BY DEF BackendMoves, BackendConnects, BackendDies, StrayMoves
<1>5. QED
  BY <1>1, <1>2, <1>3, <1>4

LEMMA EnterType ==
  ASSUME TypeOK, NEW c \in Commands, Inside(c),
         \/ Look(c) \/ Register(c) \/ Enroll(c) \/ Import(c) \/ Save(c) \/ UpLook(c)
  PROVE  TypeAround' /\ Typed
<1> USE DEF TypeAround, Backends
<1>1. {"register", "enroll", "import", "save", "look", "start", "remember"} \subseteq Points
  BY DEF Points
<1>2. Fits(c, job[c]) /\ request[c] \in Requests
  BY JobFits DEF TypeOK
<1>3. TypeAround
  BY DEF TypeOK
<1>4. ASSUME NEW a \in Registrations \cup {NoAccount}
      PROVE  Fits(c, [job[c] EXCEPT !.acc = a])
  <2>1. [job[c] EXCEPT !.acc = a].attempt = job[c].attempt
    BY <1>2 DEF Fits, Jobs
  <2>2. QED
    BY <1>2, <2>1, JobUpdates DEF Fits
<1>5. CASE Look(c)
  <2>1. Typed
    BY <1>1, <1>5, GotoType, RegistrationFailsType DEF Look
  <2>2. QED
    BY <1>3, <1>5, <2>1 DEF Look
<1>6. CASE Register(c)
  <2>1. CASE RegistrationFails(c) /\ UNCHANGED used
    BY <1>3, <1>6, <2>1, RegistrationFailsType DEF Register
  <2>2. ASSUME NEW a \in Accounts \ used, NEW open \in Regions,
               used' = used \cup {a},
               \/ RegistrationFails(c)
               \/ LET acc == [id |-> a, masque |-> FALSE, open |-> open]
                  IN Continue(c, IF MasqueEnroll(c) THEN "enroll" ELSE "save",
                              [job[c] EXCEPT !.acc = acc])
        PROVE  TypeAround' /\ Typed
    <3>1. [id |-> a, masque |-> FALSE, open |-> open] \in Registrations
      BY DEF Registrations
    <3>2. Fits(c, [job[c] EXCEPT !.acc = [id |-> a, masque |-> FALSE, open |-> open]])
      BY <1>4, <3>1
    <3>3. Typed
      BY <1>1, <2>2, <3>2, ContinueType, RegistrationFailsType
    <3>4. QED
      BY <1>3, <1>6, <2>2, <3>3 DEF Register
  <2>3. QED
    BY <1>6, <2>1, <2>2 DEF Register
<1>7. CASE Enroll(c)
  <2>1. job[c].acc \in Registrations
    BY <1>7 DEF Enroll, Inside
  <2>2. [job[c].acc EXCEPT !.masque = TRUE] \in Registrations
    BY <2>1 DEF Registrations
  <2>3. [job[c] EXCEPT !.acc.masque = TRUE]
          = [job[c] EXCEPT !.acc = [job[c].acc EXCEPT !.masque = TRUE]]
    BY <1>2 DEF Fits, Jobs
  <2>4. Fits(c, [job[c] EXCEPT !.acc.masque = TRUE])
    BY <1>4, <2>2, <2>3
  <2>5. Typed
    BY <1>1, <1>7, <2>4, ContinueType, RegistrationFailsType DEF Enroll
  <2>6. QED
    BY <1>3, <1>7, <2>5 DEF Enroll
<1>8. CASE Import(c)
  <2>1. CASE End(c, "failure", job[c]) /\ UNCHANGED used
    BY <1>2, <1>3, <1>8, <2>1, EndType DEF Import
  <2>2. ASSUME NEW acc \in Registrations, used' = used \cup {acc.id},
               Continue(c, "save", [job[c] EXCEPT !.acc = acc])
        PROVE  TypeAround' /\ Typed
    <3>1. acc.id \in Accounts
      BY DEF Registrations
    <3>2. Typed
      BY <1>1, <1>4, <2>2, ContinueType
    <3>3. QED
      BY <1>3, <1>8, <2>2, <3>1, <3>2 DEF Import
  <2>3. QED
    BY <1>8, <2>1, <2>2 DEF Import
<1>9. CASE Save(c)
  <2>1. account' \in Registrations \cup {NoAccount}
    BY <1>2, <1>3, <1>9 DEF Save, Fits, Jobs
  <2>2. Typed
    <3>1. CASE RegistrationFails(c)
      BY <3>1, RegistrationFailsType
    <3>2. CASE Rotates(c) /\ Continue(c, "remember", [job[c] EXCEPT !.acc = NoAccount])
      BY <1>1, <1>4, <3>2, ContinueType
    <3>3. CASE Goto(c, "start")
      BY <1>1, <3>3, GotoType
    <3>4. CASE End(c, "success", job[c])
      BY <1>2, <3>4, EndType
    <3>5. QED
      BY <1>9, <3>1, <3>2, <3>3, <3>4 DEF Save, Rotates
  <2>3. QED
    BY <1>3, <1>9, <2>1, <2>2 DEF Save
<1>10. CASE UpLook(c)
  <2>1. Typed
    BY <1>1, <1>2, <1>3, <1>4, <1>10, GotoType, ContinueType, EndType DEF UpLook
  <2>2. QED
    BY <1>3, <1>10, <2>1 DEF UpLook
<1>11. QED
  BY <1>5, <1>6, <1>7, <1>8, <1>9, <1>10

LEMMA BackendType ==
  ASSUME TypeOK, NEW c \in Commands,
         Start(c) \/ Stop(c) \/ Discard(c) \/ Retire(c) \/ Restore(c) \/ Restart(c)
  PROVE  TypeAround' /\ Typed
<1>1. {"look", "reach", "discard", "restart"} \subseteq Points
  BY DEF Points
<1>2. /\ Fits(c, job[c])
      /\ job[c].previous \in Registrations \cup {NoAccount}
      /\ job[c].acc \in Registrations \cup {NoAccount}
      /\ account \in Registrations \cup {NoAccount}
  BY JobFits DEF Fits, Jobs, TypeOK
<1>3. TypeAround
  BY DEF TypeOK, TypeAround, Backends
<1>4. /\ Fits(c, Suffered(c, Strayed))
      /\ Fits(c, Suffered(c, {"stopFailed"})) /\ Fits(c, Suffered(c, {"saveFailed"}))
  BY SufferedFits
<1>b. UNCHANGED managed => Backends'
  BY DEF TypeOK, Backends
<1>5. CASE Start(c)
  <2>1. Typed
    BY <1>1, <1>4, <1>5, ContinueType, EndType DEF Start
  <2>2. PICK acc \in Registrations \cup {NoAccount} :
          StartSucceeds(acc, Taken(c)) \/ StartFails(Taken(c))
    BY <1>2, <1>5 DEF Start
  <2>3. QED
    BY <1>3, <1>5, <2>1, <2>2, ManagedType DEF Start, TypeAround
<1>6. CASE Stop(c)
  <2>1. Typed
    BY <1>1, <1>4, <1>6, ContinueType, EndType DEF Stop
  <2>2. QED
    BY <1>2, <1>3, <1>6, <2>1, ManagedType DEF Stop, TypeAround
<1>7. CASE Discard(c)
  <2>1. Typed
    BY <1>4, <1>7, NextAttemptType DEF Discard
  <2>2. QED
    BY <1>2, <1>3, <1>7, <2>1, ManagedType DEF Discard, TypeAround
<1>8. CASE Retire(c)
  <2>1. Typed
    BY <1>4, <1>8, EndType DEF Retire
  <2>2. QED
    BY <1>2, <1>3, <1>8, <2>1, ManagedType DEF Retire, TypeAround
<1>9. CASE Restore(c)
  <2>1. Typed
    BY <1>1, <1>2, <1>4, <1>9, GotoType, EndType DEF Restore
  <2>2. QED
    BY <1>2, <1>3, <1>9, <1>b, <2>1 DEF Restore, TypeAround
<1>10. CASE Restart(c)
  <2>1. Typed
    BY <1>4, <1>10, EndType DEF Restart
  <2>2. QED
    BY <1>2, <1>3, <1>10, <2>1, ManagedType DEF Restart, TypeAround
<1>11. QED
  BY <1>5, <1>6, <1>7, <1>8, <1>9, <1>10

LEMMA CheckType ==
  ASSUME TypeOK, NEW c \in Commands, Inside(c),
         \/ Load(c) \/ RememberRotationAccount(c) \/ Reach(c) \/ ProbeService(c)
         \/ Judge(c)
  PROVE  TypeAround' /\ Typed
<1> USE DEF TypeAround, Backends
<1>1. {"stop", "start", "discard", "probe", "judge", "retire"} \subseteq Points
  BY DEF Points
<1>2. Fits(c, job[c]) /\ job[c] \in Jobs
  BY JobFits DEF Fits
<1>3. TypeAround
  BY DEF TypeOK
<1>4. CASE Load(c)
  <2>1. Fits(c, [job[c] EXCEPT !.previous = account, !.wasRunning = active])
    <3>1. active \in BOOLEAN
      BY DEF TypeOK
    <3>2. [job[c] EXCEPT !.previous = account, !.wasRunning = active] \in Jobs
      BY <1>2, <1>3, <3>1 DEF Jobs
    <3>3. QED
      BY <1>2, <3>2 DEF Fits, Jobs
  <2>2. Typed
    BY <1>1, <1>4, <2>1, ContinueType DEF Load
  <2>3. QED
    BY <1>3, <1>4, <2>2 DEF Load
<1>5. CASE RememberRotationAccount(c)
  BY <1>1, <1>2, <1>3, <1>5, NextAttemptType, GotoType, EndType
  DEF RememberRotationAccount
<1>6. CASE Reach(c)
  <2>1. Wanted(c) \subseteq Services
    BY <1>6 DEF Reach, Inside
  <2>2. Fits(c, [job[c] EXCEPT !.left = Wanted(c), !.available = TRUE])
    BY <1>2, <2>1 DEF Fits, Jobs
  <2>3. Typed
    BY <1>1, <1>2, <1>6, <2>2, GotoType, EndType, ContinueType DEF Reach
  <2>4. QED
    BY <1>3, <1>6, <2>3 DEF Reach
<1>7. CASE ProbeService(c)
  <2> DEFINE After(s, answer, F) ==
        [job[c] EXCEPT !.left = @ \ {s},
                       !.available = @ /\ OK(Probe(s, answer)),
                       !.faults = @ \cup F]
  <2>1. PICK s \in job[c].left : \E answer \in Replies(s), F \in SUBSET {"errorPage"} :
          Continue(c, IF job[c].left = {s} THEN "judge" ELSE "probe", After(s, answer, F))
    BY <1>7 DEF ProbeService
  <2>2. PICK answer \in Replies(s), F \in SUBSET {"errorPage"} :
          Continue(c, IF job[c].left = {s} THEN "judge" ELSE "probe", After(s, answer, F))
    BY <2>1
  <2>3. Fits(c, After(s, answer, F))
    <3>1. job[c].left \ {s} \in SUBSET Services
      BY <1>2 DEF Jobs
    <3>2. (job[c].available /\ OK(Probe(s, answer))) \in BOOLEAN
      BY DEF OK
    <3>3. job[c].faults \cup F \in SUBSET Faults
      BY <1>2 DEF Jobs, Faults
    <3>4. After(s, answer, F) \in Jobs
      BY <1>2, <3>1, <3>2, <3>3 DEF Jobs
    <3>5. After(s, answer, F).attempt = job[c].attempt
      BY <1>2 DEF Jobs
    <3>6. QED
      BY <1>2, <3>4, <3>5 DEF Fits
  <2>4. Typed
    BY <1>1, <2>2, <2>3, ContinueType
  <2>5. QED
    BY <1>3, <1>7, <2>4 DEF ProbeService
<1>8. CASE Judge(c)
  BY <1>1, <1>2, <1>3, <1>8, GotoType, EndType DEF Judge
<1>9. QED
  BY <1>4, <1>5, <1>6, <1>7, <1>8

LEMMA TypeNext ==
  ASSUME TypeOK, \A c \in Commands : Inside(c), [Next]_vars
  PROVE  TypeOK'
<1>1. ASSUME NEW c \in Commands, CommandNext(c)
      PROVE  TypeOK'
  <2>1. request' = request
    BY <1>1 DEF CommandNext, Look, Register, Enroll, Import, Save, UpLook, Start, Stop,
      Load, RememberRotationAccount, Reach, ProbeService, Judge, Discard, Retire,
      Restore, Restart
  <2>2. TypeAround' /\ Typed
    BY <1>1, EnterType, BackendType, CheckType DEF CommandNext
  <2>3. QED
    BY <2>1, <2>2 DEF TypeOK, TypeAround, Backends, Typed
<1>2. ASSUME NEW c \in Commands, Kill(c)
      PROVE  TypeOK'
  <2>1. job' \in [Commands -> Jobs] /\ "idle" \in Points
    BY <1>2, FreshType DEF Kill, TypeOK, Points
  <2>2. \A d \in Commands : job'[d].attempt <= request[d].attempts
    <3> TAKE d \in Commands
    <3>1. job'[d] = IF d = c THEN Fresh ELSE job[d]
      BY <1>2 DEF Kill, TypeOK
    <3>2. 1 <= request[d].attempts
      BY RequestType DEF TypeOK
    <3>3. QED
      BY <3>1, <3>2 DEF TypeOK, Fresh
  <2>3. QED
    BY <1>2, <2>1, <2>2 DEF Kill, TypeOK
<1>3. ASSUME NEW c \in Commands, NEW r \in Requests, Begin(c, r)
      PROVE  TypeOK'
  <2> DEFINE others == {d \in Commands \ {c} : pc[d] # "idle"}
             found == (IF others = {} THEN {} ELSE {"overlap"})
                        \cup (IF strays = {} THEN {} ELSE {"stray"})
             begun == [Fresh EXCEPT !.faults = found]
  <2>1. /\ job' = [d \in Commands |->
                    IF d = c THEN begun
                    ELSE IF d \in others THEN Suffered(d, {"overlap"}) ELSE job[d]]
        /\ request' = [request EXCEPT ![c] = r]
        /\ pc' = [pc EXCEPT ![c] = First[r.op]]
        /\ result' = [result EXCEPT ![c] = "none"]
        /\ UNCHANGED <<account, managed, used>>
    BY <1>3 DEF Begin
  <2>2. found \in SUBSET Faults /\ {"overlap"} \in SUBSET Faults
    BY DEF Faults
  <2>3. begun \in Jobs /\ begun.attempt = 1
    BY <2>2, FreshType DEF Fresh
  <2>4. \A d \in Commands : Fits(d, Suffered(d, {"overlap"})) /\ Fits(d, job[d])
    BY <2>2, SufferedFits, JobFits
  <2>5. job' \in [Commands -> Jobs]
    BY <2>1, <2>3, <2>4 DEF Fits
  <2>6. \A d \in Commands : job'[d].attempt <= request'[d].attempts
    <3> TAKE d \in Commands
    <3>1. CASE d = c
      <4>1. job'[d] = begun /\ request'[d] = r
        BY <2>1, <3>1 DEF TypeOK
      <4>2. QED
        BY <2>3, <4>1, RequestType
    <3>2. CASE d # c
      <4>1. job'[d] \in {Suffered(d, {"overlap"}), job[d]} /\ request'[d] = request[d]
        BY <2>1, <3>2 DEF TypeOK
      <4>2. QED
        BY <2>4, <4>1 DEF Fits
    <3>3. QED
      BY <3>1, <3>2
  <2>7. First[r.op] \in Points
    BY RequestType
  <2>8. QED
    BY <2>1, <2>5, <2>6, <2>7 DEF TypeOK
<1>4. CASE Backend
  <2>1. Backends'
    BY <1>4, ManagedType DEF Backend
  <2>2. QED
    BY <1>4, <2>1 DEF Backend, Backends, TypeOK
<1>5. CASE UNCHANGED vars
  BY <1>5 DEF vars, TypeOK
<1>6. QED
  BY <1>1, <1>2, <1>3, <1>4, <1>5 DEF Next

-------------------------------------------------------------------------------
(* The inductive invariant. *)

\* Accounts in use have been handed out.
Known == account # NoAccount => account.id \in used

Remembered(c) ==
  /\ job[c].acc # NoAccount => job[c].acc.id \in used
  /\ job[c].previous # NoAccount => job[c].previous.id \in used

\* Why a rotate is where it is.
Judged(c) ==
  Rotates(c) =>
    /\ pc[c] \in {"start", "reach"} => job[c].wasRunning \/ Wanted(c) # {}
    /\ pc[c] = "restart" => job[c].wasRunning
    /\ pc[c] \in {"judge", "retire"} => job[c].left = {}
    /\ pc[c] = "retire" => job[c].available

\* A command nobody disturbs is alone, and unless a process has been left to
\* itself there is none but the recorded one.
Undisturbed(c) == pc[c] # "idle" /\ "overlap" \notin job[c].faults
Alone(c) == Undisturbed(c) => \A d \in Commands \ {c} : pc[d] = "idle"
Tidied(c) == Undisturbed(c) /\ "stray" \notin job[c].faults => strays = {}

\* The account a rotate has registered, and what its probes have shown of it.
Replaces(c) ==
  /\ account \in Registrations
  /\ job[c].previous # NoAccount =>
       /\ account.id # job[c].previous.id
       /\ job[c].previous.masque => account.masque

Passed(c, s) ==
  \/ s \in account.open
  \/ s \in {"chatgpt", "claude", "netflix"} /\ "errorPage" \in job[c].faults
  \/ "stray" \in job[c].faults

Tested(c) ==
  Rotates(c) /\ Undisturbed(c) =>
    /\ pc[c] \in {"stop", "restart"} => account = job[c].previous
    /\ pc[c] \in {"remember", "start", "reach", "probe", "judge", "retire"} => Replaces(c)
    /\ pc[c] \in {"reach", "probe", "judge", "retire"} /\ "stray" \notin job[c].faults
         => backend \in {account, NoAccount}
    /\ pc[c] \in {"probe", "judge", "retire"} /\ job[c].available =>
         \A s \in Wanted(c) \ job[c].left : Passed(c, s)

\* Where the backend is stopped, and where it can only be the account's own.
Stopped(c) ==
  Rotates(c) /\ job[c].faults \subseteq {"errorPage"} =>
    /\ pc[c] \in {"look", "register", "enroll", "save", "remember", "start", "restore",
                 "restart"} => backend = NoAccount
    /\ pc[c] = "discard" => backend \in {account, NoAccount}

\* A result is that of a command that has ended.
Unfinished(c) == pc[c] # "idle" => result[c] = "none"

Own(c) == Inside(c) /\ Remembered(c) /\ Judged(c) /\ Tested(c) /\ Stopped(c)

IInv ==
  /\ TypeOK /\ Known
  /\ \A c \in Commands : Own(c) /\ Alone(c) /\ Tidied(c) /\ Unfinished(c)

LEMMA InvInit == Init => IInv
<1> SUFFICES ASSUME Init PROVE IInv
  OBVIOUS
<1>1. TypeOK
  BY TypeInit
<1>2. Known
  BY DEF Init, Known
<1>3. ASSUME NEW c \in Commands
      PROVE  Own(c) /\ Alone(c) /\ Tidied(c) /\ Unfinished(c)
  <2>1. pc[c] = "idle" /\ job[c] = Fresh
    BY DEF Init
  <2>2. QED
    BY <2>1 DEF Own, Alone, Tidied, Undisturbed, Inside, Remembered, Judged, Tested, Stopped, Unfinished,
      Fresh
<1>4. QED
  BY <1>1, <1>2, <1>3 DEF IInv

\* What a command has suffered changes nothing else about it.
LEMMA SufferedFields ==
  ASSUME TypeOK, NEW c \in Commands, NEW F
  PROVE  /\ Suffered(c, F).acc = job[c].acc
         /\ Suffered(c, F).previous = job[c].previous
         /\ Suffered(c, F).wasRunning = job[c].wasRunning
         /\ Suffered(c, F).left = job[c].left
         /\ Suffered(c, F).available = job[c].available
         /\ Suffered(c, F).faults = job[c].faults \cup F
BY DEF TypeOK, Jobs, Suffered

\* With no process left to itself before and after, the backend is what the
\* stops and starts say.
LEMMA Tidy ==
  ASSUME TypeOK, strays = {}, NEW acc, NEW taken
  PROVE  /\ StopFails \/ BackendMoves
              => backend' \in {backend, NoAccount} /\ strays' = {}
         /\ StopSucceeds => backend' = NoAccount
         /\ Strayed = {} => strays' = {}
         /\ StartSucceeds(acc, taken) /\ Strayed = {} => backend' = acc
         /\ StartFails(taken) => backend' \in {backend, NoAccount}
         /\ Running = {backend} \ {NoAccount}
<1> USE DEF TypeOK, Running
<1>1. StopFails \/ BackendMoves => backend' \in {backend, NoAccount} /\ strays' = {}
  BY DEF StopFails, BackendMoves, BackendConnects, BackendDies, StrayMoves
<1>2. Strayed = {} => strays' = {}
  BY DEF Strayed
<1>3. StartSucceeds(acc, taken) /\ strays' = {} => backend' = acc
  <2> SUFFICES ASSUME StartSucceeds(acc, taken), backend' # acc PROVE acc \in strays'
    OBVIOUS
  <2>1. QED
    BY DEF StartSucceeds
<1>4. StopSucceeds => backend' = NoAccount
  BY DEF StopSucceeds
<1>5. StartFails(taken) => backend' \in {backend, NoAccount}
  BY DEF StartFails
<1>6. QED
  BY <1>1, <1>2, <1>3, <1>4, <1>5

\* Where the steps of a command leave it, and everyone else.
LEMMA ContinueMoves ==
  ASSUME TypeOK, NEW c \in Commands, NEW l, NEW j, Continue(c, l, j)
  PROVE  /\ pc'[c] = l /\ job'[c] = j
         /\ \A d \in Commands \ {c} : pc'[d] = pc[d] /\ job'[d] = job[d]
BY DEF TypeOK, Continue

LEMMA EndMoves ==
  ASSUME TypeOK, NEW c \in Commands, NEW how, NEW j, End(c, how, j)
  PROVE  /\ pc'[c] = "idle" /\ job'[c] = [Fresh EXCEPT !.faults = j.faults]
         /\ result'[c] = how
         /\ \A d \in Commands \ {c} : pc'[d] = pc[d] /\ job'[d] = job[d]
BY DEF TypeOK, End

LEMMA IdleOwn ==
  ASSUME NEW c \in Commands, pc'[c] = "idle",
         job'[c].acc = NoAccount, job'[c].previous = NoAccount
  PROVE  Own(c)'
BY DEF Own, Inside, Remembered, Judged, Tested, Undisturbed, Stopped

LEMMA EndOwn ==
  ASSUME TypeOK, NEW c \in Commands, NEW how, NEW j, End(c, how, j)
  PROVE  Own(c)'
<1>1. pc'[c] = "idle" /\ job'[c] = [Fresh EXCEPT !.faults = j.faults]
  BY EndMoves
<1>2. job'[c].acc = NoAccount /\ job'[c].previous = NoAccount
  BY <1>1 DEF Fresh
<1>3. QED
  BY <1>1, <1>2, IdleOwn

\* A rotate goes on to its next attempt, or to the account it found.
LEMMA NextAttemptOwn ==
  ASSUME TypeOK, NEW c \in Commands, Own(c), Rotates(c), pc[c] # "idle",
         NEW F \in SUBSET Faults, NEW j \in {job[c], Suffered(c, F)}, NextAttempt(c, j),
         request' = request, used \subseteq used',
         j.faults \subseteq {"errorPage"} => backend' = NoAccount
  PROVE  Own(c)'
<1>1. job[c] \in Jobs
  BY DEF TypeOK
<1>2. /\ j \in Jobs /\ j.previous = job[c].previous /\ j.wasRunning = job[c].wasRunning
  BY <1>1, SufferedFits, SufferedFields DEF Fits
<1>3. CASE NextAttempt(c, j) /\ pc'[c] = "idle"
  <2>1. End(c, "failure", j)
    BY <1>3, ContinueMoves DEF NextAttempt
  <2>2. QED
    BY <2>1, EndOwn
<1>4. CASE pc'[c] # "idle"
  <2>1. /\ pc'[c] \in {"look", "restore"}
        /\ job'[c].acc = NoAccount /\ job'[c].previous = j.previous
        /\ job'[c].faults = j.faults
    <3>1. ASSUME NEW k \in {[j EXCEPT !.attempt = @ + 1, !.acc = NoAccount],
                           [j EXCEPT !.acc = NoAccount]}
          PROVE  /\ k.acc = NoAccount /\ k.previous = j.previous
                 /\ k.faults = j.faults
      BY <1>2 DEF Jobs
    <3>2. ~End(c, "failure", j)
      BY <1>4, EndMoves
    <3>3. \/ Continue(c, "look", [j EXCEPT !.attempt = @ + 1, !.acc = NoAccount])
          \/ Continue(c, "restore", [j EXCEPT !.acc = NoAccount])
      BY <3>2 DEF NextAttempt
    <3>4. /\ pc'[c] \in {"look", "restore"}
          /\ job'[c] \in {[j EXCEPT !.attempt = @ + 1, !.acc = NoAccount],
                          [j EXCEPT !.acc = NoAccount]}
      BY <3>3, ContinueMoves
    <3>5. QED
      BY <3>1, <3>4
  <2>2. QED
    BY <1>2, <2>1 DEF Own, Inside, Remembered, Judged, Tested, Stopped, Rotates, Wanted
<1>5. QED
  BY <1>3, <1>4

LEMMA RegistrationFailsOwn ==
  ASSUME TypeOK, NEW c \in Commands, Own(c), RegistrationFails(c),
         pc[c] \in {"look", "register", "enroll", "save"},
         request' = request, used \subseteq used', backend' = backend
  PROVE  Own(c)'
<1>1. CASE Rotates(c)
  <2>1. NextAttempt(c, job[c])
    BY <1>1 DEF RegistrationFails
  <2>2. job[c].faults \subseteq {"errorPage"} => backend' = NoAccount
    BY <1>1 DEF Own, Stopped
  <2>3. QED
    BY <1>1, <2>1, <2>2, NextAttemptOwn
<1>2. CASE ~Rotates(c)
  BY <1>2, EndOwn DEF RegistrationFails
<1>3. QED
  BY <1>1, <1>2

LEMMA LookOwn ==
  ASSUME IInv, NEW c \in Commands, Look(c)
  PROVE  Own(c)'
<1>1. TypeOK /\ Own(c) /\ pc[c] = "look"
  BY DEF IInv, Look
<1>2. CASE RegistrationFails(c)
  BY <1>1, <1>2, RegistrationFailsOwn DEF Look
<1>3. CASE Goto(c, IF request[c].op = "import" THEN "import" ELSE "register")
  <2>1. pc'[c] = (IF request[c].op = "import" THEN "import" ELSE "register")
        /\ job'[c] = job[c]
    BY <1>1, <1>3, ContinueMoves DEF Goto
  <2>2. Rotates(c) => request[c].op # "import"
    BY DEF Rotates
  <2>3. QED
    BY <1>1, <2>1, <2>2 DEF Look, Own, Inside, Remembered, Judged, Tested, Undisturbed,
      Stopped, Rotates, Wanted
<1>4. QED
  BY <1>2, <1>3 DEF Look

LEMMA RegisterOwn ==
  ASSUME IInv, NEW c \in Commands, Register(c)
  PROVE  Own(c)'
<1>1. /\ TypeOK /\ Own(c) /\ pc[c] = "register" /\ used \subseteq used'
      /\ UNCHANGED <<account, backend, request>>
  BY DEF IInv, Register
<1>2. CASE RegistrationFails(c)
  BY <1>1, <1>2, RegistrationFailsOwn
<1>3. ASSUME NEW a \in Accounts \ used, NEW open \in Regions, used' = used \cup {a},
             Continue(c, IF MasqueEnroll(c) THEN "enroll" ELSE "save",
               [job[c] EXCEPT !.acc = [id |-> a, masque |-> FALSE, open |-> open]])
      PROVE  Own(c)'
  <2> DEFINE acc == [id |-> a, masque |-> FALSE, open |-> open]
  <2>1. /\ pc'[c] = (IF MasqueEnroll(c) THEN "enroll" ELSE "save")
        /\ job'[c] = [job[c] EXCEPT !.acc = acc]
    BY <1>1, <1>3, ContinueMoves
  <2>2. acc \in Registrations /\ acc.id = a
    BY DEF Registrations
  <2>3. /\ job'[c].acc = acc /\ job'[c].previous = job[c].previous
        /\ job'[c].faults = job[c].faults
    BY <1>1, <2>1 DEF TypeOK, Jobs
  <2>4. Inside(c)'
    <3>1. Rotates(c) /\ job[c].previous # NoAccount =>
            /\ a # job[c].previous.id
            /\ pc'[c] = "save" => ~job[c].previous.masque
      BY <1>1, <1>3, <2>1 DEF Own, Remembered, MasqueEnroll
    <3>2. QED
      BY <1>1, <2>1, <2>2, <2>3, <3>1 DEF Own, Inside, Rotates, Wanted
  <2>5. Remembered(c)'
    BY <1>1, <1>3, <2>2, <2>3 DEF Own, Remembered
  <2>6. QED
    BY <1>1, <2>1, <2>3, <2>4, <2>5 DEF Own, Judged, Tested, Stopped, Rotates
<1>4. QED
  BY <1>2, <1>3 DEF Register

LEMMA EnrollOwn ==
  ASSUME IInv, NEW c \in Commands, Enroll(c)
  PROVE  Own(c)'
<1>1. /\ TypeOK /\ Own(c) /\ pc[c] = "enroll"
      /\ UNCHANGED <<account, backend, request, used>>
  BY DEF IInv, Enroll
<1>2. CASE RegistrationFails(c)
  BY <1>1, <1>2, RegistrationFailsOwn
<1>3. CASE Continue(c, "save", [job[c] EXCEPT !.acc.masque = TRUE])
  <2>1. pc'[c] = "save" /\ job'[c] = [job[c] EXCEPT !.acc.masque = TRUE]
    BY <1>1, <1>3, ContinueMoves
  <2>2. job[c].acc \in Registrations
    BY <1>1 DEF Own, Inside
  <2>3. /\ job'[c].previous = job[c].previous /\ job'[c].faults = job[c].faults
        /\ job'[c].acc = [job[c].acc EXCEPT !.masque = TRUE]
    BY <1>1, <2>1 DEF TypeOK, Jobs
  <2>4. /\ job'[c].acc \in Registrations /\ job'[c].acc.masque
        /\ job'[c].acc.id = job[c].acc.id
    BY <2>2, <2>3 DEF Registrations
  <2>5. Inside(c)'
    BY <1>1, <2>1, <2>3, <2>4 DEF Own, Inside, Rotates, Wanted
  <2>6. Remembered(c)'
    <3>1. job[c].acc # NoAccount
      BY <2>2, RotateAssumption DEF Registrations
    <3>2. QED
      BY <1>1, <2>3, <2>4, <3>1 DEF Own, Remembered
  <2>7. QED
    BY <1>1, <2>1, <2>3, <2>5, <2>6 DEF Own, Judged, Tested, Stopped, Rotates
<1>4. QED
  BY <1>2, <1>3 DEF Enroll

LEMMA ImportOwn ==
  ASSUME IInv, NEW c \in Commands, Import(c)
  PROVE  Own(c)'
<1>1. /\ TypeOK /\ Own(c) /\ pc[c] = "import" /\ ~Rotates(c)
      /\ used \subseteq used' /\ request' = request
  BY DEF IInv, Import, Own, Inside
<1>2. CASE End(c, "failure", job[c])
  BY <1>1, <1>2, EndOwn
<1>3. ASSUME NEW acc \in Registrations, used' = used \cup {acc.id},
             Continue(c, "save", [job[c] EXCEPT !.acc = acc])
      PROVE  Own(c)'
  <2>1. /\ pc'[c] = "save"
        /\ job'[c].acc = acc /\ job'[c].previous = job[c].previous
    BY <1>1, <1>3, ContinueMoves DEF TypeOK, Jobs
  <2>2. Remembered(c)'
    BY <1>1, <1>3, <2>1 DEF Own, Remembered
  <2>3. QED
    BY <1>1, <2>1, <2>2 DEF Own, Inside, Judged, Tested, Stopped, Rotates
<1>4. QED
  BY <1>2, <1>3 DEF Import

LEMMA SaveOwn ==
  ASSUME IInv, NEW c \in Commands, Save(c)
  PROVE  Own(c)'
<1>1. /\ TypeOK /\ Own(c) /\ pc[c] = "save"
      /\ UNCHANGED <<backend, request, used>>
  BY DEF IInv, Save
<1>2. CASE RegistrationFails(c)
  BY <1>1, <1>2, RegistrationFailsOwn
<1>3. CASE Rotates(c) /\ account' = job[c].acc
           /\ Continue(c, "remember", [job[c] EXCEPT !.acc = NoAccount])
  <2>1. /\ pc'[c] = "remember" /\ job'[c].acc = NoAccount
        /\ job'[c].previous = job[c].previous /\ job'[c].faults = job[c].faults
    BY <1>1, <1>3, ContinueMoves DEF TypeOK, Jobs
  <2>2. Inside(c)' /\ Remembered(c)' /\ Judged(c)' /\ Stopped(c)'
    BY <1>1, <1>3, <2>1 DEF Own, Inside, Remembered, Judged, Stopped, Rotates, Wanted
  <2>3. Replaces(c)'
    BY <1>1, <1>3, <2>1 DEF Own, Inside, Replaces
  <2>4. Tested(c)'
    BY <2>1, <2>3 DEF Tested
  <2>5. QED
    BY <2>2, <2>4 DEF Own
<1>4. CASE ~Rotates(c) /\ Goto(c, "start")
  <2>1. pc'[c] = "start" /\ job'[c] = job[c]
    BY <1>1, <1>4, ContinueMoves DEF Goto
  <2>2. QED
    BY <1>1, <1>4, <2>1 DEF Own, Inside, Remembered, Judged, Tested, Stopped, Rotates
<1>5. CASE End(c, "success", job[c])
  BY <1>1, <1>5, EndOwn
<1>6. QED
  BY <1>2, <1>3, <1>4, <1>5 DEF Save, Rotates

LEMMA UpLookOwn ==
  ASSUME IInv, NEW c \in Commands, UpLook(c)
  PROVE  Own(c)'
<1>1. /\ TypeOK /\ Known /\ Own(c) /\ pc[c] = "upLook" /\ ~Rotates(c)
      /\ UNCHANGED <<account, backend, request, used>>
  BY DEF IInv, UpLook, Own, Inside
<1>2. CASE Continue(c, "start", [job[c] EXCEPT !.acc = account])
  <2>1. /\ pc'[c] = "start"
        /\ job'[c].acc = account /\ job'[c].previous = job[c].previous
    BY <1>1, <1>2, ContinueMoves DEF TypeOK, Jobs
  <2>2. QED
    BY <1>1, <2>1 DEF Known, Own, Inside, Remembered, Judged, Tested, Stopped, Rotates
<1>3. CASE Goto(c, "look")
  <2>1. pc'[c] = "look" /\ job'[c] = job[c]
    BY <1>1, <1>3, ContinueMoves DEF Goto
  <2>2. QED
    BY <1>1, <2>1 DEF Own, Inside, Remembered, Judged, Tested, Stopped, Rotates
<1>4. CASE End(c, "failure", job[c])
  BY <1>1, <1>4, EndOwn
<1>5. QED
  BY <1>2, <1>3, <1>4 DEF UpLook

LEMMA StartOwn ==
  ASSUME IInv, NEW c \in Commands, Start(c)
  PROVE  Own(c)'
<1> DEFINE after == Suffered(c, Strayed)
<1>1. /\ TypeOK /\ Own(c) /\ Tidied(c) /\ pc[c] = "start"
      /\ UNCHANGED <<account, request, used>>
  BY DEF IInv, Start
<1>2. /\ after.acc = job[c].acc /\ after.previous = job[c].previous
      /\ after.wasRunning = job[c].wasRunning
      /\ after.faults = job[c].faults \cup Strayed
      /\ "stray" \notin after.faults => Strayed = {}
  BY <1>1, SufferedFields DEF Strayed
<1> HIDE DEF after
<1>3. CASE End(c, "success", after) \/ End(c, "failure", after)
  BY <1>1, <1>3, EndOwn
<1>4. CASE /\ Rotates(c) /\ StartSucceeds(account, Taken(c))
           /\ Continue(c, "reach", after)
  <2>1. pc'[c] = "reach" /\ job'[c] = after
    BY <1>1, <1>4, ContinueMoves
  <2>2. Inside(c)' /\ Remembered(c)' /\ Judged(c)' /\ Stopped(c)'
    BY <1>1, <1>2, <1>4, <2>1 DEF Own, Inside, Remembered, Judged, Stopped, Rotates, Wanted
  <2>3. ASSUME Undisturbed(c)' PROVE Replaces(c)' /\ Undisturbed(c)
    BY <1>1, <1>2, <1>4, <2>1, <2>3 DEF Own, Tested, Undisturbed, Replaces
  <2>4. ASSUME Undisturbed(c)', "stray" \notin job'[c].faults PROVE backend' = account
    <3>1. strays = {} /\ Strayed = {}
      BY <1>1, <1>2, <2>1, <2>3, <2>4 DEF Tidied
    <3>2. QED
      BY <1>1, <1>4, <3>1, Tidy
  <2>5. Tested(c)'
    BY <1>1, <2>1, <2>3, <2>4 DEF Tested
  <2>6. QED
    BY <2>2, <2>5 DEF Own
<1>5. CASE /\ Rotates(c) /\ StartFails(Taken(c))
           /\ Continue(c, "discard", after)
  <2>1. pc'[c] = "discard" /\ job'[c] = after
    BY <1>1, <1>5, ContinueMoves
  <2>2. Inside(c)' /\ Remembered(c)' /\ Judged(c)' /\ Tested(c)'
    BY <1>1, <1>2, <1>5, <2>1 DEF Own, Inside, Remembered, Judged, Tested, Rotates, Wanted
  <2>3. ASSUME job'[c].faults \subseteq {"errorPage"} PROVE backend' = NoAccount
    <3>1. job[c].faults \subseteq {"errorPage"}
      BY <1>2, <2>1, <2>3
    <3>2. strays = {} /\ backend = NoAccount
      BY <1>1, <1>5, <3>1 DEF Own, Stopped, Tidied, Undisturbed
    <3>3. QED
      BY <1>1, <1>5, <3>2, Tidy
  <2>4. QED
    BY <2>1, <2>2, <2>3 DEF Own, Stopped
<1>6. QED
  BY <1>3, <1>4, <1>5 DEF Start, Taken, after

LEMMA StopOwn ==
  ASSUME IInv, NEW c \in Commands, Stop(c)
  PROVE  Own(c)'
<1>1. /\ TypeOK /\ Own(c) /\ pc[c] = "stop"
      /\ UNCHANGED <<account, request, used>>
  BY DEF IInv, Stop
<1>2. CASE \/ End(c, "success", Suffered(c, Strayed))
           \/ End(c, "failure", Suffered(c, {"stopFailed"}))
  BY <1>1, <1>2, EndOwn
<1>3. CASE StopSucceeds /\ Rotates(c) /\ Continue(c, "look", Suffered(c, Strayed))
  <2>1. pc'[c] = "look" /\ job'[c] = Suffered(c, Strayed) /\ backend' = NoAccount
    BY <1>1, <1>3, ContinueMoves DEF StopSucceeds
  <2>2. job'[c].acc = job[c].acc /\ job'[c].previous = job[c].previous
    BY <1>1, <2>1, SufferedFields
  <2>3. QED
    BY <1>1, <1>3, <2>1, <2>2 DEF Own, Inside, Remembered, Judged, Tested, Stopped,
      Rotates, Wanted
<1>4. QED
  BY <1>2, <1>3 DEF Stop

LEMMA LoadOwn ==
  ASSUME IInv, NEW c \in Commands, Load(c)
  PROVE  Own(c)'
<1>1. /\ TypeOK /\ Known /\ Own(c) /\ pc[c] = "load" /\ Rotates(c)
      /\ UNCHANGED <<account, backend, request, used>>
  BY DEF IInv, Load, Own, Inside
<1>2. /\ pc'[c] = "stop"
      /\ job'[c] = [job[c] EXCEPT !.previous = account, !.wasRunning = active]
  BY <1>1, ContinueMoves DEF Load
<1>3. job'[c].previous = account /\ job'[c].acc = job[c].acc
  BY <1>1, <1>2 DEF TypeOK, Jobs
<1>4. QED
  BY <1>1, <1>2, <1>3 DEF Known, Own, Inside, Remembered, Judged, Tested, Undisturbed,
    Stopped, Rotates, Wanted

LEMMA RememberOwn ==
  ASSUME IInv, NEW c \in Commands, RememberRotationAccount(c)
  PROVE  Own(c)'
<1>1. /\ TypeOK /\ Own(c) /\ pc[c] = "remember" /\ Rotates(c)
      /\ UNCHANGED <<account, backend, request, used>>
  BY DEF IInv, RememberRotationAccount, Own, Inside
<1>2. CASE NextAttempt(c, job[c])
  <2>1. job[c].faults \subseteq {"errorPage"} => backend' = NoAccount
    BY <1>1 DEF Own, Stopped
  <2>2. QED
    BY <1>1, <1>2, <2>1, NextAttemptOwn
<1>3. CASE (job[c].wasRunning \/ Wanted(c) # {}) /\ Goto(c, "start")
  <2>1. pc'[c] = "start" /\ job'[c] = job[c]
    BY <1>1, <1>3, ContinueMoves DEF Goto
  <2>2. QED
    BY <1>1, <1>3, <2>1 DEF Own, Inside, Remembered, Judged, Tested, Undisturbed, Replaces,
      Stopped, Rotates, Wanted
<1>4. CASE End(c, "success", job[c])
  BY <1>1, <1>4, EndOwn
<1>5. QED
  BY <1>2, <1>3, <1>4 DEF RememberRotationAccount

LEMMA ReachOwn ==
  ASSUME IInv, NEW c \in Commands, Reach(c)
  PROVE  Own(c)'
<1>1. /\ TypeOK /\ Own(c) /\ pc[c] = "reach" /\ Rotates(c)
      /\ UNCHANGED <<account, backend, request, used>>
  BY DEF IInv, Reach, Own, Inside
<1>2. CASE Goto(c, "discard")
  <2>1. pc'[c] = "discard" /\ job'[c] = job[c]
    BY <1>1, <1>2, ContinueMoves DEF Goto
  <2>2. Stopped(c)'
    BY <1>1, <2>1 DEF Own, Stopped, Tested, Undisturbed, Rotates
  <2>3. QED
    BY <1>1, <2>1, <2>2 DEF Own, Inside, Remembered, Judged, Tested, Rotates, Wanted
<1>3. CASE End(c, "success", job[c])
  BY <1>1, <1>3, EndOwn
<1>4. CASE Continue(c, "probe", [job[c] EXCEPT !.left = Wanted(c), !.available = TRUE])
  <2>1. /\ pc'[c] = "probe"
        /\ job'[c] = [job[c] EXCEPT !.left = Wanted(c), !.available = TRUE]
    BY <1>1, <1>4, ContinueMoves
  <2>2. /\ job'[c].left = Wanted(c) /\ job'[c].previous = job[c].previous
        /\ job'[c].acc = job[c].acc /\ job'[c].faults = job[c].faults
    BY <1>1, <2>1 DEF TypeOK, Jobs
  <2>3. Tested(c)'
    BY <1>1, <2>1, <2>2 DEF Own, Tested, Undisturbed, Replaces, Rotates, Wanted
  <2>4. QED
    BY <1>1, <2>1, <2>2, <2>3 DEF Own, Inside, Remembered, Judged, Stopped, Rotates, Wanted
<1>5. QED
  BY <1>2, <1>3, <1>4 DEF Reach

LEMMA ProbeOwn ==
  ASSUME IInv, NEW c \in Commands, ProbeService(c)
  PROVE  Own(c)'
<1> DEFINE faults(s, answer) == IF answer \in Genuine(s) \cup {Unreached(s)}
                                THEN {} ELSE {"errorPage"}
           After(s, answer) ==
             [job[c] EXCEPT !.left = @ \ {s},
                            !.available = @ /\ OK(Probe(s, answer)),
                            !.faults = @ \cup faults(s, answer)]
<1>1. /\ TypeOK /\ Own(c) /\ Tidied(c) /\ pc[c] = "probe" /\ Rotates(c)
      /\ UNCHANGED <<account, backend, request, used>>
  BY DEF IInv, ProbeService, Own, Inside
<1>2. PICK s \in job[c].left : \E answer \in Replies(s) :
        Continue(c, IF job[c].left = {s} THEN "judge" ELSE "probe", After(s, answer))
  BY DEF ProbeService
<1>3. PICK answer \in Replies(s) :
        Continue(c, IF job[c].left = {s} THEN "judge" ELSE "probe", After(s, answer))
  BY <1>2
<1>4. job[c] \in Jobs /\ s \in Services
  BY <1>1 DEF TypeOK, Jobs
<1>5. /\ pc'[c] = (IF job[c].left = {s} THEN "judge" ELSE "probe")
      /\ job'[c] = After(s, answer)
  BY <1>1, <1>3, ContinueMoves
<1>6. /\ job'[c].left = job[c].left \ {s}
      /\ job'[c].available = (job[c].available /\ OK(Probe(s, answer)))
      /\ job'[c].faults = job[c].faults \cup faults(s, answer)
      /\ job'[c].previous = job[c].previous /\ job'[c].acc = job[c].acc
      /\ job'[c].wasRunning = job[c].wasRunning
  BY <1>4, <1>5 DEF Jobs
<1>7. Inside(c)' /\ Remembered(c)' /\ Judged(c)' /\ Stopped(c)'
  BY <1>1, <1>5, <1>6 DEF Own, Inside, Remembered, Judged, Stopped, Rotates, Wanted
<1>8. ASSUME Undisturbed(c), OK(Probe(s, answer))
      PROVE  Passed(c, s)'
  <2>1. CASE "stray" \in job[c].faults
    BY <1>6, <2>1 DEF Passed
  <2>2. CASE "stray" \notin job[c].faults
    <3>1. backend \in {account, NoAccount} /\ Running = {backend} \ {NoAccount}
      BY <1>1, <1>8, <2>2, Tidy DEF Own, Tested, Tidied
    <3>2. Running # {}
      <4>1. Running = {} => Replies(s) = {Unreached(s)}
        BY DEF Replies, Genuine
      <4>2. QED
        BY <1>4, <1>8, <4>1, UnreachedIsNot
    <3>3. Running = {account}
      BY <3>1, <3>2
    <3>4. Genuine(s) = Answers(s, s \in account.open)
      BY <3>3 DEF Genuine
    <3>5. \/ s \in account.open
          \/ s \in {"chatgpt", "claude", "netflix"}
               /\ answer \notin Answers(s, s \in account.open) \cup {Unreached(s)}
      <4>1. answer \in Answers(s, s \in account.open) \cup ErrorPages(s) \cup {Unreached(s)}
        BY <3>4 DEF Replies
      <4>2. QED
        BY <1>4, <1>8, <4>1, AvailableIsOpen
    <3>6. QED
      BY <1>1, <1>6, <3>4, <3>5 DEF Passed
  <2>3. QED
    BY <2>1, <2>2
<1>9. Tested(c)'
  <2> SUFFICES ASSUME Undisturbed(c)'
               PROVE  /\ Replaces(c)'
                      /\ "stray" \notin job'[c].faults => backend \in {account, NoAccount}
                      /\ job'[c].available =>
                           \A t \in Wanted(c) \ job'[c].left : Passed(c, t)'
    BY <1>1, <1>5 DEF Tested, Wanted
  <2>1. Undisturbed(c)
    BY <1>1, <1>6 DEF Undisturbed
  <2>2. Replaces(c)' /\ ("stray" \notin job'[c].faults => backend \in {account, NoAccount})
    BY <1>1, <1>6, <2>1 DEF Own, Tested, Replaces
  <2>3. ASSUME job'[c].available, NEW t \in Wanted(c) \ job'[c].left
        PROVE  Passed(c, t)'
    <3>1. CASE t = s
      BY <1>6, <1>8, <2>1, <2>3, <3>1
    <3>2. CASE t # s
      <4>1. Passed(c, t)
        BY <1>1, <1>6, <2>1, <2>3, <3>2 DEF Own, Tested
      <4>2. QED
        BY <1>1, <1>6, <4>1 DEF Passed
    <3>3. QED
      BY <3>1, <3>2
  <2>4. QED
    BY <2>2, <2>3
<1>10. QED
  BY <1>7, <1>9 DEF Own

LEMMA JudgeOwn ==
  ASSUME IInv, NEW c \in Commands, Judge(c)
  PROVE  Own(c)'
<1>1. /\ TypeOK /\ Own(c) /\ pc[c] = "judge" /\ Rotates(c)
      /\ UNCHANGED <<account, backend, request, used>>
  BY DEF IInv, Judge, Own, Inside
<1>2. CASE Goto(c, "discard")
  <2>1. pc'[c] = "discard" /\ job'[c] = job[c]
    BY <1>1, <1>2, ContinueMoves DEF Goto
  <2>2. Stopped(c)'
    BY <1>1, <2>1 DEF Own, Stopped, Tested, Undisturbed, Rotates
  <2>3. QED
    BY <1>1, <2>1, <2>2 DEF Own, Inside, Remembered, Judged, Tested, Rotates, Wanted
<1>3. CASE End(c, "success", job[c])
  BY <1>1, <1>3, EndOwn
<1>4. CASE job[c].available /\ Goto(c, "retire")
  <2>1. pc'[c] = "retire" /\ job'[c] = job[c]
    BY <1>1, <1>4, ContinueMoves DEF Goto
  <2>2. Tested(c)'
    BY <1>1, <2>1 DEF Own, Tested, Undisturbed, Replaces, Passed, Rotates, Wanted
  <2>3. QED
    BY <1>1, <1>4, <2>1, <2>2 DEF Own, Inside, Remembered, Judged, Stopped, Rotates, Wanted
<1>5. QED
  BY <1>2, <1>3, <1>4 DEF Judge

LEMMA DiscardOwn ==
  ASSUME IInv, NEW c \in Commands, Discard(c)
  PROVE  Own(c)'
<1>1. /\ TypeOK /\ Own(c) /\ pc[c] = "discard" /\ Rotates(c)
      /\ UNCHANGED <<account, request, used>>
  BY DEF IInv, Discard, Own, Inside
<1>2. Strayed \in SUBSET Faults /\ {"stopFailed"} \in SUBSET Faults
  BY DEF Strayed, Faults
<1>3. CASE StopSucceeds /\ NextAttempt(c, Suffered(c, Strayed))
  <2>1. backend' = NoAccount
    BY <1>3 DEF StopSucceeds
  <2>2. QED
    BY <1>1, <1>2, <1>3, <2>1, NextAttemptOwn
<1>4. CASE NextAttempt(c, Suffered(c, {"stopFailed"}))
  <2>1. "stopFailed" \in Suffered(c, {"stopFailed"}).faults
    BY <1>1, SufferedFields
  <2>2. QED
    BY <1>1, <1>2, <1>4, <2>1, NextAttemptOwn
<1>5. QED
  BY <1>3, <1>4 DEF Discard

LEMMA RestoreOwn ==
  ASSUME IInv, NEW c \in Commands, Restore(c)
  PROVE  Own(c)'
<1>1. /\ TypeOK /\ Own(c) /\ pc[c] = "restore" /\ Rotates(c)
      /\ UNCHANGED <<backend, request, used>>
  BY DEF IInv, Restore, Own, Inside
<1>2. CASE account' = job[c].previous /\ job[c].wasRunning /\ Goto(c, "restart")
  <2>1. pc'[c] = "restart" /\ job'[c] = job[c]
    BY <1>1, <1>2, ContinueMoves DEF Goto
  <2>2. QED
    BY <1>1, <1>2, <2>1 DEF Own, Inside, Remembered, Judged, Tested, Undisturbed, Stopped,
      Rotates, Wanted
<1>3. CASE End(c, "failure", job[c]) \/ End(c, "failure", Suffered(c, {"saveFailed"}))
  BY <1>1, <1>3, EndOwn
<1>4. QED
  BY <1>2, <1>3 DEF Restore

LEMMA CommandOwn ==
  ASSUME IInv, NEW c \in Commands, CommandNext(c)
  PROVE  Own(c)'
<1>1. CASE Retire(c)
  BY <1>1, EndOwn DEF IInv, Retire
<1>2. CASE Restart(c)
  BY <1>2, EndOwn DEF IInv, Restart
<1>3. QED
  BY <1>1, <1>2, LookOwn, RegisterOwn, EnrollOwn, ImportOwn, SaveOwn, UpLookOwn, StartOwn,
    StopOwn, LoadOwn, RememberOwn, ReachOwn, ProbeOwn, JudgeOwn, DiscardOwn, RestoreOwn
  DEF CommandNext

-------------------------------------------------------------------------------
(* The other commands. *)

\* What a step of c leaves alone.
Moved(c) ==
  /\ job[c].faults \subseteq job'[c].faults
  /\ pc'[c] # "idle" => result'[c] = result[c]
  /\ \A d \in Commands \ {c} :
       pc'[d] = pc[d] /\ job'[d] = job[d] /\ result'[d] = result[d]

LEMMA ContinueMoved ==
  ASSUME TypeOK, NEW c \in Commands, NEW l, NEW j, Continue(c, l, j),
         job[c].faults \subseteq j.faults
  PROVE  Moved(c)
BY ContinueMoves DEF Moved, Continue

LEMMA EndMoved ==
  ASSUME TypeOK, NEW c \in Commands, NEW how, NEW j, End(c, how, j),
         job[c].faults \subseteq j.faults
  PROVE  Moved(c)
<1>1. job'[c].faults = j.faults
  <2>1. job'[c] = [Fresh EXCEPT !.faults = j.faults]
    BY EndMoves
  <2>2. QED
    BY <2>1 DEF Fresh
<1>2. \A d \in Commands \ {c} : result'[d] = result[d]
  BY DEF End, TypeOK
<1>3. QED
  BY <1>1, <1>2, EndMoves DEF Moved

LEMMA NextAttemptMoved ==
  ASSUME TypeOK, NEW c \in Commands, NEW j \in Jobs, NextAttempt(c, j),
         job[c].faults \subseteq j.faults
  PROVE  Moved(c)
<1>1. ASSUME NEW k \in {[j EXCEPT !.attempt = @ + 1, !.acc = NoAccount],
                       [j EXCEPT !.acc = NoAccount]}
      PROVE  k.faults = j.faults
  BY DEF Jobs
<1>2. CASE End(c, "failure", j)
  BY <1>2, EndMoved
<1>3. CASE Continue(c, "look", [j EXCEPT !.attempt = @ + 1, !.acc = NoAccount])
  BY <1>1, <1>3, ContinueMoved
<1>4. CASE Continue(c, "restore", [j EXCEPT !.acc = NoAccount])
  BY <1>1, <1>4, ContinueMoved
<1>5. QED
  BY <1>2, <1>3, <1>4 DEF NextAttempt

\* What a step of c leaves of what has happened to it.
LEMMA FaultsKept ==
  ASSUME TypeOK, NEW c \in Commands, NEW F \in SUBSET Faults,
         NEW j, j = Suffered(c, F),
         \/ NextAttempt(c, j)
         \/ \E how : End(c, how, j)
         \/ \E l : Continue(c, l, j)
  PROVE  job'[c].faults = job[c].faults \cup F
<1>1. j \in Jobs /\ j.faults = job[c].faults \cup F
  BY SufferedFits, SufferedFields DEF Fits
<1>2. ASSUME NEW k \in {[j EXCEPT !.attempt = @ + 1, !.acc = NoAccount],
                       [j EXCEPT !.acc = NoAccount], j}
      PROVE  k.faults = j.faults
  BY <1>1 DEF Jobs
<1>3. ASSUME NEW how, End(c, how, j)
      PROVE  job'[c].faults = j.faults
  <2>1. job'[c] = [Fresh EXCEPT !.faults = j.faults]
    BY <1>3, EndMoves
  <2>2. QED
    BY <2>1 DEF Fresh
<1>4. ASSUME NEW l, NEW k \in {[j EXCEPT !.attempt = @ + 1, !.acc = NoAccount],
                              [j EXCEPT !.acc = NoAccount], j}, Continue(c, l, k)
      PROVE  job'[c].faults = j.faults
  <2>1. job'[c] = k
    BY <1>4, ContinueMoves
  <2>2. k.faults = j.faults
    BY <1>2, <1>4
  <2>3. QED
    BY <2>1, <2>2
<1>5. ASSUME NextAttempt(c, j) PROVE job'[c].faults = j.faults
  <2>1. \/ Continue(c, "look", [j EXCEPT !.attempt = @ + 1, !.acc = NoAccount])
        \/ Continue(c, "restore", [j EXCEPT !.acc = NoAccount])
        \/ End(c, "failure", j)
    BY <1>5 DEF NextAttempt
  <2>2. QED
    BY <1>3, <1>4, <2>1
<1>6. QED
  BY <1>1, <1>3, <1>4, <1>5

LEMMA CommandMoved ==
  ASSUME IInv, NEW c \in Commands, CommandNext(c)
  PROVE  /\ Moved(c) /\ pc[c] # "idle"
         /\ request' = request /\ used \subseteq used'
<1>1. /\ pc[c] # "idle" /\ request' = request /\ used \subseteq used'
  BY DEF CommandNext, Look, Register, Enroll, Import, Save, UpLook, Start, Stop,
    Load, RememberRotationAccount, Reach, ProbeService, Judge, Discard, Retire,
    Restore, Restart
<1>2. TypeOK /\ job[c] \in Jobs
  BY DEF IInv, TypeOK
<1>3. ASSUME NEW F
      PROVE  job[c].faults \subseteq Suffered(c, F).faults
  BY <1>2, SufferedFields
<1>4. /\ Suffered(c, Strayed) \in Jobs
      /\ Suffered(c, {"stopFailed"}) \in Jobs /\ Suffered(c, {"saveFailed"}) \in Jobs
  BY <1>2, SufferedFits DEF Fits
<1>5. ASSUME NEW l, Goto(c, l)
      PROVE  Moved(c)
  BY <1>2, <1>5, ContinueMoved DEF Goto
<1>6. ASSUME NEW how, End(c, how, job[c])
      PROVE  Moved(c)
  BY <1>2, <1>6, EndMoved
<1>7. ASSUME RegistrationFails(c)
      PROVE  Moved(c)
  BY <1>2, <1>6, <1>7, NextAttemptMoved DEF RegistrationFails
<1>8. ASSUME NEW a, NEW l, Continue(c, l, [job[c] EXCEPT !.acc = a])
      PROVE  Moved(c)
  <2>1. [job[c] EXCEPT !.acc = a].faults = job[c].faults
    BY <1>2 DEF Jobs
  <2>2. QED
    BY <1>2, <1>8, <2>1, ContinueMoved
<1>9. CASE Look(c)
  BY <1>5, <1>7, <1>9 DEF Look
<1>10. CASE Register(c)
  BY <1>7, <1>8, <1>10 DEF Register
<1>11. CASE Enroll(c)
  <2>1. [job[c] EXCEPT !.acc.masque = TRUE].faults = job[c].faults
    BY <1>2 DEF Jobs
  <2>2. QED
    BY <1>2, <1>7, <1>11, <2>1, ContinueMoved DEF Enroll
<1>12. CASE Import(c)
  BY <1>6, <1>8, <1>12 DEF Import
<1>13. CASE Save(c)
  BY <1>5, <1>6, <1>7, <1>8, <1>13 DEF Save, Rotates
<1>14. CASE UpLook(c)
  BY <1>5, <1>6, <1>8, <1>14 DEF UpLook
<1>15. CASE Start(c)
  BY <1>2, <1>3, <1>15, ContinueMoved, EndMoved DEF Start
<1>16. CASE Stop(c)
  BY <1>2, <1>3, <1>16, ContinueMoved, EndMoved DEF Stop
<1>17. CASE Load(c)
  <2>1. [job[c] EXCEPT !.previous = account, !.wasRunning = active].faults
          = job[c].faults
    BY <1>2 DEF Jobs
  <2>2. QED
    BY <1>2, <1>17, <2>1, ContinueMoved DEF Load
<1>18. CASE RememberRotationAccount(c)
  BY <1>2, <1>5, <1>6, <1>18, NextAttemptMoved DEF RememberRotationAccount
<1>19. CASE Reach(c)
  <2>1. [job[c] EXCEPT !.left = Wanted(c), !.available = TRUE].faults = job[c].faults
    BY <1>2 DEF Jobs
  <2>2. QED
    BY <1>2, <1>5, <1>6, <1>19, <2>1, ContinueMoved DEF Reach
<1>20. CASE ProbeService(c)
  <2> DEFINE After(s, answer, F) ==
        [job[c] EXCEPT !.left = @ \ {s},
                       !.available = @ /\ OK(Probe(s, answer)),
                       !.faults = @ \cup F]
  <2>1. ASSUME NEW s, NEW answer, NEW F
        PROVE  After(s, answer, F).faults = job[c].faults \cup F
    BY <1>2 DEF Jobs
  <2>2. \E s, answer, F : \E l : Continue(c, l, After(s, answer, F))
    <3>1. \E s \in job[c].left : \E answer \in Replies(s), F \in SUBSET {"errorPage"} :
            Continue(c, IF job[c].left = {s} THEN "judge" ELSE "probe", After(s, answer, F))
      BY <1>20 DEF ProbeService
    <3> HIDE DEF After
    <3>2. QED
      BY <3>1
  <2> HIDE DEF After
  <2>3. PICK s, answer, F, l : Continue(c, l, After(s, answer, F))
    BY <2>2
  <2>4. job[c].faults \subseteq After(s, answer, F).faults
    BY <2>1
  <2>5. QED
    BY <1>1, <1>2, <2>3, <2>4, ContinueMoved
<1>21. CASE Judge(c)
  BY <1>5, <1>6, <1>21 DEF Judge
<1>22. CASE Discard(c)
  BY <1>2, <1>3, <1>4, <1>22, NextAttemptMoved DEF Discard
<1>23. CASE Retire(c)
  BY <1>2, <1>3, <1>23, EndMoved DEF Retire
<1>24. CASE Restore(c)
  BY <1>2, <1>3, <1>5, <1>6, <1>24, EndMoved DEF Restore
<1>25. CASE Restart(c)
  BY <1>2, <1>3, <1>25, EndMoved DEF Restart
<1>26. QED
  BY <1>1, <1>9, <1>10, <1>11, <1>12, <1>13, <1>14, <1>15, <1>16, <1>17, <1>18, <1>19,
    <1>20, <1>21, <1>22, <1>23, <1>24, <1>25 DEF CommandNext

\* A step that leaves a process to itself is marked in what c has suffered.
LEMMA CommandTidy ==
  ASSUME TypeOK, NEW c \in Commands, CommandNext(c), strays = {},
         "stray" \notin job'[c].faults
  PROVE  strays' = {}
<1>1. Strayed \in SUBSET Faults /\ {"stopFailed"} \in SUBSET Faults
  BY DEF Strayed, Faults
<1>2. ASSUME \/ NextAttempt(c, Suffered(c, Strayed))
             \/ \E how : End(c, how, Suffered(c, Strayed))
             \/ \E l : Continue(c, l, Suffered(c, Strayed))
      PROVE  strays' = {}
  <2>1. job'[c].faults = job[c].faults \cup Strayed
    BY <1>1, <1>2, FaultsKept
  <2>2. Strayed = {}
    BY <2>1 DEF Strayed
  <2>3. QED
    BY <2>2, Tidy
<1>3. StopFails => strays' = {}
  BY Tidy
<1>4. CASE Start(c)
  BY <1>2, <1>4 DEF Start
<1>5. CASE Stop(c)
  BY <1>2, <1>3, <1>5 DEF Stop
<1>6. CASE Discard(c)
  BY <1>2, <1>3, <1>6 DEF Discard
<1>7. CASE Retire(c)
  BY <1>2, <1>3, <1>7 DEF Retire
<1>8. CASE Restart(c)
  BY <1>2, <1>8 DEF Restart
<1>9. CASE UNCHANGED managed
  BY <1>9
<1>10. QED
  BY <1>4, <1>5, <1>6, <1>7, <1>8, <1>9
  DEF CommandNext, Look, Register, Enroll, Import, Save, UpLook,
    Load, RememberRotationAccount, Reach, ProbeService, Judge, Restore

LEMMA OtherOwn ==
  ASSUME IInv, NEW c \in Commands, CommandNext(c), NEW d \in Commands \ {c}
  PROVE  Own(d)'
<1>1. /\ pc'[d] = pc[d] /\ job'[d] = job[d] /\ request' = request
      /\ used \subseteq used' /\ pc[c] # "idle"
  BY CommandMoved DEF Moved
<1>2. Own(d) /\ ~Undisturbed(d)
  BY <1>1 DEF IInv, Alone
<1>3. Inside(d)' /\ Remembered(d)' /\ Judged(d)'
  BY <1>1, <1>2 DEF Own, Inside, Remembered, Judged, Rotates, Wanted
<1>4. ~Undisturbed(d)'
  BY <1>1, <1>2 DEF Undisturbed
<1>5. Tested(d)' /\ Stopped(d)'
  BY <1>4 DEF Tested, Stopped, Undisturbed
<1>6. QED
  BY <1>3, <1>5 DEF Own

LEMMA CommandInv ==
  ASSUME IInv, TypeOK', NEW c \in Commands, CommandNext(c)
  PROVE  IInv'
<1>1. \A d \in Commands : Own(d)'
  BY CommandOwn, OtherOwn
<1>2. Known'
  <2>1. \/ account' = account
        \/ account' = job[c].acc
        \/ account' = job[c].previous
    BY DEF CommandNext, Look, Register, Enroll, Import, Save, UpLook, Start, Stop,
      Load, RememberRotationAccount, Reach, ProbeService, Judge, Discard, Retire,
      Restore, Restart
  <2>2. QED
    BY <2>1, CommandMoved DEF IInv, Own, Remembered, Known
<1>3. ASSUME NEW d \in Commands
      PROVE  Alone(d)' /\ Unfinished(d)' /\ Tidied(d)'
  <2>1. CASE d = c
    <3>1. Alone(d)' /\ Unfinished(d)'
      BY <2>1, CommandMoved DEF IInv, Alone, Undisturbed, Moved, Unfinished
    <3>2. Tidied(d)'
      BY <2>1, CommandMoved, CommandTidy DEF IInv, Tidied, Undisturbed, Moved
    <3>3. QED
      BY <3>1, <3>2
  <2>2. CASE d # c
    BY <2>2, CommandMoved DEF IInv, Alone, Undisturbed, Moved, Unfinished, Tidied
  <2>3. QED
    BY <2>1, <2>2
<1>4. QED
  BY <1>1, <1>2, <1>3 DEF IInv

LEMMA BeginInv ==
  ASSUME IInv, TypeOK', NEW c \in Commands, NEW r \in Requests, Begin(c, r)
  PROVE  IInv'
<1> DEFINE others == {d \in Commands \ {c} : pc[d] # "idle"}
           found == (IF others = {} THEN {} ELSE {"overlap"})
                      \cup (IF strays = {} THEN {} ELSE {"stray"})
           begun == [Fresh EXCEPT !.faults = found]
<1>1. /\ pc[c] = "idle"
      /\ r.op = "rotate" => Supported(r.names)
      /\ job' = [d \in Commands |->
                  IF d = c THEN begun
                  ELSE IF d \in others THEN Suffered(d, {"overlap"}) ELSE job[d]]
      /\ request' = [request EXCEPT ![c] = r]
      /\ pc' = [pc EXCEPT ![c] = First[r.op]]
      /\ result' = [result EXCEPT ![c] = "none"]
      /\ UNCHANGED <<account, managed, used>>
  BY DEF Begin
<1>2. TypeOK
  BY DEF IInv
<1>3. /\ pc'[c] = First[r.op] /\ job'[c] = begun /\ request'[c] = r
      /\ result'[c] = "none"
  BY <1>1, <1>2 DEF TypeOK
<1>4. begun.acc = NoAccount /\ begun.previous = NoAccount /\ begun.faults = found
  BY DEF Fresh
<1>5. Own(c)'
  <2>1. First[r.op] \in {"load", "look", "upLook", "stop"}
    BY RequestType DEF Operations, First
  <2>2. r.op = "rotate" => First[r.op] = "load"
    BY DEF First
  <2>3. First[r.op] = "load" => r.op = "rotate"
    BY RequestType DEF Operations, First
  <2>4. r.op = "rotate" => NormalizeServices(r.names) \subseteq Services
    BY <1>1 DEF Supported
  <2>5. QED
    BY <1>3, <1>4, <2>1, <2>2, <2>3, <2>4
    DEF Own, Inside, Remembered, Judged, Tested, Stopped, Rotates, Wanted
<1>6. ASSUME NEW d \in Commands \ {c}
      PROVE  Own(d)' /\ Alone(d)' /\ Tidied(d)' /\ Unfinished(d)'
  <2>1. /\ pc'[d] = pc[d] /\ request'[d] = request[d] /\ result'[d] = result[d]
        /\ job'[d] = IF pc[d] # "idle" THEN Suffered(d, {"overlap"}) ELSE job[d]
    BY <1>1, <1>2 DEF TypeOK
  <2>2. /\ Suffered(d, {"overlap"}).acc = job[d].acc
        /\ Suffered(d, {"overlap"}).previous = job[d].previous
        /\ Suffered(d, {"overlap"}).wasRunning = job[d].wasRunning
        /\ Suffered(d, {"overlap"}).left = job[d].left
        /\ Suffered(d, {"overlap"}).available = job[d].available
        /\ "overlap" \in Suffered(d, {"overlap"}).faults
    BY <1>2, SufferedFields
  <2>3. Own(d) /\ Unfinished(d)
    BY DEF IInv
  <2>4. Inside(d)' /\ Remembered(d)' /\ Judged(d)'
    BY <1>1, <2>1, <2>2, <2>3 DEF Own, Inside, Remembered, Judged, Rotates, Wanted
  <2>5. ~Undisturbed(d)'
    BY <2>1, <2>2 DEF Undisturbed
  <2>6. Tested(d)' /\ Alone(d)' /\ Tidied(d)' /\ Stopped(d)'
    BY <2>5 DEF Tested, Alone, Tidied, Stopped, Undisturbed
  <2>7. QED
    BY <2>1, <2>3, <2>4, <2>6 DEF Own, Unfinished
<1>7. Alone(c)' /\ Tidied(c)'
  <2>1. /\ others # {} => "overlap" \in begun.faults
        /\ strays # {} => "stray" \in begun.faults
    BY <1>4
  <2>2. \A d \in Commands \ {c} : pc'[d] = pc[d]
    BY <1>1, <1>2 DEF TypeOK
  <2>3. QED
    BY <1>1, <1>3, <2>1, <2>2 DEF Alone, Tidied, Undisturbed
<1>8. Known'
  BY <1>1 DEF IInv, Known
<1>9. Unfinished(c)'
  BY <1>3 DEF Unfinished
<1>10. QED
  BY <1>5, <1>6, <1>7, <1>8, <1>9 DEF IInv

LEMMA KillInv ==
  ASSUME IInv, TypeOK', NEW c \in Commands, Kill(c)
  PROVE  IInv'
<1>1. /\ pc' = [pc EXCEPT ![c] = "idle"] /\ job' = [job EXCEPT ![c] = Fresh]
      /\ UNCHANGED <<account, managed, request, result, used>>
      /\ TypeOK
  BY DEF Kill, IInv
<1>2. /\ pc'[c] = "idle" /\ job'[c] = Fresh
      /\ \A d \in Commands \ {c} : pc'[d] = pc[d] /\ job'[d] = job[d]
  BY <1>1 DEF TypeOK
<1>3. Own(c)' /\ Alone(c)' /\ Tidied(c)' /\ Unfinished(c)'
  BY <1>2, IdleOwn DEF Fresh, Alone, Tidied, Undisturbed, Unfinished
<1>4. ASSUME NEW d \in Commands \ {c}
      PROVE  Own(d)' /\ Alone(d)' /\ Tidied(d)' /\ Unfinished(d)'
  <2>1. Own(d) /\ Alone(d) /\ Tidied(d) /\ Unfinished(d)
    BY DEF IInv
  <2>2. Own(d)'
    BY <1>1, <1>2, <2>1 DEF Own, Inside, Remembered, Judged, Tested, Undisturbed,
      Replaces, Passed, Stopped, Rotates, Wanted
  <2>3. Alone(d)' /\ Tidied(d)' /\ Unfinished(d)'
    BY <1>1, <1>2, <2>1 DEF Alone, Tidied, Undisturbed, Unfinished
  <2>4. QED
    BY <2>2, <2>3
<1>5. Known'
  BY <1>1 DEF IInv, Known
<1>6. QED
  BY <1>3, <1>4, <1>5 DEF IInv

LEMMA InvNext == IInv /\ [Next]_vars => IInv'
<1> SUFFICES ASSUME IInv, [Next]_vars PROVE IInv'
  OBVIOUS
<1>1. TypeOK'
  BY TypeNext DEF IInv, Own
<1>2. CASE Backend
  <2>1. BackendMoves /\ UNCHANGED <<account, pc, request, job, result, used>>
    BY <1>2 DEF Backend
  <2>2. ASSUME NEW c \in Commands
        PROVE  Own(c)' /\ Alone(c)' /\ Tidied(c)' /\ Unfinished(c)'
    <3>1. TypeOK /\ Own(c) /\ Alone(c) /\ Tidied(c) /\ Unfinished(c)
      BY DEF IInv
    <3>2. Undisturbed(c) /\ "stray" \notin job[c].faults =>
            backend' \in {backend, NoAccount} /\ strays' = {}
      BY <2>1, <3>1, Tidy DEF Tidied
    <3>3. Inside(c)' /\ Remembered(c)' /\ Judged(c)'
      BY <2>1, <3>1 DEF Own, Inside, Remembered, Judged, Rotates, Wanted
    <3>4. Tested(c)'
      BY <2>1, <3>1, <3>2 DEF Own, Tested, Undisturbed, Replaces, Passed, Rotates, Wanted
    <3>5. Stopped(c)'
      BY <2>1, <3>1, <3>2 DEF Own, Stopped, Undisturbed, Rotates
    <3>6. QED
      BY <2>1, <3>1, <3>2, <3>3, <3>4, <3>5 DEF Own, Alone, Tidied, Undisturbed, Unfinished
  <2>3. QED
    BY <1>1, <2>1, <2>2 DEF IInv, Known
<1>3. CASE UNCHANGED vars
  <2>1. UNCHANGED <<account, managed, pc, request, job, result, used>>
    BY <1>3 DEF vars
  <2>2. ASSUME NEW c \in Commands
        PROVE  Own(c)' /\ Alone(c)' /\ Tidied(c)' /\ Unfinished(c)'
    <3>1. Own(c) /\ Alone(c) /\ Tidied(c) /\ Unfinished(c)
      BY DEF IInv
    <3>2. Own(c)'
      BY <2>1, <3>1 DEF Own, Inside, Remembered, Judged, Tested, Undisturbed,
        Replaces, Passed, Stopped, Rotates, Wanted
    <3>3. QED
      BY <2>1, <3>1, <3>2 DEF Alone, Tidied, Undisturbed, Unfinished
  <2>3. QED
    BY <1>1, <2>1, <2>2 DEF IInv, Known
<1>4. QED
  BY <1>1, <1>2, <1>3, CommandInv, KillInv, BeginInv DEF Next

LEMMA Invariance == Spec => []IInv
<1>1. QED
  BY InvInit, InvNext, PTL DEF Spec

\* What the commands keep is of its type, and a rotate makes no more attempts
\* than it was asked for.
THEOREM TypeCorrect == Spec => []TypeOK
<1>1. IInv => TypeOK
  BY DEF IInv
<1>2. QED
  BY <1>1, Invariance, PTL

-------------------------------------------------------------------------------
(* How a rotate ends. *)

\* Only a command ends itself with a result.
LEMMA OnlyCommandsEnd ==
  ASSUME IInv, [Next]_vars, NEW c \in Commands, NEW how \in {"success", "failure"},
         Ends(c, how)
  PROVE  CommandNext(c)
<1>1. pc[c] # "idle" /\ pc'[c] = "idle" /\ result'[c] = how /\ result[c] = "none"
  BY DEF Ends, IInv, Unfinished
<1>2. ASSUME NEW d \in Commands, CommandNext(d)
      PROVE  d = c
  BY <1>1, <1>2, CommandMoved DEF Moved
<1>3. ~Kill(c) /\ \A d \in Commands \ {c} : ~Kill(d)
  BY <1>1 DEF Kill, IInv, TypeOK
<1>4. ASSUME NEW d \in Commands, NEW r \in Requests, Begin(d, r)
      PROVE  FALSE
  <2>1. pc[d] = "idle" /\ pc' = [pc EXCEPT ![d] = First[r.op]]
    BY <1>4 DEF Begin
  <2>2. pc'[c] = pc[c]
    BY <1>1, <2>1 DEF IInv, TypeOK
  <2>3. QED
    BY <1>1, <2>2
<1>5. ~Backend /\ ~UNCHANGED vars
  BY <1>1 DEF Backend, vars
<1>6. QED
  BY <1>2, <1>3, <1>4, <1>5 DEF Next

\* A command that has a next attempt, or an account to go back to, goes on.
LEMMA NextAttemptEnds ==
  ASSUME TypeOK, NEW c \in Commands, NEW j, NextAttempt(c, j), pc'[c] = "idle"
  PROVE  j.previous = NoAccount /\ End(c, "failure", j)
BY ContinueMoves DEF NextAttempt

LEMMA NotIdle ==
  ASSUME TypeOK, NEW c \in Commands, NEW l, l # "idle", pc'[c] = "idle"
  PROVE  ~Goto(c, l) /\ \A j : ~Continue(c, l, j)
BY ContinueMoves DEF Goto

LEMMA Failing ==
  ASSUME IInv, NEW c \in Commands, CommandNext(c), Ends(c, "failure")
  PROVE  \/ /\ job[c].previous = NoAccount
            /\ job'[c].faults \subseteq {"errorPage"} => backend' = NoAccount
         \/ pc[c] = "stop" /\ account' = account /\ "stopFailed" \in job'[c].faults
         \/ /\ pc[c] = "restore"
            /\ \/ /\ account' = job[c].previous /\ backend' = backend
                  /\ ~job[c].wasRunning
               \/ "saveFailed" \in job'[c].faults
         \/ /\ pc[c] = "restart" /\ account' = account
            /\ StartSucceeds(account, active) \/ StartFails(active)
            /\ job'[c].faults = job[c].faults \cup Strayed
<1>1. /\ TypeOK /\ Own(c) /\ Rotates(c) /\ pc'[c] = "idle" /\ result'[c] = "failure"
      /\ job[c] \in Jobs /\ Moved(c)
  BY CommandMoved DEF IInv, Ends, TypeOK
<1>2. pc[c] \notin {"load", "import", "upLook"}
  BY <1>1 DEF Ends, Own, Inside
<1>3. ASSUME NEW F
      PROVE  /\ Suffered(c, F).faults = job[c].faults \cup F
             /\ Suffered(c, F).previous = job[c].previous
  BY <1>1, SufferedFields
<1>4. ASSUME NEW j, NEW how, End(c, how, j)
      PROVE  how = "failure" /\ job'[c].faults = j.faults
  <2>1. job'[c] = [Fresh EXCEPT !.faults = j.faults] /\ result'[c] = how
    BY <1>1, <1>4, EndMoves
  <2>2. QED
    BY <1>1, <2>1 DEF Fresh
<1>5. CASE /\ pc[c] \in {"look", "register", "enroll", "save"} /\ RegistrationFails(c)
           /\ backend' = backend
  <2>1. job[c].previous = NoAccount
    BY <1>1, <1>5, NextAttemptEnds DEF RegistrationFails
  <2>2. QED
    BY <1>1, <1>5, <2>1 DEF Own, Stopped, Moved
<1>6. CASE Look(c)
  BY <1>1, <1>5, <1>6, NotIdle DEF Look
<1>7. CASE Register(c)
  BY <1>1, <1>5, <1>7, NotIdle DEF Register
<1>8. CASE Enroll(c)
  BY <1>1, <1>5, <1>8, NotIdle DEF Enroll
<1>9. CASE Save(c)
  BY <1>1, <1>5, <1>9, NotIdle DEF Save
<1>10. CASE Start(c)
  BY <1>1, <1>10, NotIdle DEF Start
<1>11. CASE Stop(c)
  <2>1. \A j : ~Continue(c, "look", j)
    BY <1>1, NotIdle
  <2>2. End(c, "failure", Suffered(c, {"stopFailed"}))
    BY <1>4, <1>11, <2>1 DEF Stop
  <2>3. "stopFailed" \in job'[c].faults
    BY <1>3, <1>4, <2>2
  <2>4. QED
    BY <1>11, <2>3 DEF Stop
<1>12. CASE RememberRotationAccount(c)
  <2>1. NextAttempt(c, job[c])
    BY <1>1, <1>4, <1>12, NotIdle DEF RememberRotationAccount
  <2>2. job[c].previous = NoAccount
    BY <1>1, <2>1, NextAttemptEnds
  <2>3. QED
    BY <1>1, <1>12, <2>2 DEF RememberRotationAccount, Own, Stopped, Moved
<1>13. CASE Reach(c)
  BY <1>1, <1>4, <1>13, NotIdle DEF Reach
<1>14. ~ProbeService(c)
  BY <1>1, NotIdle DEF ProbeService
<1>15. CASE Judge(c)
  BY <1>1, <1>4, <1>15, NotIdle DEF Judge
<1>16. CASE Discard(c)
  <2>1. CASE StopSucceeds /\ NextAttempt(c, Suffered(c, Strayed))
    <3>1. Suffered(c, Strayed).previous = NoAccount
      BY <1>1, <2>1, NextAttemptEnds
    <3>2. QED
      BY <1>3, <2>1, <3>1 DEF StopSucceeds
  <2>2. CASE NextAttempt(c, Suffered(c, {"stopFailed"}))
    <3>1. /\ Suffered(c, {"stopFailed"}).previous = NoAccount
          /\ End(c, "failure", Suffered(c, {"stopFailed"}))
      BY <1>1, <2>2, NextAttemptEnds
    <3>2. "stopFailed" \in job'[c].faults
      BY <1>3, <1>4, <3>1
    <3>3. QED
      BY <1>3, <3>1, <3>2
  <2>3. QED
    BY <1>16, <2>1, <2>2 DEF Discard
<1>17. CASE Retire(c)
  BY <1>4, <1>17 DEF Retire
<1>18. CASE Restore(c)
  BY <1>1, <1>3, <1>4, <1>18, NotIdle DEF Restore
<1>19. CASE Restart(c)
  BY <1>3, <1>4, <1>19 DEF Restart
<1>20. QED
  BY <1>2, <1>6, <1>7, <1>8, <1>9, <1>10, <1>11, <1>12, <1>13, <1>14, <1>15, <1>16, <1>17,
    <1>18, <1>19 DEF CommandNext, Load, Import, UpLook

LEMMA Succeeding ==
  ASSUME IInv, NEW c \in Commands, CommandNext(c), Ends(c, "success")
  PROVE  /\ UNCHANGED <<account, request>> /\ job[c].faults \subseteq job'[c].faults
         /\ \/ /\ pc[c] = "remember" /\ backend' = backend
               /\ ~job[c].wasRunning /\ Wanted(c) = {}
            \/ pc[c] = "reach" /\ backend' = backend /\ Wanted(c) = {}
            \/ /\ pc[c] = "judge" /\ backend' = backend
               /\ job[c].available /\ job[c].wasRunning
            \/ /\ pc[c] = "retire"
               /\ backend' = NoAccount \/ "stopFailed" \in job'[c].faults
<1>1. /\ TypeOK /\ Own(c) /\ Rotates(c) /\ pc'[c] = "idle" /\ result'[c] = "success"
      /\ job[c] \in Jobs /\ Moved(c)
  BY CommandMoved DEF IInv, Ends, TypeOK
<1>2. pc[c] \notin {"load", "import", "upLook"}
  BY <1>1 DEF Ends, Own, Inside
<1>3. job[c].faults \subseteq job'[c].faults
  BY <1>1 DEF Moved
<1>4. ASSUME NEW j, NEW how, End(c, how, j)
      PROVE  how = "success" /\ job'[c].faults = j.faults
  <2>1. job'[c] = [Fresh EXCEPT !.faults = j.faults] /\ result'[c] = how
    BY <1>1, <1>4, EndMoves
  <2>2. QED
    BY <1>1, <2>1 DEF Fresh
<1>5. ASSUME NEW j
      PROVE  ~End(c, "failure", j) /\ ~NextAttempt(c, j)
  <2>1. ~End(c, "failure", j)
    BY <1>4
  <2>2. QED
    BY <1>1, <2>1, NextAttemptEnds
<1>6. ~RegistrationFails(c)
  BY <1>5 DEF RegistrationFails
<1>7. ~Look(c) /\ ~Register(c) /\ ~Enroll(c) /\ ~Save(c)
  BY <1>1, <1>6, NotIdle DEF Look, Register, Enroll, Save
<1>8. ~Start(c) /\ ~Stop(c)
  BY <1>1, <1>5, NotIdle DEF Start, Stop
<1>9. ~ProbeService(c)
  BY <1>1, NotIdle DEF ProbeService
<1>10. ~Discard(c) /\ ~Restore(c) /\ ~Restart(c)
  BY <1>1, <1>5, NotIdle DEF Discard, Restore, Restart
<1>11. CASE RememberRotationAccount(c)
  BY <1>1, <1>3, <1>5, <1>11, NotIdle DEF RememberRotationAccount
<1>12. CASE Reach(c)
  BY <1>1, <1>3, <1>12, NotIdle DEF Reach
<1>13. CASE Judge(c)
  BY <1>1, <1>3, <1>13, NotIdle DEF Judge
<1>14. CASE Retire(c)
  <2>1. "stopFailed" \in Suffered(c, {"stopFailed"}).faults
    BY <1>1, SufferedFields
  <2>2. QED
    BY <1>3, <1>4, <1>14, <2>1 DEF Retire, StopSucceeds
<1>15. QED
  BY <1>2, <1>7, <1>8, <1>9, <1>10, <1>11, <1>12, <1>13, <1>14
  DEF CommandNext, Load, Import, UpLook

\* A rotate that fails goes back to the account it found, whatever the number
\* of its attempts and wherever each of them failed.
THEOREM FailureRestores == Spec => FailureGoesBack
<1> DEFINE Restores ==
      \A c \in Commands :
        /\ Ends(c, "failure")
        /\ job'[c].faults \subseteq {"stopFailed", "errorPage", "stray"}
        /\ job[c].previous # NoAccount
        => account' = job[c].previous
<1>1. IInv /\ [Next]_vars => Restores
  <2> SUFFICES ASSUME IInv, [Next]_vars, NEW c \in Commands, Ends(c, "failure"),
                      job'[c].faults \subseteq {"stopFailed", "errorPage", "stray"},
                      job[c].previous # NoAccount
               PROVE  account' = job[c].previous
    OBVIOUS
  <2>1. CommandNext(c)
    BY OnlyCommandsEnd
  <2>2. Undisturbed(c) /\ Rotates(c) /\ Tested(c)
    BY <2>1, CommandMoved DEF Moved, Undisturbed, Ends, IInv, Own
  <2>3. \/ account' = job[c].previous
        \/ pc[c] \in {"stop", "restart"} /\ account' = account
    BY <2>1, Failing
  <2>4. QED
    BY <2>2, <2>3 DEF Tested
<1>2. QED
  BY <1>1, Invariance, PTL DEF Spec, FailureGoesBack

\* A rotate that succeeds has replaced the account by one from whose address
\* every service asked for is open, as far as the probes can tell.
THEOREM SuccessTested == Spec => SuccessIsTested
<1> DEFINE Shown ==
      \A c \in Commands :
        Ends(c, "success") /\ "overlap" \notin job'[c].faults =>
          /\ account' # NoAccount
          /\ job[c].previous # NoAccount =>
               /\ account'.id # job[c].previous.id
               /\ job[c].previous.masque => account'.masque
          /\ \A s \in Wanted(c) :
               \/ s \in account'.open
               \/ s \in {"chatgpt", "claude", "netflix"} /\ "errorPage" \in job'[c].faults
               \/ "stray" \in job'[c].faults
<1>1. IInv /\ [Next]_vars => Shown
  <2> SUFFICES ASSUME IInv, [Next]_vars, NEW c \in Commands, Ends(c, "success"),
                      "overlap" \notin job'[c].faults
               PROVE  /\ Replaces(c) /\ account' = account
                      /\ \A s \in Wanted(c) :
                           \/ s \in account'.open
                           \/ /\ s \in {"chatgpt", "claude", "netflix"}
                              /\ "errorPage" \in job'[c].faults
                           \/ "stray" \in job'[c].faults
    BY RotateAssumption DEF Replaces, Registrations
  <2>1. CommandNext(c)
    BY OnlyCommandsEnd
  <2>2. /\ account' = account /\ job[c].faults \subseteq job'[c].faults
        /\ pc[c] \in {"remember", "reach", "judge", "retire"}
        /\ \/ Wanted(c) = {}
           \/ pc[c] = "judge" /\ job[c].available
           \/ pc[c] = "retire"
    BY <2>1, Succeeding
  <2>3. Undisturbed(c) /\ Rotates(c) /\ Tested(c) /\ Judged(c)
    <3>1. Own(c)
      BY DEF IInv
    <3>2. "overlap" \notin job[c].faults
      BY <2>2
    <3>3. QED
      BY <3>1, <3>2 DEF Undisturbed, Ends, Own
  <2>4. Replaces(c)
    BY <2>2, <2>3 DEF Tested
  <2>5. ASSUME NEW s \in Wanted(c)
        PROVE  Passed(c, s)
    <3>1. pc[c] \in {"judge", "retire"} /\ job[c].available /\ job[c].left = {}
      BY <2>2, <2>3, <2>5 DEF Judged
    <3>2. QED
      BY <2>3, <3>1 DEF Tested
  <2>6. QED
    BY <2>2, <2>4, <2>5 DEF Passed
<1>2. QED
  BY <1>1, Invariance, PTL DEF Spec, SuccessIsTested

\* A rotate leaves no backend but one of the account it leaves, and none where
\* there was none.
THEOREM LeftAsFound == Spec => LeavesAsFound
<1> DEFINE Left ==
      \A c \in Commands :
        /\ Ends(c, "success") \/ Ends(c, "failure")
        /\ job'[c].faults \subseteq {"errorPage"}
        => Running' \subseteq (IF job[c].wasRunning THEN {account'} ELSE {})
<1>1. IInv /\ [Next]_vars => Left
  <2> SUFFICES ASSUME IInv, [Next]_vars, NEW c \in Commands,
                      Ends(c, "success") \/ Ends(c, "failure"),
                      job'[c].faults \subseteq {"errorPage"}
               PROVE  Running' \subseteq (IF job[c].wasRunning THEN {account'} ELSE {})
    OBVIOUS
  <2>1. CommandNext(c)
    BY OnlyCommandsEnd
  <2>2. /\ job[c].faults \subseteq {"errorPage"} /\ Undisturbed(c) /\ Rotates(c)
        /\ Tested(c) /\ Judged(c) /\ Stopped(c) /\ TypeOK
    BY <2>1, CommandMoved DEF Moved, Undisturbed, Ends, IInv, Own
  <2>t. strays = {} /\ strays' = {}
    <3>1. strays = {}
      BY <2>2 DEF IInv, Tidied
    <3>2. QED
      BY <2>1, <2>2, <3>1, CommandTidy
  <2>g. SUFFICES /\ backend' \in {account', NoAccount}
                 /\ ~job[c].wasRunning => backend' = NoAccount
    BY <2>t DEF Running
  <2>3. CASE Ends(c, "success")
    <3>1. UNCHANGED account
      BY <2>1, <2>3, Succeeding
    <3>2. CASE pc[c] = "remember" /\ backend' = backend
      BY <2>2, <3>2 DEF Stopped
    <3>3. CASE pc[c] \in {"reach", "judge"} /\ backend' = backend /\ job[c].wasRunning
      BY <2>2, <3>1, <3>3 DEF Tested
    <3>4. CASE backend' = NoAccount
      BY <3>4
    <3>5. pc[c] = "reach" /\ Wanted(c) = {} => job[c].wasRunning
      BY <2>2 DEF Judged
    <3>6. QED
      BY <2>1, <2>3, <3>2, <3>3, <3>4, <3>5, Succeeding
  <2>4. CASE Ends(c, "failure")
    <3>1. CASE backend' = NoAccount
      BY <3>1
    <3>2. CASE pc[c] = "restore" /\ backend' = backend
      BY <2>2, <3>2 DEF Stopped
    <3>3. CASE /\ pc[c] = "restart" /\ account' = account
               /\ StartSucceeds(account, active) \/ StartFails(active)
               /\ job'[c].faults = job[c].faults \cup Strayed
      <4>1. Strayed = {} /\ backend = NoAccount /\ job[c].wasRunning
        BY <2>2, <3>3 DEF Strayed, Stopped, Judged
      <4>2. backend' \in {account, NoAccount}
        BY <2>2, <2>t, <3>3, <4>1, Tidy
      <4>3. QED
        BY <3>3, <4>1, <4>2
    <3>4. QED
      BY <2>1, <2>4, <3>1, <3>2, <3>3, Failing
  <2>5. QED
    BY <2>3, <2>4
<1>2. QED
  BY <1>1, Invariance, PTL DEF Spec, LeavesAsFound

===============================================================================
