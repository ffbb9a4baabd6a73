----------------------------- MODULE ManagedBackend -----------------------------
(***************************************************************************)
(* The backend as the daemon and the rotate command see it: what           *)
(* stopBackendRuntime and startBackendRuntime do to it in one step each,   *)
(* and what happens to it by itself.  BackendRuntime has their single      *)
(* steps, with the processes and files behind them.                        *)
(*                                                                         *)
(* A backend is the account its process was started with.  Whether there   *)
(* is one the code judges by IsRuntimeActive of runtime.json, and that     *)
(* may be wrong both ways: a native backend has no service.sock until its  *)
(* transport is connected, and of a backend that has died a zombie or the  *)
(* socket may be left.  A backend taken for dead is forgotten and runs on. *)
(*                                                                         *)
(* Both runtime families are one here, and what forgotten processes do to  *)
(* runtime.json, the socket and each other is left open: the model allows  *)
(* more than they do.                                                      *)
(***************************************************************************)
CONSTANT NoAccount

VARIABLES
  backend,  \* account of the live process that runtime.json names
  active,   \* what IsRuntimeActive says of runtime.json; FALSE without one
  strays    \* accounts of the live processes that runtime.json does not name

managed == <<backend, active, strays>>

\* A process of any of these accounts may hold the access port.
Running == ({backend} \cup strays) \ {NoAccount}

NoBackend == backend = NoAccount /\ active = FALSE /\ strays = {}

\* For the auxiliary faults of a step: it has left a process to itself.
Strayed == IF strays' \subseteq strays THEN {} ELSE {"stray"}

-------------------------------------------------------------------------------
(* stopBackendRuntime. *)

\* Nil is returned: an active backend has been stopped, of any other only the
\* record is removed.
StopSucceeds ==
  /\ backend' = NoAccount
  /\ active' = FALSE
  /\ strays' = IF active THEN strays ELSE Running

\* The record cannot be read, or the process not be stopped; or it has been
\* stopped and its record cannot be removed.
StopFails ==
  \/ UNCHANGED managed
  \/ /\ active
     /\ backend' = NoAccount
     /\ active' \in BOOLEAN
     /\ UNCHANGED strays

-------------------------------------------------------------------------------
(* startBackendRuntime, and up.  taken: the caller's answer to whether a   *)
(* backend is running; if none is, the record is stale and removed first.  *)

\* A legacy backend is active at once.  The process is not recorded if the
\* save fails, which is only a warning, or if its own tracker has come first
\* and saves a record without its PID.
StartSucceeds(acc, taken) ==
  /\ ~taken
  /\ acc # NoAccount
  /\ \/ backend' = acc /\ strays' = Running
     \/ backend' = NoAccount /\ strays' = Running \cup {acc}
  /\ active' \in BOOLEAN

\* Before the look at runtime.json, at it, or after it.
StartFails(taken) ==
  \/ UNCHANGED managed
  \/ /\ ~taken
     /\ backend' = NoAccount
     /\ active' \in BOOLEAN
     /\ strays' = Running

-------------------------------------------------------------------------------
(* What happens by itself. *)

\* A native backend is connected.
BackendConnects ==
  /\ backend # NoAccount
  /\ ~active
  /\ active' = TRUE
  /\ UNCHANGED <<backend, strays>>

\* A backend dies; or what made a dead one look active is gone.
BackendDies ==
  /\ backend # NoAccount \/ active
  /\ backend' = NoAccount
  /\ active' \in {active, FALSE}
  /\ UNCHANGED strays

\* A process that runtime.json does not name ends, taking the socket with it or
\* not, or connects, and its tracker saves runtime.json as it knows it.
StrayMoves ==
  /\ strays # {}
  /\ \/ \E a \in strays : strays' \in {strays, strays \ {a}} /\ UNCHANGED backend
     \/ /\ backend' \in strays \cup {NoAccount}
        /\ strays' \in {Running, Running \ {backend'}}
  /\ active' \in BOOLEAN

BackendMoves == BackendConnects \/ BackendDies \/ StrayMoves

===============================================================================
