------------------------------ MODULE BackendSlot ------------------------------
(***************************************************************************)
(* What the daemon and the commands expect of the backend lifecycle: there *)
(* is one place for a backend.  It is taken by a launch when it is free,   *)
(* its holder is recorded once and stays recorded until it is dead and     *)
(* then cleared, and the next launch comes after that.                     *)
(***************************************************************************)
CONSTANTS Pids,     \* the processes that can be backends
          NoPid     \* no process

VARIABLES alive,    \* the backends that are alive
          pending,  \* those launched and not recorded
          record,   \* the one in runtime.json
          orderly   \* nothing has happened that no caller provides for

vars == <<alive, pending, record, orderly>>

Init ==
  /\ alive = {}
  /\ pending = {}
  /\ record = NoPid
  /\ orderly = TRUE

Free == alive = {} /\ pending = {}

Launch(p) ==
  /\ Free
  /\ record = NoPid
  /\ alive' = {p}
  /\ pending' = {p}
  /\ UNCHANGED record

\* The backend may have died before it is recorded.
Record(p) ==
  /\ pending = {p}
  /\ record = NoPid
  /\ record' = p
  /\ pending' = {}
  /\ UNCHANGED alive

\* A backend is given up without a record only when it is dead.
GiveUp ==
  /\ alive = {}
  /\ pending' = {}
  /\ UNCHANGED <<alive, record>>

\* A backend ends, by a stop or on its own.
End ==
  /\ alive' = {}
  /\ UNCHANGED <<pending, record>>

Clear ==
  /\ Free
  /\ record' = NoPid
  /\ UNCHANGED <<alive, pending>>

Orderly ==
  /\ orderly
  /\ UNCHANGED orderly
  /\ \/ \E p \in Pids : Launch(p) \/ Record(p)
     \/ GiveUp \/ End \/ Clear

\* After that nothing is promised any more.
Disturbed == orderly' = FALSE

Next == Orderly \/ Disturbed

Spec == Init /\ [][Next]_vars
===============================================================================
