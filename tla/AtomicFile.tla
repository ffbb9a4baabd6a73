------------------------------ MODULE AtomicFile ------------------------------
(***************************************************************************)
(* What the callers of internal/state expect of one state file             *)
(* (account.json, runtime.json, settings.json, ...): at every instant the  *)
(* path holds one whole document or nothing, a save replaces the document  *)
(* in one step, and a reader keeps the document it opened.                 *)
(***************************************************************************)
CONSTANTS Docs,     \* the documents a state file can hold
          Readers,  \* the processes that read it
          Absent    \* stands for "no file" and for "nothing open"

VARIABLES file,     \* the document under the path, or Absent
          view      \* the document each reader has open, or Absent

vars == <<file, view>>

Init ==
  /\ file \in Docs \cup {Absent}
  /\ view = [r \in Readers |-> Absent]

\* A save takes effect: the whole document appears under the path.
Replace ==
  /\ file' \in Docs
  /\ UNCHANGED view

\* The state is cleared.
Remove ==
  /\ file' = Absent
  /\ UNCHANGED view

\* A reader opens the file and from then on sees that document.
Look(r) ==
  /\ file # Absent
  /\ view[r] = Absent
  /\ view' = [view EXCEPT ![r] = file]
  /\ UNCHANGED file

\* The reader has decoded the document.
LookAway(r) ==
  /\ view' = [view EXCEPT ![r] = Absent]
  /\ UNCHANGED file

Next ==
  \/ Replace
  \/ Remove
  \/ \E r \in Readers : Look(r) \/ LookAway(r)

Spec == Init /\ [][Next]_vars
===============================================================================
