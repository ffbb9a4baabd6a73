------------------------------ MODULE StateStore ------------------------------
(***************************************************************************)
(* One JSON state file of internal/state/store.go, at the granularity of   *)
(* the system calls writeSecure and readJSON make.  Every Save* function   *)
(* ends in writeSecure and every Load* function in readJSON; only          *)
(* SaveAccount looks first whether the file is already there.              *)
(*                                                                         *)
(* A writer opens the ONE temporary name path+".tmp" with O_CREATE and     *)
(* O_TRUNC, encodes into it, closes it and renames it over the target.     *)
(* The temporary name is shared by all writers of the path, so an inode    *)
(* can be reached by several of them.  write(2) holds the inode lock, so   *)
(* an encode is one step; it may fail half way (disk full).  A writer may  *)
(* die at any point and leaves the temporary file behind.                  *)
(*                                                                         *)
(* Abstracted: the directory creation before the write, the document's     *)
(* text (a document is a model value), power failures (nothing is synced). *)
(***************************************************************************)
EXTENDS FiniteSets

CONSTANTS Writers,   \* processes or goroutines that save this file
          Readers,   \* processes that load it
          Docs,      \* documents that may be saved
          Inodes,    \* inodes of the file system
          NoInode,   \* a name, or a handle, that refers to no inode
          Empty,     \* content of a truncated inode
          Torn       \* content of an inode whose write failed half way

ASSUME DistinctContents == /\ Empty \notin Docs
                           /\ Torn \notin Docs
                           /\ Empty # Torn
ASSUME NoInodeIsNone == /\ NoInode \notin Inodes
                        /\ NoInode \notin Docs

VARIABLES
  target,   \* inode under the path
  tmp,      \* inode under path+".tmp"
  data,     \* content of every inode
  wpc,      \* where each writer is in its save
  wdoc,     \* the document it saves
  wfd,      \* the inode it has open
  wres,     \* how its last save ended
  rfd,      \* the inode each reader has open
  rres      \* what its last load returned

writerVars == <<wpc, wdoc, wfd, wres>>
readerVars == <<rfd, rres>>
vars == <<target, tmp, data, writerVars, readerVars>>

WriterSteps == {"idle", "open", "encode", "close", "rename", "cleanup"}
Contents == Docs \cup {Empty, Torn}
Names == Inodes \cup {NoInode}
LoadResults == Docs \cup {"none", "notfound", "corrupt"}

\* Inodes no name and no handle refers to any more.
FreeInodes == {i \in Inodes : /\ i # target
                              /\ i # tmp
                              /\ \A w \in Writers : wfd[w] # i
                              /\ \A r \in Readers : rfd[r] # i}

Goto(w, step) == wpc' = [wpc EXCEPT ![w] = step]

Init ==
  /\ target = NoInode
  /\ tmp = NoInode
  /\ data = [i \in Inodes |-> Empty]
  /\ wpc = [w \in Writers |-> "idle"]
  /\ wdoc \in [Writers -> Docs]
  /\ wfd = [w \in Writers |-> NoInode]
  /\ wres = [w \in Writers |-> "none"]
  /\ rfd = [r \in Readers |-> NoInode]
  /\ rres = [r \in Readers |-> "none"]

-------------------------------------------------------------------------------
(* Saving. *)

\* A save begins.  Without force SaveAccount stats the target and gives up
\* when it exists; nothing holds the name between this look and the rename.
BeginSave(w, d, force) ==
  /\ wpc[w] = "idle"
  /\ wdoc' = [wdoc EXCEPT ![w] = d]
  /\ \/ /\ ~force
        /\ target # NoInode
        /\ wres' = [wres EXCEPT ![w] = "exists"]
        /\ UNCHANGED wpc
     \/ /\ force \/ target = NoInode
        /\ wres' = [wres EXCEPT ![w] = "none"]
        /\ Goto(w, "open")
  /\ UNCHANGED <<target, tmp, data, wfd, readerVars>>

\* Mutant: the document is written in place, without a temporary file.
OpenInPlace(w) ==
  /\ wpc[w] = "open"
  /\ \E i \in IF target = NoInode THEN FreeInodes ELSE {target} :
       /\ tmp' = i
       /\ data' = [data EXCEPT ![i] = Empty]
       /\ wfd' = [wfd EXCEPT ![w] = i]
  /\ Goto(w, "encode")
  /\ UNCHANGED <<target, wdoc, wres, readerVars>>

\* Mutant: an existing temporary file is opened without O_TRUNC and taken as
\* already written.
OpenKeepsOld(w) ==
  /\ wpc[w] = "open"
  /\ \E i \in IF tmp = NoInode THEN FreeInodes ELSE {tmp} :
       /\ tmp' = i
       /\ wfd' = [wfd EXCEPT ![w] = i]
       /\ Goto(w, IF data[i] \in Docs THEN "close" ELSE "encode")
  /\ UNCHANGED <<target, data, wdoc, wres, readerVars>>

\* os.OpenFile(tmp, O_WRONLY|O_CREATE|O_TRUNC): an existing temporary file,
\* whoever made it, is truncated and shared.
OpenTmp(w) ==
  /\ wpc[w] = "open"
  /\ \E i \in IF tmp = NoInode THEN FreeInodes ELSE {tmp} :
       /\ tmp' = i
       /\ data' = [data EXCEPT ![i] = Empty]
       /\ wfd' = [wfd EXCEPT ![w] = i]
  /\ Goto(w, "encode")
  /\ UNCHANGED <<target, wdoc, wres, readerVars>>

\* The open is refused: the save ends with an error and no trace.
OpenFails(w) ==
  /\ wpc[w] = "open"
  /\ wres' = [wres EXCEPT ![w] = "error"]
  /\ Goto(w, "idle")
  /\ UNCHANGED <<target, tmp, data, wdoc, wfd, readerVars>>

\* enc.Encode(v).  The decoder stops after the first value, so what counts
\* is the document at the start of the file: the one written last.
Encode(w) ==
  /\ wpc[w] = "encode"
  /\ data' = [data EXCEPT ![wfd[w]] = wdoc[w]]
  /\ Goto(w, "close")
  /\ UNCHANGED <<target, tmp, wdoc, wfd, wres, readerVars>>

\* Mutant: the error path removes the temporary file and forgets to close it.
EncodeFailsLeaks(w) ==
  /\ wpc[w] = "encode"
  /\ \E c \in {data[wfd[w]], Torn} : data' = [data EXCEPT ![wfd[w]] = c]
  /\ Goto(w, "cleanup")
  /\ UNCHANGED <<target, tmp, wdoc, wfd, wres, readerVars>>

\* Encode fails, before or after it wrote something: close, then remove the
\* temporary name.
EncodeFails(w) ==
  /\ wpc[w] = "encode"
  /\ \E c \in {data[wfd[w]], Torn} : data' = [data EXCEPT ![wfd[w]] = c]
  /\ wfd' = [wfd EXCEPT ![w] = NoInode]
  /\ Goto(w, "cleanup")
  /\ UNCHANGED <<target, tmp, wdoc, wres, readerVars>>

\* f.Close(), which may report a write error of its own.
CloseTmp(w) ==
  /\ wpc[w] = "close"
  /\ wfd' = [wfd EXCEPT ![w] = NoInode]
  /\ \/ Goto(w, "rename")
     \/ Goto(w, "cleanup")
  /\ UNCHANGED <<target, tmp, data, wdoc, wres, readerVars>>

\* os.Rename(tmp, path) publishes whatever inode the temporary name refers
\* to now, and fails when another writer has renamed or removed it.
RenameTmp(w) ==
  /\ wpc[w] = "rename"
  /\ \/ /\ tmp # NoInode
        /\ target' = tmp
        /\ tmp' = NoInode
        /\ wres' = [wres EXCEPT ![w] = "ok"]
        /\ Goto(w, "idle")
     \/ /\ tmp = NoInode
        /\ Goto(w, "cleanup")
        /\ UNCHANGED <<target, tmp, wres>>
  /\ UNCHANGED <<data, wdoc, wfd, readerVars>>

\* os.Remove(tmp) on an error path, then the error is returned.
Cleanup(w) ==
  /\ wpc[w] = "cleanup"
  /\ tmp' = NoInode
  /\ wres' = [wres EXCEPT ![w] = "error"]
  /\ Goto(w, "idle")
  /\ UNCHANGED <<target, data, wdoc, wfd, readerVars>>

\* ClearRuntime removes the file itself.
RemoveTarget(w) ==
  /\ wpc[w] = "idle"
  /\ target' = NoInode
  /\ UNCHANGED <<tmp, data, writerVars, readerVars>>

\* The writer's process is killed in the middle of a save and started again.
Crash(w) ==
  /\ wpc[w] # "idle"
  /\ Goto(w, "idle")
  /\ wfd' = [wfd EXCEPT ![w] = NoInode]
  /\ wres' = [wres EXCEPT ![w] = "none"]
  /\ UNCHANGED <<target, tmp, data, wdoc, readerVars>>

-------------------------------------------------------------------------------
(* Loading. *)

\* os.Open: the handle stays on the inode, whatever is renamed afterwards.
OpenTarget(r) ==
  /\ rfd[r] = NoInode
  /\ rfd' = [rfd EXCEPT ![r] = target]
  /\ rres' = [rres EXCEPT ![r] = IF target = NoInode THEN "notfound" ELSE "none"]
  /\ UNCHANGED <<target, tmp, data, writerVars>>

\* json.Decode: a document, or an error on an empty or damaged file.
Decode(r) ==
  /\ rfd[r] # NoInode
  /\ rres' = [rres EXCEPT ![r] = IF data[rfd[r]] \in Docs THEN data[rfd[r]]
                                                          ELSE "corrupt"]
  /\ rfd' = [rfd EXCEPT ![r] = NoInode]
  /\ UNCHANGED <<target, tmp, data, writerVars>>

-------------------------------------------------------------------------------
Save(w) ==
  \/ \E d \in Docs, force \in BOOLEAN : BeginSave(w, d, force)
  \/ OpenTmp(w)
  \/ OpenFails(w)
  \/ Encode(w)
  \/ EncodeFails(w)
  \/ CloseTmp(w)
  \/ RenameTmp(w)
  \/ Cleanup(w)
  \/ RemoveTarget(w)
  \/ Crash(w)

Load(r) == OpenTarget(r) \/ Decode(r)

Next ==
  \/ \E w \in Writers : Save(w)
  \/ \E r \in Readers : Load(r)

Spec == Init /\ [][Next]_vars

-------------------------------------------------------------------------------
(* Properties. *)

\* Every variable has the values its declaration gives it, and a writer has
\* the temporary file open exactly while it writes it: whatever fails or
\* crashes, no save leaves a handle behind.
TypeOK ==
  /\ target \in Names
  /\ tmp \in Names
  /\ data \in [Inodes -> Contents]
  /\ wpc \in [Writers -> WriterSteps]
  /\ wdoc \in [Writers -> Docs]
  /\ wfd \in [Writers -> Names]
  /\ wres \in [Writers -> {"none", "ok", "exists", "error"}]
  /\ \A w \in Writers : wfd[w] # NoInode <=> wpc[w] \in {"encode", "close"}
  /\ rfd \in [Readers -> Names]
  /\ rres \in [Readers -> LoadResults]

\* The path never shows a truncated or half written file, and no reader has
\* one open: what writeSecure's temporary file and rename are for.
TargetWhole ==
  /\ target # NoInode => data[target] \in Docs
  /\ \A r \in Readers : rfd[r] # NoInode => data[rfd[r]] \in Docs

\* No load ever reports a damaged file.
NoCorruptLoad == \A r \in Readers : rres[r] # "corrupt"

\* A save that reports success has put its own document under the path, not
\* the leftover of an earlier or another save.
SuccessPublishesOwnDocument ==
  [][\A w \in Writers :
       wpc[w] = "rename" /\ wres'[w] = "ok"
         => target' # NoInode /\ data'[target'] = wdoc[w]]_vars

\* The file as its users see it.
File == INSTANCE AtomicFile WITH
  Absent <- NoInode,
  file <- IF target = NoInode THEN NoInode ELSE data[target],
  view <- [r \in Readers |-> IF rfd[r] = NoInode THEN NoInode ELSE data[rfd[r]]]

\* With one writer at a time, writeSecure and readJSON implement the atomic
\* file, whatever fails or crashes.
ImplementsAtomicFile == File!Spec
===============================================================================
