--------------------------- MODULE StateStoreProofs ---------------------------
(***************************************************************************)
(* Proofs about StateStore for every set of writers, readers, documents    *)
(* and inodes.  The types are right whatever the writers do; everything    *)
(* else needs that only one writer uses the path at a time (OneWriter).    *)
(* The run StateStore_two_writers shows that this hypothesis is needed.    *)
(***************************************************************************)
EXTENDS StateStore, TLAPS

OneWriter == \A v, w \in Writers : v = w

\* The temporary file is invisible: it is neither the target nor open in a
\* reader.
TmpPrivate ==
  tmp # NoInode => /\ tmp # target
                   /\ \A r \in Readers : rfd[r] # tmp

\* A writer in mid-save works on the temporary file, and what it is about to
\* rename is its own document.
WriterOwnsTmp ==
  \A w \in Writers :
    /\ wpc[w] \in {"encode", "close", "rename"} => tmp # NoInode
    /\ wpc[w] \in {"encode", "close"} => wfd[w] = tmp
    /\ wpc[w] \in {"close", "rename"} => data[tmp] = wdoc[w]

\* While a save runs its result is open.
BusyHasNoResult ==
  \A w \in Writers : wpc[w] # "idle" => wres[w] = "none"

IInv ==
  /\ TypeOK
  /\ TargetWhole
  /\ TmpPrivate
  /\ WriterOwnsTmp
  /\ BusyHasNoResult

-------------------------------------------------------------------------------
(* Types, for any number of writers. *)

LEMMA TypeInit == Init => TypeOK
  BY DEF Init, TypeOK, Names, Contents, WriterSteps, LoadResults

LEMMA TypeStep == TypeOK /\ [Next]_vars => TypeOK'
<1> SUFFICES ASSUME TypeOK, [Next]_vars PROVE TypeOK'
  OBVIOUS
<1> USE DEF TypeOK, Names, Contents, WriterSteps, LoadResults, Goto,
            readerVars, writerVars
<1>1. ASSUME NEW w \in Writers, NEW d \in Docs, NEW force \in BOOLEAN,
             BeginSave(w, d, force)
      PROVE  TypeOK'
  BY <1>1 DEF BeginSave
<1>2. ASSUME NEW w \in Writers, OpenTmp(w) PROVE TypeOK'
  BY <1>2 DEF OpenTmp, FreeInodes
<1>3. ASSUME NEW w \in Writers, OpenFails(w) PROVE TypeOK'
  BY <1>3 DEF OpenFails
<1>4. ASSUME NEW w \in Writers, Encode(w) PROVE TypeOK'
  BY <1>4 DEF Encode
<1>5. ASSUME NEW w \in Writers, EncodeFails(w) PROVE TypeOK'
  <2>1. PICK c \in {data[wfd[w]], Torn} : data' = [data EXCEPT ![wfd[w]] = c]
    BY <1>5 DEF EncodeFails
  <2>2. CASE wfd[w] \in Inodes
    BY <1>5, <2>1, <2>2 DEF EncodeFails
  <2>3. CASE wfd[w] \notin Inodes
    <3>1. data' = data
      BY <2>1, <2>3
    <3>2. QED
      BY <1>5, <3>1 DEF EncodeFails
  <2>4. QED
    BY <2>2, <2>3
<1>6. ASSUME NEW w \in Writers, CloseTmp(w) PROVE TypeOK'
  BY <1>6 DEF CloseTmp
<1>7. ASSUME NEW w \in Writers, RenameTmp(w) PROVE TypeOK'
  BY <1>7 DEF RenameTmp
<1>8. ASSUME NEW w \in Writers, Cleanup(w) PROVE TypeOK'
  BY <1>8 DEF Cleanup
<1>9. ASSUME NEW w \in Writers, RemoveTarget(w) PROVE TypeOK'
  BY <1>9 DEF RemoveTarget
<1>10. ASSUME NEW w \in Writers, Crash(w) PROVE TypeOK'
  BY <1>10 DEF Crash
<1>11. ASSUME NEW r \in Readers, OpenTarget(r) PROVE TypeOK'
  BY <1>11 DEF OpenTarget
<1>12. ASSUME NEW r \in Readers, Decode(r) PROVE TypeOK'
  BY <1>12 DEF Decode
<1>13. CASE UNCHANGED vars
  BY <1>13 DEF vars
<1>14. QED
  BY <1>1, <1>2, <1>3, <1>4, <1>5, <1>6, <1>7, <1>8, <1>9, <1>10, <1>11,
     <1>12, <1>13 DEF Next, Save, Load

\* Type correctness of the file operations, with any number of writers.
THEOREM StoreTypeCorrect == Spec => []TypeOK
  BY TypeInit, TypeStep, PTL DEF Spec

-------------------------------------------------------------------------------
(* One writer. *)

LEMMA IndInit == Init => IInv
  BY TypeInit
  DEF Init, IInv, TargetWhole, TmpPrivate, WriterOwnsTmp,
      BusyHasNoResult

LEMMA IndStep ==
  ASSUME OneWriter, IInv, [Next]_vars
  PROVE  IInv'
<1>0. TypeOK'
  BY TypeStep DEF IInv
<1> USE <1>0 DEF IInv, TypeOK, Names, Contents, WriterSteps, LoadResults, Goto,
                 TargetWhole, TmpPrivate, WriterOwnsTmp,
                 BusyHasNoResult, OneWriter, readerVars, writerVars
<1>1. ASSUME NEW w \in Writers, NEW d \in Docs, NEW force \in BOOLEAN,
             BeginSave(w, d, force)
      PROVE  IInv'
  BY <1>1 DEF BeginSave
<1>2. ASSUME NEW w \in Writers, OpenTmp(w) PROVE IInv'
  BY <1>2, DistinctContents, NoInodeIsNone DEF OpenTmp, FreeInodes
<1>3. ASSUME NEW w \in Writers, OpenFails(w) PROVE IInv'
  BY <1>3 DEF OpenFails
<1>4. ASSUME NEW w \in Writers, Encode(w) PROVE IInv'
  BY <1>4 DEF Encode
<1>5. ASSUME NEW w \in Writers, EncodeFails(w) PROVE IInv'
  BY <1>5 DEF EncodeFails
<1>6. ASSUME NEW w \in Writers, CloseTmp(w) PROVE IInv'
  BY <1>6 DEF CloseTmp
<1>7. ASSUME NEW w \in Writers, RenameTmp(w) PROVE IInv'
  BY <1>7 DEF RenameTmp
<1>8. ASSUME NEW w \in Writers, Cleanup(w) PROVE IInv'
  BY <1>8 DEF Cleanup
<1>9. ASSUME NEW w \in Writers, RemoveTarget(w) PROVE IInv'
  BY <1>9 DEF RemoveTarget
<1>10. ASSUME NEW w \in Writers, Crash(w) PROVE IInv'
  BY <1>10 DEF Crash
<1>11. ASSUME NEW r \in Readers, OpenTarget(r) PROVE IInv'
  BY <1>11 DEF OpenTarget
<1>12. ASSUME NEW r \in Readers, Decode(r) PROVE IInv'
  BY <1>12 DEF Decode
<1>13. CASE UNCHANGED vars
  BY <1>13 DEF vars
<1>14. QED
  BY <1>1, <1>2, <1>3, <1>4, <1>5, <1>6, <1>7, <1>8, <1>9, <1>10, <1>11,
     <1>12, <1>13 DEF Next, Save, Load

LEMMA IndInv ==
  ASSUME OneWriter
  PROVE  Spec => []IInv
<1>1. IInv /\ [Next]_vars => IInv'
  BY IndStep
<1>2. QED
  BY IndInit, <1>1, PTL DEF Spec

\* With one writer the path never shows a truncated or torn document, through
\* failures and crashes at any step of writeSecure.
THEOREM OneWriterTargetWhole ==
  ASSUME OneWriter
  PROVE  Spec => []TargetWhole
<1>1. IInv => TargetWhole
  BY DEF IInv
<1>2. QED
  BY IndInv, <1>1, PTL

\* Only the rename ends a save with "ok".
LEMMA OnlyRenameSucceeds ==
  ASSUME IInv, [Next]_vars, NEW w \in Writers,
         wpc[w] = "rename", wres'[w] = "ok"
  PROVE  RenameTmp(w) /\ tmp # NoInode
<1> USE DEF IInv, TypeOK, WriterSteps, BusyHasNoResult, WriterOwnsTmp, Goto,
            writerVars, readerVars
<1>1. wres[w] # "ok" /\ tmp # NoInode
  OBVIOUS
<1>2. ASSUME NEW v \in Writers, Save(v) PROVE RenameTmp(w)
  <2>1. v = w
    BY <1>1, <1>2 DEF Save, BeginSave, OpenTmp, OpenFails, Encode, EncodeFails,
       CloseTmp, RenameTmp, Cleanup, RemoveTarget, Crash
  <2>2. QED
    BY <1>1, <1>2, <2>1 DEF Save, BeginSave, OpenTmp, OpenFails, Encode,
       EncodeFails, CloseTmp, RenameTmp, Cleanup, RemoveTarget, Crash
<1>3. ASSUME NEW r \in Readers, Load(r) PROVE FALSE
  BY <1>1, <1>3 DEF Load, OpenTarget, Decode
<1>4. CASE UNCHANGED vars
  BY <1>1, <1>4 DEF vars
<1>5. QED
  BY <1>1, <1>2, <1>3, <1>4 DEF Next

\* A save that reports success has published its own document.
THEOREM OneWriterSuccess ==
  ASSUME OneWriter
  PROVE  Spec => SuccessPublishesOwnDocument
<1>1. ASSUME IInv, [Next]_vars, NEW w \in Writers,
             wpc[w] = "rename", wres'[w] = "ok"
      PROVE  target' # NoInode /\ data'[target'] = wdoc[w]
  <2>1. data[tmp] = wdoc[w]
    BY <1>1 DEF IInv, WriterOwnsTmp
  <2>2. QED
    BY <1>1, <2>1, OnlyRenameSucceeds DEF RenameTmp, Goto, readerVars
<1>2. IInv /\ [Next]_vars =>
        [\A w \in Writers :
           wpc[w] = "rename" /\ wres'[w] = "ok"
             => target' # NoInode /\ data'[target'] = wdoc[w]]_vars
  BY <1>1
<1>3. QED
  BY IndInv, <1>2, PTL DEF Spec, SuccessPublishesOwnDocument

-------------------------------------------------------------------------------
(* Refinement: every step of the system calls is a step of the atomic file *)
(* or invisible to it.                                                     *)

LEMMA RefineInit == Init => File!Init
  BY DEF Init, File!Init

LEMMA RefineStep ==
  ASSUME OneWriter, IInv, IInv', [Next]_vars
  PROVE  [File!Next]_(File!vars)
<1> USE DEF IInv, TypeOK, Names, Contents, TargetWhole, TmpPrivate,
            WriterOwnsTmp, Goto, readerVars, writerVars, File!vars
<1>1. ASSUME NEW w \in Writers, NEW d \in Docs, NEW force \in BOOLEAN,
             BeginSave(w, d, force)
      PROVE  UNCHANGED File!vars
  BY <1>1 DEF BeginSave
<1>2. ASSUME NEW w \in Writers, OpenTmp(w) PROVE UNCHANGED File!vars
  BY <1>2 DEF OpenTmp, FreeInodes
<1>3. ASSUME NEW w \in Writers, OpenFails(w) \/ CloseTmp(w) \/ Cleanup(w) \/ Crash(w)
      PROVE  UNCHANGED File!vars
  BY <1>3 DEF OpenFails, CloseTmp, Cleanup, Crash
<1>4. ASSUME NEW w \in Writers, Encode(w) PROVE UNCHANGED File!vars
  BY <1>4 DEF Encode
<1>5. ASSUME NEW w \in Writers, EncodeFails(w) PROVE UNCHANGED File!vars
  BY <1>5 DEF EncodeFails
<1>6. ASSUME NEW w \in Writers, RenameTmp(w)
      PROVE  File!Replace \/ UNCHANGED File!vars
  BY <1>6, NoInodeIsNone DEF RenameTmp, File!Replace
<1>7. ASSUME NEW w \in Writers, RemoveTarget(w) PROVE File!Remove
  BY <1>7 DEF RemoveTarget, File!Remove
<1>8. ASSUME NEW r \in Readers, OpenTarget(r)
      PROVE  File!Look(r) \/ UNCHANGED File!vars
  BY <1>8, NoInodeIsNone DEF OpenTarget, File!Look
<1>9. ASSUME NEW r \in Readers, Decode(r) PROVE File!LookAway(r)
  BY <1>9 DEF Decode, File!LookAway
<1>10. CASE UNCHANGED vars
  BY <1>10 DEF vars
<1>11. QED
  BY <1>1, <1>2, <1>3, <1>4, <1>5, <1>6, <1>7, <1>8, <1>9, <1>10
     DEF Next, Save, Load, File!Next

\* With one writer, the temporary file and the rename implement an atomic file.
THEOREM OneWriterRefines ==
  ASSUME OneWriter
  PROVE  Spec => ImplementsAtomicFile
<1>1. IInv /\ IInv' /\ [Next]_vars => [File!Next]_(File!vars)
  BY RefineStep
<1>2. QED
  BY IndInv, RefineInit, <1>1, PTL DEF Spec, ImplementsAtomicFile, File!Spec
===============================================================================
