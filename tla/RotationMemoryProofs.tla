------------------------- MODULE RotationMemoryProofs -------------------------
(***************************************************************************)
(* Proofs about RotationMemory for every set of callers, every set of      *)
(* assignments and every history size.                                     *)
(***************************************************************************)
EXTENDS RotationMemory, TLAPS

\* A history as RememberRotationFingerprint leaves it.
GoodHistory(h) ==
  /\ h \in Seq(Assignments)
  /\ NoRepeats(h)
  /\ Len(h) <= HistorySize

\* An assignment that is not too old is where its age says.
AgeIsPlace ==
  \A a \in Assignments :
    age[a] < HistorySize => /\ age[a] + 1 \in DOMAIN history
                            /\ history[age[a] + 1] = a

\* Nobody has a verdict while judging.
Undecided == \A c \in Callers : call[c] # NoCall => verdict[c] = NoVerdict

IInv ==
  /\ TypeOK
  /\ GoodHistory(history)
  /\ \A c \in Callers : call[c] # NoCall => GoodHistory(call[c].copy)
  /\ AgeIsPlace
  /\ Undecided
  /\ QualifiedIsNovel

-------------------------------------------------------------------------------
(* What the operators do with a good history. *)

\* Prepending keeps every entry, one place further back.
LEMMA PrependEntries ==
  ASSUME NEW h \in Seq(Assignments), NEW a \in Assignments
  PROVE  /\ <<a>> \o h \in Seq(Assignments)
         /\ Len(<<a>> \o h) = Len(h) + 1
         /\ (<<a>> \o h)[1] = a
         /\ \A i \in 2..(Len(h) + 1) : (<<a>> \o h)[i] = h[i - 1]
  OBVIOUS

\* A new assignment does not create a repetition.
LEMMA PrependNoRepeats ==
  ASSUME NEW h \in Seq(Assignments), NEW a \in Assignments,
         NoRepeats(h), a \notin Entries(h)
  PROVE  NoRepeats(<<a>> \o h)
<1> DEFINE g == <<a>> \o h
<1>1. DOMAIN g = 1..(Len(h) + 1) /\ DOMAIN h = 1..Len(h)
  BY PrependEntries
<1>2. \A i \in 2..(Len(h) + 1) : g[i] = h[i - 1] /\ i - 1 \in DOMAIN h /\ g[i] # a
  BY <1>1, PrependEntries DEF Entries
<1>3. SUFFICES ASSUME NEW i \in DOMAIN g, NEW j \in DOMAIN g, g[i] = g[j]
               PROVE  i = j
  BY DEF NoRepeats
<1>4. g[1] = a
  BY PrependEntries
<1>5. CASE i = 1 \/ j = 1
  BY <1>1, <1>2, <1>3, <1>4, <1>5
<1>6. CASE i # 1 /\ j # 1
  <2>1. i \in 2..(Len(h) + 1) /\ j \in 2..(Len(h) + 1)
    BY <1>1, <1>6
  <2>2. i - 1 = j - 1
    BY <1>2, <1>3, <2>1 DEF NoRepeats
  <2>3. QED
    BY <2>1, <2>2
<1>7. QED
  BY <1>5, <1>6

\* Trimming keeps a prefix, of at most HistorySize entries.
LEMMA TrimPrefix ==
  ASSUME NEW h \in Seq(Assignments)
  PROVE  /\ Trim(h) \in Seq(Assignments)
         /\ Len(Trim(h)) <= HistorySize
         /\ Len(Trim(h)) <= Len(h)
         /\ \A i \in DOMAIN Trim(h) : i \in DOMAIN h /\ Trim(h)[i] = h[i]
<1>1. CASE Len(h) > HistorySize
  <2>1. Trim(h) = SubSeq(h, 1, HistorySize)
    BY <1>1 DEF Trim
  <2>2. QED
    BY <1>1, <2>1, HistorySizeAssumption
<1>2. CASE ~(Len(h) > HistorySize)
  BY <1>2, HistorySizeAssumption DEF Trim
<1>3. QED
  BY <1>1, <1>2

\* RememberRotationFingerprint keeps the history free of repetitions and
\* within its bound, whatever it is asked to remember.
THEOREM RememberIsGood ==
  ASSUME NEW h, GoodHistory(h), NEW a \in Assignments
  PROVE  GoodHistory(Remember(h, a))
<1>1. CASE a \in Entries(h)
  BY <1>1 DEF Remember, SeenFingerprint
<1>2. CASE a \notin Entries(h)
  <2> DEFINE g == <<a>> \o h
  <2>1. Remember(h, a) = Trim(g)
    BY <1>2 DEF Remember, SeenFingerprint
  <2>2. g \in Seq(Assignments) /\ NoRepeats(g)
    BY <1>2, PrependEntries, PrependNoRepeats DEF GoodHistory
  <2>3. NoRepeats(Trim(g))
    BY <2>2, TrimPrefix DEF NoRepeats
  <2>4. QED
    BY <2>1, <2>2, <2>3, TrimPrefix DEF GoodHistory
<1>3. QED
  BY <1>1, <1>2

\* A verdict that qualifies is never an exact reuse and has a new address of
\* every family that its policy names.
LEMMA NoveltyIsSound ==
  ASSUME NEW h, NEW a \in Assignments, NEW p \in Policies
  PROVE  LET v == Novelty(h, a, p)
         IN /\ v \in Verdicts
            /\ v.policy = p
            /\ v.qualifies => /\ ~v.exactReuse
                              /\ p \in {"ipv4", "both"} => v.newIPv4
                              /\ p \in {"ipv6", "both"} => v.newIPv6
<1>1. NewIPv4(h, a) => ~SeenFingerprint(h, a)
  BY DEF NewIPv4, SeenIPv4, SeenFingerprint
<1>2. NewIPv6(h, a) => ~SeenFingerprint(h, a)
  BY DEF NewIPv6, SeenIPv6, SeenFingerprint
<1>3. /\ NewIPv4(h, a) \in BOOLEAN /\ NewIPv6(h, a) \in BOOLEAN
      /\ SeenFingerprint(h, a) \in BOOLEAN /\ Qualifies(h, a, p) \in BOOLEAN
  <2>1. NewIPv4(h, a) \in BOOLEAN
    BY DEF NewIPv4
  <2>2. NewIPv6(h, a) \in BOOLEAN
    BY DEF NewIPv6
  <2>3. SeenFingerprint(h, a) \in BOOLEAN
    BY DEF SeenFingerprint
  <2>4. Qualifies(h, a, p) \in BOOLEAN
    <3>1. CASE p = "ipv4"
      BY <2>1, <3>1 DEF Qualifies
    <3>2. CASE p = "ipv6"
      BY <2>2, <3>2 DEF Qualifies
    <3>3. CASE p = "both"
      BY <3>3 DEF Qualifies
    <3>4. CASE p = "either"
      BY <3>4 DEF Qualifies
    <3>5. QED
      BY <3>1, <3>2, <3>3, <3>4 DEF Policies
  <2>5. QED
    BY <2>1, <2>2, <2>3, <2>4
<1>4. Qualifies(h, a, p) =>
        /\ ~SeenFingerprint(h, a)
        /\ p \in {"ipv4", "both"} => NewIPv4(h, a)
        /\ p \in {"ipv6", "both"} => NewIPv6(h, a)
  BY <1>1, <1>2 DEF Qualifies, Policies
<1>5. QED
  BY <1>3, <1>4 DEF Novelty, Verdicts

-------------------------------------------------------------------------------
(* The state machine. *)

LEMMA IndInit == Init => IInv
<1> SUFFICES ASSUME Init PROVE IInv
  OBVIOUS
<1>1. TypeOK
  <2>1. history \in Seq(Assignments) /\ age \in [Assignments -> 0..HistorySize]
    BY HistorySizeAssumption DEF Init
  <2>0. Len(history) <= HistorySize
    BY HistorySizeAssumption DEF Init
  <2>2. call \in [Callers -> Calls \cup {NoCall}]
    BY DEF Init
  <2>3. verdict \in [Callers -> Verdicts \cup {NoVerdict}]
    BY DEF Init
  <2>4. QED
    BY <2>0, <2>1, <2>2, <2>3 DEF Init, TypeOK
<1>2. GoodHistory(history)
  BY HistorySizeAssumption DEF Init, GoodHistory, NoRepeats
<1>3. \A c \in Callers : call[c] = NoCall /\ verdict[c] = NoVerdict
  BY DEF Init
<1>4. QualifiedIsNovel
  BY <1>3, Zenon DEF QualifiedIsNovel
<1>5. AgeIsPlace
  BY HistorySizeAssumption DEF Init, AgeIsPlace
<1>6. Undecided
  BY <1>3 DEF Undecided
<1>7. QED
  BY <1>1, <1>2, <1>3, <1>4, <1>5, <1>6 DEF IInv

\* The front of a history that a new assignment was added to.
LEMMA NewGoesToFront ==
  ASSUME NEW h, GoodHistory(h), NEW a \in Assignments, a \notin Entries(h)
  PROVE  /\ 1 \in DOMAIN Remember(h, a) /\ Remember(h, a)[1] = a
         /\ \A i \in DOMAIN h : i < HistorySize =>
              i + 1 \in DOMAIN Remember(h, a) /\ Remember(h, a)[i + 1] = h[i]
<1> DEFINE g == <<a>> \o h
<1>1. Remember(h, a) = Trim(g)
  BY DEF Remember, SeenFingerprint
<1>2. /\ g \in Seq(Assignments) /\ Len(g) = Len(h) + 1 /\ g[1] = a
      /\ \A i \in 2..(Len(h) + 1) : g[i] = h[i - 1]
  BY PrependEntries DEF GoodHistory
<1>3. Len(h) \in Nat /\ DOMAIN h = 1..Len(h)
  BY DEF GoodHistory
<1>4. \A i \in DOMAIN h : g[i + 1] = h[i]
  <2>1. TAKE i \in DOMAIN h
  <2>2. i \in 1..Len(h) /\ i + 1 \in 2..(Len(h) + 1) /\ (i + 1) - 1 = i
    BY <1>3
  <2>3. QED
    BY <1>2, <2>2
<1> HIDE DEF g
<1>5. CASE Len(g) > HistorySize
  <2>1. Trim(g) = SubSeq(g, 1, HistorySize)
    BY <1>5 DEF Trim
  <2>2. DOMAIN Trim(g) = 1..HistorySize /\ \A i \in 1..HistorySize : Trim(g)[i] = g[i]
    BY <1>2, <1>5, <2>1, HistorySizeAssumption
  <2>3. QED
    BY <1>1, <1>2, <1>3, <1>4, <2>2, HistorySizeAssumption
<1>6. CASE ~(Len(g) > HistorySize)
  <2>1. Trim(g) = g /\ DOMAIN g = 1..Len(g)
    BY <1>2, <1>6 DEF Trim
  <2>2. QED
    BY <1>1, <1>2, <1>3, <1>4, <2>1
<1>7. QED
  BY <1>5, <1>6

\* A save leaves every assignment that is not too old where its age says.
LEMMA AgesArePlaces ==
  ASSUME TypeOK, AgeIsPlace, NEW k \in Calls, GoodHistory(k.copy),
         history' = Remember(k.copy, k.cand), age' = Ages(k)
  PROVE  AgeIsPlace' /\ age' \in [Assignments -> 0..HistorySize]
<1> DEFINE new == ~SeenFingerprint(k.copy, k.cand)
<1>1. \A a \in Assignments :
        age'[a] = IF new /\ a = k.cand THEN 0
                  ELSE IF Stale(k) THEN HistorySize
                  ELSE IF new /\ age[a] < HistorySize THEN age[a] + 1
                  ELSE age[a]
  BY DEF Ages
<1>2. age' \in [Assignments -> 0..HistorySize]
  <2>1. \A a \in Assignments : age[a] \in 0..HistorySize
    BY DEF TypeOK
  <2>2. \A a \in Assignments : age'[a] \in 0..HistorySize
    BY <1>1, <2>1, HistorySizeAssumption
  <2>3. \E f : age' = [a \in Assignments |-> f[a]]
    <3>1. age' = [a \in Assignments |-> age'[a]]
      BY DEF Ages
    <3>2. QED
      BY <3>1
  <2>4. QED
    BY <2>2, <2>3
<1>3. k.cand \in Assignments
  BY DEF Calls
<1>4. CASE new
  <2>1. k.cand \notin Entries(k.copy)
    BY <1>4 DEF SeenFingerprint
  <2>2. /\ 1 \in DOMAIN history' /\ history'[1] = k.cand
        /\ \A i \in DOMAIN k.copy : i < HistorySize =>
             i + 1 \in DOMAIN history' /\ history'[i + 1] = k.copy[i]
    BY <1>3, <2>1, NewGoesToFront
  <2>3. SUFFICES ASSUME NEW a \in Assignments, age'[a] < HistorySize
                 PROVE  age'[a] + 1 \in DOMAIN history' /\ history'[age'[a] + 1] = a
    BY <1>2 DEF AgeIsPlace
  <2>4. CASE a = k.cand
    BY <1>1, <1>4, <2>2, <2>4
  <2>5. CASE a # k.cand
    <3>1. ~Stale(k) /\ age[a] \in 0..HistorySize
      BY <1>1, <2>3, <2>5, HistorySizeAssumption DEF TypeOK
    <3>2. age[a] < HistorySize /\ age'[a] = age[a] + 1
      BY <1>1, <1>4, <2>3, <2>5, <3>1, HistorySizeAssumption
    <3>3. age[a] + 1 \in DOMAIN k.copy /\ k.copy[age[a] + 1] = a
      BY <3>1, <3>2 DEF AgeIsPlace, Stale
    <3>4. QED
      BY <2>2, <2>3, <3>1, <3>2, <3>3, HistorySizeAssumption
  <2>6. QED
    BY <2>4, <2>5
<1>5. CASE ~new
  <2>1. history' = k.copy
    BY <1>5 DEF Remember
  <2>2. SUFFICES ASSUME NEW a \in Assignments, age'[a] < HistorySize
                 PROVE  age'[a] + 1 \in DOMAIN history' /\ history'[age'[a] + 1] = a
    BY <1>2 DEF AgeIsPlace
  <2>3. ~Stale(k) /\ age'[a] = age[a]
    BY <1>1, <1>5, <2>2, HistorySizeAssumption
  <2>4. QED
    BY <2>1, <2>2, <2>3 DEF AgeIsPlace, Stale
<1>6. QED
  BY <1>2, <1>4, <1>5

LEMMA EndOfCall ==
  ASSUME TypeOK, Undecided, QualifiedIsNovel, NEW c \in Callers, NEW v \in Verdicts \cup {NoVerdict},
         Return(c, v),
         v # NoVerdict /\ v.qualifies =>
           /\ ~v.exactReuse
           /\ v.policy \in {"ipv4", "both"} => v.newIPv4
           /\ v.policy \in {"ipv6", "both"} => v.newIPv6
  PROVE  /\ call' \in [Callers -> Calls \cup {NoCall}]
         /\ verdict' \in [Callers -> Verdicts \cup {NoVerdict}]
         /\ \A d \in Callers : call'[d] # NoCall => call'[d] = call[d]
         /\ Undecided'
         /\ Undecided' /\ QualifiedIsNovel'
<1> USE DEF TypeOK, Return
<1>1. /\ call' \in [Callers -> Calls \cup {NoCall}]
      /\ verdict' \in [Callers -> Verdicts \cup {NoVerdict}]
      /\ \A d \in Callers : call'[d] # NoCall => call'[d] = call[d]
  OBVIOUS
<1>2. \A d \in Callers : verdict'[d] = IF d = c THEN v ELSE verdict[d]
  OBVIOUS
<1>3. QualifiedIsNovel'
  BY <1>2, Zenon DEF QualifiedIsNovel
<1>4. Undecided'
  <2>1. \A d \in Callers : call'[d] = IF d = c THEN NoCall ELSE call[d]
    OBVIOUS
  <2>2. QED
    BY <1>2, <2>1 DEF Undecided
<1>5. QED
  BY <1>1, <1>3, <1>4

LEMMA IndStep == IInv /\ [Next]_vars => IInv'
<1> SUFFICES ASSUME IInv, [Next]_vars PROVE IInv'
  OBVIOUS
<1> USE DEF IInv
<1>1. ASSUME NEW c \in Callers, NEW o \in Operations, NEW a \in Assignments,
             NEW p \in Policies, Load(c, o, a, p)
      PROVE  IInv'
  <2>1. TypeOK'
    BY <1>1 DEF Load, TypeOK, Calls, GoodHistory
  <2>2. \A d \in Callers : call'[d] # NoCall => GoodHistory(call'[d].copy)
    BY <1>1 DEF Load, TypeOK
  <2>3. QualifiedIsNovel'
    <3>1. \A d \in Callers : verdict'[d] = IF d = c THEN NoVerdict ELSE verdict[d]
      BY <1>1 DEF Load, TypeOK
    <3>2. QED
      BY <3>1, Zenon DEF QualifiedIsNovel
  <2>4. AgeIsPlace' /\ Undecided'
    BY <1>1 DEF Load, AgeIsPlace, Undecided, TypeOK
  <2>5. QED
    BY <1>1, <2>1, <2>2, <2>3, <2>4 DEF Load, GoodHistory
<1>2. ASSUME NEW c \in Callers, Save(c)
      PROVE  IInv'
  <2> DEFINE k == call[c]
             v == Novelty(k.copy, k.cand, k.policy)
  <2>1. /\ k \in Calls /\ GoodHistory(k.copy)
        /\ k.cand \in Assignments /\ k.policy \in Policies
    BY <1>2 DEF Save, TypeOK, Calls
  <2>2. GoodHistory(history')
    BY <1>2, <2>1, RememberIsGood DEF Save
  <2>3. /\ call' \in [Callers -> Calls \cup {NoCall}]
        /\ verdict' \in [Callers -> Verdicts \cup {NoVerdict}]
        /\ \A d \in Callers : call'[d] # NoCall => call'[d] = call[d]
        /\ Undecided' /\ QualifiedIsNovel'
    <3>1. Return(c, v)
      BY <1>2 DEF Save
    <3>2. /\ v \in Verdicts \cup {NoVerdict}
          /\ v # NoVerdict /\ v.qualifies =>
               /\ ~v.exactReuse
               /\ v.policy \in {"ipv4", "both"} => v.newIPv4
               /\ v.policy \in {"ipv6", "both"} => v.newIPv6
      BY <2>1, NoveltyIsSound
    <3>3. QED
      BY <3>1, <3>2, EndOfCall
  <2>4. AgeIsPlace' /\ age' \in [Assignments -> 0..HistorySize]
    BY <1>2, <2>1, AgesArePlaces DEF Save
  <2>5. TypeOK'
    BY <2>2, <2>3, <2>4 DEF TypeOK, GoodHistory
  <2>6. QED
    BY <2>2, <2>3, <2>4, <2>5
<1>3. ASSUME NEW c \in Callers, KeepHistory(c)
      PROVE  IInv'
  <2> DEFINE k == call[c]
             v == Novelty(k.copy, k.cand, k.policy)
  <2>1. k \in Calls /\ k.cand \in Assignments /\ k.policy \in Policies
    BY <1>3 DEF KeepHistory, TypeOK, Calls
  <2>2. /\ call' \in [Callers -> Calls \cup {NoCall}]
        /\ verdict' \in [Callers -> Verdicts \cup {NoVerdict}]
        /\ \A d \in Callers : call'[d] # NoCall => call'[d] = call[d]
        /\ Undecided' /\ QualifiedIsNovel'
    <3>1. Return(c, v)
      BY <1>3 DEF KeepHistory
    <3>2. /\ v \in Verdicts \cup {NoVerdict}
          /\ v # NoVerdict /\ v.qualifies =>
               /\ ~v.exactReuse
               /\ v.policy \in {"ipv4", "both"} => v.newIPv4
               /\ v.policy \in {"ipv6", "both"} => v.newIPv6
      BY <2>1, NoveltyIsSound
    <3>3. QED
      BY <3>1, <3>2, EndOfCall
  <2>3. AgeIsPlace'
    BY <1>3 DEF KeepHistory, AgeIsPlace
  <2>4. QED
    BY <1>3, <2>2, <2>3 DEF KeepHistory, TypeOK, GoodHistory
<1>4. ASSUME NEW c \in Callers, Abort(c)
      PROVE  IInv'
  <2>1. /\ call' \in [Callers -> Calls \cup {NoCall}]
        /\ verdict' \in [Callers -> Verdicts \cup {NoVerdict}]
        /\ \A d \in Callers : call'[d] # NoCall => call'[d] = call[d]
        /\ Undecided' /\ QualifiedIsNovel'
    BY <1>4, EndOfCall DEF Abort
  <2>2. AgeIsPlace'
    BY <1>4 DEF Abort, AgeIsPlace
  <2>3. QED
    BY <1>4, <2>1, <2>2 DEF Abort, TypeOK, GoodHistory
<1>5. CASE UNCHANGED vars
  BY <1>5 DEF vars, TypeOK, GoodHistory, AgeIsPlace, Undecided, QualifiedIsNovel
<1>6. QED
  BY <1>1, <1>2, <1>3, <1>4, <1>5 DEF Next

THEOREM Invariance == Spec => []IInv
  BY IndInit, IndStep, PTL DEF Spec

\* Type correctness of the rotation memory, and its bound: no interleaving of callers
\* makes the history longer than rotation.history_size.
THEOREM MemoryTypeCorrect == Spec => []TypeOK
<1>1. IInv => TypeOK
  BY DEF IInv
<1>2. QED
  BY Invariance, <1>1, PTL

\* However many callers race, the stored history stays free of repetitions.
THEOREM NeverRepeats == Spec => []OneEntryPerAssignment
<1>1. IInv => OneEntryPerAssignment
  BY DEF IInv, GoodHistory, OneEntryPerAssignment
<1>2. QED
  BY Invariance, <1>1, PTL

\* A verdict on the file as it is that qualifies, whatever its policy, comes
\* of a call that recorded an assignment the file did not hold.
LEMMA QualifiedWasUnseen ==
  ASSUME IInv, [Next]_vars, NEW c \in Callers,
         call[c] # NoCall, ~Stale(call[c]),
         verdict'[c] # NoVerdict, verdict'[c].qualifies
  PROVE  call[c].cand \in Assignments /\ call[c].cand \notin Entries(history)
<1> USE DEF IInv
<1>1. verdict[c] = NoVerdict /\ verdict \in [Callers -> Verdicts \cup {NoVerdict}]
  BY DEF Undecided, TypeOK
<1>2. /\ call[c] \in Calls /\ call[c].copy = history
      /\ call[c].cand \in Assignments /\ call[c].policy \in Policies
  BY DEF TypeOK, Calls, Stale
<1>3. ASSUME NEW d \in Callers, NEW v, Return(d, v)
      PROVE  d = c /\ verdict'[c] = v
  BY <1>1, <1>3 DEF Return
<1> DEFINE n == Novelty(call[c].copy, call[c].cand, call[c].policy)
<1>4. ASSUME NEW d \in Callers, Save(d) \/ KeepHistory(d)
      PROVE  verdict'[c] = n
  <2>1. Return(d, Novelty(call[d].copy, call[d].cand, call[d].policy))
    BY <1>4 DEF Save, KeepHistory
  <2>2. QED
    BY <1>3, <2>1
<1>5. ASSUME NEW d \in Callers, Abort(d) PROVE FALSE
  BY <1>3, <1>5 DEF Abort
<1>6. ASSUME NEW d \in Callers, NEW o \in Operations, NEW a \in Assignments,
             NEW p \in Policies, Load(d, o, a, p)
      PROVE  FALSE
  BY <1>1, <1>6 DEF Load
<1>7. ASSUME UNCHANGED vars PROVE FALSE
  BY <1>1, <1>7 DEF vars
<1>8. verdict'[c] = n
  BY <1>4, <1>5, <1>6, <1>7 DEF Next
<1>9. ~n.exactReuse
  BY <1>2, <1>8, NoveltyIsSound
<1>10. QED
  BY <1>2, <1>9 DEF Novelty, SeenFingerprint

\* Whoever judges the file as it is never takes one of the last HistorySize
\* assignments recorded since the last stale save for a novelty.
THEOREM RefusesReuse == Spec => ReuseIsRefused
<1>1. ASSUME IInv, [Next]_vars, NEW c \in Callers,
             call[c] # NoCall, ~Stale(call[c]),
             verdict'[c] # NoVerdict, verdict'[c].qualifies
      PROVE  age[call[c].cand] = HistorySize
  <2>1. call[c].cand \in Assignments /\ call[c].cand \notin Entries(history)
    BY <1>1, QualifiedWasUnseen
  <2>2. age[call[c].cand] \in 0..HistorySize
    BY <1>1, <2>1 DEF IInv, TypeOK
  <2>3. ~(age[call[c].cand] < HistorySize)
    BY <1>1, <2>1 DEF IInv, AgeIsPlace, Entries
  <2>4. QED
    BY <2>2, <2>3, HistorySizeAssumption
<1>2. IInv /\ [Next]_vars =>
        [\A c \in Callers :
           (/\ call[c] # NoCall /\ ~Stale(call[c])
            /\ verdict'[c] # NoVerdict /\ verdict'[c].qualifies)
             => age[call[c].cand] = HistorySize]_vars
  BY <1>1
<1>3. QED
  BY Invariance, <1>2, PTL DEF Spec, ReuseIsRefused

\* A qualifying verdict is a novelty of the kind its policy asks for.
THEOREM VerdictsAreNovel == Spec => []QualifiedIsNovel
<1>1. IInv => QualifiedIsNovel
  BY DEF IInv
<1>2. QED
  BY Invariance, <1>1, PTL
===============================================================================
