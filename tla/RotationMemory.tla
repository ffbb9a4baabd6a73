---------------------------- MODULE RotationMemory ----------------------------
(***************************************************************************)
(* The durable memory of observed address assignments                      *)
(* (internal/state/rotation_history.go, cmd/rotation_memory.go).           *)
(*                                                                         *)
(* rotation-history.json is loaded, changed in memory and saved whole by   *)
(* the daemon's check loop, its control connections and the rotate         *)
(* command; nothing locks it between the load and the save.  A load and a  *)
(* save are one step each (StateStore says what that needs).               *)
(*                                                                         *)
(* Abstracted: an assignment is a record [transport, ipv4, ipv6].  The     *)
(* code stores SHA-256 hashes: of the whole record (Fingerprint) and of    *)
(* <<transport, address>> for each family.  Hashing is taken to be         *)
(* injective, so equal hashes are equal fields.  Timestamps and the value  *)
(* of SeenCount are left out: the code only asks whether it is above 0,    *)
(* and every stored entry has at least 1 (Normalize).                      *)
(***************************************************************************)
EXTENDS Naturals, Sequences

CONSTANTS Callers,      \* goroutines and processes that use the memory
          Assignments,  \* assignments the WARP service may hand out
          NoAddr,       \* the account has no address of that family
          HistorySize,  \* rotation.history_size
          NoCall,       \* the caller is between two uses of the memory
          NoVerdict     \* no novelty has been computed

ASSUME HistorySizeAssumption == HistorySize \in Nat \ {0}
\* BuildRotationFingerprint refuses an account without any address.
ASSUME AssignmentsAssumption ==
  \A a \in Assignments : a.ipv4 # NoAddr \/ a.ipv6 # NoAddr

VARIABLES
  history,   \* rotation-history.json, newest entry first
  call,      \* what each caller has loaded and is about to judge and save
  verdict,   \* the novelty each caller computed last
  age        \* auxiliary: how many new assignments were recorded after each;
             \* HistorySize: too many, or a stale save has come in between

vars == <<history, call, verdict, age>>

Policies == {"either", "ipv4", "ipv6", "both"}
Operations == {"remember", "ensure"}
Verdicts == [qualifies : BOOLEAN, exactReuse : BOOLEAN,
             newIPv4 : BOOLEAN, newIPv6 : BOOLEAN, policy : Policies]
Calls == [op : Operations, cand : Assignments, policy : Policies,
          copy : Seq(Assignments)]

Entries(h) == {h[i] : i \in DOMAIN h}

-------------------------------------------------------------------------------
(* EvaluateRotationNovelty. *)

SeenFingerprint(h, a) == a \in Entries(h)

SeenIPv4(h, a) ==
  \E e \in Entries(h) : e.transport = a.transport /\ e.ipv4 = a.ipv4

SeenIPv6(h, a) ==
  \E e \in Entries(h) : e.transport = a.transport /\ e.ipv6 = a.ipv6

NewIPv4(h, a) == a.ipv4 # NoAddr /\ ~SeenIPv4(h, a)
NewIPv6(h, a) == a.ipv6 # NoAddr /\ ~SeenIPv6(h, a)

\* Mutant: "both" is satisfied by one new family.
QualifiesLoosely(h, a, p) ==
  CASE p = "ipv4" -> NewIPv4(h, a)
    [] p = "ipv6" -> NewIPv6(h, a)
    [] p = "both" -> NewIPv4(h, a) \/ NewIPv6(h, a)
    [] OTHER -> NewIPv4(h, a) \/ NewIPv6(h, a) \/ ~SeenFingerprint(h, a)

Qualifies(h, a, p) ==
  CASE p = "ipv4" -> NewIPv4(h, a)
    [] p = "ipv6" -> NewIPv6(h, a)
    [] p = "both" -> NewIPv4(h, a) /\ NewIPv6(h, a)
    [] OTHER -> NewIPv4(h, a) \/ NewIPv6(h, a) \/ ~SeenFingerprint(h, a)

Novelty(h, a, p) ==
  [qualifies |-> Qualifies(h, a, p), exactReuse |-> SeenFingerprint(h, a),
   newIPv4 |-> NewIPv4(h, a), newIPv6 |-> NewIPv6(h, a),
   policy |-> p]

-------------------------------------------------------------------------------
(* RememberRotationFingerprint. *)

\* Mutant: the trim cuts one entry too late.
TrimLate(h) == IF Len(h) > HistorySize + 1 THEN SubSeq(h, 1, HistorySize) ELSE h

Trim(h) == IF Len(h) > HistorySize THEN SubSeq(h, 1, HistorySize) ELSE h

\* Mutant: a known assignment is recorded again.
RememberAgain(h, a) == Trim(<<a>> \o h)

\* Mutant: the new entry goes to the end, where the trim cuts it off.
RememberAtEnd(h, a) ==
  IF SeenFingerprint(h, a) THEN h ELSE Trim(Append(h, a))

\* A known assignment keeps its place (only its counters change); a new one
\* goes to the front, and the entries beyond HistorySize are dropped.
Remember(h, a) ==
  IF SeenFingerprint(h, a) THEN h ELSE Trim(<<a>> \o h)

-------------------------------------------------------------------------------
Init ==
  /\ history = <<>>
  /\ call = [c \in Callers |-> NoCall]
  /\ verdict = [c \in Callers |-> NoVerdict]
  /\ age = [a \in Assignments |-> HistorySize]

\* rememberRotationAccount (after a registration) or ensureRotationAccount
\* (for the account that is current) loads the history; a missing file is an
\* empty history.
Load(c, o, a, p) ==
  /\ call[c] = NoCall
  /\ call' = [call EXCEPT ![c] = [op |-> o, cand |-> a, policy |-> p,
                                  copy |-> history]]
  /\ verdict' = [verdict EXCEPT ![c] = NoVerdict]
  /\ UNCHANGED <<history, age>>

\* ensureRotationAccount leaves the file alone when the account is known.
WritesHistory(k) == k.op = "remember" \/ ~SeenFingerprint(k.copy, k.cand)

Return(c, v) ==
  /\ verdict' = [verdict EXCEPT ![c] = v]
  /\ call' = [call EXCEPT ![c] = NoCall]

\* The copy a caller works on is no longer what the file holds.
Stale(k) == k.copy # history

\* How the ages change when the call k is saved: an assignment that was new
\* to its caller is the youngest and everything else is one older.  A stale
\* save drops what was recorded since its load, so only its own assignment
\* is sure to be in the file.
Ages(k) ==
  LET new == ~SeenFingerprint(k.copy, k.cand)
  IN [a \in Assignments |->
        IF new /\ a = k.cand THEN 0
        ELSE IF Stale(k) THEN HistorySize
        ELSE IF new /\ age[a] < HistorySize THEN age[a] + 1
        ELSE age[a]]

\* The novelty is computed from the copy, and the file replaced by the copy
\* with the assignment in it.
Save(c) ==
  LET k == call[c]
  IN /\ k # NoCall
     /\ WritesHistory(k)
     /\ history' = Remember(k.copy, k.cand)
     /\ age' = Ages(k)
     /\ Return(c, Novelty(k.copy, k.cand, k.policy))

\* The known account of ensureRotationAccount: nothing is written.
KeepHistory(c) ==
  LET k == call[c]
  IN /\ k # NoCall
     /\ ~WritesHistory(k)
     /\ Return(c, Novelty(k.copy, k.cand, k.policy))
     /\ UNCHANGED <<history, age>>

\* The load or the save fails: the caller gets an error and no novelty.
Abort(c) ==
  /\ call[c] # NoCall
  /\ Return(c, NoVerdict)
  /\ UNCHANGED <<history, age>>

Next ==
  \E c \in Callers :
    \/ \E o \in Operations, a \in Assignments, p \in Policies : Load(c, o, a, p)
    \/ Save(c)
    \/ KeepHistory(c)
    \/ Abort(c)

Spec == Init /\ [][Next]_vars

-------------------------------------------------------------------------------
(* Properties. *)

\* The file never holds more than history_size assignments, however the callers
\* interleave.
TypeOK ==
  /\ history \in Seq(Assignments) /\ Len(history) <= HistorySize
  /\ call \in [Callers -> Calls \cup {NoCall}]
  /\ verdict \in [Callers -> Verdicts \cup {NoVerdict}]
  /\ age \in [Assignments -> 0..HistorySize]

NoRepeats(h) == \A i, j \in DOMAIN h : h[i] = h[j] => i = j

\* However the callers interleave, the file never holds an assignment twice
\* (it would take two of the bounded places).
OneEntryPerAssignment == NoRepeats(history)

\* "history_size bounds how many hashed assignments are retained": whoever
\* judges the file as it is never takes an assignment for a novelty while
\* fewer than HistorySize others were recorded after it, unless a stale save
\* has come in between; the memory is right again for what is recorded after
\* such a save.
ReuseIsRefused ==
  [][\A c \in Callers :
       (/\ call[c] # NoCall /\ ~Stale(call[c])
        /\ verdict'[c] # NoVerdict /\ verdict'[c].qualifies)
         => age[call[c].cand] = HistorySize]_vars

\* A verdict that qualifies is backed by new addresses of every family its
\* policy names, and is never an exact reuse, under any policy.
QualifiedIsNovel ==
  \A c \in Callers : verdict[c] # NoVerdict /\ verdict[c].qualifies =>
    /\ ~verdict[c].exactReuse
    /\ verdict[c].policy \in {"ipv4", "both"} => verdict[c].newIPv4
    /\ verdict[c].policy \in {"ipv6", "both"} => verdict[c].newIPv6
===============================================================================
