---------------------------- MODULE MCRotateCommand ----------------------------
EXTENDS RotateCommand, FiniteSets, TLC

CONSTANTS c1, c2, a1, a2, a3

Ask(op, n, names, m, f) ==
  [op |-> op, attempts |-> n, names |-> names, masque |-> m, force |-> f]

\* rotate for a new address only, for one service under two names, for two of
\* them; for one it does not know.
MCRequests ==
  {Ask("rotate", 2, {}, FALSE, FALSE),
   Ask("rotate", 2, {"yt", "youtube"}, TRUE, FALSE),
   Ask("rotate", 1, {"openai", "netflix", "none"}, FALSE, FALSE),
   Ask("rotate", 1, {"google-gemini", "anthropic"}, FALSE, FALSE),
   Ask("rotate", 1, {"gemini", "hulu"}, FALSE, FALSE),
   Ask("register", 1, {}, FALSE, FALSE), Ask("register", 1, {}, TRUE, TRUE),
   Ask("import", 1, {}, FALSE, TRUE),
   Ask("up", 1, {}, TRUE, FALSE), Ask("down", 1, {}, FALSE, FALSE)}

\* An idle command has no local variables left that any step reads.
View == <<account, managed, pc,
          [c \in Commands |-> IF pc[c] = "idle" THEN <<>> ELSE <<request[c], job[c]>>],
          used>>

Symmetry == Permutations(Commands) \cup Permutations(Accounts)

\* The bounds: one rotate at a time, beside a command of another kind, or alone
\* if it asks for two services; at most one process left to itself, and one
\* command at a time while there is one or when three accounts are handed out.
Bound ==
  LET busy == {c \in Commands : pc[c] # "idle"}
  IN /\ Cardinality({c \in busy : Rotates(c)}) <= 1
     /\ \A c \in busy : Cardinality(Wanted(c)) <= 1 \/ busy = {c}
     /\ Cardinality(strays) <= 1
     /\ strays # {} \/ Cardinality(used) > 2 => Cardinality(busy) <= 1

===============================================================================
