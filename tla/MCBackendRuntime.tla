--------------------------- MODULE MCBackendRuntime ---------------------------
EXTENDS BackendRuntime, TLC

CONSTANTS d, c, p1, p2

MCPids == {p1, p2}
MCOnePid == {p1}
MCCallers == {d, c}
MCDaemonCallers == {d}

Symmetry == Permutations(MCPids)

\* Bound: the first fault is explored in full, a second one is not.
AtMostOneFault == Cardinality(faults) <= 1

\* seen is local to an operation, note to a process.
Locals == <<runtime, socket, port, proc, pc, faults,
  [k \in Callers |-> IF pc[k] = "idle" THEN <<>> ELSE <<job[k], seen[k]>>],
  [p \in Pids |-> IF Live(p) \/ proc[p] = "zombie" THEN <<kind[p], parent[p], note[p]>> ELSE <<>>]>>

===============================================================================
