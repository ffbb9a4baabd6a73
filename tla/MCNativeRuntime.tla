---------------------------- MODULE MCNativeRuntime ---------------------------
EXTENDS NativeRuntime, FiniteSets, TLC

CONSTANTS r, w, main, s1, s2, s3

\* Nothing tells one session from another.
Symmetry == Permutations(Sessions)

\* Bound: a third fault is not explored.
AtMostTwoFaults == Cardinality(faults) <= 2

===============================================================================
