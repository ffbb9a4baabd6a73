----------------------------- MODULE MCStateStore -----------------------------
(* StateStore for TLC.  Documents, readers and inodes are interchangeable.   *)
EXTENDS StateStore, TLC

Symmetry ==
  Permutations(Docs) \cup Permutations(Readers) \cup Permutations(Inodes)
===============================================================================
