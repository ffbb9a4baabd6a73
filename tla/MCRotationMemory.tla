--------------------------- MODULE MCRotationMemory ---------------------------
(* RotationMemory for TLC: assignments that share an address, and one without *)
(* an IPv6 address.                                                           *)
EXTENDS RotationMemory, TLC

CONSTANTS v4a, v4b, v6a, v6b, c1, c2

Assigned(v4, v6) == [transport |-> "wireguard", ipv4 |-> v4, ipv6 |-> v6]

\* One more than fits in the history, so that entries are evicted.
MixedAssignments ==
  {Assigned(v4a, v6a), Assigned(v4a, v6b), Assigned(v4b, NoAddr)}

Symmetry == Permutations(Callers)
===============================================================================
