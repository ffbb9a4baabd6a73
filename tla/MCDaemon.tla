------------------------------- MODULE MCDaemon -------------------------------
EXTENDS Daemon

CONSTANTS loop, ctl, a1, a2, a3

\* A required check that asks for rotation, one that does not, and an optional
\* one that does.
Gate == [required |-> TRUE, rotate |-> TRUE]
Alarm == [required |-> TRUE, rotate |-> FALSE]
Wish == [required |-> FALSE, rotate |-> TRUE]

Config(n, e, r, k) ==
  [enabled |-> e, attempts |-> n, cooldown |-> TRUE, restore |-> r, checks |-> k]

Twice == Config(2, TRUE, TRUE, <<Gate>>)
Once == Config(1, TRUE, TRUE, <<Wish>>)
Never == Config(1, FALSE, FALSE, <<Alarm, Wish>>)
Blind == Config(1, TRUE, TRUE, <<>>)

MCConfigs == {Twice, Once, Never, Blind}

\* Bound: a few edits.  There are other checks than before, or more of them, or
\* the file does not resolve for a while.
MCEdits == {<<Blind, Once>>, <<Never, Once>>, <<Once, Invalid>>, <<Invalid, Never>>}

\* Bound: the first fault is explored in full, a second one is not.
AtMostOneFault == Cardinality(faults) <= 1

===============================================================================
