---- MODULE MCEventRelay ----
EXTENDS EventRelay, TLC

CONSTANTS e1, e2, c1, c2

Perms == Permutations({c1, c2})

\* Bound: an event's second row is explored while at most one failure has happened.
SecondRow == nextSeq = MaxSeq => faults < MaxFaults
=============================
