---- MODULE MCPendingLid ----
EXTENDS PendingLid, TLC
CONSTANTS m1, m2
=============================
