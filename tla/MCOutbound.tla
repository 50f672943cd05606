---- MODULE MCOutbound ----
EXTENDS OutboundMessage, TLC
CONSTANTS c1, c2
Perms == Permutations({c1, c2})
\* Bound: no echo is being downloaded once the number was learned on the way.
Downloads == learned => echoes = {}
===========================
