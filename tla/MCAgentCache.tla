---------------------------- MODULE MCAgentCache ----------------------------
(* A small agent: a cache of two entries and three units of memory,        *)
(* environments of one and of two units, three keys competing for it.      *)
EXTENDS AgentCache, TLC

CONSTANTS small, large

MCSize == [v \in Vals |-> IF v = small THEN 1 ELSE 2]

MCSymmetry ==
    Permutations(Clients) \cup Permutations(Conns) \cup Permutations(Keys)
=============================================================================
