--------------------------- MODULE MCControlServer ---------------------------
(* Two processes, a few connections, and a record of kept bootstraps that   *)
(* overflows as soon as both are away.                                      *)
EXTENDS ControlServer, TLC

CONSTANTS p1, p2, s1, s2, s3

MCPids == {p1, p2}
MCOnePid == {p1}
MCSessions == {s1, s2, s3}
MCTwoSessions == {s1, s2}
MCSymmetry == Permutations(MCPids) \cup Permutations(MCSessions)
MCTwoSymmetry == Permutations(MCPids) \cup Permutations(MCTwoSessions)
=============================================================================
