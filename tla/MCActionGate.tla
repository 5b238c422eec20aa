---------------------------- MODULE MCActionGate ----------------------------
(* Values for TLC: one name of two kinds, the second of them global.       *)
EXTENDS ActionGate, TLC

CONSTANTS daemonsets, nodes

MCMeans == <<daemonsets, nodes>>

Symmetry == Permutations(Requests) \cup Permutations(Namespaces)
=============================================================================
