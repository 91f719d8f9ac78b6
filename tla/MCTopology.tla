----------------------------- MODULE MCTopology -----------------------------
(* Symmetry for the runs of Topology. *)
EXTENDS Topology, TLC

\* Calls differ in nothing but their name; refresh is chosen by Init.
ProbeSymmetry == Permutations(Calls)
=============================================================================
