----------------------------- MODULE MCRegistry -----------------------------
(* Model values and symmetry for the runs of Registry. *)
EXTENDS Registry, TLC

\* Register calls differ in nothing but their name.
WriterSymmetry == Permutations(Writers)
=============================================================================
