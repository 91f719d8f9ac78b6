------------------------------ MODULE MCSubmit ------------------------------
(* Symmetry for the runs of Submit. *)
EXTENDS Submit, TLC

\* Submit calls differ in nothing but their name.
CallSymmetry == Permutations(Calls)
=============================================================================
