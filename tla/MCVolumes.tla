----------------------------- MODULE MCVolumes -----------------------------
(***************************************************************************)
(* Instances of module Volumes for TLC.                                    *)
(***************************************************************************)
EXTENDS Volumes, TLC

\* Names, group names and browsers are interchangeable.
MC_Symmetry == Permutations(Names) \cup Permutations(VGs) \cup Permutations(Browsers)
============================================================================
