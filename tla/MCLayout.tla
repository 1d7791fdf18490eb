------------------------------ MODULE MCLayout ------------------------------
(***************************************************************************)
(* Instances of module Layout for TLC.                                     *)
(***************************************************************************)
EXTENDS Layout

\* Volumes with 0 to 3 patterns and 0, 2 or 3 sessions: pairs of them need
\* more lines than either.  All patterns of a volume have the sessions of
\* its one target, unless a section's name has changed since they were
\* listed.
MC_Volumes == {<<>>, <<3, 3>>, <<2, 0>>, <<0, 0, 0>>}
=============================================================================
