------------------------------ MODULE MCIscsi ------------------------------
(***************************************************************************)
(* Instances of module Iscsi for TLC.                                      *)
(***************************************************************************)
EXTENDS Iscsi, TLC

CONSTANTS f1, f2, f3, t1, t2, t3, a1, a2

\* Three volumes with a target each, on one array; f2 is a snapshot of f1.
MC_Iqn == (f1 :> t1) @@ (f2 :> t2) @@ (f3 :> t3)
MC_ArrayOf == [f \in {f1, f2, f3} |-> a1]
MC_Snapshot == (f1 :> f1) @@ (f2 :> f1) @@ (f3 :> f3)

\* Two volumes, each on an array of its own.
MC_Iqn2 == (f1 :> t1) @@ (f2 :> t2)
MC_ArrayOf2 == (f1 :> a1) @@ (f2 :> a2)
MC_Origin2 == (f1 :> f1) @@ (f2 :> f2)

\* One volume only.
MC_Iqn1 == f1 :> t1
MC_ArrayOf1 == f1 :> a1
MC_Origin1 == f1 :> f1

On == [enabled |-> TRUE, readonly |-> FALSE, writethrough |-> FALSE]
MC_On == {On}
MC_OnOff == {On, [On EXCEPT !.enabled = FALSE]}
MC_WriteThrough == {On, [On EXCEPT !.writethrough = TRUE]}

\* Pattern names and browsers are interchangeable, and so are the two volumes
\* with their targets and arrays.
MC_Symmetry == Permutations(Names) \cup Permutations(Browsers)
MC_Symmetry2 ==
    MC_Symmetry \cup {(f1 :> f2) @@ (f2 :> f1) @@ (t1 :> t2) @@ (t2 :> t1) @@ (a1 :> a2) @@ (a2 :> a1)}
============================================================================
