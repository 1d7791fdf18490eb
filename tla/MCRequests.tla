----------------------------- MODULE MCRequests -----------------------------
(***************************************************************************)
(* Instances of module Requests for TLC: one volume, two clients.          *)
(***************************************************************************)
EXTENDS Requests, TLC

CONSTANTS f1, t1, a1

MC_Iqn == f1 :> t1
MC_ArrayOf == f1 :> a1
MC_Origin == f1 :> f1
MC_Flags == [enabled: {TRUE}, readonly: {FALSE}, writethrough: {TRUE}]

\* Bound: a store of two sections, patterns or credentials.
MC_SmallStore == Len(scst) <= 2

\* Pattern names and clients are interchangeable.
MC_Symmetry == Permutations(Names) \cup Permutations(Clients)
=============================================================================
