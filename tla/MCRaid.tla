------------------------------- MODULE MCRaid -------------------------------
(***************************************************************************)
(* Instances of module Raid for TLC.                                       *)
(***************************************************************************)
EXTENDS Raid, TLC

\* Drives and identities of arrays are interchangeable.
MC_Symmetry == Permutations(Drives) \cup Permutations(Uuids)

\* Bounds: at a time one member missing, two hot spares, and one drive that
\* has failed or has the metadata of a cache that is not bound.
MC_Few ==
    LET spares == UNION {md[i].spare : i \in Logicals}
        failed == UNION {md[i].faulty : i \in Logicals}
    IN  /\ Cardinality({i \in Logicals : Degraded(md[i])}) <= 1
        /\ \A i \in Logicals : Cardinality(md[i].in_sync) + 1 >= md[i].raid_disks
        /\ Cardinality(spares) <= 2
        /\ Cardinality(failed \cup Leftovers) <= 1
=============================================================================
