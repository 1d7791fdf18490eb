-------------------------------- MODULE Uci --------------------------------
(***************************************************************************)
(* The configuration store the SAN controller keeps in UCI, OpenWrt's      *)
(* configuration library: a package is the sequence of its sections.       *)
(* libuci is external; it is modelled from the way scst.lua uses it:       *)
(*  - every section is anonymous, so libuci names it when it reads the     *)
(*    package, from the section's position and a hash of its contents;     *)
(*  - add() appends, delete() closes the gap, set() of "" leaves the       *)
(*    option out (it reads back as nil).                                   *)
(***************************************************************************)
EXTENDS Naturals, Sequences, FiniteSets

\* The k-th smallest element of the finite set of numbers K.
Nth(K, k) == CHOOSE i \in K : Cardinality({j \in K : j <= i}) = k

\* The sections of s at the positions K, in their order: what is left of a
\* package when the sections outside K are deleted from it.
Kept(s, K) == [k \in 1..Cardinality(K) |-> s[Nth(K, k)]]

\* The name (".name") a reader of the package s gets for its i-th section.
SectionName(s, i) == <<i, s[i]>>

\* Mutant: the hash of the contents is not compared.
Found_by_position(s, name) == name[1] \in DOMAIN s

\* find_by_hash finds a section only if one still has the name.
Found(s, name) == name[1] \in DOMAIN s /\ s[name[1]] = name[2]
=============================================================================
