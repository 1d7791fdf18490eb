----------------------------- MODULE ScstProofs -----------------------------
(***************************************************************************)
(* Facts about the operators of module Scst: what deleting and saving      *)
(* sections does to the store, and that Daemon.apply leaves the kernel in  *)
(* one of its states.                                                      *)
(***************************************************************************)
EXTENDS Scst, FiniteSetTheorems, TLAPS

-----------------------------------------------------------------------------
(***************************************************************************)
(* What is left of a package when some of its sections are deleted: the    *)
(* facts about Kept that the proofs about the store rest on.               *)
(***************************************************************************)

\* Deleting sections of a package that is read back whole: every position
\* of the shorter package comes from a kept one.
LEMMA NthProperty ==
    ASSUME NEW n \in Nat, NEW K \in SUBSET (1..n)
    PROVE  /\ Cardinality(K) \in Nat
           /\ \A k \in 1..Cardinality(K) :
                 /\ Nth(K, k) \in K
                 /\ Cardinality({j \in K : j <= Nth(K, k)}) = k
           /\ \A i \in K : \E k \in 1..Cardinality(K) : Nth(K, k) = i
<1> DEFINE below(i) == {j \in K : j <= i}
           rank == [i \in K |-> Cardinality(below(i))]
           m == Cardinality(K)
<1>0. \A i \in K : i \in Int
  OBVIOUS
<1>1. IsFiniteSet(K) /\ m \in Nat
  <2>1. IsFiniteSet(1..n)
    BY FS_Interval
  <2>2. IsFiniteSet(K)
    BY <2>1, FS_Subset
  <2> QED
    BY <2>2, FS_CardinalityType
<1>2. ASSUME NEW i \in K
      PROVE  Cardinality(below(i)) \in 1..m
  <2>1. below(i) \in SUBSET K /\ i \in below(i)
    BY <1>2
  <2>2. IsFiniteSet(below(i)) /\ Cardinality(below(i)) <= m /\ Cardinality(below(i)) \in Nat
    BY <1>1, <2>1, FS_Subset, FS_CardinalityType
  <2>3. Cardinality(below(i)) # 0
    BY <2>1, <2>2, FS_EmptySet
  <2> QED
    BY <1>1, <2>2, <2>3
<1>3. ASSUME NEW i \in K, NEW j \in K, i < j
      PROVE  Cardinality(below(i)) # Cardinality(below(j))
  <2>1. below(i) \in SUBSET below(j) /\ j \in below(j) /\ j \notin below(i)
    <3>1. i \in Int /\ j \in Int
      BY <1>0
    <3>2. j <= j /\ ~(j <= i)
      BY <1>3, <3>1
    <3>3. \A x \in K : x <= i => x <= j
      BY <1>0, <1>3, <3>1
    <3> QED
      BY <3>2, <3>3
  <2>2. IsFiniteSet(below(j))
    BY <1>1, FS_Subset
  <2> HIDE DEF below
  <2> QED
    BY <2>1, <2>2, FS_Subset
<1>4. rank \in Injection(K, 1..m)
  <2>1. rank \in [K -> 1..m]
    BY <1>2
  <2>2. ASSUME NEW i \in K, NEW j \in K, rank[i] = rank[j]
        PROVE  i = j
    <3>1. i < j \/ j < i \/ i = j
      BY <1>0
    <3> QED
      BY <1>3, <2>2, <3>1
  <2> HIDE DEF rank
  <2> QED
    BY <2>1, <2>2 DEF Injection, IsInjective
<1>5. rank \in Surjection(K, 1..m)
  <2>1. IsFiniteSet(1..m) /\ Cardinality(1..m) = m
    BY <1>1, FS_Interval
  <2> HIDE DEF rank
  <2> QED
    BY <1>1, <1>4, <2>1, FS_Injection
<1>6. ASSUME NEW k \in 1..m
      PROVE  Nth(K, k) \in K /\ Cardinality(below(Nth(K, k))) = k
  <2>1. PICK i \in K : rank[i] = k
    BY <1>5 DEF Surjection
  <2>2. Cardinality(below(i)) = k
    BY <2>1
  <2> QED
    BY <2>2 DEF Nth
<1>7. ASSUME NEW i \in K
      PROVE  \E k \in 1..m : Nth(K, k) = i
  <2> DEFINE k == Cardinality(below(i))
  <2>1. k \in 1..m
    BY <1>2
  <2>2. Nth(K, k) \in K /\ Cardinality(below(Nth(K, k))) = k
    BY <1>6, <2>1
  <2>3. Nth(K, k) = i
    <3>1. Nth(K, k) < i \/ i < Nth(K, k) \/ Nth(K, k) = i
      <4>1. Nth(K, k) \in Int /\ i \in Int
        BY <1>0, <2>2
      <4> QED
        BY <4>1
    <3> QED
      BY <1>3, <2>2, <3>1
  <2> QED
    BY <2>1, <2>3
<1> QED
  BY <1>1, <1>6, <1>7

\* Kept sections keep their order.
LEMMA NthOrder ==
    ASSUME NEW n \in Nat, NEW K \in SUBSET (1..n),
           NEW k \in 1..Cardinality(K), NEW l \in 1..Cardinality(K), k < l
    PROVE  Nth(K, k) < Nth(K, l)
<1> DEFINE below(i) == {j \in K : j <= i}
<1>1. /\ Nth(K, k) \in K /\ Nth(K, l) \in K
      /\ Cardinality(below(Nth(K, k))) = k /\ Cardinality(below(Nth(K, l))) = l
      /\ Cardinality(K) \in Nat
  BY NthProperty
<1>0. \A j \in K : j \in Int
  OBVIOUS
<1>2. Nth(K, k) \in Int /\ Nth(K, l) \in Int
  BY <1>0, <1>1
<1> SUFFICES ASSUME Nth(K, l) <= Nth(K, k) PROVE FALSE
  BY <1>2
<1>3. below(Nth(K, l)) \in SUBSET below(Nth(K, k))
  <2>1. \A j \in K : j <= Nth(K, l) => j <= Nth(K, k)
    BY <1>0, <1>2
  <2> QED
    BY <2>1
<1>4. IsFiniteSet(below(Nth(K, k)))
  <2>1. IsFiniteSet(1..n)
    BY FS_Interval
  <2>2. IsFiniteSet(K)
    BY <2>1, FS_Subset
  <2> QED
    BY <2>2, FS_Subset
<1> HIDE DEF below
<1>5. Cardinality(below(Nth(K, l))) <= Cardinality(below(Nth(K, k)))
  BY <1>3, <1>4, FS_Subset
<1> QED
  BY <1>1, <1>5

\* The package kept from s is a package; each of its sections is a kept
\* section of s, different ones at different positions, and none is lost.
LEMMA KeptProperty ==
    ASSUME NEW S, NEW s \in Seq(S), NEW K \in SUBSET DOMAIN s
    PROVE  /\ Kept(s, K) \in Seq(S)
           /\ DOMAIN Kept(s, K) = 1..Cardinality(K) /\ Cardinality(K) \in Nat
           /\ Len(Kept(s, K)) = Cardinality(K)
           /\ \A k \in 1..Cardinality(K) : Nth(K, k) \in K /\ Kept(s, K)[k] = s[Nth(K, k)]
           /\ \A k, l \in 1..Cardinality(K) : Nth(K, k) = Nth(K, l) => k = l
           /\ \A i \in K : \E k \in 1..Cardinality(K) : Nth(K, k) = i /\ Kept(s, K)[k] = s[i]
<1> DEFINE m == Cardinality(K)
<1>1. K \in SUBSET (1..Len(s)) /\ Len(s) \in Nat
  OBVIOUS
<1>2. /\ m \in Nat
      /\ \A k \in 1..m : Nth(K, k) \in K /\ Cardinality({j \in K : j <= Nth(K, k)}) = k
      /\ \A i \in K : \E k \in 1..m : Nth(K, k) = i
  BY <1>1, NthProperty
<1>3. \A k \in 1..m : s[Nth(K, k)] \in S
  <2>1. \A i \in K : s[i] \in S
    BY <1>1
  <2> QED
    BY <1>2, <2>1
<1>4. Kept(s, K) = [k \in 1..m |-> s[Nth(K, k)]]
  BY DEF Kept
<1> HIDE DEF m
<1>5. Kept(s, K) \in Seq(S) /\ DOMAIN Kept(s, K) = 1..m /\ Len(Kept(s, K)) = m
  BY <1>2, <1>3, <1>4
<1>6. \A k, l \in 1..m : Nth(K, k) = Nth(K, l) => k = l
  <2> TAKE k, l \in 1..m
  <2> HAVE Nth(K, k) = Nth(K, l)
  <2>1. Cardinality({j \in K : j <= Nth(K, k)}) = Cardinality({j \in K : j <= Nth(K, l)})
    OBVIOUS
  <2> QED
    BY <1>2, <2>1
<1>7. \A k \in 1..m : Nth(K, k) \in K /\ Kept(s, K)[k] = s[Nth(K, k)]
  BY <1>2, <1>4
<1>8. \A i \in K : \E k \in 1..m : Nth(K, k) = i /\ Kept(s, K)[k] = s[i]
  BY <1>2, <1>7
<1> QED
  BY <1>2, <1>5, <1>6, <1>7, <1>8 DEF m

\* A package nothing is deleted from is the package it was.
LEMMA KeptAll ==
    ASSUME NEW S, NEW s \in Seq(S)
    PROVE  Kept(s, DOMAIN s) = s
<1> DEFINE n == Len(s)
<1>1. n \in Nat /\ DOMAIN s = 1..n
  OBVIOUS
<1>2. s = [k \in 1..n |-> s[k]]
  <2>1. s \in [1..n -> S]
    OBVIOUS
  <2> HIDE DEF n
  <2> QED
    BY <2>1
<1> HIDE DEF n
<1>3. Cardinality(1..n) = n
  BY <1>1, FS_Interval
<1>4. \A k \in 1..n : Nth(1..n, k) = k
  <2> TAKE k \in 1..n
  <2> DEFINE i == Nth(1..n, k)
  <2>1. i \in 1..n /\ Cardinality({j \in 1..n : j <= i}) = k
    BY <1>1, <1>3, NthProperty
  <2> HIDE DEF i
  <2>2. i \in Nat /\ {j \in 1..n : j <= i} = 1..i
    BY <1>1, <2>1
  <2>3. Cardinality(1..i) = i
    BY <2>1, <2>2, FS_Interval
  <2> QED
    BY <2>1, <2>2, <2>3 DEF i
<1>5. Kept(s, DOMAIN s) = [k \in 1..n |-> s[Nth(1..n, k)]]
  BY <1>1, <1>3 DEF Kept
<1> QED
  BY <1>2, <1>4, <1>5

\* What is kept does not depend on a section added and deleted again.
LEMMA KeptAppend ==
    ASSUME NEW S, NEW s \in Seq(S), NEW p \in S, NEW K \in SUBSET DOMAIN s
    PROVE  Kept(Append(s, p), K) = Kept(s, K)
<1> DEFINE m == Cardinality(K)
           t == Append(s, p)
<1>1. \A k \in 1..m : Nth(K, k) \in K
  BY KeptProperty
<1>2. \A i \in DOMAIN s : t[i] = s[i]
  OBVIOUS
<1> HIDE DEF t
<1>3. \A k \in 1..m : t[Nth(K, k)] = s[Nth(K, k)]
  BY <1>1, <1>2
<1> HIDE DEF m
<1>4. [k \in 1..m |-> t[Nth(K, k)]] = [k \in 1..m |-> s[Nth(K, k)]]
  BY <1>3
<1> QED
  BY <1>4 DEF Kept, t, m

-----------------------------------------------------------------------------
(***************************************************************************)
(* The operations of the library                                           *)
(***************************************************************************)

\* Deleting sections loses no distinction between the ones that are left.
LEMMA KeptDistinct ==
    ASSUME NEW s \in Seq(Section), NEW K \in SUBSET DOMAIN s
    PROVE  /\ Kept(s, K) \in Seq(Section)
           /\ DistinctNames(s) => DistinctNames(Kept(s, K))
           /\ DistinctLuns(s) => DistinctLuns(Kept(s, K))
           /\ \A i \in Patterns(Kept(s, K)) :
                 \E j \in Patterns(s) \cap K : Kept(s, K)[i] = s[j]
           /\ \A j \in Patterns(s) \cap K :
                 \E i \in Patterns(Kept(s, K)) : Kept(s, K)[i] = s[j]
<1> DEFINE t == Kept(s, K)
           m == Cardinality(K)
<1>1. /\ t \in Seq(Section)
      /\ DOMAIN t = 1..m
      /\ \A k \in 1..m : Nth(K, k) \in K /\ t[k] = s[Nth(K, k)]
      /\ \A k, l \in 1..m : Nth(K, k) = Nth(K, l) => k = l
      /\ \A i \in K : \E k \in 1..m : Nth(K, k) = i /\ t[k] = s[i]
  BY KeptProperty
<1> HIDE DEF t, m
<1>2. \A k \in Patterns(t) : k \in 1..m /\ Nth(K, k) \in Patterns(s) \cap K /\ t[k] = s[Nth(K, k)]
  BY <1>1 DEF Patterns
<1>3. DistinctNames(s) => DistinctNames(t)
  BY <1>1, <1>2 DEF DistinctNames
<1>4. DistinctLuns(s) => DistinctLuns(t)
  BY <1>1, <1>2 DEF DistinctLuns
<1>5. \A j \in Patterns(s) \cap K : \E i \in Patterns(t) : t[i] = s[j]
  BY <1>1 DEF Patterns
<1> QED
  BY <1>1, <1>2, <1>3, <1>4, <1>5 DEF t

\* delete_by_name leaves the other patterns, and no pattern of that name.
LEMMA DeleteByName ==
    ASSUME NEW s \in Seq(Section), NEW n \in Names
    PROVE  /\ delete_by_name(s, n) \in Seq(Section)
           /\ DistinctNames(s) => DistinctNames(delete_by_name(s, n))
           /\ DistinctLuns(s) => DistinctLuns(delete_by_name(s, n))
           /\ \A i \in Patterns(delete_by_name(s, n)) :
                 \E j \in Patterns(s) : delete_by_name(s, n)[i] = s[j] /\ s[j].name # n
           /\ \A j \in Patterns(s) :
                 s[j].name # n => \E i \in Patterns(delete_by_name(s, n)) :
                                      delete_by_name(s, n)[i] = s[j]
<1> DEFINE K == DOMAIN s \ {i \in Patterns(s) : s[i].name = n}
<1>1. K \in SUBSET DOMAIN s
  OBVIOUS
<1>2. \A j \in Patterns(s) : j \in K <=> s[j].name # n
  BY DEF Patterns
<1>3. delete_by_name(s, n) = Kept(s, K)
  BY DEF delete_by_name
<1> HIDE DEF K
<1> QED
  BY <1>1, <1>2, <1>3, KeptDistinct

\* Appending a pattern with a new name, and with a LUN that is not taken if
\* it is bound.
LEMMA AppendDistinct ==
    ASSUME NEW s \in Seq(Section), NEW p \in Section
    PROVE  /\ Append(s, p) \in Seq(Section)
           /\ \A i \in Patterns(Append(s, p)) :
                 \/ i \in Patterns(s) /\ Append(s, p)[i] = s[i]
                 \/ i = Len(s) + 1 /\ Append(s, p)[i] = p /\ p.type = "access-pattern"
           /\ \A i \in Patterns(s) : i \in Patterns(Append(s, p)) /\ Append(s, p)[i] = s[i]
           /\ DistinctNames(s) /\ (p.type = "access-pattern" => \A i \in Patterns(s) : s[i].name # p.name)
              => DistinctNames(Append(s, p))
           /\ /\ DistinctLuns(s)
              /\ p.type = "access-pattern" /\ p.filename # NoFile =>
                    \A i \in Patterns(s) : s[i].filename = p.filename => s[i].lun # p.lun
              => DistinctLuns(Append(s, p))
<1> DEFINE t == Append(s, p)
<1>1. /\ t \in Seq(Section) /\ DOMAIN s = 1..Len(s) /\ Len(s) \in Nat
      /\ DOMAIN t = 1..(Len(s) + 1) /\ t[Len(s) + 1] = p
      /\ \A i \in 1..Len(s) : t[i] = s[i]
  OBVIOUS
<1> HIDE DEF t
<1>2. \A i \in Patterns(t) : \/ i \in Patterns(s) /\ t[i] = s[i]
                             \/ i = Len(s) + 1 /\ t[i] = p /\ p.type = "access-pattern"
  <2> TAKE i \in Patterns(t)
  <2>1. i \in 1..Len(s) \/ i = Len(s) + 1
    BY <1>1 DEF Patterns
  <2> QED
    BY <1>1, <2>1 DEF Patterns
<1>3. \A i \in Patterns(s) : i \in Patterns(t) /\ t[i] = s[i] /\ i # Len(s) + 1
  BY <1>1 DEF Patterns
<1>4. ASSUME DistinctNames(s), p.type = "access-pattern" => \A i \in Patterns(s) : s[i].name # p.name
      PROVE  DistinctNames(t)
  BY <1>2, <1>4 DEF DistinctNames
<1>5. ASSUME DistinctLuns(s),
             p.type = "access-pattern" /\ p.filename # NoFile =>
                 \A i \in Patterns(s) : s[i].filename = p.filename => s[i].lun # p.lun
      PROVE  DistinctLuns(t)
  <2> SUFFICES ASSUME NEW i \in Patterns(t), NEW j \in Patterns(t),
                      t[i].filename = t[j].filename, t[i].filename # NoFile, t[i].lun = t[j].lun
               PROVE  i = j
    BY DEF DistinctLuns
  <2>1. CASE i \in Patterns(s) /\ j \in Patterns(s)
    BY <1>3, <1>5, <2>1 DEF DistinctLuns
  <2>2. CASE i \in Patterns(s) /\ j \notin Patterns(s)
    BY <1>2, <1>3, <1>5, <2>2
  <2>3. CASE i \notin Patterns(s) /\ j \in Patterns(s)
    BY <1>2, <1>3, <1>5, <2>3
  <2>4. CASE i \notin Patterns(s) /\ j \notin Patterns(s)
    BY <1>2, <2>4
  <2> QED
    BY <2>1, <2>2, <2>3, <2>4
<1> QED
  BY <1>1, <1>2, <1>3, <1>4, <1>5 DEF t

\* save replaces the pattern of that name: names stay distinct whatever the
\* store held, LUNs if the saved pattern takes one that no OTHER name has.
LEMMA SaveDistinct ==
    ASSUME NEW s \in Seq(Section), NEW p \in AccessPattern
    PROVE  /\ save(s, p) \in Seq(Section)
           /\ DistinctNames(s) => DistinctNames(save(s, p))
           /\ /\ DistinctLuns(s)
              /\ p.filename # NoFile =>
                    \A i \in Patterns(s) :
                        s[i].name # p.name /\ s[i].filename = p.filename => s[i].lun # p.lun
              => DistinctLuns(save(s, p))
           /\ \A i \in Patterns(save(s, p)) :
                 save(s, p)[i] = p \/ \E j \in Patterns(s) : save(s, p)[i] = s[j] /\ s[j].name # p.name
           /\ \A j \in Patterns(s) :
                 s[j].name # p.name => \E i \in Patterns(save(s, p)) : save(s, p)[i] = s[j]
<1> DEFINE d == delete_by_name(s, p.name)
<1>1. p \in Section /\ p.type = "access-pattern" /\ p.name \in Names
  BY DEF Section, AccessPattern
<1>2. /\ d \in Seq(Section)
      /\ DistinctNames(s) => DistinctNames(d)
      /\ DistinctLuns(s) => DistinctLuns(d)
      /\ \A i \in Patterns(d) : \E j \in Patterns(s) : d[i] = s[j] /\ s[j].name # p.name
      /\ \A j \in Patterns(s) : s[j].name # p.name => \E i \in Patterns(d) : d[i] = s[j]
  BY <1>1, DeleteByName
<1> HIDE DEF d
<1>3. save(s, p) = Append(d, p)
  BY DEF save, d
<1>4. \A i \in Patterns(d) : d[i].name # p.name
  BY <1>2
<1>5. ASSUME p.filename # NoFile =>
                \A i \in Patterns(s) :
                    s[i].name # p.name /\ s[i].filename = p.filename => s[i].lun # p.lun
      PROVE  p.filename # NoFile =>
                \A i \in Patterns(d) : d[i].filename = p.filename => d[i].lun # p.lun
  BY <1>2, <1>5
<1> DEFINE t == Append(d, p)
<1>6. /\ t \in Seq(Section)
      /\ \A i \in Patterns(t) :
            \/ i \in Patterns(d) /\ t[i] = d[i]
            \/ t[i] = p
      /\ \A i \in Patterns(d) : i \in Patterns(t) /\ t[i] = d[i]
      /\ DistinctNames(d) => DistinctNames(t)
      /\ DistinctLuns(d) /\ (p.filename # NoFile =>
                \A i \in Patterns(d) : d[i].filename = p.filename => d[i].lun # p.lun)
         => DistinctLuns(t)
  BY <1>1, <1>2, <1>4, AppendDistinct
<1> HIDE DEF t
<1>7. \A i \in Patterns(t) :
          t[i] = p \/ \E j \in Patterns(s) : t[i] = s[j] /\ s[j].name # p.name
  <2> TAKE i \in Patterns(t)
  <2>1. CASE i \in Patterns(d) /\ t[i] = d[i]
    BY <1>2, <2>1
  <2>2. CASE t[i] = p
    BY <2>2
  <2> QED
    BY <1>6, <2>1, <2>2
<1>8. \A j \in Patterns(s) :
          s[j].name # p.name => \E i \in Patterns(t) : t[i] = s[j]
  <2> TAKE j \in Patterns(s)
  <2> HAVE s[j].name # p.name
  <2>1. PICK i \in Patterns(d) : d[i] = s[j]
    BY <1>2
  <2> QED
    BY <1>6, <2>1
<1>9. DistinctNames(s) => DistinctNames(t)
  BY <1>2, <1>6
<1>10. ASSUME DistinctLuns(s),
              p.filename # NoFile =>
                 \A i \in Patterns(s) :
                     s[i].name # p.name /\ s[i].filename = p.filename => s[i].lun # p.lun
       PROVE  DistinctLuns(t)
  BY <1>2, <1>5, <1>6, <1>10
<1>11. save(s, p) = t
  BY <1>3 DEF t
<1> QED
  BY <1>6, <1>7, <1>8, <1>9, <1>10, <1>11

\* Deleting credentials leaves the patterns alone.
LEMMA CredentialDistinct ==
    ASSUME NEW s \in Seq(Section), DistinctNames(s), DistinctLuns(s), NEW u, NEW f
    PROVE  /\ delete_by_username_and_filename(s, u, f) \in Seq(Section)
           /\ DistinctNames(delete_by_username_and_filename(s, u, f))
           /\ DistinctLuns(delete_by_username_and_filename(s, u, f))
<1> DEFINE K == DOMAIN s \ {i \in Credentials(s) : s[i].username = u /\ s[i].filename = f}
<1>1. K \in SUBSET DOMAIN s
  OBVIOUS
<1> HIDE DEF K
<1>2. Kept(s, K) \in Seq(Section) /\ DistinctNames(Kept(s, K)) /\ DistinctLuns(Kept(s, K))
  BY <1>1, KeptDistinct
<1> QED
  BY <1>2 DEF delete_by_username_and_filename, K

\* Deleting twice is deleting once; deleting undoes an addition.
LEMMA DeleteAgain ==
    ASSUME NEW s \in Seq(Section), NEW n \in Names
    PROVE  delete_by_name(delete_by_name(s, n), n) = delete_by_name(s, n)
<1> DEFINE d == delete_by_name(s, n)
<1>1. d \in Seq(Section) /\ \A i \in Patterns(d) : d[i].name # n
  BY DeleteByName
<1> HIDE DEF d
<1>2. DOMAIN d \ {i \in Patterns(d) : d[i].name = n} = DOMAIN d
  BY <1>1
<1>3. delete_by_name(d, n) = d
  BY <1>1, <1>2, KeptAll DEF delete_by_name
<1> QED
  BY <1>3 DEF d

LEMMA DeleteAppended ==
    ASSUME NEW s \in Seq(Section), NEW p \in AccessPattern
    PROVE  delete_by_name(Append(s, p), p.name) = delete_by_name(s, p.name)
<1> DEFINE t == Append(s, p)
           n == p.name
           K == DOMAIN s \ {i \in Patterns(s) : s[i].name = n}
<1>1. p \in Section /\ p.type = "access-pattern"
  BY DEF Section, AccessPattern
<1>2. /\ DOMAIN s = 1..Len(s) /\ Len(s) \in Nat
      /\ DOMAIN t = 1..(Len(s) + 1) /\ t[Len(s) + 1] = p
      /\ \A i \in 1..Len(s) : t[i] = s[i]
  BY <1>1
<1> HIDE DEF t
<1>3. DOMAIN t \ {i \in Patterns(t) : t[i].name = n} = K
  <2>1. \A i \in DOMAIN t : i \in 1..Len(s) \/ i = Len(s) + 1
    BY <1>2
  <2>2. \A i \in 1..Len(s) : i \in DOMAIN t /\ i # Len(s) + 1
    BY <1>2
  <2> QED
    BY <1>1, <1>2, <2>1, <2>2 DEF Patterns
<1>4. K \in SUBSET DOMAIN s
  OBVIOUS
<1> HIDE DEF K, n
<1>5. Kept(t, K) = Kept(s, K)
  BY <1>1, <1>4, KeptAppend DEF t
<1> QED
  BY <1>3, <1>5 DEF delete_by_name, K, n, t

\* Saving a pattern changes no other section.
LEMMA SaveNear ==
    ASSUME NEW s \in Seq(Section), NEW p \in AccessPattern
    PROVE  delete_by_name(save(s, p), p.name) = delete_by_name(s, p.name)
<1>1. p.name \in Names
  BY DEF AccessPattern
<1>2. delete_by_name(s, p.name) \in Seq(Section)
  BY <1>1, DeleteByName
<1> QED
  BY <1>1, <1>2, DeleteAgain, DeleteAppended DEF save

\* The same for credentials.
LEMMA CredentialAgain ==
    ASSUME NEW s \in Seq(Section), NEW u, NEW f
    PROVE  delete_by_username_and_filename(delete_by_username_and_filename(s, u, f), u, f)
           = delete_by_username_and_filename(s, u, f)
<1> DEFINE K == DOMAIN s \ {i \in Credentials(s) : s[i].username = u /\ s[i].filename = f}
           d == Kept(s, K)
<1>1. K \in SUBSET DOMAIN s
  OBVIOUS
<1>2. /\ d \in Seq(Section) /\ DOMAIN d = 1..Cardinality(K)
      /\ \A k \in 1..Cardinality(K) : Nth(K, k) \in K /\ d[k] = s[Nth(K, k)]
  BY <1>1, KeptProperty
<1>3. \A i \in K : ~(s[i].type = "auth-credential" /\ s[i].username = u /\ s[i].filename = f)
  BY DEF Credentials
<1>4. delete_by_username_and_filename(s, u, f) = d
  BY DEF delete_by_username_and_filename
<1> HIDE DEF K, d
<1>5. DOMAIN d \ {i \in Credentials(d) : d[i].username = u /\ d[i].filename = f} = DOMAIN d
  BY <1>2, <1>3 DEF Credentials
<1>6. delete_by_username_and_filename(d, u, f) = d
  BY <1>2, <1>5, KeptAll DEF delete_by_username_and_filename
<1> QED
  BY <1>4, <1>6

LEMMA CredentialAppended ==
    ASSUME NEW s \in Seq(Section), NEW u \in Users, NEW f \in Files
    PROVE  delete_by_username_and_filename(
               Append(s, [type |-> "auth-credential", username |-> u, filename |-> f]), u, f)
           = delete_by_username_and_filename(s, u, f)
<1> DEFINE p == [type |-> "auth-credential", username |-> u, filename |-> f]
           t == Append(s, p)
           K == DOMAIN s \ {i \in Credentials(s) : s[i].username = u /\ s[i].filename = f}
<1>1. p \in Section /\ p.type = "auth-credential" /\ p.username = u /\ p.filename = f
  BY DEF Section, AuthCredential
<1> HIDE DEF p
<1>2. /\ DOMAIN s = 1..Len(s) /\ Len(s) \in Nat
      /\ DOMAIN t = 1..(Len(s) + 1) /\ t[Len(s) + 1] = p
      /\ \A i \in 1..Len(s) : t[i] = s[i]
  BY <1>1
<1> HIDE DEF t
<1>3. DOMAIN t \ {i \in Credentials(t) : t[i].username = u /\ t[i].filename = f} = K
  <2>1. \A i \in DOMAIN t : i \in 1..Len(s) \/ i = Len(s) + 1
    BY <1>2
  <2>2. \A i \in 1..Len(s) : i \in DOMAIN t /\ i # Len(s) + 1
    BY <1>2
  <2> QED
    BY <1>1, <1>2, <2>1, <2>2 DEF Credentials
<1>4. K \in SUBSET DOMAIN s
  OBVIOUS
<1> HIDE DEF K
<1>5. Kept(t, K) = Kept(s, K)
  BY <1>1, <1>4, KeptAppend DEF t
<1> QED
  BY <1>3, <1>5 DEF delete_by_username_and_filename, K, t, p

-----------------------------------------------------------------------------
\* Of the exported patterns of a file one is the last: the DEVICE that
\* dump's fileios table keeps for the file.
LEMMA LastDevice ==
    ASSUME NEW s \in Seq(Section), NEW devices, NEW i \in Exportable(s, devices)
    PROVE  LET d == DeviceOf(s, devices, s[i].filename)
           IN  /\ d \in Exportable(s, devices) /\ s[d].filename = s[i].filename
               /\ \A j \in Exportable(s, devices) : s[j].filename = s[i].filename => j <= d
<1> DEFINE E == Exportable(s, devices)
           K == {j \in E : s[j].filename = s[i].filename}
           m == Cardinality(K)
<1>1. K \in SUBSET (1..Len(s)) /\ Len(s) \in Nat /\ i \in K
  BY DEF Exportable, Patterns
<1>2. IsFiniteSet(K) /\ m \in Nat /\ m # 0
  <2>1. IsFiniteSet(1..Len(s))
    BY <1>1, FS_Interval
  <2>2. IsFiniteSet(K)
    BY <1>1, <2>1, FS_Subset
  <2> QED
    BY <1>1, <2>2, FS_CardinalityType, FS_EmptySet
<1> HIDE DEF K
<1>3. Nth(K, m) \in K /\ Cardinality({j \in K : j <= Nth(K, m)}) = m
  <2>1. \A k \in 1..Cardinality(K) : Nth(K, k) \in K /\ Cardinality({j \in K : j <= Nth(K, k)}) = k
    BY <1>1, NthProperty
  <2>2. m \in 1..Cardinality(K)
    BY <1>2
  <2> QED
    BY <2>1, <2>2
<1>4. {j \in K : j <= Nth(K, m)} = K
  <2>1. {j \in K : j <= Nth(K, m)} \in SUBSET K
    OBVIOUS
  <2> QED
    BY <1>2, <1>3, <2>1, FS_Subset
<1>5. Nth(K, m) \in E /\ s[Nth(K, m)].filename = s[i].filename
      /\ \A j \in E : s[j].filename = s[i].filename => j <= Nth(K, m)
  BY <1>3, <1>4 DEF K
<1> HIDE DEF E
<1> QED
  BY <1>5 DEF DeviceOf, E

\* Configuration.dump describes a state of the kernel.
LEMMA DumpType ==
    ASSUME NEW s \in Seq(Section), NEW devices \in SUBSET Files
    PROVE  dump(s, devices) \in Kernel
<1> DEFINE T == TargetTable(s, devices)
<1>1. \A i \in Exportable(s, devices) : s[i] \in AccessPattern /\ s[i].filename \in Files
  BY DEF Exportable, Patterns, is_binded, Section, AuthCredential, AccessPattern
<1>2. T \subseteq Exportable(s, devices)
  BY DEF TargetTable
<1>3. ASSUME NEW i \in T
      PROVE  [iqn |-> Iqn[s[i].filename], lun |-> s[i].lun,
              filename |-> s[i].filename, readonly |-> s[i].readonly,
              writethrough |-> s[DeviceOf(s, devices, s[i].filename)].writethrough] \in ExportedLun
  <2>1. s[i] \in AccessPattern /\ s[i].filename \in Files
    BY <1>1, <1>2
  <2>2. s[DeviceOf(s, devices, s[i].filename)] \in AccessPattern
    BY <1>1, <1>2, LastDevice
  <2>3. Iqn[s[i].filename] \in Iqns
    BY <2>1, IqnAssumption
  <2> QED
    BY <2>1, <2>2, <2>3 DEF AccessPattern, ExportedLun
<1>4. ASSUME NEW i \in T, NEW c \in Credentials(s)
      PROVE  <<Iqn[s[i].filename], s[c].username>> \in Iqns \X Users
  <2>1. s[c].username \in Users
    BY DEF Credentials, Section, AccessPattern, AuthCredential
  <2>2. Iqn[s[i].filename] \in Iqns
    BY <1>1, <1>2, IqnAssumption
  <2> QED
    BY <2>1, <2>2
<1> HIDE DEF T
<1>5. {[iqn |-> Iqn[s[i].filename], lun |-> s[i].lun,
        filename |-> s[i].filename, readonly |-> s[i].readonly,
        writethrough |-> s[DeviceOf(s, devices, s[i].filename)].writethrough] : i \in T}
      \in SUBSET ExportedLun
  BY <1>3
<1>6. UNION {{<<Iqn[s[i].filename], s[c].username>> :
                  c \in {d \in Credentials(s) : s[d].filename = s[i].filename}} :
             i \in {j \in T : s[j].lun = 0}} \in SUBSET (Iqns \X Users)
  BY <1>4
<1> QED
  BY <1>5, <1>6 DEF dump, Kernel, T

\* Whether it returns or raises an error, Daemon.apply leaves the kernel in
\* a state it can be in.
LEMMA ApplyType ==
    ASSUME NEW s \in Seq(Section), NEW devices \in SUBSET Files, NEW k \in Kernel
    PROVE  Applied(s, devices, k) \in SUBSET Kernel /\ ApplyRaised(s, devices, k) \in SUBSET Kernel
<1>1. dump(s, devices) \in Kernel
  BY DumpType
<1> DEFINE new == dump(s, devices)
<1>2. /\ k.luns \cup new.luns \in SUBSET ExportedLun
      /\ k.users \cup new.users \in SUBSET (Iqns \X Users)
  BY <1>1 DEF Kernel
<1> HIDE DEF new
<1>3. [luns: {on \in SUBSET (k.luns \cup new.luns) : k.luns \cap new.luns \subseteq on},
       users: {who \in SUBSET (k.users \cup new.users) : k.users \cap new.users \subseteq who}]
      \in SUBSET Kernel
  BY <1>2 DEF Kernel
<1>4. Applied(s, devices, k) \in SUBSET Kernel
  BY <1>1 DEF Applied
<1>5. ApplyRaised(s, devices, k) \in SUBSET Kernel
  BY <1>3 DEF ApplyRaised, new
<1> QED
  BY <1>4, <1>5

\* So does removing targets.
LEMMA RemTargetType ==
    ASSUME NEW k \in Kernel, NEW T
    PROVE  rem_target(k, T) \in Kernel
BY DEF rem_target, Kernel

-----------------------------------------------------------------------------
(***************************************************************************)
(* The order of sections.  Every save moves a section to the end, and dump *)
(* and caching.apply depend on which pattern of a volume is last or first. *)
(***************************************************************************)

\* The positions of the patterns bound to one of the files F.
BoundIn(s, F) == {i \in Patterns(s) : s[i].filename \in F}

\* The patterns bound to files in F are the same in t as in s, in the same
\* order.
SameOrder(s, t, F) ==
    \E g \in [BoundIn(t, F) -> BoundIn(s, F)] :
        /\ \A i \in BoundIn(s, F) : \E k \in BoundIn(t, F) : g[k] = i
        /\ \A k \in BoundIn(t, F) : t[k] = s[g[k]]
        /\ \A k, l \in BoundIn(t, F) : k <= l <=> g[k] <= g[l]

\* The users and volumes of the credentials in s.
Permits(s) == {<<s[c].username, s[c].filename>> : c \in Credentials(s)}

\* Positions are numbers.
LEMMA BoundInType ==
    ASSUME NEW s \in Seq(Section), NEW F
    PROVE  BoundIn(s, F) \subseteq DOMAIN s /\ \A i \in BoundIn(s, F) : i \in Int
BY DEF BoundIn, Patterns

\* t begins with sections of s in their order, and what is left out of s or
\* follows in t is not bound to a file in F.
LEMMA SameOrderFrom ==
    ASSUME NEW s \in Seq(Section), NEW t \in Seq(Section), NEW F, NEW m \in Nat,
           NEW h \in [1..m -> DOMAIN s],
           \A k, l \in 1..m : k < l => h[k] < h[l],
           1..m \subseteq DOMAIN t, \A k \in 1..m : t[k] = s[h[k]],
           \A k \in BoundIn(t, F) : k \in 1..m,
           \A i \in BoundIn(s, F) : \E k \in 1..m : h[k] = i
    PROVE  SameOrder(s, t, F)
<1> DEFINE g == [k \in BoundIn(t, F) |-> h[k]]
<1>1. \A k \in 1..m : h[k] \in DOMAIN s /\ h[k] \in Int
  OBVIOUS
<1>2. \A k \in 1..m : k \in BoundIn(t, F) <=> h[k] \in BoundIn(s, F)
  BY <1>1 DEF BoundIn, Patterns
<1>3. \A k, l \in 1..m : k <= l <=> h[k] <= h[l]
  BY <1>1
<1>4. g \in [BoundIn(t, F) -> BoundIn(s, F)]
  BY <1>2
<1>5. \A i \in BoundIn(s, F) : \E k \in BoundIn(t, F) : g[k] = i
  BY <1>2
<1>6. \A k \in BoundIn(t, F) : t[k] = s[g[k]]
  OBVIOUS
<1>7. \A k, l \in BoundIn(t, F) : k <= l <=> g[k] <= g[l]
  BY <1>3
<1> HIDE DEF g
<1> QED
  BY <1>4, <1>5, <1>6, <1>7 DEF SameOrder

\* Sections that are not bound are deleted.
LEMMA SameOrderKept ==
    ASSUME NEW s \in Seq(Section), NEW K \in SUBSET DOMAIN s, NEW F, BoundIn(s, F) \subseteq K
    PROVE  SameOrder(s, Kept(s, K), F)
<1> DEFINE m == Cardinality(K)
           t == Kept(s, K)
           h == [k \in 1..m |-> Nth(K, k)]
<1>1. /\ t \in Seq(Section) /\ DOMAIN t = 1..m /\ m \in Nat
      /\ \A k \in 1..m : Nth(K, k) \in K /\ t[k] = s[Nth(K, k)]
      /\ \A i \in K : \E k \in 1..m : Nth(K, k) = i
  BY KeptProperty
<1>2. \A k, l \in 1..m : k < l => Nth(K, k) < Nth(K, l)
  <2>1. Len(s) \in Nat /\ K \in SUBSET (1..Len(s))
    OBVIOUS
  <2> QED
    BY <2>1, NthOrder
<1> HIDE DEF m, t
<1>3. /\ h \in [1..m -> DOMAIN s] /\ \A k, l \in 1..m : k < l => h[k] < h[l]
      /\ \A k \in 1..m : t[k] = s[h[k]]
      /\ \A i \in BoundIn(s, F) : \E k \in 1..m : h[k] = i
  BY <1>1, <1>2
<1>4. \A k \in BoundIn(t, F) : k \in 1..m
  BY <1>1 DEF BoundIn, Patterns
<1> HIDE DEF h
<1>5. SameOrder(s, t, F)
  BY <1>1, <1>3, <1>4, SameOrderFrom
<1> QED
  BY <1>5 DEF t

\* A section that is not bound to a file in F is appended.
LEMMA SameOrderAppend ==
    ASSUME NEW s \in Seq(Section), NEW p \in Section, NEW F,
           p.type = "access-pattern" => p.filename \notin F
    PROVE  SameOrder(s, Append(s, p), F)
<1> DEFINE m == Len(s)
           t == Append(s, p)
           h == [k \in 1..m |-> k]
<1>1. /\ t \in Seq(Section) /\ m \in Nat /\ DOMAIN s = 1..m /\ DOMAIN t = 1..(m + 1)
      /\ t[m + 1] = p /\ \A k \in 1..m : t[k] = s[k]
  OBVIOUS
<1> HIDE DEF m, t
<1>2. /\ h \in [1..m -> DOMAIN s] /\ \A k, l \in 1..m : k < l => h[k] < h[l]
      /\ 1..m \subseteq DOMAIN t /\ \A k \in 1..m : t[k] = s[h[k]]
      /\ \A i \in BoundIn(s, F) : \E k \in 1..m : h[k] = i
  BY <1>1 DEF BoundIn, Patterns
<1>3. \A k \in BoundIn(t, F) : k \in 1..m
  <2> TAKE k \in BoundIn(t, F)
  <2>1. k \in 1..m \/ k = m + 1
    BY <1>1 DEF BoundIn, Patterns
  <2>2. k # m + 1
    BY <1>1 DEF BoundIn, Patterns
  <2> QED
    BY <2>1, <2>2
<1> HIDE DEF h
<1>4. SameOrder(s, t, F)
  BY <1>1, <1>2, <1>3, SameOrderFrom
<1> QED
  BY <1>4 DEF t

\* One change after the other.
LEMMA SameOrderTrans ==
    ASSUME NEW s \in Seq(Section), NEW t \in Seq(Section), NEW u \in Seq(Section), NEW F,
           SameOrder(s, t, F), SameOrder(t, u, F)
    PROVE  SameOrder(s, u, F)
<1> DEFINE S == BoundIn(s, F)
           T == BoundIn(t, F)
           U == BoundIn(u, F)
<1>1. PICK g \in [T -> S] : /\ \A i \in S : \E k \in T : g[k] = i
                            /\ \A k \in T : t[k] = s[g[k]]
                            /\ \A k, l \in T : k <= l <=> g[k] <= g[l]
  BY DEF SameOrder
<1>2. PICK h \in [U -> T] : /\ \A i \in T : \E k \in U : h[k] = i
                            /\ \A k \in U : u[k] = t[h[k]]
                            /\ \A k, l \in U : k <= l <=> h[k] <= h[l]
  BY DEF SameOrder
<1> DEFINE c == [k \in U |-> g[h[k]]]
<1> HIDE DEF S, T, U
<1>3. /\ c \in [U -> S] /\ \A k \in U : u[k] = s[c[k]]
      /\ \A k, l \in U : k <= l <=> c[k] <= c[l]
  BY <1>1, <1>2
<1>4. \A i \in S : \E k \in U : c[k] = i
  <2> TAKE i \in S
  <2>1. PICK j \in T : g[j] = i
    BY <1>1
  <2>2. PICK k \in U : h[k] = j
    BY <1>2
  <2> QED
    BY <2>1, <2>2
<1> HIDE DEF c
<1> QED
  BY <1>3, <1>4 DEF SameOrder, S, U

\* Fewer files.
LEMMA SameOrderFewer ==
    ASSUME NEW s \in Seq(Section), NEW t \in Seq(Section), NEW F, NEW D, D \subseteq F,
           SameOrder(s, t, F)
    PROVE  SameOrder(s, t, D)
<1>1. PICK g \in [BoundIn(t, F) -> BoundIn(s, F)] :
         /\ \A i \in BoundIn(s, F) : \E k \in BoundIn(t, F) : g[k] = i
         /\ \A k \in BoundIn(t, F) : t[k] = s[g[k]]
         /\ \A k, l \in BoundIn(t, F) : k <= l <=> g[k] <= g[l]
  BY DEF SameOrder
<1> DEFINE h == [k \in BoundIn(t, D) |-> g[k]]
<1>2. BoundIn(s, D) \subseteq BoundIn(s, F) /\ BoundIn(t, D) \subseteq BoundIn(t, F)
  BY DEF BoundIn
<1>3. \A k \in BoundIn(t, F) : k \in BoundIn(t, D) <=> g[k] \in BoundIn(s, D)
  BY <1>1 DEF BoundIn
<1>4. /\ h \in [BoundIn(t, D) -> BoundIn(s, D)]
      /\ \A i \in BoundIn(s, D) : \E k \in BoundIn(t, D) : h[k] = i
      /\ \A k \in BoundIn(t, D) : t[k] = s[h[k]]
      /\ \A k, l \in BoundIn(t, D) : k <= l <=> h[k] <= h[l]
  BY <1>1, <1>2, <1>3
<1> HIDE DEF h
<1> QED
  BY <1>4 DEF SameOrder

\* Deleting an unbound pattern by its name.
LEMMA DeleteOrder ==
    ASSUME NEW s \in Seq(Section), NEW n \in Names, NEW F,
           \A i \in BoundIn(s, F) : s[i].name # n
    PROVE  SameOrder(s, delete_by_name(s, n), F)
<1> DEFINE K == DOMAIN s \ {i \in Patterns(s) : s[i].name = n}
<1>1. K \in SUBSET DOMAIN s /\ BoundIn(s, F) \subseteq K
  BY BoundInType
<1> HIDE DEF K
<1>2. SameOrder(s, Kept(s, K), F)
  BY <1>1, SameOrderKept
<1> QED
  BY <1>2 DEF delete_by_name, K

\* Saving a pattern that is not bound, over one that was not.
LEMMA SaveOrder ==
    ASSUME NEW s \in Seq(Section), NEW p \in AccessPattern, NEW F, p.filename \notin F,
           \A i \in BoundIn(s, F) : s[i].name # p.name
    PROVE  SameOrder(s, save(s, p), F)
<1> DEFINE d == delete_by_name(s, p.name)
<1>1. p \in Section /\ p.name \in Names
  BY DEF AccessPattern, Section
<1>2. d \in Seq(Section) /\ SameOrder(s, d, F)
  BY <1>1, DeleteByName, DeleteOrder
<1> HIDE DEF d
<1>3. SameOrder(d, Append(d, p), F) /\ Append(d, p) \in Seq(Section)
  BY <1>1, <1>2, SameOrderAppend
<1>4. SameOrder(s, Append(d, p), F)
  BY <1>2, <1>3, SameOrderTrans
<1> QED
  BY <1>4 DEF save, d

\* Deleting credentials by user name and file leaves patterns in order.
LEMMA CredentialOrder ==
    ASSUME NEW s \in Seq(Section), NEW u, NEW f, NEW F
    PROVE  SameOrder(s, delete_by_username_and_filename(s, u, f), F)
<1> DEFINE K == DOMAIN s \ {i \in Credentials(s) : s[i].username = u /\ s[i].filename = f}
<1>1. K \in SUBSET DOMAIN s /\ BoundIn(s, F) \subseteq K
  BY DEF BoundIn, Patterns, Credentials
<1> HIDE DEF K
<1>2. SameOrder(s, Kept(s, K), F)
  BY <1>1, SameOrderKept
<1> QED
  BY <1>2 DEF delete_by_username_and_filename, K

\* Handlers of patterns leave credentials alone.
LEMMA PermitsKept ==
    ASSUME NEW s \in Seq(Section), NEW K \in SUBSET DOMAIN s, Credentials(s) \subseteq K
    PROVE  Permits(Kept(s, K)) = Permits(s)
<1> DEFINE t == Kept(s, K)
           m == Cardinality(K)
<1>1. /\ DOMAIN t = 1..m
      /\ \A k \in 1..m : Nth(K, k) \in K /\ t[k] = s[Nth(K, k)]
      /\ \A i \in K : \E k \in 1..m : Nth(K, k) = i /\ t[k] = s[i]
  BY KeptProperty
<1> HIDE DEF t, m
<1>2. \A c \in Credentials(t) : \E d \in Credentials(s) : t[c] = s[d]
  BY <1>1 DEF Credentials
<1>3. \A d \in Credentials(s) : \E c \in Credentials(t) : t[c] = s[d]
  <2> TAKE d \in Credentials(s)
  <2>1. PICK k \in 1..m : t[k] = s[d]
    BY <1>1
  <2> QED
    BY <1>1, <2>1 DEF Credentials
<1>4. Permits(t) = Permits(s)
  BY <1>2, <1>3 DEF Permits
<1> QED
  BY <1>4 DEF t

LEMMA PermitsAppend ==
    ASSUME NEW s \in Seq(Section), NEW p \in AccessPattern
    PROVE  Permits(Append(s, p)) = Permits(s)
<1> DEFINE t == Append(s, p)
           m == Len(s)
<1>1. /\ m \in Nat /\ DOMAIN s = 1..m /\ DOMAIN t = 1..(m + 1)
      /\ t[m + 1] = p /\ \A k \in 1..m : t[k] = s[k]
  OBVIOUS
<1>2. p.type # "auth-credential"
  BY DEF AccessPattern
<1> HIDE DEF t, m
<1>3. Credentials(t) = Credentials(s) /\ \A c \in Credentials(s) : t[c] = s[c]
  <2>1. \A c \in DOMAIN t : c \in DOMAIN s \/ c = m + 1
    BY <1>1
  <2>2. DOMAIN s \subseteq DOMAIN t /\ \A c \in DOMAIN s : t[c] = s[c]
    BY <1>1
  <2> QED
    BY <1>1, <1>2, <2>1, <2>2 DEF Credentials
<1>4. Permits(t) = Permits(s)
  BY <1>3 DEF Permits
<1> QED
  BY <1>4 DEF t

LEMMA DeletePermits ==
    ASSUME NEW s \in Seq(Section), NEW n
    PROVE  Permits(delete_by_name(s, n)) = Permits(s)
<1> DEFINE K == DOMAIN s \ {i \in Patterns(s) : s[i].name = n}
<1>1. K \in SUBSET DOMAIN s /\ Credentials(s) \subseteq K
  BY DEF Credentials, Patterns
<1> HIDE DEF K
<1>2. Permits(Kept(s, K)) = Permits(s)
  BY <1>1, PermitsKept
<1> QED
  BY <1>2 DEF delete_by_name, K

LEMMA SavePermits ==
    ASSUME NEW s \in Seq(Section), NEW p \in AccessPattern
    PROVE  Permits(save(s, p)) = Permits(s)
<1>1. p.name \in Names
  BY DEF AccessPattern
<1>2. delete_by_name(s, p.name) \in Seq(Section)
  BY <1>1, DeleteByName
<1> QED
  BY <1>2, DeletePermits, PermitsAppend DEF save

-----------------------------------------------------------------------------
\* Configuration.dump describes the same targets for the same patterns in
\* the same order and the same credentials.
LEMMA SameDump ==
    ASSUME NEW s \in Seq(Section), NEW t \in Seq(Section), NEW D,
           SameOrder(s, t, D), Permits(t) = Permits(s)
    PROVE  /\ dump(t, D) = dump(s, D)
           /\ DumpFails(t, D) <=> DumpFails(s, D)
           /\ Exportable(t, D) = {} <=> Exportable(s, D) = {}
<1> DEFINE S == Exportable(s, D)
           T == Exportable(t, D)
<1>0. S = {i \in BoundIn(s, D) : s[i].enabled} /\ T = {k \in BoundIn(t, D) : t[k].enabled}
  BY DEF Exportable, BoundIn, is_binded
<1>1. PICK g \in [BoundIn(t, D) -> BoundIn(s, D)] :
         /\ \A i \in BoundIn(s, D) : \E k \in BoundIn(t, D) : g[k] = i
         /\ \A k \in BoundIn(t, D) : t[k] = s[g[k]]
         /\ \A k, l \in BoundIn(t, D) : k <= l <=> g[k] <= g[l]
  BY DEF SameOrder
<1>2. /\ \A k \in T : g[k] \in S /\ t[k] = s[g[k]]
      /\ \A i \in S : \E k \in T : g[k] = i
      /\ \A k, l \in T : k <= l <=> g[k] <= g[l]
  BY <1>0, <1>1
<1>3. /\ \A k \in T : k \in Int /\ g[k] \in Int
      /\ \A k, l \in T : g[k] = g[l] => k = l
  <2>1. \A k \in T : k \in Int /\ g[k] \in Int
    BY <1>0, <1>2, BoundInType
  <2> QED
    BY <1>2, <2>1
<1>4. T = {} <=> S = {}
  BY <1>2
<1>5. DumpFails(t, D) <=> DumpFails(s, D)
  <2> HIDE DEF S, T
  <2>1. DumpFails(s, D) <=> \E i \in S : \A j \in S : SameTarget(s[i], s[j]) => s[j].lun # 0
    BY DEF DumpFails, S
  <2>2. DumpFails(t, D) <=> \E i \in T : \A j \in T : SameTarget(t[i], t[j]) => t[j].lun # 0
    BY DEF DumpFails, T
  <2> QED
    BY <1>2, <2>1, <2>2
<1>6. \A k \in T : k \in TargetTable(t, D) <=> g[k] \in TargetTable(s, D)
  <2> TAKE k \in T
  <2> HIDE DEF S, T
  <2>1. k \in TargetTable(t, D) <=>
          \A l \in T : SameTarget(t[k], t[l]) /\ t[k].lun = t[l].lun => l <= k
    BY DEF TargetTable, T
  <2>2. g[k] \in TargetTable(s, D) <=>
          \A j \in S : SameTarget(s[g[k]], s[j]) /\ s[g[k]].lun = s[j].lun => j <= g[k]
    BY <1>2 DEF TargetTable, S
  <2> QED
    BY <1>2, <2>1, <2>2
<1>7. ASSUME NEW k \in T
      PROVE  /\ DeviceOf(t, D, t[k].filename) \in T
             /\ DeviceOf(s, D, t[k].filename) = g[DeviceOf(t, D, t[k].filename)]
  <2> DEFINE f == t[k].filename
             a == DeviceOf(t, D, f)
             b == DeviceOf(s, D, f)
  <2>1. a \in T /\ t[a].filename = f /\ \A j \in T : t[j].filename = f => j <= a
    BY LastDevice
  <2>2. b \in S /\ s[b].filename = f /\ \A j \in S : s[j].filename = f => j <= b
    <3>1. g[k] \in S /\ s[g[k]].filename = f
      BY <1>2
    <3> QED
      BY <3>1, LastDevice
  <2> HIDE DEF S, T, a, b, f
  <2>3. PICK c \in T : g[c] = b
    BY <1>2, <2>2
  <2>4. c <= a /\ g[a] <= b
    BY <1>2, <2>1, <2>2, <2>3
  <2>5. g[c] <= g[a]
    BY <1>2, <2>1, <2>4
  <2>6. g[a] = b
    BY <1>3, <2>1, <2>3, <2>4, <2>5
  <2> QED
    BY <2>1, <2>6 DEF a, b, f
<1> DEFINE lun(x, i) == [iqn |-> Iqn[x[i].filename], lun |-> x[i].lun,
                         filename |-> x[i].filename, readonly |-> x[i].readonly,
                         writethrough |-> x[DeviceOf(x, D, x[i].filename)].writethrough]
           who(x, i) == {<<Iqn[x[i].filename], x[c].username>> :
                            c \in {d \in Credentials(x) : x[d].filename = x[i].filename}}
<1>8. \A k \in T : lun(t, k) = lun(s, g[k])
  BY <1>2, <1>7
<1>9. \A k \in T : who(t, k) = who(s, g[k])
  <2>1. /\ \A c \in Credentials(t) : \E d \in Credentials(s) :
              t[c].username = s[d].username /\ t[c].filename = s[d].filename
        /\ \A d \in Credentials(s) : \E c \in Credentials(t) :
              t[c].username = s[d].username /\ t[c].filename = s[d].filename
    <3>1. /\ \A c \in Credentials(t) : <<t[c].username, t[c].filename>> \in Permits(s)
          /\ \A d \in Credentials(s) : <<s[d].username, s[d].filename>> \in Permits(t)
      BY DEF Permits
    <3> QED
      BY <3>1 DEF Permits
  <2> TAKE k \in T
  <2>2. t[k].filename = s[g[k]].filename
    BY <1>2
  <2> HIDE DEF T
  <2> QED
    BY <2>1, <2>2
<1>10. TargetTable(t, D) \subseteq T /\ TargetTable(s, D) \subseteq S
  BY DEF TargetTable
<1> HIDE DEF S, T, lun, who
<1>11. {lun(t, k) : k \in TargetTable(t, D)} = {lun(s, i) : i \in TargetTable(s, D)}
  <2>1. \A k \in TargetTable(t, D) : \E i \in TargetTable(s, D) : lun(t, k) = lun(s, i)
    BY <1>6, <1>8, <1>10
  <2>2. \A i \in TargetTable(s, D) : \E k \in TargetTable(t, D) : lun(t, k) = lun(s, i)
    BY <1>2, <1>6, <1>8, <1>10
  <2> QED
    BY <2>1, <2>2
<1>12. UNION {who(t, k) : k \in {j \in TargetTable(t, D) : t[j].lun = 0}}
       = UNION {who(s, i) : i \in {j \in TargetTable(s, D) : s[j].lun = 0}}
  <2>1. \A k \in TargetTable(t, D) : t[k].lun = 0 =>
           \E i \in TargetTable(s, D) : s[i].lun = 0 /\ who(t, k) = who(s, i)
    BY <1>2, <1>6, <1>9, <1>10
  <2>2. \A i \in TargetTable(s, D) : s[i].lun = 0 =>
           \E k \in TargetTable(t, D) : t[k].lun = 0 /\ who(t, k) = who(s, i)
    BY <1>2, <1>6, <1>9, <1>10
  <2> QED
    BY <2>1, <2>2
<1>13. dump(t, D) = dump(s, D)
  BY <1>11, <1>12 DEF dump, lun, who
<1> QED
  BY <1>4, <1>5, <1>13 DEF S, T
=============================================================================
