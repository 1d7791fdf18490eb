----------------------------- MODULE RaidProofs -----------------------------
(***************************************************************************)
(* What module Raid keeps true for any number of drives and arrays, and    *)
(* whichever commands fail: first for any number of administrators on      *)
(* stale pages, then what holds with one administrator only.               *)
(***************************************************************************)
EXTENDS Raid, FiniteSetTheorems, WellFoundedInduction, TLAPS

-----------------------------------------------------------------------------
(***************************************************************************)
(* The loop of Flashcache.assemble                                         *)
(***************************************************************************)

\* A set that has 0 and with every number the next has them all, up to n:
\* the least number it lacks would have a predecessor.
LEMMA UpTo ==
    ASSUME NEW n \in Nat, NEW S, 0 \in S, \A k \in 0..n : k \in S /\ k # n => k + 1 \in S
    PROVE  0..n \subseteq S
<1> DEFINE T == {k \in 0..n : k \notin S}
<1> SUFFICES ASSUME T # {} PROVE FALSE
  OBVIOUS
<1>1. T \subseteq Nat
  OBVIOUS
<1>2. PICK x \in T : \A y \in T : ~(<<y, x>> \in OpToRel(<, Nat))
  <2> HIDE DEF T
  <2> QED
    BY <1>1, NatLessThanWellFounded, WFMin
<1>3. \A y \in T : ~(y < x)
  BY <1>1, <1>2 DEF OpToRel
<1>4. x # 0 /\ x \in 0..n /\ x - 1 \in 0..n /\ x - 1 < x
  OBVIOUS
<1>5. x - 1 \in S
  BY <1>3, <1>4
<1>6. x - 1 + 1 \in S /\ x - 1 + 1 = x
  BY <1>4, <1>5
<1> QED
  BY <1>6

\* The state of the loop before the first drive.
Started == [cache |-> [i \in Ids |-> Nothing], going |-> TRUE]

\* The loop runs: after no drive its state is the start, after k drives
\* what the k-th makes of it, and its result is the caches at the end.
LEMMA LoopRuns ==
    ASSUME NEW m, NEW order, Len(order) \in Nat
    PROVE  \E after : /\ after[0] = Started
                      /\ \A k \in 1..Len(order) : after[k] = Assembled(m, after[k - 1], order[k])
                      /\ AssembleLoop(m, order) = after[Len(order)].cache
<1> DEFINE n == Len(order)
           Step(f, k) == IF k = 0 THEN Started ELSE Assembled(m, f[k - 1], order[k])
           Runs(f, j) == f = [k \in 0..j |-> Step(f, k)]
           S == {j \in 0..n : \E f : Runs(f, j)}
           after == CHOOSE f : Runs(f, n)
<1>0. n \in Nat
  OBVIOUS
<1> HIDE DEF n
<1>1. 0 \in S
  <2> DEFINE f == [k \in 0..0 |-> Started]
  <2>1. Runs(f, 0)
    <3>1. \A k \in 0..0 : Step(f, k) = Started
      OBVIOUS
    <3> QED
      BY <3>1
  <2> HIDE DEF f, Runs
  <2> QED
    BY <1>0, <2>1
<1>2. ASSUME NEW j \in 0..n, j \in S, j # n
      PROVE  j + 1 \in S
  <2>1. PICK f : Runs(f, j)
    BY <1>2
  <2> DEFINE g == [k \in 0..(j + 1) |-> IF k = j + 1 THEN Assembled(m, f[j], order[j + 1]) ELSE f[k]]
  <2>2. ASSUME NEW k \in 0..(j + 1) PROVE g[k] = Step(g, k)
    <3>1. CASE k = j + 1
      <4>1. k # 0 /\ k - 1 = j /\ j \in 0..(j + 1) /\ j # j + 1
        BY <1>0, <3>1
      <4>2. g[k - 1] = f[j]
        BY <4>1
      <4> QED
        BY <3>1, <4>1, <4>2
    <3>2. CASE k # j + 1
      <4>1. k \in 0..j
        BY <1>0, <3>2
      <4>2. f[k] = Step(f, k)
        BY <2>1, <4>1
      <4>3. k # 0 => g[k - 1] = f[k - 1]
        BY <1>0, <4>1
      <4> QED
        BY <3>2, <4>2, <4>3
    <3> QED
      BY <3>1, <3>2
  <2>3. Runs(g, j + 1)
    <3> HIDE DEF Step
    <3> QED
      BY <2>2
  <2>4. j + 1 \in 0..n
    BY <1>0, <1>2
  <2> QED
    BY <2>3, <2>4
<1>3. n \in S
  <2> HIDE DEF S
  <2>1. 0..n \subseteq S
    BY <1>0, <1>1, <1>2, UpTo
  <2> QED
    BY <1>0, <2>1
<1>4. Runs(after, n)
  <2>1. \E f : Runs(f, n)
    BY <1>3
  <2> HIDE DEF Runs
  <2> QED
    BY <2>1
<1>5. AssembleLoop(m, order) = after[n].cache
  BY DEF AssembleLoop, n, Started
<1> HIDE DEF after
<1>6. \A k \in 0..n : after[k] = Step(after, k)
  <2> HIDE DEF Step
  <2> QED
    BY <1>4
<1>7. after[0] = Started /\ \A k \in 1..n : after[k] = Assembled(m, after[k - 1], order[k])
  BY <1>0, <1>6
<1> QED
  BY <1>5, <1>7 DEF n

-----------------------------------------------------------------------------
\* The drives Flashcache.assemble visits, and the array it finds for one.
Found(m) == {d \in Drives : meta[d] # Nothing /\ \E j \in Existing(m) : m[j].uuid = meta[d].uuid}

Owner(m, d) == CHOOSE j \in Existing(m) : m[j].uuid = meta[d].uuid

\* The caches c are as the metadata on their drives says.
AsWritten(m, c) ==
    /\ c \in [Ids -> Map \cup {Nothing}]
    /\ \A i \in Ids : c[i] # Nothing =>
          /\ c[i].drive \in Found(m) \cap Unassigned(m)
          /\ i = Owner(m, c[i].drive)
          /\ c[i].mode = meta[c[i].drive].mode
          /\ c[i].mode = "WRITE_BACK" => sb[c[i].drive] = meta[c[i].drive].uuid

LoopState == [cache: [Ids -> Map \cup {Nothing}], going: BOOLEAN]

\* The array that is found for a drive has the identity in its metadata.
LEMMA OwnerFound ==
    ASSUME NEW m, NEW d \in Found(m)
    PROVE  /\ Owner(m, d) \in Existing(m) /\ Owner(m, d) \in Ids
           /\ m[Owner(m, d)].uuid = meta[d].uuid /\ meta[d] # Nothing /\ d \in Drives
<1>1. \E j \in Existing(m) : m[j].uuid = meta[d].uuid
  BY DEF Found
<1>2. Owner(m, d) \in Existing(m) /\ m[Owner(m, d)].uuid = meta[d].uuid
  BY <1>1 DEF Owner
<1> QED
  BY <1>2 DEF Found, Existing

\* One drive: its cache is bound as its metadata says, or nothing is.
LEMMA AssembledOne ==
    ASSUME RaidTypeOK, NEW m, NEW st \in LoopState, NEW d \in Found(m)
    PROVE  LET st2 == Assembled(m, st, d)
               i == Owner(m, d)
           IN  /\ st2 \in LoopState
               /\ st2.cache = st.cache
                  \/ /\ st.cache[i] = Nothing /\ d \in Unassigned(m)
                     /\ st2.cache = [st.cache EXCEPT ![i] = [drive |-> d, mode |-> meta[d].mode]]
                     /\ meta[d].mode = "WRITE_BACK" => sb[d] = meta[d].uuid
               /\ st.going /\ st.cache[i] = Nothing /\ d \in Unassigned(m)
                     /\ (meta[d].mode = "WRITE_BACK" => sb[d] = meta[d].uuid)
                  => /\ st2.going
                     /\ st2.cache = [st.cache EXCEPT ![i] = [drive |-> d, mode |-> meta[d].mode]]
               /\ meta[d].mode = "WRITE_BACK" /\ sb[d] # meta[d].uuid => st2 = st
<1> DEFINE i == Owner(m, d)
           possible == st.cache[i] = Nothing /\ d \in Unassigned(m)
           new == [st.cache EXCEPT ![i] = [drive |-> d, mode |-> meta[d].mode]]
           bound == [st EXCEPT !.cache = new]
           stopped == [st EXCEPT !.going = FALSE]
<1>1. Assembled(m, st, d) = IF ~st.going THEN st
        ELSE IF meta[d].mode = "WRITE_BACK"
        THEN IF possible /\ sb[d] = meta[d].uuid THEN bound ELSE st
        ELSE IF possible THEN bound ELSE stopped
  BY DEF Assembled, Owner
<1>2. i \in Ids /\ d \in Drives /\ meta[d] \in Meta
  BY OwnerFound DEF RaidTypeOK
<1>3. new \in [Ids -> Map \cup {Nothing}]
  BY <1>2 DEF LoopState, Map, Meta
<1> HIDE DEF new, i
<1>4. bound \in LoopState /\ bound.cache = new /\ bound.going = st.going
  BY <1>3 DEF LoopState
<1>5. stopped \in LoopState /\ stopped.cache = st.cache
  BY DEF LoopState
<1> HIDE DEF bound, stopped
<1> QED
  BY <1>1, <1>4, <1>5 DEF new, i

\* The order the drives are visited in has each once.
LEMMA OrderProperty ==
    ASSUME NEW m, NEW order \in SetToSeqs(Found(m))
    PROVE  /\ Len(order) \in Nat
           /\ \A k \in 1..Len(order) : order[k] \in Found(m)
           /\ \A k, l \in 1..Len(order) : order[k] = order[l] => k = l
           /\ \A d \in Found(m) : \E k \in 1..Len(order) : order[k] = d
<1> DEFINE N == Cardinality(Found(m))
<1>1. IsFiniteSet(Found(m)) /\ N \in Nat
  <2>1. Found(m) \subseteq Drives
    BY DEF Found
  <2> QED
    BY <2>1, IdsAssumption, FS_Subset, FS_CardinalityType
<1>2. order \in [1..N -> Found(m)] /\ \A k, l \in 1..N : order[k] = order[l] => k = l
  BY DEF SetToSeqs
<1> HIDE DEF N
<1>3. Len(order) = N
  BY <1>1, <1>2
<1>4. order \in Surjection(1..N, Found(m))
  <2>1. order \in Injection(1..N, Found(m))
    BY <1>2 DEF Injection, IsInjective
  <2>2. IsFiniteSet(1..N) /\ Cardinality(1..N) = Cardinality(Found(m))
    BY <1>1, FS_Interval DEF N
  <2> QED
    BY <1>1, <2>1, <2>2, FS_Injection
<1> QED
  BY <1>1, <1>2, <1>3, <1>4 DEF Surjection

\* Every cache there is after the loop is as the metadata on its drive says.
LEMMA AssembliesAsWritten ==
    ASSUME RaidTypeOK, NEW m, NEW c \in Assemblies(m)
    PROVE  AsWritten(m, c)
<1>1. PICK order \in SetToSeqs(Found(m)) : c = AssembleLoop(m, order)
  BY DEF Assemblies, Found
<1> DEFINE n == Len(order)
<1>2. n \in Nat /\ \A k \in 1..n : order[k] \in Found(m)
  BY OrderProperty
<1>3. PICK after : /\ after[0] = Started
                   /\ \A k \in 1..n : after[k] = Assembled(m, after[k - 1], order[k])
                   /\ c = after[n].cache
  BY <1>1, <1>2, LoopRuns
<1> DEFINE S == {k \in 0..n : after[k] \in LoopState /\ AsWritten(m, after[k].cache)}
<1> HIDE DEF n
<1>4. 0 \in S
  <2>1. Started \in LoopState /\ Started.cache = [i \in Ids |-> Nothing]
    BY DEF Started, LoopState
  <2>2. AsWritten(m, [i \in Ids |-> Nothing])
    BY DEF AsWritten
  <2> QED
    BY <1>2, <1>3, <2>1, <2>2
<1>5. ASSUME NEW k \in 0..n, k \in S, k # n
      PROVE  k + 1 \in S
  <2> DEFINE st == after[k]
             d == order[k + 1]
             i == Owner(m, d)
             st2 == after[k + 1]
  <2>1. k + 1 \in 1..n /\ k + 1 \in 0..n /\ k + 1 - 1 = k
    BY <1>2, <1>5
  <2>2. st \in LoopState /\ AsWritten(m, st.cache) /\ d \in Found(m) /\ st2 = Assembled(m, st, d)
    BY <1>2, <1>3, <1>5, <2>1
  <2>3. i \in Ids /\ meta[d] \in Meta
    BY <2>2, OwnerFound DEF RaidTypeOK
  <2> HIDE DEF st, d, st2
  <2>4. /\ st2 \in LoopState
        /\ st2.cache = st.cache
           \/ /\ st.cache[i] = Nothing /\ d \in Unassigned(m)
              /\ st2.cache = [st.cache EXCEPT ![i] = [drive |-> d, mode |-> meta[d].mode]]
              /\ meta[d].mode = "WRITE_BACK" => sb[d] = meta[d].uuid
    BY <2>2, AssembledOne
  <2> HIDE DEF i
  <2>5. AsWritten(m, st2.cache)
    <3> SUFFICES ASSUME st2.cache = [st.cache EXCEPT ![i] = [drive |-> d, mode |-> meta[d].mode]],
                        d \in Unassigned(m),
                        meta[d].mode = "WRITE_BACK" => sb[d] = meta[d].uuid
                 PROVE  AsWritten(m, st2.cache)
      BY <2>2, <2>4
    <3>1. st2.cache \in [Ids -> Map \cup {Nothing}] /\ st.cache \in [Ids -> Map \cup {Nothing}]
      BY <2>2, <2>4 DEF LoopState
    <3> QED
      BY <2>2, <2>3, <3>1 DEF AsWritten, i
  <2> QED
    BY <2>1, <2>4, <2>5 DEF st2
<1>6. n \in S
  <2> HIDE DEF S
  <2>1. 0..n \subseteq S
    BY <1>2, <1>4, <1>5, UpTo
  <2> QED
    BY <1>2, <2>1
<1> QED
  BY <1>3, <1>6

-----------------------------------------------------------------------------
(***************************************************************************)
(* Types and roles, with any number of administrators                      *)
(***************************************************************************)

\* A drive of an array has one role in it.
Apart(a) ==
    /\ a.in_sync \cap a.spare = {} /\ a.in_sync \cap a.faulty = {} /\ a.spare \cap a.faulty = {}

\* Arrays share no drives, caches are on drives no array has, and no two
\* caches on one drive.
Separate ==
    /\ \A i \in Logicals : Apart(md[i])
    /\ \A i, j \in Logicals : i # j => Slaves(md[i]) \cap Slaves(md[j]) = {}
    /\ \A i \in Cached : cache[i].drive \in Unassigned(md)
    /\ \A i, j \in Cached : cache[i].drive = cache[j].drive => i = j

RInv == RaidTypeOK /\ Separate

\* What array i has of drives.
Held(i) == IF md[i] = Nothing THEN {} ELSE Slaves(md[i])

\* A drive is unused if no array and no cache has it.
LEMMA FreeMeans ==
    ASSUME NEW d \in Unused
    PROVE  /\ d \in Drives /\ \A j \in Logicals : d \notin Slaves(md[j])
           /\ \A j \in Cached : cache[j].drive # d
BY DEF Unused, Unassigned, Logicals

\* The page offers just the drives that are unused.
LEMMA FreeUnused == Free = Unused
BY DEF Free, Unused

\* Arrays that only lose drives or take free ones, and caches that only go,
\* stay separate.
LEMMA SeparateStays ==
    ASSUME RInv, NEW i \in Ids,
           \A j \in Ids : md'[j] # Nothing =>
              /\ Apart(md'[j])
              /\ Slaves(md'[j]) \subseteq Held(j) \cup (IF j = i THEN Unused ELSE {}),
           \A j \in Ids : cache'[j] = Nothing \/ cache'[j] = cache[j]
    PROVE  Separate'
<1>1. \A j \in Ids, d \in Drives : md'[j] # Nothing /\ d \in Slaves(md'[j]) =>
         (md[j] # Nothing /\ d \in Slaves(md[j])) \/ (j = i /\ d \in Unused)
  BY DEF Held
<1>2. \A j \in Ids : md'[j] # Nothing => Slaves(md'[j]) \subseteq Drives
  <2>1. \A j \in Ids : Held(j) \subseteq Drives
    BY DEF RInv, RaidTypeOK, Held, Slaves, Array
  <2>2. Unused \subseteq Drives
    BY DEF Unused, Unassigned
  <2> QED
    BY <2>1, <2>2
<1>3. \A j \in Logicals' : Apart(md'[j])
  BY DEF Logicals, Existing
<1>4. ASSUME NEW j \in Logicals', NEW k \in Logicals', j # k
      PROVE  Slaves(md'[j]) \cap Slaves(md'[k]) = {}
  <2> SUFFICES ASSUME NEW d \in Drives, d \in Slaves(md'[j]), d \in Slaves(md'[k])
               PROVE  FALSE
    BY <1>2, <1>4 DEF Logicals, Existing
  <2>1. j \in Ids /\ k \in Ids /\ md'[j] # Nothing /\ md'[k] # Nothing
    BY DEF Logicals, Existing
  <2>2. \A l \in {j, k} : (l \in Logicals /\ d \in Slaves(md[l])) \/ (l = i /\ d \in Unused)
    BY <1>1, <2>1 DEF Logicals, Existing
  <2> QED
    BY <1>4, <2>2, FreeMeans DEF RInv, Separate
<1>5. ASSUME NEW j \in Cached'
      PROVE  /\ j \in Cached /\ cache'[j] = cache[j] /\ cache'[j].drive \in Unassigned(md')
  <2>1. j \in Cached /\ cache'[j] = cache[j]
    BY DEF Cached, Existing
  <2>2. cache[j].drive \in Drives /\ \A k \in Logicals : cache[j].drive \notin Slaves(md[k])
    BY <2>1 DEF RInv, Separate, Unassigned, Logicals
  <2>3. \A k \in Existing(md') : cache[j].drive \notin Slaves(md'[k])
    <3> SUFFICES ASSUME NEW k \in Existing(md'), cache[j].drive \in Slaves(md'[k])
                 PROVE  FALSE
      OBVIOUS
    <3>1. k \in Ids /\ md'[k] # Nothing
      BY DEF Existing
    <3>2. cache[j].drive \in Unused
      BY <1>1, <2>2, <3>1 DEF Logicals, Existing
    <3> QED
      BY <2>1, <3>2, FreeMeans
  <2> QED
    BY <2>1, <2>2, <2>3 DEF Unassigned
<1>6. \A j, k \in Cached' : cache'[j].drive = cache'[k].drive => j = k
  BY <1>5 DEF RInv, Separate
<1> QED
  BY <1>3, <1>4, <1>5, <1>6 DEF Separate

\* Nothing is changed but pages.
LEMMA SeparateSame ==
    ASSUME RInv, md' = md, cache' = cache
    PROVE  Separate'
BY DEF RInv, Separate, Logicals, Cached

\* Some array's drives are changed, and nothing else.
LEMMA ArrayChanges ==
    ASSUME RInv, NEW i \in Ids, NEW a \in Array, Apart(a),
           Slaves(a) \subseteq Held(i) \cup Unused,
           md' = [md EXCEPT ![i] = a], cache' = cache
    PROVE  Separate' /\ md' \in [Ids -> Array \cup {Nothing}]
<1>1. md \in [Ids -> Array \cup {Nothing}]
  BY DEF RInv, RaidTypeOK
<1>2. md' \in [Ids -> Array \cup {Nothing}]
  BY <1>1
<1>3. ASSUME NEW j \in Ids, md'[j] # Nothing
      PROVE  Apart(md'[j]) /\ Slaves(md'[j]) \subseteq Held(j) \cup (IF j = i THEN Unused ELSE {})
  <2>1. CASE j = i
    BY <1>1, <2>1
  <2>2. CASE j # i
    BY <1>1, <1>3, <2>2 DEF RInv, Separate, Held, Logicals, Existing
  <2> QED
    BY <2>1, <2>2
<1>4. Separate'
  BY <1>3, SeparateStays
<1> QED
  BY <1>2, <1>4

-----------------------------------------------------------------------------
\* No array and no cache there is at first.
LEMMA InitRInv == Init => RInv
BY DEF Init, RInv, RaidTypeOK, Separate, Logicals, Cached, Existing

\* A page is made of numbers of arrays and of drives.
LEMMA RenderedType ==
    ASSUME RaidTypeOK
    PROVE  Rendered \in Page
<1>1. Logicals \subseteq Ids /\ Cached \subseteq Ids /\ Deletable \subseteq Ids /\ Cacheable \subseteq Ids
  BY DEF Logicals, Cached, Existing, Deletable, Cacheable
<1>2. Free \subseteq Drives
  BY DEF Free, Unassigned
<1>3. \A i \in Cached : cache[i].drive \in Drives
  BY DEF RaidTypeOK, Cached, Existing, Map
<1>4. UnbindableCaches \subseteq Drives
  BY <1>3 DEF UnbindableCaches
<1>5. \A i \in Logicals : md[i].spare \subseteq Drives /\ md[i].faulty \subseteq Drives
  BY DEF RaidTypeOK, Logicals, Existing, Array
<1> QED
  BY <1>1, <1>2, <1>4, <1>5 DEF Rendered, Page

\* A redirect.
LEMMA SubmittedType ==
    ASSUME RaidTypeOK, NEW b \in Browsers, NEW failed \in BOOLEAN, Submitted(b, failed)
    PROVE  page' \in [Browsers -> Page \cup {NoPage, ErrorPage}]
BY DEF RaidTypeOK, Submitted

LEMMA RefuseCase ==
    ASSUME RInv, NEW b \in Browsers, Refuse(b)
    PROVE  RInv'
<1>1. page' \in [Browsers -> Page \cup {NoPage, ErrorPage}]
  BY SubmittedType DEF Refuse, RInv
<1>2. Separate'
  BY SeparateSame DEF Refuse
<1> QED
  BY <1>1, <1>2 DEF Refuse, RInv, RaidTypeOK

LEMMA PageLoadCase ==
    ASSUME RInv, NEW b \in Browsers, PageLoad(b)
    PROVE  RInv'
<1>1. page' \in [Browsers -> Page \cup {NoPage, ErrorPage}]
  BY RenderedType DEF PageLoad, RInv, RaidTypeOK
<1>2. Separate'
  BY SeparateSame DEF PageLoad
<1> QED
  BY <1>1, <1>2 DEF PageLoad, RInv, RaidTypeOK

\* The array of the drives ds.
LEMMA NewType ==
    ASSUME NEW u \in Uuids, NEW ds \in SUBSET Drives
    PROVE  New(u, ds) \in Array /\ Apart(New(u, ds)) /\ Slaves(New(u, ds)) = ds
<1>1. Cardinality(ds) \in Nat
  BY IdsAssumption, FS_Subset, FS_CardinalityType
<1> QED
  BY <1>1 DEF New, Array, Apart, Slaves

LEMMA AddCase ==
    ASSUME RInv, NEW b \in Browsers, NEW ds \in SUBSET Drives, einarc_logical_add(b, ds)
    PROVE  RInv'
<1>1. CASE Refuse(b)
  BY <1>1, RefuseCase
<1>2. CASE ~Refuse(b)
  <2>1. PICK i \in Ids \ Logicals, u \in FreshUuids :
           /\ ds \subseteq Unused
           /\ md' = [md EXCEPT ![i] = New(u, ds)]
           /\ \E wiped \in BOOLEAN :
                 /\ use' = [j \in Ids |-> IF wiped /\ (j = i \/ j \in Unprepared(page[b]))
                                          THEN "blank" ELSE use[j]]
                 /\ Submitted(b, ~wiped)
           /\ \E lost \in SUBSET ds :
                 meta' = [d \in Drives |-> IF d \in lost THEN Nothing ELSE meta[d]]
           /\ sb' = [d \in Drives |-> IF d \in ds THEN Nothing ELSE sb[d]]
           /\ cache' = cache
    BY <1>2 DEF einarc_logical_add
  <2>2. u \in Uuids
    BY DEF FreshUuids
  <2>3. Separate' /\ md' \in [Ids -> Array \cup {Nothing}]
    BY <2>1, <2>2, NewType, ArrayChanges
  <2>4. use' \in [Ids -> {"blank", "volumes", "exported"}]
    BY <2>1 DEF RInv, RaidTypeOK
  <2>5. page' \in [Browsers -> Page \cup {NoPage, ErrorPage}]
    BY <2>1, SubmittedType DEF RInv
  <2>6. meta' \in [Drives -> Meta \cup {Nothing}] /\ sb' \in [Drives -> Uuids \cup {Nothing}]
    BY <2>1 DEF RInv, RaidTypeOK
  <2> QED
    BY <2>1, <2>3, <2>4, <2>5, <2>6 DEF RInv, RaidTypeOK
<1> QED
  BY <1>1, <1>2

\* Unbinding takes caches away, and superblocks of their drives.
LEMMA UnbindingProperty ==
    ASSUME RInv, NEW ds, Unbinding(ds)
    PROVE  /\ cache' \in [Ids -> Map \cup {Nothing}]
           /\ \A j \in Ids : cache'[j] = Nothing \/ cache'[j] = cache[j]
           /\ \A j \in Cached : cache[j].drive \notin ds => cache'[j] = cache[j]
           /\ sb' \in [Drives -> Uuids \cup {Nothing}]
           /\ \A d \in Drives :
                 sb'[d] = sb[d] \/ (sb'[d] = Nothing /\ d \in ds)
           /\ meta' = meta
<1> DEFINE bound == {i \in Cached : cache[i].drive \in ds}
<1>1. PICK stays \in SUBSET {i \in bound : use[i] # "blank"} :
         \E intact \in SUBSET {cache[i].drive : i \in stays} :
            /\ cache' = [i \in Ids |-> IF i \in bound \ stays THEN Nothing ELSE cache[i]]
            /\ sb' = [d \in Drives |-> IF d \notin intact /\ \E i \in bound : cache[i].drive = d
                                       THEN Nothing ELSE sb[d]]
            /\ UNCHANGED meta
  BY DEF Unbinding
<1>2. PICK intact \in SUBSET {cache[i].drive : i \in stays} :
            /\ cache' = [i \in Ids |-> IF i \in bound \ stays THEN Nothing ELSE cache[i]]
            /\ sb' = [d \in Drives |-> IF d \notin intact /\ \E i \in bound : cache[i].drive = d
                                       THEN Nothing ELSE sb[d]]
            /\ meta' = meta
  BY <1>1
<1>3. bound \subseteq Cached /\ Cached \subseteq Ids /\ \A i \in bound : cache[i].drive \in ds
  BY DEF Cached, Existing
<1> HIDE DEF bound
<1>4. cache' \in [Ids -> Map \cup {Nothing}] /\ sb' \in [Drives -> Uuids \cup {Nothing}]
  BY <1>2, <1>3 DEF RInv, RaidTypeOK
<1>5. \A d \in Drives : sb'[d] = sb[d] \/ (sb'[d] = Nothing /\ d \in ds)
  BY <1>2, <1>3
<1> QED
  BY <1>2, <1>3, <1>4, <1>5

LEMMA UnbindCase ==
    ASSUME RInv, NEW b \in Browsers, NEW d \in Drives, einarc_logical_flashcache_unbind(b, d)
    PROVE  RInv'
<1>1. /\ Unbinding({d}) /\ Submitted(b, FALSE) /\ md' = md /\ use' = use
  BY DEF einarc_logical_flashcache_unbind
<1>2. /\ cache' \in [Ids -> Map \cup {Nothing}]
      /\ \A j \in Ids : cache'[j] = Nothing \/ cache'[j] = cache[j]
      /\ sb' \in [Drives -> Uuids \cup {Nothing}] /\ meta' = meta
  BY <1>1, UnbindingProperty
<1>3. Separate'
  <2>1. ASSUME NEW i \in Cached', NEW j \in Cached'
        PROVE  /\ i \in Cached /\ j \in Cached /\ cache'[i] = cache[i] /\ cache'[j] = cache[j]
    BY <1>2 DEF Cached, Existing
  <2> QED
    BY <1>1, <2>1 DEF RInv, Separate, Logicals
<1>4. page' \in [Browsers -> Page \cup {NoPage, ErrorPage}]
  BY <1>1, SubmittedType DEF RInv
<1> QED
  BY <1>1, <1>2, <1>3, <1>4 DEF RInv, RaidTypeOK

LEMMA DeleteCase ==
    ASSUME RInv, NEW b \in Browsers, NEW i \in Ids, einarc_logical_delete(b, i)
    PROVE  RInv'
<1>1. CASE Refuse(b)
  BY <1>1, RefuseCase
<1>2. CASE ~Refuse(b)
  <2> DEFINE ds == {cache[j].drive : j \in Cached \cap {i}}
  <2>1. /\ use' = use \/ use' = [use EXCEPT ![i] = "blank"]
        /\ Unbinding(ds)
        /\ md' = md \/ md' = [md EXCEPT ![i] = Nothing]
        /\ \E failed \in BOOLEAN : Submitted(b, failed)
    BY <1>2 DEF einarc_logical_delete
  <2> HIDE DEF ds
  <2>2. /\ cache' \in [Ids -> Map \cup {Nothing}]
        /\ \A j \in Ids : cache'[j] = Nothing \/ cache'[j] = cache[j]
        /\ sb' \in [Drives -> Uuids \cup {Nothing}] /\ meta' = meta
    BY <2>1, UnbindingProperty
  <2>3. page' \in [Browsers -> Page \cup {NoPage, ErrorPage}]
    BY <2>1, SubmittedType DEF RInv
  <2>4. md' \in [Ids -> Array \cup {Nothing}] /\ \A j \in Ids : md'[j] = Nothing \/ md'[j] = md[j]
    BY <2>1 DEF RInv, RaidTypeOK
  <2>5. use' \in [Ids -> {"blank", "volumes", "exported"}]
    BY <2>1 DEF RInv, RaidTypeOK
  <2>6. Separate'
    <3>1. \A j \in Ids : md'[j] # Nothing =>
             /\ Apart(md'[j])
             /\ Slaves(md'[j]) \subseteq Held(j) \cup (IF j = i THEN Unused ELSE {})
      BY <2>4 DEF RInv, Separate, Held, Logicals, Existing
    <3> QED
      BY <2>2, <3>1, SeparateStays
  <2> QED
    BY <2>2, <2>3, <2>4, <2>5, <2>6 DEF RInv, RaidTypeOK
<1> QED
  BY <1>1, <1>2

\* A handler, or md, changes the drives of an array.
LEMMA OnlyArray ==
    ASSUME RInv, NEW i \in Ids, NEW a \in Array, Apart(a),
           Slaves(a) \subseteq Held(i) \cup Unused,
           md' = [md EXCEPT ![i] = a], UNCHANGED <<use, meta, sb, cache>>,
           page' \in [Browsers -> Page \cup {NoPage, ErrorPage}]
    PROVE  RInv'
<1>1. Separate' /\ md' \in [Ids -> Array \cup {Nothing}]
  BY ArrayChanges
<1> QED
  BY <1>1 DEF RInv, RaidTypeOK

\* An array there is.
LEMMA ArrayThere ==
    ASSUME RInv, NEW i \in Ids, md[i] # Nothing
    PROVE  /\ md[i] \in Array /\ Apart(md[i]) /\ Held(i) = Slaves(md[i])
           /\ md[i].in_sync \in SUBSET Drives /\ md[i].spare \in SUBSET Drives
           /\ md[i].faulty \in SUBSET Drives /\ md[i].raid_disks \in Nat
<1>1. md[i] \in Array
  BY DEF RInv, RaidTypeOK
<1>2. Apart(md[i])
  BY DEF RInv, Separate, Logicals, Existing
<1> QED
  BY <1>1, <1>2 DEF Held, Array

LEMMA HotspareAddCase ==
    ASSUME RInv, NEW b \in Browsers, NEW d \in Drives, NEW i \in Ids,
           einarc_logical_hotspare_add(b, d, i)
    PROVE  RInv'
<1>1. CASE Refuse(b)
  BY <1>1, RefuseCase
<1>2. CASE ~Refuse(b)
  <2> DEFINE a == [md[i] EXCEPT !.spare = @ \cup {d}]
  <2>1. /\ md[i] # Nothing /\ d \in Unused /\ md' = [md EXCEPT ![i] = a]
        /\ Submitted(b, FALSE) /\ UNCHANGED <<use, meta, sb, cache>>
    BY <1>2 DEF einarc_logical_hotspare_add
  <2>2. md[i] \in Array /\ Apart(md[i]) /\ Held(i) = Slaves(md[i]) /\ d \notin Slaves(md[i])
    BY <2>1, ArrayThere, FreeMeans DEF Logicals, Existing
  <2>3. a \in Array /\ Apart(a) /\ Slaves(a) \subseteq Held(i) \cup Unused
    BY <2>1, <2>2 DEF Array, Apart, Slaves
  <2>4. page' \in [Browsers -> Page \cup {NoPage, ErrorPage}]
    BY <2>1, SubmittedType DEF RInv
  <2> QED
    BY <2>1, <2>3, <2>4, OnlyArray
<1> QED
  BY <1>1, <1>2

LEMMA DetachCase ==
    ASSUME RInv, NEW b \in Browsers, NEW d \in Drives, NEW i \in Ids, detach(b, d, i)
    PROVE  RInv'
<1>1. CASE Refuse(b)
  BY <1>1, RefuseCase
<1>2. CASE ~Refuse(b)
  <2> DEFINE a == [md[i] EXCEPT !.spare = @ \ {d}, !.faulty = @ \ {d}]
  <2>1. /\ md[i] # Nothing
        /\ Submitted(b, FALSE) /\ UNCHANGED <<use, meta, sb, cache>>
    BY <1>2 DEF detach, Removable
  <2>2. md[i] \in Array /\ Apart(md[i]) /\ Held(i) = Slaves(md[i])
    BY <2>1, ArrayThere
  <2>3. md' = [md EXCEPT ![i] = a]
    BY <1>2, <2>2 DEF detach, RInv, RaidTypeOK
  <2>4. a \in Array /\ Apart(a) /\ Slaves(a) \subseteq Held(i) \cup Unused
    BY <2>2 DEF Array, Apart, Slaves
  <2>5. page' \in [Browsers -> Page \cup {NoPage, ErrorPage}]
    BY <2>1, SubmittedType DEF RInv
  <2> QED
    BY <2>1, <2>3, <2>4, <2>5, OnlyArray
<1> QED
  BY <1>1, <1>2

LEMMA FailsCase ==
    ASSUME RInv, NEW i \in Ids, NEW d \in Drives, DriveFails(i, d)
    PROVE  RInv'
<1> DEFINE a == [md[i] EXCEPT !.in_sync = @ \ {d}, !.faulty = @ \cup {d}]
<1>1. md[i] # Nothing /\ d \in md[i].in_sync /\ UNCHANGED <<use, meta, sb, cache, page>>
  BY DEF DriveFails
<1>2. md[i] \in Array /\ Apart(md[i]) /\ Held(i) = Slaves(md[i])
  BY <1>1, ArrayThere
<1>3. md' = [md EXCEPT ![i] = a]
  BY <1>2 DEF DriveFails, RInv, RaidTypeOK
<1>4. a \in Array /\ Apart(a) /\ Slaves(a) \subseteq Held(i) \cup Unused
  BY <1>1, <1>2 DEF Array, Apart, Slaves
<1>5. page' \in [Browsers -> Page \cup {NoPage, ErrorPage}]
  BY <1>1 DEF RInv, RaidTypeOK
<1> QED
  BY <1>1, <1>3, <1>4, <1>5, OnlyArray

LEMMA RebuiltCase ==
    ASSUME RInv, NEW i \in Ids, NEW d \in Drives, Rebuilt(i, d)
    PROVE  RInv'
<1> DEFINE a == [md[i] EXCEPT !.in_sync = @ \cup {d}, !.spare = @ \ {d}]
<1>1. md[i] # Nothing /\ d \in md[i].spare /\ UNCHANGED <<use, meta, sb, cache, page>>
  BY DEF Rebuilt
<1>2. md[i] \in Array /\ Apart(md[i]) /\ Held(i) = Slaves(md[i])
  BY <1>1, ArrayThere
<1>3. md' = [md EXCEPT ![i] = a]
  BY <1>2 DEF Rebuilt, RInv, RaidTypeOK
<1>4. a \in Array /\ Apart(a) /\ Slaves(a) \subseteq Held(i) \cup Unused
  BY <1>1, <1>2 DEF Array, Apart, Slaves
<1>5. page' \in [Browsers -> Page \cup {NoPage, ErrorPage}]
  BY <1>1 DEF RInv, RaidTypeOK
<1> QED
  BY <1>1, <1>3, <1>4, <1>5, OnlyArray

LEMMA ReplacedCase ==
    ASSUME RInv, NEW i \in Ids, NEW d \in Drives, DriveReplaced(i, d)
    PROVE  RInv'
<1> DEFINE a == [md[i] EXCEPT !.in_sync = @ \ {d}, !.spare = @ \ {d}, !.faulty = @ \ {d}]
<1>1. /\ md[i] # Nothing /\ UNCHANGED <<use, cache, page>>
      /\ meta' = [meta EXCEPT ![d] = Nothing] /\ sb' = [sb EXCEPT ![d] = Nothing]
  BY DEF DriveReplaced
<1>2. md[i] \in Array /\ Apart(md[i]) /\ Held(i) = Slaves(md[i])
  BY <1>1, ArrayThere
<1>3. md' = [md EXCEPT ![i] = a]
  BY <1>2 DEF DriveReplaced, RInv, RaidTypeOK
<1>4. a \in Array /\ Apart(a) /\ Slaves(a) \subseteq Held(i) \cup Unused
  BY <1>2 DEF Array, Apart, Slaves
<1>5. Separate' /\ md' \in [Ids -> Array \cup {Nothing}]
  BY <1>1, <1>3, <1>4, ArrayChanges
<1>6. meta' \in [Drives -> Meta \cup {Nothing}] /\ sb' \in [Drives -> Uuids \cup {Nothing}]
  BY <1>1 DEF RInv, RaidTypeOK
<1> QED
  BY <1>1, <1>5, <1>6 DEF RInv, RaidTypeOK

LEMMA VolumeRequestCase ==
    ASSUME RInv, NEW b \in Browsers, NEW i \in Ids, VolumeRequest(b, i)
    PROVE  RInv'
<1>1. PICK to \in {"blank", "volumes", "exported"} :
        /\ use' = [use EXCEPT ![i] = to]
        /\ Submitted(b, FALSE) /\ UNCHANGED <<md, meta, sb, cache>>
  BY DEF VolumeRequest, UseChanges
<1>2. page' \in [Browsers -> Page \cup {NoPage, ErrorPage}]
  BY <1>1, SubmittedType DEF RInv
<1>3. Separate'
  BY <1>1, SeparateSame
<1>4. use' \in [Ids -> {"blank", "volumes", "exported"}]
  BY <1>1 DEF RInv, RaidTypeOK
<1> QED
  BY <1>1, <1>2, <1>3, <1>4 DEF RInv, RaidTypeOK

-----------------------------------------------------------------------------
\* What mdadm --grow leaves has the drives it had.
LEMMA GrownType ==
    ASSUME NEW a \in Array, Apart(a), NEW ds \in SUBSET Drives, ds \subseteq a.spare,
           NEW n \in Int, NEW g \in Grown(a, ds, n)
    PROVE  g \in Array /\ Apart(g) /\ Slaves(g) = Slaves(a)
<1> DEFINE c == [a EXCEPT !.in_sync = @ \cup ds, !.spare = @ \ ds, !.raid_disks = n]
<1>1. g = a \/ (g = c /\ n > a.raid_disks)
  BY DEF Grown
<1>2. CASE g = c /\ n > a.raid_disks
  <2>1. n \in Nat
    BY <1>2 DEF Array
  <2>2. c \in Array
    BY <2>1 DEF Array
  <2>3. c.in_sync = a.in_sync \cup ds /\ c.spare = a.spare \ ds /\ c.faulty = a.faulty
    BY DEF Array
  <2> QED
    BY <1>2, <2>2, <2>3 DEF Apart, Slaves
<1> QED
  BY <1>1, <1>2

\* The hot spares that were taken out come back, or only some.
LEMMA RestoredType ==
    ASSUME NEW g \in Array, Apart(g), NEW rest \in SUBSET Drives, rest \cap Slaves(g) = {},
           NEW r \in Restored(g, rest)
    PROVE  /\ r[1] \in Array /\ Apart(r[1]) /\ Slaves(r[1]) \subseteq Slaves(g) \cup rest
           /\ r[2] \in BOOLEAN /\ r[1].uuid = g.uuid
           /\ ~r[2] => rest \subseteq r[1].spare
<1>1. PICK back \in SUBSET rest :
         /\ r[1] = [g EXCEPT !.spare = @ \cup back]
         /\ (r[2] = FALSE /\ back = rest) \/ r[2] = TRUE
  <2>1. CASE r = <<[g EXCEPT !.spare = @ \cup rest], FALSE>>
    BY <2>1
  <2>2. CASE \E back \in SUBSET rest : r = <<[g EXCEPT !.spare = @ \cup back], TRUE>>
    <3>1. PICK back \in SUBSET rest : r = <<[g EXCEPT !.spare = @ \cup back], TRUE>>
      BY <2>2
    <3>2. r[1] = [g EXCEPT !.spare = @ \cup back] /\ r[2] = TRUE
      BY <3>1
    <3> QED
      BY <3>2
  <2> QED
    BY <2>1, <2>2 DEF Restored
<1>2. r[1] \in Array
  BY <1>1 DEF Array
<1>3. /\ r[1].in_sync = g.in_sync /\ r[1].spare = g.spare \cup back /\ r[1].faulty = g.faulty
      /\ r[1].uuid = g.uuid
  BY <1>1 DEF Array
<1> QED
  BY <1>1, <1>2, <1>3 DEF Apart, Slaves

\* The number of drives mdadm is asked to grow an array to.
LEMMA CountsType ==
    ASSUME NEW a \in Array, NEW rest \in SUBSET Drives
    PROVE  PhysicalCount(a) - Cardinality(rest) \in Int
<1>1. Slaves(a) \subseteq Drives /\ a.raid_disks \in Nat
  BY DEF Array, Slaves
<1>2. Cardinality(Slaves(a)) \in Nat /\ Cardinality(rest) \in Nat
  BY <1>1, IdsAssumption, FS_Subset, FS_CardinalityType
<1>3. PhysicalCount(a) \in Nat
  BY <1>1, <1>2 DEF PhysicalCount
<1> QED
  BY <1>2, <1>3

\* Logical:grow ends in an array of the same drives or fewer; without an
\* error it has all the hot spares that were not selected.
LEMMA GrowOutcome ==
    ASSUME RInv, NEW b \in Browsers, NEW i \in Ids, NEW ds \in SUBSET Drives,
           einarc_logical_grow(b, i, ds), ~Refuse(b)
    PROVE  /\ md[i] # Nothing /\ UNCHANGED <<use, meta, sb, cache>>
           /\ \E a \in Array, failed \in BOOLEAN :
                 /\ Apart(a) /\ Slaves(a) \subseteq Slaves(md[i]) /\ a.uuid = md[i].uuid
                 /\ md' = [md EXCEPT ![i] = a] /\ Submitted(b, failed)
                 /\ ~failed => md[i].spare \ ds \subseteq a.spare
<1> DEFINE a == md[i]
           rest == a.spare \ ds
           a1 == [a EXCEPT !.spare = ds]
           n == PhysicalCount(a) - Cardinality(rest)
<1>1. /\ a # Nothing /\ ds \subseteq a.spare /\ UNCHANGED <<use, meta, sb, cache>>
      /\ \/ \E g \in Grown(a1, ds, n) : \E r \in Restored(g, rest) :
               md' = [md EXCEPT ![i] = r[1]] /\ Submitted(b, r[2])
         \/ /\ \E out \in SUBSET rest : md' = [md EXCEPT ![i] = [a EXCEPT !.spare = @ \ out]]
            /\ Submitted(b, TRUE)
  BY DEF einarc_logical_grow
<1>2. a \in Array /\ Apart(a) /\ a.spare \in SUBSET Drives /\ rest \in SUBSET Drives
  BY <1>1, ArrayThere
<1>3. CASE \E out \in SUBSET rest :
              md' = [md EXCEPT ![i] = [a EXCEPT !.spare = @ \ out]] /\ Submitted(b, TRUE)
  <2>1. PICK out \in SUBSET rest :
              md' = [md EXCEPT ![i] = [a EXCEPT !.spare = @ \ out]] /\ Submitted(b, TRUE)
    BY <1>3
  <2> DEFINE c == [a EXCEPT !.spare = @ \ out]
  <2>2. c \in Array /\ Apart(c) /\ Slaves(c) \subseteq Slaves(a) /\ c.uuid = a.uuid
    BY <1>2 DEF Array, Apart, Slaves
  <2> HIDE DEF c
  <2>3. md' = [md EXCEPT ![i] = c]
    BY <2>1 DEF c
  <2> QED
    BY <1>1, <2>1, <2>2, <2>3
<1>4. CASE \E g \in Grown(a1, ds, n) : \E r \in Restored(g, rest) :
              md' = [md EXCEPT ![i] = r[1]] /\ Submitted(b, r[2])
  <2>0. PICK g \in Grown(a1, ds, n) : \E r \in Restored(g, rest) :
              md' = [md EXCEPT ![i] = r[1]] /\ Submitted(b, r[2])
    BY <1>4
  <2>1. PICK r \in Restored(g, rest) :
              md' = [md EXCEPT ![i] = r[1]] /\ Submitted(b, r[2])
    BY <2>0
  <2>2. /\ a1 \in Array /\ Apart(a1) /\ a1.spare = ds /\ a1.uuid = a.uuid
        /\ Slaves(a1) \subseteq Slaves(a) /\ rest \cap Slaves(a1) = {}
    BY <1>1, <1>2 DEF Array, Apart, Slaves
  <2>3. n \in Int
    BY <1>2, CountsType
  <2>u. g.uuid = a1.uuid
    BY <2>2 DEF Grown, Array
  <2> HIDE DEF a1, n
  <2>4. g \in Array /\ Apart(g) /\ Slaves(g) = Slaves(a1)
    BY <2>2, <2>3, GrownType
  <2> HIDE DEF rest
  <2>5. /\ r[1] \in Array /\ Apart(r[1]) /\ Slaves(r[1]) \subseteq Slaves(g) \cup rest
        /\ r[2] \in BOOLEAN /\ r[1].uuid = g.uuid
        /\ ~r[2] => rest \subseteq r[1].spare
    BY <1>2, <2>2, <2>4, RestoredType
  <2>6. rest \subseteq Slaves(a)
    BY DEF rest, Slaves
  <2>7. Slaves(r[1]) \subseteq Slaves(a) /\ r[1].uuid = a.uuid
    BY <2>2, <2>u, <2>4, <2>5, <2>6
  <2> QED
    BY <1>1, <2>1, <2>5, <2>7 DEF rest
<1> QED
  BY <1>1, <1>3, <1>4

LEMMA GrowCase ==
    ASSUME RInv, NEW b \in Browsers, NEW i \in Ids, NEW ds \in SUBSET Drives,
           einarc_logical_grow(b, i, ds)
    PROVE  RInv'
<1>1. CASE Refuse(b)
  BY <1>1, RefuseCase
<1>2. CASE ~Refuse(b)
  <2>1. PICK a \in Array, failed \in BOOLEAN :
           /\ Apart(a) /\ Slaves(a) \subseteq Slaves(md[i])
           /\ md' = [md EXCEPT ![i] = a] /\ Submitted(b, failed)
    BY <1>2, GrowOutcome
  <2>2. md[i] # Nothing /\ UNCHANGED <<use, meta, sb, cache>>
    BY <1>2, GrowOutcome
  <2>3. page' \in [Browsers -> Page \cup {NoPage, ErrorPage}]
    BY <2>1, SubmittedType DEF RInv
  <2> QED
    BY <2>1, <2>2, <2>3, OnlyArray DEF Held
<1> QED
  BY <1>1, <1>2

LEMMA BindCase ==
    ASSUME RInv, NEW b \in Browsers, NEW d \in Drives, NEW i \in Ids, NEW m \in Modes,
           einarc_logical_flashcache_bind(b, d, i, m)
    PROVE  RInv'
<1>1. CASE md[i] = Nothing
  BY <1>1, RefuseCase DEF einarc_logical_flashcache_bind
<1>2. CASE md[i] # Nothing
  <2>1. /\ meta' = [meta EXCEPT ![d] = [uuid |-> md[i].uuid, mode |-> m]]
        /\ \/ /\ d \in Unused /\ cache[i] = Nothing
              /\ cache' = [cache EXCEPT ![i] = [drive |-> d, mode |-> m]]
           \/ cache' = cache
        /\ \E v \in {md[i].uuid, Nothing, sb[d]} : sb' = [sb EXCEPT ![d] = v]
        /\ \E failed \in BOOLEAN : Submitted(b, failed)
        /\ md' = md /\ use' = use
    BY <1>2 DEF einarc_logical_flashcache_bind
  <2>2. md[i].uuid \in Uuids
    BY <1>2 DEF RInv, RaidTypeOK, Array
  <2>3. meta' \in [Drives -> Meta \cup {Nothing}]
    BY <2>1, <2>2 DEF RInv, RaidTypeOK, Meta
  <2>4. sb' \in [Drives -> Uuids \cup {Nothing}]
    BY <2>1, <2>2 DEF RInv, RaidTypeOK
  <2>5. page' \in [Browsers -> Page \cup {NoPage, ErrorPage}]
    BY <2>1, SubmittedType DEF RInv
  <2>6. CASE cache' = cache
    BY <2>1, <2>3, <2>4, <2>5, <2>6, SeparateSame DEF RInv, RaidTypeOK
  <2>7. CASE /\ d \in Unused /\ cache[i] = Nothing
             /\ cache' = [cache EXCEPT ![i] = [drive |-> d, mode |-> m]]
    <3> DEFINE new == [drive |-> d, mode |-> m]
    <3>1. new \in Map /\ new.drive = d
      BY DEF Map
    <3> HIDE DEF new
    <3>2. cache' \in [Ids -> Map \cup {Nothing}] /\ cache'[i] = new
          /\ \A j \in Ids : j # i => cache'[j] = cache[j]
      BY <2>7, <3>1 DEF RInv, RaidTypeOK, new
    <3>3. d \in Unassigned(md) /\ \A j \in Cached : cache[j].drive # d
      BY <2>7, FreeMeans DEF Unused
    <3>4. \A j \in Cached' : j = i \/ (j \in Cached /\ cache'[j] = cache[j])
      BY <3>2 DEF Cached, Existing
    <3>5. Separate'
      BY <2>1, <3>1, <3>2, <3>3, <3>4 DEF RInv, Separate, Logicals
    <3> QED
      BY <2>1, <2>3, <2>4, <2>5, <3>2, <3>5 DEF RInv, RaidTypeOK
  <2> QED
    BY <2>1, <2>6, <2>7
<1> QED
  BY <1>1, <1>2

\* Arrays come up without their failed members, and the caches on drives no
\* array has, each on one of its own: the array is found by the drive.
LEMMA RebootCase ==
    ASSUME RInv, Reboot
    PROVE  RInv'
<1>1. /\ md' = [i \in Ids |-> IF md[i] = Nothing THEN Nothing ELSE [md[i] EXCEPT !.faulty = {}]]
      /\ cache' \in Assemblies(md') /\ use' = use /\ meta' = meta
      /\ page' = [b \in Browsers |-> NoPage]
  BY DEF Reboot
<1>2. \A i \in Ids : md[i] # Nothing => md[i] \in Array /\ Apart(md[i])
  BY ArrayThere
<1>3. ASSUME NEW i \in Ids, md'[i] # Nothing
      PROVE  md[i] # Nothing /\ md'[i] \in Array /\ Apart(md'[i]) /\ Slaves(md'[i]) \subseteq Slaves(md[i])
  <2>1. md[i] # Nothing /\ md'[i] = [md[i] EXCEPT !.faulty = {}]
    BY <1>1, <1>3
  <2>2. md[i] \in Array /\ Apart(md[i])
    BY <1>2, <2>1
  <2> QED
    BY <2>1, <2>2 DEF Array, Apart, Slaves
<1>4. md' \in [Ids -> Array \cup {Nothing}]
  <2>1. \A i \in Ids : md'[i] \in Array \cup {Nothing}
    BY <1>3
  <2> QED
    BY <1>1, <2>1
<1>5. AsWritten(md', cache')
  BY <1>1, AssembliesAsWritten DEF RInv
<1>6. /\ cache' \in [Ids -> Map \cup {Nothing}]
      /\ \A i \in Ids : cache'[i] # Nothing =>
            cache'[i].drive \in Unassigned(md') /\ i = Owner(md', cache'[i].drive)
  BY <1>5 DEF AsWritten
<1>7. Separate'
  <2>1. \A i \in Logicals' : i \in Ids /\ i \in Logicals /\ md'[i] # Nothing
    BY <1>3 DEF Logicals, Existing
  <2>2. \A i \in Cached' : i \in Ids /\ cache'[i] # Nothing
    BY DEF Cached, Existing
  <2>3. \A i, j \in Logicals' : i # j => Slaves(md'[i]) \cap Slaves(md'[j]) = {}
    <3> SUFFICES ASSUME NEW i \in Logicals', NEW j \in Logicals', i # j
                 PROVE  Slaves(md'[i]) \cap Slaves(md'[j]) = {}
      OBVIOUS
    <3>1. Slaves(md[i]) \cap Slaves(md[j]) = {}
      BY <2>1 DEF RInv, Separate
    <3> QED
      BY <1>3, <2>1, <3>1
  <2>4. \A i, j \in Cached' : cache'[i].drive = cache'[j].drive => i = j
    BY <1>6, <2>2
  <2> QED
    BY <1>3, <1>6, <2>1, <2>2, <2>3, <2>4 DEF Separate
<1>8. sb' \in [Drives -> Uuids \cup {Nothing}]
  <2>1. \E S : sb' = [d \in Drives |-> IF d \in S THEN Nothing ELSE sb[d]]
    BY DEF Reboot
  <2> QED
    BY <2>1 DEF RInv, RaidTypeOK
<1>9. page' \in [Browsers -> Page \cup {NoPage, ErrorPage}]
  BY <1>1
<1> QED
  BY <1>1, <1>4, <1>6, <1>7, <1>8, <1>9 DEF RInv, RaidTypeOK

\* Every step keeps types and roles.
LEMMA NextRInv == RInv /\ [Next]_vars => RInv'
<1> SUFFICES ASSUME RInv, [Next]_vars PROVE RInv'
  OBVIOUS
<1>1. CASE UNCHANGED vars
  <2>1. Separate'
    BY <1>1, SeparateSame DEF vars
  <2> QED
    BY <1>1, <2>1 DEF RInv, RaidTypeOK, vars
<1>2. CASE Surroundings
  BY <1>2, FailsCase, ReplacedCase, RebuiltCase, RebootCase DEF Surroundings
<1>3. ASSUME NEW b \in Browsers, Request(b) PROVE RInv'
  <2>1. CASE PageLoad(b)
    BY <2>1, PageLoadCase
  <2>2. ASSUME NEW ds \in SUBSET Drives, einarc_logical_add(b, ds) PROVE RInv'
    BY <2>2, AddCase
  <2>3. ASSUME NEW i \in Ids, einarc_logical_delete(b, i) PROVE RInv'
    BY <2>3, DeleteCase
  <2>4. ASSUME NEW i \in Ids, NEW ds \in SUBSET Drives, einarc_logical_grow(b, i, ds) PROVE RInv'
    BY <2>4, GrowCase
  <2>5. ASSUME NEW i \in Ids, VolumeRequest(b, i) PROVE RInv'
    BY <2>5, VolumeRequestCase
  <2>6. ASSUME NEW i \in Ids, NEW d \in Drives, einarc_logical_hotspare_add(b, d, i) PROVE RInv'
    BY <2>6, HotspareAddCase
  <2>7. ASSUME NEW i \in Ids, NEW d \in Drives,
               einarc_logical_hotspare_delete(b, d, i) \/ einarc_logical_physical_detach(b, d, i)
        PROVE  RInv'
    BY <2>7, DetachCase DEF einarc_logical_hotspare_delete, einarc_logical_physical_detach
  <2>8. ASSUME NEW i \in Ids, NEW d \in Drives, NEW m \in Modes,
               einarc_logical_flashcache_bind(b, d, i, m)
        PROVE  RInv'
    BY <2>8, BindCase
  <2>9. ASSUME NEW d \in Drives, einarc_logical_flashcache_unbind(b, d) PROVE RInv'
    BY <2>9, UnbindCase
  <2> QED
    BY <1>3, <2>1, <2>2, <2>3, <2>4, <2>5, <2>6, <2>7, <2>8, <2>9 DEF Request
<1> QED
  BY <1>1, <1>2, <1>3 DEF Next

\* The inductive invariant of arrays and caches holds whatever the
\* administrators do, on pages however old, and whichever commands fail.
THEOREM RaidInvariant == Spec => []RInv
<1> QED
  BY InitRInv, NextRInv, PTL DEF Spec

\* The state of the arrays, drives, caches and pages always has its type.
THEOREM RaidTypeCorrect == Spec => []RaidTypeOK
<1>1. RInv => RaidTypeOK
  BY DEF RInv
<1> QED
  BY <1>1, RaidInvariant, PTL

\* Logical:grow puts the hot spares it takes out back, unless it reports an
\* error.
THEOREM GrowthKeepsSpares == Spec => GrowKeepsSpares
<1> DEFINE Keeps == \A b \in Browsers, i \in Ids, ds \in SUBSET Drives :
              einarc_logical_grow(b, i, ds) /\ page'[b] # ErrorPage => md[i].spare \ ds \subseteq md'[i].spare
<1>1. RInv => Keeps
  <2> SUFFICES ASSUME RInv, NEW b \in Browsers, NEW i \in Ids, NEW ds \in SUBSET Drives,
                      einarc_logical_grow(b, i, ds), page'[b] # ErrorPage
               PROVE  md[i].spare \ ds \subseteq md'[i].spare
    OBVIOUS
  <2>1. b \in DOMAIN page /\ i \in DOMAIN md
    BY DEF RInv, RaidTypeOK
  <2>2. ~Refuse(b)
    BY <2>1 DEF Refuse, Submitted
  <2>3. PICK a \in Array, failed \in BOOLEAN :
           /\ md' = [md EXCEPT ![i] = a] /\ Submitted(b, failed)
           /\ ~failed => md[i].spare \ ds \subseteq a.spare
    BY <2>2, GrowOutcome
  <2>4. ~failed
    BY <2>1, <2>3 DEF Submitted
  <2> QED
    BY <2>1, <2>3, <2>4
<1>2. RInv => [Keeps]_vars
  BY <1>1
<1> HIDE DEF Keeps
<1>3. Spec => [][Keeps]_vars
  BY <1>2, RaidInvariant, PTL
<1> QED
  BY <1>3 DEF GrowKeepsSpares, Keeps

-----------------------------------------------------------------------------
(***************************************************************************)
(* With one administrator                                                  *)
(***************************************************************************)

OneBrowser == \A b, c \in Browsers : b = c

\* Volumes and caches are on arrays there are; no two have one identity.
Grounded ==
    /\ \A i \in Ids : md[i] = Nothing => use[i] = "blank" /\ cache[i] = Nothing
    /\ \A i, j \in Logicals : md[i].uuid = md[j].uuid => i = j

\* A cache's drive has its metadata, and a write-back cache its superblock,
\* unless it was to be unbound.
Recorded ==
    \A i \in Cached :
       /\ meta[cache[i].drive] # Nothing
       /\ meta[cache[i].drive].uuid = md[i].uuid /\ meta[cache[i].drive].mode = cache[i].mode
       /\ cache[i].mode = "WRITE_BACK" => sb[cache[i].drive] \in {md[i].uuid, Nothing}

\* A drive with the superblock of a write-back cache has such metadata too.
Marked == \A d \in Drives : sb[d] # Nothing => meta[d] # Nothing /\ meta[d].mode = "WRITE_BACK"

\* What a page shows is still so: while it is shown, only drives change.
Current ==
    \A b \in Browsers : Shown(b) =>
       /\ page[b].logicals = Logicals /\ page[b].cached = Cached /\ page[b].free \subseteq Unused
       /\ \A i \in page[b].deletable : use[i] = "blank"

OneInv == RInv /\ Grounded /\ Recorded /\ Marked /\ Current

\* After a request no page is shown.
LEMMA NoPageShown ==
    ASSUME OneBrowser, RaidTypeOK, NEW b \in Browsers, NEW failed \in BOOLEAN, Submitted(b, failed)
    PROVE  Current'
<1>1. \A c \in Browsers : c = b
  BY DEF OneBrowser
<1>2. page'[b] \in {NoPage, ErrorPage}
  BY DEF Submitted, RaidTypeOK
<1> QED
  BY <1>1, <1>2 DEF Current, Shown

\* Nothing a page or a cache depends on is changed.
LEMMA GroundedSame ==
    ASSUME OneInv, UNCHANGED <<md, use, meta, sb, cache>>
    PROVE  Grounded' /\ Recorded' /\ Marked'
BY DEF OneInv, Grounded, Recorded, Marked, Logicals, Cached

\* No superblock is written, and metadata changes only where there is none.
LEMMA MarkedStays ==
    ASSUME OneInv,
           \A d \in Drives : sb'[d] = Nothing \/ (sb'[d] = sb[d] /\ meta'[d] = meta[d])
    PROVE  Marked'
BY DEF OneInv, Marked

\* An array has other drives than before; caches have what they had.
LEMMA GroundedStays ==
    ASSUME OneInv, NEW i \in Ids, NEW a \in Array, md[i] # Nothing, a.uuid = md[i].uuid,
           md' = [md EXCEPT ![i] = a], UNCHANGED <<use, cache>>,
           \A j \in Cached : /\ meta'[cache[j].drive] = meta[cache[j].drive]
                             /\ sb'[cache[j].drive] = sb[cache[j].drive]
    PROVE  Grounded' /\ Recorded' /\ Logicals' = Logicals /\ Cached' = Cached
<1>1. md \in [Ids -> Array \cup {Nothing}] /\ a # Nothing
  BY NothingAssumption DEF OneInv, RInv, RaidTypeOK
<1>2. /\ \A j \in Ids : md'[j] = Nothing <=> md[j] = Nothing
      /\ \A j \in Ids : md'[j].uuid = md[j].uuid
  BY <1>1
<1>3. Logicals' = Logicals /\ Cached' = Cached
  BY <1>2 DEF Logicals, Cached, Existing
<1>4. Grounded'
  BY <1>2, <1>3 DEF OneInv, Grounded, Logicals, Existing
<1>5. Recorded'
  BY <1>2, <1>3 DEF OneInv, Recorded, Cached, Existing
<1> QED
  BY <1>3, <1>4, <1>5

\* Neither what there is nor the free drives get less while a page is shown.
LEMMA CurrentStays ==
    ASSUME OneInv, Logicals' = Logicals, Cached' = Cached, Unused \subseteq Unused', use' = use, page' = page
    PROVE  Current'
BY DEF OneInv, Current, Shown

\* A drive stays free if no array takes it.
LEMMA FreeStays ==
    ASSUME RInv, NEW i \in Ids, NEW a \in Array, md[i] # Nothing, Slaves(a) \subseteq Slaves(md[i]),
           md' = [md EXCEPT ![i] = a], cache' = cache
    PROVE  Unused \subseteq Unused'
<1>1. md \in [Ids -> Array \cup {Nothing}]
  BY DEF RInv, RaidTypeOK
<1>2. ASSUME NEW j \in Existing(md') PROVE j \in Existing(md) /\ Slaves(md'[j]) \subseteq Slaves(md[j])
  BY <1>1 DEF Existing
<1>3. Unassigned(md) \subseteq Unassigned(md')
  BY <1>2 DEF Unassigned
<1> QED
  BY <1>3 DEF Unused, Cached

LEMMA InitOneInv == Init => OneInv
<1> SUFFICES ASSUME Init PROVE OneInv
  OBVIOUS
<1>1. RInv
  BY InitRInv
<1> QED
  BY <1>1 DEF Init, OneInv, Grounded, Recorded, Marked, Current, Logicals, Cached, Existing, Shown

LEMMA RefuseOne ==
    ASSUME OneBrowser, OneInv, NEW b \in Browsers, Refuse(b)
    PROVE  OneInv'
<1>1. RInv'
  BY RefuseCase DEF OneInv
<1>2. Grounded' /\ Recorded' /\ Marked'
  BY GroundedSame DEF Refuse
<1>3. Current'
  BY NoPageShown DEF Refuse, OneInv, RInv
<1> QED
  BY <1>1, <1>2, <1>3 DEF OneInv

LEMMA PageLoadOne ==
    ASSUME OneBrowser, OneInv, NEW b \in Browsers, PageLoad(b)
    PROVE  OneInv'
<1>1. RInv'
  BY PageLoadCase DEF OneInv
<1>2. Grounded' /\ Recorded' /\ Marked'
  BY GroundedSame DEF PageLoad
<1>3. Current'
  <2>1. \A c \in Browsers : c = b
    BY DEF OneBrowser
  <2>2. page'[b] = Rendered
    BY DEF PageLoad, OneInv, RInv, RaidTypeOK
  <2>3. /\ page'[b].logicals = Logicals /\ page'[b].cached = Cached /\ page'[b].free = Unused
        /\ page'[b].deletable = Deletable
    BY <2>2, FreeUnused DEF Rendered
  <2>4. Logicals' = Logicals /\ Cached' = Cached /\ Unused' = Unused /\ use' = use
    BY DEF PageLoad, Logicals, Cached, Unused
  <2>5. \A i \in Deletable : use[i] = "blank"
    BY DEF Deletable
  <2> QED
    BY <2>1, <2>3, <2>4, <2>5 DEF Current
<1> QED
  BY <1>1, <1>2, <1>3 DEF OneInv

\* A new array is on free drives, which no cache is on, and the labels that
\* are wiped are of arrays there were not: the page is current.
LEMMA AddOne ==
    ASSUME OneBrowser, OneInv, NEW b \in Browsers, NEW ds \in SUBSET Drives, einarc_logical_add(b, ds)
    PROVE  OneInv' /\ \A j \in Ids : use[j] # "blank" => use'[j] # "blank"
<1>1. CASE Refuse(b)
  BY <1>1, RefuseOne DEF Refuse
<1>2. CASE ~Refuse(b)
  <2>1. PICK i \in Ids \ Logicals, u \in FreshUuids :
           /\ Shown(b) /\ ds \subseteq Unused
           /\ md' = [md EXCEPT ![i] = New(u, ds)]
           /\ \E wiped \in BOOLEAN :
                 /\ use' = [j \in Ids |-> IF wiped /\ (j = i \/ j \in Unprepared(page[b]))
                                          THEN "blank" ELSE use[j]]
                 /\ Submitted(b, ~wiped)
           /\ \E lost \in SUBSET ds :
                 meta' = [d \in Drives |-> IF d \in lost THEN Nothing ELSE meta[d]]
           /\ sb' = [d \in Drives |-> IF d \in ds THEN Nothing ELSE sb[d]]
           /\ cache' = cache
    BY <1>2 DEF einarc_logical_add
  <2>2. RInv'
    BY AddCase DEF OneInv
  <2>3. Current'
    BY <2>1, NoPageShown DEF OneInv, RInv
  <2>4. u \in Uuids /\ \A j \in Logicals : md[j].uuid # u
    BY DEF FreshUuids
  <2>5. md'[i] = New(u, ds) /\ md'[i].uuid = u /\ \A j \in Ids : j # i => md'[j] = md[j]
    <3>1. New(u, ds).uuid = u
      BY DEF New
    <3>2. md'[i] = New(u, ds) /\ \A j \in Ids : j # i => md'[j] = md[j]
      BY <2>1 DEF OneInv, RInv, RaidTypeOK
    <3> QED
      BY <3>1, <3>2
  <2>6. md'[i] # Nothing /\ md[i] = Nothing /\ cache[i] = Nothing /\ use[i] = "blank"
    BY <2>1, <2>4, <2>5, NewType, NothingAssumption DEF OneInv, Grounded, Logicals, Existing
  <2>7. \A j \in Unprepared(page[b]) : j \in Ids /\ md[j] = Nothing
    BY <2>1 DEF Unprepared, OneInv, Current, Logicals, Existing
  <2>8. \A j \in Ids : use'[j] = use[j]
    <3>1. \A j \in Ids : use'[j] = use[j] \/ (use'[j] = "blank" /\ md[j] = Nothing)
      BY <2>1, <2>6, <2>7
    <3> QED
      BY <3>1 DEF OneInv, Grounded
  <2>9. Grounded'
    <3>1. \A j \in Logicals' : j = i \/ (j \in Logicals /\ md'[j] = md[j])
      BY <2>5 DEF Logicals, Existing
    <3>2. \A j, k \in Logicals' : md'[j].uuid = md'[k].uuid => j = k
      BY <2>4, <2>5, <3>1 DEF OneInv, Grounded
    <3>3. \A j \in Ids : md'[j] = Nothing => use'[j] = "blank" /\ cache'[j] = Nothing
      BY <2>1, <2>5, <2>6, <2>8 DEF OneInv, Grounded
    <3> QED
      BY <3>2, <3>3 DEF Grounded
  <2>10. Recorded'
    <3> SUFFICES ASSUME NEW j \in Cached'
                 PROVE  /\ cache'[j] = cache[j] /\ j \in Cached /\ md'[j] = md[j]
                        /\ meta'[cache[j].drive] = meta[cache[j].drive]
                        /\ sb'[cache[j].drive] = sb[cache[j].drive]
      BY DEF OneInv, Recorded
    <3>1. j \in Cached /\ cache'[j] = cache[j] /\ j \in Ids
      BY <2>1 DEF Cached, Existing
    <3>2. j # i
      BY <2>6, <3>1 DEF Cached, Existing
    <3>3. cache[j].drive \in Drives /\ cache[j].drive \notin ds
      BY <2>1, <3>1, FreeMeans DEF OneInv, RInv, Separate, Unassigned
    <3> QED
      BY <2>1, <2>5, <3>1, <3>2, <3>3
  <2>11. Marked'
    <3>1. \A d \in Drives : sb'[d] = Nothing \/ (sb'[d] = sb[d] /\ meta'[d] = meta[d])
      BY <2>1
    <3> QED
      BY <3>1, MarkedStays
  <2> QED
    BY <2>2, <2>3, <2>8, <2>9, <2>10, <2>11 DEF OneInv
<1> QED
  BY <1>1, <1>2

\* Unbinding forgets no record but superblocks.
LEMMA UnbindingRecorded ==
    ASSUME OneInv, NEW ds, Unbinding(ds), \A j \in Cached' : md'[j] = md[j]
    PROVE  Recorded' /\ Marked'
<1>1. /\ \A j \in Ids : cache'[j] = Nothing \/ cache'[j] = cache[j]
      /\ \A d \in Drives : sb'[d] = sb[d] \/ sb'[d] = Nothing
      /\ meta' = meta
  BY UnbindingProperty DEF OneInv
<1>2. ASSUME NEW i \in Cached'
      PROVE  /\ i \in Cached /\ cache'[i] = cache[i]
             /\ sb'[cache[i].drive] \in {sb[cache[i].drive], Nothing}
  <2>1. i \in Cached /\ cache'[i] = cache[i]
    BY <1>1 DEF Cached, Existing
  <2>2. cache[i].drive \in Drives
    BY <2>1 DEF OneInv, RInv, Separate, Unassigned
  <2> QED
    BY <1>1, <2>1, <2>2
<1>3. Recorded'
  BY <1>1, <1>2 DEF OneInv, Recorded
<1>4. Marked'
  BY <1>1, MarkedStays
<1> QED
  BY <1>3, <1>4

LEMMA UnbindOne ==
    ASSUME OneBrowser, OneInv, NEW b \in Browsers, NEW d \in Drives, einarc_logical_flashcache_unbind(b, d)
    PROVE  OneInv'
<1>1. Unbinding({d}) /\ Submitted(b, FALSE) /\ md' = md /\ use' = use
  BY DEF einarc_logical_flashcache_unbind
<1>2. RInv'
  BY UnbindCase DEF OneInv
<1>3. Current'
  BY <1>1, NoPageShown DEF OneInv, RInv
<1>4. Recorded' /\ Marked'
  BY <1>1, UnbindingRecorded
<1>5. Grounded'
  <2>1. \A j \in Ids : cache'[j] = Nothing \/ cache'[j] = cache[j]
    BY <1>1, UnbindingProperty DEF OneInv
  <2> QED
    BY <1>1, <2>1 DEF OneInv, Grounded, Logicals
<1> QED
  BY <1>2, <1>3, <1>4, <1>5 DEF OneInv

\* The label that is wiped is of an array without volumes, as the page says.
LEMMA DeleteOne ==
    ASSUME OneBrowser, OneInv, NEW b \in Browsers, NEW i \in Ids, einarc_logical_delete(b, i)
    PROVE  OneInv' /\ \A j \in Ids : use[j] # "blank" => use'[j] # "blank"
<1>1. CASE Refuse(b)
  BY <1>1, RefuseOne DEF Refuse
<1>2. CASE ~Refuse(b)
  <2> DEFINE ds == {cache[j].drive : j \in Cached \cap {i}}
  <2>1. /\ Shown(b) /\ i \in page[b].deletable
        /\ use' = use \/ use' = [use EXCEPT ![i] = "blank"]
        /\ Unbinding(ds)
        /\ md' = md \/ (md' = [md EXCEPT ![i] = Nothing] /\ cache'[i] = Nothing)
        /\ \E failed \in BOOLEAN : Submitted(b, failed)
    BY <1>2 DEF einarc_logical_delete
  <2> HIDE DEF ds
  <2>2. RInv'
    BY DeleteCase DEF OneInv
  <2>3. Current'
    BY <2>1, NoPageShown DEF OneInv, RInv
  <2>4. use[i] = "blank"
    BY <2>1 DEF OneInv, Current
  <2>5. \A j \in Ids : use'[j] = use[j]
    BY <2>1, <2>4 DEF OneInv, RInv, RaidTypeOK
  <2>6. \A j \in Ids : cache'[j] = Nothing \/ cache'[j] = cache[j]
    BY <2>1, UnbindingProperty DEF OneInv
  <2>7. \A j \in Ids : md'[j] = md[j] \/ (j = i /\ md'[j] = Nothing /\ cache'[j] = Nothing)
    BY <2>1 DEF OneInv, RInv, RaidTypeOK
  <2>8. Recorded' /\ Marked'
    <3>1. \A j \in Cached' : md'[j] = md[j]
      BY <2>7 DEF Cached, Existing
    <3> QED
      BY <2>1, <3>1, UnbindingRecorded
  <2>9. Grounded'
    <3>1. \A j \in Logicals' : j \in Logicals /\ md'[j] = md[j]
      BY <2>7 DEF Logicals, Existing
    <3>2. \A j \in Ids : md'[j] = Nothing => use'[j] = "blank" /\ cache'[j] = Nothing
      BY <2>4, <2>5, <2>6, <2>7 DEF OneInv, Grounded
    <3> QED
      BY <3>1, <3>2 DEF OneInv, Grounded
  <2> QED
    BY <2>2, <2>3, <2>5, <2>8, <2>9 DEF OneInv
<1> QED
  BY <1>1, <1>2

\* The metadata is written on a drive that no cache is on: the page is
\* current.
LEMMA BindOne ==
    ASSUME OneBrowser, OneInv, NEW b \in Browsers, NEW d \in Drives, NEW i \in Ids, NEW m \in Modes,
           einarc_logical_flashcache_bind(b, d, i, m)
    PROVE  OneInv'
<1>1. CASE md[i] = Nothing
  BY <1>1, RefuseOne DEF einarc_logical_flashcache_bind
<1>2. CASE md[i] # Nothing
  <2>1. /\ Shown(b) /\ d \in page[b].free
        /\ meta' = [meta EXCEPT ![d] = [uuid |-> md[i].uuid, mode |-> m]]
        /\ \/ /\ cache[i] = Nothing
              /\ cache' = [cache EXCEPT ![i] = [drive |-> d, mode |-> m]]
              /\ sb' = [sb EXCEPT ![d] = IF m = "WRITE_BACK" THEN md[i].uuid ELSE Nothing]
           \/ /\ cache' = cache
              /\ d \in Unused => sb' = [sb EXCEPT ![d] = Nothing]
        /\ \E v : sb' = [sb EXCEPT ![d] = v]
        /\ \E failed \in BOOLEAN : Submitted(b, failed)
        /\ md' = md /\ use' = use
    BY <1>2 DEF einarc_logical_flashcache_bind
  <2>2. RInv'
    BY BindCase DEF OneInv
  <2>3. Current'
    BY <2>1, NoPageShown DEF OneInv, RInv
  <2>4. d \in Unused /\ \A j \in Cached : cache[j].drive # d /\ cache[j].drive \in Drives
    <3>1. d \in Unused
      BY <2>1 DEF OneInv, Current
    <3> QED
      BY <3>1, FreeMeans DEF OneInv, RInv, Separate, Unassigned
  <2> DEFINE w == [uuid |-> md[i].uuid, mode |-> m]
             new == [drive |-> d, mode |-> m]
  <2>5. w # Nothing /\ w.uuid = md[i].uuid /\ w.mode = m /\ new.drive = d /\ new.mode = m
    <3>1. md[i].uuid \in Uuids
      BY <1>2 DEF OneInv, RInv, RaidTypeOK, Array
    <3>2. w \in Meta
      BY <3>1 DEF Meta
    <3> QED
      BY <3>2, NothingAssumption
  <2> HIDE DEF w, new
  <2>6. meta'[d] = w /\ \A j \in Cached :
           /\ meta'[cache[j].drive] = meta[cache[j].drive] /\ sb'[cache[j].drive] = sb[cache[j].drive]
    BY <2>1, <2>4 DEF OneInv, RInv, RaidTypeOK, w
  <2>7. CASE cache' = cache /\ sb' = [sb EXCEPT ![d] = Nothing]
    <3>0. Marked'
      <4>1. \A e \in Drives : sb'[e] = Nothing \/ (sb'[e] = sb[e] /\ meta'[e] = meta[e])
        BY <2>1, <2>7 DEF OneInv, RInv, RaidTypeOK
      <4> QED
        BY <4>1, MarkedStays
    <3>1. Recorded'
      BY <2>1, <2>6, <2>7 DEF OneInv, Recorded, Cached
    <3>2. Grounded'
      BY <2>1, <2>7 DEF OneInv, Grounded, Logicals
    <3> QED
      BY <2>2, <2>3, <3>0, <3>1, <3>2 DEF OneInv
  <2>8. CASE /\ cache[i] = Nothing
             /\ cache' = [cache EXCEPT ![i] = new]
             /\ sb' = [sb EXCEPT ![d] = IF m = "WRITE_BACK" THEN md[i].uuid ELSE Nothing]
    <3>1. /\ cache'[i] = new /\ \A j \in Ids : j # i => cache'[j] = cache[j]
          /\ m = "WRITE_BACK" => sb'[d] = md[i].uuid
      BY <2>8 DEF OneInv, RInv, RaidTypeOK
    <3>2. \A j \in Cached' : j = i \/ (j \in Cached /\ cache'[j] = cache[j])
      BY <3>1 DEF Cached, Existing
    <3>3. Recorded'
      BY <2>1, <2>5, <2>6, <3>1, <3>2 DEF OneInv, Recorded
    <3>4. Grounded'
      BY <1>2, <2>1, <3>1 DEF OneInv, Grounded, Logicals
    <3>5. Marked'
      <4>1. /\ \A e \in Drives : e # d => sb'[e] = sb[e] /\ meta'[e] = meta[e]
            /\ sb'[d] # Nothing => m = "WRITE_BACK"
        BY <2>1, <2>8 DEF OneInv, RInv, RaidTypeOK
      <4> QED
        BY <2>5, <2>6, <4>1 DEF OneInv, Marked
    <3> QED
      BY <2>2, <2>3, <3>3, <3>4, <3>5 DEF OneInv
  <2> QED
    BY <2>1, <2>4, <2>7, <2>8 DEF new
<1> QED
  BY <1>1, <1>2

\* A handler that changes the drives of an array.
LEMMA HandlerOnArray ==
    ASSUME OneBrowser, OneInv, RInv', NEW b \in Browsers, NEW i \in Ids, NEW a \in Array,
           NEW failed \in BOOLEAN, md[i] # Nothing, a.uuid = md[i].uuid,
           md' = [md EXCEPT ![i] = a], UNCHANGED <<use, meta, sb, cache>>, Submitted(b, failed)
    PROVE  OneInv'
<1>1. Grounded' /\ Recorded' /\ Marked'
  BY GroundedStays, MarkedStays
<1>2. Current'
  BY NoPageShown DEF OneInv, RInv
<1> QED
  BY <1>1, <1>2 DEF OneInv

LEMMA HotspareAddOne ==
    ASSUME OneBrowser, OneInv, NEW b \in Browsers, NEW d \in Drives, NEW i \in Ids,
           einarc_logical_hotspare_add(b, d, i)
    PROVE  OneInv'
<1>1. CASE Refuse(b)
  BY <1>1, RefuseOne
<1>2. CASE ~Refuse(b)
  <2> DEFINE a == [md[i] EXCEPT !.spare = @ \cup {d}]
  <2>1. /\ md[i] # Nothing /\ md' = [md EXCEPT ![i] = a]
        /\ Submitted(b, FALSE) /\ UNCHANGED <<use, meta, sb, cache>>
    BY <1>2 DEF einarc_logical_hotspare_add
  <2>2. RInv'
    BY HotspareAddCase DEF OneInv
  <2>3. md[i] \in Array
    BY <2>1, ArrayThere DEF OneInv
  <2>4. a \in Array /\ a.uuid = md[i].uuid
    BY <2>3 DEF Array
  <2> HIDE DEF a
  <2> QED
    BY <2>1, <2>2, <2>4, HandlerOnArray
<1> QED
  BY <1>1, <1>2

LEMMA DetachOne ==
    ASSUME OneBrowser, OneInv, NEW b \in Browsers, NEW d \in Drives, NEW i \in Ids, detach(b, d, i)
    PROVE  OneInv'
<1>1. CASE Refuse(b)
  BY <1>1, RefuseOne
<1>2. CASE ~Refuse(b)
  <2> DEFINE a == [md[i] EXCEPT !.spare = @ \ {d}, !.faulty = @ \ {d}]
  <2>1. /\ md[i] # Nothing
        /\ Submitted(b, FALSE) /\ UNCHANGED <<use, meta, sb, cache>>
    BY <1>2 DEF detach, Removable
  <2>2. RInv'
    BY DetachCase DEF OneInv
  <2>3. md[i] \in Array
    BY <2>1, ArrayThere DEF OneInv
  <2>4. md' = [md EXCEPT ![i] = a]
    BY <1>2, <2>3 DEF detach, OneInv, RInv, RaidTypeOK
  <2>5. a \in Array /\ a.uuid = md[i].uuid
    BY <2>3 DEF Array
  <2> HIDE DEF a
  <2> QED
    BY <2>1, <2>2, <2>4, <2>5, HandlerOnArray
<1> QED
  BY <1>1, <1>2

LEMMA GrowOne ==
    ASSUME OneBrowser, OneInv, NEW b \in Browsers, NEW i \in Ids, NEW ds \in SUBSET Drives,
           einarc_logical_grow(b, i, ds)
    PROVE  OneInv'
<1>1. CASE Refuse(b)
  BY <1>1, RefuseOne
<1>2. CASE ~Refuse(b)
  <2>1. RInv'
    BY GrowCase DEF OneInv
  <2>2. PICK a \in Array, failed \in BOOLEAN :
           a.uuid = md[i].uuid /\ md' = [md EXCEPT ![i] = a] /\ Submitted(b, failed)
    BY <1>2, GrowOutcome DEF OneInv
  <2>3. md[i] # Nothing /\ UNCHANGED <<use, meta, sb, cache>>
    BY <1>2, GrowOutcome DEF OneInv
  <2> QED
    BY <2>1, <2>2, <2>3, HandlerOnArray
<1> QED
  BY <1>1, <1>2

LEMMA VolumeRequestOne ==
    ASSUME OneBrowser, OneInv, NEW b \in Browsers, NEW i \in Ids, VolumeRequest(b, i)
    PROVE  OneInv'
<1>1. RInv'
  BY VolumeRequestCase DEF OneInv
<1>2. PICK to \in {"blank", "volumes", "exported"} :
        /\ use' = [use EXCEPT ![i] = to] /\ md[i] # Nothing
        /\ Submitted(b, FALSE) /\ UNCHANGED <<md, meta, sb, cache>>
  BY DEF VolumeRequest, UseChanges
<1>3. Current'
  BY <1>2, NoPageShown DEF OneInv, RInv
<1>4. \A j \in Ids : md[j] = Nothing => use'[j] = use[j]
  BY <1>2 DEF OneInv, RInv, RaidTypeOK
<1>5. Grounded' /\ Recorded' /\ Marked'
  BY <1>2, <1>4 DEF OneInv, Grounded, Recorded, Marked, Logicals, Cached
<1> QED
  BY <1>1, <1>3, <1>5 DEF OneInv

\* md changes an array while a page may be shown.
LEMMA DrivesOne ==
    ASSUME OneInv, NEW i \in Ids, NEW d \in Drives,
           DriveFails(i, d) \/ DriveReplaced(i, d) \/ Rebuilt(i, d)
    PROVE  OneInv'
<1>1. RInv'
  BY FailsCase, ReplacedCase, RebuiltCase DEF OneInv
<1>2. md[i] # Nothing /\ d \in Slaves(md[i]) /\ UNCHANGED <<use, cache, page>>
  BY DEF DriveFails, DriveReplaced, Rebuilt, Slaves
<1>3. md[i] \in Array
  BY <1>2, ArrayThere DEF OneInv
<1>4. PICK a \in Array : /\ md' = [md EXCEPT ![i] = a] /\ a.uuid = md[i].uuid
                         /\ Slaves(a) \subseteq Slaves(md[i])
  <2>1. CASE DriveFails(i, d)
    <3> DEFINE a == [md[i] EXCEPT !.in_sync = @ \ {d}, !.faulty = @ \cup {d}]
    <3>1. a \in Array /\ a.uuid = md[i].uuid /\ Slaves(a) \subseteq Slaves(md[i])
      BY <1>2, <1>3 DEF Array, Slaves
    <3>2. md' = [md EXCEPT ![i] = a]
      BY <1>3, <2>1 DEF DriveFails, OneInv, RInv, RaidTypeOK
    <3> HIDE DEF a
    <3> QED
      BY <3>1, <3>2
  <2>2. CASE DriveReplaced(i, d)
    <3> DEFINE a == [md[i] EXCEPT !.in_sync = @ \ {d}, !.spare = @ \ {d}, !.faulty = @ \ {d}]
    <3>1. a \in Array /\ a.uuid = md[i].uuid /\ Slaves(a) \subseteq Slaves(md[i])
      BY <1>2, <1>3 DEF Array, Slaves
    <3>2. md' = [md EXCEPT ![i] = a]
      BY <1>3, <2>2 DEF DriveReplaced, OneInv, RInv, RaidTypeOK
    <3> HIDE DEF a
    <3> QED
      BY <3>1, <3>2
  <2>3. CASE Rebuilt(i, d)
    <3> DEFINE a == [md[i] EXCEPT !.in_sync = @ \cup {d}, !.spare = @ \ {d}]
    <3>1. a \in Array /\ a.uuid = md[i].uuid /\ Slaves(a) \subseteq Slaves(md[i])
      BY <1>2, <1>3 DEF Array, Slaves
    <3>2. md' = [md EXCEPT ![i] = a]
      BY <1>3, <2>3 DEF Rebuilt, OneInv, RInv, RaidTypeOK
    <3> HIDE DEF a
    <3> QED
      BY <3>1, <3>2
  <2> QED
    BY <2>1, <2>2, <2>3
<1>5. \A j \in Cached : /\ meta'[cache[j].drive] = meta[cache[j].drive]
                        /\ sb'[cache[j].drive] = sb[cache[j].drive]
  <2>1. \A e \in Drives : e # d => meta'[e] = meta[e] /\ sb'[e] = sb[e]
    BY DEF DriveFails, DriveReplaced, Rebuilt, OneInv, RInv, RaidTypeOK
  <2>2. \A j \in Cached : cache[j].drive \in Drives /\ cache[j].drive # d
    BY <1>2 DEF OneInv, RInv, Separate, Unassigned, Existing
  <2> QED
    BY <2>1, <2>2
<1>6. Grounded' /\ Recorded' /\ Logicals' = Logicals /\ Cached' = Cached
  BY <1>2, <1>4, <1>5, GroundedStays
<1>7. Unused \subseteq Unused'
  BY <1>2, <1>4, FreeStays DEF OneInv
<1>8. Current'
  BY <1>2, <1>6, <1>7, CurrentStays
<1>9. Marked'
  <2>1. \A e \in Drives : sb'[e] = Nothing \/ (sb'[e] = sb[e] /\ meta'[e] = meta[e])
    BY DEF DriveFails, DriveReplaced, Rebuilt, OneInv, RInv, RaidTypeOK
  <2> QED
    BY <2>1, MarkedStays
<1> QED
  BY <1>1, <1>6, <1>8, <1>9 DEF OneInv

\* What arrays come up with, at boot.
LEMMA RebootArrays ==
    ASSUME OneInv, Reboot
    PROVE  /\ \A i \in Ids : /\ md'[i] = Nothing <=> md[i] = Nothing
                             /\ md[i] # Nothing => /\ md'[i].uuid = md[i].uuid
                                                   /\ Slaves(md'[i]) \subseteq Slaves(md[i])
           /\ Existing(md') = Logicals
           /\ \A i, j \in Existing(md') : md'[i].uuid = md'[j].uuid => i = j
<1>1. ASSUME NEW i \in Ids
      PROVE  /\ md'[i] = Nothing <=> md[i] = Nothing
             /\ md[i] # Nothing => md'[i].uuid = md[i].uuid /\ Slaves(md'[i]) \subseteq Slaves(md[i])
  <2>1. md'[i] = IF md[i] = Nothing THEN Nothing ELSE [md[i] EXCEPT !.faulty = {}]
    BY DEF Reboot
  <2>2. CASE md[i] # Nothing
    <3> DEFINE a == [md[i] EXCEPT !.faulty = {}]
    <3>1. md[i] \in Array
      BY <2>2, ArrayThere DEF OneInv
    <3>2. a \in Array /\ a.uuid = md[i].uuid /\ Slaves(a) \subseteq Slaves(md[i])
      BY <3>1 DEF Array, Slaves
    <3> HIDE DEF a
    <3>3. md'[i] = a /\ a # Nothing
      BY <2>1, <2>2, <3>2, NothingAssumption DEF a
    <3> QED
      BY <2>2, <3>2, <3>3
  <2> QED
    BY <2>1, <2>2
<1>2. Existing(md') = Logicals
  BY <1>1 DEF Existing, Logicals
<1>3. \A i \in Logicals : i \in Ids /\ md[i] # Nothing
  BY DEF Existing, Logicals
<1>4. \A i, j \in Existing(md') : md'[i].uuid = md'[j].uuid => i = j
  BY <1>1, <1>2, <1>3 DEF OneInv, Grounded
<1> QED
  BY <1>1, <1>2, <1>4

\* No superblock is destroyed at boot: the caches that are created again
\* have none.
LEMMA RebootSuperblocks ==
    ASSUME OneInv, Reboot
    PROVE  sb' = sb
<1>1. AsWritten(md', cache')
  BY AssembliesAsWritten DEF Reboot, OneInv, RInv
<1> DEFINE rebound == {cache'[i].drive : i \in {j \in Existing(cache') : cache'[j].mode # "WRITE_BACK"}}
           tried == {d \in Drives : sb[d] # Nothing /\ meta[d] # Nothing /\ meta[d].mode # "WRITE_BACK"}
<1>2. PICK destroyed \in SUBSET tried :
         sb' = [d \in Drives |-> IF d \in rebound \cup destroyed THEN Nothing ELSE sb[d]]
  BY DEF Reboot
<1>3. destroyed = {}
  BY DEF OneInv, Marked
<1>4. \A d \in Drives : d \in rebound => sb[d] = Nothing
  <2>1. \A i \in Existing(cache') : i \in Ids /\ cache'[i] # Nothing
    BY DEF Existing
  <2>2. \A i \in Existing(cache') : cache'[i].mode = meta[cache'[i].drive].mode
    BY <1>1, <2>1 DEF AsWritten
  <2> QED
    BY <2>2 DEF OneInv, Marked
<1> HIDE DEF rebound
<1>5. \A d \in Drives : sb'[d] = sb[d]
  BY <1>2, <1>3, <1>4
<1>6. sb = [d \in Drives |-> sb[d]] /\ sb' = [d \in Drives |-> sb'[d]]
  BY <1>2 DEF OneInv, RInv, RaidTypeOK
<1> QED
  BY <1>5, <1>6

LEMMA RebootOne ==
    ASSUME OneInv, Reboot
    PROVE  OneInv'
<1>1. RInv'
  BY RebootCase DEF OneInv
<1>2. Current'
  BY DEF Current, Shown, Reboot
<1>3. AsWritten(md', cache')
  BY AssembliesAsWritten DEF Reboot, OneInv, RInv
<1>4. ASSUME NEW i \in Ids, cache'[i] # Nothing
      PROVE  /\ cache'[i].drive \in Found(md') /\ i = Owner(md', cache'[i].drive)
             /\ cache'[i].drive \in Drives /\ meta[cache'[i].drive] # Nothing
             /\ i \in Existing(md') /\ md'[i].uuid = meta[cache'[i].drive].uuid
             /\ cache'[i].mode = meta[cache'[i].drive].mode
             /\ cache'[i].mode = "WRITE_BACK" => sb[cache'[i].drive] = meta[cache'[i].drive].uuid
  BY <1>3, <1>4, OwnerFound DEF AsWritten
<1>5. Grounded'
  <2>1. \A i \in Ids : md'[i] = Nothing => md[i] = Nothing
    BY RebootArrays
  <2>2. \A i \in Ids : md'[i] = Nothing => cache'[i] = Nothing
    BY <1>4 DEF Existing
  <2>3. use' = use
    BY DEF Reboot
  <2>4. \A i, j \in Logicals' : md'[i].uuid = md'[j].uuid => i = j
    BY RebootArrays DEF Logicals
  <2> QED
    BY <2>1, <2>2, <2>3, <2>4 DEF Grounded, OneInv
<1>6. Recorded'
  <2> SUFFICES ASSUME NEW i \in Cached'
               PROVE  /\ meta'[cache'[i].drive] # Nothing
                      /\ meta'[cache'[i].drive].uuid = md'[i].uuid
                      /\ meta'[cache'[i].drive].mode = cache'[i].mode
                      /\ cache'[i].mode = "WRITE_BACK" => sb'[cache'[i].drive] = md'[i].uuid
    BY DEF Recorded
  <2>1. i \in Ids /\ cache'[i] # Nothing /\ meta' = meta /\ sb' = sb
    BY RebootSuperblocks DEF Cached, Existing, Reboot
  <2> QED
    BY <1>4, <2>1
<1>7. Marked'
  BY RebootSuperblocks, MarkedStays DEF Reboot
<1> QED
  BY <1>1, <1>2, <1>5, <1>6, <1>7 DEF OneInv

\* Every step of one administrator and of the surroundings keeps OneInv.
LEMMA NextOneInv ==
    ASSUME OneBrowser
    PROVE  OneInv /\ [Next]_vars => OneInv'
<1> SUFFICES ASSUME OneInv, [Next]_vars PROVE OneInv'
  OBVIOUS
<1>1. CASE UNCHANGED vars
  <2>1. RInv'
    BY NextRInv DEF OneInv
  <2>2. Grounded' /\ Recorded' /\ Marked'
    BY <1>1, GroundedSame DEF vars
  <2>3. Current'
    BY <1>1 DEF vars, OneInv, Current, Shown, Logicals, Cached, Unused
  <2> QED
    BY <2>1, <2>2, <2>3 DEF OneInv
<1>2. CASE Surroundings
  BY <1>2, DrivesOne, RebootOne DEF Surroundings
<1>3. ASSUME NEW b \in Browsers, Request(b) PROVE OneInv'
  <2>1. CASE PageLoad(b)
    BY <2>1, PageLoadOne
  <2>2. ASSUME NEW ds \in SUBSET Drives, einarc_logical_add(b, ds) PROVE OneInv'
    BY <2>2, AddOne
  <2>3. ASSUME NEW i \in Ids, einarc_logical_delete(b, i) PROVE OneInv'
    BY <2>3, DeleteOne
  <2>4. ASSUME NEW i \in Ids, NEW ds \in SUBSET Drives, einarc_logical_grow(b, i, ds) PROVE OneInv'
    BY <2>4, GrowOne
  <2>5. ASSUME NEW i \in Ids, VolumeRequest(b, i) PROVE OneInv'
    BY <2>5, VolumeRequestOne
  <2>6. ASSUME NEW i \in Ids, NEW d \in Drives, einarc_logical_hotspare_add(b, d, i) PROVE OneInv'
    BY <2>6, HotspareAddOne
  <2>7. ASSUME NEW i \in Ids, NEW d \in Drives,
               einarc_logical_hotspare_delete(b, d, i) \/ einarc_logical_physical_detach(b, d, i)
        PROVE  OneInv'
    BY <2>7, DetachOne DEF einarc_logical_hotspare_delete, einarc_logical_physical_detach
  <2>8. ASSUME NEW i \in Ids, NEW d \in Drives, NEW m \in Modes,
               einarc_logical_flashcache_bind(b, d, i, m)
        PROVE  OneInv'
    BY <2>8, BindOne
  <2>9. ASSUME NEW d \in Drives, einarc_logical_flashcache_unbind(b, d) PROVE OneInv'
    BY <2>9, UnbindOne
  <2> QED
    BY <1>3, <2>1, <2>2, <2>3, <2>4, <2>5, <2>6, <2>7, <2>8, <2>9 DEF Request
<1> QED
  BY <1>1, <1>2, <1>3 DEF Next

\* With one administrator pages are current, metadata is that of the caches
\* there are, and volumes are on arrays there are, whichever commands fail.
THEOREM OneAdminRaidInvariant ==
    ASSUME OneBrowser
    PROVE  Spec => []OneInv
<1>1. OneInv /\ [Next]_vars => OneInv'
  BY NextOneInv
<1> QED
  BY <1>1, InitOneInv, PTL DEF Spec

\* Only a request for a volume empties an array.
LEMMA LabelsKept ==
    ASSUME OneBrowser, OneInv, Next, NEW i \in Ids, use[i] # "blank", use'[i] = "blank"
    PROVE  \E b \in Browsers : VolumeRequest(b, i)
<1>1. ~Surroundings
  BY DEF Surroundings, DriveFails, DriveReplaced, Rebuilt, Reboot
<1>2. PICK b \in Browsers : Request(b)
  BY <1>1 DEF Next
<1>3. ~PageLoad(b) /\ ~Refuse(b)
  BY DEF PageLoad, Refuse
<1>4. \A ds \in SUBSET Drives : ~einarc_logical_add(b, ds)
  BY AddOne
<1>5. \A j \in Ids : ~einarc_logical_delete(b, j)
  BY DeleteOne
<1>6. \A j \in Ids, ds \in SUBSET Drives : ~einarc_logical_grow(b, j, ds)
  BY <1>3, GrowOutcome DEF OneInv
<1>7. \A j \in Ids, d \in Drives : /\ ~einarc_logical_hotspare_add(b, d, j)
                                   /\ ~einarc_logical_hotspare_delete(b, d, j)
                                   /\ ~einarc_logical_physical_detach(b, d, j)
  BY <1>3 DEF einarc_logical_hotspare_add, einarc_logical_hotspare_delete,
              einarc_logical_physical_detach, detach
<1>8. \A j \in Ids, d \in Drives, m \in Modes : ~einarc_logical_flashcache_bind(b, d, j, m)
  BY <1>3 DEF einarc_logical_flashcache_bind
<1>9. \A d \in Drives : ~einarc_logical_flashcache_unbind(b, d)
  BY DEF einarc_logical_flashcache_unbind
<1>10. PICK j \in Ids : VolumeRequest(b, j)
  BY <1>2, <1>3, <1>4, <1>5, <1>6, <1>7, <1>8, <1>9 DEF Request
<1>11. j = i
  BY <1>10 DEF VolumeRequest, UseChanges, OneInv, RInv, RaidTypeOK
<1> QED
  BY <1>10, <1>11

\* Creating, deleting and growing arrays never loses volumes: with one
\* administrator, whose page is current, the labels that are wiped are of
\* arrays without volumes.
THEOREM VolumesSurviveArrays ==
    ASSUME OneBrowser
    PROVE  Spec => ArraysKeepVolumes
<1> DEFINE Keeps == \A i \in Ids : use[i] # "blank" /\ use'[i] = "blank"
              => \E b \in Browsers : VolumeRequest(b, i)
<1>1. OneInv /\ [Next]_vars => [Keeps]_vars
  BY LabelsKept
<1> HIDE DEF Keeps
<1>2. Spec => [][Keeps]_vars
  BY <1>1, OneAdminRaidInvariant, PTL DEF Spec
<1> QED
  BY <1>2 DEF ArraysKeepVolumes, Keeps

\* What is written on a drive that is in use is written by its own request:
\* arrays and caches are made of drives on the page, which are unused.
LEMMA DriveKept ==
    ASSUME OneBrowser, OneInv, Next, NEW d \in Drives \ Unused, meta'[d] # meta[d] \/ sb'[d] # sb[d]
    PROVE  OwnRequest(d)
<1>0. meta \in [Drives -> Meta \cup {Nothing}] /\ sb \in [Drives -> Uuids \cup {Nothing}]
  BY DEF OneInv, RInv, RaidTypeOK
<1>1. CASE Surroundings
  <2>1. ~Reboot
    BY RebootSuperblocks DEF Reboot
  <2>2. PICK i \in Ids, e \in Drives : DriveFails(i, e) \/ DriveReplaced(i, e) \/ Rebuilt(i, e)
    BY <1>1, <2>1 DEF Surroundings
  <2>3. DriveReplaced(i, e)
    BY <2>2 DEF DriveFails, Rebuilt
  <2>4. e = d
    BY <1>0, <2>3 DEF DriveReplaced
  <2> QED
    BY <2>3, <2>4 DEF OwnRequest
<1>2. ASSUME NEW b \in Browsers, Request(b) PROVE OwnRequest(d)
  <2>1. ~PageLoad(b) /\ ~Refuse(b)
    BY DEF PageLoad, Refuse
  <2>2. \A ds \in SUBSET Drives : ~einarc_logical_add(b, ds)
    <3> SUFFICES ASSUME NEW ds \in SUBSET Drives, einarc_logical_add(b, ds) PROVE FALSE
      OBVIOUS
    <3>1. /\ ds \subseteq Unused
          /\ \E lost \in SUBSET ds : meta' = [e \in Drives |-> IF e \in lost THEN Nothing ELSE meta[e]]
          /\ sb' = [e \in Drives |-> IF e \in ds THEN Nothing ELSE sb[e]]
      BY <2>1 DEF einarc_logical_add
    <3> QED
      BY <1>0, <3>1
  <2>3. \A i \in Ids, ds \in SUBSET Drives : ~einarc_logical_grow(b, i, ds)
    BY <2>1, GrowOutcome DEF OneInv
  <2>4. \A i \in Ids : ~VolumeRequest(b, i)
    BY DEF VolumeRequest, UseChanges
  <2>5. \A i \in Ids, e \in Drives : /\ ~einarc_logical_hotspare_add(b, e, i)
                                      /\ ~einarc_logical_hotspare_delete(b, e, i)
                                      /\ ~einarc_logical_physical_detach(b, e, i)
    BY <2>1 DEF einarc_logical_hotspare_add, einarc_logical_hotspare_delete,
                einarc_logical_physical_detach, detach
  <2>6. \A i \in Ids, e \in Drives, m \in Modes : ~einarc_logical_flashcache_bind(b, e, i, m)
    <3> SUFFICES ASSUME NEW i \in Ids, NEW e \in Drives, NEW m \in Modes,
                        einarc_logical_flashcache_bind(b, e, i, m)
                 PROVE  FALSE
      OBVIOUS
    <3>1. /\ Shown(b) /\ e \in page[b].free
          /\ \E w : meta' = [meta EXCEPT ![e] = w]
          /\ \E v : sb' = [sb EXCEPT ![e] = v]
      BY <2>1 DEF einarc_logical_flashcache_bind
    <3>2. e \in Unused
      BY <3>1 DEF OneInv, Current
    <3> QED
      BY <1>0, <3>1, <3>2
  <2>7. ASSUME NEW e \in Drives, einarc_logical_flashcache_unbind(b, e) PROVE OwnRequest(d)
    <3>1. Unbinding({e})
      BY <2>7 DEF einarc_logical_flashcache_unbind
    <3>2. e = d
      BY <3>1, UnbindingProperty DEF OneInv
    <3> QED
      BY <2>7, <3>2 DEF OwnRequest
  <2>8. ASSUME NEW i \in Ids, einarc_logical_delete(b, i) PROVE OwnRequest(d)
    <3> DEFINE ds == {cache[j].drive : j \in Cached \cap {i}}
    <3>1. Unbinding(ds)
      BY <2>1, <2>8 DEF einarc_logical_delete
    <3>2. d \in ds
      <4> HIDE DEF ds
      <4> QED
        BY <3>1, UnbindingProperty DEF OneInv
    <3>3. i \in Cached /\ cache[i].drive = d
      BY <3>2
    <3> QED
      BY <2>8, <3>3 DEF OwnRequest
  <2> QED
    BY <1>2, <2>1, <2>2, <2>3, <2>4, <2>5, <2>6, <2>7, <2>8 DEF Request
<1> QED
  BY <1>1, <1>2 DEF Next

\* Nothing is written behind its back on a drive that is in use: with one
\* administrator, whose page is current, Flashcache.bind destroys and writes
\* metadata on drives only that no array and no cache has, whichever
\* commands fail and whichever drives fail meanwhile.
THEOREM DrivesInUseStay ==
    ASSUME OneBrowser
    PROVE  Spec => DrivesInUseKept
<1> DEFINE Keeps == \A d \in Drives \ Unused :
              <<meta'[d], sb'[d]>> # <<meta[d], sb[d]>> => OwnRequest(d)
<1>1. OneInv /\ [Next]_vars => [Keeps]_vars
  BY DriveKept
<1> HIDE DEF Keeps
<1>2. Spec => [][Keeps]_vars
  BY <1>1, OneAdminRaidInvariant, PTL DEF Spec
<1> QED
  BY <1>2 DEF DrivesInUseKept, Keeps

-----------------------------------------------------------------------------
\* Without leftovers, the drives assemble visits are those of the caches,
\* it finds the array of each, and each can be bound or is half unbound.
LEMMA NothingInTheWay ==
    ASSUME OneInv, Reboot, Leftovers = {}
    PROVE  /\ \A i \in Cached : cache[i].drive \in Found(md')
           /\ \A d \in Found(md') :
                 LET i == Owner(md', d)
                 IN  /\ i \in Cached /\ cache[i] = [drive |-> d, mode |-> meta[d].mode]
                     /\ d \in Unassigned(md')
                     /\ IF i \in HalfUnbound
                        THEN meta[d].mode = "WRITE_BACK" /\ sb[d] # meta[d].uuid
                        ELSE meta[d].mode = "WRITE_BACK" => sb[d] = meta[d].uuid
<1>1. Cached \subseteq Logicals /\ Cached \subseteq Ids
  BY DEF OneInv, Grounded, Cached, Logicals, Existing
<1>2. \A i \in Logicals : i \in Ids /\ i \in Existing(md') /\ md'[i].uuid = md[i].uuid
  BY RebootArrays DEF Logicals, Existing
<1>3. \A i \in Cached : /\ cache[i].drive \in Unassigned(md) /\ cache[i].drive \in Drives
                        /\ meta[cache[i].drive] # Nothing
                        /\ meta[cache[i].drive].uuid = md[i].uuid
                        /\ meta[cache[i].drive].mode = cache[i].mode
                        /\ cache[i].mode = "WRITE_BACK" => sb[cache[i].drive] \in {md[i].uuid, Nothing}
                        /\ md[i].uuid # Nothing
  <2>1. \A i \in Logicals : md[i].uuid # Nothing
    BY NothingAssumption DEF OneInv, RInv, RaidTypeOK, Logicals, Existing, Array
  <2> QED
    BY <1>1, <2>1 DEF OneInv, RInv, Separate, Recorded, Unassigned
<1>4. \A i \in Cached : cache[i].drive \in Found(md')
  BY <1>1, <1>2, <1>3 DEF Found
<1>5. ASSUME NEW d \in Found(md')
      PROVE  LET i == Owner(md', d)
             IN  /\ i \in Cached /\ cache[i] = [drive |-> d, mode |-> meta[d].mode]
                 /\ d \in Unassigned(md')
                 /\ IF i \in HalfUnbound
                    THEN meta[d].mode = "WRITE_BACK" /\ sb[d] # meta[d].uuid
                    ELSE meta[d].mode = "WRITE_BACK" => sb[d] = meta[d].uuid
  <2>1. d \in Drives /\ meta[d] # Nothing
    BY DEF Found
  <2>2. PICK i \in Cached : cache[i].drive = d
    BY <2>1 DEF Leftovers
  <2>3. Owner(md', d) = i
    <3>1. Owner(md', d) \in Existing(md') /\ md'[Owner(md', d)].uuid = meta[d].uuid
      BY OwnerFound
    <3>2. i \in Existing(md') /\ md'[i].uuid = meta[d].uuid
      BY <1>1, <1>2, <1>3, <2>2
    <3> QED
      BY <3>1, <3>2, RebootArrays
  <2>4. cache[i] = [drive |-> d, mode |-> meta[d].mode]
    <3>1. cache[i] \in Map
      BY <1>1, <2>2 DEF OneInv, RInv, RaidTypeOK, Cached, Existing
    <3>2. meta[d].mode = cache[i].mode
      BY <1>3, <2>2
    <3> QED
      BY <2>2, <3>1, <3>2 DEF Map
  <2>5. d \in Unassigned(md')
    <3>1. \A j \in Existing(md') : j \in Logicals /\ Slaves(md'[j]) \subseteq Slaves(md[j])
      BY RebootArrays DEF Logicals, Existing
    <3>2. \A j \in Logicals : d \notin Slaves(md[j])
      BY <1>3, <2>2 DEF Unassigned, Logicals
    <3> QED
      BY <2>1, <3>1, <3>2 DEF Unassigned
  <2>6. IF i \in HalfUnbound
        THEN meta[d].mode = "WRITE_BACK" /\ sb[d] # meta[d].uuid
        ELSE meta[d].mode = "WRITE_BACK" => sb[d] = meta[d].uuid
    BY <1>3, <2>2 DEF HalfUnbound
  <2> QED
    BY <2>2, <2>3, <2>4, <2>5, <2>6
<1> QED
  BY <1>4, <1>5

\* The loop binds one cache after the other: what is bound after k drives
\* is what was bound on these and can be loaded.
LEMMA AllReturn ==
    ASSUME OneInv, Reboot, Leftovers = {}
    PROVE  cache' = [i \in Ids |-> IF i \in HalfUnbound THEN Nothing ELSE cache[i]]
<1>1. PICK order \in SetToSeqs(Found(md')) : cache' = AssembleLoop(md', order)
  BY DEF Reboot, Assemblies, Found
<1> DEFINE n == Len(order)
           Seen(k) == {order[l] : l \in 1..k}
           Whole == Cached \ HalfUnbound
           So(k) == [i \in Ids |-> IF i \in Whole /\ cache[i].drive \in Seen(k) THEN cache[i] ELSE Nothing]
<1>2. /\ n \in Nat /\ \A k \in 1..n : order[k] \in Found(md')
      /\ \A k, l \in 1..n : order[k] = order[l] => k = l
      /\ \A d \in Found(md') : \E k \in 1..n : order[k] = d
  BY OrderProperty
<1>3. PICK after : /\ after[0] = Started
                   /\ \A k \in 1..n : after[k] = Assembled(md', after[k - 1], order[k])
                   /\ cache' = after[n].cache
  BY <1>1, <1>2, LoopRuns
<1> HIDE DEF n
<1> DEFINE S == {k \in 0..n : after[k] \in LoopState /\ after[k].going /\ after[k].cache = So(k)}
<1>4. 0 \in S
  <2>1. Started \in LoopState /\ Started.cache = [i \in Ids |-> Nothing] /\ Started.going
    BY DEF Started, LoopState
  <2>2. Seen(0) = {}
    OBVIOUS
  <2>3. So(0) = [i \in Ids |-> Nothing]
    BY <2>2
  <2> HIDE DEF So
  <2> QED
    BY <1>2, <1>3, <2>1, <2>3
<1>5. ASSUME NEW k \in 0..n, k \in S, k # n
      PROVE  k + 1 \in S
  <2> DEFINE st == after[k]
             d == order[k + 1]
             i == Owner(md', d)
             st2 == after[k + 1]
  <2>1. k + 1 \in 1..n /\ k + 1 \in 0..n /\ k + 1 - 1 = k
    BY <1>2, <1>5
  <2>2. /\ st \in LoopState /\ st.going /\ st.cache = So(k)
        /\ d \in Found(md') /\ st2 = Assembled(md', st, d)
    BY <1>2, <1>3, <1>5, <2>1
  <2>3. Seen(k + 1) = Seen(k) \cup {d} /\ d \notin Seen(k)
    <3>1. 1..(k + 1) = (1..k) \cup {k + 1} /\ \A l \in 1..k : l \in 1..n /\ l # k + 1
      BY <1>2, <2>1
    <3> QED
      BY <1>2, <2>1, <3>1
  <2>4. /\ i \in Cached /\ i \in Ids /\ cache[i] = [drive |-> d, mode |-> meta[d].mode]
        /\ cache[i].drive = d
        /\ d \in Unassigned(md')
        /\ IF i \in HalfUnbound
           THEN meta[d].mode = "WRITE_BACK" /\ sb[d] # meta[d].uuid
           ELSE meta[d].mode = "WRITE_BACK" => sb[d] = meta[d].uuid
    BY <2>2, NothingInTheWay DEF Cached, Existing
  <2> HIDE DEF st, d, st2, Seen
  <2>5. st.cache[i] = Nothing
    BY <2>2, <2>3, <2>4
  <2>6. /\ st2 \in LoopState /\ st2.going
        /\ st2.cache = IF i \in HalfUnbound THEN st.cache ELSE [st.cache EXCEPT ![i] = cache[i]]
    BY <2>2, <2>4, <2>5, AssembledOne DEF OneInv, RInv
  <2> HIDE DEF i
  <2>7. st2.cache = So(k + 1)
    <3>1. \A j \in Cached : cache[j].drive = d <=> j = i
      BY <2>4 DEF OneInv, RInv, Separate
    <3>2. st2.cache = [j \in Ids |-> IF j = i /\ i \in Whole THEN cache[i] ELSE So(k)[j]]
      BY <2>2, <2>4, <2>6
    <3>3. ASSUME NEW j \in Ids
          PROVE  So(k + 1)[j] = IF j = i /\ i \in Whole THEN cache[i] ELSE So(k)[j]
      BY <2>3, <2>4, <3>1
    <3> QED
      BY <3>2, <3>3
  <2> QED
    BY <2>1, <2>6, <2>7 DEF st2
<1>6. n \in S
  <2> HIDE DEF S
  <2>1. 0..n \subseteq S
    BY <1>2, <1>4, <1>5, UpTo
  <2> QED
    BY <1>2, <2>1
<1>7. cache' = So(n)
  BY <1>3, <1>6
<1>8. \A i \in Cached : cache[i].drive \in Seen(n)
  BY <1>2, NothingInTheWay
<1>9. cache = [i \in Ids |-> cache[i]] /\ \A i \in Ids : i \notin Cached => cache[i] = Nothing
  BY DEF OneInv, RInv, RaidTypeOK, Cached, Existing
<1> HIDE DEF Seen
<1>10. \A i \in Ids : So(n)[i] = IF i \in HalfUnbound THEN Nothing ELSE cache[i]
  BY <1>8, <1>9
<1> QED
  BY <1>7, <1>10

\* A reboot brings back every SSD cache in its mode as long as there is no
\* metadata of unbound ones, in whatever order assemble visits the drives,
\* and although an error ends its loop: there is none.  A write-back cache
\* that could not be unbound and has lost its superblock is left out, and
\* does not keep the others from coming back.
THEOREM CachesComeBack ==
    ASSUME OneBrowser
    PROVE  Spec => CachesReturn
<1>1. OneInv => [Reboot /\ Leftovers = {} =>
                   cache' = [i \in Ids |-> IF i \in HalfUnbound THEN Nothing ELSE cache[i]]]_vars
  BY AllReturn
<1> QED
  BY <1>1, OneAdminRaidInvariant, PTL DEF CachesReturn
=============================================================================
