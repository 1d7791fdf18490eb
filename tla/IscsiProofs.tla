---------------------------- MODULE IscsiProofs ----------------------------
(***************************************************************************)
(* What module Iscsi keeps true for any number of names, LUNs, volumes,    *)
(* users and browsers, with or without failing commands.                   *)
(***************************************************************************)
EXTENDS Iscsi, ScstProofs, SequenceTheorems

\* The patterns of the store, as they are after patterns of volumes that are
\* not listed were unbound by unknown_access_patterns_filename_unbind: all
\* are still there, under their names; those that were unknown are unbound.
LEMMA UnknownUnboundProperty ==
    ASSUME NEW s \in Seq(Section)
    PROVE  /\ UnknownUnbound(s) \in Seq(Section)
           /\ DistinctNames(s) => DistinctNames(UnknownUnbound(s))
           /\ DistinctLuns(s) => DistinctLuns(UnknownUnbound(s))
           /\ \A i \in Patterns(UnknownUnbound(s)) :
                 UnknownUnbound(s)[i].filename \in listed \cup {NoFile}
           /\ NoFile \notin listed => SameOrder(s, UnknownUnbound(s), listed)
<1> DEFINE U == Unknown(s)
           R == DOMAIN s \ U
           a == Kept(s, R)
           g == Kept(s, U)
           h == [k \in DOMAIN g |-> Unbound(g[k])]
           t == a \o h
           m == Cardinality(R)
           n == Cardinality(U)
<1>1. U \in SUBSET Patterns(s) /\ U \in SUBSET DOMAIN s /\ R \in SUBSET DOMAIN s
  BY DEF Unknown, Patterns
<1> HIDE DEF U, R
<1>2. /\ a \in Seq(Section) /\ DOMAIN a = 1..m /\ m \in Nat /\ Len(a) = m
      /\ \A k \in 1..m : Nth(R, k) \in R /\ a[k] = s[Nth(R, k)]
      /\ \A k, l \in 1..m : Nth(R, k) = Nth(R, l) => k = l
  BY <1>1, KeptProperty
<1>3. /\ g \in Seq(Section) /\ DOMAIN g = 1..n /\ n \in Nat /\ Len(g) = n
      /\ \A k \in 1..n : Nth(U, k) \in U /\ g[k] = s[Nth(U, k)]
      /\ \A k, l \in 1..n : Nth(U, k) = Nth(U, l) => k = l
  BY <1>1, KeptProperty
<1>4. \A i \in U : s[i] \in AccessPattern
  BY <1>1 DEF Patterns, Section, AuthCredential
<1>5. \A p \in AccessPattern : /\ Unbound(p) \in AccessPattern
                               /\ Unbound(p).name = p.name
                               /\ Unbound(p).filename = NoFile
  BY DEF Unbound, AccessPattern
<1>6. UnknownUnbound(s) = t
  BY DEF UnknownUnbound, U, R
<1> HIDE DEF a, g, m, n
<1>7. \A k \in 1..n : h[k] = Unbound(s[Nth(U, k)]) /\ h[k] \in AccessPattern
  BY <1>3, <1>4, <1>5
<1>8. h \in Seq(Section) /\ Len(h) = n /\ DOMAIN h = 1..n
  <2>1. h \in [1..n -> Section]
    BY <1>3, <1>7 DEF Section
  <2> QED
    BY <1>3, <2>1
<1> HIDE DEF h
<1>9. /\ t \in Seq(Section) /\ DOMAIN t = 1..(m + n)
      /\ \A k \in 1..m : t[k] = a[k]
      /\ \A k \in 1..(m + n) : k \notin 1..m => k - m \in 1..n /\ t[k] = h[k - m]
  <2>1. /\ t \in Seq(Section) /\ Len(t) = m + n
        /\ \A i \in 1..(m + n) : t[i] = IF i <= m THEN a[i] ELSE h[i - m]
    BY <1>2, <1>8, ConcatProperties
  <2> HIDE DEF t
  <2>2. DOMAIN t = 1..(m + n)
    BY <2>1
  <2> QED
    BY <1>2, <1>3, <2>1, <2>2
<1> HIDE DEF t
\* Position i of the result holds what was at position src(i).
<1> DEFINE src(i) == IF i \in 1..m THEN Nth(R, i) ELSE Nth(U, i - m)
<1>10. \A i \in DOMAIN t : /\ i \in 1..m => src(i) \in R /\ t[i] = s[src(i)]
                           /\ i \notin 1..m => src(i) \in U /\ t[i] = Unbound(s[src(i)])
  BY <1>2, <1>3, <1>7, <1>9
<1>11. \A i, j \in DOMAIN t : src(i) = src(j) => i = j
  <2> TAKE i, j \in DOMAIN t
  <2> HAVE src(i) = src(j)
  <2>1. R \cap U = {}
    BY DEF R
  <2>2. i \in 1..m <=> j \in 1..m
    BY <1>10, <2>1
  <2>3. CASE i \in 1..m
    BY <1>2, <2>2, <2>3
  <2>4. CASE i \notin 1..m
    <3>1. i - m \in 1..n /\ j - m \in 1..n /\ Nth(U, i - m) = Nth(U, j - m)
      BY <1>9, <2>2, <2>4
    <3>2. i - m = j - m
      BY <1>3, <3>1
    <3> QED
      BY <1>2, <1>3, <1>9, <3>2
  <2> QED
    BY <2>3, <2>4
<1>12. \A i \in Patterns(t) : src(i) \in Patterns(s) /\ t[i].name = s[src(i)].name
  BY <1>1, <1>4, <1>5, <1>10 DEF Patterns, R
<1>13. \A i \in Patterns(t) : t[i].filename # NoFile => t[i] = s[src(i)]
  BY <1>4, <1>5, <1>10 DEF Patterns
<1>14. \A i \in Patterns(t) : t[i].filename \in listed \cup {NoFile}
  <2> TAKE i \in Patterns(t)
  <2>1. CASE i \in 1..m
    BY <1>10, <1>12, <2>1 DEF Patterns, R, U, Unknown
  <2>2. CASE i \notin 1..m
    BY <1>4, <1>5, <1>10, <2>2 DEF Patterns
  <2> QED
    BY <2>1, <2>2
<1>15. \A i \in Patterns(t) : i \in DOMAIN t
  BY DEF Patterns
<1> HIDE DEF src
<1>16. DistinctNames(s) => DistinctNames(t)
  BY <1>11, <1>12, <1>15 DEF DistinctNames
<1>17. DistinctLuns(s) => DistinctLuns(t)
  BY <1>11, <1>12, <1>13, <1>15 DEF DistinctLuns
<1>18. ASSUME NoFile \notin listed
       PROVE  SameOrder(s, t, listed)
  <2> DEFINE f == [k \in 1..m |-> Nth(R, k)]
  <2>1. \A k, l \in 1..m : k < l => Nth(R, k) < Nth(R, l)
    <3>1. Len(s) \in Nat /\ R \in SUBSET (1..Len(s))
      BY <1>1
    <3> QED
      BY <3>1, NthOrder DEF m
  <2>2. /\ f \in [1..m -> DOMAIN s] /\ \A k, l \in 1..m : k < l => f[k] < f[l]
        /\ 1..m \subseteq DOMAIN t /\ \A k \in 1..m : t[k] = s[f[k]]
    BY <1>1, <1>2, <1>3, <1>9, <2>1
  <2>3. \A k \in BoundIn(t, listed) : k \in 1..m
    BY <1>4, <1>5, <1>10, <1>18 DEF BoundIn, Patterns
  <2>4. \A i \in BoundIn(s, listed) : \E k \in 1..m : f[k] = i
    <3>1. BoundIn(s, listed) \subseteq R
      BY DEF BoundIn, Patterns, R, U, Unknown
    <3>2. \A i \in R : \E k \in 1..m : Nth(R, k) = i
      BY <1>1, KeptProperty DEF m
    <3> QED
      BY <3>1, <3>2
  <2> HIDE DEF f
  <2> QED
    BY <1>2, <1>9, <2>2, <2>3, <2>4, SameOrderFrom
<1> QED
  BY <1>6, <1>9, <1>14, <1>16, <1>17, <1>18

\* What a page offers is made of the sections it was rendered from.
LEMMA RenderedType ==
    ASSUME NEW s \in Seq(Section), lvs \in SUBSET Files
    PROVE  Rendered(s) \in Page
<1>1. \A i \in DOMAIN s : i \in Nat /\ s[i] \in Section
  OBVIOUS
<1>2. \A i \in Patterns(s) : SectionName(s, i) \in Nat \X AccessPattern
  BY <1>1 DEF Patterns, SectionName, Section, AuthCredential
<1>3. \A i \in BoundTo(s, NoFile) : SectionName(s, i) \in Nat \X UnboundPattern
  BY <1>2 DEF BoundTo, SectionName, UnboundPattern
<1>4. \A i \in Credentials(s) : SectionName(s, i) \in Nat \X AuthCredential
  BY <1>1 DEF Credentials, SectionName, Section, AccessPattern
<1> QED
  BY <1>2, <1>3, <1>4 DEF Rendered, FilledUp, Page, listed

\* caching.apply sets each array's write cache on or off, or leaves it.
LEMMA CachingType ==
    ASSUME NEW s, NEW vols, NEW w \in [Arrays -> BOOLEAN],
           NEW c \in CachingOutcomes(s, vols, w)
    PROVE  c \in [Arrays -> BOOLEAN]
<1>1. CachingApplied(s, vols) \in [Arrays -> BOOLEAN]
  BY DEF CachingApplied
<1> QED
  BY <1>1 DEF CachingOutcomes

-----------------------------------------------------------------------------
\* The inductive invariant: handlers find the section to replace by the name
\* of a pattern, so that LUNs stay distinct only as long as names are.
IInv == TypeOK /\ UniqueNames /\ UniqueLuns

\* Nothing is exported at first, so nothing can collide.
LEMMA InitIInv == Init => IInv
<1> SUFFICES ASSUME Init PROVE IInv
  OBVIOUS
<1>1. Patterns(scst) = {}
  BY DEF Init, Patterns
<1>2. kernel \in Kernel
  BY DEF Init, EmptyKernel, Kernel
<1>3. scst \in Seq(Section)
  BY DEF Init
<1>4. TypeOK
  BY <1>2, <1>3 DEF Init, TypeOK
<1> QED
  BY <1>1, <1>4 DEF IInv, UniqueNames, UniqueLuns, DistinctNames, DistinctLuns

\* Rendering a page, whether or not Daemon.apply fails in it.
LEMMA PageCase ==
    ASSUME IInv, NEW b \in Browsers, PageLoad(b)
    PROVE  IInv'
<1> DEFINE s == UnknownUnbound(scst)
           k == rem_target(kernel, UNION {Detached(scst[i], devices, sessions) : i \in Unknown(scst)})
<1>1. s \in Seq(Section) /\ DistinctNames(s) /\ DistinctLuns(s)
  BY UnknownUnboundProperty DEF IInv, TypeOK, UniqueNames, UniqueLuns
<1>2. k \in Kernel
  BY RemTargetType DEF IInv, TypeOK
<1>3. Rendered(s) \in Page
  BY <1>1, RenderedType DEF IInv, TypeOK
<1> HIDE DEF s, k
<1>4. /\ scst' = s
      /\ kernel' \in Applied(s, devices, k) \cup ApplyRaised(s, devices, k)
      /\ \/ page' = [page EXCEPT ![b] = Rendered(s)]
         \/ page' = [page EXCEPT ![b] = NoPage]
      /\ sessions' = sessions \cap Targets(kernel')
      /\ UNCHANGED <<devices, lvs, arrays, writecache>>
  BY DEF PageLoad, s, k
<1>5. kernel' \in Kernel
  BY <1>1, <1>2, <1>4, ApplyType DEF IInv, TypeOK
<1>6. page' \in [Browsers -> Page \cup {NoPage}]
  BY <1>3, <1>4 DEF IInv, TypeOK
<1>7. TypeOK'
  BY <1>1, <1>4, <1>5, <1>6 DEF IInv, TypeOK
<1> QED
  BY <1>1, <1>4, <1>7 DEF IInv, UniqueNames, UniqueLuns

\* A handler that leaves a good store and values of the right types.
LEMMA HandlerCase ==
    ASSUME IInv, NEW b \in Browsers, Submitted(b),
           scst' \in Seq(Section), DistinctNames(scst'), DistinctLuns(scst'),
           kernel' \in Kernel,
           sessions' \in SUBSET Iqns, devices' \in SUBSET Files, lvs' \in SUBSET Files, arrays' \in SUBSET Arrays,
           writecache' \in [Arrays -> BOOLEAN]
    PROVE  IInv'
<1>1. page' \in [Browsers -> Page \cup {NoPage}]
  BY DEF IInv, TypeOK, Submitted
<1>2. TypeOK'
  BY <1>1 DEF TypeOK
<1> QED
  BY <1>2 DEF IInv, UniqueNames, UniqueLuns

\* A handler that returns early changes nothing but the page.
LEMMA RefuseCase ==
    ASSUME IInv, NEW b \in Browsers, Refuse(b)
    PROVE  IInv'
<1>1. /\ Submitted(b)
      /\ UNCHANGED <<scst, kernel, sessions, devices, lvs, arrays, writecache>>
  BY DEF Refuse
<1>2. TypeOK /\ DistinctNames(scst) /\ DistinctLuns(scst)
  BY DEF IInv, UniqueNames, UniqueLuns
<1>3. DistinctNames(scst') /\ DistinctLuns(scst')
  BY <1>1, <1>2
<1> QED
  BY <1>1, <1>2, <1>3, HandlerCase DEF TypeOK

\* The pattern a button is for, if the store still has it.
LEMMA FoundPattern ==
    ASSUME TypeOK, NEW b \in Browsers, Shown(b), NEW name, Found(scst, name),
           name \in page[b].unbound \cup page[b].unbind
    PROVE  /\ name[2] \in AccessPattern
           /\ name[1] \in Patterns(scst) /\ scst[name[1]] = name[2]
           /\ name \in page[b].unbound => name[2].filename = NoFile
<1>1. page[b] \in Page
  BY DEF TypeOK, Shown
<1>2. name \in page[b].unbound => name[2] \in AccessPattern /\ name[2].filename = NoFile
  BY <1>1 DEF Page, UnboundPattern
<1>3. name \in page[b].unbind => name[2] \in AccessPattern
  BY <1>1 DEF Page
<1>4. name[1] \in DOMAIN scst /\ scst[name[1]] = name[2]
  BY DEF Found
<1> QED
  BY <1>2, <1>3, <1>4 DEF Patterns, AccessPattern

\* The pattern a form describes is unbound and has the form's name.
LEMMA PatternType ==
    ASSUME NEW n \in Names, NEW l \in Luns, NEW fl \in Flags
    PROVE  /\ Pattern(n, l, fl) \in AccessPattern
           /\ Pattern(n, l, fl).name = n /\ Pattern(n, l, fl).filename = NoFile
BY FlagsAssumption DEF Pattern, AccessPattern

\* Creating a pattern: bound patterns are all still there, unchanged.
LEMMA NewCase ==
    ASSUME IInv, NEW b \in Browsers, NEW n \in Names, NEW l \in Luns, NEW fl \in Flags,
           scst_access_pattern_new(b, n, l, fl)
    PROVE  IInv' /\ BoundPatterns(scst') = BoundPatterns(scst)
<1>1. CASE NameExists(n)
  <2>1. Refuse(b) /\ scst' = scst
    BY <1>1 DEF scst_access_pattern_new, Refuse
  <2> QED
    BY <2>1, RefuseCase
<1>2. CASE ~NameExists(n)
  <2> DEFINE p == Pattern(n, l, fl)
             t == Append(scst, p)
  <2>1. /\ scst' = t /\ Submitted(b)
        /\ UNCHANGED <<kernel, sessions, devices, lvs, arrays, writecache>>
    BY <1>2 DEF scst_access_pattern_new
  <2>2. p \in Section /\ p.name = n /\ p.filename = NoFile
    BY PatternType DEF Section
  <2>3. TypeOK /\ scst \in Seq(Section) /\ DistinctNames(scst) /\ DistinctLuns(scst)
    BY DEF IInv, TypeOK, UniqueNames, UniqueLuns
  <2>4. \A i \in Patterns(scst) : scst[i].name # p.name
    BY <1>2, <2>2 DEF NameExists
  <2> HIDE DEF p
  <2>5. /\ t \in Seq(Section) /\ DistinctNames(t) /\ DistinctLuns(t)
        /\ \A i \in Patterns(t) : (i \in Patterns(scst) /\ t[i] = scst[i]) \/ t[i] = p
        /\ \A i \in Patterns(scst) : i \in Patterns(t) /\ t[i] = scst[i]
    BY <2>2, <2>3, <2>4, AppendDistinct
  <2> HIDE DEF t
  <2>6. BoundPatterns(t) = BoundPatterns(scst)
    BY <2>2, <2>5 DEF BoundPatterns
  <2>7. IInv'
    BY <2>1, <2>3, <2>5, HandlerCase DEF TypeOK
  <2> QED
    BY <2>1, <2>6, <2>7
<1> QED
  BY <1>1, <1>2

\* Deleting: the section found is unbound, and no other has its name.
LEMMA DeleteCase ==
    ASSUME IInv, NEW b \in Browsers, NEW name, scst_access_pattern_delete(b, name)
    PROVE  IInv' /\ BoundPatterns(scst') = BoundPatterns(scst)
<1>1. CASE ~Found(scst, name)
  <2>1. Refuse(b) /\ scst' = scst
    BY <1>1 DEF scst_access_pattern_delete, Refuse
  <2> QED
    BY <2>1, RefuseCase
<1>2. CASE Found(scst, name)
  <2> DEFINE n == name[2].name
             t == delete_by_name(scst, n)
  <2>1. /\ scst' = t /\ Submitted(b)
        /\ UNCHANGED <<kernel, sessions, devices, lvs, arrays, writecache>>
    BY <1>2 DEF scst_access_pattern_delete
  <2>2. TypeOK /\ scst \in Seq(Section) /\ DistinctNames(scst) /\ DistinctLuns(scst)
    BY DEF IInv, TypeOK, UniqueNames, UniqueLuns
  <2>3. /\ n \in Names /\ name[1] \in Patterns(scst) /\ scst[name[1]].name = n
        /\ scst[name[1]].filename = NoFile
    BY <1>2, <2>2, FoundPattern DEF scst_access_pattern_delete, AccessPattern
  <2> HIDE DEF n
  <2>4. /\ t \in Seq(Section) /\ DistinctNames(t) /\ DistinctLuns(t)
        /\ \A i \in Patterns(t) : \E j \in Patterns(scst) : t[i] = scst[j] /\ scst[j].name # n
        /\ \A j \in Patterns(scst) : scst[j].name # n => \E i \in Patterns(t) : t[i] = scst[j]
    BY <2>2, <2>3, DeleteByName
  <2> HIDE DEF t
  <2>5. \A j \in Patterns(scst) : scst[j].filename # NoFile => scst[j].name # n
    BY <2>2, <2>3 DEF DistinctNames
  <2>6. BoundPatterns(t) = BoundPatterns(scst)
    BY <2>4, <2>5 DEF BoundPatterns
  <2>7. IInv'
    BY <2>1, <2>2, <2>4, HandlerCase DEF TypeOK
  <2> QED
    BY <2>1, <2>6, <2>7
<1> QED
  BY <1>1, <1>2

\* Editing: the name saved is the edited pattern's or a new one.
LEMMA EditCase ==
    ASSUME IInv, NEW b \in Browsers, NEW name,
           NEW n \in Names, NEW l \in Luns, NEW fl \in Flags,
           scst_access_pattern_edit(b, name, n, l, fl)
    PROVE  IInv' /\ BoundPatterns(scst') = BoundPatterns(scst)
<1>1. CASE ~Found(scst, name) \/ (n # name[2].name /\ NameExists(n))
  <2>1. Refuse(b) /\ scst' = scst
    BY <1>1 DEF scst_access_pattern_edit, Refuse
  <2> QED
    BY <2>1, RefuseCase
<1>2. CASE Found(scst, name) /\ (n = name[2].name \/ ~NameExists(n))
  <2> DEFINE p == Pattern(n, l, fl)
             t == save(scst, p)
  <2>1. /\ scst' = t /\ Submitted(b)
        /\ UNCHANGED <<kernel, sessions, devices, lvs, arrays, writecache>>
    BY <1>2 DEF scst_access_pattern_edit
  <2>2. TypeOK /\ scst \in Seq(Section) /\ DistinctNames(scst) /\ DistinctLuns(scst)
    BY DEF IInv, TypeOK, UniqueNames, UniqueLuns
  <2>3. p \in AccessPattern /\ p.name = n /\ p.filename = NoFile
    BY PatternType
  <2>4. /\ name[1] \in Patterns(scst) /\ scst[name[1]] = name[2]
        /\ scst[name[1]].filename = NoFile
    BY <1>2, <2>2, FoundPattern DEF scst_access_pattern_edit
  \* No bound pattern has the name that is saved.
  <2>5. \A j \in Patterns(scst) : scst[j].filename # NoFile => scst[j].name # n
    <3>1. CASE n = name[2].name
      BY <2>2, <2>4, <3>1 DEF DistinctNames
    <3>2. CASE ~NameExists(n)
      BY <3>2 DEF NameExists
    <3> QED
      BY <1>2, <3>1, <3>2
  <2> HIDE DEF p
  <2>6. /\ t \in Seq(Section) /\ DistinctNames(t) /\ DistinctLuns(t)
        /\ \A i \in Patterns(t) :
              t[i] = p \/ \E j \in Patterns(scst) : t[i] = scst[j] /\ scst[j].name # p.name
        /\ \A j \in Patterns(scst) : scst[j].name # p.name => \E i \in Patterns(t) : t[i] = scst[j]
    BY <2>2, <2>3, SaveDistinct
  <2> HIDE DEF t
  <2>7. BoundPatterns(t) = BoundPatterns(scst)
    BY <2>3, <2>5, <2>6 DEF BoundPatterns
  <2>8. IInv'
    BY <2>1, <2>2, <2>6, HandlerCase DEF TypeOK
  <2> QED
    BY <2>1, <2>7, <2>8
<1> QED
  BY <1>1, <1>2
-----------------------------------------------------------------------------
\* Binding, and taking the binding back when Daemon.apply fails.
LEMMA BindCase ==
    ASSUME IInv, NEW b \in Browsers, NEW name, NEW f, scst_access_pattern_bind(b, name, f)
    PROVE  IInv'
<1> DEFINE refused == \/ ~Found(scst, name)
                      \/ LunBusy(f, name[2].lun)
                      \/ name[2].lun # 0 /\ ~LunBusy(f, 0)
           p == [name[2] EXCEPT !.filename = f]
           s == save(scst, p)
<1>1. CASE refused
  <2>1. Refuse(b)
    BY <1>1 DEF scst_access_pattern_bind
  <2> QED
    BY <2>1, RefuseCase
<1>2. CASE ~refused
  <2>1. TypeOK /\ scst \in Seq(Section) /\ DistinctNames(scst) /\ DistinctLuns(scst)
    BY DEF IInv, TypeOK, UniqueNames, UniqueLuns
  <2>2. f \in Files
    BY <2>1 DEF scst_access_pattern_bind, Shown, TypeOK, Page
  <2>3. /\ p \in AccessPattern /\ p.filename = f /\ p.lun = name[2].lun
        /\ Unbound(p) \in AccessPattern /\ Unbound(p).filename = NoFile
    <3>1. name[2] \in AccessPattern
      BY <1>2, <2>1, FoundPattern DEF scst_access_pattern_bind
    <3> QED
      BY <2>2, <3>1 DEF AccessPattern, Unbound
  <2>4. \A i \in Patterns(scst) : scst[i].filename = p.filename => scst[i].lun # p.lun
    BY <1>2, <2>3 DEF LunBusy, BoundTo
  <2>5. \/ /\ scst' = s
           /\ kernel' \in Applied(s, devices, kernel)
           /\ writecache' \in CachingOutcomes(s, listed, writecache)
        \/ /\ scst' = save(s, Unbound(p))
           /\ \E k \in ApplyRaised(s, devices, kernel) :
                 LET r == rem_target(k, Detached(p, devices, sessions \cap Targets(k)))
                 IN  kernel' \in Applied(scst', devices, r) \cup ApplyRaised(scst', devices, r)
           /\ UNCHANGED writecache
    BY <1>2 DEF scst_access_pattern_bind
  <2>6. /\ sessions' = sessions \cap Targets(kernel')
        /\ Submitted(b)
        /\ UNCHANGED <<devices, lvs, arrays>>
    BY <1>2 DEF scst_access_pattern_bind
  <2> HIDE DEF p, refused
  <2>7. s \in Seq(Section) /\ DistinctNames(s) /\ DistinctLuns(s)
    BY <2>1, <2>3, <2>4, SaveDistinct
  <2> HIDE DEF s
  <2>8. save(s, Unbound(p)) \in Seq(Section) /\ DistinctNames(save(s, Unbound(p)))
        /\ DistinctLuns(save(s, Unbound(p)))
    BY <2>3, <2>7, SaveDistinct
  <2>9. scst' \in Seq(Section) /\ DistinctNames(scst') /\ DistinctLuns(scst')
    BY <2>5, <2>7, <2>8
  <2>10. kernel \in Kernel /\ devices \in SUBSET Files /\ sessions \in SUBSET Iqns
    BY <2>1 DEF TypeOK
  <2>11. kernel' \in Kernel
    <3>1. CASE kernel' \in Applied(s, devices, kernel)
      BY <2>7, <2>10, <3>1, ApplyType
    <3>2. CASE \E k \in ApplyRaised(s, devices, kernel) :
                 LET r == rem_target(k, Detached(p, devices, sessions \cap Targets(k)))
                 IN  kernel' \in Applied(scst', devices, r) \cup ApplyRaised(scst', devices, r)
      <4>1. PICK k \in ApplyRaised(s, devices, kernel) :
                 LET r == rem_target(k, Detached(p, devices, sessions \cap Targets(k)))
                 IN  kernel' \in Applied(scst', devices, r) \cup ApplyRaised(scst', devices, r)
        BY <3>2
      <4> DEFINE r == rem_target(k, Detached(p, devices, sessions \cap Targets(k)))
      <4>2. k \in Kernel
        BY <2>7, <2>10, ApplyType
      <4>3. r \in Kernel
        BY <4>2, RemTargetType
      <4>4. kernel' \in Applied(scst', devices, r) \cup ApplyRaised(scst', devices, r)
        BY <4>1
      <4> HIDE DEF r
      <4> QED
        BY <2>9, <2>10, <4>3, <4>4, ApplyType
    <3> QED
      BY <2>5, <3>1, <3>2
  <2>12. writecache' \in [Arrays -> BOOLEAN]
    BY <2>1, <2>5, CachingType DEF TypeOK
  <2>13. sessions' \in SUBSET Iqns /\ devices' \in SUBSET Files /\ lvs' \in SUBSET Files /\ arrays' \in SUBSET Arrays
    BY <2>1, <2>6 DEF TypeOK
  <2> QED
    BY <2>6, <2>9, <2>11, <2>12, <2>13, HandlerCase
<1> QED
  BY <1>1, <1>2

\* Unbinding, whether or not the commands it ends with fail.
LEMMA UnbindCase ==
    ASSUME IInv, NEW b \in Browsers, NEW name, scst_access_pattern_unbind(b, name)
    PROVE  IInv'
<1> DEFINE p == Unbound(name[2])
           s == save(scst, p)
           k == rem_target(kernel, Detached(name[2], devices, sessions))
<1>1. CASE ~Found(scst, name)
  <2>1. Refuse(b)
    BY <1>1 DEF scst_access_pattern_unbind
  <2> QED
    BY <2>1, RefuseCase
<1>2. CASE Found(scst, name)
  <2>1. TypeOK /\ scst \in Seq(Section) /\ DistinctNames(scst) /\ DistinctLuns(scst)
    BY DEF IInv, TypeOK, UniqueNames, UniqueLuns
  <2>2. p \in AccessPattern /\ p.filename = NoFile
    <3>1. name[2] \in AccessPattern
      BY <1>2, <2>1, FoundPattern DEF scst_access_pattern_unbind
    <3> QED
      BY <3>1 DEF AccessPattern, Unbound
  <2>3. kernel \in Kernel /\ devices \in SUBSET Files
    BY <2>1 DEF TypeOK
  <2>4. k \in Kernel
    BY <2>3, RemTargetType
  <2>5. /\ scst' = s
        /\ kernel' \in Applied(s, devices, k) \cup ApplyRaised(s, devices, k)
        /\ sessions' = sessions \cap Targets(kernel')
        /\ writecache' \in CachingOutcomes(s, listed, writecache) \cup {writecache}
        /\ Submitted(b)
        /\ UNCHANGED <<devices, lvs, arrays>>
    BY <1>2 DEF scst_access_pattern_unbind
  <2> HIDE DEF p, k
  <2>6. s \in Seq(Section) /\ DistinctNames(s) /\ DistinctLuns(s)
    BY <2>1, <2>2, SaveDistinct
  <2> HIDE DEF s
  <2>7. kernel' \in Kernel
    BY <2>3, <2>4, <2>5, <2>6, ApplyType
  <2>8. writecache' \in [Arrays -> BOOLEAN]
    BY <2>1, <2>5, CachingType DEF TypeOK
  <2>9. sessions' \in SUBSET Iqns /\ devices' \in SUBSET Files /\ lvs' \in SUBSET Files /\ arrays' \in SUBSET Arrays
    BY <2>1, <2>5 DEF TypeOK
  <2> QED
    BY <2>5, <2>6, <2>7, <2>8, <2>9, HandlerCase
<1> QED
  BY <1>1, <1>2

\* Adding a credential, and taking it back when Daemon.apply fails.
LEMMA CredentialAddCase ==
    ASSUME IInv, NEW b \in Browsers, NEW u \in Users, NEW f, scst_auth_credential_add(b, u, f)
    PROVE  IInv'
<1> DEFINE refused == \E i \in Credentials(scst) : scst[i].username = u /\ scst[i].filename = f
           c == [type |-> "auth-credential", username |-> u, filename |-> f]
           s == Append(scst, c)
<1>1. CASE refused
  <2>1. Refuse(b)
    BY <1>1 DEF scst_auth_credential_add
  <2> QED
    BY <2>1, RefuseCase
<1>2. CASE ~refused
  <2>1. TypeOK /\ scst \in Seq(Section) /\ DistinctNames(scst) /\ DistinctLuns(scst)
    BY DEF IInv, TypeOK, UniqueNames, UniqueLuns
  <2>2. f \in Files
    BY <2>1 DEF scst_auth_credential_add, Shown, TypeOK, Page
  <2>3. c \in Section /\ c.type # "access-pattern"
    BY <2>2 DEF Section, AuthCredential
  <2>4. kernel \in Kernel /\ devices \in SUBSET Files
    BY <2>1 DEF TypeOK
  <2>5. /\ \/ /\ scst' = s
              /\ kernel' \in Applied(s, devices, kernel) \cup ApplyRaised(s, devices, kernel)
           \/ /\ scst' = delete_by_username_and_filename(s, u, f)
              /\ \E k \in ApplyRaised(s, devices, kernel) :
                    kernel' \in {k} \cup Applied(scst', devices, k) \cup ApplyRaised(scst', devices, k)
        /\ sessions' = sessions \cap Targets(kernel')
        /\ Submitted(b)
        /\ UNCHANGED <<devices, lvs, arrays, writecache>>
    BY <1>2 DEF scst_auth_credential_add
  <2> HIDE DEF c, refused
  <2>6. s \in Seq(Section) /\ DistinctNames(s) /\ DistinctLuns(s)
    BY <2>1, <2>3, AppendDistinct
  <2> HIDE DEF s
  <2>7. scst' \in Seq(Section) /\ DistinctNames(scst') /\ DistinctLuns(scst')
    BY <2>5, <2>6, CredentialDistinct
  <2>8. kernel' \in Kernel
    BY <2>4, <2>5, <2>6, <2>7, ApplyType
  <2>9. /\ sessions' \in SUBSET Iqns /\ devices' \in SUBSET Files /\ lvs' \in SUBSET Files /\ arrays' \in SUBSET Arrays
        /\ writecache' \in [Arrays -> BOOLEAN]
    BY <2>1, <2>5 DEF TypeOK
  <2> QED
    BY <2>5, <2>7, <2>8, <2>9, HandlerCase
<1> QED
  BY <1>1, <1>2

\* Deleting a credential.
LEMMA CredentialDeleteCase ==
    ASSUME IInv, NEW b \in Browsers, NEW name, scst_auth_credential_delete(b, name)
    PROVE  IInv'
<1>1. CASE ~Found(scst, name)
  <2>1. Refuse(b)
    BY <1>1 DEF scst_auth_credential_delete
  <2> QED
    BY <2>1, RefuseCase
<1>2. CASE Found(scst, name)
  <2>1. TypeOK /\ scst \in Seq(Section) /\ DistinctNames(scst) /\ DistinctLuns(scst)
    BY DEF IInv, TypeOK, UniqueNames, UniqueLuns
  <2>2. /\ scst' = delete_by_username_and_filename(scst, name[2].username, name[2].filename)
        /\ kernel' \in Applied(scst', devices, kernel) \cup ApplyRaised(scst', devices, kernel)
        /\ sessions' = sessions \cap Targets(kernel')
        /\ Submitted(b)
        /\ UNCHANGED <<devices, lvs, arrays, writecache>>
    BY <1>2 DEF scst_auth_credential_delete
  <2>3. scst' \in Seq(Section) /\ DistinctNames(scst') /\ DistinctLuns(scst')
    BY <2>1, <2>2, CredentialDistinct
  <2>4. kernel' \in Kernel
    BY <2>1, <2>2, <2>3, ApplyType DEF TypeOK
  <2>5. /\ sessions' \in SUBSET Iqns /\ devices' \in SUBSET Files /\ lvs' \in SUBSET Files /\ arrays' \in SUBSET Arrays
        /\ writecache' \in [Arrays -> BOOLEAN]
    BY <2>1, <2>2 DEF TypeOK
  <2> QED
    BY <2>2, <2>3, <2>4, <2>5, HandlerCase
<1> QED
  BY <1>1, <1>2
-----------------------------------------------------------------------------
\* Creating and removing volumes does not touch the store.
LEMMA VolumeCase ==
    ASSUME IInv, NEW b \in Browsers, NEW f \in Files, VolumeAdd(b, f) \/ VolumeRemove(b, f)
    PROVE  IInv'
<1>1. TypeOK /\ DistinctNames(scst) /\ DistinctLuns(scst)
  BY DEF IInv, UniqueNames, UniqueLuns
<1>2. /\ Submitted(b) /\ UNCHANGED <<scst, kernel, sessions, arrays, writecache>>
      /\ devices' \in SUBSET Files /\ lvs' \in SUBSET Files /\ arrays' \in SUBSET Arrays
  BY <1>1 DEF VolumeAdd, VolumeRemove, TypeOK
<1>3. DistinctNames(scst') /\ DistinctLuns(scst')
  BY <1>1, <1>2
<1> QED
  BY <1>1, <1>2, <1>3, HandlerCase DEF TypeOK

\* Nor does resizing them, which only applies the store again.
LEMMA VolumeResizeCase ==
    ASSUME IInv, NEW b \in Browsers, NEW f \in Files, VolumeResize(b, f)
    PROVE  IInv'
<1>1. TypeOK /\ DistinctNames(scst) /\ DistinctLuns(scst)
  BY DEF IInv, UniqueNames, UniqueLuns
<1>2. /\ kernel' \in Applied(scst, devices, kernel) \cup ApplyRaised(scst, devices, kernel)
      /\ sessions' = sessions \cap Targets(kernel')
      /\ Submitted(b) /\ UNCHANGED <<scst, devices, lvs, arrays, writecache>>
  BY DEF VolumeResize
<1>3. kernel' \in Kernel
  <2>1. kernel \in Kernel /\ scst \in Seq(Section) /\ devices \in SUBSET Files
    BY <1>1 DEF TypeOK
  <2> QED
    BY <1>2, <2>1, ApplyType
<1>4. DistinctNames(scst') /\ DistinctLuns(scst')
  BY <1>1, <1>2
<1>5. sessions' \in SUBSET Iqns
  BY <1>1, <1>2 DEF TypeOK
<1> QED
  BY <1>1, <1>2, <1>3, <1>4, <1>5, HandlerCase DEF TypeOK

\* Neither do array failures, initiators and reboots.
LEMMA SurroundingsCase ==
    ASSUME IInv, Surroundings
    PROVE  IInv'
<1>1. TypeOK /\ DistinctNames(scst) /\ DistinctLuns(scst)
  BY DEF IInv, UniqueNames, UniqueLuns
<1>2. scst' = scst
  BY DEF Surroundings, ArrayFails, Connect, Disconnect, Reboot
<1>3. ASSUME NEW a \in Arrays, ArrayFails(a) PROVE TypeOK'
  BY <1>1, <1>3 DEF ArrayFails, TypeOK
<1>4. ASSUME NEW t \in Iqns, Connect(t) \/ Disconnect(t) PROVE TypeOK'
  BY <1>1, <1>4 DEF Connect, Disconnect, TypeOK
<1>5. ASSUME NEW found \in SUBSET Arrays, Reboot(found) PROVE TypeOK'
  <2>1. EmptyKernel \in Kernel
    BY DEF EmptyKernel, Kernel
  <2>2. scst \in Seq(Section) /\ devices' \in SUBSET Files
    BY <1>1, <1>5 DEF TypeOK, Reboot
  <2>3. kernel' \in Kernel
    <3>1. kernel' \in Applied(scst, devices', EmptyKernel) \cup ApplyRaised(scst, devices', EmptyKernel)
      BY <1>5 DEF Reboot
    <3> QED
      BY <2>1, <2>2, <3>1, ApplyType
  <2>4. writecache' \in [Arrays -> BOOLEAN]
    BY <1>5, CachingType DEF Reboot
  <2> QED
    BY <1>1, <1>5, <2>2, <2>3, <2>4 DEF Reboot, TypeOK
<1>6. TypeOK'
  BY <1>3, <1>4, <1>5 DEF Surroundings
<1> QED
  BY <1>1, <1>2, <1>6 DEF IInv, UniqueNames, UniqueLuns

\* Every step of the system keeps the invariant.
LEMMA NextIInv == IInv /\ [Next]_vars => IInv'
<1> SUFFICES ASSUME IInv, [Next]_vars PROVE IInv'
  OBVIOUS
<1>1. CASE UNCHANGED vars
  BY <1>1 DEF vars, IInv, TypeOK, UniqueNames, UniqueLuns, DistinctNames, DistinctLuns, Patterns
<1>2. CASE Surroundings
  BY <1>2, SurroundingsCase
<1>3. ASSUME NEW b \in Browsers, Request(b)
      PROVE  IInv'
  <2>1. CASE PageLoad(b)
    BY <2>1, PageCase
  <2>2. CASE InvalidForm(b)
    BY <2>2, RefuseCase DEF InvalidForm
  <2>3. CASE \E n \in Names, l \in Luns, fl \in Flags : scst_access_pattern_new(b, n, l, fl)
    BY <2>3, NewCase
  <2>4. CASE \E name \in page[b].unbound : scst_access_pattern_delete(b, name)
    BY <2>4, DeleteCase
  <2>5. CASE \E name \in page[b].unbound, n \in Names, l \in Luns, fl \in Flags :
               scst_access_pattern_edit(b, name, n, l, fl)
    BY <2>5, EditCase
  <2>6. CASE \E name \in page[b].unbound, f \in page[b].volumes : scst_access_pattern_bind(b, name, f)
    BY <2>6, BindCase
  <2>7. CASE \E name \in page[b].unbind : scst_access_pattern_unbind(b, name)
    BY <2>7, UnbindCase
  <2>8. CASE \E u \in Users, f \in page[b].volumes : scst_auth_credential_add(b, u, f)
    BY <2>8, CredentialAddCase
  <2>9. CASE \E name \in page[b].credentials : scst_auth_credential_delete(b, name)
    BY <2>9, CredentialDeleteCase
  <2>10. CASE \E f \in Files : VolumeAdd(b, f) \/ VolumeRemove(b, f)
    BY <2>10, VolumeCase
  <2>11. CASE \E f \in Files : VolumeResize(b, f)
    BY <2>11, VolumeResizeCase
  <2> QED
    BY <1>3, <2>1, <2>2, <2>3, <2>4, <2>5, <2>6, <2>7, <2>8, <2>9, <2>10, <2>11 DEF Request
<1> QED
  BY <1>1, <1>2, <1>3 DEF Next

\* Types, names and LUNs stay right together.
THEOREM Invariance == Spec => []IInv
<1>1. Init => IInv
  BY InitIInv
<1>2. IInv /\ [Next]_vars => IInv'
  BY NextIInv
<1> QED
  BY <1>1, <1>2, PTL DEF Spec

\* The store, the kernel and the pages always have the shape the code reads
\* them with, whichever commands fail.
THEOREM TypeCorrect == Spec => []TypeOK
<1>1. IInv => TypeOK
  BY DEF IInv
<1> QED
  BY <1>1, Invariance, PTL

\* With any number of administrators on stale pages, the name checks of
\* scst_access_pattern_new and _edit keep the names of patterns distinct.
THEOREM NamesStayUnique == Spec => []UniqueNames
<1>1. IInv => UniqueNames
  BY DEF IInv
<1> QED
  BY <1>1, Invariance, PTL

\* The busy check of scst_access_pattern_bind keeps the LUNs of a volume
\* distinct, through saves that move sections, rollbacks and reboots.
THEOREM LunsStayUnique == Spec => []UniqueLuns
<1>1. IInv => UniqueLuns
  BY DEF IInv
<1> QED
  BY <1>1, Invariance, PTL

\* Creating, editing and deleting patterns never changes a bound one.
THEOREM EditsLeaveExports == Spec => EditsKeepExports
<1> DEFINE Edit == \E b \in Browsers, n \in Names, l \in Luns, fl \in Flags :
                       /\ Shown(b)
                       /\ \/ scst_access_pattern_new(b, n, l, fl)
                          \/ \E name \in page[b].unbound :
                                \/ scst_access_pattern_delete(b, name)
                                \/ scst_access_pattern_edit(b, name, n, l, fl)
           Change == BoundPatterns(scst') # BoundPatterns(scst)
<1>1. IInv /\ [Next]_vars => [Change => ~Edit]_vars
  BY NewCase, DeleteCase, EditCase
<1> QED
  BY <1>1, Invariance, PTL DEF Spec, EditsKeepExports

\* The page that is shown after an array failed has unbound its patterns,
\* and the kernel serves none of its volumes while anything is exported.
THEOREM FailedArraysGone == Spec => FailedArraysCleanedUp
<1> DEFINE Cleaned == (\E l \in kernel'.luns : l.filename \notin listed) =>
                          \A b \in Browsers :
                             PageLoad(b) /\ page'[b] # NoPage => Exportable(scst', devices) = {}
<1>1. IInv /\ [Next]_vars => [Cleaned]_vars
  <2> SUFFICES ASSUME IInv, NEW b \in Browsers, PageLoad(b), page'[b] # NoPage,
                      Exportable(scst', devices) # {}, NEW l \in kernel'.luns
               PROVE  l.filename \in listed
    OBVIOUS
  <2> DEFINE s == UnknownUnbound(scst)
  <2>1. s \in Seq(Section) /\ \A i \in Patterns(s) : s[i].filename \in listed \cup {NoFile}
    BY UnknownUnboundProperty DEF IInv, TypeOK
  <2>2. scst' = s /\ \E k : kernel' \in Applied(s, devices, k)
    <3>1. page \in [Browsers -> Page \cup {NoPage}]
      BY DEF IInv, TypeOK
    <3>2. page' # [page EXCEPT ![b] = NoPage]
      BY <3>1
    <3> QED
      BY <3>2 DEF PageLoad
  <2> HIDE DEF s
  <2>3. kernel' = dump(s, devices)
    BY <2>2 DEF Applied
  <2>4. PICK i \in TargetTable(s, devices) : l.filename = s[i].filename
    BY <2>3 DEF dump
  <2>5. i \in Patterns(s) /\ s[i].filename \in devices
    BY <2>4 DEF TargetTable, Exportable, is_binded
  <2>6. NoFile \notin devices
    BY FilesAssumption DEF IInv, TypeOK
  <2> QED
    BY <2>1, <2>4, <2>5, <2>6
<1> QED
  BY <1>1, Invariance, PTL DEF Spec, FailedArraysCleanedUp
=============================================================================
