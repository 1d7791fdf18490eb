------------------------ MODULE IscsiOneAdminProofs ------------------------
(***************************************************************************)
(* What module Iscsi keeps true when one administrator works at a time:    *)
(* LUN 0 comes first and goes last, dump never fails, and, when no command *)
(* fails, the kernel and the write caches follow the store.                *)
(*                                                                         *)
(* The argument has three levels.  What is bound, and that a page's unbind *)
(* buttons are fresh, needs nothing else.  That dump can be written needs  *)
(* that volumes have targets of their own.  That the kernel follows needs  *)
(* that commands do not fail.                                              *)
(***************************************************************************)
EXTENDS IscsiProofs

\* One browser at a time is used: a page is not out of date.
OneBrowser == \A b, c \in Browsers : b = c

\* Volumes have target names of their own: iqn() does not make the same of
\* two of them.
InjectiveIqn == \A f, g \in Files : Iqn[f] = Iqn[g] => f = g

\* Every volume with a bound pattern in B has one with LUN 0.
HasZero(B) == \A p \in B : \E q \in B : q.filename = p.filename /\ q.lun = 0

\* Every volume with an enabled pattern in B has an enabled one with LUN 0.
HasEnabledZero(B) ==
    \A p \in B : p.enabled => \E q \in B : q.enabled /\ q.filename = p.filename /\ q.lun = 0

\* A page offers to unbind LUN 0 only of volumes that have no other LUN.
FreshUnbind ==
    \A b \in Browsers : Shown(b) =>
        \A name \in page[b].unbind :
            name[2].lun = 0 =>
                \A q \in BoundPatterns(scst) : q.filename = name[2].filename => q.lun = 0

\* Volumes LVM lists, and those a page offers, have their device files.
VolumesExist ==
    /\ listed \subseteq devices
    /\ \A b \in Browsers : Shown(b) => page[b].volumes \subseteq devices

\* While a page is shown, patterns are bound to volumes there are.
BoundThere ==
    \A b \in Browsers : Shown(b) => \A p \in BoundPatterns(scst) : p.filename \in lvs

\* What the kernel serves of volumes there are is what the store describes;
\* while a page is shown it serves nothing else.
Synced ==
    Exportable(scst, devices) # {} =>
        /\ Remaining(kernel) = dump(scst, devices)
        /\ \A b \in Browsers : Shown(b) => kernel = dump(scst, devices)

ZeroInv == IInv /\ HasZero(BoundPatterns(scst)) /\ FreshUnbind
ServeInv == ZeroInv /\ HasEnabledZero(BoundPatterns(scst)) /\ VolumesExist
SyncInv == ServeInv /\ BoundThere /\ Synced /\ FirstWriteThroughHonoured

-----------------------------------------------------------------------------
(***************************************************************************)
(* What the handlers do to the patterns that are bound                     *)
(***************************************************************************)

\* The bound patterns are those at positions BoundIn.
LEMMA BoundAre ==
    ASSUME NEW s \in Seq(Section)
    PROVE  /\ BoundPatterns(s) = {s[i] : i \in BoundIn(s, Files)}
           /\ \A p \in BoundPatterns(s) : p \in AccessPattern /\ p.filename \in Files
<1>1. \A i \in Patterns(s) : s[i] \in AccessPattern
  BY DEF Patterns, Section, AuthCredential
<1>2. \A i \in Patterns(s) : s[i].filename # NoFile <=> s[i].filename \in Files
  BY <1>1, FilesAssumption DEF AccessPattern
<1> QED
  BY <1>1, <1>2 DEF BoundPatterns, BoundIn

\* What stays in order stays bound.
LEMMA SameBound ==
    ASSUME NEW s \in Seq(Section), NEW t \in Seq(Section), NEW F \in SUBSET Files,
           SameOrder(s, t, F)
    PROVE  {p \in BoundPatterns(t) : p.filename \in F} = {p \in BoundPatterns(s) : p.filename \in F}
<1>1. PICK g \in [BoundIn(t, F) -> BoundIn(s, F)] :
         /\ \A i \in BoundIn(s, F) : \E k \in BoundIn(t, F) : g[k] = i
         /\ \A k \in BoundIn(t, F) : t[k] = s[g[k]]
  BY DEF SameOrder
<1>2. /\ {p \in BoundPatterns(t) : p.filename \in F} = {t[k] : k \in BoundIn(t, F)}
      /\ {p \in BoundPatterns(s) : p.filename \in F} = {s[k] : k \in BoundIn(s, F)}
  BY BoundAre DEF BoundIn
<1>3. \A i \in BoundIn(s, F) : \E k \in BoundIn(t, F) : t[k] = s[i]
  BY <1>1
<1> QED
  BY <1>1, <1>2, <1>3

LEMMA AllSameBound ==
    ASSUME NEW s \in Seq(Section), NEW t \in Seq(Section), SameOrder(s, t, Files)
    PROVE  BoundPatterns(t) = BoundPatterns(s)
<1>1. {p \in BoundPatterns(t) : p.filename \in Files} = {p \in BoundPatterns(s) : p.filename \in Files}
  BY SameBound
<1>2. /\ \A p \in BoundPatterns(s) : p.filename \in Files
      /\ \A p \in BoundPatterns(t) : p.filename \in Files
  BY BoundAre
<1> QED
  BY <1>1, <1>2

\* Nothing is changed.
LEMMA SameOrderSame ==
    ASSUME NEW s \in Seq(Section), NEW F
    PROVE  SameOrder(s, s, F)
<1> DEFINE g == [k \in BoundIn(s, F) |-> k]
<1>1. /\ g \in [BoundIn(s, F) -> BoundIn(s, F)]
      /\ \A i \in BoundIn(s, F) : \E k \in BoundIn(s, F) : g[k] = i
      /\ \A k \in BoundIn(s, F) : s[k] = s[g[k]]
      /\ \A k, l \in BoundIn(s, F) : k <= l <=> g[k] <= g[l]
  OBVIOUS
<1> HIDE DEF g
<1> QED
  BY <1>1 DEF SameOrder

\* A pattern that is bound and unbound again leaves the others in order.
LEMMA RollbackOrder ==
    ASSUME NEW s \in Seq(Section), NEW p \in AccessPattern,
           \A i \in BoundIn(s, Files) : s[i].name # p.name
    PROVE  /\ save(save(s, p), Unbound(p)) \in Seq(Section)
           /\ SameOrder(s, save(save(s, p), Unbound(p)), Files)
<1> DEFINE n == p.name
           d == delete_by_name(s, n)
           m == Len(d)
           t == Append(d, p)
           K == DOMAIN t \ {i \in Patterns(t) : t[i].name = n}
           c == Cardinality(K)
           e == Kept(t, K)
           u == Unbound(p)
<1>1. n \in Names /\ p \in Section /\ p.type = "access-pattern"
      /\ u \in AccessPattern /\ u \in Section /\ u.name = n /\ u.filename = NoFile
  BY DEF AccessPattern, Section, Unbound
<1>2. /\ d \in Seq(Section) /\ SameOrder(s, d, Files)
      /\ \A i \in Patterns(d) : d[i].name # n
  <2>1. /\ delete_by_name(s, n) \in Seq(Section)
        /\ \A i \in Patterns(delete_by_name(s, n)) :
              \E j \in Patterns(s) : delete_by_name(s, n)[i] = s[j] /\ s[j].name # n
    BY <1>1, DeleteByName
  <2>2. SameOrder(s, delete_by_name(s, n), Files)
    BY <1>1, DeleteOrder
  <2> QED
    BY <2>1, <2>2
<1>3. save(s, p) = t
  BY DEF save
<1> HIDE DEF d
<1>4. /\ t \in Seq(Section) /\ m \in Nat /\ DOMAIN d = 1..m /\ DOMAIN t = 1..(m + 1)
      /\ t[m + 1] = p /\ \A k \in 1..m : t[k] = d[k]
  BY <1>1, <1>2
<1> HIDE DEF t, m, u
<1>4a. save(t, u) = Append(e, u)
  BY <1>1 DEF save, delete_by_name
<1> HIDE DEF n
<1>5. K = 1..m
  <2>1. \A i \in DOMAIN t : i \in 1..m \/ i = m + 1
    BY <1>4
  <2>2. m + 1 \in Patterns(t) /\ t[m + 1].name = n /\ m + 1 \notin 1..m
    BY <1>1, <1>4 DEF Patterns, n
  <2>3. \A i \in 1..m : i \in DOMAIN t /\ (i \in Patterns(t) => t[i].name # n)
    BY <1>2, <1>4 DEF Patterns
  <2> QED
    BY <2>1, <2>2, <2>3
<1> HIDE DEF K
<1>6. /\ e \in Seq(Section) /\ c \in Nat /\ DOMAIN e = 1..c
      /\ \A k \in 1..c : Nth(K, k) \in K /\ e[k] = t[Nth(K, k)]
      /\ \A i \in K : \E k \in 1..c : Nth(K, k) = i
  <2>1. K \in SUBSET DOMAIN t
    BY <1>4, <1>5
  <2> QED
    BY <1>4, <2>1, KeptProperty
<1>7. \A k, l \in 1..c : k < l => Nth(K, k) < Nth(K, l)
  BY <1>4, <1>5, NthOrder
<1> DEFINE h == [k \in 1..c |-> Nth(K, k)]
<1> HIDE DEF e, c
<1>8. /\ h \in [1..c -> DOMAIN d] /\ \A k, l \in 1..c : k < l => h[k] < h[l]
      /\ 1..c \subseteq DOMAIN e /\ \A k \in 1..c : e[k] = d[h[k]]
      /\ \A i \in BoundIn(d, Files) : \E k \in 1..c : h[k] = i
      /\ \A k \in BoundIn(e, Files) : k \in 1..c
  BY <1>4, <1>5, <1>6, <1>7 DEF BoundIn, Patterns
<1> HIDE DEF h
<1>9. SameOrder(d, e, Files)
  BY <1>2, <1>6, <1>8, SameOrderFrom
<1>10. Append(e, u) \in Seq(Section) /\ SameOrder(e, Append(e, u), Files)
  BY <1>1, <1>6, FilesAssumption, SameOrderAppend
<1>11. SameOrder(s, e, Files)
  BY <1>2, <1>6, <1>9, SameOrderTrans
<1>12. SameOrder(s, Append(e, u), Files)
  BY <1>6, <1>10, <1>11, SameOrderTrans
<1> QED
  BY <1>3, <1>4a, <1>10, <1>12 DEF u

-----------------------------------------------------------------------------
(***************************************************************************)
(* The kinds of requests                                                   *)
(***************************************************************************)

\* Nothing that is exported changes and nothing is applied.
Quiet(b) ==
    /\ Submitted(b)
    /\ SameOrder(scst, scst', Files) /\ Permits(scst') = Permits(scst)
    /\ UNCHANGED <<kernel, sessions, devices, lvs, arrays, writecache>>

\* What is bound does not change; if dump can be written and no command
\* fails, the configuration has been applied.
Reapplied(b) ==
    /\ Submitted(b)
    /\ SameOrder(scst, scst', Files)
    /\ UNCHANGED <<devices, lvs, arrays, writecache>>
    /\ Faults = {} /\ HasEnabledZero(BoundPatterns(scst)) =>
          \E k : kernel' \in Applied(scst', devices, k)

\* One pattern is bound, and Daemon.apply has not failed.
Binds(b, p) ==
    /\ Shown(b) /\ p.filename \in page[b].volumes
    /\ p.lun # 0 => \E q \in BoundPatterns(scst) : q.filename = p.filename /\ q.lun = 0
    /\ BoundPatterns(scst') = BoundPatterns(scst) \cup {p}
    /\ kernel' \in Applied(scst', devices, kernel)
    /\ writecache' \in CachingOutcomes(scst', listed, writecache)
    /\ Submitted(b)
    /\ UNCHANGED <<devices, lvs, arrays>>

\* One pattern is unbound.
Unbinds(b, name) ==
    /\ Shown(b) /\ name \in page[b].unbind /\ name[2] \in AccessPattern
    /\ BoundPatterns(scst') = BoundPatterns(scst) \ {name[2]}
    /\ \E k : \/ /\ kernel' \in Applied(scst', devices, k)
               /\ writecache' \in CachingOutcomes(scst', listed, writecache)
            \/ kernel' \in ApplyRaised(scst', devices, k)
    /\ Submitted(b)
    /\ UNCHANGED <<devices, lvs, arrays>>

\* A page is loaded, or an error shown.
Loads(b) ==
    /\ SameOrder(scst, scst', listed)
    /\ BoundPatterns(scst') = {q \in BoundPatterns(scst) : q.filename \in listed}
    /\ \E k : \/ /\ kernel' \in Applied(scst', devices, k)
               /\ page' = [page EXCEPT ![b] = Rendered(scst')]
            \/ /\ kernel' \in ApplyRaised(scst', devices, k)
               /\ page' = [page EXCEPT ![b] = NoPage]
    /\ UNCHANGED <<devices, lvs, arrays, writecache>>

\* When dump can be written and no command fails, Daemon.apply returns.
LEMMA NothingRaised ==
    ASSUME NEW s \in Seq(Section), HasEnabledZero(BoundPatterns(s)), NEW D \in SUBSET Files
    PROVE  /\ ~DumpFails(s, D)
           /\ Faults = {} => \A k : ApplyRaised(s, D, k) = {}
<1>1. ASSUME NEW i \in Exportable(s, D)
      PROVE  \E j \in Exportable(s, D) : SameTarget(s[i], s[j]) /\ s[j].lun = 0
  <2>1. s[i] \in BoundPatterns(s) /\ s[i].enabled /\ s[i].filename \in D
    BY FilesAssumption DEF Exportable, is_binded, BoundPatterns
  <2>2. PICK q \in BoundPatterns(s) : q.enabled /\ q.filename = s[i].filename /\ q.lun = 0
    BY <2>1 DEF HasEnabledZero
  <2>3. PICK j \in Patterns(s) : s[j] = q
    BY DEF BoundPatterns
  <2> QED
    BY <2>1, <2>2, <2>3 DEF Exportable, is_binded, SameTarget
<1>2. ~DumpFails(s, D)
  BY <1>1 DEF DumpFails
<1>3. Faults = {} => \A k : ApplyRaised(s, D, k) = {}
  BY <1>2 DEF ApplyRaised
<1> QED
  BY <1>2, <1>3

\* Early returns, and the handlers that only change unbound patterns.
LEMMA QuietCase ==
    ASSUME IInv, NEW b \in Browsers,
           \/ Refuse(b)
           \/ \E n \in Names, l \in Luns, fl \in Flags : scst_access_pattern_new(b, n, l, fl)
           \/ \E name \in page[b].unbound : scst_access_pattern_delete(b, name)
           \/ \E name \in page[b].unbound, n \in Names, l \in Luns, fl \in Flags :
                 scst_access_pattern_edit(b, name, n, l, fl)
    PROVE  Quiet(b)
<1>1. TypeOK /\ scst \in Seq(Section) /\ DistinctNames(scst)
  BY DEF IInv, TypeOK, UniqueNames
<1>2. BoundIn(scst, Files) \subseteq Patterns(scst)
      /\ \A i \in BoundIn(scst, Files) : scst[i].filename # NoFile
  BY FilesAssumption DEF BoundIn
<1>3. CASE Refuse(b)
  BY <1>1, <1>3, SameOrderSame DEF Refuse, Quiet
<1>4. ASSUME NEW n \in Names, NEW l \in Luns, NEW fl \in Flags,
             scst_access_pattern_new(b, n, l, fl), ~Refuse(b)
      PROVE  Quiet(b)
  <2> DEFINE p == Pattern(n, l, fl)
  <2>1. /\ scst' = Append(scst, p) /\ Submitted(b)
        /\ UNCHANGED <<kernel, sessions, devices, lvs, arrays, writecache>>
    BY <1>4 DEF scst_access_pattern_new
  <2>2. p \in AccessPattern /\ p \in Section /\ p.filename \notin Files
    BY PatternType, FilesAssumption DEF Section
  <2> HIDE DEF p
  <2>3. SameOrder(scst, Append(scst, p), Files) /\ Permits(Append(scst, p)) = Permits(scst)
    BY <1>1, <2>2, SameOrderAppend, PermitsAppend
  <2> QED
    BY <2>1, <2>3 DEF Quiet
<1>5. ASSUME NEW name \in page[b].unbound, scst_access_pattern_delete(b, name), ~Refuse(b)
      PROVE  Quiet(b)
  <2> DEFINE n == name[2].name
  <2>1. /\ scst' = delete_by_name(scst, n) /\ Submitted(b) /\ Found(scst, name) /\ Shown(b)
        /\ UNCHANGED <<kernel, sessions, devices, lvs, arrays, writecache>>
    BY <1>5 DEF scst_access_pattern_delete
  <2>2. /\ n \in Names /\ name[1] \in Patterns(scst) /\ scst[name[1]].name = n
        /\ scst[name[1]].filename = NoFile
    BY <1>1, <2>1, FoundPattern DEF AccessPattern
  <2>3. \A i \in BoundIn(scst, Files) : scst[i].name # n
    BY <1>1, <1>2, <2>2 DEF DistinctNames
  <2> HIDE DEF n
  <2>4. SameOrder(scst, delete_by_name(scst, n), Files) /\ Permits(delete_by_name(scst, n)) = Permits(scst)
    BY <1>1, <2>2, <2>3, DeleteOrder, DeletePermits
  <2> QED
    BY <2>1, <2>4 DEF Quiet
<1>6. ASSUME NEW name \in page[b].unbound, NEW n \in Names, NEW l \in Luns, NEW fl \in Flags,
             scst_access_pattern_edit(b, name, n, l, fl), ~Refuse(b)
      PROVE  Quiet(b)
  <2> DEFINE p == Pattern(n, l, fl)
  <2>1. /\ scst' = save(scst, p) /\ Submitted(b) /\ Found(scst, name) /\ Shown(b)
        /\ n = name[2].name \/ ~NameExists(n)
        /\ UNCHANGED <<kernel, sessions, devices, lvs, arrays, writecache>>
    BY <1>6 DEF scst_access_pattern_edit
  <2>2. name[1] \in Patterns(scst) /\ scst[name[1]] = name[2] /\ scst[name[1]].filename = NoFile
    BY <1>1, <2>1, FoundPattern
  <2>3. p \in AccessPattern /\ p.name = n /\ p.filename \notin Files
    BY PatternType, FilesAssumption
  <2>4. \A i \in BoundIn(scst, Files) : scst[i].name # n
    <3>1. CASE n = name[2].name
      BY <1>1, <1>2, <2>2, <3>1 DEF DistinctNames
    <3>2. CASE ~NameExists(n)
      BY <1>2, <3>2 DEF NameExists
    <3> QED
      BY <2>1, <3>1, <3>2
  <2> HIDE DEF p
  <2>5. SameOrder(scst, save(scst, p), Files) /\ Permits(save(scst, p)) = Permits(scst)
    BY <1>1, <2>3, <2>4, SaveOrder, SavePermits
  <2> QED
    BY <2>1, <2>5 DEF Quiet
<1> QED
  BY <1>3, <1>4, <1>5, <1>6

\* Binding: the LUN that is bound first is 0, and a binding that cannot be
\* applied is taken back.
LEMMA BindEffect ==
    ASSUME IInv, IInv', NEW b \in Browsers, NEW name, NEW f, scst_access_pattern_bind(b, name, f)
    PROVE  Quiet(b) \/ Reapplied(b) \/ \E p \in AccessPattern : Binds(b, p)
<1> DEFINE p == [name[2] EXCEPT !.filename = f]
           s == save(scst, p)
           refused == \/ ~Found(scst, name)
                      \/ LunBusy(f, name[2].lun)
                      \/ name[2].lun # 0 /\ ~LunBusy(f, 0)
<1>1. CASE refused
  BY <1>1, QuietCase DEF scst_access_pattern_bind
<1>2. CASE ~refused
  <2>1. /\ TypeOK /\ scst \in Seq(Section) /\ DistinctNames(scst)
        /\ scst' \in Seq(Section) /\ devices \in SUBSET Files
    BY DEF IInv, TypeOK, UniqueNames
  <2>2. Shown(b) /\ name \in page[b].unbound /\ f \in page[b].volumes
    BY DEF scst_access_pattern_bind
  <2>3. f \in Files /\ f # NoFile
    BY <2>1, <2>2, FilesAssumption DEF Shown, TypeOK, Page
  <2>4. /\ name[2] \in AccessPattern /\ name[2].filename = NoFile
        /\ name[1] \in Patterns(scst) /\ scst[name[1]] = name[2]
    BY <1>2, <2>1, <2>2, FoundPattern
  <2>5. /\ p \in AccessPattern /\ p.filename = f /\ p.lun = name[2].lun /\ p.name = name[2].name
    BY <2>3, <2>4 DEF AccessPattern
  <2>6. \A j \in Patterns(scst) : scst[j].filename # NoFile => scst[j].name # p.name
    BY <2>1, <2>4, <2>5 DEF DistinctNames
  <2>7. p.lun # 0 => \E q \in BoundPatterns(scst) : q.filename = p.filename /\ q.lun = 0
    BY <1>2, <2>3, <2>5 DEF LunBusy, BoundTo, BoundPatterns
  <2>8. \/ /\ scst' = s
           /\ kernel' \in Applied(s, devices, kernel)
           /\ writecache' \in CachingOutcomes(s, listed, writecache)
        \/ /\ scst' = save(s, Unbound(p))
           /\ \E k : kernel' \in Applied(scst', devices, k) \cup ApplyRaised(scst', devices, k)
           /\ UNCHANGED writecache
    BY <1>2 DEF scst_access_pattern_bind
  <2>9. Submitted(b) /\ UNCHANGED <<devices, lvs, arrays>>
    BY <1>2 DEF scst_access_pattern_bind
  <2> HIDE DEF p, refused
  <2>10. /\ s \in Seq(Section)
         /\ \A i \in Patterns(s) : s[i] = p \/ \E j \in Patterns(scst) : s[i] = scst[j]
         /\ \A j \in Patterns(scst) : scst[j].name # p.name => \E i \in Patterns(s) : s[i] = scst[j]
    BY <2>1, <2>5, SaveDistinct
  <2>11. p \in {s[i] : i \in Patterns(s)}
    <3> DEFINE d == delete_by_name(scst, p.name)
    <3>1. p.name \in Names /\ p.type = "access-pattern"
      BY <2>5 DEF AccessPattern
    <3>2. d \in Seq(Section) /\ s = Append(d, p)
      BY <2>1, <3>1, DeleteByName DEF save
    <3> HIDE DEF d, s
    <3>3. Len(d) + 1 \in DOMAIN s /\ s[Len(d) + 1] = p
      BY <2>5, <3>2 DEF Section
    <3> QED
      BY <3>1, <3>3 DEF Patterns
  <2> HIDE DEF s
  <2>12. BoundPatterns(s) = BoundPatterns(scst) \cup {p}
    BY <2>3, <2>5, <2>6, <2>10, <2>11 DEF BoundPatterns
  <2>13. CASE scst' = s /\ kernel' \in Applied(s, devices, kernel)
              /\ writecache' \in CachingOutcomes(s, listed, writecache)
    BY <2>2, <2>5, <2>7, <2>9, <2>12, <2>13 DEF Binds
  <2>14. CASE /\ scst' = save(s, Unbound(p))
              /\ \E k : kernel' \in Applied(scst', devices, k) \cup ApplyRaised(scst', devices, k)
              /\ UNCHANGED writecache
    <3>1. SameOrder(scst, scst', Files)
      <4>1. \A i \in BoundIn(scst, Files) : scst[i].name # p.name
        BY <2>6, FilesAssumption DEF BoundIn
      <4> QED
        BY <2>1, <2>5, <2>14, <4>1, RollbackOrder DEF s
    <3>2. BoundPatterns(scst') = BoundPatterns(scst)
      BY <2>1, <3>1, AllSameBound
    <3>3. ASSUME Faults = {}, HasEnabledZero(BoundPatterns(scst))
          PROVE  \E k : kernel' \in Applied(scst', devices, k)
      <4>1. \A k : ApplyRaised(scst', devices, k) = {}
        BY <2>1, <3>2, <3>3, NothingRaised
      <4> QED
        BY <2>14, <4>1
    <3> QED
      BY <2>9, <2>14, <3>1, <3>3 DEF Reapplied
  <2> QED
    BY <2>8, <2>13, <2>14
<1> QED
  BY <1>1, <1>2

\* Unbinding.
LEMMA UnbindEffect ==
    ASSUME IInv, NEW b \in Browsers, NEW name, scst_access_pattern_unbind(b, name)
    PROVE  Quiet(b) \/ Unbinds(b, name)
<1> DEFINE p == Unbound(name[2])
           s == save(scst, p)
<1>1. CASE ~Found(scst, name)
  BY <1>1, QuietCase DEF scst_access_pattern_unbind
<1>2. CASE Found(scst, name)
  <2>1. TypeOK /\ scst \in Seq(Section) /\ DistinctNames(scst)
    BY DEF IInv, TypeOK, UniqueNames
  <2>2. Shown(b) /\ name \in page[b].unbind
    BY DEF scst_access_pattern_unbind
  <2>3. name[2] \in AccessPattern /\ name[1] \in Patterns(scst) /\ scst[name[1]] = name[2]
    BY <1>2, <2>1, <2>2, FoundPattern
  <2>4. p \in AccessPattern /\ p.filename = NoFile /\ p.name = name[2].name
    BY <2>3 DEF AccessPattern, Unbound
  <2>5. /\ scst' = s
        /\ \E k : \/ /\ kernel' \in Applied(s, devices, k)
                   /\ writecache' \in CachingOutcomes(s, listed, writecache)
                \/ kernel' \in ApplyRaised(s, devices, k)
        /\ Submitted(b)
        /\ UNCHANGED <<devices, lvs, arrays>>
    BY <1>2 DEF scst_access_pattern_unbind
  <2> HIDE DEF p
  <2>6. /\ \A i \in Patterns(s) : s[i] = p \/ \E j \in Patterns(scst) : s[i] = scst[j] /\ scst[j].name # p.name
        /\ \A j \in Patterns(scst) : scst[j].name # p.name => \E i \in Patterns(s) : s[i] = scst[j]
    BY <2>1, <2>4, SaveDistinct
  <2>7. \A j \in Patterns(scst) : scst[j].name = p.name <=> scst[j] = name[2]
    BY <2>1, <2>3, <2>4 DEF DistinctNames
  <2> HIDE DEF s
  <2>8. BoundPatterns(s) = BoundPatterns(scst) \ {name[2]}
    BY <2>4, <2>6, <2>7 DEF BoundPatterns
  <2> QED
    BY <2>2, <2>3, <2>5, <2>8 DEF Unbinds
<1> QED
  BY <1>1, <1>2

\* Credentials do not touch what is bound, nor does resizing.
LEMMA ReappliedCase ==
    ASSUME IInv, IInv', NEW b \in Browsers,
           \/ \E u \in Users, f \in page[b].volumes : scst_auth_credential_add(b, u, f)
           \/ \E name \in page[b].credentials : scst_auth_credential_delete(b, name)
           \/ \E f \in Files : VolumeResize(b, f)
    PROVE  Quiet(b) \/ Reapplied(b)
<1>1. TypeOK /\ scst \in Seq(Section) /\ scst' \in Seq(Section) /\ devices \in SUBSET Files
  BY DEF IInv, TypeOK
\* Where the store keeps its bound patterns, applying it does not fail.
<1>2. ASSUME NEW s \in Seq(Section), SameOrder(scst, s, Files),
             Faults = {}, HasEnabledZero(BoundPatterns(scst))
      PROVE  \A k : ApplyRaised(s, devices, k) = {}
  <2>1. BoundPatterns(s) = BoundPatterns(scst)
    BY <1>1, <1>2, AllSameBound
  <2> QED
    BY <1>1, <1>2, <2>1, NothingRaised
<1>3. ASSUME Submitted(b), SameOrder(scst, scst', Files), NEW k,
             kernel' \in Applied(scst', devices, k) \cup ApplyRaised(scst', devices, k),
             UNCHANGED <<devices, lvs, arrays, writecache>>
      PROVE  Reapplied(b)
  BY <1>1, <1>2, <1>3 DEF Reapplied
<1>4. ASSUME NEW u \in Users, NEW f \in page[b].volumes, scst_auth_credential_add(b, u, f), ~Refuse(b)
      PROVE  Reapplied(b)
  <2> DEFINE c == [type |-> "auth-credential", username |-> u, filename |-> f]
             s == Append(scst, c)
  <2>1. f \in Files
    BY <1>1, <1>4 DEF scst_auth_credential_add, Shown, TypeOK, Page
  <2>2. c \in Section /\ c.type # "access-pattern"
    BY <2>1 DEF Section, AuthCredential
  <2>3. /\ \/ /\ scst' = s
              /\ kernel' \in Applied(s, devices, kernel) \cup ApplyRaised(s, devices, kernel)
           \/ /\ scst' = delete_by_username_and_filename(s, u, f)
              /\ ApplyRaised(s, devices, kernel) # {}
        /\ Submitted(b)
        /\ UNCHANGED <<devices, lvs, arrays, writecache>>
    BY <1>4 DEF scst_auth_credential_add
  <2> HIDE DEF c
  <2>4. s \in Seq(Section) /\ SameOrder(scst, s, Files)
    BY <1>1, <2>2, SameOrderAppend
  <2> HIDE DEF s
  <2>5. CASE /\ scst' = s
             /\ kernel' \in Applied(s, devices, kernel) \cup ApplyRaised(s, devices, kernel)
    BY <1>3, <2>3, <2>4, <2>5
  <2>6. CASE /\ scst' = delete_by_username_and_filename(s, u, f)
             /\ ApplyRaised(s, devices, kernel) # {}
    <3>1. SameOrder(s, scst', Files)
      BY <2>4, <2>6, CredentialOrder
    <3>2. SameOrder(scst, scst', Files)
      BY <1>1, <2>4, <3>1, SameOrderTrans
    <3>3. ~(Faults = {} /\ HasEnabledZero(BoundPatterns(scst)))
      BY <1>2, <2>4, <2>6
    <3> QED
      BY <2>3, <3>2, <3>3 DEF Reapplied
  <2> QED
    BY <2>3, <2>5, <2>6
<1>5. ASSUME NEW name \in page[b].credentials, scst_auth_credential_delete(b, name), ~Refuse(b)
      PROVE  Reapplied(b)
  <2>1. /\ scst' = delete_by_username_and_filename(scst, name[2].username, name[2].filename)
        /\ kernel' \in Applied(scst', devices, kernel) \cup ApplyRaised(scst', devices, kernel)
        /\ Submitted(b)
        /\ UNCHANGED <<devices, lvs, arrays, writecache>>
    BY <1>5 DEF scst_auth_credential_delete
  <2>2. SameOrder(scst, scst', Files)
    BY <1>1, <2>1, CredentialOrder
  <2> QED
    BY <1>3, <2>1, <2>2
<1>6. ASSUME NEW f \in Files, VolumeResize(b, f)
      PROVE  Reapplied(b)
  <2>1. /\ scst' = scst
        /\ kernel' \in Applied(scst', devices, kernel) \cup ApplyRaised(scst', devices, kernel)
        /\ Submitted(b)
        /\ UNCHANGED <<devices, lvs, arrays, writecache>>
    BY <1>6 DEF VolumeResize
  <2>2. SameOrder(scst, scst', Files)
    BY <1>1, <2>1, SameOrderSame
  <2> QED
    BY <1>3, <2>1, <2>2
<1>7. Refuse(b) => Quiet(b)
  BY QuietCase
<1> QED
  BY <1>4, <1>5, <1>6, <1>7

\* Loading a page.
LEMMA LoadEffect ==
    ASSUME IInv, NEW b \in Browsers, PageLoad(b)
    PROVE  Loads(b)
<1> DEFINE s == UnknownUnbound(scst)
           d == rem_target(kernel, UNION {Detached(scst[i], devices, sessions) : i \in Unknown(scst)})
<1>1. scst \in Seq(Section) /\ listed \in SUBSET Files /\ NoFile \notin listed
  BY FilesAssumption DEF IInv, TypeOK, listed
<1>2. /\ s \in Seq(Section) /\ SameOrder(scst, s, listed)
      /\ \A i \in Patterns(s) : s[i].filename \in listed \cup {NoFile}
  BY <1>1, UnknownUnboundProperty
<1>3. /\ scst' = s
      /\ \/ kernel' \in Applied(s, devices, d) /\ page' = [page EXCEPT ![b] = Rendered(s)]
         \/ kernel' \in ApplyRaised(s, devices, d) /\ page' = [page EXCEPT ![b] = NoPage]
      /\ UNCHANGED <<devices, lvs, arrays, writecache>>
  BY DEF PageLoad
<1> HIDE DEF s, d
<1>4. \A q \in BoundPatterns(s) : q.filename \in listed
  BY <1>2 DEF BoundPatterns
<1>5. BoundPatterns(s) = {q \in BoundPatterns(scst) : q.filename \in listed}
  BY <1>1, <1>2, <1>4, SameBound
<1> QED
  BY <1>2, <1>3, <1>5 DEF Loads

-----------------------------------------------------------------------------
\* Array failures and sessions; the store is left alone.
Idle ==
    /\ arrays' \subseteq arrays
    /\ UNCHANGED <<scst, kernel, devices, lvs, writecache, page>>

\* A request is of one of these kinds.
LEMMA RequestKinds ==
    ASSUME IInv, IInv', NEW b \in Browsers, Request(b)
    PROVE  \/ Loads(b) \/ Quiet(b) \/ Reapplied(b)
           \/ \E p \in AccessPattern : Binds(b, p)
           \/ \E name : Unbinds(b, name)
           \/ \E f \in Files : VolumeAdd(b, f) \/ VolumeRemove(b, f)
<1>1. CASE PageLoad(b)
  BY <1>1, LoadEffect
<1>2. CASE InvalidForm(b)
  BY <1>2, QuietCase DEF InvalidForm
<1>3. CASE \E n \in Names, l \in Luns, fl \in Flags : scst_access_pattern_new(b, n, l, fl)
  BY <1>3, QuietCase
<1>4. CASE \E name \in page[b].unbound : scst_access_pattern_delete(b, name)
  BY <1>4, QuietCase
<1>5. CASE \E name \in page[b].unbound, n \in Names, l \in Luns, fl \in Flags :
             scst_access_pattern_edit(b, name, n, l, fl)
  BY <1>5, QuietCase
<1>6. CASE \E name \in page[b].unbound, f \in page[b].volumes : scst_access_pattern_bind(b, name, f)
  BY <1>6, BindEffect
<1>7. CASE \E name \in page[b].unbind : scst_access_pattern_unbind(b, name)
  BY <1>7, UnbindEffect
<1>8. CASE \E u \in Users, f \in page[b].volumes : scst_auth_credential_add(b, u, f)
  BY <1>8, ReappliedCase
<1>9. CASE \E name \in page[b].credentials : scst_auth_credential_delete(b, name)
  BY <1>9, ReappliedCase
<1>10. CASE \E f \in Files : VolumeResize(b, f)
  BY <1>10, ReappliedCase
<1> QED
  BY <1>1, <1>2, <1>3, <1>4, <1>5, <1>6, <1>7, <1>8, <1>9, <1>10 DEF Request

\* So is a step of the system, when a reboot is not one of them.
LEMMA StepKinds ==
    ASSUME IInv, IInv', [Next]_vars
    PROVE  \/ Idle
           \/ \E found \in SUBSET Arrays : Reboot(found)
           \/ \E b \in Browsers :
                 \/ Loads(b) \/ Quiet(b) \/ Reapplied(b)
                 \/ \E p \in AccessPattern : Binds(b, p)
                 \/ \E name : Unbinds(b, name)
                 \/ \E f \in Files : VolumeAdd(b, f) \/ VolumeRemove(b, f)
<1>1. CASE UNCHANGED vars
  BY <1>1 DEF vars, Idle
<1>2. CASE Surroundings
  BY <1>2 DEF Surroundings, ArrayFails, Connect, Disconnect, Idle
<1>3. CASE \E b \in Browsers : Request(b)
  BY <1>3, RequestKinds
<1> QED
  BY <1>1, <1>2, <1>3 DEF Next

\* When a button was pressed there is no page left to press one on.
LEMMA NoOtherPage ==
    ASSUME OneBrowser, TypeOK, NEW b \in Browsers, Submitted(b)
    PROVE  \A c \in Browsers : page'[c] = NoPage
<1>1. page'[b] = NoPage
  BY DEF TypeOK, Submitted
<1> QED
  BY <1>1 DEF OneBrowser

\* After a page load the page is the new one or none.
LEMMA OnlyPage ==
    ASSUME OneBrowser, TypeOK, NEW b \in Browsers, Loads(b)
    PROVE  \/ \A c \in Browsers : page'[c] = NoPage
           \/ /\ \A c \in Browsers : page'[c] = Rendered(scst')
              /\ \E k : kernel' \in Applied(scst', devices, k)
<1>1. \/ page'[b] = NoPage
      \/ page'[b] = Rendered(scst') /\ \E k : kernel' \in Applied(scst', devices, k)
  BY DEF Loads, TypeOK
<1> QED
  BY <1>1 DEF OneBrowser

\* The buttons of a new page are fresh.
LEMMA RenderedFresh ==
    ASSUME NEW s \in Seq(Section), NEW name \in Rendered(s).unbind, name[2].lun = 0,
           NEW q \in BoundPatterns(s), q.filename = name[2].filename
    PROVE  q.lun = 0
<1>1. PICK i \in Patterns(s) : Unbindable(s, i) /\ name = SectionName(s, i)
  BY DEF Rendered
<1>2. name[2] = s[i]
  BY <1>1 DEF SectionName
<1>3. PICK j \in Patterns(s) : s[j] = q
  BY DEF BoundPatterns
<1> QED
  BY <1>1, <1>2, <1>3 DEF Unbindable, BoundTo

-----------------------------------------------------------------------------
(***************************************************************************)
(* Level 1: LUN 0 first and last                                           *)
(***************************************************************************)
LEMMA NextZeroInv ==
    ASSUME OneBrowser, ZeroInv, [Next]_vars
    PROVE  ZeroInv'
<1> DEFINE B == BoundPatterns(scst)
           C == BoundPatterns(scst')
<1>1. IInv /\ IInv'
  BY NextIInv DEF ZeroInv
<1>2. TypeOK /\ scst \in Seq(Section) /\ scst' \in Seq(Section)
  BY <1>1 DEF IInv, TypeOK
<1>3. HasZero(B) /\ FreshUnbind
  BY DEF ZeroInv
<1>4. ASSUME \A c \in Browsers : page'[c] = NoPage, HasZero(C)
      PROVE  ZeroInv'
  BY <1>1, <1>4 DEF ZeroInv, FreshUnbind, Shown
<1>5. CASE Idle
  BY <1>1, <1>3, <1>5 DEF Idle, ZeroInv, FreshUnbind, Shown
<1>6. CASE \E found \in SUBSET Arrays : Reboot(found)
  BY <1>3, <1>4, <1>6 DEF Reboot
<1>7. ASSUME NEW b \in Browsers, Loads(b)
      PROVE  ZeroInv'
  <2>1. C = {q \in B : q.filename \in listed}
    BY <1>7 DEF Loads
  <2>2. HasZero(C)
    BY <1>3, <2>1 DEF HasZero
  <2>3. CASE \A c \in Browsers : page'[c] = NoPage
    BY <1>4, <2>2, <2>3
  <2>4. CASE \A c \in Browsers : page'[c] = Rendered(scst')
    <3>1. FreshUnbind'
      BY <1>2, <2>4, RenderedFresh DEF FreshUnbind
    <3> QED
      BY <1>1, <2>2, <3>1 DEF ZeroInv
  <2> QED
    BY <1>2, <1>7, <2>3, <2>4, OnlyPage
<1>8. ASSUME NEW b \in Browsers, Quiet(b) \/ Reapplied(b)
      PROVE  ZeroInv'
  <2>1. SameOrder(scst, scst', Files) /\ Submitted(b)
    BY <1>8 DEF Quiet, Reapplied
  <2>2. C = B
    BY <1>2, <2>1, AllSameBound
  <2> QED
    BY <1>2, <1>3, <1>4, <2>1, <2>2, NoOtherPage
<1>9. ASSUME NEW b \in Browsers, NEW p \in AccessPattern, Binds(b, p)
      PROVE  ZeroInv'
  <2>1. /\ C = B \cup {p} /\ Submitted(b)
        /\ p.lun # 0 => \E q \in B : q.filename = p.filename /\ q.lun = 0
    BY <1>9 DEF Binds
  <2>2. HasZero(C)
    BY <1>3, <2>1 DEF HasZero
  <2> QED
    BY <1>2, <1>4, <2>1, <2>2, NoOtherPage
<1>10. ASSUME NEW b \in Browsers, NEW name, Unbinds(b, name)
       PROVE  ZeroInv'
  <2>1. C = B \ {name[2]} /\ Submitted(b) /\ Shown(b) /\ name \in page[b].unbind
    BY <1>10 DEF Unbinds
  <2>2. name[2].lun = 0 => \A q \in B : q.filename = name[2].filename => q.lun = 0
    BY <1>3, <2>1 DEF FreshUnbind
  <2>3. ASSUME NEW q \in C
        PROVE  \E z \in C : z.filename = q.filename /\ z.lun = 0
    <3>1. PICK z \in B : z.filename = q.filename /\ z.lun = 0
      BY <1>3, <2>1, <2>3 DEF HasZero
    <3>2. CASE z = name[2]
      BY <2>1, <2>2, <3>1, <3>2
    <3>3. CASE z # name[2]
      BY <2>1, <3>1, <3>3
    <3> QED
      BY <3>2, <3>3
  <2>4. HasZero(C)
    BY <2>3 DEF HasZero
  <2> QED
    BY <1>2, <1>4, <2>1, <2>4, NoOtherPage
<1>11. ASSUME NEW b \in Browsers, NEW f \in Files, VolumeAdd(b, f) \/ VolumeRemove(b, f)
       PROVE  ZeroInv'
  <2>1. scst' = scst /\ Submitted(b)
    BY <1>11 DEF VolumeAdd, VolumeRemove
  <2> QED
    BY <1>2, <1>3, <1>4, <2>1, NoOtherPage
<1> QED
  BY <1>1, <1>5, <1>6, <1>7, <1>8, <1>9, <1>10, <1>11, StepKinds

\* With one browser, what is bound has LUN 0, and the page offers to unbind
\* LUN 0 only where it is the last; commands may fail.
THEOREM ZeroInvariant ==
    ASSUME OneBrowser
    PROVE  Spec => []ZeroInv
<1>1. Init => ZeroInv
  <2> SUFFICES ASSUME Init PROVE ZeroInv
    OBVIOUS
  <2>1. Patterns(scst) = {} /\ \A b \in Browsers : page[b] = NoPage
    BY DEF Init, Patterns
  <2>2. BoundPatterns(scst) = {}
    BY <2>1 DEF BoundPatterns
  <2> QED
    BY <2>1, <2>2, InitIInv DEF ZeroInv, HasZero, FreshUnbind, Shown
<1>2. ZeroInv /\ [Next]_vars => ZeroInv'
  BY NextZeroInv
<1> QED
  BY <1>1, <1>2, PTL DEF Spec

\* A volume with a bound pattern always has LUN 0: the checks of bind and
\* the filter of the unbind buttons suffice for one administrator.
THEOREM Lun0ComesFirst ==
    ASSUME OneBrowser
    PROVE  Spec => []Lun0First
<1>1. ZeroInv => Lun0First
  <2> SUFFICES ASSUME ZeroInv, NEW i \in Patterns(scst), scst[i].filename # NoFile
               PROVE  \E j \in BoundTo(scst, scst[i].filename) : scst[j].lun = 0
    BY DEF Lun0First
  <2>1. scst[i] \in BoundPatterns(scst)
    BY DEF BoundPatterns
  <2>2. PICK q \in BoundPatterns(scst) : q.filename = scst[i].filename /\ q.lun = 0
    BY <2>1 DEF ZeroInv, HasZero
  <2>3. PICK j \in Patterns(scst) : scst[j] = q
    BY DEF BoundPatterns
  <2> QED
    BY <2>2, <2>3 DEF BoundTo
<1> QED
  BY <1>1, ZeroInvariant, PTL

-----------------------------------------------------------------------------
(***************************************************************************)
(* Level 2: Configuration.dump does not fail                               *)
(***************************************************************************)

\* A binding that could be applied has an enabled LUN 0 in its target.
LEMMA AppliedZero ==
    ASSUME InjectiveIqn, NEW s \in Seq(Section), NEW D \in SUBSET Files, NEW k, NEW j \in Applied(s, D, k),
           NEW p \in BoundPatterns(s), p.enabled, p.filename \in D
    PROVE  \E q \in BoundPatterns(s) : q.enabled /\ q.filename = p.filename /\ q.lun = 0
<1>1. PICK i \in Patterns(s) : s[i] = p
  BY DEF BoundPatterns
<1>2. i \in Exportable(s, D)
  BY <1>1 DEF Exportable, is_binded
<1>3. ~DumpFails(s, D)
  BY <1>2 DEF Applied
<1>4. PICK l \in Exportable(s, D) : SameTarget(s[i], s[l]) /\ s[l].lun = 0
  BY <1>2, <1>3 DEF DumpFails
<1>5. s[l].filename = p.filename
  BY <1>1, <1>4 DEF SameTarget, InjectiveIqn, Exportable, is_binded
<1>6. s[l] \in BoundPatterns(s) /\ s[l].enabled
  BY FilesAssumption DEF BoundPatterns, Exportable, is_binded
<1> QED
  BY <1>4, <1>5, <1>6

LEMMA NextServeInv ==
    ASSUME OneBrowser, InjectiveIqn, ServeInv, [Next]_vars
    PROVE  ServeInv'
<1> DEFINE B == BoundPatterns(scst)
           C == BoundPatterns(scst')
<1>1. ZeroInv /\ ZeroInv' /\ IInv /\ IInv'
  <2>1. ZeroInv'
    BY NextZeroInv DEF ServeInv
  <2> QED
    BY <2>1 DEF ServeInv, ZeroInv
<1>2. /\ TypeOK /\ scst \in Seq(Section) /\ scst' \in Seq(Section)
      /\ devices \in SUBSET Files /\ FreshUnbind
  BY <1>1 DEF IInv, TypeOK, ZeroInv
<1>3. HasEnabledZero(B) /\ VolumesExist
  BY DEF ServeInv
<1>4. ASSUME \A c \in Browsers : page'[c] = NoPage, HasEnabledZero(C), listed' \subseteq devices'
      PROVE  ServeInv'
  BY <1>1, <1>4 DEF ServeInv, VolumesExist, Shown
<1>5. CASE Idle
  <2>1. VolumesExist'
    BY <1>3, <1>5 DEF Idle, VolumesExist, listed, Shown
  <2> QED
    BY <1>1, <1>3, <1>5, <2>1 DEF Idle, ServeInv
<1>6. ASSUME NEW found \in SUBSET Arrays, Reboot(found)
      PROVE  ServeInv'
  BY <1>3, <1>4, <1>6 DEF Reboot, listed
<1>7. ASSUME NEW b \in Browsers, Loads(b)
      PROVE  ServeInv'
  <2>1. C = {q \in B : q.filename \in listed} /\ UNCHANGED <<devices, lvs, arrays>>
    BY <1>7 DEF Loads
  <2>2. HasEnabledZero(C)
    BY <1>3, <2>1 DEF HasEnabledZero
  <2>3. listed' = listed /\ listed \subseteq devices
    BY <1>3, <2>1 DEF listed, VolumesExist
  <2>4. CASE \A c \in Browsers : page'[c] = NoPage
    BY <1>4, <2>1, <2>2, <2>3, <2>4
  <2>5. CASE \A c \in Browsers : page'[c] = Rendered(scst')
    <3>1. \A c \in Browsers : page'[c].volumes = listed
      <4>1. Rendered(scst').volumes = listed
        BY DEF Rendered
      <4> QED
        BY <2>5, <4>1
    <3>2. VolumesExist'
      <4>1. listed' \subseteq devices'
        BY <2>1, <2>3
      <4>2. \A c \in Browsers : page'[c].volumes \subseteq devices'
        BY <2>1, <2>3, <3>1
      <4> QED
        BY <4>1, <4>2 DEF VolumesExist
    <3> QED
      BY <1>1, <2>2, <3>2 DEF ServeInv
  <2> QED
    BY <1>2, <1>7, <2>4, <2>5, OnlyPage
<1>8. ASSUME NEW b \in Browsers, Quiet(b) \/ Reapplied(b)
      PROVE  ServeInv'
  <2>1. SameOrder(scst, scst', Files) /\ Submitted(b) /\ UNCHANGED <<devices, lvs, arrays>>
    BY <1>8 DEF Quiet, Reapplied
  <2>2. C = B
    BY <1>2, <2>1, AllSameBound
  <2>3. listed' \subseteq devices'
    BY <1>3, <2>1 DEF listed, VolumesExist
  <2> QED
    BY <1>2, <1>3, <1>4, <2>1, <2>2, <2>3, NoOtherPage
<1>9. ASSUME NEW b \in Browsers, NEW p \in AccessPattern, Binds(b, p)
      PROVE  ServeInv'
  <2>1. /\ C = B \cup {p} /\ Submitted(b) /\ UNCHANGED <<devices, lvs, arrays>>
        /\ Shown(b) /\ p.filename \in page[b].volumes
        /\ kernel' \in Applied(scst', devices, kernel)
    BY <1>9 DEF Binds
  <2>2. p.filename \in devices
    BY <1>3, <2>1 DEF VolumesExist
  <2>3. p.enabled => \E q \in C : q.enabled /\ q.filename = p.filename /\ q.lun = 0
    BY <1>2, <2>1, <2>2, AppliedZero
  <2>4. HasEnabledZero(C)
    BY <1>3, <2>1, <2>3 DEF HasEnabledZero
  <2>5. listed' \subseteq devices'
    BY <1>3, <2>1 DEF listed, VolumesExist
  <2> QED
    BY <1>2, <1>4, <2>1, <2>4, <2>5, NoOtherPage
<1>10. ASSUME NEW b \in Browsers, NEW name, Unbinds(b, name)
       PROVE  ServeInv'
  <2>1. /\ C = B \ {name[2]} /\ Submitted(b) /\ Shown(b) /\ name \in page[b].unbind
        /\ UNCHANGED <<devices, lvs, arrays>>
    BY <1>10 DEF Unbinds
  <2>2. name[2].lun = 0 => \A q \in B : q.filename = name[2].filename => q.lun = 0
    BY <1>2, <2>1 DEF FreshUnbind
  <2>3. ASSUME NEW q \in C, q.enabled
        PROVE  \E z \in C : z.enabled /\ z.filename = q.filename /\ z.lun = 0
    <3>1. PICK z \in B : z.enabled /\ z.filename = q.filename /\ z.lun = 0
      BY <1>3, <2>1, <2>3 DEF HasEnabledZero
    <3>2. CASE z = name[2]
      BY <2>1, <2>2, <2>3, <3>1, <3>2
    <3>3. CASE z # name[2]
      BY <2>1, <3>1, <3>3
    <3> QED
      BY <3>2, <3>3
  <2>4. HasEnabledZero(C)
    BY <2>3 DEF HasEnabledZero
  <2>5. listed' \subseteq devices'
    BY <1>3, <2>1 DEF listed, VolumesExist
  <2> QED
    BY <1>2, <1>4, <2>1, <2>4, <2>5, NoOtherPage
<1>11. ASSUME NEW b \in Browsers, NEW f \in Files, VolumeAdd(b, f) \/ VolumeRemove(b, f)
       PROVE  ServeInv'
  <2>1. scst' = scst /\ Submitted(b)
    BY <1>11 DEF VolumeAdd, VolumeRemove
  <2>2. listed' \subseteq devices'
    BY <1>3, <1>11 DEF VolumeAdd, VolumeRemove, listed, VolumesExist
  <2> QED
    BY <1>2, <1>3, <1>4, <2>1, <2>2, NoOtherPage
<1> QED
  BY <1>1, <1>5, <1>6, <1>7, <1>8, <1>9, <1>10, <1>11, StepKinds

\* With one browser and targets of their own, enabled patterns always come
\* with an enabled LUN 0; commands may fail.
THEOREM ServeInvariant ==
    ASSUME OneBrowser, InjectiveIqn
    PROVE  Spec => []ServeInv
<1>1. Init => ServeInv
  <2> SUFFICES ASSUME Init PROVE ServeInv
    OBVIOUS
  <2>1. Patterns(scst) = {} /\ \A b \in Browsers : page[b] = NoPage
    BY DEF Init, Patterns
  <2>2. BoundPatterns(scst) = {}
    BY <2>1 DEF BoundPatterns
  <2>3. ZeroInv
    BY <2>1, <2>2, InitIInv DEF ZeroInv, HasZero, FreshUnbind, Shown
  <2>4. listed \subseteq devices
    BY DEF Init, listed
  <2> QED
    BY <2>1, <2>2, <2>3, <2>4 DEF ServeInv, HasEnabledZero, VolumesExist, Shown
<1>2. ServeInv /\ [Next]_vars => ServeInv'
  BY NextServeInv
<1> QED
  BY <1>1, <1>2, PTL DEF Spec

\* Configuration.dump never raises an error: the page can always be loaded
\* again, whichever patterns are enabled and whatever failed before.
THEOREM DumpAlwaysWritten ==
    ASSUME OneBrowser, InjectiveIqn
    PROVE  Spec => []Servable
<1>1. ServeInv => Servable
  <2> SUFFICES ASSUME ServeInv PROVE ~DumpFails(scst, devices)
    BY DEF Servable
  <2>1. scst \in Seq(Section) /\ devices \in SUBSET Files
    BY DEF ServeInv, ZeroInv, IInv, TypeOK
  <2> QED
    BY <2>1, NothingRaised DEF ServeInv
<1> QED
  BY <1>1, ServeInvariant, PTL

-----------------------------------------------------------------------------
(***************************************************************************)
(* Level 3: the kernel and the write caches follow the store               *)
(***************************************************************************)

\* Configuration.dump depends on the device files only through the patterns
\* it collects.
LEMMA DumpCollects ==
    ASSUME NEW s, NEW D, NEW E, Exportable(s, D) = Exportable(s, E)
    PROVE  dump(s, D) = dump(s, E)
<1>1. TargetTable(s, D) = TargetTable(s, E)
  BY DEF TargetTable
<1>2. \A f : DeviceOf(s, D, f) = DeviceOf(s, E, f)
  BY DEF DeviceOf
<1> DEFINE T == TargetTable(s, D)
           wt(F, i) == s[DeviceOf(s, F, s[i].filename)].writethrough
           lun(w, i) == [iqn |-> Iqn[s[i].filename], lun |-> s[i].lun,
                         filename |-> s[i].filename, readonly |-> s[i].readonly,
                         writethrough |-> w]
           U == UNION {{<<Iqn[s[i].filename], s[c].username>> :
                            c \in {d \in Credentials(s) : s[d].filename = s[i].filename}} :
                       i \in {j \in T : s[j].lun = 0}}
<1>3. /\ dump(s, D) = [luns |-> {lun(wt(D, i), i) : i \in T}, users |-> U]
      /\ dump(s, E) = [luns |-> {lun(wt(E, i), i) : i \in T}, users |-> U]
  BY <1>1 DEF dump
<1>4. \A i : wt(D, i) = wt(E, i)
  BY <1>2
<1> HIDE DEF T, wt, lun, U
<1>5. {lun(wt(D, i), i) : i \in T} = {lun(wt(E, i), i) : i \in T}
  BY <1>4
<1> QED
  BY <1>3, <1>5

\* Without the targets of files outside E, a configuration is the one that
\* is written when those files are not there.
LEMMA DumpRemoved ==
    ASSUME InjectiveIqn, NEW s \in Seq(Section), NEW D \in SUBSET Files, NEW E \in SUBSET Files
    PROVE  rem_target(dump(s, D), {Iqn[f] : f \in Files \ E}) = dump(s, D \cap E)
<1> DEFINE R == {Iqn[f] : f \in Files \ E}
           P == Exportable(s, D)
           Q == Exportable(s, D \cap E)
<1>1. /\ \A i \in P : s[i].filename \in D /\ s[i].filename \in Files /\ i \in Int
      /\ Q = {i \in P : s[i].filename \in E}
  BY DEF Exportable, is_binded, Patterns
<1>2. \A i \in P : Iqn[s[i].filename] \notin R <=> i \in Q
  BY <1>1 DEF InjectiveIqn
<1>3. \A i, j \in P : SameTarget(s[i], s[j]) <=> s[i].filename = s[j].filename
  BY <1>1 DEF SameTarget, InjectiveIqn
<1>4. \A i \in P : i \in TargetTable(s, D \cap E) <=> i \in TargetTable(s, D) /\ i \in Q
  <2> TAKE i \in P
  <2>1. i \in TargetTable(s, D) <=> \A j \in P : SameTarget(s[i], s[j]) /\ s[i].lun = s[j].lun => j <= i
    BY DEF TargetTable
  <2>2. i \in TargetTable(s, D \cap E) <=>
          i \in Q /\ \A j \in Q : SameTarget(s[i], s[j]) /\ s[i].lun = s[j].lun => j <= i
    BY DEF TargetTable
  <2> HIDE DEF P, Q
  <2> QED
    BY <1>1, <1>3, <2>1, <2>2
<1>5. TargetTable(s, D) \subseteq P /\ TargetTable(s, D \cap E) \subseteq Q
  BY DEF TargetTable
<1>6. \A i \in Q : DeviceOf(s, D \cap E, s[i].filename) = DeviceOf(s, D, s[i].filename)
  <2> TAKE i \in Q
  <2> DEFINE d == DeviceOf(s, D, s[i].filename)
             e == DeviceOf(s, D \cap E, s[i].filename)
  <2>1. d \in P /\ s[d].filename = s[i].filename /\ \A j \in P : s[j].filename = s[i].filename => j <= d
    BY <1>1, LastDevice
  <2>2. e \in Q /\ s[e].filename = s[i].filename /\ \A j \in Q : s[j].filename = s[i].filename => j <= e
    BY LastDevice
  <2> HIDE DEF d, e, P, Q
  <2>3. d \in Q /\ d \in Int /\ e \in Int
    BY <1>1, <2>1, <2>2
  <2>4. d <= e /\ e <= d
    BY <1>1, <2>1, <2>2, <2>3
  <2>5. e = d
    BY <2>3, <2>4
  <2> QED
    BY <2>5 DEF d, e
<1> DEFINE lun(F, i) == [iqn |-> Iqn[s[i].filename], lun |-> s[i].lun,
                         filename |-> s[i].filename, readonly |-> s[i].readonly,
                         writethrough |-> s[DeviceOf(s, F, s[i].filename)].writethrough]
           who(i) == {<<Iqn[s[i].filename], s[c].username>> :
                            c \in {d \in Credentials(s) : s[d].filename = s[i].filename}}
           X == TargetTable(s, D)
           Y == TargetTable(s, D \cap E)
<1>7. /\ \A i \in P : lun(D, i).iqn = Iqn[s[i].filename]
      /\ \A i \in Q : lun(D \cap E, i) = lun(D, i)
  BY <1>6
<1>8. \A i \in P : \A u \in who(i) : u[1] = Iqn[s[i].filename]
  OBVIOUS
<1>9. /\ dump(s, D) = [luns |-> {lun(D, i) : i \in X}, users |-> UNION {who(i) : i \in {j \in X : s[j].lun = 0}}]
      /\ dump(s, D \cap E) =
            [luns |-> {lun(D \cap E, i) : i \in Y}, users |-> UNION {who(i) : i \in {j \in Y : s[j].lun = 0}}]
  BY DEF dump
<1> HIDE DEF P, Q, R, lun, who, X, Y
<1>10. /\ Y \subseteq X /\ X \subseteq P /\ Y \subseteq Q
       /\ \A i \in X : i \in Y <=> Iqn[s[i].filename] \notin R
  BY <1>1, <1>2, <1>4, <1>5 DEF X, Y
<1>11. {l \in {lun(D, i) : i \in X} : l.iqn \notin R} = {lun(D \cap E, i) : i \in Y}
  <2>1. \A i \in X : lun(D, i).iqn = Iqn[s[i].filename]
    BY <1>7, <1>10
  <2>2. \A i \in Y : i \in X /\ lun(D \cap E, i) = lun(D, i) /\ lun(D, i).iqn \notin R
    BY <1>7, <1>10, <2>1
  <2>3. \A i \in X : lun(D, i).iqn \notin R => i \in Y
    BY <1>10, <2>1
  <2> QED
    BY <2>2, <2>3
<1>12. {u \in UNION {who(i) : i \in {j \in X : s[j].lun = 0}} : u[1] \notin R}
       = UNION {who(i) : i \in {j \in Y : s[j].lun = 0}}
  BY <1>8, <1>10
<1>13. rem_target(dump(s, D), R) = dump(s, D \cap E)
  <2> DEFINE L == {lun(D, i) : i \in X}
             U == UNION {who(i) : i \in {j \in X : s[j].lun = 0}}
             M == {lun(D \cap E, i) : i \in Y}
             W == UNION {who(i) : i \in {j \in Y : s[j].lun = 0}}
  <2>1. /\ dump(s, D) = [luns |-> L, users |-> U] /\ dump(s, D \cap E) = [luns |-> M, users |-> W]
        /\ {l \in L : l.iqn \notin R} = M /\ {u \in U : u[1] \notin R} = W
    BY <1>9, <1>11, <1>12
  <2> HIDE DEF L, U, M, W
  <2>2. dump(s, D).luns = L /\ dump(s, D).users = U
    BY <2>1
  <2> QED
    BY <2>1, <2>2 DEF rem_target
<1> QED
  BY <1>13 DEF R

\* Which volumes write through depends on the first pattern bound to each.
LEMMA SameWriteThrough ==
    ASSUME NEW s \in Seq(Section), NEW t \in Seq(Section), NEW V, SameOrder(s, t, V),
           NEW a, WriteThroughFound(t, V, a)
    PROVE  WriteThroughFound(s, V, a)
<1>1. PICK g \in [BoundIn(t, V) -> BoundIn(s, V)] :
         /\ \A i \in BoundIn(s, V) : \E k \in BoundIn(t, V) : g[k] = i
         /\ \A k \in BoundIn(t, V) : t[k] = s[g[k]]
         /\ \A k, l \in BoundIn(t, V) : k <= l <=> g[k] <= g[l]
  BY DEF SameOrder
<1>2. PICK f \in V :
         /\ ArrayOf[f] = a /\ Origin[f] = f
         /\ \E i \in BoundTo(t, f) : t[i].writethrough /\ \A j \in BoundTo(t, f) : i <= j
  BY DEF WriteThroughFound
<1>3. PICK i \in BoundTo(t, f) : t[i].writethrough /\ \A j \in BoundTo(t, f) : i <= j
  BY <1>2
<1>4. i \in BoundIn(t, V) /\ t[i].filename = f
  BY DEF BoundTo, BoundIn
<1>5. g[i] \in BoundTo(s, f) /\ s[g[i]].writethrough
  BY <1>1, <1>3, <1>4 DEF BoundTo, BoundIn
<1>6. \A j \in BoundTo(s, f) : g[i] <= j
  <2> TAKE j \in BoundTo(s, f)
  <2>1. j \in BoundIn(s, V) /\ s[j].filename = f
    BY DEF BoundTo, BoundIn
  <2>2. PICK k \in BoundIn(t, V) : g[k] = j
    BY <1>1, <2>1
  <2>3. k \in BoundTo(t, f)
    BY <1>1, <2>1, <2>2 DEF BoundTo, BoundIn
  <2> QED
    BY <1>1, <1>3, <1>4, <2>2, <2>3
<1> QED
  BY <1>2, <1>5, <1>6 DEF WriteThroughFound

\* After Daemon.apply has returned, the kernel serves what the store says.
LEMMA AppliedSynced ==
    ASSUME InjectiveIqn, IInv', NEW k, kernel' \in Applied(scst', devices', k)
    PROVE  Synced'
<1>1. scst' \in Seq(Section) /\ devices' \in SUBSET Files
  BY DEF IInv, TypeOK
<1>2. ASSUME Exportable(scst', devices') # {}
      PROVE  /\ kernel' = dump(scst', devices')
             /\ rem_target(kernel', {Iqn[f] : f \in Files \ devices'}) = dump(scst', devices')
  <2>1. kernel' = dump(scst', devices')
    BY <1>2 DEF Applied
  <2>2. rem_target(dump(scst', devices'), {Iqn[f] : f \in Files \ devices'})
        = dump(scst', devices' \cap devices')
    BY <1>1, DumpRemoved
  <2>3. devices' \cap devices' = devices'
    OBVIOUS
  <2> QED
    BY <2>1, <2>2, <2>3
<1> QED
  BY <1>2 DEF Synced, Remaining

\* After caching.apply has returned, the write caches are as asked for.
LEMMA CachingSet ==
    ASSUME Faults = {}, NEW w, writecache' \in CachingOutcomes(scst', listed', w)
    PROVE  FirstWriteThroughHonoured'
<1>1. writecache' = CachingApplied(scst', listed')
  BY DEF CachingOutcomes
<1> QED
  BY <1>1 DEF FirstWriteThroughHonoured, CachingApplied

\* Without caching.apply they still are, if the patterns of listed volumes
\* stay in order and no volume comes back with patterns bound to it.
LEMMA CachingKept ==
    ASSUME FirstWriteThroughHonoured, IInv, IInv', SameOrder(scst, scst', listed'),
           \A f \in listed' \ listed : BoundTo(scst, f) = {}, writecache' = writecache
    PROVE  FirstWriteThroughHonoured'
<1> SUFFICES ASSUME NEW a \in Arrays, WriteThroughFound(scst', listed', a)
             PROVE  ~writecache[a]
  BY DEF FirstWriteThroughHonoured
<1>1. scst \in Seq(Section) /\ scst' \in Seq(Section)
  BY DEF IInv, TypeOK
<1>2. WriteThroughFound(scst, listed', a)
  BY <1>1, SameWriteThrough
<1>3. WriteThroughFound(scst, listed, a)
  BY <1>2 DEF WriteThroughFound
<1> QED
  BY <1>3 DEF FirstWriteThroughHonoured

LEMMA NextSyncInv ==
    ASSUME OneBrowser, InjectiveIqn, Faults = {}, SyncInv, [Next]_vars
    PROVE  SyncInv'
<1>1. ServeInv /\ ServeInv' /\ IInv /\ IInv'
  <2>1. ServeInv'
    BY NextServeInv DEF SyncInv
  <2> QED
    BY <2>1 DEF SyncInv, ServeInv, ZeroInv
<1>2. /\ TypeOK /\ scst \in Seq(Section) /\ scst' \in Seq(Section)
      /\ devices \in SUBSET Files /\ devices' \in SUBSET Files /\ listed \in SUBSET Files
  BY <1>1 DEF IInv, TypeOK, listed
<1>3. BoundThere /\ Synced /\ FirstWriteThroughHonoured
  BY DEF SyncInv
\* Applying the store does not fail, before the step or after it.
<1>4. /\ HasEnabledZero(BoundPatterns(scst))
      /\ \A k : ApplyRaised(scst', devices', k) = {}
  <2>1. HasEnabledZero(BoundPatterns(scst)) /\ HasEnabledZero(BoundPatterns(scst'))
    BY <1>1 DEF ServeInv
  <2> QED
    BY <1>2, <2>1, NothingRaised
<1>5. ASSUME \A c \in Browsers : page'[c] = NoPage, Synced', FirstWriteThroughHonoured'
      PROVE  SyncInv'
  BY <1>1, <1>5 DEF SyncInv, BoundThere, Shown
<1>6. ASSUME UNCHANGED <<lvs, arrays>>
      PROVE  listed' = listed
  BY <1>6 DEF listed
<1>7. CASE Idle
  <2>1. /\ listed' \subseteq listed
        /\ UNCHANGED <<scst, kernel, devices, lvs, writecache, page>>
    BY <1>7 DEF Idle, listed
  <2>2. SameOrder(scst, scst', listed')
    BY <1>2, <2>1, SameOrderSame
  <2>3. FirstWriteThroughHonoured'
    BY <1>1, <1>3, <2>1, <2>2, CachingKept
  <2>4. BoundThere'
    BY <1>3, <2>1 DEF BoundThere, Shown
  <2>5. Synced'
    BY <1>3, <2>1 DEF Synced, Shown, Remaining
  <2> QED
    BY <1>1, <2>3, <2>4, <2>5 DEF SyncInv
<1>8. ASSUME NEW found \in SUBSET Arrays, Reboot(found)
      PROVE  SyncInv'
  <2>1. /\ devices' = listed' /\ scst' = scst
        /\ kernel' \in Applied(scst', devices', EmptyKernel) \cup ApplyRaised(scst', devices', EmptyKernel)
        /\ \A c \in Browsers : page'[c] = NoPage
    BY <1>8 DEF Reboot, listed
  <2>2. PICK w : writecache' \in CachingOutcomes(scst', listed', w)
    BY <1>8, <2>1 DEF Reboot
  <2>3. kernel' \in Applied(scst', devices', EmptyKernel)
    BY <1>4, <2>1
  <2> QED
    BY <1>1, <1>5, <2>1, <2>2, <2>3, AppliedSynced, CachingSet
<1>9. ASSUME NEW b \in Browsers, Loads(b)
      PROVE  SyncInv'
  <2>1. /\ SameOrder(scst, scst', listed)
        /\ BoundPatterns(scst') = {q \in BoundPatterns(scst) : q.filename \in listed}
        /\ \E k : kernel' \in Applied(scst', devices, k) \cup ApplyRaised(scst', devices, k)
        /\ UNCHANGED <<devices, lvs, arrays, writecache>>
    BY <1>9 DEF Loads
  <2>2. \E k : kernel' \in Applied(scst', devices', k)
    BY <1>4, <2>1
  <2>3. Synced'
    BY <1>1, <2>2, AppliedSynced
  <2>4. FirstWriteThroughHonoured'
    BY <1>1, <1>3, <1>6, <2>1, CachingKept
  <2>5. BoundThere'
    BY <2>1 DEF BoundThere, listed
  <2> QED
    BY <1>1, <2>3, <2>4, <2>5 DEF SyncInv
<1>10. ASSUME NEW b \in Browsers, Quiet(b)
       PROVE  SyncInv'
  <2>1. /\ SameOrder(scst, scst', Files) /\ Permits(scst') = Permits(scst) /\ Submitted(b)
        /\ UNCHANGED <<kernel, devices, lvs, arrays, writecache>>
    BY <1>10 DEF Quiet
  <2>2. SameOrder(scst, scst', listed) /\ SameOrder(scst, scst', devices)
    BY <1>2, <2>1, SameOrderFewer
  <2>3. FirstWriteThroughHonoured'
    BY <1>1, <1>3, <1>6, <2>1, <2>2, CachingKept
  <2>4. /\ dump(scst', devices) = dump(scst, devices)
        /\ Exportable(scst', devices) = {} <=> Exportable(scst, devices) = {}
    BY <1>2, <2>1, <2>2, SameDump
  <2>5. \A c \in Browsers : page'[c] = NoPage
    BY <1>2, <2>1, NoOtherPage
  <2>6. Synced'
    <3>1. Exportable(scst', devices') # {} => rem_target(kernel', {Iqn[f] : f \in Files \ devices'}) = dump(scst', devices')
      BY <1>3, <2>1, <2>4 DEF Synced, Remaining
    <3> QED
      BY <2>5, <3>1 DEF Synced, Remaining, Shown
  <2> QED
    BY <1>5, <2>3, <2>5, <2>6
<1>11. ASSUME NEW b \in Browsers, Reapplied(b)
       PROVE  SyncInv'
  <2>1. /\ SameOrder(scst, scst', Files) /\ Submitted(b)
        /\ UNCHANGED <<devices, lvs, arrays, writecache>>
        /\ \E k : kernel' \in Applied(scst', devices', k)
    BY <1>4, <1>11 DEF Reapplied
  <2>2. SameOrder(scst, scst', listed)
    BY <1>2, <2>1, SameOrderFewer
  <2>3. FirstWriteThroughHonoured'
    BY <1>1, <1>3, <1>6, <2>1, <2>2, CachingKept
  <2>4. Synced'
    BY <1>1, <2>1, AppliedSynced
  <2> QED
    BY <1>2, <1>5, <2>1, <2>3, <2>4, NoOtherPage
<1>12. ASSUME NEW b \in Browsers, NEW p \in AccessPattern, Binds(b, p)
       PROVE  SyncInv'
  <2>1. /\ kernel' \in Applied(scst', devices', kernel) /\ Submitted(b)
        /\ writecache' \in CachingOutcomes(scst', listed, writecache)
        /\ UNCHANGED <<devices, lvs, arrays>>
    BY <1>12 DEF Binds
  <2> QED
    BY <1>1, <1>2, <1>5, <1>6, <2>1, AppliedSynced, CachingSet, NoOtherPage
<1>13. ASSUME NEW b \in Browsers, NEW name, Unbinds(b, name)
       PROVE  SyncInv'
  <2>1. Submitted(b) /\ UNCHANGED <<devices, lvs, arrays>>
    BY <1>13 DEF Unbinds
  <2>2. PICK k : /\ kernel' \in Applied(scst', devices', k)
                 /\ writecache' \in CachingOutcomes(scst', listed, writecache)
    BY <1>4, <1>13 DEF Unbinds
  <2> QED
    BY <1>1, <1>2, <1>5, <1>6, <2>1, <2>2, AppliedSynced, CachingSet, NoOtherPage
\* Volumes come and go while the page is shown that was loaded after the
\* last change: the kernel serves what the store says, and nothing else.
<1>14. ASSUME NEW b \in Browsers, Shown(b), Submitted(b),
              UNCHANGED <<scst, kernel, writecache>>,
              Exportable(scst, devices \cap devices') = Exportable(scst, devices'),
              FirstWriteThroughHonoured'
       PROVE  SyncInv'
  <2>1. \A c \in Browsers : page'[c] = NoPage
    BY <1>2, <1>14, NoOtherPage
  <2>2. ASSUME Exportable(scst', devices') # {}
        PROVE  rem_target(kernel', {Iqn[f] : f \in Files \ devices'}) = dump(scst', devices')
    <3>1. Exportable(scst, devices) # {}
      BY <1>14, <2>2 DEF Exportable, is_binded
    <3>2. kernel' = dump(scst, devices)
      BY <1>3, <1>14, <3>1 DEF Synced
    <3>3. rem_target(dump(scst, devices), {Iqn[f] : f \in Files \ devices'})
          = dump(scst, devices \cap devices')
      BY <1>2, DumpRemoved
    <3>4. dump(scst, devices \cap devices') = dump(scst, devices')
      BY <1>14, DumpCollects
    <3> QED
      BY <1>14, <3>2, <3>3, <3>4
  <2>3. Synced'
    BY <2>1, <2>2 DEF Synced, Remaining, Shown
  <2> QED
    BY <1>5, <1>14, <2>1, <2>3
<1>15. ASSUME NEW b \in Browsers, NEW f \in Files, VolumeAdd(b, f)
       PROVE  SyncInv'
  <2>1. /\ Shown(b) /\ f \notin lvs /\ devices' = devices \cup {f} /\ lvs' = lvs \cup {f}
        /\ Submitted(b) /\ UNCHANGED <<scst, kernel, arrays, writecache>>
    BY <1>15 DEF VolumeAdd
  <2>2. \A i \in Patterns(scst) : scst[i].filename # f
    BY <1>3, <2>1, FilesAssumption DEF BoundThere, BoundPatterns
  <2>3. Exportable(scst, devices \cap devices') = Exportable(scst, devices')
    BY <2>1, <2>2 DEF Exportable, is_binded
  <2>4. listed' \ listed \subseteq {f} /\ BoundTo(scst, f) = {}
    BY <2>1, <2>2 DEF listed, BoundTo
  <2>5. SameOrder(scst, scst', listed')
    BY <1>2, <2>1, SameOrderSame
  <2>6. FirstWriteThroughHonoured'
    <3>1. \A g \in listed' \ listed : BoundTo(scst, g) = {}
      BY <2>4
    <3> QED
      BY <1>1, <1>3, <2>1, <2>5, <3>1, CachingKept
  <2> QED
    BY <1>14, <2>1, <2>3, <2>6
<1>16. ASSUME NEW b \in Browsers, NEW f \in Files, VolumeRemove(b, f)
       PROVE  SyncInv'
  <2>1. /\ Shown(b) /\ devices' \subseteq devices /\ lvs' \subseteq lvs
        /\ Submitted(b) /\ UNCHANGED <<scst, kernel, arrays, writecache>>
    BY <1>16 DEF VolumeRemove
  <2>2. Exportable(scst, devices \cap devices') = Exportable(scst, devices')
    <3>1. devices \cap devices' = devices'
      BY <2>1
    <3> QED
      BY <3>1
  <2>3. listed' \subseteq listed
    BY <2>1 DEF listed
  <2>4. SameOrder(scst, scst', listed')
    BY <1>2, <2>1, SameOrderSame
  <2>5. FirstWriteThroughHonoured'
    BY <1>1, <1>3, <2>1, <2>3, <2>4, CachingKept
  <2> QED
    BY <1>14, <2>1, <2>2, <2>5
<1> QED
  BY <1>1, <1>7, <1>8, <1>9, <1>10, <1>11, <1>12, <1>13, <1>15, <1>16, StepKinds

\* With one browser, targets of their own and no failing command, kernel and
\* write caches follow the store.
THEOREM SyncInvariant ==
    ASSUME OneBrowser, InjectiveIqn, Faults = {}
    PROVE  Spec => []SyncInv
<1>1. Init => SyncInv
  <2> SUFFICES ASSUME Init PROVE SyncInv
    OBVIOUS
  <2>1. Patterns(scst) = {} /\ \A b \in Browsers : page[b] = NoPage
    BY DEF Init, Patterns
  <2>2. BoundPatterns(scst) = {}
    BY <2>1 DEF BoundPatterns
  <2>3. ZeroInv
    BY <2>1, <2>2, InitIInv DEF ZeroInv, HasZero, FreshUnbind, Shown
  <2>4. listed \subseteq devices
    BY DEF Init, listed
  <2>5. ServeInv
    BY <2>1, <2>2, <2>3, <2>4 DEF ServeInv, HasEnabledZero, VolumesExist, Shown
  <2>6. BoundThere /\ Synced /\ FirstWriteThroughHonoured
    BY <2>1 DEF BoundThere, Shown, Synced, Exportable, FirstWriteThroughHonoured, WriteThroughFound, BoundTo
  <2> QED
    BY <2>5, <2>6 DEF SyncInv
<1>2. SyncInv /\ [Next]_vars => SyncInv'
  BY NextSyncInv
<1> QED
  BY <1>1, <1>2, PTL DEF Spec

\* As soon as one pattern is exported the kernel serves what the store says
\* of the volumes there are: no handler forgets to apply what it changed.
THEOREM KernelFollows ==
    ASSUME OneBrowser, InjectiveIqn, Faults = {}
    PROVE  Spec => []InSync
<1>1. SyncInv => InSync
  BY DEF SyncInv, Synced, InSync
<1> QED
  BY <1>1, SyncInvariant, PTL

\* A volume whose first pattern asks for write-through is never on an array
\* that caches writes: no handler that moves sections makes another pattern
\* the first without applying the policy.
THEOREM WriteThroughHonoured ==
    ASSUME OneBrowser, InjectiveIqn, Faults = {}
    PROVE  Spec => []FirstWriteThroughHonoured
<1>1. SyncInv => FirstWriteThroughHonoured
  BY DEF SyncInv
<1> QED
  BY <1>1, SyncInvariant, PTL
=============================================================================
