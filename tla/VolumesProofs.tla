--------------------------- MODULE VolumesProofs ---------------------------
(***************************************************************************)
(* What module Volumes keeps true for any number of arrays, volumes and    *)
(* administrators on stale pages, and whichever commands fail; and what    *)
(* it keeps true with one administrator only.                              *)
(***************************************************************************)
EXTENDS Volumes, TLAPS

\* The physical volume of an array is not negative in size.
LEMMA PvTotalType ==
    ASSUME NEW s \in Nat \ {0}
    PROVE  PvTotal(s) \in Nat
<1>1. s - 1 \in Nat /\ Extent \in Nat \ {0}
  BY SizesAssumption
<1>2. (s - 1) \div Extent \in Nat
  BY <1>1
<1> QED
  BY <1>1, <1>2 DEF PvTotal

\* lvcreate adds the volume or nothing.
LEMMA LvcreateType ==
    ASSUME NEW lab, NEW pv, NEW V \in SUBSET Volume, NEW new \in Volume,
           NEW W \in Lvcreate(lab, pv, V, new)
    PROVE  W \in SUBSET Volume
BY DEF Lvcreate

\* lvresize changes the size of a volume, or nothing.
LEMMA LvresizeType ==
    ASSUME TypeOK, NEW id, NEW s \in Nat, NEW pv, NEW W \in Lvresize(id, s, pv)
    PROVE  W \in SUBSET Volume
<1>1. volumes \in SUBSET Volume
  BY DEF TypeOK
<1>2. W = volumes \/ \E v \in volumes : W = (volumes \ {v}) \cup {[v EXCEPT !.size = s]}
  BY DEF Lvresize
<1>3. \A v \in volumes : [v EXCEPT !.size = s] \in Volume
  BY <1>1 DEF Volume
<1> QED
  BY <1>1, <1>2, <1>3

-----------------------------------------------------------------------------
\* A group is on one array, and no page has it on another: groups are given
\* names that neither a disk nor a page has.
Places ==
    /\ \A a, c \in Arrays : label[a] = label[c] /\ label[a] \in VGs => a = c
    /\ \A b \in Browsers : Shown(b) =>
          \A a, c \in Arrays : page[b].label[a] = label[c] /\ label[c] \in VGs => a = c

VInv == TypeOK /\ Places

\* Handlers take the label of an array away, or write a new group on it.
Relabels ==
    \/ \A c \in Arrays : label'[c] = label[c] \/ label'[c] \notin VGs
    \/ \E a \in Arrays, g \in Fresh : label' = [label EXCEPT ![a] = g]

\* No two arrays begin with a group.
LEMMA InitVInv == Init => VInv
<1> SUFFICES ASSUME Init PROVE VInv
  OBVIOUS
<1>1. size \in [Arrays -> Nat \ {0}]
  BY SizesAssumption DEF Init
<1>2. TypeOK
  BY <1>1 DEF Init, TypeOK, Label
<1>3. Places
  BY LabelsAssumption DEF Init, Places, Shown
<1> QED
  BY <1>2, <1>3 DEF VInv

\* A handler that relabels so and leaves values of the right types.
LEMMA HandlerStep ==
    ASSUME VInv, NEW b \in Browsers, Submitted(b), Relabels,
           label' \in [Arrays -> Label], total' \in [Arrays -> Nat],
           volumes' \in SUBSET Volume, active' \in SUBSET VGs, busy' \in SUBSET Arrays,
           UNCHANGED <<size, exported>>
    PROVE  VInv'
<1>1. page' \in [Browsers -> Page \cup {NoPage}]
  BY DEF VInv, TypeOK, Submitted
<1>2. TypeOK'
  BY <1>1 DEF VInv, TypeOK
<1>3. \A c \in Browsers : page'[c] # NoPage => page[c] # NoPage /\ page'[c] = page[c]
  BY DEF VInv, TypeOK, Submitted
<1>4. label \in [Arrays -> Label] /\ Places
  BY DEF VInv, TypeOK
<1>5. Places'
  <2>1. CASE \A c \in Arrays : label'[c] = label[c] \/ label'[c] \notin VGs
    BY <1>3, <1>4, <2>1 DEF Places, Shown
  <2>2. CASE \E a \in Arrays, g \in Fresh : label' = [label EXCEPT ![a] = g]
    <3>1. PICK a \in Arrays, g \in Fresh : label' = [label EXCEPT ![a] = g]
      BY <2>2
    <3>2. /\ \A c \in Arrays : label[c] # g
          /\ \A c \in Browsers : page[c] # NoPage => \A d \in Arrays : page[c].label[d] # g
      BY DEF Fresh, OnDisk, Shown
    <3> QED
      BY <1>3, <1>4, <3>1, <3>2 DEF Places, Shown
  <2> QED
    BY <2>1, <2>2 DEF Relabels
<1> QED
  BY <1>2, <1>5 DEF VInv

\* Adding a volume, in any of its outcomes.
LEMMA AddStep ==
    ASSUME VInv, NEW b \in Browsers, NEW a \in Arrays, NEW n \in Names, NEW s \in Sizes,
           lvm_logical_volume_add(b, a, n, s)
    PROVE  VInv'
<1> DEFINE p == page[b]
           on == active \cup OnDisk
           shape == /\ label' \in [Arrays -> Label] /\ total' \in [Arrays -> Nat]
                    /\ volumes' \in SUBSET Volume
                    /\ active' \in SUBSET VGs /\ busy' \in SUBSET Arrays
<1>1. TypeOK /\ on \in SUBSET VGs /\ s \in Nat
  BY SizesAssumption DEF VInv, TypeOK, OnDisk
<1>2. p \in Page
  BY <1>1 DEF lvm_logical_volume_add, Shown, TypeOK
<1>3. /\ total \in [Arrays -> Nat] /\ label \in [Arrays -> Label] /\ volumes \in SUBSET Volume
      /\ size[a] \in Nat \ {0} /\ busy \in SUBSET Arrays
  BY <1>1 DEF TypeOK
<1>4. PvTotal(size[a]) \in Nat
  BY <1>3, PvTotalType
<1>5. ASSUME NEW up \in SUBSET VGs, CreateFromScratch(a, n, s, up)
      PROVE  shape /\ Relabels
  <2>1. Survivors({a}) \in SUBSET Volume /\ busy \cup Mapped({a}, up) \in SUBSET Arrays
    BY <1>3 DEF Survivors, Mapped
  <2>2. CASE UNCHANGED <<label, total, volumes, busy>> /\ active' = up
    BY <1>3, <2>2 DEF Relabels
  <2>3. CASE /\ \E l \in {Blank, Orphan} : label' = [label EXCEPT ![a] = l]
             /\ total' = [total EXCEPT ![a] = 0]
             /\ active' = up \ {label[a]}
             /\ volumes' = Survivors({a}) /\ busy' = busy \cup Mapped({a}, up)
    <3>1. label' \in [Arrays -> Label] /\ \A c \in Arrays : label'[c] = label[c] \/ label'[c] \notin VGs
      BY <1>3, <2>3, LabelsAssumption DEF Label
    <3> QED
      BY <1>3, <2>1, <2>3, <3>1 DEF Relabels
  <2>4. CASE /\ \E g \in Fresh :
                   /\ label' = [label EXCEPT ![a] = g]
                   /\ total' = [total EXCEPT ![a] = PvTotal(size[a])]
                   /\ active' = (up \ {label[a]}) \cup {g}
                   /\ volumes' \in Lvcreate(label', total', Survivors({a}),
                                      [vg |-> g, name |-> n, origin |-> NoOrigin, size |-> s])
             /\ busy' = busy \cup Mapped({a}, up)
    <3>1. PICK g \in Fresh :
                   /\ label' = [label EXCEPT ![a] = g]
                   /\ total' = [total EXCEPT ![a] = PvTotal(size[a])]
                   /\ active' = (up \ {label[a]}) \cup {g}
                   /\ volumes' \in Lvcreate(label', total', Survivors({a}),
                                      [vg |-> g, name |-> n, origin |-> NoOrigin, size |-> s])
      BY <2>4
    <3>2. g \in VGs
      BY DEF Fresh
    <3>3. [vg |-> g, name |-> n, origin |-> NoOrigin, size |-> s] \in Volume
      BY <1>1, <3>2 DEF Volume
    <3>4. volumes' \in SUBSET Volume
      BY <2>1, <3>1, <3>3, LvcreateType
    <3>5. label' \in [Arrays -> Label] /\ total' \in [Arrays -> Nat] /\ Relabels
      BY <1>3, <1>4, <3>1, <3>2 DEF Label, Relabels
    <3> QED
      BY <2>1, <2>4, <3>1, <3>2, <3>4, <3>5
  <2> QED
    BY <1>5, <2>2, <2>3, <2>4 DEF CreateFromScratch
<1>6. ASSUME ~FromScratch(p, a), AddToGroup(p, a, n, s), active' = on, UNCHANGED <<label, busy>>
      PROVE  shape /\ Relabels
  <2>1. Maximized(p, a, total) \in [Arrays -> Nat]
    BY <1>3, <1>4 DEF Maximized
  <2>2. total' \in [Arrays -> Nat]
    BY <1>3, <1>6, <2>1 DEF AddToGroup
  <2>3. volumes' \in SUBSET Volume
    <3>1. CASE volumes' = volumes
      BY <1>3, <3>1
    <3>2. CASE volumes' # volumes
      <4> DEFINE new == [vg |-> p.label[a], name |-> n, origin |-> NoOrigin, size |-> s]
      <4>1. volumes' \in Lvcreate(label, total', volumes, new)
        BY <1>6, <3>2 DEF AddToGroup
      <4>2. p.label[a] \in VGs
        BY <1>2, <1>6 DEF FromScratch, Numbered, Page, Volume
      <4>3. new \in Volume
        BY <1>1, <4>2 DEF Volume
      <4> QED
        BY <1>3, <4>1, <4>3, LvcreateType
    <3> QED
      BY <3>1, <3>2
  <2> QED
    BY <1>1, <1>3, <1>6, <2>2, <2>3 DEF Relabels
<1>7. shape /\ Relabels
  <2>1. CASE ~FromScratch(p, a)
    BY <1>6, <2>1 DEF lvm_logical_volume_add
  <2>2. CASE active' = on /\ UNCHANGED <<label, total, volumes, busy>>
    BY <1>1, <1>3, <2>2 DEF Relabels
  <2>3. CASE CreateFromScratch(a, n, s, on \ {p.label[a]})
    <3>1. CreateFromScratch(a, n, s, on \ {p.label[a]})
      BY <2>3
    <3>2. on \ {p.label[a]} \in SUBSET VGs
      BY <1>1
    <3> QED
      BY <1>5, <3>1, <3>2
  <2>4. CASE CreateFromScratch(a, n, s, on)
    BY <1>1, <1>5, <2>4
  <2> QED
    BY <2>1, <2>2, <2>3, <2>4 DEF lvm_logical_volume_add
<1> QED
  BY <1>7, HandlerStep DEF lvm_logical_volume_add

\* Removing a volume, alone or with its group.
LEMMA RemoveStep ==
    ASSUME VInv, NEW b \in Browsers, NEW id, lvm_logical_volume_remove(b, id)
    PROVE  VInv'
<1>1. /\ label \in [Arrays -> Label] /\ total \in [Arrays -> Nat] /\ volumes \in SUBSET Volume
      /\ active \in SUBSET VGs /\ busy \in SUBSET Arrays
  BY DEF VInv, TypeOK
<1> DEFINE p == page[b]
           as == {a \in Arrays : p.label[a] = id[1]}
<1>2. CASE IsLast(p, id) /\ UNCHANGED <<label, total, volumes, busy>> /\ active' \in {active, active \ {id[1]}}
  <2>1. Relabels /\ active' \in SUBSET VGs
    BY <1>1, <1>2 DEF Relabels
  <2> QED
    BY <1>1, <1>2, <2>1, HandlerStep DEF lvm_logical_volume_remove
<1>3. CASE /\ IsLast(p, id)
           /\ label' = [a \in Arrays |-> IF a \in as THEN Blank ELSE label[a]]
           /\ total' = [a \in Arrays |-> IF a \in as THEN 0 ELSE total[a]]
           /\ active' = active \ {id[1]}
           /\ volumes' = Survivors(as)
           /\ busy' = busy \cup Mapped(as, active \ {id[1]})
  <2>1. label' \in [Arrays -> Label] /\ Relabels
    BY <1>1, <1>3, LabelsAssumption DEF Relabels, Label
  <2>2. volumes' \in SUBSET Volume /\ busy' \in SUBSET Arrays
    BY <1>1, <1>3 DEF Survivors, Mapped
  <2>3. total' \in [Arrays -> Nat] /\ active' \in SUBSET VGs
    BY <1>1, <1>3
  <2> QED
    BY <2>1, <2>2, <2>3, HandlerStep DEF lvm_logical_volume_remove
<1>4. CASE volumes' \in Lvremove(id) /\ UNCHANGED <<label, total, active, busy>>
  <2>1. volumes' \in SUBSET Volume
    BY <1>1, <1>4 DEF Lvremove
  <2>2. Relabels
    BY <1>4 DEF Relabels
  <2> QED
    BY <1>1, <1>4, <2>1, <2>2, HandlerStep DEF lvm_logical_volume_remove
<1> QED
  BY <1>2, <1>3, <1>4 DEF lvm_logical_volume_remove, RemoveGroup

\* The handlers that check the bounds of the physical volume: they can only
\* change its size and the set of volumes.
LEMMA MaximizedType ==
    ASSUME TypeOK, NEW p, NEW a \in Arrays, NEW now
    PROVE  Maximized(p, a, now) \in [Arrays -> Nat]
<1>1. PvTotal(size[a]) \in Nat
  BY PvTotalType DEF TypeOK
<1> QED
  BY <1>1 DEF Maximized, TypeOK

\* What BoundsChecked leaves keeps the volumes and sizes in their types and places.
LEMMA BoundsStep ==
    ASSUME VInv, NEW b \in Browsers, Submitted(b),
           total' = total \/ (\E a \in Arrays : total' = Maximized(page[b], a, page[b].total)),
           volumes' \in SUBSET Volume,
           UNCHANGED <<label, size, active, busy, exported>>
    PROVE  VInv'
<1>1. total' \in [Arrays -> Nat]
  <2>1. \A a \in Arrays : Maximized(page[b], a, page[b].total) \in [Arrays -> Nat]
    BY MaximizedType DEF VInv
  <2>2. total \in [Arrays -> Nat]
    BY DEF VInv, TypeOK
  <2> QED
    BY <2>1, <2>2
<1>2. Relabels
  BY DEF Relabels
<1>3. /\ label' \in [Arrays -> Label] /\ active' \in SUBSET VGs /\ busy' \in SUBSET Arrays
  BY DEF VInv, TypeOK
<1> QED
  BY <1>1, <1>2, <1>3, HandlerStep

\* The two resize handlers preserve the invariant.
LEMMA ResizeStep ==
    ASSUME VInv, NEW b \in Browsers, NEW v \in page[b].volumes, NEW s \in Sizes,
           lvm_logical_volume_resize(b, v, s) \/ lvm_logical_volume_snapshot_resize(b, v, s)
    PROVE  VInv'
<1>1. /\ total' = total \/ (\E a \in Arrays : total' = Maximized(page[b], a, page[b].total))
      /\ volumes' = volumes \/ volumes' \in Lvresize(Id(v), s, total')
  BY DEF lvm_logical_volume_resize, lvm_logical_volume_snapshot_resize, BoundsRaised, BoundsChecked
<1>2. volumes' \in SUBSET Volume
  BY <1>1, LvresizeType, SizesAssumption DEF VInv, TypeOK
<1> QED
  BY <1>1, <1>2, BoundsStep DEF lvm_logical_volume_resize, lvm_logical_volume_snapshot_resize

\* Taking a snapshot preserves the invariant.
LEMMA SnapshotStep ==
    ASSUME VInv, NEW b \in Browsers, NEW v \in page[b].volumes, NEW s \in Sizes,
           lvm_logical_volume_snapshot_add(b, v, s)
    PROVE  VInv'
<1>1. v \in Volume /\ s \in Nat
  BY SizesAssumption DEF VInv, TypeOK, lvm_logical_volume_snapshot_add, Shown, Page
<1>2. /\ total' = total \/ (\E a \in Arrays : total' = Maximized(page[b], a, page[b].total))
      /\ \/ volumes' = volumes
         \/ \E n \in Names : volumes' \in Lvcreate(label, total', volumes,
                                  [vg |-> v.vg, name |-> n, origin |-> v.name, size |-> s])
  BY DEF lvm_logical_volume_snapshot_add, BoundsRaised, BoundsChecked
<1>3. \A n \in Names : [vg |-> v.vg, name |-> n, origin |-> v.name, size |-> s] \in Volume
  BY <1>1 DEF Volume
<1>4. volumes' \in SUBSET Volume
  <2>1. volumes \in SUBSET Volume
    BY DEF VInv, TypeOK
  <2>2. ASSUME NEW n \in Names,
               volumes' \in Lvcreate(label, total', volumes,
                               [vg |-> v.vg, name |-> n, origin |-> v.name, size |-> s])
        PROVE  volumes' \in SUBSET Volume
    BY <1>3, <2>1, <2>2, LvcreateType
  <2> QED
    BY <1>2, <2>1, <2>2
<1> QED
  BY <1>2, <1>4, BoundsStep DEF lvm_logical_volume_snapshot_add

\* Everything else: nothing but the size of an array, what is open, what is
\* active or what a page shows is changed.
LEMMA QuietStep ==
    ASSUME VInv, UNCHANGED <<label, total, volumes>>,
           size' \in [Arrays -> Nat \ {0}], active' \in SUBSET VGs, busy' \in SUBSET Arrays,
           exported' \in SUBSET (VGs \X Names), page' \in [Browsers -> Page \cup {NoPage}],
           \A b \in Browsers : page'[b] # NoPage => page'[b] = page[b] \/ page'[b].label = label
    PROVE  VInv'
<1>1. TypeOK'
  BY DEF VInv, TypeOK
<1>2. Places'
  BY DEF VInv, Places, Shown
<1> QED
  BY <1>1, <1>2 DEF VInv

\* Rendering a page copies what is on the disks: the page is of its type.
LEMMA PageLoadStep ==
    ASSUME VInv, NEW b \in Browsers, PageLoad(b)
    PROVE  VInv'
<1> DEFINE new == [label |-> label, total |-> total, size |-> size,
                   volumes |-> {v \in volumes : v.vg \in active},
                   removable |-> {Id(v) : v \in {w \in volumes : w.vg \in active}} \ exported]
<1>1. TypeOK
  BY DEF VInv
<1>2. \A v \in volumes : Id(v) \in VGs \X Names
  BY <1>1 DEF TypeOK, Volume, Id
<1>3. new \in Page
  <2>1. new.removable \in SUBSET (VGs \X Names)
    BY <1>2
  <2>2. new.volumes \in SUBSET Volume
    BY <1>1 DEF TypeOK
  <2> HIDE DEF Page
  <2> QED
    BY <1>1, <2>1, <2>2 DEF TypeOK, Page
<1>4. page' = [page EXCEPT ![b] = new] /\ UNCHANGED <<label, total, size, volumes, active, busy, exported>>
  BY DEF PageLoad
<1> HIDE DEF new
<1>5. new.label = label
  BY DEF new
<1>6. /\ page' \in [Browsers -> Page \cup {NoPage}]
      /\ \A c \in Browsers : page'[c] # NoPage => page'[c] = page[c] \/ page'[c].label = label
  BY <1>1, <1>3, <1>4, <1>5 DEF TypeOK
<1>7. /\ size' \in [Arrays -> Nat \ {0}] /\ active' \in SUBSET VGs /\ busy' \in SUBSET Arrays
      /\ exported' \in SUBSET (VGs \X Names)
  BY <1>1, <1>4 DEF TypeOK
<1> QED
  BY <1>4, <1>6, <1>7, QuietStep

\* Growth, export and reboot preserve the invariant.
LEMMA SurroundingsStep ==
    ASSUME VInv, Surroundings
    PROVE  VInv'
<1>1. TypeOK
  BY DEF VInv
<1>2. \A v \in volumes : Id(v) \in VGs \X Names
  BY <1>1 DEF TypeOK, Volume, Id
<1>3. /\ UNCHANGED <<label, total, volumes>>
      /\ size' \in [Arrays -> Nat \ {0}] /\ active' \in SUBSET VGs /\ busy' \in SUBSET Arrays
      /\ exported' \in SUBSET (VGs \X Names)
      /\ page' \in [Browsers -> Page \cup {NoPage}]
      /\ \A b \in Browsers : page'[b] # NoPage => page'[b] = page[b]
  <2>1. CASE \E a \in Arrays : Grow(a)
    BY <1>1, <2>1, SizesAssumption DEF TypeOK, Grow
  <2>2. CASE \E v \in volumes : Export(v)
    BY <1>1, <1>2, <2>2 DEF TypeOK, Export
  <2>3. CASE \E id \in exported : Unexport(id)
    BY <1>1, <2>3 DEF TypeOK, Unexport
  <2>4. CASE Reboot
    BY <1>1, <2>4 DEF TypeOK, Reboot, OnDisk
  <2> QED
    BY <2>1, <2>2, <2>3, <2>4 DEF Surroundings
<1> QED
  BY <1>3, QuietStep

\* Every step keeps the invariant.
LEMMA NextVInv == VInv /\ [Next]_vars => VInv'
<1> SUFFICES ASSUME VInv, [Next]_vars PROVE VInv'
  OBVIOUS
<1>1. CASE Surroundings
  BY <1>1, SurroundingsStep
<1>2. ASSUME NEW b \in Browsers, Request(b)
      PROVE  VInv'
  <2>1. CASE InvalidForm(b)
    <3>1. UNCHANGED <<label, size, active, busy, exported, total, volumes>> /\ Submitted(b)
      BY <2>1 DEF InvalidForm, Refuse
    <3>2. volumes' \in SUBSET Volume
      BY <3>1 DEF VInv, TypeOK
    <3> QED
      BY <3>1, <3>2, BoundsStep
  <2>2. CASE PageLoad(b)
    BY <2>2, PageLoadStep
  <2>3. CASE \E a \in Arrays, n \in Names, s \in Sizes : lvm_logical_volume_add(b, a, n, s)
    BY <2>3, AddStep
  <2>4. CASE \E id \in page[b].removable : lvm_logical_volume_remove(b, id)
    BY <2>4, RemoveStep
  <2>5. CASE \E v \in page[b].volumes, s \in Sizes :
                \/ lvm_logical_volume_resize(b, v, s)
                \/ lvm_logical_volume_snapshot_resize(b, v, s)
    BY <2>5, ResizeStep
  <2>6. CASE \E v \in page[b].volumes, s \in Sizes : lvm_logical_volume_snapshot_add(b, v, s)
    BY <2>6, SnapshotStep
  <2> QED
    BY <1>2, <2>1, <2>2, <2>3, <2>4, <2>5, <2>6 DEF Request
<1>3. CASE UNCHANGED vars
  BY <1>3 DEF vars, VInv, TypeOK, Places, Shown
<1> QED
  BY <1>1, <1>2, <1>3 DEF Next

-----------------------------------------------------------------------------
\* A group lies on one array, and a page knows it there or not at all: what
\* a handler does, by array or by group name, it does to the same volumes.
THEOREM PlacesInvariant == Spec => []VInv
BY InitVInv, NextVInv, PTL DEF Spec

\* Sizes, labels and pages keep their types: lvresize is never asked for a
\* negative size, nor pvresize for a negative physical volume.
THEOREM VolumesTypeCorrect == Spec => []TypeOK
<1>1. VInv => TypeOK
  BY DEF VInv
<1> QED
  BY <1>1, PlacesInvariant, PTL

\* Removing a volume from however old a page keeps the exported volumes and
\* those of other groups.
THEOREM RemovalKeepsOthers == Spec => RemoveKeepsOthers
<1>1. ASSUME VInv, NEW b \in Browsers, Shown(b), NEW id \in page[b].removable,
             lvm_logical_volume_remove(b, id),
             NEW v \in volumes, Id(v) \in exported \/ v.vg # id[1]
      PROVE  v \in volumes'
  <2>1. CASE volumes' = volumes
    BY <2>1
  <2>2. CASE /\ CanStop(id[1])
             /\ volumes' = Survivors({a \in Arrays : page[b].label[a] = id[1]})
    <3>1. v.vg # id[1]
      BY <1>1, <2>2 DEF CanStop
    <3>2. PICK c \in Arrays : label[c] = id[1] /\ id[1] \in VGs
      BY <2>2 DEF CanStop, OnDisk
    <3>3. \A a \in Arrays : page[b].label[a] = id[1] => a = c
      BY <1>1, <3>2 DEF VInv, Places
    <3> QED
      BY <2>2, <3>1, <3>2, <3>3 DEF Survivors
  <2>3. CASE volumes' \in Lvremove(id)
    BY <1>1, <2>3 DEF Lvremove, Snapshots, Id
  <2> QED
    BY <1>1, <2>1, <2>2, <2>3 DEF lvm_logical_volume_remove, RemoveGroup
<1>2. VInv /\ [Next]_vars =>
      [\A b \in Browsers : Shown(b) => \A id \in page[b].removable :
         lvm_logical_volume_remove(b, id) =>
            \A v \in volumes : Id(v) \in exported \/ v.vg # id[1] => v \in volumes']_vars
  BY <1>1
<1> QED
  BY <1>2, PlacesInvariant, PTL DEF Spec, RemoveKeepsOthers

-----------------------------------------------------------------------------
(***************************************************************************)
(* With one administrator                                                  *)
(***************************************************************************)

\* One browser at a time is used: what volumes_stale shows does not happen.
OneBrowser == \A b, c \in Browsers : b = c

\* A volume is known by its group and its name.
DistinctIds(V) == \A v, w \in V : Id(v) = Id(w) => v = w

\* A snapshot is in the group of a volume that is not a snapshot itself.
Snapshotted(V) ==
    \A v \in V : v.origin # NoOrigin =>
        \E o \in V : o.vg = v.vg /\ o.name = v.origin /\ o.origin = NoOrigin

Good(V) == V \in SUBSET Volume /\ DistinctIds(V) /\ Snapshotted(V)

\* The page that is shown tells what is on the disks.
Current ==
    \A b \in Browsers : Shown(b) =>
        page[b].label = label /\ page[b].volumes = {v \in volumes : v.vg \in active}

\* The inductive invariant: that of any number of browsers, and that the
\* decisions made from the page are made from what there is.
OneInv == VInv /\ Current /\ Good(volumes) /\ NoOrphanedMappings

\* When a button was pressed there is no page left to press one on.
LEMMA NoOtherPage ==
    ASSUME OneBrowser, TypeOK, NEW b \in Browsers, Submitted(b)
    PROVE  Current'
<1>1. \A c \in Browsers : c = b
  BY DEF OneBrowser
<1>2. page'[b] = NoPage
  BY DEF TypeOK, Submitted
<1> QED
  BY <1>1, <1>2 DEF Current, Shown

\* Wiping labels takes whole groups away.
LEMMA SurvivorsGood ==
    ASSUME Good(volumes), NEW as
    PROVE  Good(Survivors(as))
BY DEF Good, DistinctIds, Snapshotted, Survivors

\* lvcreate adds a volume with a name of its own, or nothing.
LEMMA LvcreateGood ==
    ASSUME NEW V, Good(V), NEW lab, NEW pv, NEW new \in Volume, NEW W \in Lvcreate(lab, pv, V, new),
           \/ new.origin = NoOrigin
           \/ \E o \in V : o.vg = new.vg /\ o.name = new.origin /\ o.origin = NoOrigin
    PROVE  /\ Good(W) /\ V \subseteq W
           /\ \A w \in W : w \in V \/ (w = new /\ \A v \in V : Id(v) # Id(w))
<1>1. W = V \/ (W = V \cup {new} /\ \A v \in V : Id(v) # Id(new))
  BY DEF Lvcreate
<1>2. CASE W = V
  BY <1>2
<1>3. CASE W = V \cup {new} /\ \A v \in V : Id(v) # Id(new)
  <2>1. DistinctIds(W)
    BY <1>3 DEF Good, DistinctIds
  <2>2. Snapshotted(W)
    BY <1>3 DEF Good, Snapshotted
  <2> QED
    BY <1>3, <2>1, <2>2 DEF Good
<1> QED
  BY <1>1, <1>2, <1>3

\* lvremove takes the snapshots of a volume with it.
LEMMA LvremoveGood ==
    ASSUME Good(volumes), NEW id, NEW W \in Lvremove(id)
    PROVE  /\ Good(W) /\ W \subseteq volumes
           /\ \A v \in volumes : v \in W \/ Id(v) = id \/ <<v.vg, v.origin>> = id
<1> DEFINE named == {v \in volumes : Id(v) = id}
           gone == named \cup UNION {Snapshots(v) : v \in named}
<1>1. W = volumes \/ W = volumes \ gone
  BY DEF Lvremove
<1>2. \A v \in gone : v \in volumes /\ (Id(v) = id \/ <<v.vg, v.origin>> = id)
  BY DEF Snapshots, Id
<1>3. \A v \in gone : v.origin = NoOrigin => Id(v) = id
  BY NamesAssumption DEF Snapshots, Good, Volume
<1>4. \A v, o \in volumes : Id(o) = id /\ o.vg = v.vg /\ o.name = v.origin => v \in gone
  BY DEF Snapshots
<1>5. Snapshotted(volumes \ gone)
  BY <1>3, <1>4 DEF Good, Snapshotted
<1>6. DistinctIds(volumes \ gone)
  BY DEF Good, DistinctIds
<1>7. Good(volumes \ gone)
  BY <1>5, <1>6 DEF Good
<1> HIDE DEF gone
<1> QED
  BY <1>1, <1>2, <1>7

\* lvresize gives one volume another size, or does nothing.
LEMMA LvresizeGood ==
    ASSUME Good(volumes), NEW id, NEW s \in Nat, NEW pv, NEW W \in Lvresize(id, s, pv)
    PROVE  /\ Good(W)
           /\ \A v \in volumes : \E w \in W : Id(w) = Id(v)
           /\ \A v \in volumes, w \in W : Id(w) = Id(v) => w.size = v.size \/ (Id(v) = id /\ w.size = s)
<1>1. CASE W = volumes
  BY <1>1 DEF Good, DistinctIds
<1>2. CASE \E v \in volumes : Id(v) = id /\ W = (volumes \ {v}) \cup {[v EXCEPT !.size = s]}
  <2>1. PICK v \in volumes : Id(v) = id /\ W = (volumes \ {v}) \cup {[v EXCEPT !.size = s]}
    BY <1>2
  <2> DEFINE w == [v EXCEPT !.size = s]
  <2>2. /\ w \in Volume /\ w.vg = v.vg /\ w.name = v.name /\ w.origin = v.origin /\ w.size = s
    BY DEF Good, Volume
  <2>3. W = (volumes \ {v}) \cup {w}
    BY <2>1
  <2> HIDE DEF w
  <2>4. DistinctIds(W)
    BY <2>2, <2>3 DEF Good, DistinctIds, Id
  <2>5. Snapshotted(W)
    BY <2>2, <2>3 DEF Good, Snapshotted
  <2>6. Good(W)
    BY <2>2, <2>3, <2>4, <2>5 DEF Good
  <2>7. Id(w) = Id(v)
    BY <2>2 DEF Id
  <2>8. \A x \in volumes : \E y \in W : Id(y) = Id(x)
    BY <2>3, <2>7
  <2>9. ASSUME NEW x \in volumes, NEW y \in W, Id(y) = Id(x)
        PROVE  y.size = x.size \/ (Id(x) = id /\ y.size = s)
    BY <2>1, <2>2, <2>3, <2>7, <2>9 DEF Good, DistinctIds
  <2> QED
    BY <2>6, <2>8, <2>9
<1> QED
  BY <1>1, <1>2 DEF Lvresize

\* Nothing exists at first.
LEMMA InitOneInv == Init => OneInv
<1> SUFFICES ASSUME Init PROVE OneInv
  OBVIOUS
<1>1. VInv
  BY InitVInv
<1>2. Good(volumes)
  BY DEF Init, Good, DistinctIds, Snapshotted
<1> QED
  BY <1>1, <1>2 DEF Init, OneInv, Current, Shown, NoOrphanedMappings

\* Creating from scratch: the group stopped is the one on the array, so that
\* nothing stays mapped, and it has no active volume.
LEMMA FromScratchCase ==
    ASSUME OneInv, NEW b \in Browsers, Shown(b), NEW a \in Arrays, NEW n \in Names, NEW s \in Nat,
           FromScratch(page[b], a), NEW on, label[a] \notin on \/ label[a] \notin VGs,
           CreateFromScratch(a, n, s, on)
    PROVE  /\ Good(volumes') /\ busy' = {}
           /\ \A v \in volumes : v \in volumes' \/ v.vg \notin active
           /\ \A v \in volumes, w \in volumes' : Id(w) = Id(v) => w = v
<1> DEFINE left == Survivors({a})
<1>1. Good(volumes) /\ Good(left) /\ busy = {}
  BY SurvivorsGood DEF OneInv, NoOrphanedMappings
<1>2. Mapped({a}, on) = {}
  BY <1>1 DEF Mapped, Good, Volume
<1>3. left \subseteq volumes /\ \A v \in volumes : v \in left \/ v.vg = label[a]
  BY DEF Survivors
<1>4. \A v \in volumes : v.vg = label[a] => v.vg \notin active
  <2> SUFFICES ASSUME NEW v \in volumes, v.vg = label[a], v.vg \in active
               PROVE  FALSE
    OBVIOUS
  <2>1. PICK o \in volumes : o.vg = v.vg /\ o.origin = NoOrigin
    BY <1>1 DEF Good, Snapshotted
  <2>2. o \in page[b].volumes /\ page[b].label = label
    BY <2>1 DEF OneInv, Current
  <2> QED
    BY <2>1, <2>2 DEF FromScratch, Numbered
<1> HIDE DEF left
<1>5. CASE volumes' = volumes /\ busy' = busy
  BY <1>1, <1>5 DEF Good, DistinctIds
<1>6. CASE volumes' = left /\ busy' = busy \cup Mapped({a}, on)
  BY <1>1, <1>2, <1>3, <1>4, <1>6 DEF Good, DistinctIds
<1>7. CASE /\ busy' = busy \cup Mapped({a}, on)
           /\ \E g \in Fresh :
                 volumes' \in Lvcreate(label', total', left,
                                [vg |-> g, name |-> n, origin |-> NoOrigin, size |-> s])
  <2>1. PICK g \in Fresh : volumes' \in Lvcreate(label', total', left,
                                [vg |-> g, name |-> n, origin |-> NoOrigin, size |-> s])
    BY <1>7
  <2> DEFINE new == [vg |-> g, name |-> n, origin |-> NoOrigin, size |-> s]
  <2>2. new \in Volume /\ new.vg = g /\ new.origin = NoOrigin
    BY DEF Fresh, Volume
  <2>3. g # label[a]
    BY DEF Fresh, OnDisk
  <2>4. volumes' \in Lvcreate(label', total', left, new)
    BY <2>1
  <2> HIDE DEF new
  <2>5. /\ Good(volumes') /\ left \subseteq volumes'
        /\ \A w \in volumes' : w \in left \/ (w = new /\ \A v \in left : Id(v) # Id(w))
    BY <1>1, <2>2, <2>4, LvcreateGood
  <2>6. ASSUME NEW v \in volumes, NEW w \in volumes', Id(w) = Id(v)
        PROVE  w = v
    <3>1. CASE w \in left
      BY <1>1, <1>3, <2>6, <3>1 DEF Good, DistinctIds
    <3>2. CASE w = new /\ \A x \in left : Id(x) # Id(w)
      <4>1. v.vg = label[a] /\ w.vg = g
        BY <1>3, <2>2, <2>6, <3>2
      <4> QED
        BY <2>3, <2>6, <4>1 DEF Id
    <3> QED
      BY <2>5, <3>1, <3>2
  <2> QED
    BY <1>1, <1>2, <1>3, <1>4, <1>7, <2>5, <2>6
<1> QED
  BY <1>5, <1>6, <1>7 DEF CreateFromScratch, left

\* Adding a volume, in any of its outcomes.
LEMMA AddCase ==
    ASSUME OneInv, NEW b \in Browsers, NEW a \in Arrays, NEW n \in Names, NEW s \in Sizes,
           lvm_logical_volume_add(b, a, n, s)
    PROVE  /\ Good(volumes') /\ busy' = {}
           /\ \A v \in volumes : v \in volumes' \/ v.vg \notin active
           /\ \A v \in volumes, w \in volumes' : Id(w) = Id(v) => w = v
<1> DEFINE p == page[b]
           up == active \cup OnDisk
<1>1. Good(volumes) /\ busy = {} /\ Shown(b) /\ p.label = label /\ s \in Nat
  BY SizesAssumption DEF OneInv, NoOrphanedMappings, Current, lvm_logical_volume_add
<1>2. CASE volumes' = volumes /\ busy' = busy
  BY <1>1, <1>2 DEF Good, DistinctIds
<1>3. CASE ~FromScratch(p, a) /\ volumes' # volumes
  <2> DEFINE new == [vg |-> p.label[a], name |-> n, origin |-> NoOrigin, size |-> s]
  <2>1. volumes' \in Lvcreate(label, total', volumes, new) /\ busy' = busy
    BY <1>3 DEF lvm_logical_volume_add, AddToGroup
  <2>2. p.label[a] \in VGs
    BY <1>1, <1>3 DEF FromScratch, Numbered, OneInv, Current, Good, Volume
  <2>3. new \in Volume /\ new.origin = NoOrigin
    BY <1>1, <2>2 DEF Volume
  <2> HIDE DEF new
  <2> QED
    BY <1>1, <2>1, <2>3, LvcreateGood DEF Good, DistinctIds
<1>4. CASE \E on : /\ FromScratch(p, a) /\ CreateFromScratch(a, n, s, on)
                   /\ label[a] \notin on \/ label[a] \notin VGs
  BY <1>1, <1>4, FromScratchCase
<1>5. CASE ~FromScratch(p, a) /\ volumes' = volumes
  BY <1>2, <1>5 DEF lvm_logical_volume_add
<1>6. CASE FromScratch(p, a) /\ CreateFromScratch(a, n, s, up \ {p.label[a]})
  BY <1>1, <1>4, <1>6
<1>7. CASE FromScratch(p, a) /\ p.label[a] \in VGs
  BY <1>2, <1>6, <1>7 DEF lvm_logical_volume_add
<1>8. CASE FromScratch(p, a) /\ p.label[a] \notin VGs
  <2>1. CreateFromScratch(a, n, s, up) /\ label[a] \notin VGs
    BY <1>1, <1>8 DEF lvm_logical_volume_add
  <2> QED
    BY <1>4, <1>8, <2>1
<1> QED
  BY <1>3, <1>5, <1>7, <1>8

\* Removing: what goes was to be removed, or nobody could see it.
LEMMA RemoveCase ==
    ASSUME OneInv, NEW b \in Browsers, NEW id, lvm_logical_volume_remove(b, id)
    PROVE  /\ Good(volumes') /\ busy' = {} /\ volumes' \subseteq volumes
           /\ \A v \in volumes : \/ v \in volumes' \/ v.vg \notin active
                                \/ Id(v) = id \/ <<v.vg, v.origin>> = id
<1> DEFINE p == page[b]
           as == {a \in Arrays : p.label[a] = id[1]}
<1>1. /\ Good(volumes) /\ busy = {} /\ Shown(b)
      /\ p.label = label /\ p.volumes = {v \in volumes : v.vg \in active}
      /\ id \in p.removable /\ p \in Page
  BY DEF OneInv, NoOrphanedMappings, Current, lvm_logical_volume_remove, VInv, TypeOK, Shown
<1>2. id = <<id[1], id[2]>>
  BY <1>1 DEF Page
<1>3. CASE volumes' = volumes /\ busy' = busy
  BY <1>1, <1>3
<1>4. CASE /\ IsLast(p, id) /\ volumes' = Survivors(as)
           /\ busy' = busy \cup Mapped(as, active \ {id[1]})
  <2>1. Mapped(as, active \ {id[1]}) = {}
    BY <1>1 DEF Mapped
  <2>2. Good(volumes') /\ volumes' \subseteq volumes
    BY <1>1, <1>4, SurvivorsGood DEF Survivors
  <2>3. ASSUME NEW v \in volumes, v \notin volumes', v.vg \in active
        PROVE  Id(v) = id \/ <<v.vg, v.origin>> = id
    <3>1. v.vg = id[1]
      BY <1>1, <1>4, <2>3 DEF Survivors
    <3>2. CASE v.origin = NoOrigin
      <4>1. v \in Numbered(p)
        BY <1>1, <2>3, <3>2 DEF Numbered
      <4> QED
        BY <1>2, <1>4, <3>1, <4>1 DEF IsLast, Id
    <3>3. CASE v.origin # NoOrigin
      <4>1. PICK o \in volumes : o.vg = v.vg /\ o.name = v.origin /\ o.origin = NoOrigin
        BY <1>1, <3>3 DEF Good, Snapshotted
      <4>2. o \in Numbered(p)
        BY <1>1, <2>3, <4>1 DEF Numbered
      <4> QED
        BY <1>2, <1>4, <3>1, <4>1, <4>2 DEF IsLast
    <3> QED
      BY <3>2, <3>3
  <2> QED
    BY <1>1, <1>4, <2>1, <2>2, <2>3
<1>5. CASE volumes' \in Lvremove(id) /\ busy' = busy
  BY <1>1, <1>5, LvremoveGood
<1> QED
  BY <1>3, <1>4, <1>5 DEF lvm_logical_volume_remove, RemoveGroup

\* Resizing: a volume gets another size than the page shows only as asked.
LEMMA ResizeCase ==
    ASSUME OneInv, NEW b \in Browsers, NEW u \in page[b].volumes, NEW s \in Sizes,
           lvm_logical_volume_resize(b, u, s) \/ lvm_logical_volume_snapshot_resize(b, u, s)
    PROVE  /\ Good(volumes') /\ busy' = {}
           /\ \A v \in volumes : \E w \in volumes' : Id(w) = Id(v)
           /\ \A v \in volumes, w \in volumes' :
                 Id(w) = Id(v) /\ w.size < v.size =>
                    Id(u) = Id(v) /\ u.origin = NoOrigin /\ w.size = s /\ s < u.size
<1>1. Good(volumes) /\ busy = {} /\ busy' = busy /\ u \in volumes /\ s \in Nat
  BY SizesAssumption DEF OneInv, NoOrphanedMappings, Current, lvm_logical_volume_resize,
                         lvm_logical_volume_snapshot_resize
<1>2. \A v \in volumes : v.size \in Nat
  BY <1>1 DEF Good, Volume
<1>3. CASE volumes' = volumes
  <2>1. \A v \in volumes, w \in volumes' : Id(w) = Id(v) => w = v
    BY <1>1, <1>3 DEF Good, DistinctIds
  <2> QED
    BY <1>1, <1>2, <1>3, <2>1
<1>4. CASE /\ volumes' \in Lvresize(Id(u), s, total')
           /\ u.origin # NoOrigin => ~(s <= u.size)
  <2>1. /\ Good(volumes')
        /\ \A v \in volumes : \E w \in volumes' : Id(w) = Id(v)
        /\ \A v \in volumes, w \in volumes' :
              Id(w) = Id(v) => w.size = v.size \/ (Id(v) = Id(u) /\ w.size = s)
    BY <1>1, <1>4, LvresizeGood
  <2>2. ASSUME NEW v \in volumes, NEW w \in volumes', Id(w) = Id(v), w.size < v.size
        PROVE  Id(u) = Id(v) /\ u.origin = NoOrigin /\ w.size = s /\ s < u.size
    <3>1. Id(v) = Id(u) /\ w.size = s
      BY <1>2, <2>1, <2>2
    <3>2. v = u
      BY <1>1, <3>1 DEF Good, DistinctIds
    <3> QED
      BY <1>1, <1>2, <1>4, <2>2, <3>1, <3>2
  <2> QED
    BY <1>1, <2>1, <2>2
<1> QED
  BY <1>3, <1>4 DEF lvm_logical_volume_resize, lvm_logical_volume_snapshot_resize, BoundsRaised

\* Taking a snapshot adds one, of a volume there is.
LEMMA SnapshotCase ==
    ASSUME OneInv, NEW b \in Browsers, NEW u \in page[b].volumes, NEW s \in Sizes,
           lvm_logical_volume_snapshot_add(b, u, s)
    PROVE  /\ Good(volumes') /\ busy' = {} /\ volumes \subseteq volumes'
           /\ \A v \in volumes, w \in volumes' : Id(w) = Id(v) => w = v
<1>1. Good(volumes) /\ busy = {} /\ busy' = busy /\ u \in volumes /\ u \in Volume /\ s \in Nat
  BY SizesAssumption DEF OneInv, NoOrphanedMappings, Current, Good, lvm_logical_volume_snapshot_add
<1>2. CASE volumes' = volumes
  BY <1>1, <1>2 DEF Good, DistinctIds
<1>3. CASE volumes' # volumes
  <2>1. PICK n \in Names : volumes' \in Lvcreate(label, total', volumes,
                                [vg |-> u.vg, name |-> n, origin |-> u.name, size |-> s])
    BY <1>3 DEF lvm_logical_volume_snapshot_add, BoundsRaised
  <2>2. PICK o \in volumes : Id(o) = Id(u) /\ o.origin = NoOrigin
    BY <1>3 DEF lvm_logical_volume_snapshot_add, BoundsRaised
  <2> DEFINE new == [vg |-> u.vg, name |-> n, origin |-> u.name, size |-> s]
  <2>3. new \in Volume /\ o.vg = new.vg /\ o.name = new.origin
    BY <1>1, <2>2 DEF Volume, Id
  <2>4. volumes' \in Lvcreate(label, total', volumes, new)
    BY <2>1
  <2> HIDE DEF new
  <2>5. /\ Good(volumes') /\ volumes \subseteq volumes'
        /\ \A w \in volumes' : w \in volumes \/ (w = new /\ \A v \in volumes : Id(v) # Id(w))
    BY <1>1, <2>2, <2>3, <2>4, LvcreateGood
  <2> QED
    BY <1>1, <2>5 DEF Good, DistinctIds
<1> QED
  BY <1>2, <1>3

\* Every step keeps the invariant; the page is read again after each change.
LEMMA NextOneInv ==
    ASSUME OneBrowser, OneInv, [Next]_vars
    PROVE  OneInv'
<1>1. VInv /\ VInv'
  BY NextVInv DEF OneInv
<1>2. TypeOK /\ Good(volumes) /\ busy = {}
  BY DEF OneInv, VInv, NoOrphanedMappings
<1>3. ASSUME NEW b \in Browsers, Submitted(b), Good(volumes'), busy' = {}
      PROVE  OneInv'
  BY <1>1, <1>2, <1>3, NoOtherPage DEF OneInv, NoOrphanedMappings
<1>4. CASE Surroundings
  <2>1. /\ UNCHANGED <<label, volumes>> /\ busy' = {}
        /\ \A b \in Browsers : page'[b] # NoPage => page'[b] = page[b] /\ active' = active
    BY <1>2, <1>4 DEF Surroundings, Grow, Export, Unexport, Reboot, TypeOK
  <2>2. Current'
    BY <2>1 DEF OneInv, Current, Shown
  <2> QED
    BY <1>1, <1>2, <2>1, <2>2 DEF OneInv, NoOrphanedMappings
<1>5. ASSUME NEW b \in Browsers, Request(b)
      PROVE  OneInv'
  <2>1. CASE InvalidForm(b)
    BY <1>2, <1>3, <2>1 DEF InvalidForm, Refuse
  <2>2. CASE PageLoad(b)
    <3>1. UNCHANGED <<label, volumes, active, busy>>
      BY <2>2 DEF PageLoad
    <3>2. \A c \in Browsers : c = b
      BY DEF OneBrowser
    <3>3. page'[b].label = label /\ page'[b].volumes = {v \in volumes : v.vg \in active}
      BY <1>2, <2>2 DEF PageLoad, TypeOK
    <3>4. Current'
      BY <3>1, <3>2, <3>3 DEF Current
    <3> QED
      BY <1>1, <1>2, <3>1, <3>4 DEF OneInv, NoOrphanedMappings
  <2>3. CASE \E a \in Arrays, n \in Names, s \in Sizes : lvm_logical_volume_add(b, a, n, s)
    BY <1>3, <2>3, AddCase DEF lvm_logical_volume_add
  <2>4. CASE \E id \in page[b].removable : lvm_logical_volume_remove(b, id)
    BY <1>3, <2>4, RemoveCase DEF lvm_logical_volume_remove
  <2>5. CASE \E v \in page[b].volumes, s \in Sizes :
                \/ lvm_logical_volume_resize(b, v, s)
                \/ lvm_logical_volume_snapshot_resize(b, v, s)
    BY <1>3, <2>5, ResizeCase DEF lvm_logical_volume_resize, lvm_logical_volume_snapshot_resize
  <2>6. CASE \E v \in page[b].volumes, s \in Sizes : lvm_logical_volume_snapshot_add(b, v, s)
    BY <1>3, <2>6, SnapshotCase DEF lvm_logical_volume_snapshot_add
  <2> QED
    BY <1>5, <2>1, <2>2, <2>3, <2>4, <2>5, <2>6 DEF Request
<1>6. CASE UNCHANGED vars
  <2>1. Current'
    BY <1>6 DEF vars, OneInv, Current, Shown
  <2> QED
    BY <1>1, <1>2, <1>6, <2>1 DEF vars, OneInv, NoOrphanedMappings
<1> QED
  BY <1>4, <1>5, <1>6 DEF Next

\* With one browser, the page shown is what the disks hold, snapshots have
\* their origins and volumes their names to themselves.
THEOREM OneAdminInvariant ==
    ASSUME OneBrowser
    PROVE  Spec => []OneInv
<1>1. Init => OneInv
  BY InitOneInv
<1>2. OneInv /\ [Next]_vars => OneInv'
  BY NextOneInv
<1> QED
  BY <1>1, <1>2, PTL DEF Spec

\* With one browser, adding and removing volumes stops the group that is on
\* the array before its label is wiped: no array stays busy.
THEOREM NothingStaysMapped ==
    ASSUME OneBrowser
    PROVE  Spec => []NoOrphanedMappings
<1>1. OneInv => NoOrphanedMappings
  BY DEF OneInv
<1> QED
  BY <1>1, OneAdminInvariant, PTL

\* With one browser, lvm_logical_volume_add and _remove lose no volume but
\* the one to be removed, its snapshots, and those of a stopped group.
THEOREM OthersSurvive ==
    ASSUME OneBrowser
    PROVE  Spec => OnlyRemovedAreLost
<1> DEFINE Lost == \A v \in volumes :
                       \/ \E w \in volumes' : Id(w) = Id(v)
                       \/ v.vg \notin active
                       \/ Removing(Id(v)) \/ Removing(<<v.vg, v.origin>>)
<1>1. ASSUME OneInv, Next
      PROVE  Lost
  <2> SUFFICES ASSUME NEW v \in volumes
               PROVE  \/ \E w \in volumes' : Id(w) = Id(v)
                      \/ v.vg \notin active
                      \/ Removing(Id(v)) \/ Removing(<<v.vg, v.origin>>)
    OBVIOUS
  <2>1. CASE volumes' = volumes
    BY <2>1
  <2>2. CASE \E b \in Browsers, a \in Arrays, n \in Names, s \in Sizes : lvm_logical_volume_add(b, a, n, s)
    BY <1>1, <2>2, AddCase
  <2>3. ASSUME NEW b \in Browsers, NEW id \in page[b].removable, lvm_logical_volume_remove(b, id)
        PROVE  v \in volumes' \/ v.vg \notin active \/ Removing(Id(v)) \/ Removing(<<v.vg, v.origin>>)
    <3>1. Removing(id)
      BY <2>3 DEF Removing, lvm_logical_volume_remove
    <3> QED
      BY <1>1, <2>3, <3>1, RemoveCase
  <2>4. CASE \E b \in Browsers : \E u \in page[b].volumes, s \in Sizes :
                \/ lvm_logical_volume_resize(b, u, s)
                \/ lvm_logical_volume_snapshot_resize(b, u, s)
    BY <1>1, <2>4, ResizeCase
  <2>5. CASE \E b \in Browsers : \E u \in page[b].volumes, s \in Sizes : lvm_logical_volume_snapshot_add(b, u, s)
    BY <1>1, <2>5, SnapshotCase
  <2>6. CASE Surroundings \/ \E b \in Browsers : PageLoad(b) \/ InvalidForm(b)
    <3>1. volumes' = volumes
      BY <2>6 DEF Surroundings, Grow, Export, Unexport, Reboot, PageLoad, InvalidForm, Refuse
    <3> QED
      BY <2>1, <3>1
  <2> QED
    BY <1>1, <2>2, <2>3, <2>4, <2>5, <2>6 DEF Next, Request
<1>2. OneInv /\ [Next]_vars => [Lost]_vars
  BY <1>1
<1> QED
  BY <1>2, OneAdminInvariant, PTL DEF Spec, OnlyRemovedAreLost

\* With one browser, a volume gets smaller only by a resize to less than
\* the page showed, and a snapshot never does.
THEOREM NoSilentShrinking ==
    ASSUME OneBrowser
    PROVE  Spec => ShrinksOnlyAsWarned
<1> DEFINE Warned(v, w) == \E b \in Browsers : Shown(b) /\ \E u \in page[b].volumes :
                              /\ Id(u) = Id(v) /\ u.origin = NoOrigin /\ w.size < u.size
                              /\ lvm_logical_volume_resize(b, u, w.size)
           Shrinks == \A v \in volumes, w \in volumes' :
                          Id(w) = Id(v) /\ w.size < v.size => Warned(v, w)
<1>1. ASSUME OneInv, Next
      PROVE  Shrinks
  <2> SUFFICES ASSUME NEW v \in volumes, NEW w \in volumes', Id(w) = Id(v), w.size < v.size
               PROVE  Warned(v, w)
    OBVIOUS
  <2>1. v.size \in Nat /\ w # v
    BY <1>1 DEF OneInv, Good, Volume
  <2>2. volumes' # volumes
    BY <1>1, <2>1 DEF OneInv, Good, DistinctIds
  <2>3. ASSUME NEW b \in Browsers, NEW u \in page[b].volumes, NEW s \in Sizes,
               \/ lvm_logical_volume_resize(b, u, s)
               \/ lvm_logical_volume_snapshot_resize(b, u, s)
        PROVE  Warned(v, w)
    <3>1. Id(u) = Id(v) /\ u.origin = NoOrigin /\ w.size = s /\ s < u.size
      BY <1>1, <2>3, ResizeCase
    <3>2. Shown(b) /\ lvm_logical_volume_resize(b, u, w.size)
      BY <2>3, <3>1 DEF lvm_logical_volume_resize, lvm_logical_volume_snapshot_resize
    <3> QED
      BY <3>1, <3>2
  <2>4. ~\E b \in Browsers, a \in Arrays, n \in Names, s \in Sizes : lvm_logical_volume_add(b, a, n, s)
    BY <1>1, <2>1, AddCase
  <2>5. ~\E b \in Browsers : \E id \in page[b].removable : lvm_logical_volume_remove(b, id)
    BY <1>1, <2>1, RemoveCase DEF OneInv, Good, DistinctIds
  <2>6. ~\E b \in Browsers : \E u \in page[b].volumes, s \in Sizes : lvm_logical_volume_snapshot_add(b, u, s)
    BY <1>1, <2>1, SnapshotCase
  <2>7. ~(Surroundings \/ \E b \in Browsers : PageLoad(b) \/ InvalidForm(b))
    BY <2>2 DEF Surroundings, Grow, Export, Unexport, Reboot, PageLoad, InvalidForm, Refuse
  <2> QED
    BY <1>1, <2>3, <2>4, <2>5, <2>6, <2>7 DEF Next, Request
<1>2. OneInv /\ [Next]_vars => [Shrinks]_vars
  BY <1>1
<1> QED
  BY <1>2, OneAdminInvariant, PTL DEF Spec, ShrinksOnlyAsWarned
=============================================================================
