------------------------------ MODULE Volumes ------------------------------
(***************************************************************************)
(* Logical volumes and snapshots on RAID arrays: astor2/lvm.lua and the    *)
(* volume handlers of controller/san.lua.                                  *)
(*                                                                         *)
(* A handler decides from the data serialized into the page it was sent    *)
(* from (data.logicals, .volume_groups, .logical_volumes), and acts on the *)
(* disks as they are now.  One handler is one step.  The lvm commands are  *)
(* external: they check what LVM checks, and may fail.                     *)
(***************************************************************************)
EXTENDS Integers, FiniteSetsExt

CONSTANTS
    Arrays,     \* RAID arrays: one physical volume each
    VGs,        \* names of volume groups (next_vg_name: never used twice)
    Names,      \* names of volumes and snapshots
    NoOrigin,   \* the origin of a volume that is not a snapshot
    Blank,      \* label of an array without a physical volume
    Orphan,     \* label of a physical volume in no group
    Sizes,      \* sizes a form can submit, MiB, multiples of Extent
    Extent,     \* PE_DEFAULT_SIZE, MiB
    MinSize,    \* size of an array when it is made, MiB
    DriveSize,  \* by how much an array grows when drives are added, MiB
    MaxSize,    \* bound: size an array can grow to
    Browsers, NoPage,
    Failing     \* external commands that may fail without a reason seen here

ASSUME LabelsAssumption == Blank \notin VGs /\ Orphan \notin VGs
ASSUME NamesAssumption == NoOrigin \notin Names
ASSUME SizesAssumption == /\ Extent \in Nat \ {0} /\ Sizes \subseteq Nat \ {0}
                          /\ MinSize \in Nat /\ MaxSize \in Nat /\ Extent < MinSize
                          /\ DriveSize \in Nat \ {0}
ASSUME FailingAssumption == Failing \subseteq {"dd", "pvcreate", "vgcreate", "lvm"}

VARIABLES
    label,      \* per array: what the first sectors of the disk hold
    total,      \* per array: size of its physical volume, MiB
    size,       \* per array: its size, MiB
    volumes,    \* the volumes of the groups on the disks
    active,     \* groups that are activated
    busy,       \* arrays under device-mapper volumes whose group is wiped
    exported,   \* volumes held open by the iSCSI target
    page        \* per browser: the data serialized into its page

vars == <<label, total, size, volumes, active, busy, exported, page>>

Volume == [vg: VGs, name: Names, origin: Names \cup {NoOrigin}, size: Nat]

Label == VGs \cup {Blank, Orphan}

Page == [label: [Arrays -> Label], total: [Arrays -> Nat], size: [Arrays -> Nat \ {0}],
         volumes: SUBSET Volume, removable: SUBSET (VGs \X Names)]

ASSUME NoPageAssumption == NoPage \notin Page

TypeOK ==
    /\ label \in [Arrays -> Label]
    /\ total \in [Arrays -> Nat]
    /\ size \in [Arrays -> Nat \ {0}]
    /\ volumes \in SUBSET Volume
    /\ active \in SUBSET VGs
    /\ busy \in SUBSET Arrays
    /\ exported \in SUBSET (VGs \X Names)
    /\ page \in [Browsers -> Page \cup {NoPage}]

Init ==
    /\ label = [a \in Arrays |-> Blank]
    /\ total = [a \in Arrays |-> 0]
    /\ size = [a \in Arrays |-> MinSize]
    /\ volumes = {} /\ active = {} /\ busy = {} /\ exported = {}
    /\ page = [b \in Browsers |-> NoPage]

Id(v) == <<v.vg, v.name>>

OnDisk == {label[a] : a \in Arrays} \cap VGs

-----------------------------------------------------------------------------
(***************************************************************************)
(* LVM, as the commands lvm.lua runs see it                                *)
(***************************************************************************)

\* PhysicalVolume.expected_size
expected_size(s) == s - (s % Extent) - Extent

\* pvcreate and pvresize take all the extents after 1 MiB of metadata.
PvTotal(s) == ((s - 1) \div Extent) * Extent

Allocated(V, g) == MapThenSumSet(LAMBDA v : v.size, {v \in V : v.vg = g})

\* Group g, on the array lab shows, has room for n more MiB.
Room(lab, pv, V, g, n) ==
    \E a \in Arrays : lab[a] = g /\ Allocated(V, g) + n <= pv[a]

\* lvcreate of the volume new: the sets of volumes it can leave.
Lvcreate(lab, pv, V, new) ==
    LET possible == Room(lab, pv, V, new.vg, new.size) /\ \A v \in V : Id(v) # Id(new)
    IN  (IF possible THEN {V \cup {new}} ELSE {})
        \cup (IF possible /\ "lvm" \notin Failing THEN {} ELSE {V})

\* vgchange -a n: refused for a group that is not there or that has an open
\* volume.
CanStop(g) == g \in OnDisk /\ \A v \in volumes : v.vg = g => Id(v) \notin exported

Snapshots(v) == {w \in volumes : w.vg = v.vg /\ w.origin = v.name}

\* Arrays that stay in use when their label is overwritten: their group's
\* volumes are active in device-mapper.
Mapped(as, on) == {a \in as : \E v \in volumes : v.vg = label[a] /\ v.vg \in on}

\* The volumes left when the labels of the arrays as are overwritten.
Survivors(as) == {v \in volumes : v.vg \notin {label[a] : a \in as}}

-----------------------------------------------------------------------------
(***************************************************************************)
(* Pages                                                                   *)
(***************************************************************************)

\* matrix.caller: LogicalVolume.list shows active volumes only;
\* filter_deletability_logical_volume: no button for an exported one.
PageLoad(b) ==
    LET shown == {v \in volumes : v.vg \in active}
    IN  /\ page' = [page EXCEPT ![b] =
                [label |-> label, total |-> total, size |-> size, volumes |-> shown,
                 removable |-> {Id(v) : v \in shown} \ exported]]
        /\ UNCHANGED <<label, total, size, volumes, active, busy, exported>>

Shown(b) == page[b] # NoPage

Submitted(b) == page' = [page EXCEPT ![b] = NoPage]

\* The volumes ipairs( data.logical_volumes ) visits: snapshots_to_outer has
\* put the snapshots there under their device, not under a number.
Numbered(p) == {v \in p.volumes : v.origin = NoOrigin}

\* A handler that returns before any command changed anything.
Refuse(b) ==
    /\ Submitted(b)
    /\ UNCHANGED <<label, total, size, volumes, active, busy, exported>>

\* Names that next_vg_name can give: no label, page or open device has them.
Fresh == {g \in VGs : /\ g \notin OnDisk /\ ~\E n \in Names : <<g, n>> \in exported
                      /\ \A b \in Browsers : Shown(b) => \A a \in Arrays : page[b].label[a] # g}

-----------------------------------------------------------------------------
(***************************************************************************)
(* lvm_logical_volume_add                                                  *)
(***************************************************************************)

\* Mutant: one volume is taken for none.
FromScratch_one(p, a) == Cardinality({v \in Numbered(p) : v.vg = p.label[a]}) <= 1

\* create_from_scratch: the page shows no volume on the array.
FromScratch(p, a) == \A v \in Numbered(p) : v.vg # p.label[a]

\* PhysicalVolume.create wipes the label, then runs pvcreate, which refuses
\* a device in use; VolumeGroup.create; VolumeGroup.logical_volume.
CreateFromScratch(a, n, s, on) ==
    LET held == busy \cup Mapped({a}, on)
        left == Survivors({a})
    IN  \/ /\ "dd" \in Failing
           /\ active' = on
           /\ UNCHANGED <<label, total, volumes, busy>>
        \/ /\ a \in held \/ "pvcreate" \in Failing
           /\ label' = [label EXCEPT ![a] = Blank]
           /\ total' = [total EXCEPT ![a] = 0]
           /\ active' = on \ {label[a]}
           /\ volumes' = left /\ busy' = held
        \/ /\ a \notin held /\ "vgcreate" \in Failing
           /\ label' = [label EXCEPT ![a] = Orphan]
           /\ total' = [total EXCEPT ![a] = 0]
           /\ active' = on \ {label[a]}
           /\ volumes' = left /\ busy' = held
        \/ /\ a \notin held
           /\ \E g \in Fresh :
                 /\ label' = [label EXCEPT ![a] = g]
                 /\ total' = [total EXCEPT ![a] = PvTotal(size[a])]
                 /\ active' = (on \ {label[a]}) \cup {g}
                 /\ volumes' \in Lvcreate(label', total', left,
                                    [vg |-> g, name |-> n, origin |-> NoOrigin, size |-> s])
           /\ busy' = held

\* physical_volume_bounds_check: the physical volume is made larger when the
\* array, as the page shows it, has outgrown the size it is said to have.
Maximized(p, a, now) ==
    IF expected_size(p.size[a]) > now[a] THEN [total EXCEPT ![a] = PvTotal(size[a])] ELSE total

\* The page shows volumes on the array: the new one goes to their group.
AddToGroup(p, a, n, s) ==
    \/ /\ label[a] \notin VGs \/ "lvm" \in Failing
       /\ UNCHANGED <<total, volumes>>
    \/ /\ label[a] \in VGs
       /\ total' = Maximized(p, a, total)
       /\ IF \E v \in Numbered(p) : Id(v) = <<p.label[a], n>>
          THEN volumes' = volumes
          ELSE volumes' \in Lvcreate(label, total', volumes,
                               [vg |-> p.label[a], name |-> n, origin |-> NoOrigin, size |-> s])

\* lvm.restore comes first and activates every group; VolumeGroup.disable of
\* the group the page shows is not protected: its error ends the handler.
lvm_logical_volume_add(b, a, n, s) ==
    LET p == page[b]
        on == active \cup OnDisk
    IN  /\ Shown(b)
        /\ \/ /\ ~FromScratch(p, a)
              /\ AddToGroup(p, a, n, s) /\ active' = on /\ UNCHANGED <<label, busy>>
           \/ /\ FromScratch(p, a) /\ p.label[a] \in VGs
              /\ ~CanStop(p.label[a]) \/ "lvm" \in Failing
              /\ active' = on /\ UNCHANGED <<label, total, volumes, busy>>
           \/ /\ FromScratch(p, a) /\ p.label[a] \in VGs /\ CanStop(p.label[a])
              /\ CreateFromScratch(a, n, s, on \ {p.label[a]})
           \/ /\ FromScratch(p, a) /\ p.label[a] \notin VGs
              /\ CreateFromScratch(a, n, s, on)
        /\ Submitted(b)
        /\ UNCHANGED <<size, exported>>

-----------------------------------------------------------------------------
(***************************************************************************)
(* The other handlers                                                      *)
(***************************************************************************)
\* is_last: the page shows no other volume, snapshots aside, in the group.
IsLast(p, id) == \A v \in Numbered(p) : v.vg = id[1] => v.name = id[2]

\* Mutant: the group is not stopped before its label is wiped.
RemoveGroup_unstopped(p, g) ==
    LET as == {a \in Arrays : p.label[a] = g}
    IN  /\ label' = [a \in Arrays |-> IF a \in as THEN Blank ELSE label[a]]
        /\ total' = [a \in Arrays |-> IF a \in as THEN 0 ELSE total[a]]
        /\ active' = active \ {g}
        /\ volumes' = Survivors(as)
        /\ busy' = busy \cup Mapped(as, active)

\* The last volume, as the page has it, goes with its group: the group is
\* stopped and the label of its array wiped.  Neither is protected.
RemoveGroup(p, g) ==
    LET as == {a \in Arrays : p.label[a] = g}
    IN  \/ /\ ~CanStop(g) \/ "lvm" \in Failing
           /\ UNCHANGED <<label, total, volumes, active, busy>>
        \/ /\ CanStop(g) /\ "dd" \in Failing
           /\ active' = active \ {g}
           /\ UNCHANGED <<label, total, volumes, busy>>
        \/ /\ CanStop(g)
           /\ label' = [a \in Arrays |-> IF a \in as THEN Blank ELSE label[a]]
           /\ total' = [a \in Arrays |-> IF a \in as THEN 0 ELSE total[a]]
           /\ active' = active \ {g}
           /\ volumes' = Survivors(as)
           /\ busy' = busy \cup Mapped(as, active \ {g})

\* lvremove -f takes the snapshots of a volume with it; LVM refuses an open
\* one.
Lvremove(id) ==
    LET gone == {v \in volumes : Id(v) = id} \cup
                UNION {Snapshots(v) : v \in {w \in volumes : Id(w) = id}}
        possible == gone # {} /\ \A v \in gone : Id(v) \notin exported
    IN  (IF possible THEN {volumes \ gone} ELSE {})
        \cup (IF possible /\ "lvm" \notin Failing THEN {} ELSE {volumes})

lvm_logical_volume_remove(b, id) ==
    /\ Shown(b) /\ id \in page[b].removable
    /\ IF IsLast(page[b], id) THEN RemoveGroup(page[b], id[1])
       ELSE volumes' \in Lvremove(id) /\ UNCHANGED <<label, total, active, busy>>
    /\ Submitted(b)
    /\ UNCHANGED <<size, exported>>

\* Mutant: lvresize is given the difference of the sizes.
Lvresize_difference(id, s, pv) ==
    {(volumes \ {v}) \cup {[v EXCEPT !.size = s - @]} : v \in {w \in volumes : Id(w) = id}}

\* lvresize of the volume id to s MiB: LVM refuses a volume that has
\* snapshots, and a size that does not fit.
Lvresize(id, s, pv) ==
    LET fits == {v \in volumes : /\ Id(v) = id /\ Snapshots(v) = {}
                                 /\ Room(label, pv, volumes \ {v}, v.vg, s)}
    IN  {(volumes \ {v}) \cup {[v EXCEPT !.size = s]} : v \in fits}
        \cup (IF fits # {} /\ "lvm" \notin Failing THEN {} ELSE {volumes})

\* The page has array a outgrow its physical volume.
Outgrown(p, a) == expected_size(p.size[a]) > p.total[a]

\* The resize and snapshot handlers first check the bounds of the group's
\* physical volume as the page has it.  An error in pvresize ends them.
BoundsRaised(p, g) ==
    /\ \E a \in Arrays : /\ p.label[a] = g /\ Outgrown(p, a)
                         /\ label[a] \notin VGs \/ "lvm" \in Failing
    /\ UNCHANGED <<total, volumes>>

BoundsChecked(p, g) ==
    \E a \in Arrays : /\ p.label[a] = g
                      /\ Outgrown(p, a) => label[a] \in VGs
                      /\ total' = Maximized(p, a, p.total)

\* LogicalVolume.resize does nothing when the size is the one shown.  The
\* button is not on volumes with snapshots.
lvm_logical_volume_resize(b, v, s) ==
    LET resized == IF s = v.size THEN {volumes} ELSE Lvresize(Id(v), s, total')
    IN  /\ Shown(b) /\ v \in page[b].volumes /\ v.origin = NoOrigin
        /\ \A w \in page[b].volumes : w.vg = v.vg => w.origin # v.name
        /\ BoundsRaised(page[b], v.vg) \/ (BoundsChecked(page[b], v.vg) /\ volumes' \in resized)
        /\ Submitted(b)
        /\ UNCHANGED <<label, size, active, busy, exported>>

\* Snapshots are named after the volume and the second they are taken; a
\* name that exists is made longer until it is new.
lvm_logical_volume_snapshot_add(b, v, s) ==
    LET taken ==
            IF \E o \in volumes : Id(o) = Id(v) /\ o.origin = NoOrigin
            THEN UNION {Lvcreate(label, total', volumes,
                            [vg |-> v.vg, name |-> n, origin |-> v.name, size |-> s]) : n \in Names}
            ELSE {volumes}
    IN  /\ Shown(b) /\ v \in page[b].volumes /\ v.origin = NoOrigin
        /\ BoundsRaised(page[b], v.vg) \/ (BoundsChecked(page[b], v.vg) /\ volumes' \in taken)
        /\ Submitted(b)
        /\ UNCHANGED <<label, size, active, busy, exported>>

\* Mutant: a snapshot is resized to any size that is not the one shown.
lvm_logical_volume_snapshot_resize_unchecked(b, v, s) ==
    LET resized == IF s = v.size THEN {volumes} ELSE Lvresize(Id(v), s, total')
    IN  /\ Shown(b) /\ v \in page[b].volumes /\ v.origin # NoOrigin
        /\ BoundsRaised(page[b], v.vg) \/ (BoundsChecked(page[b], v.vg) /\ volumes' \in resized)
        /\ Submitted(b)
        /\ UNCHANGED <<label, size, active, busy, exported>>

\* "Snapshot size has to be bigger than it's current size"
lvm_logical_volume_snapshot_resize(b, v, s) ==
    LET resized == IF s <= v.size THEN {volumes} ELSE Lvresize(Id(v), s, total')
    IN  /\ Shown(b) /\ v \in page[b].volumes /\ v.origin # NoOrigin
        /\ BoundsRaised(page[b], v.vg) \/ (BoundsChecked(page[b], v.vg) /\ volumes' \in resized)
        /\ Submitted(b)
        /\ UNCHANGED <<label, size, active, busy, exported>>

\* No name, a bad name, a size that is not positive.
InvalidForm(b) == Shown(b) /\ Refuse(b)

-----------------------------------------------------------------------------
(***************************************************************************)
(* The surroundings                                                        *)
(***************************************************************************)

\* An array's reshape ends (einarc_logical_grow).
Grow(a) ==
    /\ size[a] + DriveSize <= MaxSize
    /\ size' = [size EXCEPT ![a] = @ + DriveSize]
    /\ UNCHANGED <<label, total, volumes, active, busy, exported, page>>

\* A volume is bound to an access pattern, or unbound (module Iscsi).
Export(v) ==
    /\ v.vg \in active
    /\ exported' = exported \cup {Id(v)}
    /\ UNCHANGED <<label, total, size, volumes, active, busy, page>>

Unexport(id) ==
    /\ exported' = exported \ {id}
    /\ UNCHANGED <<label, total, size, volumes, active, busy, page>>

\* The boot script calls lvm.restore, which activates every group.
Reboot ==
    /\ active' = OnDisk
    /\ busy' = {}
    /\ exported' = exported \cap {Id(v) : v \in volumes}
    /\ page' = [b \in Browsers |-> NoPage]
    /\ UNCHANGED <<label, total, size, volumes>>

Request(b) ==
    \/ PageLoad(b)
    \/ InvalidForm(b)
    \/ \E a \in Arrays, n \in Names, s \in Sizes : lvm_logical_volume_add(b, a, n, s)
    \/ /\ Shown(b)
       /\ \/ \E id \in page[b].removable : lvm_logical_volume_remove(b, id)
          \/ \E v \in page[b].volumes, s \in Sizes :
                \/ lvm_logical_volume_resize(b, v, s)
                \/ lvm_logical_volume_snapshot_add(b, v, s)
                \/ lvm_logical_volume_snapshot_resize(b, v, s)

Surroundings ==
    \/ \E a \in Arrays : Grow(a)
    \/ \E v \in volumes : Export(v)
    \/ \E id \in exported : Unexport(id)
    \/ Reboot

Next == Surroundings \/ \E b \in Browsers : Request(b)

Spec == Init /\ [][Next]_vars

-----------------------------------------------------------------------------
(***************************************************************************)
(* Properties                                                              *)
(***************************************************************************)
Removing(id) == \E b \in Browsers : Shown(b) /\ id \in page[b].removable /\ lvm_logical_volume_remove(b, id)

\* A volume disappears from the disks only when it, or the volume it is a
\* snapshot of, is being removed, or when a removal has already stopped its
\* group: adding a volume wipes an array only if "LV exists?" is answered NO
\* (the diagram above lvm_logical_volume_add), and removing one wipes it
\* only if it "is last LV".
OnlyRemovedAreLost ==
    [][\A v \in volumes :
         \/ \E w \in volumes' : Id(w) = Id(v)
         \/ v.vg \notin active
         \/ Removing(Id(v)) \/ Removing(<<v.vg, v.origin>>)]_vars

\* A volume gets smaller only by a resize that asks for less than the page
\* showed: the page warned "Decreasing logical volumes size may corrupt
\* your data!".  A snapshot never does ("Snapshot size has to be bigger than
\* it's current size").
ShrinksOnlyAsWarned ==
    [][\A v \in volumes, w \in volumes' :
         Id(w) = Id(v) /\ w.size < v.size =>
            \E b \in Browsers : Shown(b) /\ \E u \in page[b].volumes :
                /\ Id(u) = Id(v) /\ u.origin = NoOrigin /\ w.size < u.size
                /\ lvm_logical_volume_resize(b, u, w.size)]_vars

\* Removing a volume, from however old a page, never takes an exported
\* volume from under its initiators nor a volume of another group: the
\* group is stopped, by its name, before the array's label is wiped.
RemoveKeepsOthers ==
    [][\A b \in Browsers : Shown(b) => \A id \in page[b].removable :
         lvm_logical_volume_remove(b, id) =>
            \A v \in volumes : Id(v) \in exported \/ v.vg # id[1] => v \in volumes']_vars

\* No array's label is wiped while volumes of its group are active: they
\* would stay mapped, and keep the array from being used, until a reboot.
NoOrphanedMappings == busy = {}
=============================================================================
