-------------------------------- MODULE Raid --------------------------------
(***************************************************************************)
(* RAID arrays and SSD caches: astor2/einarc.lua, the einarc handlers of   *)
(* controller/san.lua and the part of the boot script that assembles       *)
(* arrays and caches.                                                      *)
(*                                                                         *)
(* A page carries the arrays and drives it was made from; handlers find    *)
(* the array and the drive they are sent for by number, in what there is   *)
(* now.  md, LVM and flashcache are external: mdadm and flashcache_create  *)
(* refuse a drive that is in use (Unused), flashcache_destroy may or may   *)
(* not.  All arrays have one redundant level, and drives one size.         *)
(***************************************************************************)
EXTENDS Naturals, FiniteSets, SequencesExt

CONSTANTS
    Drives,     \* the drives but the system's own
    Ids,        \* numbers of md devices
    Uuids,      \* md's identities of arrays
    MinDrives,  \* the least number of drives of the level
    Modes,      \* M.Flashcache.MODES
    Nothing,    \* no array, no cache, no metadata
    Browsers, NoPage,
    ErrorPage,  \* a browser that is shown an error
    Failing     \* which external commands may fail at will

ASSUME IdsAssumption == Ids \subseteq Nat /\ IsFiniteSet(Ids) /\ IsFiniteSet(Drives)
ASSUME MinDrivesAssumption == MinDrives \in Nat \ {0}
ASSUME ModesAssumption == Modes \subseteq {"WRITE_THROUGH", "WRITE_AROUND", "WRITE_BACK"}
ASSUME FailingAssumption == Failing \subseteq {"mdadm", "dd", "flashcache", "vgchange"}

VARIABLES
    md,         \* per number: the array
    use,        \* per number: what LVM and SCST have on it
    meta,       \* per drive: OpenSAN's metadata in its last bytes
    sb,         \* per drive: flashcache's superblock of a write-back cache
    cache,      \* per number: the flashcache map on the array (dmsetup table)
    page        \* per browser: what its page was made from

vars == <<md, use, meta, sb, cache, page>>

Array == [uuid: Uuids, in_sync: SUBSET Drives, spare: SUBSET Drives,
          faulty: SUBSET Drives, raid_disks: Nat]
Meta == [uuid: Uuids, mode: Modes]
Map == [drive: Drives, mode: Modes]
Page == [logicals: SUBSET Ids, cached: SUBSET Ids, free: SUBSET Drives,
         spare: [Ids -> SUBSET Drives], faulty: [Ids -> SUBSET Drives],
         deletable: SUBSET Ids, cacheable: SUBSET Ids, unbindable: SUBSET Drives]

ASSUME NothingAssumption == Nothing \notin Array \cup Meta \cup Map \cup Uuids /\ NoPage \notin Page /\ ErrorPage \notin Page

RaidTypeOK ==
    /\ md \in [Ids -> Array \cup {Nothing}]
    /\ use \in [Ids -> {"blank", "volumes", "exported"}]
    /\ meta \in [Drives -> Meta \cup {Nothing}]
    /\ sb \in [Drives -> Uuids \cup {Nothing}]
    /\ cache \in [Ids -> Map \cup {Nothing}]
    /\ page \in [Browsers -> Page \cup {NoPage, ErrorPage}]

Init ==
    /\ md = [i \in Ids |-> Nothing]
    /\ use = [i \in Ids |-> "blank"]
    /\ meta = [d \in Drives |-> Nothing]
    /\ sb = [d \in Drives |-> Nothing]
    /\ cache = [i \in Ids |-> Nothing]
    /\ page = [b \in Browsers |-> NoPage]

-----------------------------------------------------------------------------
(***************************************************************************)
(* What is there: Logical.list, physical_list, Physical.list               *)
(***************************************************************************)
Existing(m) == {i \in Ids : m[i] # Nothing}

Logicals == Existing(md)
Cached == Existing(cache)

Slaves(a) == a.in_sync \cup a.spare \cup a.faulty

Degraded(a) == Cardinality(a.in_sync) < a.raid_disks

\* physical_list: the slaves, and "99:i" for every one md misses.
PhysicalCount(a) ==
    LET n == Cardinality(Slaves(a)) IN IF a.raid_disks > n THEN a.raid_disks ELSE n

\* The drives no array m has.
Unassigned(m) == Drives \ UNION {Slaves(m[i]) : i \in Existing(m)}

\* Mutant: the caches are not asked for.
Free_uncached == Unassigned(md)

\* The drives the page offers for arrays, hot spares and caches.
Free == Unassigned(md) \ {cache[i].drive : i \in Cached}

\* The drives neither md nor the device mapper has open.
Unused == {d \in Unassigned(md) : \A i \in Cached : cache[i].drive # d}

-----------------------------------------------------------------------------
(***************************************************************************)
(* The page: the buttons it offers and what it knows of the arrays.        *)
(***************************************************************************)

\* Mutant: an array can be deleted whatever is on it.
Deletable_any == Logicals

\* filter_deletability_logical
Deletable == {i \in Logicals : use[i] = "blank"}

\* filter_calculate_flashcache, and the form, which asks for #flashcache > 0:
\* Lua counts from 1, arrays are numbered from 0.
Cacheable ==
    {i \in Logicals \ Cached : ~Degraded(md[i]) /\ use[i] # "exported" /\ 1 \in Logicals}

\* Mutant: the numbers of the arrays instead of the drives.
UnbindableCaches_ids == {i \in Cached : \A k \in Cached : use[k] # "exported"}

\* filter_unbindability_physical_flashcache: one exported volume on a cached
\* array keeps all caches bound.
UnbindableCaches ==
    {cache[i].drive : i \in {j \in Cached : \A k \in Cached : use[k] # "exported"}}

Rendered ==
    [logicals |-> Logicals, cached |-> Cached, free |-> Free,
     spare |-> [i \in Ids |-> IF i \in Logicals THEN md[i].spare ELSE {}],
     faulty |-> [i \in Ids |-> IF i \in Logicals THEN md[i].faulty ELSE {}],
     deletable |-> Deletable, cacheable |-> Cacheable, unbindable |-> UnbindableCaches]

PageLoad(b) ==
    /\ page' = [page EXCEPT ![b] = Rendered]
    /\ UNCHANGED <<md, use, meta, sb, cache>>

Shown(b) == page[b] \notin {NoPage, ErrorPage}

\* A handler ends in a redirect, with or without an error.
Submitted(b, failed) == page' = [page EXCEPT ![b] = IF failed THEN ErrorPage ELSE NoPage]

Refuse(b) == Submitted(b, TRUE) /\ UNCHANGED <<md, use, meta, sb, cache>>

-----------------------------------------------------------------------------
(***************************************************************************)
(* Arrays                                                                  *)
(***************************************************************************)
New(u, ds) ==
    [uuid |-> u, in_sync |-> ds, spare |-> {}, faulty |-> {}, raid_disks |-> Cardinality(ds)]

\* An identity nothing on any drive knows.
FreshUuids ==
    {u \in Uuids : /\ \A i \in Logicals : md[i].uuid # u
                   /\ \A d \in Drives : (meta[d] # Nothing => meta[d].uuid # u) /\ sb[d] # u}

\* Mutant: all arrays are prepared.
Unprepared_all(p) == Ids

\* The arrays the page does not know by device are prepared: the new one is
\* meant.  A cache changes the device of an array.
Unprepared(p) == {i \in Ids : i \notin p.logicals \/ (i \in p.cached) # (i \in Cached)}

\* An array takes the lowest free number; what its drives have in their last
\* bytes may stay.
einarc_logical_add(b, ds) ==
    /\ Shown(b) /\ ds \in SUBSET page[b].free
    /\ \/ (Cardinality(ds) < MinDrives \/ "mdadm" \in Failing \/ ~(ds \subseteq Unused)
            \/ Logicals = Ids) /\ Refuse(b)
       \/ /\ Cardinality(ds) >= MinDrives /\ ds \subseteq Unused
          /\ \E i \in Ids \ Logicals, u \in FreshUuids :
                /\ \A j \in Ids : j < i => j \in Logicals
                /\ md' = [md EXCEPT ![i] = New(u, ds)]
                /\ \E wiped \in {TRUE} \cup {w \in {FALSE} : "dd" \in Failing} :
                      /\ use' = [j \in Ids |-> IF wiped /\ (j = i \/ j \in Unprepared(page[b]))
                                               THEN "blank" ELSE use[j]]
                      /\ Submitted(b, ~wiped)
                /\ \E lost \in SUBSET ds :
                      meta' = [d \in Drives |-> IF d \in lost THEN Nothing ELSE meta[d]]
                /\ sb' = [d \in Drives |-> IF d \in ds THEN Nothing ELSE sb[d]]
                /\ UNCHANGED cache

\* Flashcache.unbind: the map is removed unless a volume on it is open; then
\* flashcache_destroy is run, whether it was removed or not, which destroys
\* the superblock of write-back unless it refuses a drive in use.
\* flashcache_destroy_meta raises an error before it writes (it adds strings
\* with "+"), which is ignored.
Unbinding(ds) ==
    LET bound == {i \in Cached : cache[i].drive \in ds}
    IN  \E stays \in SUBSET {i \in bound : use[i] # "blank"} :
           \E intact \in SUBSET {cache[i].drive : i \in stays} :
              /\ cache' = [i \in Ids |-> IF i \in bound \ stays THEN Nothing ELSE cache[i]]
              /\ sb' = [d \in Drives |-> IF d \notin intact /\ \E i \in bound : cache[i].drive = d
                                         THEN Nothing ELSE sb[d]]
              /\ UNCHANGED meta

\* The group the page knows on the array is stopped, and an error of that
\* is not caught; the label is wiped (by the name the page has for the
\* device; that of a cache that is gone names nothing), the cache unbound,
\* the array stopped unless volumes are active on it, its drives' md
\* superblocks zeroed.
einarc_logical_delete(b, i) ==
    /\ Shown(b) /\ i \in page[b].deletable
    /\ \/ (md[i] = Nothing \/ use[i] # "blank" \/ "vgchange" \in Failing) /\ Refuse(b)
       \/ /\ md[i] # Nothing
          /\ Unbinding({cache[j].drive : j \in Cached \cap {i}})
          /\ \/ /\ use[i] # "exported" /\ cache'[i] = Nothing
                /\ md' = [md EXCEPT ![i] = Nothing]
                /\ use' = [use EXCEPT ![i] = "blank"]
                /\ Submitted(b, FALSE)
             \/ /\ use[i] # "blank" \/ cache'[i] # Nothing \/ "mdadm" \in Failing
                /\ \/ i \notin page[b].cached \ Cached /\ use' = [use EXCEPT ![i] = "blank"]
                   \/ (i \in page[b].cached \ Cached \/ "dd" \in Failing) /\ UNCHANGED use
                /\ Submitted(b, TRUE)
                /\ UNCHANGED md

\* md takes a drive as a spare, if it is free.
einarc_logical_hotspare_add(b, d, i) ==
    /\ Shown(b) /\ d \in page[b].free /\ i \in page[b].logicals
    /\ \/ (md[i] = Nothing \/ d \notin Unused \/ "mdadm" \in Failing) /\ Refuse(b)
       \/ /\ md[i] # Nothing /\ d \in Unused
          /\ md' = [md EXCEPT ![i].spare = @ \cup {d}]
          /\ Submitted(b, FALSE)
          /\ UNCHANGED <<use, meta, sb, cache>>

\* mdadm --remove takes a spare that is not being rebuilt, or a failed drive.
Removable(i) == IF md[i] = Nothing THEN {} ELSE md[i].faulty \cup {d \in md[i].spare : ~Degraded(md[i])}

detach(b, d, i) ==
    \/ (d \notin Removable(i) \/ "mdadm" \in Failing) /\ Refuse(b)
    \/ /\ d \in Removable(i)
       /\ md' = [md EXCEPT ![i].spare = @ \ {d}, ![i].faulty = @ \ {d}]
       /\ Submitted(b, FALSE)
       /\ UNCHANGED <<use, meta, sb, cache>>

einarc_logical_hotspare_delete(b, d, i) ==
    Shown(b) /\ i \in page[b].logicals /\ d \in page[b].spare[i] /\ detach(b, d, i)

einarc_logical_physical_detach(b, d, i) ==
    Shown(b) /\ i \in page[b].logicals /\ d \in page[b].faulty[i] /\ detach(b, d, i)

\* mdadm --grow --raid-devices=n with the spares ds: accepted, refused, or
\* (some levels) accepted with drives missing.
Grown(a, ds, n) ==
    {g \in {[a EXCEPT !.in_sync = @ \cup ds, !.spare = @ \ ds, !.raid_disks = n]} :
        n > a.raid_disks /\ ~Degraded(a)}
    \cup {g \in {a} : "mdadm" \in Failing \/ Degraded(a) \/ n # a.raid_disks + Cardinality(ds)}

\* Mutant: the other hot spares are not put back.
Restored_not(a, rest) == {<<a, FALSE>>}

\* The hot spares taken out are added again; an error ends that.
Restored(a, rest) ==
    {<<[a EXCEPT !.spare = @ \cup rest], FALSE>>}
    \cup {<<[a EXCEPT !.spare = @ \cup back], TRUE>> :
            back \in {r \in SUBSET rest : r # rest /\ "mdadm" \in Failing}}

\* Logical:grow.  The other hot spares are taken out, so that md takes the
\* selected ones; the number of drives counts failed and missing ones; the
\* result of mdadm --grow is not looked at.
einarc_logical_grow(b, i, ds) ==
    /\ Shown(b) /\ i \in page[b].logicals /\ ds \in SUBSET page[b].spare[i]
    /\ IF ds = {} \/ md[i] = Nothing \/ ~(ds \subseteq md[i].spare) THEN Refuse(b)
       ELSE LET a == md[i]
                rest == a.spare \ ds
                n == PhysicalCount(a) - Cardinality(rest)
            IN  /\ \/ /\ rest = {} \/ ~Degraded(a)
                      /\ \E g \in Grown([a EXCEPT !.spare = ds], ds, n) :
                            \E r \in Restored(g, rest) :
                               md' = [md EXCEPT ![i] = r[1]] /\ Submitted(b, r[2])
                   \/ /\ rest # {} /\ (Degraded(a) \/ "mdadm" \in Failing)
                      /\ \E out \in SUBSET rest :
                            out # rest /\ md' = [md EXCEPT ![i].spare = @ \ out]
                      /\ Submitted(b, TRUE)
                /\ UNCHANGED <<use, meta, sb, cache>>

-----------------------------------------------------------------------------
(***************************************************************************)
(* SSD caches                                                              *)
(***************************************************************************)

\* Flashcache.bind: flashcache_destroy is run and the metadata written
\* whatever the drive is now used for; then flashcache_create, which refuses
\* a drive in use or an array that is cached.
einarc_logical_flashcache_bind(b, d, i, m) ==
    /\ Shown(b) /\ d \in page[b].free /\ i \in page[b].cacheable
    /\ IF md[i] = Nothing THEN Refuse(b)
       ELSE /\ meta' = [meta EXCEPT ![d] = [uuid |-> md[i].uuid, mode |-> m]]
            /\ \/ /\ d \in Unused /\ cache[i] = Nothing
                  /\ cache' = [cache EXCEPT ![i] = [drive |-> d, mode |-> m]]
                  /\ sb' = [sb EXCEPT ![d] = IF m = "WRITE_BACK" THEN md[i].uuid ELSE Nothing]
                  /\ Submitted(b, FALSE)
               \/ /\ d \notin Unused \/ cache[i] # Nothing \/ "flashcache" \in Failing
                  /\ \E v \in {Nothing, sb[d]} :
                        (d \in Unused => v = Nothing) /\ sb' = [sb EXCEPT ![d] = v]
                  /\ Submitted(b, TRUE)
                  /\ UNCHANGED cache
            /\ UNCHANGED <<md, use>>

\* No error is reported, whether the map could be removed or not.
einarc_logical_flashcache_unbind(b, d) ==
    /\ Shown(b) /\ d \in page[b].unbindable
    /\ Unbinding({d})
    /\ Submitted(b, FALSE)
    /\ UNCHANGED <<md, use>>

\* Mutant: every cache is bound again as one that writes through.
Assembled_through(m, st, d) ==
    LET i == CHOOSE j \in Existing(m) : m[j].uuid = meta[d].uuid
    IN  [st EXCEPT !.cache[i] = [drive |-> d, mode |-> "WRITE_THROUGH"]]

\* Flashcache.assemble for one drive with valid metadata of an array there
\* is: write-back is loaded, which may fail unnoticed; other modes are bound
\* anew, and an error of flashcache_create ends the whole loop.
Assembled(m, st, d) ==
    LET i == CHOOSE j \in Existing(m) : m[j].uuid = meta[d].uuid
        possible == st.cache[i] = Nothing /\ d \in Unassigned(m)
        bound == [st EXCEPT !.cache[i] = [drive |-> d, mode |-> meta[d].mode]]
    IN  IF ~st.going THEN st
        ELSE IF meta[d].mode = "WRITE_BACK"
        THEN IF possible /\ sb[d] = meta[d].uuid THEN bound ELSE st
        ELSE IF possible THEN bound ELSE [st EXCEPT !.going = FALSE]

\* The loop over the drives, in this order.
AssembleLoop(m, order) ==
    LET after[k \in 0..Len(order)] ==
            IF k = 0 THEN [cache |-> [i \in Ids |-> Nothing], going |-> TRUE]
            ELSE Assembled(m, after[k - 1], order[k])
    IN  after[Len(order)].cache

\* The drives are visited in no particular order.
Assemblies(m) ==
    LET found == {d \in Drives : meta[d] # Nothing
                     /\ \E j \in Existing(m) : m[j].uuid = meta[d].uuid}
    IN  {AssembleLoop(m, order) : order \in SetToSeqs(found)}

-----------------------------------------------------------------------------
(***************************************************************************)
(* The surroundings                                                        *)
(***************************************************************************)
UseChanges(b, i, from, to) ==
    /\ Shown(b) /\ i \in page[b].logicals /\ md[i] # Nothing /\ use[i] = from
    /\ use' = [use EXCEPT ![i] = to]
    /\ Submitted(b, FALSE)
    /\ UNCHANGED <<md, meta, sb, cache>>

\* The first volume is created and the last removed, the first pattern
\* bound and the last unbound (modules Volumes and Iscsi).
VolumeRequest(b, i) ==
    \/ UseChanges(b, i, "blank", "volumes") \/ UseChanges(b, i, "volumes", "blank")
    \/ UseChanges(b, i, "volumes", "exported") \/ UseChanges(b, i, "exported", "volumes")

\* A member fails; md keeps the last one.
DriveFails(i, d) ==
    /\ md[i] # Nothing /\ d \in md[i].in_sync /\ md[i].in_sync # {d}
    /\ md' = [md EXCEPT ![i].in_sync = @ \ {d}, ![i].faulty = @ \cup {d}]
    /\ UNCHANGED <<use, meta, sb, cache, page>>

\* A drive of an array is pulled and a new one put in its place: on both
\* events the hot plug script has md fail and remove what is detached.
DriveReplaced(i, d) ==
    /\ md[i] # Nothing /\ d \in Slaves(md[i]) /\ md[i].in_sync # {d}
    /\ md' = [md EXCEPT ![i].in_sync = @ \ {d}, ![i].spare = @ \ {d}, ![i].faulty = @ \ {d}]
    /\ meta' = [meta EXCEPT ![d] = Nothing]
    /\ sb' = [sb EXCEPT ![d] = Nothing]
    /\ UNCHANGED <<use, cache, page>>

\* md has rebuilt a missing member on a hot spare.
Rebuilt(i, d) ==
    /\ md[i] # Nothing /\ Degraded(md[i]) /\ d \in md[i].spare
    /\ md' = [md EXCEPT ![i].in_sync = @ \cup {d}, ![i].spare = @ \ {d}]
    /\ UNCHANGED <<use, meta, sb, cache, page>>

\* Boot: arrays_assemble leaves failed members out, then
\* Flashcache.assemble.  A cache that is not loaded is bound, which begins
\* with flashcache_destroy, for the drive whose error ends the loop too.
Reboot ==
    /\ md' = [i \in Ids |-> IF md[i] = Nothing THEN Nothing ELSE [md[i] EXCEPT !.faulty = {}]]
    /\ cache' \in Assemblies(md')
    /\ LET rebound == {cache'[i].drive : i \in {j \in Existing(cache') : cache'[j].mode # "WRITE_BACK"}}
           tried == {d \in Drives : sb[d] # Nothing /\ meta[d] # Nothing /\ meta[d].mode # "WRITE_BACK"}
       IN  \E destroyed \in SUBSET tried :
              sb' = [d \in Drives |-> IF d \in rebound \cup destroyed THEN Nothing ELSE sb[d]]
    /\ page' = [b \in Browsers |-> NoPage]
    /\ UNCHANGED <<use, meta>>

-----------------------------------------------------------------------------
Request(b) ==
    \/ PageLoad(b)
    \/ \E ds \in SUBSET Drives : einarc_logical_add(b, ds)
    \/ \E i \in Ids :
          \/ einarc_logical_delete(b, i)
          \/ \E ds \in SUBSET Drives : einarc_logical_grow(b, i, ds)
          \/ VolumeRequest(b, i)
          \/ \E d \in Drives :
                \/ einarc_logical_hotspare_add(b, d, i)
                \/ einarc_logical_hotspare_delete(b, d, i)
                \/ einarc_logical_physical_detach(b, d, i)
                \/ \E m \in Modes : einarc_logical_flashcache_bind(b, d, i, m)
    \/ \E d \in Drives : einarc_logical_flashcache_unbind(b, d)

Surroundings ==
    \/ \E i \in Ids, d \in Drives : DriveFails(i, d) \/ DriveReplaced(i, d) \/ Rebuilt(i, d)
    \/ Reboot

Next == Surroundings \/ \E b \in Browsers : Request(b)

Spec == Init /\ [][Next]_vars

-----------------------------------------------------------------------------
(***************************************************************************)
(* Properties                                                              *)
(***************************************************************************)

\* Creating, deleting and growing arrays never loses volumes: the label that
\* einarc_logical_add and einarc_logical_delete wipe is that of an array
\* without volumes ("prepare( newly created RAID )" in the diagram above
\* einarc_logical_add).
ArraysKeepVolumes ==
    [][\A i \in Ids : use[i] # "blank" /\ use'[i] = "blank"
        => \E b \in Browsers : VolumeRequest(b, i)]_vars

\* The drive d is changed, or its own cache is unbound.
OwnRequest(d) ==
    \/ \E i \in Ids : DriveReplaced(i, d)
    \/ \E b \in Browsers : einarc_logical_flashcache_unbind(b, d)
    \/ \E b \in Browsers, i \in Cached : cache[i].drive = d /\ einarc_logical_delete(b, i)

\* Nothing is written on a drive of an array or a cache behind its back:
\* what a boot reads from it (the metadata, the superblock of a write-back
\* cache) changes only with the drive itself or when its own cache is
\* unbound.  Flashcache.bind destroys and writes both before any command
\* could refuse the drive, so the page must not offer one that is in use.
DrivesInUseKept ==
    [][\A d \in Drives \ Unused :
          <<meta'[d], sb'[d]>> # <<meta[d], sb[d]>> => OwnRequest(d)]_vars

\* A growth that reports no error leaves the hot spares that were not
\* selected where they were, although Logical:grow takes them all out.
GrowKeepsSpares ==
    [][\A b \in Browsers, i \in Ids, ds \in SUBSET Drives :
         einarc_logical_grow(b, i, ds) /\ page'[b] # ErrorPage => md[i].spare \ ds \subseteq md'[i].spare]_vars

\* Drives with the metadata of a cache that is not there.
Leftovers == {d \in Drives : meta[d] # Nothing /\ \A i \in Cached : cache[i].drive # d}

\* Write-back caches that Flashcache.unbind could not remove and has taken
\* the superblock from.
HalfUnbound == {i \in Cached : cache[i].mode = "WRITE_BACK" /\ sb[cache[i].drive] = Nothing}

\* A reboot brings back every SSD cache, in its mode, as long as the drives
\* have no metadata of a cache that was unbound: bind writes what assemble
\* reads, and a write-back cache with data nobody else has is loaded and not
\* created again.  Only one whose unbinding failed half-way is lost.
CachesReturn ==
    [][Reboot /\ Leftovers = {} =>
          cache' = [i \in Ids |-> IF i \in HalfUnbound THEN Nothing ELSE cache[i]]]_vars

\* A reboot brings up the caches that were bound and no others: what
\* Flashcache.unbind ("Unbind Physical cache device from Logical") has
\* unbound stays unbound.
UnboundStaysUnbound == [][Reboot => cache' = cache]_vars
=============================================================================
