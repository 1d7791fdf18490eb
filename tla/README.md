# OpenSAN: a TLA+ model of the storage controller

OpenSAN (aStor2) turns a box of drives into an iSCSI storage area network that is configured through
a Web page. Its own code is Lua on top of OpenWrt, LuCI, md, LVM, SCST and flashcache: five libraries
under `feeds/astor2/`, two LuCI applications under `feeds/luci/applications/`, a boot script. This
directory models the parts of it where configuration, kernel state and data on disks can come apart, and
the Web server whose behaviour the handlers depend on.

## 1. The system

### Components

| component | state | operations | interacts with |
|---|---|---|---|
| `astor2/scst.lua` | UCI package `scst` (access patterns, credentials); the kernel's SCST target | `list`, `save`, `delete`, `bind`, `unbind`, `Configuration.dump`, `Daemon.apply` | libuci, `scstadmin`, sysfs sessions |
| `astor2/lvm.lua` | LVM labels, groups, volumes, snapshots | `PhysicalVolume.create/prepare/resize`, `VolumeGroup.create/disable`, `logical_volume`, `remove`, `resize`, `snapshot`, `restore` | `lvm`, `dd` |
| `astor2/einarc.lua` | md arrays, hot spares, SSD caches | `Logical.add/delete/grow/hotspare_*`, write cache, `Flashcache.*` | `mdadm`, `sdparm`, flashcache |
| `astor2/caching.lua` | drives' write caches | `apply` | scst, lvm, einarc |
| `controller/san.lua` | none: one handler per button | 17 handlers behind `perform` | all libraries; the data serialized into the page |
| `controller/matrix.lua` | the page | `caller` (list, clean up, apply, filters), `overall` (the table) | all libraries |
| `uhttpd` (package/uhttpd) | connections, the request being relayed, the script's process | `uh_mainloop`, `uh_cgi_request`, `uh_lua_request` | browsers, the LuCI process that runs a handler |
| `astor2.init` | | boot: assemble, `lvm.restore`, `caching.apply`, `Daemon.apply` | all libraries |
| factory defaults | | unbind and delete everything, wipe | scst, lvm, einarc |
| monitoring, SMART, IPMI | none | show readings | |
| openwrt/, feeds/packages, the rest of feeds/luci | | third party | |

A handler runs in a process of its own, which uhttpd forks; the code has no locks, and what keeps two handlers
apart is only that uhttpd relays one request at a time and waits for its process. A page carries buttons and, in
hidden fields, the data it was made from. Handlers trust both: access pattern handlers look the
section up again by its hash, volume handlers decide from the data in the page and act on the disks as
they are now. So the hard behaviours are pages that are out of date, external commands that fail
between two steps of a handler, processes that are ended or lose power between two commits, arrays that
fail, and reboots. `PROJECT.json` lists the hazards line by
line.

### What makes each part correct

* iSCSI: names of patterns are unique, LUNs are unique per volume, LUN 0 is bound first and unbound last,
  the configuration can always be dumped, the kernel serves what the store says, exports of failed
  arrays end, write-through is honoured.
* Volumes: a volume is lost only by removing it, shrinks only with a warning, removal leaves others alone,
  an array never stays busy under a label that was wiped.
* Page: every cell is on a whole line and parts divide their whole, otherwise buttons vanish.
* RAID and caches: nothing is written on a drive in use, creating and deleting arrays wipes no volumes, growth keeps the
  hot spares that were not selected, a boot brings up the caches that were bound and no others.
* Web server: one script at a time, which under CGI is ended at work only if its form came too late; every
  client is served some time.
* Requests: with its single commits, errors and processes that end, a handler still looks like one step.

## 2. Modules

* `Uci` - the store: a package as a sequence of sections. libuci names an anonymous section by position and
  contents; a button carries a hash of that name (`Found` is `find_by_hash`).
* `Scst` - `scst.lua` as operators on a store `s`, a set of existing device files and a kernel state.
  `dump` gives what the kernel is told to serve; `Applied` and `ApplyRaised` are the kernel states
  `Daemon.apply` can leave when it returns and when it raises an error (in `dump`, in
  `-check_config`, or half-way through `scstadmin -config`: any mixture of the old and the new state
  that keeps what is common to both).
* `Iscsi` - the state machine: `scst`, `kernel`, `sessions`, `devices`, `lvs`, `arrays`, `writecache`, and per
  browser the `page` it shows. One action per handler, `PageLoad` for `matrix.caller` (with the
  unbinding of unknown patterns and the unprotected apply), and the surroundings: volumes come, go and are
  resized, arrays fail, initiators connect, the box reboots into any set of arrays.
* `Volumes` - labels, sizes and groups of arrays, volumes with snapshots, activation, exports, pages.
  One action per volume handler. `busy` remembers arrays whose label was wiped under active volumes.
  The `lvm` commands are external: they refuse what LVM refuses and fail at will if listed in `Failing`.
* `Layout` - `overall`: the loop over the arrays and the rest of the table, with `gcd` and `lcm`.
  The row span lives in the object a cell shows, as in the code, so an object shown twice has one.
* `WebServer` - what the handlers rely on, as an abstract specification: `Start`, `ReadForm`, `Reply`, `End`,
  `Release`, one request after another.
* `Uhttpd` - the server as it is: the loop over the sockets (`Select`, `Accept`, `Serve`, `Fork`), the relay of
  form and output (`RelayForm`, `RelayOutput`, `RelayEof`), `CgiTimeout` and `LuaTimeout`, the closing of the
  script's pipes and SIGTERM (`Terminate`) and waitpid (`Wait`); clients that send whole or half requests or leave; the script's process
  (`sgi/cgi.lua`, whose output is closed by `luci.http.close` before the process is done). It implements
  `WebServer` under the mapping `Abstract` (property `ServesOneByOne`).
* `Requests` - the composition: the handlers of patterns and credentials as sequences of effects (commit of
  a deletion, commit of a new section, `Daemon.apply`, `caching.apply`, the answer), run on `WebServer`, with
  power lost at any point. Its property `AtomicHandlers` maps the state between two requests to the
  variables of `Iscsi` and says that every step is one of `Iscsi`, a power loss that cuts one request short
  (`CutShort`), or a request the server gives up while its handler works (`GivenUp`), either of which costs one
  pattern or credential at most: this is what allows `Iscsi` to take a handler for one step.
* `Raid` - md arrays with members, hot spares and failed drives, what LVM and SCST have on them (`use`), the
  flashcache maps, OpenSAN's metadata in the last bytes of an SSD and flashcache's own superblock. One action
  per einarc handler, `DriveFails`, `DriveReplaced` (with the hot plug script), `Rebuilt`, and `Reboot` with
  `arrays_assemble` and `Flashcache.assemble`. What the page offers (`Free`, from `Physical.list`) is kept apart
  from what `mdadm` and `flashcache_create` take (`Unused`, external). `flashcache_destroy`, which `bind` and
  `unbind` run before or without looking at any result, destroys the superblock of a drive that is not in use and
  may or may not do so on one that is: nothing in the code says, so both outcomes are there.
* `MCIscsi`, `MCVolumes`, `MCLayout`, `MCUhttpd`, `MCRequests`, `MCRaid` - values of constants, symmetry and state
  constraints for TLC.
* `ScstProofs` - lemmas about the store and the library; `IscsiProofs`, `IscsiOneAdminProofs`, `VolumesProofs`,
  `RaidProofs`, `UhttpdProofs`, `RequestsProofs`, `LayoutProofs` - the theorems (section 4).

`Iscsi` extends `Scst`, which extends `Uci`. `Iscsi` and `Volumes` see each other through a narrow
interface: `Iscsi` has volumes that exist or not (`VolumeAdd`, `VolumeRemove`, `VolumeResize`), `Volumes` has
volumes that are held open or not (`Export`, `Unexport`), `Raid` has arrays that are blank, have volumes or
export them (`VolumeRequest`). `Uhttpd` refines `WebServer`; `Requests` extends `WebServer` and `Scst`, takes what
the code computes from `Iscsi` (`Now == INSTANCE Iscsi`) and refines `Iscsi` (`Atomic`).

Definitions whose comment starts with "Mutant:" are wrong on purpose. They are not used by the
specifications; `PROJECT.json` names for each property the one that breaks it.

### Abstractions

Names, users, files, groups are model values; passwords, wording and formatting are left out. In `Iscsi`,
`Volumes` and `Raid` a handler is one step; `Requests` shows for the handlers of patterns and credentials
that this is right. A command that a handler has started is taken to end with it: a command that outlives
a handler ended by SIGTERM is not followed (an effect is done or not done). The page has the form to edit an
access pattern for bound patterns too, hidden by a script (`access_pattern/index.htm:51-55`), and
`scst_access_pattern_edit` does not look whether the pattern is bound; `Iscsi` takes a hidden form for no button. In `Requests` volumes always exist and nobody is connected, so
no session has to be detached; those steps are in `Iscsi`. `Raid` has one redundant level and drives of one
size, and leaves out that `einarc_logical_add` activates and stops groups, which none of its guards reads. In
`Uhttpd` a request is a header and perhaps a form, a page is up to two pieces of output; bytes, TLS,
authentication, files and the interpreter table are left out. Device files of a failed array stay, as they do until a reboot. Sizes are multiples of a
small extent. A group's name is never reused while a disk, a page or an open device knows it (the code
takes a random number and the time). A snapshot's name is any unused name.

## 3. Runs

| run | instance | result |
|---|---|---|
| `iscsi_two_admins` | 2 browsers, 2 volumes on 2 arrays, 2 names, 2 LUNs | `TypeOK`, `UniqueNames`, `UniqueLuns`, `EditsKeepExports`, `FailedArraysCleanedUp` hold |
| `iscsi_one_admin` | 1 browser, a volume, its snapshot and another volume, 1 user, write-through or not | `InSync`, `FirstWriteThroughHonoured` hold |
| `iscsi_faults` | 1 browser, commands fail | `Lun0First`, `Servable` hold |
| `iscsi_stale_unbind` | 2 browsers | `Lun0First` violated |
| `volumes_one_admin` | 1 browser, 2 arrays, all failures | `TypeOK`, `NoOrphanedMappings`, `OnlyRemovedAreLost`, `ShrinksOnlyAsWarned`, `RemoveKeepsOthers` hold |
| `volumes_stale` | 2 browsers, 1 array | `OnlyRemovedAreLost` violated |
| `layout_table` | 2 arrays of up to 3 drives and an SSD, at most one degraded | `Divisible`, `DrivesBesideArrays`, `LeastLines` hold |
| `uhttpd_serve` | 2 clients, CGI and Lua, Lua scripts may hang | `WebTypeOK`, `OneHandler`, `Served` (liveness), `ServesOneByOne` (refinement) hold |
| `uhttpd_timeout` | 2 clients, CGI, whose scripts may hang | `TimeoutEndsRequest` (liveness) violated |
| `requests_atomic` | 2 clients, 1 volume, 2 names, 2 LUNs, 1 user, CGI and Lua, `-check_config` may refuse | `WellFormedStore`, `AtomicHandlers` (refinement) hold |
| `raid_one_admin` | 1 browser, 5 drives, 2 arrays, 2 cache modes, all failures | `RaidTypeOK`, `DrivesInUseKept`, `ArraysKeepVolumes`, `GrowKeepsSpares`, `CachesReturn` hold |
| `raid_rebind` | 1 browser, 4 drives, no failures | `UnboundStaysUnbound` violated |

**Bounds.** Two browsers are enough for a page to be out of date in every way: what the others did is what
one other did. Two patterns with LUNs 0 and 1 make every case of the LUN 0 rule and of the busy check;
two names make renames and collisions. In `iscsi_two_admins` the volumes are on different arrays, so that one
array fails while the other still exports; the two, with their targets and arrays, are interchangeable. In
`iscsi_one_admin` one array with two volumes shows the sharing of the drive cache; the third volume of `iscsi_one_admin` is exported while another, whose snapshot is exported too, is removed. In `Volumes`, sizes 2 and 4 in arrays of 6 that grow to 9 with extents of 2 reach full groups, growth by more
than an extent with a remainder, and both outcomes of the bounds check; three group names are needed because
a name on a stale page is not used again. `Uhttpd` needs two clients, one that is relayed and one that waits.
`Requests` has two clients so that a page goes out of date between two requests, one volume and a store of at
most two sections (`MC_SmallStore`), which is what a handler and its neighbour take: both plugins with late
forms leave no room for a second volume, which the theorem covers. In `Raid` five drives make two arrays and an SSD, or an array with two hot spares and an
SSD; `MC_Few` keeps to one missing member, two hot spares and one failed drive or left-over cache at a time; two
identities of arrays are enough because a deleted array's identity comes back once no drive knows it.
`Layout` uses volumes with 0, 2 and 3 patterns and
sessions, whose LCM is larger than each. Symmetry is over names, groups and browsers, which no definition
orders or distinguishes. `layout_table` ends when `overall` returns, so it does not check for deadlock;
all other runs do.

**Fairness.** `Uhttpd` assumes weak fairness of the server (`Server`) and of every script (`Script(c)`): both are
processes the kernel schedules, and each of their steps is either enabled until taken or waits for a timeout
of the code's own (0.1 s for a header, `network_timeout`, `script_timeout`). Nothing is assumed of clients, who
need not send what they began, nor of commands a script waits for, which may never return (`Hang`). `Served`
and `TimeoutEndsRequest` are the liveness properties. In the other modules every step is a request somebody
makes or an event of the surroundings, nothing retries or runs by itself, and no fairness is assumed.

### What the violations show

* **LUN 0 from a stale page.** The rule is enforced by leaving out the button, not in
  the handler. After LUN 0 is unbound under LUN 1, `dump` raises an error and, since the page calls
  `Daemon.apply` unprotected, the page is gone.
* **Adding to an array that is no longer empty.** The decision to start from scratch is made from the page;
  the label is overwritten before `pvcreate` finds the device in use.
* **The CGI timeout does not end a request.** When `select()` returns 0 the loop only asks whether the script
  still exists; the branch with the 504 cannot be reached. A handler whose command hangs keeps all
  administrators out until somebody kills it. The other side of it: because the timeout is not enforced, a
  handler that has its form is not ended between two of its commits. The Lua plugin enforces it and gives that
  up. Under CGI one way remains: when a form does not arrive in time the server closes the script's input and
  then sends SIGTERM (`uhttpd-cgi.c:594-599`), and in between the script may read the end of its input, run the
  handler on what has arrived and be ended at work. So the promise in `WebServer` allows `End` of a running
  script with "lua" and for a "late" form only.
* **An unbound cache comes back.** `flashcache_destroy_meta` adds strings with `+`, the error is swallowed, the
  metadata stays and `Flashcache.assemble` binds the SSD again at boot. `CachesReturn` is therefore stated for
  boxes on which no SSD has left-over metadata; with left-overs, which of two SSDs an array gets back
  depends on the order the drives are listed in. It also excepts `HalfUnbound`: `Flashcache.unbind` runs
  `flashcache_destroy` whether or not `dmsetup remove` succeeded (`einarc.lua:814, 822`), so a write-back cache that was
  in use and stayed may have lost the superblock a boot loads it by.

Four more disagreements are modelled and only described here. With nothing to export `Daemon.apply` returns early, so that the target of the last pattern
unbound stays unless an initiator was connected (`scst.lua:503`; this is why `InSync` is stated for
stores that export something). Removing a volume removes its snapshots with it, and their targets stay in the
kernel until the next page applies the configuration (`InSync` compares what the kernel serves of the volumes
there are, `Remaining`). Only the first pattern bound to a volume decides on write-through
(`caching.lua:41`). Two arrays that miss the drive of one number share the object "99:i" and its row span
(`einarc.lua:445`; `layout_table` has at most one degraded array).

## 4. Proofs

All theorems hold for every value of the constants that satisfies the named assumptions (`LunsAssumption`,
`FilesAssumption`, ..., `SizesAssumption`, `RequestsAssumption`, `BoundsAssumption`): any number of volumes, LUNs,
names, drives, arrays, sessions and clients, any assignment of volumes to arrays. (Only the table of `Layout`
has at most 99 drives, `DrivesAssumption`, so that the numbers it gives to missing drives are no drive's, as no
drive in the code has an identifier "99:i".) Where a theorem needs more it says so as a hypothesis, and the last
column shows why:

| hypothesis | theorems | without it |
|---|---|---|
| `OneBrowser` | `Lun0ComesFirst`, `DumpAlwaysWritten`, `KernelFollows`, `WriteThroughHonoured` | run `iscsi_stale_unbind` |
| | `NothingStaysMapped`, `OthersSurvive`, `NoSilentShrinking` | run `volumes_stale` |
| | `VolumesSurviveArrays`, `DrivesInUseStay`, `CachesComeBack` | with `Browsers = {b1, b2}` in `RaidOneAdmin.cfg` TLC finds all three violated: `einarc_logical_add` prepares every array the page does not know, and a bind of a drive that is in use by now rewrites its metadata before it is refused |
| `InjectiveIqn` (volumes have targets of their own) | `DumpAlwaysWritten`, `KernelFollows`, `WriteThroughHonoured` | LUN 0 of one volume may be unbound under LUN 1 of another with the same target, and `dump` raises an error |
| `Faults = {}` | `KernelFollows`, `WriteThroughHonoured` | `scstadmin` stops half-way |
| `MaxDegraded <= 1` (at most one array misses drives) | `DrivesStandBeside` | two arrays that miss the drive of one number share the object "99:i" and its row span; with `MaxDegraded = 2` in `LayoutTable.cfg` TLC finds it violated |

Nothing else is assumed of faults: the remaining theorems hold whichever commands fail.

* `ScstProofs`: `Kept` is a sequence of the sections kept, each once, in order (cited wherever a section is
  deleted), and what `save`, the two deletes and `dump` preserve: types, distinct names, distinct LUNs.
  A second group is about order, because a pattern that is saved moves to the end of the store and the *first*
  pattern of a volume decides on write-through: `SameOrder(s, t, F)` says that the patterns bound to the
  files F are the same in both stores and in the same order, and `dump` and the caching policy depend on the store
  only through that and through `Permits`, the users of each volume (`SameDump`). A third, used for single commits, is about
  stores that differ in one pattern or credential (`SaveNear`, `DeleteAgain`, `CredentialAgain`).
* `IscsiProofs`: the inductive invariant is `IInv == TypeOK /\ UniqueNames /\ UniqueLuns`. The parts need each
  other: `save` replaces a section by the pattern's *name*, so binding keeps LUNs distinct only if the
  section deleted is the one that was checked, that is if names are unique; and `TypeOK` bounds what a
  stale page can hold. One lemma per handler, one per group of surroundings. `TypeCorrect`, `NamesStayUnique`,
  `LunsStayUnique` follow; `EditsLeaveExports` and `FailedArraysGone` are action properties proved
  from the invariant step by step.
* `IscsiOneAdminProofs`: three invariants, each on top of the one before. `ZeroInv` adds to `IInv` that a volume with a
  bound pattern has LUN 0 and that a page offers to unbind LUN 0 only of a volume that has no other LUN
  (`FreshUnbind`: this is where one browser is needed). `ServeInv` adds the same for enabled patterns, since
  disabling is part of an edit and an edit is of unbound patterns only, and that listed volumes have device files.
  `SyncInv` adds that the kernel serves what the store says (`Synced`), that patterns are bound to volumes there are while
  a page is shown, and `FirstWriteThroughHonoured`, whose proof is the one that needs the order of the sections.
* `VolumesProofs`: `VInv == TypeOK /\ Places`, where `Places` says that a group lies on one array and that no page,
  however old, places a group that is on a disk elsewhere. It is what makes `RemoveKeepsOthers` true:
  the removal stops a group by name but wipes the array the *page* names. With one browser, `OneInv` adds that the page shown tells
  what is on the disks (`Current`), that snapshots have their origins and volumes a name of their own (`Good`) and
  `NoOrphanedMappings` itself; whether `lvm_logical_volume_add` may start from scratch is then decided from what there is.
* `RaidProofs`: `RInv == RaidTypeOK /\ Separate`: arrays share no drives, and caches are on drives no array has, no two
  on one. It holds for any number of browsers because `mdadm` and `flashcache_create` refuse drives in use, so it is
  a lemma on the way and no claim about OpenSAN; with it come `RaidTypeCorrect` and `GrowthKeepsSpares`. With one browser,
  `OneInv` adds `Grounded` (volumes and caches are on arrays there are), `Recorded` (a cache's drive has its metadata, a
  write-back cache its own superblock or none), `Marked` (a superblock has metadata of write-back beside it, so that no boot
  destroys one) and `Current`. That the page offers just the drives that are unused (`FreeUnused`) and is still right
  when a button is pressed gives `DrivesInUseStay`: `Flashcache.bind` writes before any command could refuse.
  `Flashcache.assemble` visits the drives in any order and stops at the first error; what its loop does is
  shown by taking the least visit at which a claim fails (`UpTo`), since the library's induction rules
  cannot be used: there is no error, and each drive with metadata brings up its own cache.
* `UhttpdProofs`: for any number of clients, `WebTypes`, `OneHandlerAtATime` and `ServerImplementsPromise`, the
  refinement of `WebServer`. The inductive invariant `WInv` adds to types and `OneHandler`: `Visits` (a socket
  that is visited is open, `accept()` is called when a connection waits), `Relayed` (the client that is
  relayed is connected and its header was read, so that nothing it sends is taken for a new request; a
  script whose form is due has not run), `Answering` (output comes from the script that is relayed), and
  `EndsEarly` (the loop ends with a script at work only under the Lua plugin or when its form was late), without
  which `Die` would not be an `End` the promise allows. The promise allows `End` of a running script only for a
  request handed to the Lua plugin or whose input was closed early, so the theorem says that no CGI handler that
  has its form is ended before its answer.
* `RequestsProofs`: `QInv` says that a handler at work is the only one, and that program, store, kernel and stage are then those
  of one of its positions (`Position`: two for a page load, four for saving and applying a binding, three more when it
  is taken back, and so on), each given in terms of `before`, the state the handler began in; and
  that the store differs from `before` in one pattern or one credential at most (`Near`). Each effect goes from a
  position to the next (`Advance`) or ends the request (`Finish`), and at the end the position is what the step of
  `Iscsi` says. A process that is ended after it has answered is in one of two positions, and
  `Iscsi` allows what they have done; one that is ended at work may be in any, and each is what `GivenUp` says
  (`KernelAtWork`: the kernel is that of `before` or what an apply made of it). A power loss is `Reboot` of `Iscsi` if the store is that of `before`, and `CutShort`
  by `Near` if not. `StoreStaysWellFormed` follows from the same invariant for both plugins. Together with
  `ServerImplementsPromise` this justifies that `Iscsi` takes a handler for one step.
* `LayoutProofs`: first arithmetic. `gcd` is a recursive function, so even that it has the value its equation
  gives has to be shown: two numbers and the remainder have the same common divisors (`CommonMod`), hence the same greatest
  one (`GcdEquation`). It is a combination of its arguments (`GcdProperty`), so that `lcm` is a multiple of both
  and divides every common multiple (`LcmProperty`). The loops that collect the LCM keep `IsLcm` from pass to
  pass; where an induction is needed the least number at which a claim fails is taken (`LeastNumber`, `Passes`), as
  in `RaidProofs`. This gives `FewestLines`. Then geometry: the number of objects at each level divides the lines they
  are given (`Spans`), so a column of them tiles those lines (`ColumnTiles`). The inductive invariant is
  `TableInv == TableType /\ \E start \in Starts(logicals) : Placed(start)`: there are first lines of the blocks, the
  cells of arrays, volumes, patterns and sessions are exactly those of the blocks laid out, each at its place, and so
  are the drives if at most one array misses any. The properties alone are not inductive: `Shown` rewrites the row span
  of every cell whose object is shown again, and only knowing which objects earlier blocks show tells that
  this changes nothing. `CellsDivide` and `DrivesStandBeside` follow from it.

Only model-checked: the liveness property `Served`, and `TimeoutEndsRequest`, which TLC refutes; liveness is out of the
prover's reach. Every other property of a passing run is the statement of a theorem. The four violations are
counterexamples and have no theorem.

## 5. Not modelled, and the plan

1. `FactoryDefaults`: `clearing.lua` over `Scst` and `Volumes` - a target without a session keeps its volume
   open, `vgchange` refuses, and the script ends before the arrays are deleted.
2. `DeviceNames`: `phys_to_scsi` and `scsi_to_phys` against the kernel's numbering.
3. Targets shared by volumes whose names differ only in characters `iqn()` replaces: every enabled and bound
   pattern is served.

Left out for good: monitoring, SMART and IPMI pages (they only show), hot plug scripts for multipath and block
device parameters, service scripts, OpenWrt, LuCI and packages (third party), build and remote
test harness. Nearly all C code of the repository is of this kind: drivers, boot loaders, libraries and tools of
OpenWrt that other projects maintain and that OpenSAN does not change. Its own logic is in Lua and shell, and of
the C code only uhttpd, on which the handlers depend, is modelled.
