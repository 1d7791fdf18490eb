-------------------------------- MODULE Iscsi --------------------------------
(***************************************************************************)
(* iSCSI export of volumes: the access pattern and credential handlers of  *)
(* controller/san.lua, the page controller/matrix.lua renders, the caching *)
(* policy of astor2/caching.lua and the boot script, over the library of   *)
(* module Scst.                                                            *)
(*                                                                         *)
(* Every browser holds the page it was last sent.  A page offers buttons,  *)
(* and a handler trusts that a button it is sent for was offered; by the   *)
(* time it is pressed the page may be out of date.  A handler runs in a    *)
(* process of its own and is one step here (requests one after another).   *)
(***************************************************************************)
EXTENDS Scst

CONSTANTS
    Browsers,   \* pages open at the same time
    NoPage,     \* a browser that waits for a page or shows an error
    Flags,      \* the check boxes submitted: enabled, readonly, writethrough
    Origin,     \* Origin[f]: the volume f is a snapshot of, f itself if none
    Arrays,     \* RAID arrays (einarc logicals)
    ArrayOf     \* ArrayOf[f]: the array a volume lies on

ASSUME FlagsAssumption ==
    Flags \subseteq [enabled: BOOLEAN, readonly: BOOLEAN, writethrough: BOOLEAN]
ASSUME ArraysAssumption ==
    ArrayOf \in [Files -> Arrays] /\ Origin \in [Files -> Files]
VARIABLES
    scst,       \* the UCI package: the sequence of its sections
    kernel,     \* what the kernel's SCST serves
    sessions,   \* targets with which an initiator has a session
    devices,    \* device files that exist
    lvs,        \* logical volumes on the disks
    arrays,     \* arrays that are assembled and work
    writecache, \* per array: the drives' write cache is on
    page        \* per browser: the buttons of the page it shows

vars == <<scst, kernel, sessions, devices, lvs, arrays, writecache, page>>

\* The volumes "lvm lvs" lists: LVM does not find those of a failed array.
listed == {f \in lvs : ArrayOf[f] \in arrays}

UnboundPattern == {p \in AccessPattern : p.filename = NoFile}

Page == [unbound: SUBSET (Nat \X UnboundPattern),  \* bind, edit, delete
         unbind:  SUBSET (Nat \X AccessPattern),
         credentials: SUBSET (Nat \X AuthCredential),
         volumes: SUBSET Files,                    \* what can be selected
         removable: SUBSET Files]

ASSUME NoPageAssumption == NoPage \notin Page

TypeOK ==
    /\ scst \in Seq(Section)
    /\ kernel \in Kernel
    /\ sessions \in SUBSET Iqns
    /\ devices \in SUBSET Files
    /\ lvs \in SUBSET Files
    /\ arrays \in SUBSET Arrays
    /\ writecache \in [Arrays -> BOOLEAN]
    /\ page \in [Browsers -> Page \cup {NoPage}]

Init ==
    /\ scst = <<>>
    /\ kernel = EmptyKernel
    /\ sessions = {}
    /\ lvs \in {vs \in SUBSET Files : \A f \in vs : Origin[f] \in vs}
    /\ devices = lvs
    /\ arrays = Arrays
    /\ writecache = [a \in Arrays |-> TRUE]
    /\ page = [b \in Browsers |-> NoPage]

-----------------------------------------------------------------------------
(***************************************************************************)
(* Rendering a page                                                        *)
(***************************************************************************)

\* Mutant: the page does not filter the unbind buttons.
Unbindable_unfiltered(s, i) == TRUE

\* filter_unbindability_access_pattern: LUN 0 goes last.
Unbindable(s, i) ==
    s[i].lun = 0 => \A j \in BoundTo(s, s[i].filename) : s[j].lun = 0

\* filter_deletability_logical_volume
Deletable(s, f) == BoundTo(s, f) = {}

\* filter_fillup_auth_credentials: those of volumes, not of snapshots.
FilledUp(s) == {i \in Credentials(s) : s[i].filename \in {f \in listed : Origin[f] = f}}

\* The buttons of the page (view/san).  The page has the form to edit a
\* pattern for bound ones too, hidden by a script: it is no button here.
Rendered(s) ==
    [unbound |-> {SectionName(s, i) : i \in BoundTo(s, NoFile)},
     unbind |-> {SectionName(s, i) : i \in
                    {j \in Patterns(s) : is_binded(s[j], devices) /\ Unbindable(s, j)}},
     credentials |-> {SectionName(s, i) : i \in FilledUp(s)},
     volumes |-> listed,
     removable |-> {f \in listed : Deletable(s, f)}]

\* Mutant: a pattern is unknown only when the device file is gone.
Unknown_nofile(s) == {i \in Patterns(s) : s[i].filename \notin devices \cup {NoFile}}

\* unknown_access_patterns_filename_unbind: every pattern bound to a file
\* that is not listed is unbound, one save after the other (names are
\* unique, so each save moves one section to the end).
Unknown(s) == {i \in Patterns(s) : s[i].filename \notin listed \cup {NoFile}}

UnknownUnbound(s) ==
    LET gone == Kept(s, Unknown(s))
    IN  Kept(s, DOMAIN s \ Unknown(s)) \o [k \in DOMAIN gone |-> Unbound(gone[k])]

\* matrix.caller for GET admin/san.  An error in Daemon.apply is not caught:
\* the browser is shown the error and no page.
PageLoad(b) ==
    LET s == UnknownUnbound(scst)
        k == rem_target(kernel, UNION {Detached(scst[i], devices, sessions) : i \in Unknown(scst)})
    IN  /\ scst' = s
        /\ \/ /\ kernel' \in Applied(s, devices, k)
              /\ page' = [page EXCEPT ![b] = Rendered(s)]
           \/ /\ kernel' \in ApplyRaised(s, devices, k)
              /\ page' = [page EXCEPT ![b] = NoPage]
        /\ sessions' = sessions \cap Targets(kernel')
        /\ UNCHANGED <<devices, lvs, arrays, writecache>>

-----------------------------------------------------------------------------
(***************************************************************************)
(* Handlers.  Each ends in a redirect or in an error page: the page the    *)
(* button was on is gone.                                                  *)
(***************************************************************************)
Shown(b) == page[b] # NoPage

Submitted(b) == page' = [page EXCEPT ![b] = NoPage]

\* A handler that returns early or raises an error before it changes
\* anything.
Refuse(b) ==
    /\ Submitted(b)
    /\ UNCHANGED <<scst, kernel, sessions, devices, lvs, arrays, writecache>>

\* A form that does not validate: no name, no volume selected, a bad user
\* name, a short password.
InvalidForm(b) == Shown(b) /\ Refuse(b)

Pattern(n, l, fl) ==
    [type |-> "access-pattern", name |-> n, lun |-> l, filename |-> NoFile,
     enabled |-> fl.enabled, readonly |-> fl.readonly, writethrough |-> fl.writethrough]

\* Mutant: only the patterns that are not bound are looked through.
NameExists_unbound(n) == \E i \in BoundTo(scst, NoFile) : scst[i].name = n

NameExists(n) == \E i \in Patterns(scst) : scst[i].name = n

scst_access_pattern_new(b, n, l, fl) ==
    /\ Shown(b)
    /\ IF NameExists(n) THEN Refuse(b)
       ELSE /\ scst' = Append(scst, Pattern(n, l, fl))
            /\ Submitted(b)
            /\ UNCHANGED <<kernel, sessions, devices, lvs, arrays, writecache>>

scst_access_pattern_delete(b, name) ==
    /\ Shown(b) /\ name \in page[b].unbound
    /\ IF ~Found(scst, name) THEN Refuse(b)
       ELSE /\ scst' = delete_by_name(scst, name[2].name)
            /\ Submitted(b)
            /\ UNCHANGED <<kernel, sessions, devices, lvs, arrays, writecache>>

\* The attributes saved carry the submitted name and no filename: the
\* section deleted first is the one with the NEW name.
scst_access_pattern_edit(b, name, n, l, fl) ==
    /\ Shown(b) /\ name \in page[b].unbound
    /\ IF ~Found(scst, name) \/ (n # name[2].name /\ NameExists(n)) THEN Refuse(b)
       ELSE /\ scst' = save(scst, Pattern(n, l, fl))
            /\ Submitted(b)
            /\ UNCHANGED <<kernel, sessions, devices, lvs, arrays, writecache>>

\* caching.apply, which bind, unbind and the boot script end with: an array
\* writes through if the FIRST pattern bound to one of its listed volumes
\* says so (find_by returns the first; snapshots are not looked at).
WriteThroughFound(s, vols, a) ==
    \E f \in vols :
        /\ ArrayOf[f] = a /\ Origin[f] = f
        /\ \E i \in BoundTo(s, f) :
              s[i].writethrough /\ \A j \in BoundTo(s, f) : i <= j

\* Mutant: write-through only if every volume of the array asks for it.
CachingApplied_all(s, vols) ==
    [a \in Arrays |-> \E f \in vols : ArrayOf[f] = a /\ ~WriteThroughFound(s, {f}, a)]

CachingApplied(s, vols) == [a \in Arrays |-> ~WriteThroughFound(s, vols, a)]

\* A drive that does not answer stops the loop over the arrays (pairs() has
\* no order): some of them keep the mode w they had.
CachingOutcomes(s, vols, w) ==
    LET new == CachingApplied(s, vols)
    IN  IF "writecache" \notin Faults THEN {new}
        ELSE {[a \in Arrays |-> IF a \in done THEN new[a] ELSE w[a]] : done \in SUBSET Arrays}

\* Mutant: LUN 0 is never compared.
LunBusy_nonzero(f, l) == l # 0 /\ \E i \in BoundTo(scst, f) : scst[i].lun = l

\* access_pattern_comparison_of_bind_luns
LunBusy(f, l) == \E i \in BoundTo(scst, f) : scst[i].lun = l

\* When Daemon.apply fails the binding is taken back and the rest applied
\* again; an error in that second apply is not caught.
scst_access_pattern_bind(b, name, f) ==
    /\ Shown(b) /\ name \in page[b].unbound /\ f \in page[b].volumes
    /\ IF \/ ~Found(scst, name)
          \/ LunBusy(f, name[2].lun)
          \/ name[2].lun # 0 /\ ~LunBusy(f, 0)
       THEN Refuse(b)
       ELSE LET p == [name[2] EXCEPT !.filename = f]
                s == save(scst, p)
            IN  /\ \/ /\ scst' = s
                      /\ kernel' \in Applied(s, devices, kernel)
                      /\ writecache' \in CachingOutcomes(s, listed, writecache)
                   \/ /\ scst' = save(s, Unbound(p))
                      /\ \E k \in ApplyRaised(s, devices, kernel) :
                            LET r == rem_target(k, Detached(p, devices, sessions \cap Targets(k)))
                            IN  kernel' \in Applied(scst', devices, r) \cup ApplyRaised(scst', devices, r)
                      /\ UNCHANGED writecache
                /\ sessions' = sessions \cap Targets(kernel')
                /\ Submitted(b)
                /\ UNCHANGED <<devices, lvs, arrays>>

\* The errors of Daemon.apply and caching.apply are reported and nothing
\* is taken back.  The first report closes the output while the handler
\* goes on, and the Web server ends a process that has closed its output:
\* the caching policy may not be reached.
scst_access_pattern_unbind(b, name) ==
    /\ Shown(b) /\ name \in page[b].unbind
    /\ IF ~Found(scst, name) THEN Refuse(b)
       ELSE LET s == save(scst, Unbound(name[2]))
                k == rem_target(kernel, Detached(name[2], devices, sessions))
            IN  /\ scst' = s
                /\ \/ /\ kernel' \in Applied(s, devices, k)
                      /\ writecache' \in CachingOutcomes(s, listed, writecache)
                   \/ /\ kernel' \in ApplyRaised(s, devices, k)
                      /\ writecache' \in CachingOutcomes(s, listed, writecache) \cup {writecache}
                /\ sessions' = sessions \cap Targets(kernel')
                /\ Submitted(b)
                /\ UNCHANGED <<devices, lvs, arrays>>

\* The volume is looked up in the page's data, its credentials in the store.
\* When Daemon.apply fails the error is reported and then the credential
\* taken back: the process may be ended before or after that.
scst_auth_credential_add(b, u, f) ==
    /\ Shown(b) /\ f \in page[b].volumes /\ Origin[f] = f
    /\ IF \E i \in Credentials(scst) : scst[i].username = u /\ scst[i].filename = f
       THEN Refuse(b)
       ELSE LET s == Append(scst, [type |-> "auth-credential", username |-> u, filename |-> f])
            IN  /\ \/ /\ scst' = s
                      /\ kernel' \in Applied(s, devices, kernel)
                   \/ /\ scst' = s
                      /\ kernel' \in ApplyRaised(s, devices, kernel)
                   \/ /\ scst' = delete_by_username_and_filename(s, u, f)
                      /\ \E k \in ApplyRaised(s, devices, kernel) :
                            kernel' \in {k} \cup Applied(scst', devices, k) \cup ApplyRaised(scst', devices, k)
                /\ sessions' = sessions \cap Targets(kernel')
                /\ Submitted(b)
                /\ UNCHANGED <<devices, lvs, arrays, writecache>>

\* Mutant: the credential is deleted and the configuration not applied.
scst_auth_credential_delete_unapplied(b, name) ==
    /\ Shown(b) /\ name \in page[b].credentials
    /\ IF ~Found(scst, name) THEN Refuse(b)
       ELSE /\ scst' = delete_by_username_and_filename(scst, name[2].username, name[2].filename)
            /\ Submitted(b)
            /\ UNCHANGED <<kernel, sessions, devices, lvs, arrays, writecache>>

scst_auth_credential_delete(b, name) ==
    /\ Shown(b) /\ name \in page[b].credentials
    /\ IF ~Found(scst, name) THEN Refuse(b)
       ELSE /\ scst' = delete_by_username_and_filename(scst, name[2].username, name[2].filename)
            /\ kernel' \in Applied(scst', devices, kernel) \cup ApplyRaised(scst', devices, kernel)
            /\ sessions' = sessions \cap Targets(kernel')
            /\ Submitted(b)
            /\ UNCHANGED <<devices, lvs, arrays, writecache>>

-----------------------------------------------------------------------------
(***************************************************************************)
(* The surroundings: volumes come and go, initiators connect, the box is   *)
(* rebooted.                                                               *)
(***************************************************************************)

\* lvm_logical_volume_add or _snapshot_add succeeded, as seen from here.
VolumeAdd(b, f) ==
    /\ Shown(b) /\ f \notin lvs /\ ArrayOf[f] \in arrays /\ Origin[f] \in lvs \cup {f}
    /\ lvs' = lvs \cup {f}
    /\ devices' = devices \cup {f}
    /\ Submitted(b)
    /\ UNCHANGED <<scst, kernel, sessions, arrays, writecache>>

InUse(f) == \E l \in kernel.luns : l.filename = f /\ l.iqn \in sessions

\* lvm_logical_volume_remove succeeded: LVM refuses a volume that is open,
\* and removes the snapshots of a volume with it.
VolumeRemove(b, f) ==
    LET gone == {g \in Files : g = f \/ Origin[g] = f}
    IN  /\ Shown(b) /\ f \in page[b].removable \cap listed
        /\ \A g \in gone : ~InUse(g)
        /\ lvs' = lvs \ gone
        /\ devices' = devices \ gone
        /\ Submitted(b)
        /\ UNCHANGED <<scst, kernel, sessions, arrays, writecache>>

\* lvm_logical_volume_resize or _snapshot_resize succeeded: both end with
\* Daemon.apply, so that initiators see the new size.
VolumeResize(b, f) ==
    /\ Shown(b) /\ f \in page[b].volumes \cap listed
    /\ kernel' \in Applied(scst, devices, kernel) \cup ApplyRaised(scst, devices, kernel)
    /\ sessions' = sessions \cap Targets(kernel')
    /\ Submitted(b)
    /\ UNCHANGED <<scst, devices, lvs, arrays, writecache>>

\* An array fails: LVM no longer finds its volume group, the device files
\* stay.
ArrayFails(a) ==
    /\ a \in arrays
    /\ arrays' = arrays \ {a}
    /\ UNCHANGED <<scst, kernel, sessions, devices, lvs, writecache, page>>

Connect(t) ==
    /\ t \in Targets(kernel) \ sessions
    /\ sessions' = sessions \cup {t}
    /\ UNCHANGED <<scst, kernel, devices, lvs, arrays, writecache, page>>

Disconnect(t) ==
    /\ t \in sessions
    /\ sessions' = sessions \ {t}
    /\ UNCHANGED <<scst, kernel, devices, lvs, arrays, writecache, page>>

\* Reboot and the boot script astor2.init: the volumes of the arrays that
\* could be assembled are activated, then caching.apply, then Daemon.apply.
\* The login sessions of the Web interface do not survive.
Reboot(found) ==
    /\ arrays' = found
    /\ devices' = {f \in lvs : ArrayOf[f] \in found}
    /\ \E w \in [Arrays -> BOOLEAN] : writecache' \in CachingOutcomes(scst, devices', w)
    /\ kernel' \in Applied(scst, devices', EmptyKernel) \cup ApplyRaised(scst, devices', EmptyKernel)
    /\ sessions' = {}
    /\ page' = [b \in Browsers |-> NoPage]
    /\ UNCHANGED <<scst, lvs>>

-----------------------------------------------------------------------------
Request(b) ==
    \/ PageLoad(b)
    \/ /\ Shown(b)
       /\ \/ InvalidForm(b)
          \/ \E n \in Names, l \in Luns, fl \in Flags : scst_access_pattern_new(b, n, l, fl)
          \/ \E name \in page[b].unbound :
                \/ scst_access_pattern_delete(b, name)
                \/ \E n \in Names, l \in Luns, fl \in Flags :
                       scst_access_pattern_edit(b, name, n, l, fl)
                \/ \E f \in page[b].volumes : scst_access_pattern_bind(b, name, f)
          \/ \E name \in page[b].unbind : scst_access_pattern_unbind(b, name)
          \/ \E u \in Users, f \in page[b].volumes : scst_auth_credential_add(b, u, f)
          \/ \E name \in page[b].credentials : scst_auth_credential_delete(b, name)
          \/ \E f \in Files : VolumeAdd(b, f) \/ VolumeRemove(b, f) \/ VolumeResize(b, f)

Surroundings ==
    \/ \E a \in Arrays : ArrayFails(a)
    \/ \E t \in Iqns : Connect(t) \/ Disconnect(t)
    \/ \E found \in SUBSET Arrays : Reboot(found)

Next == Surroundings \/ \E b \in Browsers : Request(b)

Spec == Init /\ [][Next]_vars

-----------------------------------------------------------------------------
(***************************************************************************)
(* Properties                                                              *)
(***************************************************************************)

\* No two access patterns have one name: delete_by_name, by which save,
\* bind, unbind and delete find the section they replace, hits one section
\* (san.lua's "Access pattern's name already exists").
UniqueNames == DistinctNames(scst)

\* No two access patterns give one volume the same LUN, whatever stale page
\* the buttons are pressed on ("This is LUN is busy, please choose another
\* one"): otherwise dump would silently write one over the other.
UniqueLuns == DistinctLuns(scst)

\* A volume with a bound pattern has a pattern bound as LUN 0: "SCST
\* subsystem requires LUN0 existence.  Now you are forced to use LUN0 for
\* the first binded AccessPattern.  Also you can not unbind LUN0 if other
\* LUNs exist." (wiki/Releases.wiki, 1.5.6)
Lun0First ==
    \A i \in Patterns(scst) :
        scst[i].filename # NoFile => \E j \in BoundTo(scst, scst[i].filename) : scst[j].lun = 0

\* Configuration.dump does not raise an error: if it did, every page would
\* fail to load (matrix.caller does not catch it) and no pattern could be
\* unbound any more.
Servable == ~DumpFails(scst, devices)

\* What the kernel serves of volumes there are: the snapshots of a volume
\* that is removed are served until Daemon.apply is next called.
Remaining(k) == rem_target(k, {Iqn[f] : f \in Files \ devices})

\* As soon as one pattern is enabled and bound, the kernel serves exactly
\* what the store describes, users included: no handler that changes the
\* exported patterns or their credentials forgets to apply them.
InSync ==
    Exportable(scst, devices) # {} => Remaining(kernel) = dump(scst, devices)

BoundPatterns(s) == {s[i] : i \in {j \in Patterns(s) : s[j].filename # NoFile}}

\* A step that changes the bound patterns is none that creates, edits or
\* deletes one, which do not call Daemon.apply, even from a page rendered
\* before it was bound (the section's name has changed since).
EditsKeepExports ==
    [][BoundPatterns(scst') # BoundPatterns(scst) =>
         ~\E b \in Browsers, n \in Names, l \in Luns, fl \in Flags :
            /\ Shown(b)
            /\ \/ scst_access_pattern_new(b, n, l, fl)
               \/ \E name \in page[b].unbound :
                     \/ scst_access_pattern_delete(b, name)
                     \/ scst_access_pattern_edit(b, name, n, l, fl)]_vars

\* No page is shown while a LUN on an array that has failed is served, but
\* when no pattern is exported any more: its patterns were unbound, their
\* sessions detached ("clean up possibly staying alive iSCSI sessions
\* linked to failed arrays", wiki/Releases.wiki, 1.5.4).
FailedArraysCleanedUp ==
    [][(\E l \in kernel'.luns : l.filename \notin listed) =>
         \A b \in Browsers :
            PageLoad(b) /\ page'[b] # NoPage => Exportable(scst', devices) = {}]_vars

\* An array one of whose volumes has a write-through pattern first in the
\* store never runs with its drives' write cache on: every handler that can
\* make a pattern the first one bound to a volume re-applies the policy.
FirstWriteThroughHonoured ==
    \A a \in Arrays : WriteThroughFound(scst, listed, a) => ~writecache[a]
=============================================================================
