-------------------------------- MODULE Scst --------------------------------
(***************************************************************************)
(* The library astor2/scst.lua: access patterns and authentication         *)
(* credentials kept in the UCI package "scst", the configuration           *)
(* Configuration.dump builds from them, and what scstadmin makes of it in  *)
(* the kernel's SCST target.  Only operators; module Iscsi has the state.  *)
(***************************************************************************)
EXTENDS Uci

CONSTANTS
    Names,      \* names of access patterns
    Luns,       \* logical unit numbers a form can submit (0 .. LUN_MAX)
    Files,      \* device files of logical volumes and snapshots
    NoFile,     \* the filename of an unbound pattern (nil)
    Users,      \* CHAP user names
    Iqns,       \* iSCSI target names
    Iqn,        \* Iqn[f]: the target name AccessPattern:iqn() makes of f
    Faults      \* which external commands may fail

ASSUME LunsAssumption == 0 \in Luns /\ Luns \subseteq Nat
ASSUME FilesAssumption == NoFile \notin Files
ASSUME IqnAssumption == Iqn \in [Files -> Iqns]
ASSUME FaultsAssumption == Faults \subseteq {"check", "scstadmin", "writecache"}

AccessPattern ==
    [type: {"access-pattern"}, name: Names, lun: Luns,
     filename: Files \cup {NoFile},
     enabled: BOOLEAN, readonly: BOOLEAN, writethrough: BOOLEAN]

AuthCredential ==
    [type: {"auth-credential"}, username: Users, filename: Files]

Section == AccessPattern \cup AuthCredential

\* The positions of the sections of each type (the two list() functions).
Patterns(s) == {i \in DOMAIN s : s[i].type = "access-pattern"}
Credentials(s) == {i \in DOMAIN s : s[i].type = "auth-credential"}

BoundTo(s, f) == {i \in Patterns(s) : s[i].filename = f}

\* The patterns of s have different names; those bound to one volume have
\* different LUNs.
DistinctNames(s) ==
    \A i, j \in Patterns(s) : s[i].name = s[j].name => i = j

DistinctLuns(s) ==
    \A i, j \in Patterns(s) :
        /\ s[i].filename = s[j].filename /\ s[i].filename # NoFile
        /\ s[i].lun = s[j].lun
        => i = j

-----------------------------------------------------------------------------
(***************************************************************************)
(* Saving and deleting sections                                            *)
(***************************************************************************)

delete_by_name(s, n) ==
    Kept(s, DOMAIN s \ {i \in Patterns(s) : s[i].name = n})

\* save() of an object that was read from the store: the old section goes,
\* by name, and a new one is appended.
save(s, p) == Append(delete_by_name(s, p.name), p)

delete_by_username_and_filename(s, u, f) ==
    Kept(s, DOMAIN s \ {i \in Credentials(s) : s[i].username = u /\ s[i].filename = f})

\* Mutant: the option is emptied, not left out.
Unbound_emptied(p) == [p EXCEPT !.filename = ""]

Unbound(p) == [p EXCEPT !.filename = NoFile]

-----------------------------------------------------------------------------
(***************************************************************************)
(* The kernel's target: the LUNs it serves and who may log in              *)
(***************************************************************************)
ExportedLun ==
    [iqn: Iqns, lun: Luns, filename: Files, readonly: BOOLEAN, writethrough: BOOLEAN]

Kernel == [luns: SUBSET ExportedLun, users: SUBSET (Iqns \X Users)]

EmptyKernel == [luns |-> {}, users |-> {}]

Targets(k) == {l.iqn : l \in k.luns}

\* scstadmin -rem_target, for each target in T.
rem_target(k, T) ==
    [luns |-> {l \in k.luns : l.iqn \notin T}, users |-> {u \in k.users : u[1] \notin T}]

\* is_binded: the pattern has a filename and that file exists.
is_binded(p, devices) == p.filename \in devices

\* The targets AccessPattern:unbind detaches: session:detach removes the
\* whole target, once for every session an initiator has with it.
Detached(p, devices, sessions) ==
    IF is_binded(p, devices) THEN {Iqn[p.filename]} \cap sessions ELSE {}

-----------------------------------------------------------------------------
(***************************************************************************)
(* Configuration.dump                                                      *)
(***************************************************************************)

\* "Collect only enabled and binded patterns".
Exportable(s, devices) ==
    {i \in Patterns(s) : s[i].enabled /\ is_binded(s[i], devices)}

SameTarget(p, q) == Iqn[p.filename] = Iqn[q.filename]

\* targets[target][lun]: of two patterns with one target and one LUN the
\* later one is written over the earlier.
TargetTable(s, devices) ==
    {i \in Exportable(s, devices) :
        \A j \in Exportable(s, devices) :
            SameTarget(s[i], s[j]) /\ s[i].lun = s[j].lun => j <= i}

\* luns["0"].filename is evaluated for every target: without an enabled
\* LUN 0 that is an index of nil, and dump raises an error.
DumpFails(s, devices) ==
    \E i \in Exportable(s, devices) :
        \A j \in Exportable(s, devices) : SameTarget(s[i], s[j]) => s[j].lun # 0

\* fileios[filename]: the last DEVICE written for a file stands for it.
DeviceOf(s, devices, f) ==
    CHOOSE i \in Exportable(s, devices) :
        /\ s[i].filename = f
        /\ \A j \in Exportable(s, devices) : s[j].filename = f => j <= i

dump(s, devices) ==
    LET T == TargetTable(s, devices)
    IN  [luns |->
            {[iqn |-> Iqn[s[i].filename], lun |-> s[i].lun,
              filename |-> s[i].filename, readonly |-> s[i].readonly,
              writethrough |-> s[DeviceOf(s, devices, s[i].filename)].writethrough] : i \in T},
         users |->
            UNION {{<<Iqn[s[i].filename], s[c].username>> :
                        c \in {d \in Credentials(s) : s[d].filename = s[i].filename}} :
                   i \in {j \in T : s[j].lun = 0}}]

-----------------------------------------------------------------------------
(***************************************************************************)
(* Daemon.apply: the states it can leave the kernel in, from state k.      *)
(***************************************************************************)

\* It returns: nothing is done when there is nothing to configure (the
\* configuration is ""), otherwise scstadmin -force -config makes the
\* kernel serve exactly the configuration.
Applied(s, devices, k) ==
    IF Exportable(s, devices) = {} THEN {k}
    ELSE IF DumpFails(s, devices) THEN {} ELSE {dump(s, devices)}

\* It raises an error: in dump, in check (scstadmin -check_config), or when
\* scstadmin -config stops half-way through the changes it has to make.
ApplyRaised(s, devices, k) ==
    IF DumpFails(s, devices) THEN {k}
    ELSE IF Exportable(s, devices) = {} THEN {}
    ELSE LET new == dump(s, devices)
             mixed == [luns: {on \in SUBSET (k.luns \cup new.luns) : k.luns \cap new.luns \subseteq on},
                       users: {who \in SUBSET (k.users \cup new.users) : k.users \cap new.users \subseteq who}]
         IN  {j \in {k} : "check" \in Faults} \cup {j \in mixed : "scstadmin" \in Faults}
=============================================================================
