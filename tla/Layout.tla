------------------------------- MODULE Layout -------------------------------
(***************************************************************************)
(* overall() of controller/matrix.lua: the table of the page admin/san.    *)
(* Each array gets a block of lines; the cells of its drives, its volumes, *)
(* their access patterns and their sessions start at lines of that block   *)
(* and span a number of them.  The page's filters and the view reach a     *)
(* cell only through ipairs( lines ), so a cell that is not at a line, and *)
(* its buttons, do not exist.                                              *)
(***************************************************************************)
EXTENDS Naturals, Sequences, FiniteSetsExt, SequencesExt

CONSTANTS
    Drives,       \* numbers of the drives in the enclosure
    MaxRaidDisks, \* bound: drives an array is made of
    MaxVolumes,   \* bound: volumes and snapshots of an array
    Volumes,      \* what can be bound to a volume: the sessions of each pattern
    Unbound,      \* how many patterns are not bound
    Arrays,       \* how many arrays there are
    MaxDegraded   \* bound: arrays that miss a drive

ASSUME DrivesAssumption == Drives \subseteq 1..99
ASSUME VolumesAssumption == Volumes \subseteq Seq(Nat)
ASSUME BoundsAssumption ==
    /\ MaxRaidDisks \in Nat /\ MaxVolumes \in Nat /\ Arrays \in Nat /\ MaxDegraded \in Nat
    /\ Unbound \subseteq Nat

\* Logical:physical_list adds one id "99:i" for the i-th drive, a missing one.
Slot(i) == 100 + i

\* An array: its members (md slaves), how many it should have, an SSD that
\* caches it, its volumes.
Array ==
    {a \in [slaves: SUBSET Drives, raid_disks: 1..MaxRaidDisks, cached_by: SUBSET Drives,
            logical_volumes: UNION {[1..k -> Volumes] : k \in 0..MaxVolumes}] :
        /\ a.slaves # {} /\ Cardinality(a.slaves) <= a.raid_disks
        /\ Cardinality(a.cached_by) <= 1 /\ a.cached_by \cap a.slaves = {}}

\* The drives an array holds.
Members(a) == a.slaves \cup a.cached_by

Degraded(a) == Cardinality(a.slaves) < a.raid_disks

VARIABLES
    logicals,     \* the arrays, in the order of their numbers
    access_patterns, \* how many patterns are not bound
    done,         \* how many arrays have been laid out
    current_line,
    cells         \* what the lines of the matrix hold

vars == <<logicals, access_patterns, done, current_line, cells>>

\* Drives are numbered array by array, members before the SSD, free ones
\* last: which numbers they have makes no difference to the table.
InOrder(ls) ==
    /\ \A i, j \in DOMAIN ls : i < j => \A d \in Members(ls[i]), e \in Members(ls[j]) : d < e
    /\ \A i \in DOMAIN ls : \A d \in ls[i].slaves, e \in ls[i].cached_by : d < e
    /\ LET used == UNION {Members(ls[i]) : i \in DOMAIN ls} IN \A d \in used : 1..d \subseteq used

Init ==
    /\ logicals \in {ls \in [1..Arrays -> Array] :
                        /\ InOrder(ls)
                        /\ Cardinality({i \in 1..Arrays : Degraded(ls[i])}) <= MaxDegraded}
    /\ access_patterns \in Unbound
    /\ done = 0 /\ current_line = 1 /\ cells = {}

-----------------------------------------------------------------------------
(***************************************************************************)
(* Quantities                                                              *)
(***************************************************************************)
gcd[p \in Nat \X Nat] == IF p[2] = 0 THEN p[1] ELSE gcd[<<p[2], p[1] % p[2]>>]

\* Mutant: the product.
lcm_product(x, y) == x * y

lcm(x, y) == IF x = 0 /\ y = 0 THEN 0 ELSE (x * y) \div gcd[<<x, y>>]

\* The LCM of base and those of the numbers s that are not 0.
lcm_of(s, base) ==
    LET max[k \in 0..Len(s)] ==
            IF k = 0 THEN base
            ELSE IF s[k] = 0 THEN max[k - 1] ELSE lcm(s[k], max[k - 1])
    IN  max[Len(s)]

\* logical.physicals: Logical:physical_list, and the cached_by drive.
physicals(a) ==
    Members(a) \cup {Slot(i) : i \in (Cardinality(a.slaves) + 1)..a.raid_disks}

\* Over the volumes that have patterns.
access_patterns_quantity_max(vs) == lcm_of([i \in DOMAIN vs |-> Len(vs[i])], 1)

\* Over the patterns of each volume that have sessions.
sessions_quantity_max(vs) ==
    LET max[k \in 0..Len(vs)] == IF k = 0 THEN 1 ELSE lcm_of(vs[k], max[k - 1])
    IN  max[Len(vs)]

\* Mutant: the largest number of patterns is taken for the LCM of them all.
lines_quantity_max(a) ==
    LET vs == a.logical_volumes
    IN  IF vs = <<>> THEN Cardinality(physicals(a))
        ELSE lcm(Cardinality(physicals(a)),
                 Len(vs) * Max({Len(vs[i]) : i \in DOMAIN vs} \cup {1}) * sessions_quantity_max(vs))

\* Mutant: the SSD is not counted among the drives.
lines_quantity_uncached(a) ==
    LET vs == a.logical_volumes
        drives == Cardinality(physicals(a) \ a.cached_by)
    IN  IF vs = <<>> THEN drives
        ELSE lcm(drives, Len(vs) * access_patterns_quantity_max(vs) * sessions_quantity_max(vs))

\* "LCM( PVs, APs*LVs*Ss )"
lines_quantity(a) ==
    LET vs == a.logical_volumes
    IN  IF vs = <<>> THEN Cardinality(physicals(a))
        ELSE lcm(Cardinality(physicals(a)),
                 Len(vs) * access_patterns_quantity_max(vs) * sessions_quantity_max(vs))

-----------------------------------------------------------------------------
(***************************************************************************)
(* Cells.  Objects: drive d is <<0, d>>, the unbound pattern p <<0, 0, p>>, *)
(* array l <<l>>, its volumes <<l, v>>, their patterns <<l, v, p>> and the *)
(* sessions of those <<l, v, p, s>>.                                       *)
(***************************************************************************)

\* Cells for the objects, one after the other, that divide the lines from
\* first on.
Column(column, objects, first, lines) ==
    LET span == lines \div Len(objects)
    IN  {[column |-> column, object |-> objects[i], line |-> first + (i - 1) * span,
          rowspan |-> span] : i \in DOMAIN objects}

\* The cells of the children of c, n of them.
Divide(c, column, n) ==
    Column(column, [i \in 1..n |-> Append(c.object, i)], c.line, c.rowspan)

\* Physical.sort: by state and number, an order the lines do not depend on.
Sorted(ids) ==
    LET sorted == SetToSeq(ids) IN [i \in DOMAIN sorted |-> <<0, sorted[i]>>]

Block(l, a, first) ==
    LET vs == a.logical_volumes
        lines == lines_quantity(a)
        logical == Column("logical", <<<<l>>>>, first, lines)
        volumes == UNION {Divide(c, "logical_volume", Len(vs)) : c \in logical}
        bound == UNION {Divide(c, "access_pattern", Len(vs[c.object[2]])) : c \in volumes}
    IN  logical \cup volumes \cup bound
        \cup Column("physical", Sorted(physicals(a)), first, lines)
        \cup UNION {Divide(c, "session", vs[c.object[2]][c.object[3]]) : c \in bound}

\* Cells show objects, and the rowspan is kept in the object: an object that
\* is shown again takes its new rowspan to where it was shown before.
Shown(old, new) ==
    {IF \E n \in new : n.object = c.object
     THEN [c EXCEPT !.rowspan = (CHOOSE n \in new : n.object = c.object).rowspan]
     ELSE c : c \in old} \cup new

\* One pass of the loop over the arrays.
LayLogical ==
    LET l == done + 1
    IN  /\ done < Len(logicals)
        /\ cells' = Shown(cells, Block(l, logicals[l], current_line))
        /\ current_line' = current_line + lines_quantity(logicals[l])
        /\ done' = l
        /\ UNCHANGED <<logicals, access_patterns>>

physicals_free == Drives \ UNION {physicals(logicals[i]) : i \in DOMAIN logicals}

\* After the arrays the free drives and, from the same line on, the patterns
\* that are not bound, one to a line.
LayRest ==
    LET drives == Sorted(physicals_free)
        unbound == [i \in 1..access_patterns |-> <<0, 0, i>>]
    IN  /\ done = Len(logicals)
        /\ cells' = Shown(cells, Column("physical", drives, current_line, Len(drives))
                                \cup Column("access_pattern", unbound, current_line, Len(unbound)))
        /\ done' = done + 1
        /\ UNCHANGED <<logicals, access_patterns, current_line>>

Next == LayLogical \/ LayRest

Spec == Init /\ [][Next]_vars

-----------------------------------------------------------------------------
(***************************************************************************)
(* Properties                                                              *)
(***************************************************************************)
Lines(c) == c.line..(c.line + c.rowspan - 1)

\* The cells C cover the given lines, each of them once.
Tile(C, lines) ==
    /\ UNION {Lines(c) : c \in C} = lines
    /\ \A c, d \in C : c # d => Lines(c) \cap Lines(d) = {}

In(column) == {c \in cells : c.column = column}

Children(c) == {d \in cells : Front(d.object) = c.object}

\* Every cell with parts is divided by them "without reminder" (the comment
\* in overall): the volumes tile the lines of their array, the patterns
\* those of their volume, the sessions those of their pattern, all on whole
\* lines, and the arrays tile the table down to the free drives.
Divisible ==
    /\ Tile(In("logical"), 1..(current_line - 1))
    /\ \A c \in cells : c.object[1] # 0 /\ Children(c) # {} => Tile(Children(c), Lines(c))

\* Beside each array there are drives from its first line to its last,
\* without gap or overlap, and none of them reaches beyond it.
DrivesBesideArrays ==
    \A c \in In("logical") :
        Tile({d \in In("physical") : Lines(d) \cap Lines(c) # {}}, Lines(c))

\* n is the least common multiple of the numbers in K.
Multiple(K, n) == \A k \in K : n % k = 0
Least(K, n) == Multiple(K, n) /\ \A m \in 1..(n - 1) : ~Multiple(K, m)

\* The number of lines of an array is the least that its drives and its
\* sessions (LVs * APs * Ss) both divide.
LeastLines ==
    \A i \in DOMAIN logicals :
        LET a == logicals[i]
            vs == a.logical_volumes
            lines == lines_quantity(a)
            patterns == {Len(vs[v]) : v \in DOMAIN vs} \ {0}
            sessions == (UNION {Range(vs[v]) : v \in DOMAIN vs}) \ {0}
        IN  vs # <<>> =>
              \E aps, ss \in 1..lines :
                  /\ Least(patterns, aps) /\ Least(sessions, ss)
                  /\ Least({Cardinality(physicals(a)), Len(vs) * aps * ss}, lines)
=============================================================================
