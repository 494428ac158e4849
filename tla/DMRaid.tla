-------------------------------- MODULE DMRaid --------------------------------
(***************************************************************************)
(* BIOS RAID: the entries in /dev/mapper through which the partitions of   *)
(* dmraid arrays are reached, while operations change the partition tables *)
(* of the arrays and others mount what the entries name.                   *)
(*                                                                         *)
(* A partition has the place it occupies: its table knows where it is now, *)
(* an entry where it was when the entry was made.  The name of an array is *)
(* a sequence of tokens like the names of DiskProbe, so that one array's   *)
(* name can begin with another's.  The entry of an array itself is held    *)
(* open while its partitions' entries change, and is left out.             *)
(***************************************************************************)
EXTENDS DiskProbe, FiniteSets, FiniteSetsExt, Functions

CONSTANTS
    Setups      \* what is there when the program starts, see MCNames

VARIABLES
    setup,      \* one of Setups
    table,      \* array -> [primary, logicals]: the places of its partitions
    entries,    \* the entries [name, place] of /dev/mapper
    mounted,    \* those of them which are mounted
    shown,      \* what the last scan showed
    since,      \* since the last scan: "start" without one, "nothing", "mounts"
                \* or "operation"
    left,       \* history: entries which could not be removed
    places,     \* places used so far
    faults,     \* commands which may still fail
    steps       \* operations and mounts that may still happen

vars == <<setup, table, entries, mounted, shown, since, left, places, faults, steps>>

Arrays == Range(setup.arrays)

(***************************************************************************)
(* Partitions of an array: a primary one, and the logical ones, numbered   *)
(* from 5.  The extended partition has no entry.                           *)
(***************************************************************************)
FirstLogical == 5
MaxNumber == 9      \* bound: numbers of one digit
EmptyTable == [primary |-> 0, logicals |-> <<>>]

Number(n) == <<"1", "2", "3", "4", "5", "6", "7", "8", "9">>[n]
Partitions(t) ==
    (IF t.primary = 0 THEN {} ELSE {[num |-> 1, place |-> t.primary]})
        \union {[num |-> FirstLogical + i - 1, place |-> t.logicals[i]] : i \in DOMAIN t.logicals}
IsLogical(n) == n >= FirstLogical

PlainName(a, n) == Append(a, Number(n))
PName(a, n) == a \o <<"p", Number(n)>>

(***************************************************************************)
(* Which array a name belongs to, and which partition of it.               *)
(***************************************************************************)
\* The last array in dmraid's order whose name is part of this one
get_dmraid_name(name) ==
    LET at == SelectLastInSeq(setup.arrays, LAMBDA a : IsPrefix(a, name))
    IN  IF at = 0 THEN <<>> ELSE setup.arrays[at]

\* /dev/dm-<k> is one when udev can tell its name
is_dmraid_device(name) == get_dmraid_name(name) # <<>> \/ (name[1] = "dm-" /\ setup.udev)

get_dmraid_dir_entries(es, a) == {e \in es : IsPrefix(get_dmraid_name(a), e.name)}

\* The digits which follow the name of the array and a "p", as a number
get_partition_number(name) ==
    LET rest == SubSeq(name, Len(get_dmraid_name(name)) + 1, Len(name))
        after == IF rest # <<>> /\ Head(rest) = "p" THEN Tail(rest) ELSE rest
        end == SelectInSeq(after, LAMBDA c : c \notin Digits)
        digits == IF end = 0 THEN after ELSE SubSeq(after, 1, end - 1)
        Value(d) == IF d = "0" THEN 0 ELSE CHOOSE v \in 1..9 : d = Number(v)
    IN  FoldLeft(LAMBDA n, d : 10 * n + Value(d), 0, digits)

\* libparted's path of a partition, by setup.style: "plain", "p", or "dm" where
\* it is /dev/dm-<k>p<n>; udev knows the array of /dev/dm-<k>
LpPath(a, n) ==
    CASE setup.style = "plain" -> PlainName(a, n)
      [] setup.style = "p" -> PName(a, n)
      [] setup.style = "dm" -> <<"dm-", Number(IndexFirstSubSeq(<<a>>, setup.arrays)), "p", Number(n)>>

get_udev_dm_name(k) == setup.arrays[CHOOSE i \in DOMAIN setup.arrays : k = Number(i)]

make_path_dmraid_compatible(path) ==
    LET at == SelectInSeq(setup.arrays, LAMBDA a : IsPrefix(Append(a, "p"), path))
    IN  IF at # 0 THEN Append(setup.arrays[at], Last(path))
        ELSE IF path[1] = "dm-" THEN Append(get_udev_dm_name(path[2]), Last(path))
        ELSE path

get_partition_path(a, n) ==
    LET path == LpPath(a, n)
    IN  IF is_dmraid_device(path) THEN make_path_dmraid_compatible(path) ELSE path

(***************************************************************************)
(* Commands.  What a step does to the entries is a set of outcomes         *)
(* [entries, left, faults, ok], and steps are chained.                     *)
(***************************************************************************)
Unchanged == [entries |-> entries, left |-> left, faults |-> faults, ok |-> TRUE]

\* dmsetup remove: what is mounted stays, and a command may fail
Removed(out, names) ==
    LET victims == {e \in out.entries : e.name \in names}
        Outcome(kept) ==
            [entries |-> out.entries \ (victims \ kept),
             left |-> (out.left \ victims) \union kept,
             faults |-> out.faults - Cardinality(kept \ mounted),
             ok |-> out.ok /\ kept = {}]
    IN  {Outcome((victims \intersect mounted) \union bad) :
            bad \in {s \in SUBSET (victims \ mounted) : Cardinality(s) <= out.faults}}

\* dmraid -ay -P "": adds what is missing, for every array
create_dev_map_entries(out, tables) ==
    LET names == {e.name : e \in out.entries}
        wanted == UNION {{[name |-> PlainName(a, p.num), place |-> p.place] :
                            p \in Partitions(tables[a])} : a \in Arrays}
    IN  {[out EXCEPT !.entries = @ \union {e \in wanted : e.name \notin names}]}
            \union (IF out.faults = 0 THEN {}
                    ELSE {[out EXCEPT !.ok = FALSE, !.faults = @ - 1]})

Then(outs, Step(_)) == UNION {Step(out) : out \in outs}

NamesOf(es, a, Numbers(_)) ==
    {e.name : e \in {e \in get_dmraid_dir_entries(es, a) : Numbers(get_partition_number(e.name))}}

get_affected_dev_map_entries_OnlyIt(es, a, n) == NamesOf(es, a, LAMBDA m : m = n)

\* Deleting a logical partition renumbers those which follow
get_affected_dev_map_entries(es, a, n) == NamesOf(es, a, LAMBDA m : m = n \/ (IsLogical(n) /\ m > n))

get_partition_dev_map_entries(es, a, n) == NamesOf(es, a, LAMBDA m : m = n)

delete_affected_dev_map_entries(out, a, n) == Removed(out, get_affected_dev_map_entries(out.entries, a, n))
delete_dev_map_entry(out, a, n) == Removed(out, get_partition_dev_map_entries(out.entries, a, n))
purge_dev_map_entries(out, a) == Removed(out, {e.name : e \in get_dmraid_dir_entries(out.entries, a)})

update_dev_map_entry(out, a, n, tables) ==
    Then(delete_dev_map_entry(out, a, n), LAMBDA o : create_dev_map_entries(o, tables))

update_dmraid_entry(out, a, n, tables) ==
    IF is_dmraid_device(a) THEN update_dev_map_entry(out, a, n, tables) ELSE {out}

calculate_exact_geom(a, n) == update_dmraid_entry(Unchanged, a, n, table)

(***************************************************************************)
(* The start, and the scan.                                                *)
(***************************************************************************)
NotScanned == [arrays |-> <<>>, disks |-> <<>>]

Init ==
    /\ setup \in Setups
    /\ table = setup.table
    /\ entries = setup.entries
    /\ mounted = {} /\ left = {} /\ shown = NotScanned /\ since = "start"
    /\ places = setup.places /\ faults = setup.faults /\ steps = setup.steps

\* The kernel names of an array's members, which only udev tells
lookup_dmraid_members(a) == IF setup.udev THEN setup.members[a] ELSE {}
is_member(disk) == \E a \in Arrays : disk \in lookup_dmraid_members(a)
get_array(disk) == CHOOSE a \in Arrays : disk \in lookup_dmraid_members(a)

set_device_from_member(disk) ==
    [disktype |-> "none", parts |-> <<Part(disk, "ataraid")>>, readonly |-> FALSE, of |-> get_array(disk)]

ShownDisks ==
    LET probed == ProbedDisks(setup.disks, setup.user)
    IN  [d \in DOMAIN probed |-> IF is_member(d) THEN set_device_from_member(d) ELSE probed[d]]

\* All arrays, or those named on the command line
ShownArrays == {a \in Arrays : setup.user = {} \/ a \in setup.user}

IsMounted(name) == \E e \in mounted : e.name = name

\* Under either name a partition may have
is_busy_PlainOnly(a, n) == IsMounted(PlainName(a, n))
is_busy(a, n) == IsMounted(PlainName(a, n)) \/ IsMounted(PName(a, n))

set_mountpoints(a, n) ==
    IF IsMounted(PlainName(a, n)) THEN PlainName(a, n)
    ELSE IF IsMounted(PName(a, n)) THEN PName(a, n) ELSE <<>>

set_device_partitions(a) ==
    {[num |-> p.num, place |-> p.place, path |-> get_partition_path(a, p.num),
      busy |-> is_busy(a, p.num), mountpoint |-> set_mountpoints(a, p.num)] : p \in Partitions(table[a])}

highest_busy(a) == Max({0} \union {p.num : p \in {p \in shown.arrays[a] : p.busy}})

\* set_devices_thread(): entries which are missing are made before the scan,
\* once for every array that is shown
Scan ==
    /\ since # "nothing"
    /\ \E out \in IF ShownArrays = {} THEN {Unchanged}
                  ELSE create_dev_map_entries(Unchanged, table) :
        /\ entries' = out.entries /\ left' = out.left /\ faults' = out.faults
        /\ shown' = [arrays |-> [a \in ShownArrays |-> set_device_partitions(a)],
                     disks |-> ShownDisks]
    /\ since' = "nothing"
    /\ UNCHANGED <<setup, table, mounted, places, steps>>

(***************************************************************************)
(* Operations on a partition or an array that is shown.  A scan follows    *)
(* each; between two operations of one queue it would only add entries     *)
(* that the first one has failed to add, and then the second is not run.   *)
(***************************************************************************)
Takes(tables, out) ==
    /\ table' = tables
    /\ entries' = out.entries /\ left' = out.left /\ faults' = out.faults
    /\ since' = "operation"
    /\ UNCHANGED <<setup, mounted, shown>>

NewPlace == places + 1

create_partition(a) ==
    /\ places' = NewPlace
    /\ Len(table[a].logicals) <= MaxNumber - FirstLogical
    /\ \E tables \in {[table EXCEPT ![a].primary = IF @ = 0 THEN NewPlace ELSE @],
                      [table EXCEPT ![a].logicals = Append(@, NewPlace)]} \ {table} :
        \E out \in create_dev_map_entries(Unchanged, tables) : Takes(tables, out)

WithoutPartition(t, n) ==
    IF n = 1 THEN [t EXCEPT !.primary = 0]
    ELSE [t EXCEPT !.logicals = RemoveAt(@, n - FirstLogical + 1)]

\* activate_delete() refuses while a partition with a higher number is busy
delete_partition(a) ==
    \E p \in shown.arrays[a] :
        LET tables == [table EXCEPT ![a] = WithoutPartition(@, p.num)]
        IN  /\ ~p.busy /\ (IsLogical(p.num) => p.num >= highest_busy(a))
            /\ \E out \in Then(delete_affected_dev_map_entries(Unchanged, a, p.num),
                               LAMBDA o : create_dev_map_entries(o, tables)) : Takes(tables, out)
            /\ UNCHANGED places

Moved(t, n, place) ==
    IF n = 1 THEN [t EXCEPT !.primary = place]
    ELSE [t EXCEPT !.logicals[n - FirstLogical + 1] = place]

\* resize_move_partition(): calculate_exact_geom() renews the entry before the
\* table changes, and again after it; a step which fails ends the operation, and
\* some operations then put the partition back
resize_move_partition(a, rollback_on_fail) ==
    \E p \in Partitions(table[a]) :
        LET moved == [table EXCEPT ![a] = Moved(@, p.num, NewPlace)]
            Update(out, tables) == update_dmraid_entry(out, a, p.num, tables)
        IN  /\ places' = NewPlace
            /\ \E before \in calculate_exact_geom(a, p.num) :
                IF ~before.ok THEN Takes(table, before)
                ELSE \E after \in Update(before, moved) :
                        IF after.ok \/ ~rollback_on_fail THEN Takes(moved, after)
                        ELSE \E back \in Update(after, table) : Takes(table, back)

\* A new table: what the entries do does not count
set_disklabel(a) ==
    LET tables == [table EXCEPT ![a] = EmptyTable]
    IN  /\ \A p \in shown.arrays[a] : ~p.busy
        /\ \E out \in Then(purge_dev_map_entries(Unchanged, a),
                           LAMBDA o : create_dev_map_entries(o, tables)) : Takes(tables, out)
        /\ UNCHANGED places

Shown == since \in {"nothing", "mounts"} /\ steps > 0 /\ steps' = steps - 1

Operation ==
    /\ Shown
    /\ \E a \in DOMAIN shown.arrays :
            \/ create_partition(a)
            \/ delete_partition(a)
            \/ \E rollback_on_fail \in BOOLEAN : resize_move_partition(a, rollback_on_fail)
            \/ set_disklabel(a)

\* Somebody mounts or unmounts an entry which is where its partition is
OthersMount ==
    /\ Shown /\ since' = "mounts"
    /\ \E e \in entries \ left : mounted' \in {mounted \union {e}, mounted \ {e}} \ {mounted}
    /\ UNCHANGED <<setup, table, entries, shown, left, places, faults>>

Next == Scan \/ Operation \/ OthersMount
Spec == Init /\ [][Next]_vars

(***************************************************************************)
(* Properties.                                                             *)
(***************************************************************************)
\* The name, with the "p", of an entry of an array whose own name begins with that
\* of an array later in dmraid's order: it is taken for one of that array, and of a
\* number it does not have
Mistaken(name) ==
    \E a \in Arrays, n \in 1 .. MaxNumber :
        name = PName(a, n) /\ get_dmraid_name(name) # a /\ get_partition_number(name) # n

\* An entry is where the partition is whose number it bears, unless the entry
\* could not be removed when that partition was deleted, resized or renumbered, or
\* is mistaken for another array's, and so never looked for, because of its name;
\* and after a scan which made what was missing, every path that is shown for a
\* partition is such an entry (DMRaid::get_affected_dev_map_entries(),
\* update_dev_map_entry(), make_path_dmraid_compatible()).
PathsAreTrue ==
    /\ \A e \in entries \ left : Mistaken(e.name) \/ \E a \in Arrays : \E p \in Partitions(table[a]) :
            e.name \in {PlainName(a, p.num), PName(a, p.num)} /\ e.place = p.place
    /\ since = "nothing" /\ faults = setup.faults =>
            \A a \in DOMAIN shown.arrays : \A p \in shown.arrays[a] :
                \E e \in entries : e.name = p.path /\ (e.place = p.place \/ e \in left)

\* A partition is shown busy, with what is mounted of it, when it is mounted by
\* either of the names dmraid gives it, and only then (GParted_Core.cc:829-841),
\* unless what is mounted is an entry left behind, mistaken or not removed.
MountsAreShown ==
    since = "nothing" =>
        \A a \in DOMAIN shown.arrays : \A p \in shown.arrays[a] :
            LET here == {e.name : e \in {e \in mounted \ left : e.place = p.place /\ ~Mistaken(e.name)}}
            IN  /\ here # {} => p.busy /\ p.mountpoint # <<>>
                /\ p.busy /\ left = {} => p.mountpoint \in here \/ Mistaken(p.mountpoint)

\* A disk which is in a ZFS pool as a whole, and so is another whose name only
\* begins with its name: that one is taken for a partition of it, as the character
\* behind the name is not looked at, and the work-around makes it a blank disk
TakenApart(d) ==
    /\ d.content = "filesystem" /\ d.type = ZFS
    /\ \E o \in Range(setup.disks) :
        o.name # d.name /\ is_partition_of_device(o.name, d.name) /\ o.type = ZFS /\ o.uuid = d.uuid

\* Every disk which can be read is shown once, as what it is: its partitions, its
\* file system or nothing, or a member of an array; whatever the names of the
\* other disks are, except in the same ZFS pool (GParted_Core::set_device_from_disk(), Proc_Partitions_Info,
\* the ZFS work-around of FS_Info.cc:300-340).
DisksAreShown ==
    shown # NotScanned =>
        \A d \in Range(setup.disks) :
            IF ~d.readable \/ (setup.user # {} /\ d.name \notin setup.user)
            THEN d.name \notin DOMAIN shown.disks
            ELSE /\ d.name \in DOMAIN shown.disks
                 /\ \A a \in Arrays : d.name \in setup.members[a] /\ setup.udev =>
                        shown.disks[d.name].of = a
                 /\ (\A a \in Arrays : d.name \notin setup.members[a]) =>
                        \/ TakenApart(d) /\ shown.disks[d.name].disktype = "unrecognized"
                        \/ shown.disks[d.name] = TrueDisk(d)

\* Nothing on a disk or in an array is hidden from the user by another's name:
\* each is shown as what it is, and what is mounted of it, but for the two names
\* which are mistaken for another's, Mistaken() and TakenApart().
NothingHidden == MountsAreShown /\ DisksAreShown
=============================================================================
