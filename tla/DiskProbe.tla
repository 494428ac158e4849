------------------------------ MODULE DiskProbe ------------------------------
(***************************************************************************)
(* Which disks there are, which partitions are theirs, and what kind of    *)
(* disk each is: Proc_Partitions_Info, the part of FS_Info that deals with *)
(* whole disks, and GParted_Core::set_device_from_disk().                  *)
(*                                                                         *)
(* A name is the sequence of what the tests on names tell apart: letters   *)
(* which belong together, and single digits.  A disk is a record           *)
(*   name      its name                                                    *)
(*   readable  its first sector can be read                                *)
(*   content   "partitioned", "filesystem", "loop" or "blank"              *)
(*   type      what blkid says of the whole disk, and its UUID             *)
(*   parts     the partitions [name, type, uuid], in the kernel's order    *)
(*   busy      one of them is in use                                       *)
(*   refuses   the kernel refuses to re-read its partition table           *)
(***************************************************************************)
EXTENDS Naturals, Sequences, SequencesExt

Nothing == "none"
Digits == {"0", "1", "2", "3", "4", "5", "6", "7", "8", "9"}
AllDigits(name) == Range(name) \subseteq Digits

(***************************************************************************)
(* Names.                                                                  *)
(***************************************************************************)
NumberedStems == {"md", "mmcblk", "bcache", "nbd"}

\* stem digits infix digits: nvme0n1, cciss/c0d0
HasTwoNumbers(name) ==
    \E i \in 3..(Len(name) - 1) :
        /\ <<name[1], name[i]>> \in {<<"nvme", "n">>, <<"cciss/c", "d">>}
        /\ AllDigits(SubSeq(name, 2, i - 1)) /\ AllDigits(SubSeq(name, i + 1, Len(name)))

is_whole_disk_device_name(name) ==
    \/ Range(name) \intersect Digits = {}
    \/ name[1] \in NumberedStems /\ Len(name) > 1 /\ AllDigits(Tail(name))
    \/ HasTwoNumbers(name)

\* The first character after the name and the "p" is never looked at
is_partition_of_device(part, dev) ==
    LET rest == SubSeq(part, Len(dev) + 1, Len(part))
        number == IF rest # <<>> /\ Head(rest) = "p" THEN Tail(rest) ELSE rest
    IN  /\ IsPrefix(dev, part)
        /\ number # <<>> /\ AllDigits(Tail(number))

(***************************************************************************)
(* /proc/partitions: every disk, followed by its partitions.               *)
(***************************************************************************)
ProcPartitions(disks) ==
    FlattenSeq([i \in DOMAIN disks |->
        <<disks[i].name>> \o [j \in DOMAIN disks[i].parts |-> disks[i].parts[j].name]])

get_device_paths(proc) == SelectSeq(proc, is_whole_disk_device_name)

\* Up to the first entry which is not a partition of the device
get_partition_paths_for(proc, dev) ==
    LET at == SelectInSeq(proc, LAMBDA name : name = dev)
        after == SubSeq(proc, at + 1, Len(proc))
        end == SelectInSeq(after, LAMBDA name : ~is_partition_of_device(name, dev))
    IN  IF at = 0 THEN <<>>
        ELSE IF end = 0 THEN after ELSE SubSeq(after, 1, end - 1)

get_device_and_partition_names_for(proc, devices) ==
    [d \in devices |-> get_partition_paths_for(proc, d)]

(***************************************************************************)
(* The disks to show.                                                      *)
(***************************************************************************)
DiskNamed(disks, name) == CHOOSE d \in Range(disks) : d.name = name
useable_device(disks, name) ==
    \E d \in Range(disks) : d.name = name /\ d.readable

\* Those found, or those named on the command line, each of them once
device_paths(disks, user) ==
    LET named == IF user = {} THEN Range(get_device_paths(ProcPartitions(disks))) ELSE user
    IN  {name \in named : useable_device(disks, name)}

(***************************************************************************)
(* What blkid finds: a function from names to [type, uuid].                *)
(***************************************************************************)
NoEntry == [type |-> Nothing, uuid |-> 0]
Blkid(disks, name) ==
    LET all == Range(disks) \union UNION {Range(d.parts) : d \in Range(disks)}
        known == {x \in all : x.name = name /\ x.type # Nothing}
    IN  IF known = {} THEN NoEntry
        ELSE LET x == CHOOSE x \in known : TRUE IN [type |-> x.type, uuid |-> x.uuid]

run_blkid_load_cache(disks, names) == [n \in names |-> Blkid(disks, n)]

\* blkid has said ZFS of a whole disk when only one of its partitions has it
ZFS == "zfs_member"
ClearedZFS(entries, parts) ==
    [n \in DOMAIN entries |->
        IF /\ n \in DOMAIN parts /\ entries[n].type = ZFS
           /\ \E p \in Range(parts[n]) : entries[p] = entries[n]
        THEN NoEntry ELSE entries[n]]

load_cache_for_device_and_partition_names(disks, devices) ==
    LET parts == get_device_and_partition_names_for(ProcPartitions(disks), devices)
        names == devices \union UNION {Range(parts[d]) : d \in devices}
    IN  ClearedZFS(run_blkid_load_cache(disks, names), parts)

TypeIn(entries, name) == IF name \in DOMAIN entries THEN entries[name].type ELSE Nothing

(***************************************************************************)
(* The four kinds of disks.                                                *)
(***************************************************************************)
DiskShown(disktype, parts, readonly) ==
    [disktype |-> disktype, parts |-> parts, readonly |-> readonly]
Part(name, type) == [name |-> name, type |-> type]

\* ped_disk_new() knows the label; libparted knows "ext4" on a partition, and a
\* file system on a whole disk is its label "loop"
get_disk(disk) == disk.content \in {"partitioned", "loop"} \/ disk.type = "ext4"

commit_to_os(disk) == ~disk.refuses

set_device_from_disk(disk, entries) ==
    LET whole == TypeIn(entries, disk.name)
        TypeOf(p) == IF TypeIn(entries, p.name) # Nothing THEN TypeIn(entries, p.name)
                     ELSE IF p.type = "ext4" THEN "ext4" ELSE "unknown"
    IN  IF whole # Nothing THEN DiskShown("none", <<Part(disk.name, whole)>>, FALSE)
        ELSE IF ~get_disk(disk)
             THEN DiskShown("unrecognized", <<Part(Nothing, "unallocated")>>, FALSE)
        ELSE IF disk.content # "partitioned"
             THEN DiskShown("loop", <<Part(disk.name, "unknown")>>, FALSE)
        ELSE DiskShown("msdos", [i \in DOMAIN disk.parts |->
                                    Part(disk.parts[i].name, TypeOf(disk.parts[i]))],
                       disk.busy /\ ~commit_to_os(disk))

ProbedDisks(disks, user) ==
    LET devices == device_paths(disks, user)
        entries == load_cache_for_device_and_partition_names(disks, devices)
    IN  [name \in devices |-> set_device_from_disk(DiskNamed(disks, name), entries)]

(***************************************************************************)
(* What should be shown.                                                   *)
(***************************************************************************)
TrueDisk(disk) ==
    CASE disk.content = "partitioned" ->
            DiskShown("msdos", [i \in DOMAIN disk.parts |->
                        Part(disk.parts[i].name, IF disk.parts[i].type = Nothing THEN "unknown"
                                                 ELSE disk.parts[i].type)],
                      disk.busy /\ disk.refuses)
      [] disk.content = "filesystem" -> DiskShown("none", <<Part(disk.name, disk.type)>>, FALSE)
      [] disk.content = "loop" -> DiskShown("loop", <<Part(disk.name, "unknown")>>, FALSE)
      [] OTHER -> DiskShown("unrecognized", <<Part(Nothing, "unallocated")>>, FALSE)
=============================================================================
