------------------------------- MODULE MCNames -------------------------------
EXTENDS DMRaid

Raid1 == <<"Raid", "1">>
Raid10 == <<"Raid", "1", "0">>
Volume == <<"Volume">>

Table(primary, logicals) == [primary |-> primary, logicals |-> logicals]
Entry(name, place) == [name |-> name, place |-> place]

(* Names of disks and partitions. *)
sda == <<"sd", "a">>    \* "sd" and "a": one more letter makes another disk
sdaa == <<"sd", "a", "a">>
sdb == <<"sd", "b">>
sdc == <<"sd", "c">>
nvme == <<"nvme", "0", "n", "1">>
nbd1 == <<"nbd", "1">>
nbd10 == <<"nbd", "1", "0">>

Disk(name, content, type, uuid, parts) ==
    [name |-> name, readable |-> TRUE, content |-> content, type |-> type, uuid |-> uuid,
     parts |-> parts, busy |-> FALSE, refuses |-> FALSE]
P(name, type, uuid) == [name |-> name, type |-> type, uuid |-> uuid]

\* A disk whose partition is in a ZFS pool, which blkid has also said of the disk
Plain == Disk(sda, "partitioned", Nothing, 0, <<P(Append(sda, "1"), "ext4", 1), P(Append(sda, "2"), Nothing, 0)>>)
PoolPart == Disk(sda, "partitioned", "zfs_member", 7, <<P(Append(sda, "1"), "zfs_member", 7)>>)
PoolNvme == Disk(nvme, "partitioned", "zfs_member", 8, <<P(nvme \o <<"p", "1">>, "zfs_member", 8)>>)
Whole(name, uuid) == Disk(name, "filesystem", "zfs_member", uuid, <<>>)
Bare(name) == Disk(name, "blank", Nothing, 0, <<>>)
Loop(name) == Disk(name, "loop", Nothing, 0, <<>>)
Held == [Plain EXCEPT !.busy = TRUE, !.refuses = TRUE]
Unreadable == [Bare(sdc) EXCEPT !.readable = FALSE]

DiskSets ==
    {<<Plain, Whole(sdb, 9), Unreadable>>, <<PoolPart, Bare(sdaa), Whole(sdb, 7)>>,
     <<Whole(sda, 7), Whole(sdaa, 7), Bare(sdb)>>, <<Whole(sda, 7), Whole(sdaa, 8)>>,
     <<PoolNvme, Loop(nbd1), Bare(nbd10), Held>>, <<Whole(sdb, 9), Held, Whole(nbd1, 9)>>}

(* Two arrays; the first has a primary partition, each has logical ones. *)
TableOf(i) == IF i = 1 THEN Table(1, <<2, 3>>) ELSE Table(0, <<4, 5>>)
Made(arrays) ==
    UNION {{Entry(PName(arrays[i], p.num), p.place) : p \in Partitions(TableOf(i))} : i \in DOMAIN arrays}
Setup(arrays, style, disks) ==
    [arrays |-> arrays, table |-> [a \in Range(arrays) |-> TableOf(IndexFirstSubSeq(<<a>>, arrays))],
     entries |-> {}, style |-> style, udev |-> FALSE, members |-> [a \in Range(arrays) |-> {}],
     disks |-> disks, user |-> {}, places |-> 5, faults |-> 0, steps |-> 3]

(* With the entries which the start of the system has made, with the "p". *)
SomeDisks == CHOOSE d \in DiskSets : TRUE
Neighbours ==
    {[Setup(arrays, style, SomeDisks) EXCEPT
        !.entries = Made(arrays), !.udev = style = "dm"] :
        arrays \in {<<Raid1, Raid10>>, <<Raid10, Raid1>>}, style \in {"plain", "p", "dm"}}
Failing ==
    {[Setup(<<Volume>>, "p", SomeDisks) EXCEPT
        !.entries = Made(<<Volume>>), !.faults = f, !.steps = 4] : f \in {0, 1}}
Disks == {[Setup(<<Volume>>, "plain", d) EXCEPT !.steps = 0] : d \in DiskSets}
Members ==
    {[Setup(<<Volume>>, "plain", <<Bare(sdb), Bare(sdc), Plain>>) EXCEPT
        !.udev = udev, !.members[Volume] = {sdb, sdc}, !.user = user, !.steps = 0] :
        udev \in BOOLEAN, user \in {{}, {Volume, sdb}, {sda}}}

AllSetups == Neighbours \union Failing \union Disks \union Members
==============================================================================
