---------------------------- MODULE MCAdbBackend ----------------------------
EXTENDS AdbBackend, TLC

Ext4 == Holds("ext4", "ext4", "ext4", "ext4")
F2fs == Holds("f2fs", "", "f2fs", "f2fs")
Vfat == Holds("fat32", "fat32", "vfat", "vfat")
Exfat == Holds("exfat", "", "exfat", "fuseblk")

At(start, end, holds) == [start |-> start, end |-> end, holds |-> holds]

Node(kind, digit, p) == [kind |-> kind, digit |-> digit, p |-> p]

\* sda, sda1, loop0, dm-0 and mmcblk0, mmcblk0p1, zram0
PlainNodes == {Node("sd", FALSE, FALSE), Node("sd", TRUE, FALSE),
               Node("loop", TRUE, FALSE), Node("dm-", TRUE, FALSE)}
CardNodes == {Node("mmcblk", TRUE, FALSE), Node("mmcblk", TRUE, TRUE), Node("zram", TRUE, FALSE)}

Two == 1 :> At(1, 2, Ext4) @@ 2 :> At(4, 4, F2fs)
Apart == 2 :> At(1, 1, Vfat) @@ 3 :> At(3, 4, Exfat)

Bounds(ops, plugs, refusals, mounts, scans) ==
    [queue |-> ops, plugs |-> plugs, refusals |-> refusals, mounts |-> mounts, scans |-> scans]

Phone(t, plain, listing, blkid, modes, max) ==
    [table |-> t, plain |-> plain, listing |-> listing, blkid |-> blkid, modes |-> modes,
     nodes |-> IF plain THEN PlainNodes ELSE CardNodes,
     disk |-> IF plain THEN Node("sd", FALSE, FALSE) ELSE Node("mmcblk", TRUE, FALSE),
     max |-> max]

\* Scans of every phone, with a cable pulled, mounts and new tables
Scanned ==
    {Phone(t, TRUE, listing, blkid, {"su", "root"}, Bounds(0, 1, 0, 1, 2)) :
        t \in {Two, Apart}, listing \in {"proc", "mount"}, blkid \in BOOLEAN}
    \union {Phone(t, FALSE, "both", TRUE, {"root", "none"}, Bounds(0, 1, 0, 1, 2)) : t \in {Two, <<>>}}

\* Two operations with a refusal, and one with a pulled cable
Applied ==
    {Phone(t, TRUE, "both", TRUE, {"root"}, b) :
        t \in {Two, Apart}, b \in {Bounds(2, 0, 1, 0, 2), Bounds(1, 1, 1, 0, 2)}}

MCPhones == Scanned \union Applied

-----------------------------------------------------------------------------
(* The text parted prints of the phone's disk and of others                *)

Text == INSTANCE PartedText

Printed(path, size, label, parts) ==
    [path |-> path, model |-> path, length |-> size, sector_size |-> 512, table |-> label, parts |-> parts]

Entry(n, part) ==
    [start |-> part.start, end |-> part.end, fs |-> part.holds.parted,
     name |-> IF n = 1 THEN "boot" ELSE "", flags |-> IF n = 2 THEN {"msftdata"} ELSE {}]
PhoneDisk == Printed("sda", Length, "gpt", [n \in DOMAIN table |-> Entry(n, table[n])])

Card == Printed("mmcblk0", 7, "gpt", 1 :> Entry(1, At(0, 2, Vfat)) @@ 2 :> Entry(2, At(3, 4, F2fs)))
Stick == Printed("sdaa", 3, "gpt", <<>>)
NewStick == Printed("sdb", 9, "unknown", <<>>)
Listings == {<<PhoneDisk>>, <<Card, PhoneDisk>>, <<PhoneDisk, Card, Stick>>,
             <<NewStick, PhoneDisk>>, <<Stick, PhoneDisk, NewStick, Card>>}

\* What parted prints of several disks is cut apart again where one ends and the
\* next begins: whatever disks are listed before and behind it, with a partition
\* table or without, each is read with its own size and its own partitions, and
\* the phone's are those the scan works with (parse_device_paths(),
\* extract_device_output(), parse_partitions()).  Asked of every table there is
\* between two scans, before anything is queued.
TextIsTrue == at = "idle" /\ answered /\ queue = <<>> /\ mounted = {} =>
    /\ \A disks \in Listings : Text!ReadAsPrinted(disks)
    /\ LET parts == Text!read_device(Text!print_all(<<PhoneDisk, Card>>), "sda").parts
       IN  [n \in DOMAIN parts |-> <<parts[n].start, parts[n].end, parse_fs_type(parts[n].fs)>>]
           = [n \in DOMAIN parse_partitions(table) |->
                LET p == parse_partitions(table)[n] IN <<p.start, p.end, p.type>>]
=============================================================================
