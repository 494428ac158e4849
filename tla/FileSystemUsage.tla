--------------------------- MODULE FileSystemUsage ---------------------------
(***************************************************************************)
(* How full a file system is: the figures set_used_sectors() of each       *)
(* driver takes from what a program prints, what Partition makes of them   *)
(* (PartitionLUKS for an open encryption with a file system of its own),   *)
(* how small a dialog lets the partition become for it, and how the        *)
(* figures are carried through resizes and pastes that are only queued.    *)
(***************************************************************************)
EXTENDS FileSystemSupport

CONSTANTS
    MEBIBYTE,    \* bytes
    Overhead,    \* blocks a mounted file system keeps from statvfs()
    Disks,       \* what may be on the partition
    Places,      \* where it may be pasted: [length, ss, header, new]
    Growths,     \* sectors of free space behind the partition
    MaxEdits     \* bound: resizes and pastes queued

\* A disk is what really is there:
\*   fstype, busy           of the file system
\*   blocks, free, bsize    its blocks, those not used, bytes of each
\*   length, ss             sectors of the partition, bytes of each
\*   header, tail           sectors of the partition in front of and behind an open
\*                          LUKS mapping with the file system, 0 without one
\*   devices                partitions a btrfs is spread evenly over
Sector == 4    \* bytes of the sectors FAT, exFAT, JFS and F2FS count in

ASSUME UsageAssumption ==
    /\ MEBIBYTE \in Nat \ {0} /\ Overhead \in Nat /\ MaxEdits \in Nat /\ Growths \subseteq Nat
    /\ \A d \in Disks :
        /\ d.busy \in BOOLEAN /\ d.ss \in 1 .. MEBIBYTE
        /\ d.bsize \in Nat \ {0} /\ d.bsize % Sector = 0
        /\ d.blocks \in Nat \ {0} /\ d.free \in 0 .. d.blocks /\ d.devices \in Nat \ {0}
        /\ d.length \in Nat /\ d.header \in Nat /\ d.tail \in Nat
        /\ d.blocks * d.bsize <= (d.length - d.header - d.tail) * d.ss
    /\ \A to \in Places : /\ to.length \in Nat /\ to.ss \in 1 .. MEBIBYTE
                         /\ to.header \in 0 .. to.length - 1 /\ to.new \in BOOLEAN

VARIABLES
    disk,     \* what is on the partition
    part,     \* the partition in the picture
    now,      \* what was done last: "start", "read", "resize" or "paste"
    edits     \* resizes and pastes queued

vars == <<disk, part, now, edits>>

-----------------------------------------------------------------------------
(* Partition                                                               *)

\* Utils::round() of a / b
Rounded(a, b) == (2 * a + b) \div (2 * b)
RoundedUp(a, b) == (a + b - 1) \div b

Significant(length, ss) ==
    LET bytes == length * ss
        fraction == IF bytes <= 100 * MEBIBYTE THEN [num |-> 1, den |-> 20]
                    ELSE IF bytes <= 1024 * MEBIBYTE
                    THEN [num |-> 4920 * MEBIBYTE - 3 * bytes, den |-> 92400 * MEBIBYTE]
                    ELSE [num |-> 1, den |-> 50]
    IN  Max({1, Rounded(length * fraction.num, fraction.den)})

\* What statvfs() hides is not significant
ASSUME OverheadAssumption ==
    \A d \in Disks : Overhead * d.bsize <= Significant(d.length, d.ss) * d.ss

Fresh(length, ss) == [length |-> length, ss |-> ss, used |-> -1, unused |-> -1,
                      unallocated |-> 0, threshold |-> 1]

\* Figures which cannot be right leave the old ones
set_sector_usage(p, size, unused) ==
    IF size \in 0 .. p.length /\ unused \in 0 .. size
    THEN [p EXCEPT !.used = size - unused, !.unused = unused,
                   !.unallocated = p.length - size,
                   !.threshold = Significant(p.length, p.ss)]
    ELSE IF size # -1 THEN p
    ELSE [p EXCEPT !.used = IF unused \in 0 .. p.length THEN p.length - unused ELSE -1,
                   !.unused = IF unused \in 0 .. p.length THEN unused ELSE -1,
                   !.unallocated = 0, !.threshold = 1]

sector_usage_known(p) == p.used >= 0 /\ p.unused >= 0

estimated_min_size(p) ==
    IF p.used < 0 THEN -1 ELSE p.used + Min({p.unallocated, p.threshold})

\* get_sectors_used(), get_sectors_unused() and get_sectors_unallocated()
ShownUsage(p) ==
    LET little == p.unallocated < p.threshold
    IN  [used |-> IF p.used < 0 THEN -1
                  ELSE IF little THEN p.used + p.unallocated ELSE p.used,
         unused |-> p.unused,
         unallocated |-> IF little THEN 0 ELSE p.unallocated]

resize(p, new) ==
    set_sector_usage([p EXCEPT !.length = new.length],
                     new.used + new.unused, new.unused)

-----------------------------------------------------------------------------
(* The drivers: sectors of the size and the free space, or Unread.  A      *)
(* figure is -1 when the program did not print it.                         *)

Unread == [size |-> -2, free |-> -2]
InSectors(size, free, ss) == [size |-> size \div ss, free |-> free \div ss]

Given(o, figures) == \A f \in figures : o[f] > -1

blocks_usage(o, ss) ==
    IF ~Given(o, {"blocks", "free", "bsize"}) THEN Unread
    ELSE InSectors(o.blocks * o.bsize, o.free * o.bsize, ss)

ntfs_usage(o, ss) == blocks_usage(o, ss)

reiser4_usage(o, ss) == blocks_usage(o, ss)

reiserfs_usage(o, ss) == blocks_usage(o, ss)

xfs_usage(o, ss) == blocks_usage(o, ss)

bcachefs_usage(o, ss) ==
    IF ~Given(o, {"bytes", "free_bytes"}) THEN Unread
    ELSE InSectors(o.bytes, o.free_bytes, ss)

\* Used is this device's share of what the whole file system uses
btrfs_usage(o, ss) ==
    IF ~Given(o, {"bytes", "total_bytes", "bytes_used", "bsize"}) THEN Unread
    ELSE LET size == o.bytes \div ss
             used == Rounded(o.bytes_used * o.bytes, o.total_bytes) \div ss
         IN  [size |-> size, free |-> size - used]

\* The two forms of dump.exfat's output; the name looked for in the older one is
\* not the one its example gives for the clusters
exfat_usage(o, ss) ==
    LET cluster == o.sector * o.per_cluster
    IN  IF ~Given(o, {"sector", "per_cluster", "volume", "free"}) THEN Unread
        ELSE InSectors(o.volume * o.sector, o.free * cluster, ss)

\* While mounted the kernel knows the free blocks; otherwise resize2fs tells how
\* far it would shrink, and if it does not, dumpe2fs has the free blocks
ext2_usage(o, busy, ss) ==
    LET free == IF ~busy THEN IF o.minimum > -1 THEN o.blocks - o.minimum ELSE o.free
                ELSE IF Given(o, {"statvfs_free", "bsize"}) THEN o.statvfs_free \div o.bsize
                ELSE -1
    IN  IF ~Given(o, {"blocks", "bsize"}) \/ free <= -1 THEN Unread
        ELSE InSectors(o.blocks * o.bsize, free * o.bsize, ss)

f2fs_usage(o, ss) ==
    IF ~Given(o, {"user", "valid", "bsize"}) THEN Unread
    ELSE [size |-> IF Given(o, {"sector", "volume"})
                   THEN (o.volume * o.sector) \div ss ELSE -1,
          free |-> ((o.user - o.valid) * o.bsize) \div ss]

\* mdir tells the free space, minfo the size, in one of two fields
fat16_usage(o, ss) ==
    LET volume == IF o.small > 0 THEN o.small ELSE IF o.big > 0 THEN o.big ELSE -1
    IN  IF volume = -1 \/ ~Given(o, {"free_bytes", "sector", "per_cluster"}) THEN Unread
        ELSE InSectors(volume * o.sector, o.free_bytes, ss)

jfs_usage_WithoutLog(o, busy, ss) ==
    LET free == IF busy THEN o.statvfs_free ELSE o.free * o.bsize
    IN  IF ~Given(o, {"aggregate", "sector", "bsize", IF busy THEN "statvfs_free" ELSE "free"})
        THEN Unread ELSE InSectors(o.aggregate * o.sector, free, ss)

\* The journal and the checker's space are behind the aggregate
jfs_usage(o, busy, ss) ==
    LET free == IF busy THEN o.statvfs_free ELSE o.free * o.bsize
    IN  IF ~Given(o, {"aggregate", "bsize", "sector", "log", "fsck",
                      IF busy THEN "statvfs_free" ELSE "free"}) THEN Unread
        ELSE InSectors(o.aggregate * o.sector + (o.log + o.fsck) * o.bsize, free, ss)

\* All of an inactive swap space is free
linux_swap_usage(o, busy, length, ss) ==
    IF ~busy THEN [size |-> length, free |-> length]
    ELSE IF o.used_bytes = -1 THEN Unread
    ELSE [size |-> length, free |-> length - o.used_bytes \div ss]

\* Nothing of a LUKS volume is free, except what is behind an open mapping
luks_usage(o, length, ss) ==
    IF o.mapping = -1 THEN [size |-> length, free |-> 0]
    ELSE [size |-> o.mapping \div ss, free |-> 0]

lvm2_pv_usage(o, ss) ==
    IF ~Given(o, {"bytes", "free_bytes"}) THEN Unread
    ELSE InSectors(o.bytes, o.free_bytes, ss)

nilfs2_usage(o, ss) ==
    IF ~Given(o, {"bytes", "free", "bsize"}) THEN Unread
    ELSE InSectors(o.bytes, o.free * o.bsize, ss)

\* The figures need not agree with each other
udf_usage(o, ss) ==
    LET blocks == o.blocks_there - o.behind
        used == Min({o.used, blocks})
        free == IF o.free > blocks - used THEN 0 ELSE o.free
    IN  IF ~Given(o, {"blocks_there", "used", "free", "behind", "bsize"}) THEN Unread
        ELSE [size |-> RoundedUp(blocks * o.bsize, ss), free |-> (free * o.bsize) \div ss]

\* p_filesystem->set_used_sectors()
DriverUsage(fstype, o, busy, length, ss) ==
    CASE fstype = "bcachefs" -> bcachefs_usage(o, ss)
      [] fstype = "btrfs" -> btrfs_usage(o, ss)
      [] fstype = "exfat" -> exfat_usage(o, ss)
      [] fstype \in {"ext2", "ext3", "ext4"} -> ext2_usage(o, busy, ss)
      [] fstype = "f2fs" -> f2fs_usage(o, ss)
      [] fstype = "fat" -> fat16_usage(o, ss)
      [] fstype = "jfs" -> jfs_usage(o, busy, ss)
      [] fstype = "linux_swap" -> linux_swap_usage(o, busy, length, ss)
      [] fstype = "luks" -> luks_usage(o, length, ss)
      [] fstype = "lvm2_pv" -> lvm2_pv_usage(o, ss)
      [] fstype = "nilfs2" -> nilfs2_usage(o, ss)
      [] fstype = "ntfs" -> ntfs_usage(o, ss)
      [] fstype = "reiser4" -> reiser4_usage(o, ss)
      [] fstype = "reiserfs" -> reiserfs_usage(o, ss)
      [] fstype = "udf" -> udf_usage(o, ss)
      [] fstype = "xfs" -> xfs_usage(o, ss)

\* mounted_fs_set_used_sectors()
StatvfsUsage(o, ss) ==
    IF ~Given(o, {"statvfs_size", "statvfs_free"}) THEN Unread
    ELSE InSectors(o.statvfs_size, o.statvfs_free, ss)

\* LP_set_used_sectors(): the constraint is how far libparted would shrink it
LP_usage(o, length) ==
    IF o.constraint = -1 THEN Unread
    ELSE [size |-> length, free |-> length - o.constraint]

-----------------------------------------------------------------------------
(* What the programs print                                                 *)

\* The bytes the file system cannot do without, in this partition
Needed(d) == IF d.fstype = "linux_swap" /\ ~d.busy THEN 0 ELSE (d.blocks - d.free) * d.bsize

\* Everything that is printed, by whichever program
Printed(d) ==
    LET bytes == d.blocks * d.bsize
    IN  [blocks |-> d.blocks, free |-> d.free, bsize |-> d.bsize,
         bytes |-> bytes, free_bytes |-> d.free * d.bsize, used_bytes |-> Needed(d),
         total_bytes |-> d.devices * bytes, bytes_used |-> d.devices * Needed(d),
         sector |-> Sector, per_cluster |-> d.bsize \div Sector,
         volume |-> bytes \div Sector,
         small |-> IF bytes \div Sector > 200 THEN 0 ELSE bytes \div Sector,
         big |-> IF bytes \div Sector > 200 THEN bytes \div Sector ELSE 0,
         minimum |-> d.blocks - d.free,
         user |-> d.blocks - 1, valid |-> d.blocks - d.free - 1,
         aggregate |-> ((d.blocks - 2) * d.bsize) \div Sector, log |-> 1, fsck |-> 1,
         blocks_there |-> (d.length * d.ss) \div d.bsize, used |-> d.blocks - d.free,
         behind |-> (d.length * d.ss) \div d.bsize - d.blocks,
         mapping |-> -1, constraint |-> RoundedUp(Needed(d), d.ss),
         statvfs_size |-> bytes - Overhead * d.bsize, statvfs_free |-> d.free * d.bsize]

\* ... with one figure missing, all of those of a program which failed, or what
\* statvfs() tells when that fails
FromKernel == {"statvfs_size", "statvfs_free", "mapping", "constraint"}
Outputs(d) ==
    LET all == Printed(d)
        Without(gone) == [f \in DOMAIN all |-> IF f \in gone THEN -1 ELSE all[f]]
    IN  {Without({})} \cup {Without({f}) : f \in DOMAIN all}
          \cup {Without(DOMAIN all \ FromKernel), Without(FromKernel)}

-----------------------------------------------------------------------------
(* GParted_Core                                                            *)

\* set_used_sectors()
set_used_sectors(p, fstype, busy, o, env) ==
    LET how == get_fs(fstype, env, IF busy THEN "online_read" ELSE "read")
        usage == CASE ~supported_filesystem(fstype) -> IF busy THEN StatvfsUsage(o, p.ss) ELSE Unread
                   [] how = EXTERNAL -> DriverUsage(fstype, o, busy, p.length, p.ss)
                   [] how = GPARTED /\ busy -> StatvfsUsage(o, p.ss)
                   [] how = LIBPARTED /\ ~busy -> LP_usage(o, p.length)
                   [] OTHER -> Unread
    IN  IF usage = Unread THEN p ELSE set_sector_usage(p, usage.size, usage.free)

\* The warnings put on the partition for its usage, after the drivers' own
UsageWarnings(fstype, p) ==
    IF ~supported_filesystem(fstype) THEN {}
    ELSE IF ~sector_usage_known(p) THEN {"unreadable"}
    ELSE IF ShownUsage(p).unallocated > 0 THEN {"unallocated"} ELSE {}

-----------------------------------------------------------------------------
(* PartitionLUKS.  A partition is                                          *)
(*   fstype, busy, status   of the file system, also of one inside a LUKS  *)
(*   outer, inner           the usage of the partition and, if header > 0, *)
(*                          that of the file system in the open mapping    *)
(*   header                 header_size                                    *)
(*   warnings               messages about the usage                       *)
(*   converted              whether it came from a device with other       *)
(*                          sectors (of the model only)                    *)

Open(p) == p.header > 0

get_filesystem_partition(p) == IF Open(p) THEN p.inner ELSE p.outer

\* sector_usage_known()
Known(p) == sector_usage_known(p.outer) /\ (Open(p) => sector_usage_known(p.inner))

\* The totals of header, mapping and file system
Totals(p) == [p.outer EXCEPT
    !.used = IF p.outer.used < 0 \/ p.inner.used < 0 THEN -1 ELSE p.header + p.inner.used,
    !.unused = p.inner.unused,
    !.unallocated = p.outer.unallocated + p.inner.unallocated]

\* What the picture, the list and the information dialog show
Shown(p) == ShownUsage(IF Open(p) THEN Totals(p) ELSE p.outer)

MinimumSize(p) == estimated_min_size(IF Open(p) THEN Totals(p) ELSE p.outer)

\* As though the file system were not encrypted
clone_as_plain(p) ==
    set_sector_usage(p.outer, p.header + p.inner.used + p.inner.unused, p.inner.unused)

\* Partition::resize() or PartitionLUKS::resize()
Resized(p, new) ==
    LET outer == resize(p.outer, new)
        full == set_sector_usage(outer, outer.length, 0)
        mapping == outer.length - p.header
    IN  IF Open(p)
        THEN [p EXCEPT !.outer = full,
                       !.inner = set_sector_usage([p.inner EXCEPT !.length = mapping],
                                                  mapping, mapping - p.inner.used)]
        ELSE [p EXCEPT !.outer = IF p.fstype = "luks" THEN full ELSE outer]

-----------------------------------------------------------------------------
(* The dialogs                                                             *)

\* FS_Limits::min_size of a driver, in bytes, where the file system is resized or
\* restored by its own program
FsMinimum(fstype) ==
    CASE fstype = "btrfs" -> 256 * MEBIBYTE
      [] fstype = "fat" -> 16 * MEBIBYTE
      [] fstype = "nilfs2" -> 128 * MEBIBYTE + MEBIBYTE \div 4
      [] fstype = "ntfs" -> 2 * MEBIBYTE
      [] fstype = "reiserfs" -> 34 * MEBIBYTE
      [] fstype = "xfs" -> 300 * MEBIBYTE
      [] OTHER -> 0

\* activate_resize(): what an open LUKS mapping cannot do is not offered, and its
\* file system's minimum is replaced by one mebibyte (the condition of ?: is the
\* whole sum)
Capable(p, env, cap) ==
    /\ get_fs(p.fstype, env, cap) # NONE
    /\ Open(p) /\ cap \in {"grow", "online_grow"} => get_fs("luks", env, "online_grow") # NONE
    /\ Open(p) /\ cap \in {"shrink", "online_shrink"} => get_fs("luks", env, "online_shrink") # NONE
LimitOf(p) == IF Open(p) THEN MEBIBYTE ELSE FsMinimum(p.fstype)

\* The partition the dialog works with
WorkingPartition(p) == IF Open(p) THEN clone_as_plain(p) ELSE p.outer

CanShrink_UsageUnknown(p, env) ==
    Capable(p, env, IF p.busy THEN "online_shrink" ELSE "shrink")

\* Resize_Move_Normal(): may it be made smaller at all
CanShrink(p, env) ==
    /\ sector_usage_known(WorkingPartition(p)) \/ p.status = "new" \/ p.fstype = "linux_swap"
    /\ Capable(p, env, IF p.busy THEN "online_shrink" ELSE "shrink")

\* fs_limits.min_size and max_size of the dialog, in bytes
MinSize(p, env) ==
    LET w == WorkingPartition(p)
        least == estimated_min_size(w)
        limit == LimitOf(p)
    IN  IF ~CanShrink(p, env) THEN w.length * w.ss
        ELSE Max({MEBIBYTE, IF least > limit \div w.ss THEN least * w.ss ELSE limit})

MaxSize(p, env, room) ==
    (p.outer.length + IF Capable(p, env, "grow") THEN room ELSE 0) * p.outer.ss

\* prepare_new_partition(): the usage of the partition with the length chosen;
\* "old" is the length it had before, in the sectors it had
Prepared(w, old, length) ==
    LET new == [w EXCEPT !.length = length]
    IN  IF ~sector_usage_known(w) THEN new
        ELSE IF old = length THEN set_sector_usage(new, w.used + w.unused, w.unused)
        ELSE set_sector_usage(new, length, length - w.used)

\* Dialog_Partition_Copy::set_data(): the usage in the sectors of the destination;
\* the length is still counted in those of the source
Converted(src, ss) ==
    LET size == RoundedUp((src.used + src.unused) * src.ss, ss)
        unused == RoundedUp(src.unused * src.ss, ss)
        new == [src EXCEPT !.ss = ss]
    IN  IF sector_usage_known(src) THEN set_sector_usage(new, size, unused)
        ELSE set_sector_usage(new, -1, -1)

\* activate_paste() over an existing file system, whose usage is "old"
PastedUsage(old, src) ==
    IF ~sector_usage_known(src) THEN set_sector_usage(old, -1, -1)
    ELSE IF src.length = old.length THEN set_sector_usage(old, src.used + src.unused, src.unused)
    ELSE set_sector_usage(old, old.length, old.length - src.used)

-----------------------------------------------------------------------------
Everything == UNION {LookedFor(t) : t \in DOMAIN SupportedFileSystems}

\* A partition as Partition::Set() leaves it; that of a LUKS which was opened is
\* full up to the end of the mapping
Unknown(d) ==
    LET inside == d.length - d.header - d.tail
    IN  [fstype |-> d.fstype, busy |-> d.busy, status |-> "real", header |-> d.header,
         outer |-> IF d.header = 0 THEN Fresh(d.length, d.ss)
                   ELSE set_used_sectors(Fresh(d.length, d.ss), "luks", TRUE,
                                         [mapping |-> (d.length - d.tail) * d.ss], {}),
         inner |-> Fresh(IF d.header = 0 THEN 1 ELSE inside, d.ss),
         warnings |-> {}, converted |-> FALSE]

Init == disk \in Disks /\ part = Unknown(disk) /\ now = "start" /\ edits = 0

\* set_device_one_partition(), set_device_partitions() and set_luks_partition()
Read ==
    /\ now = "start" /\ now' = "read"
    /\ \E o \in Outputs(disk), env \in {{}, Everything} :
        LET usage == set_used_sectors(get_filesystem_partition(part), disk.fstype, disk.busy, o, env)
        IN  part' = [part EXCEPT !.outer = IF Open(part) THEN @ ELSE usage,
                                 !.inner = IF Open(part) THEN usage ELSE @,
                                 !.warnings = UsageWarnings(disk.fstype, usage)]
    /\ UNCHANGED <<disk, edits>>

\* set_valid_operations(): resizing
AllowResize(p) ==
    \E cap \in IF p.busy THEN {"online_grow", "online_shrink"}
               ELSE {"grow", "shrink"} \cup (IF Open(p) THEN {} ELSE {"move"}) :
        Capable(p, Everything, cap)

\* activate_resize()
ResizeNormal ==
    /\ now # "start" /\ edits < MaxEdits /\ AllowResize(part)
    /\ \E room \in Growths :
       LET w == WorkingPartition(part)
           mib == MEBIBYTE \div w.ss
           least == RoundedUp(MinSize(part, Everything), MEBIBYTE) * mib
           most == MaxSize(part, Everything, room) \div w.ss
       IN  \E length \in {n \in {least, (least + w.length) \div 2, most} : n * w.ss >= MinSize(part, Everything)
                                                       /\ n <= most /\ n # w.length} :
             part' = Resized(part, Prepared(w, w.length, length))
    /\ now' = "resize" /\ edits' = edits + 1
    /\ UNCHANGED disk

\* ... copying: partitions which are there and not in use, not closed encryptions
AllowCopy(p) ==
    /\ ~p.busy /\ p.status = "real" /\ p.fstype # "luks"
    /\ get_fs(p.fstype, Everything, "copy") # NONE

\* The bytes a paste wants: XFS is dumped and restored, all others are copied block
\* by block
Required(fstype, src) ==
    (IF fstype = "xfs" THEN estimated_min_size(src) ELSE src.length) * src.ss

\* activate_paste() into free space: Dialog_Partition_Copy
PasteNew(src, to) ==
    LET least == IF part.fstype = "xfs" THEN Max({FsMinimum("xfs"), Required("xfs", src)})
                                        ELSE src.length * src.ss
        most == IF get_fs(part.fstype, Everything, "grow") = NONE
                THEN RoundedUp(src.length * src.ss, to.ss) ELSE to.length
    IN  /\ to.new /\ to.header = 0 /\ ~Open(part)
        /\ Required(part.fstype, src) <= to.length * to.ss
        /\ \E length \in {RoundedUp(least, to.ss), most} :
             /\ length * to.ss >= least
             /\ part' = [part EXCEPT !.status = "copy", !.converted = @ \/ src.ss # to.ss,
                                     !.outer = Prepared(Converted(src, to.ss), src.length, length)]

\* ... over another file system, which may be inside an open LUKS mapping
PasteOver(src, to) ==
    LET inside == to.length - to.header
        old == set_sector_usage(Fresh(inside, to.ss), inside, inside)
    IN  /\ ~to.new /\ src.length * src.ss <= inside * to.ss
        /\ part' = [part EXCEPT !.header = to.header, !.converted = @ \/ src.ss # to.ss,
                 !.outer = IF to.header = 0 THEN PastedUsage(old, src)
                           ELSE set_sector_usage(Fresh(to.length, to.ss), to.length, 0),
                 !.inner = PastedUsage(old, src)]

Paste ==
    /\ now # "start" /\ edits < MaxEdits /\ AllowCopy(part)
    /\ \E to \in Places :
       LET src == get_filesystem_partition(part)
       IN  PasteNew(src, to) \/ PasteOver(src, to)
    /\ now' = "paste" /\ edits' = edits + 1
    /\ UNCHANGED disk

Next == Read \/ ResizeNormal \/ Paste
Spec == Init /\ [][Next]_vars

-----------------------------------------------------------------------------
\* The figures shown of a partition add up to its size and none is negative,
\* whatever was read, resized or pasted, and also for an open encryption, whose
\* figures are put together from those of two partitions.
UsageSumsUp ==
    Known(part) =>
        LET s == Shown(part)
        IN  /\ s.used >= 0 /\ s.unused >= 0 /\ s.unallocated >= 0
            /\ s.used + s.unused + s.unallocated = part.outer.length

\* The resize dialog never lets a partition become smaller than what its file
\* system holds, although sizes and free spaces are rounded to sectors, one by
\* one, and a file system need not fill its partition.  (Only of a file system
\* with blocks smaller than the sectors may a part of one sector be missing; and
\* what statvfs() hides counts as unallocated, which a queued resize forgets.)
MinimumHoldsData ==
    LET lost == (IF disk.bsize % disk.ss = 0 THEN 0 ELSE disk.ss - 1)
                + (IF disk.busy /\ now = "resize" THEN Overhead * disk.bsize ELSE 0)
    IN  now # "start" /\ ~part.converted =>
            MinSize(part, Everything) >= Min({Needed(disk) + part.header * part.outer.ss - lost,
                                              part.outer.length * part.outer.ss})

\* What a driver reads is what is used, but for the rounding to sectors and what
\* the kernel keeps to itself; if it only knows the free space (f2fs), the rest of
\* the partition counts as used.  (Of UDF the size is rounded up and the free space
\* down: two sectors may be too many.)
UsageIsTrue ==
    LET p == get_filesystem_partition(part)
        used == p.used * p.ss - Needed(disk)
        free == disk.free * disk.bsize - p.unused * p.ss
        rounding == IF disk.fstype = "udf" THEN 2 * p.ss ELSE p.ss
    IN  now = "read" /\ sector_usage_known(p) /\ disk.fstype \notin {"luks", "linux_swap"}
          => \/ used \in -(p.ss + (IF disk.busy THEN Overhead * disk.bsize ELSE 0)) .. rounding
             \/ p.used + p.unused = p.length /\ free \in 0 .. p.ss

\* What is shown of a partition is what its file system uses, and the figures add
\* up to the size of the partition after every resize and paste.
ShownAsUsed == UsageIsTrue /\ UsageSumsUp
=============================================================================
