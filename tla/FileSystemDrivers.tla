-------------------------- MODULE FileSystemDrivers --------------------------
(***************************************************************************)
(* The procedures of the file system drivers: the programs each operation  *)
(* runs, around which temporary mount points, and what becomes of a        *)
(* failure.  An operation is run only when the driver offers it in the     *)
(* environment found at start-up (FileSystemSupport).  One file system     *)
(* type at a time, on two partitions, "other" being the destination of a   *)
(* copy.                                                                   *)
(***************************************************************************)
EXTENDS FileSystemSupport, Sequences, FiniteSets

Operations == {"create", "check_repair", "write_label", "write_uuid", "grow", "shrink", "move", "copy",
               "remove", "read_label", "read_uuid", "set_used_sectors"}

(* What has to be offered for an operation on an inactive and on an active *)
(* partition.                                                              *)
Offline == [op \in Operations |-> CASE op = "check_repair" -> "check"
                                    [] op = "set_used_sectors" -> "read"
                                    [] OTHER -> op]
Online == [grow |-> "online_grow", shrink |-> "online_shrink", write_label |-> "online_write_label",
           set_used_sectors |-> "online_read", read_label |-> "read_label", read_uuid |-> "read_uuid"]

-----------------------------------------------------------------------------
(***************************************************************************)
(* The steps.  "do" is what is done, "after" the steps which must have     *)
(* succeeded for it to be done at all, "ok" the exit codes taken for       *)
(* success, "on" the state its partitions must be in, "abort" says that a  *)
(* failure returns at once, "lost" that it goes unnoticed, and "closes"    *)
(* which detail gets the result, if not the step's own.                    *)
(***************************************************************************)
Step == [do |-> "run", runs |-> {}, dir |-> "none", parts |-> {"this"}, after |-> {}, ok |-> {0},
         on |-> "inactive", abort |-> FALSE, lost |-> FALSE, closes |-> 0]

Command(progs, on) == [Step EXCEPT !.runs = progs, !.on = on, !.abort = TRUE]
Run(prog) == <<Command({prog}, "inactive")>>
RunAnywhere(prog) == <<Command({prog}, "any")>>

(* Codes other than 0 which the driver takes for success. *)
RunAccepting(prog, codes) == <<[Command({prog}, "inactive") EXCEPT !.ok = codes]>>

(* Something is looked up, without which the operation is refused. *)
Find == [Step EXCEPT !.do = "find", !.on = "any", !.abort = TRUE]
Skip == <<>>

MkDir(dir) == [Step EXCEPT !.do = "mkdir", !.dir = dir, !.abort = TRUE, !.on = "any"]
RmDir(dir) == [Step EXCEPT !.do = "rmdir", !.dir = dir, !.on = "any"]
Mount(dir) == [Step EXCEPT !.do = "mount", !.dir = dir, !.runs = {"mount"}]
Umount(dir) == [Step EXCEPT !.do = "umount", !.dir = dir, !.runs = {"umount"}, !.on = "active"]

AroundMount_NoGate(c, n, command) ==
  IF c.busy
  THEN <<command>>
  ELSE <<MkDir("mnt"), Mount("mnt"), [command EXCEPT !.abort = FALSE],
         [Umount("mnt") EXCEPT !.after = {n + 2}], RmDir("mnt")>>

AroundMount_ReturnsEarly(c, n, command) ==
  IF c.busy
  THEN <<command>>
  ELSE <<MkDir("mnt"), [Mount("mnt") EXCEPT !.abort = TRUE], [command EXCEPT !.abort = FALSE],
         Umount("mnt"), RmDir("mnt")>>

AroundMount_UmountLost(c, n, command) ==
  IF c.busy
  THEN <<command>>
  ELSE <<MkDir("mnt"), Mount("mnt"), [command EXCEPT !.after = {n + 2}, !.abort = FALSE],
         [Umount("mnt") EXCEPT !.after = {n + 2}, !.lost = TRUE], RmDir("mnt")>>

(* A resize of a mounted file system, the first n steps having been taken; *)
(* one which is not mounted is mounted for it.                             *)
AroundMount(c, n, command) ==
  IF c.busy
  THEN <<command>>
  ELSE <<MkDir("mnt"), Mount("mnt"), [command EXCEPT !.after = {n + 2}, !.abort = FALSE],
         [Umount("mnt") EXCEPT !.after = {n + 2}], RmDir("mnt")>>

(* Both partitions, one program. *)
CopyWith(prog) == <<[Command({prog}, "inactive") EXCEPT !.parts = {"this", "other"}]>>

-----------------------------------------------------------------------------
(* The drivers.  c is the call: its operation, whether the partition is    *)
(* busy and whether it is 16 TiB or more.                                  *)

Bcachefs(c) ==
  [create |-> Run("bcachefs"), check_repair |-> Run("bcachefs"), grow |-> RunAnywhere("bcachefs"),
   read_label |-> RunAnywhere("bcachefs"), read_uuid |-> RunAnywhere("bcachefs"),
   set_used_sectors |-> <<Command({"bcachefs"}, "active")>>]

(* The device is looked up by its number, the mount point by the device. *)
BtrfsResize(c) == <<Find>> \o (IF c.busy THEN <<Find>> ELSE <<>>)
                  \o AroundMount(c, 1, Command({"btrfs"}, "active"))

Btrfs(c) ==
  [create |-> Run("mkfs.btrfs"), check_repair |-> Run("btrfs"),
   write_label |-> RunAnywhere("btrfs"), write_uuid |-> Run("btrfstune"),
   grow |-> BtrfsResize(c), shrink |-> BtrfsResize(c),
   read_label |-> RunAnywhere("btrfs"), read_uuid |-> RunAnywhere("btrfs"),
   set_used_sectors |-> RunAnywhere("btrfs")]

Exfat(c) ==
  LET read == IF c.busy THEN Skip ELSE Run("tune.exfat")
  IN  [create |-> Run("mkfs.exfat"), check_repair |-> Run("fsck.exfat"),
       write_label |-> Run("tune.exfat"), write_uuid |-> Run("tune.exfat"),
       read_label |-> read, read_uuid |-> read, set_used_sectors |-> Run("dump.exfat")]

(* Only an ext4 of 16 TiB may have to be converted to 64 bit. *)
Ext2Resize(type, c) ==
  (IF type = "ext4" /\ c.huge THEN <<Command({"tune2fs"}, "any"), Find>> ELSE <<>>) \o RunAnywhere("resize2fs")

Ext2(type, c) ==
  [create |-> Run("mkfs." \o type), check_repair |-> RunAccepting("e2fsck", {0, 1, 2}),
   write_label |-> RunAnywhere("e2label"), write_uuid |-> Run("tune2fs"),
   grow |-> Ext2Resize(type, c), shrink |-> Ext2Resize(type, c),
   move |-> Run("e2image"), copy |-> CopyWith("e2image"),
   read_label |-> RunAnywhere("e2label"), read_uuid |-> RunAnywhere("tune2fs"),
   set_used_sectors |-> RunAnywhere("dumpe2fs")]

F2fs(c) ==
  [create |-> Run("mkfs.f2fs"), check_repair |-> Run("fsck.f2fs"), grow |-> Run("resize.f2fs"),
   set_used_sectors |-> Run("dump.f2fs")]

FatRead == Run("mdir") \o Run("minfo")

(* An empty label is written by the other program. *)
FatLabel(c) == IF c.label = "no label" THEN Run("mlabel") ELSE Run("fatlabel")

Fat16(c) ==
  [create |-> Run("mkfs.fat"), check_repair |-> RunAccepting("fsck.fat", {0, 1}),
   write_label |-> FatLabel(c), write_uuid |-> Run("mlabel"),
   read_label |-> RunAnywhere("fatlabel"), read_uuid |-> RunAnywhere("mdir"),
   set_used_sectors |-> FatRead]

Hfs(c) == [create |-> Run("hformat"), check_repair |-> Run("hfsck")]

Hfsplus(c) == [create |-> Run("mkfs.hfsplus"), check_repair |-> Run("fsck.hfsplus")]

Jfs(c) ==
  [create |-> Run("mkfs.jfs"), check_repair |-> RunAccepting("jfs_fsck", {0, 1}),
   write_label |-> Run("jfs_tune"), write_uuid |-> Run("jfs_tune"),
   grow |-> AroundMount(c, 0, Command({"mount"}, "active")),
   read_label |-> RunAnywhere("jfs_tune"), read_uuid |-> RunAnywhere("jfs_tune"),
   set_used_sectors |-> RunAnywhere("jfs_debugfs")]

(* Swap space is made again instead of resized; it holds nothing to copy. *)
LinuxSwap(c) ==
  [create |-> Run("mkswap"), grow |-> Run("mkswap"), shrink |-> Run("mkswap"),
   write_label |-> Run("swaplabel"), write_uuid |-> Run("swaplabel"), move |-> Skip, copy |-> Skip,
   read_label |-> RunAnywhere("swaplabel"), read_uuid |-> RunAnywhere("swaplabel"),
   set_used_sectors |-> IF c.busy THEN <<Find>> ELSE Skip]

(* A closed encryption fills its partition when it is opened. *)
Luks(c) ==
  LET open == <<Command({"cryptsetup"}, "active")>>
  IN  [grow |-> IF c.busy THEN open ELSE Skip, shrink |-> IF c.busy THEN open ELSE <<Find>>,
       set_used_sectors |-> Skip]

Lvm2Pv(c) ==
  [create |-> Run("lvm"), check_repair |-> Run("lvm"), remove |-> Run("lvm"),
   grow |-> RunAnywhere("lvm"), shrink |-> RunAnywhere("lvm"), set_used_sectors |-> Skip]

Minix(c) == [create |-> Run("mkfs.minix"), check_repair |-> Run("fsck.minix")]

Nilfs2(c) ==
  LET resize == AroundMount(c, 0, Command({"nilfs-resize"}, "active"))
  IN  [create |-> Run("mkfs.nilfs2"), write_label |-> Run("nilfs-tune"), write_uuid |-> Run("nilfs-tune"),
       grow |-> resize, shrink |-> resize,
       read_label |-> RunAnywhere("nilfs-tune"), read_uuid |-> RunAnywhere("nilfs-tune"),
       set_used_sectors |-> Run("nilfs-tune")]

(* The simulation first.  Its detail is assigned the second one, whose     *)
(* result it then gets.                                                    *)
NtfsResize == Run("ntfsresize") \o <<[Command({"ntfsresize"}, "inactive") EXCEPT !.closes = 1]>>

Ntfs(c) ==
  [create |-> Run("mkntfs"), check_repair |-> Run("ntfsresize"),
   write_label |-> Run("ntfslabel"), write_uuid |-> Run("ntfslabel"),
   grow |-> NtfsResize, shrink |-> NtfsResize, copy |-> CopyWith("ntfsclone"),
   read_label |-> RunAnywhere("ntfslabel"), set_used_sectors |-> Run("ntfsinfo")]

Reiser4(c) ==
  [create |-> Run("mkfs.reiser4"), check_repair |-> Run("fsck.reiser4"),
   read_label |-> RunAnywhere("debugfs.reiser4"), read_uuid |-> RunAnywhere("debugfs.reiser4"),
   set_used_sectors |-> Run("debugfs.reiser4")]

ReiserfsResize == <<[Command({"resize_reiserfs"}, "any") EXCEPT !.ok = {0, 1}]>>

Reiserfs(c) ==
  [create |-> Run("mkreiserfs"), check_repair |-> RunAccepting("reiserfsck", {0, 1}),
   write_label |-> Run("reiserfstune"), write_uuid |-> Run("reiserfstune"),
   grow |-> ReiserfsResize, shrink |-> ReiserfsResize,
   read_label |-> RunAnywhere("debugreiserfs"), read_uuid |-> RunAnywhere("debugreiserfs"),
   set_used_sectors |-> Run("debugreiserfs")]

(* The size and the label are looked at before a program is run. *)
UdfCreate == <<Find>> \o Run("mkudffs")

Udf(c) ==
  [create |-> UdfCreate, write_label |-> Run("udflabel"), write_uuid |-> Run("udflabel"),
   read_label |-> RunAnywhere("udflabel"), read_uuid |-> RunAnywhere("udfinfo"),
   set_used_sectors |-> Run("udfinfo")]

(* The copy makes a file system of its own and restores a dump into it.    *)
(* The failure of the dump or of the first umount is assigned to           *)
(* exit_status and lost.                                                   *)
XfsCopy ==
  <<[Command({"mkfs.xfs"}, "inactive") EXCEPT !.parts = {"other"}],
    MkDir("src"), [MkDir("dest") EXCEPT !.abort = FALSE],
    [Mount("src") EXCEPT !.after = {3}],
    [Mount("dest") EXCEPT !.after = {3, 4}, !.parts = {"other"}],
    [Command({"xfsdump", "xfsrestore"}, "active") EXCEPT !.after = {5}, !.parts = {"this", "other"},
                                                         !.abort = FALSE, !.lost = TRUE],
    [Umount("dest") EXCEPT !.after = {5}, !.parts = {"other"}, !.lost = TRUE],
    [Umount("src") EXCEPT !.after = {4}],
    [RmDir("dest") EXCEPT !.after = {3}],
    RmDir("src")>>

Xfs(c) ==
  [create |-> Run("mkfs.xfs"), check_repair |-> Run("xfs_repair"),
   write_label |-> IF c.busy THEN <<Command({"xfs_io"}, "active")>> ELSE Run("xfs_admin"),
   write_uuid |-> Run("xfs_admin"),
   grow |-> AroundMount(c, 0, Command({"xfs_growfs"}, "active")), copy |-> XfsCopy,
   read_label |-> RunAnywhere("xfs_db"), read_uuid |-> RunAnywhere("xfs_admin"),
   set_used_sectors |-> Run("xfs_db")]

Procedures(type, c) ==
  CASE type = "bcachefs" -> Bcachefs(c)
    [] type = "btrfs" -> Btrfs(c)
    [] type = "exfat" -> Exfat(c)
    [] type \in {"ext2", "ext3", "ext4"} -> Ext2(type, c)
    [] type = "f2fs" -> F2fs(c)
    [] type = "fat" -> Fat16(c)
    [] type = "hfs" -> Hfs(c)
    [] type = "hfsplus" -> Hfsplus(c)
    [] type = "jfs" -> Jfs(c)
    [] type = "linux_swap" -> LinuxSwap(c)
    [] type = "lvm2_pv" -> Lvm2Pv(c)
    [] type = "luks" -> Luks(c)
    [] type = "minix" -> Minix(c)
    [] type = "nilfs2" -> Nilfs2(c)
    [] type = "ntfs" -> Ntfs(c)
    [] type = "reiser4" -> Reiser4(c)
    [] type = "reiserfs" -> Reiserfs(c)
    [] type = "udf" -> Udf(c)
    [] type = "xfs" -> Xfs(c)
=============================================================================
