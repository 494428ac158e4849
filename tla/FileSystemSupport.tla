-------------------------- MODULE FileSystemSupport --------------------------
(***************************************************************************)
(* What every file system driver offers (FileSystem.h, struct FS), as the  *)
(* get_filesystem_support() of each driver finds it at start-up.  An       *)
(* environment is a set: the programs in the path, the features the code   *)
(* probes them for and the kernel.  A rule offers capabilities when all it *)
(* needs is in the environment; of the rules which offer a capability the  *)
(* strongest decides how it is done (the later assignment in the code).    *)
(***************************************************************************)
EXTENDS Integers, Sequences, FiniteSetsExt

NONE      == 0
GPARTED   == 1     \* GParted's own code
LIBPARTED == 2
EXTERNAL  == 3     \* the driver, which runs programs

Linux30  == "linux 3.0"
Linux36  == "linux 3.6"
Linux418 == "linux 4.18"

(* The kernel: the numbers its version begins with, the file systems it    *)
(* lists and those it has modules for (Utils.cc).                          *)
get_kernel_version(kernel) ==
    IF Len(kernel.version) < 2 THEN <<>>
    ELSE [i \in 1 .. 3 |-> IF i <= Len(kernel.version) THEN kernel.version[i] ELSE 0]

kernel_version_at_least(kernel, wanted) ==
    LET actual == get_kernel_version(kernel)
    IN  /\ actual # <<>>
        /\ \E i \in 1 .. 4 : /\ \A k \in 1 .. (i - 1) : actual[k] = wanted[k]
                             /\ i = 4 \/ actual[i] > wanted[i]

\* Listed, or listed after modprobe
kernel_supports_fs(kernel, fs) == fs \in kernel.filesystems \cup kernel.modules

KernelOffers(kernel) ==
    {linux \in {Linux30, Linux36, Linux418} :
        kernel_version_at_least(kernel, CASE linux = Linux30 -> <<3, 0, 0>>
                                          [] linux = Linux36 -> <<3, 6, 0>>
                                          [] linux = Linux418 -> <<4, 18, 0>>)}
    \cup {fs \o " module" : fs \in {fs \in {"btrfs", "jfs", "nilfs2", "xfs"} : kernel_supports_fs(kernel, fs)}}

Rule(caps, how, need) == [caps |-> caps, how |-> how, need |-> need]

(* What only GParted itself does, whatever is installed. *)
Internal(caps) == {Rule(caps, GPARTED, {})}

With(need, caps) == {Rule(caps, EXTERNAL, need)}

Formats(mkfs) == With({mkfs}, {"create", "create_with_label"})

(* How a driver resizes online: with kernel support for it. *)
Growing(need)  == With(need, {"grow"}) \cup With(need \cup {Linux36}, {"online_grow"})
Shrinking(need) == With(need, {"shrink"}) \cup With(need \cup {Linux36}, {"online_shrink"})

CopiedWhen(need) == {Rule({"copy", "move"}, GPARTED, need)}

bcachefs == Internal({"busy", "move", "copy"})
            \cup With({"bcachefs"}, {"online_read", "create", "create_with_label", "read_label", "read_uuid", "check"})
            \cup Growing({"bcachefs"})

btrfs == LET resize == {"btrfs", "mount", "umount", "btrfs module"}
         IN  Internal({"busy"}) \cup Formats("mkfs.btrfs")
             \cup With({"btrfs"}, {"busy", "read", "online_read", "read_label", "read_uuid", "check",
                                   "write_label", "online_write_label"})
             \cup Growing(resize) \cup Shrinking(resize)
             \cup With({"btrfstune", "btrfstune -u"}, {"write_uuid"})
             \cup CopiedWhen({"btrfs"})

exfat == Internal({"busy", "copy", "move", "online_read"})
         \cup With({"dump.exfat"}, {"read"})
         \cup With({"mkfs.exfat", "exfatprogs"}, {"create"})
         \cup With({"tune.exfat"}, {"read_label", "write_label"})
         \cup With({"tune.exfat", "tune.exfat -I"}, {"read_uuid", "write_uuid"})
         \cup With({"fsck.exfat", "exfatprogs"}, {"check"})

ext2(type) == LET grow == {"resize2fs", "tune2fs"}
              IN  Internal({"busy"}) \cup Formats("mkfs." \o type)
                  \cup With({"dumpe2fs"}, {"read", "online_read"})
                  \cup With({"tune2fs"}, {"read_uuid", "write_uuid"})
                  \cup With({"e2label"}, {"read_label", "write_label", "online_write_label"})
                  \cup With({"e2fsck"}, {"check"})
                  \cup (IF type = "ext2" THEN With(grow, {"grow"}) ELSE Growing(grow))
                  \cup With({"resize2fs", "dumpe2fs"}, {"shrink"})
                  \cup CopiedWhen({"e2fsck"})
                  \cup With({"e2fsck", "e2image", "e2image -o"}, {"copy", "move"})

f2fs == Internal({"busy", "copy", "move", "online_read"}) \cup Formats("mkfs.f2fs")
        \cup With({"dump.f2fs"}, {"read"})
        \cup With({"fsck.f2fs"}, {"check"})
        \cup With({"resize.f2fs"}, {"grow"})

fat16 == Internal({"busy", "move", "copy", "online_read"}) \cup Formats("mkfs.fat")
         \cup {Rule({"grow", "shrink"}, LIBPARTED, {})}
         \cup With({"mdir"}, {"read_uuid"})
         \cup With({"mdir", "minfo"}, {"read"})
         \cup With({"fsck.fat"}, {"check"})
         \cup With({"fatlabel"}, {"read_label"})
         \cup With({"fatlabel", "mlabel"}, {"write_label"})
         \cup With({"mlabel"}, {"write_uuid"})

hfs == Internal({"busy", "copy", "move", "online_read"}) \cup Formats("hformat")
       \cup {Rule({"read", "shrink"}, LIBPARTED, {})}
       \cup With({"hfsck"}, {"check"})

hfsplus == Internal({"busy", "copy", "move", "online_read"}) \cup Formats("mkfs.hfsplus")
           \cup {Rule({"read", "shrink"}, LIBPARTED, {})}
           \cup With({"fsck.hfsplus"}, {"check"})

jfs == Internal({"busy"}) \cup Formats("mkfs.jfs")
       \cup With({"jfs_debugfs"}, {"read", "online_read"})
       \cup With({"jfs_tune"}, {"read_label", "write_label", "read_uuid", "write_uuid"})
       \cup With({"jfs_fsck"}, {"check"})
       \cup Growing({"mount", "umount", "jfs_fsck", "jfs module"})
       \cup CopiedWhen({"jfs_fsck"})

linux_swap == Internal({"busy"}) \cup Formats("mkswap")
              \cup With({}, {"read", "online_read"})
              \cup With({"mkswap"}, {"grow", "shrink", "copy", "move"})
              \cup With({"swaplabel"}, {"read_label", "write_label", "read_uuid", "write_uuid"})

luks == Internal({"copy", "move"})
        \cup With({}, {"busy", "read", "online_read"})
        \cup Growing({"cryptsetup"})
        \cup With({"cryptsetup", Linux36}, {"online_shrink"})

lvm2_pv == With({"lvm"}, {"busy", "read", "create", "check", "remove", "online_read"})
           \cup Growing({"lvm"}) \cup Shrinking({"lvm"})
           \cup {Rule({"move"}, GPARTED, {"lvm"})}

minix == Internal({"busy", "move", "copy", "online_read"})
         \cup With({"mkfs.minix"}, {"create"})
         \cup With({"fsck.minix"}, {"check"})

nilfs2 == LET resize == {"mount", "umount", "nilfs-resize", "nilfs2 module", Linux30}
          IN  Internal({"busy", "copy", "move", "online_read"}) \cup Formats("mkfs.nilfs2")
              \cup With({"nilfs-tune"}, {"read", "read_label", "write_label", "read_uuid", "write_uuid"})
              \cup Growing(resize) \cup Shrinking(resize \cup {"nilfs-tune"})

ntfs == Internal({"busy", "online_read"}) \cup Formats("mkntfs")
        \cup With({"ntfsinfo"}, {"read"})
        \cup With({"ntfslabel"}, {"read_label", "write_label", "write_uuid"})
        \cup With({"ntfsresize"}, {"check", "grow"})
        \cup With({"ntfsresize", "ntfsinfo"}, {"shrink"})
        \cup {Rule({"move"}, GPARTED, {"ntfsresize"})}
        \cup With({"ntfsclone"}, {"copy"})

reiser4 == Internal({"busy", "online_read"}) \cup Formats("mkfs.reiser4")
           \cup With({"debugfs.reiser4"}, {"read", "read_label", "read_uuid"})
           \cup With({"fsck.reiser4"}, {"check"})
           \cup CopiedWhen({"fsck.reiser4"})

reiserfs == LET resize == {"resize_reiserfs", "reiserfsck"}
            IN  Internal({"busy", "online_read"}) \cup Formats("mkreiserfs")
                \cup With({"debugreiserfs"}, {"read", "read_label"})
                \cup With({"reiserfstune"}, {"write_label", "read_uuid", "write_uuid"})
                \cup With({"reiserfsck"}, {"check"})
                \cup Growing(resize) \cup With(resize \cup {"debugreiserfs"}, {"shrink"})
                \cup CopiedWhen({"reiserfsck"})

udf == Internal({"busy", "move", "copy", "online_read"}) \cup Formats("mkudffs")
       \cup With({"udfinfo"}, {"read", "read_uuid"})
       \cup With({"udflabel"}, {"read_label", "write_label", "write_uuid"})

xfs == LET mounted == {"mount", "umount", "xfs_repair", "xfs module"}
       IN  Internal({"busy", "online_read"}) \cup Formats("mkfs.xfs")
           \cup With({"xfs_db"}, {"read", "read_label"})
           \cup With({"xfs_admin"}, {"write_label", "read_uuid", "write_uuid"})
           \cup With({"xfs_io", "xfs_io label", Linux418}, {"online_write_label"})
           \cup With({"xfs_repair"}, {"check"})
           \cup Growing(mounted \cup {"xfs_growfs"})
           \cup With(mounted \cup {"xfsdump", "xfsrestore", "mkfs.xfs"}, {"copy"})
           \cup {Rule({"move"}, GPARTED, {"xfs_repair"})}

(* The drivers there are.  Types without one can only be copied and moved. *)
SupportedFileSystems ==
  [bcachefs |-> bcachefs, btrfs |-> btrfs, exfat |-> exfat,
   ext2 |-> ext2("ext2"), ext3 |-> ext2("ext3"), ext4 |-> ext2("ext4"),
   f2fs |-> f2fs, fat |-> fat16, hfs |-> hfs, hfsplus |-> hfsplus, jfs |-> jfs,
   linux_swap |-> linux_swap, lvm2_pv |-> lvm2_pv, luks |-> luks, minix |-> minix,
   nilfs2 |-> nilfs2, ntfs |-> ntfs, reiser4 |-> reiser4, reiserfs |-> reiserfs,
   udf |-> udf, xfs |-> xfs]

BasicSupport == Internal({"move", "copy"})

supported_filesystem(fstype) == fstype \in DOMAIN SupportedFileSystems

Rules(fstype) == IF supported_filesystem(fstype) THEN SupportedFileSystems[fstype] ELSE BasicSupport

(* How the capability is done in the environment. *)
get_fs(fstype, env, cap) ==
  Max({NONE} \cup {r.how : r \in {r \in Rules(fstype) : cap \in r.caps /\ r.need \subseteq env}})

(* Everything the driver looks for at start-up. *)
LookedFor(fstype) == UNION {r.need : r \in Rules(fstype)}
=============================================================================
