------------------------------ MODULE DeviceScan ------------------------------
(***************************************************************************)
(* The scan of the devices: GParted_Core::set_devices_thread() fills a     *)
(* dozen caches one after the other and then asks them, partition by       *)
(* partition, what each holds and whether it is in use.  Meanwhile other   *)
(* programs mount, unmount, open and close what is being scanned.          *)
(*                                                                         *)
(* A block device is known by name here: Disk(p) for a partition, Crypt(p) *)
(* for the dm-crypt mapping over it.  The kernel numbers the mappings in   *)
(* the order they are opened and uses the numbers again, and the caches    *)
(* are keyed by number (BlockSpecial.cc), so a name whose number was       *)
(* remembered too long stands for another device.                          *)
(***************************************************************************)
EXTENDS Integers, Sequences, SequencesExt, MountInfo

CONSTANTS
    Sessions    \* what is on the disk, what changes and how often, see SessionOK

VARIABLES
    session,    \* the bounds of this behaviour, chosen once
    kind,       \* kind[p]: what is stored on partition p
    mapped,     \* mapped[p]: number of the open mapping over p, 0 when closed
    mounted,    \* names of the devices mounted or swapped on
    active,     \* names of the active members of an array, a VG, a bcache, a journal
    numbers,    \* BlockSpecial's mm_number_cache
    fsInfo,     \* FS_Info's fs_info_cache, see MountInfo
    mountInfo,  \* Mount_Info's mount_info
    fstabInfo,  \* Mount_Info's fstab_info
    raid,       \* SWRaid_Info's cache: the members of arrays
    btrfs,      \* btrfs_device_cache: device and its members
    lvm,        \* LVM2_PV_Info's caches: the PVs and their VGs, once loaded
    luks,       \* LUKS_Info's cache: container and name, once loaded
    at,         \* where the scan thread is, "idle" between scans
    part,       \* the partition being scanned
    picture,    \* what GParted shows of each partition
    scans, changes,
    changed,    \* history: another program changed something since the scan began
    inUse       \* history: devices in use at every moment since the scan began

world == <<session, kind, mapped, mounted, active>>
mounts == <<mountInfo, fstabInfo>>
caches == <<numbers, fsInfo, mounts, raid, btrfs, lvm, luks>>
thread == <<at, part, picture>>
history == <<scans, changes, changed, inUse>>
scanVars == <<world, caches, thread, history>>

NoNumber == <<"unread", 0>>   \* of a name not looked up yet
NotLoaded == [loaded |-> FALSE, entries |-> {}]
Loaded(entries) == [loaded |-> TRUE, entries |-> entries]
Nothing == "none"

(***************************************************************************)
(* What can be on a device: the type a user would call it, what blkid,     *)
(* libparted and GParted's own search for signatures report of it, and how *)
(* it comes to be used.  "mirror" is a member of a RAID 1 whose metadata   *)
(* is at the end, so that blkid finds the file system at its start;        *)
(* "oldluks" is a LUKS header blkid does not know; "other" is a file       *)
(* system of the kernel that GParted does not know.                        *)
(***************************************************************************)
Kind(type, blkid, parted, signature, use) ==
    [type |-> type, blkid |-> blkid, parted |-> parted,
     signature |-> signature, use |-> use]

Kinds ==
    [ext4    |-> Kind("ext4", "ext4", "ext4", Nothing, "mount"),
     swap    |-> Kind("linux-swap", "swap", "linux-swap(v1)", Nothing, "mount"),
     btrfs   |-> Kind("btrfs", "btrfs", "btrfs", "btrfs", "mount"),
     pv      |-> Kind("lvm2 pv", "LVM2_member", Nothing, "lvm2 pv", "activate"),
     luks    |-> Kind("luks", "crypto_LUKS", Nothing, "luks", "open"),
     oldluks |-> Kind("luks", Nothing, Nothing, "luks", "open"),
     raid    |-> Kind("linux-raid", "linux_raid_member", Nothing, Nothing, "activate"),
     mirror  |-> Kind("linux-raid", "ext4", "ext4", Nothing, "activate"),
     bcache  |-> Kind("bcache", "bcache", Nothing, Nothing, "activate"),
     jbd     |-> Kind("jbd", "jbd", Nothing, Nothing, "activate"),
     other   |-> Kind("unknown", "squashfs", Nothing, Nothing, "mount"),
     empty   |-> Kind("unknown", Nothing, Nothing, Nothing, Nothing)]

\* The names blkid and libparted use, and GParted's types
TypeOfName ==
    [n \in {"ext4", "btrfs", "bcache", "jbd", "swap", "linux-swap(v1)",
            "crypto_LUKS", "LVM2_member", "linux_raid_member"} |->
        CASE n \in {"swap", "linux-swap(v1)"} -> "linux-swap"
          [] n = "crypto_LUKS" -> "luks"
          [] n = "LVM2_member" -> "lvm2 pv"
          [] n = "linux_raid_member" -> "linux-raid"
          [] OTHER -> n]

Partitions == DOMAIN kind
Count == Len(kind)
Disk(p) == <<"disk", p>>
Crypt(p) == <<"crypt", p>>
Disks == {Disk(p) : p \in Partitions}
Devices == Disks \union {Crypt(p) : p \in Partitions}

\* What a line of /etc/fstab names: a UUID, a label, or a device
NamesOf(s) == ({"uuid", "label"} \X (Nat \ {0})) \union ({"disk", "crypt"} \X DOMAIN s.kinds)

\* A session: the kinds first found, those behind the encryption, the kinds
\* written later, the program which is not installed, the LUKS volumes whose
\* key is in the key ring, the UUID and label of each file system, the lines of
\* /etc/fstab, the devices other programs mount read-only, the partition
\* mounted at / by a kernel which calls it /dev/root, and the bounds: the
\* number of changes by other programs and the number of scans.
SessionOK(s) ==
    /\ DOMAIN s = {"kinds", "inner", "rewrites", "missing", "keyRing", "changes", "scans",
                   "ids", "fstab", "readonly", "root"}
    /\ s.ids \in [{"disk", "crypt"} -> [DOMAIN s.kinds -> [uuid : Nat, label : Nat]]]
    /\ s.fstab \in Seq([spec : NamesOf(s), dir : {line.dir : line \in Range(s.fstab)},
                        exists : BOOLEAN])
    /\ s.kinds \in Seq(DOMAIN Kinds) /\ s.kinds # <<>>
    /\ s.root \in 0..Len(s.kinds)
    /\ s.root # 0 => Kinds[s.kinds[s.root]].use = "mount"
    /\ s.inner \in Seq(DOMAIN Kinds)
    /\ Len(s.inner) = Len(s.kinds)
    /\ s.rewrites \subseteq DOMAIN Kinds
    /\ s.missing \in {Nothing, "mdadm", "blkid", "btrfs"}
    /\ s.keyRing \subseteq DOMAIN s.kinds
    /\ s.changes \in Nat /\ s.scans \in Nat

ASSUME SessionAssumption == \A s \in Sessions : SessionOK(s)

Installed(program) == session.missing # program
On(d) == Kinds[IF d[1] = "disk" THEN kind[d[2]] ELSE session.inner[d[2]]]
Present(d) == d[1] = "disk" \/ mapped[d[2]] # 0

\* The members of the btrfs that d belongs to: there is one such file system
BtrfsMembers == {d \in Devices : Present(d) /\ On(d).type = "btrfs"}

\* The UUID and the label blkid finds, which are those of the file system also
\* on a member of a RAID 1, and those of the array
IdOn(d) ==
    IF On(d).blkid = Nothing THEN [uuid |-> Without, label |-> Without]
    ELSE IF d[1] = "disk" /\ kind[d[2]] # session.kinds[d[2]]
         THEN [uuid |-> 50 + d[2], label |-> Without]
    ELSE session.ids[d[1]][d[2]]

ArrayOn(d) == [uuid |-> 70 + d[2], label |-> 80 + d[2], path |-> <<"md", d[2]>>]
VgOn(d) == <<"vg of " \o d[1], d[2]>>
BcacheOn(d) == <<"bcache of " \o d[1], d[2]>>

\* Where a device is mounted
MountDir(d) == IF d = Disk(session.root) THEN Root ELSE d

\* The truth about a device: mounted, active, or open
InUse(d) ==
    \/ d \in mounted \union active
    \/ d[1] = "disk" /\ mapped[d[2]] # 0
    \/ On(d).type = "btrfs" /\ BtrfsMembers \intersect mounted # {}

DevicesInUse == {d \in Devices : Present(d) /\ InUse(d)}

(***************************************************************************)
(* BlockSpecial: a device is compared by its number when it has one, and   *)
(* the number of a name is remembered from the first time it is looked up. *)
(***************************************************************************)
Stat(d) ==
    IF d[1] = "disk" THEN <<"sd", d[2]>>
    ELSE IF Present(d) THEN <<"dm", mapped[d[2]]>> ELSE d

Looked(cache, ds) ==
    [d \in DOMAIN cache |-> IF d \in ds /\ cache[d] = NoNumber THEN Stat(d) ELSE cache[d]]

clear_cache == [d \in Devices |-> NoNumber]

\* /proc/partitions lists the partitions by name; a mapping only as /dev/dm-N
RegisterBlockSpecials(cache) ==
    [d \in DOMAIN cache |-> IF d \in Disks THEN Stat(d) ELSE cache[d]]

(***************************************************************************)
(* The caches.                                                             *)
(***************************************************************************)
\* blkid prints the partitions first; mappings are asked about one by one
DeviceAt(i) == IF i <= Count THEN Disk(i) ELSE Crypt(i - Count)

BlkidEntries(cache, ds) ==
    LET found(i) == /\ Installed("blkid") /\ DeviceAt(i) \in ds
                    /\ Present(DeviceAt(i)) /\ On(DeviceAt(i)).blkid # Nothing
    IN  [i \in {i \in 1..(2 * Count) : found(i)} |->
            LET d == DeviceAt(i) IN FSEntry(d, cache[d], On(d).blkid, IdOn(d).uuid)]

With(entries, more) ==
    [i \in DOMAIN entries \union DOMAIN more |->
        IF i \in DOMAIN entries THEN entries[i] ELSE more[i]]

Keys(cache, ds) == {cache[d] : d \in ds}

IsRaid(d) == On(d).type = "linux-raid"

\* mdadm lists the members, /proc/mdstat the active ones, known or not: only
\* mdadm tells the UUID and the name of the array.  Mappings are called dm-N here.
load_swraid_info_cache ==
    LET members == {d \in Devices : Present(d) /\ IsRaid(d)}
        running == members \intersect active
    IN  {[member |-> Stat(d), active |-> d \in running,
          array |-> IF d \in running THEN {ArrayOn(d).path} ELSE {},
          uuid |-> IF Installed("mdadm") THEN ArrayOn(d).uuid ELSE Without,
          label |-> IF Installed("mdadm") THEN ArrayOn(d).label ELSE Without] :
            d \in IF Installed("mdadm") THEN members ELSE running}

is_member(path) == \E m \in raid : m.member = path
is_member_active(path) == \E m \in raid : m.member = path /\ m.active

LuksMappings(cache) ==
    {[container |-> cache[Disk(p)], name |-> Crypt(p)] :
        p \in {q \in Partitions : mapped[q] # 0}}

PhysicalVolumes(cache) ==
    {[pv |-> cache[d], vg |-> VgOn(d), active |-> d \in active] :
        d \in {e \in Devices : Present(e) /\ On(e).type = "lvm2 pv"}}

has_active_lvs(pvs, path) == \E pv \in pvs : pv.pv = path /\ pv.active
get_vg_name(pvs, path) == {pv.vg : pv \in {q \in pvs : q.pv = path}}

get_cache_entry(cache, path) ==
    {m \in cache : m.container = path}

(***************************************************************************)
(* Asking the caches about device d, whose key is "path".                  *)
(***************************************************************************)
get_fs_type(entries, path) == get_cache_entry_by_path(entries, path).type

\* The signature found at its place on the device, whatever blkid thinks of it
detect_filesystem_internal(d) ==
    IF On(d).signature # Nothing THEN On(d).signature ELSE "unknown"

\* RAID members first, then blkid, then libparted, then the signatures
detect_filesystem(entries, d, path) ==
    LET blkid == get_fs_type(entries, path)
        fsname == IF blkid # Nothing THEN blkid ELSE On(d).parted
    IN  IF is_member(path) THEN "linux-raid"
        ELSE IF fsname \in DOMAIN TypeOfName THEN TypeOfName[fsname]
        ELSE detect_filesystem_internal(d)

\* btrfs filesystem show tells all members of the file system of d
BtrfsCache(cache, d) ==
    IF ~Installed("btrfs") \/ \E e \in btrfs : e.device = cache[d] THEN btrfs
    ELSE LET members == IF On(d).type = "btrfs" THEN BtrfsMembers ELSE {}
         IN  {e \in btrfs : e.device \notin Keys(cache, members)} \union
             {[device |-> cache[m], members |-> Keys(cache, members)] : m \in members}

get_mount_device_OnlyItself(entries, path) ==
    {m \in {path} : is_dev_mounted(mountInfo, m)}

\* Without the program only the device that was mounted is found
get_mount_device(entries, path) ==
    LET known == {e \in entries : e.device = path}
        members == IF ~Installed("btrfs") \/ known = {} THEN {path}
                   ELSE UNION {e.members : e \in known}
    IN  {m \in members : is_dev_mounted(mountInfo, m)}

is_busy(fstype, d, path, entries, mappings, pvs) ==
    CASE fstype = "btrfs" -> get_mount_device(entries, path) # {}
      [] fstype = "lvm2 pv" -> has_active_lvs(pvs, path)
      [] fstype = "luks" -> get_cache_entry(mappings, path) # {}
      [] fstype = "linux-raid" -> is_member_active(path)
      [] fstype \in {"bcache", "jbd"} -> d \in active
      [] OTHER -> is_dev_mounted(mountInfo, path)

(***************************************************************************)
(* Label, UUID and mount points.                                           *)
(***************************************************************************)
Shown(fstype, busy, id, at_, readonly) ==
    [fstype |-> fstype, busy |-> busy, uuid |-> id.uuid, label |-> id.label,
     at |-> at_, readonly |-> readonly]
Unidentified == [uuid |-> Without, label |-> Without]
NoCrypt == Shown(Nothing, FALSE, Unidentified, {}, FALSE)
NotShown == [shown |-> NoCrypt, crypt |-> NoCrypt]

\* The drivers with a program of their own to read a label and a UUID
ReadsItself(fstype) ==
    fstype \in {"ext4", "linux-swap"} \/ (fstype = "btrfs" /\ Installed("btrfs"))

LabelsOn == [d \in Devices |-> IF Present(d) /\ Installed("blkid") THEN IdOn(d).label ELSE Unread]

\* set_mountpoints() gets to the mount points of /etc/fstab
LooksInFstab(fstype, busy) ==
    ~busy /\ fstype \notin {"lvm2 pv", "linux-raid", "bcache", "luks", "linux-swap", "jbd"}

\* FS_Info's cache when device d has been asked about
Asked(entries, fstype, busy, path) ==
    LET own == IF fstype = "linux-raid" \/ ReadsItself(fstype) THEN {} ELSE {path}
        all == IF LooksInFstab(fstype, busy) /\ path \notin DOMAIN fstabInfo
                  /\ LabelsWanted(DOMAIN fstabInfo)
               THEN {e.path : e \in Range(entries)} ELSE {}
    IN  run_blkid_update_cache_label(entries, own \union all, LabelsOn)

\* The driver's label first, blkid's UUID first
LabelAndUuid(fstype, d, path, entries) ==
    LET entry == get_cache_entry_by_path(entries, path)
    IN  [uuid |-> IF entry.uuid = Without /\ ReadsItself(fstype) THEN IdOn(d).uuid ELSE entry.uuid,
         label |-> IF ReadsItself(fstype) THEN IdOn(d).label
                   ELSE IF entry.label = Unread THEN Without ELSE entry.label]

\* Those of a member of an array come from mdadm alone
set_partition_label_and_uuid(fstype, d, path, entries) ==
    IF fstype = "linux-raid"
    THEN LET member == CHOOSE m \in raid : m.member = path
         IN  IF ~is_member(path) THEN Unidentified
             ELSE [uuid |-> member.uuid, label |-> member.label]
    ELSE LabelAndUuid(fstype, d, path, entries)

\* A btrfs is mounted by one of its devices
SearchPath(fstype, path) ==
    IF fstype # "btrfs" THEN path
    ELSE LET from == get_mount_device(btrfs', path)
         IN  IF from = {} THEN path ELSE CHOOSE m \in from : TRUE

set_mountpoints(fstype, d, path, busy, entries) ==
    CASE fstype = "lvm2 pv" -> get_vg_name(lvm'.entries, path)
      [] fstype = "linux-raid" -> UNION {m.array : m \in {r \in raid : r.member = path}}
      [] fstype = "bcache" -> IF d \in active THEN {BcacheOn(d)} ELSE {}
      [] fstype = "luks" -> {m.name : m \in get_cache_entry(luks'.entries, path)}
      [] fstype \in {"linux-swap", "jbd"} -> {}
      [] LooksInFstab(fstype, busy) -> find(fstabInfo, entries, path)
      [] OTHER -> MountedAt(mountInfo, SearchPath(fstype, path))

IsReadonly(fstype, path, busy) ==
    /\ busy /\ LooksInFstab(fstype, FALSE)
    /\ is_dev_mounted_readonly(mountInfo, SearchPath(fstype, path))

\* What is shown of device d, whose key is path, and what the caches are then
ShowDevice(d, fstype, path, busy, entries) ==
    LET read == Asked(entries, fstype, busy, path)
    IN  /\ fsInfo' = read
        /\ fstabInfo' = IF LooksInFstab(fstype, busy) THEN FoundAfter(fstabInfo, read, path)
                        ELSE fstabInfo
        /\ LET shown == Shown(fstype, busy, set_partition_label_and_uuid(fstype, d, path, read),
                              set_mountpoints(fstype, d, path, busy, read),
                              IsReadonly(fstype, path, busy))
           IN  picture' = IF d[1] = "disk"
                          THEN [picture EXCEPT ![d[2]] = [shown |-> shown, crypt |-> NoCrypt]]
                          ELSE [picture EXCEPT ![d[2]].crypt = shown]

(***************************************************************************)
(* The scan thread.                                                        *)
(***************************************************************************)
ScanInit ==
    /\ session \in Sessions
    /\ kind = session.kinds
    /\ mapped = [p \in Partitions |-> 0]
    /\ mounted = {Disk(p) : p \in {session.root} \ {0}} /\ active = {}
    /\ numbers = clear_cache
    /\ fsInfo = <<>> /\ mountInfo = {} /\ fstabInfo = NoMounts /\ btrfs = {} /\ raid = {}
    /\ lvm = NotLoaded /\ luks = NotLoaded
    /\ at = "start" /\ part = 1
    /\ picture = [p \in Partitions |-> NotShown]
    /\ scans = 0 /\ changes = 0 /\ changed = FALSE /\ inUse = {}
Start_NumbersKept ==
    /\ at = "start"
    /\ numbers' = RegisterBlockSpecials(numbers)
    /\ picture' = [p \in Partitions |-> NotShown]
    /\ at' = "fs" /\ part' = 1
    /\ changed' = FALSE /\ inUse' = DevicesInUse
    /\ scans' = scans + 1
    /\ UNCHANGED <<world, fsInfo, mounts, raid, btrfs, lvm, luks, changes>>

\* set_devices_thread() up to the first cache of contents
Start ==
    /\ at = "start"
    /\ numbers' = RegisterBlockSpecials(clear_cache)
    /\ picture' = [p \in Partitions |-> NotShown]
    /\ at' = "fs" /\ part' = 1
    /\ changed' = FALSE /\ inUse' = DevicesInUse
    /\ scans' = scans + 1
    /\ UNCHANGED <<world, fsInfo, mounts, raid, btrfs, lvm, luks, changes>>

LoadFsInfo ==
    /\ at = "fs"
    /\ fsInfo' = BlkidEntries(numbers, Disks)
    /\ at' = "mounts"
    /\ UNCHANGED <<world, numbers, mounts, raid, btrfs, lvm, luks, part, picture, history>>

\* /proc/mounts and /proc/swaps; the mount command tells what the kernel calls
\* /dev/root when no other device is mounted at /
MountsRead(cache) ==
    LET At(d, node) == MountEntry(node, MountDir(d), d \in session.readonly)
        Proc(d) == At(d, IF MountDir(d) = Root THEN Root ELSE cache[d])
        proc == {Proc(d) : d \in mounted}
    IN  IF session.root = 0 \/ have_rootfs_dev(proc) THEN proc
        ELSE proc \union {At(d, cache[d]) : d \in mounted}

FstabNames == {line.spec : line \in Range(session.fstab)} \intersect Devices

FstabRead(entries, cache) ==
    read_fstab(entries, [i \in DOMAIN session.fstab |->
        IF IsRef(session.fstab[i].spec) THEN session.fstab[i]
        ELSE [session.fstab[i] EXCEPT !.spec = cache[session.fstab[i].spec]]])

FstabEntries(entries) ==
    IF LabelsWanted({line.spec : line \in Range(session.fstab)})
    THEN run_blkid_update_cache_label(entries, {e.path : e \in Range(entries)}, LabelsOn)
    ELSE entries

\* Mount_Info::load_cache()
LoadMounts(named) ==
    /\ numbers' = Looked(numbers, mounted \union FstabNames \union named)
    /\ fsInfo' = FstabEntries(fsInfo)
    /\ mountInfo' = MountsRead(numbers')
    /\ fstabInfo' = FstabRead(fsInfo', numbers')

LoadMountInfo ==
    /\ at = "mounts"
    /\ LoadMounts({})
    /\ lvm' = NotLoaded /\ btrfs' = {}
    /\ at' = "raid"
    /\ UNCHANGED <<world, raid, luks, part, picture, history>>

LoadSWRaidInfo ==
    /\ at = "raid"
    /\ raid' = load_swraid_info_cache
    /\ luks' = NotLoaded
    /\ at' = "partition"
    /\ UNCHANGED <<world, numbers, fsInfo, mounts, btrfs, lvm, part, picture, history>>

\* The caches of the drivers are loaded by the first device that needs them
LoadDriverCaches(fstype, d, cache) ==
    /\ btrfs' = IF fstype = "btrfs" THEN BtrfsCache(cache, d) ELSE btrfs
    /\ lvm' = IF fstype = "lvm2 pv" /\ ~lvm.loaded THEN Loaded(PhysicalVolumes(cache)) ELSE lvm
    /\ luks' = IF fstype = "luks" /\ ~luks.loaded THEN Loaded(LuksMappings(cache)) ELSE luks

\* Every device a driver may name while it loads its cache
Named(fstype, d) ==
    {d} \union CASE fstype = "btrfs" /\ Installed("btrfs") -> BtrfsMembers
                 [] fstype = "lvm2 pv" /\ ~lvm.loaded ->
                        {e \in Devices : Present(e) /\ On(e).type = "lvm2 pv"}
                 [] OTHER -> {}

NextPartition == IF part = Count THEN at' = "idle" /\ part' = 1
                 ELSE at' = "partition" /\ part' = part + 1

\* set_device_partitions(), one partition
ScanPartition ==
    LET d == Disk(part)
        fstype == detect_filesystem(fsInfo, d, numbers[d])
    IN  /\ at = "partition"
        /\ numbers' = Looked(numbers, Named(fstype, d))
        /\ LoadDriverCaches(fstype, d, numbers')
        /\ LET busy == is_busy(fstype, d, numbers'[d], btrfs', luks'.entries, lvm'.entries)
           IN  /\ ShowDevice(d, fstype, numbers'[d], busy, fsInfo)
               /\ IF fstype = "luks" /\ busy THEN at' = "luks" /\ part' = part
                  ELSE NextPartition
        /\ UNCHANGED <<world, mountInfo, raid, history>>

\* set_luks_partition(): what is behind an open encryption, if it still is open
ScanMapping ==
    LET d == Crypt(part)
        cache == Looked(numbers, {d})
        entries == With(fsInfo, BlkidEntries(cache, {d}))
        fstype == IF Present(d) THEN detect_filesystem(entries, d, cache[d]) ELSE "unknown"
    IN  /\ at = "luks"
        /\ numbers' = Looked(cache, Named(fstype, d))
        /\ LoadDriverCaches(fstype, d, numbers')
        /\ ShowDevice(d, fstype, cache[d],
                      is_busy(fstype, d, cache[d], btrfs', luks'.entries, lvm'.entries), entries)
        /\ NextPartition
        /\ UNCHANGED <<world, mountInfo, raid, history>>

ScanStep ==
    Start \/ LoadFsInfo \/ LoadMountInfo \/ LoadSWRaidInfo \/ ScanPartition \/ ScanMapping

(***************************************************************************)
(* Other programs.                                                         *)
(***************************************************************************)
\* The lowest free number, as the kernel gives it
OpenMapping(p) ==
    LET free == {n \in 1..Count : \A q \in Partitions : mapped[q] # n}
    IN  [mapped EXCEPT ![p] = CHOOSE n \in free : \A m \in free : n <= m]

CanOpen(p) == Kinds[kind[p]].use = "open" /\ mapped[p] = 0
CanClose(p) == mapped[p] # 0 /\ ~InUse(Crypt(p))
CanUnmount(d) == d \in mounted /\ MountDir(d) # Root
CanMount(d) == Present(d) /\ On(d).use = "mount" /\ ~InUse(d)
CanActivate(d) == Present(d) /\ On(d).use = "activate" /\ d \notin active

Changed ==
    /\ changes < session.changes
    /\ changes' = changes + 1
    /\ changed' = TRUE
    /\ UNCHANGED <<session, caches, thread, scans>>
    /\ inUse' = inUse \intersect DevicesInUse'

OthersMount(d) ==
    /\ CanMount(d) /\ mounted' = mounted \union {d}
    /\ UNCHANGED <<kind, mapped, active>> /\ Changed
OthersUnmount(d) ==
    /\ CanUnmount(d) /\ mounted' = mounted \ {d}
    /\ UNCHANGED <<kind, mapped, active>> /\ Changed
OthersActivate(d) ==
    /\ CanActivate(d) /\ active' = active \union {d}
    /\ UNCHANGED <<kind, mapped, mounted>> /\ Changed
OthersDeactivate(d) ==
    /\ d \in active /\ active' = active \ {d}
    /\ UNCHANGED <<kind, mapped, mounted>> /\ Changed
OthersOpen(p) ==
    /\ CanOpen(p) /\ mapped' = OpenMapping(p)
    /\ UNCHANGED <<kind, mounted, active>> /\ Changed
OthersClose(p) ==
    /\ CanClose(p) /\ mapped' = [mapped EXCEPT ![p] = 0]
    /\ UNCHANGED <<kind, mounted, active>> /\ Changed
OthersWrite(p, k) ==
    /\ ~InUse(Disk(p)) /\ k # kind[p] /\ kind' = [kind EXCEPT ![p] = k]
    /\ UNCHANGED <<mapped, mounted, active>> /\ Changed

OtherPrograms ==
    \/ \E d \in Devices : \/ OthersMount(d) \/ OthersUnmount(d)
                          \/ OthersActivate(d) \/ OthersDeactivate(d)
    \/ \E p \in Partitions : \/ OthersOpen(p) \/ OthersClose(p)
                             \/ \E k \in session.rewrites : OthersWrite(p, k)

(***************************************************************************)
(* Properties.                                                             *)
(***************************************************************************)
Idle == at = "idle"

\* What a missing program hides, as the comments of the code admit: a RAID
\* member without mdadm while its array is stopped, what only blkid knows, and
\* the other members of a btrfs.
Hidden(d) ==
    \/ ~Installed("mdadm") /\ IsRaid(d) /\ d \notin active
    \/ ~Installed("blkid") /\ On(d).type \in {"bcache", "jbd"}
    \/ ~Installed("btrfs") /\ On(d).type = "btrfs" /\ d \notin mounted

ShownOf(d) == IF d[1] = "crypt" THEN picture[d[2]].crypt ELSE picture[d[2]].shown

\* A device in use from the beginning of the scan to its end is shown busy,
\* whatever other programs did meanwhile: what is shown idle may be formatted,
\* deleted or moved (GParted_Core.cc:1573, is_busy()).
InUseIsShownBusy ==
    Idle => \A d \in inUse : Hidden(d) \/ ShownOf(d).busy

\* When no other program changed anything since the scan began, every
\* partition and every open encryption is shown with its type and its use,
\* none is shown busy that is not, and no mapping is shown that is closed
\* (BlockSpecial.cc:45, FS_Info.cc:79, LUKS_Info.cc:57).
PictureIsTrue ==
    Idle /\ ~changed =>
        /\ \A d \in Devices : Present(d) => \/ Hidden(d)
                                           \/ /\ ShownOf(d).fstype = On(d).type
                                              /\ ShownOf(d).busy = InUse(d)
        /\ \A p \in Partitions : mapped[p] = 0 => picture[p].crypt = NoCrypt

\* The mount points of /etc/fstab a line gives a device
Means(line, d) ==
    \/ line.spec = d
    \/ /\ Installed("blkid")
       /\ line.spec \in {<<"uuid", IdOn(d).uuid>>, <<"label", IdOn(d).label>>}

FstabLines(d) == {line \in Range(session.fstab) : line.exists /\ Means(line, d)}

\* A line that means one device only; of several which mean the same open
\* encryption the last one found replaces the others, as the code has it
OnlyMeans(line, d) ==
    /\ \A e \in Devices : Present(e) /\ Means(line, e) => e = d
    /\ d[1] = "crypt" => FstabLines(d) = {line}

\* Where the device really is: where its file system is mounted, the volume
\* group, the array, the bcache or the mapping it is part of
TrueDirs(d) ==
    CASE On(d).type = "btrfs" -> {MountDir(m) : m \in BtrfsMembers \intersect mounted}
      [] On(d).type = "lvm2 pv" -> {VgOn(d)}
      [] On(d).type = "linux-raid" -> IF d \in active THEN {ArrayOn(d).path} ELSE {}
      [] On(d).type = "bcache" -> IF d \in active THEN {BcacheOn(d)} ELSE {}
      [] On(d).type = "luks" -> IF d[1] = "disk" /\ mapped[d[2]] # 0 THEN {Crypt(d[2])} ELSE {}
      [] On(d).type \in {"linux-swap", "jbd"} -> {}
      [] OTHER -> {MountDir(d)} \intersect {MountDir(m) : m \in mounted}

\* What is shown of a device is its own and no other's: in use, where it is
\* mounted, and read-only when it is; idle, where a line of /etc/fstab would
\* mount it
DetailedAs(d, shown) ==
    LET idle == LooksInFstab(shown.fstype, shown.busy)
        id == IF IsRaid(d) THEN ArrayOn(d) ELSE IdOn(d)
    IN  /\ ~idle => shown.at = TrueDirs(d)
        /\ idle => /\ shown.at \subseteq {line.dir : line \in FstabLines(d)}
                   /\ \A line \in FstabLines(d) : OnlyMeans(line, d) => line.dir \in shown.at
        /\ {shown.uuid, shown.label} \subseteq {id.uuid, id.label, Without}
        /\ Installed("mdadm") /\ Installed("blkid") =>
                shown.uuid = id.uuid /\ shown.label = id.label
        /\ shown.readonly <=> \E m \in mounted \intersect session.readonly :
                /\ LooksInFstab(shown.fstype, FALSE)
                /\ m = d \/ {m, d} \subseteq BtrfsMembers

\* When no other program changed anything since the scan began, a device is
\* shown with the mount points, the label and the UUID that are its own and
\* with no other's, whether a line of /etc/fstab was resolved when the file was
\* read or, for an open encryption, only later
\* (Mount_Info.cc:263, GParted_Core.cc:1468, 1014).
DetailsAreTrue ==
    Idle /\ ~changed =>
        \A d \in Devices : Present(d) /\ ~Hidden(d) => DetailedAs(d, ShownOf(d))
=============================================================================
