--------------------------- MODULE AdbBackend_proofs ---------------------------
(***************************************************************************)
(* Proofs that a scan all of whose commands were answered shows the phone  *)
(* as it is, and what is mounted as busy, for every table, every listing   *)
(* of mounts and every number of pulled cables; and that a queue all of    *)
(* whose commands were answered leaves the table it stands for.            *)
(***************************************************************************)
EXTENDS AdbBackend, WellFoundedInduction, TLAPS

----------------------------------------------------------------------------
(* What the parsers return.                                                *)

\* Of a node of the phone, GParted takes the disk and no partition for a disk.
LEMMA DisksAreFound ==
    ASSUME NEW p \in Phones
    PROVE  {d \in p.nodes : is_disk_device(d)} = {p.disk}
<1>1. /\ p.disk \in p.nodes /\ IsDisk(p.disk)
      /\ \A d \in p.nodes \ {p.disk} : IsPartition(d) \/ d.kind \in {"loop", "dm-", "zram"}
  BY AdbAssumption DEF AdbAssumption, PhoneOK
<1>2. is_disk_device(p.disk)
  <2>1. /\ p.disk.kind \in {"sd", "vd", "hd"} \union {"mmcblk", "nvme"}
        /\ ~p.disk.p /\ p.disk.digit = (p.disk.kind \in {"mmcblk", "nvme"})
    BY <1>1 DEF IsDisk, Numbered
  <2>2. p.disk.digit => p.disk.kind \in {"mmcblk", "nvme"}
    BY <2>1, Zenon
  <2> QED
    BY <2>1, <2>2 DEF is_disk_device
<1>3. ASSUME NEW d \in p.nodes, is_disk_device(d), d # p.disk PROVE FALSE
  <2>1. IsPartition(d)
    BY <1>1, <1>3 DEF is_disk_device
  <2>2. CASE d.kind \in Numbered
    BY <1>3, <2>1, <2>2, Zenon DEF is_disk_device, IsPartition
  <2>3. CASE d.kind \notin Numbered
    BY <1>3, <2>1, <2>3, Zenon DEF is_disk_device, IsPartition, Numbered
  <2> QED
    BY <2>2, <2>3
<1> QED
  BY <1>1, <1>2, <1>3

\* A name of a file system is understood or not recognised, and never taken for
\* that of another.
LEMMA TypeIsRight ==
    ASSUME NEW h \in Holdings, NEW text \in {h.parted, h.blkid, h.kernel}
    PROVE  parse_fs_type(text) \in {h.type, Unknown}
<1>1. h.type \in Types /\ text \in Spellings(h.type)
  BY DEF Holdings
<1> QED
  BY <1>1 DEF Types, Spellings, parse_fs_type, Unknown

\* The names of partitions which GParted makes up are those of the kernel where
\* the disk's name does not end in a digit, and no name is given twice.
LEMMA PathsDiffer ==
    ASSUME NEW m, NEW n, PathOf(n) = KernelPath(m)
    PROVE  m = n
BY DEF PathOf, KernelPath

----------------------------------------------------------------------------
(* One lemma per action.                                                   *)

\* A scan begins with nothing claimed.
LEMMA StartScanKeeps ==
    ASSUME IInv, StartScan
    PROVE  IInv'
<1> USE DEF StartScan, external, thread, applying
<1>1. TypeOK'
  <2>1. bounds' \in [plugs : Nat, refusals : Nat, mounts : Nat, scans : Nat]
    BY DEF IInv, TypeOK, IsTable
  <2> QED
    BY <2>1 DEF IInv, TypeOK, IsTable, EmptyCache, NoDevice
<1>2. CacheInv'
  BY DEF IInv, TypeOK, IsTable, CacheInv, KernelPath
<1>3. MountsInv'
  BY DEF IInv, TypeOK, IsTable, MountsInv, KernelPath
<1>4. ScanningInv'
  BY DEF IInv, TypeOK, IsTable, ScanningInv, ShowsTable
<1>5. PictureIsTrue' /\ MountedShownBusy'
  BY DEF IInv, TypeOK, IsTable, PictureIsTrue, MountedShownBusy, Shown, ShowsTable
<1> QED
  BY <1>1, <1>2, <1>3, <1>4, <1>5 DEF IInv

\* The tables are read.
LEMMA print_allKeeps ==
    ASSUME IInv, print_all
    PROVE  IInv'
<1> USE DEF print_all, Asked, external, thread, applying
<1>1. TypeOK'
  BY DEF IInv, TypeOK, IsTable
<1>2. CacheInv'
  <2> SUFFICES ASSUME answered' PROVE scanning'.devices = {phone.disk} /\ cache'.table = table
    BY DEF CacheInv
  <2>1. Reply = "answered"
    OBVIOUS
  <2>2. {d \in phone.nodes : is_disk_device(d)} = {phone.disk}
    BY DisksAreFound DEF IInv, TypeOK, IsTable
  <2> QED
    BY <2>1, <2>2 DEF IInv, TypeOK, IsTable
<1>3. MountsInv'
  BY DEF IInv, TypeOK, IsTable, MountsInv, KernelPath
<1>4. ScanningInv'
  BY DEF IInv, TypeOK, IsTable, ScanningInv, ShowsTable
<1>5. PictureIsTrue' /\ MountedShownBusy'
  BY DEF IInv, TypeOK, IsTable, PictureIsTrue, MountedShownBusy, Shown, ShowsTable
<1> QED
  BY <1>1, <1>2, <1>3, <1>4, <1>5 DEF IInv

\* The first listing of mounts.
LEMMA ReadProcMountsKeeps ==
    ASSUME IInv, ReadProcMounts
    PROVE  IInv'
<1> USE DEF ReadProcMounts, Asked, external, thread, applying
<1>1. TypeOK'
  BY DEF IInv, TypeOK, IsTable
<1>2. CacheInv'
  <2>1. Listed("proc") \subseteq {<<KernelPath(n), table[n].holds.kernel>> : n \in mounted}
    BY DEF Listed
  <2>2. cache'.types = Listed("proc") /\ cache'.table = cache.table
    BY DEF IInv, TypeOK, IsTable
  <2> QED
    BY <2>1, <2>2 DEF IInv, TypeOK, IsTable, CacheInv, KernelPath
<1>3. MountsInv'
  <2> SUFFICES ASSUME answered', phone.listing # "mount", NEW n \in stayed
               PROVE  KernelPath(n) \in cache'.mounts
    BY DEF IInv, MountsInv, KernelPath
  <2>1. phone.listing \in {"proc", "mount", "both"}
    BY AdbAssumption DEF IInv, TypeOK, IsTable, AdbAssumption, PhoneOK
  <2>2. Listed("proc") = {<<KernelPath(m), table[m].holds.kernel>> : m \in mounted}
    BY <2>1 DEF Listed
  <2>3. n \in mounted
    BY DEF IInv, MountsInv
  <2>4. <<KernelPath(n), table[n].holds.kernel>> \in Listed("proc")
    BY <2>2, <2>3
  <2>5. cache'.mounts = {m[1] : m \in Listed("proc")}
    BY DEF IInv, TypeOK, IsTable
  <2> QED
    BY <2>4, <2>5
<1>4. ScanningInv'
  BY DEF IInv, TypeOK, IsTable, ScanningInv, ShowsTable
<1>5. PictureIsTrue' /\ MountedShownBusy'
  BY DEF IInv, TypeOK, IsTable, PictureIsTrue, MountedShownBusy, Shown, ShowsTable
<1> QED
  BY <1>1, <1>2, <1>3, <1>4, <1>5 DEF IInv

\* The second listing of mounts.
LEMMA ReadMountKeeps ==
    ASSUME IInv, ReadMount
    PROVE  IInv'
<1> USE DEF ReadMount, Asked, external, thread, applying
<1>1. TypeOK'
  BY DEF IInv, TypeOK, IsTable
<1>2. CacheInv'
  <2>1. Listed("mount") \subseteq {<<KernelPath(n), table[n].holds.kernel>> : n \in mounted}
    BY DEF Listed
  <2>2. cache'.types \subseteq cache.types \union Listed("mount") /\ cache'.table = cache.table
    BY DEF IInv, TypeOK, IsTable
  <2> QED
    BY <2>1, <2>2 DEF IInv, TypeOK, IsTable, CacheInv, KernelPath
<1>3. MountsInv'
  <2> SUFFICES ASSUME answered', NEW n \in stayed
               PROVE  KernelPath(n) \in cache'.mounts
    BY DEF IInv, MountsInv, KernelPath
  <2> DEFINE more == {m \in Listed("mount") : m[1] \notin cache.mounts}
  <2>1. cache'.mounts = cache.mounts \union {m[1] : m \in more}
    BY DEF IInv, TypeOK, IsTable
  <2>2. CASE phone.listing # "mount"
    BY <2>1, <2>2 DEF IInv, MountsInv
  <2>3. CASE phone.listing = "mount"
    <3>1. Listed("mount") = {<<KernelPath(m), table[m].holds.kernel>> : m \in mounted}
      BY <2>3 DEF Listed
    <3>2. n \in mounted
      BY DEF IInv, MountsInv
    <3>3. <<KernelPath(n), table[n].holds.kernel>> \in Listed("mount")
      BY <3>1, <3>2
    <3>4. <<KernelPath(n), table[n].holds.kernel>>[1] = KernelPath(n)
      OBVIOUS
    <3>5. CASE KernelPath(n) \in cache.mounts
      BY <2>1, <3>5
    <3>6. CASE KernelPath(n) \notin cache.mounts
      BY <2>1, <3>3, <3>4, <3>6
    <3> QED
      BY <3>5, <3>6
  <2> QED
    BY <2>2, <2>3
<1>4. ScanningInv'
  BY DEF IInv, TypeOK, IsTable, ScanningInv, ShowsTable
<1>5. PictureIsTrue' /\ MountedShownBusy'
  <2>1. at' = "idle" => ~answered'
    BY DEF IInv, CacheInv
  <2> QED
    BY <2>1 DEF PictureIsTrue, MountedShownBusy, Shown
<1> QED
  BY <1>1, <1>2, <1>3, <1>4, <1>5 DEF IInv

\* Table, mounts and blkid become the device.
LEMMA set_device_from_diskKeeps ==
    ASSUME IInv, set_device_from_disk
    PROVE  IInv'
<1> USE DEF set_device_from_disk, Asked, external, thread, applying
<1>1. TypeOK'
  BY ZenonT(60) DEF IInv, TypeOK, IsTable
<1>2. CacheInv'
  BY DEF IInv, TypeOK, IsTable, CacheInv, KernelPath
<1>3. MountsInv'
  BY DEF IInv, TypeOK, IsTable, MountsInv, KernelPath
<1>4. ScanningInv'
  <2> SUFFICES ASSUME answered'
               PROVE  /\ \A n \in DOMAIN scanning'.parts : IsPart(scanning'.parts[n])
                      /\ ShowsTable(scanning)'
                      /\ phone.plain => \A n \in stayed \cap DOMAIN scanning'.parts :
                                           scanning'.parts[n].busy
    BY DEF ScanningInv
  <2> DEFINE parsed == parse_partitions(table)
             Part(n) == [parsed[n] EXCEPT
                            !.type = TypeAfterMounts(n, TypeAfterBlkid(n, @)),
                            !.busy = IsMounted(n)]
  <2>1. answered /\ cache.table = table /\ scanning.devices = {phone.disk}
    BY DEF IInv, CacheInv
  <2>2. /\ scanning'.parts = [n \in DOMAIN parsed |-> Part(n)]
        /\ scanning'.devices = {phone.disk}
    BY <2>1 DEF IInv, TypeOK, IsTable
  <2>3. DOMAIN parsed = DOMAIN table
    BY DEF parse_partitions
  <2>4. ASSUME NEW n \in DOMAIN table
        PROVE  /\ IsPart(Part(n))
               /\ Part(n).start = table[n].start /\ Part(n).end = table[n].end
               /\ Part(n).busy = IsMounted(n)
               /\ Part(n).type = TypeAfterMounts(n, TypeAfterBlkid(n,
                                     parse_fs_type(table[n].holds.parted)))
    BY <2>4 DEF parse_partitions, IsPart
  <2>5. ASSUME NEW n \in DOMAIN table
        PROVE  TypeAfterMounts(n, TypeAfterBlkid(n, parse_fs_type(table[n].holds.parted)))
                   \in {table[n].holds.type, Unknown}
    <3>1. table[n].holds \in Holdings
      BY DEF IInv, TypeOK, IsTable
    <3>2. TypeAfterBlkid(n, parse_fs_type(table[n].holds.parted))
              \in {table[n].holds.type, Unknown}
      BY <3>1, TypeIsRight DEF TypeAfterBlkid
    <3> DEFINE known == \E m \in cache.types : m[1] = PathOf(n)
               mount == CHOOSE m \in cache.types : m[1] = PathOf(n)
    <3>3. ASSUME known PROVE parse_fs_type(mount[2]) \in {table[n].holds.type, Unknown}
      <4>1. mount \in cache.types /\ mount[1] = PathOf(n)
        BY <3>3
      <4>2. PICK k \in DOMAIN table : mount = <<KernelPath(k), table[k].holds.kernel>>
        BY <2>1, <4>1 DEF IInv, CacheInv
      <4> HIDE DEF mount
      <4>3. KernelPath(k) = PathOf(n) /\ mount[2] = table[k].holds.kernel
        BY <4>1, <4>2
      <4>4. k = n
        BY <4>3, PathsDiffer
      <4> QED
        BY <3>1, <4>3, <4>4, TypeIsRight
    <3> QED
      BY <3>2, <3>3 DEF TypeAfterMounts
  <2>6. ASSUME phone.plain, NEW n \in stayed PROVE IsMounted(n)
    BY <2>1, <2>6 DEF IInv, MountsInv, IsMounted, KernelPath, PathOf
  <2> HIDE DEF parsed, Part
  <2>7. DOMAIN scanning'.parts = DOMAIN table
    BY <2>2, <2>3
  <2>8. \A n \in DOMAIN table : scanning'.parts[n] = Part(n)
    BY <2>2, <2>3
  <2>9. UNCHANGED <<phone, table, stayed>>
    OBVIOUS
  <2> HIDE DEF set_device_from_disk, Asked, external, thread, applying
  <2>10. ShowsTable(scanning)'
    BY <2>2, <2>4, <2>5, <2>7, <2>8, <2>9 DEF ShowsTable
  <2>11. \A n \in DOMAIN scanning'.parts : IsPart(scanning'.parts[n])
    BY <2>4, <2>7, <2>8
  <2> QED
    BY <2>4, <2>6, <2>7, <2>8, <2>10, <2>11
<1>5. PictureIsTrue' /\ MountedShownBusy'
  BY DEF IInv, TypeOK, IsTable, PictureIsTrue, MountedShownBusy, Shown, ShowsTable
<1> QED
  BY <1>1, <1>2, <1>3, <1>4, <1>5 DEF IInv

\* The usage of a partition leaves the rest of it alone.
LEMMA set_used_sectorsKeeps ==
    ASSUME IInv, set_used_sectors
    PROVE  IInv'
<1> USE DEF set_used_sectors, Asked, external, thread, applying
<1>1. TypeOK'
  BY ZenonT(60) DEF IInv, TypeOK, IsTable
<1>2. CacheInv'
  BY DEF IInv, TypeOK, IsTable, CacheInv, KernelPath
<1>3. MountsInv'
  BY DEF IInv, TypeOK, IsTable, MountsInv, KernelPath
<1>4. ScanningInv'
  <2> SUFFICES ASSUME answered', scanning' # scanning
               PROVE  ScanningInv'
    BY DEF IInv, ScanningInv, ShowsTable
  <2> DEFINE n == Min(todo)
  <2>1. answered /\ scanning' = [scanning EXCEPT !.parts[n].usage = UsageOf(n)]
    BY DEF UsageOf
  <2> HIDE DEF n
  <2>2. /\ \A m \in DOMAIN scanning.parts : IsPart(scanning.parts[m])
        /\ ShowsTable(scanning)
        /\ phone.plain => \A m \in stayed \cap DOMAIN scanning.parts : scanning.parts[m].busy
    BY <2>1 DEF IInv, ScanningInv
  <2>3. /\ scanning'.devices = scanning.devices
        /\ scanning'.parts = [scanning.parts EXCEPT
                                 ![n] = [scanning.parts[n] EXCEPT !.usage = UsageOf(n)]]
    BY <2>1 DEF IInv, TypeOK, IsTable
  <2>4. DOMAIN scanning'.parts = DOMAIN scanning.parts
    BY <2>3
  <2>5. ASSUME NEW m \in DOMAIN scanning.parts
        PROVE  /\ DOMAIN scanning'.parts[m] = DOMAIN scanning.parts[m]
               /\ \A field \in {"start", "end", "type", "busy"} :
                    scanning'.parts[m][field] = scanning.parts[m][field]
    BY <2>2, <2>3 DEF IsPart
  <2> QED
    BY <2>2, <2>3, <2>4, <2>5 DEF ScanningInv, ShowsTable, IsPart
<1>5. PictureIsTrue' /\ MountedShownBusy'
  BY DEF IInv, TypeOK, IsTable, PictureIsTrue, MountedShownBusy, Shown, ShowsTable
<1> QED
  BY <1>1, <1>2, <1>3, <1>4, <1>5 DEF IInv

\* What was filled in is shown.
LEMMA EndScanKeeps ==
    ASSUME IInv, EndScan
    PROVE  IInv'
<1> USE DEF EndScan, external, thread, applying
<1>1. TypeOK'
  BY DEF IInv, TypeOK, IsTable
<1>2. CacheInv'
  BY DEF IInv, TypeOK, IsTable, CacheInv, KernelPath
<1>3. MountsInv'
  BY DEF IInv, TypeOK, IsTable, MountsInv, KernelPath
<1>4. ScanningInv'
  BY DEF IInv, TypeOK, IsTable, ScanningInv, ShowsTable
<1>5. PictureIsTrue' /\ MountedShownBusy'
  BY DEF IInv, TypeOK, IsTable, ScanningInv, PictureIsTrue, MountedShownBusy, Shown, ShowsTable
<1> QED
  BY <1>1, <1>2, <1>3, <1>4, <1>5 DEF IInv

\* Queueing changes neither phone nor picture.
LEMMA QueueOperationKeeps ==
    ASSUME IInv, QueueOperation
    PROVE  IInv'
<1> USE DEF QueueOperation, external, thread, applying
<1>1. TypeOK'
  BY DEF IInv, TypeOK, IsTable
<1>2. CacheInv'
  BY DEF IInv, TypeOK, IsTable, CacheInv, KernelPath
<1>3. MountsInv'
  BY DEF IInv, TypeOK, IsTable, MountsInv, KernelPath
<1>4. ScanningInv'
  BY DEF IInv, TypeOK, IsTable, ScanningInv, ShowsTable
<1>5. PictureIsTrue' /\ MountedShownBusy'
  BY DEF IInv, TypeOK, IsTable, PictureIsTrue, MountedShownBusy, Shown, ShowsTable
<1> QED
  BY <1>1, <1>2, <1>3, <1>4, <1>5 DEF IInv

\* Nothing is claimed while the queue is applied.
LEMMA ApplyQueueKeeps ==
    ASSUME IInv, ApplyQueue
    PROVE  IInv'
<1> USE DEF ApplyQueue, Begin, external, thread, applying
<1>1. TypeOK'
  BY DEF IInv, TypeOK, IsTable
<1>2. CacheInv'
  BY DEF IInv, TypeOK, IsTable, CacheInv, KernelPath
<1>3. MountsInv'
  BY DEF IInv, TypeOK, IsTable, MountsInv, KernelPath
<1>4. ScanningInv'
  BY DEF IInv, TypeOK, IsTable, ScanningInv, ShowsTable
<1>5. PictureIsTrue' /\ MountedShownBusy'
  BY DEF IInv, TypeOK, IsTable, PictureIsTrue, MountedShownBusy, Shown, ShowsTable
<1> QED
  BY <1>1, <1>2, <1>3, <1>4, <1>5 DEF IInv

\* Nor while a disklabel is written.
LEMMA set_disklabelKeeps ==
    ASSUME IInv, set_disklabel
    PROVE  IInv'
<1> USE DEF set_disklabel, Begin, external, thread, applying
<1>1. TypeOK'
  BY DEF IInv, TypeOK, IsTable
<1>2. CacheInv'
  BY DEF IInv, TypeOK, IsTable, CacheInv, KernelPath
<1>3. MountsInv'
  BY DEF IInv, TypeOK, IsTable, MountsInv, KernelPath
<1>4. ScanningInv'
  BY DEF IInv, TypeOK, IsTable, ScanningInv, ShowsTable
<1>5. PictureIsTrue' /\ MountedShownBusy'
  BY DEF IInv, TypeOK, IsTable, PictureIsTrue, MountedShownBusy, Shown, ShowsTable
<1> QED
  BY <1>1, <1>2, <1>3, <1>4, <1>5 DEF IInv

\* A failure ends the queue and not a scan.
LEMMA DriverFailsKeeps ==
    ASSUME IInv, DriverFails
    PROVE  IInv'
<1> USE DEF DriverFails, Fails, external, thread, applying
<1>1. TypeOK'
  BY DEF IInv, TypeOK, IsTable
<1>2. CacheInv'
  BY DEF IInv, TypeOK, IsTable, CacheInv, KernelPath
<1>3. MountsInv'
  BY DEF IInv, TypeOK, IsTable, MountsInv, KernelPath
<1>4. ScanningInv'
  BY DEF IInv, TypeOK, IsTable, ScanningInv, ShowsTable
<1>5. PictureIsTrue' /\ MountedShownBusy'
  BY DEF IInv, TypeOK, IsTable, PictureIsTrue, MountedShownBusy, Shown, ShowsTable
<1> QED
  BY <1>1, <1>2, <1>3, <1>4, <1>5 DEF IInv

\* What parted makes of a table is a table.
LEMMA EditedIsTable ==
    ASSUME NEW parts, IsTable(parts), NEW c
    PROVE  IsTable(Edited(parts, c))
<1>1. Blank \in Holdings
  <2>1. "" \in Spellings(Unknown) /\ "" \in Names
    BY DEF Spellings, Names, Types
  <2>2. Blank = [type |-> Unknown, parted |-> "", blkid |-> "", kernel |-> ""]
    BY DEF Blank, Holds
  <2>3. Blank \in [type : Types, parted : Names, blkid : Names, kernel : Names]
    <3>1. Unknown \in Types
      BY DEF Types
    <3> QED
      BY <2>1, <2>2, <3>1
  <2> QED
    BY <2>1, <2>2, <2>3 DEF Holdings
<1>2. CASE c.name = "rm"
  BY <1>2 DEF IsTable, Edited
<1>3. CASE c.name = "resizepart"
  BY <1>3 DEF IsTable, Edited
<1>4. CASE c.name = "move"
  <2>1. Edited(parts, c) = [parts EXCEPT ![c.n].start = c.start, ![c.n].end = c.end]
    BY <1>4 DEF Edited
  <2>2. CASE c.n \notin DOMAIN parts
    BY <2>1, <2>2 DEF IsTable
  <2>3. CASE c.n \in DOMAIN parts
    <3>1. Edited(parts, c) = [parts EXCEPT ![c.n] = [parts[c.n] EXCEPT !.start = c.start, !.end = c.end]]
      BY <2>1, <2>3 DEF IsTable
    <3>2. DOMAIN [parts[c.n] EXCEPT !.start = c.start, !.end = c.end] = {"start", "end", "holds"}
      BY <2>3 DEF IsTable
    <3>3. [parts[c.n] EXCEPT !.start = c.start, !.end = c.end].holds \in Holdings
      BY <2>3 DEF IsTable
    <3> QED
      BY <2>3, <3>1, <3>2, <3>3 DEF IsTable
  <2> QED
    BY <2>2, <2>3
<1>5. CASE c.name = "mkpart"
  <2> DEFINE number == Min(Numbers \ DOMAIN parts)
  <2>1. Edited(parts, c) = [n \in DOMAIN parts \union {number} |->
            IF n = number THEN [start |-> c.start, end |-> c.end, holds |-> Blank]
            ELSE parts[n]]
    BY <1>5 DEF Edited
  <2> HIDE DEF number
  <2> QED
    BY <1>1, <2>1 DEF IsTable
<1>6. CASE c.name = "mklabel"
  BY <1>6 DEF IsTable, Edited
<1>7. CASE c.name \notin {"rm", "resizepart", "move", "mkpart", "mklabel"}
  BY <1>7 DEF IsTable, Edited
<1> QED
  BY <1>2, <1>3, <1>4, <1>5, <1>6, <1>7

\* The table changes while nothing is claimed about it.
LEMMA PartedRunsKeeps ==
    ASSUME IInv, PartedRuns
    PROVE  IInv'
<1> USE DEF PartedRuns, GivesCommand, Succeeds, Fails, external, thread, applying
<1>1. TypeOK'
  <2>1. bounds' \in [plugs : Nat, refusals : Nat, mounts : Nat, scans : Nat]
    BY DEF IInv, TypeOK, IsTable
  <2>2. IsTable(table')
    BY EditedIsTable DEF IInv, TypeOK, IsTable
  <2>3. linked' \in BOOLEAN /\ answered' \in BOOLEAN
    BY DEF IInv, TypeOK, IsTable
  <2> QED
    BY <2>1, <2>2, <2>3 DEF IInv, TypeOK, IsTable
<1>2. CacheInv'
  BY DEF IInv, TypeOK, IsTable, CacheInv, KernelPath
<1>3. MountsInv'
  BY DEF IInv, TypeOK, IsTable, MountsInv, KernelPath
<1>4. ScanningInv'
  BY DEF IInv, TypeOK, IsTable, ScanningInv, ShowsTable
<1>5. PictureIsTrue' /\ MountedShownBusy'
  BY DEF IInv, TypeOK, IsTable, PictureIsTrue, MountedShownBusy, Shown, ShowsTable
<1> QED
  BY <1>1, <1>2, <1>3, <1>4, <1>5 DEF IInv

\* A refusal ends the queue and not a scan.
LEMMA PartedRefusesKeeps ==
    ASSUME IInv, PartedRefuses
    PROVE  IInv'
<1> USE DEF PartedRefuses, Fails, GivesCommand, Asked, external, thread, applying
<1>1. TypeOK'
  BY DEF IInv, TypeOK, IsTable
<1>2. CacheInv'
  BY DEF IInv, TypeOK, IsTable, CacheInv, KernelPath
<1>3. MountsInv'
  BY DEF IInv, TypeOK, IsTable, MountsInv, KernelPath
<1>4. ScanningInv'
  BY DEF IInv, TypeOK, IsTable, ScanningInv, ShowsTable
<1>5. PictureIsTrue' /\ MountedShownBusy'
  BY DEF IInv, TypeOK, IsTable, PictureIsTrue, MountedShownBusy, Shown, ShowsTable
<1> QED
  BY <1>1, <1>2, <1>3, <1>4, <1>5 DEF IInv

\* A lost command changes nothing on the phone.
LEMMA CommandLostKeeps ==
    ASSUME IInv, CommandLost
    PROVE  IInv'
<1> USE DEF CommandLost, GivesCommand, Succeeds, Asked, external, thread, applying
<1>1. TypeOK'
  BY DEF IInv, TypeOK, IsTable
<1>2. CacheInv'
  BY DEF IInv, TypeOK, IsTable, CacheInv, KernelPath
<1>3. MountsInv'
  BY DEF IInv, TypeOK, IsTable, MountsInv, KernelPath
<1>4. ScanningInv'
  BY DEF IInv, TypeOK, IsTable, ScanningInv, ShowsTable
<1>5. PictureIsTrue' /\ MountedShownBusy'
  BY DEF IInv, TypeOK, IsTable, PictureIsTrue, MountedShownBusy, Shown, ShowsTable
<1> QED
  BY <1>1, <1>2, <1>3, <1>4, <1>5 DEF IInv

\* Nor does one which was refused in other words.
LEMMA RefusedUnseenKeeps ==
    ASSUME IInv, RefusedUnseen
    PROVE  IInv'
<1> USE DEF RefusedUnseen, GivesCommand, Succeeds, external, thread, applying
<1>1. TypeOK'
  <2>1. bounds' \in [plugs : Nat, refusals : Nat, mounts : Nat, scans : Nat]
    BY DEF IInv, TypeOK
  <2>2. at' = "apply" /\ answered' \in BOOLEAN /\ UNCHANGED <<external, cache, todo, scanning, picture, stayed>>
    OBVIOUS
  <2> HIDE DEF RefusedUnseen
  <2> QED
    BY <2>1, <2>2 DEF IInv, TypeOK, IsTable
<1>2. CacheInv'
  BY DEF IInv, TypeOK, IsTable, CacheInv, KernelPath
<1>3. MountsInv'
  BY DEF IInv, TypeOK, IsTable, MountsInv, KernelPath
<1>4. ScanningInv'
  BY DEF IInv, TypeOK, IsTable, ScanningInv, ShowsTable
<1>5. PictureIsTrue' /\ MountedShownBusy'
  BY DEF IInv, TypeOK, IsTable, PictureIsTrue, MountedShownBusy, Shown, ShowsTable
<1> QED
  BY <1>1, <1>2, <1>3, <1>4, <1>5 DEF IInv

\* The next operation, or the end of the queue.
LEMMA NextOperationKeeps ==
    ASSUME IInv, NextOperation
    PROVE  IInv'
<1> USE DEF NextOperation, external, thread, applying
<1>1. TypeOK'
  BY DEF IInv, TypeOK, IsTable
<1>2. CacheInv'
  BY DEF IInv, TypeOK, IsTable, CacheInv, KernelPath
<1>3. MountsInv'
  BY DEF IInv, TypeOK, IsTable, MountsInv, KernelPath
<1>4. ScanningInv'
  BY DEF IInv, TypeOK, IsTable, ScanningInv, ShowsTable
<1>5. PictureIsTrue' /\ MountedShownBusy'
  BY DEF IInv, TypeOK, IsTable, PictureIsTrue, MountedShownBusy, Shown, ShowsTable
<1> QED
  BY <1>1, <1>2, <1>3, <1>4, <1>5 DEF IInv

\* The cable does not matter to what was answered.
LEMMA PullKeeps ==
    ASSUME IInv, Pull
    PROVE  IInv'
<1> USE DEF Pull, external, thread, applying
<1>1. TypeOK'
  <2>1. bounds' \in [plugs : Nat, refusals : Nat, mounts : Nat, scans : Nat]
    BY DEF IInv, TypeOK, IsTable
  <2> QED
    BY <2>1, ZenonT(60) DEF IInv, TypeOK, IsTable
<1>2. CacheInv'
  BY DEF IInv, TypeOK, IsTable, CacheInv, KernelPath
<1>3. MountsInv'
  BY DEF IInv, TypeOK, IsTable, MountsInv, KernelPath
<1>4. ScanningInv'
  BY DEF IInv, TypeOK, IsTable, ScanningInv, ShowsTable
<1>5. PictureIsTrue' /\ MountedShownBusy'
  BY DEF IInv, TypeOK, IsTable, PictureIsTrue, MountedShownBusy, Shown, ShowsTable
<1> QED
  BY <1>1, <1>2, <1>3, <1>4, <1>5 DEF IInv

\* Nor does another mode of the phone.
LEMMA PlugKeeps ==
    ASSUME IInv, Plug
    PROVE  IInv'
<1> USE DEF Plug, external, thread, applying
<1>1. TypeOK'
  BY DEF IInv, TypeOK, IsTable
<1>2. CacheInv'
  BY DEF IInv, TypeOK, IsTable, CacheInv, KernelPath
<1>3. MountsInv'
  BY DEF IInv, TypeOK, IsTable, MountsInv, KernelPath
<1>4. ScanningInv'
  BY DEF IInv, TypeOK, IsTable, ScanningInv, ShowsTable
<1>5. PictureIsTrue' /\ MountedShownBusy'
  BY DEF IInv, TypeOK, IsTable, PictureIsTrue, MountedShownBusy, Shown, ShowsTable
<1> QED
  BY <1>1, <1>2, <1>3, <1>4, <1>5 DEF IInv

\* What is mounted later has not been mounted all the time.
LEMMA MountsKeeps ==
    ASSUME IInv, Mounts
    PROVE  IInv'
<1>1. UNCHANGED <<phone, linked, adbd, table, rights, at, cache, todo, scanning, picture,
                  queue, steps, answered, stayed, meant>>
  BY DEF Mounts, thread, applying
<1>2. mounted \subseteq mounted' /\ mounted' \subseteq DOMAIN table
  BY DEF Mounts, IInv, TypeOK
<1>3. bounds' = [bounds EXCEPT !.mounts = bounds.mounts + 1]
  BY DEF Mounts
<1>4. bounds' \in [plugs : Nat, refusals : Nat, mounts : Nat, scans : Nat]
  BY <1>3 DEF IInv, TypeOK
<1>5. bounds'.scans = bounds.scans
  BY <1>3 DEF IInv, TypeOK
<1>6. TypeOK'
  BY <1>1, <1>2, <1>4 DEF IInv, TypeOK
<1>7. CacheInv'
  BY <1>1 DEF IInv, CacheInv, KernelPath
<1>8. MountsInv'
  BY <1>1, <1>2 DEF IInv, MountsInv, KernelPath
<1>9. ScanningInv'
  BY <1>1 DEF IInv, ScanningInv, ShowsTable
<1>10. PictureIsTrue' /\ MountedShownBusy'
  BY <1>1, <1>5 DEF IInv, PictureIsTrue, MountedShownBusy, Shown, ShowsTable
<1> QED
  BY <1>6, <1>7, <1>8, <1>9, <1>10 DEF IInv

\* What is unmounted is not claimed any more.
LEMMA UnmountsKeeps ==
    ASSUME IInv, Unmounts
    PROVE  IInv'
<1> USE DEF Unmounts, external, thread, applying
<1>1. TypeOK'
  BY DEF IInv, TypeOK, IsTable
<1>2. CacheInv'
  BY DEF IInv, TypeOK, IsTable, CacheInv, KernelPath
<1>3. MountsInv'
  BY DEF IInv, TypeOK, IsTable, MountsInv, KernelPath
<1>4. ScanningInv'
  BY DEF IInv, TypeOK, IsTable, ScanningInv, ShowsTable
<1>5. PictureIsTrue' /\ MountedShownBusy'
  BY DEF IInv, TypeOK, IsTable, PictureIsTrue, MountedShownBusy, Shown, ShowsTable
<1> QED
  BY <1>1, <1>2, <1>3, <1>4, <1>5 DEF IInv

----------------------------------------------------------------------------
(* The invariant, and what follows from it.                                *)

\* Before the first scan nothing is claimed.
LEMMA InitIInv == Init => IInv
<1> SUFFICES ASSUME Init PROVE IInv
  OBVIOUS
<1>1. /\ table = phone.table /\ phone.table \in [DOMAIN phone.table -> Partitions]
  BY AdbAssumption DEF Init, AdbAssumption, PhoneOK
<1>2. TypeOK
  BY <1>1 DEF Init, TypeOK, IsTable, Partitions, EmptyCache, NoDevice
<1>3. at = "idle" /\ ~Shown
  <2>1. bounds.scans = 0 /\ at = "idle"
    BY DEF Init
  <2> QED
    BY <2>1 DEF Shown
<1> QED
  BY <1>2, <1>3 DEF IInv, CacheInv, MountsInv, ScanningInv, PictureIsTrue, MountedShownBusy

\* No step of the program, of the phone or of the user breaks the invariant.
LEMMA NextIInv == IInv /\ [Next]_vars => IInv'
<1> SUFFICES ASSUME IInv, [Next]_vars PROVE IInv'
  OBVIOUS
<1>1. CASE Scan
  BY <1>1, StartScanKeeps, print_allKeeps, ReadProcMountsKeeps, ReadMountKeeps,
     set_device_from_diskKeeps, set_used_sectorsKeeps, EndScanKeeps DEF Scan
<1>2. CASE Apply
  BY <1>2, QueueOperationKeeps, ApplyQueueKeeps, set_disklabelKeeps, DriverFailsKeeps,
     PartedRunsKeeps, PartedRefusesKeeps, CommandLostKeeps, RefusedUnseenKeeps,
     NextOperationKeeps DEF Apply
<1>3. CASE World
  BY <1>3, PullKeeps, PlugKeeps, MountsKeeps, UnmountsKeeps DEF World
<1>4. CASE UNCHANGED vars
  BY <1>4 DEF vars, external, thread, applying, IInv, TypeOK, IsTable, CacheInv, MountsInv,
              ScanningInv, PictureIsTrue, MountedShownBusy, Shown, ShowsTable, KernelPath
<1> QED
  BY <1>1, <1>2, <1>3, <1>4 DEF Next

\* The invariant holds of every phone.
THEOREM Invariance == Spec => []IInv
  BY InitIInv, NextIInv, PTL DEF Spec

\* A scan all of whose commands were answered shows the phone's disk, each of
\* its partitions in its place and no file system which is not there.
THEOREM ScanShowsPhone == Spec => []PictureIsTrue
<1>1. IInv => PictureIsTrue
  BY DEF IInv
<1> QED
  BY <1>1, Invariance, PTL

\* What was mounted all through such a scan is shown busy, whichever of the two
\* listings names it.
THEOREM ScanShowsMounted == Spec => []MountedShownBusy
<1>1. IInv => MountedShownBusy
  BY DEF IInv
<1> QED
  BY <1>1, Invariance, PTL

----------------------------------------------------------------------------
(* Applying the queue.                                                     *)

\* A sequence is one of its own members.
LEMMA QueueOfItsOwn ==
    ASSUME NEW S, NEW ops \in Seq(S)
    PROVE  IsQueue(ops)
BY DEF IsQueue

\* A queue without its head: each operation but the first, one place earlier.
LEMMA TailOfQueue ==
    ASSUME NEW ops, IsQueue(ops), ops # <<>>
    PROVE  /\ IsQueue(Tail(ops)) /\ Head(ops) = ops[1] /\ 1 \in DOMAIN ops
           /\ \A i \in DOMAIN Tail(ops) : /\ i + 1 \in DOMAIN ops \ {1} /\ i \in Nat \ {0}
                                         /\ Tail(ops)[i] = ops[i + 1]
           /\ Tail(ops) # <<>> => 2 \in DOMAIN ops /\ Head(Tail(ops)) = ops[2]
<1> DEFINE S == {ops[i] : i \in DOMAIN ops}
<1>1. ops \in Seq(S)
  BY DEF IsQueue
<1> HIDE DEF S
<1>2. Tail(ops) \in Seq(S)
  BY <1>1
<1>3. IsQueue(Tail(ops))
  BY <1>2, QueueOfItsOwn
<1> QED
  BY <1>1, <1>2, <1>3

\* The number of a new partition is a free one.
LEMMA NumberIsFree ==
    ASSUME NEW parts, DOMAIN parts \subseteq Numbers, DOMAIN parts # Numbers
    PROVE  Min(Numbers \ DOMAIN parts) \in Numbers \ DOMAIN parts
<1> DEFINE free == Numbers \ DOMAIN parts
<1>1. free # {} /\ free \subseteq Nat
  BY AdbAssumption DEF AdbAssumption
<1> HIDE DEF free
<1>2. \E x \in free : \A y \in free : x <= y
  <2>1. PICK x \in free : \A y \in free : ~(<<y, x>> \in OpToRel(<, Nat))
    BY <1>1, WFMin, NatLessThanWellFounded
  <2>2. \A y \in free : ~(y < x)
    BY <1>1, <2>1 DEF OpToRel
  <2> QED
    BY <1>1, <2>2
<1> QED
  BY <1>2 DEF Min, free

\* A step which leaves the table, the scan and the queue as they are.
LEMMA NothingApplied ==
    ASSUME ApplyInv,
           UNCHANGED <<table, at, cache, scanning, queue, display, steps, answered, meant>>
    PROVE  ApplyInv'
BY DEF ApplyInv, FilledIn, DisplayInv, QueueInv, StepsInv, SuccessMeansMeant, InScan, Touches,
       StartsRight, IsQueue, IsPart

\* A scan keeps what it needs, and begins and ends without a queue.
LEMMA ScanAppliesNothing ==
    ASSUME IInv, ApplyInv, Scan
    PROVE  ApplyInv'
<1>1. /\ UNCHANGED <<table, queue, steps, meant>> /\ at \in {"idle", "list", "proc", "mount", "blkid",
                                                            "usage", "completed", "failed"}
      /\ InScan' \/ at' = "idle"
      /\ at = "idle" => at' = "list"
      /\ queue = <<>>
  BY DEF Scan, StartScan, print_all, ReadProcMounts, ReadMount, set_device_from_disk,
         set_used_sectors, EndScan, external, applying, ApplyInv, QueueInv, InScan
<1>2. QueueInv' /\ StepsInv' /\ SuccessMeansMeant'
  <2>1. QueueInv'
    BY <1>1 DEF ApplyInv, QueueInv, InScan, IsQueue, StartsRight
  <2> QED
    BY <1>1, <2>1 DEF StepsInv, SuccessMeansMeant, InScan
<1>3. FilledIn' /\ DisplayInv'
  <2>1. CASE StartScan
    BY <2>1 DEF StartScan, NoDevice, FilledIn, DisplayInv
  <2>2. CASE print_all
    BY <2>2 DEF print_all, external, IInv, TypeOK, ApplyInv, FilledIn, DisplayInv
  <2>3. CASE ReadProcMounts
    BY <2>3 DEF ReadProcMounts, external, IInv, TypeOK, ApplyInv, FilledIn, DisplayInv
  <2>4. CASE ReadMount
    BY <2>4 DEF ReadMount, external, IInv, TypeOK, ApplyInv, FilledIn, DisplayInv
  <2>5. CASE set_device_from_disk
    <3> DEFINE parsed == parse_partitions(table)
               Part(n) == [parsed[n] EXCEPT
                            !.type = TypeAfterMounts(n, TypeAfterBlkid(n, @)),
                            !.busy = IsMounted(n)]
    <3>1. cache.table = table
      BY <2>5 DEF set_device_from_disk, ApplyInv, FilledIn
    <3>2. at' = "usage" /\ scanning'.parts = [n \in DOMAIN parsed |-> Part(n)]
      BY <2>5, <3>1 DEF set_device_from_disk, IInv, TypeOK
    <3>3. ASSUME NEW n \in DOMAIN parsed
          PROVE  n \in DOMAIN table /\ IsPart(Part(n)) /\ Part(n).start = table[n].start
      BY <3>3 DEF parse_partitions, IsPart
    <3> HIDE DEF parsed, Part
    <3> QED
      BY <1>1, <3>2, <3>3 DEF FilledIn, DisplayInv
  <2>6. CASE set_used_sectors
    <3>1. at = "usage" /\ at' = "usage"
      BY <2>6 DEF set_used_sectors
    <3>2. PICK n : scanning' \in {scanning, [scanning EXCEPT !.parts[n].usage = UsageOf(n)]}
      BY <2>6 DEF set_used_sectors
    <3>3. \/ scanning' = scanning
          \/ scanning'.parts = [scanning.parts EXCEPT
                                   ![n] = [scanning.parts[n] EXCEPT !.usage = UsageOf(n)]]
      BY <3>2 DEF IInv, TypeOK
    <3>4. /\ DOMAIN scanning'.parts = DOMAIN scanning.parts
          /\ \A m \in DOMAIN scanning.parts :
               IsPart(scanning'.parts[m]) /\ scanning'.parts[m].start = scanning.parts[m].start
      BY <3>1, <3>3 DEF ApplyInv, FilledIn, IsPart
    <3> QED
      BY <1>1, <3>1, <3>4 DEF ApplyInv, FilledIn, DisplayInv
  <2>7. CASE EndScan
    BY <1>1, <2>7 DEF EndScan, ApplyInv, FilledIn, DisplayInv
  <2> QED
    BY <2>1, <2>2, <2>3, <2>4, <2>5, <2>6, <2>7 DEF Scan
<1> QED
  BY <1>2, <1>3 DEF ApplyInv

\* What is queued is about a partition no other operation is about, and knows
\* where that is.
LEMMA QueueOperationApplies ==
    ASSUME IInv, ApplyInv, QueueOperation
    PROVE  ApplyInv'
<1>1. PICK op \in Candidates :
        /\ at = "idle" /\ at' = "idle"
        /\ \A i \in DOMAIN queue : "create" \in {queue[i].type, op.type} \/ queue[i].n # op.n
        /\ queue' = Append(queue, op)
        /\ display' = Replayed(display, op)
        /\ UNCHANGED <<table, cache, scanning, steps, answered, meant>>
  BY DEF QueueOperation, external, thread
<1>2. /\ op.type \in {"create", "resize_move", "delete", "name", "label", "format", "check"}
      /\ op.type # "create" => op.n \in DOMAIN display \cap Numbers
      /\ op.type = "create" => op.n = Len(queue) + 1
      /\ op.type = "resize_move" => op.from = display[op.n].start
  BY DEF Candidates, Operation
<1>3. /\ IsQueue(queue') /\ DOMAIN queue' = DOMAIN queue \union {Len(queue) + 1}
      /\ queue'[Len(queue) + 1] = op /\ Len(queue) + 1 \notin DOMAIN queue
      /\ \A i \in DOMAIN queue : queue'[i] = queue[i]
  <2> DEFINE S == {queue[i] : i \in DOMAIN queue} \union {op}
  <2>1. queue \in Seq(S)
    BY DEF ApplyInv, QueueInv, IsQueue
  <2>2. op \in S
    OBVIOUS
  <2> HIDE DEF S
  <2>3. queue' \in Seq(S)
    BY <1>1, <2>1, <2>2
  <2>4. IsQueue(queue')
    BY <2>3, QueueOfItsOwn
  <2>5. /\ DOMAIN queue = 1 .. Len(queue) /\ Len(queue) \in Nat
        /\ DOMAIN queue' = 1 .. Len(queue) + 1
    BY <1>1, <2>1, <2>2
  <2>6. queue'[Len(queue) + 1] = op /\ \A i \in 1 .. Len(queue) : queue'[i] = queue[i]
    BY <1>1, <2>1, <2>2
  <2> QED
    BY <2>4, <2>5, <2>6
<1>4. StartsRight(op)
  BY <1>1, <1>2 DEF ApplyInv, DisplayInv, Touches, StartsRight
<1>5. QueueInv'
  <2>1. \A i \in DOMAIN queue' : StartsRight(queue'[i]) /\ queue'[i].type # "mklabel"
    <3>1. op.type # "mklabel"
      BY <1>2
    <3>2. \A i \in DOMAIN queue : StartsRight(queue[i]) /\ queue[i].type # "mklabel"
      BY <1>1 DEF ApplyInv, QueueInv
    <3> QED
      BY <1>3, <1>4, <3>1, <3>2
  <2>2. ASSUME NEW i \in DOMAIN queue', NEW j \in DOMAIN queue', i # j
        PROVE  "create" \in {queue'[i].type, queue'[j].type} \/ queue'[i].n # queue'[j].n
    BY <1>1, <1>3, <2>2 DEF ApplyInv, QueueInv
  <2>3. DOMAIN table' \subseteq Numbers /\ at' = "idle"
    BY <1>1 DEF ApplyInv, QueueInv
  <2>4. IsQueue(queue)'
    BY <1>3 DEF IsQueue
  <2> QED
    BY <1>1, <2>1, <2>2, <2>3, <2>4 DEF QueueInv, InScan, StartsRight
<1>6. DisplayInv'
  <2> SUFFICES ASSUME NEW n \in DOMAIN display' \cap Numbers,
                      \A i \in DOMAIN queue' : ~Touches(queue'[i], n)
               PROVE  n \in DOMAIN table /\ display'[n].start = table[n].start
    BY <1>1 DEF DisplayInv, Touches
  <2>1. ~Touches(op, n) /\ \A i \in DOMAIN queue : ~Touches(queue[i], n)
    BY <1>3
  <2>2. n \in DOMAIN display /\ display'[n] = display[n]
    <3>1. CASE op.type = "create"
      <4>1. -op.n \notin Numbers
        BY <1>2, <1>3, <3>1, AdbAssumption DEF AdbAssumption, ApplyInv, QueueInv, IsQueue
      <4> QED
        BY <1>1, <3>1, <4>1 DEF Replayed
    <3>2. CASE op.type # "create"
      BY <1>1, <2>1, <3>2 DEF Replayed, Touches
    <3> QED
      BY <3>1, <3>2
  <2> QED
    BY <1>1, <2>1, <2>2 DEF ApplyInv, DisplayInv
<1> QED
  BY <1>1, <1>5, <1>6 DEF ApplyInv, FilledIn, StepsInv, SuccessMeansMeant

\* The first operation begins: nothing of it is done yet.
LEMMA BeginApplies ==
    ASSUME IInv, ApplyInv, ApplyQueue \/ set_disklabel
    PROVE  ApplyInv'
<1>1. PICK ops : Begin(ops) /\ at = "idle" /\ ops \in {queue, <<Operation("mklabel", 0, 0, 0, 0)>>}
                 /\ ops # <<>>
  BY DEF ApplyQueue, set_disklabel
<1>2. /\ IsQueue(ops)
      /\ \A i \in DOMAIN ops : StartsRight(ops[i])
      /\ \A i, j \in DOMAIN ops :
          i # j => /\ "create" \in {ops[i].type, ops[j].type} \/ ops[i].n # ops[j].n
                   /\ ops[i].type # "mklabel"
  <2>1. CASE ops = queue
    BY <1>1, <2>1 DEF ApplyInv, QueueInv
  <2>2. CASE ops = <<Operation("mklabel", 0, 0, 0, 0)>>
    <3>1. DOMAIN ops = {1} /\ ops[1].type = "mklabel"
      BY <2>2 DEF Operation
    <3>2. IsQueue(ops)
      <4>1. ops \in Seq({Operation("mklabel", 0, 0, 0, 0)})
        BY <2>2
      <4> QED
        BY <4>1, QueueOfItsOwn
    <3> QED
      BY <3>1, <3>2 DEF StartsRight
  <2> QED
    BY <1>1, <2>1, <2>2
<1>3. /\ at' = "apply" /\ queue' = ops /\ steps' = apply_operation_to_disk(Head(ops))
      /\ meant' = Wanted(table, Head(ops)) /\ UNCHANGED <<table, cache, scanning, display>>
  BY <1>1 DEF Begin, external
<1>4. Head(ops) = ops[1] /\ 1 \in DOMAIN ops
  BY <1>1, <1>2, TailOfQueue
<1>5. QueueInv'
  <2>1. \A i \in DOMAIN ops : StartsRight(ops[i])'
    BY <1>2, <1>3 DEF StartsRight
  <2>2. IsQueue(queue)'
    BY <1>2, <1>3 DEF IsQueue
  <2> QED
    BY <1>2, <1>3, <2>1, <2>2 DEF ApplyInv, QueueInv, InScan
<1>6. StepsInv'
  <2>1. StartsRight(Head(queue))'
    BY <1>2, <1>3, <1>4 DEF StartsRight
  <2>2. meant' = Wanted(table', Head(queue'))
    BY <1>3
  <2>3. queue' # <<>> /\ steps' = apply_operation_to_disk(Head(queue'))
    BY <1>1, <1>3
  <2> QED
    BY <2>1, <2>2, <2>3 DEF StepsInv
<1> QED
  BY <1>3, <1>5, <1>6 DEF ApplyInv, FilledIn, DisplayInv, SuccessMeansMeant

\* A failure ends the queue.
LEMMA FailureApplies ==
    ASSUME IInv, ApplyInv, DriverFails \/ PartedRefuses
    PROVE  ApplyInv'
<1>1. /\ at' = "failed" /\ queue' = <<>> /\ UNCHANGED <<table, cache, scanning>>
  BY DEF DriverFails, PartedRefuses, Fails, external
<1>2. IsQueue(queue)' /\ DOMAIN queue' = {}
  <2>1. queue' \in Seq({})
    BY <1>1
  <2> QED
    BY <1>1, <2>1, QueueOfItsOwn DEF IsQueue
<1>3. QueueInv'
  BY <1>1, <1>2 DEF ApplyInv, QueueInv
<1> QED
  BY <1>1, <1>3 DEF ApplyInv, FilledIn, DisplayInv, StepsInv, SuccessMeansMeant

\* After a lost command, or one which was refused unseen, nothing is claimed of
\* the table.
LEMMA CommandLostApplies ==
    ASSUME IInv, ApplyInv, CommandLost \/ RefusedUnseen
    PROVE  ApplyInv'
<1>1. /\ at = "apply" /\ at' = "apply" /\ ~answered'
      /\ UNCHANGED <<table, cache, scanning, queue, meant>>
  BY DEF CommandLost, RefusedUnseen, GivesCommand, Succeeds, Asked, external
<1>2. QueueInv'
  BY <1>1 DEF ApplyInv, QueueInv, IsQueue, StartsRight, InScan
<1> QED
  BY <1>1, <1>2 DEF ApplyInv, FilledIn, DisplayInv, StepsInv, SuccessMeansMeant

\* The operation which ends has left the table which was meant, and the next one
\* begins where its partition is.
LEMMA NextOperationApplies ==
    ASSUME IInv, ApplyInv, NextOperation
    PROVE  ApplyInv'
<1>1. /\ at = "apply" /\ steps = <<>> /\ queue' = Tail(queue)
      /\ UNCHANGED <<table, cache, scanning, answered>>
      /\ queue' = <<>> => at' = "completed" /\ meant' = meant
      /\ queue' # <<>> => /\ at' = "apply" /\ steps' = apply_operation_to_disk(Head(queue'))
                          /\ meant' = Wanted(meant, Head(queue'))
  BY DEF NextOperation, external
<1>2. queue # <<>> /\ IsQueue(queue)
  BY <1>1 DEF ApplyInv, QueueInv, StepsInv
<1>3. /\ IsQueue(queue')
      /\ \A i \in DOMAIN queue' : /\ i + 1 \in DOMAIN queue \ {1} /\ i \in Nat \ {0}
                                  /\ queue'[i] = queue[i + 1]
      /\ queue' # <<>> => 2 \in DOMAIN queue /\ Head(queue') = queue[2]
  BY <1>1, <1>2, TailOfQueue
<1>4. answered => table = meant
  <2> DEFINE op == Head(queue)
  <2>1. apply_operation_to_disk(op) # <<>>
    BY DEF apply_operation_to_disk, delete_partition, create_partition, resize_move, name_partition,
           new_disklabel
  <2> QED
    BY <1>1, <1>2, <2>1 DEF ApplyInv, StepsInv
<1>5. QueueInv'
  <2>1. answered' => \A i \in DOMAIN queue' : StartsRight(queue'[i])
    BY <1>1, <1>3 DEF ApplyInv, QueueInv
  <2>2. ASSUME NEW i \in DOMAIN queue', NEW j \in DOMAIN queue', i # j
        PROVE  /\ "create" \in {queue'[i].type, queue'[j].type} \/ queue'[i].n # queue'[j].n
               /\ queue'[i].type # "mklabel"
    <3>1. i + 1 # j + 1
      BY <1>3, <2>2
    <3> QED
      BY <1>3, <2>2, <3>1 DEF ApplyInv, QueueInv
  <2>3. DOMAIN table' \subseteq Numbers
    BY <1>1 DEF ApplyInv, QueueInv
  <2>4. IsQueue(queue)'
    BY <1>3 DEF IsQueue
  <2>5. at' \in {"completed", "apply"} /\ (at' = "completed" => queue' = <<>>)
    BY <1>1
  <2> QED
    BY <1>1, <2>1, <2>2, <2>3, <2>4, <2>5 DEF QueueInv, InScan, StartsRight
<1>6. StepsInv'
  <2> SUFFICES ASSUME queue' # <<>>
               PROVE  StepsInv'
    BY <1>1 DEF StepsInv
  <2>1. answered => StartsRight(Head(queue'))
    BY <1>1, <1>3 DEF ApplyInv, QueueInv
  <2>2. answered => meant' = Wanted(table, Head(queue'))
    BY <1>1, <1>4
  <2>3. StartsRight(Head(queue')) => StartsRight(Head(queue))'
    BY <1>1 DEF StartsRight
  <2>4. steps' = apply_operation_to_disk(Head(queue'))
    BY <1>1
  <2> QED
    BY <1>1, <2>1, <2>2, <2>3, <2>4 DEF StepsInv
<1>7. FilledIn' /\ DisplayInv' /\ SuccessMeansMeant'
  BY <1>1, <1>4 DEF FilledIn, DisplayInv, SuccessMeansMeant
<1> QED
  BY <1>5, <1>6, <1>7 DEF ApplyInv

\* A command of parted leaves the partitions alone which it is not about.
LEMMA OthersStay ==
    ASSUME NEW parts, DOMAIN parts \subseteq Numbers, NEW c, PartedAccepts(parts, c),
           NEW n \in DOMAIN parts, c.name = "mkpart" \/ c.n # n, c.name # "mklabel"
    PROVE  n \in DOMAIN Edited(parts, c) /\ Edited(parts, c)[n] = parts[n]
<1>1. CASE c.name = "mkpart"
  <2> DEFINE number == Min(Numbers \ DOMAIN parts)
  <2>1. DOMAIN parts # Numbers
    BY <1>1 DEF PartedAccepts
  <2>2. number # n
    BY <2>1, NumberIsFree
  <2>3. Edited(parts, c) = [m \in DOMAIN parts \union {number} |->
            IF m = number THEN [start |-> c.start, end |-> c.end, holds |-> Blank]
            ELSE parts[m]]
    BY <1>1 DEF Edited
  <2> HIDE DEF number
  <2> QED
    BY <2>2, <2>3
<1>2. CASE c.name # "mkpart"
  BY <1>2 DEF Edited
<1> QED
  BY <1>1, <1>2

\* parted numbers partitions from those there is room for.
LEMMA RoomStays ==
    ASSUME NEW parts, DOMAIN parts \subseteq Numbers, NEW c, PartedAccepts(parts, c)
    PROVE  DOMAIN Edited(parts, c) \subseteq Numbers
<1>1. CASE c.name = "mkpart"
  <2>1. DOMAIN parts # Numbers
    BY <1>1 DEF PartedAccepts
  <2>2. Min(Numbers \ DOMAIN parts) \in Numbers
    BY <2>1, NumberIsFree
  <2>3. DOMAIN Edited(parts, c) = DOMAIN parts \union {Min(Numbers \ DOMAIN parts)}
    BY <1>1 DEF Edited
  <2> QED
    BY <2>2, <2>3
<1>2. CASE c.name # "mkpart"
  BY <1>2 DEF Edited
<1> QED
  BY <1>1, <1>2

\* To move the end and then the whole partition is to move it at once.
LEMMA ResizeThenMove ==
    ASSUME NEW parts, IsTable(parts), NEW n \in DOMAIN parts, NEW start, NEW end, NEW end2
    PROVE  Edited(Edited(parts, Command("resizepart", n, 0, end2)), Command("move", n, start, end))
             = Edited(parts, Command("move", n, start, end))
<1> DEFINE resized == [parts EXCEPT ![n].end = end2]
<1>1. Edited(parts, Command("resizepart", n, 0, end2)) = resized
  BY DEF Edited, Command
<1>2. DOMAIN resized = DOMAIN parts /\ \A m \in DOMAIN parts \ {n} : resized[m] = parts[m]
  OBVIOUS
<1>3. resized[n] = [parts[n] EXCEPT !.end = end2] /\ DOMAIN parts[n] = {"start", "end", "holds"}
  BY DEF IsTable
<1> HIDE DEF resized
<1>4. [[resized[n] EXCEPT !.start = start] EXCEPT !.end = end]
        = [[parts[n] EXCEPT !.start = start] EXCEPT !.end = end]
  BY <1>3
<1>5. Edited(resized, Command("move", n, start, end))
        = [resized EXCEPT ![n] = [[resized[n] EXCEPT !.start = start] EXCEPT !.end = end]]
  BY <1>2 DEF Edited, Command
<1>6. Edited(parts, Command("move", n, start, end))
        = [parts EXCEPT ![n] = [[parts[n] EXCEPT !.start = start] EXCEPT !.end = end]]
  BY DEF Edited, Command
<1>7. ASSUME NEW part PROVE [resized EXCEPT ![n] = part] = [parts EXCEPT ![n] = part]
  BY <1>2
<1> QED
  BY <1>1, <1>4, <1>5, <1>6, <1>7

\* A partition which stays where it begins needs no move.
LEMMA ResizeInPlace ==
    ASSUME NEW parts, IsTable(parts), NEW n \in DOMAIN parts, NEW end
    PROVE  Edited(parts, Command("resizepart", n, 0, end))
             = Edited(parts, Command("move", n, parts[n].start, end))
<1>1. [[parts[n] EXCEPT !.start = parts[n].start] EXCEPT !.end = end] = [parts[n] EXCEPT !.end = end]
  BY DEF IsTable
<1>2. Edited(parts, Command("move", n, parts[n].start, end))
        = [parts EXCEPT ![n] = [[parts[n] EXCEPT !.start = parts[n].start] EXCEPT !.end = end]]
  BY DEF Edited, Command
<1>3. Edited(parts, Command("resizepart", n, 0, end)) = [parts EXCEPT ![n] = [parts[n] EXCEPT !.end = end]]
  BY DEF Edited, Command
<1> QED
  BY <1>1, <1>2, <1>3

\* One command and two.
LEMMA ShortSequences ==
    ASSUME NEW a, NEW b
    PROVE  /\ <<a>> \o <<>> = <<a>> /\ <<a>> \o <<b>> = <<a, b>>
           /\ Head(<<a>>) = a /\ Tail(<<a>>) = <<>>
           /\ Head(<<a, b>>) = a /\ Tail(<<a, b>>) = <<b>>
<1>1. <<a>> \o <<>> = <<a>> /\ Head(<<a>>) = a /\ Tail(<<a>>) = <<>>
  OBVIOUS
<1>2. <<a>> \o <<b>> = <<a, b>>
  <2> DEFINE s == <<a>> \o <<b>>
  <2>1. <<a>> \in Seq({a, b}) /\ <<b>> \in Seq({a, b}) /\ Len(<<a>>) = 1 /\ Len(<<b>>) = 1
    OBVIOUS
  <2>2. s \in Seq({a, b}) /\ Len(s) = 2 /\ s[1] = a /\ s[2] = b
    BY <2>1
  <2> HIDE DEF s
  <2>3. s = <<a, b>>
    BY <2>2
  <2> QED
    BY <2>3 DEF s
<1>3. Head(<<a, b>>) = a /\ Tail(<<a, b>>) = <<b>>
  OBVIOUS
<1> QED
  BY <1>1, <1>2, <1>3

\* A command which parted carries out brings the table nearer to what is meant,
\* whatever of its operation is left, and leaves the partitions of the operations
\* to come where they are.
LEMMA PartedRunsApplies ==
    ASSUME IInv, ApplyInv, PartedRuns
    PROVE  ApplyInv'
<1> DEFINE op == Head(queue)
<1>1. /\ at = "apply" /\ at' = "apply" /\ steps # <<>> /\ Head(steps).name # "driver"
      /\ PartedAccepts(table, Head(steps)) /\ table' = Edited(table, Head(steps))
      /\ steps' = Tail(steps)
      /\ UNCHANGED <<queue, meant>> /\ (answered' => answered)
  BY DEF PartedRuns, GivesCommand, Succeeds
<1>2. queue # <<>> /\ IsQueue(queue) /\ DOMAIN table \subseteq Numbers /\ IsTable(table)
  BY <1>1 DEF ApplyInv, QueueInv, StepsInv, IInv, TypeOK
<1>3. op = queue[1] /\ 1 \in DOMAIN queue
  BY <1>2, TailOfQueue
<1>4. DOMAIN table' \subseteq Numbers
  BY <1>1, <1>2, RoomStays
<1> HIDE DEF op
<1>5. ASSUME answered
      PROVE  \/ /\ op.type = "delete" /\ steps = <<Command("rm", op.n, 0, 0)>>
                /\ meant = Edited(table, Command("rm", op.n, 0, 0))
             \/ /\ op.type = "create" /\ steps = <<Command("mkpart", 0, op.start, op.end), Driver>>
             \/ /\ op.type = "resize_move" /\ op.n \in DOMAIN table
                /\ op.start # op.from
                /\ steps = <<Command("resizepart", op.n, 0, op.end),
                             Command("move", op.n, op.start, op.end)>>
                /\ meant = Edited(table, Command("move", op.n, op.start, op.end))
             \/ /\ op.type = "resize_move" /\ op.n \in DOMAIN table
                /\ steps = <<Command("resizepart", op.n, 0, op.end)>>
                /\ meant = Edited(table, Command("move", op.n, table[op.n].start, op.end))
             \/ /\ op.type = "resize_move" /\ op.n \in DOMAIN table
                /\ steps = <<Command("move", op.n, op.start, op.end)>>
                /\ meant = Edited(table, Command("move", op.n, op.start, op.end))
             \/ /\ op.type = "name" /\ steps = <<Command("name", op.n, 0, 0)>> /\ meant = table
             \/ /\ op.type = "mklabel" /\ steps = <<Command("mklabel", 0, 0, 0)>> /\ meant = <<>>
  <2>1. \/ /\ steps = apply_operation_to_disk(op) /\ StartsRight(op)
           /\ meant = Wanted(table, op)
        \/ /\ op.type = "resize_move" /\ op.n \in DOMAIN table
           /\ steps = <<Command("move", op.n, op.start, op.end)>>
           /\ meant = Wanted(table, op)
    BY <1>1, <1>5 DEF ApplyInv, StepsInv, op, Driver, Command
  <2>2. steps # <<Driver>>
    BY <1>1 DEF Driver, Command
  <2>3. CASE op.type = "resize_move"
    <3> DEFINE first == Command("resizepart", op.n, 0, op.end)
               second == Command("move", op.n, op.start, op.end)
    <3>1. apply_operation_to_disk(op) = IF op.start # op.from THEN <<first, second>> ELSE <<first>>
      BY <2>3, ShortSequences DEF apply_operation_to_disk, resize_move
    <3>2. Wanted(table, op) = Edited(table, second)
      BY <2>3 DEF Wanted
    <3>3. StartsRight(op) => op.n \in DOMAIN table /\ table[op.n].start = op.from
      BY <2>3 DEF StartsRight
    <3> QED
      BY <2>1, <2>3, <3>1, <3>2, <3>3
  <2>4. CASE op.type = "create"
    BY <2>1, <2>4 DEF apply_operation_to_disk, create_partition
  <2>5. CASE op.type = "delete"
    BY <2>1, <2>5 DEF apply_operation_to_disk, delete_partition, Wanted
  <2>6. CASE op.type = "name"
    BY <2>1, <2>6 DEF apply_operation_to_disk, name_partition, Wanted
  <2>7. CASE op.type = "mklabel"
    BY <2>1, <2>7 DEF apply_operation_to_disk, new_disklabel, Wanted
  <2>8. CASE op.type \notin {"resize_move", "create", "delete", "name", "mklabel"}
    BY <2>1, <2>2, <2>8 DEF apply_operation_to_disk
  <2> QED
    BY <2>3, <2>4, <2>5, <2>6, <2>7, <2>8
<1>6. QueueInv'
  <2> SUFFICES ASSUME answered', NEW i \in DOMAIN queue \ {1}, queue[i].type = "resize_move"
               PROVE  /\ queue[i].n \in DOMAIN table'
                      /\ table'[queue[i].n].start = queue[i].from
    BY <1>1, <1>2, <1>4 DEF ApplyInv, QueueInv, InScan, IsQueue, StartsRight
  <2>1. queue[i].n \in DOMAIN table /\ table[queue[i].n].start = queue[i].from
    BY <1>1 DEF ApplyInv, QueueInv, StartsRight
  <2>2. op.type = "create" \/ op.n # queue[i].n
    BY <1>3 DEF ApplyInv, QueueInv
  <2>3. op.type # "mklabel"
    BY <1>3 DEF ApplyInv, QueueInv
  <2>4. Head(steps).name = "mkpart" \/ Head(steps).n # queue[i].n
    BY <1>1, <1>5, <2>2, <2>3 DEF Command
  <2>5. Head(steps).name # "mklabel"
    BY <1>1, <1>5, <2>3 DEF Command
  <2> QED
    BY <1>1, <1>2, <2>1, <2>4, <2>5, OthersStay
<1>7. StepsInv'
  <2> SUFFICES ASSUME answered'
               PROVE  \/ /\ op.type = "resize_move" /\ op.n \in DOMAIN table'
                         /\ steps' = <<Command("move", op.n, op.start, op.end)>>
                         /\ meant = Wanted(table', op)
                      \/ steps' = <<>> /\ table' = meant
                      \/ steps' = <<Driver>>
    BY <1>1, <1>2 DEF StepsInv, op
  <2>1. CASE op.type = "delete"
    BY <1>1, <1>5, <2>1, ShortSequences
  <2>2. CASE op.type = "create"
    <3>1. steps = <<Command("mkpart", 0, op.start, op.end), Driver>>
      BY <1>1, <1>5, <2>2
    <3>2. steps' = <<Driver>>
      BY <1>1, <3>1, ShortSequences
    <3> QED
      BY <3>2
  <2>3. CASE op.type = "resize_move" /\ op.start # op.from
                /\ steps = <<Command("resizepart", op.n, 0, op.end),
                             Command("move", op.n, op.start, op.end)>>
    <3>1. /\ op.n \in DOMAIN table /\ meant = Edited(table, Command("move", op.n, op.start, op.end))
      BY <1>1, <1>5, <2>3 DEF Command
    <3>2. /\ table' = Edited(table, Command("resizepart", op.n, 0, op.end))
          /\ steps' = <<Command("move", op.n, op.start, op.end)>>
      BY <1>1, <2>3, ShortSequences
    <3>3. meant = Edited(table', Command("move", op.n, op.start, op.end))
      BY <1>2, <3>1, <3>2, ResizeThenMove
    <3>4. op.n \in DOMAIN table'
      BY <3>1, <3>2 DEF Edited, Command
    <3>5. meant = Wanted(table', op)
      BY <2>3, <3>3 DEF Wanted
    <3> QED
      BY <2>3, <3>2, <3>4, <3>5
  <2>4. CASE op.type = "resize_move" /\ steps = <<Command("resizepart", op.n, 0, op.end)>>
    BY <1>1, <1>2, <1>5, <2>4, ResizeInPlace, ShortSequences DEF Command
  <2>5. CASE op.type = "resize_move" /\ steps = <<Command("move", op.n, op.start, op.end)>>
    BY <1>1, <1>5, <2>5, ShortSequences DEF Command
  <2>6. CASE op.type = "name"
    <3>1. Edited(table, Command("name", op.n, 0, 0)) = table
      BY DEF Edited, Command
    <3> QED
      BY <1>1, <1>5, <2>6, <3>1, ShortSequences
  <2>7. CASE op.type = "mklabel"
    <3>1. Edited(table, Command("mklabel", 0, 0, 0)) = <<>>
      BY DEF Edited, Command
    <3> QED
      BY <1>1, <1>5, <2>7, <3>1, ShortSequences
  <2> QED
    BY <1>1, <1>5, <2>1, <2>2, <2>3, <2>4, <2>5, <2>6, <2>7
<1>8. FilledIn' /\ DisplayInv' /\ SuccessMeansMeant'
  BY <1>1 DEF FilledIn, DisplayInv, SuccessMeansMeant
<1> QED
  BY <1>6, <1>7, <1>8 DEF ApplyInv

\* At first nothing is queued.
LEMMA InitApplyInv == Init => ApplyInv
<1> SUFFICES ASSUME Init PROVE ApplyInv
  OBVIOUS
<1>1. phone \in Phones /\ table = phone.table /\ DOMAIN phone.table \subseteq Numbers
  BY AdbAssumption DEF Init, AdbAssumption, PhoneOK
<1>2. IsQueue(queue) /\ DOMAIN queue = {}
  <2>1. queue = <<>>
    BY DEF Init
  <2>2. queue \in Seq({}) /\ DOMAIN queue = {}
    BY <2>1
  <2> QED
    BY <2>2, QueueOfItsOwn
<1>3. at = "idle" /\ DOMAIN display = {}
  <2>1. at = "idle" /\ display = <<>>
    BY DEF Init
  <2> QED
    BY <2>1
<1> QED
  BY <1>1, <1>2, <1>3 DEF ApplyInv, FilledIn, DisplayInv, QueueInv, StepsInv, SuccessMeansMeant, InScan

\* No step breaks what is known of the queue and of the commands still to come.
LEMMA NextApplyInv == IInv /\ ApplyInv /\ [Next]_vars => ApplyInv'
<1> SUFFICES ASSUME IInv, ApplyInv, [Next]_vars PROVE ApplyInv'
  OBVIOUS
<1>1. CASE Scan
  BY <1>1, ScanAppliesNothing
<1>2. CASE Apply
  BY <1>2, QueueOperationApplies, BeginApplies, FailureApplies, PartedRunsApplies,
     CommandLostApplies, NextOperationApplies DEF Apply
<1>3. CASE World
  BY <1>3, NothingApplied DEF World, Pull, Plug, Mounts, Unmounts, thread, applying
<1>4. CASE UNCHANGED vars
  BY <1>4, NothingApplied DEF vars, external, thread, applying
<1> QED
  BY <1>1, <1>2, <1>3, <1>4 DEF Next

\* The queue and the commands left of it are those the table still needs, on every
\* phone and for every queue.
THEOREM ApplyInvariance == Spec => []ApplyInv
<1>1. Init => ApplyInv
  BY InitApplyInv
<1>2. IInv /\ ApplyInv /\ [Next]_vars => ApplyInv'
  BY NextApplyInv
<1> QED
  BY <1>1, <1>2, Invariance, PTL DEF Spec

\* "All operations successfully completed" is true when every command reached the
\* phone and none was refused in other words than "Error:": its table is then the
\* one which was queued.  After any other command nothing is claimed.
THEOREM SuccessIsMeant == Spec => []SuccessMeansMeant
<1>1. ApplyInv => SuccessMeansMeant
  BY DEF ApplyInv
<1> QED
  BY <1>1, ApplyInvariance, PTL
=============================================================================
