------------------------------ MODULE AdbBackend ------------------------------
(***************************************************************************)
(* The build of GParted for Android: parted on a phone, driven by "adb     *)
(* shell", takes the place of libparted (GParted_Core_Adb.cc, adb/).  The  *)
(* cable may be pulled between any two commands, and parted may refuse     *)
(* any.  The tables are GPT: PartedParser needs the column "Name".         *)
(*                                                                         *)
(* The drivers of the file systems are the same as in the other build and  *)
(* so run on the computer, where the phone's /dev/block does not exist:    *)
(* they fail.                                                              *)
(***************************************************************************)
EXTENDS Integers, Sequences, FiniteSets, SequencesExt, FiniteSetsExt

CONSTANTS
    Numbers,     \* of partitions a table has room for
    Length,      \* sectors of the disk
    MiB,         \* sectors of a mebibyte
    Phones       \* what may be plugged in, and the bounds of what is tried, see PhoneOK

VARIABLES
    phone,       \* the phone, chosen once
    linked,      \* the cable is plugged in
    adbd,        \* what adb shell runs as there: "root", "su" (root through su), "none"
    table,       \* partition table of the phone: number -> place and contents
    mounted,     \* numbers of the partitions mounted there
    rights,      \* AdbClient: m_root_checked, m_is_root and m_su_available
    at,          \* which command comes next
    cache,       \* g_scan_cache: parted's output, mount_map and fstype_map
    todo,        \* partitions whose usage is not read yet
    scanning,    \* the device being filled in
    picture,     \* the devices as shown, once a scan has ended
    queue,       \* the operations pending or being applied
    display,     \* m_display_device: the partitions as the queue leaves them
    steps,       \* commands left of the first of them
    bounds,      \* plugs, refusals, mounts and scans so far
    answered,    \* history: no command since the scan or the applying began was lost or denied
    stayed,      \* history: mounted since the scan began
    meant        \* history: the table the operations begun so far stand for

external == <<phone, linked, adbd, table, mounted>>
thread == <<at, cache, todo, scanning, picture>>
applying == <<queue, display, steps>>
vars == <<external, rights, thread, applying, bounds, answered, stayed, meant>>

None == "none"
Unknown == "unknown"

-----------------------------------------------------------------------------
(* The phone and what its programs print                                   *)

\* What a partition holds, and the name parted, blkid and the kernel give it
Holds(type, parted, blkid, kernel) ==
    [type |-> type, parted |-> parted, blkid |-> blkid, kernel |-> kernel]

Blank == Holds(Unknown, "", "", "")

\* How parted, blkid and the kernel may spell the type of a file system
Types == {"ext4", "f2fs", "exfat", "ntfs", "erofs", "fat32", "linux-swap", Unknown}
Spellings(type) ==
    {"", "fuseblk"} \union
    CASE type = "fat32" -> {"fat32", "vfat"}
      [] type = "linux-swap" -> {"linux-swap", "linux-swap(v1)", "swap"}
      [] OTHER -> {type}
Names == UNION {Spellings(type) : type \in Types}
Holdings ==
    {h \in [type : Types, parted : Names, blkid : Names, kernel : Names] :
        {h.parted, h.blkid, h.kernel} \subseteq Spellings(h.type)}
Partitions == [start : Int, end : Int, holds : Holdings]

\* How the kernel names disks and their partitions: sda and sda1, but mmcblk0
\* and mmcblk0p1
Numbered == {"mmcblk", "nvme"}
IsDisk(node) ==
    node.kind \in {"sd", "vd", "hd"} \union Numbered /\ ~node.p
    /\ node.digit = (node.kind \in Numbered)
IsPartition(node) == IF node.kind \in Numbered THEN node.p ELSE node.digit

\* A phone: its table, whether a partition is named disk and number (and not
\* mmcblk0p1), the nodes of /dev/block, which listing shows a mount ("proc",
\* "mount", "both"), whether blkid is there, what adb may run as, and how many
\* operations, pulled cables, refusals, changes of mounts and scans there are.
PhoneOK(p) ==
    /\ DOMAIN p.table \subseteq Numbers /\ p.table \in [DOMAIN p.table -> Partitions]
    /\ p.disk \in p.nodes /\ IsDisk(p.disk)
    /\ \A d \in p.nodes \ {p.disk} : IsPartition(d) \/ d.kind \in {"loop", "dm-", "zram"}
    /\ p.modes \subseteq {"root", "su", "none"}
    /\ p.plain \in BOOLEAN /\ p.blkid \in BOOLEAN
    /\ p.listing \in {"proc", "mount", "both"}
    /\ DOMAIN p.max = {"queue", "plugs", "refusals", "mounts", "scans"}

ASSUME AdbAssumption ==
    /\ Numbers \subseteq Nat \ {0} /\ IsFiniteSet(Numbers)
    /\ Length \in Nat \ {0} /\ MiB \in Nat \ {0}
    /\ \A p \in Phones : PhoneOK(p)

Sectors(part) == part.start .. part.end

Free(parts, but, start, end) ==
    /\ 0 <= start /\ start <= end /\ end < Length
    /\ \A n \in DOMAIN parts \ {but} : Sectors(parts[n]) \cap (start .. end) = {}

\* How the kernel calls a partition, and how GParted does
KernelPath(n) == IF phone.plain THEN <<"disk", n>> ELSE <<"diskp", n>>
PathOf(n) == <<"disk", n>>

Command(name, n, start, end) == [name |-> name, n |-> n, start |-> start, end |-> end]

\* parted -s: it refuses what does not fit and leaves the table alone
PartedAccepts(parts, c) ==
    CASE c.name \in {"rm", "name"} -> c.n \in DOMAIN parts
      [] c.name \in {"resizepart", "move"} ->
            /\ c.n \in DOMAIN parts
            /\ Free(parts, c.n, IF c.name = "move" THEN c.start ELSE parts[c.n].start, c.end)
      [] c.name = "mkpart" -> DOMAIN parts # Numbers /\ Free(parts, 0, c.start, c.end)
      [] c.name = "mklabel" -> TRUE
      [] OTHER -> FALSE

Edited(parts, c) ==
    CASE c.name = "rm" -> [n \in DOMAIN parts \ {c.n} |-> parts[n]]
      [] c.name = "resizepart" -> [parts EXCEPT ![c.n].end = c.end]
      [] c.name = "move" -> [parts EXCEPT ![c.n].start = c.start, ![c.n].end = c.end]
      [] c.name = "mkpart" ->
            LET number == Min(Numbers \ DOMAIN parts)
            IN  [n \in DOMAIN parts \union {number} |->
                    IF n = number THEN [start |-> c.start, end |-> c.end, holds |-> Blank]
                    ELSE parts[n]]
      [] c.name = "mklabel" -> <<>>
      [] OTHER -> parts

-----------------------------------------------------------------------------
(* AdbClient                                                               *)

\* check_root(): once, before the first command
CheckedRights ==
    IF rights # "unchecked" THEN rights ELSE IF linked THEN adbd ELSE "none"

\* shell_command_exit_status(): what becomes of a command.  Without "su" on the
\* phone, or without a phone, its output holds no "Error:" of parted.
Reply ==
    IF ~linked \/ (CheckedRights = "su" /\ adbd # "su") THEN "lost"
    ELSE IF adbd = "root" \/ (adbd = "su" /\ CheckedRights = "su") THEN "answered"
    ELSE "denied"

\* One command was given
Asked ==
    /\ rights' = CheckedRights
    /\ answered' = (answered /\ Reply = "answered")

-----------------------------------------------------------------------------
(* The scan                                                                *)

EmptyCache == [table |-> <<>>, mounts |-> {}, types |-> {}]
NoDevice == [devices |-> {}, parts |-> <<>>]

\* MUTANT of is_disk_device: the nodes of partitions are not told apart
is_disk_device_Parts(node) ==
    /\ node.kind \in {"sd", "mmcblk", "nvme", "vd", "hd"}
    /\ node.digit => node.kind \in {"mmcblk", "nvme"}

\* A node is its kind of disk, whether the name ends in a digit, and whether
\* it has a "p" between digits
is_disk_device(node) ==
    /\ node.kind \in {"sd", "mmcblk", "nvme", "vd", "hd"}
    /\ ~node.p
    /\ node.digit => node.kind \in {"mmcblk", "nvme"}

parse_fs_type(text) ==
    CASE text \in {"linux-swap", "linux-swap(v1)"} -> "linux-swap"
      [] text \in {"fat32", "vfat"} -> "fat32"
      [] text \in {"ext4", "f2fs", "exfat", "ntfs", "erofs"} -> text
      [] OTHER -> Unknown

parse_partitions(parts) ==
    [n \in DOMAIN parts |->
        [start |-> parts[n].start, end |-> parts[n].end,
         type |-> parse_fs_type(parts[n].holds.parted), busy |-> FALSE, usage |-> Unknown]]

Gaps(parts) ==
    {g \in [start : 0 .. Length - 1, end : 0 .. Length - 1] :
        /\ Free(parts, 0, g.start, g.end)
        /\ g.start = 0 \/ ~Free(parts, 0, g.start - 1, g.end)
        /\ g.end = Length - 1 \/ ~Free(parts, 0, g.start, g.end + 1)}

\* A gap before the first partition must be larger than a mebibyte
insert_unallocated(parts) ==
    {g \in Gaps(parts) :
        g.end - g.start + 1 >= IF g.start = 0 /\ g.end < Length - 1 THEN MiB + 1 ELSE MiB}

\* set_devices() begins; after an applied queue the main window calls it
StartScan ==
    /\ at \in {"idle", "completed", "failed"} /\ queue = <<>>
    /\ bounds.scans < phone.max.scans
    /\ at' = "list"
    /\ cache' = EmptyCache
    /\ scanning' = NoDevice
    /\ bounds' = [bounds EXCEPT !.scans = @ + 1]
    /\ answered' = TRUE
    /\ stayed' = mounted
    /\ UNCHANGED <<external, rights, todo, picture, applying, meant>>

\* print_all(): "ls /dev/block" and "parted print" of each disk
print_all ==
    /\ at = "list"
    /\ Asked
    /\ at' = "proc"
    /\ IF Reply = "answered"
       THEN /\ scanning' = [scanning EXCEPT !.devices = {d \in phone.nodes : is_disk_device(d)}]
            /\ cache' = [cache EXCEPT !.table = table]
       ELSE UNCHANGED <<scanning, cache>>
    /\ UNCHANGED <<external, todo, picture, applying, bounds, stayed, meant>>

Listed(listing) ==
    IF Reply # "lost" /\ phone.listing \in {listing, "both"}
    THEN {<<KernelPath(n), table[n].holds.kernel>> : n \in mounted} ELSE {}

\* "cat /proc/mounts"
ReadProcMounts ==
    /\ at = "proc"
    /\ Asked
    /\ at' = "mount"
    /\ cache' = [cache EXCEPT !.mounts = {m[1] : m \in Listed("proc")}, !.types = Listed("proc")]
    /\ UNCHANGED <<external, todo, scanning, picture, applying, bounds, stayed, meant>>

\* "mount" adds what is not there yet; without a device the scan ends here
ReadMount ==
    /\ at = "mount"
    /\ Asked
    /\ LET more == {m \in Listed("mount") : m[1] \notin cache.mounts}
       IN  cache' = [cache EXCEPT !.mounts = @ \union {m[1] : m \in more},
                                  !.types = @ \union more]
    /\ IF scanning.devices = {}
       THEN at' = "idle" /\ picture' = NoDevice /\ display' = <<>>
       ELSE at' = "blkid" /\ UNCHANGED <<picture, display>>
    /\ UNCHANGED <<external, todo, scanning, queue, steps, bounds, stayed, meant>>

\* blkid is asked by the name GParted makes up, and believed where parted is silent
TypeAfterBlkid(n, type) ==
    IF type = Unknown /\ Reply = "answered" /\ phone.blkid /\ PathOf(n) = KernelPath(n)
    THEN parse_fs_type(table[n].holds.blkid) ELSE type

TypeAfterMounts(n, type) ==
    IF type = Unknown /\ \E t \in cache.types : t[1] = PathOf(n)
    THEN parse_fs_type((CHOOSE t \in cache.types : t[1] = PathOf(n))[2]) ELSE type

\* MUTANT of IsMounted: a mount of a file system GParted does not know does not count
IsMounted_KnownTypes(n) ==
    \E t \in cache.types : t[1] = PathOf(n) /\ parse_fs_type(t[2]) # Unknown

IsMounted(n) == PathOf(n) \in cache.mounts

set_device_from_disk ==
    /\ at = "blkid"
    /\ IF DOMAIN cache.table = {} THEN UNCHANGED <<rights, answered>> ELSE Asked
    /\ LET parsed == parse_partitions(cache.table)
       IN  scanning' = [scanning EXCEPT !.parts =
               [n \in DOMAIN parsed |->
                   [parsed[n] EXCEPT
                       !.type = TypeAfterMounts(n, TypeAfterBlkid(n, @)),
                       !.busy = IsMounted(n)]]]
    /\ todo' = DOMAIN cache.table
    /\ at' = "usage"
    /\ UNCHANGED <<external, cache, picture, applying, bounds, stayed, meant>>

\* df of a mounted file system, or else tune2fs of an ext4
UsageOf(n) ==
    LET part == scanning.parts[n]
    IN  CASE Reply # "lost" /\ part.busy -> "df"
          [] Reply = "answered" /\ part.type = "ext4" /\ PathOf(n) = KernelPath(n) -> "tune2fs"
          [] OTHER -> Unknown

set_used_sectors ==
    /\ at = "usage" /\ todo # {}
    /\ LET n == Min(todo)
           asks == scanning.parts[n].type # Unknown
                   /\ (scanning.parts[n].busy \/ scanning.parts[n].type = "ext4")
       IN  /\ IF asks
              THEN Asked /\ scanning' = [scanning EXCEPT !.parts[n].usage = UsageOf(n)]
              ELSE UNCHANGED <<rights, answered, scanning>>
           /\ todo' = todo \ {n}
    /\ UNCHANGED <<external, at, cache, picture, applying, bounds, stayed, meant>>

EndScan ==
    /\ at = "usage" /\ todo = {}
    /\ at' = "idle"
    /\ picture' = scanning
    /\ display' = scanning.parts
    /\ UNCHANGED <<external, rights, cache, todo, scanning, queue, steps, bounds, answered, stayed, meant>>

-----------------------------------------------------------------------------
(* Queueing and applying operations                                        *)

Operation(type, n, start, end, from) ==
    [type |-> type, n |-> n, start |-> start, end |-> end, from |-> from]

\* What an operation makes of the partitions shown; a new one has no number yet
Replayed(parts, op) ==
    CASE op.type = "delete" -> [n \in DOMAIN parts \ {op.n} |-> parts[n]]
      [] op.type = "resize_move" -> [parts EXCEPT ![op.n].start = op.start, ![op.n].end = op.end]
      [] op.type = "create" ->
            [n \in DOMAIN parts \union {-op.n} |->
                IF n = -op.n
                THEN [start |-> op.start, end |-> op.end, type |-> Unknown,
                      busy |-> FALSE, usage |-> Unknown]
                ELSE parts[n]]
      [] OTHER -> parts

\* A busy partition may be named, and grown where it is
Offered(parts, op) ==
    CASE op.type = "create" ->
            \E g \in insert_unallocated(parts) : g.start <= op.start /\ op.end <= g.end
      [] op.type = "resize_move" ->
            /\ parts[op.n].type # Unknown
            /\ op.from = parts[op.n].start
            /\ <<op.start, op.end>> # <<op.from, parts[op.n].end>>
            /\ Free(parts, op.n, op.start, op.end)
            /\ parts[op.n].busy => op.start = op.from /\ op.end > parts[op.n].end
      [] op.type = "name" -> TRUE
      [] op.type = "label" -> parts[op.n].type # Unknown
      [] op.type = "check" -> parts[op.n].type # Unknown /\ ~parts[op.n].busy
      [] OTHER -> ~parts[op.n].busy

\* Operations with a place, and operations without.  "format" stands for a
\* format, a copy onto the partition and a new UUID: one command of a driver.
Candidates ==
    [type : {"create"}, n : {Len(queue) + 1}, start : 0 .. Length - 1,
     end : 0 .. Length - 1, from : {0}]
    \union {Operation("resize_move", n, s, e, display[n].start) :
               n \in DOMAIN display \cap Numbers, s \in 0 .. Length - 1, e \in 0 .. Length - 1}
    \union {Operation(type, n, 0, 0, 0) :
               type \in {"delete", "name", "label", "format", "check"},
               n \in DOMAIN display \cap Numbers}

\* One operation on a partition: merging is the subject of PendingOperations
QueueOperation ==
    /\ at = "idle" /\ Len(queue) < phone.max.queue
    /\ picture.devices # {}
    /\ \E op \in {c \in Candidates : c.start <= c.end} :
        /\ Offered(display, op)
        /\ \A i \in DOMAIN queue : "create" \in {queue[i].type, op.type} \/ queue[i].n # op.n
        /\ queue' = Append(queue, op)
        /\ display' = Replayed(display, op)
    /\ UNCHANGED <<external, rights, thread, steps, bounds, answered, stayed, meant>>

\* MUTANT of resize_move: the start is only moved to the right
resize_move_RightOnly(op) ==
    <<Command("resizepart", op.n, 0, op.end)>>
    \o IF op.start > op.from THEN <<Command("move", op.n, op.start, op.end)>> ELSE <<>>

\* resize_move(): the end first, then the whole place
resize_move(op) ==
    <<Command("resizepart", op.n, 0, op.end)>>
    \o IF op.start # op.from THEN <<Command("move", op.n, op.start, op.end)>> ELSE <<>>

delete_partition(op) == <<Command("rm", op.n, 0, 0)>>
create_partition(op) == <<Command("mkpart", 0, op.start, op.end)>>
name_partition(op) == <<Command("name", op.n, 0, 0)>>
new_disklabel == <<Command("mklabel", 0, 0, 0)>>

\* The driver runs on the computer, for a new partition under the name of
\* partition 0; a check falls through the switch
Driver == Command("driver", 0, 0, 0)

apply_operation_to_disk(op) ==
    CASE op.type = "delete" -> delete_partition(op)
      [] op.type = "create" -> create_partition(op) \o <<Driver>>
      [] op.type = "resize_move" -> resize_move(op)
      [] op.type = "name" -> name_partition(op)
      [] op.type = "mklabel" -> new_disklabel
      [] OTHER -> <<Driver>>

\* The table an operation stands for
Wanted(parts, op) ==
    CASE op.type = "delete" -> Edited(parts, Command("rm", op.n, 0, 0))
      [] op.type = "create" /\ DOMAIN parts # Numbers ->
            Edited(parts, Command("mkpart", 0, op.start, op.end))
      [] op.type = "resize_move" -> Edited(parts, Command("move", op.n, op.start, op.end))
      [] op.type = "mklabel" -> <<>>
      [] OTHER -> parts

Begin(ops) ==
    /\ at' = "apply"
    /\ queue' = ops
    /\ steps' = apply_operation_to_disk(Head(ops))
    /\ answered' = TRUE
    /\ meant' = Wanted(table, Head(ops))
    /\ UNCHANGED <<external, rights, cache, todo, scanning, picture, display, bounds, stayed>>

ApplyQueue ==
    /\ at = "idle" /\ queue # <<>>
    /\ Begin(queue)

\* activate_disklabel(): nothing pending and nothing active on the device.
\* set_disklabel() is one command, run and reported like an operation.
set_disklabel ==
    /\ at = "idle" /\ queue = <<>>
    /\ picture.devices # {}
    /\ \A n \in DOMAIN picture.parts : ~picture.parts[n].busy
    /\ Begin(<<Operation("mklabel", 0, 0, 0, 0)>>)

Fails ==
    /\ at' = "failed"
    /\ queue' = <<>> /\ steps' = <<>>
    /\ UNCHANGED display

Succeeds == steps' = Tail(steps) /\ UNCHANGED <<at, queue, display>>

DriverFails ==
    /\ at = "apply" /\ steps # <<>> /\ Head(steps).name = "driver"
    /\ Fails
    /\ UNCHANGED <<external, rights, cache, todo, scanning, picture, bounds, answered, stayed, meant>>

GivesCommand == at = "apply" /\ steps # <<>> /\ Head(steps).name # "driver"

\* parted does it; the cable may be pulled before its answer arrives
PartedRuns ==
    /\ GivesCommand /\ Reply = "answered"
    /\ PartedAccepts(table, Head(steps))
    /\ table' = Edited(table, Head(steps))
    /\ mounted' = mounted \cap DOMAIN table'
    /\ Succeeds
    /\ rights' = CheckedRights
    /\ \/ UNCHANGED <<linked, answered, bounds>>
       \/ /\ bounds.plugs < phone.max.plugs
          /\ linked' = FALSE
          /\ answered' = FALSE
          /\ bounds' = [bounds EXCEPT !.plugs = @ + 1]
    /\ UNCHANGED <<phone, adbd, cache, todo, scanning, picture, stayed, meant>>

\* Its output holds "Error:"
PartedRefuses ==
    /\ GivesCommand /\ Reply # "lost"
    /\ \/ Reply = "denied" /\ UNCHANGED bounds
       \/ ~PartedAccepts(table, Head(steps)) /\ UNCHANGED bounds
       \/ bounds.refusals < phone.max.refusals /\ bounds' = [bounds EXCEPT !.refusals = @ + 1]
    /\ Fails
    /\ Asked
    /\ UNCHANGED <<external, cache, todo, scanning, picture, stayed, meant>>

\* An output without "Error:" is a success
CommandLost ==
    /\ GivesCommand /\ Reply = "lost"
    /\ Succeeds
    /\ Asked
    /\ UNCHANGED <<external, cache, todo, scanning, picture, bounds, stayed, meant>>

\* A refusal worded otherwise is one, too: a "Warning:" answered by -s, the usage
\* text for a command this parted does not have, "parted: not found".  The status
\* it ends with is dropped by shell_command().
RefusedUnseen ==
    /\ GivesCommand /\ Reply # "lost"
    /\ \/ Reply = "denied" /\ UNCHANGED bounds
       \/ ~PartedAccepts(table, Head(steps)) /\ UNCHANGED bounds
       \/ bounds.refusals < phone.max.refusals /\ bounds' = [bounds EXCEPT !.refusals = @ + 1]
    /\ Succeeds
    /\ rights' = CheckedRights
    /\ answered' = FALSE
    /\ UNCHANGED <<external, cache, todo, scanning, picture, stayed, meant>>

NextOperation ==
    /\ at = "apply" /\ steps = <<>>
    /\ queue' = Tail(queue)
    /\ IF queue' = <<>>
       THEN at' = "completed" /\ UNCHANGED <<steps, meant>>
       ELSE /\ steps' = apply_operation_to_disk(Head(queue'))
            /\ meant' = Wanted(meant, Head(queue'))
            /\ UNCHANGED at
    /\ UNCHANGED <<external, rights, cache, todo, scanning, picture, display, bounds, answered, stayed>>

-----------------------------------------------------------------------------
(* The world outside                                                       *)

Pull ==
    /\ linked /\ bounds.plugs < phone.max.plugs
    /\ linked' = FALSE
    /\ bounds' = [bounds EXCEPT !.plugs = @ + 1]
    /\ UNCHANGED <<phone, adbd, table, mounted, rights, thread, applying, answered, stayed, meant>>

\* The phone may have been rebooted into another mode
Plug ==
    /\ ~linked
    /\ linked' = TRUE
    /\ adbd' \in phone.modes
    /\ UNCHANGED <<phone, table, mounted, rights, thread, applying, bounds, answered, stayed, meant>>

Mounts ==
    /\ bounds.mounts < phone.max.mounts
    /\ \E n \in DOMAIN table \ mounted :
        /\ table[n].holds.kernel # ""
        /\ mounted' = mounted \union {n}
    /\ bounds' = [bounds EXCEPT !.mounts = @ + 1]
    /\ UNCHANGED <<phone, linked, adbd, table, rights, thread, applying, answered, stayed, meant>>

Unmounts ==
    /\ bounds.mounts < phone.max.mounts
    /\ \E n \in mounted : mounted' = mounted \ {n} /\ stayed' = stayed \ {n}
    /\ bounds' = [bounds EXCEPT !.mounts = @ + 1]
    /\ UNCHANGED <<phone, linked, adbd, table, rights, thread, applying, answered, meant>>

-----------------------------------------------------------------------------
Init ==
    /\ phone \in Phones
    /\ linked \in BOOLEAN
    /\ adbd \in phone.modes
    /\ table = phone.table
    /\ mounted \in SUBSET {n \in DOMAIN table : table[n].holds.kernel # ""}
    /\ rights = "unchecked"
    /\ at = "idle" /\ cache = EmptyCache /\ todo = {}
    /\ scanning = NoDevice /\ picture = NoDevice
    /\ queue = <<>> /\ steps = <<>> /\ display = <<>>
    /\ bounds = [plugs |-> 0, refusals |-> 0, mounts |-> 0, scans |-> 0]
    /\ answered = TRUE /\ stayed = {} /\ meant = table

Scan ==
    \/ StartScan \/ print_all \/ ReadProcMounts \/ ReadMount
    \/ set_device_from_disk \/ set_used_sectors \/ EndScan

Apply ==
    \/ QueueOperation \/ ApplyQueue \/ set_disklabel \/ DriverFails
    \/ PartedRuns \/ PartedRefuses \/ CommandLost \/ RefusedUnseen \/ NextOperation

World == Pull \/ Plug \/ Mounts \/ Unmounts

Next == Scan \/ Apply \/ World

Spec == Init /\ [][Next]_vars

-----------------------------------------------------------------------------
(* Properties                                                              *)

ShowsTable(device) ==
    /\ device.devices = {phone.disk}
    /\ DOMAIN device.parts = DOMAIN table
    /\ \A n \in DOMAIN table :
        /\ device.parts[n].start = table[n].start /\ device.parts[n].end = table[n].end
        /\ device.parts[n].type \in {table[n].holds.type, Unknown}

Shown == at = "idle" /\ bounds.scans > 0

\* A scan all of whose commands were answered shows the phone: its disk and no
\* part of one as a disk, each partition in its place, and of each either its
\* file system or nothing.  The caches of an earlier scan, an applied queue or
\* a phone plugged in again in between must not show.
PictureIsTrue == Shown /\ answered => ShowsTable(picture)

\* What was mounted all through such a scan is shown busy, so that no operation
\* but naming and growing is offered for it.  Disks whose partitions GParted
\* calls otherwise than the kernel (mmcblk, nvme) are excepted: their mounts
\* are not recognised.
MountedShownBusy ==
    Shown /\ answered /\ phone.plain =>
        \A n \in stayed \cap DOMAIN picture.parts : picture.parts[n].busy

\* "All operations successfully completed" is true when every command reached
\* the phone and none was refused in other words than "Error:": the table is what
\* was queued, however the ends of partitions were moved one after the other and
\* whatever parted refused with that word.  A lost command and a refusal without
\* it are taken for done, which is why they are excepted.
SuccessMeansMeant == at = "completed" /\ answered => table = meant

-----------------------------------------------------------------------------
(* The inductive invariant behind PictureIsTrue and MountedShownBusy       *)

IsTable(parts) ==
    /\ parts = [n \in DOMAIN parts |-> parts[n]]
    /\ \A n \in DOMAIN parts :
        DOMAIN parts[n] = {"start", "end", "holds"} /\ parts[n].holds \in Holdings

TypeOK ==
    /\ phone \in Phones
    /\ linked \in BOOLEAN /\ answered \in BOOLEAN
    /\ at \in {"idle", "list", "proc", "mount", "blkid", "usage", "apply", "completed", "failed"}
    /\ IsTable(table)
    /\ mounted \subseteq DOMAIN table
    /\ bounds \in [plugs : Nat, refusals : Nat, mounts : Nat, scans : Nat]
    /\ DOMAIN cache = {"table", "mounts", "types"}
    /\ DOMAIN scanning = {"devices", "parts"}

IsPart(part) == DOMAIN part = {"start", "end", "type", "busy", "usage"}

\* What the caches hold after the commands so far
CacheInv ==
    /\ answered /\ at \in {"proc", "mount", "blkid", "usage"} =>
        scanning.devices = {phone.disk} /\ cache.table = table
    /\ answered /\ at \in {"mount", "blkid"} =>
        \A t \in cache.types :
            \E n \in DOMAIN table : t = <<KernelPath(n), table[n].holds.kernel>>

\* The mounts which lasted are in the cache once their listing is read.
MountsInv ==
    /\ at \in {"list", "proc", "mount", "blkid", "usage"} => stayed \subseteq mounted
    /\ answered /\ (at = "blkid" \/ (at = "mount" /\ phone.listing # "mount")) =>
        \A n \in stayed : KernelPath(n) \in cache.mounts

\* The device being filled in already shows the truth.
ScanningInv ==
    at = "usage" /\ answered =>
        /\ \A n \in DOMAIN scanning.parts : IsPart(scanning.parts[n])
        /\ ShowsTable(scanning)
        /\ phone.plain => \A n \in stayed \cap DOMAIN scanning.parts : scanning.parts[n].busy

IInv == TypeOK /\ CacheInv /\ MountsInv /\ ScanningInv /\ PictureIsTrue /\ MountedShownBusy

-----------------------------------------------------------------------------
(* The inductive invariant behind SuccessMeansMeant                        *)

InScan == at \in {"list", "proc", "mount", "blkid", "usage"}

\* Whatever was answered, a scan fills in the table of the phone or no device.
FilledIn ==
    /\ at = "list" => scanning.devices = {}
    /\ at = "blkid" => scanning.devices # {}
    /\ at \in {"proc", "mount", "blkid"} /\ scanning.devices # {} => cache.table = table
    /\ at = "usage" =>
        \A n \in DOMAIN scanning.parts :
            /\ IsPart(scanning.parts[n])
            /\ n \in DOMAIN table /\ scanning.parts[n].start = table[n].start

Touches(op, n) == op.type # "create" /\ op.n = n

\* What no operation of the queue is about is shown where it is.
DisplayInv ==
    at = "idle" =>
        \A n \in DOMAIN display \cap Numbers :
            (\A i \in DOMAIN queue : ~Touches(queue[i], n)) =>
                n \in DOMAIN table /\ display[n].start = table[n].start

\* A resize still to come starts from where its partition is.
StartsRight(op) ==
    op.type = "resize_move" => op.n \in DOMAIN table /\ table[op.n].start = op.from

IsQueue(ops) == ops \in Seq({ops[i] : i \in DOMAIN ops})

\* No two operations of the queue are about one partition, and the disklabel is
\* not changed together with other operations.
QueueInv ==
    /\ IsQueue(queue)
    /\ DOMAIN table \subseteq Numbers
    /\ \A i, j \in DOMAIN queue :
        i # j => /\ "create" \in {queue[i].type, queue[j].type} \/ queue[i].n # queue[j].n
                 /\ queue[i].type # "mklabel"
    /\ InScan \/ at \in {"completed", "failed"} => queue = <<>>
    /\ at = "idle" => \A i \in DOMAIN queue : StartsRight(queue[i]) /\ queue[i].type # "mklabel"
    /\ at = "apply" /\ answered => \A i \in DOMAIN queue \ {1} : StartsRight(queue[i])

\* What the commands left of an operation make of the table is what is meant.
StepsInv ==
    at = "apply" => queue # <<>> /\ (answered =>
        LET op == Head(queue)
        IN  \/ /\ steps = apply_operation_to_disk(op) /\ StartsRight(op)
               /\ meant = Wanted(table, op)
            \/ /\ op.type = "resize_move" /\ op.n \in DOMAIN table
               /\ steps = <<Command("move", op.n, op.start, op.end)>>
               /\ meant = Wanted(table, op)
            \/ steps = <<>> /\ table = meant
            \/ steps = <<Driver>>)

ApplyInv == FilledIn /\ DisplayInv /\ QueueInv /\ StepsInv /\ SuccessMeansMeant
=============================================================================
