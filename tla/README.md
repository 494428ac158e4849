# GParted (Android port): a verification of its core

GParted edits the partitions of disks. The user changes a *picture* of a disk;
every change is queued; "Apply" then executes the queue, step by step, on the
real disk. For the user's data the picture must be true, the queue must mean
what the picture shows, and each step must keep the file system whole whatever
fails or is cancelled half-way. This directory holds TLA+ models of that core,
TLC configurations which check them on small instances, and TLAPS proofs.

Sources are under `src/src/*.cc` with the headers in `src/include`. The lines
every definition models are in `PROJECT.json` ("map"), the hazards of the code
and the properties about each under "hazards".

## Inventory

| Component | State | Operations | Interacts with | Hard behaviour |
|---|---|---|---|---|
| Main window and queue (`Win_GParted.cc`) | `m_operations`, `m_display_device`, `new_count`, `copied_partition`, selection | activate_new / resize / delete / format / check / label / copy / paste / undo / clear / mount / apply, Refresh_Visual | replays Operations, reads the scan, opens dialogs, runs Dialog_Progress | the same partition is named by path, by number and by sectors, all of which change while operations are pending; merging reorders the queue |
| Operations (`Operation*.cc`, `PartitionVector.cc`, `Partition.cc`) | original, new and copied partition | apply_to_visual, merge_operations | edit the picture | position lookups on a picture changed by earlier operations |
| Boundary dialogs (`Dialog_*Partition*.cc`, `Frame_Resizer_*.cc`) | spin buttons, frame, limits | New, Resize/Move, Paste | return a partition to the main window | rounding to mebibytes and pixels, boot records, minimum sizes |
| Executing an operation (`GParted_Core.cc`) | libparted handles, the tree of results | apply_operation_to_disk and its steps | drivers, libparted, CopyBlocks | steps with rollbacks which may fail themselves |
| Moving a file system (`GParted_Core.cc`, `CopyBlocks.cc`) | offsets, total done, cancel flag | move_filesystem, copy_blocks, rollback | copy thread, main loop, signal_cancel | overlap, failures mid-way, cancel during rollback |
| Applying the queue (`Dialog_Progress.cc`, `OperationDetail.cc`) | tree of details, m_curr_op, m_cancel | on_signal_show, on_cancel, cancel tree | drives GParted_Core in a nested main loop | a cancel reaches only details which exist |
| External commands (`OperationDetail.cc`, `Utils.cc`, `PipeCapture.cc`) | CommandStatus, captures, mutex and condition | spawn, two pipes, child watch, cancel | nested main loop or scanning thread | three ends arrive in any order; a cancel outlives the child |
| Drivers (`ext2.cc`, `ntfs.cc`, ...) | capability tables | create, resize, move, copy, check | external commands | temporary mounts, exit codes, failures of the clean-up |
| Scan and caches (`GParted_Core.cc`, `*_Info.cc`, `BlockSpecial.cc`) | a dozen caches of /proc and tools | set_devices | main window | the system changes between the filling of two caches |
| Activation and LUKS (`Win_GParted.cc`, `luks.cc`, `PasswordRAMStore.cc`) | password store | mount, unmount, open, close | scan, queue | a kept passphrase of a replaced volume |
| Mount points, disks and arrays (`Mount_Info.cc`, `FS_Info.cc`, `Proc_Partitions_Info.cc`, `DMRaid.cc`) | maps keyed by device, name, UUID or label; entries in /dev/mapper | load, find, make and remove entries | scan, operations on arrays | one name is the beginning of another; references resolved while the cache they need is being filled |
| Usage (`Partition.cc`, `PartitionLUKS.cc`, set_used_sectors() of the drivers) | sectors used, unused, unallocated | read, resize, paste | drivers, dialogs | rounding, unknown figures, an encryption's overhead |
| Window around the queue (`Win_GParted.cc`, `DrawingAreaVisualDisk.cc`, `TreeView_Detail.cc`, `DialogFeatures.cc`) | devices, selection in two views, menus, panes, chart of features | selecting, choosing a device, sliding panes, rescans, flags, partition tables | everything above | handlers run the main loop and are interrupted by each other |
| ADB back end (`GParted_Core_Adb.cc`, `adb/`) | connection, rights, scan cache | parted commands over adb, parsing its text | replaces part of GParted_Core | a lost connection looks like an answer |
| Unit conversion, wording, translations, build files | - | - | - | not part of the core |

## Modules

How they fit together: `PartitionLayout` (pure) is used by `PendingOperations`
(the queue) and by `BoundaryDialog` (where the boundaries come from);
`PendingOperations` ends with `Apply`, which is `ApplyOperations`; its step
`MoveFs` is `MoveFilesystem`, which implements `AbstractMove`; its external
steps are the procedures of `FileSystemDrivers`, offered by
`FileSystemSupport`, called in `DriverCalls`; their commands run as in
`CommandRun` over `PipeCapture`. `DeviceScan` fills the picture, `Activation`
extends it with what the user does between scans and with `PasswordStore`; both
look mount points up in `MountInfo`. `DiskProbe` says which disks a scan finds,
`DMRaid` extends it with arrays whose entries operations change.
`FileSystemUsage` has the figures of a partition and the limits they set to the
dialogs. `Session` is the window around the queue, drawn by `VisualDisk` and
offering what `FileSystemSupport` supports. `AdbBackend` is the other build of
the back end, `PartedText` the text it reads. `MC*` modules are instances.

### `PartitionLayout`: the picture and how an operation edits it

No variables. A partition is a record (type, status, number, first and last
sector, whether inside the extended partition, file system, label, busy,
logicals). `id` is not in the code: it remembers which partition of the disk is
really meant, so properties can compare it with what the code *finds*.
`insert_unallocated`, `ApplyDelete`, `ApplyResizeNormal`, `ApplyResizeExtended`,
`insert_new`, `substitute_new` are the `apply_to_visual()` methods; `CanMerge`
and `Merge` the `merge_operations()` methods; `Replay` is Refresh_Visual's loop
over the queue.

### `PendingOperations`: the queue of the main window

| Model | Code |
|---|---|
| `layout` | the partitions of the current device after the last scan |
| `ops` | `m_operations` |
| `display` | `m_display_device.partitions` |
| `clipboard` | `copied_partition` |
| `new_count` | `new_count` |
| `overtaken` | auxiliary: a resize was merged into an operation it had to follow |
| `New`, `ResizeMove`, `DeleteNew`, `DeleteReal`, `Format`, `Check`, `SetLabel`, `Copy`, `PasteNew`, `PasteOver`, `Undo`, `Clear`, `ToggleBusy`, `Apply` | one per menu action, from the condition that makes it sensitive in set_valid_operations() to the Refresh_Visual() at its end |

A dialog is the set of boundaries it may return. The operating system appears
in `ToggleBusy` (it mounts the partition of the *disk* with the path it is
given, which after a renumbering is another one than the one shown) and in `Apply`
(any of the layouts may be what the next scan finds). An operation's `mounted` is
auxiliary: the logicals mounted when it was queued.

`overtaken` deserves a word. merge_operation() merges a candidate into the
latest queued operation on the *same* partition, passing over later operations
on other partitions. For a resize this is wrong (see Findings); the queue's
other promises are stated for the histories in which it has not happened, so
that one defect does not hide the rest. It also covers a resize merged into the
pending creation of an extended partition, which leaves the free space inside
with its old boundaries.

### `MoveFilesystem`: moving a file system on one disk

| Model | Code |
|---|---|
| `disk` | contents of every sector, named by where they were before the move |
| `fs` | partition_old and partition_new |
| `job`, `bench` | arguments and locals of copy_blocks() |
| `cb` | the CopyBlocks object |
| `total_done`, `cancelflag` | the same names |
| `pc`, `rolling` | which of copy_blocks(), copy_thread(), move_filesystem() and rollback_move_filesystem() is running |
| `faults`, `uncopied`, `job.stale` | auxiliary: what the disk did wrong; the sectors of total_done which were never copied, and where in a rollback they are |
| `BenchmarkChunk`, `RemainingChunk`, `CopyEnds` | the loop and the tail of copy_blocks() |
| `OpenDevices`, `OpenFails` | the start of copy_thread(): ped_device_open() of both devices |
| `CopyBlock`, `ReadFails`, `WriteFails`, `CancelledBlock`, `ChunkEnds` | the rest of copy_thread(), copy_block() |
| `Rollback`, `NoRollback` | what follows a failed copy |
| `Cancel` | the user, through OperationDetail::cancel() and set_cancel() |

One sector size is used on both sides and the copy stays on one disk, as a move
does. A cancel pressed before move_filesystem() has created its own detail does
not reach it, hence `cancelflag` starts at 0. It is the build with libparted:
the ADB build replaces the copier by a function which fails.

### `AbstractMove`: what a move promises

Every part of the file system is whole in the old or the new place, the move
ends, with everything in the one or the other, unless the disk lost data or the
move took for copied what was not (`Damaged`). `MoveFilesystem!Implements` is the
refinement, its end included.

### `ApplyOperations`: applying the queue, step by step

| Model | Code |
|---|---|
| `queue`, `cur`, `m_success`, `m_cancel` | the members of Dialog_Progress |
| `pc` | whether on_signal_show() is between operations, in one, or done |
| `steps` | the steps the operation still has to take: a chain of `&&` in GParted_Core, unfolded |
| `cancelflag` | the cancelflag of the current step's OperationDetail |
| `table`, `fs` | the partition table and the file system as they are on the disk |
| `failed`, `faults`, `forced` | auxiliary: what went wrong by itself, and whether the user forced a cancel |
| `apply_operation_to_disk`, `resize_move`, `move`, `resize_plain`, ... | the functions of the same names: which steps, in which order |
| `OnFailure` | the rollbacks of resize_move_partition() and move() |
| `resize_move_partition`, `Shrink`, `MoveFs`, ... | one action per kind of step: it succeeds, fails by itself, is refused, or is stopped by a cancel |
| `BeginOperation`, `EndOperation`, `EndDialog`, `Cancel`, `ForceCancel` | the loop and the button of Dialog_Progress |

`PendingOperations` ends with `Apply`; this module is what happens then.
`MoveFs` is one step here: its outcomes (moved, put back, a block skipped,
broken after a second fault or a forced cancel) are those of `MoveFilesystem`.
A commit has two halves, the disk and the operating system; a failing commit
may have done the first, which is why the rollback looks the partition up in the
intersection of both places. A cancel is emitted on the *signal* of the running
operation and so reaches the OperationDetails that exist; a step taken later has
a fresh `cancelflag`. Commands and copies marked cancel-safe heed a cancel, all
external commands a forced one, libparted none. The external commands
themselves are inputs: a failing one leaves the file system as it was or as it
was meant to be, one stopped by force may damage it. `ByLibparted` is a resize
of the file system inside libparted (`kind` "libparted"), which commits the
table itself and which no cancel stops; `commit` and `get_device_and_disk` are
steps of their own because either can fail with the other done.

### `PipeCapture` and `CommandRun`: running a command

`PipeCapture` is pure: `OnReadable` over classes of bytes, with characters split
by the read buffer and the line discipline for `\b`, `\r`, `\n`.

| Model | Code |
|---|---|
| `caller` | where execute_command() is: spawning, connecting either capture, waiting, returned |
| `cmd`, `woken`, `mutex`, `main` | `CommandStatus`, the nested loop's quit or the condition, who holds the mutex |
| `watching`, `child_watch`, `captures`, `pipes`, `process` | the sources of the main loop, PipeCapture objects and the child |
| `cancelflag`, `connected`, `asking` | on_cancel() of the dialog and the connections of cancel_command() |

Callbacks run in any order. The same module has the command of an operation
(nested main loop) and Utils::execute_command() on either thread; a loop can be
left only when nothing above it on the main loop's stack still runs.

### `FileSystemSupport`, `FileSystemDrivers`, `DriverCalls`: the drivers

`FileSystemSupport` is the capability table of each driver as rules: what is
offered, by whom, when which programs, features and kernel are there
(`kernel_supports_fs`, `kernel_version_at_least`: also for a kernel whose version
cannot be read).
`FileSystemDrivers` is, for each driver and operation, its sequence of steps:
the programs, temporary mount points, accepted exit codes, what a failure skips.
`DriverCalls` runs sessions of them: programs fail, find damage, mounts and
directories cannot be removed. `Sound` is what every sequence of steps must be for
a session to be safe: paired, placed and answered. `Repaired` are the exit codes by
which a checker says that it has repaired what it found, as the comments of the
drivers list them; `Misread` those which the driver takes for failures. A checker
whose codes the source does not list (exfat, minix, hfs) returns 0 after a repair.

### `DeviceScan`, `PasswordStore`, `Activation`: what is on the disk and in use

`DeviceScan` has the scan thread one cache at a time and one partition at a
time, each `*_Info` cache with what it remembers, names resolved by the numbers
of BlockSpecial, and other programs acting between any two steps. Kinds of
contents are records of what blkid, libparted and GParted's own signatures say.
`PasswordStore` is the fixed block of locked memory with its address
arithmetic. `Activation` has the user's mounting, opening and closing, the
passphrase dialog and the resize of an encryption which reads the store.

### `MountInfo`, `DiskProbe`, `DMRaid`: names, references and arrays

`MountInfo` is pure: the cache of blkid's entries whose labels are read when first
wanted, /proc/mounts, `mount` and /etc/fstab as maps from device numbers or
`UUID=`/`LABEL=` references to mount points, and `find`, which resolves the
references in the order of the map until the device asked for turns up (`Tried`,
`FoundAfter`).
`DiskProbe` is pure as well: names are sequences of tokens, so that `sda` can be
the beginning of `sdaa`, and set_device_from_disk() tells partitioned disks, file
systems on whole disks, loop devices and members of ZFS pools apart. `DMRaid` has
the entries of /dev/mapper with the place each was made for, the scan which
makes what is missing, and operations which remove, renumber and make them
again, each of which may fail; others mount what the entries name.

### `FileSystemUsage`: how full a partition is

`disk` is what really is there, `part` the record of the picture: what each
driver's set_used_sectors() reads (`jfs_usage`, `ext2_usage`, ...), what
set_sector_usage() makes of it, the sums over header, mapping and file system of
an open encryption, and what a queued resize and a paste onto a device with other
sectors leave of it. `MinSize` is the least the resize dialog lets the user choose.

### `VisualDisk`, `Session`: the window

`VisualDisk` is pure: how many pixels each partition gets, where it is drawn, how
its bar is divided, and which partition a click meets. `Session` has the window:

| Model | Code |
|---|---|
| `machine`, `changes` | the devices plugged in, and how often that has changed |
| `win.devices`, `win.current`, `win.display`, `win.ops` | `m_devices`, `m_current_device`, `m_display_device`, `m_operations` |
| `win.selected`, `win.inTree`, `win.inVisual` | `selected_partition_ptr` and what the two views show as selected |
| `win.allowed`, `win.formats`, `win.found` | which menu items are sensitive, the menu of formats, and `m_fs_support`, what the last look for programs found every driver able to do |
| `win.open`, `win.visible`, `win.item`, `win.panel`, `win.info` | the pane of operations and the panel with the device's details, each with its check menu item |
| `win.stack` | what is left to be done by the handlers which run the main loop: Refresh_Visual(), open_ and close_operationslist(), the rescan, the command for the flags; a step goes on to the next place where the loop runs |
| `visual_partitions` | the graphic, laid out whenever the picture or the width changes |
| `touched`, `win.asked` | auxiliary: for which partition the flags were asked, which one's flag changed, and whether operations were queued or another partition had been selected |
| `activate_manage_flags`, `DialogManageFlags` | the command, up to the main loop it runs; the dialog, of what is selected after it: no partition (`crashed`), a flag changed, or none |
| `Resume` | the innermost interrupted handler goes on |
| `Click`, `SelectRow`, `ChooseDevice`, `activate_*`, `menu_*`, `Plug` | the user's actions and a device plugged or unplugged |

Operations of five kinds are enough to change the picture; what else they do is
`PendingOperations`. The chart of the features dialog, the information dialog and
the dialog before a non-empty physical volume is destroyed are functions of
`win`, compared with what the menus offer.

### `AdbBackend`: parted on a phone

Every command sent is one step (`at`), in the order of the code; between any
two the cable may be pulled or put back, parted may refuse, partitions may be
mounted. `rights` and `cache` are what AdbClient and the core keep between scans.
`answered` remembers that no command since the scan or the applying began was
lost or denied, nor refused unseen: the code cannot tell an empty answer from none,
nor a refusal without "Error:" from a success (`RefusedUnseen`). While a queue is
applied, `meant` is the table it stands for, `display` the one the window shows
and the commands are computed from, and `steps` the commands left of the operation.

`PartedText` has the text: `Printed` is what parted prints of a disk,
`print_all` puts the disks one after the other, `extract_device_output` cuts one
out again and `parse_print_output` reads it line by line; a row is cut at the
columns of its heading, and empty cells at its end are missing.

### `BoundaryDialog`: where boundaries come from

`members`, `spin`, `orig`, `frame` are the members of Dialog_Base_Partition and
Frame_Resizer_Base. `Accept` is get_new_partition() with snap_to_alignment().
A spin button holds multiples of 1/`Width` MiB, as a drag makes them. A new
partition also has menus (`TypeChosen`, `New`): the file system brings limits of
its own, and the entry for an extended partition comes and goes.

## Runs

| Run | Instance | Shows |
|---|---|---|
| `Queue` | 8 MiB, one sector each, `MaxPrims` 3, six sessions: two primaries moved, copied and pasted; attributes edited between mounts; three logicals and their extended partition; sources of copies mounted; logicals deleted, mounted, copied, pasted and labelled in queues of two, and without the labels of three | every prefix of the queue is a possible disk (`FeasibleInOrder`), each queued operation finds its target, as busy as it was (`QueuedAsMeant`), numbers stay right (`NumbersHold`), one edit touches one partition, the clipboard keeps its partition; each but for the cases named below |
| `MoveSafety` | all moves of up to 8 sectors on 9, with chunks of 2 and blocks down to 1, and with chunks and blocks of 3 | with devices that do not open, failing reads, failing and torn writes, a cancel and a forced cancel at every step: five safety properties, and `Implements`: the move implements `AbstractMove`, its end included |
| `ApplySteps` | a partition of up to 5 sectors between two neighbours, eight kinds (plain, by libparted, swap, NTFS, closed and opened encryption, encrypted swap, extended), each operation followed by another | two steps fail anywhere, a cancel and a forced cancel come at any step: nothing reaches out of the partition (`StaysInside`), rollbacks find it, it stays mountable, what is reported is what happened (`HonestOutcome`) |
| `Commands` | two commands one after the other, texts of up to 4 bytes, a read buffer of 3 | every order of child's end, pipes' ends and cancels: the caller is woken once, nothing dangles, status and output are the command's own, every command returns |
| `Drivers` | 21 drivers, pairs of calls, seven kernels, any one program or feature missing, up to two failures | what is offered can be done, a success is one, damage that stays is reported (`HonestResult`), mount points are cleaned up, programs run on file systems in the state they need |
| `Scan` | two partitions out of twelve kinds, members of arrays behind encryptions, lines of /etc/fstab, copies with equal UUIDs, an old kernel's /dev/root, 24 bytes of locked memory | what is in use all through a scan is shown busy, an undisturbed scan is true, labels, UUIDs and mount points included (`DetailsAreTrue`), passphrases are there when needed and the right ones (`PasswordsKept`) |
| `Adb` | tables of three numbers on 5 sectors, five phones | a scan all of whose commands were answered shows the phone as it is and what is mounted as busy; a success none of whose commands was lost or refused unseen left the table asked for; the text read gives back the tables printed (`TextIsTrue`) |
| `Boundaries` | 40, 41 or 42 sectors of 4 to a MiB, seven layouts, XFS and others, some partitions pending, frame 12 pixels, two changes per dialog | what is accepted lies on the disk, leaves neighbours, boot records and the GPT backup alone and lies inside what it belongs to (`InItsPlace`), is what the dialog showed, and the type and file system chosen belong together and fit it (`ChoiceHolds`) |
| `Usage` | partitions of 40 to 5000 sectors of 4 or 8 bytes, blocks of 4 or 8, all file systems, two edits | figures are true and add up (`ShownAsUsed`), no dialog lets a partition become smaller than its data |
| `Session` | one or two disks and a third which comes and goes, seven layouts in ten widths, up to two operations, up to four handlers interrupting each other | partitions are drawn and met by clicks where they are, selection, queue, menus, panes and flags agree (`WindowHolds`, but for flags in the cases named below), and so do chart, menus and dialogs (`DialogsAgree`) |
| `Names` | one or two arrays in either order and up to four disks with names which begin alike, two of them in one pool as well, two operations or mounts, one failure | an entry is where its number says (`PathsAreTrue`); every disk is shown as what it is, and what is mounted of an array as busy (`NothingHidden`); but for two kinds of names |
| `FindOvertaking` (violation) | two primaries, deleted and resized | shrink sda1, delete or move sda2, grow sda1: the two resizes of sda1 become one that runs first and overlaps sda2 |

## Observations

Disagreements met while modelling. The models do what the code does; the properties
name the case they leave out, and without that exception TLC finds it.

* Copy a logical, delete a lower one: the clipboard now holds the next partition,
  and a paste copies that (`Win_GParted.cc:1099`; the comment at 1041 promises
  the copy lives until the device goes; `RenumberedOnDisplay`).
* Mounting or unmounting the source of a queued copy is allowed
  (`Win_GParted.cc:3400` counts the partitions operations are *on*), although
  pending operations "must prevent changing the busy state of the partition" (the
  comment at 2988; `SourceOfCopy`).
* A logical above a queued deletion can be mounted after it: activate_delete() looks
  at the highest busy logical when the deletion is queued (2455), nothing looks when
  a partition is mounted. Applied, the deletion renumbers a busy partition, which
  the comment at 2446 says must be prevented (`MountedAfter`).
* Mounting a logical which is shown with a new number mounts what the *disk* has under
  that number, and unmounting it does nothing (2854): the path is the display's.
* Deleting a pasted logical moves the numbers above that of its source down, as if
  a partition of the disk had gone (`OperationDelete.cc:86` excepts new partitions
  and not copies): real logicals are shown renumbered, and two partitions may be
  shown with one path (`PastedLogicalDeleted`).
* When the devices cannot be opened, `done` of CopyBlocks still is the size of the
  partial block (`CopyBlocks.cc:173`; 102 to 119 leave it) and copy() adds it to
  total_done (185). The rollback takes that block for copied: where it is longer
  than the distance moved, the rollback copies back sectors of the new place
  over good ones of the old place, and the move is reported as restored
  (`Overwritten`: which sectors these are).
* A read error loses one block of a move which is reported as done
  (`CopyBlocks.cc:251`); `MovedIntact` waives it by `Lost`.
* A logical moved to end right in front of its old place loses a mebibyte to a boot
  record nobody needs (`Dialog_Base_Partition.cc:414` against 231 and 444;
  `BeforeItself`). A new logical of exactly the least size of its file system
  can end a mebibyte below it.
* The check for a primary partition that follows asks for one which is already on the
  disk and passes over equal numbers (`Dialog_Base_Partition.cc:447`; the comment at
  435 excepts neither): where partitions are not aligned to mebibytes, a pending
  partition which is resized, or a pasted one which still has the number its
  source has, may end in the first mebibyte of the next; a pasted XFS, which may be
  small, may even lie in it (`Overlooked`).
* On a disk which ends one sector less than half a mebibyte past a whole number of
  them, an extended partition resized without alignment can end before its last
  logical does, be it a mebibyte long or longer: what is used is counted one sector
  short (`Dialog_Partition_Resize_Move.cc:314`) and the space behind it is rounded up
  (`GivenAway`).
* With operations queued the flags dialog changes the flag of whatever partition
  the *disk* has at the middle of the one shown (`GParted_Core.cc:4280`; the manual,
  `help/C/index.docbook:2011`, says the flag is written to the partition);
  `FlagsMeant` excepts it (`queued`).
* The command for the flags runs the main loop between asserting that something is
  selected and using the selection (`Win_GParted.cc:3180` to 3187). A partition
  selected meanwhile gets the dialog (`reselected`); when nothing is selected any more,
  as after choosing another device, the model stops where the code follows the null
  pointer (`crashed`).
* A deletion of a pending new partition removes the first queued creation with
  its path, which need not be its own (`Win_GParted.cc:2511`).
* Undo chosen while the pane slides shut finds an empty queue and looks at its last
  element (`Win_GParted.cc:3357`); the model stops there (`crashed`).
* After a device has been unplugged the index of the current one may show another
  (`Win_GParted.cc:1645`), and operations stay queued for a different device
  which has got the same path (1650).
* Closing the panel with the device's details and opening it again before it is
  shut leaves it hidden with its menu item checked.
* The dialog before a physical volume is destroyed looks its volume group up by the
  path of the selected partition: for one inside an open encryption it shows none
  (`Win_GParted.cc:3519`).
* A cancel which the last step of an operation does not heed ends the queue, and
  the dialog says that all operations completed (`Dialog_Progress.cc:281`); closing
  the window is not held back by the countdown of the forced cancel (350, 620).
* The failure of a copy of an XFS goes unnoticed, an NTFS resize leaves a detail
  without an outcome, a reiserfs and a 16 TiB ext4 are offered for one program and
  run another (`HonestSuccess`, `Gap`).
* Code 2 of jfs_fsck is "File system errors corrected, system should be rebooted" and
  taken for a failure (`jfs.cc:298`, 299), as is 2 of reiserfsck (`reiserfs.cc:223`, 224)
  and 3 of e2fsck, the sum of two codes which are accepted (`ext2.cc:320` to 327): a
  repair is reported as an error, and the rest of the operation is not run (`Misread`).
* `is_partition_of_device()` never looks at the first character after the name, so
  sdab1 counts as a partition of sda, and sdaa as well
  (`Proc_Partitions_Info.cc:221`, 236 against the comments at 175 and 218). When sda
  and sdaa are members of one ZFS pool as whole disks, sda is shown as a disk
  with an unrecognised table and nothing in use (`TakenApart`).
* Of two lines of /etc/fstab for one open mapping the later replaces the earlier,
  and `UUID="..."` in quotes is not resolved.
* When dmraid lists an array raid10 before raid1, the entry raid10p2 is taken for one of
  raid1, without a number (`DMRaid.cc:185`, 240): it is not among the affected entries
  when its partition is deleted or renumbered (374), stays, and is used afterwards for
  the partition which gets its name (`Mistaken`).
* Entries left behind when they could not be removed, a device which cannot be opened in
  update_dmraid_entry() counted as done, a purge's result nobody looks at
  (`GParted_Core.cc:523`), and members shown idle without udevadm (`DMRaid`).
* The size limits of an encrypted file system are a mebibyte whatever its driver
  says, by the precedence of `?:` (`Win_GParted.cc:2056`); a queued resize forgets
  what statvfs() hides; an XFS whose usage is unknown can be pasted anywhere.
* Over adb the exit status of a command is dropped (`AdbClient.cc:93`) and only the
  word "Error:" looked for (`PartedCommand.cc:95` and on): a lost command, a "Warning:"
  answered by -s, the usage text for an unknown `move` (new parteds have none) and
  "parted: not found" all count as success (`RefusedUnseen`, `CommandLost`).
* Over adb: `extract_device_output()` takes the model from the line in front of the
  *next* disk, and parse_device_info() cuts the last character of a model; the word
  "unrecognised" anywhere makes a whole disk unknown; tables without a column
  Name, an "lba" flag taken for an extended partition, the end of a partition taken
  for a flag, kB read as 1024; a new scan clears the devices the user had named.
* Half mebibytes left by a drag are rounded for every button by itself, so that they
  need not add up (`AddUp`); logicals with less than a mebibyte between them, the
  last sectors of a GPT reached from an unaligned start, cylinder alignment of a
  disk with mebibyte partitions and an extended partition shrunk below its last
  logical without alignment are accepted by the dialogs (`Accepted`).
* The handler of libparted's exceptions waits on its condition without a predicate
  (`GParted_Core.cc:4381`). Not modelled.

### Bounds

`Queue`: one sector per mebibyte: the dialogs return mebibyte aligned boundaries and
every comparison in the replay is with a mebibyte. 8 MiB have room for the
one-mebibyte gaps at which insert_unallocated changes its mind and for
partitions that grow, shrink, move and swap. Two or three queued operations are
enough for one to be overtaken, renumbered or undone between two others.
Sessions select the menu actions that bear on one another, to keep the number of
states down, not to keep a case out: what the code gets wrong is excepted in the
properties (`SourceOfCopy`, `MountedAfter`, `RenumberedOnDisplay`,
`PastedLogicalDeleted`), each reached by a session. Only histories in which
no resize overtook another operation are explored (`CONSTRAINT InOrder`): the
properties are stated for those, the rest is `FindOvertaking`.

`MoveSafety`: a chunk of 2 sectors with blocks of 1, and one of 3 with blocks of 3,
give every shape of copy_blocks(): no benchmark, one, several, a remainder, a partial block, both
directions, overlap larger and smaller than a chunk, and a partial block longer than
the distance moved. `ApplySteps`: 5 sectors are
enough for moves with and without overlap combined with growing and shrinking,
and two faults let a rollback fail as well. `Commands`: four bytes hold a
character cut by the buffer, one overwritten and a line's end. `Drivers`: one call
may leave behind what the next stumbles over. `Scan`: two partitions are needed
for mappings whose numbers are used again, arrays and volume groups of two.
`Adb`: a deletion, a creation and a move in one table of three. `Boundaries`: 4
sectors to a mebibyte let sub-mebibyte gaps happen, two changes let one spin
button's limit follow from another's; the disk ends on a mebibyte, halfway to the next or a sector less. `Usage`: sectors larger and smaller than
blocks, a file system which fills its partition, leaves less than a sector or
more than the significant threshold, and one size in each range of that
threshold. `Session`: two devices and a third are enough for an index to mean
another device; a handler interrupted three times over meets itself. Of the
sessions each allows the actions which bear on one another. `Names`: numbers of
one digit (`MaxNumber`), three or four steps, one failure. `Scan`'s lines of /etc/fstab come in pairs.

Deadlock is not checked: queues are bounded, and a move, a command, a scan, a call
and a dialog end. That what must end does end is stated as liveness instead.

### Fairness

`MoveFilesystem!FairSpec`: weak fairness of `Progress`: the copy thread and the main
loop, two threads of one process which nothing blocks, keep running. The user
need not cancel and no disk access need fail or succeed.
`CommandRun!FairSpec`: while a child has yet to end or to close a pipe, or a thread or
its main loop has something to run, one of them does (weak fairness of all together,
which assumes less than that of each: a command leaves each of them a bounded number
of steps), questions are answered, and a nested loop which has been told to quit is
left. That needs strong fairness: the loop may be left only when no callback above it
runs, and the dialog which asks whether to cancel by force comes and goes.

## Proofs

Every theorem holds for all values of the constants which satisfy the module's
assumptions.

`MoveFilesystem_proofs`: `IInv` is invariant for every disk length, set of moves,
chunk and block size satisfying `MoveAssumption`, and implies the safety
properties of `MoveSafety`; `RefinesAbstractMove` shows that every step maps to a
step or a stutter of `AbstractMove`. `IInv` is the conjunction of

* `TypeOK`;
* `JobInv`: the job is the whole move, or exactly the overwritten part of it;
* `ProgressInv`: chunks and blocks tile the job: after the first block, the
  rest is a whole number of blocks and the offsets agree with what is done; and
  total_done exceeds what was copied by `uncopied` only, once a move has failed;
* `CancelInv`: a rollback is only ever stopped by a forced cancel;
* `ContentsInv`: sectors copied are in their new place, sectors not yet copied
  are still unharmed in their old place, nothing else changed; but for the `Stale`
  sectors of a rollback, which never were in the place it copies from;
* `BystandersUntouched`, `RestoredIntact`, `CancelRestores`.

The safety properties are not inductive: that no sector is lost depends on
the order of the blocks (`ContentsInv`), which depends on the offsets
(`ProgressInv`), which depend on the chunk having been taken from the right end
of the job (`JobInv`). The key lemma is that writing a block never hits a
sector which is still to be read, because the copy runs away from the overlap.

`CommandRun_proofs`: `IInv` has the type invariant, `EndsInv` (the ends still owed are
counted in `running` and `pipecount`, and a watch exists exactly for each),
`WakeInv` (woken means that none is owed) and `MutexInv` (one owner; a callback
holds the mutex only while the background caller waits). `WokenOnce` and
`NothingDangles` follow; they are not inductive because the counters could
otherwise reach zero early.

`ReturnsAll` is `ReturnsWhatHappened` for every script, every output of any length and
every size of the buffer. It needs `CaptureInv`: each capture `Shows` the bytes read from
its pipe so far, and its caller has them too once the pipe has ended. `Shows` says that
`m_readbuf` holds the partial character of those bytes, that the lines before
`m_line_start` are the ones a terminal has finished, and that at each column of
`m_linevec` is what was printed there last, with `m_cursor` where the line left it.
Two lemmas carry it: `ReadsJoin` (bytes are decoded to the same characters, and leave the
same partial one, however they are split into reads), and `LineGrows` (overwriting at the
cursor shows the latest character of each column). TLC found `CaptureInv` to hold on
`Commands`.

Text is folded character by character. `FoldLemmas` proves what that needs:
`Induction` over the natural numbers, from the least element of a set of them, and
`ResultAppend`, that a `FoldLeft` over a sequence with one element more is the
operator applied to the fold over the sequence. The operator folded is a parameter,
which no lemma can have here, so that each of the four operators of `PipeCapture` that
are folded has its own lemma, which ties it to the table of `FoldLemmas`.

`AdbBackend_proofs`: `IInv` has the type invariant, `CacheInv` (while all commands were
answered the cache holds the phone's table), `MountsInv` (and its mount map all
that stayed mounted) and `ScanningInv` (what has been filled in agrees with
both); `PictureIsTrue` and `MountedShownBusy` follow. `ApplyInv` is about the queue
being applied: no two of its operations are about one partition, a resize to come
starts from where its partition is (`QueueInv`), what no operation is about is shown
where it is (`DisplayInv`), and what the commands left (`steps`) make of the phone's
table is what is meant (`StepsInv`). `SuccessMeansMeant` follows, for every
refusal with the word looked for; it promises nothing once a command was lost or refused unseen. It is not
inductive: a resize is sent with the start read when it was queued, which is only
the partition's start as long as no other operation of the queue is about it.

`DriverCalls_proofs` first has `ProceduresAreSound`, over all 21 drivers, every
environment (any set of programs, features and kernel) and every call. One lemma per
driver tells from its rules what must be there for an operation to be offered
(`Offering`: the strongest rule is one of the rules) and cites a lemma for the shape
of its steps: a plain program, a program around a mount point (`AroundIsSound`), the
copy of an XFS (`XfsStepsSound`).

There `IInv` is invariant for any set of types with a driver
(`TypesAssumption`), any kernels and any number of calls, failures and missing programs.
Its parts are

* `CallInv`: the procedure running is `Sound`;
* `StepsInv`: a step that succeeded had what it needs;
* `OwedInv`: a directory or a mount which is there is owed by a step still to come,
  or is stuck. Hence `CleanedUp`: at the end no step is to come;
* `ActiveInv`: what is mounted is what the scan found and what the call has mounted and
  not taken back. Hence `RightState`;
* `ResultInv`: a failure is blamed on something outside the program, or on a repair
  whose exit code is one of `Misread`, and a success has no failing step. Hence `HonestResult`.

None of the three is inductive: whether a directory will be removed depends on no
step between its making and its removal returning early (`Undoes`), and whether a
program meets its file system mounted depends on the mount it waits for not having
been taken back yet (`Placed`).

`ApplyOperations_proofs` begins with operations which go well: from where a queue may begin
(`Start`), the steps of each lead through sound situations, each step finding what it
needs (`Fine`), to what the operation means (`Done`). `Leads` says so for a whole
sequence; `ThenRest` takes its first step away, `OneThenOne` to `OneThenThree` build it
up, and there is one lemma per function of GParted_Core (`ResizePlain`, `ResizeOpen`,
`Move`, `CheckRepairMaximize`, `Copy`, ...). `OperationLeads` joins the ten types of
operation, `DoneThenStart` two operations of a queue.

Its second half adds what goes wrong. `ApplyInv` is invariant for any number of
operations, any places of any neighbours, any number of faults, and a cancel or a
forced cancel at any time. It implies the four properties of `ApplySteps`. Its parts are

* `TypeOK`, `QueueHolds`, `CancelHolds` (a step heeds no cancel nobody asked for);
* `TableHolds`: neighbours stay, and the partition overlaps none;
* `InOperation`: there is an undamaged situation which the disk is like (but for damage
  by a fault or by force), from which the steps still to come lead to another; that has
  the file system at the start of its partition unless putting it there was what failed,
  and is what the operation means if no step has failed;
* `InDialog`: the disk is like a situation where the next operation may begin, or one
  which the operation before has left.

None of the four properties is inductive: that a shrunk partition still holds its file
system depends on a step taken before, that a rollback finds the partition on what the
failing commit did, and that a success means anything on all the steps to come. A
failing step replaces the rest by the rollback of `OnFailure`, and the proof shows that
these steps lead home too, from both outcomes of the commit which failed.

TLC cannot evaluate `ApplyInv`: the two situations are existentially quantified over
all integers. It checks what follows from it, and the assumptions. `ApplyAssumption`
says that neighbours have places. `ScenarioAssumption` is what the window and its
dialogs let a user queue: an operation is about a partition where the one before has
put it (`Follows`); a dialog ends at the neighbours, or at partitions still in its way;
what is in use is not moved, and a closed LUKS volume not shrunk; the source of a copy
is there (`Queueable`); a file system begins where its partition does and fits in it,
and an open LUKS mapping is as large as its partition (`Fits`). The last leaves out
mappings made smaller than their partition by hand (see "Not modelled").

`Activation_proofs` is about the scan and the passphrases, for every set of sessions
satisfying `SessionAssumption`: any number of partitions of any kinds, any number of
mounts, unmounts, openings, closings, rewrites and scans. `ScanInv` is invariant; it
implies `InUseIsShownBusy` and `PictureIsTrue`. Its parts are

* `WorldHolds`: what is on the devices, and that each is used only as its kind can be;
* `HistoryHolds`: what has been in use all the time since the scan began, with the
  device below an open mapping and with a mounted member of each btrfs in use;
* `NumbersAre`: the device numbers remembered tell the `Known` devices apart: all there
  are as long as nothing has changed, those in use all the time afterwards;
* `ListHolds`, `MountsHold`, `RaidHolds`, `BtrfsHolds`, `LvmHolds`, `LuksHolds`: what each
  cache says of the devices `Known`, from the step that loads it on;
* `PictureHolds`, `OpenHolds`: what is shown of the partitions looked at so far.

The properties are not inductive: that a device is shown busy rests on every cache
having been loaded before it is looked up, and on a number remembered at the first
lookup still being the device's own when another cache is loaded, although another
program may have closed a mapping and opened one with its number between. The key
lemma is `OthersAreSteady`: whatever other programs do, what was in use all the time
keeps its number and its content, and is put to no other use.

`DetailsAreTrue` is what the same scan shows besides: mount points, labels, UUIDs and
read-only. `AlwaysTrueDetails` proves it for any number of lines in /etc/fstab, each
with any UUID, label or device (`NamesOf`), and any labels and UUIDs, equal ones
included. `DetailInv` is invariant together with `ScanInv`. Its parts are

* `OneMounted`: of the devices of a btrfs one is mounted at a time, so that a member's
  mount point and read-only mark are those of the one which is;
* `NumbersTell`, `EntriesTell`, `MountsTold`, `RaidTold`, `LvmTold`, `LuksTold`: as long as
  nothing has changed, each cache has the details of the devices, and no device too many;
* `FstabTold`: a device has no mount point but those its own lines give it; a line only
  it is meant by has been resolved, or is kept as a reference, which is to no
  partition; and a reference kept stands for no line but its own;
* `DetailsHold`: what is shown of the devices the scan has passed.

It is not inductive because Mount_Info::find() resolves references on the way to the
device it looks for, with the blkid entries known by then (`FS_Info` learns of an open
mapping only when the scan reaches it), and lets the last one of a device replace the
others. Hence the second half of `FstabTold`: the entries of all partitions are there
when /etc/fstab is read, so that only a mapping can turn up for a reference later. The
lemmas are `LookupTells` (what an entry or a label is found for), `AskedTells`
(which labels have been read when they are compared), `FoundAfterTold` (one find()) and
`FstabFound` (what it returns). The proof corrected the property: a LUKS volume inside an open
one has no mapping itself, where `TrueDirs` had the one it is in; no session of `Scan`
has such a volume.

For the passphrases `StoreHolds` says that entries lie apart in the order of their
addresses, each with its own passphrase as far as it is within the block of memory,
and `QueueHolds` that a queued resize which needs one has its passphrase kept.
`PasswordsStay` states `PasswordsKept` as long as `MemorySuffices`: PWStore::insert()
takes the space in use for the space left (`PasswordRAMStore.cc:114`), so that it does
not keep within the block by itself. `Scan` stays below that limit.

`FileSystemUsage_proofs` is about every set of disks, sizes of sectors and blocks and
number of edits that satisfy `UsageAssumption` (a file system fits into what is left of
its partition) and `OverheadAssumption` (what a mounted file system keeps from
statvfs() is less than the share of the partition which is not worth a warning).
`UsageInvariant` is invariant and implies `MinimumHoldsData` and `ShownAsUsed`. Its
parts are

* `Typed`, `Begun`, `LuksIsKnown`: what each driver's figures can be;
* `Fits`: known figures are not negative and add up to the length, and the header, the
  mapping and what is behind it to the partition around them; `MappingFills`: a resize
  or a paste leaves nothing behind the mapping;
* `SectorsKept`, `BusyStays`: sectors change size only on the way to another device,
  which nothing in use takes;
* `UsedHolds`: the figure of what is used covers the file system's data but for what
  the reading rounded (`Short`) and what statvfs() hid (`Hidden`); `LeastHolds`: right
  after a reading the dialog's minimum covers even the latter.

The properties are not inductive: that the minimum of the third queued resize holds
the data rests on used sectors never having been taken for unallocated ones on the
way. There is one lemma per driver (how its figures round), one for
set_sector_usage() and one per edit. The proof corrected the property: of a UDF the
size is rounded up and the free space down, each to a sector, so that what is shown
as used can be two sectors too many, where `UsageIsTrue` had one; a disk of `Usage` now
shows it.

Only model-checked: that moves and commands end (liveness), the queue, the dialogs (a
recursive spin button), the window, arrays and the text over adb. What the properties
of these except is named in them, and each exception is an observation above.

## Not modelled

* The vendored test framework `src/lib/gtest`, which is two fifths of the lines of the
  repository, and the unit tests, which were read for what they promise.
* Option menus, tooltips, dialogs which return one value, unit conversions and
  wording in `Utils.cc`, main().
* Merging operations of several devices, LUKS mappings in the queue (their steps
  are in `ApplyOperations`), cylinder geometry in the steps, several partitions of
  one table in the steps.
* A LUKS mapping made smaller than its partition by hand, where a shrink by less than
  the difference is refused by shrink_filesystem() itself; and the LUKS header.
* How a tool's output is cut into fields, but for parted's (`PartedText`).
* Over adb: labels and UUIDs, several phones.
* A device which libparted does not find: ped_device_get() returning null
  (`CopyBlocks.cc:175`) is opened all the same.
* Undefined behaviour of memory: CopyBlocks stays connected to signal_cancel after
  it is gone (`CopyBlocks.cc:63`).

External programs, libparted and the kernel are inputs: a failing step leaves
what it works on as it was or as it was meant to be. A torn block (a failing write which
wrote part of an overlapping block) cannot be repaired by the code; the
properties waive that case and say so (`Lost`).

## Plan

What is left: several partitions in `ApplyOperations`, so that
calibrate_partition() can meet a renumbered one; several devices and mappings in
`PendingOperations`; copies between devices with different sectors in
`MoveFilesystem`; the insert_unallocated lemmas of `PartitionLayout` as theorems.
