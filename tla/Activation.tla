------------------------------ MODULE Activation ------------------------------
(***************************************************************************)
(* What the user does between scans: Win_GParted mounts and unmounts,      *)
(* opens and closes encryptions, and scans again; it asks for passphrases, *)
(* keeps those that worked, and passes a kept one to cryptsetup when a     *)
(* queued resize of an open LUKS volume is applied.  Commands succeed when *)
(* the devices, not the picture, allow it.                                 *)
(***************************************************************************)
EXTENDS DeviceScan, PasswordStore

VARIABLES
    store,      \* the password RAM store
    dialog,     \* the passphrase dialog that is open, or NoDialog
    queued,     \* partitions whose LUKS volume a queued operation resizes
    refused     \* history: partitions whose tested passphrase the store refused

user == <<store, dialog, queued, refused>>
vars == <<scanVars, user>>

NoDialog == [for |-> Nothing, part |-> 0]

\* The passphrase of a volume; that of the first is the longest
Passphrase(p) == [i \in 1..(Count + 1 - p) |-> p]
Passphrases == {Passphrase(p) : p \in Partitions}

Init ==
    /\ ScanInit
    /\ store = PWStore /\ dialog = NoDialog /\ queued = {} /\ refused = {}

UserActs == Idle /\ dialog = NoDialog
MayScan == scans < session.scans

\* menu_gparted_refresh_devices(): every toggle ends with it
RefreshDevices ==
    /\ MayScan
    /\ at' = "start"
    /\ UNCHANGED <<session, kind, part, picture, history>>

menu_gparted_refresh_devices ==
    UserActs /\ RefreshDevices /\ UNCHANGED <<mapped, mounted, active, caches, user>>

\* Partition::get_filesystem_partition(): what is inside an open encryption
FilesystemOf(p) ==
    IF picture[p].shown.fstype = "luks" /\ picture[p].shown.busy THEN Crypt(p) ELSE Disk(p)

check_toggle_busy_allowed_Always(p) == TRUE
check_toggle_busy_allowed(p) == p \notin queued

\* A command which fails changes nothing
CommandFails == UNCHANGED <<mounted, active, numbers, fsInfo, mounts>>

\* swapoff, and unmount_partition(), which reads the mounts again first: only
\* mount points of this very device are unmounted; those of another member of
\* a btrfs are passed over without an error.
Unmount(d) ==
    /\ ShownOf(d).busy /\ ShownOf(d).fstype # "lvm2 pv"
    /\ LoadMounts({d})
    /\ mounted' = IF CanUnmount(d) THEN mounted \ {d} ELSE mounted
    /\ UNCHANGED active

\* swapon, and activate_mount_partition()
Mount(d) ==
    /\ ~ShownOf(d).busy /\ CanMount(d)
    /\ mounted' = mounted \union {d}
    /\ UNCHANGED <<active, numbers, fsInfo, mounts>>

\* lvm vgchange
ToggleVolumeGroup(d) ==
    /\ ShownOf(d).fstype = "lvm2 pv"
    /\ active' = IF ShownOf(d).busy THEN active \ {d}
                 ELSE IF CanActivate(d) THEN active \union {d} ELSE active
    /\ UNCHANGED <<mounted, numbers, fsInfo, mounts>>

toggle_fs_busy_state(p) ==
    /\ UserActs /\ check_toggle_busy_allowed(p)
    /\ LET d == FilesystemOf(p)
       IN  CommandFails \/ Unmount(d) \/ Mount(d) \/ ToggleVolumeGroup(d)
    /\ RefreshDevices
    /\ UNCHANGED <<mapped, raid, btrfs, lvm, luks, user>>

(***************************************************************************)
(* Opening and closing an encryption.                                      *)
(***************************************************************************)
ToggleAllowed(p) ==
    UserActs /\ picture[p].shown.fstype = "luks" /\ check_toggle_busy_allowed(p)

CloseEncryption(p) ==
    /\ ToggleAllowed(p) /\ picture[p].shown.busy
    /\ mapped' = IF CanClose(p) THEN [mapped EXCEPT ![p] = 0] ELSE mapped
    /\ RefreshDevices
    /\ UNCHANGED <<mounted, active, caches, user>>

\* cryptsetup luksOpen: also fails on a volume some other program opened
Opens(p, password) == CanOpen(p) /\ password = Passphrase(p)

\* open_encrypted_partition(): the passphrase that worked is kept, one that
\* failed is forgotten
AfterOpening(p, password) ==
    IF Opens(p, password) THEN StoredAfter(store, p, password) ELSE erase(store, p)

OpenWith(p, password) ==
    /\ store' = AfterOpening(p, password)
    /\ IF Opens(p, password)
       THEN /\ mapped' = OpenMapping(p) /\ dialog' = NoDialog
            /\ RefreshDevices /\ UNCHANGED caches
       ELSE /\ dialog' = [for |-> "open", part |-> p]
            /\ UNCHANGED <<session, kind, mapped, caches, thread, history>>
    /\ UNCHANGED <<mounted, active, queued, refused>>

\* The passphrase kept is tried first
OpenEncryption(p) ==
    /\ ToggleAllowed(p) /\ ~picture[p].shown.busy /\ MayScan
    /\ IF lookup(store, p) # NoPassword THEN OpenWith(p, lookup(store, p))
       ELSE /\ dialog' = [for |-> "open", part |-> p]
            /\ UNCHANGED <<scanVars, store, queued, refused>>

\* An empty one is not even tried
EnterToOpen(password) ==
    /\ dialog.for = "open"
    /\ OpenWith(dialog.part, password)

CancelDialog ==
    /\ dialog # NoDialog
    /\ dialog' = NoDialog
    /\ UNCHANGED <<scanVars, store, queued, refused>>

(***************************************************************************)
(* Resizing an open encryption.                                            *)
(***************************************************************************)
\* The key of the mapping is in the key ring, so cryptsetup asks for it
NeedsPassword(p) ==
    get_cache_entry(luks.entries, numbers[Disk(p)]) # {} /\ p \in session.keyRing

\* ask_for_password_for_encrypted_resize_as_required(), before it is queued
ResizeEncryption(p) ==
    /\ UserActs /\ p \notin queued
    /\ picture[p].shown.fstype = "luks" /\ picture[p].shown.busy
    /\ IF NeedsPassword(p) /\ lookup(store, p) = NoPassword
       THEN dialog' = [for |-> "resize", part |-> p] /\ UNCHANGED queued
       ELSE queued' = queued \union {p} /\ UNCHANGED dialog
    /\ UNCHANGED <<scanVars, store, refused>>

\* cryptsetup luksOpen --test-passphrase
EnterToResize(password) ==
    LET p == dialog.part
    IN  /\ dialog.for = "resize"
        /\ IF password = Passphrase(p) /\ Kinds[kind[p]].use = "open"
           THEN /\ store' = StoredAfter(store, p, password)
                /\ refused' = IF lookup(store', p) = NoPassword
                              THEN refused \union {p} ELSE refused \ {p}
                /\ queued' = queued \union {p}
                /\ dialog' = NoDialog
           ELSE UNCHANGED user
        /\ UNCHANGED scanVars

\* Undo and clear; the queue is applied and the devices are scanned again
ClearQueue ==
    UserActs /\ queued # {} /\ queued' = {} /\ UNCHANGED <<scanVars, store, dialog, refused>>

ApplyQueue ==
    /\ UserActs /\ queued # {} /\ queued' = {}
    /\ RefreshDevices
    /\ UNCHANGED <<mapped, mounted, active, caches, store, dialog, refused>>

UserStep ==
    \/ menu_gparted_refresh_devices \/ CancelDialog \/ ClearQueue \/ ApplyQueue
    \/ \E p \in Partitions : \/ toggle_fs_busy_state(p) \/ CloseEncryption(p)
                             \/ OpenEncryption(p) \/ ResizeEncryption(p)
    \/ \E password \in Passphrases : EnterToOpen(password) \/ EnterToResize(password)

Next ==
    \/ ScanStep /\ UNCHANGED user
    \/ OtherPrograms /\ UNCHANGED user
    \/ UserStep

Spec == Init /\ [][Next]_vars

(***************************************************************************)
(* Properties.                                                             *)
(***************************************************************************)
\* A passphrase that is kept opens the volume it is kept for, wherever in the
\* block of memory earlier ones were put and erased: it is found whole and it
\* is not another volume's (Win_GParted.cc:2720, PasswordRAMStore.cc:114).
KeptPasswordOpens ==
    \A p \in Partitions :
        lookup(store, p) # NoPassword => lookup(store, p) = Passphrase(p)

\* A queued resize of an open volume whose key is in the key ring still finds
\* the passphrase the user was asked for when it comes to be applied, whatever
\* was opened, closed and mistyped meanwhile, unless the store had refused it
\* (luks.cc:163, Win_GParted.cc:2192).
ResizeFindsPassword ==
    \A p \in queued : NeedsPassword(p) => lookup(store, p) # NoPassword \/ p \in refused

\* A passphrase is there when the queue needs it and is the right one, whatever
\* was opened, closed and mistyped, and however the block of memory was filled.
PasswordsKept == KeptPasswordOpens /\ ResizeFindsPassword
=============================================================================
