-------------------------------- MODULE Session --------------------------------
(***************************************************************************)
(* The main window (Win_GParted) around the queue of operations: the       *)
(* devices found by the last scan and the one shown, the graphic and the   *)
(* list which select for each other, the menus, the pane with the pending  *)
(* operations, and what is done to a disk at once, without the queue.      *)
(*                                                                         *)
(* Handlers run the main loop themselves, at the end of Refresh_Visual(),  *)
(* while the pane slides open or shut and before the dialog of the flags,  *)
(* so that the next handler may start before they are through.  "stack"    *)
(* holds what is left to be done.                                          *)
(*                                                                         *)
(* A partition has the fields of VisualDisk, where                         *)
(*   type, status, fstype, busy, mounts (it has mount points)              *)
(*   inner         file system in a LUKS encryption,                       *)
(*                 [fstype, busy, mounts, vg]                              *)
(*   vg            volume group a physical volume belongs to, or ""        *)
(*   id, start     which one it is on the disk (0: none), first sector     *)
(*   flagged       its flag, named                                         *)
(* and a device is [path, length, readonly, naming, table, partitions].    *)
(***************************************************************************)
EXTENDS VisualDisk, FileSystemSupport

CONSTANTS
    Worlds,     \* the sessions looked at:
                \*   machine    devices plugged in, in the order a scan lists them
                \*   spare      devices which may be plugged in
                \*   actions    of the user, and "nested" those of them taken while
                \*              another handler is not through
                \*   widths     of the graphic
                \*   installed  what may be installed when it is looked for
                \*   maxOps, maxNew, maxChanges, maxStack   bounds
    NoDevice    \* shown before anything was

VARIABLES
    world,      \* the element of Worlds
    machine,    \* devices plugged in
    changes,    \* how often that changed, by plugging, applying operations or a flag
    win,        \* the window, see Init
    touched     \* auxiliary: for each flag changed the partition it was asked for, the
                \* one it was changed of, whether operations were queued, and whether
                \* another partition had been selected before the dialog was there

vars == <<world, machine, changes, win, touched>>

Everything == UNION {LookedFor(t) : t \in DOMAIN SupportedFileSystems}

Columns == [create |-> "create", grow |-> "grow", online_grow |-> "grow", shrink |-> "shrink",
            online_shrink |-> "shrink", move |-> "move", copy |-> "copy", check |-> "check",
            write_label |-> "label", online_write_label |-> "label", write_uuid |-> "uuid"]

\* What can be done to each type with what is installed; "other" are those without driver
find_supported_filesystems(env) ==
    [fstype \in DOMAIN SupportedFileSystems \cup {"other"} |->
        {cap \in DOMAIN Columns : get_fs(fstype, env, cap) # NONE}]

get_fs_support(found, fstype) == found[IF fstype \in DOMAIN found THEN fstype ELSE "other"]
Can(found, fstype, cap) == cap \in get_fs_support(found, fstype)

get_filesystem_partition(p) ==
    IF p.fstype = "luks" /\ p.busy THEN p.inner
    ELSE [fstype |-> p.fstype, busy |-> p.busy, mounts |-> p.mounts, vg |-> p.vg]

\* The path of a partition, and of what an opened encryption maps
PathOf(p) == IF p.fstype = "luks" /\ p.busy THEN <<"mapping", p.key>> ELSE p.key

-----------------------------------------------------------------------------
(* The picture: what is on the disk with the operations applied            *)

Space(start, size) ==
    [key |-> <<"unallocated", start>>, size |-> size, start |-> start, extended |-> FALSE,
     allocated |-> FALSE, usage |-> NoUsage, logicals |-> <<>>, type |-> "unallocated",
     status |-> "real", fstype |-> "unallocated", busy |-> FALSE, mounts |-> FALSE,
     inner |-> Nobody, vg |-> "", id |-> 0, flagged |-> FALSE, named |-> FALSE]

Created(op, size) ==
    [Space(op.start, size) EXCEPT !.key = <<"new", op.id>>, !.allocated = TRUE, !.type = "primary",
                                  !.status = "new", !.fstype = "ext4"]

\* Unallocated space between and behind the partitions, which are in order
FilledUp(ps, length) ==
    LET End(i) == IF i = 0 THEN 0 ELSE ps[i].start + ps[i].size
        Gap(i) == LET next == IF i = Len(ps) THEN length ELSE ps[i + 1].start
                  IN  IF next = End(i) THEN <<>> ELSE <<Space(End(i), next - End(i))>>
    IN  Gap(0) \o FlattenSeq([i \in DOMAIN ps |-> <<ps[i]>> \o Gap(i)])

\* Operation::apply_to_visual(), the part which matters here
apply_to_visual(ps, op, length) ==
    LET Meant(i) == ps[i].start = op.start /\ IF op.type = "create" THEN ~ps[i].allocated
                                           ELSE ps[i].id = op.id
        hit == SelectInSeq([i \in DOMAIN ps |-> Meant(i)], LAMBDA found : found)
        after == IF hit = 0 THEN ps
                 ELSE CASE op.type = "create" -> [ps EXCEPT ![hit] = Created(op, @.size)]
                        [] op.type = "delete" -> RemoveAt(ps, hit)
                        [] op.type = "move" -> [ps EXCEPT ![hit].start = ps[hit - 1].start]
                        [] op.type = "name" -> [ps EXCEPT ![hit].named = TRUE]
                        [] OTHER -> ps
    IN  FilledUp(SelectSeq(after, LAMBDA p : p.allocated), length)

\* Device::operator==(): by path, even of another device plugged in there since
SameDevice(op, device) == op.path = device.path

Replay(device, ops) ==
    FoldLeft(LAMBDA ps, op : apply_to_visual(ps, op, device.length), device.partitions,
             SelectSeq(ops, LAMBDA op : SameDevice(op, device)))

-----------------------------------------------------------------------------
(* Which items of the partition menu are sensitive                         *)

TableTypes == {"primary", "logical", "extended"}
NotMountable == {"lvm2_pv", "linux_swraid", "ataraid", "luks", "bcache", "jbd"}

\* Opening an encryption, mounting, swapon and activating a volume group
ToggleItems(p) ==
    LET fs == get_filesystem_partition(p)
    IN  IF p.status # "real" THEN {}
        ELSE (IF p.fstype = "luks" /\ ~fs.busy THEN {"toggle_crypt"} ELSE {})
             \cup (IF \/ /\ p.type # "extended" /\ fs.fstype \notin NotMountable
                         /\ fs.busy \/ fs.mounts \/ fs.fstype = "linux_swap"
                      \/ fs.fstype = "lvm2_pv" /\ (fs.busy \/ fs.mounts)
                   THEN {"toggle_fs"} ELSE {})

\* What is written to the partition table only
TableItems(device, p) ==
    IF p.status # "real" \/ p.type \notin TableTypes THEN {}
    ELSE {"flags"} \cup (IF device.naming THEN {"name"} ELSE {})

\* What can be done to a busy file system
OnlineItems(found, device, p) ==
    LET fs == get_filesystem_partition(p)
        Both(cap) == Can(found, fs.fstype, cap) /\ Can(found, "luks", cap)
        resize == \/ p.fstype # "luks" /\ (Can(found, fs.fstype, "online_grow") \/ Can(found, fs.fstype, "online_shrink"))
                  \/ p.fstype = "luks" /\ p.busy /\ (Both("online_grow") \/ Both("online_shrink"))
                  \/ p.type = "extended"
    IN  (IF ~device.readonly /\ fs.busy /\ resize THEN {"resize"} ELSE {})
        \cup (IF fs.busy /\ p.status = "real" /\ Can(found, fs.fstype, "online_write_label")
              THEN {"label"} ELSE {})

ExtendedItems(device, p) ==
    (IF Len(p.logicals) = 1 /\ ~p.logicals[1].allocated THEN {"delete"} ELSE {})
    \cup (IF device.readonly THEN {} ELSE {"resize"})

OfflineItems_DeletesOpen(found, device, p) ==
    LET fs == get_filesystem_partition(p)
    IN  {"format"} \cup (IF p.type \in TableTypes THEN {"delete"} ELSE {})
        \cup (IF ~device.readonly /\ Can(found, fs.fstype, "grow") THEN {"resize"} ELSE {})

\* What can be done to one which is not
OfflineItems(found, device, p) ==
    LET fs == get_filesystem_partition(p)
        open == p.fstype = "luks" /\ p.busy
        resize == \/ p.fstype # "luks" /\ \E cap \in {"grow", "shrink", "move"} : Can(found, fs.fstype, cap)
                  \/ p.fstype = "luks" /\ ~p.busy /\ (Can(found, "luks", "grow") \/ Can(found, "luks", "move"))
                  \/ open /\ Can(found, "luks", "online_grow") /\ Can(found, fs.fstype, "grow")
                  \/ open /\ Can(found, "luks", "online_shrink") /\ Can(found, fs.fstype, "shrink")
        needs == [copy |-> "copy", label |-> "write_label", uuid |-> "write_uuid", check |-> "check"]
    IN  {"format"} \cup (IF p.type \in TableTypes /\ ~p.busy THEN {"delete"} ELSE {})
        \cup (IF ~device.readonly /\ resize THEN {"resize"} ELSE {})
        \cup {item \in DOMAIN needs : /\ p.status = "real" /\ Can(found, fs.fstype, needs[item])
                                      /\ item = "copy" => fs.fstype # "luks"}
        \cup (IF fs.fstype \notin {"lvm2_pv", "luks"} /\ fs.mounts THEN {"mount"} ELSE {})

\* set_valid_operations(), but for pasting, which is in PendingOperations
set_valid_operations(found, device, p) ==
    {"info"} \cup ToggleItems(p) \cup TableItems(device, p) \cup OnlineItems(found, device, p)
    \cup IF get_filesystem_partition(p).busy THEN {}
         ELSE IF ~p.allocated THEN {"new"}
         ELSE IF p.type = "extended" THEN ExtendedItems(device, p)
         ELSE OfflineItems(found, device, p)

\* The Format to menu, and what of it is sensitive
create_format_menu(found) ==
    {"cleared"} \cup {t \in DOMAIN found \ {"luks", "other"} : Can(found, t, "create")}

-----------------------------------------------------------------------------
(* The chart of what is supported                                          *)

\* One row: under each heading the pixbufs, which are the capabilities there are
load_one_filesystem(found, fstype) ==
    [heading \in Range(Columns) |->
        {cap \in DOMAIN Columns : Columns[cap] = heading /\ Can(found, fstype, cap)}]

load_filesystems(found) == [fstype \in DOMAIN found |-> load_one_filesystem(found, fstype)]

\* The legend: the first icon is for offline, the second for online
Legend(icons) ==
    LET Online == {"online_grow", "online_shrink", "online_write_label"}
    IN  (IF icons \ Online # {} THEN {"offline"} ELSE {})
        \cup (IF icons \cap Online # {} THEN {"online"} ELSE {})

-----------------------------------------------------------------------------
(* The information dialog                                                  *)

Activated == {"linux_swap", "linux_swraid", "ataraid", "bcache", "jbd"}

\* Display_Info(): the status of the file system; whether a physical volume is in
\* a volume group is told by its mount point
InfoStatus(p) ==
    LET fs == get_filesystem_partition(p)
    IN  CASE fs.fstype = "unallocated" \/ p.status = "new" -> "untold"
          [] p.fstype = "luks" /\ ~p.busy -> "not accessible"
          [] fs.busy /\ p.type = "extended" -> "busy"
          [] fs.busy /\ fs.fstype \in Activated \cup {"lvm2_pv"} -> "active"
          [] fs.busy /\ fs.fstype = "luks" -> "open"
          [] fs.busy -> IF fs.mounts THEN "mounted" ELSE "untold"
          [] p.type = "extended" -> "not busy"
          [] fs.fstype \in Activated -> "not active"
          [] fs.fstype = "luks" -> "closed"
          [] fs.fstype = "lvm2_pv" -> IF fs.mounts THEN "not active" ELSE "not a member"
          [] OTHER -> "not mounted"

-----------------------------------------------------------------------------
(* The cache of physical volumes, filled by the last scan                  *)

lvm2_pv_cache(devices) ==
    UNION {{[path |-> PathOf(p), vg |-> get_filesystem_partition(p).vg] :
                p \in {q \in Range(load_partitions(devices[i].partitions)) :
                        get_filesystem_partition(q).fstype = "lvm2_pv"}} : i \in DOMAIN devices}

get_vg_name(pvs, path) ==
    LET entries == {e \in pvs : e.path = path}
    IN  IF entries = {} THEN "" ELSE (CHOOSE e \in entries : TRUE).vg

get_vg_members(pvs, vg) == {e.path : e \in {e \in pvs : e.vg = vg}}

Group(pvs, vg) == [vg |-> vg, members |-> IF vg = "" THEN {} ELSE get_vg_members(pvs, vg)]

\* What the information dialog tells of a physical volume
InfoGroup(pvs, p) == Group(pvs, get_vg_name(pvs, PathOf(p)))

\* Before a member of a volume group is deleted or written over the user is asked,
\* by its "mount point".  The group is looked up by the path of the partition,
\* under which no encrypted volume is known.
AsksFirst(p, item) ==
    LET fs == IF item = "delete" THEN p ELSE get_filesystem_partition(p)
    IN  fs.fstype = "lvm2_pv" /\ fs.mounts

remove_non_empty_lvm2_pv_dialog(pvs, p) == Group(pvs, get_vg_name(pvs, p.key))

EncryptionStatus(p) ==
    IF p.fstype # "luks" THEN "untold" ELSE IF p.busy THEN "open" ELSE "closed"

\* The other lines it has
InfoLines(p) ==
    LET fs == get_filesystem_partition(p).fstype
    IN  {"file system", "size", "path", "sectors"}
        \cup (IF p.allocated /\ p.type # "extended" THEN {"label", "uuid"} ELSE {})
        \cup (IF fs = "lvm2_pv" THEN {"volume group", "members", "logical volumes"} ELSE {})
        \cup (IF fs = "btrfs" THEN {"members"} ELSE {})
        \cup (IF p.usage # NoUsage THEN {"used", "unused"} ELSE {})
        \cup (IF p.usage.unallocated > 0 THEN {"unallocated"} ELSE {})
        \cup (IF p.fstype = "luks" THEN {"encryption"} ELSE {})
        \cup (IF p.allocated /\ p.status # "new" THEN {"name", "flags"} ELSE {})

-----------------------------------------------------------------------------
(* The window                                                              *)

\* A handler, or what is left of it, starts
Push(w, frame) == [w EXCEPT !.stack = Append(@, frame)]
Pop(w) == [w EXCEPT !.stack = Front(@)]

\* Frames which run the main loop
Waiting == {"drawn", "opened", "closed", "panel opens", "panel closes", "flags"}

Rows(w) == load_partitions(w.display.partitions)
RowOf(w, key) == Rows(w)[SelectInSeq(Rows(w), LAMBDA p : p.key = key)]

\* HBoxOperations::load_operations()
load_operations(w) == [w EXCEPT !.listed = w.ops]

Refresh_Visual_SelectionKept(w) ==
    LET device == w.devices[w.current]
    IN  Push([load_operations(w) EXCEPT !.display = [device EXCEPT !.partitions = Replay(device, w.ops)],
                                        !.undo = @ /\ w.ops # <<>>], "drawn")

\* The largest unallocated space, the first if several are as large
LargestFree(rows) ==
    LET free == {i \in DOMAIN rows : ~rows[i].allocated}
        most == Max({0} \cup {rows[i].size : i \in free})
    IN  SelectInSeq(rows, LAMBDA p : ~p.allocated /\ p.size = most)

Select(w, device, rows, row) ==
    LET key == IF row = 0 THEN Nobody ELSE rows[row].key
    IN  [w EXCEPT !.selected = key, !.inVisual = key, !.inTree = key,
                  !.allowed = IF row = 0 THEN {} ELSE set_valid_operations(w.found, device, rows[row])]

SelectLargest(w, device, rows) == Select(w, device, rows, LargestFree(rows))

\* The largest unallocated space is selected.  The graphic, the list and the list
\* of operations are filled anew.
Refresh_Visual(w) ==
    LET device == w.devices[w.current]
        v == [load_operations(w) EXCEPT !.display = [device EXCEPT !.partitions = Replay(device, w.ops)],
                                        !.undo = @ /\ w.ops # <<>>]
    IN  Push(SelectLargest(v, device, Rows(v)), "drawn")

\* open_operationslist(): the pane slides open
open_operationslist(w) ==
    IF w.open THEN w ELSE Push([w EXCEPT !.open = TRUE, !.visible = TRUE], "opened")

close_operationslist(w) ==
    IF w.open THEN Push([w EXCEPT !.open = FALSE], "closed") ELSE w

\* ... and then the item of the View menu follows, whose change is handled by
\* menu_view_operations()
SetItem(w, on) ==
    LET v == [w EXCEPT !.item = on]
    IN  IF w.item = on THEN w ELSE IF on THEN open_operationslist(v) ELSE close_operationslist(v)

\* Fill_Label_Device_Info(), but for the model and the geometry
DeviceInfo(device) == [path |-> device.path, length |-> device.length, table |-> device.table]
NoInfo == [path |-> "", length |-> 0, table |-> ""]

combo_devices_changed(w) ==
    LET current == IF w.combo = 0 THEN w.current ELSE w.combo
        device == IF current > Len(w.devices) THEN 1 ELSE current
    IN  Push(Push([w EXCEPT !.current = device, !.title = w.devices[device].path,
                            !.info = DeviceInfo(w.devices[device])], "radio"), "Refresh_Visual")

SetCombo(w, row) ==
    IF w.combo = row THEN w ELSE Push([w EXCEPT !.combo = row], "combo changed")

\* refresh_combo_devices()
refresh_combo_devices(w) == SetCombo([w EXCEPT !.combo = 0, !.radio = 1], w.current)

Rescanned(w, found) ==
    [w EXCEPT !.devices = found, !.current = IF @ > Len(found) THEN 1 ELSE @]

\* Operations for devices which are gone are removed
menu_gparted_refresh_devices(w, found) ==
    LET Found(op) == \E i \in DOMAIN found : SameDevice(op, found[i])
        v == [Rescanned(w, found) EXCEPT !.ops = SelectSeq(@, Found)]
    IN  IF found # <<>> THEN Push([v EXCEPT !.usable = TRUE], "refresh combo")
        ELSE close_operationslist(Push(
                [v EXCEPT !.usable = FALSE, !.title = "", !.info = NoInfo, !.listed = <<>>,
                          !.inVisual = Nobody, !.inTree = Nobody], "no devices"))

\* What is done next, by a handler which starts or when the main loop is left
Resumed(w, frame, found) ==
    CASE frame = "drawn" -> w
      [] frame = "Refresh_Visual" -> Refresh_Visual(w)
      [] frame = "combo changed" -> combo_devices_changed(w)
      [] frame = "refresh combo" -> refresh_combo_devices(w)
      [] frame = "refresh devices" -> menu_gparted_refresh_devices(w, found)
      [] frame = "opened" -> SetItem(w, TRUE)
      [] frame = "closed" -> SetItem([w EXCEPT !.visible = FALSE], FALSE)
      [] frame = "panel opens" -> w
      [] frame = "panel closes" -> [w EXCEPT !.panel.shown = FALSE]
      [] frame = "radio" -> SetCombo([w EXCEPT !.radio = w.current], w.current)
      [] frame = "show" -> IF Len(w.ops) = 1 THEN open_operationslist(w) ELSE w
      [] frame = "undone" -> IF w.ops = <<>> THEN close_operationslist(w) ELSE w
      [] frame = "clear" -> Push(w, "Refresh_Visual")
      [] frame = "applied" -> Push([w EXCEPT !.new_count = 1], "refresh devices")
      [] frame = "no devices" -> [w EXCEPT !.ops = <<>>]

RECURSIVE Run(_, _)
Run(w, found) ==
    IF w.stack = <<>> \/ Last(w.stack) \in Waiting THEN w
    ELSE Run(Resumed(Pop(w), Last(w.stack), found), found)

-----------------------------------------------------------------------------
(* What the user does                                                      *)

\* The window before the first scan; "asked", for which partition the flags were
\* asked last, is auxiliary
Window(width, found) ==
    [found |-> found, formats |-> create_format_menu(found), info |-> NoInfo,
     panel |-> [item |-> FALSE, shown |-> FALSE], devices |-> <<>>, current |-> 1, display |-> NoDevice, ops |-> <<>>, listed |-> <<>>,
     selected |-> Nobody, inVisual |-> Nobody, inTree |-> Nobody, allowed |-> {},
     width |-> width, undo |-> FALSE, combo |-> 0, radio |-> 0, title |-> "",
     open |-> FALSE, visible |-> FALSE, item |-> FALSE, usable |-> FALSE, new_count |-> 1,
     stack |-> <<>>, crashed |-> FALSE, asked |-> [key |-> Nobody, id |-> 0]]

Init ==
    /\ world \in Worlds
    /\ machine = world.machine /\ changes = 0 /\ touched = {}
    /\ \E width \in world.widths, env \in world.installed :
         win = Run(Push(Window(width, find_supported_filesystems(env)), "refresh devices"), world.machine)

May(action) ==
    /\ ~win.crashed /\ win.usable /\ Len(win.stack) < world.maxStack
    /\ action \in IF win.stack = <<>> THEN world.actions ELSE world.nested

Handled(w) == win' = Run(w, machine') /\ UNCHANGED world

\* ... by a handler which leaves the disks alone
Shown(w) == UNCHANGED <<machine, changes, touched>> /\ Handled(w)

\* The main loop was left
Resume ==
    /\ win.stack # <<>> /\ Last(win.stack) # "flags"
    /\ Shown(Resumed(Pop(win), Last(win.stack), machine))

\* The graphic, which is laid out again whenever the picture or the width changes
visual_partitions == on_size_allocate(win.display.partitions, win.display.length, win.width)

on_partition_selected(w, key) ==
    [w EXCEPT !.selected = key, !.allowed = set_valid_operations(w.found, w.devices[w.current], RowOf(w, key))]

\* The graphic, where there may be nothing at the place
ClickedOn(vs) ==
    \E v \in AllVisual(vs), dx \in {-1, 0} :
       LET hit == set_selected_by_coord(vs, v.x + dx, v.y + 1)
           w == [win EXCEPT !.inVisual = hit]
       IN  Shown(IF hit = Nobody THEN w
                 ELSE [on_partition_selected(w, hit) EXCEPT
                          !.inTree = set_selected_by_ptn(win.display.partitions, hit)])

Click == May("select") /\ ClickedOn(visual_partitions)

SelectRow ==
    /\ May("select")
    /\ \E row \in Range(Rows(win)) :
         Shown([on_partition_selected(win, row.key) EXCEPT !.inTree = row.key,
                    !.inVisual = set_selected_by_ptn(win.display.partitions, row.key)])

ResizeWindow ==
    /\ May("resize window")
    /\ \E width \in world.widths \ {win.width} :
         Shown([win EXCEPT !.width = width])

\* The combobox, or the Devices menu, which sets it
ChooseDevice ==
    /\ May("choose device")
    /\ \E row \in DOMAIN win.devices \ {win.combo} : Shown(SetCombo(win, row))

show_operationslist(w) == Push(Push([w EXCEPT !.undo = w.ops # <<>>], "show"), "Refresh_Visual")

Queue(op) ==
    /\ Len(win.ops) < world.maxOps
    /\ Shown(show_operationslist([win EXCEPT !.ops = Append(@, op),
                    !.new_count = IF op.type = "create" THEN @ + 1 ELSE @]))

Selected == RowOf(win, win.selected)
Chosen(item) == win.selected # Nobody /\ item \in win.allowed

Operation(type, p) == [type |-> type, path |-> win.devices[win.current].path, id |-> p.id,
                       start |-> p.start]

\* Operations of all kinds which change the picture, and some which do not; the
\* rest of what they do is in PendingOperations
Editing(item) == May("edit") /\ Chosen(item)

At(p) == SelectInSeq(win.display.partitions, LAMBDA q : q.key = p.key)

activate_new ==
    /\ Editing("new") /\ win.new_count <= world.maxNew /\ At(Selected) # 0
    /\ Queue([Operation("create", Selected) EXCEPT !.id = -win.new_count])

activate_delete ==
    /\ Editing("delete") /\ Selected.status = "real" /\ At(Selected) # 0
    /\ Queue(Operation("delete", Selected))

\* A move to the start of the free space in front
activate_resize ==
    /\ Editing("resize") /\ ~Selected.busy /\ Selected.type = "primary"
    /\ Selected.status = "real" /\ At(Selected) > 1
    /\ ~win.display.partitions[At(Selected) - 1].allocated
    /\ Queue(Operation("move", Selected))

activate_name_partition == Editing("name") /\ Queue(Operation("name", Selected))

activate_change_uuid == Editing("uuid") /\ Queue(Operation("uuid", Selected))

\* With no operation left the queue's last one is looked at all the same
activate_undo ==
    /\ May("undo") /\ win.undo
    /\ Shown(IF win.ops = <<>> THEN [win EXCEPT !.crashed = TRUE]
               ELSE Push(Push([win EXCEPT !.ops = Front(@),
                        !.new_count = IF Last(win.ops).type = "create" THEN @ - 1 ELSE @], "undone"),
                         "Refresh_Visual"))

clear_operationslist ==
    /\ May("clear") /\ win.undo
    /\ Shown(close_operationslist(Push([win EXCEPT !.ops = <<>>], "clear")))

menu_view_operations ==
    /\ May("pane")
    /\ Shown(SetItem(win, ~win.item))

\* The panel with the details of the device slides open or shut
menu_view_harddisk_info ==
    /\ May("panel")
    /\ Shown(IF win.panel.item THEN Push([win EXCEPT !.panel.item = FALSE], "panel closes")
             ELSE Push([win EXCEPT !.panel = [item |-> TRUE, shown |-> TRUE]], "panel opens"))

\* "Rescan For Supported Actions"
menu_gparted_features(w, found) ==
    [w EXCEPT !.found = found, !.formats = create_format_menu(found),
              !.allowed = IF w.selected = Nobody THEN w.allowed
                          ELSE set_valid_operations(found, w.devices[w.current], RowOf(w, w.selected))]

RescanSupported ==
    /\ May("features")
    /\ \E env \in world.installed : Shown(menu_gparted_features(win, find_supported_filesystems(env)))

\* The operations up to the one which fails are carried out on the devices which
\* have the paths now
activate_apply ==
    /\ May("apply") /\ win.undo
    /\ changes < world.maxChanges /\ changes' = changes + 1
    /\ \E done \in 0 .. Len(win.ops) :
         machine' = [i \in DOMAIN machine |->
            [machine[i] EXCEPT !.partitions =
                LET ps == Replay(machine[i], SubSeq(win.ops, 1, done))
                IN  [k \in DOMAIN ps |->
                        IF ps[k].status = "new"
                        THEN [ps[k] EXCEPT !.status = "real", !.id = 100 + k] ELSE ps[k]]]]
    /\ Handled(close_operationslist(Push([win EXCEPT !.ops = <<>>, !.listed = <<>>], "applied")))
    /\ UNCHANGED touched

\* get_lp_partition(): the partition at the sector in the middle of the one shown
get_lp_partition(device, p) ==
    LET sector == (2 * p.start + p.size - 1) \div 2
    IN  SelectInSeq(device.partitions, LAMBDA q :
            q.allocated /\ IF p.type = "extended" THEN q.type = "extended"
                           ELSE sector \in q.start .. q.start + q.size - 1)

\* What get_available_flags() reads and toggle_flag() writes, 0 if there is none
FlagsOf(p) ==
    LET d == SelectInSeq(machine, LAMBDA m : m.path = win.display.path)
        k == IF d = 0 THEN 0 ELSE get_lp_partition(machine[d], p)
    IN  [device |-> d, partition |-> k]

toggle_flag(at) == [machine EXCEPT ![at.device].partitions[at.partition].flagged = ~@]

\* The main loop runs once more between the assertions and the dialog
activate_manage_flags ==
    /\ May("flags") /\ Chosen("flags") /\ "flags" \notin Range(win.stack)
    /\ Shown(Push([win EXCEPT !.asked = [key |-> win.selected, id |-> Selected.id]], "flags"))

\* A change is written at once.  A partition which is not found has no flags.
on_flag_toggled(p) ==
    LET at == FlagsOf(p)
    IN  /\ changes < world.maxChanges /\ changes' = changes + 1
        /\ at.partition # 0
        /\ machine' = toggle_flag(at)
        /\ touched' = touched \cup
              {[asked |-> win.asked.id, changed |-> machine[at.device].partitions[at.partition].id,
                queued |-> win.ops # <<>>, reselected |-> win.selected # win.asked.key]}
        /\ Handled(Push(Pop(win), "refresh devices"))

\* It is of the partition selected by then, whichever that is, and is modal
DialogManageFlags ==
    /\ win.stack # <<>> /\ Last(win.stack) = "flags"
    /\ \/ win.selected = Nobody /\ Shown([win EXCEPT !.crashed = TRUE, !.stack = <<>>])
       \/ win.selected # Nobody /\ on_flag_toggled(Selected)
       \/ win.selected # Nobody /\ Shown(Pop(win))

active_partitions_on_device_count(device) ==
    Cardinality({i \in DOMAIN load_partitions(device.partitions) :
                    load_partitions(device.partitions)[i].busy})

set_disklabel(device, table) ==
    [device EXCEPT !.table = table, !.naming = (table = "gpt"),
                   !.partitions = <<Space(0, device.length)>>]

\* activate_disklabel(): at once too, but never with operations queued
activate_disklabel ==
    /\ May("table") /\ win.ops = <<>>
    /\ active_partitions_on_device_count(win.devices[win.current]) = 0
    /\ \E table \in {"msdos", "gpt"} :
         machine' = [i \in DOMAIN machine |->
            IF machine[i].path # win.devices[win.current].path THEN machine[i]
            ELSE set_disklabel(machine[i], table)]
    /\ Handled(Push(win, "refresh devices"))
    /\ UNCHANGED <<changes, touched>>

\* The GParted menu is there without devices, too
RefreshDevices ==
    /\ ~win.crashed /\ Len(win.stack) < world.maxStack
    /\ "refresh" \in IF win.stack = <<>> THEN world.actions ELSE world.nested
    /\ Shown(Push(win, "refresh devices"))

\* A device is unplugged, or another one plugged in
Plug ==
    /\ changes < world.maxChanges /\ changes' = changes + 1
    /\ \/ \E i \in DOMAIN machine : machine' = RemoveAt(machine, i)
       \/ \E i \in DOMAIN world.spare :
            /\ \A k \in DOMAIN machine : machine[k].path # world.spare[i].path
            /\ machine' = Append(machine, world.spare[i])
    /\ UNCHANGED <<world, win, touched>>

Next ==
    \/ Resume \/ Click \/ SelectRow \/ ResizeWindow \/ ChooseDevice \/ activate_new
    \/ activate_delete \/ activate_resize \/ activate_name_partition \/ activate_change_uuid
    \/ activate_undo \/ clear_operationslist \/ menu_view_operations \/ activate_apply
    \/ menu_view_harddisk_info \/ RescanSupported
    \/ activate_manage_flags \/ DialogManageFlags \/ activate_disklabel \/ RefreshDevices \/ Plug

Spec == Init /\ [][Next]_vars

-----------------------------------------------------------------------------
Usable == win.usable /\ ~win.crashed

Drawn(vs) ==
    /\ SideBySide(vs, MAIN_BORDER, win.width - MAIN_BORDER)
    /\ \A v \in AllVisual(vs) : BarsInside(v)
    /\ \A v \in AllVisual(vs) : v.logicals = <<>> =>
         /\ set_selected_by_coord(vs, v.x, v.y) = v.key
         /\ set_selected_by_coord(vs, v.x + v.length - 1, v.y + v.height - 1) = v.key

\* The partitions are drawn side by side over the whole width, each at least a
\* pixel wide and the logical ones inside the extended one, with the bars of their
\* usage inside them, whenever that many pixels are there at all; and a click on
\* any of them selects the one drawn there.
DrawnAsItIs ==
    Usable /\ Least(win.display.partitions) <= win.width - 2 * MAIN_BORDER => Drawn(visual_partitions)

\* What is selected is in the picture (the assertion in every handler), is what the
\* list and the graphic show as selected (but for a click beside all partitions),
\* and what the menus offer is offered for it as it is now.
SelectionHolds ==
    Usable =>
        /\ win.inTree = win.selected /\ win.inVisual \in {Nobody, win.selected}
        /\ win.selected # Nobody => \E p \in Range(Rows(win)) : p.key = win.selected
        /\ win.allowed = IF win.selected = Nobody THEN {}
                         ELSE set_valid_operations(win.found, win.devices[win.current], Selected)

\* When all handlers are through, however they interrupted each other, the pane is
\* shown as the menu says, lists what is queued, Undo and Apply are offered just
\* when something is, the title, the combobox, the menu and the panel with its
\* details tell of the device shown, and no operation is left for a device which
\* is gone.  The panel may stay hidden when it was reopened while it closed.
SettledWindow ==
    win.stack = <<>> /\ ~win.crashed =>
        /\ win.open = win.visible /\ win.open = win.item
        /\ win.listed = win.ops
        /\ \A i \in DOMAIN win.ops : \E d \in DOMAIN win.devices : win.devices[d].path = win.ops[i].path
        /\ win.usable =>
             /\ win.undo = (win.ops # <<>>)
             /\ win.combo = win.current /\ win.radio = win.current
             /\ win.title = win.devices[win.current].path /\ win.title = win.display.path
             /\ win.info = DeviceInfo(win.devices[win.current])
        /\ win.panel.shown => win.panel.item
        /\ ~win.usable => win.devices = <<>>

AllOf(p, percent) ==
    /\ percent.used + percent.unused + percent.unallocated = 100
    /\ \A f \in Figures : percent[f] >= 0 /\ (percent[f] > 0 => f \in InfoLines(p))

\* The information dialog, the chart of supported actions and the menu, which
\* decide separately, agree: what may be deleted, formatted or checked is told to
\* be neither mounted nor active, nor open when it may be deleted, and what is told
\* to be mounted may be unmounted; the menu offers for a file system what the chart
\* says of it, offline or online as it is now, also after programs were installed
\* or removed and looked for again.  Before a member of a volume group is deleted or
\* formatted the user is asked, and the group and members named are those of the
\* information dialog, unless the volume is in an encryption.  What may be changed
\* is told there, and the usage it tells is all of the partition.
DialogsAgree ==
    Usable /\ win.selected # Nobody =>
        LET p == Selected
            inUse == InfoStatus(p) \in {"busy", "active", "open", "mounted"}
            chart == load_filesystems(win.found)
            pvs == lvm2_pv_cache(win.devices)
            when == IF p.busy THEN "online" ELSE "offline"
            Offered(heading) == when \in Legend(chart[p.fstype][heading])
        IN  /\ win.allowed \cap {"delete", "format", "check", "new"} # {} => ~inUse
            /\ "delete" \in win.allowed => EncryptionStatus(p) # "open"
            /\ InfoStatus(p) = "mounted" => "toggle_fs" \in win.allowed
            /\ p.fstype \in DOMAIN chart \ {"luks"} /\ p.status = "real" =>
                 /\ \A item \in {"label", "uuid", "check", "copy"} :
                      item \in win.allowed <=> Offered(item)
                 /\ "resize" \in win.allowed <=> \E h \in {"grow", "shrink", "move"} : Offered(h)
            /\ \A item \in {"delete", "format"} \cap win.allowed : AsksFirst(p, item) =>
                 /\ get_filesystem_partition(p).vg = InfoGroup(pvs, p).vg
                 /\ PathOf(p) \in InfoGroup(pvs, p).members
                 /\ p.fstype # "luks" => remove_non_empty_lvm2_pv_dialog(pvs, p) = InfoGroup(pvs, p)
            /\ get_filesystem_partition(p).vg # "" =>
                 \A item \in {"delete", "format"} \cap win.allowed : AsksFirst(p, item)
            /\ win.formats \ {"cleared"} =
                 {t \in DOMAIN chart \ {"luks"} : Legend(chart[t]["create"]) # {}}
            /\ win.allowed \cap {"label", "uuid", "name", "flags"} \subseteq InfoLines(p)
            /\ BarsInside(InfoDrawn(p) @@ [length |-> InfoWidth])
            /\ p.usage # NoUsage => AllOf(p, InfoPercent(p))

\* A flag is written to the disk at once, to the partition for which the command
\* was given, unless
\*   - operations are queued: then the disk has another partition at the sector
\*     shown, perhaps, and that one's flag changes (GParted_Core::get_lp_partition());
\*   - a handler run between the command and its dialog selected another partition:
\*     then the dialog is of that one.
FlagsMeant == \A t \in touched : t.queued \/ t.reselected \/ t.asked = t.changed

\* The window holds together, whichever handlers interrupted each other: what the
\* user sees as selected, queued and offered is what the next command acts upon, but
\* for the flags in the two cases above.  Two commands do not live to show it: Undo
\* with nothing left to undo, and the flags when by then nothing is selected.
WindowHolds == SelectionHolds /\ SettledWindow /\ FlagsMeant
=============================================================================
