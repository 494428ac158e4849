-------------------------- MODULE PendingOperations --------------------------
(***************************************************************************)
(* The main window's queue of pending operations (Win_GParted): the user   *)
(* edits a picture of the disk, every edit is queued or merged into an     *)
(* operation already queued, and after each edit the picture is rebuilt by *)
(* replaying the whole queue on the layout read from the disk.             *)
(*                                                                         *)
(* Sectors are counted in mebibytes here: the dialogs hand out mebibyte    *)
(* aligned boundaries.                                                     *)
(***************************************************************************)
EXTENDS PartitionLayout

CONSTANTS
    Sessions,       \* the uses of the program looked at: records of
                    \*   layouts      partition vectors a scan may return
                    \*   actions      the menu actions the user takes
                    \*   fileSystems  those the user formats and creates
                    \*   maxOps       bound on the length of the queue
                    \*   maxNew       bound on the number of a new partition
    MaxPrims,       \* device.max_prims; logicals are numbered from MaxPrims + 1
    Labels,         \* labels the user may type
    NoPartition     \* an empty clipboard

ASSUME QueueAssumption ==
    /\ MaxPrims \in Nat
    /\ \A s \in Sessions : s.maxOps \in Nat /\ s.maxNew \in Nat

VARIABLES
    layout,         \* m_devices[m_current_device].partitions
    ops,            \* m_operations
    new_count,      \* number the next created partition gets
    clipboard,      \* copied_partition
    display,        \* m_display_device.partitions
    overtaken,      \* auxiliary: a resize was merged into a queued operation
                    \* it had to follow, see Overtakes
    session         \* the element of Sessions this behaviour belongs to

vars == <<layout, ops, new_count, clipboard, display, overtaken, session>>

Layouts == session.layouts
Actions == session.actions
FileSystems == session.fileSystems
MaxOps == session.maxOps
MaxNew == session.maxNew

----------------------------------------------------------------------------
(* Refresh_Visual() and the queue.                                         *)

\* MUTANT of RefreshClipboard: only the numbers are compared
RefreshClipboard_ByNumber(cb, ps) ==
    IF cb = NoPartition THEN NoPartition
    ELSE LET named == {p \in Elements(ps) : p.num = cb.num}
         IN  IF named = {} THEN cb
             ELSE CHOOSE p \in named : \A q \in named : q.start <= p.start

\* The clipboard is replaced by the displayed partition with the same path.
RefreshClipboard(cb, ps) ==
    IF cb = NoPartition THEN NoPartition
    ELSE LET named == {p \in Elements(ps) : Path(p) = Path(cb)}
         IN  IF named = {} THEN cb
             ELSE CHOOSE p \in named : \A q \in named : q.start <= p.start

Refresh(newLayout, newOps, cb) ==
    LET ps == Replay(newLayout, newOps) IN
    /\ layout' = newLayout
    /\ ops' = newOps
    /\ display' = ps
    /\ clipboard' = RefreshClipboard(cb, ps)

\* GParted_Core::valid_partition()
valid_partition(p) == p.start >= 0 /\ p.end < Length /\ SectorLength(p) > 0

operations_affect_same_partition(first, second) ==
    /\ first.type # "DELETE"
    /\ \/ Path(first.new) = Path(second.original)
       \/ first.type = "COPY" /\ Path(first.copied) = Path(second.original)
       \/ second.type = "COPY" /\ Path(first.new) = Path(second.copied)
       \/ /\ first.type = "COPY" /\ second.type = "COPY"
          /\ Path(first.copied) = Path(second.copied)

\* Win_GParted::merge_operation(): only the latest queued operation on the
\* same partition is tried.  The queue with the candidate added.
MergeIndex(queue, candidate) ==
    LET i == SelectLastInSeq(queue, LAMBDA first :
                 operations_affect_same_partition(first, candidate))
    IN  IF i # 0 /\ CanMerge(queue[i], candidate) THEN i ELSE 0

Enqueue(queue, candidate) ==
    LET i == MergeIndex(queue, candidate) IN
    IF i # 0 THEN [queue EXCEPT ![i] = Merge(@, candidate)]
    ELSE Append(queue, candidate)

\* The candidate is a resize which merges past other queued operations, or
\* into the creation of the extended partition it resizes.
Overtakes(queue, candidate) ==
    LET i == MergeIndex(queue, candidate) IN
    /\ candidate.type = "RESIZE_MOVE" /\ i # 0
    /\ \/ i < Len(queue)
       \/ queue[i].type = "CREATE" /\ candidate.new.type = "EXTENDED"

\* `mounted' is auxiliary: the logicals mounted when the operation was queued
Operation(type, original, new, copied) ==
    [type |-> type, original |-> original, new |-> new, copied |-> copied,
     mounted |-> {q.id : q \in {l \in Elements(layout) :
                                   l.type = "LOGICAL" /\ l.busy}}]

\* Win_GParted::add_operation() followed by show_operationslist()
add_operation(op) ==
    LET rejected == /\ op.type \in {"CREATE", "COPY", "RESIZE_MOVE"}
                    /\ ~valid_partition(op.new)
        queue == IF rejected THEN ops ELSE Enqueue(ops, op)
    IN  /\ Len(queue) <= MaxOps
        /\ Refresh(layout, queue, clipboard)
        /\ overtaken' = (overtaken \/ (~rejected /\ Overtakes(ops, op)))

----------------------------------------------------------------------------
(* What the dialogs let the user choose.                                   *)

VectorOf(p) == IF p.inside THEN display[find_extended_partition(display)].logicals
               ELSE display

\* Dialog_Base_Partition::MB_Needed_for_Boot_Record()
MB_Needed_for_Boot_Record(p) == IF p.inside \/ p.start < MiB THEN MiB ELSE 0

\* snap_to_mebibyte(): a logical ends a mebibyte early when another logical
\* starts right behind it, and again when it leaves the extended partition.
snap_to_alignment(p) ==
    LET e == find_extended_partition(display)
        follows == \E q \in ToSet(display[e].logicals) :
                       q.type = "LOGICAL" /\ q.start = p.end + 1
        end == p.end - (IF follows THEN MiB ELSE 0)
    IN  IF p.type # "LOGICAL" \/ e = 0 THEN p
        ELSE [p EXCEPT !.end = end - (IF end > display[e].end THEN MiB ELSE 0)]

\* The neighbour of p at distance d in its vector if it is unallocated space,
\* else p itself
FreeNeighbour(p, d) ==
    LET v == VectorOf(p)
        t == SelectInSeq(v, LAMBDA q : SamePartition(q, p))
    IN  IF t + d \in DOMAIN v /\ v[t + d].type = "UNALLOCATED" THEN v[t + d] ELSE p

\* Dialog_Partition_Resize_Move::Resize_Move_Normal(): the boundaries the user
\* may choose for a partition.  A mounted one keeps its start.
NormalBoundaries(p) ==
    LET prev == IF p.busy THEN p ELSE FreeNeighbour(p, -1)
        next == FreeNeighbour(p, 1)
        first == IF prev = p THEN p.start
                 ELSE prev.start + MB_Needed_for_Boot_Record(prev)
        reserved == IF /\ p.type = "LOGICAL" /\ next # p
                       /\ Last(VectorOf(p)).end - next.end > MiB
                    THEN MiB ELSE 0
    IN  {<<s, e>> \in (first .. next.end) \X (first .. next.end - reserved) :
             e - s + 1 >= MiB /\ (p.busy => s = p.start)}

\* Dialog_Partition_Resize_Move::Resize_Move_Extended(): the logicals, with a
\* mebibyte in front of the first, stay inside.
ExtendedBoundaries(p) ==
    LET prev == FreeNeighbour(p, -1)
        next == FreeNeighbour(p, 1)
        first == IF prev = p THEN p.start
                 ELSE prev.start + MB_Needed_for_Boot_Record(prev)
        used == {q \in ToSet(p.logicals) : q.type = "LOGICAL"}
    IN  {<<s, e>> \in (first .. next.end) \X (first .. next.end) :
             /\ e - s + 1 >= MiB
             /\ \A q \in used : s <= q.start - MiB /\ q.end <= e}

----------------------------------------------------------------------------
(* The menu actions.  set_valid_operations() decides which are sensitive   *)
(* for the selected partition p, any element of the display.               *)

max_amount_prim_reached(p) ==
    /\ ~p.inside
    /\ Cardinality({q \in ToSet(display) : q.type \in {"PRIMARY", "EXTENDED"}})
           >= MaxPrims

\* activate_new()
New(p) ==
    /\ "New" \in Actions /\ new_count <= MaxNew
    /\ p.type = "UNALLOCATED" /\ ~max_amount_prim_reached(p)
    /\ \E start \in p.start + MB_Needed_for_Boot_Record(p) .. p.end,
          type \in IF p.inside THEN {"LOGICAL"}
                   ELSE IF find_extended_partition(display) # 0 THEN {"PRIMARY"}
                   ELSE {"PRIMARY", "EXTENDED"} :
       \E end \in start + MiB - 1 .. p.end,
          fs \in IF type = "EXTENDED" THEN {"extended"} ELSE FileSystems :
          LET new == [type |-> type, status |-> "NEW", num |-> new_count,
                      start |-> start, end |-> end, inside |-> p.inside,
                      fs |-> fs, label |-> "", busy |-> FALSE, id |-> 0,
                      logicals |-> IF type = "EXTENDED"
                                   THEN <<Unallocated(start, end, TRUE)>>
                                   ELSE <<>>]
          IN  add_operation(Operation("CREATE", p, snap_to_alignment(new), p))
    /\ new_count' = new_count + 1

\* activate_resize().  The OK button is sensitive once something changed.
ResizeMove(p) ==
    /\ "ResizeMove" \in Actions
    /\ p.type # "UNALLOCATED"
    /\ \E b \in IF p.type = "EXTENDED" THEN ExtendedBoundaries(p)
                ELSE NormalBoundaries(p) :
          /\ b # <<p.start, p.end>>
          /\ add_operation(Operation("RESIZE_MOVE", p,
                 snap_to_alignment([p EXCEPT !.start = b[1], !.end = b[2]]), p))
    /\ UNCHANGED new_count

\* m_devices[].highest_busy, from the scan
highest_busy ==
    LET busy == {p.num : p \in {q \in Elements(layout) :
                                    q.type = "LOGICAL" /\ q.busy}}
    IN  IF busy = {} THEN 0 ELSE CHOOSE n \in busy : \A m \in busy : m <= n

\* MUTANT of Deletable: mounted logicals with higher numbers are not considered
Deletable_IgnoringBusy(p) ==
    /\ ~p.busy
    /\ \/ p.type \in {"PRIMARY", "LOGICAL"}
       \/ p.type = "EXTENDED" /\ Len(p.logicals) = 1

Deletable(p) ==
    /\ ~p.busy
    /\ \/ p.type \in {"PRIMARY", "LOGICAL"}
       \/ /\ p.type = "EXTENDED" /\ Len(p.logicals) = 1
          /\ Last(p.logicals).type = "UNALLOCATED"
    /\ ~(p.type = "LOGICAL" /\ p.status # "NEW" /\ p.num < highest_busy)

ClipboardWithout(p) ==
    IF clipboard # NoPartition /\ Path(clipboard) = Path(p) THEN NoPartition
    ELSE clipboard

\* activate_delete() of a partition which is not on the disk yet: its
\* operations are dropped and new_count goes back to the lowest free number.
OperationsWithout(p) ==
    SelectSeq(ops, LAMBDA op : op.type = "DELETE" \/ Path(op.new) # Path(p))

DeleteNew(p) ==
    /\ "Delete" \in Actions
    /\ Deletable(p) /\ p.status = "NEW"
    /\ LET kept == OperationsWithout(p)
           nums == {kept[t].new.num : t \in {u \in DOMAIN kept :
                        kept[u].type # "DELETE" /\ kept[u].new.status = "NEW"}}
           highest == IF nums = {} THEN 0
                      ELSE CHOOSE n \in nums : \A m \in nums : m <= n
       IN  /\ new_count' = highest + 1
           /\ Refresh(layout, kept, ClipboardWithout(p))
           /\ overtaken' = (overtaken /\ kept # <<>>)

\* activate_delete() of any other partition
DeleteReal(p) ==
    /\ "Delete" \in Actions
    /\ Deletable(p) /\ p.status # "NEW"
    /\ LET queue == Append(ops, Operation("DELETE", p, p, p))
       IN  /\ Len(queue) <= MaxOps
           /\ Refresh(layout, queue, ClipboardWithout(p))
    /\ UNCHANGED <<new_count, overtaken>>

\* activate_format()
Format(p) ==
    /\ "Format" \in Actions
    /\ p.type \in {"PRIMARY", "LOGICAL"} /\ ~p.busy
    /\ \E fs \in FileSystems :
          add_operation(Operation("FORMAT", p,
                                  [p EXCEPT !.fs = fs, !.label = ""], p))
    /\ UNCHANGED new_count

\* activate_check(); activate_label_filesystem()
Check(p) ==
    /\ "Check" \in Actions
    /\ p.type \in {"PRIMARY", "LOGICAL"} /\ p.status = "REAL" /\ ~p.busy
    /\ add_operation(Operation("CHECK", p, p, p))
    /\ UNCHANGED new_count

SetLabel(p) ==
    /\ "Label" \in Actions
    /\ p.type \in {"PRIMARY", "LOGICAL"} /\ p.status = "REAL"
    /\ \E label \in Labels \ {p.label} :
          add_operation(Operation("LABEL", p, [p EXCEPT !.label = label], p))
    /\ UNCHANGED new_count

\* activate_copy()
Copy(p) ==
    /\ "Copy" \in Actions
    /\ p.type \in {"PRIMARY", "LOGICAL"} /\ p.status = "REAL" /\ ~p.busy
    /\ clipboard' = p
    /\ UNCHANGED <<layout, ops, new_count, display, overtaken>>

\* Room set_valid_operations() wants for a paste into p: the source, the boot
\* record in front and, in an extended partition, the one behind.
PasteFits(p) ==
    SectorLength(clipboard) + MB_Needed_for_Boot_Record(p)
        + (IF p.inside /\ p.end < Length - 2 * MiB THEN MiB ELSE 0)
      <= SectorLength(p)

\* activate_paste() into unallocated space
PasteNew(p) ==
    /\ "Paste" \in Actions
    /\ clipboard # NoPartition /\ p.type = "UNALLOCATED" /\ PasteFits(p)
    /\ ~max_amount_prim_reached(p)
    /\ \E start \in p.start + MB_Needed_for_Boot_Record(p) .. p.end :
       \E end \in start + SectorLength(clipboard) - 1 .. p.end :
          add_operation(Operation("COPY", p, snap_to_alignment(
              [clipboard EXCEPT !.type = IF p.inside THEN "LOGICAL" ELSE "PRIMARY",
                                !.status = "COPY", !.inside = p.inside, !.id = 0,
                                !.start = start, !.end = end]), clipboard))
    /\ UNCHANGED new_count

\* activate_paste() over an existing partition
PasteOver(p) ==
    /\ "Paste" \in Actions
    /\ clipboard # NoPartition
    /\ p.type \in {"PRIMARY", "LOGICAL"} /\ p.status = "REAL" /\ ~p.busy
    /\ ~SamePartition(p, clipboard)
    /\ SectorLength(clipboard) <= SectorLength(p)
    /\ add_operation(Operation("COPY", p,
           [p EXCEPT !.fs = clipboard.fs, !.label = clipboard.label], clipboard))
    /\ UNCHANGED new_count

\* activate_undo(), sensitive while the queue is not empty
Undo ==
    /\ "Undo" \in Actions
    /\ ops # <<>>
    /\ new_count' = IF Last(ops).type = "CREATE" THEN new_count - 1 ELSE new_count
    /\ Refresh(layout, Front(ops), clipboard)
    /\ overtaken' = (overtaken /\ Len(ops) > 1)

\* clear_operationslist()
Clear ==
    /\ "Undo" \in Actions
    /\ ops # <<>>
    /\ Refresh(layout, <<>>, clipboard)
    /\ overtaken' = FALSE
    /\ UNCHANGED new_count

partition_in_operation_queue_count(p) ==
    Cardinality({t \in DOMAIN ops : Path(ops[t].original) = Path(p)})

(***************************************************************************)
(* toggle_fs_busy_state() and activate_mount_partition(): the command is   *)
(* given the path of the selected partition, and the operating system acts *)
(* on the partition of the disk which has that path.  A mount therefore    *)
(* may reach another one when logicals have been renumbered, and           *)
(* unmount_partition() finds that path not mounted there and does nothing. *)
(* The rescan which follows keeps the queue.                               *)
(***************************************************************************)
WithBusy(num, busy) ==
    LET Set(v) == [t \in DOMAIN v |->
                      IF v[t].type \in {"PRIMARY", "LOGICAL"} /\ v[t].num = num
                      THEN [v[t] EXCEPT !.busy = busy] ELSE v[t]]
        Scan(v) == [t \in DOMAIN v |->
                       LET ls == Set(v[t].logicals) IN
                       [v[t] EXCEPT !.logicals = ls,
                                    !.busy = IF v[t].type = "EXTENDED"
                                             THEN \E l \in ToSet(ls) : l.busy
                                             ELSE @]]
    IN  Scan(Set(layout))

ToggleBusy(p) ==
    /\ "ToggleBusy" \in Actions
    /\ p.type \in {"PRIMARY", "LOGICAL"} /\ p.status = "REAL"
    /\ partition_in_operation_queue_count(p) = 0
    /\ Refresh(IF p.busy /\ p.num # p.id THEN layout ELSE WithBusy(p.num, ~p.busy),
               ops, clipboard)
    /\ UNCHANGED <<new_count, overtaken>>

\* activate_apply(): whatever happened to the operations, the queue is wiped
\* and the disk is read again.
Apply ==
    /\ "Apply" \in Actions
    /\ ops # <<>>
    /\ new_count' = 1
    /\ \E scanned \in Layouts : Refresh(scanned, <<>>, clipboard)
    /\ overtaken' = FALSE

Init ==
    /\ session \in Sessions
    /\ layout \in Layouts
    /\ ops = <<>>
    /\ new_count = 1
    /\ clipboard = NoPartition
    /\ display = layout
    /\ overtaken = FALSE

Next ==
  /\ \/ \E p \in Elements(display) :
           \/ New(p) \/ ResizeMove(p) \/ DeleteNew(p) \/ DeleteReal(p)
           \/ Format(p) \/ Check(p) \/ SetLabel(p)
           \/ Copy(p) \/ PasteNew(p) \/ PasteOver(p) \/ ToggleBusy(p)
     \/ Undo \/ Clear
     \/ Apply
  /\ UNCHANGED session

Spec == Init /\ [][Next]_vars
----------------------------------------------------------------------------
(* Properties.                                                             *)

Allocated(ps) == {p \in Elements(ps) : p.type # "UNALLOCATED"}

\* Ordered and disjoint partitions within first .. last
Tidy(v, first, last) ==
    /\ \A i \in DOMAIN v : first <= v[i].start /\ v[i].start <= v[i].end
                          /\ v[i].end <= last
    /\ \A i \in DOMAIN v \ {1} : v[i - 1].end < v[i].start

WellFormed(ps) ==
    /\ Tidy(ps, 0, Length - 1)
    /\ \A i \in DOMAIN ps : ps[i].type = "EXTENDED" =>
           Tidy(ps[i].logicals, ps[i].start, ps[i].end)

\* Applying the queue in order never asks for a partition which overlaps one
\* that is still in the way: every prefix of the queue gives a possible disk.
StepsFeasible == \A k \in 0 .. Len(ops) :
    WellFormed(Replay(layout, SubSeq(ops, 1, k)))

\* No more primary partitions than the table holds, nor two extended ones
TableCapacity ==
    /\ Cardinality({p \in ToSet(display) : p.type \in {"PRIMARY", "EXTENDED"}})
          <= MaxPrims
    /\ Cardinality({p \in ToSet(display) : p.type = "EXTENDED"}) <= 1

\* The same two facts as long as no resize overtook another operation.
FeasibleInOrder == ~overtaken => StepsFeasible /\ TableCapacity

\* An edit changes the one partition the user selected: every other partition
\* the user has on or plans for this disk keeps its place and its contents.
Contents == {<<p.id, p.status, p.start, p.end, p.fs, p.label>> :
             p \in {q \in Allocated(display) : q.type # "EXTENDED"}}
OneEditOnePartition ==
    [][Len(ops') >= Len(ops) /\ layout' = layout /\ ~overtaken'
       => Cardinality(Contents \ Contents') <= 1]_vars

\* Every queued operation, when its turn comes, finds the partition it was
\* queued for and not another one enclosing the same sectors.
ReplayFindsTarget == ~overtaken =>
    \A k \in DOMAIN ops :
        LET op == ops[k]
            before == Allocated(Replay(layout, SubSeq(ops, 1, k - 1)))
        IN  op.original.type # "UNALLOCATED" =>
              \E p \in before : /\ Path(p) = Path(op.original)
                                /\ p.id = op.original.id
                                /\ p.start = op.original.start

\* The numbers of not yet created partitions stay below the next one to be
\* given out, so no two of them have the same "New Partition #n" path.
NewNumbersFresh == \A k \in DOMAIN ops :
    ops[k].type = "CREATE" =>
        /\ ops[k].new.num < new_count
        /\ \A j \in DOMAIN ops \ {k} : ops[j].type = "CREATE" =>
              ops[j].new.num # ops[k].new.num

\* A pasted logical which is not on the disk yet takes the number of its source
\* with it, and its deletion moves the logicals above that number down although
\* no partition of the disk goes (OperationDelete.cc:86 asks for STAT_NEW only).
PastedLogicalDeleted == \E k \in DOMAIN ops :
    ops[k].type = "DELETE" /\ ops[k].original.status = "COPY" /\ ops[k].original.inside

\* The number shown for a partition of the disk is the one it will have when
\* the queue has been applied: logicals move down by one for each logical of
\* the disk which is deleted in front of them, and for nothing else (as long
\* as no resize overtook another operation and no pasted logical was deleted).
NumbersFollowDeletes == ~overtaken /\ ~PastedLogicalDeleted =>
  \A p \in Allocated(display) :
    p.status = "REAL" =>
        p.num = p.id - Cardinality({k \in DOMAIN ops :
                           /\ ops[k].type = "DELETE"
                           /\ ops[k].original.type = "LOGICAL" /\ p.type = "LOGICAL"
                           /\ ops[k].original.id \in 1 .. p.id - 1})

\* A logical partition which was mounted when deletions were queued keeps its
\* number: the kernel could not find it under another one.  One which is mounted
\* afterwards does not: activate_delete() looks at highest_busy only when the
\* deletion is queued (Win_GParted.cc:2455).
MountedAfter(p) ==
    {k \in DOMAIN ops : /\ ops[k].type = "DELETE" /\ ops[k].original.type = "LOGICAL"
                        /\ ops[k].original.id \in 1 .. p.id - 1
                        /\ p.id \notin ops[k].mounted}
BusyKeepsNumber == \A p \in Elements(display) :
    p.status = "REAL" /\ p.busy /\ p.type = "LOGICAL" =>
        p.num = p.id - Cardinality(MountedAfter(p))

\* What the user put on the clipboard stays the same partition until the user
\* copies another one, except when a deletion which is queued or undone gives it
\* another number, or a deleted paste gives its number to another one: it is
\* looked up by its path (Win_GParted.cc:1099).
RenumberedOnDisplay(p) ==
    \E q \in Elements(display') : q.id = p.id /\ q.status = "REAL" /\ q.num # p.num
ClipboardKeepsPartition ==
    [][(clipboard # NoPartition /\ clipboard' # NoPartition
          /\ ~\E p \in Elements(display) : Copy(p))
       => \/ clipboard'.id = clipboard.id
          \/ RenumberedOnDisplay(clipboard)
          \/ PastedLogicalDeleted \/ PastedLogicalDeleted']_vars

\* Queued operations prevent changing the busy state of their partitions.  Two
\* are not counted by partition_in_operation_queue_count(): the source of a copy,
\* and a logical queued under a number it does not have on the disk, which is
\* mounted by the command for the one shown with its number.
SourceOfCopy(op) == IF op.type = "COPY" THEN {op.copied} ELSE {}
BusyAsQueued == \A k \in DOMAIN ops :
    \A p \in {ops[k].original, ops[k].copied} \ SourceOfCopy(ops[k]) :
        p.id # 0 /\ p.num = p.id /\ p.type # "EXTENDED" =>
            \A q \in Elements(layout) : q.id = p.id /\ q.type = p.type => q.busy = p.busy

\* A queued operation is run on the partition it was queued for: on replay it
\* finds that one (Operation::find_index_original()), and its target is not mounted
\* or unmounted while it waits (partition_in_operation_queue_count()), unless it is
\* a logical which had been renumbered.  The source of a copy may be, although
\* toggle_fs_busy_state() says of pending operations that they "must prevent
\* changing the busy state of the partition" (Win_GParted.cc:2988).
QueuedAsMeant == ReplayFindsTarget /\ BusyAsQueued

\* Partitions are known by their numbers, so these stay what they have to be:
\* fresh ones for new partitions, after creations, deletions and undos in any
\* order, the ones the disk will have for real partitions (unless a pasted logical
\* was deleted), and no deletion which is queued while a logical above is mounted
\* takes its number from it (activate_delete(), activate_undo(),
\* OperationDelete::apply_to_visual()).  Nothing keeps a logical above a queued
\* deletion from being mounted, as the comment at Win_GParted.cc:2446 would have it.
NumbersHold == NewNumbersFresh /\ NumbersFollowDeletes /\ BusyKeepsNumber
=============================================================================
