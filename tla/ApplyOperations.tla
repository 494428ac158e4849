---------------------------- MODULE ApplyOperations ----------------------------
(***************************************************************************)
(* Applying the queue: the loop of the progress dialog over the operations *)
(* (Dialog_Progress), the steps each operation is made of                  *)
(* (GParted_Core::apply_operation_to_disk() and what it calls) with every  *)
(* step able to fail, the rollbacks, and how far a cancel reaches through  *)
(* the tree of OperationDetails.                                           *)
(*                                                                         *)
(* One partition, "own", is operated on among neighbours.  A place is      *)
(* [start, end].  Moving the file system is one step here, with the        *)
(* outcomes module MoveFilesystem shows it to have.                        *)
(***************************************************************************)
EXTENDS Integers, Sequences

CONSTANTS
    Neighbours,     \* places of the other partitions of the disk, by name
    Scenarios,      \* what may be applied: [own, fs, queue], see Init
    CanGrow,        \* fs.grow # FS::NONE
    Named,          \* whether new partitions have names
    MaxFaults,      \* bound on the steps which fail by themselves
    NoPlace         \* the place of a partition which does not exist

VARIABLES
    queue,          \* m_operations: records [type, kind, old, new]
    cur,            \* m_curr_op, counted from 1
    m_success, m_cancel,
    pc,             \* dialog: between operations; op: in one; ended
    steps,          \* steps the current operation has still to take
    success,        \* of the current operation so far
    cancelflag,     \* of the OperationDetail of the current step
    table,          \* partition table: places by name
    fs,             \* file system: state, start, length and the length of
                    \* the opened encryption volume around it
    failed,         \* the steps which failed by themselves
    faults,         \* the number of things which went wrong by themselves
    forced          \* the cancel has been forced

vars == <<queue, cur, m_success, m_cancel, pc, steps, success, cancelflag,
          table, fs, failed, faults, forced>>
dialog == <<queue, cur, m_success, m_cancel, pc, forced>>

Place(start, end) == [start |-> start, end |-> end]
PlaceLength(p) == p.end - p.start + 1
Within(p, q) == q.start <= p.start /\ p.end <= q.end
Least(a, b) == IF a <= b THEN a ELSE b
Most(a, b) == IF a >= b THEN a ELSE b
Overlapping(p, q) == p.start <= q.end /\ q.start <= p.end
Middle(p) == (p.start + p.end) \div 2
Holds(p, sector) == p.start <= sector /\ sector <= p.end
IsPlace(p) == p \in [start : Int, end : Int] /\ p.start <= p.end

ASSUME ApplyAssumption ==
    /\ "own" \notin DOMAIN Neighbours /\ "none" \notin DOMAIN Neighbours
    /\ \A n \in DOMAIN Neighbours : IsPlace(Neighbours[n])
    /\ ~IsPlace(NoPlace)
    /\ {CanGrow, Named} \subseteq BOOLEAN /\ MaxFaults \in Nat

PartitionsNow == {n \in DOMAIN table : table[n] # NoPlace}

\* By the sector in the middle; a disk has one extended partition
get_lp_partition(kind, p) ==
    LET at == {n \in PartitionsNow : Holds(table[n], Middle(p))}
    IN  IF kind = "extended" THEN "own"
        ELSE IF at = {} THEN "none" ELSE CHOOSE n \in at : TRUE

----------------------------------------------------------------------------
(* The steps of each operation, in order.  A chain of && in the code is a  *)
(* sequence here: the first step to fail ends the operation, except for    *)
(* the steps put in its place by OnFailure.                                *)

Step(do, old, new) == [do |-> do, old |-> old, new |-> new]

calibrate_partition(p) == Step("calibrate", p, p)
check_repair_filesystem(p) == Step("check", p, p)
shrink_filesystem(old, new) == Step("shrink", old, new)
maximize_filesystem(p) == Step("maximize", p, p)
shrink_encryption(old, new) == Step("shrink_encryption", old, new)
maximize_encryption(p) == Step("maximize_encryption", p, p)
erase_filesystem_signatures(p) == Step("erase", p, p)
set_partition_type(p) == Step("set_type", p, p)
create_filesystem(p) == Step("create_filesystem", p, p)
create_partition(p) == Step("create_partition", p, p)
delete_partition(p) == Step("delete_partition", p, p)
remove_filesystem(p) == Step("remove", p, p)
label_filesystem(p) == Step("label", p, p)
name_partition(p) == Step("name", p, p)
change_filesystem_uuid(p) == Step("uuid", p, p)
copy_filesystem(source, p) == Step("copy", source, p)
move_filesystem(old, new) == Step("move", old, new)

recreate_linux_swap_filesystem(p) ==
    <<erase_filesystem_signatures(p), Step("recreate", p, p)>>

update_bootsector(kind, p) ==
    IF kind = "ntfs" THEN <<Step("bootsector", p, p)>> ELSE <<>>

\* MUTANT of resize_plain: the partition shrinks before the file system
resize_plain_PartitionFirst(kind, old, new) ==
    IF kind = "swap"
    THEN <<Step("resize", old, new)>> \o recreate_linux_swap_filesystem(new)
    ELSE IF PlaceLength(new) < PlaceLength(old)
    THEN <<check_repair_filesystem(new), Step("reduce", old, new),
           shrink_filesystem(old, new)>>
    ELSE IF PlaceLength(new) > PlaceLength(old)
    THEN <<check_repair_filesystem(new), Step("resize", old, new),
           maximize_filesystem(new)>>
    ELSE <<>>

\* "resize" and "reduce" are resize_move_partition() with and without rollback
resize_plain(kind, old, new) ==
    IF kind = "swap"
    THEN <<Step("resize", old, new)>> \o recreate_linux_swap_filesystem(new)
    ELSE IF PlaceLength(new) < PlaceLength(old)
    THEN <<check_repair_filesystem(new), shrink_filesystem(old, new),
           Step("reduce", old, new)>>
    ELSE IF PlaceLength(new) > PlaceLength(old)
    THEN <<check_repair_filesystem(new), Step("resize", old, new),
           maximize_filesystem(new)>>
    ELSE <<>>

\* MUTANT of resize_encryption: the file system grows before the volume
resize_encryption_FilesystemFirst(kind, old, new) ==
    IF kind = "closed" THEN <<Step("resize", old, new), maximize_encryption(new)>>
    ELSE IF PlaceLength(new) < PlaceLength(old)
    THEN <<check_repair_filesystem(old), shrink_filesystem(old, new),
           shrink_encryption(old, new), Step("reduce", old, new)>>
    ELSE <<check_repair_filesystem(old), Step("resize", old, new),
           maximize_filesystem(new), maximize_encryption(new)>>

\* closed, or open and holding a swap space or another file system
resize_encryption(kind, old, new) ==
    IF kind = "closed"
    THEN IF PlaceLength(new) < PlaceLength(old) THEN <<Step("bug", old, new)>>
         ELSE <<Step("resize", old, new), maximize_encryption(new)>>
    ELSE IF PlaceLength(new) < PlaceLength(old)
    THEN IF kind = "open_swap"
         THEN <<shrink_encryption(old, new), Step("reduce", old, new)>>
                  \o recreate_linux_swap_filesystem(new)
         ELSE <<check_repair_filesystem(old), shrink_filesystem(old, new),
                shrink_encryption(old, new), Step("reduce", old, new)>>
    ELSE IF PlaceLength(new) > PlaceLength(old)
    THEN IF kind = "open_swap"
         THEN <<Step("resize", old, new), maximize_encryption(new)>>
                  \o recreate_linux_swap_filesystem(new)
         ELSE <<check_repair_filesystem(old), Step("resize", old, new),
                maximize_encryption(new), maximize_filesystem(new)>>
    ELSE <<>>

Encrypted(kind) == kind \in {"closed", "open", "open_swap"}

resize(kind, old, new) ==
    IF Encrypted(kind) THEN resize_encryption(kind, old, new)
    ELSE resize_plain(kind, old, new)

\* The partition which encompasses the old and the new one
partition_all_space(old, new) ==
    Place(Least(old.start, new.start), Most(old.end, new.end))

move(kind, old, new) ==
    LET all == partition_all_space(old, new) IN
    <<check_repair_filesystem(old), Step("widen", old, all),
      move_filesystem(old, new), Step("narrow", all, new)>>
    \o update_bootsector(kind, new)
    \o (IF kind = "swap" THEN recreate_linux_swap_filesystem(new) ELSE <<>>)

\* Move, then grow; or shrink, then move
resize_move(kind, old, new) ==
    IF kind = "extended" THEN <<Step("reduce", old, new)>>
    ELSE IF new.start = old.start THEN resize(kind, old, new)
    ELSE IF PlaceLength(new) = PlaceLength(old) THEN move(kind, old, new)
    ELSE IF PlaceLength(new) > PlaceLength(old)
    THEN LET temp == Place(new.start, new.start + PlaceLength(old) - 1)
         IN  move(kind, old, temp) \o resize(kind, temp, new)
    ELSE LET temp == Place(old.start, old.start + PlaceLength(new) - 1)
         IN  resize(kind, old, temp) \o move(kind, temp, new)

check_repair_maximize(kind, p) ==
    IF ~Encrypted(kind) THEN <<maximize_filesystem(p)>>
    ELSE <<maximize_encryption(p)>>
         \o (IF kind = "closed" THEN <<>> ELSE <<maximize_filesystem(p)>>)

format(kind, p) ==
    <<erase_filesystem_signatures(p), set_partition_type(p)>>
    \o (IF kind = "cleared" THEN <<>> ELSE <<create_filesystem(p)>>)

create(kind, p) ==
    <<create_partition(p)>>
    \o (IF Named THEN <<name_partition(p)>> ELSE <<>>)
    \o (CASE kind = "extended"    -> <<set_partition_type(p)>>
          [] kind = "unformatted" -> <<>>
          [] kind = "cleared"     -> <<erase_filesystem_signatures(p)>>
          [] OTHER -> <<erase_filesystem_signatures(p), set_partition_type(p),
                        create_filesystem(p)>>)

\* old is the source of the copy, which is one of the neighbours
copy(kind, source, p, fresh) ==
    IF PlaceLength(p) < PlaceLength(source) THEN <<Step("bug", source, p)>>
    ELSE (IF fresh THEN <<create_partition(p)>> ELSE <<>>)
         \o <<erase_filesystem_signatures(p), set_partition_type(p),
              copy_filesystem(source, p)>>
         \o update_bootsector(kind, p)
         \o (IF kind = "swap" THEN recreate_linux_swap_filesystem(p)
             ELSE <<check_repair_filesystem(p)>>
                  \o (IF PlaceLength(p) > PlaceLength(source)
                      THEN <<maximize_filesystem(p)>> ELSE <<>>))

\* The boundaries calibrate_partition() reads from the disk
Calibrated(kind, p) ==
    LET n == get_lp_partition(kind, p) IN IF n = "none" THEN p ELSE table[n]

apply_operation_to_disk(op) ==
    LET old == Calibrated(op.kind, op.old)
        new == Calibrated(op.kind, op.new)
    IN
    CASE op.type = "DELETE" -> <<calibrate_partition(op.old),
             remove_filesystem(old), delete_partition(old)>>
      [] op.type = "CHECK" -> <<calibrate_partition(op.old),
             check_repair_filesystem(old)>> \o check_repair_maximize(op.kind, old)
      [] op.type = "CREATE" -> create(op.kind, op.new)
      [] op.type = "RESIZE_MOVE" -> <<calibrate_partition(op.old)>>
             \o resize_move(op.kind, old, op.new)
      [] op.type = "FORMAT" -> <<calibrate_partition(op.new),
             remove_filesystem(op.old)>> \o format(op.kind, new)
      [] op.type = "COPY_NEW" -> <<calibrate_partition(op.old)>>
             \o copy(op.kind, old, op.new, TRUE)
      [] op.type = "COPY_OVER" -> <<calibrate_partition(op.old),
             calibrate_partition(op.new), remove_filesystem(op.new)>>
             \o copy(op.kind, old, new, FALSE)
      [] op.type = "LABEL" -> <<calibrate_partition(op.new), label_filesystem(new)>>
      [] op.type = "NAME" -> <<calibrate_partition(op.new), name_partition(new)>>
      [] op.type = "UUID" -> <<calibrate_partition(op.new),
             change_filesystem_uuid(new)>>

----------------------------------------------------------------------------
(* What one step does *)

\* MUTANT of OnFailure: the partition stays widened
OnFailure_NoRestore(s) ==
    IF s.do \in {"resize", "widen"}
    THEN <<Step("undo", Place(Most(s.old.start, s.new.start),
                              Least(s.old.end, s.new.end)), s.old)>>
    ELSE <<>>

\* MUTANT of OnFailure: the partition is looked for where it should be
OnFailure_WhereItShouldBe(s) ==
    IF s.do \in {"resize", "widen"} THEN <<Step("undo", s.new, s.old)>>
    ELSE IF s.do = "move"
    THEN <<Step("restore", partition_all_space(s.old, s.new), s.old),
           check_repair_filesystem(s.old)>>
    ELSE <<>>

\* The steps taken because step s failed: a partition which may or may not have
\* changed is looked for in the intersection of both places
OnFailure(s) ==
    IF s.do \in {"resize", "widen"}
    THEN <<Step("undo", Place(Most(s.old.start, s.new.start),
                              Least(s.old.end, s.new.end)), s.old)>>
    ELSE IF s.do = "move"
    THEN <<Step("restore", partition_all_space(s.old, s.new), s.old),
           check_repair_filesystem(s.old)>>
    ELSE <<>>

Running(do) == pc = "op" /\ steps # <<>> /\ Head(steps).do \in do

\* set_success_and_capture_errors() of the step's OperationDetail, and the
\* next step gets an OperationDetail of its own, which no cancel has reached
StepSucceeds ==
    /\ steps' = Tail(steps) /\ cancelflag' = 0
    /\ UNCHANGED <<dialog, success>>

StepReturnsFalse ==
    /\ success' = FALSE
    /\ steps' = OnFailure(Head(steps)) /\ cancelflag' = 0
    /\ UNCHANGED dialog

NoFault == UNCHANGED <<failed, faults>>

Fault(n) == faults + n <= MaxFaults /\ faults' = faults + n

StepFails ==
    /\ Fault(1) /\ failed' = failed \cup {Head(steps).do}
    /\ StepReturnsFalse

\* The code or libparted refuses what it is asked for
StepRefused == StepReturnsFalse /\ NoFault

\* Commands run with EXEC_CANCEL_SAFE and copies of blocks heed a cancel, every
\* external command heeds a forced one, and libparted none
CancelSafe == {"check", "create_filesystem", "copy", "move"}
ByLibparted == {"shrink", "maximize"}
External == CancelSafe \cup {"shrink_encryption", "maximize_encryption",
               "recreate", "remove", "label", "uuid"}
            \cup (IF queue[cur].kind = "libparted" THEN {} ELSE ByLibparted)

StepStopped ==
    /\ \/ cancelflag = 1 /\ Head(steps).do \in CancelSafe
       \/ cancelflag = 2 /\ Head(steps).do \in External
    /\ StepReturnsFalse /\ NoFault

NoFs == [fs EXCEPT !.state = "none"]
Harmed == [fs EXCEPT !.state = IF @ = "none" THEN "none" ELSE "damaged"]

\* A command stopped by force may leave the file system damaged
StoppedFs == IF cancelflag = 2 THEN {fs, Harmed} ELSE {fs}

\* A step which works on the file system: what it leaves, and what it may leave
\* when it fails by itself
FsStep(do, after, halfway) ==
    /\ Running(do)
    /\ \/ StepSucceeds /\ NoFault /\ fs' = after
       \/ StepFails /\ fs' \in halfway
       \/ StepStopped /\ fs' \in StoppedFs
    /\ UNCHANGED table

----------------------------------------------------------------------------
(* The dialog *)

\* on_signal_show(): the loop goes on
BeginOperation ==
    /\ pc = "dialog" /\ cur <= Len(queue) /\ m_success /\ ~m_cancel
    /\ pc' = "op" /\ success' = TRUE /\ cancelflag' = 0
    /\ steps' = apply_operation_to_disk(queue[cur])
    /\ UNCHANGED <<queue, cur, m_success, m_cancel, table, fs, failed, faults, forced>>

EndOperation ==
    /\ pc = "op" /\ steps = <<>>
    /\ pc' = "dialog" /\ m_success' = success /\ cur' = cur + 1
    /\ UNCHANGED <<queue, m_cancel, steps, success, cancelflag, table, fs,
                   failed, faults, forced>>

\* on_signal_show(): after the loop
EndDialog ==
    /\ pc = "dialog" /\ (cur > Len(queue) \/ ~m_success \/ m_cancel)
    /\ pc' = "ended"
    /\ UNCHANGED <<queue, cur, m_success, m_cancel, steps, success, cancelflag,
                   table, fs, failed, faults, forced>>

\* on_cancel(): first a cancel, and after the countdown a forced one.  It is
\* emitted on the signal of the running operation and reaches the
\* OperationDetails there are.
Cancel ==
    /\ pc = "op" /\ steps # <<>> /\ ~m_cancel
    /\ m_cancel' = TRUE /\ cancelflag' = 1
    /\ UNCHANGED <<queue, cur, m_success, pc, steps, success, table, fs,
                   failed, faults, forced>>

ForceCancel ==
    /\ pc = "op" /\ steps # <<>> /\ m_cancel /\ ~forced
    /\ forced' = TRUE /\ cancelflag' = 2
    /\ UNCHANGED <<queue, cur, m_success, m_cancel, pc, steps, success, table, fs,
                   failed, faults>>

----------------------------------------------------------------------------
(* Steps on the partition table.  A commit which fails may have written    *)
(* the table and only not told the operating system.                       *)

\* The device, or the partition table on it, cannot be opened
get_device_and_disk == StepFails /\ UNCHANGED table

commit(new) ==
    \/ StepSucceeds /\ NoFault /\ table' = new
    \/ StepFails /\ table' \in {table, new}

ChangeTable(new) == get_device_and_disk \/ commit(new)

\* libparted lets no two partitions overlap
Refused(n, p) == n = "none" \/ \E m \in PartitionsNow \ {n} : Overlapping(table[m], p)

\* resize_move_partition() and the two places which put partitions back
resize_move_partition ==
    /\ Running({"resize", "reduce", "widen", "narrow", "restore", "undo"})
    /\ LET s == Head(steps)
           n == get_lp_partition(queue[cur].kind, s.old)
       IN  \/ Refused(n, s.new) /\ StepRefused /\ UNCHANGED table
           \/ ~Refused(n, s.new) /\ ChangeTable([table EXCEPT ![n] = s.new])
    /\ UNCHANGED fs

CreatePartition ==
    /\ Running({"create_partition"})
    /\ LET p == Head(steps).new
       IN  \/ Refused("own", p) /\ StepRefused /\ UNCHANGED table
           \/ ~Refused("own", p) /\ ChangeTable([table EXCEPT !["own"] = p])
    /\ UNCHANGED fs

\* What was in a deleted partition is out of reach
DeletePartition ==
    /\ Running({"delete_partition"})
    /\ LET n == get_lp_partition(queue[cur].kind, Head(steps).old)
           gone == [table EXCEPT ![n] = NoPlace]
       IN  IF n = "none" THEN StepRefused /\ UNCHANGED <<table, fs>>
           ELSE ChangeTable(gone) /\ fs' = IF table' = gone THEN NoFs ELSE fs

----------------------------------------------------------------------------
(* Steps on the file system.  Commands are given the path of the partition *)
(* and work on what they find there.                                       *)

Opened == queue[cur].kind \in {"open", "open_swap"}

\* The space a file system can have: the partition or the opened volume
Room == IF Opened THEN fs.volume ELSE PlaceLength(table["own"])

NewFs == [fs EXCEPT !.state = "good", !.start = table["own"].start, !.length = Room]

Sized(length) == [fs EXCEPT !.length = length]
SizedVolume(length) == [fs EXCEPT !.volume = length]

Shrunk == Sized(PlaceLength(Head(steps).new))
\* Growing is skipped with a warning where it is not available
Grown == IF CanGrow THEN Sized(Room) ELSE fs

UsesLibparted == Running(ByLibparted) /\ queue[cur].kind = "libparted"

Shrink == ~UsesLibparted /\ FsStep({"shrink"}, Shrunk, {fs, Shrunk})
Maximize == ~UsesLibparted /\ FsStep({"maximize"}, Grown, {fs, Grown})

\* FAT and HFS are resized by libparted, in a thread of its own, which no cancel
\* stops; it may fail halfway, and nobody asks whether the table was committed
resize_move_filesystem_using_libparted ==
    /\ UsesLibparted
    /\ LET after == IF Head(steps).do = "shrink" THEN Shrunk ELSE Grown
       IN  \/ StepSucceeds /\ NoFault /\ fs' = after
           \/ StepFails /\ fs' \in {fs, Harmed}
    /\ UNCHANGED table

ShrinkEncryption == LET after == SizedVolume(PlaceLength(Head(steps).new))
                    IN  FsStep({"shrink_encryption"}, after, {fs, after})

\* A closed volume has no size of its own
MaximizeEncryption ==
    LET after == IF Opened THEN SizedVolume(PlaceLength(table["own"])) ELSE fs
    IN  FsStep({"maximize_encryption"}, after, {fs, after})

EraseSignatures == FsStep({"erase"}, NoFs, {fs, NoFs})

CreateFilesystem == FsStep({"create_filesystem", "recreate"}, NewFs, {NoFs, NewFs})

Copied(s) == [fs EXCEPT !.state = "good", !.start = s.new.start,
                        !.length = PlaceLength(s.old)]

CopyFilesystem == FsStep({"copy"}, Copied(Head(steps)), {NoFs})

\* Steps which change neither the partitions nor the extent of the file system
OtherStep == FsStep({"check", "set_type", "bootsector", "label",
                     "name", "uuid", "remove"}, fs, {fs})

calibrate ==
    /\ Running({"calibrate"})
    /\ IF get_lp_partition(queue[cur].kind, Head(steps).old) = "none" THEN StepRefused
       ELSE (StepSucceeds /\ NoFault) \/ StepFails
    /\ UNCHANGED <<table, fs>>

\* A step which the code itself refuses: a "GParted Bug", or a copy to a smaller
\* partition
Bug == Running({"bug"}) /\ StepRefused /\ UNCHANGED <<table, fs>>

\* move_filesystem(), see module MoveFilesystem.  It goes by sectors, not by
\* the partition.  A block which cannot be read is skipped; a rollback puts the
\* file system back unless it fails as well or is cancelled by force.
MoveFs ==
    /\ Running({"move"}) /\ queue[cur].kind # "swap"
    /\ LET s == Head(steps)
           moved == IF fs.start = s.old.start THEN [fs EXCEPT !.start = s.new.start]
                    ELSE Harmed
       IN  \/ StepSucceeds /\ NoFault /\ fs' = moved
           \/ StepSucceeds /\ Fault(1) /\ fs' = Harmed /\ UNCHANGED failed
           \/ StepFails /\ UNCHANGED fs
           \/ StepStopped /\ fs' \in StoppedFs
           \/ StepReturnsFalse /\ Fault(2) /\ failed' = failed \cup {"move"} /\ fs' = Harmed
           \/ /\ cancelflag = 1 /\ StepReturnsFalse /\ Fault(1)
              /\ failed' = failed \cup {"move"} /\ fs' = Harmed
    /\ UNCHANGED table

\* A swap space is not moved but made anew afterwards
MoveSwap ==
    /\ Running({"move"}) /\ queue[cur].kind = "swap"
    /\ StepSucceeds /\ NoFault /\ UNCHANGED <<table, fs>>

----------------------------------------------------------------------------
(* What may be applied: what the main window and its dialogs let the user  *)
(* queue for a partition.                                                  *)

FsKinds == {"plain", "libparted", "swap", "ntfs", "closed", "open", "open_swap"}

\* Closed volumes are not shrunk, what is in use is not moved, and the dialog
\* ends at the neighbours.  The source of a copy is still there.
Queueable(op) ==
    /\ op.type \in {"DELETE", "CHECK", "CREATE", "RESIZE_MOVE", "FORMAT", "COPY_NEW", "COPY_OVER", "LABEL",
                    "NAME", "UUID"}
    /\ op.kind \in FsKinds \cup {"extended", "unformatted", "cleared"}
    /\ IsPlace(op.old) /\ IsPlace(op.new)
    /\ CASE op.type = "RESIZE_MOVE" ->
             /\ op.kind \in FsKinds \cup {"extended"}
             /\ op.kind = "closed" => PlaceLength(op.new) >= PlaceLength(op.old)
             /\ op.kind \in {"open", "open_swap"} => op.new.start = op.old.start
             /\ \A n \in DOMAIN Neighbours :
                  Overlapping(Neighbours[n], partition_all_space(op.old, op.new)) =>
                      Overlapping(Neighbours[n], op.new)
         [] op.type \in {"COPY_NEW", "COPY_OVER"} ->
             /\ op.kind \in FsKinds \ {"open", "open_swap"}
             /\ \E n \in DOMAIN Neighbours : Holds(Neighbours[n], Middle(op.old))
         [] op.type \in {"CREATE", "FORMAT"} ->
             /\ op.old = op.new /\ op.kind \notin {"open", "open_swap"}
             /\ op.type = "FORMAT" => op.kind # "extended"
         [] op.type = "CHECK" -> op.old = op.new /\ op.kind \in FsKinds
         [] op.type \in {"DELETE", "LABEL", "NAME", "UUID"} -> op.old = op.new

New(op) == op.type \in {"CREATE", "COPY_NEW"}

\* A partition which is not new is where the operation before it has put it, and
\* holds what that has left, unless it is about to be overwritten.
Follows(op, before) ==
    /\ ~New(op) /\ before.type # "DELETE"
    /\ \/ op.kind = before.kind
       \/ op.type \in {"FORMAT", "COPY_OVER"} /\ before.kind \notin {"extended", "open", "open_swap"}
    /\ before.new = IF op.type = "COPY_OVER" THEN op.new ELSE op.old

\* What the file system occupies is inside its partition, and it begins there;
\* an opened volume is as large as its partition.
Fits(kind, place, content) ==
    content.state = "good" =>
        /\ place # NoPlace /\ kind # "extended" /\ content.start = place.start
        /\ kind # "open_swap" => content.length <= PlaceLength(place)
        /\ kind \in {"open", "open_swap"} => content.volume = PlaceLength(place)

\* The first operation finds the partition as the picture has it.
Begins(s, op) ==
    /\ s.own = IF New(op) THEN NoPlace ELSE IF op.type = "COPY_OVER" THEN op.new ELSE op.old
    /\ Fits(op.kind, s.own, s.fs)
    /\ op.type \in {"RESIZE_MOVE", "CHECK", "LABEL", "NAME", "UUID"} /\ op.kind \in FsKinds =>
         s.fs.state = "good"

ASSUME ScenarioAssumption ==
    \A s \in Scenarios :
        /\ s.own = NoPlace \/ (IsPlace(s.own) /\ \A n \in DOMAIN Neighbours : ~Overlapping(Neighbours[n], s.own))
        /\ s.fs \in [state : {"good", "none"}, start : Int, length : Int, volume : Int]
        /\ Len(s.queue) \in Nat \ {0} /\ DOMAIN s.queue = 1 .. Len(s.queue)
        /\ \A i \in DOMAIN s.queue : Queueable(s.queue[i])
        /\ Begins(s, s.queue[1])
        /\ \A i \in 2 .. Len(s.queue) : Follows(s.queue[i], s.queue[i - 1])

----------------------------------------------------------------------------

Init ==
    /\ \E s \in Scenarios :
          /\ queue = s.queue
          /\ table = [n \in DOMAIN Neighbours \cup {"own"} |->
                        IF n = "own" THEN s.own ELSE Neighbours[n]]
          /\ fs = s.fs
    /\ cur = 1 /\ m_success = TRUE /\ m_cancel = FALSE /\ pc = "dialog"
    /\ steps = <<>> /\ success = TRUE /\ cancelflag = 0
    /\ failed = {} /\ faults = 0 /\ forced = FALSE

TakeStep ==
    \/ resize_move_partition \/ CreatePartition \/ DeletePartition
    \/ Shrink \/ Maximize \/ resize_move_filesystem_using_libparted \/ ShrinkEncryption \/ MaximizeEncryption
    \/ EraseSignatures \/ CreateFilesystem \/ CopyFilesystem
    \/ MoveFs \/ MoveSwap \/ OtherStep \/ calibrate \/ Bug

Next ==
    \/ BeginOperation \/ EndOperation \/ EndDialog
    \/ TakeStep \/ Cancel \/ ForceCancel

Spec == Init /\ [][Next]_vars

----------------------------------------------------------------------------
(* Properties *)

FsEnd == fs.start + fs.length - 1
HasFs == table["own"] # NoPlace /\ fs.state = "good"
Op == queue[cur]

\* At every moment, between any two steps, the file system is inside its
\* encryption volume and that inside the partition: partitions shrink after what
\* they hold, and grow before it, whichever step fails (resize_plain(),
\* resize_encryption(), move()).  A swap space holds nothing and is made anew.
Nested ==
    HasFs /\ pc = "op" =>
        /\ Op.kind \notin {"swap", "open_swap"} =>
             table["own"].start <= fs.start /\ FsEnd <= table["own"].end
        /\ Opened => fs.volume <= PlaceLength(table["own"])
        /\ Op.kind = "open" => fs.length <= fs.volume

\* The sectors a step is about to write by their numbers
Written(s) ==
    IF s.do \in {"erase", "create_filesystem", "recreate"} THEN {s.new}
    ELSE IF s.do = "move" THEN {s.old, s.new}
    ELSE IF s.do = "copy" THEN {Place(s.new.start, s.new.start + PlaceLength(s.old) - 1)}
    ELSE {}

\* A step only writes inside the partition operated on as the table has it then:
\* move() widens it first, to keep off the metadata of logical partitions
\* (GParted_Core.cc:2245-2251).
WritesInside ==
    pc = "op" /\ steps # <<>> /\ ~(Op.kind = "swap" /\ Head(steps).do = "move") =>
        \A p \in Written(Head(steps)) : table["own"] # NoPlace /\ Within(p, table["own"])

\* The partition is found by its middle sector in every step of every operation,
\* also in a rollback which does not know whether the failed step had changed it
\* (GParted_Core.cc:2718-2721).
TargetFound ==
    Running({"resize", "reduce", "widen", "narrow", "restore", "undo", "delete_partition"})
        => get_lp_partition(Op.kind, Head(steps).old) = "own"

\* When an operation is over, however it went, the partition starts where its
\* file system does, unless putting it there was what failed; and the file
\* system is damaged only after a fault or a forced cancel.
Mountable ==
    pc # "op" /\ table["own"] # NoPlace =>
        /\ HasFs /\ queue[Most(1, cur - 1)].kind # "swap"
             /\ failed \cap {"narrow", "restore", "undo"} = {} =>
               fs.start = table["own"].start
        /\ fs.state = "damaged" => forced \/ faults > 0

\* What the picture of the disk let the user queue.  An operation which was
\* overtaken by another may find a neighbour in its way, or a source which has
\* grown.
Possible(op) ==
    /\ op.type \in {"CREATE", "COPY_NEW", "RESIZE_MOVE"} =>
         \A n \in DOMAIN Neighbours : ~Overlapping(Neighbours[n], op.new)
    /\ op.type \in {"COPY_NEW", "COPY_OVER"} =>
         PlaceLength(op.new) >= PlaceLength(Calibrated(op.kind, op.old))

\* Without a fault and without a cancel every step of a possible operation
\* succeeds: libparted refuses none because it overlaps another partition, and
\* none is refused by the code's own checks.
OnlyFaultsFail ==
    pc = "op" /\ ~success => faults > 0 \/ m_cancel \/ ~Possible(Op)

\* Whether op grew the partition of a file system which fills it
Fills(op) ==
    \/ op.type \in {"CREATE", "FORMAT"} /\ op.kind \notin {"extended", "unformatted", "cleared"}
    \/ /\ CanGrow /\ op.kind # "closed"
       /\ \/ op.type \in {"CHECK", "COPY_NEW", "COPY_OVER"}
          \/ op.type = "RESIZE_MOVE" /\ op.kind # "extended"
             /\ PlaceLength(op.new) > PlaceLength(op.old)
    \/ op.type \in {"RESIZE_MOVE", "COPY_NEW", "COPY_OVER"} /\ op.kind = "swap"

\* An operation reported as done is done: the partition is where it was asked to
\* be, and a file system made, grown or made anew fills it.
SuccessMeansDone ==
    pc # "op" /\ m_success /\ cur > 1 =>
        LET op == queue[cur - 1] IN
        /\ table["own"] = (IF op.type = "DELETE" THEN NoPlace ELSE op.new)
        /\ Fills(op) /\ faults = 0 /\ ~forced =>
             /\ HasFs /\ fs.start = table["own"].start
             /\ FsEnd = table["own"].end

\* Nothing ever reaches out of the partition operated on into its neighbours:
\* neither what it holds, between any two steps, nor what a step writes.
StaysInside == Nested /\ WritesInside

\* The outcome which is reported is the true one: a failure has a cause outside
\* the program or the user's cancel, a success means that everything was done.
HonestOutcome == OnlyFaultsFail /\ SuccessMeansDone
=============================================================================
