---------------------------- MODULE BoundaryDialog ----------------------------
(***************************************************************************)
(* The dialogs in which a partition gets its boundaries (Dialog_Partition_ *)
(* New, _Copy and _Resize_Move over Dialog_Base_Partition): three spin     *)
(* buttons which keep each other in balance, the frame whose edges are     *)
(* dragged (Frame_Resizer_Base, Frame_Resizer_Extended), and the way from  *)
(* mebibytes back to sectors, aligned, at the OK button.                   *)
(*                                                                         *)
(* The spin buttons hold fractions of a mebibyte after a drag: a value is  *)
(* kept in units of 1 / Width MiB, Width being the pixels of the frame.    *)
(* Pointer positions are relative to the edge that is dragged, so the      *)
(* margins of the frame drop out.                                          *)
(***************************************************************************)
EXTENDS PartitionLayout

CONSTANTS
    Width,       \* pixels of the frame, 500
    Border,      \* pixels of the partition's border, 8
    Track,       \* device.sectors
    Cylinder,    \* device.cylsize
    GptSectors,  \* sectors of a GPT and of its backup, 34
    Situations,  \* what a dialog is opened on
    MaxEdits     \* bound: changes made in one dialog

\* A situation is
\*   dialog     "new", "paste" or "resize"
\*   gpt        the device's table is a GPT
\*   sectors    m_display_device.length
\*   device     m_display_device.partitions
\*   part       the selected partition; for "paste" and "new", unallocated space
\*   copied     what is pasted
\*   kinds      for "new", the file systems [name, create, min, max] in the order
\*              of the menu, the limits in sectors
\*   readonly   the kernel does not learn of changes to the table
\*   fs         whether it is XFS, and what the file system can do: grow, shrink,
\*              move, online_shrink
\*   min, max   FS_Limits in sectors, 0 for none
\*   used       sectors_used, -1 when unknown, and unused, sectors_unused, of
\*   unused     the file system which is resized or pasted
ASSUME BoundaryAssumption ==
    /\ Width \in Nat \ {0} /\ Border \in Nat
    /\ Track \in Nat \ {0} /\ Cylinder \in Nat \ {0}
    /\ GptSectors \in Nat
    /\ MaxEdits \in Nat
    /\ \A s \in Situations :
        /\ s.dialog \in {"new", "paste", "resize"} /\ s.gpt \in BOOLEAN /\ s.sectors \in Nat \ {0}
        /\ s.min \in Nat /\ s.max \in Nat /\ s.used \in Int /\ s.unused \in Int

VARIABLES
    situation,   \* what the dialog was opened on
    members,     \* START, total_length, TOTAL_MB, MIN_SPACE_BEFORE_MB, fixed_start, fs_limits
    spin,        \* the spin buttons: value, lo and hi of each, GRIP and before_value
    chosen,      \* for "new", the type and the active row of the file systems
    orig,        \* ORIG_BEFORE, ORIG_SIZE and ORIG_AFTER
    frame,       \* X_START, X_END and which grip is held
    edits,       \* changes made so far
    result       \* get_new_partition()

vars == <<situation, members, spin, chosen, orig, frame, edits, result>>

Buttons == {"before", "size", "after"}
NoResult == [accepted |-> FALSE]

-----------------------------------------------------------------------------
(* Mebibytes, sectors and pixels                                           *)

\* Utils::round() of a / b
Rounded(a, b) ==
    IF a >= 0 THEN (2 * a + b) \div (2 * b) ELSE -((b - 2 * a) \div (2 * b))

Ceiling(a) == (a + MiB - 1) \div MiB

ToMiB(sectors) == Rounded(sectors, MiB)

\* get_value_as_int()
AsInt(value) ==
    IF 2 * (value % Width) < Width THEN value \div Width
                                   ELSE (value + Width - 1) \div Width

Shown(values) == [b \in Buttons |-> AsInt(values[b])]

MB_Needed_for_Boot_Record(p) == IF p.inside \/ p.start < MiB THEN 1 ELSE 0

\* Partition::calc_significant_unallocated_sectors() up to 100 MiB
Significant(length) == Max({1, Rounded(length, 20)})

estimated_min_size(s, length) ==
    IF s.used < 0 THEN -1
    ELSE s.used + Min({length - s.used - s.unused, Significant(length)})

-----------------------------------------------------------------------------
(* What set_data() computes                                                *)

VectorOf(s) ==
    IF s.part.inside THEN s.device[find_extended_partition(s.device)].logicals ELSE s.device

IndexOf(s) == SelectInSeq(VectorOf(s), LAMBDA q : SamePartition(q, s.part))

\* Length of the unallocated neighbour at distance d
FreeBeside(s, d) ==
    LET i == IndexOf(s) + d
    IN  IF i \in DOMAIN VectorOf(s) /\ VectorOf(s)[i].type = "UNALLOCATED"
        THEN SectorLength(VectorOf(s)[i]) ELSE 0

\* A mebibyte for the boot record of a logical partition behind the free space
Reserved(s) ==
    LET v == VectorOf(s)
        next == v[IndexOf(s) + 1]
    IN  IF /\ s.part.type = "LOGICAL" /\ FreeBeside(s, 1) >= MiB
           /\ Last(v).end - next.end > MiB
        THEN MiB ELSE 0

Members(start, previous, length, next, minSpace, fixed, min, max, first, used) ==
    [start |-> start, previous |-> previous, length |-> length, next |-> next,
     total |-> previous + length + next, totalMB |-> ToMiB(previous + length + next),
     minSpace |-> minSpace, fixed |-> fixed, min |-> min, max |-> max,
     first |-> first, used |-> used]

Whole(total, minSpace) == (ToMiB(total) - minSpace) * MiB

\* Dialog_Partition_Resize_Move::Resize_Move_Normal()
Resize_Move_Normal(s) ==
    LET length == SectorLength(s.part)
        fixed == ~s.fs.move \/ s.part.busy
        previous == IF fixed THEN 0 ELSE FreeBeside(s, -1)
        next == FreeBeside(s, 1) - Reserved(s)
        before == VectorOf(s)[IndexOf(s) - 1]
        minSpace == IF previous = 0 THEN 0 ELSE MB_Needed_for_Boot_Record(before)
        shrink == s.fs.shrink /\ (s.used >= 0 \/ s.part.status = "NEW")
        shrinks == IF s.part.busy THEN s.fs.online_shrink ELSE shrink
    IN  Members(IF previous = 0 THEN s.part.start ELSE before.start,
                previous, length, next, minSpace, fixed,
                IF shrinks THEN Max({s.min, estimated_min_size(s, length), MiB}) ELSE length,
                IF s.fs.grow THEN Whole(previous + length + next, minSpace) ELSE length,
                0, estimated_min_size(s, length))

Logicals(p) == SelectSeq(p.logicals, LAMBDA q : q.type = "LOGICAL")

\* Resize_Move_Extended(): from the first logical, with the mebibyte in front
\* of it, to the last counts as used
Resize_Move_Extended(s) ==
    LET previous == FreeBeside(s, -1)
        before == s.device[IndexOf(s) - 1]
        minSpace == IF previous = 0 THEN 0 ELSE MB_Needed_for_Boot_Record(before)
        total == previous + SectorLength(s.part) + FreeBeside(s, 1)
        inside == Logicals(s.part)
        First(first, q) == Max({0, IF q.start < first THEN q.start - MiB ELSE first})
        empty == Len(s.part.logicals) = 1 /\ inside = <<>>
        first == IF empty THEN 0 ELSE FoldLeft(First, s.part.end, inside)
        last == FoldLeft(LAMBDA end, q : Max({end, q.end}), s.part.start, inside)
        used == IF empty THEN 0 ELSE last - first
    IN  Members(IF previous = 0 THEN s.part.start ELSE before.start,
                previous, SectorLength(s.part), FreeBeside(s, 1), minSpace, FALSE,
                IF used = 0 THEN MiB ELSE used, Whole(total, minSpace), first, used)

\* Dialog_Partition_Copy::set_data(): only an XFS may become smaller
Paste(s) ==
    LET minSpace == MB_Needed_for_Boot_Record(s.part)
        whole == Whole(SectorLength(s.part), minSpace)
        length == SectorLength(s.copied)
        least == estimated_min_size(s, length)
    IN  Members(s.part.start, 0, SectorLength(s.part), 0, minSpace, FALSE,
                IF s.fs.xfs THEN Max({s.min, least}) ELSE Ceiling(length) * MiB,
                IF ~s.fs.grow THEN length
                ELSE IF s.max = 0 THEN whole ELSE Min({s.max, whole}),
                0, least)

(* The types and the file systems Dialog_Partition_New offers.  The row of
   the extended partition is behind the others, and only while that type is
   chosen. *)

ExtendedKind == [name |-> "extended", create |-> FALSE, min |-> 0, max |-> 0]
KindOf(s, row) == IF row \in DOMAIN s.kinds THEN s.kinds[row] ELSE ExtendedKind

TypesOffered(s) ==
    IF s.gpt THEN {"PRIMARY"}
    ELSE IF s.part.inside THEN {"LOGICAL"}
    ELSE {"PRIMARY"} \union (IF find_extended_partition(s.device) = 0 THEN {"EXTENDED"} ELSE {})

FirstType(s) == IF s.part.inside /\ ~s.gpt THEN "LOGICAL" ELSE "PRIMARY"

\* build_filesystems_combo()
Sensitive(s, row) ==
    LET k == s.kinds[row]
    IN  k.name = "unformatted" \/ (~s.readonly /\ k.create /\ SectorLength(s.part) >= k.min)

default_fs(s) ==
    LET rows == {row \in DOMAIN s.kinds : Sensitive(s, row)}
        ext == {row \in rows : s.kinds[row].name \in {"ext2", "ext3", "ext4"}}
    IN  IF ext # {} THEN Max(ext) ELSE Min(rows)

NoChoice == [type |-> "", row |-> 0]
FirstChoice(s) ==
    IF s.dialog = "new" THEN [type |-> FirstType(s), row |-> default_fs(s)] ELSE NoChoice

\* Mutant: the row stays when the extended type is left
TypeChosen_RowKept(s, type, row) ==
    [type |-> type, row |-> IF type = "EXTENDED" THEN Len(s.kinds) + 1 ELSE row]

\* combobox_changed() of the types: the extended row comes and goes
TypeChosen(s, type, row) ==
    [type |-> type, row |-> CASE type = "EXTENDED" -> Len(s.kinds) + 1
                              [] type # "EXTENDED" /\ row > Len(s.kinds) -> default_fs(s)
                              [] OTHER -> row]

\* Dialog_Partition_New::set_data() and combobox_changed() of the file systems
New(s, row) ==
    LET minSpace == MB_Needed_for_Boot_Record(s.part)
        whole == Whole(SectorLength(s.part), minSpace)
        k == KindOf(s, row)
    IN  Members(s.part.start, 0, SectorLength(s.part), 0, minSpace, FALSE,
                Min({Max({k.min, MiB}), SectorLength(s.part)}),
                IF k.max = 0 THEN whole ELSE Min({k.max, whole}), 0, 0)

set_data(s, row) ==
    CASE s.dialog = "new" -> New(s, row)
      [] s.dialog = "paste" -> Paste(s)
      [] s.part.type = "EXTENDED" -> Resize_Move_Extended(s)
      [] OTHER -> Resize_Move_Normal(s)

IsExtended(s) == s.dialog = "resize" /\ s.part.type = "EXTENDED"

\* The ranges of the spin buttons, in mebibytes
Range3(b, s, a) == [before |-> b, size |-> s, after |-> a]

Ranges(s, m) ==
    LET min == Ceiling(m.min)
        logicals == IsExtended(s) /\ m.first # 0
        free == m.totalMB - m.minSpace - min
    IN  Range3(
            CASE m.fixed -> <<0, 0>>
              [] logicals -> <<m.minSpace, ToMiB(m.first - m.start)>>
              [] IsExtended(s) -> <<m.minSpace, free>>
              [] OTHER -> <<m.minSpace, m.totalMB - min>>,
            <<min, IF IsExtended(s) THEN m.totalMB - m.minSpace ELSE Ceiling(m.max)>>,
            CASE logicals -> <<0, ToMiB(m.total + m.start - m.first - m.used)>>
              [] s.dialog = "resize" /\ ~IsExtended(s) /\ ~s.fs.grow /\ ~s.fs.move ->
                    <<ToMiB(m.next), free>>
              [] OTHER -> <<0, free>>)

\* The values the dialog opens with, in mebibytes
Opening(s, m) ==
    IF s.dialog = "paste"
    THEN Range3(m.minSpace, Ceiling(SectorLength(s.copied)),
                m.totalMB - m.minSpace - Ceiling(SectorLength(s.copied)))
    ELSE Range3(IF m.fixed THEN 0 ELSE ToMiB(m.previous), ToMiB(m.length), ToMiB(m.next))

-----------------------------------------------------------------------------
(* The spin buttons                                                        *)

\* Gtk::Adjustment: a range whose bounds are crossed is its lower bound
Clamped(x, range) == Max({range[1], Min({x, range[2]})})

RECURSIVE set_value(_, _, _, _)

\* on_spinbutton_value_changed(): a value which changed changes the others
on_spinbutton_value_changed(m, sp, button) ==
    LET total == m.totalMB * Width
        Before(x) == IF m.fixed THEN m.minSpace * Width ELSE x.value.before
        start == [sp EXCEPT !.before_value = Before(sp)]
        Balance(x, b) ==
            CASE b = "after" /\ button = "before" ->
                    set_value(m, x, b, total - x.value.size - x.before_value)
              [] b = "after" ->
                    set_value(m, x, b, total - x.before_value - x.value.size)
              [] b = "before" ->
                    IF m.fixed THEN x
                    ELSE set_value(m, x, b, total - x.value.size - x.value.after)
              [] b = "size" ->
                    set_value(m, x, b, total - x.before_value - x.value.after)
    IN  IF sp.GRIP THEN sp
        ELSE FoldLeft(Balance, start,
                 CASE button = "before" -> <<"after", "size">>
                   [] button = "size" -> <<"after", "before">>
                   [] button = "after" -> <<"before", "size">>)

\* Gtk::SpinButton::set_value(): clamped, and signalled when it changed
set_value(m, sp, button, value) ==
    LET new == Clamped(value, sp.range[button])
    IN  IF new = sp.value[button] THEN sp
        ELSE on_spinbutton_value_changed(m, [sp EXCEPT !.value[button] = new], button)

\* Gtk::SpinButton::set_range()
set_range(m, sp, button, range) ==
    LET scaled == <<range[1] * Width, range[2] * Width>>
    IN  set_value(m, [sp EXCEPT !.range[button] = scaled], button, sp.value[button])

RangesSet(s, m, sp) ==
    LET ranges == Ranges(s, m)
    IN  FoldLeft(LAMBDA x, b : set_range(m, x, b, ranges[b]), sp, <<"before", "size", "after">>)

\* The dialogs set up their buttons one after the other, silently but for "new"
Opened(s, m) ==
    LET ranges == Ranges(s, m)
        values == Opening(s, m)
        zero == Range3(0, 0, 0)
        sp == [value |-> zero, range |-> [b \in Buttons |-> <<0, 0>>],
               before_value |-> 0, GRIP |-> s.dialog # "new"]
        InRange(x, b) == set_range(m, x, b, ranges[b])
        Set(x, b) ==
            LET y == IF s.dialog = "new" THEN x ELSE InRange(x, b)
            IN  set_value(m, y, b, Width * (
                    IF s.dialog # "new" THEN values[b]
                    ELSE CASE b = "after" -> 0
                           [] b = "size" -> Ceiling(m.max)
                           [] b = "before" -> m.minSpace))
        filled == IF s.dialog = "new"
                  THEN FoldLeft(Set, RangesSet(s, m, sp), <<"after", "size", "before">>)
                  ELSE FoldLeft(Set, sp, <<"before", "size", "after">>)
    IN  [filled EXCEPT !.GRIP = FALSE]

-----------------------------------------------------------------------------
(* The frame                                                               *)

ToPixels(m, mb) == Rounded(mb * Width, m.totalMB)
LengthToPixels(m, sectors) == Rounded(sectors * Width, m.total)

\* set_x_start() and set_x_end() of the handler of the spin buttons
Follows(m, f, values) ==
    [f EXCEPT !.start = IF m.fixed THEN @ ELSE Rounded(values.before, m.totalMB),
              !.end = Width - Rounded(values.after, m.totalMB)]

\* The frame as set_data() leaves it, or for "new" as the spin buttons moved it
OpenedFrame(s, m, values) ==
    LET start == IF s.dialog = "resize" THEN LengthToPixels(m, m.previous)
                                        ELSE ToPixels(m, m.minSpace)
        end == IF s.dialog = "resize" THEN LengthToPixels(m, m.length) + start
               ELSE Min({Width, ToPixels(m, m.minSpace + Ceiling(SectorLength(s.copied)))})
        f == [start |-> start, end |-> end, held |-> "none", from |-> 0]
    IN  IF s.dialog = "new" THEN Follows(m, f, values) ELSE f

min_size(m) == Rounded(m.min * Width, m.totalMB * MiB)
max_size(m) == Rounded(m.max * Width, m.totalMB * MiB)

\* A drag ends with the edges start and end and a signal with those, or others
Dragged(f, start, end, signal) == [frame |-> [f EXCEPT !.start = start, !.end = end],
                                   signal |-> signal]
Still(f) == Dragged(f, f.start, f.end, <<>>)

\* Frame_Resizer_Base::drawingarea_on_mouse_motion() with the left grip at x
LeftTo(m, f, x) ==
    LET first == ToPixels(m, m.minSpace)
        widest == Max({f.end - max_size(m), first})
        narrowest == f.end - min_size(m)
    IN  CASE x > first /\ f.end - x < max_size(m) /\ f.end - x > min_size(m) ->
                Dragged(f, x, f.end, <<x, f.end>>)
          [] f.end - x >= max_size(m) ->
                IF f.end - f.start < max_size(m)
                THEN Dragged(f, widest, f.end, <<widest - 1, f.end>>) ELSE Still(f)
          [] x <= first /\ f.end - x < max_size(m) ->
                IF f.start > first /\ f.end - f.start < max_size(m)
                THEN Dragged(f, first, f.end, <<first, f.end>>) ELSE Still(f)
          [] OTHER ->
                IF f.end - f.start > min_size(m)
                THEN Dragged(f, narrowest, f.end, <<narrowest + 1, f.end>>) ELSE Still(f)

\* ... with the right grip
RightTo(m, f, x) ==
    LET widest == Min({f.start + max_size(m), Width})
        narrowest == f.start + min_size(m)
    IN  CASE x < Width /\ x - f.start < max_size(m) /\ x - f.start > min_size(m) ->
                Dragged(f, f.start, x, <<f.start, x>>)
          [] x - f.start >= max_size(m) ->
                IF f.end - f.start < max_size(m)
                THEN Dragged(f, f.start, widest, <<f.start, widest + 1>>) ELSE Still(f)
          [] x >= Width /\ x - f.start < max_size(m) ->
                IF f.end < Width /\ f.end - f.start < max_size(m)
                THEN Dragged(f, f.start, Width, <<f.start, Width>>) ELSE Still(f)
          [] OTHER ->
                IF f.end - f.start > min_size(m)
                THEN Dragged(f, f.start, narrowest, <<f.start, narrowest - 1>>) ELSE Still(f)

\* ... moving the whole
MovedBy(m, f, x) ==
    LET first == ToPixels(m, m.minSpace)
        start == f.start + x - f.from
        length == f.end - f.start
        to == CASE start > first /\ start + length < Width -> start
                [] start <= first -> IF f.start > first THEN first ELSE f.start
                [] OTHER -> IF f.end < Width THEN Width - length ELSE f.start
    IN  Dragged([f EXCEPT !.from = x], to, to + length, <<to, to + length>>)

\* Frame_Resizer_Extended: the logicals inside stop the edges
UsedStart(m) == Max({0, LengthToPixels(m, m.first - m.start)})
UsedEnd(m) == UsedStart(m) + LengthToPixels(m, m.used)
IsUsed(m) == LengthToPixels(m, m.used) # 0

ExtendedLeftTo(m, f, x) ==
    LET first == ToPixels(m, m.minSpace)
        narrowest == f.end - 2 * Border
    IN  CASE x > first /\ x < narrowest /\ (IsUsed(m) => x < UsedStart(m)) ->
                Dragged(f, x, f.end, <<x, f.end>>)
          [] x <= first ->
                IF f.start > first THEN Dragged(f, first, f.end, <<first, f.end>>) ELSE Still(f)
          [] x > first /\ IsUsed(m) /\ x >= UsedStart(m) ->
                IF f.start < UsedStart(m)
                THEN Dragged(f, UsedStart(m), f.end, <<UsedStart(m) + 1, f.end>>) ELSE Still(f)
          [] x > first /\ ~IsUsed(m) /\ x >= narrowest ->
                IF f.start < f.end
                THEN Dragged(f, narrowest, f.end, <<narrowest, f.end>>) ELSE Still(f)
          [] OTHER -> Still(f)

ExtendedRightTo(m, f, x) ==
    LET narrowest == f.start + 2 * Border
    IN  CASE x < Width /\ x > narrowest /\ (IsUsed(m) => x > UsedEnd(m)) ->
                Dragged(f, f.start, x, <<f.start, x>>)
          [] x >= Width ->
                IF f.end < Width THEN Dragged(f, f.start, Width, <<f.start, Width>>) ELSE Still(f)
          [] x < Width /\ IsUsed(m) /\ x <= UsedEnd(m) ->
                IF f.end > UsedEnd(m)
                THEN Dragged(f, f.start, UsedEnd(m), <<f.start, UsedEnd(m) - 1>>) ELSE Still(f)
          [] x < Width /\ ~IsUsed(m) /\ x <= narrowest ->
                IF f.end > narrowest
                THEN Dragged(f, f.start, narrowest, <<f.start, narrowest>>) ELSE Still(f)
          [] OTHER -> Still(f)

\* on_signal_move(): GRIP silences the spin buttons
on_signal_move(m, sp, start, end) ==
    LET total == m.totalMB * Width
        moved == set_value(m, [sp EXCEPT !.GRIP = TRUE], "before", start * m.totalMB)
        set == IF end = Width
               THEN set_value(m, set_value(m, moved, "after", 0), "before",
                              total - moved.value.size)
               ELSE set_value(m, moved, "after", total - moved.value.before - moved.value.size)
    IN  [set EXCEPT !.GRIP = FALSE]

\* on_signal_resize()
on_signal_resize(m, sp, start, end, side) ==
    LET total == m.totalMB * Width
        sized == set_value(m, [sp EXCEPT !.GRIP = TRUE], "size", (end - start) * m.totalMB)
        before == IF m.fixed THEN m.minSpace * Width ELSE sized.value.before
        set == CASE side = "right" /\ end = Width ->
                       set_value(m, set_value(m, sized, "after", 0), "size", total - before)
                 [] side = "right" /\ end # Width ->
                       set_value(m, sized, "after", total - before - sized.value.size)
                 [] side = "left" ->
                       set_value(m, sized, "before",
                                 total - sized.value.size - sized.value.after)
    IN  [set EXCEPT !.GRIP = FALSE, !.before_value = before]

-----------------------------------------------------------------------------
(* Back to sectors, at the OK button                                       *)

\* snap_to_cylinder(): each boundary goes to the nearer cylinder
snap_to_cylinder(s, p) ==
    LET small == p.end - p.start < Cylinder \div 2
        offset == IF p.type = "LOGICAL" \/ p.start = Track THEN Track
                  ELSE IF p.start = GptSectors THEN GptSectors ELSE 0
        ahead == (p.start - offset) % Cylinder
        behind == (p.end + 1) % Cylinder
    IN  [p EXCEPT
            !.start = IF ahead = 0 \/ p.strict_start THEN @
                      ELSE IF ahead < Cylinder \div 2 \/ small THEN @ - ahead
                      ELSE @ + Cylinder - ahead,
            !.end = IF behind = 0 THEN @
                    ELSE IF behind < Cylinder \div 2 /\ ~small THEN @ - behind
                    ELSE @ + Cylinder - behind]

\* The logical partitions of the device
DeviceLogicals(s) ==
    LET e == find_extended_partition(s.device)
    IN  IF e = 0 THEN <<>> ELSE Logicals(s.device[e])

\* snap_to_mebibyte(), the start: up to a mebibyte, unless it is to stay, but
\* in front of a first logical which would lose its boot record
SnappedStart(s, p) ==
    LET kept == IF (p.start < 2 \/ p.type = "LOGICAL") /\ ~p.strict_start
                   /\ p.free_space_before = 0
                THEN p.start + 2 ELSE p.start
        moves == kept % MiB # 0 /\ (~p.strict_start \/ p.status \in {"NEW", "COPY"})
        ForRecord(start, q) == IF q.start - start < 2 THEN start - MiB ELSE start
        up == kept + MiB - (kept % MiB)
    IN  IF ~moves THEN kept
        ELSE IF p.type = "EXTENDED" THEN FoldLeft(ForRecord, up, DeviceLogicals(s)) ELSE up

\* Mutant: an extended partition may end in front of its last logical
SnappedEnd_NoOwn(s, p) == p.end - ((p.end + 1) % MiB)

\* ... the end of p, whose start is snapped: down to a mebibyte, and down again
\* in front of another's boot record, at the end of the extended partition, in
\* front of another primary and in front of the backup of a GPT
SnappedEnd(s, p) ==
    LET Less(end, test) == IF test THEN end - MiB ELSE end
        e == find_extended_partition(s.device)
        down == p.end - ((p.end + 1) % MiB)
        ForRecord(end, q) == Less(end, q.start > end /\ q.start - end < 2)
        logical == FoldLeft(ForRecord, down, DeviceLogicals(s))
        ForPrimary(end, q) ==
            Less(end, /\ q.type \in {"PRIMARY", "EXTENDED"}
                      /\ p.status = "REAL" /\ p.num # q.num
                      /\ q.start > p.start /\ q.start <= end)
        primary == FoldLeft(ForPrimary, down, s.device)
        own == FoldLeft(LAMBDA end, q : Max({end, q.end}), primary, Logicals(p))
        end == CASE p.type = "LOGICAL" -> Less(logical, e # 0 /\ logical > s.device[e].end)
                 [] p.type = "EXTENDED" -> own
                 [] OTHER -> primary
    IN  Less(end, s.gpt /\ s.sectors - end < GptSectors)

snap_to_mebibyte(s, p) ==
    LET started == [p EXCEPT !.start = SnappedStart(s, p)]
    IN  [started EXCEPT !.end = SnappedEnd(s, started)]

snap_to_alignment(s, p, alignment) ==
    CASE alignment = "cylinder" -> snap_to_cylinder(s, p)
      [] alignment = "mebibyte" -> snap_to_mebibyte(s, p)
      [] alignment = "strict" -> p

\* Mutant: grown over a whole mebibyte, too
Fitted_OffByOne(m, start, end) ==
    LET last == m.start + m.total - 1
        s == Max({start, m.start})
        e == Min({end, last})
    IN  [start |-> IF s - m.start <= MiB THEN m.start ELSE s,
         end |-> IF last - e <= MiB THEN last ELSE e]

\* Clamped to the space there is, and grown over less than a mebibyte of it
Fitted(m, start, end) ==
    LET last == m.start + m.total - 1
        s == Max({start, m.start})
        e == Min({end, last})
    IN  [start |-> IF s - m.start < MiB THEN m.start ELSE s,
         end |-> IF last - e < MiB THEN last ELSE e]

\* prepare_new_partition(): a mebibyte is added for what the snapping takes
prepare_new_partition(s, m, shown, alignment) ==
    LET old == IF s.dialog = "resize" THEN s.part
               ELSE [s.copied EXCEPT !.inside = s.part.inside,
                                     !.type = IF s.part.inside THEN "LOGICAL" ELSE "PRIMARY"]
        start == IF shown.before = orig.before THEN old.start
                 ELSE m.start + shown.before * MiB
        end == IF shown.after = orig.after THEN old.end ELSE start + shown.size * MiB - 1
        fitted == Fitted(m, start, end)
        adds == /\ alignment = "mebibyte"
                /\ fitted.start % MiB # 0 \/ (fitted.end + 1) % MiB # 0
                /\ fitted.end - fitted.start + 1 + MiB < m.total
    IN  snap_to_alignment(s,
            [start |-> fitted.start, end |-> IF adds THEN fitted.end + MiB ELSE fitted.end,
             type |-> old.type, status |-> old.status, num |-> old.num,
             logicals |-> old.logicals, inside |-> old.inside,
             free_space_before |-> shown.before * MiB,
             strict_start |-> shown.before = orig.before], alignment)

\* Dialog_Partition_New::get_new_partition()
get_new_partition(s, m, shown, alignment) ==
    LET start == m.start + shown.before * MiB
        fitted == Fitted(m, start, start + shown.size * MiB - 1)
        more == MiB - ((fitted.end + 1) % MiB)
        adds == /\ alignment = "mebibyte" /\ fitted.start % MiB # 0
                /\ fitted.end - m.start + 1 + more < m.total
        end == IF adds THEN fitted.end + more ELSE fitted.end
    IN  snap_to_alignment(s,
            [start |-> fitted.start, end |-> end, type |-> chosen.type, status |-> "NEW", num |-> 0,
             logicals |-> IF chosen.type = "EXTENDED" THEN <<Unallocated(fitted.start, end, TRUE)>>
                          ELSE <<>>,
             inside |-> s.part.inside, free_space_before |-> shown.before * MiB,
             strict_start |-> FALSE], alignment)

\* GParted_Core::valid_partition()
valid_partition(s, p) ==
    /\ p.start >= 0 /\ p.end < s.sectors
    /\ SectorLength(p) > 0
    /\ s.dialog # "new" => SectorLength(p) >= s.used

-----------------------------------------------------------------------------
(* What the user does                                                      *)

Edits == result = NoResult /\ edits < MaxEdits /\ edits' = edits + 1

\* A number is typed into a spin button
Types(button, mb) ==
    /\ Edits /\ frame.held = "none"
    /\ members.fixed => button # "before"
    /\ spin' = set_value(members, spin, button, mb * Width)
    /\ frame' = IF spin'.value = spin.value THEN frame
                ELSE Follows(members, frame, spin'.value)
    /\ UNCHANGED <<situation, members, chosen, orig, result>>

\* drawingarea_on_button_press_event()
Presses(grip) ==
    /\ result = NoResult /\ frame.held = "none"
    /\ situation.dialog = "new" => members.totalMB >= 2
    /\ members.fixed => grip = "right"
    /\ IsExtended(situation) => grip # "move"
    /\ \E x \in frame.start .. frame.end :
        frame' = [frame EXCEPT !.held = grip, !.from = IF grip = "move" THEN x ELSE 0]
    /\ UNCHANGED <<situation, members, spin, chosen, orig, edits, result>>

Motion(x) ==
    CASE frame.held = "move" -> MovedBy(members, frame, x)
      [] frame.held = "left" /\ IsExtended(situation) -> ExtendedLeftTo(members, frame, x)
      [] frame.held = "left" -> LeftTo(members, frame, x)
      [] frame.held = "right" /\ IsExtended(situation) -> ExtendedRightTo(members, frame, x)
      [] frame.held = "right" -> RightTo(members, frame, x)

\* drawingarea_on_mouse_motion()
Drags(x) ==
    /\ Edits /\ frame.held # "none"
    /\ LET motion == Motion(x)
       IN  /\ frame' = motion.frame
           /\ spin' = CASE motion.signal = <<>> -> spin
                        [] frame.held = "move" ->
                              on_signal_move(members, spin, motion.signal[1], motion.signal[2])
                        [] OTHER -> on_signal_resize(members, spin, motion.signal[1],
                                                     motion.signal[2], frame.held)
    /\ UNCHANGED <<situation, members, chosen, orig, result>>

\* drawingarea_on_button_release_event()
Releases ==
    /\ frame.held # "none"
    /\ frame' = [frame EXCEPT !.held = "none", !.from = 0]
    /\ UNCHANGED <<situation, members, spin, chosen, orig, edits, result>>

\* combobox_changed(): a file system brings its limits, and the ranges of the
\* buttons push their values
Takes(choice) ==
    /\ Edits /\ frame.held = "none" /\ situation.dialog = "new"
    /\ choice # chosen /\ chosen' = choice
    /\ members' = New(situation, choice.row)
    /\ spin' = IF choice.row = chosen.row THEN spin ELSE RangesSet(situation, members', spin)
    /\ frame' = IF spin'.value = spin.value THEN frame
                ELSE Follows(members', frame, spin'.value)
    /\ UNCHANGED <<situation, orig, result>>

ChoosesType(type) == type \in TypesOffered(situation) /\ Takes(TypeChosen(situation, type, chosen.row))

ChoosesFilesystem(row) ==
    /\ chosen.type # "EXTENDED" /\ Sensitive(situation, row)
    /\ Takes([chosen EXCEPT !.row = row])

\* OK, and Win_GParted::add_operation().  A resize must have changed something.
Confirms(alignment) ==
    LET shown == Shown(spin.value)
        p == IF situation.dialog = "new"
             THEN get_new_partition(situation, members, shown, alignment)
             ELSE prepare_new_partition(situation, members, shown, alignment)
    IN  /\ result = NoResult /\ frame.held = "none"
        /\ situation.dialog = "resize" => shown # orig
        /\ result' = [accepted |-> valid_partition(situation, p), part |-> p,
                      shown |-> shown, alignment |-> alignment, kind |-> KindOf(situation, chosen.row)]
        /\ UNCHANGED <<situation, members, spin, chosen, orig, frame, edits>>

Init ==
    /\ situation \in Situations
    /\ chosen = FirstChoice(situation)
    /\ members = set_data(situation, chosen.row)
    /\ spin = Opened(situation, members)
    /\ orig = IF situation.dialog = "resize" THEN Shown(spin.value)
              ELSE Range3(-1, -1, -1)
    /\ frame = OpenedFrame(situation, members, spin.value)
    /\ edits = 0 /\ result = NoResult

Next ==
    \/ \E button \in Buttons, mb \in 0 .. members.totalMB : Types(button, mb)
    \/ \E grip \in {"left", "right", "move"} : Presses(grip)
    \/ \E x \in -1 .. Width + 1 : Drags(x)
    \/ Releases
    \/ \E type \in {"PRIMARY", "LOGICAL", "EXTENDED"} : ChoosesType(type)
    \/ \E row \in DOMAIN situation.kinds : ChoosesFilesystem(row)
    \/ \E alignment \in {"cylinder", "mebibyte", "strict"} : Confirms(alignment)

Spec == Init /\ [][Next]_vars

-----------------------------------------------------------------------------
(* Properties                                                              *)

OnMebibytes == \A q \in Elements(situation.device) :
    q.type # "UNALLOCATED" => q.start % MiB = 0 /\ (q.end + 1) % MiB = 0

\* What was accepted, but for alignment to cylinders on a disk which is not, and
\* for gaps below a mebibyte between logical partitions (both in the README)
Accepted ==
    /\ result # NoResult /\ result.accepted /\ result.alignment # "cylinder"
    /\ OnMebibytes \/ find_extended_partition(situation.device) = 0

\* The three values shown add up.  They do not when a drag leaves two of them
\* half-way between mebibytes, both being rounded up, nor when one is clamped.
AddUp == result.shown.before + result.shown.size + result.shown.after = members.totalMB

\* The other partitions beside which the accepted one will be
Neighbours ==
    {q \in ToSet(VectorOf(situation)) :
        q.type # "UNALLOCATED" /\ ~(situation.dialog = "resize" /\ SamePartition(q, situation.part))}

\* Sectors for the boot record of the later of two logical partitions
Record(p) == IF p.inside /\ result.alignment = "mebibyte" THEN 1 ELSE 0

\* Alignment to mebibytes looks for a partition that follows only when the aligned
\* one is on the disk, and passes over one with the same number: on a disk which
\* is not aligned a pending partition which is resized, and a pasted one, which
\* still has its source's number, can reach into the next one's first mebibyte (README)
Overlooked(q) ==
    /\ result.alignment = "mebibyte" /\ ~OnMebibytes
    /\ \/ situation.dialog = "resize" /\ situation.part.status # "REAL"
       \/ situation.dialog = "paste" /\ q.num = situation.copied.num

Clear(p) ==
    /\ 0 <= p.start /\ p.end < situation.sectors
    /\ \A q \in Neighbours :
           \/ q.end + Record(p) < p.start \/ p.end + Record(p) < q.start
           \/ Overlooked(q) /\ p.start <= q.start /\ p.end < q.start + MiB
    /\ situation.gpt /\ result.alignment = "mebibyte" /\ OnMebibytes =>
           situation.sectors - p.end >= GptSectors

\* What the logicals of an extended partition take is counted a sector short
\* (used = last - first).  Where the disk ends half a mebibyte less a sector past a
\* whole one, that rounds to a mebibyte more behind the last logical than there is:
\* entered, the end of the extended partition is before the logical's.
GivenAway ==
    /\ IsExtended(situation) /\ members.first # 0
    /\ result.shown.after >
           ToMiB(members.total + members.start - members.first - members.used - 1)

\* The accepted partition lies on the disk and leaves its neighbours, their boot
\* records and the backup of a GPT alone, whichever way its boundaries were
\* entered.  A logical partition is inside the extended one and behind its boot
\* record, and a resized extended partition still holds its logicals: aligned to
\* mebibytes always, as entered only when the values shown add up and none of the
\* logicals' sectors are given away by the sector the dialog does not count
InItsPlace ==
    Accepted =>
        /\ Clear(result.part)
        /\ result.part.inside =>
               LET e == situation.device[find_extended_partition(situation.device)]
               IN  e.start < result.part.start /\ result.part.end <= e.end
        /\ IsExtended(situation) /\ (result.alignment = "mebibyte" \/ (AddUp /\ ~GivenAway)) =>
               \A q \in ToSet(Logicals(situation.part)) :
                   result.part.start < q.start /\ q.end <= result.part.end

Missing == result.shown.size * MiB - SectorLength(result.part)
Larger == [result.part EXCEPT !.end = @ + Missing]

\* A logical which moves to right in front of the place it leaves: it is taken
\* for the logical partition that follows
BeforeItself ==
    /\ situation.dialog = "resize" /\ result.part.type = "LOGICAL"
    /\ situation.part.start = Larger.end + 1

\* Less than the last mebibyte of the disk would be left behind the partition
TakesTheRest ==
    /\ result.alignment = "strict" /\ result.part.end = situation.sectors - 1
    /\ -Missing = situation.sectors % MiB

\* On a disk aligned to mebibytes the partition is what the dialog showed, but
\* for a last mebibyte which a boot record or the backup of a GPT needs or which
\* the disk has only a part of, and for an extended partition whose end was entered
\* before that of its last logical
AsShown ==
    Accepted /\ OnMebibytes /\ AddUp /\ ~GivenAway =>
        /\ result.part.start = IF members.fixed THEN situation.part.start
                               ELSE members.start + result.shown.before * MiB
        /\ \/ Missing = 0
           \/ Missing \in 1 .. MiB /\ (BeforeItself \/ ~Clear(Larger))
           \/ TakesTheRest

\* Whatever was chosen before, what a new partition is created as and its file
\* system belong together and can be made: the extended partition has none, a
\* device whose table cannot be re-read gets nothing but unformatted partitions,
\* and the file system fits the free space and the size that is shown.
ChoiceHolds ==
    result # NoResult /\ situation.dialog = "new" =>
        /\ result.part.type \in TypesOffered(situation)
        /\ result.part.type = "EXTENDED" <=> result.kind.name = "extended"
        /\ result.part.type # "EXTENDED" /\ result.kind.name # "unformatted" =>
               ~situation.readonly /\ result.kind.create
        /\ result.kind.min <= SectorLength(situation.part)
        /\ result.kind.min <= result.shown.size * MiB \/ SectorLength(situation.part) < MiB
        /\ result.kind.max # 0 =>
               result.shown.size <= Max({Ceiling(result.kind.max), Ceiling(members.min)})
=============================================================================
