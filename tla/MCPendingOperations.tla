------------------------- MODULE MCPendingOperations -------------------------
(***************************************************************************)
(* Small disks for PendingOperations: 1 sector per mebibyte, so a boundary *)
(* is a mebibyte number.                                                   *)
(***************************************************************************)
EXTENDS PendingOperations

Disk(type, num, start, end, inside, busy, logicals) ==
    [type |-> type, status |-> "REAL", num |-> num, start |-> start,
     end |-> end, inside |-> inside,
     fs |-> IF type = "EXTENDED" THEN "extended" ELSE "ext4", label |-> "",
     busy |-> busy, id |-> num, logicals |-> logicals]

Primary(num, start, end) == Disk("PRIMARY", num, start, end, FALSE, FALSE, <<>>)
Logical(num, start, end, busy) == Disk("LOGICAL", num, start, end, TRUE, busy, <<>>)
Extended(num, start, end, logicals) ==
    Disk("EXTENDED", num, start, end, FALSE,
         \E l \in ToSet(logicals) : l.busy,
         insert_unallocated(logicals, start, end, TRUE))
Scanned(v) == insert_unallocated(v, 0, Length - 1, FALSE)

\* Two primaries with free space around the second
Primaries == {Scanned(<<Primary(1, 1, 2), Primary(2, 4, 5)>>)}

\* Three logicals, the last one mounted or not
Logicals == {Scanned(<<Extended(2, 1, 7, <<Logical(4, 2, 2, FALSE),
                                           Logical(5, 4, 4, FALSE),
                                           Logical(6, 6, 6, b)>>)>>) :
             b \in BOOLEAN}

\* A primary in front of an extended partition with one logical
Mixed == {Scanned(<<Primary(1, 1, 1),
                    Extended(2, 2, 7, <<Logical(4, 3, 3, FALSE)>>)>>)}

Session(layouts, actions, fileSystems, maxOps, maxNew) ==
    [layouts |-> layouts, actions |-> actions, fileSystems |-> fileSystems,
     maxOps |-> maxOps, maxNew |-> maxNew]

\* Boundaries of primaries and the clipboard
MovingPrimaries ==
    Session(Primaries, {"New", "Delete", "Undo", "ResizeMove", "Copy", "Paste", "Apply"},
            {"ext4"}, 3, 2)

\* Attributes, and mounts between the edits
EditingAttributes ==
    Session(Primaries, {"New", "Delete", "Undo", "Format", "Label", "Check",
                        "ToggleBusy", "Apply"}, {"ext4", "ntfs"}, 3, 2)

\* Logicals, which are renumbered, and the extended partition around them
EditingLogicals ==
    Session(Logicals \union Mixed, {"New", "Delete", "Undo", "ResizeMove", "Label"},
            {"ext4"}, 2, 2)

\* Mounts between copying and pasting
MountingSources ==
    Session(Primaries, {"Copy", "Paste", "Undo", "Label", "ToggleBusy"}, {"ext4"}, 3, 1)

\* Logicals, of which deletions renumber the ones that are mounted, copied,
\* pasted and labelled meanwhile
Renumbering ==
    Session(Logicals \union Mixed, {"New", "Delete", "Undo", "Label", "Copy", "Paste",
                                   "ToggleBusy"}, {"ext4"}, 2, 1)

\* The same with queues of three
RenumberingTwice ==
    Session(Logicals, {"Delete", "Undo", "Copy", "Paste", "ToggleBusy"}, {"ext4"}, 3, 1)

AllSessions == {MovingPrimaries, EditingAttributes, EditingLogicals,
                MountingSources, Renumbering, RenumberingTwice}

ResizingPrimaries == {Session(Primaries, {"Delete", "ResizeMove"}, {"ext4"}, 3, 1)}

\* Only queues in which no resize overtook another operation are explored
InOrder == ~overtaken
=============================================================================
