--------------------------- MODULE MCBoundaryDialog ---------------------------
EXTENDS BoundaryDialog

Disk(type, num, start, end, inside, logicals) ==
    [type |-> type, status |-> "REAL", num |-> num, start |-> start,
     end |-> end, inside |-> inside, fs |-> "", label |-> "", busy |-> FALSE, id |-> num,
     logicals |-> logicals]

Primary(num, start, end) == Disk("PRIMARY", num, start, end, FALSE, <<>>)
Logical(num, start, end) == Disk("LOGICAL", num, start, end, TRUE, <<>>)
Extended(num, start, end, logicals) ==
    Disk("EXTENDED", num, start, end, FALSE, insert_unallocated(logicals, start, end, TRUE))
\* Created by a queued operation
Pending(p) == [p EXCEPT !.status = "NEW"]
Scanned(v, sectors) == insert_unallocated(v, 0, sectors - 1, FALSE)

\* The disk ends on a mebibyte, halfway to the next, or a sector less than halfway
Sizes == {Length, Length + 1, Length + 2}

\* Four layouts on mebibytes, and three of primaries off them
Aligned == {
    <<Primary(1, 4, 11), Primary(2, 24, 31)>>,
    <<Extended(1, 4, 39, <<Logical(5, 8, 11), Logical(6, 28, 35)>>)>>,
    <<Primary(1, 4, 7), Extended(2, 12, 35, <<Logical(5, 20, 23)>>)>>,
    <<Primary(1, 4, 7), Extended(2, 8, 39, <<Logical(5, 12, 15), Pending(Logical(6, 24, 27))>>)>>}

Shifted == {
    <<Primary(1, 2, 10), Primary(2, 25, 30)>>, <<Primary(1, 5, 9), Primary(2, 20, 36)>>,
    <<Pending(Primary(1, 8, 11)), Primary(2, 25, 36)>>}

FS(grow, shrink, move) ==
    [xfs |-> FALSE, grow |-> grow, shrink |-> shrink, move |-> move, online_shrink |-> FALSE]

Can == {FS(TRUE, TRUE, TRUE), FS(FALSE, FALSE, TRUE), FS(TRUE, FALSE, FALSE)}

Xfs == [FS(TRUE, FALSE, TRUE) EXCEPT !.xfs = TRUE]

\* From another device, where it has the number of one of the neighbours
Copied == Primary(2, 4, 11)
Used == 3

Situation(dialog, disk, part, fs, used, unused) ==
    [dialog |-> dialog, gpt |-> disk.gpt, sectors |-> disk.sectors, device |-> disk.device,
     part |-> part, copied |-> Copied, kinds |-> <<>>, readonly |-> FALSE, fs |-> fs,
     min |-> 0, max |-> 0, used |-> used, unused |-> unused]

Of(d, unallocated) == {q \in Elements(d) : (q.type = "UNALLOCATED") = unallocated}

Resizing(d) ==
    {IF p.type = "EXTENDED" \/ p.status = "NEW" THEN Situation("resize", d, p, fs, -1, -1)
     ELSE Situation("resize", d, p, fs, 3, SectorLength(p) - 3) :
        p \in Of(d.device, FALSE), fs \in Can}

\* A file system with limits, one which is not installed, and the default
Kind(name, create, min, max) == [name |-> name, create |-> create, min |-> min, max |-> max]
Kinds == {
    <<Kind("ext2", TRUE, 0, 0), Kind("fat16", TRUE, 6, 10), Kind("ext4", FALSE, 0, 0),
      Kind("unformatted", TRUE, 0, 0)>>,
    <<Kind("fat16", TRUE, 9, 14), Kind("unformatted", TRUE, 0, 0)>>}

Creating(d) ==
    {[Situation("new", d, p, FS(FALSE, FALSE, FALSE), -1, -1) EXCEPT !.kinds = kinds,
        !.readonly = readonly] : p \in Of(d.device, TRUE), kinds \in Kinds, readonly \in BOOLEAN}

\* set_valid_operations() offers Paste when the copied partition fits, an XFS when
\* its data does
Needed(test) == IF test THEN MiB ELSE 0
Fits(d, p, fs) ==
    (IF fs.xfs THEN Used ELSE SectorLength(Copied)) + Needed(p.inside \/ p.start < MiB)
    + Needed(p.inside /\ p.end < d.sectors - 2 * MiB)
    + Needed(d.gpt /\ d.sectors - p.end < MiB) <= SectorLength(p)

Pasting(d) ==
    UNION {{Situation("paste", d, p, fs, Used, SectorLength(Copied) - Used) :
                p \in {q \in Of(d.device, TRUE) : Fits(d, q, fs)}} : fs \in Can \union {Xfs}}

\* A GPT has no extended partition
Disks ==
    {d \in {[gpt |-> gpt, sectors |-> sectors, device |-> Scanned(v, sectors)] :
                gpt \in BOOLEAN, sectors \in Sizes, v \in Aligned \union Shifted} :
        d.gpt => find_extended_partition(d.device) = 0}

MCSituations == UNION {Resizing(d) \union Creating(d) \union Pasting(d) : d \in Disks}
=============================================================================
