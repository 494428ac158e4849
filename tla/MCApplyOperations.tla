--------------------------- MODULE MCApplyOperations ---------------------------
(* Disks of DiskLength sectors on which ApplyOperations is checked *)
EXTENDS ApplyOperations, TLC

CONSTANTS First, Last       \* the sectors "own" may use

\* A source for copies on the left, and a partition on the right
MCNeighbours == "left" :> Place(First - 2, First - 1) @@ "right" :> Place(Last + 1, Last + 2)

OwnPlaces == {Place(a, b) : a \in First..Last, b \in First..Last}
             \cap {p \in [start : First..Last, end : First..Last] : p.start <= p.end}

FsAt(p, short) == [state |-> "good", start |-> p.start,
                   length |-> PlaceLength(p) - short, volume |-> PlaceLength(p)]
NothingAt == [state |-> "none", start |-> First, length |-> 1, volume |-> 1]

Operation(type, kind, old, new) == [type |-> type, kind |-> kind, old |-> old, new |-> new]
Scenario(own, content, ops) == [own |-> own, fs |-> content, queue |-> ops]

ResizeKinds == {"plain", "libparted", "swap", "ntfs", "closed", "open", "open_swap", "extended"}

\* What the dialog lets the user ask for: closed volumes are not shrunk, and what
\* is in use is not moved; nor is an extended partition checked here
MayResize(kind, old, new) ==
    /\ old # new
    /\ kind = "closed" => PlaceLength(new) >= PlaceLength(old)
    /\ kind \in {"open", "open_swap"} => new.start = old.start
    /\ kind = "extended" => Overlapping(old, new)

Contents(kind, p) == IF kind = "extended" THEN NothingAt ELSE FsAt(p, 0)

Resizes ==
    {Scenario(r[2], Contents(r[1], r[2]), <<Operation("RESIZE_MOVE", r[1], r[2], r[3])>>) :
        r \in {r \in ResizeKinds \X OwnPlaces \X OwnPlaces : MayResize(r[1], r[2], r[3])}}

\* A resize and an operation on the partition it makes
AfterResize ==
    {Scenario(r[1], FsAt(r[1], 0),
              <<Operation("RESIZE_MOVE", "plain", r[1], r[2]), Operation(r[3], "plain", r[2], r[2])>>) :
        r \in {r \in OwnPlaces \X OwnPlaces \X {"CHECK", "LABEL", "UUID", "NAME", "DELETE", "FORMAT"} :
                 MayResize("plain", r[1], r[2])}}

\* A creation or a copy, then a resize of what it makes
AfterCreation ==
    {Scenario(NoPlace, NothingAt,
              <<Operation("CREATE", r[1], r[2], r[2]), Operation("RESIZE_MOVE", r[1], r[2], r[3])>>) :
        r \in {r \in {"plain", "swap"} \X OwnPlaces \X OwnPlaces : MayResize(r[1], r[2], r[3])}}
    \cup
    {Scenario(NoPlace, NothingAt,
              <<Operation("COPY_NEW", r[1], MCNeighbours["left"], r[2]),
                Operation("RESIZE_MOVE", r[1], r[2], r[3])>>) :
        r \in {r \in {"plain", "ntfs"} \X OwnPlaces \X OwnPlaces :
                 MayResize(r[1], r[2], r[3]) /\ PlaceLength(r[2]) >= 2}}

Others ==
    {Scenario(NoPlace, NothingAt, <<Operation("CREATE", r[1], r[2], r[2])>>) :
        r \in {"extended", "unformatted", "cleared"} \X OwnPlaces}
    \cup {Scenario(p, FsAt(p, 0), <<Operation("FORMAT", "cleared", p, p)>>) : p \in OwnPlaces}
    \cup {Scenario(r[2], FsAt(r[2], r[3]), <<Operation("CHECK", r[1], r[2], r[2])>>) :
            r \in {r \in {"plain", "libparted", "open", "closed"} \X OwnPlaces \X {0, 1} :
                     PlaceLength(r[2]) > r[3]}}
    \cup {Scenario(r[2], FsAt(r[2], 0),
                   <<Operation("COPY_OVER", r[1], MCNeighbours["left"], r[2])>>) :
            r \in {r \in {"plain", "swap"} \X OwnPlaces : PlaceLength(r[2]) >= 2}}

\* What another operation has made is overwritten with another file system.
Overwritten ==
    {Scenario(p, FsAt(p, 0),
              <<Operation("CHECK", k[1], p, p), Operation(k[3], k[2],
                  IF k[3] = "FORMAT" THEN p ELSE MCNeighbours["left"], p)>>) :
        p \in {p \in OwnPlaces : PlaceLength(p) = 3},
        k \in {"swap", "closed"} \X {"plain"} \X {"FORMAT", "COPY_OVER"}}

\* Operations which were overtaken: the source has grown since the copy was queued,
\* or the partition on the right has not been moved away yet
IntoRight == {Place(a, Last + 1) : a \in First..Last}

Overtaken ==
    {Scenario(p, FsAt(p, 0),
              <<Operation("COPY_OVER", "plain", Place(First - 1, First - 1), p)>>) :
        p \in OwnPlaces}
    \cup {Scenario(r[1], FsAt(r[1], 0), <<Operation("RESIZE_MOVE", "plain", r[1], r[2])>>) :
            r \in OwnPlaces \X IntoRight}
    \cup {Scenario(NoPlace, NothingAt, <<Operation("CREATE", "plain", p, p)>>) :
            p \in IntoRight}

MCScenarios == Resizes \cup AfterResize \cup AfterCreation \cup Others \cup Overwritten \cup Overtaken
=============================================================================
