--------------------------- MODULE PartitionLayout ---------------------------
(***************************************************************************)
(* The partition vectors GParted draws, and how every Operation class      *)
(* replays itself on them (Operation*::apply_to_visual) and absorbs a      *)
(* later operation (Operation*::merge_operations).                         *)
(*                                                                         *)
(* A partition is a record                                                 *)
(*   type      PRIMARY, LOGICAL, EXTENDED or UNALLOCATED                   *)
(*   status    REAL (on the disk), NEW (queued create), COPY (queued paste)*)
(*   num       partition_number, -1 for unallocated space                  *)
(*   start,end first and last sector                                       *)
(*   inside    inside_extended                                             *)
(*   fs, label the file system and the attribute a user may set            *)
(*   busy      mounted, swapped on, or (extended) holding a busy logical   *)
(*   id        number the partition had when the disk was scanned, 0 for a *)
(*             partition which is not on the disk.  No such field exists in *)
(*             the program: it records which partition is really meant.    *)
(*   logicals  vector of the partitions inside an extended partition       *)
(***************************************************************************)
EXTENDS Integers, Sequences, SequencesExt, FiniteSets

CONSTANTS
    Length,     \* device.length, in sectors
    MiB         \* sectors per mebibyte, MEBIBYTE / sector_size

ASSUME LayoutAssumption == Length \in Nat \ {0} /\ MiB \in Nat \ {0}

(***************************************************************************)
(* Partition::get_path().  A path is spelled from the status and the       *)
(* number ("/dev/sda5", "New Partition #5", "Copy of /dev/sda5"), and      *)
(* Partition::Update_Number() rewrites the digits with the number.         *)
(***************************************************************************)
Path(p) == <<p.status, p.num>>

SectorLength(p) == p.end - p.start + 1

\* Partition::operator==, one device
SamePartition(p, q) ==
    p.num = q.num /\ p.start = q.start /\ p.type = q.type

Unallocated(start, end, inside) ==
    [type |-> "UNALLOCATED", status |-> "REAL", num |-> -1,
     start |-> start, end |-> end, inside |-> inside, fs |-> "unallocated",
     label |-> "", busy |-> FALSE, id |-> 0, logicals |-> <<>>]

(***************************************************************************)
(* GParted_Core::insert_unallocated().  Gaps of a mebibyte and more become *)
(* visible; the first mebibyte of the vector's range, and one mebibyte in  *)
(* front of a logical partition, are left for the boot record.             *)
(***************************************************************************)
insert_unallocated(v, start, end, inside) ==
    LET Hole(from, to) == <<Unallocated(from, to, inside)>>
        Gap(t) == v[t + 1].start - v[t].end - 1
        After(t) ==
            IF t = Len(v)
            THEN IF end - v[t].end >= MiB THEN Hole(v[t].end + 1, end) ELSE <<>>
            ELSE IF \/ Gap(t) > MiB
                    \/ Gap(t) = MiB /\ v[t + 1].type # "LOGICAL"
                 THEN Hole(v[t].end + 1, v[t + 1].start - 1)
                 ELSE <<>>
        Before == IF v[1].start - start > MiB
                  THEN Hole(start, v[1].start - 1) ELSE <<>>
    IN  IF v = <<>> THEN Hole(start, end)
        ELSE Before \o FlattenSeq([t \in DOMAIN v |-> <<v[t]>> \o After(t)])

find_extended_partition(v) == SelectInSeq(v, LAMBDA p : p.type = "EXTENDED")

\* Operation::find_index_original() and find_index_new(): the first partition
\* of the vector which encloses the sectors of p.
find_index(v, p) ==
    SelectInSeq(v, LAMBDA q : p.start >= q.start /\ p.end <= q.end)

\* MUTANT of RemoveAdjacentUnallocated: the type of the neighbours is not looked at
RemoveAdjacent_AnyType(v, i) ==
    LET w == IF i + 1 <= Len(v) THEN RemoveAt(v, i + 1) ELSE v
    IN  IF i > 1 THEN RemoveAt(w, i - 1) ELSE w

\* remove_adjacent_unallocated() of a resize, around index i
RemoveAdjacentUnallocated(v, i) ==
    LET w == IF i + 1 <= Len(v) /\ v[i + 1].type = "UNALLOCATED"
             THEN RemoveAt(v, i + 1) ELSE v
    IN  IF i > 1 /\ w[i - 1].type = "UNALLOCATED" THEN RemoveAt(w, i - 1) ELSE w

\* OperationDelete::remove_original_and_adjacent_unallocated()
RemoveOriginalAndAdjacentUnallocated(v, i) ==
    LET w == IF i + 1 <= Len(v) /\ v[i + 1].type = "UNALLOCATED"
             THEN RemoveAt(v, i + 1) ELSE v
    IN  IF i > 1 /\ w[i - 1].type = "UNALLOCATED"
        THEN RemoveAt(RemoveAt(w, i), i - 1)
        ELSE RemoveAt(w, i)

(***************************************************************************)
(* Every apply_to_visual() works on the vector the partition lives in: the *)
(* logicals of the extended partition, or the device's own vector.         *)
(* Edit(v, first, last, inside) is what it does there.                     *)
(***************************************************************************)
OnVector(ps, inside, Edit(_, _, _, _)) ==
    LET e == find_extended_partition(ps) IN
    IF ~inside THEN Edit(ps, 0, Length - 1, FALSE)
    ELSE IF e = 0 THEN ps
    ELSE [ps EXCEPT ![e].logicals =
                        Edit(ps[e].logicals, ps[e].start, ps[e].end, TRUE)]

\* Operation::insert_new()
insert_new(ps, new) ==
    OnVector(ps, new.inside, LAMBDA v, start, end, inside :
        LET i == find_index(v, new) IN
        IF i = 0 THEN v
        ELSE insert_unallocated(ReplaceAt(v, i, new), start, end, inside))

\* Operation::substitute_new()
substitute_new(ps, original, new) ==
    OnVector(ps, original.inside, LAMBDA v, start, end, inside :
        LET i == find_index(v, original) IN
        IF i = 0 THEN v ELSE ReplaceAt(v, i, new))

\* OperationDelete::apply_to_visual(): logicals numbered above a deleted real
\* logical move down by one.
ApplyDelete(ps, original) ==
    OnVector(ps, original.inside, LAMBDA v, start, end, inside :
        LET i == find_index(v, original)
            w == insert_unallocated(RemoveOriginalAndAdjacentUnallocated(v, i),
                                    start, end, inside)
        IN  IF i = 0 THEN v
            ELSE IF inside /\ original.status # "NEW"
            THEN [t \in DOMAIN w |-> IF w[t].num > original.num
                                     THEN [w[t] EXCEPT !.num = @ - 1]
                                     ELSE w[t]]
            ELSE w)

\* MUTANT of ApplyResizeNormal: the old unallocated neighbours stay
ApplyResizeNormal_KeepNeighbours(ps, original, new) ==
    OnVector(ps, original.inside, LAMBDA v, start, end, inside :
        LET i == find_index(v, original) IN
        IF i = 0 THEN v
        ELSE insert_unallocated(ReplaceAt(v, i, new), start, end, inside))

\* OperationResizeMove::apply_normal_to_visual()
ApplyResizeNormal(ps, original, new) ==
    OnVector(ps, original.inside, LAMBDA v, start, end, inside :
        LET i == find_index(v, original) IN
        IF i = 0 THEN v
        ELSE insert_unallocated(
                 RemoveAdjacentUnallocated(ReplaceAt(v, i, new), i),
                 start, end, inside))

\* OperationResizeMove::apply_extended_to_visual()
ApplyResizeExtended(ps, new) ==
    LET Outside(v) ==
            LET w == RemoveAdjacentUnallocated(v, find_extended_partition(v))
                e == find_extended_partition(w)
            IN  insert_unallocated(
                    [w EXCEPT ![e].start = new.start, ![e].end = new.end],
                    0, Length - 1, FALSE)
        TrimFront(v) == IF v # <<>> /\ Head(v).type = "UNALLOCATED"
                        THEN Tail(v) ELSE v
        TrimBack(v)  == IF v # <<>> /\ Last(v).type = "UNALLOCATED"
                        THEN Front(v) ELSE v
        Inside(v, start, end, inside) ==
            insert_unallocated(TrimBack(TrimFront(v)), start, end, inside)
    IN  IF find_extended_partition(ps) = 0 THEN ps
        ELSE OnVector(Outside(ps), TRUE, Inside)

(***************************************************************************)
(* A queued operation: [type, original, new, copied].  new is the clone of *)
(* original for CHECK; copied is the source partition of a COPY.           *)
(***************************************************************************)
apply_to_visual(ps, op) ==
    CASE op.type = "DELETE" -> ApplyDelete(ps, op.original)
      [] op.type = "CREATE" -> insert_new(ps, op.new)
      [] op.type = "CHECK"  -> ps
      [] op.type = "COPY"   ->
             IF op.original.type = "UNALLOCATED" THEN insert_new(ps, op.new)
             ELSE substitute_new(ps, op.original, op.new)
      [] op.type = "RESIZE_MOVE" ->
             IF op.original.type = "EXTENDED" THEN ApplyResizeExtended(ps, op.new)
             ELSE ApplyResizeNormal(ps, op.original, op.new)
      [] op.type \in {"FORMAT", "LABEL"} ->
             substitute_new(ps, op.original, op.new)

\* Win_GParted::Refresh_Visual(): the scanned layout with every pending
\* operation replayed in queue order
Replay(layout, ops) == FoldLeft(apply_to_visual, layout, ops)

\* Operation*::merge_operations(): may `first' absorb `candidate' ?
CanMerge(first, candidate) ==
    /\ first.type \notin {"DELETE", "COPY"}
    /\ \/ /\ first.type = "CREATE" /\ candidate.type \in {"FORMAT", "RESIZE_MOVE"}
          /\ candidate.original.status = "NEW"
       \/ first.type # "CREATE" /\ candidate.type = first.type
    /\ SamePartition(first.new, candidate.original)

\* MUTANT of Merge: the merged operation starts from the later picture
Merge_TakesOriginal(first, candidate) ==
    CASE first.type = "CHECK" -> first
      [] first.type = "LABEL" -> [first EXCEPT !.new.label = candidate.new.label]
      [] OTHER -> [first EXCEPT !.original = candidate.original, !.new = candidate.new]

Merge(first, candidate) ==
    CASE first.type = "CHECK" -> first
      [] first.type = "LABEL" -> [first EXCEPT !.new.label = candidate.new.label]
      [] OTHER -> [first EXCEPT !.new = candidate.new]

\* Every partition of a vector, the logicals included
Elements(ps) == ToSet(ps) \union UNION {ToSet(ps[i].logicals) : i \in DOMAIN ps}
=============================================================================
