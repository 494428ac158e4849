--------------------------- MODULE MCMoveFilesystem ---------------------------
(***************************************************************************)
(* A small disk for MoveFilesystem: every move of a file system of up to   *)
(* MaxLength sectors, to the left and to the right, overlapping or not,    *)
(* with small benchmarks which double their block once, and with a block   *)
(* of which the partial one can be longer than the distance of the move.   *)
(***************************************************************************)
EXTENDS MoveFilesystem

CONSTANT MaxLength

Benchmarks == {<<2, 1>>, <<3, 3>>}

AllMoves ==
    {[src |-> src, dst |-> dst, length |-> length, chunk |-> b[1], block |-> b[2]] :
        <<src, dst, length, b>> \in
            {m \in Sectors \X Sectors \X (1 .. MaxLength) \X Benchmarks :
                /\ m[1] # m[2]
                /\ m[1] + m[3] <= DeviceLength
                /\ m[2] + m[3] <= DeviceLength}}
=============================================================================
