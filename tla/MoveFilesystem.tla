---------------------------- MODULE MoveFilesystem ----------------------------
(***************************************************************************)
(* Moving a file system to an overlapping or a disjoint place on the same  *)
(* disk with GParted's own copier: GParted_Core::move_filesystem(), the    *)
(* chunks of copy_blocks(), the block loop of class CopyBlocks and         *)
(* rollback_move_filesystem().                                             *)
(*                                                                         *)
(* Lengths are in sectors.  A sector's contents are named by the sector    *)
(* which held them before the move, so disk[s] = s means untouched.        *)
(***************************************************************************)
EXTENDS Integers

CONSTANTS
    DeviceLength,   \* sectors of the device
    Moves           \* moves the user may ask for: old and new start, length, and
                    \* the sizes of the benchmarks in sectors of the device

Sectors == 0 .. DeviceLength - 1

ASSUME MoveAssumption ==
    /\ DeviceLength \in Nat
    /\ \A m \in Moves :
          /\ m \in [src : Nat, dst : Nat, length : Nat \ {0},
                    chunk : Nat \ {0}, block : Nat \ {0}]
          /\ m.src # m.dst
          /\ m.src + m.length <= DeviceLength /\ m.dst + m.length <= DeviceLength

VARIABLES
    disk,           \* contents of every sector
    fs,             \* the move: partition_old and partition_new
    job,            \* arguments of copy_blocks(): from, to, length, cancel_safe;
                    \* label names the contents at from, stale counts the sectors
                    \* where they never arrived; both are not in the code
    bench,          \* locals of copy_blocks(): done, blocksize and best
    cb,             \* the CopyBlocks object
    total_done,     \* sectors done by the chunks which have ended
    uncopied,       \* those of total_done which were not copied (history)
    cancelflag,     \* of the operation: 0, 1 cancelled, 2 forced
    pc,             \* select: copy_blocks() takes the next chunk
                    \* open: copy() starts copy_thread(), which opens the devices
                    \* copy: copy_thread() is in its loop
                    \* failed: the copy failed, move_filesystem() goes on
                    \* moved, unmoved, broken: ended, the last one after a
                    \* rollback which failed itself
    rolling,        \* the copy is the one of rollback_move_filesystem()
    faults          \* what went wrong: open (a device could not be opened),
                    \* skipped (a block could not be read), write (a write
                    \* failed), torn (it wrote part of the block)

vars == <<disk, fs, job, bench, cb, total_done, uncopied, cancelflag, pc,
          rolling, faults>>

----------------------------------------------------------------------------
\* The copy runs from the end to the start when moving to the right.
Backward == job.to > job.from

Job(from, to, length, label, stale, safe) ==
    [from |-> from, to |-> to, length |-> length, label |-> label,
     stale |-> stale, safe |-> safe]

\* benchmark_copysize and the first benchmark_blocksize: 16 MiB and 1 MiB
Chunk == fs.chunk
SmallestBlock == fs.block

\* locals of copy_blocks() on entry
NewBench == [done |-> 0, blocksize |-> SmallestBlock, best |-> SmallestBlock]

\* CopyBlocks::CopyBlocks() and copy() up to its thread: done is the size of the
\* partial block before any block has been copied.
NewCopyBlocks(src, dst, length, blocksize) ==
    LET size == IF blocksize > length THEN length ELSE blocksize IN
    [offset_src |-> src, offset_dst |-> dst, length |-> length,
     blocksize |-> size, done |-> length % size,
     cancel |-> cancelflag = 2 \/ (cancelflag = 1 /\ job.safe)]

\* MUTANT of Block: the partial block is copied even when there is none
Block_Rest == IF cb.done = 0 THEN cb.length % cb.blocksize ELSE cb.blocksize

\* The next block: the partial one comes first.
Block == LET rest == cb.length % cb.blocksize IN
         IF cb.done = 0 /\ rest # 0 THEN rest ELSE cb.blocksize

BlockSrc == IF Backward THEN cb.offset_src - Block ELSE cb.offset_src

\* MUTANT of BlockDst: a block is written behind its offset in both directions
BlockDst_Forward == cb.offset_dst

BlockDst == IF Backward THEN cb.offset_dst - Block ELSE cb.offset_dst

\* disk after n sectors of the block have been written
Written(n) ==
    [s \in Sectors |-> IF s \in BlockDst .. BlockDst + n - 1
                       THEN disk[BlockSrc + (s - BlockDst)] ELSE disk[s]]

\* offsets and done after the block
Advanced ==
    [cb EXCEPT !.offset_src = IF Backward THEN @ - Block ELSE @ + Block,
               !.offset_dst = IF Backward THEN @ - Block ELSE @ + Block,
               !.done = @ + Block]

----------------------------------------------------------------------------
Init ==
    /\ disk = [s \in Sectors |-> s]
    /\ fs \in Moves
    /\ job = Job(fs.src, fs.dst, fs.length, fs.src, 0, TRUE)
    /\ bench = NewBench
    /\ total_done = 0 /\ uncopied = 0
    /\ cancelflag = 0
    /\ cb = NewCopyBlocks(fs.src, fs.dst, 1, 1)
    /\ pc = "select"
    /\ rolling = FALSE
    /\ faults = {}

MoreBenchmarks ==
    bench.done + Chunk <= job.length /\ bench.blocksize <= Chunk

\* copy_blocks(): copy a chunk with the next larger block size and time it
BenchmarkChunk ==
    /\ pc = "select" /\ MoreBenchmarks
    /\ LET offset == IF Backward THEN job.length - Chunk - bench.done
                     ELSE bench.done
       IN  cb' = NewCopyBlocks(job.from + offset, job.to + offset,
                               Chunk, bench.blocksize)
    /\ pc' = "open"
    /\ UNCHANGED <<disk, fs, job, bench, total_done, uncopied, cancelflag,
                   rolling, faults>>

\* MUTANT of RemainingChunk: the benchmarked part is skipped in both directions
RemainingChunk_SkipsFront ==
    /\ pc = "select" /\ ~MoreBenchmarks /\ bench.done < job.length
    /\ cb' = NewCopyBlocks(job.from + bench.done, job.to + bench.done,
                           job.length - bench.done, bench.best)
    /\ pc' = "open"
    /\ UNCHANGED <<disk, fs, job, bench, total_done, uncopied, cancelflag,
                   rolling, faults>>

\* copy_blocks(): copy what is left with the fastest block size
RemainingChunk ==
    /\ pc = "select" /\ ~MoreBenchmarks /\ bench.done < job.length
    /\ LET offset == IF Backward THEN 0 ELSE bench.done
       IN  cb' = NewCopyBlocks(job.from + offset, job.to + offset,
                               job.length - bench.done, bench.best)
    /\ pc' = "open"
    /\ UNCHANGED <<disk, fs, job, bench, total_done, uncopied, cancelflag,
                   rolling, faults>>

\* copy_blocks() returns true
CopyEnds ==
    /\ pc = "select" /\ ~MoreBenchmarks /\ bench.done >= job.length
    /\ pc' = IF rolling THEN "unmoved" ELSE "moved"
    /\ UNCHANGED <<disk, fs, job, bench, cb, total_done, uncopied, cancelflag,
                   rolling, faults>>

----------------------------------------------------------------------------
(* CopyBlocks::copy_thread() and its ways to fail.                        *)

\* Both devices are open.  A copy to the right starts at the end of the chunk.
OpenDevices ==
    /\ pc = "open"
    /\ LET end == IF Backward THEN cb.length ELSE 0
       IN  cb' = [cb EXCEPT !.offset_src = @ + end, !.offset_dst = @ + end,
                            !.done = 0]
    /\ pc' = "copy"
    /\ UNCHANGED <<disk, fs, job, bench, total_done, uncopied, cancelflag, rolling,
                   faults>>

\* copy() ends with success = false and copy_blocks() returns false
Fail ==
    /\ total_done' = total_done + cb.done
    /\ pc' = IF rolling THEN "broken" ELSE "failed"
    /\ UNCHANGED <<fs, job, bench, cb, cancelflag, rolling>>

\* ped_device_open() fails: done still is the size of the partial block.
OpenFails ==
    /\ pc = "open"
    /\ Fail
    /\ uncopied' = cb.done
    /\ faults' = faults \union {"open"}
    /\ UNCHANGED disk

Copying == pc = "copy" /\ cb.done < cb.length

CopyBlock ==
    /\ Copying /\ ~cb.cancel
    /\ disk' = Written(Block)
    /\ cb' = Advanced
    /\ UNCHANGED <<fs, job, bench, total_done, uncopied, cancelflag, pc,
                   rolling, faults>>

\* ped_device_read() fails: success keeps its value, the block counts as done.
ReadFails ==
    /\ Copying /\ ~cb.cancel
    /\ cb' = Advanced
    /\ faults' = faults \union {"skipped"}
    /\ UNCHANGED <<disk, fs, job, bench, total_done, uncopied, cancelflag, pc,
                   rolling>>

\* ped_device_write() fails, some of the block may have been written
WriteFails ==
    /\ Copying /\ ~cb.cancel
    /\ \E n \in 0 .. Block :
          /\ disk' = Written(n)
          /\ faults' = faults \union (IF n = 0 THEN {"write"} ELSE {"write", "torn"})
    /\ Fail
    /\ UNCHANGED uncopied

CancelledBlock ==
    /\ Copying /\ cb.cancel
    /\ Fail
    /\ UNCHANGED <<disk, uncopied, faults>>

\* The loop of copy_thread() ends, copy() returns true.  A benchmark may or may
\* not turn out the fastest so far.
ChunkEnds ==
    /\ pc = "copy" /\ cb.done >= cb.length
    /\ total_done' = total_done + cb.done
    /\ \E best \in {bench.best, bench.blocksize} :
          bench' = [done |-> bench.done + cb.length,
                    blocksize |-> 2 * bench.blocksize, best |-> best]
    /\ pc' = "select"
    /\ UNCHANGED <<disk, fs, job, cb, uncopied, cancelflag, rolling, faults>>

----------------------------------------------------------------------------
Distance == IF fs.dst > fs.src THEN fs.dst - fs.src ELSE fs.src - fs.dst
Overlap == Distance < fs.length

\* rollback_move_filesystem(): only what the copy has overwritten in the old
\* place is copied back.
RollbackNeeded == Overlap /\ total_done > Distance

\* Sectors the rollback copies back although the move has not copied them:
\* total_done counts a partial block of devices which did not open.
NeverArrived == IF uncopied > Distance THEN uncopied - Distance ELSE 0

\* MUTANT of Rollback: the wrong end of the file system is copied back
Rollback_WrongEnd ==
    /\ pc = "failed" /\ RollbackNeeded
    /\ LET length == total_done - Distance
           back == IF fs.dst > fs.src THEN 0 ELSE fs.length - length
       IN  job' = Job(fs.dst + back, fs.src + back, length, fs.src + back,
                       NeverArrived, FALSE)
    /\ bench' = NewBench
    /\ total_done' = 0 /\ uncopied' = 0
    /\ rolling' = TRUE
    /\ pc' = "select"
    /\ UNCHANGED <<disk, fs, cb, cancelflag, faults>>

\* MUTANT of Rollback: the copy back may be cancelled like the move
Rollback_Cancellable ==
    /\ pc = "failed" /\ RollbackNeeded
    /\ LET length == total_done - Distance
           back == IF fs.dst > fs.src THEN fs.length - length ELSE 0
       IN  job' = Job(fs.dst + back, fs.src + back, length, fs.src + back,
                       NeverArrived, TRUE)
    /\ bench' = NewBench
    /\ total_done' = 0 /\ uncopied' = 0
    /\ rolling' = TRUE
    /\ pc' = "select"
    /\ UNCHANGED <<disk, fs, cb, cancelflag, faults>>

Rollback ==
    /\ pc = "failed" /\ RollbackNeeded
    /\ LET length == total_done - Distance
           back == IF fs.dst > fs.src THEN fs.length - length ELSE 0
       IN  job' = Job(fs.dst + back, fs.src + back, length, fs.src + back,
                       NeverArrived, FALSE)
    /\ bench' = NewBench
    /\ total_done' = 0 /\ uncopied' = 0
    /\ rolling' = TRUE
    /\ pc' = "select"
    /\ UNCHANGED <<disk, fs, cb, cancelflag, faults>>

NoRollback ==
    /\ pc = "failed" /\ ~RollbackNeeded
    /\ pc' = "unmoved"
    /\ UNCHANGED <<disk, fs, job, bench, cb, total_done, uncopied, cancelflag,
                   rolling, faults>>

\* The user cancels; pressing the button again, once it says so, forces.  Both
\* reach the CopyBlocks object through signal_cancel.
Cancel ==
    /\ pc \in {"select", "open", "copy", "failed"} /\ cancelflag < 2
    /\ cancelflag' = cancelflag + 1
    /\ cb' = [cb EXCEPT !.cancel = @ \/ cancelflag' = 2 \/ job.safe]
    /\ UNCHANGED <<disk, fs, job, bench, total_done, uncopied, pc, rolling, faults>>

Next ==
    \/ BenchmarkChunk \/ RemainingChunk \/ CopyEnds
    \/ OpenDevices \/ OpenFails
    \/ CopyBlock \/ ReadFails \/ WriteFails \/ CancelledBlock \/ ChunkEnds
    \/ Rollback \/ NoRollback
    \/ Cancel

Ended == pc \in {"moved", "unmoved", "broken"}

\* The copy thread and the main loop run on; nobody has to cancel and nothing
\* has to fail.
Progress ==
    \/ BenchmarkChunk \/ RemainingChunk \/ CopyEnds
    \/ OpenDevices \/ CopyBlock \/ CancelledBlock \/ ChunkEnds
    \/ Rollback \/ NoRollback

Spec == Init /\ [][Next]_vars
FairSpec == Spec /\ WF_vars(Progress)
----------------------------------------------------------------------------
(* Properties.                                                             *)

Offsets == 0 .. DeviceLength

TypeOK ==
    /\ disk \in [Sectors -> Sectors]
    /\ fs \in Moves
    /\ job \in [from : Nat, to : Nat, length : Nat, label : Nat,
               stale : Nat, safe : BOOLEAN]
    /\ bench \in [done : Nat, blocksize : Nat \ {0}, best : Nat \ {0}]
    /\ cb \in [offset_src : Int, offset_dst : Int, length : Nat \ {0},
               blocksize : Nat \ {0}, done : Nat, cancel : BOOLEAN]
    /\ total_done \in Nat /\ uncopied \in Nat
    /\ cancelflag \in 0 .. 2
    /\ pc \in {"select", "open", "copy", "failed", "moved", "unmoved", "broken"}
    /\ rolling \in BOOLEAN
    /\ faults \in SUBSET {"open", "skipped", "write", "torn"}

Lost == faults \intersect {"skipped", "torn"} # {}

InOldPlace(k) == disk[fs.src + k] = fs.src + k
InNewPlace(k) == disk[fs.dst + k] = fs.src + k

\* A move which is reported as done has brought every sector of the file system
\* to its new place, unless a block could not be read.
MovedIntact == pc = "moved" /\ ~Lost =>
    \A k \in 0 .. fs.length - 1 : InNewPlace(k)

\* The stale sectors of the job, which are the ones it copies first.  In a rollback
\* they are good in the old place until it overwrites them with what was in the new
\* place before the move: sectors of a partial block longer than the distance of
\* the move, counted as done by a CopyBlocks whose devices did not open.
Stale == IF Backward THEN job.length - job.stale .. job.length - 1
                     ELSE 0 .. job.stale - 1
Overwritten(k) == rolling /\ fs.src + k - job.to \in Stale

\* A move which failed or was cancelled leaves the whole file system in its old
\* place, unless the rollback failed too, a failing write tore a block, or the
\* rollback copied back sectors which had never been copied.
RestoredIntact == pc = "unmoved" /\ ~Lost =>
    \A k \in 0 .. fs.length - 1 : InOldPlace(k) \/ Overwritten(k)

\* Whatever fails and whenever the user gives up, every sector of the file system
\* is still in its old or in its new place, except what the rollback overwrites
\* without a copy of it.
NothingLost == ~Lost =>
    \A k \in 0 .. fs.length - 1 : InOldPlace(k) \/ InNewPlace(k) \/ Overwritten(k)

\* Sectors outside the old and the new place of the file system are not written,
\* not even by a copy which fails.
BystandersUntouched ==
    \A s \in Sectors :
        \/ disk[s] = s
        \/ s \in fs.src .. fs.src + fs.length - 1
        \/ s \in fs.dst .. fs.dst + fs.length - 1

\* Cancelling, unless forced, never leaves the file system half moved: the
\* rollback is not cancelled with the move.
CancelRestores == pc = "broken" =>
    cancelflag = 2 \/ faults \intersect {"open", "write"} # {}

\* The copier and the rollback together do what AbstractMove promises: parts of
\* the file system go forth and back without ever being lost, what the move says
\* at its end is true and final, and under the fairness above it does end.  The
\* promise is off when data is lost, and when the rollback overwrites sectors which
\* were never copied.
Damaged == Lost \/ \E k \in 0 .. fs.length - 1 : Overwritten(k)
Abstract == INSTANCE AbstractMove WITH
    size <- fs.length,
    old <- {k \in 0 .. fs.length - 1 : InOldPlace(k)},
    new <- {k \in 0 .. fs.length - 1 : InNewPlace(k)},
    bad <- Damaged,
    result <- IF Ended THEN pc ELSE "moving"
Implements == Abstract!Spec
----------------------------------------------------------------------------
(* The inductive invariant behind the safety properties.                   *)

\* Sectors of the job copied so far, and which ones they are
Done == IF pc = "copy" THEN total_done + cb.done ELSE total_done - uncopied
Copied == IF Backward THEN job.length - Done .. job.length - 1 ELSE 0 .. Done - 1

\* The move copies the file system; the rollback copies back the part of it
\* which the move has overwritten.
JobInv ==
    IF rolling
    THEN /\ Overlap
         /\ job.length \in 1 .. fs.length - Distance
         /\ LET back == IF fs.dst > fs.src THEN fs.length - job.length ELSE 0
            IN  job = Job(fs.dst + back, fs.src + back, job.length,
                          fs.src + back, job.stale, FALSE)
         /\ job.stale <= job.length
    ELSE job = Job(fs.src, fs.dst, fs.length, fs.src, 0, TRUE)

\* Chunks and blocks cover the job without a gap or an overlap.
ProgressInv ==
    /\ total_done <= job.length /\ uncopied <= total_done
    /\ pc \in {"select", "open", "copy"} => bench.done = total_done /\ uncopied = 0
    /\ pc = "moved" => total_done = job.length /\ uncopied = 0
    /\ pc \in {"moved", "failed"} => ~rolling
    /\ pc \in {"open", "copy"} =>
          /\ cb.length \in 1 .. job.length - total_done
          /\ cb.blocksize \in 1 .. cb.length
    /\ pc = "open" =>
          /\ cb.done = cb.length % cb.blocksize
          /\ LET start == IF Backward THEN job.length - total_done - cb.length
                                       ELSE total_done
             IN  cb.offset_src = job.from + start /\ cb.offset_dst = job.to + start
    /\ pc = "copy" =>
          /\ cb.done <= cb.length
          /\ cb.done = 0 \/ (cb.length - cb.done) % cb.blocksize = 0
          /\ cb.offset_src = job.from + (IF Backward THEN job.length - Done ELSE Done)
          /\ cb.offset_dst = job.to + (IF Backward THEN job.length - Done ELSE Done)

CancelInv == pc \in {"open", "copy"} /\ cb.cancel /\ rolling => cancelflag = 2

\* What has been copied is in its place, what has not is still where it came
\* from, and nothing else of the file system has changed.
ContentsInv == ~Lost =>
    /\ \A k \in Copied \ Stale : disk[job.to + k] = job.label + k
    /\ \A k \in (0 .. job.length - 1) \ (Copied \union Stale) :
          disk[job.from + k] = job.label + k
    /\ ~rolling => \A s \in Sectors : s - job.to \notin Copied => disk[s] = s
    /\ rolling => \A k \in 0 .. fs.length - 1 :
          fs.src + k \notin job.to .. job.to + job.length - 1 => InOldPlace(k)

IInv ==
    /\ TypeOK /\ JobInv /\ ProgressInv /\ CancelInv /\ ContentsInv
    /\ BystandersUntouched /\ RestoredIntact /\ CancelRestores
=============================================================================
