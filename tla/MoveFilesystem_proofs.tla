------------------------- MODULE MoveFilesystem_proofs -------------------------
(***************************************************************************)
(* Proofs that the safety properties of MoveFilesystem hold for every      *)
(* device, every move on it and every pair of benchmark sizes.             *)
(***************************************************************************)
EXTENDS MoveFilesystem, TLAPS

----------------------------------------------------------------------------
(* Arithmetic.                                                             *)

\* Integer division, as copy() uses it to find the partial block.
LEMMA Division ==
    ASSUME NEW a \in Nat, NEW b \in Nat \ {0}
    PROVE  /\ a = b * (a \div b) + (a % b)
           /\ a \div b \in Nat
           /\ a % b \in 0 .. b - 1
  BY SMT

\* A multiple leaves no rest.
LEMMA Multiple ==
    ASSUME NEW q \in Nat, NEW b \in Nat \ {0}
    PROVE  (q * b) % b = 0
  BY SMT

\* What is left after the partial block is a whole number of blocks.
LEMMA WithoutRest ==
    ASSUME NEW a \in Nat, NEW b \in Nat \ {0}
    PROVE  (a - (a % b)) % b = 0
<1> DEFINE q == a \div b
           r == a % b
<1>1. a = b * q + r /\ q \in Nat /\ r \in 0 .. b - 1
  BY Division
<1>2. (q * b) % b = 0
  BY <1>1, Multiple
<1> HIDE DEF q, r
<1>3. a - r = q * b
  BY <1>1, SMT
<1>4. (a - r) % b = 0
  BY <1>2, <1>3
<1> QED
  BY <1>4 DEF r

\* Taking a block from a whole number of blocks leaves a whole number of blocks.
LEMMA WithoutBlock ==
    ASSUME NEW a \in Nat \ {0}, NEW b \in Nat \ {0}, a % b = 0
    PROVE  b <= a /\ (a - b) % b = 0
<1> DEFINE q == a \div b
<1>1. q \in Nat /\ a = q * b
  BY Division, SMT
<1> HIDE DEF q
<1>2. q # 0
  BY <1>1, SMT
<1>3. q - 1 \in Nat /\ a - b = (q - 1) * b /\ (q - 1) * b >= 0
  BY <1>1, <1>2, SMT
<1>4. (a - b) % b = 0
  BY <1>3, Multiple
<1> QED
  BY <1>3, <1>4, SMT

----------------------------------------------------------------------------
(* One block of a copy: what has been written is in its place, what is     *)
(* left to copy has not been overwritten.                                  *)

\* Moving to the right, the block at the end of what is left is copied.
LEMMA BackwardBlock ==
    ASSUME job.from \in Nat, job.to \in Nat, job.length \in Nat, job.label \in Nat,
           Done \in Nat, Block \in Nat \ {0},
           job.from < job.to, job.to + job.length <= DeviceLength,
           Done + Block <= job.length,
           DeviceLength \in Nat,
           \A k \in job.length - Done .. job.length - 1 :
               k \notin Stale => disk[job.to + k] = job.label + k,
           \A k \in 0 .. job.length - Done - 1 :
               k \notin Stale => disk[job.from + k] = job.label + k,
           \A s \in Sectors :
               disk'[s] = IF s \in job.to + job.length - Done - Block ..
                                   job.to + job.length - Done - Block + Block - 1
                          THEN disk[job.from + job.length - Done - Block
                                    + (s - (job.to + job.length - Done - Block))]
                          ELSE disk[s]
    PROVE  /\ \A k \in job.length - (Done + Block) .. job.length - 1 :
                 k \notin Stale => disk'[job.to + k] = job.label + k
           /\ \A k \in 0 .. job.length - (Done + Block) - 1 :
                 k \notin Stale => disk'[job.from + k] = job.label + k
<1>1. ASSUME NEW k \in job.length - (Done + Block) .. job.length - 1, k \notin Stale
      PROVE  disk'[job.to + k] = job.label + k
  <2>1. job.to + k \in Sectors
    BY DEF Sectors
  <2>2. CASE k >= job.length - Done
    BY <1>1, <2>1, <2>2
  <2>3. CASE k < job.length - Done
    <3>1. disk'[job.to + k] = disk[job.from + job.length - Done - Block
                                   + ((job.to + k) - (job.to + job.length - Done - Block))]
      BY <2>1, <2>3
    <3>2. job.from + job.length - Done - Block
            + ((job.to + k) - (job.to + job.length - Done - Block)) = job.from + k
      OBVIOUS
    <3>3. k \in 0 .. job.length - Done - 1
      BY <2>3
    <3> QED
      BY <1>1, <3>1, <3>2, <3>3
  <2> QED
    BY <2>2, <2>3
<1>2. ASSUME NEW k \in 0 .. job.length - (Done + Block) - 1, k \notin Stale
      PROVE  disk'[job.from + k] = job.label + k
  <2>1. /\ job.from + k \in Sectors
        /\ job.from + k \notin job.to + job.length - Done - Block ..
                              job.to + job.length - Done - Block + Block - 1
        /\ k \in 0 .. job.length - Done - 1
    BY DEF Sectors
  <2> QED
    BY <1>2, <2>1
<1> QED
  BY <1>1, <1>2

\* Moving to the left, the block at the start of what is left is copied.
LEMMA ForwardBlock ==
    ASSUME job.from \in Nat, job.to \in Nat, job.length \in Nat, job.label \in Nat,
           Done \in Nat, Block \in Nat \ {0},
           job.to < job.from, job.from + job.length <= DeviceLength,
           Done + Block <= job.length,
           DeviceLength \in Nat,
           \A k \in 0 .. Done - 1 :
               k \notin Stale => disk[job.to + k] = job.label + k,
           \A k \in Done .. job.length - 1 :
               k \notin Stale => disk[job.from + k] = job.label + k,
           \A s \in Sectors :
               disk'[s] = IF s \in job.to + Done .. job.to + Done + Block - 1
                      THEN disk[job.from + Done + (s - (job.to + Done))]
                      ELSE disk[s]
    PROVE  /\ \A k \in 0 .. Done + Block - 1 :
                 k \notin Stale => disk'[job.to + k] = job.label + k
           /\ \A k \in Done + Block .. job.length - 1 :
                 k \notin Stale => disk'[job.from + k] = job.label + k
<1>1. ASSUME NEW k \in 0 .. Done + Block - 1, k \notin Stale
      PROVE  disk'[job.to + k] = job.label + k
  <2>1. job.to + k \in Sectors
    BY DEF Sectors
  <2>2. CASE k < Done
    BY <1>1, <2>1, <2>2
  <2>3. CASE k >= Done
    <3>1. disk'[job.to + k] = disk[job.from + Done + ((job.to + k) - (job.to + Done))]
      BY <2>1, <2>3
    <3>2. job.from + Done + ((job.to + k) - (job.to + Done)) = job.from + k
      OBVIOUS
    <3>3. k \in Done .. job.length - 1
      BY <2>3
    <3> QED
      BY <1>1, <3>1, <3>2, <3>3
  <2> QED
    BY <2>2, <2>3
<1>2. ASSUME NEW k \in Done + Block .. job.length - 1, k \notin Stale
      PROVE  disk'[job.from + k] = job.label + k
  <2>1. /\ job.from + k \in Sectors
        /\ job.from + k \notin job.to + Done .. job.to + Done + Block - 1
        /\ k \in Done .. job.length - 1
    BY DEF Sectors
  <2> QED
    BY <1>2, <2>1
<1> QED
  BY <1>1, <1>2

----------------------------------------------------------------------------
(* Where the copy and the rollback are on the disk.                        *)

\* A move is between two different places on the device.
LEMMA MoveGeometry ==
    ASSUME fs \in Moves
    PROVE  /\ fs.src \in Nat /\ fs.dst \in Nat /\ fs.length \in Nat \ {0}
           /\ fs.src # fs.dst
           /\ fs.src + fs.length <= DeviceLength
           /\ fs.dst + fs.length <= DeviceLength
           /\ DeviceLength \in Nat
           /\ Chunk \in Nat \ {0} /\ SmallestBlock \in Nat \ {0}
  BY MoveAssumption DEF Chunk, SmallestBlock

\* The move and the rollback copy between two places on the device; the rollback
\* goes back the way which the move came.
LEMMA JobGeometry ==
    ASSUME TypeOK, JobInv
    PROVE  /\ job.from \in Nat /\ job.to \in Nat /\ job.label \in Nat
           /\ job.length \in Nat \ {0} /\ job.length <= fs.length
           /\ job.from # job.to
           /\ job.from + job.length <= DeviceLength
           /\ job.to + job.length <= DeviceLength
           /\ ~rolling => /\ job.from = fs.src /\ job.to = fs.dst
                          /\ job.length = fs.length /\ job.label = fs.src
                          /\ job.safe = TRUE /\ job.stale = 0
           /\ rolling  => /\ job.label = job.to /\ job.safe = FALSE
                          /\ fs.src <= job.to
                          /\ job.to + job.length <= fs.src + fs.length
                          /\ job.from - job.to = fs.dst - fs.src
<1>1. fs \in Moves
  BY DEF TypeOK
<1>2. CASE rolling
  <2>1. Distance \in Nat \ {0} /\ Distance < fs.length
    BY <1>1, <1>2, MoveGeometry DEF JobInv, Overlap, Distance
  <2>2. job.length \in 1 .. fs.length - Distance
    BY <1>2 DEF JobInv
  <2> DEFINE back == IF fs.dst > fs.src THEN fs.length - job.length ELSE 0
  <2>3. back \in Nat /\ back + job.length <= fs.length
    BY <1>1, <2>1, <2>2, MoveGeometry
  <2>4. /\ job.from = fs.dst + back /\ job.to = fs.src + back
        /\ job.label = fs.src + back /\ job.safe = FALSE
    BY <1>2 DEF JobInv, Job
  <2> HIDE DEF back
  <2> QED
    BY <1>1, <1>2, <2>1, <2>2, <2>3, <2>4, MoveGeometry
<1>3. CASE ~rolling
  <2>1. job = Job(fs.src, fs.dst, fs.length, fs.src, 0, TRUE)
    BY <1>3 DEF JobInv
  <2>2. /\ job.from = fs.src /\ job.to = fs.dst
        /\ job.length = fs.length /\ job.label = fs.src /\ job.safe = TRUE
        /\ job.stale = 0
    BY <2>1 DEF Job
  <2> QED
    BY <1>1, <1>3, <2>2, MoveGeometry
<1> QED
  BY <1>2, <1>3

\* A block is not empty, fits into the chunk and leaves whole blocks behind.
LEMMA BlockFits ==
    ASSUME TypeOK, ProgressInv, Copying
    PROVE  /\ Block \in Nat \ {0}
           /\ cb.done + Block <= cb.length
           /\ (cb.length - (cb.done + Block)) % cb.blocksize = 0
<1> DEFINE length == cb.length
           size == cb.blocksize
           done == cb.done
<1>1. /\ length \in Nat \ {0} /\ size \in Nat \ {0} /\ done \in Nat
      /\ done < length /\ size <= length
      /\ done = 0 \/ (length - done) % size = 0
  BY DEF TypeOK, ProgressInv, Copying
<1>2. Block = IF done = 0 /\ length % size # 0 THEN length % size ELSE size
  BY DEF Block
<1> HIDE DEF length, size, done
<1>3. CASE done = 0 /\ length % size # 0
  <2>1. length % size \in 0 .. size - 1 /\ (length - (length % size)) % size = 0
    BY <1>1, Division, WithoutRest
  <2>2. Block = length % size /\ done + Block = length % size
    BY <1>1, <1>2, <1>3, <2>1
  <2>3. Block \in Nat \ {0} /\ done + Block <= length
    BY <1>1, <1>3, <2>1, <2>2
  <2>4. (length - (done + Block)) % size = 0
    BY <2>1, <2>2
  <2> QED
    BY <2>3, <2>4 DEF length, size, done
<1>4. CASE ~(done = 0 /\ length % size # 0)
  <2>1. (length - done) % size = 0 /\ length - done \in Nat \ {0}
    BY <1>1, <1>4
  <2>2. size <= length - done /\ ((length - done) - size) % size = 0
    BY <1>1, <2>1, WithoutBlock
  <2>3. Block = size
    BY <1>2, <1>4
  <2>4. (length - done) - size = length - (done + Block)
    BY <1>1, <2>3
  <2>5. (length - (done + Block)) % size = 0
    BY <2>2, <2>4
  <2> QED
    BY <1>1, <2>2, <2>3, <2>5 DEF length, size, done
<1> QED
  BY <1>3, <1>4

\* Where the block is read and written.
LEMMA BlockPlace ==
    ASSUME TypeOK, JobInv, ProgressInv, Copying
    PROVE  /\ Done \in Nat /\ Done + Block <= job.length
           /\ Backward => /\ BlockSrc = job.from + job.length - Done - Block
                          /\ BlockDst = job.to + job.length - Done - Block
           /\ ~Backward => BlockSrc = job.from + Done /\ BlockDst = job.to + Done
<1>1. /\ Block \in Nat \ {0} /\ cb.done + Block <= cb.length
  BY BlockFits
<1>2. /\ Done = total_done + cb.done /\ total_done \in Nat /\ cb.done \in Nat
      /\ cb.length \in 1 .. job.length - total_done
      /\ cb.offset_src = job.from + (IF Backward THEN job.length - Done ELSE Done)
      /\ cb.offset_dst = job.to + (IF Backward THEN job.length - Done ELSE Done)
  BY DEF TypeOK, ProgressInv, Copying, Done
<1>3. job.from \in Nat /\ job.to \in Nat /\ job.length \in Nat
  BY JobGeometry
<1> QED
  BY <1>1, <1>2, <1>3 DEF BlockSrc, BlockDst

\* A write, however much of the block it gets done, stays inside the target.
LEMMA WriteStaysInside ==
    ASSUME IInv, Copying, NEW n \in 0 .. Block, disk' = Written(n), fs' = fs
    PROVE  /\ disk' \in [Sectors -> Sectors]
           /\ \A s \in Sectors : s \notin job.to .. job.to + job.length - 1
                                 => disk'[s] = disk[s]
           /\ BystandersUntouched'
<1>1. TypeOK /\ JobInv /\ ProgressInv /\ BystandersUntouched
  BY DEF IInv
<1>2. /\ job.from \in Nat /\ job.to \in Nat /\ job.length \in Nat
      /\ job.from + job.length <= DeviceLength
      /\ job.to + job.length <= DeviceLength
      /\ DeviceLength \in Nat /\ fs \in Moves
  BY <1>1, JobGeometry, MoveAssumption DEF TypeOK
<1>3. /\ Block \in Nat \ {0} /\ Done \in Nat /\ Done + Block <= job.length
      /\ BlockSrc \in job.from .. job.from + job.length - Block
      /\ BlockDst \in job.to .. job.to + job.length - Block
  BY <1>1, <1>2, BlockFits, BlockPlace
<1>4. \A s \in Sectors : s \notin job.to .. job.to + job.length - 1
                         => disk'[s] = disk[s]
  BY <1>2, <1>3, SMTT(20) DEF Written, Sectors
<1>5. disk' \in [Sectors -> Sectors]
  <2>1. SUFFICES ASSUME NEW s \in Sectors, s \in BlockDst .. BlockDst + n - 1
                 PROVE  disk[BlockSrc + (s - BlockDst)] \in Sectors
    BY <1>1 DEF TypeOK, Written
  <2>2. BlockSrc + (s - BlockDst) \in Sectors
    BY <1>2, <1>3, <2>1 DEF Sectors
  <2> QED
    BY <1>1, <2>2 DEF TypeOK
<1>6. ASSUME NEW s \in Sectors, disk'[s] # s,
             s \notin fs.src .. fs.src + fs.length - 1
      PROVE  s \in fs.dst .. fs.dst + fs.length - 1
  <2>1. CASE disk[s] # s
    BY <1>1, <1>6, <2>1 DEF BystandersUntouched
  <2>2. CASE disk[s] = s
    <3>1. s \in job.to .. job.to + job.length - 1
      BY <1>4, <1>6, <2>2
    <3>2. CASE rolling
      BY <1>1, <1>2, <1>6, <3>1, <3>2, JobGeometry, MoveGeometry
    <3>3. CASE ~rolling
      BY <1>1, <1>2, <3>1, <3>3, JobGeometry
    <3> QED
      BY <3>2, <3>3
  <2> QED
    BY <2>1, <2>2
<1> QED
  BY <1>4, <1>5, <1>6 DEF BystandersUntouched

\* A block which counts as done, copied or not, keeps the bookkeeping in step.
LEMMA AdvanceKeepsBooks ==
    ASSUME IInv, Copying, cb' = Advanced,
           UNCHANGED <<fs, job, bench, total_done, uncopied, cancelflag, pc, rolling>>
    PROVE  /\ JobInv' /\ ProgressInv' /\ CancelInv'
           /\ cb' \in [offset_src : Int, offset_dst : Int, length : Nat \ {0},
                       blocksize : Nat \ {0}, done : Nat, cancel : BOOLEAN]
           /\ Done' = Done + Block
<1>1. TypeOK /\ JobInv /\ ProgressInv /\ CancelInv
  BY DEF IInv
<1>2. /\ Block \in Nat \ {0} /\ cb.done + Block <= cb.length
      /\ (cb.length - (cb.done + Block)) % cb.blocksize = 0
  BY <1>1, BlockFits
<1>3. /\ cb'.done = cb.done + Block /\ cb'.length = cb.length
      /\ cb'.blocksize = cb.blocksize /\ cb'.cancel = cb.cancel
      /\ cb'.offset_src = IF Backward THEN cb.offset_src - Block
                          ELSE cb.offset_src + Block
      /\ cb'.offset_dst = IF Backward THEN cb.offset_dst - Block
                          ELSE cb.offset_dst + Block
  BY <1>1 DEF Advanced, TypeOK
<1>4. cb' \in [offset_src : Int, offset_dst : Int, length : Nat \ {0},
               blocksize : Nat \ {0}, done : Nat, cancel : BOOLEAN]
  <2> DEFINE src == IF Backward THEN cb.offset_src - Block ELSE cb.offset_src + Block
             dst == IF Backward THEN cb.offset_dst - Block ELSE cb.offset_dst + Block
             done == cb.done + Block
  <2>1. src \in Int /\ dst \in Int /\ done \in Nat
    BY <1>1, <1>2 DEF TypeOK
  <2>2. cb' = [cb EXCEPT !.offset_src = src, !.offset_dst = dst, !.done = done]
    BY DEF Advanced
  <2> HIDE DEF src, dst, done
  <2> QED
    BY <1>1, <2>1, <2>2 DEF TypeOK
<1>5. JobInv'
  BY <1>1 DEF JobInv, Overlap, Distance, Job
<1>6. Done \in Nat /\ Done = total_done + cb.done /\ Done' = Done + Block
  BY <1>1, <1>2, <1>3 DEF Done, Copying, TypeOK
<1>7. ProgressInv'
  <2>1. /\ cb.length \in 1 .. job.length - total_done
        /\ cb.blocksize \in 1 .. cb.length
        /\ cb.offset_src = job.from + (IF Backward THEN job.length - Done ELSE Done)
        /\ cb.offset_dst = job.to + (IF Backward THEN job.length - Done ELSE Done)
        /\ total_done <= job.length /\ bench.done = total_done
        /\ uncopied = 0 /\ uncopied <= total_done
    BY <1>1 DEF ProgressInv, Copying
  <2>2. job.from \in Nat /\ job.to \in Nat /\ job.length \in Nat
    BY <1>1, JobGeometry
  <2>3. Backward' = Backward
    BY DEF Backward
  <2>4. /\ cb'.offset_src = job.from + (IF Backward THEN job.length - Done' ELSE Done')
        /\ cb'.offset_dst = job.to + (IF Backward THEN job.length - Done' ELSE Done')
    BY <1>2, <1>3, <1>6, <2>1, <2>2
  <2>5. cb'.done <= cb'.length /\ (cb'.length - cb'.done) % cb'.blocksize = 0
    BY <1>2, <1>3
  <2>6. cb'.length \in 1 .. job.length - total_done /\ cb'.blocksize \in 1 .. cb'.length
    BY <1>3, <2>1
  <2>7. pc' = "copy"
    BY DEF Copying
  <2> HIDE DEF Copying
  <2> QED
    BY <2>1, <2>3, <2>4, <2>5, <2>6, <2>7 DEF ProgressInv
<1>8. CancelInv'
  BY <1>1, <1>3 DEF CancelInv
<1> QED
  BY <1>4, <1>5, <1>6, <1>7, <1>8

----------------------------------------------------------------------------
(* The steps, one lemma per action.                                        *)

\* move_filesystem() starts with the invariant.
LEMMA InitIInv == Init => IInv
<1> SUFFICES ASSUME Init PROVE IInv
  OBVIOUS
<1>1. /\ fs \in Moves /\ fs.src \in Nat /\ fs.dst \in Nat /\ fs.length \in Nat \ {0}
      /\ SmallestBlock \in Nat \ {0} /\ DeviceLength \in Nat
  BY MoveGeometry, MoveAssumption DEF Init
<1>2. job \in [from : Nat, to : Nat, length : Nat, label : Nat, stale : Nat,
               safe : BOOLEAN]
  BY <1>1 DEF Init, Job
<1>3. cb \in [offset_src : Int, offset_dst : Int, length : Nat \ {0},
              blocksize : Nat \ {0}, done : Nat, cancel : BOOLEAN]
  <2> DEFINE cancelled == cancelflag = 2 \/ (cancelflag = 1 /\ job.safe)
  <2>1. cancelled \in BOOLEAN
    BY Zenon
  <2>2. cb = [offset_src |-> fs.src, offset_dst |-> fs.dst, length |-> 1,
              blocksize |-> 1, done |-> 1 % 1, cancel |-> cancelled]
    BY DEF Init, NewCopyBlocks
  <2> HIDE DEF cancelled
  <2> QED
    BY <1>1, <2>1, <2>2
<1>4. TypeOK
  <2>1. disk \in [Sectors -> Sectors]
    BY DEF Init
  <2>2. bench \in [done : Nat, blocksize : Nat \ {0}, best : Nat \ {0}]
    BY <1>1 DEF Init, NewBench
  <2>3. /\ total_done \in Nat /\ uncopied \in Nat /\ cancelflag \in 0 .. 2
        /\ faults \in SUBSET {"open", "skipped", "write", "torn"}
    BY SMT DEF Init
  <2>4. /\ rolling \in BOOLEAN
        /\ pc \in {"select", "open", "copy", "failed", "moved", "unmoved", "broken"}
    BY Zenon DEF Init
  <2> QED
    BY <1>1, <1>2, <1>3, <2>1, <2>2, <2>3, <2>4, Zenon DEF TypeOK
<1>5. JobInv
  BY DEF Init, JobInv
<1>6. ProgressInv
  BY <1>1 DEF Init, ProgressInv, NewBench, Job
<1>7. CancelInv /\ RestoredIntact /\ CancelRestores
  BY DEF Init, CancelInv, RestoredIntact, CancelRestores
<1>8. BystandersUntouched
  BY DEF Init, BystandersUntouched
<1>9. ContentsInv
  <2>1. Done = 0 /\ job.from = fs.src /\ job.label = fs.src /\ job.to = fs.dst
        /\ job.length = fs.length
    BY SMT DEF Init, Done, Job
  <2>2. Copied = {}
    BY <1>1, <2>1 DEF Copied
  <2>3. \A s \in Sectors : disk[s] = s
    BY DEF Init
  <2>4. \A k \in 0 .. fs.length - 1 : fs.src + k \in Sectors
    BY <1>1, MoveGeometry DEF Sectors
  <2> QED
    BY <2>1, <2>2, <2>3, <2>4 DEF ContentsInv, Init
<1> QED
  BY <1>4, <1>5, <1>6, <1>7, <1>8, <1>9 DEF IInv

\* The parts of the invariant which a step leaves alone
LEMMA JobKept ==
    ASSUME JobInv, UNCHANGED <<fs, job, rolling>>
    PROVE  JobInv'
  BY DEF JobInv, Overlap, Distance, Job

\* What the disk holds is described as before by a step which writes nothing and
\* copies nothing.
LEMMA ContentsKept ==
    ASSUME ContentsInv, UNCHANGED <<disk, fs, job, rolling>>, Lost => Lost',
           Done' = Done
    PROVE  ContentsInv'
<1>1. Backward' = Backward
  BY DEF Backward
<1>2. Copied' = Copied /\ Stale' = Stale
  BY <1>1 DEF Copied, Stale
<1> QED
  BY <1>1, <1>2 DEF ContentsInv, InOldPlace

\* A chunk taken by copy_blocks() starts where the copied part ends.
LEMMA ChunkStarts ==
    ASSUME IInv, pc = "select", pc' = "open",
           NEW offset \in Nat, NEW length \in Nat \ {0}, NEW size \in Nat \ {0},
           total_done + length <= job.length,
           offset = IF Backward THEN job.length - length - total_done ELSE total_done,
           cb' = NewCopyBlocks(job.from + offset, job.to + offset, length, size),
           UNCHANGED <<disk, fs, job, bench, total_done, uncopied, cancelflag,
                       rolling, faults>>
    PROVE  IInv'
<1> DEFINE src == job.from + offset
           dst == job.to + offset
<1>1. /\ TypeOK /\ JobInv /\ ProgressInv /\ ContentsInv /\ BystandersUntouched
      /\ job.from \in Nat /\ job.to \in Nat /\ job.length \in Nat
      /\ total_done \in Nat
  BY JobGeometry DEF IInv, TypeOK
<1>2. src \in Int /\ dst \in Int
  BY <1>1
<1>3. cb' = NewCopyBlocks(src, dst, length, size)
  OBVIOUS
<1> HIDE DEF src, dst
<1>4. /\ cb' \in [offset_src : Int, offset_dst : Int, length : Nat \ {0},
                  blocksize : Nat \ {0}, done : Nat, cancel : BOOLEAN]
      /\ cb'.offset_src = src /\ cb'.offset_dst = dst
      /\ cb'.length = length /\ cb'.done = length % cb'.blocksize
      /\ cb'.blocksize \in 1 .. length
      /\ cb'.cancel = (cancelflag = 2 \/ (cancelflag = 1 /\ job.safe))
  <2> DEFINE block == IF size > length THEN length ELSE size
             rest == length % block
             cancelled == cancelflag = 2 \/ (cancelflag = 1 /\ job.safe)
  <2>1. block \in 1 .. length
    OBVIOUS
  <2>2. cancelled \in BOOLEAN
    BY Zenon
  <2>3. cb' = [offset_src |-> src, offset_dst |-> dst,
               length |-> length, blocksize |-> block, done |-> rest,
               cancel |-> cancelled]
    BY <1>3, Zenon DEF NewCopyBlocks
  <2>4. rest \in Nat
    <3> HIDE DEF block
    <3> QED
      BY <2>1, Division
  <2>5. cb'.done = length % cb'.blocksize
    <3> HIDE DEF block, cancelled
    <3> QED
      BY <2>3
  <2> HIDE DEF block, rest, cancelled
  <2>6. /\ cb' \in [offset_src : Int, offset_dst : Int, length : Nat \ {0},
                    blocksize : Nat \ {0}, done : Nat, cancel : BOOLEAN]
        /\ cb'.offset_src = src /\ cb'.offset_dst = dst
        /\ cb'.length = length
        /\ cb'.blocksize = block /\ cb'.cancel = cancelled
    BY <1>2, <2>1, <2>2, <2>3, <2>4
  <2> QED
    BY <2>1, <2>5, <2>6, Zenon DEF cancelled
<1>5. TypeOK'
  BY <1>1, <1>4 DEF TypeOK
<1>6. uncopied = 0 /\ Done' = Done
  BY <1>1 DEF Done, ProgressInv
<1>7. ProgressInv'
  <2>1. /\ cb'.length \in 1 .. job.length - total_done
        /\ cb'.blocksize \in 1 .. cb'.length
        /\ cb'.done = cb'.length % cb'.blocksize
    BY <1>1, <1>4
  <2>2. /\ cb'.offset_src = job.from + (IF Backward THEN job.length - total_done - cb'.length
                                                   ELSE total_done)
        /\ cb'.offset_dst = job.to + (IF Backward THEN job.length - total_done - cb'.length
                                                 ELSE total_done)
    BY <1>1, <1>4 DEF src, dst
  <2>3. Backward' = Backward
    BY DEF Backward
  <2> QED
    BY <1>1, <1>6, <2>1, <2>2, <2>3 DEF ProgressInv
<1>8. CancelInv'
  <2>1. rolling => job.safe = FALSE
    BY <1>1, JobGeometry
  <2> QED
    BY <1>4, <2>1 DEF CancelInv
<1>9. JobInv' /\ ContentsInv' /\ BystandersUntouched'
  <2>1. Lost => Lost'
    BY DEF Lost
  <2> QED
    BY <1>1, <1>6, <2>1, JobKept, ContentsKept DEF BystandersUntouched
<1>10. RestoredIntact' /\ CancelRestores'
  BY DEF RestoredIntact, CancelRestores
<1> QED
  BY <1>5, <1>7, <1>8, <1>9, <1>10 DEF IInv

\* A benchmark takes the next chunk from the end which is copied first.
LEMMA BenchmarkChunkStep == IInv /\ BenchmarkChunk => IInv'
<1> SUFFICES ASSUME IInv, BenchmarkChunk PROVE IInv'
  OBVIOUS
<1> DEFINE offset == IF Backward THEN job.length - Chunk - bench.done ELSE bench.done
<1>1. /\ pc = "select" /\ pc' = "open"
      /\ bench.done + Chunk <= job.length
      /\ cb' = NewCopyBlocks(job.from + offset, job.to + offset, Chunk, bench.blocksize)
      /\ UNCHANGED <<disk, fs, job, bench, total_done, uncopied, cancelflag, rolling, faults>>
  BY DEF BenchmarkChunk, MoreBenchmarks
<1>2. /\ bench.done = total_done /\ bench.done \in Nat
      /\ bench.blocksize \in Nat \ {0} /\ job.length \in Nat
      /\ Chunk \in Nat \ {0}
  BY <1>1, MoveGeometry DEF IInv, TypeOK, ProgressInv
<1>3. /\ offset \in Nat /\ total_done + Chunk <= job.length
      /\ offset = IF Backward THEN job.length - Chunk - total_done ELSE total_done
  BY <1>1, <1>2
<1> HIDE DEF offset
<1> QED
  BY <1>1, <1>2, <1>3, ChunkStarts

\* The last chunk is all that the benchmarks have left.
LEMMA RemainingChunkStep == IInv /\ RemainingChunk => IInv'
<1> SUFFICES ASSUME IInv, RemainingChunk PROVE IInv'
  OBVIOUS
<1> DEFINE offset == IF Backward THEN 0 ELSE bench.done
           length == job.length - bench.done
<1>1. /\ pc = "select" /\ pc' = "open" /\ bench.done < job.length
      /\ cb' = NewCopyBlocks(job.from + offset, job.to + offset, length, bench.best)
      /\ UNCHANGED <<disk, fs, job, bench, total_done, uncopied, cancelflag, rolling, faults>>
  BY DEF RemainingChunk
<1>2. /\ bench.done = total_done /\ bench.done \in Nat
      /\ bench.best \in Nat \ {0} /\ job.length \in Nat
  BY <1>1 DEF IInv, TypeOK, ProgressInv
<1>3. /\ offset \in Nat /\ length \in Nat \ {0} /\ total_done + length <= job.length
      /\ offset = IF Backward THEN job.length - length - total_done ELSE total_done
  BY <1>1, <1>2
<1> HIDE DEF offset, length
<1> QED
  BY <1>1, <1>2, <1>3, ChunkStarts

\* copy_blocks() returns true only when the whole job has been copied.
LEMMA CopyEndsStep == IInv /\ CopyEnds => IInv'
<1> SUFFICES ASSUME IInv, CopyEnds PROVE IInv'
  OBVIOUS
<1>1. /\ TypeOK /\ JobInv /\ ProgressInv /\ CancelInv /\ ContentsInv
      /\ BystandersUntouched /\ total_done \in Nat /\ job.length \in Nat
      /\ fs \in Moves
  BY JobGeometry DEF IInv, TypeOK
<1>2. /\ pc = "select" /\ bench.done >= job.length
      /\ pc' = IF rolling THEN "unmoved" ELSE "moved"
      /\ UNCHANGED <<disk, fs, job, bench, cb, total_done, uncopied, cancelflag, rolling, faults>>
  BY DEF CopyEnds
<1>3. total_done = job.length /\ uncopied = 0 /\ Done = total_done /\ Done' = total_done
  BY <1>1, <1>2 DEF ProgressInv, Done
<1>4. TypeOK' /\ CancelInv' /\ CancelRestores' /\ BystandersUntouched'
  BY <1>1, <1>2 DEF TypeOK, CancelInv, CancelRestores, BystandersUntouched
<1>5. ProgressInv'
  BY <1>1, <1>2, <1>3 DEF ProgressInv
<1>6. JobInv' /\ ContentsInv'
  <2>1. Lost => Lost'
    BY <1>2 DEF Lost
  <2> QED
    BY <1>1, <1>2, <1>3, <2>1, JobKept, ContentsKept
<1>7. RestoredIntact'
  <2>1. SUFFICES ASSUME rolling, ~Lost, NEW k \in 0 .. fs.length - 1, ~Overwritten(k)
                 PROVE  InOldPlace(k)
    BY <1>2 DEF RestoredIntact, InOldPlace, Lost, Overwritten, Stale, Backward
  <2>2. CASE fs.src + k \notin job.to .. job.to + job.length - 1
    BY <1>1, <2>1, <2>2 DEF ContentsInv
  <2>3. CASE fs.src + k \in job.to .. job.to + job.length - 1
    <3> DEFINE j == fs.src + k - job.to
    <3>1. /\ job.label = job.to /\ job.to \in Nat /\ fs.src \in Nat
          /\ k \in Int
      BY <1>1, <2>1, JobGeometry, MoveGeometry
    <3>2. j \in 0 .. job.length - 1 /\ job.to + j = fs.src + k
      BY <1>1, <2>3, <3>1
    <3>3. Copied = 0 .. job.length - 1
      BY <1>1, <1>3 DEF Copied
    <3>5. j \notin Stale
      BY <2>1 DEF Overwritten
    <3> HIDE DEF j
    <3>4. disk[job.to + j] = job.to + j
      BY <1>1, <2>1, <3>1, <3>2, <3>3, <3>5 DEF ContentsInv
    <3> QED
      BY <3>2, <3>4 DEF InOldPlace
  <2> QED
    BY <2>2, <2>3
<1> QED
  BY <1>4, <1>5, <1>6, <1>7 DEF IInv

\* An open CopyBlocks starts with nothing done, at the end which is copied first.
LEMMA OpenDevicesStep == IInv /\ OpenDevices => IInv'
<1> SUFFICES ASSUME IInv, OpenDevices PROVE IInv'
  OBVIOUS
<1>1. /\ TypeOK /\ JobInv /\ ProgressInv /\ CancelInv /\ ContentsInv
      /\ job.from \in Nat /\ job.to \in Nat /\ job.length \in Nat
      /\ total_done \in Nat
  BY JobGeometry DEF IInv, TypeOK
<1> DEFINE end == IF Backward THEN cb.length ELSE 0
<1>2. /\ pc = "open" /\ pc' = "copy"
      /\ cb' = [cb EXCEPT !.offset_src = @ + end, !.offset_dst = @ + end, !.done = 0]
      /\ UNCHANGED <<disk, fs, job, bench, total_done, uncopied, cancelflag,
                     rolling, faults>>
  BY DEF OpenDevices
<1>3. end \in Nat
  BY <1>1 DEF TypeOK
<1>4. end = IF Backward THEN cb.length ELSE 0
  OBVIOUS
<1> HIDE DEF end
<1>5. /\ cb' \in [offset_src : Int, offset_dst : Int, length : Nat \ {0},
                  blocksize : Nat \ {0}, done : Nat, cancel : BOOLEAN]
      /\ cb'.offset_src = cb.offset_src + end /\ cb'.offset_dst = cb.offset_dst + end
      /\ cb'.length = cb.length /\ cb'.blocksize = cb.blocksize
      /\ cb'.done = 0 /\ cb'.cancel = cb.cancel
  <2> DEFINE src == cb.offset_src + end
             dst == cb.offset_dst + end
  <2>1. src \in Int /\ dst \in Int
    BY <1>1, <1>3 DEF TypeOK
  <2>2. cb' = [cb EXCEPT !.offset_src = src, !.offset_dst = dst, !.done = 0]
    BY <1>2
  <2> HIDE DEF src, dst
  <2>3. /\ cb' \in [offset_src : Int, offset_dst : Int, length : Nat \ {0},
                    blocksize : Nat \ {0}, done : Nat, cancel : BOOLEAN]
        /\ cb'.offset_src = src /\ cb'.offset_dst = dst
        /\ cb'.length = cb.length /\ cb'.blocksize = cb.blocksize
        /\ cb'.done = 0 /\ cb'.cancel = cb.cancel
    BY <1>1, <2>1, <2>2 DEF TypeOK
  <2> QED
    BY <2>3 DEF src, dst
<1>6. TypeOK'
  BY <1>1, <1>2, <1>5 DEF TypeOK
<1>7. /\ uncopied = 0 /\ bench.done = total_done
      /\ cb.length \in 1 .. job.length - total_done
      /\ cb.blocksize \in 1 .. cb.length
      /\ cb.offset_src = job.from + (IF Backward THEN job.length - total_done - cb.length
                                                 ELSE total_done)
      /\ cb.offset_dst = job.to + (IF Backward THEN job.length - total_done - cb.length
                                               ELSE total_done)
  BY <1>1, <1>2 DEF ProgressInv
<1>8. /\ Done = total_done /\ Done' = total_done /\ Backward' = Backward
      /\ Lost => Lost'
  BY <1>1, <1>2, <1>5, <1>7 DEF Done, Backward, Lost
<1>9. ProgressInv'
  <2>1. /\ cb'.offset_src = job.from + (IF Backward THEN job.length - Done' ELSE Done')
        /\ cb'.offset_dst = job.to + (IF Backward THEN job.length - Done' ELSE Done')
    BY <1>1, <1>4, <1>5, <1>7, <1>8
  <2> QED
    BY <1>1, <1>2, <1>5, <1>7, <1>8, <2>1 DEF ProgressInv
<1>10. JobInv' /\ ContentsInv'
  BY <1>1, <1>2, <1>8, JobKept, ContentsKept
<1>11. CancelInv' /\ RestoredIntact' /\ CancelRestores' /\ BystandersUntouched'
  BY <1>1, <1>2, <1>5
     DEF IInv, CancelInv, RestoredIntact, CancelRestores, BystandersUntouched
<1> QED
  BY <1>6, <1>9, <1>10, <1>11 DEF IInv

\* A CopyBlocks whose devices do not open adds its partial block to total_done,
\* and uncopied says that it has not been copied.
LEMMA OpenFailsStep == IInv /\ OpenFails => IInv'
<1> SUFFICES ASSUME IInv, OpenFails PROVE IInv'
  OBVIOUS
<1>1. TypeOK /\ JobInv /\ ProgressInv /\ CancelInv /\ ContentsInv
  BY DEF IInv
<1>2. /\ pc = "open" /\ pc' = IF rolling THEN "broken" ELSE "failed"
      /\ total_done' = total_done + cb.done /\ uncopied' = cb.done
      /\ faults' = faults \union {"open"}
      /\ UNCHANGED <<disk, fs, job, bench, cb, cancelflag, rolling>>
  BY DEF OpenFails, Fail
<1>3. /\ total_done \in Nat /\ cb.done \in Nat /\ job.length \in Nat
      /\ cb.length \in 1 .. job.length - total_done
      /\ cb.blocksize \in 1 .. cb.length /\ cb.done = cb.length % cb.blocksize
      /\ uncopied = 0
  BY <1>1, <1>2 DEF TypeOK, ProgressInv
<1>4. cb.done < cb.length
  <2>1. cb.length % cb.blocksize \in 0 .. cb.blocksize - 1
    BY <1>3, Division
  <2> QED
    BY <1>3, <2>1
<1>5. Done = total_done /\ Done' = total_done /\ (Lost => Lost')
  BY <1>2, <1>3 DEF Done, Lost
<1>6. TypeOK'
  <2>1. faults' \in SUBSET {"open", "skipped", "write", "torn"}
    BY <1>1, <1>2 DEF TypeOK
  <2> QED
    BY <1>1, <1>2, <1>3, <2>1 DEF TypeOK
<1>7. ProgressInv'
  BY <1>2, <1>3, <1>4 DEF ProgressInv
<1>8. JobInv' /\ ContentsInv'
  BY <1>1, <1>2, <1>5, JobKept, ContentsKept
<1>9. CancelInv' /\ RestoredIntact' /\ CancelRestores' /\ BystandersUntouched'
  BY <1>2 DEF IInv, CancelInv, RestoredIntact, CancelRestores, BystandersUntouched
<1> QED
  BY <1>6, <1>7, <1>8, <1>9 DEF IInv

\* copy_block() brings the next block to its place and spoils none which has
\* not been copied yet, as it works away from the direction of the move.
LEMMA CopyBlockStep == IInv /\ CopyBlock => IInv'
<1> SUFFICES ASSUME IInv, CopyBlock PROVE IInv'
  OBVIOUS
<1>1. /\ TypeOK /\ JobInv /\ ProgressInv /\ ContentsInv
      /\ fs \in Moves /\ DeviceLength \in Nat
  BY MoveAssumption DEF IInv, TypeOK
<1>2. /\ Copying /\ disk' = Written(Block) /\ cb' = Advanced
      /\ UNCHANGED <<fs, job, bench, total_done, uncopied, cancelflag, pc, rolling, faults>>
  BY DEF CopyBlock
<1>3. /\ Block \in Nat \ {0} /\ Block \in 0 .. Block
      /\ Done \in Nat /\ Done + Block <= job.length
  BY <1>1, <1>2, BlockFits, BlockPlace
<1>4. /\ disk' \in [Sectors -> Sectors]
      /\ \A s \in Sectors : s \notin job.to .. job.to + job.length - 1
                            => disk'[s] = disk[s]
      /\ BystandersUntouched'
  BY <1>2, <1>3, WriteStaysInside
<1>5. /\ JobInv' /\ ProgressInv' /\ CancelInv' /\ Done' = Done + Block
      /\ cb' \in [offset_src : Int, offset_dst : Int, length : Nat \ {0},
                   blocksize : Nat \ {0}, done : Nat, cancel : BOOLEAN]
  BY <1>2, AdvanceKeepsBooks
<1>6. TypeOK'
  BY <1>1, <1>2, <1>4, <1>5 DEF TypeOK
<1>7. RestoredIntact' /\ CancelRestores'
  BY <1>2 DEF RestoredIntact, CancelRestores, Copying
<1>8. ContentsInv'
  <2>1. SUFFICES ASSUME ~Lost
                 PROVE  /\ \A k \in Copied' \ Stale : disk'[job.to + k] = job.label + k
                        /\ \A k \in (0 .. job.length - 1) \ (Copied' \union Stale) :
                              disk'[job.from + k] = job.label + k
                        /\ ~rolling => \A s \in Sectors :
                              s - job.to \notin Copied' => disk'[s] = s
                        /\ rolling => \A k \in 0 .. fs.length - 1 :
                              fs.src + k \notin job.to .. job.to + job.length - 1
                              => disk'[fs.src + k] = fs.src + k
    <3>1. Stale' = Stale
      BY <1>2 DEF Stale, Backward
    <3> QED
      BY <1>2, <3>1 DEF ContentsInv, Lost, InOldPlace
  <2>2. /\ job.from \in Nat /\ job.to \in Nat /\ job.length \in Nat
        /\ job.label \in Nat /\ job.from # job.to
        /\ job.from + job.length <= DeviceLength
        /\ job.to + job.length <= DeviceLength
    BY <1>1, JobGeometry
  <2>3. /\ \A k \in Copied \ Stale : disk[job.to + k] = job.label + k
        /\ \A k \in (0 .. job.length - 1) \ (Copied \union Stale) :
              disk[job.from + k] = job.label + k
    BY <1>1, <2>1, Zenon DEF ContentsInv
  <2>4. rolling => \A k \in 0 .. fs.length - 1 :
              fs.src + k \notin job.to .. job.to + job.length - 1
              => disk'[fs.src + k] = fs.src + k
    <3>1. \A k \in 0 .. fs.length - 1 : fs.src + k \in Sectors
      BY <1>1, MoveGeometry DEF Sectors
    <3> QED
      BY <1>1, <1>4, <2>1, <3>1 DEF ContentsInv, InOldPlace
  <2>5. CASE Backward
    <3>7. job.from < job.to
      BY <2>2, <2>5 DEF Backward
    <3>1. /\ Copied = job.length - Done .. job.length - 1
          /\ Copied' = job.length - (Done + Block) .. job.length - 1
      BY <1>2, <1>5, <2>5 DEF Copied, Backward
    <3>2. \A s \in Sectors : disk'[s] =
            IF s \in job.to + job.length - Done - Block ..
                     job.to + job.length - Done - Block + Block - 1
            THEN disk[job.from + job.length - Done - Block
                      + (s - (job.to + job.length - Done - Block))]
            ELSE disk[s]
      BY <1>1, <1>2, <2>5, BlockPlace DEF Written
    <3>3. /\ \A k \in job.length - Done .. job.length - 1 :
                k \notin Stale => disk[job.to + k] = job.label + k
          /\ \A k \in 0 .. job.length - Done - 1 :
                k \notin Stale => disk[job.from + k] = job.label + k
      <4>1. \A k \in 0 .. job.length - Done - 1 : k \in (0 .. job.length - 1) \ Copied
        BY <1>3, <2>2, <3>1
      <4> QED
        BY <2>3, <3>1, <4>1, Zenon
    <3>4. /\ \A k \in job.length - (Done + Block) .. job.length - 1 :
                k \notin Stale => disk'[job.to + k] = job.label + k
          /\ \A k \in 0 .. job.length - (Done + Block) - 1 :
                k \notin Stale => disk'[job.from + k] = job.label + k
      BY <1>1, <1>3, <2>2, <3>7, <3>2, <3>3, BackwardBlock
    <3>5. \A k \in (0 .. job.length - 1) \ Copied' :
              k \in 0 .. job.length - (Done + Block) - 1
      BY <1>3, <2>2, <3>1
    <3>6. ASSUME ~rolling, NEW s \in Sectors, s - job.to \notin Copied'
          PROVE  disk'[s] = s
      <4>1. s - job.to \notin Copied /\ s \in Nat
        BY <1>3, <2>2, <3>1, <3>6 DEF Sectors
      <4>3. /\ s - job.to \notin job.length - (Done + Block) .. job.length - 1
            /\ Done \in Nat /\ Block \in Nat /\ job.to \in Nat /\ job.length \in Nat
        BY <1>3, <2>2, <3>1, <3>6
      <4>2. s \notin job.to + job.length - Done - Block ..
                     job.to + job.length - Done - Block + Block - 1
        BY <4>1, <4>3
      <4> QED
        BY <1>1, <2>1, <3>2, <3>6, <4>1, <4>2 DEF ContentsInv
    <3> QED
      BY <2>4, <3>1, <3>4, <3>5, <3>6
  <2>6. CASE ~Backward
    <3>7. job.to < job.from
      BY <2>2, <2>6 DEF Backward
    <3>1. Copied = 0 .. Done - 1 /\ Copied' = 0 .. Done + Block - 1
      <4>1. ~Backward'
        BY <1>2, <2>6 DEF Backward
      <4>2. Copied = 0 .. Done - 1 /\ Copied' = 0 .. Done' - 1
        BY <2>6, <4>1, Zenon DEF Copied
      <4> QED
        BY <1>3, <1>5, <4>2
    <3>2. \A s \in Sectors : disk'[s] =
            IF s \in job.to + Done .. job.to + Done + Block - 1
            THEN disk[job.from + Done + (s - (job.to + Done))]
            ELSE disk[s]
      BY <1>1, <1>2, <2>6, BlockPlace DEF Written
    <3>3. /\ \A k \in 0 .. Done - 1 :
                k \notin Stale => disk[job.to + k] = job.label + k
          /\ \A k \in Done .. job.length - 1 :
                k \notin Stale => disk[job.from + k] = job.label + k
      BY <1>3, <2>2, <2>3, <3>1
    <3>4. /\ \A k \in 0 .. Done + Block - 1 :
                k \notin Stale => disk'[job.to + k] = job.label + k
          /\ \A k \in Done + Block .. job.length - 1 :
                k \notin Stale => disk'[job.from + k] = job.label + k
      BY <1>1, <1>3, <2>2, <3>7, <3>2, <3>3, ForwardBlock
    <3>5. \A k \in (0 .. job.length - 1) \ Copied' :
              k \in Done + Block .. job.length - 1
      BY <1>3, <2>2, <3>1
    <3>6. ASSUME ~rolling, NEW s \in Sectors, s - job.to \notin Copied'
          PROVE  disk'[s] = s
      <4>1. s - job.to \notin Copied /\ s \in Nat
        BY <1>3, <2>2, <3>1, <3>6 DEF Sectors
      <4>2. s \notin job.to + Done .. job.to + Done + Block - 1
        BY <1>3, <2>2, <3>1, <3>6, <4>1
      <4> QED
        BY <1>1, <2>1, <3>2, <3>6, <4>1, <4>2 DEF ContentsInv
    <3> QED
      BY <2>4, <3>1, <3>4, <3>5, <3>6
  <2> QED
    BY <2>5, <2>6
<1> QED
  BY <1>4, <1>5, <1>6, <1>7, <1>8 DEF IInv

\* A block which cannot be read counts as done, but is booked as lost.
LEMMA ReadFailsStep == IInv /\ ReadFails => IInv'
<1> SUFFICES ASSUME IInv, ReadFails PROVE IInv'
  OBVIOUS
<1>1. /\ Copying /\ cb' = Advanced /\ faults' = faults \union {"skipped"}
      /\ UNCHANGED <<disk, fs, job, bench, total_done, uncopied, cancelflag, pc, rolling>>
  BY DEF ReadFails
<1>2. /\ JobInv' /\ ProgressInv' /\ CancelInv'
      /\ cb' \in [offset_src : Int, offset_dst : Int, length : Nat \ {0},
                   blocksize : Nat \ {0}, done : Nat, cancel : BOOLEAN]
  BY <1>1, AdvanceKeepsBooks
<1>3. TypeOK'
  BY <1>1, <1>2 DEF IInv, TypeOK
<1>4. ContentsInv'
  BY <1>1 DEF ContentsInv, Lost
<1>5. BystandersUntouched' /\ RestoredIntact' /\ CancelRestores'
  BY <1>1 DEF IInv, BystandersUntouched, RestoredIntact, CancelRestores, Copying
<1> QED
  BY <1>2, <1>3, <1>4, <1>5 DEF IInv

\* A copy which fails books the blocks it has done and leaves the last chunk.
LEMMA FailKeepsBooks ==
    ASSUME IInv, Copying, Fail, uncopied' = uncopied
    PROVE  /\ JobInv' /\ ProgressInv' /\ CancelInv' /\ Done' = Done
           /\ total_done' \in Nat
           /\ pc' \in {"select", "open", "copy", "failed", "moved", "unmoved", "broken"}
<1>1. TypeOK /\ JobInv /\ ProgressInv
  BY DEF IInv
<1>2. /\ total_done' = total_done + cb.done /\ pc = "copy"
      /\ pc' = IF rolling THEN "broken" ELSE "failed"
      /\ UNCHANGED <<fs, job, bench, cb, cancelflag, rolling>>
  BY DEF Fail, Copying
<1>3. /\ total_done \in Nat /\ cb.done \in Nat /\ cb.done < cb.length
      /\ job.length \in Nat /\ uncopied = 0
      /\ cb.length \in 1 .. job.length - total_done
  BY <1>1, <1>2 DEF TypeOK, ProgressInv, Copying
<1>4. Done' = Done
  BY <1>2, <1>3 DEF Done
<1>5. ProgressInv'
  BY <1>2, <1>3 DEF ProgressInv
<1>6. JobInv' /\ CancelInv'
  BY <1>1, <1>2, JobKept DEF CancelInv
<1> QED
  BY <1>2, <1>3, <1>4, <1>5, <1>6

\* A write which fails has changed nothing, or has torn its block.
LEMMA WriteFailsStep == IInv /\ WriteFails => IInv'
<1> SUFFICES ASSUME IInv, WriteFails PROVE IInv'
  OBVIOUS
<1>1. Copying /\ Fail /\ uncopied' = uncopied
  BY DEF WriteFails
<1>2. PICK n \in 0 .. Block :
          /\ disk' = Written(n)
          /\ faults' = faults \union (IF n = 0 THEN {"write"} ELSE {"write", "torn"})
  BY DEF WriteFails
<1>3. /\ JobInv' /\ ProgressInv' /\ CancelInv' /\ Done' = Done
      /\ total_done' \in Nat
      /\ pc' \in {"select", "open", "copy", "failed", "moved", "unmoved", "broken"}
  BY <1>1, FailKeepsBooks
<1>4. /\ UNCHANGED <<fs, job, bench, cb, cancelflag, rolling>>
      /\ pc' \in {"broken", "failed"}
  BY <1>1 DEF Fail
<1>5. disk' \in [Sectors -> Sectors] /\ BystandersUntouched'
  BY <1>1, <1>2, <1>4, WriteStaysInside
<1>6. faults' \in SUBSET {"open", "skipped", "write", "torn"} /\ "write" \in faults'
  BY <1>2 DEF IInv, TypeOK
<1>7. TypeOK'
  BY <1>1, <1>3, <1>4, <1>5, <1>6 DEF IInv, TypeOK
<1>8. RestoredIntact' /\ CancelRestores'
  BY <1>4, <1>6 DEF RestoredIntact, CancelRestores
<1>9. ContentsInv'
  <2>1. CASE n = 0
    <3>1. disk \in [Sectors -> Sectors] /\ BlockDst \in Int
      BY <1>1, BlockPlace, BlockFits, JobGeometry DEF IInv, TypeOK
    <3>2. disk' = disk
      BY <1>2, <2>1, <3>1 DEF Written
    <3>3. Lost => Lost'
      BY <1>2, <2>1 DEF Lost
    <3> QED
      BY <1>3, <1>4, <3>2, <3>3, ContentsKept DEF IInv
  <2>2. CASE n # 0
    BY <1>2, <2>2 DEF ContentsInv, Lost
  <2> QED
    BY <2>1, <2>2
<1> QED
  BY <1>3, <1>5, <1>7, <1>8, <1>9 DEF IInv

\* Only a forced cancel stops the copy of the rollback.
LEMMA CancelledBlockStep == IInv /\ CancelledBlock => IInv'
<1> SUFFICES ASSUME IInv, CancelledBlock PROVE IInv'
  OBVIOUS
<1>1. Copying /\ Fail /\ cb.cancel /\ UNCHANGED <<disk, uncopied, faults>>
  BY DEF CancelledBlock
<1>2. /\ JobInv' /\ ProgressInv' /\ CancelInv' /\ Done' = Done
      /\ total_done' \in Nat
      /\ pc' \in {"select", "open", "copy", "failed", "moved", "unmoved", "broken"}
  BY <1>1, FailKeepsBooks
<1>3. /\ UNCHANGED <<fs, job, bench, cb, cancelflag, rolling>>
      /\ pc' = IF rolling THEN "broken" ELSE "failed"
  BY <1>1 DEF Fail
<1>4. TypeOK'
  BY <1>1, <1>2, <1>3 DEF IInv, TypeOK
<1>5. BystandersUntouched' /\ RestoredIntact'
  BY <1>1, <1>3 DEF IInv, BystandersUntouched, RestoredIntact
<1>6. CancelRestores'
  BY <1>1, <1>3 DEF IInv, CancelInv, CancelRestores, Copying
<1>7. ContentsInv'
  <2>1. Lost => Lost'
    BY <1>1 DEF Lost
  <2> QED
    BY <1>1, <1>2, <1>3, <2>1, ContentsKept DEF IInv
<1> QED
  BY <1>2, <1>4, <1>5, <1>6, <1>7 DEF IInv

\* The next chunk starts where the last one has ended.
LEMMA ChunkEndsStep == IInv /\ ChunkEnds => IInv'
<1> SUFFICES ASSUME IInv, ChunkEnds PROVE IInv'
  OBVIOUS
<1>1. TypeOK /\ JobInv /\ ProgressInv /\ ContentsInv /\ BystandersUntouched
  BY DEF IInv
<1>2. /\ pc = "copy" /\ cb.done >= cb.length /\ pc' = "select"
      /\ total_done' = total_done + cb.done
      /\ UNCHANGED <<disk, fs, job, cb, uncopied, cancelflag, rolling, faults>>
  BY DEF ChunkEnds
<1>3. PICK best \in {bench.best, bench.blocksize} :
          bench' = [done |-> bench.done + cb.length,
                    blocksize |-> 2 * bench.blocksize, best |-> best]
  BY DEF ChunkEnds
<1>4. /\ total_done \in Nat /\ cb.done \in Nat /\ cb.done = cb.length
      /\ job.length \in Nat /\ bench.done = total_done /\ uncopied = 0
      /\ cb.length \in 1 .. job.length - total_done
  BY <1>1, <1>2 DEF TypeOK, ProgressInv
<1>5. /\ bench.blocksize \in Nat \ {0} /\ 2 * bench.blocksize \in Nat \ {0}
      /\ best \in Nat \ {0}
  BY <1>1 DEF TypeOK
<1>6. /\ bench' \in [done : Nat, blocksize : Nat \ {0}, best : Nat \ {0}]
      /\ bench'.done = total_done'
  BY <1>2, <1>3, <1>4, <1>5
<1>7. TypeOK' /\ BystandersUntouched'
  BY <1>1, <1>2, <1>4, <1>6 DEF TypeOK, BystandersUntouched
<1>8. ProgressInv'
  BY <1>2, <1>4, <1>6 DEF ProgressInv
<1>9. JobInv' /\ ContentsInv'
  <2>1. Done' = Done
    BY <1>2, <1>4 DEF Done
  <2>2. Lost => Lost'
    BY <1>2 DEF Lost
  <2> QED
    BY <1>1, <1>2, <2>1, <2>2, JobKept, ContentsKept
<1>10. CancelInv' /\ RestoredIntact' /\ CancelRestores'
  BY <1>2 DEF CancelInv, RestoredIntact, CancelRestores
<1> QED
  BY <1>7, <1>8, <1>9, <1>10 DEF IInv

\* What the failed copy leaves behind: the part of the file system which is
\* beyond the distance of the move from the copied end is still in its place.
LEMMA UntouchedPart ==
    ASSUME IInv, pc = "failed"
    PROVE  /\ ~rolling /\ fs.length \in Nat \ {0} /\ Distance \in Nat \ {0}
           /\ total_done \in 0 .. fs.length /\ uncopied \in 0 .. total_done
           /\ fs.src \in Nat /\ fs.dst \in Nat
           /\ ~Lost => \A k \in 0 .. fs.length - 1 :
                 (IF fs.dst > fs.src THEN k < fs.length - total_done + Distance
                                     ELSE k >= total_done - Distance)
                 \/ Distance >= fs.length
                 => InOldPlace(k)
<1>1. /\ TypeOK /\ JobInv /\ ProgressInv /\ ContentsInv /\ ~rolling
      /\ fs \in Moves /\ total_done \in Nat
  BY DEF IInv, ProgressInv, TypeOK
<1>2. /\ job.from = fs.src /\ job.to = fs.dst
      /\ job.length = fs.length /\ total_done <= fs.length /\ job.stale = 0
  BY <1>1, JobGeometry DEF ProgressInv
<1>3. uncopied \in 0 .. total_done
  BY <1>1 DEF ProgressInv, TypeOK
<1>4. Distance \in Nat \ {0}
  BY <1>1, MoveGeometry DEF Distance
<1>5. Done \in 0 .. total_done
  BY <1>1, <1>3 DEF Done
<1>6. ASSUME ~Lost, NEW k \in 0 .. fs.length - 1,
             (IF fs.dst > fs.src THEN k < fs.length - total_done + Distance
                                 ELSE k >= total_done - Distance)
             \/ Distance >= fs.length
      PROVE  InOldPlace(k)
  <2>1. fs.src + k \in Sectors
    BY <1>1, MoveGeometry DEF Sectors
  <2>2. (fs.src + k) - fs.dst \notin Copied
    <3>1. CASE Backward
      <4>1. Copied = fs.length - Done .. fs.length - 1 /\ fs.dst > fs.src
        BY <1>2, <3>1 DEF Copied, Backward
      <4>2. Distance = fs.dst - fs.src
        BY <4>1 DEF Distance
      <4>3. k < fs.length - total_done + (fs.dst - fs.src)
            \/ fs.dst - fs.src >= fs.length
        BY <1>6, <4>1, <4>2
      <4>4. /\ fs.src \in Nat /\ fs.dst \in Nat /\ fs.length \in Nat
            /\ total_done \in Nat /\ total_done <= fs.length /\ k \in 0 .. fs.length - 1
        BY <1>1, <1>2, <1>6, MoveGeometry
      <4> QED
        BY <1>5, <4>1, <4>3, <4>4, SMTT(20)
    <3>2. CASE ~Backward
      <4>1. Copied = 0 .. Done - 1 /\ ~(fs.dst > fs.src)
        BY <1>2, <3>2 DEF Copied, Backward
      <4>2. Distance = fs.src - fs.dst
        BY <4>1 DEF Distance
      <4> QED
        BY <1>1, <1>2, <1>4, <1>5, <1>6, <4>1, <4>2, MoveGeometry, SMTT(20)
    <3> QED
      BY <3>1, <3>2
  <2> QED
    BY <1>1, <1>2, <1>6, <2>1, <2>2 DEF ContentsInv, InOldPlace
<1> QED
  BY <1>1, <1>2, <1>4, <1>6, <1>3, MoveGeometry

\* A failed copy which has overwritten nothing of the old place needs no rollback.
LEMMA NoRollbackStep == IInv /\ NoRollback => IInv'
<1> SUFFICES ASSUME IInv, NoRollback PROVE IInv'
  OBVIOUS
<1>1. TypeOK /\ JobInv /\ ProgressInv /\ ContentsInv /\ BystandersUntouched
  BY DEF IInv
<1>2. /\ pc = "failed" /\ ~RollbackNeeded /\ pc' = "unmoved"
      /\ UNCHANGED <<disk, fs, job, bench, cb, total_done, uncopied, cancelflag, rolling, faults>>
  BY DEF NoRollback
<1>3. /\ TypeOK' /\ ProgressInv' /\ CancelInv' /\ BystandersUntouched'
      /\ CancelRestores'
  BY <1>1, <1>2
     DEF TypeOK, ProgressInv, CancelInv, BystandersUntouched, CancelRestores
<1>4. JobInv' /\ ContentsInv'
  <2>1. Done' = Done /\ (Lost => Lost')
    BY <1>2 DEF Done, Lost
  <2> QED
    BY <1>1, <1>2, <2>1, JobKept, ContentsKept
<1>5. RestoredIntact'
  <2>1. SUFFICES ASSUME ~Lost, NEW k \in 0 .. fs.length - 1
                 PROVE  InOldPlace(k)
    BY <1>2 DEF RestoredIntact, InOldPlace, Lost
  <2>2. Distance >= fs.length \/ total_done <= Distance
    BY <1>2, UntouchedPart DEF RollbackNeeded, Overlap
  <2>3. \/ IF fs.dst > fs.src THEN k < fs.length - total_done + Distance
                              ELSE k >= total_done - Distance
        \/ Distance >= fs.length
    BY <1>2, <2>2, UntouchedPart
  <2> QED
    BY <1>2, <2>1, <2>3, UntouchedPart
<1> QED
  BY <1>3, <1>4, <1>5 DEF IInv

\* The rollback starts with every sector which the move has overwritten in the
\* old place still in the new one, and the others in the old place.
LEMMA RollbackStep == IInv /\ Rollback => IInv'
<1> SUFFICES ASSUME IInv, Rollback PROVE IInv'
  OBVIOUS
<1>1. TypeOK /\ JobInv /\ ProgressInv /\ ContentsInv /\ BystandersUntouched
  BY DEF IInv
<1> DEFINE length == total_done - Distance
           back == IF fs.dst > fs.src THEN fs.length - length ELSE 0
<1>2. /\ pc = "failed" /\ RollbackNeeded /\ pc' = "select"
      /\ job' = Job(fs.dst + back, fs.src + back, length, fs.src + back,
                    NeverArrived, FALSE)
      /\ bench' = NewBench /\ total_done' = 0 /\ uncopied' = 0 /\ rolling' = TRUE
      /\ UNCHANGED <<disk, fs, cb, cancelflag, faults>>
  BY DEF Rollback
<1>3. /\ ~rolling /\ fs.length \in Nat \ {0} /\ Distance \in Nat \ {0}
      /\ Distance < fs.length /\ total_done \in 0 .. fs.length
      /\ uncopied \in 0 .. total_done /\ NeverArrived \in 0 .. length
      /\ fs.src \in Nat /\ fs.dst \in Nat
      /\ length \in 1 .. fs.length - Distance
  BY <1>2, UntouchedPart DEF RollbackNeeded, Overlap, NeverArrived
<1>4. back \in Nat /\ back + length <= fs.length
  BY <1>3
<1>5. /\ job'.from = fs.dst + back /\ job'.to = fs.src + back
      /\ job'.length = length /\ job'.label = fs.src + back /\ job'.safe = FALSE
      /\ job'.stale = NeverArrived
  BY <1>2 DEF Job
<1>6. TypeOK'
  <2>1. job' \in [from : Nat, to : Nat, length : Nat, label : Nat, stale : Nat,
                  safe : BOOLEAN]
    <3>1. /\ fs.dst + back \in Nat /\ fs.src + back \in Nat /\ length \in Nat
          /\ NeverArrived \in Nat
      BY <1>3, <1>4
    <3> HIDE DEF back, length
    <3> QED
      BY <1>2, <3>1 DEF Job
  <2>2. bench' \in [done : Nat, blocksize : Nat \ {0}, best : Nat \ {0}]
    BY <1>1, <1>2, MoveGeometry DEF NewBench, TypeOK
  <2> QED
    BY <1>1, <1>2, <2>1, <2>2 DEF TypeOK
<1>7. JobInv'
  <2>1. Overlap' /\ Distance' = Distance
    BY <1>2, <1>3 DEF Overlap, Distance
  <2>2. job' = Job(fs.dst + back, fs.src + back, job'.length, fs.src + back,
                   job'.stale, FALSE)
    BY <1>2, <1>5
  <2>3. back = IF fs'.dst > fs'.src THEN fs'.length - job'.length ELSE 0
    BY <1>2, <1>5
  <2>4. job'.length \in 1 .. fs'.length - Distance'
    BY <1>2, <1>3, <1>5, <2>1
  <2>5. job'.stale <= job'.length
    BY <1>3, <1>5
  <2> HIDE DEF back, length
  <2> QED
    BY <1>2, <2>1, <2>2, <2>3, <2>4, <2>5 DEF JobInv, Job
<1>8. ProgressInv'
  <2>1. 0 <= job'.length
    BY <1>3, <1>5
  <2> HIDE DEF back, length
  <2>2. bench'.done = 0 /\ total_done' = 0 /\ uncopied' = 0 /\ pc' = "select"
    BY <1>2 DEF NewBench
  <2> QED
    BY <2>1, <2>2 DEF ProgressInv
<1>9. CancelInv' /\ RestoredIntact' /\ CancelRestores' /\ BystandersUntouched'
  BY <1>1, <1>2 DEF CancelInv, RestoredIntact, CancelRestores, BystandersUntouched
<1>10. ContentsInv'
  <2>1. SUFFICES ASSUME ~Lost
                 PROVE  /\ Copied' = {}
                        /\ \A k \in (0 .. length - 1) \ Stale' :
                              disk[fs.dst + back + k] = fs.src + back + k
                        /\ \A k \in 0 .. fs.length - 1 :
                              fs.src + k \notin fs.src + back .. fs.src + back + length - 1
                              => InOldPlace(k)
    <3>1. Lost' = Lost
      BY <1>2 DEF Lost
    <3>2. \A k \in Int : InOldPlace(k)' = InOldPlace(k)
      BY <1>2 DEF InOldPlace
    <3> HIDE DEF back, length
    <3> QED
      BY <1>2, <1>5, <3>1, <3>2 DEF ContentsInv, InOldPlace
  <2>2. Copied' = {}
    <3>1. Done' = 0
      BY <1>2 DEF Done
    <3> QED
      BY <1>3, <1>5, <3>1 DEF Copied
  <2>3. ASSUME NEW k \in (0 .. length - 1) \ Stale'
        PROVE  disk[fs.dst + back + k] = fs.src + back + k
    <3>1. /\ job.to = fs.dst /\ job.from = fs.src /\ job.label = fs.src
          /\ job.length = fs.length /\ job.stale = 0 /\ fs.src # fs.dst
      BY <1>1, <1>3, JobGeometry, MoveGeometry DEF TypeOK
    <3>2. Done = total_done - uncopied
      BY <1>2 DEF Done
    <3>3. back + k \in Copied \ Stale
      <4>1. Stale = {}
        BY <1>3, <3>1 DEF Stale
      <4>2. CASE fs.dst > fs.src
        <5>1. Backward /\ ~Backward'
          BY <1>3, <1>4, <1>5, <3>1, <4>2 DEF Backward
        <5>2. k \notin 0 .. NeverArrived - 1
          BY <1>5, <2>3, <5>1 DEF Stale
        <5>3. k >= NeverArrived /\ NeverArrived >= uncopied - Distance
          BY <1>3, <2>3, <5>2 DEF NeverArrived
        <5> QED
          BY <1>3, <2>3, <3>1, <3>2, <4>1, <4>2, <5>1, <5>3 DEF Copied
      <4>3. CASE ~(fs.dst > fs.src)
        <5>1. ~Backward /\ Backward'
          BY <1>3, <1>4, <1>5, <3>1, <4>3 DEF Backward
        <5>2. k \notin length - NeverArrived .. length - 1
          BY <1>5, <2>3, <5>1 DEF Stale
        <5>3. k < length - NeverArrived /\ NeverArrived >= uncopied - Distance
          BY <1>3, <2>3, <5>2 DEF NeverArrived
        <5> QED
          BY <1>3, <2>3, <3>1, <3>2, <4>1, <4>3, <5>1, <5>3 DEF Copied
      <4> QED
        BY <4>2, <4>3
    <3>4. disk[job.to + (back + k)] = job.label + (back + k)
      BY <1>1, <2>1, <3>3, Zenon DEF ContentsInv
    <3>5. /\ fs.dst + (back + k) = fs.dst + back + k
          /\ fs.src + (back + k) = fs.src + back + k
      BY <1>3, <1>4
    <3> QED
      BY <3>1, <3>4, <3>5
  <2>4. ASSUME NEW k \in 0 .. fs.length - 1,
               fs.src + k \notin fs.src + back .. fs.src + back + length - 1
        PROVE  InOldPlace(k)
    <3>1. IF fs.dst > fs.src THEN k < fs.length - total_done + Distance
                             ELSE k >= total_done - Distance
      BY <1>3, <2>4
    <3> HIDE DEF back, length
    <3> QED
      BY <1>2, <2>1, <3>1, UntouchedPart
  <2> QED
    BY <2>2, <2>3, <2>4
<1> QED
  BY <1>6, <1>7, <1>8, <1>9, <1>10 DEF IInv

\* Pressing cancel reaches a rollback only when it forces.
LEMMA CancelStep == IInv /\ Cancel => IInv'
<1> SUFFICES ASSUME IInv, Cancel PROVE IInv'
  OBVIOUS
<1>1. TypeOK /\ JobInv /\ ProgressInv /\ CancelInv /\ ContentsInv
  BY DEF IInv
<1> DEFINE cancelled == cb.cancel \/ cancelflag' = 2 \/ job.safe
<1>2. /\ pc \in {"select", "open", "copy", "failed"} /\ cancelflag < 2
      /\ cancelflag' = cancelflag + 1 /\ cb' = [cb EXCEPT !.cancel = cancelled]
      /\ UNCHANGED <<disk, fs, job, bench, total_done, uncopied, pc, rolling, faults>>
  BY DEF Cancel
<1>3. cancelled \in BOOLEAN
  BY Zenon
<1>4. cancelled /\ rolling => cb.cancel \/ cancelflag' = 2
  BY <1>1, JobGeometry
<1> HIDE DEF cancelled
<1>5. /\ cb' \in [offset_src : Int, offset_dst : Int, length : Nat \ {0},
                   blocksize : Nat \ {0}, done : Nat, cancel : BOOLEAN]
      /\ cb'.offset_src = cb.offset_src /\ cb'.offset_dst = cb.offset_dst
      /\ cb'.length = cb.length /\ cb'.blocksize = cb.blocksize
      /\ cb'.done = cb.done /\ cb'.cancel = cancelled
  BY <1>1, <1>2, <1>3 DEF TypeOK
<1>6. cancelflag' \in 0 .. 2
  BY <1>1, <1>2 DEF TypeOK
<1>7. TypeOK'
  BY <1>1, <1>2, <1>5, <1>6 DEF TypeOK
<1>8. Done' = Done /\ (Lost => Lost') /\ Backward' = Backward
  BY <1>2, <1>5 DEF Done, Lost, Backward
<1>9. ProgressInv'
  BY <1>1, <1>2, <1>5, <1>8 DEF ProgressInv
<1>10. JobInv' /\ ContentsInv'
  BY <1>1, <1>2, <1>8, JobKept, ContentsKept
<1>11. CancelInv'
  BY <1>1, <1>2, <1>4, <1>5 DEF CancelInv, TypeOK
<1>12. BystandersUntouched' /\ RestoredIntact' /\ CancelRestores'
  BY <1>2 DEF IInv, BystandersUntouched, RestoredIntact, CancelRestores
<1> QED
  BY <1>7, <1>9, <1>10, <1>11, <1>12 DEF IInv

----------------------------------------------------------------------------
(* The theorems.                                                           *)

\* Every step of a move, of its failures and of its rollback keeps the invariant.
LEMMA NextIInv == IInv /\ [Next]_vars => IInv'
<1> SUFFICES ASSUME IInv, [Next]_vars PROVE IInv'
  OBVIOUS
<1>1. CASE BenchmarkChunk
  BY <1>1, BenchmarkChunkStep
<1>2. CASE RemainingChunk
  BY <1>2, RemainingChunkStep
<1>3. CASE CopyEnds
  BY <1>3, CopyEndsStep
<1>4. CASE CopyBlock
  BY <1>4, CopyBlockStep
<1>5. CASE ReadFails
  BY <1>5, ReadFailsStep
<1>6. CASE WriteFails
  BY <1>6, WriteFailsStep
<1>7. CASE CancelledBlock
  BY <1>7, CancelledBlockStep
<1>8. CASE ChunkEnds
  BY <1>8, ChunkEndsStep
<1>9. CASE Rollback
  BY <1>9, RollbackStep
<1>10. CASE NoRollback
  BY <1>10, NoRollbackStep
<1>11. CASE Cancel
  BY <1>11, CancelStep
<1>12. CASE OpenDevices
  BY <1>12, OpenDevicesStep
<1>13. CASE OpenFails
  BY <1>13, OpenFailsStep
<1>14. CASE UNCHANGED vars
  <2>1. UNCHANGED <<disk, fs, job, bench, cb, total_done, uncopied, cancelflag, pc,
                    rolling, faults>>
    BY <1>14 DEF vars
  <2>2. Done' = Done /\ (Lost => Lost') /\ Backward' = Backward
    BY <2>1 DEF Done, Lost, Backward
  <2>3. TypeOK' /\ BystandersUntouched' /\ RestoredIntact' /\ CancelRestores'
    BY <2>1 DEF IInv, TypeOK, BystandersUntouched, RestoredIntact, InOldPlace,
                CancelRestores, Lost, Overwritten, Stale, Backward
  <2>4. ProgressInv' /\ CancelInv'
    BY <2>1, <2>2 DEF IInv, ProgressInv, CancelInv
  <2>5. JobInv' /\ ContentsInv'
    BY <2>1, <2>2, JobKept, ContentsKept DEF IInv
  <2> QED
    BY <2>3, <2>4, <2>5 DEF IInv
<1> QED
  BY <1>1, <1>2, <1>3, <1>4, <1>5, <1>6, <1>7, <1>8, <1>9, <1>10, <1>11, <1>12,
     <1>13, <1>14 DEF Next

\* The invariant holds of every move on every device.
THEOREM Invariance == Spec => []IInv
  BY InitIInv, NextIInv, PTL DEF Spec

\* The state of copy_blocks() and CopyBlocks keeps its types.
THEOREM TypeCorrect == Spec => []TypeOK
<1>1. IInv => TypeOK
  BY DEF IInv
<1> QED
  BY <1>1, Invariance, PTL

\* What pc says of a move which has ended well is true of the disk.
LEMMA MovedIntactInv == IInv => MovedIntact
<1> SUFFICES ASSUME IInv, pc = "moved", ~Lost, NEW k \in 0 .. fs.length - 1
             PROVE  InNewPlace(k)
  BY DEF MovedIntact
<1>1. /\ ~rolling /\ total_done = job.length /\ Done = total_done
      /\ fs \in Moves
  BY DEF IInv, TypeOK, ProgressInv, Done
<1>2. /\ job.to = fs.dst /\ job.label = fs.src /\ job.length = fs.length
      /\ fs.length \in Nat /\ job.stale = 0
  BY <1>1, JobGeometry, MoveGeometry DEF IInv
<1>3. k \in Copied /\ k \notin Stale
  BY <1>1, <1>2 DEF Copied, Stale
<1> QED
  BY <1>2, <1>3 DEF IInv, ContentsInv, InNewPlace

\* A move reported as done has brought every sector to its new place: no block
\* of an overlapping move is overwritten before it has been copied.
THEOREM MoveBringsEverything == Spec => []MovedIntact
BY MovedIntactInv, Invariance, PTL

\* A move which is given up, with a rollback or without one, leaves the file
\* system where it was.  Only sectors counted as done by a CopyBlocks whose devices
\* did not open, beyond the distance of the move, are not promised.
THEOREM GivingUpRestores == Spec => []RestoredIntact
<1>1. IInv => RestoredIntact
  BY DEF IInv
<1> QED
  BY <1>1, Invariance, PTL

\* At every moment of a move and of its rollback, whatever has failed, each
\* sector of the file system is in its old or in its new place, or is one the
\* rollback overwrites without a copy of it.
LEMMA NothingLostInv == IInv => NothingLost
<1> SUFFICES ASSUME IInv, ~Lost, NEW k \in 0 .. fs.length - 1, ~Overwritten(k)
             PROVE  InOldPlace(k) \/ InNewPlace(k)
  BY DEF NothingLost
<1>1. /\ TypeOK /\ JobInv /\ fs \in Moves
      /\ \A j \in Copied \ Stale : disk[job.to + j] = job.label + j
      /\ \A j \in (0 .. job.length - 1) \ (Copied \union Stale) :
            disk[job.from + j] = job.label + j
      /\ rolling => \A j \in 0 .. fs.length - 1 :
            fs.src + j \notin job.to .. job.to + job.length - 1 => InOldPlace(j)
  BY Zenon DEF IInv, TypeOK, ContentsInv
<1>2. /\ fs.src \in Nat /\ fs.dst \in Nat /\ job.to \in Nat /\ job.from \in Nat
      /\ job.length \in Nat /\ k \in Nat
  BY <1>1, JobGeometry, MoveGeometry
<1>3. CASE ~rolling
  <2>1. /\ job.to = fs.dst /\ job.from = fs.src /\ job.label = fs.src
        /\ job.length = fs.length /\ job.stale = 0
    BY <1>1, <1>3, JobGeometry
  <2>2. k \notin Stale
    BY <1>2, <2>1 DEF Stale
  <2> QED
    BY <1>1, <2>1, <2>2 DEF InOldPlace, InNewPlace
<1>4. CASE rolling /\ fs.src + k \notin job.to .. job.to + job.length - 1
  BY <1>1, <1>4
<1>5. CASE rolling /\ fs.src + k \in job.to .. job.to + job.length - 1
  <2> DEFINE j == fs.src + k - job.to
  <2>1. job.label = job.to /\ job.from - job.to = fs.dst - fs.src
    BY <1>1, <1>5, JobGeometry
  <2>2. /\ j \in 0 .. job.length - 1
        /\ job.to + j = fs.src + k /\ job.from + j = fs.dst + k
    BY <1>2, <1>5, <2>1
  <2>3. j \notin Stale
    BY <1>5 DEF Overwritten
  <2> HIDE DEF j
  <2> QED
    BY <1>1, <2>1, <2>2, <2>3 DEF InOldPlace, InNewPlace
<1> QED
  BY <1>3, <1>4, <1>5

\* So nothing else of the file system is ever lost.
THEOREM NothingIsLost == Spec => []NothingLost
BY NothingLostInv, Invariance, PTL

\* The copier and the rollback write nothing outside the two places.
THEOREM WritesStayInside == Spec => []BystandersUntouched
<1>1. IInv => BystandersUntouched
  BY DEF IInv
<1> QED
  BY <1>1, Invariance, PTL

\* A cancel which does not force cannot break the rollback it starts.
THEOREM CancelIsSafe == Spec => []CancelRestores
<1>1. IInv => CancelRestores
  BY DEF IInv
<1> QED
  BY <1>1, Invariance, PTL
----------------------------------------------------------------------------
(* The refinement.  The steps of the copier and of the rollback change what   *)
(* is whole in which place, the steps which end the move are Abstract!End.    *)

\* A fresh disk has the whole file system in its old place.
LEMMA InitAbstract == Init => Abstract!Init
<1> SUFFICES ASSUME Init
             PROVE  Abstract!Init
  OBVIOUS
<1>1. /\ fs \in Moves /\ fs.src \in Nat /\ fs.dst \in Nat
      /\ fs.length \in Nat \ {0} /\ fs.src # fs.dst
      /\ fs.src + fs.length <= DeviceLength
      /\ fs.dst + fs.length <= DeviceLength
  BY MoveAssumption DEF Init
<1>2. \A k \in 0 .. fs.length - 1 :
         /\ InOldPlace(k) /\ ~InNewPlace(k)
  BY <1>1, MoveAssumption DEF Init, Sectors, InOldPlace, InNewPlace
<1>3. ~Damaged /\ ~Ended
  BY DEF Init, Damaged, Lost, Overwritten, Ended
<1> QED
  BY <1>1, <1>2, <1>3 DEF Abstract!Init, Abstract!Parts

\* The disk does not get its data back, the move stays the same, and a move which
\* has ended does nothing more.
LEMMA StepShape == ASSUME [Next]_vars
                   PROVE  /\ fs' = fs
                          /\ Lost => Lost'
                          /\ Ended => UNCHANGED vars
<1>1. fs' = fs
  BY DEF Next, vars, BenchmarkChunk, RemainingChunk, CopyEnds, CopyBlock, OpenDevices,
         OpenFails, ReadFails, WriteFails, CancelledBlock, ChunkEnds, Rollback,
         NoRollback, Cancel, Fail
<1>2. faults \subseteq faults'
  BY DEF Next, vars, BenchmarkChunk, RemainingChunk, CopyEnds, CopyBlock, OpenDevices,
         OpenFails, ReadFails, WriteFails, CancelledBlock, ChunkEnds, Rollback,
         NoRollback, Cancel, Fail
<1>3. Ended => UNCHANGED vars
  BY DEF Ended, Next, vars, BenchmarkChunk, RemainingChunk, CopyEnds, CopyBlock,
         OpenDevices, OpenFails, ReadFails, WriteFails, CancelledBlock, ChunkEnds,
         Rollback, NoRollback, Cancel, Copying
<1> QED
  BY <1>1, <1>2, <1>3 DEF Lost

\* What is damaged stays damaged: a rollback keeps its job.
LEMMA DamageStays ==
    ASSUME IInv, [Next]_vars
    PROVE  Damaged => Damaged'
<1>1. fs' = fs /\ (Lost => Lost')
  BY StepShape
<1>2. CASE Rollback
  BY <1>1, <1>2 DEF Rollback, IInv, ProgressInv, Damaged, Overwritten
<1>3. CASE ~Rollback
  <2>1. UNCHANGED <<job, rolling>>
    BY <1>3 DEF Next, vars, BenchmarkChunk, RemainingChunk, CopyEnds, CopyBlock,
       OpenDevices, OpenFails, ReadFails, WriteFails, CancelledBlock, ChunkEnds,
       NoRollback, Cancel, Fail
  <2> QED
    BY <1>1, <2>1 DEF Damaged, Overwritten, Stale, Backward
<1> QED
  BY <1>2, <1>3

\* A step of the code is a step of the abstract move or changes none of it.
LEMMA NextAbstract ==
    ASSUME IInv, IInv', NothingLost', MovedIntact', [Next]_vars
    PROVE  [Abstract!Next]_(Abstract!vars)
<1> DEFINE Old == {k \in 0 .. fs.length - 1 : InOldPlace(k)}
           New == {k \in 0 .. fs.length - 1 : InNewPlace(k)}
           Result == IF Ended THEN pc ELSE "moving"
<1>1. fs' = fs /\ (Damaged => Damaged') /\ (Ended => UNCHANGED vars)
  BY StepShape, DamageStays
<1>2. CASE Ended
  BY <1>1, <1>2 DEF vars, Abstract!vars, Ended, Damaged, Lost,
     Overwritten, Stale, Backward, InOldPlace, InNewPlace
<1>3. CASE ~Ended
  <2>1. Result = "moving"
    BY <1>3
  <2>2. Result' \in {"moving", "moved", "unmoved", "broken"}
    BY DEF Ended
  <2>3. /\ Old' \subseteq 0 .. fs.length - 1 /\ New' \subseteq 0 .. fs.length - 1
    BY <1>1
  <2>4. ~Damaged' => Old' \union New' = 0 .. fs.length - 1
    BY <1>1 DEF NothingLost, Damaged
  <2>5. Result' = "moved" /\ ~Damaged' => New' = 0 .. fs.length - 1
    BY <1>1 DEF MovedIntact, Ended, Damaged
  <2>6. Result' = "unmoved" /\ ~Damaged' => Old' = 0 .. fs.length - 1
    BY <1>1 DEF IInv, RestoredIntact, Ended, Damaged
  <2>7. Abstract!Transfer
    BY <1>1, <2>3, <2>4 DEF Abstract!Transfer, Abstract!Parts
  <2>8. CASE Result' = "moving"
    <3>1. Abstract!Work
      BY <1>1, <2>1, <2>7, <2>8 DEF Abstract!Work
    <3> QED
      BY <3>1 DEF Abstract!Next
  <2>9. CASE Result' # "moving"
    <3>1. Abstract!End
      BY <1>1, <2>1, <2>2, <2>5, <2>6, <2>7, <2>9
      DEF Abstract!End, Abstract!Parts
    <3> QED
      BY <3>1 DEF Abstract!Next
  <2> QED
    BY <2>8, <2>9
<1> QED
  BY <1>2, <1>3

\* Copier and rollback together implement the all-or-nothing move, apart from its
\* liveness.
THEOREM RefinesAbstractMove == Spec => Abstract!Init /\ [][Abstract!Next]_(Abstract!vars)
<1>1. IInv' => NothingLost' /\ MovedIntact'
  <2>1. IInv => NothingLost /\ MovedIntact
    BY NothingLostInv, MovedIntactInv
  <2> QED
    BY <2>1, PTL
<1>2. IInv /\ IInv' /\ [Next]_vars => [Abstract!Next]_(Abstract!vars)
  BY <1>1, NextAbstract
<1> QED
  BY <1>2, InitAbstract, Invariance, PTL DEF Spec
=============================================================================
