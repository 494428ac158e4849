------------------------ MODULE FileSystemUsage_proofs ------------------------
(***************************************************************************)
(* The figures of a file system stay true: whatever its program prints or  *)
(* leaves out, whatever the sizes of sectors and blocks, and however many  *)
(* resizes and pastes are queued, the figures shown add up and no dialog   *)
(* lets a partition become smaller than what its file system holds.        *)
(***************************************************************************)
EXTENDS FileSystemUsage, TLAPS

-----------------------------------------------------------------------------
(* Division and rounding                                                   *)

LEMMA DivBounds ==
    ASSUME NEW a \in Int, NEW b \in Nat \ {0}
    PROVE  a \div b \in Int /\ (a \div b) * b <= a /\ a <= (a \div b) * b + b - 1
OBVIOUS

LEMMA DivExact ==
    ASSUME NEW q \in Int, NEW b \in Nat \ {0}
    PROVE  (q * b) \div b = q
OBVIOUS

LEMMA ModZero ==
    ASSUME NEW a \in Int, NEW b \in Nat \ {0}, a % b = 0
    PROVE  a = (a \div b) * b
OBVIOUS

LEMMA ProductIsInt ==
    ASSUME NEW a \in Int, NEW b \in Int
    PROVE  a * b \in Int
OBVIOUS

LEMMA ProductIsNat ==
    ASSUME NEW a \in Nat, NEW b \in Nat
    PROVE  a * b \in Nat
OBVIOUS

LEMMA ProductMonotone ==
    ASSUME NEW a \in Int, NEW b \in Int, a <= b, NEW c \in Nat
    PROVE  a * c <= b * c
OBVIOUS

LEMMA ProductCancels ==
    ASSUME NEW a \in Int, NEW b \in Int, NEW c \in Nat \ {0}, a * c <= b * c
    PROVE  a <= b
OBVIOUS

LEMMA Distributes ==
    ASSUME NEW a \in Int, NEW b \in Int, NEW c \in Int
    PROVE  (a + b) * c = a * c + b * c /\ (a - b) * c = a * c - b * c
OBVIOUS

\* A multiple of a multiple is one.
\* Names for what the lemma says, by which it can be found.
Times(a, b) == a * b
Whole(x, c) == x = (x \div c) * c

LEMMA MultipleIsWhole ==
    ASSUME NEW a \in Int, NEW b \in Nat \ {0}, NEW c \in Nat \ {0}, b % c = 0
    PROVE  Whole(Times(a, b), c)
<1> DEFINE q == b \div c
<1>1. q \in Int /\ b = q * c
  BY DivBounds, ModZero
<1>2. a * b = (a * q) * c
  <2> HIDE DEF q
  <2> QED
    BY <1>1
<1>3. a * q \in Int
  BY <1>1, ProductIsInt
<1> DEFINE k == a * q
<1> HIDE DEF q, k
<1>4. (k * c) \div c = k
  BY <1>3, DivExact DEF k
<1>5. a * b = k * c
  BY <1>2 DEF k
<1> QED
  BY <1>4, <1>5 DEF Whole, Times

LEMMA RoundedUpBounds ==
    ASSUME NEW a \in Int, NEW b \in Nat \ {0}
    PROVE  RoundedUp(a, b) \in Int /\ a <= RoundedUp(a, b) * b /\ RoundedUp(a, b) * b <= a + b - 1
<1>1. a + b - 1 \in Int
  OBVIOUS
<1> QED
  BY <1>1, DivBounds DEF RoundedUp

LEMMA RoundedUpExact ==
    ASSUME NEW q \in Int, NEW b \in Nat \ {0}
    PROVE  RoundedUp(q * b, b) = q
<1> DEFINE r == RoundedUp(q * b, b)
<1>1. r \in Int /\ q * b <= r * b /\ r * b <= q * b + b - 1
  BY ProductIsInt, RoundedUpBounds
<1> HIDE DEF r
<1>2. q <= r
  BY <1>1, ProductCancels
<1>3. (r - q) * b <= b - 1
  BY <1>1, Distributes
<1>4. r - q < 1
  BY <1>1, <1>3
<1> QED
  BY <1>1, <1>2, <1>4 DEF r

LEMMA MinOfTwo ==
    ASSUME NEW a \in Int, NEW b \in Int
    PROVE  Min({a, b}) = IF a <= b THEN a ELSE b
BY DEF Min

LEMMA MaxOfTwo ==
    ASSUME NEW a \in Int, NEW b \in Int
    PROVE  Max({a, b}) = IF a >= b THEN a ELSE b
BY DEF Max

-----------------------------------------------------------------------------
(* How a capability is done                                                *)

LEMMA HowIsStrongest ==
    ASSUME NEW type, NEW env, NEW cap, \A r \in Rules(type) : r.how \in {GPARTED, LIBPARTED, EXTERNAL}
    PROVE  LET serving == {r \in Rules(type) : cap \in r.caps /\ r.need \subseteq env}
           IN  /\ get_fs(type, env, cap) \in {NONE} \cup {r.how : r \in serving}
               /\ \A r \in serving : r.how <= get_fs(type, env, cap)
<1> DEFINE serving == {r \in Rules(type) : cap \in r.caps /\ r.need \subseteq env}
           all == {NONE} \cup {r.how : r \in serving}
<1>1. all \subseteq {0, 1, 2, 3} /\ 0 \in all
  BY DEF NONE, GPARTED, LIBPARTED, EXTERNAL
<1>2. \E x \in all : \A y \in all : x >= y
  <2> HIDE DEF all
  <2>1. CASE 3 \in all
    BY <1>1, <2>1
  <2>2. CASE 3 \notin all /\ 2 \in all
    BY <1>1, <2>2
  <2>3. CASE 3 \notin all /\ 2 \notin all /\ 1 \in all
    BY <1>1, <2>3
  <2>4. CASE 3 \notin all /\ 2 \notin all /\ 1 \notin all
    BY <1>1, <2>4
  <2> QED
    BY <2>1, <2>2, <2>3, <2>4
<1>3. Max(all) \in all /\ \A y \in all : Max(all) >= y
  BY <1>2 DEF Max
<1>4. \A r \in serving : r.how \in all
  OBVIOUS
<1>5. get_fs(type, env, cap) = Max(all)
  BY DEF get_fs
<1>6. \A r \in serving : r.how <= Max(all)
  <2> HIDE DEF serving, all
  <2> QED
    BY <1>1, <1>3, <1>4
<1> QED
  BY <1>3, <1>5, <1>6

\* A LUKS volume tells its size by itself.
LEMMA LuksIsRead ==
    ASSUME NEW env, NEW cap \in {"read", "online_read"}
    PROVE  get_fs("luks", env, cap) = EXTERNAL
<1>1. Rules("luks") = luks
  BY DEF Rules, supported_filesystem, SupportedFileSystems
<1>2. \A r \in luks : r.how \in {GPARTED, LIBPARTED, EXTERNAL}
  BY DEF luks, Internal, With, Growing, Rule
<1> DEFINE rule == Rule({"busy", "read", "online_read"}, EXTERNAL, {})
<1>3. rule \in luks /\ cap \in rule.caps /\ rule.need \subseteq env /\ rule.how = EXTERNAL
  BY DEF luks, With, Rule
<1>4. /\ get_fs("luks", env, cap) \in {0, 1, 2, 3}
      /\ rule.how <= get_fs("luks", env, cap)
  BY <1>1, <1>2, <1>3, HowIsStrongest DEF NONE, GPARTED, LIBPARTED, EXTERNAL
<1> QED
  BY <1>3, <1>4 DEF EXTERNAL

\* Swap space in use is not shrunk.
LEMMA BusySwapStays ==
    ASSUME NEW env
    PROVE  get_fs("linux_swap", env, "online_shrink") = NONE
<1>1. Rules("linux_swap") = linux_swap
  BY DEF Rules, supported_filesystem, SupportedFileSystems
<1>2. \A r \in linux_swap : r.how \in {GPARTED, LIBPARTED, EXTERNAL} /\ "online_shrink" \notin r.caps
  BY DEF linux_swap, Internal, With, Formats, Rule
<1> QED
  BY <1>1, <1>2, HowIsStrongest

\* The types whose usage a program tells
Told == {"bcachefs", "btrfs", "exfat", "ext2", "ext3", "ext4", "f2fs", "fat", "jfs", "linux_swap",
         "luks", "lvm2_pv", "nilfs2", "ntfs", "reiser4", "reiserfs", "udf", "xfs"}

LEMMA ToldByProgram ==
    ASSUME NEW type, supported_filesystem(type), NEW env, NEW cap \in {"read", "online_read"},
           get_fs(type, env, cap) = EXTERNAL
    PROVE  type \in Told
<1> SUFFICES ASSUME type \in {"hfs", "hfsplus", "minix"}
             PROVE  FALSE
  BY DEF supported_filesystem, SupportedFileSystems, Told
<1>1. /\ Rules("hfs") = hfs /\ Rules("hfsplus") = hfsplus /\ Rules("minix") = minix
  BY DEF Rules, supported_filesystem, SupportedFileSystems
<1>2. \A r \in hfs \cup hfsplus \cup minix :
        /\ r.how \in {GPARTED, LIBPARTED, EXTERNAL}
        /\ r.how = EXTERNAL => "read" \notin r.caps /\ "online_read" \notin r.caps
  BY DEF hfs, hfsplus, minix, Internal, With, Formats, Rule, GPARTED, LIBPARTED, EXTERNAL
<1>3. \A r \in Rules(type) :
        /\ r.how \in {GPARTED, LIBPARTED, EXTERNAL}
        /\ r.how = EXTERNAL => cap \notin r.caps
  BY <1>1, <1>2
<1> QED
  BY <1>3, HowIsStrongest DEF NONE, EXTERNAL
-----------------------------------------------------------------------------
(* The usage of a partition                                                *)

Usages == [length : Int, ss : Nat \ {0}, used : Int, unused : Int, unallocated : Int,
           threshold : Nat \ {0}]

\* The figures add up, or there are none.
Sound(p) ==
    /\ p \in Usages
    /\ IF sector_usage_known(p)
       THEN p.unallocated >= 0 /\ p.used + p.unused + p.unallocated = p.length
       ELSE p.used = -1 /\ p.unused = -1 /\ p.unallocated = 0

LEMMA SignificantIsOne ==
    ASSUME NEW length \in Int, NEW ss \in Nat
    PROVE  Significant(length, ss) \in Nat \ {0}
<1> DEFINE bytes == length * ss
           fraction == IF bytes <= 100 * MEBIBYTE THEN [num |-> 1, den |-> 20]
                       ELSE IF bytes <= 1024 * MEBIBYTE
                       THEN [num |-> 4920 * MEBIBYTE - 3 * bytes, den |-> 92400 * MEBIBYTE]
                       ELSE [num |-> 1, den |-> 50]
           share == Rounded(length * fraction.num, fraction.den)
<1>1. MEBIBYTE \in Nat \ {0} /\ bytes \in Int
  BY UsageAssumption, ProductIsInt
<1>2. fraction.num \in Int /\ fraction.den \in Nat \ {0}
  <2> HIDE DEF bytes
  <2> QED
    BY <1>1
<1>3. length * fraction.num \in Int
  <2> HIDE DEF fraction
  <2> QED
    BY <1>2, ProductIsInt
<1>4. share \in Int
  <2> DEFINE a == 2 * (length * fraction.num) + fraction.den
             b == 2 * fraction.den
  <2>1. a \in Int /\ b \in Nat \ {0}
    <3> HIDE DEF fraction
    <3> QED
      BY <1>2, <1>3
  <2>2. a \div b \in Int
    <3> HIDE DEF a, b
    <3> QED
      BY <2>1, DivBounds
  <2> QED
    BY <2>2 DEF Rounded
<1>5. Max({1, share}) \in Nat \ {0}
  <2> HIDE DEF share
  <2> QED
    BY <1>4, MaxOfTwo
<1> QED
  BY <1>5 DEF Significant

LEMMA FreshIsSound ==
    ASSUME NEW length \in Int, NEW ss \in Nat \ {0}
    PROVE  /\ Sound(Fresh(length, ss)) /\ ~sector_usage_known(Fresh(length, ss))
           /\ Fresh(length, ss).length = length /\ Fresh(length, ss).ss = ss
BY DEF Fresh, Sound, Usages, sector_usage_known

\* A partition with its figures replaced.
Replaced(p, used, unused, unallocated, threshold) ==
    [p EXCEPT !.used = used, !.unused = unused, !.unallocated = unallocated, !.threshold = threshold]

LEMMA ReplacedIs ==
    ASSUME NEW p \in Usages, NEW used \in Int, NEW unused \in Int, NEW unallocated \in Int,
           NEW threshold \in Nat \ {0}
    PROVE  LET q == Replaced(p, used, unused, unallocated, threshold)
           IN  /\ q \in Usages /\ q.length = p.length /\ q.ss = p.ss /\ q.used = used
               /\ q.unused = unused /\ q.unallocated = unallocated /\ q.threshold = threshold
BY DEF Usages, Replaced

\* Figures which can be right are taken.
LEMMA SetKnown ==
    ASSUME NEW p \in Usages, NEW size \in 0 .. p.length, NEW unused \in 0 .. size
    PROVE  LET q == set_sector_usage(p, size, unused)
           IN  /\ Sound(q) /\ sector_usage_known(q)
               /\ q.length = p.length /\ q.ss = p.ss /\ q.used = size - unused
               /\ q.unused = unused /\ q.unallocated = p.length - size
               /\ q.threshold = Significant(p.length, p.ss)
<1> DEFINE q == set_sector_usage(p, size, unused)
           s == Significant(p.length, p.ss)
<1>1. p.length \in Int /\ p.ss \in Nat \ {0}
  BY DEF Usages
<1>2. s \in Nat \ {0}
  BY <1>1, SignificantIsOne
<1>3. q = Replaced(p, size - unused, unused, p.length - size, s)
  BY DEF set_sector_usage, Replaced
<1>4. size - unused \in Int /\ unused \in Int /\ p.length - size \in Int
  BY <1>1
<1> HIDE DEF s, q
<1>5. /\ q \in Usages /\ q.length = p.length /\ q.ss = p.ss /\ q.used = size - unused
      /\ q.unused = unused /\ q.unallocated = p.length - size /\ q.threshold = s
  BY <1>2, <1>3, <1>4, ReplacedIs
<1>6. Sound(q) /\ sector_usage_known(q)
  BY <1>1, <1>5 DEF Sound, sector_usage_known
<1> QED
  BY <1>5, <1>6 DEF q, s

\* Without a size the whole partition counts.
LEMMA SetWhole ==
    ASSUME NEW p \in Usages, NEW unused \in 0 .. p.length
    PROVE  LET q == set_sector_usage(p, -1, unused)
           IN  /\ Sound(q) /\ sector_usage_known(q)
               /\ q.length = p.length /\ q.ss = p.ss /\ q.used = p.length - unused
               /\ q.unused = unused /\ q.unallocated = 0 /\ q.threshold = 1
<1> DEFINE q == set_sector_usage(p, -1, unused)
<1>1. p.length \in Int
  BY DEF Usages
<1>2. q = Replaced(p, p.length - unused, unused, 0, 1)
  BY <1>1 DEF set_sector_usage, Replaced
<1>3. p.length - unused \in Int /\ unused \in Int
  BY <1>1
<1> HIDE DEF q
<1>4. /\ q \in Usages /\ q.length = p.length /\ q.ss = p.ss /\ q.used = p.length - unused
      /\ q.unused = unused /\ q.unallocated = 0 /\ q.threshold = 1
  BY <1>2, <1>3, ReplacedIs
<1>5. Sound(q) /\ sector_usage_known(q)
  BY <1>1, <1>4 DEF Sound, sector_usage_known
<1> QED
  BY <1>4, <1>5 DEF q

LEMMA SetNothing ==
    ASSUME NEW p \in Usages
    PROVE  LET q == set_sector_usage(p, -1, -1)
           IN  Sound(q) /\ ~sector_usage_known(q) /\ q.length = p.length /\ q.ss = p.ss
<1> DEFINE q == set_sector_usage(p, -1, -1)
<1>1. p.length \in Int
  BY DEF Usages
<1>2. q = Replaced(p, -1, -1, 0, 1)
  BY <1>1 DEF set_sector_usage, Replaced
<1> HIDE DEF q
<1>3. /\ q \in Usages /\ q.length = p.length /\ q.ss = p.ss /\ q.used = -1
      /\ q.unused = -1 /\ q.unallocated = 0
  BY <1>2, ReplacedIs
<1>4. Sound(q) /\ ~sector_usage_known(q)
  BY <1>3 DEF Sound, sector_usage_known
<1> QED
  BY <1>3, <1>4 DEF q

\* Others leave a partition as it was.
LEMMA SetWrong ==
    ASSUME NEW p, NEW size \in Int, NEW unused \in Int, size # -1,
           ~(size \in 0 .. p.length /\ unused \in 0 .. size)
    PROVE  set_sector_usage(p, size, unused) = p
BY DEF set_sector_usage

LEMMA SetIsSound ==
    ASSUME NEW p, Sound(p), NEW size \in Int, NEW unused \in Int
    PROVE  LET q == set_sector_usage(p, size, unused)
           IN  Sound(q) /\ q.length = p.length /\ q.ss = p.ss
<1>1. p \in Usages /\ p.length \in Int
  BY DEF Sound, Usages
<1>2. CASE size \in 0 .. p.length /\ unused \in 0 .. size
  BY <1>1, <1>2, SetKnown
<1>3. CASE size # -1 /\ ~(size \in 0 .. p.length /\ unused \in 0 .. size)
  BY <1>3, SetWrong
<1>4. CASE size = -1 /\ unused \in 0 .. p.length
  BY <1>1, <1>4, SetWhole
<1>5. CASE size = -1 /\ unused \notin 0 .. p.length
  <2>1. /\ set_sector_usage(p, size, unused) =
             [p EXCEPT !.used = -1, !.unused = -1, !.unallocated = 0, !.threshold = 1]
        /\ set_sector_usage(p, -1, -1) =
             [p EXCEPT !.used = -1, !.unused = -1, !.unallocated = 0, !.threshold = 1]
    <3>1. -1 \notin 0 .. p.length
      BY <1>1
    <3> QED
      BY <3>1, <1>5 DEF set_sector_usage
  <2> QED
    BY <1>1, <2>1, SetNothing
<1> QED
  BY <1>1, <1>2, <1>3, <1>4, <1>5

-----------------------------------------------------------------------------
(* What is read                                                            *)

Bytes(d) == d.blocks * d.bsize
FreeBytes(d) == d.free * d.bsize
HiddenBytes(d) == Overhead * d.bsize

LEMMA DiskIs ==
    ASSUME NEW d \in Disks
    PROVE  /\ d.ss \in Nat \ {0} /\ d.ss <= MEBIBYTE /\ d.busy \in BOOLEAN
           /\ d.bsize \in Nat \ {0} /\ d.bsize % Sector = 0
           /\ d.blocks \in Nat \ {0} /\ d.free \in 0 .. d.blocks /\ d.devices \in Nat \ {0}
           /\ d.length \in Nat /\ d.header \in Nat /\ d.tail \in Nat
           /\ Bytes(d) \in Nat \ {0} /\ FreeBytes(d) \in 0 .. Bytes(d) /\ HiddenBytes(d) \in Nat
           /\ Bytes(d) - FreeBytes(d) = (d.blocks - d.free) * d.bsize
           /\ Needed(d) \in 0 .. Bytes(d)
           /\ Bytes(d) <= (d.length - d.header - d.tail) * d.ss
           /\ d.length - d.header - d.tail > 0
<1>1. /\ d.busy \in BOOLEAN /\ d.ss \in 1 .. MEBIBYTE /\ MEBIBYTE \in Nat \ {0} /\ Overhead \in Nat
      /\ d.bsize \in Nat \ {0} /\ d.bsize % Sector = 0
      /\ d.blocks \in Nat \ {0} /\ d.free \in 0 .. d.blocks /\ d.devices \in Nat \ {0}
      /\ d.length \in Nat /\ d.header \in Nat /\ d.tail \in Nat
      /\ Bytes(d) <= (d.length - d.header - d.tail) * d.ss
  BY UsageAssumption DEF Bytes
<1>2. Bytes(d) \in Nat \ {0}
  <2>1. 1 * d.bsize <= d.blocks * d.bsize
    BY <1>1, ProductMonotone
  <2> QED
    BY <1>1, <2>1, ProductIsNat DEF Bytes
<1>3. FreeBytes(d) \in 0 .. Bytes(d)
  BY <1>1, ProductMonotone, ProductIsNat DEF Bytes, FreeBytes
<1>4. HiddenBytes(d) \in Nat
  BY <1>1, ProductIsNat DEF HiddenBytes
<1>5. Bytes(d) - FreeBytes(d) = (d.blocks - d.free) * d.bsize
  BY <1>1, Distributes DEF Bytes, FreeBytes
<1>6. Needed(d) \in 0 .. Bytes(d)
  BY <1>2, <1>3, <1>5 DEF Needed
<1>7. d.length - d.header - d.tail > 0
  <2> DEFINE n == d.length - d.header - d.tail
  <2>1. n \in Int
    BY <1>1
  <2> HIDE DEF n
  <2>2. CASE n <= 0
    <3>1. n * d.ss <= 0 * d.ss
      BY <1>1, <2>1, <2>2, ProductMonotone
    <3> QED
      BY <1>1, <1>2, <3>1, <2>1, ProductIsInt DEF n
  <2> QED
    BY <2>1, <2>2 DEF n
<1> QED
  BY <1>1, <1>2, <1>3, <1>4, <1>5, <1>6, <1>7

\* A partition of so many sectors has room for the file system.
RoomFor(d, length) == length \in Nat /\ Bytes(d) <= length * d.ss

\* What the sizes and free spaces read can be
ReadAs(d, length, u) ==
    \/ u = Unread
    \/ u.size \in {Bytes(d) \div d.ss, -1} /\ u.free = FreeBytes(d) \div d.ss
    \/ /\ d.fstype = "udf" /\ u.size = RoundedUp(Bytes(d), d.ss)
       /\ u.free = FreeBytes(d) \div d.ss
    \/ u.size = Bytes(d) \div d.ss /\ u.free = u.size - Needed(d) \div d.ss
    \/ u.size = length /\ u.free \in {length - Needed(d) \div d.ss, length - RoundedUp(Needed(d), d.ss)}
    \/ u.size = length /\ u.free = length /\ d.fstype = "linux_swap" /\ ~d.busy
    \/ u.size = length /\ u.free = 0 /\ d.fstype = "luks"
    \/ /\ d.busy /\ HiddenBytes(d) <= Bytes(d) /\ u.size = (Bytes(d) - HiddenBytes(d)) \div d.ss
       /\ u.free = FreeBytes(d) \div d.ss

\* Each figure is as it is printed, or not there.
LEMMA EachPrinted ==
    ASSUME NEW d, NEW o \in Outputs(d), NEW f \in DOMAIN Printed(d)
    PROVE  o[f] = -1 \/ o[f] = Printed(d)[f]
<1> DEFINE all == Printed(d)
           Without(gone) == [g \in DOMAIN all |-> IF g \in gone THEN -1 ELSE all[g]]
<1>1. Outputs(d) = {Without({})} \cup {Without({g}) : g \in DOMAIN all}
                     \cup {Without(DOMAIN all \ FromKernel), Without(FromKernel)}
  BY DEF Outputs
<1>2. PICK gone : o = Without(gone)
  <2> HIDE DEF all, Without
  <2> QED
    BY <1>1
<1>3. f \in DOMAIN all
  OBVIOUS
<1> HIDE DEF all
<1> QED
  BY <1>2, <1>3 DEF all

\* All of them.
LEMMA AsPrinted ==
    ASSUME NEW d \in Disks, NEW o \in Outputs(d)
    PROVE  /\ o.blocks > -1 => o.blocks = d.blocks
           /\ o.free = -1 \/ o.free = d.free
           /\ o.bsize > -1 => o.bsize = d.bsize
           /\ o.bytes > -1 => o.bytes = Bytes(d)
           /\ o.free_bytes > -1 => o.free_bytes = FreeBytes(d)
           /\ o.used_bytes = -1 \/ o.used_bytes = Needed(d)
           /\ o.total_bytes > -1 => o.total_bytes = d.devices * Bytes(d)
           /\ o.bytes_used > -1 => o.bytes_used = d.devices * Needed(d)
           /\ o.sector > -1 => o.sector = Sector
           /\ o.per_cluster > -1 => o.per_cluster = d.bsize \div Sector
           /\ o.volume > -1 => o.volume = Bytes(d) \div Sector
           /\ o.small > 0 => o.small = Bytes(d) \div Sector
           /\ o.big > 0 => o.big = Bytes(d) \div Sector
           /\ o.minimum > -1 => o.minimum = d.blocks - d.free
           /\ o.user > -1 => o.user = d.blocks - 1
           /\ o.valid > -1 => o.valid = d.blocks - d.free - 1
           /\ o.aggregate > -1 => o.aggregate = ((d.blocks - 2) * d.bsize) \div Sector
           /\ o.log > -1 => o.log = 1
           /\ o.fsck > -1 => o.fsck = 1
           /\ o.blocks_there > -1 => o.blocks_there = (d.length * d.ss) \div d.bsize
           /\ o.used > -1 => o.used = d.blocks - d.free
           /\ o.behind > -1 => o.behind = (d.length * d.ss) \div d.bsize - d.blocks
           /\ o.mapping = -1
           /\ o.constraint = -1 \/ o.constraint = RoundedUp(Needed(d), d.ss)
           /\ o.statvfs_size > -1 => o.statvfs_size = Bytes(d) - HiddenBytes(d)
           /\ o.statvfs_free > -1 => o.statvfs_free = FreeBytes(d)
<1> DEFINE all == Printed(d)
           names == {"blocks", "free", "bsize", "bytes", "free_bytes", "used_bytes", "total_bytes",
                     "bytes_used", "sector", "per_cluster", "volume", "small", "big", "minimum", "user",
                     "valid", "aggregate", "log", "fsck", "blocks_there", "used", "behind", "mapping",
                     "constraint", "statvfs_size", "statvfs_free"}
<1>1. names \subseteq DOMAIN all
  BY DEF Printed
<1>2. \A f \in names : o[f] = -1 \/ o[f] = all[f]
  <2> HIDE DEF names
  <2> QED
    BY <1>1, EachPrinted
<1>3. /\ all.blocks = d.blocks /\ all.free = d.free /\ all.bsize = d.bsize
      /\ all.bytes = Bytes(d) /\ all.free_bytes = FreeBytes(d) /\ all.used_bytes = Needed(d)
      /\ all.total_bytes = d.devices * Bytes(d) /\ all.bytes_used = d.devices * Needed(d)
      /\ all.sector = Sector /\ all.per_cluster = d.bsize \div Sector
      /\ all.volume = Bytes(d) \div Sector
  BY DEF Printed, Bytes, FreeBytes
<1>4. /\ all.small \in {0, Bytes(d) \div Sector} /\ all.big \in {0, Bytes(d) \div Sector}
      /\ all.minimum = d.blocks - d.free /\ all.user = d.blocks - 1
      /\ all.valid = d.blocks - d.free - 1
      /\ all.aggregate = ((d.blocks - 2) * d.bsize) \div Sector
      /\ all.log = 1 /\ all.fsck = 1
      /\ all.blocks_there = (d.length * d.ss) \div d.bsize /\ all.used = d.blocks - d.free
      /\ all.behind = (d.length * d.ss) \div d.bsize - d.blocks
  BY DEF Printed, Bytes
<1>5. /\ all.mapping = -1 /\ all.constraint = RoundedUp(Needed(d), d.ss)
      /\ all.statvfs_size = Bytes(d) - HiddenBytes(d) /\ all.statvfs_free = FreeBytes(d)
  BY DEF Printed, Bytes, FreeBytes, HiddenBytes
<1> HIDE DEF all
<1>6. /\ o.blocks = -1 \/ o.blocks = d.blocks
      /\ o.free = -1 \/ o.free = d.free
      /\ o.bsize = -1 \/ o.bsize = d.bsize
      /\ o.bytes = -1 \/ o.bytes = Bytes(d)
      /\ o.free_bytes = -1 \/ o.free_bytes = FreeBytes(d)
      /\ o.used_bytes = -1 \/ o.used_bytes = Needed(d)
      /\ o.total_bytes = -1 \/ o.total_bytes = d.devices * Bytes(d)
      /\ o.bytes_used = -1 \/ o.bytes_used = d.devices * Needed(d)
      /\ o.sector = -1 \/ o.sector = Sector
      /\ o.per_cluster = -1 \/ o.per_cluster = d.bsize \div Sector
      /\ o.volume = -1 \/ o.volume = Bytes(d) \div Sector
  BY <1>2, <1>3
<1>7. /\ o.small = -1 \/ o.small = 0 \/ o.small = Bytes(d) \div Sector
      /\ o.big = -1 \/ o.big = 0 \/ o.big = Bytes(d) \div Sector
      /\ o.minimum = -1 \/ o.minimum = d.blocks - d.free
      /\ o.user = -1 \/ o.user = d.blocks - 1
      /\ o.valid = -1 \/ o.valid = d.blocks - d.free - 1
      /\ o.aggregate = -1 \/ o.aggregate = ((d.blocks - 2) * d.bsize) \div Sector
      /\ o.log = -1 \/ o.log = 1
      /\ o.fsck = -1 \/ o.fsck = 1
      /\ o.blocks_there = -1 \/ o.blocks_there = (d.length * d.ss) \div d.bsize
      /\ o.used = -1 \/ o.used = d.blocks - d.free
      /\ o.behind = -1 \/ o.behind = (d.length * d.ss) \div d.bsize - d.blocks
  BY <1>2, <1>4
<1>8. /\ o.mapping = -1
      /\ o.constraint = -1 \/ o.constraint = RoundedUp(Needed(d), d.ss)
      /\ o.statvfs_size = -1 \/ o.statvfs_size = Bytes(d) - HiddenBytes(d)
      /\ o.statvfs_free = -1 \/ o.statvfs_free = FreeBytes(d)
  BY <1>2, <1>5
<1> QED
  BY <1>6, <1>7, <1>8

\* Size and free space as they are.
LEMMA ReadPlainly ==
    ASSUME NEW d, NEW length
    PROVE  ReadAs(d, length, InSectors(Bytes(d), FreeBytes(d), d.ss))
BY DEF ReadAs, InSectors

\* Counted in the small sectors, nothing is lost.
LEMMA InSmallSectors ==
    ASSUME NEW d \in Disks
    PROVE  /\ Sector \in Nat \ {0} /\ (Bytes(d) \div Sector) * Sector = Bytes(d)
           /\ Sector * (d.bsize \div Sector) = d.bsize
           /\ (((d.blocks - 2) * d.bsize) \div Sector) * Sector = Bytes(d) - 2 * d.bsize
<1>1. Sector \in Nat \ {0}
  BY DEF Sector
<1>2. d.blocks \in Int /\ d.blocks - 2 \in Int /\ d.bsize \in Nat \ {0} /\ d.bsize % Sector = 0
  BY DiskIs
<1> HIDE DEF Sector
<1>3. (Bytes(d) \div Sector) * Sector = Bytes(d)
  <2> DEFINE k == d.blocks
             b == d.bsize
             x == Bytes(d)
  <2>1. k \in Int /\ b \in Nat \ {0} /\ b % Sector = 0 /\ x = k * b
    BY <1>2 DEF Bytes
  <2> HIDE DEF k, b, x
  <2>2. Whole(Times(k, b), Sector)
    BY <1>1, <2>1, MultipleIsWhole
  <2>3. Whole(x, Sector)
    BY <2>1, <2>2 DEF Times
  <2> QED
    BY <2>3 DEF Whole, x
<1>4. d.bsize = (d.bsize \div Sector) * Sector /\ d.bsize \div Sector \in Int
  <2>1. d.bsize \in Int
    BY <1>2
  <2>2. d.bsize \div Sector \in Int
    BY <1>1, <2>1, DivBounds
  <2>3. d.bsize = (d.bsize \div Sector) * Sector
    BY <1>1, <1>2, <2>1, ModZero
  <2> QED
    BY <2>2, <2>3
<1>5. (((d.blocks - 2) * d.bsize) \div Sector) * Sector = (d.blocks - 2) * d.bsize
  <2> DEFINE k == d.blocks - 2
             b == d.bsize
             x == k * b
  <2>1. k \in Int /\ b \in Nat \ {0} /\ b % Sector = 0 /\ x = k * b
    BY <1>2
  <2> HIDE DEF k, b, x
  <2>2. Whole(Times(k, b), Sector)
    BY <1>1, <2>1, MultipleIsWhole
  <2>3. Whole(x, Sector)
    BY <2>1, <2>2 DEF Times
  <2> QED
    BY <2>3 DEF Whole, k, b, x
<1>6. (d.blocks - 2) * d.bsize = Bytes(d) - 2 * d.bsize
  BY <1>2, Distributes DEF Bytes
<1>7. Sector * (d.bsize \div Sector) = (d.bsize \div Sector) * Sector
  BY <1>1, <1>4
<1> QED
  BY <1>1, <1>3, <1>4, <1>5, <1>6, <1>7

LEMMA GivenIs ==
    ASSUME NEW o, NEW figures, Given(o, figures), NEW f \in figures
    PROVE  o[f] > -1
BY DEF Given

LEMMA BlocksRead ==
    ASSUME NEW d \in Disks, NEW length, NEW o \in Outputs(d)
    PROVE  ReadAs(d, length, blocks_usage(o, d.ss))
<1>1. CASE ~Given(o, {"blocks", "free", "bsize"})
  BY <1>1 DEF blocks_usage, ReadAs
<1>2. CASE Given(o, {"blocks", "free", "bsize"})
  <2>1. o.blocks = d.blocks /\ o.free = d.free /\ o.bsize = d.bsize
    BY <1>2, AsPrinted DEF Given
  <2>2. blocks_usage(o, d.ss) = InSectors(Bytes(d), FreeBytes(d), d.ss)
    BY <1>2, <2>1 DEF blocks_usage, Bytes, FreeBytes
  <2> QED
    BY <2>2, ReadPlainly
<1> QED
  BY <1>1, <1>2

LEMMA BytesRead ==
    ASSUME NEW d \in Disks, NEW length, NEW o \in Outputs(d)
    PROVE  /\ ReadAs(d, length, bcachefs_usage(o, d.ss))
           /\ ReadAs(d, length, lvm2_pv_usage(o, d.ss))
<1>1. CASE ~Given(o, {"bytes", "free_bytes"})
  BY <1>1 DEF bcachefs_usage, lvm2_pv_usage, ReadAs
<1>2. CASE Given(o, {"bytes", "free_bytes"})
  <2>1. o.bytes = Bytes(d) /\ o.free_bytes = FreeBytes(d)
    BY <1>2, AsPrinted DEF Given
  <2>2. /\ bcachefs_usage(o, d.ss) = InSectors(Bytes(d), FreeBytes(d), d.ss)
        /\ lvm2_pv_usage(o, d.ss) = InSectors(Bytes(d), FreeBytes(d), d.ss)
    BY <1>2, <2>1 DEF bcachefs_usage, lvm2_pv_usage
  <2> QED
    BY <2>2, ReadPlainly
<1> QED
  BY <1>1, <1>2

LEMMA NilfsRead ==
    ASSUME NEW d \in Disks, NEW length, NEW o \in Outputs(d)
    PROVE  ReadAs(d, length, nilfs2_usage(o, d.ss))
<1>1. CASE ~Given(o, {"bytes", "free", "bsize"})
  BY <1>1 DEF nilfs2_usage, ReadAs
<1>2. CASE Given(o, {"bytes", "free", "bsize"})
  <2>1. o.bytes = Bytes(d) /\ o.free = d.free /\ o.bsize = d.bsize
    BY <1>2, AsPrinted DEF Given
  <2>2. nilfs2_usage(o, d.ss) = InSectors(Bytes(d), FreeBytes(d), d.ss)
    BY <1>2, <2>1 DEF nilfs2_usage, FreeBytes
  <2> QED
    BY <2>2, ReadPlainly
<1> QED
  BY <1>1, <1>2

LEMMA RoundedExact ==
    ASSUME NEW q \in Int, NEW b \in Nat \ {0}
    PROVE  Rounded(q * b, b) = q
<1> DEFINE a == 2 * (q * b) + b
           c == 2 * b
           r == a \div c
<1>1. q * b \in Int /\ a \in Int /\ c \in Nat \ {0}
  BY ProductIsInt
<1>2. r \in Int /\ r * c <= a /\ a <= r * c + c - 1
  <2> HIDE DEF a, c
  <2> QED
    BY <1>1, DivBounds
<1> HIDE DEF r
<1>3. r * c = 2 * (r * b) /\ r * b \in Int
  BY <1>2, ProductIsInt
<1>4. 2 * (r * b) <= 2 * (q * b) + b /\ 2 * (q * b) + b <= 2 * (r * b) + 2 * b - 1
  BY <1>2, <1>3
<1>5. (q - r) * b = q * b - r * b /\ (r - q) * b = r * b - q * b
  BY <1>2, Distributes
<1>6. (q - r) * b < 1 * b /\ (r - q) * b < 1 * b
  BY <1>1, <1>3, <1>4, <1>5
<1>7. ~(1 <= q - r) /\ ~(1 <= r - q)
  BY <1>1, <1>2, <1>3, <1>5, <1>6, ProductMonotone
<1>8. q = r
  BY <1>2, <1>7
<1> QED
  BY <1>8 DEF Rounded, r

\* A device's share of a btrfs is what is in use of it.
LEMMA BtrfsRead ==
    ASSUME NEW d \in Disks, NEW length, NEW o \in Outputs(d)
    PROVE  ReadAs(d, length, btrfs_usage(o, d.ss))
<1>1. CASE ~Given(o, {"bytes", "total_bytes", "bytes_used", "bsize"})
  BY <1>1 DEF btrfs_usage, ReadAs
<1>2. CASE Given(o, {"bytes", "total_bytes", "bytes_used", "bsize"})
  <2>1. /\ o.bytes = Bytes(d) /\ o.total_bytes = d.devices * Bytes(d)
        /\ o.bytes_used = d.devices * Needed(d)
    BY <1>2, AsPrinted DEF Given
  <2>2. d.devices \in Nat \ {0} /\ Bytes(d) \in Nat \ {0} /\ Needed(d) \in Int
    BY DiskIs
  <2>3. /\ d.devices * Bytes(d) \in Nat \ {0}
        /\ (d.devices * Needed(d)) * Bytes(d) = Needed(d) * (d.devices * Bytes(d))
    BY <2>2
  <2>4. Rounded((d.devices * Needed(d)) * Bytes(d), d.devices * Bytes(d)) = Needed(d)
    BY <2>2, <2>3, RoundedExact
  <2>5. btrfs_usage(o, d.ss) =
          [size |-> Bytes(d) \div d.ss, free |-> Bytes(d) \div d.ss - Needed(d) \div d.ss]
    BY <1>2, <2>1, <2>4 DEF btrfs_usage
  <2> QED
    BY <2>5 DEF ReadAs
<1> QED
  BY <1>1, <1>2

LEMMA ExfatRead ==
    ASSUME NEW d \in Disks, NEW length, NEW o \in Outputs(d)
    PROVE  ReadAs(d, length, exfat_usage(o, d.ss))
<1>1. CASE ~Given(o, {"sector", "per_cluster", "volume", "free"})
  BY <1>1 DEF exfat_usage, ReadAs
<1>2. CASE Given(o, {"sector", "per_cluster", "volume", "free"})
  <2>1. /\ o.sector = Sector /\ o.per_cluster = d.bsize \div Sector
        /\ o.volume = Bytes(d) \div Sector /\ o.free = d.free
    BY <1>2, AsPrinted DEF Given
  <2>2. /\ o.volume * o.sector = Bytes(d)
        /\ o.free * (o.sector * o.per_cluster) = FreeBytes(d)
    BY <2>1, InSmallSectors DEF FreeBytes
  <2>3. exfat_usage(o, d.ss) = InSectors(Bytes(d), FreeBytes(d), d.ss)
    BY <1>2, <2>2 DEF exfat_usage
  <2> QED
    BY <2>3, ReadPlainly
<1> QED
  BY <1>1, <1>2

LEMMA ExtRead ==
    ASSUME NEW d \in Disks, NEW length, NEW o \in Outputs(d)
    PROVE  ReadAs(d, length, ext2_usage(o, d.busy, d.ss))
<1> DEFINE free == IF ~d.busy THEN IF o.minimum > -1 THEN o.blocks - o.minimum ELSE o.free
                   ELSE IF Given(o, {"statvfs_free", "bsize"}) THEN o.statvfs_free \div o.bsize
                   ELSE -1
<1>1. CASE ~Given(o, {"blocks", "bsize"}) \/ free <= -1
  BY <1>1 DEF ext2_usage, ReadAs
<1>2. CASE Given(o, {"blocks", "bsize"}) /\ ~(free <= -1)
  <2>1. o.blocks = d.blocks /\ o.bsize = d.bsize
    BY <1>2, AsPrinted DEF Given
  <2>2. d.blocks \in Nat /\ d.free \in 0 .. d.blocks /\ d.bsize \in Nat \ {0} /\ d.free \in Int
    BY DiskIs
  <2>3. FreeBytes(d) \div d.bsize = d.free
    BY <2>2, DivExact DEF FreeBytes
  <2>4. free = d.free
    <3>1. CASE ~d.busy /\ o.minimum > -1
      <4>1. o.minimum = d.blocks - d.free
        BY <3>1, AsPrinted
      <4> QED
        BY <2>1, <2>2, <3>1, <4>1
    <3>2. CASE ~d.busy /\ ~(o.minimum > -1)
      <4>1. o.free = -1 \/ o.free = d.free
        BY AsPrinted
      <4> QED
        BY <1>2, <3>2, <4>1
    <3>3. CASE d.busy
      <4>1. Given(o, {"statvfs_free", "bsize"})
        BY <1>2, <3>3
      <4>2. o.statvfs_free = FreeBytes(d)
        BY <4>1, AsPrinted DEF Given
      <4> QED
        BY <2>1, <2>3, <3>3, <4>1, <4>2
    <3> QED
      BY <3>1, <3>2, <3>3
  <2>5. ext2_usage(o, d.busy, d.ss) = InSectors(o.blocks * o.bsize, free * o.bsize, d.ss)
    BY <1>2 DEF ext2_usage
  <2> HIDE DEF free
  <2>6. ext2_usage(o, d.busy, d.ss) = InSectors(Bytes(d), FreeBytes(d), d.ss)
    BY <2>1, <2>4, <2>5 DEF Bytes, FreeBytes
  <2> QED
    BY <2>6, ReadPlainly
<1> QED
  BY <1>1, <1>2

LEMMA F2fsRead ==
    ASSUME NEW d \in Disks, NEW length, NEW o \in Outputs(d)
    PROVE  ReadAs(d, length, f2fs_usage(o, d.ss))
<1>1. CASE ~Given(o, {"user", "valid", "bsize"})
  BY <1>1 DEF f2fs_usage, ReadAs
<1>2. CASE Given(o, {"user", "valid", "bsize"})
  <2>1. o.user = d.blocks - 1 /\ o.valid = d.blocks - d.free - 1 /\ o.bsize = d.bsize
    BY <1>2, AsPrinted DEF Given
  <2>2. d.blocks \in Nat /\ d.free \in Nat
    BY DiskIs
  <2>3. o.user - o.valid = d.free
    BY <2>1, <2>2
  <2>4. ((o.user - o.valid) * o.bsize) \div d.ss = FreeBytes(d) \div d.ss
    BY <2>1, <2>3 DEF FreeBytes
  <2>5. Given(o, {"sector", "volume"}) => o.volume * o.sector = Bytes(d)
    BY AsPrinted, InSmallSectors DEF Given
  <2>6. f2fs_usage(o, d.ss).size \in {Bytes(d) \div d.ss, -1}
    BY <1>2, <2>5 DEF f2fs_usage
  <2>7. f2fs_usage(o, d.ss).free = FreeBytes(d) \div d.ss
    BY <1>2, <2>4 DEF f2fs_usage
  <2> QED
    BY <2>6, <2>7 DEF ReadAs
<1> QED
  BY <1>1, <1>2

LEMMA FatRead ==
    ASSUME NEW d \in Disks, NEW length, NEW o \in Outputs(d)
    PROVE  ReadAs(d, length, fat16_usage(o, d.ss))
<1> DEFINE volume == IF o.small > 0 THEN o.small ELSE IF o.big > 0 THEN o.big ELSE -1
<1>1. CASE volume = -1 \/ ~Given(o, {"free_bytes", "sector", "per_cluster"})
  BY <1>1 DEF fat16_usage, ReadAs
<1>2. CASE volume # -1 /\ Given(o, {"free_bytes", "sector", "per_cluster"})
  <2>1. o.free_bytes = FreeBytes(d) /\ o.sector = Sector
    BY <1>2, AsPrinted DEF Given
  <2>2. volume = Bytes(d) \div Sector
    BY <1>2, AsPrinted
  <2>3. fat16_usage(o, d.ss) = InSectors(volume * o.sector, o.free_bytes, d.ss)
    BY <1>2 DEF fat16_usage
  <2> HIDE DEF volume
  <2>4. fat16_usage(o, d.ss) = InSectors(Bytes(d), FreeBytes(d), d.ss)
    BY <2>1, <2>2, <2>3, InSmallSectors
  <2> QED
    BY <2>4, ReadPlainly
<1> QED
  BY <1>1, <1>2

LEMMA JfsRead ==
    ASSUME NEW d \in Disks, NEW length, NEW o \in Outputs(d)
    PROVE  ReadAs(d, length, jfs_usage(o, d.busy, d.ss))
<1> DEFINE figures == {"aggregate", "bsize", "sector", "log", "fsck",
                       IF d.busy THEN "statvfs_free" ELSE "free"}
           free == IF d.busy THEN o.statvfs_free ELSE o.free * o.bsize
<1>1. CASE ~Given(o, figures)
  BY <1>1 DEF jfs_usage, ReadAs
<1>2. CASE Given(o, figures)
  <2>1. /\ o.aggregate = ((d.blocks - 2) * d.bsize) \div Sector /\ o.bsize = d.bsize
        /\ o.sector = Sector /\ o.log = 1 /\ o.fsck = 1
    BY <1>2, AsPrinted DEF Given
  <2>2. free = FreeBytes(d)
    <3>1. CASE d.busy
      BY <1>2, <3>1, AsPrinted DEF Given
    <3>2. CASE ~d.busy
      <4>1. o.free = d.free
        BY <1>2, <3>2, AsPrinted DEF Given
      <4> QED
        BY <2>1, <3>2, <4>1 DEF FreeBytes
    <3> QED
      BY <3>1, <3>2
  <2>3. jfs_usage(o, d.busy, d.ss) =
          InSectors(o.aggregate * o.sector + (o.log + o.fsck) * o.bsize, free, d.ss)
    BY <1>2 DEF jfs_usage
  <2>4. o.aggregate * o.sector = Bytes(d) - 2 * d.bsize
    BY <2>1, InSmallSectors
  <2>5. o.aggregate * o.sector + (o.log + o.fsck) * o.bsize = Bytes(d)
    BY <2>1, <2>4, DiskIs
  <2> HIDE DEF free
  <2> QED
    BY <2>2, <2>3, <2>5, ReadPlainly
<1> QED
  BY <1>1, <1>2

LEMMA SwapRead ==
    ASSUME NEW d \in Disks, NEW length, NEW o \in Outputs(d), d.fstype = "linux_swap"
    PROVE  ReadAs(d, length, linux_swap_usage(o, d.busy, length, d.ss))
<1>1. CASE ~d.busy
  BY <1>1 DEF linux_swap_usage, ReadAs
<1>2. CASE d.busy /\ o.used_bytes = -1
  BY <1>2 DEF linux_swap_usage, ReadAs
<1>3. CASE d.busy /\ o.used_bytes # -1
  <2>1. o.used_bytes = Needed(d)
    BY <1>3, AsPrinted
  <2> QED
    BY <1>3, <2>1 DEF linux_swap_usage, ReadAs
<1> QED
  BY <1>1, <1>2, <1>3

LEMMA LuksRead ==
    ASSUME NEW d \in Disks, NEW length, NEW o \in Outputs(d), d.fstype = "luks"
    PROVE  /\ luks_usage(o, length, d.ss) = [size |-> length, free |-> 0]
           /\ ReadAs(d, length, luks_usage(o, length, d.ss))
BY AsPrinted DEF luks_usage, ReadAs

LEMMA UdfRead ==
    ASSUME NEW d \in Disks, NEW length, NEW o \in Outputs(d), d.fstype = "udf"
    PROVE  ReadAs(d, length, udf_usage(o, d.ss))
<1> DEFINE blocks == o.blocks_there - o.behind
           used == Min({o.used, blocks})
           free == IF o.free > blocks - used THEN 0 ELSE o.free
           figures == {"blocks_there", "used", "free", "behind", "bsize"}
<1>1. CASE ~Given(o, figures)
  BY <1>1 DEF udf_usage, ReadAs
<1>2. CASE Given(o, figures)
  <2>1. /\ o.blocks_there = (d.length * d.ss) \div d.bsize /\ o.used = d.blocks - d.free
        /\ o.behind = (d.length * d.ss) \div d.bsize - d.blocks
        /\ o.free = d.free /\ o.bsize = d.bsize
    BY <1>2, AsPrinted DEF Given
  <2>2. d.blocks \in Nat /\ d.free \in 0 .. d.blocks /\ d.length * d.ss \in Int /\ d.bsize \in Nat \ {0}
    BY DiskIs, ProductIsInt
  <2>3. (d.length * d.ss) \div d.bsize \in Int
    BY <2>2, DivBounds
  <2>4. blocks = d.blocks
    BY <2>1, <2>2, <2>3
  <2>5. used = d.blocks - d.free
    <3>1. used = Min({d.blocks - d.free, d.blocks})
      BY <2>1, <2>4
    <3> QED
      BY <2>2, <3>1, MinOfTwo
  <2>6. free = d.free
    <3> HIDE DEF blocks, used
    <3> QED
      BY <2>1, <2>2, <2>4, <2>5
  <2>7. udf_usage(o, d.ss) =
          [size |-> RoundedUp(blocks * o.bsize, d.ss), free |-> (free * o.bsize) \div d.ss]
    BY <1>2 DEF udf_usage
  <2> HIDE DEF blocks, free
  <2>8. udf_usage(o, d.ss) = [size |-> RoundedUp(Bytes(d), d.ss), free |-> FreeBytes(d) \div d.ss]
    BY <2>1, <2>4, <2>6, <2>7 DEF Bytes, FreeBytes
  <2> QED
    BY <2>8 DEF ReadAs
<1> QED
  BY <1>1, <1>2

LEMMA KernelRead ==
    ASSUME NEW d \in Disks, NEW length, NEW o \in Outputs(d), d.busy
    PROVE  ReadAs(d, length, StatvfsUsage(o, d.ss))
<1>1. CASE ~Given(o, {"statvfs_size", "statvfs_free"})
  BY <1>1 DEF StatvfsUsage, ReadAs
<1>2. CASE Given(o, {"statvfs_size", "statvfs_free"})
  <2>1. o.statvfs_size = Bytes(d) - HiddenBytes(d) /\ o.statvfs_free = FreeBytes(d)
    BY <1>2, AsPrinted DEF Given
  <2>2. StatvfsUsage(o, d.ss) = [size |-> (Bytes(d) - HiddenBytes(d)) \div d.ss,
                                 free |-> FreeBytes(d) \div d.ss]
    BY <1>2, <2>1 DEF StatvfsUsage, InSectors
  <2>3. HiddenBytes(d) <= Bytes(d)
    <3>1. o.statvfs_size > -1
      BY <1>2 DEF Given
    <3> QED
      BY <2>1, <3>1, DiskIs
  <2> QED
    BY <2>2, <2>3 DEF ReadAs
<1> QED
  BY <1>1, <1>2

LEMMA LibpartedRead ==
    ASSUME NEW d \in Disks, NEW length, NEW o \in Outputs(d)
    PROVE  ReadAs(d, length, LP_usage(o, length))
<1>1. o.constraint = -1 \/ o.constraint = RoundedUp(Needed(d), d.ss)
  BY AsPrinted
<1> QED
  BY <1>1 DEF LP_usage, ReadAs

\* Every driver reads what is there.
LEMMA DriverRead ==
    ASSUME NEW d \in Disks, NEW length, NEW o \in Outputs(d), d.fstype \in Told
    PROVE  ReadAs(d, length, DriverUsage(d.fstype, o, d.busy, length, d.ss))
<1>1. CASE d.fstype = "bcachefs"
  BY <1>1, BytesRead DEF DriverUsage
<1>2. CASE d.fstype = "btrfs"
  BY <1>2, BtrfsRead DEF DriverUsage
<1>3. CASE d.fstype = "exfat"
  BY <1>3, ExfatRead DEF DriverUsage
<1>4. CASE d.fstype \in {"ext2", "ext3", "ext4"}
  BY <1>4, ExtRead DEF DriverUsage
<1>5. CASE d.fstype = "f2fs"
  BY <1>5, F2fsRead DEF DriverUsage
<1>6. CASE d.fstype = "fat"
  BY <1>6, FatRead DEF DriverUsage
<1>7. CASE d.fstype = "jfs"
  BY <1>7, JfsRead DEF DriverUsage
<1>8. CASE d.fstype = "linux_swap"
  BY <1>8, SwapRead DEF DriverUsage
<1>9. CASE d.fstype = "luks"
  BY <1>9, LuksRead DEF DriverUsage
<1>10. CASE d.fstype = "lvm2_pv"
  BY <1>10, BytesRead DEF DriverUsage
<1>11. CASE d.fstype = "nilfs2"
  BY <1>11, NilfsRead DEF DriverUsage
<1>12. CASE d.fstype \in {"ntfs", "reiser4", "reiserfs", "xfs"}
  <2>1. DriverUsage(d.fstype, o, d.busy, length, d.ss) = blocks_usage(o, d.ss)
    BY <1>12 DEF DriverUsage, ntfs_usage, reiser4_usage, reiserfs_usage, xfs_usage
  <2> QED
    BY <2>1, BlocksRead
<1>13. CASE d.fstype = "udf"
  BY <1>13, UdfRead DEF DriverUsage
<1> QED
  BY <1>1, <1>2, <1>3, <1>4, <1>5, <1>6, <1>7, <1>8, <1>9, <1>10, <1>11, <1>12, <1>13 DEF Told

\* The usage q is p with u set, which is what was read.
SetAs(d, p, u, q) ==
    /\ ReadAs(d, p.length, u)
    /\ q = IF u = Unread THEN p ELSE set_sector_usage(p, u.size, u.free)
    /\ d.fstype = "luks" => u = [size |-> p.length, free |-> 0]

LEMMA UsageIsRead ==
    ASSUME NEW d \in Disks, NEW p, NEW o \in Outputs(d), NEW env, p.ss = d.ss
    PROVE  \E u : SetAs(d, p, u, set_used_sectors(p, d.fstype, d.busy, o, env))
<1> DEFINE cap == IF d.busy THEN "online_read" ELSE "read"
           how == get_fs(d.fstype, env, cap)
           kernels == IF d.busy THEN StatvfsUsage(o, p.ss) ELSE Unread
           u == CASE ~supported_filesystem(d.fstype) -> kernels
                  [] how = EXTERNAL -> DriverUsage(d.fstype, o, d.busy, p.length, p.ss)
                  [] how = GPARTED /\ d.busy -> StatvfsUsage(o, p.ss)
                  [] how = LIBPARTED /\ ~d.busy -> LP_usage(o, p.length)
                  [] OTHER -> Unread
<1>1. set_used_sectors(p, d.fstype, d.busy, o, env) =
        IF u = Unread THEN p ELSE set_sector_usage(p, u.size, u.free)
  BY DEF set_used_sectors
<1>2. supported_filesystem(d.fstype) /\ how = EXTERNAL => d.fstype \in Told
  BY ToldByProgram
<1>3. /\ EXTERNAL # GPARTED /\ EXTERNAL # LIBPARTED /\ GPARTED # LIBPARTED
      /\ ~supported_filesystem(d.fstype) => how \notin {EXTERNAL, GPARTED, LIBPARTED}
  <2>1. ~supported_filesystem(d.fstype) => how = NONE
    <3> SUFFICES ASSUME ~supported_filesystem(d.fstype)
                 PROVE  how = NONE
      OBVIOUS
    <3>1. \A r \in Rules(d.fstype) : r.how \in {GPARTED, LIBPARTED, EXTERNAL} /\ cap \notin r.caps
      BY DEF Rules, BasicSupport, Internal, Rule
    <3> HIDE DEF cap
    <3> QED
      BY <3>1, HowIsStrongest
  <2> QED
    BY <2>1 DEF EXTERNAL, GPARTED, LIBPARTED, NONE
<1>4. ReadAs(d, p.length, u)
  <2>1. CASE ~supported_filesystem(d.fstype) /\ d.busy
    <3>1. u = kernels
      <4> HIDE DEF kernels
      <4> QED
        BY <1>3, <2>1
    <3>2. u = StatvfsUsage(o, d.ss)
      <4> HIDE DEF u
      <4> QED
        BY <2>1, <3>1
    <3> QED
      BY <2>1, <3>2, KernelRead
  <2>2. CASE ~supported_filesystem(d.fstype) /\ ~d.busy
    <3>1. u = kernels
      <4> HIDE DEF kernels
      <4> QED
        BY <1>3, <2>2
    <3>2. u = Unread
      <4> HIDE DEF u
      <4> QED
        BY <2>2, <3>1
    <3> QED
      BY <3>2 DEF ReadAs
  <2>3. CASE supported_filesystem(d.fstype) /\ how = EXTERNAL
    <3>1. u = DriverUsage(d.fstype, o, d.busy, p.length, d.ss)
      BY <1>3, <2>3
    <3> QED
      BY <1>2, <2>3, <3>1, DriverRead
  <2>4. CASE supported_filesystem(d.fstype) /\ how = GPARTED /\ d.busy
    <3>1. u = StatvfsUsage(o, d.ss)
      BY <1>3, <2>4
    <3> QED
      BY <2>4, <3>1, KernelRead
  <2>5. CASE supported_filesystem(d.fstype) /\ how = LIBPARTED /\ ~d.busy
    <3>1. u = LP_usage(o, p.length)
      BY <1>3, <2>5
    <3> QED
      BY <3>1, LibpartedRead
  <2>6. CASE /\ supported_filesystem(d.fstype) /\ how # EXTERNAL
             /\ ~(how = GPARTED /\ d.busy) /\ ~(how = LIBPARTED /\ ~d.busy)
    <3>1. u = Unread
      BY <2>6
    <3> QED
      BY <3>1 DEF ReadAs
  <2> HIDE DEF u, how
  <2> QED
    BY <2>1, <2>2, <2>3, <2>4, <2>5, <2>6
<1>5. d.fstype = "luks" => u = [size |-> p.length, free |-> 0]
  <2> SUFFICES ASSUME d.fstype = "luks"
               PROVE  u = [size |-> p.length, free |-> 0]
    OBVIOUS
  <2>1. how = EXTERNAL /\ supported_filesystem(d.fstype)
    BY LuksIsRead DEF supported_filesystem, SupportedFileSystems
  <2>2. u = luks_usage(o, p.length, d.ss)
    BY <1>3, <2>1 DEF DriverUsage
  <2> HIDE DEF u
  <2> QED
    BY <2>2, LuksRead
<1>6. SetAs(d, p, u, set_used_sectors(p, d.fstype, d.busy, o, env))
  <2> HIDE DEF u
  <2> QED
    BY <1>1, <1>4, <1>5 DEF SetAs
<1> QED
  BY <1>6

-----------------------------------------------------------------------------
(* What is read is true                                                    *)

\* What rounding to sectors may lose, and what statvfs() hides
Short(d) == IF d.bsize % d.ss = 0 THEN 0 ELSE d.ss - 1
Hidden(d) == IF d.busy THEN HiddenBytes(d) ELSE 0

LEMMA InSectorsIs ==
    ASSUME NEW d \in Disks, NEW k \in Int
    PROVE  LET x == k * d.bsize
               q == x \div d.ss
               r == RoundedUp(x, d.ss)
           IN  /\ x \in Int /\ q \in Int /\ r \in Int
               /\ q * d.ss <= x /\ x <= q * d.ss + Short(d)
               /\ x <= r * d.ss /\ r * d.ss <= x + Short(d)
               /\ Short(d) \in 0 .. d.ss - 1
<1> DEFINE x == k * d.bsize
           q == x \div d.ss
           r == RoundedUp(x, d.ss)
<1>1. d.ss \in Nat \ {0} /\ d.bsize \in Nat \ {0}
  BY DiskIs
<1>2. x \in Int
  BY <1>1, ProductIsInt
<1>3. Short(d) \in 0 .. d.ss - 1
  BY <1>1 DEF Short
<1>4. CASE d.bsize % d.ss = 0
  <2>1. q \in Int /\ x = q * d.ss
    <3> DEFINE b == d.bsize
               c == d.ss
    <3>1. k \in Int /\ x = k * b /\ b \in Nat \ {0} /\ c \in Nat \ {0} /\ b % c = 0
      BY <1>1, <1>4
    <3> HIDE DEF x, b, c
    <3>2. Whole(Times(k, b), c) /\ x = Times(k, b)
      BY <3>1, MultipleIsWhole DEF Times
    <3>3. x \div c \in Int
      BY <1>2, <3>1, DivBounds
    <3> QED
      BY <3>2, <3>3 DEF Whole, c
  <2>2. r = q
    <3> HIDE DEF q, x
    <3> QED
      BY <1>1, <2>1, RoundedUpExact DEF r
  <2> HIDE DEF x, q, r
  <2>3. Short(d) = 0
    BY <1>4 DEF Short
  <2>4. x <= q * d.ss + Short(d) /\ r * d.ss <= x + Short(d) /\ q * d.ss <= x /\ x <= r * d.ss
    BY <1>2, <2>1, <2>2, <2>3
  <2> QED
    BY <1>2, <1>3, <2>1, <2>2, <2>4 DEF x, q, r
<1>5. CASE d.bsize % d.ss # 0
  <2> HIDE DEF x
  <2>1. q \in Int /\ q * d.ss <= x /\ x <= q * d.ss + d.ss - 1
    BY <1>1, <1>2, DivBounds
  <2>2. r \in Int /\ x <= r * d.ss /\ r * d.ss <= x + d.ss - 1
    BY <1>1, <1>2, RoundedUpBounds
  <2> HIDE DEF q, r
  <2>3. Short(d) = d.ss - 1
    BY <1>5 DEF Short
  <2>4. q * d.ss \in Int /\ r * d.ss \in Int
    BY <1>1, <2>1, <2>2, ProductIsInt
  <2>5. x <= q * d.ss + Short(d) /\ r * d.ss <= x + Short(d)
    BY <1>1, <1>2, <2>1, <2>2, <2>3, <2>4
  <2> QED
    BY <1>2, <1>3, <2>1, <2>2, <2>5 DEF x, q, r
<1> QED
  BY <1>4, <1>5

\* Each amount in sectors.
LEMMA AmountsAre ==
    ASSUME NEW d \in Disks
    PROVE  LET ss == d.ss
               size == Bytes(d) \div ss
               most == RoundedUp(Bytes(d), ss)
               free == FreeBytes(d) \div ss
               need == Needed(d) \div ss
               atMost == RoundedUp(Needed(d), ss)
               told == (Bytes(d) - HiddenBytes(d)) \div ss
           IN  /\ size \in Int /\ size * ss <= Bytes(d) /\ Bytes(d) <= size * ss + Short(d)
               /\ most \in Int /\ Bytes(d) <= most * ss /\ most * ss <= Bytes(d) + Short(d)
               /\ free \in Int /\ free * ss <= FreeBytes(d) /\ FreeBytes(d) <= free * ss + Short(d)
               /\ need \in Int /\ need * ss <= Needed(d) /\ Needed(d) <= need * ss + Short(d)
               /\ atMost \in Int /\ Needed(d) <= atMost * ss /\ atMost * ss <= Needed(d) + Short(d)
               /\ told \in Int /\ told * ss <= Bytes(d) - HiddenBytes(d)
               /\ Bytes(d) - HiddenBytes(d) <= told * ss + Short(d)
               /\ Short(d) \in 0 .. ss - 1
<1>1. /\ d.blocks \in Int /\ d.free \in Int /\ d.blocks - d.free \in Int
      /\ Overhead \in Int /\ d.blocks - Overhead \in Int /\ d.bsize \in Int
  BY DiskIs, UsageAssumption
<1>2. Bytes(d) = d.blocks * d.bsize /\ FreeBytes(d) = d.free * d.bsize
  BY DEF Bytes, FreeBytes
<1>3. Bytes(d) - HiddenBytes(d) = (d.blocks - Overhead) * d.bsize
  BY <1>1, Distributes DEF Bytes, HiddenBytes
<1>4. \E k \in Int : Needed(d) = k * d.bsize
  <2>1. CASE d.fstype = "linux_swap" /\ ~d.busy
    <3>1. 0 * d.bsize = 0
      BY <1>1
    <3> QED
      BY <2>1, <3>1 DEF Needed
  <2>2. CASE ~(d.fstype = "linux_swap" /\ ~d.busy)
    BY <1>1, <2>2 DEF Needed
  <2> QED
    BY <2>1, <2>2
<1> DEFINE Counted(x) == LET q == x \div d.ss
                             r == RoundedUp(x, d.ss)
                         IN  /\ q \in Int /\ q * d.ss <= x /\ x <= q * d.ss + Short(d)
                             /\ r \in Int /\ x <= r * d.ss /\ r * d.ss <= x + Short(d)
                             /\ Short(d) \in 0 .. d.ss - 1
<1>5. \A k \in Int : Counted(k * d.bsize)
  BY InSectorsIs
<1>6. /\ Counted(Bytes(d)) /\ Counted(FreeBytes(d)) /\ Counted(Needed(d))
      /\ Counted(Bytes(d) - HiddenBytes(d))
  <2> HIDE DEF Counted
  <2> QED
    BY <1>1, <1>2, <1>3, <1>4, <1>5
<1> QED
  BY <1>6

\* The figures of a usage are true of the disk.
Truthful(d, q) ==
    /\ q.used * d.ss >= Needed(d) - Short(d) - Hidden(d)
    /\ \/ q.used * d.ss >= Needed(d) - Short(d)
       \/ d.busy /\ (q.used + q.unallocated) * d.ss >= Needed(d) - Short(d)
    /\ d.fstype \notin {"luks", "linux_swap"} =>
         \/ q.used * d.ss - Needed(d)
               \in -(d.ss + Hidden(d)) .. (IF d.fstype = "udf" THEN 2 * d.ss ELSE d.ss)
         \/ q.used + q.unused = q.length /\ FreeBytes(d) - q.unused * d.ss \in 0 .. d.ss

\* Such a size and free space can be set.
LEMMA SizesRead ==
    ASSUME NEW d \in Disks, NEW length \in Nat, Bytes(d) <= length * d.ss,
           NEW u, ReadAs(d, length, u), u # Unread
    PROVE  /\ u.size \in Int /\ u.free \in Int
           /\ u.size # -1 \/ u.free = FreeBytes(d) \div d.ss
<1>1. /\ Bytes(d) \div d.ss \in Int /\ RoundedUp(Bytes(d), d.ss) \in Int
      /\ FreeBytes(d) \div d.ss \in Int /\ Needed(d) \div d.ss \in Int
      /\ RoundedUp(Needed(d), d.ss) \in Int /\ (Bytes(d) - HiddenBytes(d)) \div d.ss \in Int
  BY AmountsAre
<1>2. u.size \in Int /\ u.free \in Int
  BY <1>1 DEF ReadAs
<1>3. ASSUME u.size = -1
      PROVE  u.free = FreeBytes(d) \div d.ss
  <2>1. Bytes(d) \div d.ss # -1
    <3> DEFINE size == Bytes(d) \div d.ss
    <3>1. size \in Int /\ Bytes(d) <= size * d.ss + Short(d) /\ Short(d) \in 0 .. d.ss - 1
      BY AmountsAre
    <3>2. Bytes(d) > 0 /\ d.ss \in Nat
      BY DiskIs
    <3> HIDE DEF size
    <3>3. size # -1
      <4> SUFFICES ASSUME size = -1
                   PROVE  FALSE
        OBVIOUS
      <4>1. size * d.ss = -d.ss
        BY <3>2
      <4> QED
        BY <3>1, <3>2, <4>1, DiskIs
    <3> QED
      BY <3>3 DEF size
  <2>2. length # -1
    OBVIOUS
  <2> QED
    BY <1>1, <1>3, <2>1, <2>2 DEF ReadAs
<1> QED
  BY <1>2, <1>3

\* Figures taken from a size and a free space.
LEMMA TruthfulSizes ==
    ASSUME NEW d \in Disks, NEW length \in Nat, Bytes(d) <= length * d.ss,
           NEW u, ReadAs(d, length, u), u # Unread, u.size # -1,
           NEW q \in Usages, q.length = length, q.used = u.size - u.free, q.unused = u.free,
           q.unallocated = length - u.size
    PROVE  Truthful(d, q)
<1> DEFINE ss == d.ss
           size == Bytes(d) \div ss
           most == RoundedUp(Bytes(d), ss)
           free == FreeBytes(d) \div ss
           need == Needed(d) \div ss
           atMost == RoundedUp(Needed(d), ss)
           told == (Bytes(d) - HiddenBytes(d)) \div ss
<1>1. /\ size \in Int /\ size * ss <= Bytes(d) /\ Bytes(d) <= size * ss + Short(d)
      /\ most \in Int /\ Bytes(d) <= most * ss /\ most * ss <= Bytes(d) + Short(d)
      /\ free \in Int /\ free * ss <= FreeBytes(d) /\ FreeBytes(d) <= free * ss + Short(d)
      /\ need \in Int /\ need * ss <= Needed(d) /\ Needed(d) <= need * ss + Short(d)
      /\ atMost \in Int /\ Needed(d) <= atMost * ss /\ atMost * ss <= Needed(d) + Short(d)
      /\ told \in Int /\ told * ss <= Bytes(d) - HiddenBytes(d)
      /\ Bytes(d) - HiddenBytes(d) <= told * ss + Short(d)
      /\ Short(d) \in 0 .. ss - 1
  BY AmountsAre
<1>2. /\ ss \in Nat \ {0} /\ Needed(d) \in Nat /\ Bytes(d) \in Nat /\ FreeBytes(d) \in Nat
      /\ HiddenBytes(d) \in Nat /\ Needed(d) <= Bytes(d) - FreeBytes(d)
      /\ d.fstype # "linux_swap" => Needed(d) = Bytes(d) - FreeBytes(d)
  BY DiskIs DEF Needed
<1>3. Hidden(d) \in Nat /\ (d.busy => Hidden(d) = HiddenBytes(d))
  BY <1>2 DEF Hidden
<1>4. u.size \in Int /\ u.free \in Int
  BY SizesRead
<1>5. /\ size * ss \in Int /\ most * ss \in Int /\ free * ss \in Int /\ need * ss \in Int
      /\ atMost * ss \in Int /\ told * ss \in Int /\ length * ss \in Int
  BY <1>1, <1>2, ProductIsInt
<1>6. \/ u.size = size /\ u.free = free
      \/ d.fstype = "udf" /\ u.size = most /\ u.free = free
      \/ u.size = size /\ u.free = u.size - need
      \/ u.size = length /\ u.free \in {length - need, length - atMost}
      \/ u.size = length /\ u.free = length /\ d.fstype = "linux_swap" /\ ~d.busy
      \/ u.size = length /\ u.free = 0 /\ d.fstype = "luks"
      \/ d.busy /\ u.size = told /\ u.free = free
  BY DEF ReadAs
<1> HIDE DEF ss, size, most, free, need, atMost, told
<1> USE DEF Truthful
<1>7. Bytes(d) <= length * ss /\ d.ss = ss
  BY DEF ss
<1> DEFINE used == q.used * ss
<1>8. used \in Int
  BY <1>2, <1>4, ProductIsInt
<1>9. (q.used + q.unallocated) * ss = length * ss - u.free * ss /\ u.free * ss \in Int
  <2>1. q.used + q.unallocated = length - u.free
    BY <1>4
  <2> QED
    BY <1>2, <1>4, <2>1, Distributes, ProductIsInt
<1>10. CASE u.size = size /\ u.free = free
  <2>1. used = size * ss - free * ss
    BY <1>1, <1>2, <1>10, Distributes
  <2>2. used >= Needed(d) - Short(d) /\ used <= Bytes(d) - FreeBytes(d) + Short(d)
    BY <1>1, <1>2, <1>5, <2>1
  <2> HIDE DEF used
  <2>3. used >= Needed(d) - Short(d) - Hidden(d)
    BY <1>1, <1>2, <1>3, <1>8, <2>2
  <2>4. d.fstype # "linux_swap" => used - Needed(d) \in -(ss + Hidden(d)) .. ss
    BY <1>1, <1>2, <1>3, <1>8, <2>2
  <2>5. d.fstype # "linux_swap" => used - Needed(d) \in -(ss + Hidden(d)) .. 2 * ss
    BY <1>1, <1>2, <1>3, <1>8, <2>2
  <2> QED
    BY <1>7, <2>2, <2>3, <2>4, <2>5 DEF used
<1>11. CASE d.fstype = "udf" /\ u.size = most /\ u.free = free
  <2>1. used = most * ss - free * ss
    BY <1>1, <1>2, <1>11, Distributes
  <2>2. used >= Needed(d) /\ used <= Bytes(d) - FreeBytes(d) + 2 * Short(d)
    BY <1>1, <1>2, <1>5, <2>1
  <2> HIDE DEF used
  <2>3. used >= Needed(d) - Short(d) - Hidden(d) /\ used >= Needed(d) - Short(d)
    BY <1>1, <1>2, <1>3, <1>8, <2>2
  <2>4. used - Needed(d) \in -(ss + Hidden(d)) .. 2 * ss
    BY <1>1, <1>2, <1>3, <1>8, <1>11, <2>2
  <2> QED
    BY <1>7, <1>11, <2>3, <2>4 DEF used
<1>12. CASE \/ u.size = size /\ u.free = u.size - need
            \/ u.size = length /\ u.free = length - need
  <2>1. used = need * ss
    BY <1>1, <1>4, <1>12
  <2> HIDE DEF used
  <2>2. used >= Needed(d) - Short(d) - Hidden(d) /\ used >= Needed(d) - Short(d)
    BY <1>1, <1>2, <1>3, <1>5, <2>1
  <2>3. /\ used - Needed(d) \in -(ss + Hidden(d)) .. ss
        /\ used - Needed(d) \in -(ss + Hidden(d)) .. 2 * ss
    BY <1>1, <1>2, <1>3, <1>5, <2>1
  <2> QED
    BY <1>7, <2>2, <2>3 DEF used
<1>13. CASE u.size = length /\ u.free = length - atMost
  <2>1. used = atMost * ss
    BY <1>1, <1>4, <1>13
  <2> HIDE DEF used
  <2>2. used >= Needed(d) - Short(d) - Hidden(d) /\ used >= Needed(d) - Short(d)
    BY <1>1, <1>2, <1>3, <1>5, <2>1
  <2>3. /\ used - Needed(d) \in -(ss + Hidden(d)) .. ss
        /\ used - Needed(d) \in -(ss + Hidden(d)) .. 2 * ss
    BY <1>1, <1>2, <1>3, <1>5, <2>1
  <2> QED
    BY <1>7, <2>2, <2>3 DEF used
<1>14. CASE u.size = length /\ u.free = length /\ d.fstype = "linux_swap" /\ ~d.busy
  <2>1. used = 0 /\ Needed(d) = 0
    BY <1>2, <1>14 DEF Needed
  <2> HIDE DEF used
  <2>2. used >= Needed(d) - Short(d) - Hidden(d) /\ used >= Needed(d) - Short(d)
    BY <1>1, <1>2, <1>3, <2>1
  <2> QED
    BY <1>7, <1>14, <2>2 DEF used
<1>15. CASE u.size = length /\ u.free = 0 /\ d.fstype = "luks"
  <2>1. used = length * ss
    BY <1>15
  <2> HIDE DEF used
  <2>2. used >= Needed(d) - Short(d) - Hidden(d) /\ used >= Needed(d) - Short(d)
    BY <1>1, <1>2, <1>3, <1>5, <1>7, <2>1
  <2> QED
    BY <1>7, <1>15, <2>2 DEF used
<1>16. CASE d.busy /\ u.size = told /\ u.free = free
  <2>1. used = told * ss - free * ss
    BY <1>1, <1>2, <1>16, Distributes
  <2>2. /\ used >= Bytes(d) - FreeBytes(d) - Hidden(d) - Short(d)
        /\ used <= Bytes(d) - FreeBytes(d) - Hidden(d) + Short(d)
    BY <1>1, <1>2, <1>3, <1>5, <1>16, <2>1
  <2>3. (q.used + q.unallocated) * ss >= Needed(d) - Short(d)
    BY <1>1, <1>2, <1>5, <1>7, <1>9, <1>16
  <2> HIDE DEF used
  <2>4. used >= Needed(d) - Short(d) - Hidden(d)
    BY <1>1, <1>2, <1>3, <1>8, <2>2
  <2>5. d.fstype # "linux_swap" =>
          /\ used - Needed(d) \in -(ss + Hidden(d)) .. ss
          /\ used - Needed(d) \in -(ss + Hidden(d)) .. 2 * ss
    BY <1>1, <1>2, <1>3, <1>8, <2>2
  <2> QED
    BY <1>7, <1>16, <2>3, <2>4, <2>5 DEF used
<1> QED
  BY <1>6, <1>10, <1>11, <1>12, <1>13, <1>14, <1>15, <1>16

\* ... from a free space alone.
LEMMA TruthfulFree ==
    ASSUME NEW d \in Disks, NEW length \in Nat, Bytes(d) <= length * d.ss,
           NEW q \in Usages, q.length = length, q.unused = FreeBytes(d) \div d.ss,
           q.used = length - q.unused, q.unallocated = 0
    PROVE  Truthful(d, q) /\ q.used * d.ss >= Needed(d) - Short(d)
<1> DEFINE ss == d.ss
           free == FreeBytes(d) \div ss
<1>1. /\ free \in Int /\ free * ss <= FreeBytes(d) /\ FreeBytes(d) <= free * ss + Short(d)
      /\ Short(d) \in 0 .. ss - 1
  BY AmountsAre
<1>2. /\ ss \in Nat \ {0} /\ Needed(d) \in Nat /\ Bytes(d) \in Nat /\ FreeBytes(d) \in Nat
      /\ HiddenBytes(d) \in Nat /\ Needed(d) <= Bytes(d) - FreeBytes(d)
  BY DiskIs DEF Needed
<1>3. Hidden(d) \in Nat
  BY <1>2 DEF Hidden
<1> HIDE DEF ss, free
<1>4. Bytes(d) <= length * ss /\ d.ss = ss /\ q.unused = free /\ q.used = length - free
  BY DEF ss, free
<1>5. q.used * ss = length * ss - free * ss /\ length * ss \in Int /\ free * ss \in Int
  BY <1>1, <1>2, <1>4, Distributes, ProductIsInt
<1>6. /\ q.used * ss >= Needed(d) - Short(d) - Hidden(d)
      /\ q.used * ss >= Needed(d) - Short(d)
  BY <1>1, <1>2, <1>3, <1>4, <1>5
<1>7. q.used + q.unused = q.length
  BY <1>1, <1>4
<1>8. FreeBytes(d) - q.unused * ss \in 0 .. ss
  BY <1>1, <1>2, <1>4, <1>5
<1> QED
  BY <1>4, <1>6, <1>7, <1>8 DEF Truthful

\* A usage read is true, if it is known then.
LEMMA ReadIsTrue ==
    ASSUME NEW d \in Disks, NEW p, Sound(p), ~sector_usage_known(p), p.ss = d.ss, p.length \in Nat,
           Bytes(d) <= p.length * d.ss, NEW o \in Outputs(d), NEW env
    PROVE  LET q == set_used_sectors(p, d.fstype, d.busy, o, env)
           IN  /\ Sound(q) /\ q.length = p.length /\ q.ss = p.ss
               /\ sector_usage_known(q) => Truthful(d, q)
               /\ d.fstype = "luks" => sector_usage_known(q)
               /\ sector_usage_known(q) => \/ q.used * d.ss >= Needed(d) - Short(d)
                                          \/ q.threshold = Significant(p.length, p.ss)
<1> PICK u : SetAs(d, p, u, set_used_sectors(p, d.fstype, d.busy, o, env))
  BY UsageIsRead
<1>1. /\ ReadAs(d, p.length, u)
      /\ set_used_sectors(p, d.fstype, d.busy, o, env) =
           (IF u = Unread THEN p ELSE set_sector_usage(p, u.size, u.free))
      /\ d.fstype = "luks" => u = [size |-> p.length, free |-> 0]
  BY DEF SetAs
<1>2. p \in Usages
  BY DEF Sound
<1>3. CASE u = Unread
  <2>1. d.fstype # "luks"
    BY <1>1, <1>3 DEF Unread
  <2> QED
    BY <1>1, <1>3, <2>1
<1>4. CASE u # Unread
  <2> DEFINE q == set_sector_usage(p, u.size, u.free)
  <2>1. set_used_sectors(p, d.fstype, d.busy, o, env) = q
    BY <1>1, <1>4
  <2>2. /\ u.size \in Int /\ u.free \in Int
        /\ u.size # -1 \/ u.free = FreeBytes(d) \div d.ss
    BY <1>1, <1>4, SizesRead
  <2>3. CASE u.size \in 0 .. p.length /\ u.free \in 0 .. u.size
    <3>1. /\ Sound(q) /\ sector_usage_known(q) /\ q.length = p.length /\ q.ss = p.ss
          /\ q.used = u.size - u.free /\ q.unused = u.free /\ q.unallocated = p.length - u.size
          /\ q.threshold = Significant(p.length, p.ss)
      BY <1>2, <2>3, SetKnown
    <3> HIDE DEF q
    <3>2. q \in Usages /\ u.size # -1
      BY <2>3, <3>1 DEF Sound
    <3>3. Truthful(d, q)
      BY <1>1, <1>4, <3>1, <3>2, TruthfulSizes
    <3> QED
      BY <2>1, <3>1, <3>3
  <2>4. CASE u.size # -1 /\ ~(u.size \in 0 .. p.length /\ u.free \in 0 .. u.size)
    <3>1. q = p
      BY <2>2, <2>4, SetWrong
    <3>2. d.fstype # "luks"
      BY <1>1, <2>4
    <3> QED
      BY <2>1, <3>1, <3>2
  <2>5. CASE u.size = -1
    <3>1. u.free \in 0 .. p.length
      <4> DEFINE free == FreeBytes(d) \div d.ss
      <4>1. /\ free \in Int /\ free * d.ss <= FreeBytes(d) /\ FreeBytes(d) <= free * d.ss + Short(d)
            /\ Short(d) \in 0 .. d.ss - 1 /\ FreeBytes(d) \in 0 .. Bytes(d) /\ d.ss \in Nat \ {0}
            /\ Bytes(d) \in Nat
        BY AmountsAre, DiskIs
      <4>2. u.free = free
        BY <2>2, <2>5
      <4> HIDE DEF free
      <4>3. free * d.ss \in Int /\ p.length * d.ss \in Int /\ free * d.ss <= p.length * d.ss
        BY <4>1, ProductIsInt
      <4>4. free <= p.length
        BY <4>1, <4>3, ProductCancels
      <4>5. free >= 0
        <5> SUFFICES ASSUME free <= -1
                     PROVE  FALSE
          BY <4>1
        <5>1. free * d.ss <= (-1) * d.ss
          BY <4>1, ProductMonotone
        <5>2. (-1) * d.ss = -d.ss
          BY <4>1
        <5> QED
          BY <4>1, <4>3, <5>1, <5>2
      <4> QED
        BY <4>1, <4>2, <4>4, <4>5
    <3>2. /\ Sound(q) /\ sector_usage_known(q) /\ q.length = p.length /\ q.ss = p.ss
          /\ q.used = p.length - u.free /\ q.unused = u.free /\ q.unallocated = 0 /\ q.threshold = 1
      BY <1>2, <2>5, <3>1, SetWhole
    <3> HIDE DEF q
    <3>3. q \in Usages
      BY <3>2 DEF Sound
    <3>4. Truthful(d, q) /\ q.used * d.ss >= Needed(d) - Short(d)
      BY <2>2, <2>5, <3>2, <3>3, TruthfulFree
    <3> QED
      BY <2>1, <3>2, <3>4
  <2> QED
    BY <2>3, <2>4, <2>5
<1> QED
  BY <1>3, <1>4

-----------------------------------------------------------------------------
(* The invariant                                                           *)

Partitions(d) ==
    [fstype : {d.fstype}, busy : {d.busy}, status : {"real", "copy"}, header : Nat,
     outer : Usages, inner : Usages, warnings : SUBSET {"unreadable", "unallocated"},
     converted : BOOLEAN]

\* An open mapping and what is around it fill the partition.
Fits(p) ==
    /\ Sound(p.outer) /\ Sound(p.inner)
    /\ Open(p) => /\ sector_usage_known(p.outer) /\ p.outer.unused = 0
                  /\ p.header + p.inner.length + p.outer.unallocated = p.outer.length
                  /\ p.inner.ss = p.outer.ss

Typed ==
    /\ disk \in Disks /\ part \in Partitions(disk)
    /\ now \in {"start", "read", "resize", "paste"}

Begun == now = "start" => part = Unknown(disk)

\* A resize or paste leaves nothing behind a mapping.
MappingFills == Open(part) /\ now \in {"resize", "paste"} => part.outer.unallocated = 0

SectorsKept == ~part.converted => get_filesystem_partition(part).ss = disk.ss

\* What is in use is not pasted.
BusyStays == disk.busy => now # "paste"

LuksIsKnown ==
    disk.fstype = "luks" /\ now # "start" => sector_usage_known(get_filesystem_partition(part))

\* The figure of what is used is never too small ...
UsedHolds ==
    LET p == get_filesystem_partition(part)
    IN  sector_usage_known(p) /\ ~part.converted =>
            p.used * disk.ss >= Needed(disk) - Short(disk) - Hidden(disk)

\* ... nor is the dialog's, although statvfs() hides something, once it was read.
LeastHolds ==
    LET w == WorkingPartition(part)
    IN  now = "read" /\ sector_usage_known(w) =>
            estimated_min_size(w) * disk.ss >= Needed(disk) + part.header * disk.ss - Short(disk)

UsageInvariant ==
    /\ Typed /\ Begun /\ Fits(part) /\ MappingFills /\ SectorsKept /\ BusyStays /\ LuksIsKnown
    /\ UsedHolds /\ LeastHolds /\ UsageIsTrue

-----------------------------------------------------------------------------
(* The dialog                                                              *)

LEMMA LimitIsInt ==
    ASSUME NEW d, NEW p \in Partitions(d)
    PROVE  LimitOf(p) \in Int
<1>1. MEBIBYTE \in Nat \ {0}
  BY UsageAssumption
<1>2. ASSUME NEW type
      PROVE  FsMinimum(type) \in Int
  <2>1. /\ 256 * MEBIBYTE \in Int /\ 16 * MEBIBYTE \in Int /\ 2 * MEBIBYTE \in Int
        /\ 34 * MEBIBYTE \in Int /\ 300 * MEBIBYTE \in Int
        /\ 128 * MEBIBYTE + MEBIBYTE \div 4 \in Int /\ 0 \in Int
    BY <1>1
  <2>2. FsMinimum(type) \in {256 * MEBIBYTE, 16 * MEBIBYTE, 2 * MEBIBYTE, 34 * MEBIBYTE,
                             300 * MEBIBYTE, 128 * MEBIBYTE + MEBIBYTE \div 4, 0}
    BY DEF FsMinimum
  <2> QED
    BY <2>1, <2>2
<1> QED
  BY <1>1, <1>2 DEF LimitOf

LEMMA LeastIs ==
    ASSUME NEW w \in Usages
    PROVE  LET least == estimated_min_size(w)
           IN  /\ least \in Int
               /\ w.used < 0 => least = -1
               /\ w.used >= 0 => least \in {w.used + w.unallocated, w.used + w.threshold}
               /\ w.used >= 0 /\ w.unallocated >= 0 => least >= w.used
<1>1. /\ w.used \in Int /\ w.unallocated \in Int /\ w.threshold \in Nat \ {0} /\ w.threshold \in Int
  BY DEF Usages
<1>2. Min({w.unallocated, w.threshold}) =
        IF w.unallocated <= w.threshold THEN w.unallocated ELSE w.threshold
  BY <1>1, MinOfTwo
<1> QED
  BY <1>1, <1>2 DEF estimated_min_size

LEMMA LeastIsEnough ==
    ASSUME NEW w \in Usages, w.used >= 0, w.unallocated >= 0
    PROVE  estimated_min_size(w) >= w.used
BY LeastIs DEF Usages

\* What a dialog works with.
LEMMA WorkingIs ==
    ASSUME NEW d, NEW p \in Partitions(d), Fits(p)
    PROVE  LET w == WorkingPartition(p)
           IN  /\ Sound(w) /\ w.length = p.outer.length /\ w.ss = p.outer.ss
               /\ ~Open(p) => w = p.outer
               /\ Open(p) /\ sector_usage_known(p.inner) =>
                    /\ sector_usage_known(w) /\ w.used = p.header + p.inner.used
                    /\ w.unused = p.inner.unused
                    /\ w.unallocated = p.outer.unallocated + p.inner.unallocated
                    /\ w.threshold = Significant(p.outer.length, p.outer.ss)
               /\ Open(p) /\ ~sector_usage_known(p.inner) =>
                    IF p.header = 1 THEN ~sector_usage_known(w) ELSE w = p.outer
<1> DEFINE w == WorkingPartition(p)
           size == p.header + p.inner.used + p.inner.unused
<1>1. p.outer \in Usages /\ p.inner \in Usages /\ p.header \in Nat
  BY DEF Partitions
<1>2. CASE ~Open(p)
  BY <1>2 DEF WorkingPartition, Fits
<1>3. CASE Open(p)
  <2>1. w = set_sector_usage(p.outer, size, p.inner.unused)
    BY <1>3 DEF WorkingPartition, clone_as_plain
  <2>2. /\ Sound(p.outer) /\ Sound(p.inner) /\ sector_usage_known(p.outer) /\ p.outer.unused = 0
        /\ p.header + p.inner.length + p.outer.unallocated = p.outer.length /\ p.header > 0
    BY <1>3 DEF Fits, Open
  <2>3. /\ p.outer.length \in Int /\ p.outer.unallocated \in Int /\ p.inner.length \in Int
        /\ p.inner.used \in Int /\ p.inner.unused \in Int /\ p.inner.unallocated \in Int
        /\ size \in Int
    BY <1>1 DEF Usages
  <2>4. Sound(w) /\ w.length = p.outer.length /\ w.ss = p.outer.ss
    <3> HIDE DEF size
    <3> QED
      BY <2>1, <2>2, <2>3, SetIsSound
  <2>5. p.outer.unallocated >= 0
    BY <2>2 DEF Sound
  <2>6. CASE sector_usage_known(p.inner)
    <3>1. /\ p.inner.used >= 0 /\ p.inner.unused >= 0 /\ p.inner.unallocated >= 0
          /\ p.inner.used + p.inner.unused + p.inner.unallocated = p.inner.length
      BY <2>2, <2>6 DEF Sound, sector_usage_known
    <3>2. size \in 0 .. p.outer.length /\ p.inner.unused \in 0 .. size
      BY <1>1, <2>2, <2>3, <2>5, <3>1
    <3>3. size - p.inner.unused = p.header + p.inner.used
      BY <1>1, <2>3
    <3>4. p.outer.length - size = p.outer.unallocated + p.inner.unallocated
      BY <1>1, <2>2, <2>3, <3>1
    <3> HIDE DEF size
    <3>5. LET q == set_sector_usage(p.outer, size, p.inner.unused)
          IN  /\ sector_usage_known(q) /\ q.used = size - p.inner.unused /\ q.unused = p.inner.unused
              /\ q.unallocated = p.outer.length - size
              /\ q.threshold = Significant(p.outer.length, p.outer.ss)
      BY <1>1, <3>2, SetKnown
    <3> QED
      BY <1>3, <2>1, <2>4, <2>6, <3>3, <3>4, <3>5
  <2>7. CASE ~sector_usage_known(p.inner)
    <3>1. p.inner.used = -1 /\ p.inner.unused = -1 /\ size = p.header - 2
      <4>1. p.inner.used = -1 /\ p.inner.unused = -1
        BY <2>2, <2>7 DEF Sound
      <4> QED
        BY <1>1, <4>1
    <3>2. CASE p.header = 1
      <4>1. size = -1
        BY <3>1, <3>2
      <4> HIDE DEF size
      <4> QED
        BY <1>1, <1>3, <2>1, <2>4, <2>7, <3>1, <3>2, <4>1, SetNothing
    <3>3. CASE p.header # 1
      <4>1. size # -1 /\ p.inner.unused \notin 0 .. size
        BY <1>1, <3>1, <3>3
      <4> HIDE DEF size
      <4>2. w = p.outer
        BY <2>1, <2>3, <4>1, SetWrong
      <4> QED
        BY <1>3, <2>4, <2>7, <3>3, <4>2
    <3> QED
      BY <3>2, <3>3
  <2> QED
    BY <2>6, <2>7
<1> QED
  BY <1>2, <1>3

\* The least a dialog offers is what its partition cannot do without.
LEMMA MinSizeIs ==
    ASSUME NEW d, NEW p \in Partitions(d), Fits(p), NEW env
    PROVE  LET w == WorkingPartition(p)
           IN  /\ MinSize(p, env) \in Int
               /\ IF CanShrink(p, env)
                  THEN /\ MinSize(p, env) >= MEBIBYTE
                       /\ MinSize(p, env) >= estimated_min_size(w) * w.ss
                  ELSE MinSize(p, env) = w.length * w.ss
<1> DEFINE w == WorkingPartition(p)
           least == estimated_min_size(w)
           limit == LimitOf(p)
           most == IF least > limit \div w.ss THEN least * w.ss ELSE limit
<1>1. Sound(w)
  BY WorkingIs
<1>2. w \in Usages /\ w.length \in Int /\ w.ss \in Nat \ {0}
  BY <1>1 DEF Sound, Usages
<1>3. least \in Int /\ limit \in Int /\ MEBIBYTE \in Int /\ MEBIBYTE \in Nat
  BY <1>2, LeastIs, LimitIsInt, UsageAssumption
<1>4. MinSize(p, env) = IF ~CanShrink(p, env) THEN w.length * w.ss ELSE Max({MEBIBYTE, most})
  BY DEF MinSize
<1> HIDE DEF w, least, limit
<1>5. least * w.ss \in Int /\ w.length * w.ss \in Int
  BY <1>2, <1>3, ProductIsInt
<1>6. most \in Int /\ most >= least * w.ss
  <2>1. limit \div w.ss \in Int /\ (limit \div w.ss) * w.ss <= limit
    BY <1>2, <1>3, DivBounds
  <2> DEFINE n == limit \div w.ss
  <2> HIDE DEF n
  <2>2. n \in Int /\ n * w.ss <= limit /\ most = IF least > n THEN least * w.ss ELSE limit
    BY <2>1 DEF n
  <2>3. CASE least > n
    BY <1>5, <2>2, <2>3
  <2>4. CASE ~(least > n)
    <3>1. least * w.ss <= n * w.ss /\ n * w.ss \in Int
      BY <1>2, <1>3, <2>2, <2>4, ProductMonotone, ProductIsInt
    <3> QED
      BY <1>3, <1>5, <2>2, <2>4, <3>1
  <2> QED
    BY <2>3, <2>4
<1> HIDE DEF most
<1>7. Max({MEBIBYTE, most}) = IF MEBIBYTE >= most THEN MEBIBYTE ELSE most
  BY <1>3, <1>6, MaxOfTwo
<1>8. /\ MinSize(p, env) \in Int
      /\ IF CanShrink(p, env)
         THEN MinSize(p, env) >= MEBIBYTE /\ MinSize(p, env) >= least * w.ss
         ELSE MinSize(p, env) = w.length * w.ss
  BY <1>3, <1>4, <1>5, <1>6, <1>7
<1> QED
  BY <1>8 DEF w, least

-----------------------------------------------------------------------------
(* What the invariant means for the user                                   *)

\* Its parts, of the disk and the partition there are.
LEMMA InvariantGives ==
    ASSUME UsageInvariant
    PROVE  /\ disk \in Disks /\ part \in Partitions(disk) /\ Fits(part)
           /\ part.fstype = disk.fstype /\ part.busy = disk.busy /\ part.header \in Nat
           /\ part.status \in {"real", "copy"} /\ part.converted \in BOOLEAN
           /\ part.outer \in Usages /\ part.inner \in Usages
           /\ Sound(get_filesystem_partition(part)) /\ get_filesystem_partition(part) \in Usages
           /\ ~part.converted => part.outer.ss = disk.ss
<1>1. disk \in Disks /\ part \in Partitions(disk) /\ Fits(part) /\ SectorsKept
  BY DEF UsageInvariant, Typed
<1>2. /\ part.fstype = disk.fstype /\ part.busy = disk.busy /\ part.header \in Nat
      /\ part.status \in {"real", "copy"} /\ part.converted \in BOOLEAN
      /\ part.outer \in Usages /\ part.inner \in Usages
  BY <1>1 DEF Partitions
<1>3. Sound(part.outer) /\ Sound(part.inner)
  BY <1>1 DEF Fits
<1>4. Sound(get_filesystem_partition(part)) /\ get_filesystem_partition(part) \in Usages
  BY <1>2, <1>3 DEF get_filesystem_partition
<1>5. ~part.converted => part.outer.ss = disk.ss
  BY <1>1 DEF Fits, SectorsKept, get_filesystem_partition
<1> QED
  BY <1>1, <1>2, <1>4, <1>5

LEMMA MinimumFollows ==
    ASSUME UsageInvariant
    PROVE  MinimumHoldsData
<1> DEFINE hidden == IF disk.busy /\ now = "resize" THEN Overhead * disk.bsize ELSE 0
           lost == Short(disk) + hidden
           min == MinSize(part, Everything)
           ss == part.outer.ss
           A == Needed(disk) + part.header * ss - lost
           L == part.outer.length * ss
           w == WorkingPartition(part)
           least == estimated_min_size(w)
<1> SUFFICES ASSUME now # "start", ~part.converted
             PROVE  min >= Min({A, L})
  BY DEF MinimumHoldsData, Short
<1>1. /\ disk \in Disks /\ part \in Partitions(disk) /\ Fits(part)
      /\ part.fstype = disk.fstype /\ part.busy = disk.busy /\ part.header \in Nat
      /\ part.status \in {"real", "copy"}
      /\ part.outer \in Usages /\ part.inner \in Usages
      /\ part.outer.ss = disk.ss
  BY InvariantGives
<1>2. /\ MappingFills /\ BusyStays /\ UsedHolds /\ LeastHolds
      /\ now \in {"start", "read", "resize", "paste"}
  BY DEF UsageInvariant, Typed
<1>3. /\ ss \in Nat \ {0} /\ ss <= MEBIBYTE /\ MEBIBYTE \in Nat /\ Needed(disk) \in Nat
      /\ HiddenBytes(disk) \in Nat /\ disk.busy \in BOOLEAN /\ ss = disk.ss
  BY <1>1, DiskIs, UsageAssumption
<1>4. Short(disk) \in Nat
  BY <1>1, AmountsAre
<1>5. hidden \in Nat /\ lost \in Nat
  BY <1>3, <1>4 DEF HiddenBytes
<1>6. part.outer.length \in Int /\ A \in Int /\ L \in Int
  <2>1. part.outer.length \in Int
    BY <1>1 DEF Usages
  <2>2. part.header * ss \in Int /\ part.outer.length * ss \in Int
    BY <1>1, <1>3, <2>1, ProductIsInt
  <2> HIDE DEF lost
  <2> QED
    BY <1>3, <1>5, <2>1, <2>2
<1>7. /\ Sound(w) /\ w.length = part.outer.length /\ w.ss = ss
      /\ ~Open(part) => w = part.outer
      /\ Open(part) /\ sector_usage_known(part.inner) =>
           sector_usage_known(w) /\ w.used = part.header + part.inner.used
      /\ Open(part) /\ ~sector_usage_known(part.inner) =>
           IF part.header = 1 THEN ~sector_usage_known(w) ELSE w = part.outer
  BY <1>1, WorkingIs
<1>8. /\ min \in Int
      /\ IF CanShrink(part, Everything)
         THEN min >= MEBIBYTE /\ min >= least * w.ss
         ELSE min = w.length * w.ss
  BY <1>1, MinSizeIs
<1>9. w \in Usages /\ w.used \in Int /\ w.unallocated \in Int /\ least \in Int
  <2>1. w \in Usages
    BY <1>7 DEF Sound
  <2> HIDE DEF w
  <2> QED
    BY <2>1, LeastIs DEF Usages
<1> HIDE DEF min, A, L, w, least, lost, hidden, ss
<1>10. min >= A \/ min >= L => min >= Min({A, L})
  BY <1>6, <1>8, MinOfTwo
<1>11. CASE ~CanShrink(part, Everything)
  BY <1>6, <1>7, <1>8, <1>10, <1>11 DEF L
<1>12. CASE CanShrink(part, Everything) /\ ~sector_usage_known(w)
  <2>1. part.fstype = "linux_swap"
    BY <1>1, <1>12 DEF CanShrink, w
  <2>2. ~disk.busy
    <3> SUFFICES ASSUME disk.busy
                 PROVE  FALSE
      OBVIOUS
    <3>1. get_fs("linux_swap", Everything, "online_shrink") # NONE
      BY <1>1, <1>12, <2>1 DEF CanShrink, Capable
    <3> QED
      BY <3>1, BusySwapStays
  <2>3. Needed(disk) = 0
    BY <1>1, <2>1, <2>2 DEF Needed
  <2>4. part.header \in {0, 1}
    <3>1. CASE ~Open(part)
      BY <1>1, <3>1 DEF Open
    <3>2. CASE Open(part)
      <4>1. part.header = 1 \/ w = part.outer
        BY <1>7, <1>12, <3>2
      <4>2. sector_usage_known(part.outer)
        BY <1>1, <3>2 DEF Fits
      <4> QED
        BY <1>12, <4>1, <4>2
    <3> QED
      BY <3>1, <3>2
  <2>5. part.header * ss <= ss
    BY <1>3, <2>4
  <2>6. A <= MEBIBYTE
    BY <1>3, <1>5, <2>3, <2>4, <2>5 DEF A
  <2> QED
    BY <1>3, <1>6, <1>8, <1>10, <1>12, <2>6
<1>13. CASE CanShrink(part, Everything) /\ sector_usage_known(w) /\ now = "read"
  <2>1. hidden = 0
    BY <1>13 DEF hidden
  <2>2. least * ss >= Needed(disk) + part.header * ss - Short(disk)
    BY <1>2, <1>3, <1>13 DEF LeastHolds, w, least
  <2>3. least * ss >= A
    BY <1>4, <2>1, <2>2 DEF A, lost
  <2>4. min >= A
    BY <1>3, <1>6, <1>7, <1>8, <1>9, <1>13, <2>3, ProductIsInt
  <2> QED
    BY <1>10, <2>4
<1>14. CASE CanShrink(part, Everything) /\ sector_usage_known(w) /\ now # "read"
  <2>1. hidden = Hidden(disk) /\ Hidden(disk) \in Nat
    <3>1. now \in {"resize", "paste"} /\ (disk.busy => now = "resize")
      BY <1>2, <1>14 DEF BusyStays
    <3> QED
      BY <1>3, <3>1 DEF hidden, Hidden, HiddenBytes
  <2>2. w.used >= 0 /\ w.unallocated >= 0 /\ least >= w.used
    <3>1. w.used >= 0 /\ w.unallocated >= 0
      BY <1>7, <1>14 DEF Sound, sector_usage_known
    <3> QED
      BY <1>9, <3>1, LeastIsEnough DEF least
  <2>3. least * ss >= w.used * ss /\ least * ss \in Int /\ w.used * ss \in Int
    BY <1>3, <1>9, <2>2, ProductMonotone, ProductIsInt
  <2>4. CASE ~Open(part)
    <3>1. w = part.outer /\ part.header = 0
      BY <1>1, <1>7, <2>4 DEF Open
    <3>2. w.used * ss >= Needed(disk) - Short(disk) - Hidden(disk)
      BY <1>2, <1>3, <1>14, <2>4, <3>1 DEF UsedHolds, get_filesystem_partition
    <3>3. part.header * ss = 0
      BY <1>3, <3>1
    <3>4. min >= A
      BY <1>3, <1>4, <1>7, <1>8, <1>14, <2>1, <2>3, <3>2, <3>3 DEF A, lost
    <3> QED
      BY <1>10, <3>4
  <2>5. CASE Open(part) /\ sector_usage_known(part.inner)
    <3>1. w.used = part.header + part.inner.used /\ part.inner.used \in Int
      BY <1>1, <1>7, <2>5 DEF Usages
    <3>2. part.inner.used * ss >= Needed(disk) - Short(disk) - Hidden(disk)
      BY <1>2, <1>3, <2>5 DEF UsedHolds, get_filesystem_partition
    <3>3. /\ w.used * ss = part.header * ss + part.inner.used * ss
          /\ part.header * ss \in Int /\ part.inner.used * ss \in Int
      BY <1>1, <1>3, <3>1, Distributes, ProductIsInt
    <3>4. min >= A
      BY <1>3, <1>4, <1>7, <1>8, <1>14, <2>1, <2>3, <3>2, <3>3 DEF A, lost
    <3> QED
      BY <1>10, <3>4
  <2>6. CASE Open(part) /\ ~sector_usage_known(part.inner)
    <3>1. w = part.outer
      BY <1>7, <1>14, <2>6
    <3>2. part.outer.unallocated = 0
      BY <1>2, <1>14, <2>6 DEF MappingFills
    <3>3. part.outer.unused = 0 /\ sector_usage_known(part.outer) /\ Sound(part.outer)
      BY <1>1, <2>6 DEF Fits
    <3>4. w.used = part.outer.length
      BY <1>9, <3>1, <3>2, <3>3 DEF Sound
    <3>5. min >= L
      BY <1>3, <1>6, <1>7, <1>8, <1>14, <2>3, <3>4 DEF L
    <3> QED
      BY <1>10, <3>5
  <2> QED
    BY <2>4, <2>5, <2>6
<1> QED
  BY <1>11, <1>12, <1>13, <1>14

\* What is shown adds up.
LEMMA SumsFollow ==
    ASSUME UsageInvariant
    PROVE  UsageSumsUp
<1> DEFINE t == IF Open(part) THEN Totals(part) ELSE part.outer
           s == ShownUsage(t)
<1> SUFFICES ASSUME Known(part)
             PROVE  /\ s.used >= 0 /\ s.unused >= 0 /\ s.unallocated >= 0
                    /\ s.used + s.unused + s.unallocated = part.outer.length
  BY DEF UsageSumsUp, Shown
<1>1. /\ Fits(part) /\ part.header \in Nat /\ part.outer \in Usages /\ part.inner \in Usages
  BY InvariantGives
<1>2. /\ Sound(part.outer) /\ sector_usage_known(part.outer)
      /\ Open(part) => Sound(part.inner) /\ sector_usage_known(part.inner)
  BY <1>1 DEF Fits, Known
<1>3. /\ part.outer.used \in Nat /\ part.outer.unused \in Nat /\ part.outer.unallocated \in Nat
      /\ part.outer.threshold \in Nat /\ part.outer.length \in Int
      /\ part.outer.used + part.outer.unused + part.outer.unallocated = part.outer.length
  BY <1>1, <1>2 DEF Sound, Usages, sector_usage_known
<1>4. Open(part) => /\ part.inner.used \in Nat /\ part.inner.unused \in Nat
                    /\ part.inner.unallocated \in Nat /\ part.inner.length \in Int
                    /\ part.inner.used + part.inner.unused + part.inner.unallocated = part.inner.length
  BY <1>1, <1>2 DEF Sound, Usages, sector_usage_known
<1>5. /\ t.used \in Nat /\ t.unused \in Nat /\ t.unallocated \in Nat /\ t.threshold \in Nat
      /\ t.used + t.unused + t.unallocated = part.outer.length
  <2>1. CASE ~Open(part)
    BY <1>3, <2>1
  <2>2. CASE Open(part)
    <3>1. /\ t.used = part.header + part.inner.used /\ t.unused = part.inner.unused
          /\ t.unallocated = part.outer.unallocated + part.inner.unallocated
          /\ t.threshold = part.outer.threshold
      <4>1. ~(part.outer.used < 0 \/ part.inner.used < 0)
        BY <1>3, <1>4, <2>2
      <4>2. t = [part.outer EXCEPT
                   !.used = part.header + part.inner.used, !.unused = part.inner.unused,
                   !.unallocated = part.outer.unallocated + part.inner.unallocated]
        BY <2>2, <4>1 DEF Totals
      <4> HIDE DEF t
      <4> QED
        BY <1>1, <4>2 DEF Usages
    <3>2. part.header + part.inner.length + part.outer.unallocated = part.outer.length
      BY <1>1, <2>2 DEF Fits
    <3> HIDE DEF t
    <3> QED
      BY <1>1, <1>3, <1>4, <2>2, <3>1, <3>2
  <2> QED
    BY <2>1, <2>2
<1> HIDE DEF t
<1>6. CASE t.unallocated < t.threshold
  <2>1. s.used = t.used + t.unallocated /\ s.unused = t.unused /\ s.unallocated = 0
    BY <1>5, <1>6 DEF ShownUsage
  <2> HIDE DEF s
  <2> QED
    BY <1>5, <2>1
<1>7. CASE ~(t.unallocated < t.threshold)
  <2>1. s.used = t.used /\ s.unused = t.unused /\ s.unallocated = t.unallocated
    BY <1>5, <1>7 DEF ShownUsage
  <2> HIDE DEF s
  <2> QED
    BY <1>5, <2>1
<1> QED
  BY <1>6, <1>7

-----------------------------------------------------------------------------
(* Before anything was read                                                *)

\* A partition as it is found: all of an open encryption is in use up to the end of
\* its mapping.
LEMMA UnknownIs ==
    ASSUME NEW d \in Disks
    PROVE  LET p == Unknown(d)
           IN  /\ p \in Partitions(d) /\ Fits(p) /\ p.header = d.header /\ ~p.converted
               /\ p.outer.length = d.length /\ p.outer.ss = d.ss
               /\ LET f == get_filesystem_partition(p)
                  IN  /\ Sound(f) /\ ~sector_usage_known(f) /\ f.ss = d.ss /\ f.length \in Nat
                      /\ Bytes(d) <= f.length * d.ss
               /\ Open(p) => p.outer.used = p.header + p.inner.length
<1> DEFINE p == Unknown(d)
           inside == d.length - d.header - d.tail
           fresh == Fresh(d.length, d.ss)
           mapping == (d.length - d.tail) * d.ss
           o == [mapping |-> mapping]
           read == set_used_sectors(fresh, "luks", TRUE, o, {})
           outer == IF d.header = 0 THEN fresh ELSE read
           inner == Fresh(IF d.header = 0 THEN 1 ELSE inside, d.ss)
<1>1. /\ d.ss \in Nat \ {0} /\ d.length \in Nat /\ d.header \in Nat /\ d.tail \in Nat
      /\ Bytes(d) <= inside * d.ss /\ inside > 0 /\ inside \in Int
  BY DiskIs
<1>2. /\ p.fstype = d.fstype /\ p.busy = d.busy /\ p.status = "real" /\ p.header = d.header
      /\ p.outer = outer /\ p.inner = inner /\ p.warnings = {} /\ p.converted = FALSE
  BY DEF Unknown
<1>3. /\ Sound(fresh) /\ ~sector_usage_known(fresh) /\ fresh.length = d.length /\ fresh.ss = d.ss
      /\ fresh \in Usages
  BY <1>1, FreshIsSound DEF Sound
<1>4. /\ Sound(inner) /\ ~sector_usage_known(inner) /\ inner.ss = d.ss
      /\ inner.length = (IF d.header = 0 THEN 1 ELSE inside) /\ inner \in Usages
  <2>1. (IF d.header = 0 THEN 1 ELSE inside) \in Int
    BY <1>1
  <2> QED
    BY <1>1, <2>1, FreshIsSound DEF Sound
<1>5. /\ Sound(read) /\ sector_usage_known(read) /\ read.length = d.length /\ read.ss = d.ss
      /\ read.used = d.length - d.tail /\ read.unused = 0 /\ read.unallocated = d.tail
  <2>1. mapping \div d.ss = d.length - d.tail /\ mapping # -1
    <3>1. d.length - d.tail \in Nat
      BY <1>1
    <3>2. mapping \in Nat
      BY <1>1, <3>1, ProductIsNat
    <3>3. mapping \div d.ss = d.length - d.tail
      BY <1>1, <3>1, DivExact
    <3> QED
      BY <3>2, <3>3
  <2>2. luks_usage(o, d.length, d.ss) = [size |-> d.length - d.tail, free |-> 0]
    BY <2>1 DEF luks_usage
  <2>3. /\ get_fs("luks", {}, "online_read") = EXTERNAL /\ supported_filesystem("luks")
        /\ EXTERNAL # GPARTED /\ EXTERNAL # LIBPARTED
    BY LuksIsRead DEF supported_filesystem, SupportedFileSystems, EXTERNAL, GPARTED, LIBPARTED
  <2>4. d.length - d.tail \in 0 .. fresh.length /\ 0 \in 0 .. d.length - d.tail
    BY <1>1, <1>3
  <2>5. read = set_sector_usage(fresh, d.length - d.tail, 0)
    <3> DEFINE u == DriverUsage("luks", o, TRUE, d.length, d.ss)
    <3>1. u = [size |-> d.length - d.tail, free |-> 0]
      BY <2>2 DEF DriverUsage
    <3>2. read = IF u = Unread THEN fresh ELSE set_sector_usage(fresh, u.size, u.free)
      <4> HIDE DEF u, fresh, o
      <4> QED
        BY <1>3, <2>3 DEF set_used_sectors, u
    <3>3. u # Unread
      <4>1. u.size >= 0
        <5> HIDE DEF u
        <5>1. u.size = d.length - d.tail
          BY <3>1
        <5> QED
          BY <1>1, <2>4, <5>1
      <4>2. Unread.size = -2
        BY DEF Unread
      <4> HIDE DEF u
      <4> QED
        BY <4>1, <4>2
    <3> HIDE DEF u, fresh
    <3> QED
      BY <3>1, <3>2, <3>3
  <2> HIDE DEF fresh, read
  <2>6. /\ Sound(read) /\ sector_usage_known(read) /\ read.length = d.length /\ read.ss = d.ss
        /\ read.used = d.length - d.tail - 0 /\ read.unused = 0
        /\ read.unallocated = d.length - (d.length - d.tail)
    BY <1>3, <2>5, <2>4, SetKnown
  <2> QED
    BY <1>1, <2>6
<1> HIDE DEF fresh, read, inner
<1>6. /\ Sound(outer) /\ outer \in Usages /\ outer.length = d.length /\ outer.ss = d.ss
      /\ inside + d.header + d.tail = d.length
  BY <1>1, <1>3, <1>5 DEF Sound
<1>7. p \in Partitions(d)
  <2> HIDE DEF p, outer
  <2>1. p = [fstype |-> d.fstype, busy |-> d.busy, status |-> "real", header |-> d.header,
             outer |-> outer, inner |-> inner, warnings |-> {}, converted |-> FALSE]
    BY DEF p, Unknown, outer, inner, fresh, read, inside, o, mapping
  <2> QED
    BY <1>1, <1>4, <1>6, <2>1 DEF Partitions
<1> DEFINE f == get_filesystem_partition(p)
<1> HIDE DEF p
<1>8. CASE d.header = 0
  <2>1. ~Open(p) /\ outer = fresh /\ f = fresh
    BY <1>2, <1>8 DEF Open, get_filesystem_partition
  <2>2. Bytes(d) <= d.length * d.ss
    <3>1. inside * d.ss <= d.length * d.ss
      <4> HIDE DEF inside
      <4>1. inside <= d.length
        BY <1>1 DEF inside
      <4> QED
        BY <1>1, <4>1, ProductMonotone
    <3> QED
      BY <1>1, <3>1, DiskIs, ProductIsInt
  <2>3. Fits(p)
    BY <1>2, <1>4, <1>6, <2>1 DEF Fits
  <2> HIDE DEF f, outer
  <2>4. /\ Sound(f) /\ ~sector_usage_known(f) /\ f.ss = d.ss /\ f.length \in Nat
        /\ Bytes(d) <= f.length * d.ss
    BY <1>1, <1>3, <2>1, <2>2
  <2> QED
    BY <1>2, <1>6, <1>7, <2>1, <2>3, <2>4 DEF f, p
<1>9. CASE d.header # 0
  <2>1. Open(p) /\ outer = read /\ f = inner
    BY <1>1, <1>2, <1>9 DEF Open, get_filesystem_partition
  <2>2. inner.length = inside
    BY <1>4, <1>9
  <2>3. d.header + inner.length + read.unallocated = d.length /\ read.used = d.header + inner.length
    BY <1>1, <1>5, <2>2
  <2>4. Fits(p)
    BY <1>2, <1>4, <1>5, <2>1, <2>3 DEF Fits
  <2> HIDE DEF f, outer
  <2>5. /\ Sound(f) /\ ~sector_usage_known(f) /\ f.ss = d.ss /\ f.length \in Nat
        /\ Bytes(d) <= f.length * d.ss
    BY <1>1, <1>4, <2>1, <2>2
  <2>6. p.outer.used = p.header + p.inner.length
    BY <1>2, <2>1, <2>3
  <2> QED
    BY <1>2, <1>6, <1>7, <2>4, <2>5, <2>6 DEF f, p
<1> QED
  BY <1>8, <1>9

-----------------------------------------------------------------------------
(* Reading                                                                 *)

\* What is not allocated makes up for what statvfs() hides.
LEMMA LeastCovers ==
    ASSUME NEW d \in Disks, NEW w \in Usages, w.used >= 0, w.unallocated >= 0, NEW need \in Int,
           w.used * d.ss >= need - Hidden(d),
           \/ w.used * d.ss >= need
           \/ /\ d.busy /\ (w.used + w.unallocated) * d.ss >= need
              /\ w.threshold = Significant(d.length, d.ss)
    PROVE  estimated_min_size(w) * d.ss >= need
<1> DEFINE least == estimated_min_size(w)
<1>1. /\ w.used \in Int /\ w.unallocated \in Int /\ w.threshold \in Int /\ d.ss \in Nat
      /\ least \in Int /\ HiddenBytes(d) \in Nat
  BY LeastIs, DiskIs DEF Usages
<1>2. least \in {w.used + w.unallocated, w.used + w.threshold} /\ least >= w.used
  BY LeastIs
<1> HIDE DEF least
<1>3. CASE w.used * d.ss >= need
  <2>1. w.used * d.ss <= least * d.ss
    BY <1>1, <1>2, ProductMonotone
  <2> QED
    BY <1>1, <1>3, <2>1, ProductIsInt DEF least
<1>4. CASE /\ d.busy /\ (w.used + w.unallocated) * d.ss >= need
           /\ w.threshold = Significant(d.length, d.ss)
  <2>1. CASE least = w.used + w.unallocated
    BY <1>4, <2>1 DEF least
  <2>2. CASE least = w.used + w.threshold
    <3>1. w.threshold * d.ss >= HiddenBytes(d)
      BY <1>4, OverheadAssumption DEF HiddenBytes
    <3>2. w.used * d.ss >= need - HiddenBytes(d)
      BY <1>4 DEF Hidden
    <3>3. least * d.ss = w.used * d.ss + w.threshold * d.ss
      BY <1>1, <2>2, Distributes
    <3>4. least * d.ss >= need
      BY <1>1, <3>1, <3>2, <3>3, ProductIsInt
    <3> QED
      BY <3>4 DEF least
  <2> QED
    BY <1>2, <2>1, <2>2
<1> QED
  BY <1>3, <1>4

LEMMA ReadPreserves ==
    ASSUME UsageInvariant, Read
    PROVE  UsageInvariant'
<1> DEFINE d == disk
           p == Unknown(d)
           f == get_filesystem_partition(p)
<1>1. now = "start" /\ now' = "read" /\ disk' = d /\ part = p /\ d \in Disks
  BY DEF Read, UsageInvariant, Typed, Begun
<1>2. /\ p \in Partitions(d) /\ Fits(p) /\ p.header = d.header /\ ~p.converted
      /\ p.outer.length = d.length /\ p.outer.ss = d.ss
      /\ Sound(f) /\ ~sector_usage_known(f) /\ f.ss = d.ss /\ f.length \in Nat
      /\ Bytes(d) <= f.length * d.ss
      /\ Open(p) => p.outer.used = p.header + p.inner.length
  BY <1>1, UnknownIs
<1> HIDE DEF p, f
<1>3. PICK o \in Outputs(d), env \in {{}, Everything} :
        LET usage == set_used_sectors(f, d.fstype, d.busy, o, env)
        IN  part' = [p EXCEPT !.outer = IF Open(p) THEN @ ELSE usage,
                              !.inner = IF Open(p) THEN usage ELSE @,
                              !.warnings = UsageWarnings(d.fstype, usage)]
  BY <1>1 DEF Read, f
<1> DEFINE q == set_used_sectors(f, d.fstype, d.busy, o, env)
           n == part'
<1>4. /\ Sound(q) /\ q.length = f.length /\ q.ss = f.ss
      /\ sector_usage_known(q) => Truthful(d, q)
      /\ d.fstype = "luks" => sector_usage_known(q)
      /\ sector_usage_known(q) => \/ q.used * d.ss >= Needed(d) - Short(d)
                                 \/ q.threshold = Significant(f.length, f.ss)
  BY <1>1, <1>2, ReadIsTrue
<1>5. UsageWarnings(d.fstype, q) \in SUBSET {"unreadable", "unallocated"}
  BY DEF UsageWarnings
<1>6. n = [p EXCEPT !.outer = IF Open(p) THEN @ ELSE q, !.inner = IF Open(p) THEN q ELSE @,
                    !.warnings = UsageWarnings(d.fstype, q)]
  BY <1>3
<1> HIDE DEF q
<1>7. /\ n.fstype = d.fstype /\ n.busy = d.busy /\ n.header = p.header /\ n.converted = p.converted
      /\ n.outer = (IF Open(p) THEN p.outer ELSE q) /\ n.inner = (IF Open(p) THEN q ELSE p.inner)
      /\ n \in Partitions(d)
  <2>1. q \in Usages
    BY <1>4 DEF Sound
  <2> QED
    BY <1>2, <1>5, <1>6, <2>1 DEF Partitions
<1> HIDE DEF n, d
<1>8. Open(n) = Open(p) /\ get_filesystem_partition(n) = q
  BY <1>7 DEF Open, get_filesystem_partition
<1>9. f = (IF Open(p) THEN p.inner ELSE p.outer)
  BY DEF f, get_filesystem_partition
<1>10. Fits(n)
  BY <1>2, <1>4, <1>7, <1>8, <1>9 DEF Fits
<1>11. /\ d.ss \in Nat \ {0} /\ d.length \in Nat /\ Needed(d) \in Int /\ Short(d) \in Nat /\ Hidden(d) \in Nat
       /\ n.header \in Nat /\ q \in Usages /\ Needed(d) <= Bytes(d) /\ Bytes(d) \in Nat
  <2>1. n.header \in Nat
    BY <1>7 DEF Partitions
  <2> QED
    BY <1>1, <1>4, <2>1, DiskIs, AmountsAre DEF Sound, Hidden
<1>12. Typed' /\ Begun' /\ MappingFills' /\ BusyStays'
  <2>1. Typed'
    BY <1>1, <1>7 DEF Typed, n, d
  <2>2. Begun' /\ MappingFills' /\ BusyStays'
    BY <1>1 DEF Begun, MappingFills, BusyStays
  <2> QED
    BY <2>1, <2>2
<1>13. SectorsKept' /\ LuksIsKnown'
  BY <1>1, <1>2, <1>4, <1>8 DEF SectorsKept, LuksIsKnown, n, d
<1>14. UsedHolds'
  <2>1. sector_usage_known(q) => q.used * d.ss >= Needed(d) - Short(d) - Hidden(d)
    BY <1>4 DEF Truthful
  <2> QED
    BY <1>1, <1>8, <2>1 DEF UsedHolds, n, d
<1>15. UsageIsTrue'
  <2>1. q.ss = d.ss
    BY <1>2, <1>4
  <2>2. sector_usage_known(q) /\ d.fstype \notin {"luks", "linux_swap"} =>
          \/ q.used * q.ss - Needed(d)
               \in -(q.ss + (IF d.busy THEN Overhead * d.bsize ELSE 0))
                     .. (IF d.fstype = "udf" THEN 2 * q.ss ELSE q.ss)
          \/ q.used + q.unused = q.length /\ d.free * d.bsize - q.unused * q.ss \in 0 .. q.ss
    BY <1>4, <2>1 DEF Truthful, Hidden, HiddenBytes, FreeBytes
  <2> QED
    BY <1>1, <1>8, <2>2 DEF UsageIsTrue, n, d
<1>16. LeastHolds'
  <2> DEFINE w == WorkingPartition(n)
             need == Needed(d) + n.header * d.ss - Short(d)
  <2> SUFFICES ASSUME sector_usage_known(w)
               PROVE  estimated_min_size(w) * d.ss >= need
    BY <1>1 DEF LeastHolds, n, d
  <2>1. /\ Sound(w) /\ w.length = n.outer.length /\ w.ss = n.outer.ss
        /\ ~Open(n) => w = n.outer
        /\ Open(n) /\ sector_usage_known(n.inner) =>
             /\ sector_usage_known(w) /\ w.used = n.header + n.inner.used
             /\ w.unallocated = n.outer.unallocated + n.inner.unallocated
             /\ w.threshold = Significant(n.outer.length, n.outer.ss)
        /\ Open(n) /\ ~sector_usage_known(n.inner) =>
             IF n.header = 1 THEN ~sector_usage_known(w) ELSE w = n.outer
    BY <1>7, <1>10, WorkingIs
  <2>2. n.header * d.ss \in Int /\ need \in Int
    BY <1>11, ProductIsInt
  <2> HIDE DEF w
  <2>3. w \in Usages /\ w.used >= 0 /\ w.unallocated >= 0
    BY <2>1 DEF Sound, sector_usage_known
  <2>4. CASE ~Open(n)
    <3>1. w = q /\ n.header = 0 /\ n.header * d.ss = 0
      BY <1>7, <1>8, <1>11, <2>1, <2>4 DEF Open
    <3>2. need = Needed(d) - Short(d)
      BY <1>11, <3>1
    <3>3. f.length = d.length /\ f.ss = d.ss
      BY <1>2, <1>8, <1>9, <2>4
    <3>4. /\ w.used * d.ss >= need - Hidden(d)
          /\ \/ w.used * d.ss >= need
             \/ /\ d.busy /\ (w.used + w.unallocated) * d.ss >= need
                /\ w.threshold = Significant(d.length, d.ss)
      BY <1>4, <3>1, <3>2, <3>3 DEF Truthful
    <3> HIDE DEF need
    <3> QED
      BY <1>1, <2>2, <2>3, <3>4, LeastCovers DEF d
  <2>5. CASE Open(n) /\ sector_usage_known(q)
    <3>1. /\ n.inner = q /\ n.outer = p.outer /\ w.used = n.header + q.used
          /\ w.unallocated = p.outer.unallocated + q.unallocated
          /\ w.threshold = Significant(d.length, d.ss)
      BY <1>2, <1>7, <1>8, <2>1, <2>5
    <3>2. /\ q.used \in Int /\ q.unallocated \in Int /\ p.outer.unallocated \in Nat
      <4>1. p.outer.unallocated \in Int
        BY <1>2 DEF Partitions, Usages
      <4>2. p.outer.unallocated >= 0
        BY <1>2, <1>8, <2>5 DEF Fits, Sound
      <4> QED
        BY <1>11, <4>1, <4>2 DEF Usages
    <3>3. w.used * d.ss = n.header * d.ss + q.used * d.ss /\ q.used * d.ss \in Int
      BY <1>11, <3>1, <3>2, Distributes, ProductIsInt
    <3>4. (w.used + w.unallocated) * d.ss >= n.header * d.ss + (q.used + q.unallocated) * d.ss
      <4> DEFINE a == q.used + q.unallocated
                 b == w.used + w.unallocated
      <4>1. a \in Int /\ b \in Int /\ n.header + a <= b
        BY <1>11, <3>1, <3>2
      <4> HIDE DEF a, b
      <4>2. (n.header + a) * d.ss = n.header * d.ss + a * d.ss
        BY <1>11, <4>1, Distributes
      <4>3. (n.header + a) * d.ss <= b * d.ss
        BY <1>11, <4>1, ProductMonotone
      <4>4. a * d.ss \in Int /\ b * d.ss \in Int
        BY <1>11, <4>1, ProductIsInt
      <4>5. b * d.ss >= n.header * d.ss + a * d.ss
        BY <2>2, <4>2, <4>3, <4>4
      <4> QED
        BY <4>5 DEF a, b
    <3>5. /\ w.used * d.ss >= need - Hidden(d)
          /\ \/ w.used * d.ss >= need
             \/ d.busy /\ (w.used + w.unallocated) * d.ss >= need
      <4> DEFINE a == (q.used + q.unallocated) * d.ss
                 b == (w.used + w.unallocated) * d.ss
      <4>1. /\ q.used * d.ss >= Needed(d) - Short(d) - Hidden(d)
            /\ \/ q.used * d.ss >= Needed(d) - Short(d)
               \/ d.busy /\ a >= Needed(d) - Short(d)
        BY <1>4, <2>5 DEF Truthful
      <4>2. a \in Int /\ b \in Int /\ b >= n.header * d.ss + a
        <5>1. q.used + q.unallocated \in Int /\ w.used + w.unallocated \in Int
          BY <1>11, <3>1, <3>2
        <5> QED
          BY <1>11, <3>4, <5>1, ProductIsInt
      <4> HIDE DEF a, b
      <4>3. w.used * d.ss >= need - Hidden(d)
        BY <1>11, <2>2, <3>3, <4>1
      <4>4. w.used * d.ss >= need \/ (d.busy /\ b >= need)
        BY <1>11, <2>2, <3>3, <4>1, <4>2
      <4> QED
        BY <4>3, <4>4 DEF b
    <3> HIDE DEF need
    <3> QED
      BY <1>1, <2>2, <2>3, <3>1, <3>5, LeastCovers DEF d
  <2>6. CASE Open(n) /\ ~sector_usage_known(q)
    <3>1. w = p.outer /\ p.outer.used = n.header + f.length
      BY <1>2, <1>7, <1>8, <1>9, <2>1, <2>6
    <3>2. w.used * d.ss = n.header * d.ss + f.length * d.ss /\ f.length * d.ss \in Int
      BY <1>2, <1>11, <3>1, Distributes, ProductIsInt
    <3>3. w.used * d.ss >= need /\ w.used * d.ss >= need - Hidden(d)
      BY <1>2, <1>11, <2>2, <3>2
    <3> HIDE DEF need
    <3> QED
      BY <1>1, <2>2, <2>3, <3>3, LeastCovers DEF d
  <2> QED
    BY <1>8, <2>4, <2>5, <2>6
<1> QED
  BY <1>10, <1>12, <1>13, <1>14, <1>15, <1>16 DEF UsageInvariant, n

-----------------------------------------------------------------------------
(* Resizing                                                                *)

LEMMA SetIsTyped ==
    ASSUME NEW p \in Usages, NEW size \in Int, NEW unused \in Int
    PROVE  LET q == set_sector_usage(p, size, unused)
           IN  q \in Usages /\ q.length = p.length /\ q.ss = p.ss
<1>1. p.length \in Int
  BY DEF Usages
<1>2. CASE size \in 0 .. p.length /\ unused \in 0 .. size
  BY <1>2, SetKnown DEF Sound
<1>3. CASE size # -1 /\ ~(size \in 0 .. p.length /\ unused \in 0 .. size)
  BY <1>3, SetWrong
<1>4. CASE size = -1 /\ unused \in 0 .. p.length
  BY <1>4, SetWhole DEF Sound
<1>5. CASE size = -1 /\ unused \notin 0 .. p.length
  <2>1. /\ set_sector_usage(p, size, unused) =
             [p EXCEPT !.used = -1, !.unused = -1, !.unallocated = 0, !.threshold = 1]
        /\ set_sector_usage(p, -1, -1) =
             [p EXCEPT !.used = -1, !.unused = -1, !.unallocated = 0, !.threshold = 1]
    <3>1. -1 \notin 0 .. p.length
      BY <1>1
    <3> QED
      BY <3>1, <1>5 DEF set_sector_usage
  <2> QED
    BY <2>1, SetNothing DEF Sound
<1> QED
  BY <1>1, <1>2, <1>3, <1>4, <1>5

\* A partition with another length.
Longer(p, length) == [p EXCEPT !.length = length]

LEMMA LongerIs ==
    ASSUME NEW p \in Usages, NEW length \in Int
    PROVE  LET q == Longer(p, length)
           IN  /\ q \in Usages /\ q.length = length /\ q.ss = p.ss /\ q.used = p.used
               /\ q.unused = p.unused /\ q.unallocated = p.unallocated /\ q.threshold = p.threshold
BY DEF Usages, Longer

\* Without figures it can have any length.
LEMMA LongerUnknown ==
    ASSUME NEW p, Sound(p), ~sector_usage_known(p), NEW length \in Int
    PROVE  /\ Sound(Longer(p, length)) /\ ~sector_usage_known(Longer(p, length))
           /\ Longer(p, length).length = length /\ Longer(p, length).ss = p.ss
           /\ Longer(p, length).used = -1 /\ Longer(p, length).unused = -1
<1> DEFINE q == Longer(p, length)
<1>1. /\ q \in Usages /\ q.length = length /\ q.ss = p.ss /\ q.used = p.used
      /\ q.unused = p.unused /\ q.unallocated = p.unallocated
  BY LongerIs DEF Sound
<1>2. p.used = -1 /\ p.unused = -1 /\ p.unallocated = 0
  BY DEF Sound
<1> HIDE DEF q
<1>3. Sound(q) /\ ~sector_usage_known(q)
  BY <1>1, <1>2 DEF Sound, sector_usage_known
<1> QED
  BY <1>1, <1>2, <1>3 DEF q

\* The figures of a partition of the length chosen.
LEMMA PreparedIs ==
    ASSUME NEW w, Sound(w), NEW length \in Int, sector_usage_known(w) => w.used <= length
    PROVE  LET new == Prepared(w, w.length, length)
           IN  /\ Sound(new) /\ new.length = length /\ new.ss = w.ss
               /\ sector_usage_known(new) <=> sector_usage_known(w)
               /\ sector_usage_known(w) => new.used = w.used
<1> DEFINE new == Prepared(w, w.length, length)
           to == Longer(w, length)
<1>1. /\ w \in Usages /\ w.used \in Int /\ w.unused \in Int /\ w.unallocated \in Int /\ w.length \in Int
  BY DEF Sound, Usages
<1>2. /\ to \in Usages /\ to.length = length /\ to.ss = w.ss /\ to.used = w.used
      /\ to.unused = w.unused /\ to.unallocated = w.unallocated
  BY <1>1, LongerIs
<1>3. CASE ~sector_usage_known(w)
  <2>1. new = to
    BY <1>3 DEF Prepared, Longer
  <2> QED
    BY <1>3, <2>1, LongerUnknown
<1>4. CASE sector_usage_known(w) /\ w.length = length
  <2>1. new = set_sector_usage(to, w.used + w.unused, w.unused)
    BY <1>4 DEF Prepared, Longer
  <2>2. /\ w.used >= 0 /\ w.unused >= 0 /\ w.unallocated >= 0
        /\ w.used + w.unused + w.unallocated = length
    BY <1>4 DEF Sound, sector_usage_known
  <2> DEFINE size == w.used + w.unused
  <2>3. size \in 0 .. to.length /\ w.unused \in 0 .. size /\ size - w.unused = w.used
    BY <1>1, <1>2, <2>2
  <2> HIDE DEF size, to, new
  <2>4. new = set_sector_usage(to, size, w.unused)
    BY <2>1 DEF size
  <2>5. /\ Sound(new) /\ sector_usage_known(new) /\ new.length = to.length /\ new.ss = to.ss
        /\ new.used = size - w.unused
    BY <1>2, <2>3, <2>4, SetKnown
  <2> QED
    BY <1>2, <1>4, <2>3, <2>5 DEF new
<1>5. CASE sector_usage_known(w) /\ w.length # length
  <2>1. new = set_sector_usage(to, length, length - w.used)
    BY <1>5 DEF Prepared, Longer
  <2>2. w.used >= 0 /\ w.used <= length
    BY <1>5 DEF sector_usage_known
  <2> DEFINE unused == length - w.used
  <2>3. length \in 0 .. to.length /\ unused \in 0 .. length /\ length - unused = w.used
    BY <1>1, <1>2, <2>2
  <2> HIDE DEF to, new
  <2>4. new = set_sector_usage(to, length, unused)
    BY <2>1
  <2> HIDE DEF unused
  <2>5. /\ Sound(new) /\ sector_usage_known(new) /\ new.length = to.length /\ new.ss = to.ss
        /\ new.used = length - unused
    BY <1>2, <2>3, <2>4, SetKnown
  <2> QED
    BY <1>2, <1>5, <2>3, <2>5 DEF new
<1> QED
  BY <1>3, <1>4, <1>5

\* The figures carried over to a partition.
LEMMA ResizeIs ==
    ASSUME NEW p \in Usages, NEW new, Sound(new)
    PROVE  LET q == resize(p, new)
           IN  /\ q \in Usages /\ q.length = new.length /\ q.ss = p.ss
               /\ sector_usage_known(new) =>
                    Sound(q) /\ sector_usage_known(q) /\ q.used = new.used
               /\ ~sector_usage_known(new) => q = Longer(p, new.length)
<1> DEFINE q == resize(p, new)
           to == Longer(p, new.length)
           size == new.used + new.unused
<1>1. /\ new.used \in Int /\ new.unused \in Int /\ new.unallocated \in Int /\ new.length \in Int
  BY DEF Sound, Usages
<1>2. to \in Usages /\ to.length = new.length /\ to.ss = p.ss
  BY <1>1, LongerIs
<1>3. q = set_sector_usage(to, size, new.unused)
  BY DEF resize, Longer
<1>4. size \in Int
  BY <1>1
<1> HIDE DEF q, to
<1>5. q \in Usages /\ q.length = new.length /\ q.ss = p.ss
  <2> HIDE DEF size
  <2> QED
    BY <1>1, <1>2, <1>3, <1>4, SetIsTyped
<1>6. CASE sector_usage_known(new)
  <2>1. /\ new.used >= 0 /\ new.unused >= 0 /\ new.unallocated >= 0
        /\ new.used + new.unused + new.unallocated = new.length
    BY <1>6 DEF Sound, sector_usage_known
  <2>2. size \in 0 .. to.length /\ new.unused \in 0 .. size /\ size - new.unused = new.used
    BY <1>1, <1>2, <2>1
  <2> HIDE DEF size
  <2>3. Sound(q) /\ sector_usage_known(q) /\ q.used = size - new.unused
    BY <1>2, <1>3, <2>2, SetKnown
  <2> QED
    BY <1>5, <1>6, <2>2, <2>3 DEF q
<1>7. CASE ~sector_usage_known(new)
  <2>1. new.used = -1 /\ new.unused = -1
    BY <1>7 DEF Sound
  <2>2. size # -1 /\ size \notin 0 .. to.length
    BY <1>2, <2>1
  <2> HIDE DEF size
  <2>3. q = to
    BY <1>1, <1>3, <1>4, <2>2, SetWrong
  <2> QED
    BY <1>5, <1>7, <2>3 DEF q, to
<1> QED
  BY <1>6, <1>7

\* What is chosen in the dialog is enough for what is used.
LEMMA ChosenIsEnough ==
    ASSUME NEW d, NEW p \in Partitions(d), Fits(p), NEW env, NEW length \in Int,
           length * WorkingPartition(p).ss >= MinSize(p, env),
           sector_usage_known(WorkingPartition(p)) \/ Open(p)
    PROVE  /\ length >= 0
           /\ sector_usage_known(WorkingPartition(p)) => WorkingPartition(p).used <= length
<1> DEFINE w == WorkingPartition(p)
           least == estimated_min_size(w)
           min == MinSize(p, env)
<1>1. Sound(w) /\ w.length = p.outer.length
  BY WorkingIs
<1>2. /\ min \in Int
      /\ IF CanShrink(p, env) THEN min >= MEBIBYTE /\ min >= least * w.ss ELSE min = w.length * w.ss
  BY MinSizeIs
<1>3. length * w.ss >= min
  OBVIOUS
<1> HIDE DEF w, min
<1>4. /\ w \in Usages /\ w.ss \in Nat \ {0} /\ w.length \in Int /\ w.used \in Int /\ w.unused \in Int
      /\ w.unallocated \in Int /\ least \in Int
  <2>1. w \in Usages
    BY <1>1 DEF Sound
  <2> QED
    BY <2>1, LeastIs DEF Usages
<1> HIDE DEF least
<1>5. length * w.ss \in Int /\ least * w.ss \in Int /\ w.length * w.ss \in Int /\ MEBIBYTE \in Nat \ {0}
  BY <1>4, ProductIsInt, UsageAssumption
<1>6. sector_usage_known(w) => w.used <= length /\ 0 <= w.used
  <2> SUFFICES ASSUME sector_usage_known(w)
               PROVE  w.used <= length /\ 0 <= w.used
    OBVIOUS
  <2>1. /\ w.used >= 0 /\ w.unused >= 0 /\ w.unallocated >= 0
        /\ w.used + w.unused + w.unallocated = w.length
    BY <1>1 DEF Sound, sector_usage_known
  <2>2. CASE CanShrink(p, env)
    <3>1. least >= w.used
      BY <1>4, <2>1, LeastIsEnough DEF least
    <3>2. least * w.ss <= length * w.ss
      BY <1>2, <1>3, <1>5, <2>2
    <3>3. least <= length
      BY <1>4, <3>2, ProductCancels
    <3> QED
      BY <1>4, <2>1, <3>1, <3>3
  <2>3. CASE ~CanShrink(p, env)
    <3>1. w.length * w.ss <= length * w.ss
      BY <1>2, <1>3, <1>5, <2>3
    <3>2. w.length <= length
      BY <1>4, <3>1, ProductCancels
    <3> QED
      BY <1>4, <2>1, <3>2
  <2> QED
    BY <2>2, <2>3
<1>7. length >= 0
  <2>1. CASE sector_usage_known(w)
    BY <1>4, <1>6, <2>1
  <2>2. CASE ~sector_usage_known(w)
    <3>1. sector_usage_known(p.outer) /\ Sound(p.outer)
      BY <2>2 DEF Fits, w
    <3>2. w.length >= 0
      BY <1>1, <3>1 DEF Sound, Usages, sector_usage_known
    <3>3. 0 <= length * w.ss
      <4>1. 0 <= w.length * w.ss
        BY <1>4, <3>2, ProductIsNat
      <4> QED
        BY <1>2, <1>3, <1>5, <4>1
    <3>4. 0 * w.ss <= length * w.ss
      BY <1>4, <3>3
    <3> QED
      BY <1>4, <3>4, ProductCancels
  <2> QED
    BY <2>1, <2>2
<1> QED
  BY <1>6, <1>7 DEF w

\* A partition resized keeps what is used of it.
LEMMA ResizedIs ==
    ASSUME NEW d, NEW p \in Partitions(d), Fits(p), NEW env, NEW length \in Int,
           length * WorkingPartition(p).ss >= MinSize(p, env),
           p.fstype = "luks" => sector_usage_known(get_filesystem_partition(p))
    PROVE  LET w == WorkingPartition(p)
               n == Resized(p, Prepared(w, w.length, length))
               f == get_filesystem_partition(p)
               g == get_filesystem_partition(n)
           IN  /\ n \in Partitions(d) /\ Fits(n) /\ n.converted = p.converted
               /\ Open(n) => n.outer.unallocated = 0
               /\ g.ss = f.ss /\ (sector_usage_known(g) <=> sector_usage_known(f))
               /\ sector_usage_known(f) => g.used >= f.used
<1> DEFINE w == WorkingPartition(p)
           new == Prepared(w, w.length, length)
           n == Resized(p, new)
           f == get_filesystem_partition(p)
           g == get_filesystem_partition(n)
           outer == resize(p.outer, new)
           full == set_sector_usage(outer, outer.length, 0)
           mapping == outer.length - p.header
           inner == set_sector_usage(Longer(p.inner, mapping), mapping, mapping - p.inner.used)
<1>1. /\ Sound(w) /\ w.length = p.outer.length /\ w.ss = p.outer.ss
      /\ ~Open(p) => w = p.outer
      /\ Open(p) /\ sector_usage_known(p.inner) =>
           sector_usage_known(w) /\ w.used = p.header + p.inner.used
  BY WorkingIs
<1>2. /\ sector_usage_known(w) \/ Open(p) => length >= 0
      /\ sector_usage_known(w) => w.used <= length
  <2>1. \/ ~sector_usage_known(w) /\ ~Open(p)
        \/ length >= 0 /\ (sector_usage_known(w) => w.used <= length)
    BY ChosenIsEnough
  <2> HIDE DEF w
  <2> QED
    BY <2>1
<1>3. /\ Sound(new) /\ new.length = length /\ new.ss = w.ss
      /\ sector_usage_known(new) <=> sector_usage_known(w)
      /\ sector_usage_known(w) => new.used = w.used
  <2> HIDE DEF w
  <2> QED
    BY <1>1, <1>2, PreparedIs
<1>4. /\ p.outer \in Usages /\ p.inner \in Usages /\ p.header \in Nat
      /\ p.outer.used \in Int /\ p.inner.used \in Int
  BY DEF Partitions, Usages
<1> HIDE DEF w, new
<1>5. /\ outer \in Usages /\ outer.length = length /\ outer.ss = p.outer.ss
      /\ sector_usage_known(new) => Sound(outer) /\ sector_usage_known(outer) /\ outer.used = new.used
      /\ ~sector_usage_known(new) => outer = Longer(p.outer, length)
  BY <1>3, <1>4, ResizeIs
<1> HIDE DEF outer
<1>6. length >= 0 => /\ Sound(full) /\ sector_usage_known(full) /\ full.length = length
                     /\ full.ss = p.outer.ss /\ full.used = length /\ full.unused = 0
                     /\ full.unallocated = 0
  <2> SUFFICES ASSUME length >= 0
               PROVE  /\ Sound(full) /\ sector_usage_known(full) /\ full.length = length
                      /\ full.ss = p.outer.ss /\ full.used = length /\ full.unused = 0
                      /\ full.unallocated = 0
    OBVIOUS
  <2>1. outer.length \in 0 .. outer.length /\ 0 \in 0 .. outer.length
    BY <1>5
  <2>2. /\ Sound(full) /\ sector_usage_known(full) /\ full.length = outer.length
        /\ full.ss = outer.ss /\ full.used = outer.length - 0 /\ full.unused = 0
        /\ full.unallocated = outer.length - outer.length
    BY <1>5, <2>1, SetKnown
  <2> HIDE DEF full
  <2> QED
    BY <1>5, <2>2
<1>7. mapping \in Int /\ mapping = length - p.header /\ mapping - p.inner.used \in Int
  BY <1>4, <1>5
<1>8. n = IF Open(p) THEN [p EXCEPT !.outer = full, !.inner = inner]
                     ELSE [p EXCEPT !.outer = IF p.fstype = "luks" THEN full ELSE outer]
  BY DEF Resized, outer, Longer
<1>9. f = IF Open(p) THEN p.inner ELSE p.outer
  BY DEF get_filesystem_partition
<1> HIDE DEF n, f, full
<1>10. CASE Open(p)
  <2>1. length >= 0 /\ sector_usage_known(p.outer) /\ Sound(p.inner) /\ p.inner.ss = p.outer.ss
    BY <1>2, <1>10 DEF Fits
  <2>2. n = [p EXCEPT !.outer = full, !.inner = inner]
    BY <1>8, <1>10
  <2> DEFINE to == Longer(p.inner, mapping)
  <2>3. /\ to \in Usages /\ to.length = mapping /\ to.ss = p.inner.ss
    BY <1>4, <1>7, LongerIs
  <2>4. /\ Sound(inner) /\ inner.length = mapping /\ inner.ss = p.inner.ss
        /\ sector_usage_known(inner) <=> sector_usage_known(p.inner)
        /\ sector_usage_known(p.inner) => inner.used = p.inner.used
    <3> HIDE DEF mapping, to
    <3>1. inner = set_sector_usage(to, mapping, mapping - p.inner.used)
      BY DEF to
    <3>2. CASE sector_usage_known(p.inner)
      <4>1. p.inner.used >= 0 /\ p.header + p.inner.used <= length
        BY <1>1, <1>2, <1>10, <3>2 DEF sector_usage_known
      <4>2. mapping \in 0 .. to.length /\ mapping - p.inner.used \in 0 .. mapping
        BY <1>4, <1>7, <2>3, <4>1
      <4>3. /\ Sound(inner) /\ sector_usage_known(inner) /\ inner.length = to.length
            /\ inner.ss = to.ss /\ inner.used = mapping - (mapping - p.inner.used)
        BY <2>3, <3>1, <4>2, SetKnown
      <4> QED
        BY <1>4, <1>7, <2>3, <3>2, <4>3
    <3>3. CASE ~sector_usage_known(p.inner)
      <4>1. /\ Sound(to) /\ ~sector_usage_known(to) /\ p.inner.used = -1
        BY <1>7, <2>1, <3>3, LongerUnknown DEF to, Sound
      <4>2. mapping - p.inner.used = mapping + 1
        BY <1>7, <4>1
      <4>3. Sound(inner) /\ inner.length = to.length /\ inner.ss = to.ss
        BY <1>7, <3>1, <4>1, SetIsSound
      <4>4. CASE mapping # -1
        <5>1. ~(mapping \in 0 .. to.length /\ mapping - p.inner.used \in 0 .. mapping)
          BY <1>7, <4>2
        <5>2. inner = to
          BY <1>7, <3>1, <4>4, <5>1, SetWrong
        <5> QED
          BY <2>3, <3>3, <4>1, <4>3, <5>2
      <4>5. CASE mapping = -1
        <5>1. ~(0 \in 0 .. to.length) /\ mapping - p.inner.used = 0
          BY <2>3, <4>2, <4>5
        <5>2. inner = [to EXCEPT !.used = -1, !.unused = -1, !.unallocated = 0, !.threshold = 1]
          <6>1. inner = set_sector_usage(to, -1, 0) /\ -1 \notin 0 .. to.length
            BY <2>3, <3>1, <4>5, <5>1
          <6> HIDE DEF inner
          <6> QED
            BY <5>1, <6>1 DEF set_sector_usage
        <5>3. inner = Replaced(to, -1, -1, 0, 1)
          BY <5>2 DEF Replaced
        <5> HIDE DEF inner
        <5>4. inner.used = -1
          BY <2>3, <5>3, ReplacedIs
        <5>5. ~sector_usage_known(inner)
          BY <5>4 DEF sector_usage_known
        <5> QED
          BY <2>3, <3>3, <4>3, <5>5
      <4> QED
        BY <4>4, <4>5
    <3> QED
      BY <3>2, <3>3
  <2> HIDE DEF inner, mapping
  <2>5. /\ Sound(full) /\ sector_usage_known(full) /\ full.length = length
        /\ full.ss = p.outer.ss /\ full.unused = 0 /\ full.unallocated = 0
    BY <1>6, <2>1
  <2>6. /\ n \in Partitions(d) /\ n.outer = full /\ n.inner = inner /\ n.header = p.header
        /\ n.converted = p.converted
    <3>1. full \in Usages /\ inner \in Usages
      BY <2>4, <2>5 DEF Sound
    <3> QED
      BY <2>2, <3>1 DEF Partitions
  <2>7. Open(n) /\ g = inner /\ f = p.inner
    BY <1>9, <1>10, <2>6 DEF Open, get_filesystem_partition
  <2>8. p.header + mapping + 0 = length
    BY <1>4, <1>7
  <2>9. Fits(n)
    BY <2>1, <2>4, <2>5, <2>6, <2>8 DEF Fits
  <2>10. sector_usage_known(f) => g.used >= f.used
    BY <1>4, <2>4, <2>7
  <2> HIDE DEF g
  <2>11. /\ n \in Partitions(d) /\ Fits(n) /\ n.converted = p.converted
         /\ Open(n) => n.outer.unallocated = 0
         /\ g.ss = f.ss /\ (sector_usage_known(g) <=> sector_usage_known(f))
    BY <2>4, <2>5, <2>6, <2>7, <2>9
  <2> QED
    BY <2>10, <2>11 DEF n, f, g, new, w
<1>11. CASE ~Open(p)
  <2> DEFINE usage == IF p.fstype = "luks" THEN full ELSE outer
  <2>1. w = p.outer /\ f = p.outer /\ n = [p EXCEPT !.outer = usage]
    BY <1>1, <1>8, <1>9, <1>11
  <2>2. /\ Sound(usage) /\ usage.ss = p.outer.ss
        /\ sector_usage_known(usage) <=> sector_usage_known(p.outer)
        /\ sector_usage_known(p.outer) => usage.used >= p.outer.used
    <3>1. CASE p.fstype = "luks"
      <4>1. sector_usage_known(p.outer)
        BY <2>1, <3>1 DEF f
      <4>2. length >= 0 /\ p.outer.used <= length
        BY <1>2, <2>1, <4>1
      <4>3. usage = full
        BY <3>1
      <4> QED
        BY <1>4, <1>6, <4>1, <4>2, <4>3
    <3>2. CASE p.fstype # "luks" /\ sector_usage_known(p.outer)
      <4>1. usage = outer
        BY <3>2
      <4>2. outer.used = p.outer.used
        BY <1>3, <1>5, <2>1, <3>2
      <4> QED
        BY <1>3, <1>4, <1>5, <2>1, <3>2, <4>1, <4>2
    <3>3. CASE p.fstype # "luks" /\ ~sector_usage_known(p.outer)
      <4>1. usage = Longer(p.outer, length)
        BY <1>3, <1>5, <2>1, <3>3
      <4>2. Sound(p.outer)
        BY DEF Fits
      <4> QED
        BY <3>3, <4>1, <4>2, LongerUnknown
    <3> QED
      BY <3>1, <3>2, <3>3
  <2> HIDE DEF usage
  <2>3. /\ n \in Partitions(d) /\ n.outer = usage /\ n.inner = p.inner /\ n.header = p.header
        /\ n.converted = p.converted
    <3>1. usage \in Usages
      BY <2>2 DEF Sound
    <3> QED
      BY <2>1, <3>1 DEF Partitions
  <2>4. ~Open(n) /\ g = usage
    BY <1>11, <2>3 DEF Open, get_filesystem_partition
  <2>5. Fits(n)
    BY <2>2, <2>3, <2>4 DEF Fits
  <2> HIDE DEF g
  <2>6. /\ n \in Partitions(d) /\ Fits(n) /\ n.converted = p.converted
        /\ Open(n) => n.outer.unallocated = 0
        /\ g.ss = f.ss /\ (sector_usage_known(g) <=> sector_usage_known(f))
        /\ sector_usage_known(f) => g.used >= f.used
    BY <2>1, <2>2, <2>3, <2>4, <2>5
  <2> QED
    BY <2>6 DEF n, f, g, new, w
<1> QED
  BY <1>10, <1>11

LEMMA ResizePreserves ==
    ASSUME UsageInvariant, ResizeNormal
    PROVE  UsageInvariant'
<1> DEFINE p == part
           w == WorkingPartition(p)
           mib == MEBIBYTE \div w.ss
           least == RoundedUp(MinSize(p, Everything), MEBIBYTE) * mib
<1>1. /\ disk \in Disks /\ p \in Partitions(disk) /\ Fits(p) /\ p.fstype = disk.fstype
      /\ p.converted \in BOOLEAN /\ p.outer \in Usages
      /\ get_filesystem_partition(p) \in Usages
  BY InvariantGives
<1>2. /\ SectorsKept /\ LuksIsKnown /\ UsedHolds /\ Typed
  BY DEF UsageInvariant
<1>3. /\ now # "start" /\ now' = "resize" /\ disk' = disk
  BY DEF ResizeNormal
<1>4. PICK room \in Growths :
        LET most == MaxSize(p, Everything, room) \div w.ss
        IN  \E length \in {n \in {least, (least + w.length) \div 2, most} :
                             n * w.ss >= MinSize(p, Everything) /\ n <= most /\ n # w.length} :
              part' = Resized(p, Prepared(w, w.length, length))
  BY DEF ResizeNormal
<1> DEFINE most == MaxSize(p, Everything, room) \div w.ss
<1>5. PICK length \in {least, (least + w.length) \div 2, most} :
        /\ length * w.ss >= MinSize(p, Everything)
        /\ part' = Resized(p, Prepared(w, w.length, length))
  BY <1>4
<1>6. /\ w \in Usages /\ w.ss \in Nat \ {0} /\ w.length \in Int
  <2>1. w \in Usages
    BY <1>1, WorkingIs DEF Sound
  <2> HIDE DEF w
  <2> QED
    BY <2>1 DEF Usages
<1>7. length \in Int
  <2> HIDE DEF w
  <2>1. MinSize(p, Everything) \in Int /\ MEBIBYTE \in Nat \ {0}
    BY <1>1, MinSizeIs, UsageAssumption
  <2>2. mib \in Int /\ RoundedUp(MinSize(p, Everything), MEBIBYTE) \in Int
    <3>1. MEBIBYTE \in Int
      BY <2>1
    <3>2. mib \in Int
      BY <1>6, <3>1, DivBounds
    <3> QED
      BY <2>1, <3>2, RoundedUpBounds
  <2>3. least \in Int
    <3> HIDE DEF mib
    <3> QED
      BY <2>2, ProductIsInt
  <2> HIDE DEF least
  <2>4. (least + w.length) \div 2 \in Int
    BY <1>6, <2>3
  <2>5. most \in Int
    <3>1. room \in Int /\ p.outer.length \in Int /\ p.outer.ss \in Int
      BY <1>1, UsageAssumption DEF Usages
    <3>2. p.outer.length + (IF Capable(p, Everything, "grow") THEN room ELSE 0) \in Int
      BY <3>1
    <3>3. MaxSize(p, Everything, room) \in Int
      BY <3>1, <3>2, ProductIsInt DEF MaxSize
    <3> QED
      BY <1>6, <3>3, DivBounds
  <2> HIDE DEF most
  <2> QED
    BY <1>5, <2>3, <2>4, <2>5
<1> DEFINE n == Resized(p, Prepared(w, w.length, length))
           f == get_filesystem_partition(p)
           g == get_filesystem_partition(n)
<1>8. p.fstype = "luks" => sector_usage_known(f)
  BY <1>1, <1>2, <1>3 DEF LuksIsKnown
<1>9. /\ n \in Partitions(disk) /\ Fits(n) /\ n.converted = p.converted
      /\ Open(n) => n.outer.unallocated = 0
      /\ g.ss = f.ss /\ (sector_usage_known(g) <=> sector_usage_known(f))
      /\ sector_usage_known(f) => g.used >= f.used
  BY <1>1, <1>5, <1>7, <1>8, ResizedIs
<1>10. part' = n
  BY <1>5
<1> HIDE DEF n
<1>11. Typed' /\ Fits(part)' /\ Begun' /\ LeastHolds' /\ UsageIsTrue' /\ BusyStays'
  BY <1>2, <1>3, <1>9, <1>10 DEF Typed, Begun, LeastHolds, UsageIsTrue, BusyStays
<1>12. MappingFills'
  BY <1>9, <1>10 DEF MappingFills
<1>13. SectorsKept' /\ LuksIsKnown'
  BY <1>2, <1>3, <1>9, <1>10 DEF SectorsKept, LuksIsKnown
<1>14. UsedHolds'
  <2> SUFFICES ASSUME sector_usage_known(g), ~n.converted
               PROVE  g.used * disk.ss >= Needed(disk) - Short(disk) - Hidden(disk)
    BY <1>3, <1>10 DEF UsedHolds
  <2>1. f.used * disk.ss >= Needed(disk) - Short(disk) - Hidden(disk)
    BY <1>2, <1>9 DEF UsedHolds
  <2>2. /\ disk.ss \in Nat /\ f.used \in Int /\ g.used \in Int /\ Needed(disk) \in Int
        /\ Short(disk) \in Int /\ Hidden(disk) \in Int
    <3>1. g \in Usages
      BY <1>9 DEF Fits, Sound, g, get_filesystem_partition
    <3> HIDE DEF f, g
    <3>2. f.used \in Int /\ g.used \in Int
      BY <1>1, <3>1 DEF Usages, f
    <3> QED
      BY <1>1, <3>2, DiskIs, AmountsAre DEF Hidden
  <2> HIDE DEF f, g
  <2>3. f.used * disk.ss <= g.used * disk.ss
    BY <1>9, <2>2, ProductMonotone
  <2> QED
    BY <2>1, <2>2, <2>3, ProductIsInt
<1> QED
  BY <1>11, <1>12, <1>13, <1>14 DEF UsageInvariant

-----------------------------------------------------------------------------
(* Pasting                                                                 *)

\* Rounding up keeps order and does not take more than both parts do.
LEMMA RoundedUpMonotone ==
    ASSUME NEW a \in Int, NEW b \in Int, a <= b, NEW c \in Nat \ {0}
    PROVE  RoundedUp(a, c) <= RoundedUp(b, c)
<1> DEFINE q == RoundedUp(a, c)
           r == RoundedUp(b, c)
<1>1. /\ q \in Int /\ q * c <= a + c - 1
      /\ r \in Int /\ b <= r * c
  BY RoundedUpBounds
<1> HIDE DEF q, r
<1>2. (q - r) * c = q * c - r * c /\ q * c \in Int /\ r * c \in Int
  BY <1>1, Distributes, ProductIsInt
<1>3. (q - r) * c < 1 * c
  BY <1>1, <1>2
<1>4. ~(1 <= q - r)
  BY <1>1, <1>3, ProductMonotone, ProductIsInt
<1>5. q <= r
  BY <1>1, <1>4
<1> QED
  BY <1>5 DEF q, r

LEMMA RoundedUpSum ==
    ASSUME NEW a \in Int, NEW b \in Int, NEW c \in Nat \ {0}
    PROVE  RoundedUp(a + b, c) - RoundedUp(b, c) <= RoundedUp(a, c)
<1> DEFINE q == RoundedUp(a + b, c)
           r == RoundedUp(b, c)
           t == RoundedUp(a, c)
<1>1. /\ q \in Int /\ q * c <= a + b + c - 1
      /\ r \in Int /\ b <= r * c
      /\ t \in Int /\ a <= t * c
  <2>1. a + b \in Int
    OBVIOUS
  <2> QED
    BY <2>1, RoundedUpBounds
<1> HIDE DEF q, r, t
<1> DEFINE e == q - r - t
<1>2. e \in Int /\ e * c = q * c - r * c - t * c /\ q * c \in Int /\ r * c \in Int /\ t * c \in Int
  <2>1. e \in Int /\ e = (q - r) - t /\ q - r \in Int
    BY <1>1
  <2>2. (q - r) * c = q * c - r * c
    BY <1>1, Distributes
  <2>3. ((q - r) - t) * c = (q - r) * c - t * c
    BY <1>1, <2>1, Distributes
  <2> QED
    BY <1>1, <2>1, <2>2, <2>3, ProductIsInt
<1> HIDE DEF e
<1>3. e * c < 1 * c
  BY <1>1, <1>2
<1>4. ~(1 <= e)
  BY <1>2, <1>3, ProductMonotone, ProductIsInt
<1>5. q - r <= t
  BY <1>1, <1>2, <1>4 DEF e
<1> QED
  BY <1>5 DEF q, r, t

LEMMA RoundedUpFits ==
    ASSUME NEW a \in Int, NEW n \in Int, NEW c \in Nat \ {0}, a <= n * c
    PROVE  RoundedUp(a, c) <= n
BY RoundedUpMonotone, RoundedUpExact, ProductIsInt

\* Counted in other sectors, the figures add up; and what is used still fits where it did.
LEMMA ConvertedIs ==
    ASSUME NEW src, Sound(src), NEW ss \in Nat \ {0}
    PROVE  LET c == Converted(src, ss)
           IN  /\ Sound(c) /\ c.length = src.length /\ c.ss = ss
               /\ sector_usage_known(c) <=> sector_usage_known(src)
               /\ sector_usage_known(src) =>
                    \A length \in Int : src.used * src.ss <= length * ss => c.used <= length
               /\ sector_usage_known(src) /\ ss = src.ss => c.used = src.used
<1> DEFINE c == Converted(src, ss)
           a == src.ss
           S == src.used + src.unused
           U == src.unused
           L == src.length
           size == RoundedUp(S * a, ss)
           unused == RoundedUp(U * a, ss)
           new == [src EXCEPT !.ss = ss]
<1>1. /\ src \in Usages /\ src.used \in Int /\ U \in Int /\ src.unallocated \in Int /\ L \in Int
      /\ a \in Nat \ {0} /\ S \in Int
  BY DEF Sound, Usages
<1>2. /\ new \in Usages /\ new.length = L /\ new.ss = ss /\ new.used = src.used
      /\ new.unused = U /\ new.unallocated = src.unallocated
  BY <1>1 DEF Usages
<1>3. c = IF sector_usage_known(src) THEN set_sector_usage(new, size, unused)
                                     ELSE set_sector_usage(new, -1, -1)
  BY DEF Converted
<1> HIDE DEF c, new
<1>4. CASE ~sector_usage_known(src)
  <2>1. c = set_sector_usage(new, -1, -1)
    BY <1>3, <1>4
  <2>2. Sound(c) /\ ~sector_usage_known(c) /\ c.length = new.length /\ c.ss = new.ss
    BY <1>2, <2>1, SetNothing
  <2> QED
    BY <1>2, <1>4, <2>2 DEF c
<1>5. CASE sector_usage_known(src)
  <2>1. /\ src.used >= 0 /\ U >= 0 /\ src.unallocated >= 0 /\ src.used + U + src.unallocated = L
    BY <1>5 DEF Sound, sector_usage_known
  <2>2. S >= U /\ U >= 0 /\ S <= L /\ S - U = src.used /\ S >= src.used
    BY <1>1, <2>1
  <2>3. c = set_sector_usage(new, size, unused)
    BY <1>3, <1>5
  <2> HIDE DEF S, U, L, a
  <2>4. S * a \in Nat /\ U * a \in Nat /\ U * a <= S * a /\ src.used * a \in Int
    BY <1>1, <2>2, ProductIsNat, ProductIsInt, ProductMonotone
  <2>5. S * a = src.used * a + U * a
    <3>1. S = src.used + U
      BY <1>1, <2>2
    <3> QED
      BY <1>1, <3>1, Distributes
  <2>6. size \in Int /\ unused \in Int /\ 0 <= unused /\ unused <= size
    <3>1. size \in Int /\ unused \in Int
      BY <2>4, RoundedUpBounds
    <3>2. unused <= size
      BY <2>4, RoundedUpMonotone
    <3>3. RoundedUp(0 * ss, ss) = 0 /\ 0 * ss = 0
      BY RoundedUpExact
    <3>4. 0 <= unused
      BY <2>4, <3>3, RoundedUpMonotone
    <3> QED
      BY <3>1, <3>2, <3>4
  <2>7. size - unused <= RoundedUp(src.used * a, ss)
    <3> DEFINE x == src.used * a
               y == U * a
    <3>1. x \in Int /\ y \in Int /\ size = RoundedUp(x + y, ss) /\ unused = RoundedUp(y, ss)
      BY <2>4, <2>5
    <3> HIDE DEF x, y, size, unused
    <3>2. size - unused <= RoundedUp(x, ss)
      BY <3>1, RoundedUpSum
    <3> QED
      BY <3>2 DEF x
  <2>8. ss = a => size = S /\ unused = U
    BY <1>1, RoundedUpExact
  <2> HIDE DEF size, unused
  <2>9. CASE size <= L
    <3>1. size \in 0 .. new.length /\ unused \in 0 .. size
      BY <1>1, <1>2, <2>6, <2>9
    <3>2. /\ Sound(c) /\ sector_usage_known(c) /\ c.length = new.length /\ c.ss = new.ss
          /\ c.used = size - unused
      BY <1>2, <2>3, <3>1, SetKnown
    <3>3. ASSUME NEW length \in Int, src.used * a <= length * ss
          PROVE  c.used <= length
      <4>1. RoundedUp(src.used * a, ss) <= length /\ RoundedUp(src.used * a, ss) \in Int
        BY <2>4, <3>3, RoundedUpFits, RoundedUpBounds
      <4> QED
        BY <2>6, <2>7, <3>2, <4>1
    <3>4. ss = a => c.used = src.used
      BY <2>2, <2>8, <3>2
    <3> QED
      BY <1>2, <1>5, <3>2, <3>3, <3>4 DEF c, a, L
  <2>10. CASE ~(size <= L)
    <3>1. size # -1 /\ ~(size \in 0 .. new.length /\ unused \in 0 .. size)
      BY <1>1, <1>2, <2>6, <2>10
    <3>2. c = new
      BY <2>3, <2>6, <3>1, SetWrong
    <3>3. Sound(new) /\ sector_usage_known(new)
      BY <1>1, <1>2, <2>1, <2>2 DEF Sound, sector_usage_known, U, L
    <3>4. ~(a <= ss)
      <4> SUFFICES ASSUME a <= ss
                   PROVE  FALSE
        OBVIOUS
      <4>1. L \in Nat /\ S \in Nat
        BY <1>1, <2>2
      <4>2. S * a <= L * a /\ L * a = a * L /\ a * L <= ss * L /\ ss * L = L * ss
        BY <1>1, <2>2, <4>1, ProductMonotone
      <4>3. S * a <= L * ss
        BY <1>1, <2>4, <4>1, <4>2, ProductIsInt
      <4>4. size <= L
        BY <1>1, <2>4, <4>3, RoundedUpFits DEF size
      <4> QED
        BY <2>10, <4>4
    <3>5. ASSUME NEW length \in Int, src.used * a <= length * ss
          PROVE  c.used <= length
      <4>1. ss * src.used <= a * src.used /\ ss * src.used = src.used * ss /\ a * src.used = src.used * a
        BY <1>1, <2>1, <3>4, ProductMonotone
      <4>2. src.used * ss <= length * ss
        BY <1>1, <2>4, <3>5, <4>1, ProductIsInt
      <4>3. src.used <= length
        BY <1>1, <4>2, ProductCancels
      <4> QED
        BY <1>2, <3>2, <4>3
    <3> QED
      BY <1>2, <1>5, <3>2, <3>3, <3>5 DEF c, a, L
  <2> QED
    BY <1>1, <2>6, <2>9, <2>10
<1> QED
  BY <1>4, <1>5

LEMMA PasteNewPreserves ==
    ASSUME UsageInvariant, Paste, NEW to \in Places, PasteNew(get_filesystem_partition(part), to)
    PROVE  UsageInvariant'
<1> DEFINE p == part
           src == get_filesystem_partition(p)
           least == IF p.fstype = "xfs" THEN Max({FsMinimum("xfs"), Required("xfs", src)})
                                        ELSE src.length * src.ss
           most == IF get_fs(p.fstype, Everything, "grow") = NONE
                   THEN RoundedUp(src.length * src.ss, to.ss) ELSE to.length
           c == Converted(src, to.ss)
<1>1. /\ disk \in Disks /\ p \in Partitions(disk) /\ Fits(p) /\ p.fstype = disk.fstype
      /\ p.busy = disk.busy /\ p.converted \in BOOLEAN /\ Sound(src) /\ src \in Usages
  BY InvariantGives
<1>2. /\ SectorsKept /\ UsedHolds /\ Typed
  BY DEF UsageInvariant
<1>3. /\ now' = "paste" /\ disk' = disk /\ ~p.busy /\ p.fstype # "luks"
  BY DEF Paste, AllowCopy
<1>4. ~Open(p)
  BY DEF PasteNew
<1>5. PICK length \in {RoundedUp(least, to.ss), most} :
        /\ length * to.ss >= least
        /\ part' = [p EXCEPT !.status = "copy", !.converted = @ \/ src.ss # to.ss,
                             !.outer = Prepared(c, src.length, length)]
  BY DEF PasteNew
<1>6. /\ to.ss \in Nat \ {0} /\ to.length \in Nat
      /\ src.length \in Int /\ src.ss \in Nat \ {0} /\ src.used \in Int
  BY <1>1, UsageAssumption DEF Usages
<1> HIDE DEF src
<1>7. src.length * src.ss \in Int /\ estimated_min_size(src) * src.ss \in Int
  BY <1>1, <1>6, LeastIs, ProductIsInt
<1>8. FsMinimum("xfs") \in Int
  <2>1. FsMinimum("xfs") = 300 * MEBIBYTE
    BY DEF FsMinimum
  <2> QED
    BY <2>1, UsageAssumption
<1>9. Max({FsMinimum("xfs"), Required("xfs", src)})
        = IF FsMinimum("xfs") >= estimated_min_size(src) * src.ss THEN FsMinimum("xfs")
          ELSE estimated_min_size(src) * src.ss
  BY <1>7, <1>8, MaxOfTwo DEF Required
<1>10. least \in Int
  BY <1>7, <1>8, <1>9
<1>11. sector_usage_known(src) => src.used * src.ss <= least
  <2> SUFFICES ASSUME sector_usage_known(src)
               PROVE  src.used * src.ss <= least
    OBVIOUS
  <2>1. /\ src.used >= 0 /\ src.unused >= 0 /\ src.unallocated >= 0
        /\ src.used + src.unused + src.unallocated = src.length
    BY <1>1 DEF Sound, sector_usage_known
  <2>2. src.used <= src.length
    BY <1>1, <1>6, <2>1 DEF Usages
  <2>3. src.used <= estimated_min_size(src) /\ estimated_min_size(src) \in Int
    BY <1>1, <1>6, <2>1, LeastIsEnough, LeastIs
  <2>4. /\ src.used * src.ss <= src.length * src.ss
        /\ src.used * src.ss <= estimated_min_size(src) * src.ss
        /\ src.used * src.ss \in Int
    BY <1>6, <2>2, <2>3, ProductMonotone, ProductIsInt
  <2> QED
    BY <1>7, <1>8, <1>9, <2>4
<1>12. length \in Int
  <2>1. RoundedUp(least, to.ss) \in Int
    <3> HIDE DEF least
    <3> QED
      BY <1>6, <1>10, RoundedUpBounds
  <2>2. most \in Int
    BY <1>6, <1>7, RoundedUpBounds
  <2> HIDE DEF least, most
  <2> QED
    BY <1>5, <2>1, <2>2
<1>13. /\ Sound(c) /\ c.length = src.length /\ c.ss = to.ss
       /\ sector_usage_known(c) <=> sector_usage_known(src)
       /\ sector_usage_known(src) =>
            \A n \in Int : src.used * src.ss <= n * to.ss => c.used <= n
       /\ sector_usage_known(src) /\ to.ss = src.ss => c.used = src.used
  BY <1>1, <1>6, ConvertedIs
<1> HIDE DEF c, least, most
<1>14. sector_usage_known(c) => c.used <= length
  <2> SUFFICES ASSUME sector_usage_known(c)
               PROVE  c.used <= length
    OBVIOUS
  <2>1. src.used * src.ss <= length * to.ss
    BY <1>5, <1>6, <1>10, <1>11, <1>12, <1>13, ProductIsInt
  <2> QED
    BY <1>12, <1>13, <2>1
<1> DEFINE new == Prepared(c, c.length, length)
<1>15. /\ Sound(new) /\ new.ss = to.ss
       /\ sector_usage_known(new) <=> sector_usage_known(c)
       /\ sector_usage_known(c) => new.used = c.used
  BY <1>12, <1>13, <1>14, PreparedIs
<1>16. part' = [p EXCEPT !.status = "copy", !.converted = @ \/ src.ss # to.ss, !.outer = new]
  BY <1>5, <1>13
<1> HIDE DEF new
<1>17. /\ part' \in Partitions(disk) /\ part'.outer = new /\ part'.inner = p.inner
       /\ part'.header = p.header /\ part'.converted = (p.converted \/ src.ss # to.ss)
  <2>1. new \in Usages
    BY <1>15 DEF Sound
  <2> QED
    BY <1>1, <1>16, <2>1 DEF Partitions
<1>18. ~Open(part') /\ get_filesystem_partition(part') = new
  BY <1>4, <1>17 DEF Open, get_filesystem_partition
<1>19. Typed' /\ Fits(part)' /\ Begun' /\ MappingFills' /\ BusyStays' /\ LeastHolds' /\ UsageIsTrue'
  <2>1. Fits(part)'
    BY <1>1, <1>15, <1>17, <1>18 DEF Fits
  <2>2. Typed' /\ Begun' /\ MappingFills' /\ LeastHolds' /\ UsageIsTrue'
    BY <1>2, <1>3, <1>17, <1>18 DEF Typed, Begun, MappingFills, LeastHolds, UsageIsTrue
  <2>3. BusyStays'
    BY <1>1, <1>3 DEF BusyStays
  <2> QED
    BY <2>1, <2>2, <2>3
<1>20. LuksIsKnown'
  BY <1>1, <1>3 DEF LuksIsKnown
<1>21. SectorsKept' /\ UsedHolds'
  <2> SUFFICES ASSUME ~(p.converted \/ src.ss # to.ss)
               PROVE  /\ new.ss = disk.ss
                      /\ sector_usage_known(new) =>
                           new.used * disk.ss >= Needed(disk) - Short(disk) - Hidden(disk)
    BY <1>3, <1>17, <1>18 DEF SectorsKept, UsedHolds
  <2>1. new.ss = disk.ss
    BY <1>2, <1>15 DEF SectorsKept, src
  <2>2. sector_usage_known(new) => sector_usage_known(src) /\ new.used = src.used
    BY <1>13, <1>15
  <2>3. sector_usage_known(src) => src.used * disk.ss >= Needed(disk) - Short(disk) - Hidden(disk)
    BY <1>2 DEF UsedHolds, src
  <2> QED
    BY <2>1, <2>2, <2>3
<1> QED
  BY <1>19, <1>20, <1>21 DEF UsageInvariant

\* The usage carried into another file system's place.
LEMMA PastedIs ==
    ASSUME NEW src, Sound(src), NEW inside \in Nat, NEW ss \in Nat \ {0},
           src.length * src.ss <= inside * ss
    PROVE  LET u == PastedUsage(set_sector_usage(Fresh(inside, ss), inside, inside), src)
           IN  /\ Sound(u) /\ u.length = inside /\ u.ss = ss
               /\ sector_usage_known(u) /\ src.ss = ss => sector_usage_known(src) /\ u.used = src.used
<1> DEFINE old == set_sector_usage(Fresh(inside, ss), inside, inside)
           u == PastedUsage(old, src)
<1>1. /\ Sound(old) /\ sector_usage_known(old) /\ old.length = inside /\ old.ss = ss /\ old \in Usages
  <2>1. Fresh(inside, ss) \in Usages /\ Fresh(inside, ss).length = inside /\ Fresh(inside, ss).ss = ss
    BY FreshIsSound DEF Sound
  <2>2. inside \in 0 .. Fresh(inside, ss).length /\ inside \in 0 .. inside
    BY <2>1
  <2> QED
    BY <2>1, <2>2, SetKnown DEF Sound
<1>2. /\ src.used \in Int /\ src.unused \in Int /\ src.unallocated \in Int /\ src.length \in Int
      /\ src.ss \in Nat \ {0}
  BY DEF Sound, Usages
<1> HIDE DEF old
<1>3. CASE ~sector_usage_known(src)
  <2>1. u = set_sector_usage(old, -1, -1)
    BY <1>3 DEF PastedUsage
  <2>2. Sound(u) /\ ~sector_usage_known(u) /\ u.length = inside /\ u.ss = ss
    BY <1>1, <2>1, SetNothing
  <2> QED
    BY <2>2 DEF old
<1>4. CASE sector_usage_known(src)
  <2>1. /\ src.used >= 0 /\ src.unused >= 0 /\ src.unallocated >= 0
        /\ src.used + src.unused + src.unallocated = src.length
    BY <1>4 DEF Sound, sector_usage_known
  <2> DEFINE size == src.used + src.unused
  <2>2. CASE src.length = old.length
    <3>1. u = set_sector_usage(old, size, src.unused)
      BY <1>4, <2>2 DEF PastedUsage
    <3>2. size \in 0 .. old.length /\ src.unused \in 0 .. size /\ size - src.unused = src.used
      BY <1>2, <2>1, <2>2
    <3> HIDE DEF size, u
    <3>3. Sound(u) /\ u.length = old.length /\ u.ss = old.ss /\ u.used = size - src.unused
      BY <1>1, <3>1, <3>2, SetKnown
    <3> QED
      BY <1>1, <1>4, <3>2, <3>3 DEF u, old
  <2>3. CASE src.length # old.length
    <3>1. u = set_sector_usage(old, inside, inside - src.used)
      BY <1>1, <1>4, <2>3 DEF PastedUsage
    <3>2. Sound(u) /\ u.length = old.length /\ u.ss = old.ss
      BY <1>1, <1>2, <3>1, SetIsSound
    <3>3. ASSUME src.ss = ss
          PROVE  u.used = src.used
      <4>1. src.length <= inside
        BY <1>2, <3>3, ProductCancels
      <4> DEFINE unused == inside - src.used
      <4>2. inside \in 0 .. old.length /\ unused \in 0 .. inside /\ inside - unused = src.used
        BY <1>1, <1>2, <2>1, <4>1
      <4> HIDE DEF u
      <4>3. u = set_sector_usage(old, inside, unused)
        BY <3>1
      <4> HIDE DEF unused
      <4>4. u.used = inside - unused
        BY <1>1, <4>2, <4>3, SetKnown
      <4> QED
        BY <4>2, <4>4
    <3> HIDE DEF u
    <3> QED
      BY <1>1, <1>4, <3>2, <3>3 DEF u, old
  <2> QED
    BY <2>2, <2>3
<1> QED
  BY <1>3, <1>4

LEMMA PasteOverPreserves ==
    ASSUME UsageInvariant, Paste, NEW to \in Places, PasteOver(get_filesystem_partition(part), to)
    PROVE  UsageInvariant'
<1> DEFINE p == part
           src == get_filesystem_partition(p)
           inside == to.length - to.header
           old == set_sector_usage(Fresh(inside, to.ss), inside, inside)
           u == PastedUsage(old, src)
           full == set_sector_usage(Fresh(to.length, to.ss), to.length, 0)
           outer == IF to.header = 0 THEN u ELSE full
<1>1. /\ disk \in Disks /\ p \in Partitions(disk) /\ Fits(p) /\ p.fstype = disk.fstype
      /\ p.busy = disk.busy /\ p.converted \in BOOLEAN /\ Sound(src)
  BY InvariantGives
<1>2. /\ SectorsKept /\ UsedHolds /\ Typed
  BY DEF UsageInvariant
<1>3. /\ now' = "paste" /\ disk' = disk /\ ~p.busy /\ p.fstype # "luks"
  BY DEF Paste, AllowCopy
<1>4. /\ src.length * src.ss <= inside * to.ss
      /\ part' = [p EXCEPT !.header = to.header, !.converted = @ \/ src.ss # to.ss,
                           !.outer = outer, !.inner = u]
  BY DEF PasteOver
<1>5. /\ to.ss \in Nat \ {0} /\ to.length \in Nat /\ to.header \in Nat /\ inside \in Nat
      /\ to.header + inside + 0 = to.length
  BY UsageAssumption
<1> HIDE DEF src
<1>6. /\ Sound(u) /\ u.length = inside /\ u.ss = to.ss
      /\ sector_usage_known(u) /\ src.ss = to.ss => sector_usage_known(src) /\ u.used = src.used
  <2> HIDE DEF inside
  <2> QED
    BY <1>1, <1>4, <1>5, PastedIs
<1>7. /\ Sound(full) /\ sector_usage_known(full) /\ full.length = to.length /\ full.ss = to.ss
      /\ full.unused = 0 /\ full.unallocated = 0
  <2> DEFINE fresh == Fresh(to.length, to.ss)
  <2>1. fresh \in Usages /\ fresh.length = to.length /\ fresh.ss = to.ss
    BY <1>5, FreshIsSound DEF Sound
  <2> HIDE DEF fresh
  <2>2. to.length \in 0 .. fresh.length /\ 0 \in 0 .. to.length /\ fresh.length - to.length = 0
    BY <1>5, <2>1
  <2>3. full = set_sector_usage(fresh, to.length, 0)
    BY DEF fresh
  <2> HIDE DEF full
  <2>4. /\ Sound(full) /\ sector_usage_known(full) /\ full.length = fresh.length /\ full.ss = fresh.ss
        /\ full.unused = 0 /\ full.unallocated = fresh.length - to.length
    BY <2>1, <2>2, <2>3, SetKnown
  <2> QED
    BY <2>1, <2>2, <2>4
<1> HIDE DEF u, full
<1>8. Sound(outer) /\ outer.ss = to.ss /\ outer \in Usages /\ u \in Usages
  BY <1>6, <1>7 DEF Sound
<1> HIDE DEF outer
<1>9. /\ part' \in Partitions(disk) /\ part'.outer = outer /\ part'.inner = u
      /\ part'.header = to.header /\ part'.converted = (p.converted \/ src.ss # to.ss)
  BY <1>1, <1>4, <1>5, <1>8 DEF Partitions
<1>10. get_filesystem_partition(part') = u
  BY <1>5, <1>9 DEF Open, get_filesystem_partition, outer
<1>11. Fits(part)' /\ MappingFills'
  <2>1. CASE to.header = 0
    <3>1. ~Open(part')
      BY <1>9, <2>1 DEF Open
    <3> QED
      BY <1>6, <1>8, <1>9, <3>1 DEF Fits, MappingFills
  <2>2. CASE to.header # 0
    <3>1. outer = full
      BY <2>2 DEF outer
    <3> QED
      BY <1>5, <1>6, <1>7, <1>8, <1>9, <3>1 DEF Fits, MappingFills
  <2> QED
    BY <2>1, <2>2
<1>12. Typed' /\ Begun' /\ BusyStays' /\ LeastHolds' /\ UsageIsTrue'
  <2>1. Typed' /\ Begun' /\ LeastHolds' /\ UsageIsTrue'
    BY <1>2, <1>3, <1>9 DEF Typed, Begun, LeastHolds, UsageIsTrue
  <2>2. BusyStays'
    BY <1>1, <1>3 DEF BusyStays
  <2> QED
    BY <2>1, <2>2
<1>13. LuksIsKnown'
  BY <1>1, <1>3 DEF LuksIsKnown
<1>14. SectorsKept' /\ UsedHolds'
  <2> SUFFICES ASSUME ~(p.converted \/ src.ss # to.ss)
               PROVE  /\ u.ss = disk.ss
                      /\ sector_usage_known(u) =>
                           u.used * disk.ss >= Needed(disk) - Short(disk) - Hidden(disk)
    BY <1>3, <1>9, <1>10 DEF SectorsKept, UsedHolds
  <2>1. u.ss = disk.ss
    BY <1>2, <1>6 DEF SectorsKept, src
  <2>2. sector_usage_known(src) => src.used * disk.ss >= Needed(disk) - Short(disk) - Hidden(disk)
    BY <1>2 DEF UsedHolds, src
  <2> QED
    BY <1>6, <2>1, <2>2
<1> QED
  BY <1>11, <1>12, <1>13, <1>14 DEF UsageInvariant

-----------------------------------------------------------------------------
(* The theorems                                                            *)

LEMMA UsageBegins ==
    ASSUME Init
    PROVE  UsageInvariant
<1> DEFINE f == get_filesystem_partition(part)
<1>1. disk \in Disks /\ part = Unknown(disk) /\ now = "start"
  BY DEF Init
<1>2. /\ part \in Partitions(disk) /\ Fits(part) /\ ~sector_usage_known(f) /\ f.ss = disk.ss
  BY <1>1, UnknownIs
<1>3. Typed /\ Begun /\ MappingFills /\ BusyStays /\ LuksIsKnown /\ LeastHolds /\ UsageIsTrue
  BY <1>1, <1>2 DEF Typed, Begun, MappingFills, BusyStays, LuksIsKnown, LeastHolds, UsageIsTrue
<1>4. SectorsKept /\ UsedHolds
  BY <1>2 DEF SectorsKept, UsedHolds
<1> QED
  BY <1>2, <1>3, <1>4 DEF UsageInvariant

LEMMA UsageStutters ==
    ASSUME UsageInvariant, UNCHANGED vars
    PROVE  UsageInvariant'
<1>1. disk' = disk /\ part' = part /\ now' = now
  BY DEF vars
<1>2. /\ Typed' /\ Begun' /\ MappingFills' /\ SectorsKept' /\ BusyStays' /\ LuksIsKnown'
      /\ Fits(part)'
  BY <1>1 DEF UsageInvariant, Typed, Begun, MappingFills, SectorsKept, BusyStays, LuksIsKnown
<1>3. UsedHolds' /\ LeastHolds' /\ UsageIsTrue'
  BY <1>1 DEF UsageInvariant, UsedHolds, LeastHolds, UsageIsTrue
<1> QED
  BY <1>2, <1>3 DEF UsageInvariant

\* What set_used_sectors() reads of a disk is true, Partition and PartitionLUKS keep
\* its figures consistent, and none of the edits that are only queued makes the figure
\* of what is used smaller than what the file system holds.
THEOREM UsageInvariance == Spec => []UsageInvariant
<1>1. Init => UsageInvariant
  BY UsageBegins
<1>2. UsageInvariant /\ [Next]_vars => UsageInvariant'
  <2> SUFFICES ASSUME UsageInvariant, [Next]_vars
               PROVE  UsageInvariant'
    OBVIOUS
  <2>1. CASE Read
    BY <2>1, ReadPreserves
  <2>2. CASE ResizeNormal
    BY <2>2, ResizePreserves
  <2>3. CASE Paste
    <3>1. PICK to \in Places :
            \/ PasteNew(get_filesystem_partition(part), to)
            \/ PasteOver(get_filesystem_partition(part), to)
      BY <2>3 DEF Paste
    <3> QED
      BY <2>3, <3>1, PasteNewPreserves, PasteOverPreserves
  <2>4. CASE UNCHANGED vars
    BY <2>4, UsageStutters
  <2> QED
    BY <2>1, <2>2, <2>3, <2>4 DEF Next
<1> QED
  BY <1>1, <1>2, PTL DEF Spec

\* The least size Dialog_Partition_Resize_Move offers (activate_resize() with
\* Partition::estimated_min_size() and PartitionLUKS::clone_as_plain()) holds what the
\* file system uses, the LUKS header included, after any reads, resizes and pastes.
THEOREM NeverTooSmall == Spec => []MinimumHoldsData
<1>1. UsageInvariant => MinimumHoldsData
  BY MinimumFollows
<1> QED
  BY <1>1, UsageInvariance, PTL

\* The used, unused and unallocated sectors which Partition and PartitionLUKS return add
\* up to the size of the partition, and what a driver's set_used_sectors() has read is
\* what is used on the disk.
THEOREM UsageShownTruly == Spec => []ShownAsUsed
<1>1. UsageInvariant => ShownAsUsed
  BY SumsFollow DEF ShownAsUsed, UsageInvariant
<1> QED
  BY <1>1, UsageInvariance, PTL
=============================================================================
