------------------------------- MODULE MCUsage -------------------------------
EXTENDS FileSystemUsage

Types == DOMAIN SupportedFileSystems \cup {"unknown"}

\* A file system which fills its partition of 40 sectors or leaves a little free,
\* less than a sector or more than the threshold; larger ones for each range of
\* calc_significant_unallocated_sectors().
Plain(t, b, l, s, u, f, z) ==
    [fstype |-> t, busy |-> b, length |-> l, ss |-> s, blocks |-> u, free |-> f, bsize |-> z,
     header |-> 0, tail |-> 0, devices |-> 1]

MCDisks ==
    {d \in {Plain(t, b, l, s, u, u - 1 - n, z) :
              t \in Types, b \in BOOLEAN, l \in {40}, s \in {4, 8}, u \in {12, 19, 20, 39, 40},
              n \in {2, 5}, z \in {4, 8}} : d.blocks * d.bsize <= d.length * d.ss}
    \cup {Plain(t, b, l, 4, l \div 2, l \div 4, 8) :
              t \in {"btrfs", "ntfs", "lvm2_pv", "fat", "xfs"}, b \in BOOLEAN, l \in {1000, 5000}}
    \cup {[Plain(t, b, l, 4, (l - 6) \div 2 - u, 5, 8) EXCEPT !.header = 4, !.tail = 2] :
              t \in Types \ {"luks"}, b \in BOOLEAN, l \in {46, 86}, u \in {0, 2, 6}}
    \cup {Plain("udf", FALSE, 40, 16, 21, 11, 4)}
    \cup {[Plain("btrfs", b, 40, 4, 19, f, 8) EXCEPT !.devices = 2] : b \in BOOLEAN, f \in {3, 10}}

MCPlaces == {[length |-> l, ss |-> s, header |-> h, new |-> n] :
               l \in {40, 60, 2000}, s \in {4, 8}, h \in {0, 4}, n \in BOOLEAN}
=============================================================================
