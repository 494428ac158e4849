-------------------------------- MODULE MCScan --------------------------------
EXTENDS Activation

Id(uuid, label) == [uuid |-> uuid, label |-> label]
Ids == [disk |-> <<Id(1, 0), Id(2, 0)>>, crypt |-> <<Id(3, 0), Id(4, 0)>>]
Line(spec, n) == [spec |-> spec, dir |-> <<"fstab", n>>, exists |-> TRUE]

\* A session without an /etc/fstab
Session(kinds, inner, rewrites, missing, keyRing, maxChanges, maxScans) ==
    [kinds |-> kinds, inner |-> inner, rewrites |-> rewrites, missing |-> missing,
     keyRing |-> keyRing, changes |-> maxChanges, scans |-> maxScans,
     ids |-> Ids, fstab |-> <<>>, readonly |-> {}, root |-> 0]

NoInner == <<"ext4", "ext4">>
Missing == {"none", "mdadm", "blkid", "btrfs"}

\* Every pair of kinds, with every program missing
EveryKind ==
    {Session(<<a, b>>, NoInner, {}, m, {}, 3, 2) :
        a \in {"ext4", "btrfs", "mirror", "raid", "bcache", "pv"},
        b \in {"swap", "btrfs", "oldluks", "jbd", "other", "empty"}, m \in Missing}

\* Partitions which are written anew between and during the scans
Rewritten == {Session(<<"ext4", "mirror">>, NoInner, {"btrfs", "swap"}, "none", {}, 3, 2)}

\* Two encryptions whose mappings are numbered anew
Renumbered == {Session(<<"luks", "luks">>, <<"ext4", "pv">>, {}, "none", {}, 4, 2)}

\* Members of arrays behind encryptions
Arrays == {Session(<<"luks", a>>, <<b, "ext4">>, {}, m, {}, 3, 2) :
            a \in {"raid", "ext4"}, b \in {"raid", "mirror"}, m \in {"none", "mdadm"}}

\* Passphrases
Encrypted == {Session(<<"luks", "luks">>, NoInner, {}, "none", {1, 2}, 3, 3)}

\* Lines of /etc/fstab: by UUID, label and name, of partitions and of what is
\* inside an encryption, two for one device, of no device, without a directory;
\* file systems with labels, and copies which have the same UUID and label
Specs == {<<"uuid", 1>>, <<"uuid", 3>>, <<"uuid", 9>>, <<"label", 5>>, <<"label", 6>>,
          <<"disk", 2>>, <<"crypt", 1>>}
Labelled == [disk |-> <<Id(1, 5), Id(2, 6)>>, crypt |-> <<Id(3, 6), Id(4, 7)>>]
Copies == [disk |-> <<Id(1, 0), Id(2, 5)>>, crypt |-> <<Id(2, 5), Id(3, 6)>>]
WithFstab ==
    {[Session(<<"luks", k>>, <<"ext4", "ext4">>, {}, m, {}, 2, 2) EXCEPT
        !.ids = ids, !.fstab = <<Line(s, 1), Line(t, 2)>>, !.readonly = {Disk(2)}] :
        k \in {"ext4", "btrfs"}, m \in {"none", "blkid"}, ids \in {Labelled, Copies}, s \in Specs, t \in Specs}
NoDirectory ==
    {[Session(<<"ext4", "ext4">>, NoInner, {}, "none", {}, 1, 1) EXCEPT
        !.fstab = <<[Line(<<"uuid", 1>>, 1) EXCEPT !.exists = FALSE]>>]}

\* An old kernel's /dev/root
OldRoot == {[Session(<<"ext4", "other">>, NoInner, {}, "none", {}, 2, 2) EXCEPT !.root = 1]}

AllSessions ==
    EveryKind \union Arrays \union Rewritten \union Renumbered \union Encrypted
        \union WithFstab \union NoDirectory \union OldRoot
=============================================================================
