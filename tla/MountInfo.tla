------------------------------ MODULE MountInfo ------------------------------
(***************************************************************************)
(* Where file systems are mounted, and where they would be: Mount_Info,    *)
(* with the lookups of FS_Info it rests on.                                *)
(*                                                                         *)
(* fs_info_cache has an entry [name, path, type, uuid, label] for each     *)
(* line blkid printed, by the place of the device in its order; name is    *)
(* the device, path what it is compared by, and a label is read when it is *)
(* first wanted.                                                           *)
(* A MountMapping is a function from nodes to sets of mount points.  A     *)
(* node is a device number, the name of a device that has none, or a       *)
(* reference UUID= or LABEL= whose device is not known yet.                *)
(***************************************************************************)
EXTENDS Naturals, Sequences, SequencesExt

Unread == -1        \* a label nobody asked for yet
Without == 0        \* no UUID, no label
NoNode == <<"none", 0>>
NoEntry == [name |-> NoNode, path |-> NoNode, type |-> "none", uuid |-> Without, label |-> Without]

FSEntry(name, path, type, uuid) ==
    [name |-> name, path |-> path, type |-> type, uuid |-> uuid, label |-> Unread]

\* The first of the entries in the places
FirstOf(entries, places) ==
    IF places = {} THEN NoEntry
    ELSE entries[CHOOSE i \in places : \A j \in places : i <= j]

get_cache_entry_by_path(entries, path) ==
    FirstOf(entries, {i \in DOMAIN entries : entries[i].path = path})

\* blkid -o value -s LABEL, for the entries of some paths; labels[name] is
\* what it prints
run_blkid_update_cache_label(entries, paths, labels) ==
    [i \in DOMAIN entries |->
        IF entries[i].path \in paths /\ entries[i].label = Unread
        THEN [entries[i] EXCEPT !.label = labels[entries[i].name]] ELSE entries[i]]

(***************************************************************************)
(* References.                                                             *)
(***************************************************************************)
Ref(by, value) == <<by, value>>     \* by is "uuid", "label" or a kind of device
IsRef(node) == node[1] \in {"uuid", "label"}

get_path_by_uuid(entries, uuid) ==
    FirstOf(entries, {i \in DOMAIN entries : entries[i].uuid = uuid}).path
get_path_by_label(entries, label) ==
    FirstOf(entries, {i \in DOMAIN entries : entries[i].label = label}).path

lookup_uuid_or_label(entries, node) ==
    CASE node[1] = "uuid" -> get_path_by_uuid(entries, node[2])
      [] node[1] = "label" -> get_path_by_label(entries, node[2])
      [] OTHER -> NoNode

\* Looking a label up reads those of all entries
LabelsWanted(nodes) == \E n \in nodes : n[1] = "label"

(***************************************************************************)
(* Mount mappings.                                                         *)
(***************************************************************************)
NoMounts == [n \in {} |-> {}]

\* read_mountpoints_from_file("/etc/fstab"): a line is [spec, dir, exists], and
\* its spec a reference or the number of a device.  Lines of one node share an
\* entry; a line whose mount point does not exist is left out.
read_fstab(entries, lines) ==
    LET there == {line \in Range(lines) : line.exists}
        Node(line) == LET known == lookup_uuid_or_label(entries, line.spec)
                      IN  IF known = NoNode THEN line.spec ELSE known
    IN  [n \in {Node(line) : line \in there} |->
            {line.dir : line \in {l \in there : Node(l) = n}}]

\* The order of operator<(): by name, and all references before any device
RefBefore(a, b) ==
    \/ a[1] = "label" /\ b[1] = "uuid"
    \/ a[1] = b[1] /\ a[2] < b[2]

Refs(map) == {n \in DOMAIN map : IsRef(n)}

\* The references find() tries, in order, up to the first that is path
Tried(map, entries, path) ==
    {r \in Refs(map) : \A q \in Refs(map) :
        RefBefore(q, r) => lookup_uuid_or_label(entries, q) # path}

\* The mapping as find() leaves it, having looked for path: a reference whose
\* device is known now gives way to it, and its mount points replace those the
\* device has, the last one's those of the others
FoundAfter_KeysOnly(map, entries, path) == map

FoundAfter(map, entries, path) ==
    LET tried == Tried(map, entries, path)
        Of(n) == {r \in tried : lookup_uuid_or_label(entries, r) = n}
        Latest(refs) == CHOOSE r \in refs : \A q \in refs : q = r \/ RefBefore(q, r)
        nodes == {lookup_uuid_or_label(entries, r) : r \in tried} \ {NoNode}
        kept == DOMAIN map \ (tried \ Of(NoNode))
    IN  IF path \in DOMAIN map THEN map
        ELSE [n \in kept \union nodes |-> IF n \in nodes THEN map[Latest(Of(n))] ELSE map[n]]

find(map, entries, path) ==
    LET after == FoundAfter(map, entries, path)
    IN  IF path \in DOMAIN after THEN after[path] ELSE {}

(***************************************************************************)
(* What is mounted: a set of [node, dir, readonly].                        *)
(***************************************************************************)
MountEntry(node, dir, readonly) == [node |-> node, dir |-> dir, readonly |-> readonly]
Root == <<"root", 0>>   \* the mount point /, and what old kernels call its device

have_rootfs_dev(mounts) == \E m \in mounts : m.dir = Root /\ m.node # Root

MountedAt(mounts, path) == {m.dir : m \in {n \in mounts : n.node = path}}
is_dev_mounted(mounts, path) == \E m \in mounts : m.node = path
is_dev_mounted_readonly(mounts, path) == \E m \in mounts : m.node = path /\ m.readonly
=============================================================================
