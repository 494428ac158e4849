-------------------------- MODULE Activation_proofs ---------------------------
(***************************************************************************)
(* What is in use is shown busy, whatever other programs do during a scan  *)
(* and however the kernel numbers the mappings; an undisturbed scan shows  *)
(* the truth; and kept passphrases are there when they are needed.         *)
(***************************************************************************)
EXTENDS Activation, FiniteSetTheorems, WellFoundedInduction, TLAPS

-----------------------------------------------------------------------------
(* The inductive invariant of the scan *)

\* What is on the devices, and that a device is used only as its kind can be.
WorldHolds ==
    /\ session \in Sessions
    /\ kind \in Seq(DOMAIN Kinds) /\ Len(kind) = Len(session.kinds)
    /\ mapped \in [Partitions -> 0 .. Count]
    /\ \A p, q \in Partitions : mapped[p] = mapped[q] /\ mapped[p] # 0 => p = q
    /\ \A p \in Partitions : mapped[p] # 0 => Kinds[kind[p]].use = "open"
    /\ \A d \in mounted : d \in Devices /\ Present(d) /\ On(d).use = "mount"
    /\ \A d \in active : d \in Devices /\ Present(d) /\ On(d).use = "activate"

\* The scan thread and what it shows.
ThreadHolds ==
    /\ at \in {"start", "fs", "mounts", "raid", "partition", "luks", "idle"}
    /\ part \in Partitions /\ changed \in BOOLEAN
    /\ picture = [p \in Partitions |-> [shown |-> picture[p].shown, crypt |-> picture[p].crypt]]

\* Devices which have stayed as they are since the scan began: all there are, or
\* those which were in use all the time.
Known == {d \in Devices : Present(d) /\ (changed => d \in inUse)}

\* What was in use all the time, with the device below an open mapping and the
\* mounted members of a btrfs.
HistoryHolds ==
    /\ inUse \subseteq DevicesInUse
    /\ ~changed => inUse = DevicesInUse
    /\ \A p \in Partitions : Crypt(p) \in inUse => Disk(p) \in inUse
    /\ (\E d \in inUse : On(d).type = "btrfs") => BtrfsMembers \cap mounted \subseteq inUse

\* Numbers tell the devices known apart from all others.
NumbersAre(cache) ==
    /\ cache = [d \in Devices |-> cache[d]]
    /\ \A p \in Partitions : cache[Disk(p)] = Stat(Disk(p))
    /\ \A d \in Known : cache[d] \in {NoNumber, Stat(d)}
    /\ \A d \in Known, e \in Devices : cache[e] = Stat(d) => e = d

\* FS_Info lists the devices of ds that are known with what blkid finds there.
Lists(entries, cache, ds) ==
    /\ DOMAIN entries \subseteq 1 .. (2 * Count)
    /\ \A i \in DOMAIN entries :
         /\ entries[i] = [name |-> entries[i].name, path |-> entries[i].path, type |-> entries[i].type,
                          uuid |-> entries[i].uuid, label |-> entries[i].label]
         /\ entries[i].path = cache[DeviceAt(i)] /\ entries[i].path # NoNumber
         /\ DeviceAt(i) \in Known => Installed("blkid") /\ entries[i].type = On(DeviceAt(i)).blkid
    /\ \A i \in 1 .. (2 * Count) :
         /\ DeviceAt(i) \in Known \cap ds /\ Installed("blkid") /\ On(DeviceAt(i)).blkid # Nothing
         => i \in DOMAIN entries

\* Mappings are added when the scan comes to them.
ListHolds ==
    /\ Lists(fsInfo, numbers, Disks)
    /\ \A i \in DOMAIN fsInfo : i > Count => at = "idle" \/ i - Count < part

\* A known device is found mounted if it is, and nothing else once nothing changed.
MountsHold ==
    \A d \in Known : /\ d \in mounted => is_dev_mounted(mountInfo, Stat(d))
                     /\ ~changed /\ is_dev_mounted(mountInfo, Stat(d)) => d \in mounted

\* The members of arrays, likewise, by what mdadm and /proc/mdstat tell.
RaidHolds ==
    \A d \in Known : /\ IsRaid(d) /\ d \in active => is_member_active(Stat(d))
                     /\ IsRaid(d) /\ Installed("mdadm") => is_member(Stat(d))
                     /\ ~IsRaid(d) => ~is_member(Stat(d))
                     /\ ~changed /\ is_member_active(Stat(d)) => d \in active

\* Every entry of the btrfs cache has the members of the file system.
BtrfsHolds(cache) ==
    \A e \in cache : /\ \A m \in Known \cap BtrfsMembers : Stat(m) \in e.members
                     /\ ~changed => e.members \subseteq {Stat(m) : m \in BtrfsMembers}

\* The physical volumes which are active.
LvmHolds(pvs) ==
    pvs.loaded => \A d \in Known : On(d).type = "lvm2 pv" =>
        /\ d \in active => has_active_lvs(pvs.entries, Stat(d))
        /\ ~changed /\ has_active_lvs(pvs.entries, Stat(d)) => d \in active

\* The containers which are open.
LuksHolds(mappings) ==
    mappings.loaded =>
        /\ \A p \in Partitions : Disk(p) \in Known /\ mapped[p] # 0 =>
             get_cache_entry(mappings.entries, Stat(Disk(p))) # {}
        /\ \A m \in mappings.entries : \E p \in Partitions :
             m.container = Stat(Disk(p)) /\ (~changed => mapped[p] # 0)

\* What is shown of a device is right, as far as the programs installed can tell.
Truly(d, shown) ==
    \/ Hidden(d)
    \/ /\ InUse(d) => shown.busy
       /\ ~changed => shown.fstype = On(d).type /\ shown.busy = InUse(d)

\* The scan has passed the device.
Passed(d) == at = "idle" \/ d[2] < part \/ (at = "luks" /\ d = Disk(part))

\* What is shown of the known devices the scan has passed.
PictureHolds ==
    /\ \A d \in Known : Passed(d) => Truly(d, ShownOf(d))
    /\ \A p \in Partitions : ~changed /\ mapped[p] = 0 => picture[p].crypt = NoCrypt
    /\ at = "luks" /\ ~changed => mapped[part] # 0

\* A container shown open is in the cache of LUKS mappings.
OpenHolds ==
    \A p \in Partitions : picture[p].shown.fstype = "luks" /\ picture[p].shown.busy =>
        luks.loaded /\ get_cache_entry(luks.entries, Stat(Disk(p))) # {}

Scanning == at \in {"partition", "luks", "idle"}

\* Each cache from the step that loads it on.
ScanInv ==
    /\ WorldHolds /\ ThreadHolds
    /\ at # "start" => HistoryHolds /\ NumbersAre(numbers)
    /\ at \in {"fs", "mounts", "raid"} => picture = [p \in Partitions |-> NotShown] /\ part = 1
    /\ at \notin {"start", "fs"} => ListHolds
    /\ at \notin {"start", "fs", "mounts"} => MountsHold /\ BtrfsHolds(btrfs) /\ LvmHolds(lvm)
    /\ Scanning => RaidHolds /\ LuksHolds(luks) /\ PictureHolds /\ OpenHolds

-----------------------------------------------------------------------------
(* Kinds, names and numbers *)

\* What detect_filesystem() makes of a kind, with or without blkid.
Detected(K, blkid) ==
    LET name == IF blkid /\ K.blkid # Nothing THEN K.blkid ELSE K.parted
    IN  IF name \in DOMAIN TypeOfName THEN TypeOfName[name]
        ELSE IF K.signature # Nothing THEN K.signature ELSE "unknown"

KindIsSane(K) ==
    /\ K.use = "open" <=> K.type = "luks"
    /\ K.type \in {"linux-raid", "lvm2 pv", "bcache", "jbd"} => K.use = "activate"
    /\ K.use = "activate" => K.type \in {"linux-raid", "lvm2 pv", "bcache", "jbd"}
    /\ K.use \in {"mount", "activate", "open", "none"}
    /\ K.type = "btrfs" => K.use = "mount"

KindNames == {"ext4", "swap", "btrfs", "pv", "luks", "oldluks", "raid", "mirror", "bcache", "jbd", "other", "empty"}

LEMMA KindsAreSane ==
    \A k \in DOMAIN Kinds : KindIsSane(Kinds[k])
<1>1. DOMAIN Kinds = KindNames BY DEF Kinds, KindNames
<1>2. \A k \in KindNames : KindIsSane(Kinds[k])
  <2>1. KindIsSane(Kinds["ext4"]) BY DEF Kinds, Kind, KindIsSane, Nothing
  <2>2. KindIsSane(Kinds["swap"]) BY DEF Kinds, Kind, KindIsSane, Nothing
  <2>3. KindIsSane(Kinds["btrfs"]) BY DEF Kinds, Kind, KindIsSane, Nothing
  <2>4. KindIsSane(Kinds["pv"]) BY DEF Kinds, Kind, KindIsSane, Nothing
  <2>5. KindIsSane(Kinds["luks"]) /\ KindIsSane(Kinds["oldluks"]) BY DEF Kinds, Kind, KindIsSane, Nothing
  <2>6. KindIsSane(Kinds["raid"]) /\ KindIsSane(Kinds["mirror"]) BY DEF Kinds, Kind, KindIsSane, Nothing
  <2>7. KindIsSane(Kinds["bcache"]) /\ KindIsSane(Kinds["jbd"]) BY DEF Kinds, Kind, KindIsSane, Nothing
  <2>8. KindIsSane(Kinds["other"]) /\ KindIsSane(Kinds["empty"]) BY DEF Kinds, Kind, KindIsSane, Nothing
  <2> QED BY <2>1, <2>2, <2>3, <2>4, <2>5, <2>6, <2>7, <2>8 DEF KindNames
<1> QED BY <1>1, <1>2

LEMMA KindsAreDetected ==
    ASSUME NEW k \in DOMAIN Kinds, NEW b \in BOOLEAN
    PROVE  LET K == Kinds[k] IN
           /\ K.type # "linux-raid" /\ (b \/ K.type \notin {"bcache", "jbd"}) => Detected(K, b) = K.type
           /\ K.type # "linux-raid" /\ ~b => Detected(K, b) \in {K.type, "unknown"}
<1>1. k \in KindNames BY DEF Kinds, KindNames
<1>2. DOMAIN TypeOfName = {"ext4", "btrfs", "bcache", "jbd", "swap", "linux-swap(v1)",
                          "crypto_LUKS", "LVM2_member", "linux_raid_member"}
  BY DEF TypeOfName
<1>3. /\ \A n \in {"ext4", "btrfs", "bcache", "jbd"} : TypeOfName[n] = n
      /\ \A n \in {"swap", "linux-swap(v1)"} : TypeOfName[n] = "linux-swap"
      /\ TypeOfName["crypto_LUKS"] = "luks" /\ TypeOfName["LVM2_member"] = "lvm2 pv"
  BY DEF TypeOfName
<1> DEFINE Right(K) == /\ K.type # "linux-raid" /\ (b \/ K.type \notin {"bcache", "jbd"}) => Detected(K, b) = K.type
                       /\ K.type # "linux-raid" /\ ~b => Detected(K, b) \in {K.type, "unknown"}
<1>4. Right(Kinds["ext4"]) /\ Right(Kinds["swap"]) BY <1>2, <1>3 DEF Kinds, Kind, Detected, Nothing
<1>5. Right(Kinds["btrfs"]) /\ Right(Kinds["pv"]) BY <1>2, <1>3 DEF Kinds, Kind, Detected, Nothing
<1>6. Right(Kinds["luks"]) /\ Right(Kinds["oldluks"]) BY <1>2, <1>3 DEF Kinds, Kind, Detected, Nothing
<1>7. Right(Kinds["raid"]) /\ Right(Kinds["mirror"]) BY <1>2, <1>3 DEF Kinds, Kind, Detected, Nothing
<1>8. Right(Kinds["bcache"]) /\ Right(Kinds["jbd"]) BY <1>2, <1>3 DEF Kinds, Kind, Detected, Nothing
<1>9. Right(Kinds["other"]) /\ Right(Kinds["empty"]) BY <1>2, <1>3 DEF Kinds, Kind, Detected, Nothing
<1> HIDE DEF Right
<1>10. Right(Kinds[k]) BY <1>1, <1>4, <1>5, <1>6, <1>7, <1>8, <1>9 DEF KindNames
<1> QED BY <1>10 DEF Right

LEMMA SessionFacts ==
    ASSUME WorldHolds
    PROVE  /\ SessionOK(session)
           /\ Count \in Nat \ {0} /\ Partitions = 1 .. Count
           /\ \A p \in Partitions : kind[p] \in DOMAIN Kinds /\ session.inner[p] \in DOMAIN Kinds
<1>1. SessionOK(session) BY SessionAssumption DEF WorldHolds
<1>2. Len(session.kinds) \in Nat \ {0} BY <1>1 DEF SessionOK
<1>3. Count \in Nat \ {0} /\ Partitions = 1 .. Count BY <1>2 DEF WorldHolds, Count, Partitions
<1>4. \A p \in Partitions : kind[p] \in DOMAIN Kinds BY <1>3 DEF WorldHolds, Count
<1>5. \A p \in Partitions : session.inner[p] \in DOMAIN Kinds BY <1>1, <1>3 DEF WorldHolds, SessionOK, Count
<1> QED BY <1>1, <1>3, <1>4, <1>5

LEMMA DevicesAre ==
    \A d \in Devices : \E p \in Partitions : d = Disk(p) \/ d = Crypt(p)
BY DEF Devices, Disks

LEMMA Names ==
    ASSUME NEW p, NEW q
    PROVE  /\ Disk(p)[1] = "disk" /\ Disk(p)[2] = p /\ Crypt(p)[1] = "crypt" /\ Crypt(p)[2] = p
           /\ Disk(p) # Crypt(q)
           /\ Disk(p) = Disk(q) => p = q
           /\ Crypt(p) = Crypt(q) => p = q
BY DEF Disk, Crypt

LEMMA OnIsSane ==
    ASSUME WorldHolds, NEW d \in Devices
    PROVE  /\ KindIsSane(On(d))
           /\ \E k \in DOMAIN Kinds : On(d) = Kinds[k]
<1>1. d[2] \in Partitions BY DevicesAre, Names
<1> QED BY <1>1, SessionFacts, KindsAreSane DEF On

LEMMA StatIs ==
    ASSUME WorldHolds, NEW p \in Partitions
    PROVE  /\ Stat(Disk(p)) = <<"sd", p>>
           /\ Present(Disk(p)) /\ (Present(Crypt(p)) <=> mapped[p] # 0)
           /\ Stat(Crypt(p)) = IF mapped[p] # 0 THEN <<"dm", mapped[p]>> ELSE <<"crypt", p>>
           /\ Stat(Disk(p)) # NoNumber /\ Stat(Crypt(p)) # NoNumber
           /\ Stat(Disk(p)) # Root /\ Stat(Crypt(p)) # Root
BY DEF Stat, Present, Disk, Crypt, NoNumber, Root

\* No two devices have the same number, and a closed mapping has none.
LEMMA StatTells ==
    ASSUME WorldHolds, NEW d \in Devices, Present(d), NEW e \in Devices, Stat(e) = Stat(d)
    PROVE  e = d
<1>1. PICK p \in Partitions : d = Disk(p) \/ d = Crypt(p) BY DevicesAre
<1>2. PICK q \in Partitions : e = Disk(q) \/ e = Crypt(q) BY DevicesAre
<1>3. CASE d = Disk(p) BY <1>2, <1>3, StatIs
<1>4. CASE d = Crypt(p)
  <2>1. mapped[p] # 0 /\ Stat(d) = <<"dm", mapped[p]>> BY <1>4, StatIs
  <2>2. e = Crypt(q) /\ mapped[q] = mapped[p] BY <1>2, <2>1, StatIs
  <2> QED BY <1>4, <2>1, <2>2 DEF WorldHolds
<1> QED BY <1>1, <1>3, <1>4

\* What uses a device is what its kind lets use it.
LEMMA UsedAs ==
    ASSUME WorldHolds, NEW d \in Devices, Present(d)
    PROVE  /\ d \in mounted => On(d).use = "mount"
           /\ d \in active => On(d).use = "activate"
           /\ d[1] = "disk" /\ mapped[d[2]] # 0 => On(d).use = "open" /\ On(d).type = "luks"
           /\ On(d).type = "btrfs" => (InUse(d) <=> BtrfsMembers \cap mounted # {})
           /\ On(d).use = "activate" => (InUse(d) <=> d \in active)
           /\ On(d).use = "mount" /\ On(d).type # "btrfs" => (InUse(d) <=> d \in mounted)
           /\ On(d).use = "open" => (InUse(d) <=> d[1] = "disk" /\ mapped[d[2]] # 0)
           /\ On(d).use = "none" => ~InUse(d)
<1>1. KindIsSane(On(d)) BY OnIsSane
<1>2. d[1] = "disk" => d[2] \in Partitions /\ On(d) = Kinds[kind[d[2]]] BY DevicesAre, Names DEF On
<1>3. d[1] = "disk" /\ mapped[d[2]] # 0 => On(d).use = "open" BY <1>2 DEF WorldHolds
<1>4. (d \in mounted => On(d).use = "mount") /\ (d \in active => On(d).use = "activate") BY DEF WorldHolds
<1>5. d \in mounted /\ On(d).type = "btrfs" => BtrfsMembers \cap mounted # {} BY DEF BtrfsMembers
<1> QED BY <1>1, <1>3, <1>4, <1>5 DEF InUse, KindIsSane

-----------------------------------------------------------------------------
(* Asking the caches about a device which is known *)

LEMMA LookedNumbers ==
    ASSUME WorldHolds, NEW cache, NumbersAre(cache), NEW ds
    PROVE  /\ NumbersAre(Looked(cache, ds))
           /\ \A d \in Devices : cache[d] # NoNumber => Looked(cache, ds)[d] = cache[d]
           /\ \A d \in ds \cap Known : Looked(cache, ds)[d] = Stat(d)
           /\ \A d \in ds \cap Devices : Looked(cache, ds)[d] # NoNumber
<1> DEFINE after == Looked(cache, ds)
<1>1. after = [d \in Devices |-> IF d \in ds /\ cache[d] = NoNumber THEN Stat(d) ELSE cache[d]]
  BY DEF Looked, NumbersAre
<1> HIDE DEF after
<1>2. \A d \in Devices : Stat(d) # NoNumber BY DevicesAre, StatIs
<1>3. ASSUME NEW p \in Partitions PROVE after[Disk(p)] = Stat(Disk(p))
  BY <1>1 DEF NumbersAre, Devices, Disks
<1>4. ASSUME NEW d \in Known PROVE after[d] \in {NoNumber, Stat(d)} /\ (d \in ds => after[d] = Stat(d))
  BY <1>1, <1>2 DEF NumbersAre, Known
<1>5. ASSUME NEW d \in Known, NEW e \in Devices, after[e] = Stat(d) PROVE e = d
  BY <1>1, <1>5, StatTells DEF NumbersAre, Known
<1>6. NumbersAre(after) BY <1>1, <1>3, <1>4, <1>5 DEF NumbersAre
<1>7. \A d \in ds \cap Devices : after[d] # NoNumber BY <1>1, <1>2
<1> QED BY <1>1, <1>4, <1>6, <1>7 DEF after, Known

LEMMA LeastPlace ==
    ASSUME NEW places \in SUBSET Nat, places # {}
    PROVE  \E i \in places : \A j \in places : i <= j
<1>1. PICK i \in places : \A j \in places : ~(<<j, i>> \in OpToRel(<, Nat))
  BY WFMin, NatLessThanWellFounded
<1>2. \A j \in places : ~(j < i) BY <1>1 DEF OpToRel
<1> QED BY <1>2

LEMMA PlaceOf ==
    ASSUME WorldHolds
    PROVE  /\ \A d \in Devices : \E i \in 1 .. (2 * Count) : DeviceAt(i) = d
           /\ \A i \in 1 .. (2 * Count) : DeviceAt(i) \in Devices
           /\ \A i \in 1 .. (2 * Count) : i > Count <=> DeviceAt(i)[1] = "crypt"
           /\ \A p \in Partitions : DeviceAt(p) = Disk(p) /\ DeviceAt(Count + p) = Crypt(p)
           /\ \A i \in 1 .. (2 * Count), j \in 1 .. (2 * Count) : DeviceAt(i) = DeviceAt(j) => i = j
<1>1. Count \in Nat \ {0} /\ Partitions = 1 .. Count BY SessionFacts
<1>2. \A p \in Partitions : /\ DeviceAt(p) = Disk(p) /\ DeviceAt(Count + p) = Crypt(p)
                            /\ p \in 1 .. (2 * Count) /\ Count + p \in 1 .. (2 * Count)
  BY <1>1 DEF DeviceAt
<1>3. \A i \in 1 .. (2 * Count) : i > Count => i - Count \in Partitions BY <1>1
<1>4. \A i \in 1 .. (2 * Count) : DeviceAt(i) \in Devices BY <1>1, <1>3 DEF DeviceAt, Devices, Disks
<1>5. \A i \in 1 .. (2 * Count) : i > Count <=> DeviceAt(i)[1] = "crypt" BY <1>1, Names DEF DeviceAt
<1>6. ASSUME NEW i \in 1 .. (2 * Count), NEW j \in 1 .. (2 * Count), DeviceAt(i) = DeviceAt(j) PROVE i = j
  <2>1. i > Count <=> j > Count BY <1>5, <1>6
  <2> QED BY <1>1, <1>6, <2>1 DEF DeviceAt, Disk, Crypt
<1> QED BY <1>2, <1>4, <1>5, <1>6, DevicesAre

LEMMA ListedType ==
    ASSUME WorldHolds, NEW cache, NumbersAre(cache), NEW entries, NEW ds, Lists(entries, cache, ds),
           NEW d \in Known \cap ds, cache[d] = Stat(d)
    PROVE  get_fs_type(entries, Stat(d)) = IF Installed("blkid") THEN On(d).blkid ELSE Nothing
<1> DEFINE places == {i \in DOMAIN entries : entries[i].path = Stat(d)}
<1>1. Count \in Nat \ {0} BY SessionFacts
<1>2. \A i \in places : i \in 1 .. (2 * Count) /\ DeviceAt(i) = d
  <2> SUFFICES ASSUME NEW i \in places PROVE i \in 1 .. (2 * Count) /\ DeviceAt(i) = d OBVIOUS
  <2>1. i \in 1 .. (2 * Count) /\ cache[DeviceAt(i)] = Stat(d) BY DEF Lists
  <2>2. DeviceAt(i) \in Devices BY <2>1, PlaceOf
  <2> QED BY <2>1, <2>2 DEF NumbersAre
<1>3. \A i \in places : Installed("blkid") /\ entries[i].type = On(d).blkid BY <1>2 DEF Lists
<1>4. CASE places = {}
  <2>1. get_fs_type(entries, Stat(d)) = Nothing
    BY <1>4 DEF get_fs_type, get_cache_entry_by_path, FirstOf, NoEntry, Nothing
  <2>2. PICK i \in 1 .. (2 * Count) : DeviceAt(i) = d BY PlaceOf DEF Known
  <2>3. i \notin DOMAIN entries BY <1>4, <2>2 DEF Lists
  <2>4. ~Installed("blkid") \/ On(d).blkid = Nothing BY <2>2, <2>3 DEF Lists
  <2> QED BY <2>1, <2>4
<1>5. CASE places # {}
  <2>1. places \in SUBSET Nat BY <1>1, <1>2
  <2> DEFINE i == CHOOSE i \in places : \A j \in places : i <= j
  <2>2. i \in places BY <1>5, <2>1, LeastPlace
  <2>3. get_fs_type(entries, Stat(d)) = entries[i].type
    BY <1>5 DEF get_fs_type, get_cache_entry_by_path, FirstOf
  <2> QED BY <1>3, <2>2, <2>3
<1> QED BY <1>4, <1>5

\* A device known and not hidden is shown as what it is.
LEMMA TypeShown ==
    ASSUME WorldHolds, HistoryHolds, RaidHolds, NEW cache, NumbersAre(cache),
           NEW entries, NEW ds, Lists(entries, cache, ds),
           NEW d \in Known \cap ds, cache[d] = Stat(d), ~Hidden(d)
    PROVE  detect_filesystem(entries, d, Stat(d)) = On(d).type
<1>1. d \in Devices /\ Present(d) /\ Installed("blkid") \in BOOLEAN BY DEF Known, Installed
<1>2. PICK k \in DOMAIN Kinds : On(d) = Kinds[k] BY <1>1, OnIsSane
<1>3. CASE IsRaid(d)
  <2>1. Installed("mdadm") \/ d \in active BY <1>3 DEF Hidden
  <2>2. is_member(Stat(d)) BY <1>3, <2>1 DEF RaidHolds, is_member, is_member_active
  <2> QED BY <1>3, <2>2 DEF detect_filesystem, IsRaid
<1>4. CASE ~IsRaid(d)
  <2>1. ~is_member(Stat(d)) BY <1>4 DEF RaidHolds
  <2>2. get_fs_type(entries, Stat(d)) = IF Installed("blkid") THEN On(d).blkid ELSE Nothing BY ListedType
  <2>3. detect_filesystem(entries, d, Stat(d)) = Detected(On(d), Installed("blkid"))
    BY <2>1, <2>2 DEF detect_filesystem, Detected, detect_filesystem_internal
  <2>4. On(d).type # "linux-raid" /\ (Installed("blkid") \/ On(d).type \notin {"bcache", "jbd"})
    BY <1>4 DEF IsRaid, Hidden
  <2> QED BY <1>1, <1>2, <2>3, <2>4, KindsAreDetected
<1> QED BY <1>3, <1>4

\* It is busy if it is in use, and only then if nothing has changed.
RightUse(d, busy) == (InUse(d) => busy) /\ (~changed => busy = InUse(d))

LEMMA ActiveUse ==
    ASSUME NEW d, InUse(d) <=> d \in active
    PROVE  RightUse(d, d \in active)
<1>1. InUse(d) \in BOOLEAN BY DEF InUse
<1>2. (d \in active) \in BOOLEAN OBVIOUS
<1>3. InUse(d) => d \in active OBVIOUS
<1>4. (d \in active) = InUse(d) BY <1>1, <1>2, Zenon
<1> QED BY <1>3, <1>4, Zenon DEF RightUse

LEMMA BtrfsBusy ==
    ASSUME WorldHolds, HistoryHolds, MountsHold, NEW entries, BtrfsHolds(entries),
           NEW d \in Known, ~Hidden(d), On(d).type = "btrfs",
           Installed("btrfs") => \E e \in entries : e.device = Stat(d)
    PROVE  RightUse(d, get_mount_device(entries, Stat(d)) # {})
<1> DEFINE there == get_mount_device(entries, Stat(d))
<1>1. d \in Devices /\ Present(d) /\ (InUse(d) <=> BtrfsMembers \cap mounted # {}) BY UsedAs DEF Known
<1>2. CASE ~Installed("btrfs")
  <2>1. d \in mounted BY <1>2 DEF Hidden
  <2>2. is_dev_mounted(mountInfo, Stat(d)) BY <2>1 DEF MountsHold
  <2>3. Stat(d) \in there BY <1>2, <2>2 DEF get_mount_device
  <2>4. InUse(d) BY <2>1 DEF InUse
  <2> QED BY <2>3, <2>4 DEF RightUse
<1>3. CASE Installed("btrfs")
  <2> DEFINE found == {e \in entries : e.device = Stat(d)}
  <2>1. PICK e \in found : TRUE BY <1>3
  <2>2. there = {m \in UNION {x.members : x \in found} : is_dev_mounted(mountInfo, m)}
    BY <1>3, <2>1 DEF get_mount_device
  <2>3. ASSUME InUse(d) PROVE there # {}
    <3>1. PICK m \in BtrfsMembers : m \in mounted BY <1>1, <2>3
    <3>2. m \in Known BY <3>1 DEF Known, BtrfsMembers, HistoryHolds
    <3>3. Stat(m) \in e.members /\ is_dev_mounted(mountInfo, Stat(m)) BY <3>1, <3>2 DEF BtrfsHolds, MountsHold
    <3> QED BY <2>2, <3>3
  <2>4. ASSUME ~changed, there # {} PROVE InUse(d)
    <3>0. PICK x \in found : \E n \in x.members : is_dev_mounted(mountInfo, n) BY <2>2, <2>4
    <3>1. PICK n \in x.members : is_dev_mounted(mountInfo, n) BY <3>0
    <3>2. PICK m \in BtrfsMembers : n = Stat(m) BY <2>4, <3>1 DEF BtrfsHolds
    <3>3. m \in Known BY <2>4 DEF Known, BtrfsMembers
    <3>4. m \in mounted BY <2>4, <3>1, <3>2, <3>3 DEF MountsHold
    <3> QED BY <1>1, <3>4
  <2> HIDE DEF there
  <2>5. InUse(d) \in BOOLEAN BY DEF InUse
  <2> QED BY <2>3, <2>4, <2>5 DEF RightUse, there
<1> QED BY <1>2, <1>3

LEMMA BusyShown ==
    ASSUME WorldHolds, HistoryHolds, MountsHold, RaidHolds, NEW entries, BtrfsHolds(entries),
           NEW d \in Known, ~Hidden(d), NEW pvs, LvmHolds(pvs), NEW mappings, LuksHolds(mappings),
           On(d).type = "btrfs" /\ Installed("btrfs") => \E e \in entries : e.device = Stat(d),
           On(d).type = "lvm2 pv" => pvs.loaded, On(d).type = "luks" => mappings.loaded
    PROVE  RightUse(d, is_busy(On(d).type, d, Stat(d), entries, mappings.entries, pvs.entries))
<1> DEFINE busy == is_busy(On(d).type, d, Stat(d), entries, mappings.entries, pvs.entries)
<1>1. d \in Devices /\ Present(d) /\ InUse(d) \in BOOLEAN BY DEF Known, InUse
<1>2. KindIsSane(On(d)) BY <1>1, OnIsSane
<1>3. CASE On(d).type = "btrfs"
  <2>1. busy <=> get_mount_device(entries, Stat(d)) # {} BY <1>3 DEF is_busy
  <2> QED BY <1>3, <2>1, BtrfsBusy DEF is_busy
<1>4. CASE On(d).type = "lvm2 pv"
  <2>1. busy = has_active_lvs(pvs.entries, Stat(d)) BY <1>4 DEF is_busy
  <2>2. InUse(d) <=> d \in active BY <1>1, <1>2, <1>4, UsedAs DEF KindIsSane
  <2>3. busy \in BOOLEAN BY <2>1 DEF has_active_lvs
  <2> HIDE DEF busy
  <2> QED BY <1>1, <1>4, <2>1, <2>2, <2>3 DEF RightUse, LvmHolds, busy
<1>5. CASE On(d).type = "luks"
  <2>1. busy <=> get_cache_entry(mappings.entries, Stat(d)) # {} BY <1>5 DEF is_busy
  <2>2. InUse(d) <=> d[1] = "disk" /\ mapped[d[2]] # 0 BY <1>1, <1>2, <1>5, UsedAs DEF KindIsSane
  <2>3. ASSUME InUse(d) PROVE busy
    <3>0. PICK p \in Partitions : d = Disk(p) \/ d = Crypt(p) BY <1>1, DevicesAre
    <3>1. d = Disk(p) /\ mapped[p] # 0 BY <2>2, <2>3, <3>0, Names
    <3> QED BY <1>5, <2>1, <3>1 DEF LuksHolds
  <2>4. ASSUME ~changed, busy PROVE InUse(d)
    <3>1. PICK m \in mappings.entries : m.container = Stat(d) BY <2>1, <2>4 DEF get_cache_entry
    <3>2. PICK p \in Partitions : m.container = Stat(Disk(p)) /\ mapped[p] # 0 BY <1>5, <2>4, <3>1 DEF LuksHolds
    <3>3. Disk(p) = d BY <1>1, <3>1, <3>2, StatTells DEF Devices, Disks
    <3> QED BY <2>2, <3>2, <3>3, Names
  <2>5. busy \in BOOLEAN BY <1>5 DEF is_busy
  <2> HIDE DEF busy
  <2> QED BY <1>1, <2>3, <2>4, <2>5 DEF RightUse, busy
<1>6. CASE On(d).type = "linux-raid"
  <2>1. busy = is_member_active(Stat(d)) /\ busy \in BOOLEAN BY <1>6 DEF is_busy, is_member_active
  <2>2. InUse(d) <=> d \in active BY <1>1, <1>2, <1>6, UsedAs DEF KindIsSane
  <2> HIDE DEF busy
  <2> QED BY <1>1, <1>6, <2>1, <2>2 DEF RightUse, RaidHolds, busy, IsRaid
<1>7. CASE On(d).type \in {"bcache", "jbd"}
  <2>0. On(d).type \notin {"btrfs", "lvm2 pv", "luks", "linux-raid"} BY <1>7
  <2>1. busy = (d \in active) BY <1>7, <2>0, Zenon DEF is_busy
  <2>2. InUse(d) <=> d \in active BY <1>1, <1>2, <1>7, UsedAs DEF KindIsSane
  <2> QED BY <2>1, <2>2, ActiveUse, Zenon
<1>8. CASE On(d).type \notin {"btrfs", "lvm2 pv", "luks", "linux-raid", "bcache", "jbd"}
  <2>1. busy = is_dev_mounted(mountInfo, Stat(d)) /\ busy \in BOOLEAN BY <1>8 DEF is_busy, is_dev_mounted
  <2>2. InUse(d) <=> d \in mounted BY <1>1, <1>2, <1>8, UsedAs DEF KindIsSane
  <2> HIDE DEF busy
  <2> QED BY <1>1, <2>1, <2>2 DEF RightUse, MountsHold, busy
<1> QED BY <1>3, <1>4, <1>5, <1>6, <1>7, <1>8

-----------------------------------------------------------------------------
(* What other programs and the user do to the world *)

LEMMA SameDevices ==
    ASSUME WorldHolds, session' = session, Len(kind') = Len(kind), kind' \in Seq(DOMAIN Kinds)
    PROVE  Count' = Count /\ Partitions' = Partitions /\ Devices' = Devices /\ Disks' = Disks
<1>1. Count' = Count BY DEF Count
<1>2. Partitions' = Partitions BY SessionFacts DEF Partitions, Count
<1> QED BY <1>1, <1>2 DEF Devices, Disks

LEMMA MountKeeps ==
    ASSUME WorldHolds, NEW d \in Devices, CanMount(d), mounted' = mounted \union {d},
           UNCHANGED <<session, kind, mapped, active>>
    PROVE  WorldHolds'
<1>1. Devices' = Devices /\ Partitions' = Partitions /\ Count' = Count BY SameDevices DEF WorldHolds
<1>2. \A e : Present(e)' = Present(e) /\ On(e)' = On(e) BY DEF Present, On
<1> QED BY <1>1, <1>2 DEF WorldHolds, CanMount

LEMMA UnmountKeeps ==
    ASSUME WorldHolds, mounted' \subseteq mounted, active' \subseteq active, UNCHANGED <<session, kind, mapped>>
    PROVE  WorldHolds'
<1>1. Devices' = Devices /\ Partitions' = Partitions /\ Count' = Count BY SameDevices DEF WorldHolds
<1>2. \A e : Present(e)' = Present(e) /\ On(e)' = On(e) BY DEF Present, On
<1> QED BY <1>1, <1>2 DEF WorldHolds

LEMMA ActivateKeeps ==
    ASSUME WorldHolds, NEW d \in Devices, CanActivate(d), active' = active \union {d},
           UNCHANGED <<session, kind, mapped, mounted>>
    PROVE  WorldHolds'
<1>1. Devices' = Devices /\ Partitions' = Partitions /\ Count' = Count BY SameDevices DEF WorldHolds
<1>2. \A e : Present(e)' = Present(e) /\ On(e)' = On(e) BY DEF Present, On
<1> QED BY <1>1, <1>2 DEF WorldHolds, CanActivate

\* While a partition is closed there is a number left for it.
LEMMA NumberLeft ==
    ASSUME WorldHolds, NEW p \in Partitions, mapped[p] = 0
    PROVE  \E n \in 1 .. Count : (\A q \in Partitions : mapped[q] # n) /\ OpenMapping(p) = [mapped EXCEPT ![p] = n]
<1>1. Count \in Nat \ {0} /\ Partitions = 1 .. Count BY SessionFacts
<1> DEFINE free == {n \in 1 .. Count : \A q \in Partitions : mapped[q] # n}
<1>2. free # {}
  <2> SUFFICES ASSUME free = {} PROVE FALSE OBVIOUS
  <2> DEFINE others == Partitions \ {p}
             holder == [n \in 1 .. Count |-> CHOOSE q \in Partitions : mapped[q] = n]
  <2>1. ASSUME NEW n \in 1 .. Count PROVE holder[n] \in others /\ mapped[holder[n]] = n
    <3>1. \E q \in Partitions : mapped[q] = n OBVIOUS
    <3>2. holder[n] \in Partitions /\ mapped[holder[n]] = n BY <3>1
    <3>3. n # 0 BY <1>1
    <3> QED BY <3>2, <3>3
  <2>2. holder \in [1 .. Count -> others] BY <2>1
  <2>3. IsFiniteSet(1 .. Count) /\ Cardinality(1 .. Count) = Count BY <1>1, FS_Interval
  <2>4. IsFiniteSet(others) /\ Cardinality(others) = Count - 1
    <3>1. p \in 1 .. Count /\ others = (1 .. Count) \ {p} BY <1>1
    <3> HIDE DEF others
    <3> QED BY <2>3, <3>1, FS_RemoveElement
  <2>5. \E m, n \in 1 .. Count : m # n /\ holder[m] = holder[n]
    <3> DEFINE range == 1 .. Count
    <3>1. Cardinality(others) < Cardinality(range) /\ IsFiniteSet(range) BY <1>1, <2>3, <2>4
    <3>2. holder \in [range -> others] BY <2>2
    <3>3. IsFiniteSet(others) BY <2>4
    <3> HIDE DEF others, holder, range
    <3>4. \E m, n \in range : m # n /\ holder[m] = holder[n] BY <3>1, <3>2, <3>3, FS_PigeonHole
    <3> QED BY <3>4 DEF range
  <2> HIDE DEF others, holder
  <2> QED BY <2>1, <2>5
<1>3. free \in SUBSET Nat BY <1>1
<1>4. (CHOOSE n \in free : \A m \in free : n <= m) \in free
  <2> HIDE DEF free
  <2> QED BY <1>2, <1>3, LeastPlace
<1> QED BY <1>4 DEF OpenMapping

LEMMA OpenKeeps ==
    ASSUME WorldHolds, NEW p \in Partitions, CanOpen(p), mapped' = OpenMapping(p),
           UNCHANGED <<session, kind, mounted, active>>
    PROVE  WorldHolds'
<1>1. Devices' = Devices /\ Partitions' = Partitions /\ Count' = Count BY SameDevices DEF WorldHolds
<1>2. PICK n \in 1 .. Count : (\A q \in Partitions : mapped[q] # n) /\ mapped' = [mapped EXCEPT ![p] = n]
  BY NumberLeft DEF CanOpen
<1>3. n # 0 BY SessionFacts
<1>4. \A e \in Devices : On(e)' = On(e) /\ (Present(e) => Present(e)')
  BY <1>2, <1>3, DevicesAre, Names DEF Present, On, WorldHolds
<1>5. mapped' \in [Partitions -> 0 .. Count] BY <1>2, SessionFacts DEF WorldHolds
<1>6. \A q, r \in Partitions : mapped'[q] = mapped'[r] /\ mapped'[q] # 0 => q = r BY <1>2 DEF WorldHolds
<1>7. \A q \in Partitions : mapped'[q] # 0 => Kinds[kind[q]].use = "open" BY <1>2 DEF WorldHolds, CanOpen
<1> QED BY <1>1, <1>4, <1>5, <1>6, <1>7 DEF WorldHolds

LEMMA CloseKeeps ==
    ASSUME WorldHolds, NEW p \in Partitions, CanClose(p), mapped' = [mapped EXCEPT ![p] = 0],
           UNCHANGED <<session, kind, mounted, active>>
    PROVE  WorldHolds'
<1>1. Devices' = Devices /\ Partitions' = Partitions /\ Count' = Count BY SameDevices DEF WorldHolds
<1>2. ASSUME NEW e \in Devices PROVE On(e)' = On(e) /\ (e # Crypt(p) /\ Present(e) => Present(e)')
  <2>1. PICK q \in Partitions : e = Disk(q) \/ e = Crypt(q) BY DevicesAre
  <2>2. e # Crypt(p) => e = Disk(q) \/ mapped'[q] = mapped[q] BY <2>1 DEF WorldHolds
  <2> QED BY <2>1, <2>2, Names DEF Present, On
<1>3. Crypt(p) \notin mounted \union active BY DEF CanClose, InUse
<1>4. mapped' \in [Partitions -> 0 .. Count] BY SessionFacts DEF WorldHolds
<1>5. \A q, r \in Partitions : mapped'[q] = mapped'[r] /\ mapped'[q] # 0 => q = r BY DEF WorldHolds
<1>6. \A q \in Partitions : mapped'[q] # 0 => Kinds[kind[q]].use = "open" BY DEF WorldHolds
<1> QED BY <1>1, <1>2, <1>3, <1>4, <1>5, <1>6 DEF WorldHolds

LEMMA WriteKeeps ==
    ASSUME WorldHolds, NEW p \in Partitions, NEW k \in DOMAIN Kinds, ~InUse(Disk(p)), kind' = [kind EXCEPT ![p] = k],
           UNCHANGED <<session, mapped, mounted, active>>
    PROVE  WorldHolds'
<1>1. kind' \in Seq(DOMAIN Kinds) /\ Len(kind') = Len(kind) BY SessionFacts DEF WorldHolds, Count
<1>2. Devices' = Devices /\ Partitions' = Partitions /\ Count' = Count BY <1>1, SameDevices
<1>3. ASSUME NEW e \in Devices PROVE Present(e)' = Present(e) /\ (e # Disk(p) => On(e)' = On(e))
  <2>1. PICK q \in Partitions : e = Disk(q) \/ e = Crypt(q) BY DevicesAre
  <2>2. e # Disk(p) => e = Crypt(q) \/ kind'[q] = kind[q] BY <2>1, SessionFacts DEF WorldHolds, Count
  <2> QED BY <2>1, <2>2, Names DEF Present, On
<1>4. Disk(p) \notin mounted \union active /\ mapped[p] = 0 BY Names DEF InUse
<1>5. \A q \in Partitions : mapped'[q] # 0 => Kinds[kind'[q]].use = "open" BY <1>4, SessionFacts DEF WorldHolds, Count
<1> QED BY <1>1, <1>2, <1>3, <1>4, <1>5 DEF WorldHolds

\* What was in use all the time stays what it is, under the number it had, and
\* gets no use it had not.
Stays(d) ==
    /\ On(d)' = On(d) /\ Stat(d)' = Stat(d)
    /\ d \in mounted' => d \in mounted
    /\ d \in active' => d \in active
    /\ d[1] = "disk" /\ mapped'[d[2]] # 0 => mapped[d[2]] # 0

Steady ==
    /\ session' = session /\ WorldHolds'
    /\ Count' = Count /\ Partitions' = Partitions /\ Devices' = Devices /\ Disks' = Disks
    /\ \A d \in inUse' : Stays(d)
    /\ (\E d \in inUse : On(d).type = "btrfs") => BtrfsMembers' \cap mounted' \subseteq BtrfsMembers \cap mounted

LEMMA SteadyWorld ==
    ASSUME WorldHolds, inUse \subseteq DevicesInUse, Changed, UNCHANGED <<kind, mapped>>
    PROVE  /\ Count' = Count /\ Partitions' = Partitions /\ Devices' = Devices /\ Disks' = Disks
           /\ \A d : On(d)' = On(d) /\ Stat(d)' = Stat(d) /\ Present(d)' = Present(d)
           /\ BtrfsMembers' = BtrfsMembers
           /\ \A d \in inUse' : d \in inUse /\ d \in Devices /\ Present(d) /\ InUse(d)
<1>1. session' = session BY DEF Changed
<1>2. Count' = Count /\ Partitions' = Partitions /\ Devices' = Devices /\ Disks' = Disks
  BY <1>1, SameDevices DEF WorldHolds
<1>3. \A d : On(d)' = On(d) /\ Present(d)' = Present(d) BY <1>1 DEF On, Present
<1>4. \A d : Stat(d)' = Stat(d) BY <1>3 DEF Stat
<1>5. \A d \in inUse' : d \in inUse /\ d \in Devices /\ Present(d) /\ InUse(d) BY DEF Changed, DevicesInUse
<1> QED BY <1>2, <1>3, <1>4, <1>5 DEF BtrfsMembers

LEMMA SteadyMount ==
    ASSUME WorldHolds, inUse \subseteq DevicesInUse, NEW e \in Devices, OthersMount(e)
    PROVE  Steady
<1>1. WorldHolds' BY MountKeeps DEF OthersMount, Changed
<1>2. ASSUME NEW d \in inUse' PROVE Stays(d)
  <2>1. d # e BY SteadyWorld DEF OthersMount, CanMount
  <2> QED BY <2>1, SteadyWorld DEF Stays, OthersMount
<1>3. ASSUME NEW d \in inUse, On(d).type = "btrfs" PROVE BtrfsMembers' \cap mounted' \subseteq BtrfsMembers \cap mounted
  <2>1. d \in Devices /\ Present(d) /\ InUse(d) BY DEF DevicesInUse
  <2>2. BtrfsMembers \cap mounted # {} BY <1>3, <2>1, UsedAs
  <2>3. On(e).type # "btrfs" BY <2>2, UsedAs DEF OthersMount, CanMount
  <2> QED BY <2>3, SteadyWorld DEF OthersMount, BtrfsMembers
<1> QED BY <1>1, <1>2, <1>3, SteadyWorld DEF Steady, OthersMount, Changed

LEMMA SteadyUnmount ==
    ASSUME WorldHolds, inUse \subseteq DevicesInUse, NEW e \in Devices, OthersUnmount(e) \/ OthersDeactivate(e)
    PROVE  Steady
<1>1. /\ mounted' \subseteq mounted /\ active' \subseteq active /\ Changed
      /\ UNCHANGED <<session, kind, mapped>>
  BY DEF OthersUnmount, OthersDeactivate, Changed
<1>2. WorldHolds' BY <1>1, UnmountKeeps
<1>3. \A d \in inUse' : Stays(d) BY <1>1, SteadyWorld DEF Stays
<1> QED BY <1>1, <1>2, <1>3, SteadyWorld DEF Steady

LEMMA SteadyActivate ==
    ASSUME WorldHolds, inUse \subseteq DevicesInUse, NEW e \in Devices, OthersActivate(e)
    PROVE  Steady
<1>1. WorldHolds' BY ActivateKeeps DEF OthersActivate, Changed
<1>2. ASSUME NEW d \in inUse' PROVE Stays(d)
  <2>1. d # e BY SteadyWorld, UsedAs DEF OthersActivate, CanActivate
  <2> QED BY <2>1, SteadyWorld DEF Stays, OthersActivate
<1> QED BY <1>1, <1>2, SteadyWorld DEF Steady, OthersActivate, Changed

LEMMA SteadyOpen ==
    ASSUME WorldHolds, inUse \subseteq DevicesInUse, NEW p \in Partitions, OthersOpen(p)
    PROVE  Steady
<1>1. WorldHolds' /\ session' = session BY OpenKeeps DEF OthersOpen, Changed
<1>2. Count' = Count /\ Partitions' = Partitions /\ Devices' = Devices /\ Disks' = Disks
  BY <1>1, SameDevices DEF WorldHolds, OthersOpen
<1>3. \A d : On(d)' = On(d) BY <1>1 DEF On, OthersOpen
<1>4. PICK n \in 1 .. Count : mapped' = [mapped EXCEPT ![p] = n] BY NumberLeft DEF OthersOpen, CanOpen
<1>5. mapped[p] = 0 /\ On(Disk(p)).use = "open" BY Names DEF OthersOpen, CanOpen, On
<1>6. ~Present(Crypt(p)) /\ ~InUse(Disk(p))
  BY <1>5, UsedAs, StatIs, Names DEF Devices, Disks
<1>7. ASSUME NEW d \in inUse' PROVE Stays(d)
  <2>1. d \in Devices /\ Present(d) /\ InUse(d) BY DEF OthersOpen, Changed, DevicesInUse
  <2>2. PICK q \in Partitions : d = Disk(q) \/ d = Crypt(q) BY <2>1, DevicesAre
  <2>3. q # p BY <1>6, <2>1, <2>2
  <2>4. mapped'[q] = mapped[q] BY <1>4, <2>3 DEF WorldHolds
  <2>5. Stat(d)' = Stat(d) BY <2>2, <2>4, Names DEF Stat, Present
  <2> QED BY <1>3, <2>2, <2>4, <2>5, Names DEF Stays, OthersOpen
<1>8. BtrfsMembers' \cap mounted' \subseteq BtrfsMembers \cap mounted
  BY <1>2, <1>3 DEF BtrfsMembers, OthersOpen, WorldHolds
<1> QED BY <1>1, <1>2, <1>7, <1>8 DEF Steady

LEMMA SteadyClose ==
    ASSUME WorldHolds, inUse \subseteq DevicesInUse, NEW p \in Partitions, OthersClose(p)
    PROVE  Steady
<1>1. WorldHolds' /\ session' = session BY CloseKeeps DEF OthersClose, Changed
<1>2. Count' = Count /\ Partitions' = Partitions /\ Devices' = Devices /\ Disks' = Disks
  BY <1>1, SameDevices DEF WorldHolds, OthersClose
<1>3. \A d : On(d)' = On(d) BY <1>1 DEF On, OthersClose
<1>4. mapped' = [mapped EXCEPT ![p] = 0] /\ mapped \in [Partitions -> 0 .. Count] BY DEF OthersClose, WorldHolds
<1>5. ~Present(Crypt(p))' BY <1>4, Names DEF Present
<1>6. ASSUME NEW d \in inUse' PROVE Stays(d)
  <2>1. d \in Devices /\ Present(d)' BY <1>2 DEF OthersClose, Changed, DevicesInUse
  <2>2. PICK q \in Partitions : d = Disk(q) \/ d = Crypt(q) BY <2>1, DevicesAre
  <2>3. d = Disk(q) \/ q # p BY <1>5, <2>1, <2>2
  <2>4. d = Disk(q) \/ mapped'[q] = mapped[q] BY <1>4, <2>3
  <2>5. Stat(d)' = Stat(d) BY <2>2, <2>4, Names DEF Stat, Present
  <2>6. mapped'[q] # 0 => mapped[q] # 0 BY <1>4
  <2> QED BY <1>3, <2>2, <2>5, <2>6, Names DEF Stays, OthersClose
<1>8. BtrfsMembers' \cap mounted' \subseteq BtrfsMembers \cap mounted
  BY <1>2, <1>3 DEF BtrfsMembers, OthersClose, WorldHolds
<1> QED BY <1>1, <1>2, <1>6, <1>8 DEF Steady

LEMMA SteadyWrite ==
    ASSUME WorldHolds, inUse \subseteq DevicesInUse, NEW p \in Partitions, NEW k \in session.rewrites, OthersWrite(p, k)
    PROVE  Steady
<1>1. k \in DOMAIN Kinds BY SessionFacts DEF SessionOK
<1>2. WorldHolds' /\ session' = session BY <1>1, WriteKeeps DEF OthersWrite, Changed
<1>3. kind' \in Seq(DOMAIN Kinds) /\ Len(kind') = Len(kind)
  BY <1>1, SessionFacts DEF WorldHolds, Count, OthersWrite
<1>4. Count' = Count /\ Partitions' = Partitions /\ Devices' = Devices /\ Disks' = Disks
  BY <1>2, <1>3, SameDevices
<1>5. \A d : Present(d)' = Present(d) BY DEF Present, OthersWrite
<1>6. \A d : Stat(d)' = Stat(d) BY <1>5 DEF Stat, OthersWrite
<1>7. ASSUME NEW d \in Devices, d # Disk(p) PROVE On(d)' = On(d)
  <2>1. PICK q \in Partitions : d = Disk(q) \/ d = Crypt(q) BY DevicesAre
  <2>2. d = Crypt(q) \/ kind'[q] = kind[q] BY <1>7, <2>1, SessionFacts DEF WorldHolds, Count, OthersWrite
  <2> QED BY <1>2, <2>1, <2>2, Names DEF On
<1>8. ASSUME NEW d \in inUse' PROVE Stays(d)
  <2>1. d \in Devices /\ InUse(d) BY DEF OthersWrite, Changed, DevicesInUse
  <2>2. d # Disk(p) BY <2>1 DEF OthersWrite
  <2> QED BY <1>6, <1>7, <2>1, <2>2 DEF Stays, OthersWrite
<1>9. Disk(p) \notin mounted BY DEF OthersWrite, InUse
<1>10. BtrfsMembers' \cap mounted' \subseteq BtrfsMembers \cap mounted
  BY <1>4, <1>5, <1>7, <1>9 DEF BtrfsMembers, OthersWrite, WorldHolds
<1> QED BY <1>2, <1>4, <1>8, <1>10 DEF Steady

LEMMA OthersAreSteady ==
    ASSUME WorldHolds, inUse \subseteq DevicesInUse, OtherPrograms
    PROVE  Steady /\ Changed
<1>1. ASSUME NEW d \in Devices, OthersMount(d) \/ OthersUnmount(d) \/ OthersActivate(d) \/ OthersDeactivate(d)
      PROVE Steady /\ Changed
  BY <1>1, SteadyMount, SteadyUnmount, SteadyActivate DEF OthersMount, OthersUnmount, OthersActivate, OthersDeactivate
<1>2. ASSUME NEW p \in Partitions, OthersOpen(p) \/ OthersClose(p) PROVE Steady /\ Changed
  BY <1>2, SteadyOpen, SteadyClose DEF OthersOpen, OthersClose
<1>3. ASSUME NEW p \in Partitions, NEW k \in session.rewrites, OthersWrite(p, k) PROVE Steady /\ Changed
  BY <1>3, SteadyWrite DEF OthersWrite
<1> QED BY <1>1, <1>2, <1>3 DEF OtherPrograms

-----------------------------------------------------------------------------
(* The caches still tell of the devices used all the time *)

LEMMA KnownStays ==
    ASSUME HistoryHolds, Steady, Changed
    PROVE  \A d \in Known' : d \in Known /\ d \in inUse' /\ Stays(d)
<1>1. Known' \subseteq inUse' BY DEF Known, Changed
<1>2. inUse' \subseteq inUse BY DEF Changed
<1>3. inUse \subseteq Known BY DEF HistoryHolds, DevicesInUse, Known
<1> QED BY <1>1, <1>2, <1>3 DEF Steady

LEMMA HistoryStays ==
    ASSUME WorldHolds, HistoryHolds, Steady, Changed
    PROVE  HistoryHolds'
<1>1. inUse' = inUse \cap DevicesInUse' /\ changed' = TRUE BY DEF Changed
<1>2. ASSUME NEW p \in Partitions, Crypt(p) \in inUse' PROVE Disk(p) \in inUse'
  <2>1. Disk(p) \in inUse BY <1>1, <1>2 DEF HistoryHolds
  <2>2. mapped'[p] # 0 BY <1>1, <1>2, Names DEF DevicesInUse, Present
  <2>3. InUse(Disk(p))' /\ Present(Disk(p))' BY <2>2, Names DEF InUse, Present
  <2>4. Disk(p) \in Devices' BY DEF Steady, Devices, Disks
  <2> QED BY <1>1, <2>1, <2>3, <2>4 DEF DevicesInUse
<1>3. ASSUME NEW d \in inUse', (On(d).type)' = "btrfs" PROVE BtrfsMembers' \cap mounted' \subseteq inUse'
  <2>1. On(d).type = "btrfs" /\ d \in inUse BY <1>1, <1>3 DEF Steady, Stays
  <2>2. BtrfsMembers' \cap mounted' \subseteq inUse BY <2>1 DEF Steady, HistoryHolds
  <2>3. BtrfsMembers' \cap mounted' \subseteq DevicesInUse' BY DEF BtrfsMembers, DevicesInUse, InUse
  <2> QED BY <1>1, <2>2, <2>3
<1>4. Partitions' = Partitions BY DEF Steady
<1>5. (\E d \in inUse' : On(d)'.type = "btrfs") => BtrfsMembers' \cap mounted' \subseteq inUse' BY <1>3
<1> QED BY <1>1, <1>2, <1>4, <1>5 DEF HistoryHolds

LEMMA NumbersStay ==
    ASSUME WorldHolds, HistoryHolds, Steady, Changed, NumbersAre(numbers)
    PROVE  NumbersAre(numbers)'
<1>1. numbers' = numbers /\ Devices' = Devices /\ Partitions' = Partitions BY DEF Changed, caches, Steady
<1>2. \A p \in Partitions : Stat(Disk(p))' = Stat(Disk(p)) BY Names DEF Stat
<1>3. \A d \in Known' : d \in Known /\ Stat(d)' = Stat(d) BY KnownStays DEF Stays
<1> QED BY <1>1, <1>2, <1>3 DEF NumbersAre

LEMMA ListStays ==
    ASSUME WorldHolds, HistoryHolds, Steady, Changed, ListHolds
    PROVE  ListHolds'
<1>1. /\ fsInfo' = fsInfo /\ numbers' = numbers /\ at' = at /\ part' = part /\ Count' = Count
      /\ Disks' = Disks /\ session' = session
  BY DEF Changed, caches, thread, Steady
<1>2. \A i : DeviceAt(i)' = DeviceAt(i) BY <1>1 DEF DeviceAt
<1>3. \A d \in Known' : d \in Known /\ On(d)' = On(d) BY KnownStays DEF Stays
<1>4. \A d \in Known' : d \in Known /\ (On(d).blkid)' = On(d).blkid BY <1>3
<1>5. Lists(fsInfo, numbers, Disks) BY DEF ListHolds
<1>6. Lists(fsInfo, numbers, Disks)' BY <1>1, <1>2, <1>4, <1>5 DEF Lists, Installed
<1> QED BY <1>1, <1>6 DEF ListHolds

LEMMA MountsStay ==
    ASSUME WorldHolds, HistoryHolds, Steady, Changed, MountsHold
    PROVE  MountsHold'
<1>1. mountInfo' = mountInfo /\ changed' = TRUE BY DEF Changed, caches, mounts
<1>2. \A d \in Known' : d \in Known /\ Stat(d)' = Stat(d) /\ (d \in mounted' => d \in mounted) BY KnownStays DEF Stays
<1> QED BY <1>1, <1>2 DEF MountsHold, is_dev_mounted

LEMMA RaidStays ==
    ASSUME WorldHolds, HistoryHolds, Steady, Changed, RaidHolds
    PROVE  RaidHolds'
<1>1. raid' = raid /\ changed' = TRUE /\ Installed("mdadm")' = Installed("mdadm")
  BY DEF Changed, caches, Steady, Installed
<1>2. \A d \in Known' : /\ d \in Known /\ Stat(d)' = Stat(d) /\ (d \in active' => d \in active)
                        /\ IsRaid(d)' = IsRaid(d)
  BY KnownStays DEF Stays, IsRaid
<1> QED BY <1>1, <1>2 DEF RaidHolds, is_member, is_member_active

LEMMA DriversStay ==
    ASSUME WorldHolds, HistoryHolds, Steady, Changed
    PROVE  /\ BtrfsHolds(btrfs) => BtrfsHolds(btrfs)'
           /\ LvmHolds(lvm) => LvmHolds(lvm)'
           /\ LuksHolds(luks) => LuksHolds(luks)'
<1>1. btrfs' = btrfs /\ lvm' = lvm /\ luks' = luks /\ changed' = TRUE /\ Partitions' = Partitions
  BY DEF Changed, caches, Steady
<1>2. \A d \in Known' : /\ d \in Known /\ Stays(d) BY KnownStays
<1>3. \A d \in Known' : d \in BtrfsMembers' => d \in BtrfsMembers
  BY <1>2 DEF BtrfsMembers, Stays, Known
<1>4. BtrfsHolds(btrfs) => BtrfsHolds(btrfs)' BY <1>1, <1>2, <1>3 DEF BtrfsHolds, Stays
<1>5. LvmHolds(lvm) => LvmHolds(lvm)' BY <1>1, <1>2 DEF LvmHolds, Stays
<1>6. \A p \in Partitions : Stat(Disk(p))' = Stat(Disk(p)) BY Names DEF Stat
<1>7. \A p \in Partitions : Disk(p) \in Known' /\ mapped'[p] # 0 => Disk(p) \in Known /\ mapped[p] # 0
  BY <1>2, Names DEF Stays
<1>8. LuksHolds(luks) => LuksHolds(luks)' BY <1>1, <1>6, <1>7 DEF LuksHolds
<1> QED BY <1>4, <1>5, <1>8

LEMMA PictureStays ==
    ASSUME WorldHolds, HistoryHolds, Steady, Changed, PictureHolds
    PROVE  PictureHolds'
<1>1. picture' = picture /\ at' = at /\ part' = part /\ changed' = TRUE /\ session' = session
  BY DEF Changed, thread, Steady
<1>2. ASSUME NEW d \in Known', Passed(d)' PROVE Truly(d, ShownOf(d))'
  <2>1. d \in Known /\ Stays(d) /\ d \in inUse BY KnownStays DEF Changed
  <2>2. Truly(d, ShownOf(d)) BY <1>1, <1>2, <2>1 DEF PictureHolds, Passed
  <2>3. InUse(d) BY <2>1 DEF HistoryHolds, DevicesInUse
  <2>4. Hidden(d) => Hidden(d)' BY <1>1, <2>1 DEF Hidden, Installed, IsRaid, Stays
  <2>5. ShownOf(d)' = ShownOf(d) BY <1>1 DEF ShownOf
  <2>6. Hidden(d)' \/ ShownOf(d)'.busy BY <2>2, <2>3, <2>4, <2>5 DEF Truly
  <2> QED BY <1>1, <2>6 DEF Truly
<1> QED BY <1>1, <1>2 DEF PictureHolds

LEMMA OpenStays ==
    ASSUME Steady, Changed, OpenHolds
    PROVE  OpenHolds'
<1>1. picture' = picture /\ luks' = luks /\ Partitions' = Partitions BY DEF Changed, thread, caches, Steady
<1>2. \A p \in Partitions : Stat(Disk(p))' = Stat(Disk(p)) BY Names DEF Stat
<1> QED BY <1>1, <1>2 DEF OpenHolds

LEMMA WorldStays ==
    ASSUME WorldHolds, OtherPrograms
    PROVE  WorldHolds' /\ Partitions' = Partitions
<1>1. ASSUME NEW d \in Devices, OthersMount(d) PROVE WorldHolds'
  BY <1>1, MountKeeps DEF OthersMount, Changed
<1>2. ASSUME NEW d \in Devices, OthersActivate(d) PROVE WorldHolds'
  BY <1>2, ActivateKeeps DEF OthersActivate, Changed
<1>3. ASSUME NEW d \in Devices, OthersUnmount(d) \/ OthersDeactivate(d) PROVE WorldHolds'
  <2>1. mounted' \subseteq mounted /\ active' \subseteq active /\ UNCHANGED <<session, kind, mapped>>
    BY <1>3 DEF OthersUnmount, OthersDeactivate, Changed
  <2> QED BY <2>1, UnmountKeeps
<1>4. ASSUME NEW p \in Partitions, OthersOpen(p) PROVE WorldHolds'
  BY <1>4, OpenKeeps DEF OthersOpen, Changed
<1>5. ASSUME NEW p \in Partitions, OthersClose(p) PROVE WorldHolds'
  BY <1>5, CloseKeeps DEF OthersClose, Changed
<1>6. ASSUME NEW p \in Partitions, NEW k \in session.rewrites, OthersWrite(p, k) PROVE WorldHolds'
  <2>1. k \in DOMAIN Kinds BY SessionFacts DEF SessionOK
  <2> QED BY <1>6, <2>1, WriteKeeps DEF OthersWrite, Changed
<1>7. WorldHolds' BY <1>1, <1>2, <1>3, <1>4, <1>5, <1>6 DEF OtherPrograms
<1>8. session' = session
  BY DEF OtherPrograms, OthersMount, OthersUnmount, OthersActivate, OthersDeactivate,
         OthersOpen, OthersClose, OthersWrite, Changed
<1>9. Len(kind') = Len(kind) /\ kind' \in Seq(DOMAIN Kinds) BY <1>7, <1>8 DEF WorldHolds
<1> QED BY <1>7, <1>8, <1>9, SameDevices

LEMMA OthersKeep ==
    ASSUME ScanInv, OtherPrograms
    PROVE  ScanInv'
<1>1. WorldHolds /\ ThreadHolds BY DEF ScanInv
<1>2. Changed BY DEF OtherPrograms, OthersMount, OthersUnmount, OthersActivate, OthersDeactivate,
                     OthersOpen, OthersClose, OthersWrite
<1>3. WorldHolds' /\ Partitions' = Partitions BY <1>1, WorldStays
<1>4. at' = at /\ part' = part /\ picture' = picture /\ changed' = TRUE BY <1>2 DEF Changed, thread
<1>5. ThreadHolds' BY <1>1, <1>3, <1>4 DEF ThreadHolds
<1>6. CASE at = "start" BY <1>3, <1>4, <1>5, <1>6 DEF ScanInv, Scanning
<1>7. CASE at # "start"
  <2>1. HistoryHolds /\ NumbersAre(numbers) BY <1>7 DEF ScanInv
  <2>2. Steady BY <1>1, <2>1, OthersAreSteady DEF HistoryHolds
  <2>3. HistoryHolds' /\ NumbersAre(numbers)' BY <1>1, <1>2, <2>1, <2>2, HistoryStays, NumbersStay
  <2>4. at \in {"fs", "mounts", "raid"} => picture' = [p \in Partitions' |-> NotShown] /\ part' = 1
    BY <1>3, <1>4 DEF ScanInv
  <2>5. at \notin {"start", "fs"} => ListHolds' BY <1>1, <1>2, <2>1, <2>2, ListStays DEF ScanInv
  <2>6. at \notin {"start", "fs", "mounts"} => MountsHold' /\ BtrfsHolds(btrfs)' /\ LvmHolds(lvm)'
    BY <1>1, <1>2, <2>1, <2>2, MountsStay, DriversStay DEF ScanInv
  <2>7. Scanning => RaidHolds' /\ LuksHolds(luks)' /\ PictureHolds' /\ OpenHolds'
    BY <1>1, <1>2, <2>1, <2>2, RaidStays, DriversStay, PictureStays, OpenStays DEF ScanInv
  <2>8. Scanning' <=> Scanning BY <1>4 DEF Scanning
  <2>9. (picture = [p \in Partitions |-> NotShown])' <=> picture' = [p \in Partitions' |-> NotShown] BY DEF NotShown
  <2> QED BY <1>3, <1>4, <1>5, <2>3, <2>4, <2>5, <2>6, <2>7, <2>8, <2>9 DEF ScanInv
<1> QED BY <1>6, <1>7

-----------------------------------------------------------------------------
(* The steps of the scan *)

\* The scan changes nothing on the devices.
LEMMA WorldSame ==
    ASSUME UNCHANGED world
    PROVE  /\ WorldHolds' = WorldHolds
           /\ session' = session /\ kind' = kind /\ mapped' = mapped /\ mounted' = mounted /\ active' = active
           /\ Count' = Count /\ Partitions' = Partitions /\ Devices' = Devices /\ Disks' = Disks
           /\ BtrfsMembers' = BtrfsMembers /\ DevicesInUse' = DevicesInUse
           /\ \A d : /\ On(d)' = On(d) /\ Present(d)' = Present(d) /\ Stat(d)' = Stat(d)
                     /\ InUse(d)' = InUse(d) /\ Hidden(d)' = Hidden(d)
           /\ \A i : DeviceAt(i)' = DeviceAt(i)
<1>1. session' = session /\ kind' = kind /\ mapped' = mapped /\ mounted' = mounted /\ active' = active
  BY DEF world
<1>2. Count' = Count /\ Partitions' = Partitions BY <1>1 DEF Count, Partitions
<1>3. Devices' = Devices /\ Disks' = Disks BY <1>2 DEF Devices, Disks
<1>4. \A d : On(d)' = On(d) /\ Present(d)' = Present(d) BY <1>1 DEF On, Present
<1>5. \A d : Stat(d)' = Stat(d) BY <1>1, <1>4 DEF Stat
<1>6. BtrfsMembers' = BtrfsMembers BY <1>3, <1>4 DEF BtrfsMembers
<1>7. \A d : InUse(d)' = InUse(d) BY <1>1, <1>4, <1>6 DEF InUse
<1>8. DevicesInUse' = DevicesInUse BY <1>3, <1>4, <1>7 DEF DevicesInUse
<1>9. \A d : Hidden(d)' = Hidden(d) BY <1>1, <1>4 DEF Hidden, Installed, IsRaid
<1>10. WorldHolds' = WorldHolds BY <1>1, <1>2, <1>3, <1>4 DEF WorldHolds
<1>11. \A i : DeviceAt(i)' = DeviceAt(i) BY <1>2 DEF DeviceAt
<1> QED BY <1>1, <1>2, <1>3, <1>4, <1>5, <1>6, <1>7, <1>8, <1>9, <1>10, <1>11

LEMMA ScanSame ==
    ASSUME UNCHANGED <<world, history>>
    PROVE  /\ Known' = Known /\ changed' = changed
           /\ HistoryHolds' = HistoryHolds
           /\ NumbersAre(numbers') => NumbersAre(numbers)'
           /\ Lists(fsInfo', numbers', Disks) => Lists(fsInfo, numbers, Disks)'
           /\ BtrfsHolds(btrfs') => BtrfsHolds(btrfs)'
           /\ LvmHolds(lvm') => LvmHolds(lvm)'
           /\ LuksHolds(luks') => LuksHolds(luks)'
           /\ UNCHANGED mountInfo => MountsHold' = MountsHold
           /\ UNCHANGED raid => RaidHolds' = RaidHolds
<1>1. changed' = changed /\ inUse' = inUse BY DEF history
<1>2. Known' = Known BY <1>1, WorldSame DEF Known
<1>3. HistoryHolds' = HistoryHolds BY <1>1, WorldSame DEF HistoryHolds
<1>4. NumbersAre(numbers') => NumbersAre(numbers)' BY <1>2, WorldSame DEF NumbersAre
<1>5. Lists(fsInfo', numbers', Disks) => Lists(fsInfo, numbers, Disks)' BY <1>2, WorldSame DEF Lists, Installed
<1>6. BtrfsHolds(btrfs') => BtrfsHolds(btrfs)' BY <1>1, <1>2, WorldSame DEF BtrfsHolds
<1>7. LvmHolds(lvm') => LvmHolds(lvm)' BY <1>1, <1>2, WorldSame DEF LvmHolds
<1>8. LuksHolds(luks') => LuksHolds(luks)' BY <1>1, <1>2, WorldSame DEF LuksHolds
<1>9. UNCHANGED mountInfo => MountsHold' = MountsHold
  BY <1>1, <1>2, WorldSame DEF MountsHold, is_dev_mounted
<1>10. UNCHANGED raid => RaidHolds' = RaidHolds
  BY <1>1, <1>2, WorldSame DEF RaidHolds, is_member, is_member_active, IsRaid, Installed
<1> QED BY <1>1, <1>2, <1>3, <1>4, <1>5, <1>6, <1>7, <1>8, <1>9, <1>10

LEMMA StartKeeps ==
    ASSUME ScanInv, Start
    PROVE  ScanInv'
<1>1. WorldHolds /\ ThreadHolds /\ UNCHANGED world BY DEF ScanInv, Start
<1>2. WorldHolds' BY <1>1, WorldSame
<1>3. /\ at' = "fs" /\ part' = 1 /\ changed' = FALSE /\ inUse' = DevicesInUse
      /\ picture' = [p \in Partitions |-> NotShown]
  BY DEF Start
<1>4. 1 \in Partitions' BY <1>1, WorldSame, SessionFacts
<1>5. ThreadHolds' BY <1>1, <1>3, <1>4, WorldSame DEF ThreadHolds, NotShown
<1>6. HistoryHolds'
  <2>1. ASSUME NEW p \in Partitions, Crypt(p) \in DevicesInUse PROVE Disk(p) \in DevicesInUse
    BY <1>1, <2>1, StatIs, Names DEF DevicesInUse, InUse, Devices, Disks
  <2>2. BtrfsMembers \cap mounted \subseteq DevicesInUse BY DEF BtrfsMembers, DevicesInUse, InUse
  <2> QED BY <1>1, <1>3, <2>1, <2>2, WorldSame DEF HistoryHolds
<1>7. NumbersAre(numbers)'
  <2>1. numbers' = [d \in Devices |-> IF d \in Disks THEN Stat(d) ELSE NoNumber]
    BY DEF Start, RegisterBlockSpecials, clear_cache
  <2>2. \A p \in Partitions : numbers'[Disk(p)] = Stat(Disk(p)) BY <2>1 DEF Devices, Disks
  <2>3. \A d \in Devices : numbers'[d] \in {NoNumber, Stat(d)} BY <2>1
  <2>4. ASSUME NEW d \in Devices, Present(d), NEW e \in Devices, numbers'[e] = Stat(d) PROVE e = d
    <3>1. Stat(d) # NoNumber BY <1>1, DevicesAre, StatIs
    <3> QED BY <1>1, <2>3, <2>4, <3>1, StatTells
  <2>5. \A d \in Known' : d \in Devices /\ Present(d) BY <1>1, WorldSame DEF Known
  <2>6. numbers' = [d \in Devices |-> numbers'[d]] BY <2>1
  <2> QED BY <1>1, <2>2, <2>3, <2>4, <2>5, <2>6, WorldSame DEF NumbersAre
<1>8. (picture = [p \in Partitions |-> NotShown])' BY <1>1, <1>3, WorldSame DEF NotShown
<1> QED BY <1>2, <1>3, <1>5, <1>6, <1>7, <1>8 DEF ScanInv, Scanning

LEMMA BlkidLists ==
    ASSUME WorldHolds, NEW cache, NEW ds, \A d \in ds \cap Devices : cache[d] # NoNumber
    PROVE  /\ Lists(BlkidEntries(cache, ds), cache, ds)
           /\ \A i \in DOMAIN BlkidEntries(cache, ds) : DeviceAt(i) \in ds
<1> DEFINE entries == BlkidEntries(cache, ds)
           found(i) == /\ Installed("blkid") /\ DeviceAt(i) \in ds
                       /\ Present(DeviceAt(i)) /\ On(DeviceAt(i)).blkid # Nothing
<1>1. DOMAIN entries = {i \in 1 .. (2 * Count) : found(i)} BY DEF BlkidEntries
<1>2. ASSUME NEW i \in DOMAIN entries
      PROVE  entries[i] = FSEntry(DeviceAt(i), cache[DeviceAt(i)], On(DeviceAt(i)).blkid, IdOn(DeviceAt(i)).uuid)
  BY <1>1 DEF BlkidEntries
<1>3. ASSUME NEW i \in DOMAIN entries
      PROVE  /\ entries[i] = [name |-> entries[i].name, path |-> entries[i].path, type |-> entries[i].type,
                              uuid |-> entries[i].uuid, label |-> entries[i].label]
             /\ entries[i].path = cache[DeviceAt(i)] /\ entries[i].path # NoNumber
             /\ Installed("blkid") /\ entries[i].type = On(DeviceAt(i)).blkid
  <2>1. DeviceAt(i) \in ds \cap Devices BY <1>1, PlaceOf
  <2>2. Installed("blkid") BY <1>1
  <2> HIDE DEF entries
  <2>3. entries[i].path = cache[DeviceAt(i)] /\ entries[i].type = On(DeviceAt(i)).blkid BY <1>2 DEF FSEntry
  <2>4. entries[i] = [name |-> entries[i].name, path |-> entries[i].path, type |-> entries[i].type,
                      uuid |-> entries[i].uuid, label |-> entries[i].label]
    BY <1>2 DEF FSEntry
  <2> QED BY <2>1, <2>2, <2>3, <2>4
<1>4. \A i \in 1 .. (2 * Count) :
        /\ DeviceAt(i) \in Known \cap ds /\ Installed("blkid") /\ On(DeviceAt(i)).blkid # Nothing
        => i \in DOMAIN entries
  BY <1>1 DEF Known
<1> HIDE DEF entries
<1>5. Lists(entries, cache, ds) BY <1>1, <1>3, <1>4 DEF Lists
<1> QED BY <1>1, <1>5 DEF entries

LEMMA LoadFsInfoKeeps ==
    ASSUME ScanInv, LoadFsInfo
    PROVE  ScanInv'
<1>1. /\ WorldHolds /\ ThreadHolds /\ HistoryHolds /\ NumbersAre(numbers)
      /\ picture = [p \in Partitions |-> NotShown] /\ part = 1
      /\ UNCHANGED <<world, history>>
  BY DEF ScanInv, LoadFsInfo
<1>2. /\ fsInfo' = BlkidEntries(numbers, Disks) /\ at' = "mounts"
      /\ UNCHANGED <<numbers, part, picture>>
  BY DEF LoadFsInfo
<1>3. \A d \in Disks \cap Devices : numbers[d] # NoNumber
  <2>1. \A p \in Partitions : numbers[Disk(p)] = Stat(Disk(p)) BY <1>1 DEF NumbersAre
  <2>2. \A p \in Partitions : numbers[Disk(p)] # NoNumber BY <1>1, <2>1, StatIs
  <2> QED BY <2>2 DEF Disks
<1>4. Lists(fsInfo', numbers', Disks) /\ \A i \in DOMAIN fsInfo' : DeviceAt(i) \in Disks
  BY <1>1, <1>2, <1>3, BlkidLists
<1>5. \A i \in DOMAIN fsInfo' : ~(i > Count)
  <2>1. \A i \in DOMAIN fsInfo' : i \in 1 .. (2 * Count) /\ DeviceAt(i)[1] = "disk"
    BY <1>4, Names DEF Lists, Disks
  <2> QED BY <1>1, <2>1, PlaceOf
<1>6. ListHolds' BY <1>1, <1>4, <1>5, ScanSame, WorldSame DEF ListHolds
<1>7. ThreadHolds' BY <1>1, <1>2, ScanSame, WorldSame DEF ThreadHolds
<1>8. (picture = [p \in Partitions |-> NotShown])' BY <1>1, <1>2, WorldSame DEF NotShown
<1>9. NumbersAre(numbers)' /\ HistoryHolds' /\ WorldHolds' BY <1>1, <1>2, ScanSame, WorldSame
<1> QED BY <1>1, <1>2, <1>6, <1>7, <1>8, <1>9 DEF ScanInv, Scanning

LEMMA ListsLooked ==
    ASSUME WorldHolds, NEW entries, NEW cache, NEW ds, Lists(entries, cache, ds), NEW after,
           \A d \in Devices : cache[d] # NoNumber => after[d] = cache[d]
    PROVE  Lists(entries, after, ds)
<1>1. \A i \in DOMAIN entries : DeviceAt(i) \in Devices BY PlaceOf DEF Lists
<1>2. \A i \in DOMAIN entries : entries[i].path = after[DeviceAt(i)] BY <1>1 DEF Lists
<1> QED BY <1>2 DEF Lists

LEMMA ListsLabelled ==
    ASSUME NEW entries, NEW cache, NEW ds, Lists(entries, cache, ds), NEW paths, NEW labels
    PROVE  /\ Lists(run_blkid_update_cache_label(entries, paths, labels), cache, ds)
           /\ DOMAIN run_blkid_update_cache_label(entries, paths, labels) = DOMAIN entries
<1> DEFINE after == run_blkid_update_cache_label(entries, paths, labels)
<1>1. DOMAIN after = DOMAIN entries BY DEF run_blkid_update_cache_label
<1>2. ASSUME NEW i \in DOMAIN entries
      PROVE  /\ after[i] = [name |-> after[i].name, path |-> after[i].path, type |-> after[i].type,
                            uuid |-> after[i].uuid, label |-> after[i].label]
             /\ after[i].path = entries[i].path /\ after[i].type = entries[i].type
  <2>1. after[i] = entries[i] \/ after[i] = [entries[i] EXCEPT !.label = labels[entries[i].name]]
    BY DEF run_blkid_update_cache_label
  <2>2. entries[i] = [name |-> entries[i].name, path |-> entries[i].path, type |-> entries[i].type,
                      uuid |-> entries[i].uuid, label |-> entries[i].label]
    BY DEF Lists
  <2> HIDE DEF after
  <2> QED BY <2>1, <2>2
<1> HIDE DEF after
<1>3. Lists(after, cache, ds) BY <1>1, <1>2 DEF Lists
<1> QED BY <1>1, <1>3 DEF after

\* The mounts read tell what is mounted, by number, whatever the kernel calls the
\* device of the root.
LEMMA MountsTell ==
    ASSUME WorldHolds, NEW cache, NumbersAre(cache), \A d \in mounted : cache[d] # NoNumber, NEW d \in Known
    PROVE  is_dev_mounted(MountsRead(cache), Stat(d)) <=> d \in mounted
<1> DEFINE At(e, node) == MountEntry(node, MountDir(e), e \in session.readonly)
           Proc(e) == At(e, IF MountDir(e) = Root THEN Root ELSE cache[e])
           proc == {Proc(e) : e \in mounted}
           all == {At(e, cache[e]) : e \in mounted}
<1>1. \A e : Proc(e).node = (IF MountDir(e) = Root THEN Root ELSE cache[e]) /\ At(e, cache[e]).node = cache[e]
  BY DEF MountEntry
<1>2. \A e : Proc(e).dir = MountDir(e) BY DEF MountEntry
<1>3. ~have_rootfs_dev(proc) BY <1>1, <1>2 DEF have_rootfs_dev
<1>4. MountsRead(cache) = IF session.root = 0 THEN proc ELSE proc \union all BY <1>3 DEF MountsRead
<1>5. PICK p \in Partitions : d = Disk(p) \/ d = Crypt(p) BY DevicesAre DEF Known
<1>6. Stat(d) # Root /\ Stat(d) # NoNumber BY <1>5, StatIs
<1> HIDE DEF proc, all, At, Proc
<1>7. ASSUME d \in mounted PROVE is_dev_mounted(MountsRead(cache), Stat(d))
  <2>1. cache[d] = Stat(d) BY <1>7 DEF NumbersAre
  <2>2. CASE session.root = 0
    <3>1. d # Disk(0) BY <1>5, SessionFacts, Names
    <3>2. MountDir(d) = d /\ d # Root BY <1>5, <2>2, <3>1 DEF MountDir, Disk, Crypt, Root
    <3>3. Proc(d).node = Stat(d) BY <1>1, <2>1, <3>2
    <3>4. Proc(d) \in MountsRead(cache) BY <1>4, <1>7, <2>2 DEF proc
    <3> QED BY <3>3, <3>4 DEF is_dev_mounted
  <2>3. CASE session.root # 0
    <3>1. At(d, cache[d]) \in MountsRead(cache) BY <1>4, <1>7, <2>3 DEF all
    <3> QED BY <1>1, <2>1, <3>1 DEF is_dev_mounted
  <2> QED BY <2>2, <2>3
<1>8. ASSUME is_dev_mounted(MountsRead(cache), Stat(d)) PROVE d \in mounted
  <2>1. PICK m \in MountsRead(cache) : m.node = Stat(d) BY <1>8 DEF is_dev_mounted
  <2>2. m \in proc \/ m \in all BY <1>4, <2>1
  <2>3. \E e \in mounted : m = Proc(e) \/ m = At(e, cache[e]) BY <2>2 DEF proc, all
  <2>4. \E e \in mounted : cache[e] = Stat(d) BY <1>1, <1>6, <2>1, <2>3
  <2> QED BY <2>4 DEF NumbersAre, WorldHolds
<1> QED BY <1>7, <1>8

LEMMA LoadMountInfoKeeps ==
    ASSUME ScanInv, LoadMountInfo
    PROVE  ScanInv'
<1>1. /\ WorldHolds /\ ThreadHolds /\ HistoryHolds /\ NumbersAre(numbers) /\ ListHolds
      /\ at = "mounts" /\ picture = [p \in Partitions |-> NotShown] /\ part = 1
      /\ UNCHANGED <<world, history>>
  BY DEF ScanInv, LoadMountInfo
<1>2. /\ LoadMounts({}) /\ at' = "raid" /\ lvm' = NotLoaded /\ btrfs' = {}
      /\ UNCHANGED <<part, picture>>
  BY DEF LoadMountInfo
<1>3. numbers' = Looked(numbers, mounted \union FstabNames \union {}) BY <1>2 DEF LoadMounts
<1>4. /\ NumbersAre(numbers')
      /\ \A d \in Devices : numbers[d] # NoNumber => numbers'[d] = numbers[d]
      /\ \A d \in mounted : numbers'[d] # NoNumber
  <2>1. mounted \subseteq Devices BY <1>1 DEF WorldHolds
  <2> QED BY <1>1, <1>3, <2>1, LookedNumbers
<1>5. Lists(fsInfo, numbers', Disks) BY <1>1, <1>4, ListsLooked DEF ListHolds
<1>6. Lists(fsInfo', numbers', Disks) /\ DOMAIN fsInfo' = DOMAIN fsInfo
  BY <1>2, <1>5, ListsLabelled DEF LoadMounts, FstabEntries
<1>7. \A i \in DOMAIN fsInfo' : ~(i > Count)
  <2>1. \A i \in DOMAIN fsInfo' : i \in Nat BY <1>1, <1>6, SessionFacts DEF Lists
  <2>2. Count \in Nat BY <1>1, SessionFacts
  <2> QED BY <1>1, <1>6, <2>1, <2>2 DEF ListHolds
<1>8. ListHolds' BY <1>1, <1>6, <1>7, ScanSame, WorldSame DEF ListHolds
<1>9. MountsHold'
  <2>1. mountInfo' = MountsRead(numbers') BY <1>2 DEF LoadMounts
  <2>2. \A d \in Known : is_dev_mounted(mountInfo', Stat(d)) <=> d \in mounted BY <1>1, <1>4, <2>1, MountsTell
  <2> QED BY <1>1, <2>2, ScanSame, WorldSame DEF MountsHold, is_dev_mounted
<1>10. BtrfsHolds(btrfs)' /\ LvmHolds(lvm)' BY <1>2 DEF BtrfsHolds, LvmHolds, NotLoaded
<1>11. ThreadHolds' BY <1>1, <1>2, ScanSame, WorldSame DEF ThreadHolds
<1>12. (picture = [p \in Partitions |-> NotShown])' BY <1>1, <1>2, WorldSame DEF NotShown
<1>13. NumbersAre(numbers)' /\ HistoryHolds' /\ WorldHolds' BY <1>1, <1>4, ScanSame, WorldSame
<1> QED BY <1>1, <1>2, <1>8, <1>9, <1>10, <1>11, <1>12, <1>13 DEF ScanInv, Scanning

LEMMA MembersTell ==
    ASSUME WorldHolds, NEW d \in Known
    PROVE  LET found == load_swraid_info_cache IN
           /\ IsRaid(d) /\ d \in active => \E m \in found : m.member = Stat(d) /\ m.active
           /\ IsRaid(d) /\ Installed("mdadm") => \E m \in found : m.member = Stat(d)
           /\ ~IsRaid(d) => ~\E m \in found : m.member = Stat(d)
           /\ (\E m \in found : m.member = Stat(d) /\ m.active) => d \in active
<1> DEFINE found == load_swraid_info_cache
           members == {e \in Devices : Present(e) /\ IsRaid(e)}
           listed == IF Installed("mdadm") THEN members ELSE members \cap active
           Entry(e) == [member |-> Stat(e), active |-> e \in members \cap active,
                        array |-> IF e \in members \cap active THEN {ArrayOn(e).path} ELSE {},
                        uuid |-> IF Installed("mdadm") THEN ArrayOn(e).uuid ELSE Without,
                        label |-> IF Installed("mdadm") THEN ArrayOn(e).label ELSE Without]
<1>1. found = {Entry(e) : e \in listed} BY DEF load_swraid_info_cache
<1>2. \A e : Entry(e).member = Stat(e) /\ (Entry(e).active <=> e \in members \cap active) OBVIOUS
<1>3. d \in Devices /\ Present(d) BY DEF Known
<1>4. \A e \in listed : e \in Devices /\ IsRaid(e) OBVIOUS
<1>5. (IsRaid(d) <=> d \in members) /\ (IsRaid(d) /\ d \in active => d \in listed)
      /\ (IsRaid(d) /\ Installed("mdadm") => d \in listed)
  BY <1>3
<1> HIDE DEF found, Entry, listed, members
<1>6. \A m \in found : m.member = Stat(d) => d \in listed /\ m = Entry(d)
  BY <1>1, <1>2, <1>3, <1>4, StatTells
<1>7. d \in listed => Entry(d) \in found BY <1>1
<1>8. IsRaid(d) /\ d \in active => \E m \in found : m.member = Stat(d) /\ m.active BY <1>2, <1>5, <1>7
<1>9. IsRaid(d) /\ Installed("mdadm") => \E m \in found : m.member = Stat(d) BY <1>2, <1>5, <1>7
<1>10. ~IsRaid(d) => ~\E m \in found : m.member = Stat(d) BY <1>4, <1>6
<1>11. (\E m \in found : m.member = Stat(d) /\ m.active) => d \in active BY <1>2, <1>6
<1> QED BY <1>8, <1>9, <1>10, <1>11 DEF found

LEMMA LoadSWRaidInfoKeeps ==
    ASSUME ScanInv, LoadSWRaidInfo
    PROVE  ScanInv'
<1>1. /\ WorldHolds /\ ThreadHolds /\ HistoryHolds /\ NumbersAre(numbers) /\ ListHolds
      /\ MountsHold /\ BtrfsHolds(btrfs) /\ LvmHolds(lvm)
      /\ at = "raid" /\ picture = [p \in Partitions |-> NotShown] /\ part = 1
      /\ UNCHANGED <<world, history>>
  BY DEF ScanInv, LoadSWRaidInfo
<1>2. /\ raid' = load_swraid_info_cache /\ luks' = NotLoaded /\ at' = "partition"
      /\ UNCHANGED <<numbers, fsInfo, mounts, btrfs, lvm, part, picture>>
  BY DEF LoadSWRaidInfo
<1>3. /\ WorldHolds' /\ HistoryHolds' /\ NumbersAre(numbers)' /\ Lists(fsInfo, numbers, Disks)'
      /\ MountsHold' /\ BtrfsHolds(btrfs)' /\ LvmHolds(lvm)'
  BY <1>1, <1>2, ScanSame, WorldSame DEF mounts, ListHolds
<1>4. ListHolds' BY <1>1, <1>2, <1>3, WorldSame DEF ListHolds
<1>5. ThreadHolds' BY <1>1, <1>2, ScanSame, WorldSame DEF ThreadHolds
<1>6. RaidHolds'
  <2>1. (Installed("mdadm"))' = Installed("mdadm") BY <1>1, WorldSame DEF Installed
  <2>2. \A d : IsRaid(d)' = IsRaid(d) BY <1>1, WorldSame DEF IsRaid
  <2>3. \A d \in Known :
          /\ IsRaid(d) /\ d \in active => \E m \in raid' : m.member = Stat(d) /\ m.active
          /\ IsRaid(d) /\ Installed("mdadm") => \E m \in raid' : m.member = Stat(d)
          /\ ~IsRaid(d) => ~\E m \in raid' : m.member = Stat(d)
          /\ (\E m \in raid' : m.member = Stat(d) /\ m.active) => d \in active
    BY <1>1, <1>2, MembersTell
  <2> QED BY <1>1, <2>1, <2>2, <2>3, ScanSame, WorldSame DEF RaidHolds, is_member, is_member_active
<1>7. LuksHolds(luks)' BY <1>2 DEF LuksHolds, NotLoaded
<1>8. \A p \in Partitions : picture'[p] = NotShown BY <1>1, <1>2
<1>9. PictureHolds'
  <2>1. \A d \in Devices : ~(d[2] < 1) BY <1>1, DevicesAre, Names, SessionFacts
  <2>2. \A d \in Known' : ~Passed(d)' BY <1>1, <1>2, <2>1, ScanSame DEF Passed, Known
  <2> QED BY <1>1, <1>2, <1>8, <2>2, WorldSame DEF PictureHolds, NotShown
<1>10. OpenHolds' BY <1>1, <1>8, WorldSame DEF OpenHolds, NotShown, NoCrypt, Shown, Nothing
<1> QED BY <1>2, <1>3, <1>4, <1>5, <1>6, <1>7, <1>9, <1>10 DEF ScanInv, Scanning

\* What a driver reads of the devices it names is keyed by their numbers.
LEMMA DriversTell ==
    ASSUME WorldHolds, HistoryHolds, NEW cache, NumbersAre(cache), NEW fstype, NEW d \in Devices,
           BtrfsHolds(btrfs), LvmHolds(lvm), LuksHolds(luks),
           \A e \in Named(fstype, d) \cap Known : cache[e] = Stat(e),
           LoadDriverCaches(fstype, d, cache)
    PROVE  /\ BtrfsHolds(btrfs') /\ LvmHolds(lvm') /\ LuksHolds(luks')
           /\ fstype = "lvm2 pv" => lvm'.loaded
           /\ fstype = "luks" => luks'.loaded
           /\ luks.loaded => luks' = luks
           /\ fstype = "btrfs" /\ Installed("btrfs") /\ On(d).type = "btrfs" /\ Present(d) =>
                \E e \in btrfs' : e.device = cache[d]
<1>1. CASE fstype = "btrfs" /\ Installed("btrfs") /\ ~\E e \in btrfs : e.device = cache[d]
  <2> DEFINE members == IF On(d).type = "btrfs" THEN BtrfsMembers ELSE {}
             kept == {e \in btrfs : e.device \notin Keys(cache, members)}
             new == {[device |-> cache[m], members |-> Keys(cache, members)] : m \in members}
  <2>1. btrfs' = kept \union new BY <1>1 DEF LoadDriverCaches, BtrfsCache
  <2>2. \A m \in BtrfsMembers \cap Known : cache[m] = Stat(m) BY <1>1 DEF Named
  <2>3. ASSUME NEW e \in new
        PROVE  /\ \A m \in Known \cap BtrfsMembers : Stat(m) \in e.members
               /\ ~changed => e.members \subseteq {Stat(m) : m \in BtrfsMembers}
    <3>1. members = BtrfsMembers /\ e.members = Keys(cache, BtrfsMembers) OBVIOUS
    <3>2. e.members = {cache[m] : m \in BtrfsMembers} BY <3>1 DEF Keys
    <3>3. ~changed => BtrfsMembers \subseteq Known BY DEF Known, BtrfsMembers
    <3> HIDE DEF members, new
    <3>4. \A m \in Known \cap BtrfsMembers : Stat(m) \in e.members BY <2>2, <3>2
    <3>5. ~changed => e.members \subseteq {Stat(m) : m \in BtrfsMembers} BY <2>2, <3>2, <3>3
    <3> QED BY <3>4, <3>5
  <2>4. kept \subseteq btrfs OBVIOUS
  <2>5. On(d).type = "btrfs" /\ Present(d) => \E e \in new : e.device = cache[d]
    <3> SUFFICES ASSUME On(d).type = "btrfs", Present(d) PROVE \E e \in new : e.device = cache[d] OBVIOUS
    <3>1. d \in members BY DEF BtrfsMembers
    <3>2. [device |-> cache[d], members |-> Keys(cache, members)] \in new BY <3>1
    <3> QED BY <3>2
  <2> HIDE DEF kept, new, members
  <2>6. BtrfsHolds(btrfs') BY <2>1, <2>3, <2>4 DEF BtrfsHolds
  <2>7. lvm' = lvm /\ luks' = luks BY <1>1 DEF LoadDriverCaches
  <2> QED BY <1>1, <2>1, <2>5, <2>6, <2>7
<1>2. CASE fstype = "lvm2 pv" /\ ~lvm.loaded
  <2> DEFINE pvs == {e \in Devices : Present(e) /\ On(e).type = "lvm2 pv"}
             Entry(e) == [pv |-> cache[e], vg |-> VgOn(e), active |-> e \in active]
  <2>1. lvm'.loaded /\ lvm'.entries = {Entry(e) : e \in pvs} BY <1>2 DEF LoadDriverCaches, Loaded, PhysicalVolumes
  <2>2. \A e \in pvs \cap Known : cache[e] = Stat(e) BY <1>2 DEF Named
  <2>3. \A e \in Known : On(e).type = "lvm2 pv" => e \in pvs BY DEF Known
  <2>4. pvs \subseteq Devices OBVIOUS
  <2>5. \A e : Entry(e).pv = cache[e] /\ (Entry(e).active <=> e \in active) OBVIOUS
  <2> HIDE DEF pvs, Entry
  <2>6. ASSUME NEW e \in Known, On(e).type = "lvm2 pv"
        PROVE  has_active_lvs(lvm'.entries, Stat(e)) <=> e \in active
    <3>1. Entry(e) \in lvm'.entries /\ Entry(e).pv = Stat(e) BY <2>1, <2>2, <2>3, <2>5, <2>6
    <3>2. \A pv \in lvm'.entries : pv.pv = Stat(e) => pv = Entry(e) BY <2>1, <2>4, <2>5 DEF NumbersAre
    <3> QED BY <2>5, <3>1, <3>2 DEF has_active_lvs
  <2>7. LvmHolds(lvm') BY <2>6 DEF LvmHolds
  <2>8. btrfs' = btrfs /\ luks' = luks BY <1>2 DEF LoadDriverCaches
  <2> QED BY <1>2, <2>1, <2>7, <2>8
<1>3. CASE fstype = "luks" /\ ~luks.loaded
  <2> DEFINE open == {q \in Partitions : mapped[q] # 0}
             Entry(p) == [container |-> cache[Disk(p)], name |-> Crypt(p)]
  <2>1. luks'.loaded /\ luks'.entries = {Entry(p) : p \in open} BY <1>3 DEF LoadDriverCaches, Loaded, LuksMappings
  <2>2. \A p \in Partitions : Entry(p).container = Stat(Disk(p)) BY DEF NumbersAre
  <2>3. \A p \in open : p \in Partitions /\ mapped[p] # 0 OBVIOUS
  <2>4. \A p \in Partitions : mapped[p] # 0 => p \in open OBVIOUS
  <2> HIDE DEF open, Entry
  <2>5. LuksHolds(luks') BY <2>1, <2>2, <2>3, <2>4 DEF LuksHolds, get_cache_entry
  <2>6. btrfs' = btrfs /\ lvm' = lvm BY <1>3 DEF LoadDriverCaches
  <2> QED BY <1>3, <2>1, <2>5, <2>6
<1>4. CASE /\ ~(fstype = "btrfs" /\ Installed("btrfs") /\ ~\E e \in btrfs : e.device = cache[d])
           /\ ~(fstype = "lvm2 pv" /\ ~lvm.loaded) /\ ~(fstype = "luks" /\ ~luks.loaded)
  <2>1. btrfs' = btrfs /\ lvm' = lvm /\ luks' = luks BY <1>4 DEF LoadDriverCaches, BtrfsCache
  <2> QED BY <1>4, <2>1
<1> QED BY <1>1, <1>2, <1>3, <1>4

\* What the scan learns of a device it knows is true.
LEMMA AskedRight ==
    ASSUME WorldHolds, HistoryHolds, MountsHold, RaidHolds, NEW keys, NumbersAre(keys), NEW cache, NumbersAre(cache),
           NEW entries, NEW ds, Lists(entries, keys, ds), NEW d \in Known \cap ds, keys[d] = Stat(d), cache[d] = Stat(d),
           ~Hidden(d), NEW fstype, fstype = detect_filesystem(entries, d, Stat(d)),
           BtrfsHolds(btrfs), LvmHolds(lvm), LuksHolds(luks),
           \A e \in Named(fstype, d) \cap Known : cache[e] = Stat(e),
           LoadDriverCaches(fstype, d, cache)
    PROVE  /\ fstype = On(d).type
           /\ RightUse(d, is_busy(fstype, d, Stat(d), btrfs', luks'.entries, lvm'.entries))
<1>1. fstype = On(d).type BY TypeShown
<1>2. d \in Devices /\ Present(d) BY DEF Known
<1>3. /\ BtrfsHolds(btrfs') /\ LvmHolds(lvm') /\ LuksHolds(luks')
      /\ fstype = "lvm2 pv" => lvm'.loaded
      /\ fstype = "luks" => luks'.loaded
      /\ fstype = "btrfs" /\ Installed("btrfs") => \E e \in btrfs' : e.device = Stat(d)
  BY <1>1, <1>2, DriversTell
<1> QED BY <1>1, <1>3, BusyShown

LEMMA NamedNumbers ==
    ASSUME WorldHolds, NEW cache, NumbersAre(cache), NEW fstype, NEW d \in Devices
    PROVE  /\ NumbersAre(Looked(cache, Named(fstype, d)))
           /\ \A e \in Devices : cache[e] # NoNumber => Looked(cache, Named(fstype, d))[e] = cache[e]
           /\ \A e \in Named(fstype, d) \cap Known : Looked(cache, Named(fstype, d))[e] = Stat(e)
           /\ Looked(cache, Named(fstype, d))[d] # NoNumber
           /\ d \in Known => Looked(cache, Named(fstype, d))[d] = Stat(d)
<1>1. d \in Named(fstype, d) BY DEF Named
<1> QED BY <1>1, LookedNumbers

LEMMA Step ==
    ASSUME WorldHolds, ThreadHolds, NextPartition
    PROVE  /\ at' \in {"idle", "partition"} /\ part' \in Partitions
           /\ \A d \in Devices : at' = "idle" \/ d[2] < part' => d[2] <= part
           /\ \A i \in 1 .. (2 * Count) : i - Count <= part => at' = "idle" \/ i - Count < part'
<1>1. Count \in Nat \ {0} /\ Partitions = 1 .. Count /\ part \in 1 .. Count BY SessionFacts DEF ThreadHolds
<1>2. \A d \in Devices : d[2] \in 1 .. Count BY <1>1, DevicesAre, Names
<1>3. CASE part = Count BY <1>1, <1>2, <1>3 DEF NextPartition
<1>4. CASE part # Count BY <1>1, <1>2, <1>4 DEF NextPartition
<1> QED BY <1>3, <1>4

LEMMA ScanPartitionKeeps ==
    ASSUME ScanInv, ScanPartition
    PROVE  ScanInv'
<1> DEFINE d == Disk(part)
           fstype == detect_filesystem(fsInfo, d, numbers[d])
           busy == is_busy(fstype, d, numbers'[d], btrfs', luks'.entries, lvm'.entries)
<1>1. /\ WorldHolds /\ ThreadHolds /\ HistoryHolds /\ NumbersAre(numbers) /\ ListHolds
      /\ MountsHold /\ BtrfsHolds(btrfs) /\ LvmHolds(lvm)
      /\ RaidHolds /\ LuksHolds(luks) /\ PictureHolds /\ OpenHolds
      /\ at = "partition" /\ UNCHANGED <<world, history>>
  BY DEF ScanInv, ScanPartition, Scanning
<1>2. part \in Partitions /\ d \in Devices /\ Present(d) /\ numbers[d] = Stat(d)
  BY <1>1, StatIs DEF ThreadHolds, NumbersAre, Devices, Disks
<1>3. /\ numbers' = Looked(numbers, Named(fstype, d))
      /\ LoadDriverCaches(fstype, d, numbers')
      /\ ShowDevice(d, fstype, numbers'[d], busy, fsInfo)
      /\ IF fstype = "luks" /\ busy THEN at' = "luks" /\ part' = part ELSE NextPartition
      /\ UNCHANGED <<world, mountInfo, raid, history>>
  BY DEF ScanPartition
<1>4. /\ NumbersAre(numbers') /\ \A e \in Devices : numbers[e] # NoNumber => numbers'[e] = numbers[e]
      /\ \A e \in Named(fstype, d) \cap Known : numbers'[e] = Stat(e)
  BY <1>1, <1>2, <1>3, NamedNumbers
<1>5. numbers'[d] = Stat(d) BY <1>2, <1>4, <1>1, StatIs
<1> HIDE DEF d, fstype, busy
<1>6. /\ BtrfsHolds(btrfs') /\ LvmHolds(lvm') /\ LuksHolds(luks')
      /\ fstype = "luks" => luks'.loaded
      /\ luks.loaded => luks' = luks
  BY <1>1, <1>2, <1>3, <1>4, DriversTell
<1>7. Lists(fsInfo', numbers', Disks) /\ DOMAIN fsInfo' = DOMAIN fsInfo
  <2>1. Lists(fsInfo, numbers', Disks) BY <1>1, <1>4, ListsLooked DEF ListHolds
  <2> QED BY <1>3, <2>1, ListsLabelled DEF ShowDevice, Asked
<1>8. /\ WorldHolds' /\ HistoryHolds' /\ NumbersAre(numbers)' /\ Lists(fsInfo, numbers, Disks)'
      /\ MountsHold' /\ BtrfsHolds(btrfs)' /\ LvmHolds(lvm)' /\ RaidHolds' /\ LuksHolds(luks)'
  BY <1>1, <1>3, <1>4, <1>6, <1>7, ScanSame, WorldSame
<1>9. PICK shown : shown.fstype = fstype /\ shown.busy = busy /\
                   picture' = [picture EXCEPT ![part] = [shown |-> shown, crypt |-> NoCrypt]]
  <2> DEFINE path == numbers'[d]
             read == Asked(fsInfo, fstype, busy, path)
             it == Shown(fstype, busy, set_partition_label_and_uuid(fstype, d, path, read),
                         set_mountpoints(fstype, d, path, busy, read), IsReadonly(fstype, path, busy))
  <2>1. d[1] = "disk" /\ d[2] = part BY Names DEF d
  <2>2. picture' = IF d[1] = "disk" THEN [picture EXCEPT ![d[2]] = [shown |-> it, crypt |-> NoCrypt]]
                   ELSE [picture EXCEPT ![d[2]].crypt = it]
    BY <1>3, Zenon DEF ShowDevice
  <2>3. it.fstype = fstype /\ it.busy = busy BY DEF Shown
  <2> HIDE DEF it
  <2> QED BY <2>1, <2>2, <2>3
<1>10. /\ picture'[part] = [shown |-> shown, crypt |-> NoCrypt]
       /\ \A p \in Partitions : p # part => picture'[p] = picture[p]
       /\ picture' = [p \in Partitions |-> [shown |-> picture'[p].shown, crypt |-> picture'[p].crypt]]
  <2>1. picture = [p \in Partitions |-> [shown |-> picture[p].shown, crypt |-> picture[p].crypt]]
    BY <1>1 DEF ThreadHolds
  <2>2. picture' = [p \in Partitions |-> IF p = part THEN [shown |-> shown, crypt |-> NoCrypt] ELSE picture[p]]
    BY <1>9, <2>1
  <2> HIDE DEF ThreadHolds
  <2> QED BY <1>2, <2>1, <2>2
<1>11. /\ at' \in {"luks", "idle", "partition"} /\ part' \in Partitions
       /\ at' = "luks" => part' = part /\ fstype = "luks" /\ busy
       /\ at' # "luks" => NextPartition /\ ~(fstype = "luks" /\ busy)
  BY <1>1, <1>2, <1>3, Step
<1>12. ThreadHolds' BY <1>1, <1>10, <1>11, ScanSame, WorldSame DEF ThreadHolds
<1>13. ListHolds'
  <2>1. \A i \in DOMAIN fsInfo' : i > Count => i - Count < part /\ i \in 1 .. (2 * Count)
    BY <1>1, <1>7 DEF ListHolds, Lists
  <2>2. \A i \in DOMAIN fsInfo' : i > Count => at' = "idle" \/ i - Count < part'
    <3>1. CASE at' = "luks" BY <1>11, <2>1, <3>1
    <3>2. CASE at' # "luks"
      <4>1. \A i \in DOMAIN fsInfo' : i > Count => i \in 1 .. (2 * Count) /\ i - Count <= part
        BY <1>1, <1>2, <2>1, SessionFacts
      <4> QED BY <1>1, <1>11, <3>2, <4>1, Step
    <3> QED BY <3>1, <3>2
  <2> QED BY <1>1, <1>8, <2>2, WorldSame DEF ListHolds
<1>14. d \in Known => Truly(d, shown)
  <2> SUFFICES ASSUME d \in Known, ~Hidden(d) PROVE Truly(d, shown) BY DEF Truly
  <2>1. fstype = On(d).type /\ RightUse(d, busy)
    <3>1. Lists(fsInfo, numbers, Disks) /\ d \in Known \cap Disks BY <1>1, <1>2 DEF ListHolds, d, Disks
    <3>2. fstype = detect_filesystem(fsInfo, d, Stat(d)) BY <1>2 DEF fstype
    <3>3. busy = is_busy(fstype, d, Stat(d), btrfs', luks'.entries, lvm'.entries) BY <1>5 DEF busy
    <3> QED BY <1>1, <1>2, <1>3, <1>4, <1>5, <3>1, <3>2, <3>3, AskedRight
  <2> QED BY <1>9, <2>1 DEF RightUse, Truly
<1>15. ASSUME Crypt(part) \in Known PROVE fstype = "luks" /\ busy
  <2>1. mapped[part] # 0 BY <1>15, Names DEF Known, Present
  <2>2. On(d).type = "luks" /\ InUse(d) BY <1>1, <1>2, <2>1, UsedAs, Names DEF d, InUse
  <2>3. d \in Known BY <1>1, <1>2, <1>15 DEF Known, HistoryHolds, d
  <2>4. ~Hidden(d) BY <2>2 DEF Hidden, IsRaid
  <2>5. fstype = On(d).type /\ RightUse(d, busy)
    <3>1. Lists(fsInfo, numbers, Disks) /\ d \in Known \cap Disks BY <1>1, <1>2, <2>3 DEF ListHolds, d, Disks
    <3>2. fstype = detect_filesystem(fsInfo, d, Stat(d)) BY <1>2 DEF fstype
    <3>3. busy = is_busy(fstype, d, Stat(d), btrfs', luks'.entries, lvm'.entries) BY <1>5 DEF busy
    <3> QED BY <1>1, <1>2, <1>3, <1>4, <1>5, <2>4, <3>1, <3>2, <3>3, AskedRight
  <2> QED BY <2>2, <2>5 DEF RightUse
<1>16. ASSUME fstype = "luks", busy PROVE luks'.loaded /\ get_cache_entry(luks'.entries, Stat(d)) # {}
  BY <1>5, <1>6, <1>16 DEF busy, is_busy
<1>17. PictureHolds'
  <2>1. ASSUME NEW e \in Known, Passed(e)' PROVE Truly(e, ShownOf(e)')
    <3>1. e \in Devices BY DEF Known
    <3>2. PICK q \in Partitions : e = Disk(q) \/ e = Crypt(q) BY <3>1, DevicesAre
    <3>3. CASE q = part /\ e = Disk(q) BY <1>10, <1>14, <2>1, <3>3, Names DEF ShownOf, d
    <3>4. CASE q = part /\ e = Crypt(q)
      <4>1. at' = "luks" /\ part' = part BY <1>11, <1>15, <2>1, <3>4
      <4>2. ~Passed(e)' BY <1>2, <1>1, <3>4, <4>1, Names, SessionFacts DEF Passed
      <4> QED BY <2>1, <4>2
    <3>5. CASE q # part
      <4>1. e[2] = q /\ e # Disk(part) BY <3>2, <3>5, Names
      <4>2. q < part
        <5>1. CASE at' = "luks" BY <1>11, <2>1, <3>2, <3>5, <4>1, <5>1 DEF Passed
        <5>2. CASE at' # "luks"
          <6>1. q <= part BY <1>1, <1>11, <2>1, <3>1, <4>1, <5>2, Step DEF Passed
          <6> QED BY <1>1, <1>2, <3>5, <6>1, SessionFacts
        <5> QED BY <5>1, <5>2
      <4>3. Truly(e, ShownOf(e)) BY <1>1, <4>1, <4>2 DEF PictureHolds, Passed
      <4>4. ShownOf(e)' = ShownOf(e) BY <1>10, <3>5, <4>1 DEF ShownOf
      <4> QED BY <4>3, <4>4
    <3> QED BY <3>2, <3>3, <3>4, <3>5
  <2>2. \A e \in Known : Passed(e)' => Truly(e, ShownOf(e))'
    BY <1>1, <2>1, WorldSame, ScanSame DEF Truly
  <2>3. \A p \in Partitions : ~changed /\ mapped[p] = 0 => picture'[p].crypt = NoCrypt
    BY <1>1, <1>10 DEF PictureHolds
  <2>4. ASSUME at' = "luks", ~changed PROVE mapped[part] # 0
    <3>1. luks'.loaded /\ get_cache_entry(luks'.entries, Stat(d)) # {} BY <1>11, <1>16, <2>4
    <3>2. PICK m \in luks'.entries : m.container = Stat(d) BY <3>1 DEF get_cache_entry
    <3>3. PICK q \in Partitions : Stat(d) = Stat(Disk(q)) /\ mapped[q] # 0 BY <1>6, <2>4, <3>1, <3>2 DEF LuksHolds
    <3>4. q = part BY <1>1, <1>2, <3>3, StatIs DEF d
    <3> QED BY <3>3, <3>4
  <2> QED BY <1>1, <1>11, <2>2, <2>3, <2>4, WorldSame, ScanSame DEF PictureHolds
<1>18. OpenHolds'
  <2>1. ASSUME NEW p \in Partitions, picture'[p].shown.fstype = "luks", picture'[p].shown.busy
        PROVE  luks'.loaded /\ get_cache_entry(luks'.entries, Stat(Disk(p))) # {}
    <3>1. CASE p = part BY <1>9, <1>10, <1>16, <2>1, <3>1 DEF d
    <3>2. CASE p # part BY <1>1, <1>6, <1>10, <2>1, <3>2 DEF OpenHolds
    <3> QED BY <3>1, <3>2
  <2> QED BY <1>1, <2>1, WorldSame DEF OpenHolds
<1> QED BY <1>8, <1>11, <1>12, <1>13, <1>17, <1>18 DEF ScanInv, Scanning

LEMMA WithLists ==
    ASSUME NEW entries, NEW more, NEW cache, NEW ds, NEW es, Lists(entries, cache, ds), Lists(more, cache, es)
    PROVE  Lists(With(entries, more), cache, ds \union es)
<1> DEFINE both == With(entries, more)
<1>1. DOMAIN both = DOMAIN entries \union DOMAIN more BY DEF With
<1>2. ASSUME NEW i \in DOMAIN both
      PROVE  (i \in DOMAIN entries /\ both[i] = entries[i]) \/ (i \in DOMAIN more /\ both[i] = more[i])
  BY DEF With
<1> HIDE DEF both
<1>3. Lists(both, cache, ds \union es)
  <2>1. DOMAIN both \subseteq 1 .. (2 * Count) BY <1>1 DEF Lists
  <2>2. ASSUME NEW i \in DOMAIN both
        PROVE  /\ both[i] = [name |-> both[i].name, path |-> both[i].path, type |-> both[i].type,
                             uuid |-> both[i].uuid, label |-> both[i].label]
               /\ both[i].path = cache[DeviceAt(i)] /\ both[i].path # NoNumber
               /\ DeviceAt(i) \in Known => Installed("blkid") /\ both[i].type = On(DeviceAt(i)).blkid
    <3>1. CASE i \in DOMAIN entries /\ both[i] = entries[i] BY <3>1 DEF Lists
    <3>2. CASE i \in DOMAIN more /\ both[i] = more[i] BY <3>2 DEF Lists
    <3> QED BY <1>2, <3>1, <3>2
  <2>3. ASSUME NEW i \in 1 .. (2 * Count), DeviceAt(i) \in Known \cap (ds \union es), Installed("blkid"),
               On(DeviceAt(i)).blkid # Nothing
        PROVE  i \in DOMAIN both
    BY <1>1, <2>3 DEF Lists
  <2> QED BY <2>1, <2>2, <2>3 DEF Lists
<1> QED BY <1>3 DEF both

LEMMA ListsFewer ==
    ASSUME NEW entries, NEW cache, NEW ds, NEW es, es \subseteq ds, Lists(entries, cache, ds)
    PROVE  Lists(entries, cache, es)
BY DEF Lists

LEMMA ScanMappingKeeps ==
    ASSUME ScanInv, ScanMapping
    PROVE  ScanInv'
<1> DEFINE d == Crypt(part)
           cache == Looked(numbers, {d})
           more == BlkidEntries(cache, {d})
           entries == With(fsInfo, more)
           fstype == IF Present(d) THEN detect_filesystem(entries, d, cache[d]) ELSE "unknown"
           busy == is_busy(fstype, d, cache[d], btrfs', luks'.entries, lvm'.entries)
<1>1. /\ WorldHolds /\ ThreadHolds /\ HistoryHolds /\ NumbersAre(numbers) /\ ListHolds
      /\ MountsHold /\ BtrfsHolds(btrfs) /\ LvmHolds(lvm)
      /\ RaidHolds /\ LuksHolds(luks) /\ PictureHolds /\ OpenHolds
      /\ at = "luks" /\ UNCHANGED <<world, history>>
  BY DEF ScanInv, ScanMapping, Scanning
<1>2. part \in Partitions /\ d \in Devices BY <1>1 DEF ThreadHolds, Devices, Disks
<1>3. /\ numbers' = Looked(cache, Named(fstype, d))
      /\ LoadDriverCaches(fstype, d, numbers')
      /\ ShowDevice(d, fstype, cache[d], busy, entries)
      /\ NextPartition
      /\ UNCHANGED <<world, mountInfo, raid, history>>
  BY DEF ScanMapping
<1>4. /\ NumbersAre(cache) /\ \A e \in Devices : numbers[e] # NoNumber => cache[e] = numbers[e]
      /\ d \in Known => cache[d] = Stat(d)
      /\ cache[d] # NoNumber
  BY <1>1, <1>2, LookedNumbers
<1> HIDE DEF cache
<1>5. Lists(more, cache, {d}) /\ \A i \in DOMAIN more : DeviceAt(i) = d
  <2>1. \A e \in {d} \cap Devices : cache[e] # NoNumber BY <1>4
  <2> HIDE DEF d
  <2> QED BY <1>1, <2>1, BlkidLists
<1>6. Lists(entries, cache, Disks \union {d}) /\ DOMAIN entries = DOMAIN fsInfo \union DOMAIN more
  <2>1. Lists(fsInfo, cache, Disks) BY <1>1, <1>4, ListsLooked DEF ListHolds
  <2> HIDE DEF d, more
  <2> QED BY <1>5, <2>1, WithLists DEF With
<1> HIDE DEF d, more, entries, fstype, busy
<1>7. /\ NumbersAre(numbers') /\ \A e \in Devices : cache[e] # NoNumber => numbers'[e] = cache[e]
      /\ \A e \in Named(fstype, d) \cap Known : numbers'[e] = Stat(e)
      /\ d \in Known => numbers'[d] = Stat(d)
  BY <1>1, <1>2, <1>3, <1>4, NamedNumbers
<1>8. /\ BtrfsHolds(btrfs') /\ LvmHolds(lvm') /\ LuksHolds(luks')
      /\ luks.loaded => luks' = luks
  BY <1>1, <1>2, <1>3, <1>7, DriversTell
<1>9. Lists(fsInfo', numbers', Disks) /\ DOMAIN fsInfo' = DOMAIN entries
  <2>1. Lists(entries, numbers', Disks \union {d}) BY <1>1, <1>6, <1>7, ListsLooked
  <2>2. Lists(entries, numbers', Disks) BY <2>1, ListsFewer
  <2> QED BY <1>3, <2>2, ListsLabelled DEF ShowDevice, Asked
<1>10. /\ WorldHolds' /\ HistoryHolds' /\ NumbersAre(numbers)' /\ Lists(fsInfo, numbers, Disks)'
       /\ MountsHold' /\ BtrfsHolds(btrfs)' /\ LvmHolds(lvm)' /\ RaidHolds' /\ LuksHolds(luks)'
  BY <1>1, <1>3, <1>7, <1>8, <1>9, ScanSame, WorldSame
<1>11. PICK shown : shown.fstype = fstype /\ shown.busy = busy /\ picture' = [picture EXCEPT ![part].crypt = shown]
  <2> DEFINE path == cache[d]
             read == Asked(entries, fstype, busy, path)
             it == Shown(fstype, busy, set_partition_label_and_uuid(fstype, d, path, read),
                         set_mountpoints(fstype, d, path, busy, read), IsReadonly(fstype, path, busy))
  <2>1. d[1] # "disk" /\ d[2] = part BY Names DEF d
  <2>2. picture' = IF d[1] = "disk" THEN [picture EXCEPT ![d[2]] = [shown |-> it, crypt |-> NoCrypt]]
                   ELSE [picture EXCEPT ![d[2]].crypt = it]
    BY <1>3, Zenon DEF ShowDevice
  <2>3. it.fstype = fstype /\ it.busy = busy BY DEF Shown
  <2> HIDE DEF it
  <2> QED BY <2>1, <2>2, <2>3
<1>12. /\ \A p \in Partitions : picture'[p].shown = picture[p].shown
       /\ \A p \in Partitions : p # part => picture'[p].crypt = picture[p].crypt
       /\ picture'[part].crypt = shown
       /\ picture' = [p \in Partitions |-> [shown |-> picture'[p].shown, crypt |-> picture'[p].crypt]]
  <2>1. picture = [p \in Partitions |-> [shown |-> picture[p].shown, crypt |-> picture[p].crypt]]
    BY <1>1 DEF ThreadHolds
  <2>2. picture[part] = [shown |-> picture[part].shown, crypt |-> picture[part].crypt] BY <1>2, <2>1
  <2>3. [picture[part] EXCEPT !.crypt = shown] = [shown |-> picture[part].shown, crypt |-> shown] BY <2>2
  <2>4. picture' = [p \in Partitions |-> IF p = part THEN [shown |-> picture[part].shown, crypt |-> shown]
                                         ELSE picture[p]]
    BY <1>11, <2>1, <2>3
  <2> QED BY <1>2, <2>1, <2>4
<1>13. /\ at' \in {"idle", "partition"} /\ part' \in Partitions
       /\ \A e \in Devices : at' = "idle" \/ e[2] < part' => e[2] <= part
       /\ \A i \in 1 .. (2 * Count) : i - Count <= part => at' = "idle" \/ i - Count < part'
  BY <1>1, <1>3, Step
<1>14. ThreadHolds' BY <1>1, <1>12, <1>13, ScanSame, WorldSame DEF ThreadHolds
<1>15. ListHolds'
  <2>1. ASSUME NEW i \in DOMAIN fsInfo', i > Count PROVE i - Count <= part /\ i \in 1 .. (2 * Count)
    <3>1. i \in 1 .. (2 * Count) BY <1>9 DEF Lists
    <3>2. CASE i \in DOMAIN fsInfo BY <1>1, <1>2, <2>1, <3>1, <3>2, SessionFacts DEF ListHolds
    <3>3. CASE i \in DOMAIN more
      <4>1. DeviceAt(i) = Crypt(i - Count) BY <2>1, <3>1, <1>1, SessionFacts DEF DeviceAt
      <4>2. i - Count = part BY <1>5, <3>3, <4>1, Names DEF d
      <4> QED BY <1>1, <1>2, <3>1, <4>2, SessionFacts
    <3> QED BY <1>6, <1>9, <2>1, <3>2, <3>3
  <2>2. \A i \in DOMAIN fsInfo' : i > Count => at' = "idle" \/ i - Count < part' BY <1>13, <2>1
  <2> QED BY <1>1, <1>10, <2>2, WorldSame DEF ListHolds
<1>16. d \in Known => Truly(d, shown)
  <2> SUFFICES ASSUME d \in Known, ~Hidden(d) PROVE Truly(d, shown) BY DEF Truly
  <2>1. fstype = On(d).type /\ RightUse(d, busy)
    <3>1. d \in Known \cap (Disks \union {d}) /\ Present(d) BY DEF Known
    <3>2. fstype = detect_filesystem(entries, d, Stat(d)) BY <1>4, <3>1 DEF fstype
    <3>3. busy = is_busy(fstype, d, Stat(d), btrfs', luks'.entries, lvm'.entries) BY <1>4 DEF busy
    <3> QED BY <1>1, <1>3, <1>4, <1>6, <1>7, <3>1, <3>2, <3>3, AskedRight
  <2> QED BY <1>11, <2>1 DEF RightUse, Truly
<1>17. PictureHolds'
  <2>1. ASSUME NEW e \in Known, Passed(e)' PROVE Truly(e, ShownOf(e)')
    <3>1. e \in Devices BY DEF Known
    <3>2. PICK q \in Partitions : e = Disk(q) \/ e = Crypt(q) BY <3>1, DevicesAre
    <3>3. CASE e = d BY <1>12, <1>16, <2>1, <3>3, Names DEF ShownOf, d
    <3>4. CASE e # d
      <4>1. e[2] = q /\ (e[1] = "crypt" => q # part) BY <3>2, <3>4, Names DEF d
      <4>2. q <= part BY <1>13, <2>1, <3>1, <4>1 DEF Passed
      <4>3. q < part \/ e = Disk(part) BY <1>1, <1>2, <3>2, <4>1, <4>2, Names, SessionFacts
      <4>4. Truly(e, ShownOf(e)) BY <1>1, <4>1, <4>3 DEF PictureHolds, Passed
      <4>5. ShownOf(e)' = ShownOf(e) BY <1>12, <4>1 DEF ShownOf
      <4> QED BY <4>4, <4>5
    <3> QED BY <3>3, <3>4
  <2>2. \A e \in Known : Passed(e)' => Truly(e, ShownOf(e))'
    BY <1>1, <2>1, WorldSame, ScanSame DEF Truly
  <2>3. \A p \in Partitions : ~changed /\ mapped[p] = 0 => picture'[p].crypt = NoCrypt
    BY <1>1, <1>12 DEF PictureHolds
  <2> QED BY <1>1, <1>13, <2>2, <2>3, WorldSame, ScanSame DEF PictureHolds
<1>18. OpenHolds' BY <1>1, <1>8, <1>12, WorldSame DEF OpenHolds
<1> QED BY <1>10, <1>13, <1>14, <1>15, <1>17, <1>18 DEF ScanInv, Scanning

LEMMA ScanStepKeeps ==
    ASSUME ScanInv, ScanStep
    PROVE  ScanInv'
BY StartKeeps, LoadFsInfoKeeps, LoadMountInfoKeeps, LoadSWRaidInfoKeeps, ScanPartitionKeeps, ScanMappingKeeps DEF ScanStep

-----------------------------------------------------------------------------
(* What the user does between the scans *)

LEMMA ScanStutters ==
    ASSUME ScanInv, UNCHANGED scanVars
    PROVE  ScanInv'
<1>1. /\ UNCHANGED world /\ UNCHANGED history /\ UNCHANGED mountInfo /\ UNCHANGED raid
      /\ numbers' = numbers /\ fsInfo' = fsInfo /\ btrfs' = btrfs /\ lvm' = lvm /\ luks' = luks
      /\ at' = at /\ part' = part /\ picture' = picture
  BY DEF scanVars, world, caches, mounts, thread, history
<1>2. WorldHolds' /\ HistoryHolds' = HistoryHolds /\ Partitions' = Partitions /\ changed' = changed
  BY <1>1, WorldSame, ScanSame DEF ScanInv
<1>3. ThreadHolds' BY <1>1, <1>2 DEF ThreadHolds, ScanInv
<1>4. at # "start" => HistoryHolds' /\ NumbersAre(numbers)' BY <1>1, <1>2, ScanSame DEF ScanInv
<1>5. (picture = [p \in Partitions |-> NotShown])' <=> picture = [p \in Partitions |-> NotShown]
  BY <1>1, <1>2 DEF NotShown
<1>6. ListHolds => ListHolds' BY <1>1, ScanSame, WorldSame DEF ListHolds
<1>7. /\ MountsHold => MountsHold'
      /\ BtrfsHolds(btrfs) => BtrfsHolds(btrfs)'
      /\ LvmHolds(lvm) => LvmHolds(lvm)'
      /\ RaidHolds => RaidHolds'
      /\ LuksHolds(luks) => LuksHolds(luks)'
  BY <1>1, ScanSame
<1>8. PictureHolds => PictureHolds'
  <2>1. \A e : ShownOf(e)' = ShownOf(e) /\ Passed(e)' = Passed(e) BY <1>1 DEF ShownOf, Passed
  <2>2. \A e \in Known : Truly(e, ShownOf(e))' <=> Truly(e, ShownOf(e))
    BY <1>1, <1>2, <2>1, WorldSame DEF Truly
  <2> QED BY <1>1, <1>2, <2>1, <2>2, WorldSame, ScanSame DEF PictureHolds
<1>9. OpenHolds => OpenHolds' BY <1>1, WorldSame DEF OpenHolds
<1>10. Scanning' <=> Scanning BY <1>1 DEF Scanning
<1>11. at \in {"fs", "mounts", "raid"} => (picture = [p \in Partitions |-> NotShown])' /\ part' = 1
  BY <1>1, <1>5 DEF ScanInv
<1>12. at \notin {"start", "fs"} => ListHolds' BY <1>6 DEF ScanInv
<1>13. at \notin {"start", "fs", "mounts"} => MountsHold' /\ BtrfsHolds(btrfs)' /\ LvmHolds(lvm)'
  BY <1>7 DEF ScanInv
<1>14. Scanning' => RaidHolds' /\ LuksHolds(luks)' /\ PictureHolds' /\ OpenHolds'
  BY <1>7, <1>8, <1>9, <1>10 DEF ScanInv
<1>15. at' = at BY <1>1
<1> QED BY <1>2, <1>3, <1>4, <1>11, <1>12, <1>13, <1>14, <1>15 DEF ScanInv

LEMMA Restarts ==
    ASSUME ScanInv, RefreshDevices, WorldHolds'
    PROVE  ScanInv'
<1>1. /\ at' = "start" /\ part' = part /\ picture' = picture /\ changed' = changed
      /\ session' = session /\ kind' = kind
  BY DEF RefreshDevices, history
<1>2. Partitions' = Partitions BY <1>1 DEF Partitions
<1>3. ThreadHolds' BY <1>1, <1>2 DEF ThreadHolds, ScanInv
<1> QED BY <1>1, <1>3 DEF ScanInv, Scanning

DialogIs ==
    /\ dialog # NoDialog => dialog.part \in Partitions /\ Idle
    /\ dialog.for \in {Nothing, "open", "resize"}

LEMMA ToggleKeeps ==
    ASSUME ScanInv, NEW p \in Partitions, toggle_fs_busy_state(p)
    PROVE  ScanInv'
<1> DEFINE d == FilesystemOf(p)
<1>1. WorldHolds /\ RefreshDevices /\ session' = session /\ kind' = kind /\ mapped' = mapped
  BY DEF ScanInv, toggle_fs_busy_state, RefreshDevices
<1>2. d \in Devices BY DEF FilesystemOf, Devices, Disks
<1>3. CommandFails \/ Unmount(d) \/ Mount(d) \/ ToggleVolumeGroup(d) BY DEF toggle_fs_busy_state
<1> HIDE DEF d
<1>4. WorldHolds'
  <2>1. CASE mounted' \subseteq mounted /\ active' \subseteq active BY <1>1, <2>1, UnmountKeeps
  <2>2. CASE CanMount(d) /\ mounted' = mounted \union {d} /\ active' = active BY <1>1, <1>2, <2>2, MountKeeps
  <2>3. CASE CanActivate(d) /\ active' = active \union {d} /\ mounted' = mounted BY <1>1, <1>2, <2>3, ActivateKeeps
  <2> QED BY <1>3, <2>1, <2>2, <2>3 DEF CommandFails, Unmount, Mount, ToggleVolumeGroup
<1> QED BY <1>1, <1>4, Restarts

LEMMA CloseEncryptionKeeps ==
    ASSUME ScanInv, NEW p \in Partitions, CloseEncryption(p)
    PROVE  ScanInv'
<1>1. WorldHolds /\ RefreshDevices /\ UNCHANGED <<session, kind, mounted, active>>
  BY DEF ScanInv, CloseEncryption, RefreshDevices
<1>2. WorldHolds'
  <2>1. CASE CanClose(p) BY <1>1, <2>1, CloseKeeps DEF CloseEncryption
  <2>2. CASE ~CanClose(p) BY <1>1, <2>2, UnmountKeeps DEF CloseEncryption
  <2> QED BY <2>1, <2>2
<1> QED BY <1>1, <1>2, Restarts

LEMMA OpenWithKeeps ==
    ASSUME ScanInv, Idle, NEW p \in Partitions, NEW password, OpenWith(p, password)
    PROVE  ScanInv' /\ DialogIs'
<1>1. WorldHolds BY DEF ScanInv
<1>2. CASE Opens(p, password)
  <2>1. CanOpen(p) /\ mapped' = OpenMapping(p) /\ dialog' = NoDialog /\ RefreshDevices
        /\ UNCHANGED <<session, kind, mounted, active>>
    BY <1>2 DEF OpenWith, Opens, RefreshDevices
  <2>2. WorldHolds' BY <1>1, <2>1, OpenKeeps
  <2>3. DialogIs' BY <2>1 DEF DialogIs, NoDialog
  <2> QED BY <2>1, <2>2, <2>3, Restarts
<1>3. CASE ~Opens(p, password)
  <2>1. dialog' = [for |-> "open", part |-> p] /\ UNCHANGED scanVars
    BY <1>3 DEF OpenWith, scanVars, world
  <2>2. Partitions' = Partitions /\ Idle' = Idle BY <2>1, WorldSame DEF scanVars, Idle, thread
  <2> QED BY <2>1, <2>2, ScanStutters DEF DialogIs
<1> QED BY <1>2, <1>3

LEMMA UserKeeps ==
    ASSUME ScanInv, DialogIs, UserStep
    PROVE  ScanInv' /\ DialogIs'
<1>1. WorldHolds BY DEF ScanInv
<1>2. ASSUME UNCHANGED scanVars PROVE ScanInv' /\ Partitions' = Partitions /\ Idle' = Idle
  BY <1>2, ScanStutters, WorldSame DEF scanVars, Idle, thread
<1>3. CASE menu_gparted_refresh_devices
  <2>1. UNCHANGED <<session, kind, mapped, mounted, active>> /\ RefreshDevices /\ dialog = NoDialog /\ dialog' = dialog
    BY <1>3 DEF menu_gparted_refresh_devices, RefreshDevices, UserActs, user
  <2>2. WorldHolds' BY <1>1, <2>1, UnmountKeeps
  <2> QED BY <2>1, <2>2, Restarts DEF DialogIs, NoDialog
<1>4. CASE CancelDialog BY <1>2, <1>4 DEF CancelDialog, DialogIs, NoDialog
<1>5. CASE ClearQueue BY <1>2, <1>5 DEF ClearQueue, DialogIs
<1>6. CASE ApplyQueue
  <2>1. UNCHANGED <<session, kind, mapped, mounted, active>> /\ RefreshDevices /\ dialog = NoDialog /\ dialog' = dialog
    BY <1>6 DEF ApplyQueue, RefreshDevices, UserActs
  <2>2. WorldHolds' BY <1>1, <2>1, UnmountKeeps
  <2> QED BY <2>1, <2>2, Restarts DEF DialogIs, NoDialog
<1>7. ASSUME NEW p \in Partitions, toggle_fs_busy_state(p) \/ CloseEncryption(p) PROVE ScanInv' /\ DialogIs'
  <2>1. ScanInv' BY <1>7, ToggleKeeps, CloseEncryptionKeeps
  <2>2. dialog = NoDialog /\ dialog' = dialog
    BY <1>7 DEF toggle_fs_busy_state, CloseEncryption, ToggleAllowed, UserActs, user
  <2> QED BY <2>1, <2>2 DEF DialogIs, NoDialog
<1>8. ASSUME NEW p \in Partitions, OpenEncryption(p) PROVE ScanInv' /\ DialogIs'
  <2>1. Idle BY <1>8 DEF OpenEncryption, ToggleAllowed, UserActs
  <2>2. CASE OpenWith(p, lookup(store, p)) BY <2>1, <2>2, OpenWithKeeps
  <2>3. CASE dialog' = [for |-> "open", part |-> p] /\ UNCHANGED scanVars BY <1>2, <2>1, <2>3 DEF DialogIs
  <2> QED BY <1>8, <2>2, <2>3 DEF OpenEncryption
<1>9. ASSUME NEW p \in Partitions, ResizeEncryption(p) PROVE ScanInv' /\ DialogIs'
  <2>1. Idle /\ UNCHANGED scanVars BY <1>9 DEF ResizeEncryption, UserActs
  <2>2. dialog' = [for |-> "resize", part |-> p] \/ dialog' = dialog BY <1>9 DEF ResizeEncryption
  <2> QED BY <1>2, <2>1, <2>2 DEF DialogIs
<1>10. ASSUME NEW password, EnterToOpen(password) PROVE ScanInv' /\ DialogIs'
  <2>1. dialog.part \in Partitions /\ Idle BY <1>10 DEF EnterToOpen, DialogIs, NoDialog, Nothing
  <2> QED BY <1>10, <2>1, OpenWithKeeps DEF EnterToOpen
<1>11. ASSUME NEW password, EnterToResize(password) PROVE ScanInv' /\ DialogIs'
  <2>1. UNCHANGED scanVars /\ (dialog' = NoDialog \/ dialog' = dialog) BY <1>11 DEF EnterToResize, user
  <2> QED BY <1>2, <2>1 DEF DialogIs, NoDialog
<1> QED BY <1>3, <1>4, <1>5, <1>6, <1>7, <1>8, <1>9, <1>10, <1>11 DEF UserStep

LEMMA ScanStarts ==
    ASSUME Init
    PROVE  ScanInv /\ DialogIs
<1>1. ScanInit BY DEF Init
<1>2. SessionOK(session) /\ kind = session.kinds BY <1>1, SessionAssumption DEF ScanInit
<1>3. kind \in Seq(DOMAIN Kinds) /\ Len(kind) \in Nat \ {0} BY <1>2 DEF SessionOK
<1>4. Partitions = 1 .. Count /\ Count \in Nat \ {0} BY <1>3 DEF Partitions, Count
<1>5. mapped = [p \in Partitions |-> 0] /\ active = {} /\ mounted = {Disk(p) : p \in {session.root} \ {0}}
  BY <1>1 DEF ScanInit
<1>6. ASSUME NEW d \in mounted PROVE d \in Devices /\ Present(d) /\ On(d).use = "mount"
  <2>1. session.root # 0 /\ d = Disk(session.root) BY <1>5
  <2>2. session.root \in 0 .. Len(session.kinds) /\ Kinds[session.kinds[session.root]].use = "mount"
    BY <1>2, <2>1 DEF SessionOK
  <2>3. session.root \in Partitions BY <1>2, <1>4, <2>1, <2>2 DEF Count
  <2> QED BY <1>2, <2>1, <2>2, <2>3, Names DEF Devices, Disks, Present, On
<1>7. WorldHolds BY <1>1, <1>2, <1>3, <1>4, <1>5, <1>6 DEF WorldHolds, ScanInit
<1>8. at = "start" /\ part = 1 /\ changed = FALSE /\ picture = [p \in Partitions |-> NotShown]
  BY <1>1 DEF ScanInit
<1>9. ThreadHolds
  <2>1. \A p \in Partitions : picture[p] = [shown |-> picture[p].shown, crypt |-> picture[p].crypt]
    BY <1>8 DEF NotShown
  <2>2. picture = [p \in Partitions |-> picture[p]] BY <1>8
  <2>3. 1 \in Partitions BY <1>4
  <2> QED BY <1>8, <2>1, <2>2, <2>3 DEF ThreadHolds
<1>10. ScanInv BY <1>7, <1>8, <1>9 DEF ScanInv, Scanning
<1> QED BY <1>10 DEF Init, DialogIs, NoDialog

LEMMA NextKeeps ==
    ASSUME ScanInv, DialogIs, [Next]_vars
    PROVE  ScanInv' /\ DialogIs'
<1>1. CASE ScanStep /\ UNCHANGED user
  <2>1. at # "idle"
    BY <1>1 DEF ScanStep, Start, LoadFsInfo, LoadMountInfo, LoadSWRaidInfo, ScanPartition, ScanMapping
  <2>2. dialog = NoDialog /\ dialog' = dialog BY <1>1, <2>1 DEF DialogIs, Idle, user
  <2> QED BY <1>1, <2>2, ScanStepKeeps DEF DialogIs, NoDialog
<1>2. CASE OtherPrograms /\ UNCHANGED user
  <2>1. Partitions' = Partitions BY <1>2, WorldStays DEF ScanInv
  <2>2. at' = at
    BY <1>2 DEF OtherPrograms, OthersMount, OthersUnmount, OthersActivate, OthersDeactivate,
                OthersOpen, OthersClose, OthersWrite, Changed, thread
  <2> QED BY <1>2, <2>1, <2>2, OthersKeep DEF DialogIs, user, Idle
<1>3. CASE UserStep BY <1>3, UserKeeps
<1>4. CASE UNCHANGED vars
  <2>1. UNCHANGED scanVars /\ dialog' = dialog BY <1>4 DEF vars, user
  <2>2. Partitions' = Partitions /\ at' = at BY <2>1, WorldSame DEF scanVars, thread
  <2> QED BY <2>1, <2>2, ScanStutters DEF DialogIs, Idle
<1> QED BY <1>1, <1>2, <1>3, <1>4 DEF Next

-----------------------------------------------------------------------------
(* The theorems of the scan *)

\* The state of the scan and of the passphrase dialog is always as ScanInv and
\* DialogIs say: each cache tells of the devices that stayed as they were, under
\* numbers no other device has, and what is shown rests on the caches
\* (GParted_Core.cc:110, set_devices_thread).
THEOREM ScanInvariance == Spec => [](ScanInv /\ DialogIs)
BY ScanStarts, NextKeeps, PTL DEF Spec

\* A device in use from the beginning of a scan to its end is shown busy,
\* whatever other programs do meanwhile (GParted_Core.cc:1573, is_busy).
THEOREM AlwaysShownBusy == Spec => []InUseIsShownBusy
<1>1. ScanInv => InUseIsShownBusy
  <2> SUFFICES ASSUME ScanInv, Idle, NEW d \in inUse, ~Hidden(d) PROVE ShownOf(d).busy
    BY DEF InUseIsShownBusy
  <2>1. HistoryHolds /\ PictureHolds BY DEF ScanInv, Idle, Scanning
  <2>2. d \in Known /\ InUse(d) BY <2>1 DEF HistoryHolds, DevicesInUse, Known
  <2>3. Truly(d, ShownOf(d)) BY <2>1, <2>2 DEF PictureHolds, Passed, Idle
  <2> QED BY <2>2, <2>3 DEF Truly
<1> QED BY <1>1, ScanInvariance, PTL

\* When nothing changed since the scan began, what is shown is what is there
\* (BlockSpecial.cc:45, FS_Info.cc:79, LUKS_Info.cc:57).
THEOREM AlwaysTruePicture == Spec => []PictureIsTrue
<1>1. ScanInv => PictureIsTrue
  <2> SUFFICES ASSUME ScanInv, Idle, ~changed PROVE PictureIsTrue BY DEF PictureIsTrue
  <2>1. PictureHolds BY DEF ScanInv, Idle, Scanning
  <2>2. ASSUME NEW d \in Devices, Present(d), ~Hidden(d)
        PROVE  ShownOf(d).fstype = On(d).type /\ ShownOf(d).busy = InUse(d)
    <3>1. Truly(d, ShownOf(d)) BY <2>1, <2>2 DEF PictureHolds, Passed, Idle, Known
    <3> QED BY <2>2, <3>1 DEF Truly
  <2>3. \A p \in Partitions : mapped[p] = 0 => picture[p].crypt = NoCrypt BY <2>1 DEF PictureHolds
  <2> QED BY <2>2, <2>3 DEF PictureIsTrue
<1> QED BY <1>1, ScanInvariance, PTL

-----------------------------------------------------------------------------
(* The details of a scan nobody disturbed *)

\* One device of a btrfs is mounted at a time.
OneMounted == \A m, n \in BtrfsMembers \cap mounted : m = n

Here == {d \in Devices : Present(d)}

\* A reference of /etc/fstab is to what blkid finds on a device.
Refers(ref, d) ==
    /\ Installed("blkid")
    /\ \/ ref[1] = "uuid" /\ IdOn(d).uuid = ref[2]
       \/ ref[1] = "label" /\ IdOn(d).label = ref[2]

NumbersTell(cache) ==
    /\ cache = [d \in Devices |-> cache[d]]
    /\ \A d \in Devices : cache[d] \in {NoNumber, Stat(d)}

\* FS_Info has the UUIDs of the devices there are, and the labels read are theirs.
EntriesTell(entries) ==
    \A i \in DOMAIN entries :
        /\ DeviceAt(i) \in Here /\ entries[i].name = DeviceAt(i)
        /\ entries[i].uuid = IdOn(DeviceAt(i)).uuid
        /\ entries[i].label \in {Unread, IdOn(DeviceAt(i)).label}

MountsTold(info) ==
    \A d \in Here, m \in info : m.node = Stat(d) =>
        m.dir = MountDir(d) /\ (m.readonly <=> d \in session.readonly)

RaidTold(members) ==
    \A d \in Here, m \in members : m.member = Stat(d) =>
        /\ m.uuid = (IF Installed("mdadm") THEN ArrayOn(d).uuid ELSE Without)
        /\ m.label = (IF Installed("mdadm") THEN ArrayOn(d).label ELSE Without)
        /\ m.array = (IF d \in active THEN {ArrayOn(d).path} ELSE {})

LvmTold(pvs) ==
    pvs.loaded => \A d \in Here : On(d).type = "lvm2 pv" => get_vg_name(pvs.entries, Stat(d)) = {VgOn(d)}

LuksTold(mappings) ==
    mappings.loaded => \A p \in Partitions :
        {m.name : m \in get_cache_entry(mappings.entries, Stat(Disk(p)))} =
            (IF mapped[p] = 0 THEN {} ELSE {Crypt(p)})

\* The mount points of /etc/fstab: a device has none but its own.  What is still a
\* reference is to no partition, so that only a mapping can turn up for it; the
\* line of a partition has been resolved, that of a mapping has or can still be.
FstabTold(map) ==
    /\ \A n \in DOMAIN map : map[n] # {}
    /\ \A r \in Refs(map) :
         /\ \A p \in Partitions : ~Refers(r, Disk(p))
         /\ \A dir \in map[r] : \E line \in Range(session.fstab) :
              line.exists /\ line.spec = r /\ line.dir = dir
    /\ \A d \in Here : Stat(d) \in DOMAIN map => map[Stat(d)] \subseteq {line.dir : line \in FstabLines(d)}
    /\ \A d \in Here : \A line \in FstabLines(d) : OnlyMeans(line, d) =>
         \/ Stat(d) \in DOMAIN map /\ line.dir \in map[Stat(d)]
         \/ d \notin Disks /\ line.spec \in Refs(map)

DetailsHold == \A d \in Here : Passed(d) /\ ~Hidden(d) => DetailedAs(d, ShownOf(d))

\* Each cache has the details from the step that loads it on.
DetailInv ==
    /\ OneMounted
    /\ ~changed =>
         /\ at # "start" => NumbersTell(numbers)
         /\ at \notin {"start", "fs"} => EntriesTell(fsInfo)
         /\ at \notin {"start", "fs", "mounts"} => MountsTold(mountInfo) /\ FstabTold(fstabInfo) /\ LvmTold(lvm)
         /\ Scanning => RaidTold(raid) /\ LuksTold(luks) /\ DetailsHold

LEMMA SessionLines ==
    ASSUME WorldHolds
    PROVE  /\ session.fstab \in Seq(Range(session.fstab)) /\ Len(session.fstab) \in Nat
           /\ DOMAIN session.fstab = 1 .. Len(session.fstab)
           /\ \A line \in Range(session.fstab) :
                /\ line.spec \in ({"uuid", "label"} \X (Nat \ {0})) \union Devices
                /\ line.exists \in BOOLEAN
                /\ line = [spec |-> line.spec, dir |-> line.dir, exists |-> line.exists]
<1> DEFINE dirs == {line.dir : line \in Range(session.fstab)}
           Lines == [spec : NamesOf(session), dir : dirs, exists : BOOLEAN]
<1>1. session.fstab \in Seq(Lines) BY SessionFacts DEF SessionOK
<1>2. DOMAIN session.kinds = Partitions BY SessionFacts DEF SessionOK, WorldHolds, Count
<1>3. NamesOf(session) \subseteq ({"uuid", "label"} \X (Nat \ {0})) \union Devices
  BY <1>2 DEF NamesOf, Devices, Disks, Disk, Crypt
<1>4. \A line \in Lines : /\ line.spec \in NamesOf(session) /\ line.exists \in BOOLEAN
                          /\ line = [spec |-> line.spec, dir |-> line.dir, exists |-> line.exists]
  OBVIOUS
<1> HIDE DEF Lines
<1>5. Range(session.fstab) \subseteq Lines BY <1>1 DEF Range
<1>6. session.fstab \in Seq(Range(session.fstab)) /\ Len(session.fstab) \in Nat
      /\ DOMAIN session.fstab = 1 .. Len(session.fstab)
  BY <1>1 DEF Range
<1> QED BY <1>3, <1>4, <1>5, <1>6

LEMMA IdIs ==
    ASSUME WorldHolds, NEW d \in Devices
    PROVE  /\ IdOn(d) = [uuid |-> IdOn(d).uuid, label |-> IdOn(d).label]
           /\ IdOn(d).uuid \in Nat /\ IdOn(d).label \in Nat
           /\ On(d).blkid = Nothing => IdOn(d).uuid = Without /\ IdOn(d).label = Without
<1>1. d[1] \in {"disk", "crypt"} /\ d[2] \in Partitions BY DevicesAre, Names
<1>2. d[2] \in Nat /\ d[2] \in DOMAIN session.kinds
  BY <1>1, SessionFacts DEF SessionOK, WorldHolds, Count
<1>3. session.ids \in [{"disk", "crypt"} -> [DOMAIN session.kinds -> [uuid : Nat, label : Nat]]]
  BY SessionFacts DEF SessionOK
<1>4. session.ids[d[1]][d[2]] \in [uuid : Nat, label : Nat] BY <1>1, <1>2, <1>3
<1>5. IdOn(d) \in [uuid : Nat, label : Nat] BY <1>2, <1>4 DEF IdOn, Without
<1> QED BY <1>5 DEF IdOn

\* What a device is compared by is no reference.
LEMMA StatsAre ==
    ASSUME WorldHolds, NEW d \in Devices
    PROVE  /\ ~IsRef(Stat(d)) /\ Stat(d) # NoNode /\ Stat(d) # NoNumber /\ Stat(d) # Root
           /\ ~IsRef(NoNumber) /\ ~IsRef(d) /\ ~IsRef(NoNode)
<1>1. PICK p \in Partitions : d = Disk(p) \/ d = Crypt(p) BY DevicesAre
<1>2. Stat(d) \in {<<"sd", p>>, <<"dm", mapped[p]>>, <<"crypt", p>>} BY <1>1, StatIs
<1>3. Stat(d)[1] \in {"sd", "dm", "crypt"} BY <1>2
<1> QED BY <1>1, <1>3, StatIs, Names DEF IsRef, NoNode, NoNumber

LEMMA FirstIs ==
    ASSUME NEW entries, NEW places \in SUBSET Nat, places # {}
    PROVE  \E i \in places : FirstOf(entries, places) = entries[i]
<1>1. (CHOOSE i \in places : \A j \in places : i <= j) \in places BY LeastPlace
<1> QED BY <1>1 DEF FirstOf

\* FS_Info has one entry for each device blkid knows, by its number.
LEMMA EntryPaths ==
    ASSUME WorldHolds, ~changed, NEW cache, NumbersAre(cache), NumbersTell(cache), NEW entries, NEW ds,
           Lists(entries, cache, ds), EntriesTell(entries)
    PROVE  /\ DOMAIN entries \in SUBSET Nat
           /\ \A i \in DOMAIN entries : /\ DeviceAt(i) \in Here /\ entries[i].path = Stat(DeviceAt(i))
                                        /\ entries[i].path # NoNode /\ Installed("blkid")
                                        /\ entries[i].type = On(DeviceAt(i)).blkid
           /\ \A d \in Here \cap ds : Installed("blkid") /\ On(d).blkid # Nothing =>
                \E i \in DOMAIN entries : DeviceAt(i) = d
           /\ \A i, j \in DOMAIN entries : entries[i].path = entries[j].path => i = j
<1>1. Known = Here BY DEF Known, Here
<1>2. DOMAIN entries \subseteq 1 .. (2 * Count) /\ Count \in Nat BY SessionFacts DEF Lists
<1>3. ASSUME NEW i \in DOMAIN entries
      PROVE  /\ DeviceAt(i) \in Here /\ entries[i].path = Stat(DeviceAt(i))
             /\ entries[i].path # NoNode /\ Installed("blkid") /\ entries[i].type = On(DeviceAt(i)).blkid
  <2>1. DeviceAt(i) \in Here /\ DeviceAt(i) \in Devices BY DEF EntriesTell, Here
  <2>2. cache[DeviceAt(i)] \in {NoNumber, Stat(DeviceAt(i))} BY <2>1 DEF NumbersTell
  <2> QED BY <1>1, <2>1, <2>2, StatsAre DEF Lists
<1>4. ASSUME NEW d \in Here \cap ds, Installed("blkid"), On(d).blkid # Nothing
      PROVE  \E i \in DOMAIN entries : DeviceAt(i) = d
  <2>1. PICK i \in 1 .. (2 * Count) : DeviceAt(i) = d BY PlaceOf DEF Here
  <2> QED BY <1>1, <1>4, <2>1 DEF Lists
<1>5. ASSUME NEW i \in DOMAIN entries, NEW j \in DOMAIN entries, entries[i].path = entries[j].path
      PROVE  i = j
  <2>1. Stat(DeviceAt(i)) = Stat(DeviceAt(j)) /\ DeviceAt(i) \in Here /\ DeviceAt(j) \in Here BY <1>3, <1>5
  <2>2. DeviceAt(i) = DeviceAt(j) BY <2>1, StatTells DEF Here
  <2> QED BY <1>2, <2>2, PlaceOf
<1>6. DOMAIN entries \in SUBSET Nat BY <1>2
<1> QED BY <1>3, <1>4, <1>5, <1>6

\* A reference is looked up as a device it is to, and found if FS_Info knows one.
LEMMA LookupTells ==
    ASSUME WorldHolds, ~changed, NEW cache, NumbersAre(cache), NumbersTell(cache), NEW entries, NEW ds,
           Lists(entries, cache, ds), EntriesTell(entries), NEW ref \in {"uuid", "label"} \X (Nat \ {0})
    PROVE  LET node == lookup_uuid_or_label(entries, ref) IN
           /\ node = NoNode \/ \E d \in Here : node = Stat(d) /\ Refers(ref, d)
           /\ \A d \in Here \cap ds :
                /\ Refers(ref, d)
                /\ ref[1] = "label" => \A i \in DOMAIN entries : DeviceAt(i) = d => entries[i].label # Unread
                => node # NoNode
<1> DEFINE node == lookup_uuid_or_label(entries, ref)
           places == {i \in DOMAIN entries : IF ref[1] = "uuid" THEN entries[i].uuid = ref[2]
                                             ELSE entries[i].label = ref[2]}
<1>1. ref[1] \in {"uuid", "label"} /\ ref[2] \in Nat \ {0} OBVIOUS
<1>2. node = FirstOf(entries, places).path
  <2>1. CASE ref[1] = "uuid"
    <3>1. places = {i \in DOMAIN entries : entries[i].uuid = ref[2]} BY <2>1
    <3>2. node = get_path_by_uuid(entries, ref[2]) BY <2>1 DEF lookup_uuid_or_label
    <3> HIDE DEF node, places
    <3> QED BY <3>1, <3>2 DEF get_path_by_uuid
  <2>2. CASE ref[1] = "label"
    <3>1. places = {i \in DOMAIN entries : entries[i].label = ref[2]} BY <2>2
    <3>2. node = get_path_by_label(entries, ref[2]) BY <2>2 DEF lookup_uuid_or_label
    <3> HIDE DEF node, places
    <3> QED BY <3>1, <3>2 DEF get_path_by_label
  <2> QED BY <1>1, <2>1, <2>2
<1>3. DOMAIN entries \in SUBSET Nat BY EntryPaths
<1>4. \A i \in places : Refers(ref, DeviceAt(i))
  <2> SUFFICES ASSUME NEW i \in places PROVE Refers(ref, DeviceAt(i)) OBVIOUS
  <2>1. Installed("blkid") BY EntryPaths
  <2>2. entries[i].uuid = IdOn(DeviceAt(i)).uuid /\ entries[i].label \in {Unread, IdOn(DeviceAt(i)).label}
    BY DEF EntriesTell
  <2>3. ref[2] # Unread BY <1>1 DEF Unread
  <2> QED BY <1>1, <2>1, <2>2, <2>3 DEF Refers
<1>5. places # {} => \E i \in places : node = entries[i].path
  <2>1. places \in SUBSET Nat BY <1>3
  <2> HIDE DEF places, node
  <2> QED BY <1>2, <2>1, FirstIs
<1>6. places = {} => node = NoNode
  <2> HIDE DEF places, node
  <2> QED BY <1>2 DEF FirstOf, NoEntry
<1>7. \A i \in places : /\ i \in DOMAIN entries /\ DeviceAt(i) \in Here
                        /\ entries[i].path = Stat(DeviceAt(i)) /\ entries[i].path # NoNode
  BY EntryPaths
<1>8. ASSUME NEW d \in Here \cap ds, Refers(ref, d),
             ref[1] = "label" => \A i \in DOMAIN entries : DeviceAt(i) = d => entries[i].label # Unread
      PROVE  places # {}
  <2>1. Installed("blkid") /\ d \in Devices BY <1>8 DEF Refers, Here
  <2>2. On(d).blkid # Nothing BY <1>1, <1>8, <2>1, IdIs DEF Refers, Without
  <2>3. PICK i \in DOMAIN entries : DeviceAt(i) = d BY <2>1, <2>2, EntryPaths
  <2>4. entries[i].uuid = IdOn(d).uuid /\ entries[i].label \in {Unread, IdOn(d).label} BY <2>3 DEF EntriesTell
  <2>5. i \in places BY <1>1, <1>8, <2>3, <2>4 DEF Refers
  <2> QED BY <2>5
<1> HIDE DEF node, places
<1> QED BY <1>4, <1>5, <1>6, <1>7, <1>8 DEF node

\* Reading labels keeps what the entries tell.
LEMMA LabelsRead ==
    ASSUME WorldHolds, ~changed, NEW cache, NumbersAre(cache), NumbersTell(cache), NEW entries, NEW ds,
           Lists(entries, cache, ds), EntriesTell(entries), NEW paths
    PROVE  LET after == run_blkid_update_cache_label(entries, paths, LabelsOn) IN
           /\ Lists(after, cache, ds) /\ EntriesTell(after) /\ DOMAIN after = DOMAIN entries
           /\ \A i \in DOMAIN after : /\ after[i].path = entries[i].path
                                      /\ entries[i].path \in paths => after[i].label # Unread
<1> DEFINE after == run_blkid_update_cache_label(entries, paths, LabelsOn)
<1>1. Lists(after, cache, ds) /\ DOMAIN after = DOMAIN entries BY ListsLabelled
<1>2. ASSUME NEW i \in DOMAIN entries
      PROVE  /\ after[i].path = entries[i].path /\ after[i].name = entries[i].name
             /\ after[i].uuid = entries[i].uuid
             /\ after[i].label \in {entries[i].label, IdOn(DeviceAt(i)).label}
             /\ entries[i].path \in paths => after[i].label # Unread
  <2>1. DeviceAt(i) \in Here /\ entries[i].name = DeviceAt(i) BY DEF EntriesTell
  <2>2. LabelsOn[DeviceAt(i)] = IdOn(DeviceAt(i)).label
    <3>1. Installed("blkid") BY EntryPaths
    <3> QED BY <2>1, <3>1 DEF LabelsOn, Here
  <2>3. entries[i] = [name |-> entries[i].name, path |-> entries[i].path, type |-> entries[i].type,
                      uuid |-> entries[i].uuid, label |-> entries[i].label]
    BY DEF Lists
  <2>4. IdOn(DeviceAt(i)).label # Unread BY <2>1, IdIs DEF Here, Unread
  <2>5. after[i] = IF entries[i].path \in paths /\ entries[i].label = Unread
                   THEN [entries[i] EXCEPT !.label = IdOn(DeviceAt(i)).label] ELSE entries[i]
    BY <2>1, <2>2 DEF run_blkid_update_cache_label
  <2> HIDE DEF after
  <2> QED BY <2>3, <2>4, <2>5
<1> HIDE DEF after
<1>3. EntriesTell(after) BY <1>1, <1>2 DEF EntriesTell
<1> QED BY <1>1, <1>2, <1>3 DEF after

LEMMA BlkidTells ==
    ASSUME WorldHolds, NEW cache, NEW ds
    PROVE  EntriesTell(BlkidEntries(cache, ds))
<1> DEFINE entries == BlkidEntries(cache, ds)
<1>1. ASSUME NEW i \in DOMAIN entries
      PROVE  /\ i \in 1 .. (2 * Count) /\ Present(DeviceAt(i))
             /\ entries[i] = FSEntry(DeviceAt(i), cache[DeviceAt(i)], On(DeviceAt(i)).blkid, IdOn(DeviceAt(i)).uuid)
  BY DEF BlkidEntries
<1> HIDE DEF entries
<1>2. ASSUME NEW i \in DOMAIN entries
      PROVE  /\ DeviceAt(i) \in Here /\ entries[i].name = DeviceAt(i)
             /\ entries[i].uuid = IdOn(DeviceAt(i)).uuid /\ entries[i].label = Unread
  BY <1>1, PlaceOf DEF FSEntry, Here
<1>3. EntriesTell(entries) BY <1>2 DEF EntriesTell
<1> QED BY <1>3 DEF entries

LEMMA WithTells ==
    ASSUME NEW entries, NEW more, EntriesTell(entries), EntriesTell(more)
    PROVE  EntriesTell(With(entries, more))
<1> DEFINE both == With(entries, more)
<1>1. ASSUME NEW i \in DOMAIN both
      PROVE  (i \in DOMAIN entries /\ both[i] = entries[i]) \/ (i \in DOMAIN more /\ both[i] = more[i])
  BY DEF With
<1> HIDE DEF both
<1>2. EntriesTell(both) BY <1>1 DEF EntriesTell
<1> QED BY <1>2 DEF both

LEMMA NumbersLooked ==
    ASSUME NEW cache, NumbersTell(cache), NEW ds
    PROVE  NumbersTell(Looked(cache, ds))
<1>1. Looked(cache, ds) = [d \in Devices |-> IF d \in ds /\ cache[d] = NoNumber THEN Stat(d) ELSE cache[d]]
  BY DEF Looked, NumbersTell
<1> QED BY <1>1 DEF NumbersTell

\* What is mounted is read with the place it is mounted at.
LEMMA MountsReadTold ==
    ASSUME WorldHolds, ~changed, NEW cache, NumbersAre(cache)
    PROVE  MountsTold(MountsRead(cache))
<1> DEFINE At(e, node) == MountEntry(node, MountDir(e), e \in session.readonly)
           Proc(e) == At(e, IF MountDir(e) = Root THEN Root ELSE cache[e])
           proc == {Proc(e) : e \in mounted}
           all == {At(e, cache[e]) : e \in mounted}
<1> SUFFICES ASSUME NEW d \in Here, NEW m \in MountsRead(cache), m.node = Stat(d)
             PROVE  m.dir = MountDir(d) /\ (m.readonly <=> d \in session.readonly)
  BY DEF MountsTold
<1>1. m \in proc \/ m \in all BY DEF MountsRead
<1>2. PICK e \in mounted : m = Proc(e) \/ m = At(e, cache[e]) BY <1>1
<1>3. /\ m.dir = MountDir(e) /\ (m.readonly <=> e \in session.readonly)
      /\ m.node = cache[e] \/ m.node = Root
  <2>1. \A x, node : /\ At(x, node).dir = MountDir(x) /\ At(x, node).node = node
                     /\ At(x, node).readonly = (x \in session.readonly)
    BY DEF MountEntry
  <2>2. \E node \in {Root, cache[e]} : m = At(e, node) BY <1>2
  <2> HIDE DEF At
  <2>3. PICK node \in {Root, cache[e]} : m = At(e, node) BY <2>2
  <2> QED BY <2>1, <2>3
<1>4. Stat(d) # Root /\ d \in Known BY StatsAre DEF Here, Known
<1>5. e = d BY <1>3, <1>4 DEF NumbersAre, WorldHolds
<1> QED BY <1>3, <1>5

LEMMA RaidReadTold ==
    ASSUME WorldHolds
    PROVE  RaidTold(load_swraid_info_cache)
<1> DEFINE members == {e \in Devices : Present(e) /\ IsRaid(e)}
           listed == IF Installed("mdadm") THEN members ELSE members \cap active
           Member(e) == [member |-> Stat(e), active |-> e \in members \cap active,
                         array |-> IF e \in members \cap active THEN {ArrayOn(e).path} ELSE {},
                         uuid |-> IF Installed("mdadm") THEN ArrayOn(e).uuid ELSE Without,
                         label |-> IF Installed("mdadm") THEN ArrayOn(e).label ELSE Without]
<1> SUFFICES ASSUME NEW d \in Here, NEW m \in load_swraid_info_cache, m.member = Stat(d)
             PROVE  /\ m.uuid = (IF Installed("mdadm") THEN ArrayOn(d).uuid ELSE Without)
                    /\ m.label = (IF Installed("mdadm") THEN ArrayOn(d).label ELSE Without)
                    /\ m.array = (IF d \in active THEN {ArrayOn(d).path} ELSE {})
  BY DEF RaidTold
<1>1. PICK e \in listed : m = Member(e) BY DEF load_swraid_info_cache
<1>2. e \in Devices /\ e \in members OBVIOUS
<1>3. m.member = Stat(e) BY <1>1
<1>4. e = d BY <1>2, <1>3, StatTells DEF Here
<1> HIDE DEF members
<1> QED BY <1>1, <1>2, <1>4

\* What the drivers read of the devices they name.
LEMMA DriversTold ==
    ASSUME WorldHolds, ~changed, NEW cache, NumbersAre(cache), NEW fstype, NEW d \in Devices,
           LvmTold(lvm), LuksTold(luks), \A e \in Named(fstype, d) \cap Known : cache[e] = Stat(e),
           LoadDriverCaches(fstype, d, cache)
    PROVE  LvmTold(lvm') /\ LuksTold(luks')
<1>1. Known = Here BY DEF Known, Here
<1>2. LvmTold(lvm')
  <2>1. CASE fstype = "lvm2 pv" /\ ~lvm.loaded
    <3> DEFINE pvs == {e \in Devices : Present(e) /\ On(e).type = "lvm2 pv"}
               Pv(e) == [pv |-> cache[e], vg |-> VgOn(e), active |-> e \in active]
    <3>1. lvm'.entries = {Pv(e) : e \in pvs} BY <2>1 DEF LoadDriverCaches, Loaded, PhysicalVolumes
    <3>2. \A e \in pvs : e \in Here /\ cache[e] = Stat(e) BY <1>1, <2>1 DEF Named, Here
    <3>3. \A e : Pv(e).pv = cache[e] /\ Pv(e).vg = VgOn(e) OBVIOUS
    <3>4. \A e \in Here : On(e).type = "lvm2 pv" => e \in pvs BY DEF Here
    <3> HIDE DEF pvs, Pv
    <3>5. ASSUME NEW e \in Here, On(e).type = "lvm2 pv" PROVE get_vg_name(lvm'.entries, Stat(e)) = {VgOn(e)}
      <4>1. Pv(e) \in lvm'.entries /\ Pv(e).pv = Stat(e) BY <3>1, <3>2, <3>3, <3>4, <3>5
      <4>2. ASSUME NEW x \in lvm'.entries, x.pv = Stat(e) PROVE x.vg = VgOn(e)
        <5>1. PICK f \in pvs : x = Pv(f) BY <3>1
        <5>2. Stat(f) = Stat(e) /\ f \in Here BY <3>2, <3>3, <4>2, <5>1
        <5>3. f = e BY <5>2, StatTells DEF Here
        <5> QED BY <3>3, <5>1, <5>3
      <4> QED BY <3>3, <4>1, <4>2 DEF get_vg_name
    <3> QED BY <3>5 DEF LvmTold
  <2>2. CASE ~(fstype = "lvm2 pv" /\ ~lvm.loaded) BY <2>2 DEF LoadDriverCaches
  <2> QED BY <2>1, <2>2
<1>3. LuksTold(luks')
  <2>1. CASE fstype = "luks" /\ ~luks.loaded
    <3> DEFINE open == {q \in Partitions : mapped[q] # 0}
               Mapping(p) == [container |-> cache[Disk(p)], name |-> Crypt(p)]
    <3>1. luks'.entries = {Mapping(p) : p \in open} BY <2>1 DEF LoadDriverCaches, Loaded, LuksMappings
    <3>2. \A p \in Partitions : Mapping(p).container = Stat(Disk(p)) /\ Mapping(p).name = Crypt(p) BY DEF NumbersAre
    <3>3. \A p \in Partitions : p \in open <=> mapped[p] # 0 OBVIOUS
    <3>4. open \subseteq Partitions OBVIOUS
    <3> HIDE DEF open, Mapping
    <3>5. ASSUME NEW p \in Partitions
          PROVE  {m.name : m \in get_cache_entry(luks'.entries, Stat(Disk(p)))} =
                     (IF mapped[p] = 0 THEN {} ELSE {Crypt(p)})
      <4>1. ASSUME NEW m \in luks'.entries, m.container = Stat(Disk(p)) PROVE m.name = Crypt(p) /\ mapped[p] # 0
        <5>1. PICK q \in open : m = Mapping(q) BY <3>1
        <5>2. q \in Partitions /\ Stat(Disk(q)) = Stat(Disk(p)) BY <3>2, <3>4, <4>1, <5>1
        <5>3. q = p BY <5>2, StatIs
        <5> QED BY <3>2, <3>3, <5>1, <5>3
      <4>2. mapped[p] # 0 => Mapping(p) \in luks'.entries BY <3>1, <3>3
      <4>3. mapped[p] = 0 => get_cache_entry(luks'.entries, Stat(Disk(p))) = {} BY <4>1 DEF get_cache_entry
      <4>4. mapped[p] # 0 => Mapping(p) \in get_cache_entry(luks'.entries, Stat(Disk(p)))
        BY <3>2, <4>2 DEF get_cache_entry
      <4>5. \A m \in get_cache_entry(luks'.entries, Stat(Disk(p))) : m.name = Crypt(p)
        BY <4>1 DEF get_cache_entry
      <4>6. Mapping(p).name = Crypt(p) BY <3>2
      <4> QED BY <4>3, <4>4, <4>5, <4>6
    <3> QED BY <3>5 DEF LuksTold
  <2>2. CASE ~(fstype = "luks" /\ ~luks.loaded) BY <2>2 DEF LoadDriverCaches
  <2> QED BY <2>1, <2>2
<1> QED BY <1>2, <1>3

-----------------------------------------------------------------------------
(* References in their order *)

LEMMA Bounded ==
    ASSUME NEW n \in Nat, NEW v, \A i \in 1 .. n : v[i] \in Nat
    PROVE  \E b \in Nat : \A i \in 1 .. n : v[i] <= b
<1> DEFINE Has(m) == \E b \in Nat : \A i \in 1 .. m : v[i] <= b
           without == {m \in 0 .. n : ~Has(m)}
<1> HIDE DEF Has
<1> SUFFICES ASSUME without # {} PROVE FALSE
  <2>1. n \in 0 .. n OBVIOUS
  <2> QED BY <2>1 DEF Has
<1>1. without \in SUBSET Nat OBVIOUS
<1>2. PICK m \in without : \A k \in without : m <= k
  <2> HIDE DEF without
  <2> QED BY <1>1, LeastPlace
<1>3. m \in 0 .. n /\ ~Has(m) OBVIOUS
<1>4. m # 0 BY <1>3 DEF Has
<1>5. Has(m - 1)
  <2>1. m - 1 \in 0 .. n /\ ~(m <= m - 1) BY <1>3, <1>4
  <2>2. m - 1 \notin without BY <1>2, <2>1
  <2> QED BY <2>1, <2>2
<1>6. PICK b \in Nat : \A i \in 1 .. (m - 1) : v[i] <= b BY <1>5 DEF Has
<1>7. v[m] \in Nat BY <1>3, <1>4
<1> DEFINE c == IF v[m] <= b THEN b ELSE v[m]
<1>8. c \in Nat /\ b <= c /\ v[m] <= c BY <1>7
<1> HIDE DEF c
<1>9. ASSUME NEW i \in 1 .. m PROVE v[i] <= c
  <2>1. CASE i = m BY <1>8, <2>1
  <2>2. CASE i # m
    <3>1. i \in 1 .. (m - 1) /\ i \in 1 .. n BY <1>3, <2>2
    <3>2. v[i] \in Nat /\ v[i] <= b BY <1>6, <3>1
    <3> QED BY <1>8, <3>2
  <2> QED BY <2>1, <2>2
<1>10. Has(m) BY <1>8, <1>9 DEF Has
<1> QED BY <1>3, <1>10

LEMMA GreatestOf ==
    ASSUME NEW V \in SUBSET Nat, V # {}, NEW b \in Nat, \A v \in V : v <= b
    PROVE  \E v \in V : \A w \in V : w <= v
<1> DEFINE rest == {b - v : v \in V}
<1>1. rest \in SUBSET Nat /\ rest # {}
  <2>1. \A v \in V : b - v \in Nat OBVIOUS
  <2> QED BY <2>1
<1>2. PICK x \in rest : \A y \in rest : x <= y
  <2> HIDE DEF rest
  <2> QED BY <1>1, LeastPlace
<1>3. PICK v \in V : x = b - v OBVIOUS
<1>4. ASSUME NEW w \in V PROVE w <= v
  <2>1. b - v <= b - w BY <1>2, <1>3
  <2> QED BY <2>1
<1> QED BY <1>4

References == {"uuid", "label"} \X (Nat \ {0})

LEMMA EarliestRef ==
    ASSUME NEW refs \in SUBSET References, refs # {}
    PROVE  \E r \in refs : \A q \in refs : ~RefBefore(q, r)
<1>1. \A r \in refs : r[1] \in {"uuid", "label"} /\ r[2] \in Nat BY DEF References
<1> DEFINE group == IF \E r \in refs : r[1] = "label" THEN "label" ELSE "uuid"
           values == {r[2] : r \in {q \in refs : q[1] = group}}
<1>2. \E r \in refs : r[1] = group BY <1>1
<1>3. values \in SUBSET Nat /\ values # {} BY <1>1, <1>2
<1>4. PICK v \in values : \A w \in values : v <= w
  <2> HIDE DEF values
  <2> QED BY <1>3, LeastPlace
<1>5. PICK r \in refs : r[1] = group /\ r[2] = v OBVIOUS
<1>6. ASSUME NEW q \in refs PROVE ~RefBefore(q, r)
  <2>1. q[1] = group => r[2] <= q[2] BY <1>4, <1>5
  <2>2. q[1] # group => q[1] = "uuid" /\ r[1] = "label" BY <1>1, <1>5
  <2> QED BY <1>1, <1>5, <2>1, <2>2 DEF RefBefore
<1> QED BY <1>6

\* The lines of /etc/fstab are finitely many, so one of its references is the last.
LEMMA LatestRef ==
    ASSUME WorldHolds, NEW refs \in SUBSET References, refs # {},
           \A r \in refs : \E line \in Range(session.fstab) : line.spec = r
    PROVE  \E r \in refs : \A q \in refs : q = r \/ RefBefore(q, r)
<1>1. \A r \in refs : r[1] \in {"uuid", "label"} /\ r[2] \in Nat /\ r = <<r[1], r[2]>> BY DEF References
<1> DEFINE n == Len(session.fstab)
           v == [i \in 1 .. n |-> IF session.fstab[i].spec \in References THEN session.fstab[i].spec[2] ELSE 0]
<1>2. n \in Nat /\ DOMAIN session.fstab = 1 .. n BY SessionLines
<1>3. \A i \in 1 .. n : v[i] \in Nat BY DEF References
<1>4. PICK b \in Nat : \A i \in 1 .. n : v[i] <= b
  <2> HIDE DEF v, n
  <2> QED BY <1>2, <1>3, Bounded
<1>5. ASSUME NEW r \in refs PROVE r[2] <= b
  <2>1. PICK i \in 1 .. n : session.fstab[i].spec = r BY <1>2 DEF Range
  <2>2. v[i] = r[2] BY <2>1
  <2> QED BY <1>4, <2>2
<1> DEFINE group == IF \E r \in refs : r[1] = "uuid" THEN "uuid" ELSE "label"
           values == {r[2] : r \in {q \in refs : q[1] = group}}
<1>6. \E r \in refs : r[1] = group BY <1>1
<1>7. values \in SUBSET Nat /\ values # {} /\ \A x \in values : x <= b BY <1>1, <1>5, <1>6
<1>8. PICK x \in values : \A y \in values : y <= x
  <2> HIDE DEF values, v, n
  <2> QED BY <1>7, GreatestOf
<1>9. PICK r \in refs : r[1] = group /\ r[2] = x OBVIOUS
<1>10. ASSUME NEW q \in refs PROVE q = r \/ RefBefore(q, r)
  <2>1. q[1] = group => q[2] <= r[2] BY <1>8, <1>9
  <2>2. q[1] # group => q[1] = "label" /\ r[1] = "uuid" BY <1>1, <1>9
  <2>3. q[1] = r[1] /\ q[2] = r[2] => q = r BY <1>1
  <2> HIDE DEF group, values, v, n
  <2> QED BY <1>1, <1>9, <2>1, <2>2, <2>3 DEF RefBefore
<1> QED BY <1>10

-----------------------------------------------------------------------------
(* The mount points of /etc/fstab *)

LEMMA SpecIs ==
    ASSUME WorldHolds, NEW line \in Range(session.fstab)
    PROVE  \/ IsRef(line.spec) /\ line.spec \in References
           \/ ~IsRef(line.spec) /\ line.spec \in Devices /\ line.spec \notin References
<1>1. line.spec \in References \union Devices BY SessionLines DEF References
<1>2. line.spec \in References => IsRef(line.spec) BY DEF References, IsRef
<1>3. line.spec \in Devices => ~IsRef(line.spec) BY StatsAre
<1> QED BY <1>1, <1>2, <1>3

LEMMA MeansIs ==
    ASSUME WorldHolds, NEW line \in Range(session.fstab), NEW d \in Devices
    PROVE  /\ IsRef(line.spec) => (Means(line, d) <=> Refers(line.spec, d))
           /\ ~IsRef(line.spec) => (Means(line, d) <=> line.spec = d)
<1>1. line.spec \in References => line.spec = <<line.spec[1], line.spec[2]>> BY DEF References
<1>2. IsRef(line.spec) => (Means(line, d) <=> Refers(line.spec, d))
  <2> SUFFICES ASSUME IsRef(line.spec) PROVE Means(line, d) <=> Refers(line.spec, d) OBVIOUS
  <2>1. line.spec # d BY StatsAre
  <2> DEFINE spec == line.spec
             id == IdOn(d)
  <2>2. spec = <<spec[1], spec[2]>> /\ spec[1] \in {"uuid", "label"} BY <1>1, SpecIs DEF IsRef
  <2>3. Means(line, d) <=> Installed("blkid") /\ (spec = <<"uuid", id.uuid>> \/ spec = <<"label", id.label>>)
    BY <2>1 DEF Means
  <2> HIDE DEF spec, id
  <2>4. spec = <<"uuid", id.uuid>> <=> spec[1] = "uuid" /\ id.uuid = spec[2] BY <2>2
  <2>5. spec = <<"label", id.label>> <=> spec[1] = "label" /\ id.label = spec[2] BY <2>2
  <2> QED BY <2>3, <2>4, <2>5 DEF Refers, spec, id
<1>3. ~IsRef(line.spec) => (Means(line, d) <=> line.spec = d) BY SpecIs DEF Means, IsRef
<1> QED BY <1>2, <1>3

\* /etc/fstab is read with every reference resolved that a partition answers.
LEMMA FstabReadTold ==
    ASSUME WorldHolds, ~changed, NEW cache, NumbersAre(cache), NumbersTell(cache),
           \A d \in FstabNames \cap Known : cache[d] = Stat(d),
           NEW entries, Lists(entries, cache, Disks), EntriesTell(entries),
           LabelsWanted({line.spec : line \in Range(session.fstab)}) =>
               \A i \in DOMAIN entries : entries[i].label # Unread
    PROVE  FstabTold(FstabRead(entries, cache))
<1> DEFINE L == {line \in Range(session.fstab) : line.exists}
           Read(line) == IF IsRef(line.spec) THEN line ELSE [line EXCEPT !.spec = cache[line.spec]]
           lines == [i \in DOMAIN session.fstab |-> Read(session.fstab[i])]
           NodeOf(line) == LET known == lookup_uuid_or_label(entries, line.spec)
                           IN  IF known = NoNode THEN line.spec ELSE known
           N(line) == NodeOf(Read(line))
           map == FstabRead(entries, cache)
           there == {line \in Range(lines) : line.exists}
<1>1. Known = Here BY DEF Known, Here
<1>2. lines = [i \in DOMAIN session.fstab |-> IF IsRef(session.fstab[i].spec) THEN session.fstab[i]
                                              ELSE [session.fstab[i] EXCEPT !.spec = cache[session.fstab[i].spec]]]
  OBVIOUS
<1>3. map = [n \in {NodeOf(line) : line \in there} |-> {line.dir : line \in {l \in there : NodeOf(l) = n}}]
  BY <1>2 DEF FstabRead, read_fstab
<1>4. Range(lines) = {Read(line) : line \in Range(session.fstab)} BY DEF Range
<1>5. ASSUME NEW line \in Range(session.fstab)
      PROVE  /\ Read(line).dir = line.dir /\ Read(line).exists = line.exists
             /\ Read(line).spec = IF IsRef(line.spec) THEN line.spec ELSE cache[line.spec]
  <2>1. line = [spec |-> line.spec, dir |-> line.dir, exists |-> line.exists] BY SessionLines
  <2> QED BY <2>1
<1> HIDE DEF Read, map, lines
<1>6. there = {Read(line) : line \in L} BY <1>4, <1>5
<1> HIDE DEF there
<1>7. DOMAIN map = {N(line) : line \in L}
      /\ \A n \in DOMAIN map : map[n] = {line.dir : line \in {l \in L : N(l) = n}}
  <2>1. {NodeOf(line) : line \in there} = {N(line) : line \in L} BY <1>6
  <2>2. ASSUME NEW n
        PROVE  {line.dir : line \in {l \in there : NodeOf(l) = n}} = {line.dir : line \in {l \in L : N(l) = n}}
    BY <1>5, <1>6
  <2> HIDE DEF NodeOf, N, L
  <2> QED BY <1>3, <2>1, <2>2
<1>8. ASSUME NEW line \in Range(session.fstab)
      PROVE  /\ IsRef(line.spec) =>
                  \/ N(line) = line.spec /\ lookup_uuid_or_label(entries, line.spec) = NoNode
                  \/ \E e \in Here : N(line) = Stat(e) /\ Refers(line.spec, e)
             /\ ~IsRef(line.spec) => N(line) = cache[line.spec] /\ ~IsRef(N(line))
  <2>1. CASE IsRef(line.spec)
    <3>1. line.spec \in References BY <2>1, SpecIs
    <3>2. lookup_uuid_or_label(entries, line.spec) = NoNode
          \/ \E e \in Here : lookup_uuid_or_label(entries, line.spec) = Stat(e) /\ Refers(line.spec, e)
      BY <3>1, LookupTells DEF References
    <3>3. \A e \in Here : Stat(e) # NoNode BY StatsAre DEF Here
    <3> QED BY <1>5, <2>1, <3>2, <3>3
  <2>2. CASE ~IsRef(line.spec)
    <3>1. line.spec \in Devices BY <2>2, SpecIs
    <3>2. cache[line.spec] \in {NoNumber, Stat(line.spec)} BY <3>1 DEF NumbersTell
    <3>3. ~IsRef(cache[line.spec]) BY <3>1, <3>2, StatsAre
    <3>4. lookup_uuid_or_label(entries, cache[line.spec]) = NoNode BY <3>3 DEF lookup_uuid_or_label, IsRef
    <3> QED BY <1>5, <2>2, <3>3, <3>4
  <2> QED BY <2>1, <2>2
<1> HIDE DEF NodeOf, N
<1>9. \A n \in DOMAIN map : map[n] # {} BY <1>7
<1>10. ASSUME NEW r \in Refs(map)
       PROVE  /\ \A p \in Partitions : ~Refers(r, Disk(p))
              /\ \A dir \in map[r] : \E line \in Range(session.fstab) :
                   line.exists /\ line.spec = r /\ line.dir = dir
  <2>1. r \in DOMAIN map /\ IsRef(r) BY DEF Refs
  <2>2. ASSUME NEW line \in L, N(line) = r
        PROVE  line.spec = r /\ lookup_uuid_or_label(entries, r) = NoNode
    <3>1. \A e \in Here : ~IsRef(Stat(e)) BY StatsAre DEF Here
    <3> QED BY <1>8, <2>1, <2>2, <3>1
  <2>3. PICK line \in L : N(line) = r BY <1>7, <2>1
  <2>4. ASSUME NEW p \in Partitions, Refers(r, Disk(p)) PROVE FALSE
    <3>1. Disk(p) \in Here \cap Disks BY StatIs DEF Here, Devices, Disks
    <3>2. r \in References BY <2>1, <2>2, <2>3, SpecIs
    <3>3. r[1] = "label" => \A i \in DOMAIN entries : entries[i].label # Unread
      BY <2>2, <2>3 DEF LabelsWanted
    <3>4. lookup_uuid_or_label(entries, r) # NoNode BY <2>4, <3>1, <3>2, <3>3, LookupTells DEF References
    <3> QED BY <2>2, <2>3, <3>4
  <2>5. \A dir \in map[r] : \E l \in L : N(l) = r /\ l.dir = dir BY <1>7, <2>1
  <2> QED BY <2>2, <2>4, <2>5
<1>11. ASSUME NEW d \in Here, NEW line \in L, N(line) = Stat(d) PROVE line \in FstabLines(d)
  <2>1. d \in Devices /\ Present(d) /\ ~IsRef(Stat(d)) BY StatsAre DEF Here
  <2>2. CASE IsRef(line.spec)
    <3>1. PICK e \in Here : Stat(d) = Stat(e) /\ Refers(line.spec, e) BY <1>8, <1>11, <2>1, <2>2
    <3>2. e = d BY <2>1, <3>1, StatTells DEF Here
    <3> QED BY <2>1, <2>2, <3>1, <3>2, MeansIs DEF FstabLines
  <2>3. CASE ~IsRef(line.spec)
    <3>1. cache[line.spec] = Stat(d) /\ line.spec \in Devices BY <1>8, <1>11, <2>3, SpecIs
    <3>2. line.spec = d BY <1>1, <3>1 DEF NumbersAre
    <3> QED BY <2>1, <2>3, <3>2, MeansIs DEF FstabLines
  <2> QED BY <2>2, <2>3
<1>12. ASSUME NEW d \in Here, Stat(d) \in DOMAIN map
       PROVE  map[Stat(d)] \subseteq {line.dir : line \in FstabLines(d)}
  BY <1>7, <1>11, <1>12
<1>13. ASSUME NEW d \in Here, NEW line \in FstabLines(d), OnlyMeans(line, d)
       PROVE  \/ Stat(d) \in DOMAIN map /\ line.dir \in map[Stat(d)]
              \/ d \notin Disks /\ line.spec \in Refs(map)
  <2>1. line \in L /\ line \in Range(session.fstab) /\ Means(line, d) /\ d \in Devices BY DEF FstabLines, Here
  <2>2. \A n : N(line) = n => n \in DOMAIN map /\ line.dir \in map[n] BY <1>7, <2>1
  <2>3. CASE ~IsRef(line.spec)
    <3>1. line.spec = d BY <2>1, <2>3, MeansIs
    <3>2. d \in FstabNames BY <2>1, <3>1 DEF FstabNames, Here
    <3>3. N(line) = Stat(d) BY <1>1, <1>8, <2>1, <2>3, <3>1, <3>2
    <3> QED BY <2>2, <3>3
  <2>4. CASE IsRef(line.spec)
    <3>1. Refers(line.spec, d) /\ line.spec \in References BY <2>1, <2>4, MeansIs, SpecIs
    <3>2. ASSUME NEW e \in Here, N(line) = Stat(e), Refers(line.spec, e) PROVE N(line) = Stat(d)
      <4>1. Means(line, e) BY <2>1, <2>4, <3>2, MeansIs DEF Here
      <4>2. e = d BY <1>13, <4>1 DEF OnlyMeans, Here
      <4> QED BY <3>2, <4>2
    <3>3. CASE N(line) = line.spec /\ lookup_uuid_or_label(entries, line.spec) = NoNode
      <4>1. line.spec \in Refs(map) BY <2>2, <2>4, <3>3 DEF Refs
      <4>2. d \notin Disks BY <1>10, <3>1, <4>1 DEF Disks
      <4> QED BY <4>1, <4>2
    <3>4. CASE \E e \in Here : N(line) = Stat(e) /\ Refers(line.spec, e) BY <2>2, <3>2, <3>4
    <3> QED BY <1>8, <2>1, <2>4, <3>3, <3>4
  <2> QED BY <2>3, <2>4
<1> HIDE DEF L
<1>14. FstabTold(map) BY <1>9, <1>10, <1>12, <1>13 DEF FstabTold
<1> QED BY <1>14 DEF map

LEMMA RefsAre ==
    ASSUME WorldHolds, NEW map, FstabTold(map), NEW r \in Refs(map)
    PROVE  r \in References /\ \E line \in Range(session.fstab) : line.spec = r
<1>1. r \in DOMAIN map /\ IsRef(r) BY DEF Refs
<1>2. PICK line \in Range(session.fstab) : line.spec = r BY <1>1 DEF FstabTold
<1> QED BY <1>1, <1>2, SpecIs

\* The lines of a device which has mount points in the map are among those.
LEMMA LinesFound ==
    ASSUME WorldHolds, NEW map, FstabTold(map), NEW d \in Here, Stat(d) \in DOMAIN map,
           NEW line \in FstabLines(d), OnlyMeans(line, d)
    PROVE  line.dir \in map[Stat(d)]
<1>1. CASE d \in Disks BY <1>1 DEF FstabTold
<1>2. CASE d \notin Disks
  <2>1. d[1] = "crypt" BY <1>2, DevicesAre, Names DEF Here, Disks
  <2>2. FstabLines(d) = {line} BY <2>1 DEF OnlyMeans
  <2>3. map[Stat(d)] # {} /\ map[Stat(d)] \subseteq {l.dir : l \in FstabLines(d)} BY DEF FstabTold
  <2> QED BY <2>2, <2>3
<1> QED BY <1>1, <1>2

\* What find() leaves of the map: a reference tried gives its mount points to the
\* device it is to, all else stays.
LEMMA AfterIs ==
    ASSUME WorldHolds, ~changed, NEW cache, NumbersAre(cache), NumbersTell(cache), NEW entries, NEW ds,
           Lists(entries, cache, ds), EntriesTell(entries), NEW map, FstabTold(map), NEW path, path \notin DOMAIN map
    PROVE  LET after == FoundAfter(map, entries, path)
               tried == Tried(map, entries, path)
           IN  /\ \A n \in DOMAIN after :
                    \/ n \in DOMAIN map /\ after[n] = map[n]
                    \/ \E r \in Refs(map), e \in Here : n = Stat(e) /\ Refers(r, e) /\ after[n] = map[r]
               /\ \A n \in DOMAIN map : (n \in tried /\ lookup_uuid_or_label(entries, n) # NoNode) \/ n \in DOMAIN after
               /\ \A r \in tried : lookup_uuid_or_label(entries, r) # NoNode =>
                    \E e \in Here : /\ lookup_uuid_or_label(entries, r) = Stat(e) /\ Refers(r, e)
                                    /\ Stat(e) \in DOMAIN after
<1> DEFINE after == FoundAfter(map, entries, path)
           tried == Tried(map, entries, path)
           To(r) == lookup_uuid_or_label(entries, r)
           Of(n) == {r \in tried : To(r) = n}
           Latest(refs) == CHOOSE r \in refs : \A q \in refs : q = r \/ RefBefore(q, r)
           nodes == {To(r) : r \in tried} \ {NoNode}
           kept == DOMAIN map \ (tried \ Of(NoNode))
<1>1. after = [n \in kept \union nodes |-> IF n \in nodes THEN map[Latest(Of(n))] ELSE map[n]]
  BY DEF FoundAfter
<1>2. tried \subseteq Refs(map) /\ Refs(map) \subseteq DOMAIN map BY DEF Tried, Refs
<1>3. ASSUME NEW r \in tried, To(r) # NoNode PROVE \E e \in Here : To(r) = Stat(e) /\ Refers(r, e)
  <2>1. r \in References BY <1>2, RefsAre
  <2> QED BY <1>3, <2>1, LookupTells DEF References
<1> HIDE DEF tried, after, To
<1>4. ASSUME NEW n \in nodes PROVE Latest(Of(n)) \in Of(n)
  <2>1. Of(n) # {} BY <1>4
  <2>2. \A r \in Of(n) : r \in References /\ \E line \in Range(session.fstab) : line.spec = r
    BY <1>2, RefsAre
  <2> HIDE DEF Of
  <2>3. Of(n) \in SUBSET References BY <2>2
  <2>4. \E r \in Of(n) : \A q \in Of(n) : q = r \/ RefBefore(q, r) BY <2>1, <2>2, <2>3, LatestRef
  <2> QED BY <2>4
<1>5. ASSUME NEW n \in DOMAIN after
      PROVE  \/ n \in DOMAIN map /\ after[n] = map[n]
             \/ \E r \in Refs(map), e \in Here : n = Stat(e) /\ Refers(r, e) /\ after[n] = map[r]
  <2>1. CASE n \in nodes
    <3> DEFINE r == Latest(Of(n))
    <3>1. after[n] = map[r] BY <1>1, <1>5, <2>1
    <3>2. r \in tried /\ To(r) = n /\ n # NoNode BY <1>4, <2>1
    <3> HIDE DEF Latest
    <3> QED BY <1>2, <1>3, <3>1, <3>2
  <2>2. CASE n \notin nodes BY <1>1, <1>5, <2>2
  <2> QED BY <2>1, <2>2
<1>6. \A n \in DOMAIN map : (n \in tried /\ To(n) # NoNode) \/ n \in DOMAIN after BY <1>1
<1>7. \A r \in tried : To(r) # NoNode => To(r) \in DOMAIN after BY <1>1
<1>8. \A r \in tried : To(r) # NoNode =>
        \E e \in Here : To(r) = Stat(e) /\ Refers(r, e) /\ Stat(e) \in DOMAIN after
  BY <1>3, <1>7
<1> HIDE DEF Of, Latest, nodes, kept
<1> QED BY <1>5, <1>6, <1>8 DEF after, tried, To

LEMMA FoundAfterTold ==
    ASSUME WorldHolds, ~changed, NEW cache, NumbersAre(cache), NumbersTell(cache), NEW entries, NEW ds,
           Lists(entries, cache, ds), EntriesTell(entries), NEW map, FstabTold(map), NEW path
    PROVE  FstabTold(FoundAfter(map, entries, path))
<1>1. CASE path \in DOMAIN map BY <1>1 DEF FoundAfter
<1>2. CASE path \notin DOMAIN map
  <2> DEFINE after == FoundAfter(map, entries, path)
             tried == Tried(map, entries, path)
             To(r) == lookup_uuid_or_label(entries, r)
             Gone(n) == n \in tried /\ To(n) # NoNode
  <2>1. ASSUME NEW n \in DOMAIN after
        PROVE  \/ n \in DOMAIN map /\ after[n] = map[n]
               \/ \E r \in Refs(map), e \in Here : n = Stat(e) /\ Refers(r, e) /\ after[n] = map[r]
    BY <1>2, AfterIs
  <2>2. \A n \in DOMAIN map : Gone(n) \/ n \in DOMAIN after BY <1>2, AfterIs
  <2>3. ASSUME NEW n, Gone(n)
        PROVE  n \in Refs(map) /\ \E e \in Here : Refers(n, e) /\ Stat(e) \in DOMAIN after
    <3>1. \E e \in Here : Refers(n, e) /\ Stat(e) \in DOMAIN after BY <1>2, <2>3, AfterIs
    <3> QED BY <2>3, <3>1 DEF Tried
  <2> HIDE DEF after, Gone
  <2>4. \A e \in Here : e \in Devices /\ Present(e) /\ ~IsRef(Stat(e)) BY StatsAre DEF Here
  <2>5. \A e \in Here, f \in Here : Stat(e) = Stat(f) => e = f BY <2>4, StatTells
  <2>6. \A n \in DOMAIN map : map[n] # {} BY DEF FstabTold
  <2>7. \A n \in DOMAIN after : after[n] # {} BY <2>1, <2>6 DEF Refs
  <2>8. ASSUME NEW r \in Refs(after) PROVE r \in Refs(map) /\ after[r] = map[r]
    <3>1. r \in DOMAIN after /\ IsRef(r) BY DEF Refs
    <3>2. r \in DOMAIN map /\ after[r] = map[r] BY <2>1, <2>4, <3>1
    <3> QED BY <3>1, <3>2 DEF Refs
  <2>9. \A r \in Refs(after) :
          /\ \A p \in Partitions : ~Refers(r, Disk(p))
          /\ \A dir \in after[r] : \E line \in Range(session.fstab) :
               line.exists /\ line.spec = r /\ line.dir = dir
    BY <2>8 DEF FstabTold
  <2>10. ASSUME NEW d \in Here, NEW r \in Refs(map), Refers(r, d)
         PROVE  d \notin Disks /\ map[r] \subseteq {line.dir : line \in FstabLines(d)}
    <3>1. d \notin Disks BY <2>10 DEF FstabTold, Disks
    <3>2. ASSUME NEW dir \in map[r] PROVE \E line \in FstabLines(d) : line.dir = dir
      <4>1. PICK line \in Range(session.fstab) : line.exists /\ line.spec = r /\ line.dir = dir BY DEF FstabTold
      <4>2. IsRef(r) BY DEF Refs
      <4>3. Means(line, d) BY <2>4, <2>10, <4>1, <4>2, MeansIs
      <4> QED BY <4>1, <4>3 DEF FstabLines
    <3> QED BY <3>1, <3>2
  <2>11. ASSUME NEW d \in Here, Stat(d) \in DOMAIN after
         PROVE  after[Stat(d)] \subseteq {line.dir : line \in FstabLines(d)}
    <3>1. CASE Stat(d) \in DOMAIN map /\ after[Stat(d)] = map[Stat(d)] BY <3>1 DEF FstabTold
    <3>2. CASE \E r \in Refs(map), e \in Here : Stat(d) = Stat(e) /\ Refers(r, e) /\ after[Stat(d)] = map[r]
      <4>1. PICK r \in Refs(map) : Refers(r, d) /\ after[Stat(d)] = map[r] BY <2>5, <3>2
      <4> QED BY <2>10, <4>1
    <3> QED BY <2>1, <2>11, <3>1, <3>2
  <2>12. ASSUME NEW d \in Here, NEW line \in FstabLines(d), OnlyMeans(line, d)
         PROVE  \/ Stat(d) \in DOMAIN after /\ line.dir \in after[Stat(d)]
                \/ d \notin Disks /\ line.spec \in Refs(after)
    <3>1. line \in Range(session.fstab) /\ Means(line, d) BY DEF FstabLines
    <3>2. CASE Stat(d) \in DOMAIN after
      <4>1. CASE after[Stat(d)] = map[Stat(d)] /\ Stat(d) \in DOMAIN map
        BY <2>12, <3>2, <4>1, LinesFound
      <4>2. CASE \E r \in Refs(map), e \in Here : Stat(d) = Stat(e) /\ Refers(r, e) /\ after[Stat(d)] = map[r]
        <5>1. d \notin Disks BY <2>5, <2>10, <4>2
        <5>2. d[1] = "crypt" BY <2>4, <5>1, DevicesAre, Names DEF Disks
        <5>3. FstabLines(d) = {line} BY <2>12, <5>2 DEF OnlyMeans
        <5> QED BY <2>7, <2>11, <3>2, <5>3
      <4> QED BY <2>1, <3>2, <4>1, <4>2
    <3>3. CASE Stat(d) \notin DOMAIN after
      <4>1. Stat(d) \notin DOMAIN map
        <5>1. ~Gone(Stat(d)) BY <2>3, <2>4 DEF Refs
        <5> QED BY <2>2, <3>3, <5>1
      <4>2. d \notin Disks /\ line.spec \in Refs(map) BY <2>12, <4>1 DEF FstabTold
      <4>3. IsRef(line.spec) /\ line.spec \in DOMAIN map BY <4>2 DEF Refs
      <4>4. ASSUME NEW e \in Here, Refers(line.spec, e) PROVE e = d
        <5>1. Means(line, e) BY <2>4, <3>1, <4>3, <4>4, MeansIs
        <5> QED BY <2>4, <2>12, <5>1 DEF OnlyMeans
      <4>5. ~Gone(line.spec) BY <2>3, <3>3, <4>4
      <4> QED BY <2>2, <4>2, <4>3, <4>5 DEF Refs
    <3> QED BY <3>2, <3>3
  <2>13. FstabTold(after) BY <2>7, <2>9, <2>11, <2>12 DEF FstabTold
  <2> QED BY <2>13 DEF after
<1> QED BY <1>1, <1>2

\* A device is found with the mount points /etc/fstab gives it: at once, or by the
\* reference that turns out to be to it.
LEMMA FstabFound ==
    ASSUME WorldHolds, ~changed, NEW cache, NumbersAre(cache), NumbersTell(cache), NEW entries, NEW ds,
           Lists(entries, cache, ds), EntriesTell(entries), NEW map, FstabTold(map), NEW d \in Here \cap ds,
           Stat(d) \notin DOMAIN map /\ LabelsWanted(DOMAIN map) =>
               \A i \in DOMAIN entries : DeviceAt(i) = d => entries[i].label # Unread
    PROVE  /\ find(map, entries, Stat(d)) \subseteq {line.dir : line \in FstabLines(d)}
           /\ \A line \in FstabLines(d) : OnlyMeans(line, d) => line.dir \in find(map, entries, Stat(d))
<1> DEFINE path == Stat(d)
           after == FoundAfter(map, entries, path)
           tried == Tried(map, entries, path)
           To(r) == lookup_uuid_or_label(entries, r)
<1>1. find(map, entries, path) = IF path \in DOMAIN after THEN after[path] ELSE {} BY DEF find
<1>2. FstabTold(after) BY FoundAfterTold
<1>3. \A e \in Here : e \in Devices /\ Present(e) /\ ~IsRef(Stat(e)) BY StatsAre DEF Here
<1>4. ASSUME path \notin DOMAIN after, NEW line \in FstabLines(d), OnlyMeans(line, d) PROVE FALSE
  <2>1. line \in Range(session.fstab) /\ Means(line, d) BY DEF FstabLines
  <2>2. path \notin DOMAIN map
    <3>1. CASE path \in DOMAIN map BY <1>4, <3>1 DEF FoundAfter
    <3> QED BY <3>1
  <2>3. line.spec \in Refs(map) BY <1>4, <2>2 DEF FstabTold
  <2>4. line.spec \in DOMAIN map /\ IsRef(line.spec) BY <2>3 DEF Refs
  <2>5. Refers(line.spec, d) /\ line.spec \in References BY <1>3, <2>1, <2>4, MeansIs, SpecIs
  <2>6. line.spec[1] = "label" => \A i \in DOMAIN entries : DeviceAt(i) = d => entries[i].label # Unread
    BY <2>2, <2>4 DEF LabelsWanted
  <2>7. To(line.spec) # NoNode /\ \E e \in Here : To(line.spec) = Stat(e) /\ Refers(line.spec, e)
    BY <2>5, <2>6, LookupTells DEF References
  <2>8. PICK e \in Here : To(line.spec) = Stat(e) /\ Refers(line.spec, e) BY <2>7
  <2>9. Means(line, e) BY <1>3, <2>1, <2>4, <2>8, MeansIs
  <2>10. e = d BY <1>3, <1>4, <2>9 DEF OnlyMeans
  <2> DEFINE hits == {r \in Refs(map) : To(r) = path}
  <2>11. line.spec \in hits BY <2>3, <2>8, <2>10
  <2>12. hits \in SUBSET References BY RefsAre
  <2> HIDE DEF To, after, tried
  <2>13. PICK r \in hits : \A q \in hits : ~RefBefore(q, r)
    <3> HIDE DEF hits
    <3> QED BY <2>11, <2>12, EarliestRef
  <2>14. r \in tried BY <2>13 DEF tried, To, Tried
  <2>15. path # NoNode BY <1>3, StatsAre
  <2>16. To(r) = path OBVIOUS
  <2>17. path \in DOMAIN after
    <3> HIDE DEF path, hits
    <3>1. To(r) # NoNode BY <2>15, <2>16
    <3>2. \E f \in Here : To(r) = Stat(f) /\ Stat(f) \in DOMAIN after
      BY <2>2, <2>14, <3>1, AfterIs DEF after, tried, To
    <3> QED BY <2>16, <3>2
  <2> QED BY <1>4, <2>17
<1> HIDE DEF after, path
<1>5. ASSUME path \in DOMAIN after
      PROVE  /\ after[path] \subseteq {line.dir : line \in FstabLines(d)}
             /\ \A line \in FstabLines(d) : OnlyMeans(line, d) => line.dir \in after[path]
  <2>1. after[path] \subseteq {line.dir : line \in FstabLines(d)} BY <1>2, <1>5 DEF FstabTold, path
  <2>2. \A line \in FstabLines(d) : OnlyMeans(line, d) => line.dir \in after[path]
    BY <1>2, <1>5, LinesFound DEF path
  <2> QED BY <2>1, <2>2
<1>6. CASE path \in DOMAIN after
  <2>1. find(map, entries, path) = after[path] BY <1>1, <1>6
  <2> QED BY <1>5, <1>6, <2>1 DEF path
<1>7. CASE path \notin DOMAIN after
  <2>1. find(map, entries, path) = {} BY <1>1, <1>7
  <2>2. \A line \in FstabLines(d) : ~OnlyMeans(line, d) BY <1>4, <1>7
  <2> QED BY <2>1, <2>2 DEF path
<1> QED BY <1>6, <1>7

-----------------------------------------------------------------------------
(* What is shown of a device *)

\* FS_Info still tells the truth when a device has been asked about, and the label
\* of the device is read wherever it is wanted.
LEMMA AskedTells ==
    ASSUME WorldHolds, ~changed, NEW cache, NumbersAre(cache), NumbersTell(cache), NEW entries, NEW ds,
           Lists(entries, cache, ds), EntriesTell(entries), NEW fstype, NEW busy, NEW d \in Here
    PROVE  LET read == Asked(entries, fstype, busy, Stat(d)) IN
           /\ Lists(read, cache, ds) /\ EntriesTell(read)
           /\ \A i \in DOMAIN read : DeviceAt(i) = d /\ read[i].label = Unread =>
                /\ fstype = "linux-raid" \/ ReadsItself(fstype)
                /\ LooksInFstab(fstype, busy) /\ Stat(d) \notin DOMAIN fstabInfo => ~LabelsWanted(DOMAIN fstabInfo)
<1> DEFINE path == Stat(d)
           own == IF fstype = "linux-raid" \/ ReadsItself(fstype) THEN {} ELSE {path}
           all == IF LooksInFstab(fstype, busy) /\ path \notin DOMAIN fstabInfo
                     /\ LabelsWanted(DOMAIN fstabInfo)
                  THEN {e.path : e \in Range(entries)} ELSE {}
           read == run_blkid_update_cache_label(entries, own \union all, LabelsOn)
<1>1. read = Asked(entries, fstype, busy, Stat(d)) BY DEF Asked
<1>2. /\ Lists(read, cache, ds) /\ EntriesTell(read) /\ DOMAIN read = DOMAIN entries
      /\ \A i \in DOMAIN read : entries[i].path \in own \union all => read[i].label # Unread
  <2> HIDE DEF own, all
  <2> QED BY LabelsRead
<1>3. \A i \in DOMAIN entries : entries[i].path = Stat(DeviceAt(i)) /\ entries[i] \in Range(entries)
  BY EntryPaths DEF Range
<1>4. ASSUME NEW i \in DOMAIN read, DeviceAt(i) = d, read[i].label = Unread
      PROVE  /\ fstype = "linux-raid" \/ ReadsItself(fstype)
             /\ LooksInFstab(fstype, busy) /\ Stat(d) \notin DOMAIN fstabInfo => ~LabelsWanted(DOMAIN fstabInfo)
  <2>1. path \notin own /\ path \notin all BY <1>2, <1>3, <1>4
  <2>2. path \in {e.path : e \in Range(entries)} BY <1>2, <1>3, <1>4
  <2> HIDE DEF read
  <2> QED BY <2>1, <2>2
<1> HIDE DEF read
<1> QED BY <1>1, <1>2, <1>4

\* The entry of a device is its own; without one blkid does not know the device.
LEMMA EntryTells ==
    ASSUME WorldHolds, ~changed, NEW cache, NumbersAre(cache), NumbersTell(cache), NEW entries, NEW ds,
           Lists(entries, cache, ds), EntriesTell(entries), NEW d \in Here \cap ds
    PROVE  LET entry == get_cache_entry_by_path(entries, Stat(d)) IN
           \/ entry = NoEntry /\ (Installed("blkid") => IdOn(d).uuid = Without /\ IdOn(d).label = Without)
           \/ \E i \in DOMAIN entries : DeviceAt(i) = d /\ entry = entries[i]
<1> DEFINE places == {i \in DOMAIN entries : entries[i].path = Stat(d)}
           entry == get_cache_entry_by_path(entries, Stat(d))
<1>1. entry = FirstOf(entries, places) BY DEF get_cache_entry_by_path
<1>2. DOMAIN entries \in SUBSET Nat /\ \A i \in DOMAIN entries : entries[i].path = Stat(DeviceAt(i)) /\ DeviceAt(i) \in Here
  BY EntryPaths
<1>3. d \in Devices /\ Present(d) /\ \A i \in places : DeviceAt(i) = d BY <1>2, StatTells DEF Here
<1>4. CASE places = {}
  <2>1. entry = NoEntry
    <3> HIDE DEF entry, places
    <3> QED BY <1>1, <1>4 DEF FirstOf
  <2>2. ~\E i \in DOMAIN entries : DeviceAt(i) = d BY <1>2, <1>4
  <2>3. ~Installed("blkid") \/ On(d).blkid = Nothing BY <2>2, EntryPaths
  <2> QED BY <1>3, <2>1, <2>3, IdIs
<1>5. CASE places # {}
  <2>1. places \in SUBSET Nat BY <1>2
  <2>2. \E i \in places : entry = entries[i]
    <3> HIDE DEF entry, places
    <3> QED BY <1>1, <1>5, <2>1, FirstIs
  <2> QED BY <1>3, <2>2
<1> QED BY <1>4, <1>5

\* The label and the UUID are the device's own, or missing for want of a program.
Identifies(d, got) ==
    LET id == IF IsRaid(d) THEN ArrayOn(d) ELSE IdOn(d)
    IN  /\ {got.uuid, got.label} \subseteq {id.uuid, id.label, Without}
        /\ Installed("mdadm") /\ Installed("blkid") => got.uuid = id.uuid /\ got.label = id.label

LEMMA IdShown ==
    ASSUME WorldHolds, ~changed, RaidHolds, RaidTold(raid), NEW cache, NumbersAre(cache), NumbersTell(cache),
           NEW entries, NEW ds, Lists(entries, cache, ds), EntriesTell(entries), NEW d \in Here \cap ds,
           \A i \in DOMAIN entries : DeviceAt(i) = d /\ entries[i].label = Unread =>
               IsRaid(d) \/ ReadsItself(On(d).type)
    PROVE  Identifies(d, set_partition_label_and_uuid(On(d).type, d, Stat(d), entries))
<1> DEFINE got == set_partition_label_and_uuid(On(d).type, d, Stat(d), entries)
<1> SUFFICES Identifies(d, got) OBVIOUS
<1>1. d \in Devices /\ Present(d) /\ d \in Known BY DEF Here, Known
<1>2. CASE IsRaid(d) /\ is_member(Stat(d))
  <2> DEFINE m == CHOOSE x \in raid : x.member = Stat(d)
  <2>1. m \in raid /\ m.member = Stat(d) BY <1>2 DEF is_member
  <2>2. got = [uuid |-> m.uuid, label |-> m.label] BY <1>2 DEF set_partition_label_and_uuid, IsRaid
  <2>3. got.uuid = m.uuid /\ got.label = m.label BY <2>2
  <2> HIDE DEF m, got
  <2>4. /\ m.uuid = (IF Installed("mdadm") THEN ArrayOn(d).uuid ELSE Without)
        /\ m.label = (IF Installed("mdadm") THEN ArrayOn(d).label ELSE Without)
    BY <2>1 DEF RaidTold
  <2> QED BY <1>2, <2>3, <2>4 DEF Identifies
<1>3. CASE IsRaid(d) /\ ~is_member(Stat(d))
  <2>1. got = Unidentified BY <1>3 DEF set_partition_label_and_uuid, IsRaid
  <2>2. ~Installed("mdadm") BY <1>1, <1>3 DEF RaidHolds
  <2> HIDE DEF got
  <2> QED BY <1>3, <2>1, <2>2 DEF Unidentified, Identifies
<1>4. CASE ~IsRaid(d)
  <2> DEFINE entry == get_cache_entry_by_path(entries, Stat(d))
             itself == ReadsItself(On(d).type)
  <2>1. /\ got.uuid = IF entry.uuid = Without /\ itself THEN IdOn(d).uuid ELSE entry.uuid
        /\ got.label = IF itself THEN IdOn(d).label
                       ELSE IF entry.label = Unread THEN Without ELSE entry.label
    BY <1>4 DEF set_partition_label_and_uuid, LabelAndUuid, IsRaid
  <2>2. \/ entry = NoEntry /\ (Installed("blkid") => IdOn(d).uuid = Without /\ IdOn(d).label = Without)
        \/ \E i \in DOMAIN entries : DeviceAt(i) = d /\ entry = entries[i]
    BY EntryTells
  <2>3. \/ /\ entry.uuid = Without /\ entry.label = Without
           /\ Installed("blkid") => IdOn(d).uuid = Without /\ IdOn(d).label = Without
        \/ /\ entry.uuid = IdOn(d).uuid
           /\ entry.label = IdOn(d).label \/ itself
    <3>1. CASE entry = NoEntry /\ (Installed("blkid") => IdOn(d).uuid = Without /\ IdOn(d).label = Without)
      <4> HIDE DEF entry
      <4> QED BY <3>1 DEF NoEntry
    <3>2. CASE \E i \in DOMAIN entries : DeviceAt(i) = d /\ entry = entries[i]
      <4> HIDE DEF entry, itself
      <4>1. PICK i \in DOMAIN entries : DeviceAt(i) = d /\ entry = entries[i] BY <3>2
      <4>2. entry.uuid = IdOn(d).uuid /\ entry.label \in {Unread, IdOn(d).label} BY <4>1 DEF EntriesTell
      <4>3. entry.label = Unread => itself BY <1>4, <4>1 DEF itself
      <4> QED BY <4>2, <4>3
    <3> QED BY <2>2, <3>1, <3>2
  <2> HIDE DEF got, entry, itself
  <2>4. got.uuid \in {IdOn(d).uuid, Without} /\ (Installed("blkid") => got.uuid = IdOn(d).uuid)
    BY <2>1, <2>3
  <2>5. got.label \in {IdOn(d).label, Without} /\ (Installed("blkid") => got.label = IdOn(d).label)
    <3>1. IdOn(d).label # Unread BY <1>1, IdIs DEF Unread
    <3> QED BY <2>1, <2>3, <3>1 DEF Unread, Without
  <2> QED BY <1>4, <2>4, <2>5 DEF Identifies
<1> QED BY <1>2, <1>3, <1>4

\* Where a device is mounted, and whether it is read-only.
LEMMA MountsOf ==
    ASSUME WorldHolds, ~changed, MountsHold, MountsTold(mountInfo), NEW d \in Here
    PROVE  /\ d \in mounted => MountedAt(mountInfo, Stat(d)) = {MountDir(d)}
           /\ is_dev_mounted(mountInfo, Stat(d)) <=> d \in mounted
           /\ is_dev_mounted_readonly(mountInfo, Stat(d)) <=> d \in mounted /\ d \in session.readonly
<1>1. d \in Known BY DEF Here, Known
<1>2. is_dev_mounted(mountInfo, Stat(d)) <=> d \in mounted BY <1>1 DEF MountsHold
<1>3. \A m \in mountInfo : m.node = Stat(d) => m.dir = MountDir(d) /\ (m.readonly <=> d \in session.readonly)
  BY DEF MountsTold
<1>4. ASSUME d \in mounted PROVE MountedAt(mountInfo, Stat(d)) = {MountDir(d)}
  <2>1. PICK m \in mountInfo : m.node = Stat(d) BY <1>2, <1>4 DEF is_dev_mounted
  <2> QED BY <1>3, <2>1 DEF MountedAt
<1>5. is_dev_mounted_readonly(mountInfo, Stat(d)) <=> d \in mounted /\ d \in session.readonly
  BY <1>2, <1>3 DEF is_dev_mounted_readonly, is_dev_mounted
<1> QED BY <1>2, <1>4, <1>5

\* A device in use is looked for under the name it is mounted by: its own, or that
\* of the one member of its btrfs.
LEMMA SearchIs ==
    ASSUME WorldHolds, ~changed, HistoryHolds, OneMounted, MountsHold, NEW d \in Here, ~Hidden(d),
           BtrfsHolds(btrfs'), On(d).type = "btrfs" /\ Installed("btrfs") => \E e \in btrfs' : e.device = Stat(d),
           InUse(d), LooksInFstab(On(d).type, FALSE)
    PROVE  \E m \in Here \cap mounted :
             /\ SearchPath(On(d).type, Stat(d)) = Stat(m)
             /\ TrueDirs(d) = {MountDir(m)}
             /\ m = d \/ {m, d} \subseteq BtrfsMembers
             /\ \A n \in mounted : n = d \/ {n, d} \subseteq BtrfsMembers => n = m
<1>1. d \in Devices /\ Present(d) /\ Known = Here BY DEF Here, Known
<1>2. KindIsSane(On(d)) BY <1>1, OnIsSane
<1>3. CASE On(d).type # "btrfs"
  <2>1. On(d).type \notin {"lvm2 pv", "linux-raid", "bcache", "luks", "linux-swap", "jbd"} BY DEF LooksInFstab
  <2>2. On(d).use = "mount" BY <1>1, <1>2, <2>1, UsedAs DEF KindIsSane
  <2>3. d \in mounted BY <1>1, <1>3, <2>2, UsedAs
  <2>4. SearchPath(On(d).type, Stat(d)) = Stat(d) BY <1>3 DEF SearchPath
  <2>5. TrueDirs(d) = {MountDir(d)} \cap {MountDir(m) : m \in mounted} BY <1>3, <2>1 DEF TrueDirs
  <2>6. TrueDirs(d) = {MountDir(d)} BY <2>3, <2>5
  <2>7. \A n \in mounted : n = d \/ {n, d} \subseteq BtrfsMembers => n = d BY <1>3 DEF BtrfsMembers
  <2> QED BY <2>3, <2>4, <2>6, <2>7
<1>4. CASE On(d).type = "btrfs"
  <2> DEFINE from == get_mount_device(btrfs', Stat(d))
  <2>1. PICK m \in BtrfsMembers \cap mounted : TRUE BY <1>1, <1>4, UsedAs
  <2>2. \A n \in BtrfsMembers \cap mounted : n = m BY DEF OneMounted
  <2>3. d \in BtrfsMembers /\ m \in Here BY <1>1, <1>4 DEF BtrfsMembers, Here
  <2>4. \A n \in BtrfsMembers : is_dev_mounted(mountInfo, Stat(n)) <=> n = m
    <3>1. \A n \in BtrfsMembers : n \in Known BY <1>1 DEF BtrfsMembers, Here
    <3> QED BY <2>2, <3>1 DEF MountsHold
  <2>5. from = {Stat(m)}
    <3> DEFINE found == {e \in btrfs' : e.device = Stat(d)}
               members == IF ~Installed("btrfs") \/ found = {} THEN {Stat(d)} ELSE UNION {e.members : e \in found}
    <3>1. from = {n \in members : is_dev_mounted(mountInfo, n)} BY DEF get_mount_device
    <3>2. Stat(m) \in members /\ \A n \in members : \E x \in BtrfsMembers : n = Stat(x)
      <4>1. CASE ~Installed("btrfs")
        <5>1. d = m BY <1>4, <2>2, <2>3, <4>1 DEF Hidden
        <5> QED BY <2>3, <4>1, <5>1
      <4>2. CASE Installed("btrfs")
        <5>1. members = UNION {e.members : e \in found} /\ found # {} BY <1>4, <4>2
        <5>2. \A e \in found : Stat(m) \in e.members /\ e.members \subseteq {Stat(x) : x \in BtrfsMembers}
          BY <1>1, <2>3 DEF BtrfsHolds
        <5> HIDE DEF members, found
        <5> QED BY <5>1, <5>2
      <4> QED BY <4>1, <4>2
    <3> HIDE DEF from, members, found
    <3> QED BY <2>4, <3>1, <3>2
  <2>6. SearchPath("btrfs", Stat(d)) = Stat(m)
    <3>1. SearchPath("btrfs", Stat(d)) = IF from = {} THEN Stat(d) ELSE CHOOSE x \in from : TRUE BY DEF SearchPath
    <3> HIDE DEF from
    <3> QED BY <2>5, <3>1
  <2>7. TrueDirs(d) = {MountDir(x) : x \in BtrfsMembers \cap mounted} BY <1>4 DEF TrueDirs
  <2>8. TrueDirs(d) = {MountDir(m)} BY <2>2, <2>7
  <2>9. \A n \in mounted : n = d \/ {n, d} \subseteq BtrfsMembers => n = m BY <2>2, <2>3
  <2> QED BY <1>4, <2>3, <2>6, <2>8, <2>9
<1> QED BY <1>3, <1>4

LEMMA DirsShown ==
    ASSUME WorldHolds, ~changed, HistoryHolds, OneMounted, MountsHold, MountsTold(mountInfo), RaidHolds, RaidTold(raid),
           NEW d \in Here, ~Hidden(d), NEW entries,
           BtrfsHolds(btrfs'), On(d).type = "btrfs" /\ Installed("btrfs") => \E e \in btrfs' : e.device = Stat(d),
           LvmTold(lvm'), On(d).type = "lvm2 pv" => lvm'.loaded,
           LuksTold(luks'), LuksHolds(luks'), On(d).type = "luks" => luks'.loaded,
           ~LooksInFstab(On(d).type, InUse(d))
    PROVE  set_mountpoints(On(d).type, d, Stat(d), InUse(d), entries) = TrueDirs(d)
<1> DEFINE dirs == set_mountpoints(On(d).type, d, Stat(d), InUse(d), entries)
<1>1. d \in Devices /\ Present(d) /\ Known = Here BY DEF Here, Known
<1>2. CASE On(d).type = "lvm2 pv"
  <2>1. dirs = get_vg_name(lvm'.entries, Stat(d)) /\ TrueDirs(d) = {VgOn(d)} BY <1>2 DEF set_mountpoints, TrueDirs
  <2> HIDE DEF dirs
  <2>2. dirs = {VgOn(d)} BY <1>2, <2>1 DEF LvmTold
  <2> QED BY <2>1, <2>2 DEF dirs
<1>3. CASE On(d).type = "linux-raid"
  <2> DEFINE ms == {r \in raid : r.member = Stat(d)}
  <2>1. dirs = UNION {m.array : m \in ms} /\ TrueDirs(d) = (IF d \in active THEN {ArrayOn(d).path} ELSE {})
    BY <1>3 DEF set_mountpoints, TrueDirs
  <2>2. \A m \in ms : m.array = (IF d \in active THEN {ArrayOn(d).path} ELSE {}) BY DEF RaidTold
  <2>3. d \in active => ms # {}
    <3>1. d \in active => is_member_active(Stat(d)) BY <1>1, <1>3 DEF RaidHolds, IsRaid
    <3> QED BY <3>1 DEF is_member_active
  <2> HIDE DEF dirs, ms
  <2>4. dirs = TrueDirs(d)
    <3>1. CASE d \in active BY <2>1, <2>2, <2>3, <3>1
    <3>2. CASE d \notin active
      <4>1. \A m \in ms : m.array = {} BY <2>2, <3>2
      <4> QED BY <2>1, <3>2, <4>1
    <3> QED BY <3>1, <3>2
  <2> QED BY <2>4 DEF dirs
<1>4. CASE On(d).type = "bcache" BY <1>4 DEF set_mountpoints, TrueDirs
<1>5. CASE On(d).type = "luks"
  <2>1. /\ dirs = {m.name : m \in get_cache_entry(luks'.entries, Stat(d))}
        /\ TrueDirs(d) = IF d[1] = "disk" /\ mapped[d[2]] # 0 THEN {Crypt(d[2])} ELSE {}
    BY <1>5 DEF set_mountpoints, TrueDirs
  <2> HIDE DEF dirs
  <2>2. PICK p \in Partitions : d = Disk(p) \/ d = Crypt(p) BY <1>1, DevicesAre
  <2>3. CASE d = Disk(p)
    <3>1. {m.name : m \in get_cache_entry(luks'.entries, Stat(Disk(p)))} = (IF mapped[p] = 0 THEN {} ELSE {Crypt(p)})
      BY <1>5 DEF LuksTold
    <3>2. d[1] = "disk" /\ d[2] = p BY <2>3, Names
    <3>3. dirs = TrueDirs(d) BY <2>1, <2>3, <3>1, <3>2
    <3> QED BY <3>3 DEF dirs
  <2>4. CASE d = Crypt(p)
    <3>1. \A m \in luks'.entries : \E q \in Partitions : m.container = Stat(Disk(q)) BY <1>5 DEF LuksHolds
    <3>2. \A q \in Partitions : Stat(Disk(q)) # Stat(d)
      <4>1. \A q \in Partitions : Disk(q) \in Devices /\ Disk(q) # d BY <2>4, Names DEF Devices, Disks
      <4> QED BY <1>1, <4>1, StatTells
    <3>3. get_cache_entry(luks'.entries, Stat(d)) = {} BY <3>1, <3>2 DEF get_cache_entry
    <3>4. d[1] # "disk" BY <2>4, Names
    <3>5. dirs = TrueDirs(d) BY <2>1, <3>3, <3>4
    <3> QED BY <3>5 DEF dirs
  <2> QED BY <2>2, <2>3, <2>4
<1>6. CASE On(d).type \in {"linux-swap", "jbd"} BY <1>6 DEF set_mountpoints, TrueDirs
<1>7. CASE On(d).type \notin {"lvm2 pv", "linux-raid", "bcache", "luks", "linux-swap", "jbd"}
  <2>1. InUse(d) /\ LooksInFstab(On(d).type, FALSE) BY <1>7 DEF LooksInFstab
  <2>2. PICK m \in Here \cap mounted : SearchPath(On(d).type, Stat(d)) = Stat(m) /\ TrueDirs(d) = {MountDir(m)}
    BY <2>1, SearchIs
  <2>3. dirs = MountedAt(mountInfo, SearchPath(On(d).type, Stat(d))) BY <1>7 DEF set_mountpoints
  <2> HIDE DEF dirs
  <2> QED BY <2>2, <2>3, MountsOf DEF dirs
<1> QED BY <1>2, <1>3, <1>4, <1>5, <1>6, <1>7

LEMMA ReadonlyShown ==
    ASSUME WorldHolds, ~changed, HistoryHolds, OneMounted, MountsHold, MountsTold(mountInfo), NEW d \in Here, ~Hidden(d),
           BtrfsHolds(btrfs'), On(d).type = "btrfs" /\ Installed("btrfs") => \E e \in btrfs' : e.device = Stat(d)
    PROVE  IsReadonly(On(d).type, Stat(d), InUse(d)) <=>
             \E m \in mounted \cap session.readonly : /\ LooksInFstab(On(d).type, FALSE)
                                                      /\ m = d \/ {m, d} \subseteq BtrfsMembers
<1>1. d \in Devices /\ Present(d) BY DEF Here
<1>2. ASSUME InUse(d), LooksInFstab(On(d).type, FALSE)
      PROVE  is_dev_mounted_readonly(mountInfo, SearchPath(On(d).type, Stat(d))) <=>
               \E m \in mounted \cap session.readonly : m = d \/ {m, d} \subseteq BtrfsMembers
  <2>1. PICK m \in Here \cap mounted :
             /\ SearchPath(On(d).type, Stat(d)) = Stat(m)
             /\ TrueDirs(d) = {MountDir(m)}
             /\ m = d \/ {m, d} \subseteq BtrfsMembers
             /\ \A n \in mounted : n = d \/ {n, d} \subseteq BtrfsMembers => n = m
    BY <1>2, SearchIs
  <2>2. is_dev_mounted_readonly(mountInfo, Stat(m)) <=> m \in session.readonly BY MountsOf
  <2> QED BY <2>1, <2>2
<1>3. ASSUME NEW m \in mounted, m = d \/ {m, d} \subseteq BtrfsMembers PROVE InUse(d)
  <2>1. CASE m = d BY <2>1 DEF InUse
  <2>2. CASE {m, d} \subseteq BtrfsMembers BY <2>2 DEF InUse, BtrfsMembers
  <2> QED BY <1>3, <2>1, <2>2
<1>4. IsReadonly(On(d).type, Stat(d), InUse(d)) <=>
        /\ InUse(d) /\ LooksInFstab(On(d).type, FALSE)
        /\ is_dev_mounted_readonly(mountInfo, SearchPath(On(d).type, Stat(d)))
  BY DEF IsReadonly
<1> QED BY <1>2, <1>3, <1>4

\* What the scan shows of a device that is there and not hidden.
LEMMA ShownRight ==
    ASSUME WorldHolds, ~changed, HistoryHolds, OneMounted, MountsHold, MountsTold(mountInfo), RaidHolds, RaidTold(raid),
           FstabTold(fstabInfo), NEW cache, NumbersAre(cache), NumbersTell(cache),
           NEW entries, NEW ds, Lists(entries, cache, ds), EntriesTell(entries), NEW d \in Here \cap ds, ~Hidden(d),
           BtrfsHolds(btrfs'), On(d).type = "btrfs" /\ Installed("btrfs") => \E e \in btrfs' : e.device = Stat(d),
           LvmTold(lvm'), On(d).type = "lvm2 pv" => lvm'.loaded,
           LuksTold(luks'), LuksHolds(luks'), On(d).type = "luks" => luks'.loaded
    PROVE  LET fstype == On(d).type
               busy == InUse(d)
               path == Stat(d)
               read == Asked(entries, fstype, busy, path)
           IN  DetailedAs(d, Shown(fstype, busy, set_partition_label_and_uuid(fstype, d, path, read),
                                   set_mountpoints(fstype, d, path, busy, read), IsReadonly(fstype, path, busy)))
<1> DEFINE fstype == On(d).type
           busy == InUse(d)
           path == Stat(d)
           read == Asked(entries, fstype, busy, path)
           got == set_partition_label_and_uuid(fstype, d, path, read)
           dirs == set_mountpoints(fstype, d, path, busy, read)
           ro == IsReadonly(fstype, path, busy)
           shown == Shown(fstype, busy, got, dirs, ro)
           idle == LooksInFstab(fstype, busy)
<1>1. /\ Lists(read, cache, ds) /\ EntriesTell(read)
      /\ \A i \in DOMAIN read : DeviceAt(i) = d /\ read[i].label = Unread =>
           /\ fstype = "linux-raid" \/ ReadsItself(fstype)
           /\ LooksInFstab(fstype, busy) /\ path \notin DOMAIN fstabInfo => ~LabelsWanted(DOMAIN fstabInfo)
  BY AskedTells
<1> HIDE DEF read
<1>2. Identifies(d, got)
  <2>1. \A i \in DOMAIN read : DeviceAt(i) = d /\ read[i].label = Unread => IsRaid(d) \/ ReadsItself(On(d).type)
    BY <1>1 DEF IsRaid
  <2> QED BY <1>1, <2>1, IdShown
<1>3. ~idle => dirs = TrueDirs(d) BY DirsShown
<1>4. ASSUME idle
      PROVE  /\ dirs \subseteq {line.dir : line \in FstabLines(d)}
             /\ \A line \in FstabLines(d) : OnlyMeans(line, d) => line.dir \in dirs
  <2>1. fstype \notin {"lvm2 pv", "linux-raid", "bcache", "luks", "linux-swap", "jbd"} BY <1>4 DEF LooksInFstab
  <2>2. dirs = find(fstabInfo, read, path) BY <1>4, <2>1 DEF set_mountpoints
  <2>3. path \notin DOMAIN fstabInfo /\ LabelsWanted(DOMAIN fstabInfo) =>
            \A i \in DOMAIN read : DeviceAt(i) = d => read[i].label # Unread
    BY <1>1, <1>4
  <2>4. /\ find(fstabInfo, read, path) \subseteq {line.dir : line \in FstabLines(d)}
        /\ \A line \in FstabLines(d) : OnlyMeans(line, d) => line.dir \in find(fstabInfo, read, path)
    BY <1>1, <2>3, FstabFound
  <2> HIDE DEF dirs
  <2> QED BY <2>2, <2>4
<1>5. ro <=> \E m \in mounted \cap session.readonly : /\ LooksInFstab(fstype, FALSE)
                                                      /\ m = d \/ {m, d} \subseteq BtrfsMembers
  BY ReadonlyShown
<1>6. /\ shown.fstype = fstype /\ shown.busy = busy /\ shown.uuid = got.uuid /\ shown.label = got.label
      /\ shown.at = dirs /\ shown.readonly = ro
  BY DEF Shown
<1> HIDE DEF shown, got, dirs, ro, fstype, busy
<1>7. DetailedAs(d, shown) BY <1>2, <1>3, <1>4, <1>5, <1>6 DEF DetailedAs, Identifies, fstype, busy
<1> QED BY <1>7 DEF shown, got, dirs, ro, fstype, busy, read

-----------------------------------------------------------------------------
(* One device of a btrfs is mounted at a time *)

\* Unmounting, and all that leaves the devices mounted what they are.
LEMMA OneLeft ==
    ASSUME WorldHolds, OneMounted, mounted' \subseteq mounted, \A d \in mounted : On(d)' = On(d)
    PROVE  OneMounted'
<1>1. \A d \in mounted : d \in Devices /\ Present(d) BY DEF WorldHolds
<1>2. \A d \in BtrfsMembers' \cap mounted' : d \in mounted /\ On(d)'.type = "btrfs" BY DEF BtrfsMembers
<1>3. \A d \in BtrfsMembers' \cap mounted' : d \in BtrfsMembers \cap mounted BY <1>1, <1>2 DEF BtrfsMembers
<1> QED BY <1>3 DEF OneMounted

LEMMA OneMore ==
    ASSUME OneMounted, NEW d \in Devices, CanMount(d), mounted' = mounted \union {d}, UNCHANGED <<session, kind, mapped>>
    PROVE  OneMounted'
<1>1. BtrfsMembers' = BtrfsMembers BY DEF BtrfsMembers, Devices, Disks, Partitions, Present, On
<1>2. CASE On(d).type = "btrfs"
  <2>1. BtrfsMembers \cap mounted = {} BY <1>2 DEF CanMount, InUse
  <2> QED BY <1>1, <2>1 DEF OneMounted
<1>3. CASE On(d).type # "btrfs" BY <1>1, <1>3 DEF OneMounted, BtrfsMembers
<1> QED BY <1>2, <1>3

LEMMA OthersLeaveOne ==
    ASSUME WorldHolds, OneMounted, OtherPrograms
    PROVE  OneMounted'
<1>1. ASSUME NEW d \in Devices, OthersMount(d) PROVE OneMounted' BY <1>1, OneMore DEF OthersMount, Changed
<1>2. ASSUME UNCHANGED <<session, kind>>, mounted' \subseteq mounted PROVE OneMounted'
  <2>1. \A d : On(d)' = On(d) BY <1>2 DEF On
  <2> QED BY <1>2, <2>1, OneLeft
<1>3. ASSUME NEW d \in Devices, OthersUnmount(d) \/ OthersActivate(d) \/ OthersDeactivate(d) PROVE OneMounted'
  BY <1>2, <1>3 DEF OthersUnmount, OthersActivate, OthersDeactivate, Changed
<1>4. ASSUME NEW p \in Partitions, OthersOpen(p) \/ OthersClose(p) PROVE OneMounted'
  BY <1>2, <1>4 DEF OthersOpen, OthersClose, Changed
<1>5. ASSUME NEW p \in Partitions, NEW k \in session.rewrites, OthersWrite(p, k) PROVE OneMounted'
  <2>1. session' = session /\ mounted' = mounted /\ kind' = [kind EXCEPT ![p] = k] /\ Disk(p) \notin mounted
    BY <1>5 DEF OthersWrite, Changed, InUse
  <2>2. ASSUME NEW d \in mounted PROVE On(d)' = On(d)
    <3>1. PICK q \in Partitions : d = Disk(q) \/ d = Crypt(q) BY DevicesAre DEF WorldHolds
    <3>2. d[1] = "disk" => d[2] = q /\ q # p BY <2>1, <3>1, Names
    <3>3. d[1] = "disk" => kind'[d[2]] = kind[d[2]] BY <2>1, <3>2 DEF Partitions
    <3> QED BY <2>1, <3>3 DEF On
  <2> QED BY <2>1, <2>2, OneLeft
<1> QED BY <1>1, <1>3, <1>4, <1>5 DEF OtherPrograms

\* What the user does leaves the scan as it was, or starts one.
LEMMA UserStarts ==
    ASSUME UserStep
    PROVE  /\ session' = session /\ kind' = kind
           /\ UNCHANGED scanVars \/ at' = "start"
           /\ \/ mounted' \subseteq mounted
              \/ \E d \in Devices : CanMount(d) /\ mounted' = mounted \union {d} /\ mapped' = mapped
<1> DEFINE Right == /\ session' = session /\ kind' = kind
                    /\ UNCHANGED scanVars \/ at' = "start"
                    /\ \/ mounted' \subseteq mounted
                       \/ \E d \in Devices : CanMount(d) /\ mounted' = mounted \union {d} /\ mapped' = mapped
<1> SUFFICES Right OBVIOUS
<1>1. ASSUME UNCHANGED scanVars PROVE Right BY <1>1 DEF scanVars, world
<1>2. ASSUME RefreshDevices, mounted' \subseteq mounted PROVE Right BY <1>2 DEF RefreshDevices
<1>3. CASE menu_gparted_refresh_devices BY <1>2, <1>3 DEF menu_gparted_refresh_devices
<1>4. CASE CancelDialog \/ ClearQueue BY <1>1, <1>4 DEF CancelDialog, ClearQueue
<1>5. CASE ApplyQueue BY <1>2, <1>5 DEF ApplyQueue
<1>6. ASSUME NEW p \in Partitions, toggle_fs_busy_state(p) PROVE Right
  <2> DEFINE d == FilesystemOf(p)
  <2>1. d \in Devices BY DEF FilesystemOf, Devices, Disks
  <2>2. RefreshDevices /\ mapped' = mapped /\ (CommandFails \/ Unmount(d) \/ Mount(d) \/ ToggleVolumeGroup(d))
    BY <1>6 DEF toggle_fs_busy_state
  <2> HIDE DEF d
  <2>3. mounted' \subseteq mounted \/ (CanMount(d) /\ mounted' = mounted \union {d})
    <3>1. CASE CommandFails BY <3>1 DEF CommandFails
    <3>2. CASE Unmount(d) BY <3>2 DEF Unmount
    <3>3. CASE Mount(d) BY <3>3 DEF Mount
    <3>4. CASE ToggleVolumeGroup(d) BY <3>4 DEF ToggleVolumeGroup
    <3> QED BY <2>2, <3>1, <3>2, <3>3, <3>4
  <2> QED BY <2>1, <2>2, <2>3 DEF RefreshDevices
<1>7. ASSUME NEW p, NEW password, OpenWith(p, password) PROVE Right
  <2>1. CASE Opens(p, password) BY <1>2, <1>7, <2>1 DEF OpenWith
  <2>2. CASE ~Opens(p, password) BY <1>1, <1>7, <2>2 DEF OpenWith, scanVars, world
  <2> QED BY <2>1, <2>2
<1>8. ASSUME NEW p \in Partitions, CloseEncryption(p) PROVE Right BY <1>2, <1>8 DEF CloseEncryption
<1>9. ASSUME NEW p \in Partitions, OpenEncryption(p) PROVE Right BY <1>1, <1>7, <1>9 DEF OpenEncryption
<1>10. ASSUME NEW p \in Partitions, ResizeEncryption(p) PROVE Right BY <1>1, <1>10 DEF ResizeEncryption
<1>11. ASSUME NEW password, EnterToOpen(password) PROVE Right BY <1>7, <1>11 DEF EnterToOpen
<1>12. ASSUME NEW password, EnterToResize(password) PROVE Right BY <1>1, <1>12 DEF EnterToResize
<1> HIDE DEF Right
<1>13. Right
  <2>1. CASE \E p \in Partitions : toggle_fs_busy_state(p) \/ CloseEncryption(p) \/ OpenEncryption(p) \/ ResizeEncryption(p)
    BY <1>6, <1>8, <1>9, <1>10, <2>1
  <2>2. CASE \E password \in Passphrases : EnterToOpen(password) \/ EnterToResize(password) BY <1>11, <1>12, <2>2
  <2> QED BY <1>3, <1>4, <1>5, <2>1, <2>2 DEF UserStep
<1> QED BY <1>13

LEMMA UserLeavesOne ==
    ASSUME WorldHolds, OneMounted, UserStep
    PROVE  OneMounted'
<1>1. session' = session /\ kind' = kind BY UserStarts
<1>2. \A d : On(d)' = On(d) BY <1>1 DEF On
<1>3. CASE mounted' \subseteq mounted BY <1>2, <1>3, OneLeft
<1>4. CASE \E d \in Devices : CanMount(d) /\ mounted' = mounted \union {d} /\ mapped' = mapped BY <1>1, <1>4, OneMore
<1> QED BY <1>3, <1>4, UserStarts

-----------------------------------------------------------------------------
(* The steps of the scan keep the details *)

\* The details depend on what is on the devices alone.
LEMMA DetailSame ==
    ASSUME UNCHANGED world
    PROVE  /\ OneMounted' = OneMounted /\ Here' = Here
           /\ NumbersTell(numbers') => NumbersTell(numbers)'
           /\ EntriesTell(fsInfo') => EntriesTell(fsInfo)'
           /\ MountsTold(mountInfo') => MountsTold(mountInfo)'
           /\ FstabTold(fstabInfo') => FstabTold(fstabInfo)'
           /\ RaidTold(raid') => RaidTold(raid)'
           /\ LvmTold(lvm') => LvmTold(lvm)'
           /\ LuksTold(luks') => LuksTold(luks)'
           /\ \A d : DetailedAs(d, ShownOf(d)') => DetailedAs(d, ShownOf(d))'
<1>1. /\ session' = session /\ kind' = kind /\ mapped' = mapped /\ mounted' = mounted /\ active' = active
      /\ Partitions' = Partitions /\ Devices' = Devices /\ Disks' = Disks /\ BtrfsMembers' = BtrfsMembers
  BY WorldSame
<1>2. \A d : /\ On(d)' = On(d) /\ Present(d)' = Present(d) /\ Stat(d)' = Stat(d) /\ IdOn(d)' = IdOn(d)
             /\ MountDir(d)' = MountDir(d) /\ IsRaid(d)' = IsRaid(d)
  BY <1>1, WorldSame DEF IdOn, MountDir, IsRaid
<1>3. \A program : Installed(program)' = Installed(program) BY <1>1 DEF Installed
<1>4. OneMounted' = OneMounted /\ Here' = Here BY <1>1, <1>2 DEF OneMounted, Here
<1>5. \A line, d : Means(line, d)' = Means(line, d) BY <1>1, <1>2, <1>3 DEF Means
<1>6. \A line, d : FstabLines(d)' = FstabLines(d) BY <1>1, <1>5 DEF FstabLines
<1>7. \A line, d : OnlyMeans(line, d)' = OnlyMeans(line, d) BY <1>1, <1>2, <1>5, <1>6 DEF OnlyMeans
<1>8. NumbersTell(numbers') => NumbersTell(numbers)' BY <1>1, <1>2 DEF NumbersTell
<1>9. EntriesTell(fsInfo') => EntriesTell(fsInfo)'
  <2>1. \A i : DeviceAt(i)' = DeviceAt(i) BY WorldSame
  <2> QED BY <1>2, <1>4, <2>1 DEF EntriesTell
<1>10. MountsTold(mountInfo') => MountsTold(mountInfo)' BY <1>1, <1>2, <1>4 DEF MountsTold
<1>11. FstabTold(fstabInfo') => FstabTold(fstabInfo)'
  <2>1. \A ref, d : Refers(ref, d)' = Refers(ref, d) BY <1>2, <1>3 DEF Refers
  <2> QED BY <1>1, <1>2, <1>4, <1>6, <1>7, <2>1 DEF FstabTold
<1>12. RaidTold(raid') => RaidTold(raid)'
  <2>1. \A d : ArrayOn(d)' = ArrayOn(d) BY DEF ArrayOn
  <2>2. \A d : Stat(d)' = Stat(d) BY <1>2
  <2> QED BY <1>1, <1>3, <1>4, <2>1, <2>2 DEF RaidTold
<1>13. LvmTold(lvm') => LvmTold(lvm)' BY <1>2, <1>4 DEF LvmTold, VgOn
<1>14. LuksTold(luks') => LuksTold(luks)' BY <1>1, <1>2 DEF LuksTold
<1>15. ASSUME NEW d, DetailedAs(d, ShownOf(d)') PROVE DetailedAs(d, ShownOf(d))'
  <2>1. TrueDirs(d)' = TrueDirs(d) BY <1>1, <1>2 DEF TrueDirs, VgOn, ArrayOn, BcacheOn
  <2> QED BY <1>1, <1>2, <1>3, <1>6, <1>7, <1>15, <2>1 DEF DetailedAs, ArrayOn, LooksInFstab
<1> QED BY <1>4, <1>8, <1>9, <1>10, <1>11, <1>12, <1>13, <1>14, <1>15

\* Whatever comes when something has changed, or when a scan is about to start.
LEMMA DetailLost ==
    ASSUME OneMounted', changed' \/ at' = "start"
    PROVE  DetailInv'
BY DEF DetailInv, Scanning

LEMMA StartTells ==
    ASSUME ScanInv, DetailInv, Start
    PROVE  DetailInv'
<1>1. UNCHANGED world /\ numbers' = RegisterBlockSpecials(clear_cache) /\ at' = "fs" BY DEF Start
<1>2. NumbersTell(numbers') BY <1>1 DEF NumbersTell, RegisterBlockSpecials, clear_cache
<1>3. OneMounted' /\ NumbersTell(numbers)' BY <1>1, <1>2, DetailSame DEF DetailInv
<1> QED BY <1>1, <1>3 DEF DetailInv, Scanning

LEMMA LoadFsInfoTells ==
    ASSUME ScanInv, DetailInv, LoadFsInfo
    PROVE  DetailInv'
<1>1. /\ WorldHolds /\ at = "fs" /\ at' = "mounts" /\ UNCHANGED <<world, history>>
      /\ fsInfo' = BlkidEntries(numbers, Disks) /\ numbers' = numbers
  BY DEF ScanInv, LoadFsInfo
<1>2. changed' = changed /\ OneMounted' BY <1>1, DetailSame DEF history, DetailInv
<1>3. EntriesTell(fsInfo)' BY <1>1, BlkidTells, DetailSame
<1>4. ~changed => NumbersTell(numbers)' BY <1>1, DetailSame DEF DetailInv
<1> QED BY <1>1, <1>2, <1>3, <1>4 DEF DetailInv, Scanning

LEMMA LoadMountInfoTells ==
    ASSUME ScanInv, DetailInv, LoadMountInfo
    PROVE  DetailInv'
<1>1. /\ WorldHolds /\ NumbersAre(numbers) /\ Lists(fsInfo, numbers, Disks)
      /\ at = "mounts" /\ at' = "raid" /\ UNCHANGED <<world, history>> /\ lvm' = NotLoaded
  BY DEF ScanInv, ListHolds, LoadMountInfo
<1>2. /\ numbers' = Looked(numbers, mounted \union FstabNames \union {})
      /\ fsInfo' = FstabEntries(fsInfo) /\ mountInfo' = MountsRead(numbers')
      /\ fstabInfo' = FstabRead(fsInfo', numbers')
  BY DEF LoadMountInfo, LoadMounts
<1>3. changed' = changed /\ OneMounted' BY <1>1, DetailSame DEF history, DetailInv
<1>4. ASSUME ~changed
      PROVE  NumbersTell(numbers)' /\ EntriesTell(fsInfo)' /\ MountsTold(mountInfo)' /\ FstabTold(fstabInfo)' /\ LvmTold(lvm)'
  <2>1. NumbersTell(numbers) /\ EntriesTell(fsInfo) BY <1>1, <1>4 DEF DetailInv
  <2>2. NumbersTell(numbers') BY <1>2, <2>1, NumbersLooked
  <2>3. /\ NumbersAre(numbers') /\ \A d \in Devices : numbers[d] # NoNumber => numbers'[d] = numbers[d]
        /\ \A d \in FstabNames \cap Known : numbers'[d] = Stat(d)
    BY <1>1, <1>2, LookedNumbers
  <2>4. Lists(fsInfo, numbers', Disks) BY <1>1, <2>3, ListsLooked
  <2> DEFINE wanted == LabelsWanted({line.spec : line \in Range(session.fstab)})
             paths == {e.path : e \in Range(fsInfo)}
  <2>5. /\ Lists(fsInfo', numbers', Disks) /\ EntriesTell(fsInfo')
        /\ wanted => \A i \in DOMAIN fsInfo' : fsInfo'[i].label # Unread
    <3>1. CASE wanted
      <4>1. fsInfo' = run_blkid_update_cache_label(fsInfo, paths, LabelsOn) BY <1>2, <3>1 DEF FstabEntries
      <4> HIDE DEF paths
      <4>2. /\ Lists(fsInfo', numbers', Disks) /\ EntriesTell(fsInfo') /\ DOMAIN fsInfo' = DOMAIN fsInfo
            /\ \A i \in DOMAIN fsInfo' : fsInfo[i].path \in paths => fsInfo'[i].label # Unread
        BY <1>1, <1>4, <2>1, <2>2, <2>3, <2>4, <4>1, LabelsRead
      <4>3. \A i \in DOMAIN fsInfo : fsInfo[i].path \in paths BY DEF Range, paths
      <4> QED BY <4>2, <4>3
    <3>2. CASE ~wanted BY <1>2, <2>1, <2>4, <3>2 DEF FstabEntries
    <3> QED BY <3>1, <3>2
  <2>6. FstabTold(fstabInfo')
    <3> HIDE DEF wanted
    <3>1. wanted = LabelsWanted({line.spec : line \in Range(session.fstab)}) BY DEF wanted
    <3> QED BY <1>1, <1>2, <1>4, <2>2, <2>3, <2>5, <3>1, FstabReadTold
  <2>7. MountsTold(mountInfo') BY <1>1, <1>2, <1>4, <2>3, MountsReadTold
  <2>8. LvmTold(lvm') BY <1>1 DEF LvmTold, NotLoaded
  <2> QED BY <1>1, <2>2, <2>5, <2>6, <2>7, <2>8, DetailSame
<1> QED BY <1>1, <1>3, <1>4 DEF DetailInv, Scanning

LEMMA LoadSWRaidInfoTells ==
    ASSUME ScanInv, DetailInv, LoadSWRaidInfo
    PROVE  DetailInv'
<1>1. /\ WorldHolds /\ at = "raid" /\ part = 1 /\ UNCHANGED <<world, history>>
      /\ raid' = load_swraid_info_cache /\ luks' = NotLoaded /\ at' = "partition" /\ part' = part
      /\ numbers' = numbers /\ fsInfo' = fsInfo /\ mountInfo' = mountInfo /\ fstabInfo' = fstabInfo /\ lvm' = lvm
  BY DEF ScanInv, LoadSWRaidInfo, mounts
<1>2. changed' = changed /\ OneMounted' /\ Here' = Here BY <1>1, DetailSame DEF history, DetailInv
<1>3. ~changed => /\ NumbersTell(numbers)' /\ EntriesTell(fsInfo)' /\ MountsTold(mountInfo)'
                  /\ FstabTold(fstabInfo)' /\ LvmTold(lvm)'
  BY <1>1, DetailSame DEF DetailInv
<1>4. RaidTold(raid)' BY <1>1, RaidReadTold, DetailSame
<1>5. LuksTold(luks)'
  <2>1. LuksTold(luks') BY <1>1 DEF LuksTold, NotLoaded
  <2> QED BY <1>1, <2>1, DetailSame
<1>6. \A d \in Devices : ~(d[2] < 1) BY <1>1, DevicesAre, Names, SessionFacts
<1>7. \A d \in Here' : ~Passed(d)' BY <1>1, <1>2, <1>6 DEF Passed, Here
<1>8. DetailsHold' BY <1>7 DEF DetailsHold
<1> QED BY <1>1, <1>2, <1>3, <1>4, <1>5, <1>8 DEF DetailInv, Scanning

LEMMA DetailStutters ==
    ASSUME DetailInv, UNCHANGED scanVars
    PROVE  DetailInv'
<1>1. /\ UNCHANGED world /\ changed' = changed /\ numbers' = numbers /\ fsInfo' = fsInfo /\ mountInfo' = mountInfo
      /\ fstabInfo' = fstabInfo /\ raid' = raid /\ lvm' = lvm /\ luks' = luks
      /\ at' = at /\ part' = part /\ picture' = picture
  BY DEF scanVars, caches, mounts, thread, history
<1>2. OneMounted' /\ Here' = Here BY <1>1, DetailSame DEF DetailInv
<1>3. /\ NumbersTell(numbers) => NumbersTell(numbers)'
      /\ EntriesTell(fsInfo) => EntriesTell(fsInfo)'
      /\ MountsTold(mountInfo) => MountsTold(mountInfo)'
      /\ FstabTold(fstabInfo) => FstabTold(fstabInfo)'
      /\ RaidTold(raid) => RaidTold(raid)'
      /\ LvmTold(lvm) => LvmTold(lvm)'
      /\ LuksTold(luks) => LuksTold(luks)'
  BY <1>1, DetailSame
<1>4. DetailsHold => DetailsHold'
  <2>1. \A d : /\ ShownOf(d)' = ShownOf(d) /\ Passed(d)' = Passed(d) /\ Hidden(d)' = Hidden(d)
               /\ DetailedAs(d, ShownOf(d)) => DetailedAs(d, ShownOf(d))'
    BY <1>1, WorldSame, DetailSame DEF ShownOf, Passed
  <2> QED BY <1>2, <2>1 DEF DetailsHold
<1>5. Scanning' <=> Scanning BY <1>1 DEF Scanning
<1> QED BY <1>1, <1>2, <1>3, <1>4, <1>5 DEF DetailInv

LEMMA ScanPartitionTells ==
    ASSUME ScanInv, DetailInv, ScanPartition
    PROVE  DetailInv'
<1> DEFINE d == Disk(part)
           fstype == detect_filesystem(fsInfo, d, numbers[d])
           busy == is_busy(fstype, d, numbers'[d], btrfs', luks'.entries, lvm'.entries)
           read == Asked(fsInfo, fstype, busy, numbers'[d])
           shown == Shown(fstype, busy, set_partition_label_and_uuid(fstype, d, numbers'[d], read),
                          set_mountpoints(fstype, d, numbers'[d], busy, read),
                          IsReadonly(fstype, numbers'[d], busy))
<1>1. /\ WorldHolds /\ ThreadHolds /\ HistoryHolds /\ NumbersAre(numbers) /\ Lists(fsInfo, numbers, Disks)
      /\ MountsHold /\ BtrfsHolds(btrfs) /\ LvmHolds(lvm) /\ RaidHolds /\ LuksHolds(luks)
      /\ at = "partition" /\ UNCHANGED <<world, history>>
  BY DEF ScanInv, ScanPartition, Scanning, ListHolds
<1>2. changed' = changed /\ OneMounted /\ OneMounted' /\ Here' = Here BY <1>1, DetailSame DEF history, DetailInv
<1> SUFFICES ASSUME ~changed PROVE DetailInv' BY <1>2, DetailLost
<1>3. /\ NumbersTell(numbers) /\ EntriesTell(fsInfo) /\ MountsTold(mountInfo) /\ FstabTold(fstabInfo)
      /\ LvmTold(lvm) /\ RaidTold(raid) /\ LuksTold(luks) /\ DetailsHold
  BY <1>1 DEF DetailInv, Scanning
<1>4. /\ part \in Partitions /\ d \in Here \cap Disks /\ d \in Devices /\ Present(d) /\ numbers[d] = Stat(d)
      /\ d[1] = "disk" /\ d[2] = part /\ Known = Here
  BY <1>1, StatIs, Names DEF ThreadHolds, NumbersAre, Devices, Disks, Here, Known
<1>5. /\ numbers' = Looked(numbers, Named(fstype, d))
      /\ LoadDriverCaches(fstype, d, numbers')
      /\ ShowDevice(d, fstype, numbers'[d], busy, fsInfo)
      /\ IF fstype = "luks" /\ busy THEN at' = "luks" /\ part' = part ELSE NextPartition
      /\ mountInfo' = mountInfo /\ raid' = raid
  BY DEF ScanPartition
<1>6. /\ fsInfo' = read
      /\ fstabInfo' = IF LooksInFstab(fstype, busy) THEN FoundAfter(fstabInfo, read, numbers'[d]) ELSE fstabInfo
      /\ picture' = [picture EXCEPT ![part] = [shown |-> shown, crypt |-> NoCrypt]]
  <2>1. /\ fsInfo' = read
        /\ fstabInfo' = IF LooksInFstab(fstype, busy) THEN FoundAfter(fstabInfo, read, numbers'[d]) ELSE fstabInfo
        /\ picture' = IF d[1] = "disk" THEN [picture EXCEPT ![d[2]] = [shown |-> shown, crypt |-> NoCrypt]]
                      ELSE [picture EXCEPT ![d[2]].crypt = shown]
    BY <1>5, Zenon DEF ShowDevice
  <2> HIDE DEF d, shown, read, fstype, busy
  <2> QED BY <1>4, <2>1
<1> HIDE DEF shown, read, busy, fstype, d
<1>7. /\ NumbersAre(numbers') /\ \A e \in Devices : numbers[e] # NoNumber => numbers'[e] = numbers[e]
      /\ \A e \in Named(fstype, d) \cap Known : numbers'[e] = Stat(e)
      /\ numbers'[d] = Stat(d)
  BY <1>1, <1>4, <1>5, NamedNumbers
<1>8. NumbersTell(numbers') BY <1>3, <1>5, NumbersLooked
<1>9. Lists(fsInfo, numbers', Disks) BY <1>1, <1>7, ListsLooked
<1>10. /\ BtrfsHolds(btrfs') /\ LuksHolds(luks')
       /\ fstype = "lvm2 pv" => lvm'.loaded
       /\ fstype = "luks" => luks'.loaded
       /\ fstype = "btrfs" /\ Installed("btrfs") /\ On(d).type = "btrfs" => \E e \in btrfs' : e.device = Stat(d)
  <2>1. /\ BtrfsHolds(btrfs') /\ LvmHolds(lvm') /\ LuksHolds(luks')
        /\ fstype = "lvm2 pv" => lvm'.loaded
        /\ fstype = "luks" => luks'.loaded
        /\ luks.loaded => luks' = luks
        /\ fstype = "btrfs" /\ Installed("btrfs") /\ On(d).type = "btrfs" /\ Present(d) =>
             \E e \in btrfs' : e.device = numbers'[d]
    <3>1. /\ WorldHolds /\ HistoryHolds /\ d \in Devices /\ BtrfsHolds(btrfs) /\ LvmHolds(lvm) /\ LuksHolds(luks)
          /\ NumbersAre(numbers') /\ \A e \in Named(fstype, d) \cap Known : numbers'[e] = Stat(e)
          /\ LoadDriverCaches(fstype, d, numbers')
      BY <1>1, <1>4, <1>5, <1>7
    <3> QED BY <3>1, DriversTell
  <2> QED BY <1>4, <1>7, <2>1
<1>11. LvmTold(lvm') /\ LuksTold(luks') BY <1>1, <1>3, <1>4, <1>5, <1>7, DriversTold
<1>12. Lists(fsInfo', numbers', Disks) /\ EntriesTell(fsInfo')
  BY <1>1, <1>3, <1>4, <1>6, <1>7, <1>8, <1>9, AskedTells DEF read
<1>13. FstabTold(fstabInfo') BY <1>1, <1>3, <1>6, <1>7, <1>8, <1>12, FoundAfterTold
<1>14. ASSUME ~Hidden(d) PROVE fstype = On(d).type /\ busy = InUse(d)
  <2>1. fstype = detect_filesystem(fsInfo, d, Stat(d)) BY <1>4 DEF fstype
  <2>2. busy = is_busy(fstype, d, Stat(d), btrfs', luks'.entries, lvm'.entries) BY <1>7 DEF busy
  <2>3. fstype = On(d).type /\ RightUse(d, busy)
    BY <1>1, <1>4, <1>5, <1>7, <1>14, <2>1, <2>2, AskedRight
  <2> QED BY <2>3 DEF RightUse
<1>15. ~Hidden(d) => DetailedAs(d, shown)
  <2> SUFFICES ASSUME ~Hidden(d) PROVE DetailedAs(d, shown) OBVIOUS
  <2>1. fstype = On(d).type /\ busy = InUse(d) BY <1>14
  <2>2. /\ On(d).type = "btrfs" /\ Installed("btrfs") => \E e \in btrfs' : e.device = Stat(d)
        /\ On(d).type = "lvm2 pv" => lvm'.loaded
        /\ On(d).type = "luks" => luks'.loaded
    BY <1>10, <2>1
  <2>3. LET type == On(d).type
            inUse_ == InUse(d)
            path == Stat(d)
            asked == Asked(fsInfo, type, inUse_, path)
        IN  DetailedAs(d, Shown(type, inUse_, set_partition_label_and_uuid(type, d, path, asked),
                                set_mountpoints(type, d, path, inUse_, asked), IsReadonly(type, path, inUse_)))
    BY <1>1, <1>2, <1>3, <1>4, <1>7, <1>8, <1>9, <1>10, <1>11, <2>2, ShownRight
  <2> QED BY <1>7, <2>1, <2>3 DEF shown, read
<1>16. Crypt(part) \in Here => fstype = "luks" /\ busy
  <2> SUFFICES ASSUME Crypt(part) \in Here PROVE fstype = "luks" /\ busy OBVIOUS
  <2>1. mapped[part] # 0 BY Names DEF Here, Present
  <2>2. On(d).type = "luks" /\ InUse(d) BY <1>1, <1>4, <2>1, UsedAs DEF InUse
  <2> QED BY <1>14, <2>2 DEF Hidden, IsRaid
<1>17. /\ picture'[part].shown = shown
       /\ \A p \in Partitions : p # part => picture'[p] = picture[p]
  <2>1. picture = [p \in Partitions |-> picture[p]]
    <3>1. picture = [p \in Partitions |-> [shown |-> picture[p].shown, crypt |-> picture[p].crypt]]
      BY <1>1 DEF ThreadHolds
    <3> QED BY <3>1
  <2> QED BY <1>4, <1>6, <2>1
<1>18. ASSUME NEW e \in Here, Passed(e)', ~Hidden(e) PROVE DetailedAs(e, ShownOf(e)')
  <2>1. e \in Devices BY <1>18 DEF Here
  <2>2. PICK q \in Partitions : e = Disk(q) \/ e = Crypt(q) BY <2>1, DevicesAre
  <2>3. CASE e = d BY <1>4, <1>15, <1>17, <1>18, <2>3 DEF ShownOf
  <2>4. CASE e = Crypt(part)
    <3>1. at' = "luks" /\ part' = part BY <1>5, <1>16, <1>18, <2>4
    <3>2. ~(part < part) BY <1>1, <1>4, SessionFacts
    <3> QED BY <1>18, <2>4, <3>1, <3>2, Names DEF Passed
  <2>5. CASE e # d /\ e # Crypt(part)
    <3>1. e[2] = q /\ q # part BY <2>2, <2>5, Names DEF d
    <3>2. q < part
      <4>1. CASE fstype = "luks" /\ busy BY <1>4, <1>5, <1>18, <2>5, <3>1, <4>1 DEF Passed, d
      <4>2. CASE ~(fstype = "luks" /\ busy)
        <5>1. NextPartition BY <1>5, <4>2
        <5>2. q <= part BY <1>1, <1>18, <2>1, <3>1, <5>1, Step DEF Passed
        <5> QED BY <1>1, <1>4, <3>1, <5>2, SessionFacts
      <4> QED BY <4>1, <4>2
    <3>3. DetailedAs(e, ShownOf(e)) BY <1>3, <1>18, <3>1, <3>2 DEF DetailsHold, Passed
    <3>4. ShownOf(e)' = ShownOf(e) BY <1>17, <3>1 DEF ShownOf
    <3> QED BY <3>3, <3>4
  <2> QED BY <2>3, <2>4, <2>5
<1>19. DetailsHold'
  <2>1. \A e : Hidden(e)' = Hidden(e) BY <1>1, WorldSame
  <2>2. \A e : DetailedAs(e, ShownOf(e)') => DetailedAs(e, ShownOf(e))' BY <1>1, DetailSame
  <2> QED BY <1>2, <1>18, <2>1, <2>2 DEF DetailsHold
<1>20. /\ NumbersTell(numbers)' /\ EntriesTell(fsInfo)' /\ MountsTold(mountInfo)' /\ FstabTold(fstabInfo)'
       /\ RaidTold(raid)' /\ LvmTold(lvm)' /\ LuksTold(luks)'
  BY <1>1, <1>3, <1>5, <1>8, <1>11, <1>12, <1>13, DetailSame
<1> QED BY <1>2, <1>19, <1>20 DEF DetailInv

LEMMA ScanMappingTells ==
    ASSUME ScanInv, DetailInv, ScanMapping
    PROVE  DetailInv'
<1> DEFINE d == Crypt(part)
           cache == Looked(numbers, {d})
           more == BlkidEntries(cache, {d})
           entries == With(fsInfo, more)
           fstype == IF Present(d) THEN detect_filesystem(entries, d, cache[d]) ELSE "unknown"
           busy == is_busy(fstype, d, cache[d], btrfs', luks'.entries, lvm'.entries)
           read == Asked(entries, fstype, busy, cache[d])
           shown == Shown(fstype, busy, set_partition_label_and_uuid(fstype, d, cache[d], read),
                          set_mountpoints(fstype, d, cache[d], busy, read),
                          IsReadonly(fstype, cache[d], busy))
<1>1. /\ WorldHolds /\ ThreadHolds /\ HistoryHolds /\ NumbersAre(numbers) /\ Lists(fsInfo, numbers, Disks)
      /\ MountsHold /\ BtrfsHolds(btrfs) /\ LvmHolds(lvm) /\ RaidHolds /\ LuksHolds(luks) /\ PictureHolds
      /\ at = "luks" /\ UNCHANGED <<world, history>>
  BY DEF ScanInv, ScanMapping, Scanning, ListHolds
<1>2. changed' = changed /\ OneMounted /\ OneMounted' /\ Here' = Here BY <1>1, DetailSame DEF history, DetailInv
<1> SUFFICES ASSUME ~changed PROVE DetailInv' BY <1>2, DetailLost
<1>3. /\ NumbersTell(numbers) /\ EntriesTell(fsInfo) /\ MountsTold(mountInfo) /\ FstabTold(fstabInfo)
      /\ LvmTold(lvm) /\ RaidTold(raid) /\ LuksTold(luks) /\ DetailsHold
  BY <1>1 DEF DetailInv, Scanning
<1>4. /\ part \in Partitions /\ d \in Devices /\ Present(d) /\ d \in Here /\ d \in Known
      /\ d[1] # "disk" /\ d[2] = part /\ Known = Here
  BY <1>1, Names DEF ThreadHolds, PictureHolds, Devices, Disks, Here, Known, Present
<1>5. /\ numbers' = Looked(cache, Named(fstype, d))
      /\ LoadDriverCaches(fstype, d, numbers')
      /\ ShowDevice(d, fstype, cache[d], busy, entries)
      /\ NextPartition
      /\ mountInfo' = mountInfo /\ raid' = raid
  BY DEF ScanMapping
<1>6. /\ fsInfo' = read
      /\ fstabInfo' = IF LooksInFstab(fstype, busy) THEN FoundAfter(fstabInfo, read, cache[d]) ELSE fstabInfo
      /\ picture' = [picture EXCEPT ![part].crypt = shown]
  <2>1. /\ fsInfo' = read
        /\ fstabInfo' = IF LooksInFstab(fstype, busy) THEN FoundAfter(fstabInfo, read, cache[d]) ELSE fstabInfo
        /\ picture' = IF d[1] = "disk" THEN [picture EXCEPT ![d[2]] = [shown |-> shown, crypt |-> NoCrypt]]
                      ELSE [picture EXCEPT ![d[2]].crypt = shown]
    BY <1>5, Zenon DEF ShowDevice
  <2> HIDE DEF d, shown, read, fstype, busy, entries, cache
  <2> QED BY <1>4, <2>1
<1>7. NumbersAre(cache) /\ cache[d] = Stat(d) /\ cache[d] # NoNumber BY <1>1, <1>4, LookedNumbers
<1>8. \A e \in Devices : numbers[e] # NoNumber => cache[e] = numbers[e] BY <1>1, LookedNumbers
<1>9. NumbersTell(cache) BY <1>3, NumbersLooked
<1> HIDE DEF cache
<1>10. Lists(entries, cache, Disks \union {d}) /\ EntriesTell(entries)
  <2>1. Lists(fsInfo, cache, Disks) BY <1>1, <1>8, ListsLooked
  <2>2. \A e \in {d} \cap Devices : cache[e] # NoNumber BY <1>7
  <2> HIDE DEF d
  <2>3. Lists(more, cache, {d}) /\ EntriesTell(more) BY <1>1, <2>2, BlkidLists, BlkidTells
  <2> HIDE DEF more
  <2> QED BY <1>3, <2>1, <2>3, WithLists, WithTells
<1> HIDE DEF shown, read, busy, fstype, entries, more, d
<1>11. /\ NumbersAre(numbers') /\ \A e \in Devices : cache[e] # NoNumber => numbers'[e] = cache[e]
       /\ \A e \in Named(fstype, d) \cap Known : numbers'[e] = Stat(e)
       /\ numbers'[d] = Stat(d)
  BY <1>1, <1>4, <1>5, <1>7, NamedNumbers
<1>12. NumbersTell(numbers') BY <1>5, <1>9, NumbersLooked
<1>13. Lists(entries, numbers', Disks \union {d}) BY <1>1, <1>10, <1>11, ListsLooked
<1>14. /\ BtrfsHolds(btrfs') /\ LvmHolds(lvm') /\ LuksHolds(luks')
       /\ fstype = "lvm2 pv" => lvm'.loaded
       /\ fstype = "luks" => luks'.loaded
       /\ luks.loaded => luks' = luks
       /\ fstype = "btrfs" /\ Installed("btrfs") /\ On(d).type = "btrfs" /\ Present(d) =>
            \E e \in btrfs' : e.device = numbers'[d]
  <2>1. /\ WorldHolds /\ HistoryHolds /\ d \in Devices /\ BtrfsHolds(btrfs) /\ LvmHolds(lvm) /\ LuksHolds(luks)
        /\ NumbersAre(numbers') /\ \A e \in Named(fstype, d) \cap Known : numbers'[e] = Stat(e)
        /\ LoadDriverCaches(fstype, d, numbers')
    BY <1>1, <1>4, <1>5, <1>11
  <2> QED BY <2>1, DriversTell
<1>15. LvmTold(lvm') /\ LuksTold(luks') BY <1>1, <1>3, <1>4, <1>5, <1>11, DriversTold
<1>16. Lists(fsInfo', numbers', Disks \union {d}) /\ EntriesTell(fsInfo')
  BY <1>1, <1>4, <1>6, <1>7, <1>10, <1>11, <1>12, <1>13, AskedTells DEF read
<1>17. FstabTold(fstabInfo') BY <1>1, <1>3, <1>6, <1>11, <1>12, <1>16, FoundAfterTold
<1>18. ~Hidden(d) => DetailedAs(d, shown)
  <2> SUFFICES ASSUME ~Hidden(d) PROVE DetailedAs(d, shown) OBVIOUS
  <2>1. fstype = detect_filesystem(entries, d, Stat(d)) BY <1>4, <1>7 DEF fstype
  <2>2. busy = is_busy(fstype, d, Stat(d), btrfs', luks'.entries, lvm'.entries) BY <1>7 DEF busy
  <2>3. fstype = On(d).type /\ RightUse(d, busy)
    <3>1. /\ WorldHolds /\ HistoryHolds /\ MountsHold /\ RaidHolds /\ NumbersAre(cache) /\ NumbersAre(numbers')
          /\ Lists(entries, cache, Disks \union {d}) /\ d \in Known \cap (Disks \union {d})
          /\ cache[d] = Stat(d) /\ numbers'[d] = Stat(d)
          /\ BtrfsHolds(btrfs) /\ LvmHolds(lvm) /\ LuksHolds(luks)
          /\ \A e \in Named(fstype, d) \cap Known : numbers'[e] = Stat(e)
          /\ LoadDriverCaches(fstype, d, numbers')
      BY <1>1, <1>4, <1>5, <1>7, <1>10, <1>11
    <3> QED BY <2>1, <2>2, <3>1, AskedRight
  <2>4. fstype = On(d).type /\ busy = InUse(d) BY <2>3 DEF RightUse
  <2>5. LET type == On(d).type
            inUse_ == InUse(d)
            path == Stat(d)
            asked == Asked(entries, type, inUse_, path)
        IN  DetailedAs(d, Shown(type, inUse_, set_partition_label_and_uuid(type, d, path, asked),
                                set_mountpoints(type, d, path, inUse_, asked), IsReadonly(type, path, inUse_)))
    <3>1. /\ On(d).type = "btrfs" /\ Installed("btrfs") => \E e \in btrfs' : e.device = Stat(d)
          /\ On(d).type = "lvm2 pv" => lvm'.loaded
          /\ On(d).type = "luks" => luks'.loaded
      BY <1>4, <1>11, <1>14, <2>4
    <3>2. d \in Here \cap (Disks \union {d}) BY <1>4
    <3>3. /\ WorldHolds /\ HistoryHolds /\ OneMounted /\ MountsHold /\ MountsTold(mountInfo) /\ RaidHolds
          /\ RaidTold(raid) /\ FstabTold(fstabInfo) /\ NumbersAre(numbers') /\ NumbersTell(numbers')
          /\ Lists(entries, numbers', Disks \union {d}) /\ EntriesTell(entries)
          /\ BtrfsHolds(btrfs') /\ LvmTold(lvm') /\ LuksTold(luks') /\ LuksHolds(luks')
      BY <1>1, <1>2, <1>3, <1>10, <1>11, <1>12, <1>13, <1>14, <1>15
    <3> QED BY <3>1, <3>2, <3>3, ShownRight
  <2> QED BY <1>7, <2>4, <2>5 DEF shown, read
<1>19. /\ \A p \in Partitions : picture'[p].shown = picture[p].shown
       /\ \A p \in Partitions : p # part => picture'[p].crypt = picture[p].crypt
       /\ picture'[part].crypt = shown
  <2>1. picture = [p \in Partitions |-> [shown |-> picture[p].shown, crypt |-> picture[p].crypt]]
    BY <1>1 DEF ThreadHolds
  <2>2. picture[part] = [shown |-> picture[part].shown, crypt |-> picture[part].crypt] BY <1>4, <2>1
  <2>3. [picture[part] EXCEPT !.crypt = shown] = [shown |-> picture[part].shown, crypt |-> shown] BY <2>2
  <2>4. picture' = [p \in Partitions |-> IF p = part THEN [shown |-> picture[part].shown, crypt |-> shown]
                                         ELSE picture[p]]
    BY <1>6, <2>1, <2>3
  <2> QED BY <1>4, <2>1, <2>4
<1>20. ASSUME NEW e \in Here, Passed(e)', ~Hidden(e) PROVE DetailedAs(e, ShownOf(e)')
  <2>1. e \in Devices BY <1>20 DEF Here
  <2>2. PICK q \in Partitions : e = Disk(q) \/ e = Crypt(q) BY <2>1, DevicesAre
  <2>3. CASE e = d
    <3>1. ShownOf(e)' = shown BY <1>19, <2>3, Names DEF ShownOf, d
    <3>2. DetailedAs(d, shown) BY <1>18, <1>20, <2>3
    <3> QED BY <2>3, <3>1, <3>2
  <2>4. CASE e # d
    <3>1. e[2] = q /\ (e[1] = "crypt" => q # part) BY <2>2, <2>4, Names DEF d
    <3>2. q <= part BY <1>1, <1>5, <1>20, <2>1, <3>1, Step DEF Passed
    <3>3. q < part \/ e = Disk(part) BY <1>1, <1>4, <2>2, <3>1, <3>2, Names, SessionFacts
    <3>4. DetailedAs(e, ShownOf(e)) BY <1>1, <1>3, <1>20, <3>1, <3>3 DEF DetailsHold, Passed
    <3>5. ShownOf(e)' = ShownOf(e) BY <1>19, <3>1 DEF ShownOf
    <3> QED BY <3>4, <3>5
  <2> QED BY <2>3, <2>4
<1>21. DetailsHold'
  <2>1. \A e : Hidden(e)' = Hidden(e) BY <1>1, WorldSame
  <2>2. \A e : DetailedAs(e, ShownOf(e)') => DetailedAs(e, ShownOf(e))' BY <1>1, DetailSame
  <2> QED BY <1>2, <1>20, <2>1, <2>2 DEF DetailsHold
<1>22. /\ NumbersTell(numbers)' /\ EntriesTell(fsInfo)' /\ MountsTold(mountInfo)' /\ FstabTold(fstabInfo)'
       /\ RaidTold(raid)' /\ LvmTold(lvm)' /\ LuksTold(luks)'
  BY <1>1, <1>3, <1>5, <1>12, <1>15, <1>16, <1>17, DetailSame
<1> QED BY <1>2, <1>21, <1>22 DEF DetailInv

LEMMA ScanStepTells ==
    ASSUME ScanInv, DetailInv, ScanStep
    PROVE  DetailInv'
BY StartTells, LoadFsInfoTells, LoadMountInfoTells, LoadSWRaidInfoTells, ScanPartitionTells, ScanMappingTells DEF ScanStep

LEMMA DetailNext ==
    ASSUME ScanInv, DetailInv, [Next]_vars
    PROVE  DetailInv'
<1>1. WorldHolds /\ OneMounted BY DEF ScanInv, DetailInv
<1>2. CASE ScanStep BY <1>2, ScanStepTells
<1>3. CASE OtherPrograms
  <2>1. changed' = TRUE
    BY <1>3 DEF OtherPrograms, OthersMount, OthersUnmount, OthersActivate, OthersDeactivate,
                OthersOpen, OthersClose, OthersWrite, Changed
  <2> QED BY <1>1, <1>3, <2>1, OthersLeaveOne, DetailLost
<1>4. CASE UserStep
  <2>1. OneMounted' BY <1>1, <1>4, UserLeavesOne
  <2>2. CASE UNCHANGED scanVars BY <2>2, DetailStutters
  <2>3. CASE at' = "start" BY <2>1, <2>3, DetailLost
  <2> QED BY <1>4, <2>2, <2>3, UserStarts
<1>5. CASE UNCHANGED vars BY <1>5, DetailStutters DEF vars, scanVars
<1> QED BY <1>2, <1>3, <1>4, <1>5 DEF Next

LEMMA DetailStarts ==
    ASSUME Init
    PROVE  DetailInv
<1>1. \A m, n \in mounted : m = n BY DEF Init, ScanInit
<1>2. at = "start" BY DEF Init, ScanInit
<1> QED BY <1>1, <1>2 DEF DetailInv, OneMounted, Scanning

\* A scan nobody disturbed shows of every device that is there, and that no missing
\* program hides, the label, the UUID, the mount points and whether it is mounted
\* read-only as they are: GParted_Core::set_mountpoints (GParted_Core.cc:1468),
\* set_partition_label_and_uuid (:1014) and Mount_Info::find (Mount_Info.cc:263),
\* which resolves the lines of /etc/fstab one look at a time.
THEOREM AlwaysTrueDetails == Spec => []DetailsAreTrue
<1> DEFINE Kept == ScanInv /\ DialogIs /\ DetailInv
<1>1. Init => Kept BY ScanStarts, DetailStarts
<1>2. Kept /\ [Next]_vars => Kept' BY NextKeeps, DetailNext
<1>3. Kept => DetailsAreTrue
  <2> SUFFICES ASSUME Kept, Idle, ~changed, NEW d \in Devices, Present(d), ~Hidden(d)
               PROVE  DetailedAs(d, ShownOf(d))
    BY DEF DetailsAreTrue
  <2>1. d \in Here /\ Passed(d) /\ DetailsHold BY DEF Here, Passed, Idle, DetailInv, Scanning
  <2> QED BY <2>1 DEF DetailsHold
<1> HIDE DEF Kept
<1> QED BY <1>1, <1>2, <1>3, PTL DEF Spec

-----------------------------------------------------------------------------
(* Passphrases *)

\* Every passphrase kept fits into the block of memory.  PWStore::insert() takes
\* the space in use for the space left, so it does not see to this itself.
MemorySuffices ==
    \A i \in DOMAIN store.entries : store.entries[i].password + store.entries[i].len < ProtectedMemSize

\* An entry within the block has its passphrase there, and the 0 after it.
Whole(memory, e) ==
    e.password + e.len < ProtectedMemSize =>
        /\ \A k \in 1 .. e.len : memory[e.password + k - 1] = e.key
        /\ memory[e.password + e.len] = 0

PWEntry == [key : Partitions, password : Nat, len : Nat]

StoreHolds(s) ==
    /\ DOMAIN s.memory = 0 .. (ProtectedMemSize - 1)
    /\ s.entries \in Seq(PWEntry)
    /\ \A i \in 1 .. Len(s.entries) : s.entries[i].len = Count + 1 - s.entries[i].key /\ Whole(s.memory, s.entries[i])
    /\ \A i, j \in 1 .. Len(s.entries) : s.entries[i].key = s.entries[j].key => i = j
    /\ \A i, j \in 1 .. Len(s.entries) :
         i < j => s.entries[i].password + s.entries[i].len < s.entries[j].password

Stored(s, p) == \E i \in 1 .. Len(s.entries) : s.entries[i].key = p

\* A resize is queued with its passphrase kept, and nothing forgets that while
\* it is queued.
QueueHolds ==
    /\ dialog.for = "open" => dialog.part \notin queued
    /\ queued \subseteq Partitions
    /\ \A p \in queued : p \in session.keyRing => Stored(store, p) \/ p \in refused

LEMMA PassphraseIs ==
    ASSUME WorldHolds, NEW p \in Partitions
    PROVE  /\ Count + 1 - p \in Nat \ {0} /\ Len(Passphrase(p)) = Count + 1 - p /\ p \in Nat \ {0}
           /\ Passphrase(p) = [k \in 1 .. (Count + 1 - p) |-> p] /\ Passphrase(p) \in Seq(Nat)
           /\ Passphrase(p) # NoPassword
<1>1. Count \in Nat \ {0} /\ Partitions = 1 .. Count BY SessionFacts
<1>2. Count + 1 - p \in Nat \ {0} /\ p \in Nat \ {0} BY <1>1
<1>3. Passphrase(p) = [k \in 1 .. (Count + 1 - p) |-> p] BY DEF Passphrase
<1>4. Passphrase(p) \in Seq(Nat) /\ Len(Passphrase(p)) = Count + 1 - p BY <1>2, <1>3
<1>5. Passphrase(p)[1] = p BY <1>2, <1>3
<1>6. NoPassword[1] = 0 BY DEF NoPassword
<1> QED BY <1>2, <1>3, <1>4, <1>5, <1>6

LEMMA EntryIs ==
    ASSUME NEW s, StoreHolds(s)
    PROVE  /\ s.entries \in Seq(PWEntry) /\ Len(s.entries) \in Nat
           /\ \A i \in 1 .. Len(s.entries) :
                /\ s.entries[i] \in PWEntry /\ s.entries[i].key \in Partitions
                /\ s.entries[i].password \in Nat /\ s.entries[i].len \in Nat
                /\ s.entries[i].len = Count + 1 - s.entries[i].key /\ Whole(s.memory, s.entries[i])
<1>1. s.entries \in Seq(PWEntry) /\ Len(s.entries) \in Nat BY DEF StoreHolds
<1>2. ASSUME NEW i \in 1 .. Len(s.entries) PROVE s.entries[i] \in PWEntry BY <1>1
<1>3. \A e \in PWEntry : e.key \in Partitions /\ e.password \in Nat /\ e.len \in Nat BY DEF PWEntry
<1> QED BY <1>1, <1>2, <1>3 DEF StoreHolds

LEMMA FoundIs ==
    ASSUME NEW s, StoreHolds(s), NEW p
    PROVE  /\ DOMAIN s.entries = 1 .. Len(s.entries) /\ Len(s.entries) \in Nat
           /\ find_key(s, p) = {} <=> ~Stored(s, p)
           /\ \A i \in 1 .. Len(s.entries) : s.entries[i].key = p =>
                (CHOOSE n \in find_key(s, p) : \A m \in find_key(s, p) : n <= m) = i
<1>1. DOMAIN s.entries = 1 .. Len(s.entries) /\ Len(s.entries) \in Nat BY DEF StoreHolds
<1>2. find_key(s, p) = {i \in 1 .. Len(s.entries) : s.entries[i].key = p} BY <1>1 DEF find_key
<1>3. find_key(s, p) = {} <=> ~Stored(s, p) BY <1>2 DEF Stored
<1>4. ASSUME NEW i \in 1 .. Len(s.entries), s.entries[i].key = p
      PROVE  (CHOOSE n \in find_key(s, p) : \A m \in find_key(s, p) : n <= m) = i
  <2>1. find_key(s, p) = {i} BY <1>2, <1>4 DEF StoreHolds
  <2>2. i <= i BY <1>1
  <2> QED BY <2>1, <2>2
<1> QED BY <1>1, <1>3, <1>4

\* A passphrase kept within the block is found whole.
LEMMA LookedUp ==
    ASSUME WorldHolds, NEW s, StoreHolds(s), NEW p \in Partitions,
           NEW i \in 1 .. Len(s.entries), s.entries[i].key = p,
           s.entries[i].password + s.entries[i].len < ProtectedMemSize
    PROVE  lookup(s, p) = Passphrase(p)
<1> DEFINE a == s.entries[i].password
           n == s.entries[i].len
           IsEnd(z) == /\ a <= z /\ s.memory[z] = 0
                       /\ \A b \in DOMAIN s.memory : a <= b /\ b < z => s.memory[b] # 0
           end == CHOOSE z \in DOMAIN s.memory : IsEnd(z)
<1>1. a \in Nat /\ n = Count + 1 - p /\ n \in Nat \ {0} /\ a + n < ProtectedMemSize /\ p # 0
  BY PassphraseIs, EntryIs
<1>2. (\A k \in 1 .. n : s.memory[a + k - 1] = p) /\ s.memory[a + n] = 0 BY EntryIs DEF Whole
<1>3. lookup(s, p) = [k \in 1 .. (end - a) |-> s.memory[a + k - 1]]
  <2>1. find_key(s, p) # {} BY FoundIs DEF Stored
  <2>2. lookup(s, p) = StringAt(s.memory, a) BY <2>1, FoundIs DEF lookup
  <2> HIDE DEF a
  <2> QED BY <2>2 DEF StringAt
<1>4. DOMAIN s.memory = 0 .. (ProtectedMemSize - 1) /\ ProtectedMemSize \in Nat BY MemoryAssumption DEF StoreHolds
<1> HIDE DEF a, n
<1>5. \A b \in DOMAIN s.memory : a <= b /\ b < a + n => s.memory[b] # 0
  <2> SUFFICES ASSUME NEW b \in DOMAIN s.memory, a <= b, b < a + n PROVE s.memory[b] # 0 OBVIOUS
  <2>1. b - a + 1 \in 1 .. n /\ a + (b - a + 1) - 1 = b BY <1>1, <1>4
  <2>2. s.memory[a + (b - a + 1) - 1] = p BY <1>2, <2>1
  <2> QED BY <1>1, <2>1, <2>2
<1>6. a + n \in DOMAIN s.memory /\ IsEnd(a + n) BY <1>1, <1>2, <1>4, <1>5
<1>7. \A z \in DOMAIN s.memory : IsEnd(z) => z = a + n
  <2> SUFFICES ASSUME NEW z \in DOMAIN s.memory, IsEnd(z) PROVE z = a + n OBVIOUS
  <2>1. ~(a + n < z) BY <1>1, <1>2, <1>6
  <2>2. ~(z < a + n) BY <1>5
  <2> QED BY <1>1, <1>4, <2>1, <2>2
<1> HIDE DEF IsEnd
<1>8. end = a + n BY <1>6, <1>7
<1> HIDE DEF end
<1>9. end - a = n BY <1>1, <1>8
<1>10. lookup(s, p) = [k \in 1 .. n |-> p] BY <1>2, <1>3, <1>9
<1> QED BY <1>1, <1>10, PassphraseIs

LEMMA WrittenElsewhere ==
    ASSUME NEW memory, DOMAIN memory = 0 .. (ProtectedMemSize - 1), NEW a \in Nat, NEW chars \in Seq(Nat),
           NEW e \in PWEntry, Whole(memory, e),
           a + Len(chars) <= e.password \/ e.password + e.len < a
    PROVE  Whole(Written(memory, a, chars), e)
<1>1. ProtectedMemSize \in Nat /\ Len(chars) \in Nat /\ e.password \in Nat /\ e.len \in Nat
  BY MemoryAssumption DEF PWEntry
<1>2. ASSUME NEW b \in DOMAIN memory, ~(a <= b /\ b < a + Len(chars)) PROVE Written(memory, a, chars)[b] = memory[b]
  BY <1>2 DEF Written
<1>3. ASSUME e.password + e.len < ProtectedMemSize, NEW k \in 1 .. e.len
      PROVE  Written(memory, a, chars)[e.password + k - 1] = memory[e.password + k - 1]
  <2> DEFINE b == e.password + k - 1
  <2>1. b \in DOMAIN memory /\ e.password <= b /\ b < e.password + e.len BY <1>1, <1>3
  <2>2. ~(a <= b /\ b < a + Len(chars)) BY <1>1, <2>1
  <2> HIDE DEF b
  <2>3. Written(memory, a, chars)[b] = memory[b] BY <1>2, <2>1, <2>2
  <2> QED BY <2>3 DEF b
<1>4. ASSUME e.password + e.len < ProtectedMemSize
      PROVE  Written(memory, a, chars)[e.password + e.len] = memory[e.password + e.len]
  <2> DEFINE b == e.password + e.len
  <2>1. b \in DOMAIN memory /\ e.password <= b BY <1>1, <1>4
  <2>2. ~(a <= b /\ b < a + Len(chars)) BY <1>1, <2>1
  <2> HIDE DEF b
  <2>3. Written(memory, a, chars)[b] = memory[b] BY <1>2, <2>1, <2>2
  <2> QED BY <2>3 DEF b
<1> QED BY <1>3, <1>4 DEF Whole

LEMMA RemovedIs ==
    ASSUME NEW S, NEW q \in Seq(S), NEW i \in 1 .. Len(q)
    PROVE  /\ RemoveAt(q, i) \in Seq(S) /\ Len(RemoveAt(q, i)) = Len(q) - 1
           /\ \A k \in 1 .. (Len(q) - 1) : RemoveAt(q, i)[k] = IF k < i THEN q[k] ELSE q[k + 1]
<1>1. SubSeq(q, 1, i - 1) \in Seq(S) /\ Len(SubSeq(q, 1, i - 1)) = i - 1 OBVIOUS
<1>2. SubSeq(q, i + 1, Len(q)) \in Seq(S) /\ Len(SubSeq(q, i + 1, Len(q))) = Len(q) - i OBVIOUS
<1>3. RemoveAt(q, i) = SubSeq(q, 1, i - 1) \o SubSeq(q, i + 1, Len(q)) BY DEF RemoveAt
<1>4. \A k \in 1 .. (i - 1) : SubSeq(q, 1, i - 1)[k] = q[k] OBVIOUS
<1>5. \A k \in 1 .. (Len(q) - i) : SubSeq(q, i + 1, Len(q))[k] = q[i + k] OBVIOUS
<1> DEFINE a == SubSeq(q, 1, i - 1)
           b == SubSeq(q, i + 1, Len(q))
<1>6. Len(q) \in Nat OBVIOUS
<1> HIDE DEF a, b
<1>7. a \o b \in Seq(S) /\ Len(a \o b) = Len(q) - 1
  <2>1. a \in Seq(S) /\ b \in Seq(S) /\ Len(a) = i - 1 /\ Len(b) = Len(q) - i BY <1>1, <1>2 DEF a, b
  <2> QED BY <1>6, <2>1
<1>8. ASSUME NEW k \in 1 .. (Len(q) - 1) PROVE (a \o b)[k] = IF k < i THEN q[k] ELSE q[k + 1]
  <2>1. a \in Seq(S) /\ b \in Seq(S) /\ Len(a) = i - 1 /\ Len(b) = Len(q) - i BY <1>1, <1>2 DEF a, b
  <2>2. (a \o b)[k] = IF k <= Len(a) THEN a[k] ELSE b[k - Len(a)] BY <1>6, <2>1
  <2>3. CASE k < i BY <1>4, <1>6, <2>1, <2>2, <2>3 DEF a
  <2>4. CASE ~(k < i)
    <3>1. k - Len(a) \in 1 .. (Len(q) - i) /\ i + (k - Len(a)) = k + 1 BY <1>6, <2>1, <2>4
    <3>2. b[k - Len(a)] = q[i + (k - Len(a))] BY <1>5, <3>1 DEF b
    <3> QED BY <1>6, <2>1, <2>2, <2>4, <3>1, <3>2
  <2> QED BY <2>3, <2>4
<1> QED BY <1>3, <1>7, <1>8 DEF a, b

LEMMA EraseHolds ==
    ASSUME WorldHolds, NEW s, StoreHolds(s), NEW p \in Partitions
    PROVE  /\ StoreHolds(erase(s, p)) /\ ~Stored(erase(s, p), p)
           /\ \A q \in Partitions : q # p => (Stored(erase(s, p), q) <=> Stored(s, q))
<1>1. s.entries \in Seq(PWEntry) /\ Len(s.entries) \in Nat BY DEF StoreHolds
<1>2. CASE ~Stored(s, p)
  <2>1. erase(s, p) = s BY <1>2, FoundIs DEF erase
  <2> QED BY <1>2, <2>1
<1>3. CASE Stored(s, p)
  <2>1. PICK i \in 1 .. Len(s.entries) : s.entries[i].key = p BY <1>3 DEF Stored
  <2> DEFINE e == s.entries[i]
             zeros == [j \in 1 .. e.len |-> 0]
             after == [entries |-> RemoveAt(s.entries, i), memory |-> Written(s.memory, e.password, zeros)]
             From(k) == IF k < i THEN k ELSE k + 1
  <2>2. erase(s, p) = after BY <1>3, <2>1, FoundIs DEF erase
  <2>3. /\ after.entries \in Seq(PWEntry) /\ Len(after.entries) = Len(s.entries) - 1
        /\ \A k \in 1 .. Len(after.entries) : after.entries[k] = s.entries[From(k)]
    BY <1>1, <2>1, RemovedIs
  <2>4. e \in PWEntry /\ e.len \in Nat /\ e.password \in Nat BY <2>1, EntryIs
  <2>5. zeros \in Seq(Nat) /\ Len(zeros) = e.len BY <2>4
  <2>6. after.memory = Written(s.memory, e.password, zeros) /\ DOMAIN after.memory = DOMAIN s.memory BY DEF Written
  <2>7. \A k \in 1 .. Len(after.entries) : From(k) \in 1 .. Len(s.entries) /\ From(k) # i BY <1>1, <2>1, <2>3
  <2>8. \A k, l \in 1 .. Len(after.entries) : (From(k) = From(l) => k = l) /\ (k < l => From(k) < From(l))
    BY <1>1, <2>1, <2>3
  <2>9. \A j \in 1 .. Len(s.entries) : j # i => \E k \in 1 .. Len(after.entries) : From(k) = j
    <3> SUFFICES ASSUME NEW j \in 1 .. Len(s.entries), j # i PROVE \E k \in 1 .. Len(after.entries) : From(k) = j
      OBVIOUS
    <3>1. CASE j < i
      <4>1. j \in 1 .. Len(after.entries) /\ From(j) = j BY <1>1, <2>1, <2>3, <3>1
      <4> QED BY <4>1
    <3>2. CASE i < j
      <4>1. j - 1 \in 1 .. Len(after.entries) /\ From(j - 1) = j BY <1>1, <2>1, <2>3, <3>2
      <4> QED BY <4>1
    <3> QED BY <2>1, <3>1, <3>2
  <2> HIDE DEF e, zeros, after, From
  <2>10. ASSUME NEW j \in 1 .. Len(s.entries), j # i PROVE Whole(after.memory, s.entries[j])
    <3>1. s.entries[j] \in PWEntry /\ Whole(s.memory, s.entries[j]) /\ s.entries[j].password \in Nat BY EntryIs
    <3>2. CASE j < i
      <4>1. s.entries[j].password + s.entries[j].len < e.password BY <2>1, <3>2 DEF StoreHolds, e
      <4> QED BY <2>4, <2>5, <2>6, <3>1, <4>1, WrittenElsewhere DEF StoreHolds
    <3>3. CASE i < j
      <4>1. e.password + Len(zeros) <= s.entries[j].password BY <2>1, <2>4, <2>5, <3>1, <3>3 DEF StoreHolds, e
      <4> QED BY SMTT(30), <2>4, <2>5, <2>6, <3>1, <4>1, WrittenElsewhere DEF StoreHolds
    <3> QED BY <2>1, <2>10, <3>2, <3>3
  <2>11. StoreHolds(after)
    <3>1. \A k \in 1 .. Len(after.entries) :
            after.entries[k].len = Count + 1 - after.entries[k].key /\ Whole(after.memory, after.entries[k])
      BY <2>3, <2>7, <2>10 DEF StoreHolds
    <3>2. \A k, l \in 1 .. Len(after.entries) : after.entries[k].key = after.entries[l].key => k = l
      <4>1. \A j, k \in 1 .. Len(s.entries) : s.entries[j].key = s.entries[k].key => j = k BY DEF StoreHolds
      <4> QED BY <2>3, <2>7, <2>8, <4>1
    <3>3. \A k, l \in 1 .. Len(after.entries) :
            k < l => after.entries[k].password + after.entries[k].len < after.entries[l].password
      <4>1. \A j, m \in 1 .. Len(s.entries) :
              j < m => s.entries[j].password + s.entries[j].len < s.entries[m].password
        BY DEF StoreHolds
      <4>2. ASSUME NEW k \in 1 .. Len(after.entries), NEW l \in 1 .. Len(after.entries), k < l
            PROVE  after.entries[k].password + after.entries[k].len < after.entries[l].password
        <5>1. /\ From(k) \in 1 .. Len(s.entries) /\ From(l) \in 1 .. Len(s.entries) /\ From(k) < From(l)
              /\ after.entries[k] = s.entries[From(k)] /\ after.entries[l] = s.entries[From(l)]
          BY <2>3, <2>7, <2>8, <4>2
        <5> QED BY <4>1, <5>1
      <4> QED BY <4>2
    <3> QED BY <2>3, <2>6, <3>1, <3>2, <3>3 DEF StoreHolds
  <2>12. ~Stored(after, p) BY <2>1, <2>3, <2>7 DEF StoreHolds, Stored
  <2>13. ASSUME NEW q \in Partitions, q # p PROVE Stored(after, q) <=> Stored(s, q)
    <3>1. ASSUME Stored(after, q) PROVE Stored(s, q) BY <2>3, <2>7, <3>1 DEF Stored
    <3>2. ASSUME Stored(s, q) PROVE Stored(after, q) BY SMTT(30), <2>1, <2>3, <2>9, <2>13, <3>2 DEF Stored
    <3> QED BY <3>1, <3>2
  <2> QED BY <2>2, <2>11, <2>12, <2>13
<1> QED BY <1>2, <1>3

LEMMA InsertHolds ==
    ASSUME WorldHolds, NEW s, StoreHolds(s), NEW p \in Partitions
    PROVE  /\ StoreHolds(insert(s, p, Passphrase(p)))
           /\ \A q \in Partitions : q # p => (Stored(insert(s, p, Passphrase(p)), q) <=> Stored(s, q))
<1> DEFINE a == NextPassword(s.entries)
           chars == Append(Passphrase(p), 0)
           e == [key |-> p, password |-> a, len |-> Len(Passphrase(p))]
           after == [entries |-> Append(s.entries, e), memory |-> Written(s.memory, a, chars)]
           last == Len(s.entries)
<1>1. s.entries \in Seq(PWEntry) /\ last \in Nat BY DEF StoreHolds
<1>2. CASE ~Accepts(s, p, Passphrase(p))
  <2>1. insert(s, p, Passphrase(p)) = s BY <1>2 DEF insert
  <2> QED BY <2>1
<1>3. CASE Accepts(s, p, Passphrase(p))
  <2>1. insert(s, p, Passphrase(p)) = after BY <1>3 DEF insert
  <2>2. ~Stored(s, p) BY <1>3, FoundIs DEF Accepts
  <2>3. a \in Nat /\ \A i \in 1 .. last : s.entries[i].password + s.entries[i].len < a
    <3>1. CASE s.entries = <<>> BY <3>1 DEF NextPassword
    <3>2. CASE s.entries # <<>>
      <4>1. last \in 1 .. last BY <1>1, <3>2
      <4>2. a = s.entries[last].password + s.entries[last].len + 1 BY <3>2 DEF NextPassword
      <4>3. \A i \in 1 .. last : s.entries[i].password \in Nat /\ s.entries[i].len \in Nat BY EntryIs
      <4>4. \A i \in 1 .. last : i = last \/ s.entries[i].password + s.entries[i].len < s.entries[last].password
        <5> SUFFICES ASSUME NEW i \in 1 .. last, i # last
                     PROVE  s.entries[i].password + s.entries[i].len < s.entries[last].password
          OBVIOUS
        <5>1. i < last BY <1>1
        <5> QED BY <4>1, <5>1 DEF StoreHolds
      <4>5. a \in Nat /\ s.entries[last].password + s.entries[last].len < a BY <4>1, <4>2, <4>3
      <4>6. ASSUME NEW i \in 1 .. last PROVE s.entries[i].password + s.entries[i].len < a
        <5>1. CASE i = last BY <4>5, <5>1
        <5>2. CASE i # last BY SMTT(30), <4>1, <4>2, <4>3, <4>4, <5>2
        <5> QED BY <5>1, <5>2
      <4> QED BY <4>5, <4>6
    <3> QED BY <3>1, <3>2
  <2> HIDE DEF a
  <2>4. /\ e \in PWEntry /\ e.key = p /\ e.password = a /\ e.len = Count + 1 - p /\ e.len \in Nat
        /\ chars \in Seq(Nat) /\ Len(chars) = e.len + 1
        /\ \A k \in 1 .. e.len : chars[k] = p
        /\ chars[e.len + 1] = 0
    <3>1. Passphrase(p) = [k \in 1 .. (Count + 1 - p) |-> p] /\ Passphrase(p) \in Seq(Nat)
          /\ Len(Passphrase(p)) = Count + 1 - p /\ Count + 1 - p \in Nat
      BY PassphraseIs
    <3>2. e.key = p /\ e.password = a /\ e.len = Count + 1 - p /\ e.len \in Nat BY <3>1
    <3>3. e \in PWEntry BY <2>3, <3>1 DEF PWEntry
    <3>4. chars \in Seq(Nat) /\ Len(chars) = e.len + 1 BY <3>1, <3>2
    <3>5. \A k \in 1 .. e.len : chars[k] = Passphrase(p)[k] BY <3>1, <3>2
    <3>6. \A k \in 1 .. e.len : Passphrase(p)[k] = p BY <3>1, <3>2
    <3>7. chars[e.len + 1] = 0 BY <3>1, <3>2
    <3> HIDE DEF e, chars
    <3> QED BY <3>2, <3>3, <3>4, <3>5, <3>6, <3>7
  <2>5. /\ after.entries \in Seq(PWEntry) /\ Len(after.entries) = last + 1
        /\ \A i \in 1 .. last : after.entries[i] = s.entries[i]
        /\ after.entries[last + 1] = e
    BY <1>1, <2>4
  <2>6. after.memory = Written(s.memory, a, chars) /\ DOMAIN after.memory = DOMAIN s.memory BY DEF Written
  <2> HIDE DEF e, chars, after
  <2>7. \A i \in 1 .. last : Whole(after.memory, s.entries[i])
    BY <2>3, <2>4, <2>6, EntryIs, WrittenElsewhere DEF StoreHolds
  <2>8. Whole(after.memory, e)
    <3> SUFFICES ASSUME e.password + e.len < ProtectedMemSize
                 PROVE  /\ \A k \in 1 .. e.len : after.memory[e.password + k - 1] = e.key
                        /\ after.memory[e.password + e.len] = 0
      BY DEF Whole
    <3>1. \A b \in 0 .. (ProtectedMemSize - 1) : a <= b /\ b < a + Len(chars) => after.memory[b] = chars[b - a + 1]
      BY <2>6 DEF Written, StoreHolds
    <3>2. ASSUME NEW k \in 1 .. (e.len + 1) PROVE after.memory[a + k - 1] = chars[k]
      <4>1. a + k - 1 \in 0 .. (ProtectedMemSize - 1) /\ a <= a + k - 1 /\ a + k - 1 < a + Len(chars)
            /\ (a + k - 1) - a + 1 = k
        BY <2>3, <2>4, MemoryAssumption
      <4> QED BY <3>1, <4>1
    <3>3. after.memory[a + (e.len + 1) - 1] = 0 /\ a + (e.len + 1) - 1 = a + e.len
      <4>1. e.len + 1 \in 1 .. (e.len + 1) BY <2>4
      <4>2. chars[e.len + 1] = 0 BY <2>4
      <4> QED BY <2>3, <2>4, <3>2, <4>1, <4>2
    <3> QED BY <2>4, <3>2, <3>3
  <2>9. StoreHolds(after)
    <3>1. \A i \in 1 .. Len(after.entries) : i \in 1 .. last \/ i = last + 1 BY <1>1, <2>5
    <3>2. \A i \in 1 .. Len(after.entries) :
            after.entries[i].len = Count + 1 - after.entries[i].key /\ Whole(after.memory, after.entries[i])
      BY SMTT(30), <2>4, <2>5, <2>7, <2>8, <3>1, EntryIs
    <3>3. \A i, j \in 1 .. Len(after.entries) : after.entries[i].key = after.entries[j].key => i = j
      <4>1. \A i \in 1 .. last : after.entries[i].key # p BY <2>2, <2>5 DEF Stored
      <4>2. \A i, j \in 1 .. last : after.entries[i].key = after.entries[j].key => i = j BY <2>5 DEF StoreHolds
      <4> QED BY <2>4, <2>5, <3>1, <4>1, <4>2
    <3>4. \A i, j \in 1 .. Len(after.entries) :
            i < j => after.entries[i].password + after.entries[i].len < after.entries[j].password
      <4> SUFFICES ASSUME NEW i \in 1 .. Len(after.entries), NEW j \in 1 .. Len(after.entries), i < j
                   PROVE  after.entries[i].password + after.entries[i].len < after.entries[j].password
        OBVIOUS
      <4>1. i \in 1 .. last BY <1>1, <2>5
      <4>2. CASE j \in 1 .. last BY <2>5, <4>1, <4>2 DEF StoreHolds
      <4>3. CASE j = last + 1 BY <2>3, <2>4, <2>5, <4>1, <4>3
      <4> QED BY <3>1, <4>2, <4>3
    <3> QED BY <2>5, <2>6, <3>2, <3>3, <3>4 DEF StoreHolds
  <2>10. \A q \in Partitions : q # p => (Stored(after, q) <=> Stored(s, q))
    <3>1. \A i \in 1 .. Len(after.entries) : i \in 1 .. last \/ i = last + 1 BY <1>1, <2>5
    <3>2. \A i \in 1 .. last : i \in 1 .. Len(after.entries) BY <1>1, <2>5
    <3> QED BY <2>4, <2>5, <3>1, <3>2 DEF Stored
  <2> QED BY <2>1, <2>9, <2>10
<1> QED BY <1>2, <1>3

LEMMA StoredAfterHolds ==
    ASSUME WorldHolds, NEW s, StoreHolds(s), NEW p \in Partitions
    PROVE  /\ StoreHolds(StoredAfter(s, p, Passphrase(p)))
           /\ \A q \in Partitions : q # p => (Stored(StoredAfter(s, p, Passphrase(p)), q) <=> Stored(s, q))
<1>1. StoreHolds(erase(s, p)) /\ \A q \in Partitions : q # p => (Stored(erase(s, p), q) <=> Stored(s, q)) BY EraseHolds
<1>2. /\ StoreHolds(insert(erase(s, p), p, Passphrase(p)))
      /\ \A q \in Partitions : q # p => (Stored(insert(erase(s, p), p, Passphrase(p)), q) <=> Stored(erase(s, p), q))
  BY <1>1, InsertHolds
<1> QED BY <1>1, <1>2 DEF StoredAfter

LEMMA SizeSame ==
    ASSUME ScanInv, ScanInv', [Next]_vars
    PROVE  session' = session /\ Count' = Count /\ Partitions' = Partitions
<1>1. session' = session
  <2>1. CASE ScanStep
    BY <2>1 DEF ScanStep, Start, LoadFsInfo, LoadMountInfo, LoadSWRaidInfo, ScanPartition, ScanMapping, world
  <2>2. CASE OtherPrograms
    BY <2>2 DEF OtherPrograms, OthersMount, OthersUnmount, OthersActivate, OthersDeactivate,
                OthersOpen, OthersClose, OthersWrite, Changed
  <2>3. CASE UserStep
    <3>1. RefreshDevices \/ UNCHANGED scanVars => session' = session BY DEF RefreshDevices, scanVars, world
    <3>2. \A p, password : OpenWith(p, password) => session' = session BY <3>1 DEF OpenWith
    <3> QED BY <2>3, <3>1, <3>2 DEF UserStep, menu_gparted_refresh_devices, CancelDialog, ClearQueue, ApplyQueue,
                 toggle_fs_busy_state, CloseEncryption, OpenEncryption, ResizeEncryption, EnterToOpen, EnterToResize
  <2>4. CASE UNCHANGED vars BY <2>4 DEF vars, scanVars, world
  <2> QED BY <2>1, <2>2, <2>3, <2>4 DEF Next
<1>2. Len(kind') = Len(kind) /\ kind' \in Seq(DOMAIN Kinds) BY <1>1 DEF ScanInv, WorldHolds
<1> QED BY <1>1, <1>2, SameDevices DEF ScanInv

LEMMA StoreSame ==
    ASSUME Count' = Count, Partitions' = Partitions, StoreHolds(store')
    PROVE  StoreHolds(store)'
<1>1. PWEntry' = PWEntry BY DEF PWEntry
<1> QED BY <1>1 DEF StoreHolds, Whole

LEMMA QueueSame ==
    ASSUME QueueHolds, session' = session, Partitions' = Partitions, store' = store, refused' = refused,
           queued' \subseteq queued, dialog' = dialog \/ dialog' = NoDialog
    PROVE  QueueHolds'
BY DEF QueueHolds, NoDialog, Nothing, Stored

LEMMA OpenWithPasswords ==
    ASSUME WorldHolds, StoreHolds(store), QueueHolds, session' = session, Count' = Count, Partitions' = Partitions,
           NEW p \in Partitions, p \notin queued, NEW password, OpenWith(p, password)
    PROVE  StoreHolds(store)' /\ QueueHolds'
<1>1. StoreHolds(store') /\ \A q \in Partitions : q # p => (Stored(store', q) <=> Stored(store, q))
  BY StoredAfterHolds, EraseHolds DEF OpenWith, AfterOpening, Opens
<1>2. /\ queued' = queued /\ refused' = refused
      /\ dialog' = NoDialog \/ dialog' = [for |-> "open", part |-> p]
  BY DEF OpenWith
<1>3. \A q \in queued : q \in session.keyRing => Stored(store', q) \/ q \in refused BY <1>1 DEF QueueHolds
<1>4. QueueHolds' BY <1>2, <1>3 DEF QueueHolds, NoDialog, Nothing, Stored
<1> QED BY <1>1, <1>4, StoreSame

\* What is opened with its key in the key ring needs its passphrase.
LEMMA NeedsIt ==
    ASSUME ScanInv, Idle, NEW p \in Partitions, picture[p].shown.fstype = "luks", picture[p].shown.busy,
           p \in session.keyRing
    PROVE  NeedsPassword(p)
<1>1. OpenHolds /\ NumbersAre(numbers) BY DEF ScanInv, Idle, Scanning
<1>2. numbers[Disk(p)] = Stat(Disk(p)) BY <1>1 DEF NumbersAre
<1> QED BY <1>1, <1>2 DEF OpenHolds, NeedsPassword

LEMMA ResizePasswords ==
    ASSUME ScanInv, StoreHolds(store), QueueHolds, session' = session, Count' = Count, Partitions' = Partitions,
           NEW p \in Partitions, ResizeEncryption(p)
    PROVE  StoreHolds(store)' /\ QueueHolds'
<1>1. /\ Idle /\ dialog = NoDialog /\ store' = store /\ refused' = refused
      /\ picture[p].shown.fstype = "luks" /\ picture[p].shown.busy
  BY DEF ResizeEncryption, UserActs
<1>2. CASE NeedsPassword(p) /\ lookup(store, p) = NoPassword
  BY <1>1, <1>2, StoreSame DEF ResizeEncryption, QueueHolds, Stored
<1>3. CASE ~(NeedsPassword(p) /\ lookup(store, p) = NoPassword)
  <2>1. p \in session.keyRing => Stored(store, p)
    <3> SUFFICES ASSUME p \in session.keyRing PROVE Stored(store, p) OBVIOUS
    <3>1. lookup(store, p) # NoPassword BY <1>1, <1>3, NeedsIt
    <3> QED BY <3>1, FoundIs DEF lookup
  <2>2. queued' = queued \union {p} /\ dialog' = NoDialog BY <1>1, <1>3 DEF ResizeEncryption
  <2> QED BY <1>1, <2>1, <2>2, StoreSame DEF QueueHolds, Stored, NoDialog, Nothing
<1> QED BY <1>2, <1>3

LEMMA EnterToResizePasswords ==
    ASSUME ScanInv, DialogIs, StoreHolds(store), QueueHolds, session' = session, Count' = Count,
           Partitions' = Partitions, NEW password, EnterToResize(password)
    PROVE  StoreHolds(store)' /\ QueueHolds'
<1> DEFINE p == dialog.part
<1>1. p \in Partitions BY DEF EnterToResize, DialogIs, NoDialog, Nothing
<1>2. CASE UNCHANGED user BY <1>2, StoreSame, QueueSame DEF user
<1>3. CASE ~UNCHANGED user
  <2>1. /\ password = Passphrase(p) /\ store' = StoredAfter(store, p, password)
        /\ refused' = IF lookup(store', p) = NoPassword THEN refused \union {p} ELSE refused \ {p}
        /\ queued' = queued \union {p} /\ dialog' = NoDialog
    BY <1>3 DEF EnterToResize
  <2> HIDE DEF p
  <2>2. StoreHolds(store') /\ \A q \in Partitions : q # p => (Stored(store', q) <=> Stored(store, q))
    BY <1>1, <2>1, StoredAfterHolds DEF ScanInv
  <2>3. Stored(store', p) \/ p \in refused'
    <3>1. CASE lookup(store', p) = NoPassword BY <2>1, <3>1
    <3>2. CASE lookup(store', p) # NoPassword BY <2>2, <3>2, FoundIs DEF lookup
    <3> QED BY <3>1, <3>2
  <2>4. \A q \in queued' : q \in session.keyRing => Stored(store', q) \/ q \in refused'
    BY <2>1, <2>2, <2>3 DEF QueueHolds
  <2>5. queued' \subseteq Partitions /\ dialog'.for # "open" BY <1>1, <2>1 DEF QueueHolds, NoDialog, Nothing
  <2>6. QueueHolds' BY <2>4, <2>5 DEF QueueHolds, Stored
  <2> QED BY <2>2, <2>6, StoreSame
<1> QED BY <1>2, <1>3

LEMMA PasswordsKeep ==
    ASSUME ScanInv, DialogIs, StoreHolds(store), QueueHolds, [Next]_vars
    PROVE  StoreHolds(store)' /\ QueueHolds'
<1>1. session' = session /\ Count' = Count /\ Partitions' = Partitions /\ WorldHolds
  BY NextKeeps, SizeSame DEF ScanInv
<1>2. ASSUME store' = store, refused' = refused, queued' \subseteq queued, dialog' = dialog \/ dialog' = NoDialog
      PROVE  StoreHolds(store)' /\ QueueHolds'
  BY <1>1, <1>2, StoreSame, QueueSame
<1>3. CASE UNCHANGED user BY <1>2, <1>3 DEF user
<1>4. CASE CancelDialog \/ ClearQueue \/ ApplyQueue BY <1>2, <1>4 DEF CancelDialog, ClearQueue, ApplyQueue
<1>5. ASSUME NEW p \in Partitions, OpenEncryption(p) PROVE StoreHolds(store)' /\ QueueHolds'
  <2>1. p \notin queued BY <1>5 DEF OpenEncryption, ToggleAllowed, check_toggle_busy_allowed
  <2>2. CASE OpenWith(p, lookup(store, p)) BY <1>1, <2>1, <2>2, OpenWithPasswords
  <2>3. CASE dialog' = [for |-> "open", part |-> p] /\ UNCHANGED <<store, queued, refused>>
    BY <1>1, <2>1, <2>3, StoreSame DEF QueueHolds, Stored
  <2> QED BY <1>5, <2>2, <2>3 DEF OpenEncryption
<1>6. ASSUME NEW password, EnterToOpen(password) PROVE StoreHolds(store)' /\ QueueHolds'
  <2>1. dialog.part \in Partitions /\ dialog.part \notin queued
    BY <1>6 DEF EnterToOpen, DialogIs, NoDialog, Nothing, QueueHolds
  <2> QED BY <1>1, <1>6, <2>1, OpenWithPasswords DEF EnterToOpen
<1>7. ASSUME NEW p \in Partitions, ResizeEncryption(p) PROVE StoreHolds(store)' /\ QueueHolds'
  BY <1>1, <1>7, ResizePasswords
<1>8. ASSUME NEW password, EnterToResize(password) PROVE StoreHolds(store)' /\ QueueHolds'
  BY <1>1, <1>8, EnterToResizePasswords
<1>9. CASE UserStep
  BY <1>3, <1>4, <1>5, <1>6, <1>7, <1>8, <1>9 DEF UserStep, menu_gparted_refresh_devices, toggle_fs_busy_state,
     CloseEncryption
<1> QED BY <1>3, <1>9 DEF Next, vars

LEMMA PasswordsStart ==
    ASSUME Init
    PROVE  StoreHolds(store) /\ QueueHolds
<1>1. store = PWStore /\ queued = {} /\ dialog = NoDialog BY DEF Init
<1>2. store.entries = <<>> /\ DOMAIN store.memory = 0 .. (ProtectedMemSize - 1) BY <1>1 DEF PWStore
<1>3. StoreHolds(store) BY <1>2 DEF StoreHolds
<1> QED BY <1>1, <1>3 DEF QueueHolds, NoDialog, Nothing

\* As long as the passphrases kept fit into the block of memory, each is found
\* whole and opens its own volume, and a queued resize finds the one it needs,
\* whatever was opened, closed, mistyped and erased before
\* (PasswordRAMStore.cc:114, Win_GParted.cc:2192, 2720).
THEOREM PasswordsStay == Spec => [](MemorySuffices => PasswordsKept)
<1> DEFINE Kept == ScanInv /\ DialogIs /\ StoreHolds(store) /\ QueueHolds
<1>1. Init => Kept BY ScanStarts, PasswordsStart
<1>2. Kept /\ [Next]_vars => Kept' BY NextKeeps, PasswordsKeep
<1>3. Kept => (MemorySuffices => PasswordsKept)
  <2> SUFFICES ASSUME Kept, MemorySuffices PROVE PasswordsKept OBVIOUS
  <2>1. WorldHolds /\ StoreHolds(store) BY DEF ScanInv
  <2>2. ASSUME NEW p \in Partitions, Stored(store, p)
        PROVE  lookup(store, p) = Passphrase(p) /\ Passphrase(p) # NoPassword
    <3>1. PICK i \in 1 .. Len(store.entries) : store.entries[i].key = p BY <2>2 DEF Stored
    <3>2. store.entries[i].password + store.entries[i].len < ProtectedMemSize
      BY <2>1, FoundIs DEF MemorySuffices
    <3> QED BY <2>1, <3>1, <3>2, LookedUp, PassphraseIs
  <2>3. KeptPasswordOpens
    <3> SUFFICES ASSUME NEW p \in Partitions, lookup(store, p) # NoPassword PROVE lookup(store, p) = Passphrase(p)
      BY DEF KeptPasswordOpens
    <3>1. Stored(store, p) BY <2>1, FoundIs DEF lookup
    <3> QED BY <2>2, <3>1
  <2>4. ResizeFindsPassword BY <2>2 DEF ResizeFindsPassword, QueueHolds, NeedsPassword
  <2> QED BY <2>3, <2>4 DEF PasswordsKept
<1> HIDE DEF Kept
<1> QED BY <1>1, <1>2, <1>3, PTL DEF Spec
=============================================================================
