-------------------------- MODULE DriverCalls_proofs --------------------------
(***************************************************************************)
(* First, every procedure a driver offers is sound: in every environment   *)
(* in which get_filesystem_support() offers an operation, the driver       *)
(* implements it, its programs are there, and its steps are paired, placed *)
(* and answered.  Then, the calls of the drivers leave nothing behind,     *)
(* find every file system in the state the program run on it needs, and    *)
(* return what happened: for every driver, every environment and any       *)
(* number of calls and failures.                                           *)
(***************************************************************************)
EXTENDS DriverCalls, TLAPS, SequenceTheorems

Capability(c) == (IF c.busy THEN Online ELSE Offline)[c.op]

(* GParted_Core runs the driver for the call. *)
Offers(type, e, c) ==
  /\ c.op \in DOMAIN (IF c.busy THEN Online ELSE Offline)
  /\ get_fs(type, e, Capability(c)) = EXTERNAL

-----------------------------------------------------------------------------
(* Which rule offers a capability                                          *)

Serves(r, e, cap) == r.how = EXTERNAL /\ cap \in r.caps /\ r.need \subseteq e

Known(how) == how \in {GPARTED, LIBPARTED, EXTERNAL}

LEMMA Offering ==
    ASSUME NEW type, NEW e, NEW cap, get_fs(type, e, cap) = EXTERNAL, \A r \in Rules(type) : Known(r.how)
    PROVE  \E r \in Rules(type) : Serves(r, e, cap)
<1> DEFINE hows == {r.how : r \in {r \in Rules(type) : cap \in r.caps /\ r.need \subseteq e}}
           all == {NONE} \cup hows
<1>1. all \subseteq {0, 1, 2, 3} /\ 0 \in all
  BY DEF Known, NONE, GPARTED, LIBPARTED, EXTERNAL
<1> HIDE DEF all
<1>2. \E x \in all : \A y \in all : x >= y
  <2>1. CASE 3 \in all
    BY <1>1, <2>1
  <2>2. CASE 3 \notin all /\ 2 \in all
    BY <1>1, <2>2
  <2>3. CASE 3 \notin all /\ 2 \notin all /\ 1 \in all
    BY <1>1, <2>3
  <2>4. CASE 3 \notin all /\ 2 \notin all /\ 1 \notin all
    BY <1>1, <2>4
  <2> QED
    BY <2>1, <2>2, <2>3, <2>4
<1>3. Max(all) \in all
  BY <1>2 DEF Max
<1>4. Max(all) = EXTERNAL
  BY DEF get_fs, all
<1> QED
  BY <1>3, <1>4 DEF all, NONE, EXTERNAL, Serves

(* What serves, by how the rules are written. *)
Served(r, e, cap) ==
  /\ \A c : r \notin Internal(c)
  /\ \A c, n : r \notin {Rule(c, GPARTED, n)} /\ r \notin {Rule(c, LIBPARTED, n)}
  /\ \A n : r \notin CopiedWhen(n)
  /\ \A n, c : r \in With(n, c) => cap \in c /\ n \subseteq e
  /\ \A m : r \in Formats(m) => cap \in {"create", "create_with_label"} /\ {m} \subseteq e
  /\ \A n : r \in Growing(n) => cap \in {"grow", "online_grow"} /\ n \subseteq e
  /\ \A n : r \in Shrinking(n) => cap \in {"shrink", "online_shrink"} /\ n \subseteq e

LEMMA Serving ==
    ASSUME NEW r, NEW e, NEW cap, Serves(r, e, cap)
    PROVE  Served(r, e, cap)
BY DEF Served, Serves, Rule, Internal, CopiedWhen, With, Formats, Growing, Shrinking, GPARTED, LIBPARTED, EXTERNAL

LEMMA Knowing ==
    ASSUME NEW r
    PROVE  /\ \A c, n : r \in {Rule(c, GPARTED, n)} \/ r \in {Rule(c, LIBPARTED, n)} => Known(r.how)
           /\ \A c : r \in Internal(c) => Known(r.how)
           /\ \A n : r \in CopiedWhen(n) => Known(r.how)
           /\ \A n, c : r \in With(n, c) => Known(r.how)
           /\ \A m : r \in Formats(m) => Known(r.how)
           /\ \A n : r \in Growing(n) => Known(r.how)
           /\ \A n : r \in Shrinking(n) => Known(r.how)
BY DEF Known, Rule, Internal, CopiedWhen, With, Formats, Growing, Shrinking

(* The capability asked for an operation tells the operation, and whether  *)
(* the partition is busy.                                                  *)
Asked(c, cap) ==
  /\ c.op \in Operations /\ c.busy \in BOOLEAN
  /\ \/ ~c.busy /\ \/ cap = c.op /\ cap \notin {"check_repair", "set_used_sectors"}
                   \/ cap = "check" /\ c.op = "check_repair"
                   \/ cap = "read" /\ c.op = "set_used_sectors"
     \/ c.busy /\ \/ cap = "online_grow" /\ c.op = "grow"
                  \/ cap = "online_shrink" /\ c.op = "shrink"
                  \/ cap = "online_write_label" /\ c.op = "write_label"
                  \/ cap = "online_read" /\ c.op = "set_used_sectors"
                  \/ cap \in {"read_label", "read_uuid"} /\ c.op = cap

LEMMA AskedIs ==
    ASSUME NEW c \in Calls, c.op \in DOMAIN (IF c.busy THEN Online ELSE Offline)
    PROVE  Asked(c, Capability(c))
<1>1. c.op \in Operations /\ c.busy \in BOOLEAN
  BY DEF Calls
<1>2. CASE c.busy
  BY <1>1, <1>2 DEF Capability, Online, Asked
<1>3. CASE ~c.busy
  BY <1>1, <1>3 DEF Capability, Offline, Asked
<1> QED
  BY <1>1, <1>2, <1>3

-----------------------------------------------------------------------------
(* Procedures without a mount point                                        *)

Plain(type, e, c, s) ==
  /\ s.do \in {"run", "find"} /\ s.after = {} /\ 0 \in s.ok /\ ~s.lost
  /\ Gap(type, c) \/ s.runs \subseteq e
  /\ s.closes # 0 => type = "ntfs" /\ c.op \in {"grow", "shrink"}
  /\ \A which \in s.parts :
      /\ which = "this" \/ (which = "other" /\ c.op = "copy")
      /\ s.on = "inactive" => ~c.busy
      /\ s.on = "active" => which = "this" /\ c.busy

LEMMA PlainIsSound ==
    ASSUME NEW type, NEW e, NEW c, NEW steps,
           Len(steps) \in Nat, DOMAIN steps = 1 .. Len(steps),
           \A j \in DOMAIN steps : Plain(type, e, c, steps[j]),
           c.op = "check_repair" =>
             /\ Len(steps) = 1 /\ steps[1].do = "run"
             /\ Understood(steps[1].runs) \subseteq steps[1].ok
             /\ LeftDamaged(steps[1].runs) \cap steps[1].ok = {}
    PROVE  Sound(type, e, c, steps)
<1>1. Paired(steps)
  BY DEF Plain, Paired
<1>2. Placed(c, steps)
  BY DEF Plain, Placed
<1>3. Answered(type, e, c, steps)
  <2>1. ASSUME NEW j \in DOMAIN steps
        PROVE  /\ steps[j].do \in {"run", "find", "mkdir", "mount", "umount", "rmdir"}
               /\ steps[j].after \subseteq 1 .. j - 1
               /\ 0 \in steps[j].ok
               /\ Gap(type, c) \/ steps[j].runs \subseteq e
               /\ steps[j].lost => type = "xfs" /\ c.op = "copy" /\ ~steps[j].abort
               /\ steps[j].closes # 0 => type = "ntfs" /\ c.op \in {"grow", "shrink"}
    BY DEF Plain
  <2>2. c.op = "check_repair" => steps[1].after = {} /\ ~steps[1].lost
    BY DEF Plain
  <2> QED
    BY <2>1, <2>2 DEF Answered
<1> QED
  BY <1>1, <1>2, <1>3 DEF Sound

LEMMA PlainCommand ==
    ASSUME NEW type, NEW e, NEW c, NEW progs, NEW on,
           Gap(type, c) \/ progs \subseteq e, on = "inactive" => ~c.busy, on = "active" => c.busy
    PROVE  Plain(type, e, c, Command(progs, on))
BY DEF Plain, Command, Step

LEMMA PlainFind == ASSUME NEW type, NEW e, NEW c PROVE Plain(type, e, c, Find)
BY DEF Plain, Find, Step

LEMMA OneCommand ==
    ASSUME NEW type, NEW e, NEW c, NEW progs, NEW on, c.op # "check_repair",
           Gap(type, c) \/ progs \subseteq e, on = "inactive" => ~c.busy, on = "active" => c.busy
    PROVE  Sound(type, e, c, <<Command(progs, on)>>)
BY PlainCommand, PlainIsSound

LEMMA RunIsSound ==
    ASSUME NEW type, NEW e, NEW c, NEW prog, c.op # "check_repair", prog \in e, ~c.busy
    PROVE  Sound(type, e, c, Run(prog))
BY OneCommand DEF Run

LEMMA RunAnywhereIsSound ==
    ASSUME NEW type, NEW e, NEW c, NEW prog, c.op # "check_repair", Gap(type, c) \/ prog \in e
    PROVE  Sound(type, e, c, RunAnywhere(prog))
BY OneCommand DEF RunAnywhere

LEMMA SkipIsSound ==
    ASSUME NEW type, NEW e, NEW c, c.op # "check_repair"
    PROVE  Sound(type, e, c, Skip)
BY PlainIsSound DEF Skip

LEMMA OneCheck ==
    ASSUME NEW type, NEW e, NEW c, NEW steps, Len(steps) = 1, DOMAIN steps = 1 .. 1,
           Plain(type, e, c, steps[1]), steps[1].do = "run",
           Understood(steps[1].runs) \subseteq steps[1].ok,
           LeftDamaged(steps[1].runs) \cap steps[1].ok = {}
    PROVE  Sound(type, e, c, steps)
<1>1. Len(steps) \in Nat /\ DOMAIN steps = 1 .. Len(steps)
  OBVIOUS
<1>2. \A j \in DOMAIN steps : Plain(type, e, c, steps[j])
  <2>1. \A j \in DOMAIN steps : j = 1
    OBVIOUS
  <2> QED
    BY <2>1
<1> QED
  BY <1>1, <1>2, PlainIsSound

LEMMA CheckIsSound ==
    ASSUME NEW type, NEW e, NEW c, NEW prog, prog \in e, ~c.busy,
           prog \notin {"e2fsck", "fsck.fat", "jfs_fsck", "reiserfsck"}
    PROVE  Sound(type, e, c, Run(prog))
<1> DEFINE step == Command({prog}, "inactive")
<1>1. Plain(type, e, c, step)
  BY PlainCommand
<1>2. step.do = "run" /\ step.ok = {0} /\ step.runs = {prog}
  BY DEF Command, Step
<1>3. Understood({prog}) = {0} /\ LeftDamaged({prog}) = {1}
  BY DEF Understood, Misread, Repaired, LeftDamaged
<1>4. Understood(step.runs) \subseteq step.ok /\ LeftDamaged(step.runs) \cap step.ok = {}
  BY <1>2, <1>3
<1>5. Len(Run(prog)) = 1 /\ DOMAIN Run(prog) = 1 .. 1 /\ Run(prog)[1] = step
  BY DEF Run
<1> QED
  BY <1>1, <1>2, <1>4, <1>5, OneCheck

LEMMA AcceptingIsSound ==
    ASSUME NEW type, NEW e, NEW c, NEW prog, NEW codes, prog \in e, ~c.busy,
           \/ prog = "e2fsck" /\ codes = {0, 1, 2}
           \/ prog \in {"fsck.fat", "jfs_fsck", "reiserfsck"} /\ codes = {0, 1}
    PROVE  Sound(type, e, c, RunAccepting(prog, codes))
<1> DEFINE step == [Command({prog}, "inactive") EXCEPT !.ok = codes]
<1>1. Plain(type, e, c, step)
  BY DEF Plain, Command, Step
<1>2. step.do = "run" /\ step.ok = codes /\ step.runs = {prog}
  BY DEF Command, Step
<1>3. Understood({prog}) \subseteq codes /\ LeftDamaged({prog}) \cap codes = {}
  BY DEF Understood, Repaired, Misread, LeftDamaged
<1>4. Understood(step.runs) \subseteq step.ok /\ LeftDamaged(step.runs) \cap step.ok = {}
  BY <1>2, <1>3
<1>5. /\ Len(RunAccepting(prog, codes)) = 1 /\ DOMAIN RunAccepting(prog, codes) = 1 .. 1
      /\ RunAccepting(prog, codes)[1] = step
  BY DEF RunAccepting
<1> QED
  BY <1>1, <1>2, <1>4, <1>5, OneCheck

-----------------------------------------------------------------------------
(* Procedures around a mount point                                         *)

(* What a resize needs of its steps when n have been taken before: the     *)
(* directory, the mount, the program, the umount and the removal.          *)
Around(steps, n, progs) ==
  LET is(i, do, dir, parts, after, on, abort) ==
        /\ steps[i].do = do /\ steps[i].dir = dir /\ steps[i].parts = parts /\ steps[i].after = after
        /\ steps[i].on = on /\ steps[i].abort = abort
        /\ steps[i].ok = {0} /\ steps[i].lost = FALSE /\ steps[i].closes = 0
  IN  /\ Len(steps) = n + 5 /\ DOMAIN steps = 1 .. n + 5
      /\ is(n + 1, "mkdir", "mnt", {"this"}, {}, "any", TRUE) /\ steps[n + 1].runs = {}
      /\ is(n + 2, "mount", "mnt", {"this"}, {}, "inactive", FALSE) /\ steps[n + 2].runs = {"mount"}
      /\ is(n + 3, "run", "none", {"this"}, {n + 2}, "active", FALSE) /\ steps[n + 3].runs = progs
      /\ is(n + 4, "umount", "mnt", {"this"}, {n + 2}, "active", FALSE) /\ steps[n + 4].runs = {"umount"}
      /\ is(n + 5, "rmdir", "mnt", {"this"}, {}, "any", FALSE) /\ steps[n + 5].runs = {}

LEMMA AroundIsSound ==
    ASSUME NEW type, NEW e, NEW c, NEW steps, NEW n \in {0, 1}, NEW progs, Around(steps, n, progs),
           \A j \in 1 .. n : Plain(type, e, c, steps[j]),
           ~c.busy, c.op # "check_repair", progs \subseteq e, {"mount", "umount"} \subseteq e
    PROVE  Sound(type, e, c, steps)
<1>1. Len(steps) = n + 5 /\ DOMAIN steps = 1 .. n + 5
  BY DEF Around
<1>2. ASSUME NEW j \in DOMAIN steps
      PROVE  \/ j \in 1 .. n /\ steps[j].do \in {"run", "find"}
             \/ j \in {n + 1, n + 2, n + 3, n + 4, n + 5}
  BY <1>1 DEF Plain
<1>3. Undoes(steps, n + 1, n + 5) /\ Undoes(steps, n + 2, n + 4)
  <2>1. \A k \in n + 2 .. n + 5 : k \in {n + 2, n + 3, n + 4, n + 5}
    OBVIOUS
  <2>2. \A k \in n + 2 .. n + 5 : ~steps[k].abort
    BY <2>1 DEF Around
  <2>3. Undoes(steps, n + 1, n + 5)
    BY <2>2 DEF Around, Undoes
  <2>4. Undoes(steps, n + 2, n + 4)
    BY <2>2 DEF Around, Undoes
  <2> QED
    BY <2>3, <2>4
<1>4. Paired(steps)
  BY <1>1, <1>2, <1>3 DEF Paired, Around, NoPlace
<1>5. Placed(c, steps)
  BY <1>1, <1>2 DEF Placed, Around, Plain, Needed, Undoes
<1>6. Answered(type, e, c, steps)
  BY <1>1, <1>2 DEF Answered, Around, Plain
<1> QED
  BY <1>1, <1>4, <1>5, <1>6 DEF Sound

LEMMA AfterOne ==
    ASSUME NEW f, NEW s1, NEW s2, NEW s3, NEW s4, NEW s5
    PROVE  <<f>> \o <<s1, s2, s3, s4, s5>> = <<f, s1, s2, s3, s4, s5>>
<1> DEFINE S == {f, s1, s2, s3, s4, s5}
           rest == <<s1, s2, s3, s4, s5>>
           all == <<f, s1, s2, s3, s4, s5>>
<1>1. <<f>> \in Seq(S) /\ rest \in Seq(S) /\ all \in Seq(S) /\ Len(<<f>>) = 1 /\ Len(rest) = 5 /\ Len(all) = 6
  OBVIOUS
<1>2. <<f>> \o rest \in Seq(S) /\ Len(<<f>> \o rest) = 6
  BY <1>1, ConcatProperties
<1>3. ASSUME NEW i \in 1 .. 6
      PROVE  (<<f>> \o rest)[i] = all[i]
  <2>1. (<<f>> \o rest)[i] = IF i <= 1 THEN <<f>>[i] ELSE rest[i - 1]
    BY <1>1, ConcatProperties
  <2>2. i = 1 \/ i = 2 \/ i = 3 \/ i = 4 \/ i = 5 \/ i = 6
    OBVIOUS
  <2> QED
    BY <2>1, <2>2
<1> QED
  BY <1>1, <1>2, <1>3, SeqEqual

(* The fields of a step which Around looks at. *)
Is(s, do, dir, parts, after, on, abort, runs) ==
  /\ s.do = do /\ s.dir = dir /\ s.parts = parts /\ s.after = after /\ s.on = on /\ s.abort = abort
  /\ s.ok = {0} /\ s.lost = FALSE /\ s.closes = 0 /\ s.runs = runs

LEMMA FiveSteps ==
    ASSUME NEW s1, NEW s2, NEW s3, NEW s4, NEW s5, NEW progs,
           Is(s1, "mkdir", "mnt", {"this"}, {}, "any", TRUE, {}),
           Is(s2, "mount", "mnt", {"this"}, {}, "inactive", FALSE, {"mount"}),
           Is(s5, "rmdir", "mnt", {"this"}, {}, "any", FALSE, {})
    PROVE  /\ /\ Is(s3, "run", "none", {"this"}, {2}, "active", FALSE, progs)
              /\ Is(s4, "umount", "mnt", {"this"}, {2}, "active", FALSE, {"umount"})
              => Around(<<s1, s2, s3, s4, s5>>, 0, progs)
           /\ \A f : /\ Is(s3, "run", "none", {"this"}, {3}, "active", FALSE, progs)
                     /\ Is(s4, "umount", "mnt", {"this"}, {3}, "active", FALSE, {"umount"})
                     => Around(<<f, s1, s2, s3, s4, s5>>, 1, progs)
BY DEF Around, Is

LEMMA MountsAround ==
    ASSUME NEW c, NEW progs, ~c.busy
    PROVE  /\ Around(AroundMount(c, 0, Command(progs, "active")), 0, progs)
           /\ Around(<<Find>> \o AroundMount(c, 1, Command(progs, "active")), 1, progs)
           /\ (<<Find>> \o AroundMount(c, 1, Command(progs, "active")))[1] = Find
<1>1. /\ Is(MkDir("mnt"), "mkdir", "mnt", {"this"}, {}, "any", TRUE, {})
      /\ Is(Mount("mnt"), "mount", "mnt", {"this"}, {}, "inactive", FALSE, {"mount"})
      /\ Is(RmDir("mnt"), "rmdir", "mnt", {"this"}, {}, "any", FALSE, {})
  BY DEF Is, MkDir, Mount, RmDir, Step
<1> DEFINE run(n) == [Command(progs, "active") EXCEPT !.after = {n}, !.abort = FALSE]
           umounted(n) == [Umount("mnt") EXCEPT !.after = {n}]
<1>2. ASSUME NEW n
      PROVE  /\ Is(run(n), "run", "none", {"this"}, {n}, "active", FALSE, progs)
             /\ Is(umounted(n), "umount", "mnt", {"this"}, {n}, "active", FALSE, {"umount"})
  BY DEF Is, Command, Umount, Step
<1>3. AroundMount(c, 0, Command(progs, "active")) = <<MkDir("mnt"), Mount("mnt"), run(2), umounted(2), RmDir("mnt")>>
  BY DEF AroundMount
<1>4. AroundMount(c, 1, Command(progs, "active")) = <<MkDir("mnt"), Mount("mnt"), run(3), umounted(3), RmDir("mnt")>>
  BY DEF AroundMount
<1> HIDE DEF run, umounted
<1>5. <<Find>> \o AroundMount(c, 1, Command(progs, "active"))
        = <<Find, MkDir("mnt"), Mount("mnt"), run(3), umounted(3), RmDir("mnt")>>
  <2>1. <<Find>> \o <<MkDir("mnt"), Mount("mnt"), run(3), umounted(3), RmDir("mnt")>>
          = <<Find, MkDir("mnt"), Mount("mnt"), run(3), umounted(3), RmDir("mnt")>>
    BY AfterOne
  <2> QED
    BY <1>4, <2>1
<1>6. Around(AroundMount(c, 0, Command(progs, "active")), 0, progs)
  <2>1. /\ Is(run(2), "run", "none", {"this"}, {2}, "active", FALSE, progs)
        /\ Is(umounted(2), "umount", "mnt", {"this"}, {2}, "active", FALSE, {"umount"})
    BY <1>2
  <2> QED
    BY <1>1, <1>3, <2>1, FiveSteps
<1>7. Around(<<Find>> \o AroundMount(c, 1, Command(progs, "active")), 1, progs)
  <2>1. /\ Is(run(3), "run", "none", {"this"}, {3}, "active", FALSE, progs)
        /\ Is(umounted(3), "umount", "mnt", {"this"}, {3}, "active", FALSE, {"umount"})
    BY <1>2
  <2> QED
    BY <1>1, <1>5, <2>1, FiveSteps
<1> QED
  BY <1>5, <1>6, <1>7

LEMMA AroundMountIsSound ==
    ASSUME NEW type, NEW e, NEW c, NEW progs, c.op # "check_repair", progs \subseteq e,
           ~c.busy => {"mount", "umount"} \subseteq e, c.busy \in BOOLEAN
    PROVE  Sound(type, e, c, AroundMount(c, 0, Command(progs, "active")))
<1>1. CASE c.busy
  BY <1>1, OneCommand DEF AroundMount
<1>2. CASE ~c.busy
  BY <1>2, MountsAround, AroundIsSound
<1> QED
  BY <1>1, <1>2

(* The resize of a btrfs looks up its devices, and when it is mounted      *)
(* where.                                                                  *)
LEMMA TwoPlain ==
    ASSUME NEW type, NEW e, NEW c, NEW s1, NEW s2, c.op # "check_repair",
           Plain(type, e, c, s1), Plain(type, e, c, s2)
    PROVE  Sound(type, e, c, <<s1>> \o <<s2>>) /\ <<s1>> \o <<s2>> = <<s1, s2>>
<1> DEFINE S == {s1, s2}
           steps == <<s1>> \o <<s2>>
<1>1. <<s1>> \in Seq(S) /\ <<s2>> \in Seq(S) /\ <<s1, s2>> \in Seq(S) /\ Len(<<s1>>) = 1 /\ Len(<<s2>>) = 1
  OBVIOUS
<1>2. steps \in Seq(S) /\ Len(steps) = 2 /\ steps[1] = s1 /\ steps[2] = s2
  BY <1>1, ConcatProperties
<1>3. steps = <<s1, s2>>
  <2>1. Len(<<s1, s2>>) = 2 /\ \A i \in 1 .. 2 : i = 1 \/ i = 2
    OBVIOUS
  <2>2. \A i \in 1 .. 2 : steps[i] = <<s1, s2>>[i]
    BY <1>2, <2>1
  <2> HIDE DEF steps
  <2> QED
    BY <1>1, <1>2, <2>1, <2>2, SeqEqual
<1>4. DOMAIN steps = 1 .. 2 /\ \A j \in 1 .. 2 : j = 1 \/ j = 2
  BY <1>2
<1> HIDE DEF steps
<1>5. Sound(type, e, c, steps)
  BY <1>2, <1>4, PlainIsSound
<1> QED
  BY <1>3, <1>5 DEF steps

LEMMA ThreePlain ==
    ASSUME NEW type, NEW e, NEW c, NEW s1, NEW s2, NEW s3, c.op # "check_repair",
           Plain(type, e, c, s1), Plain(type, e, c, s2), Plain(type, e, c, s3)
    PROVE  Sound(type, e, c, <<s1, s2>> \o <<s3>>)
<1> DEFINE S == {s1, s2, s3}
           steps == <<s1, s2>> \o <<s3>>
<1>1. <<s1, s2>> \in Seq(S) /\ <<s3>> \in Seq(S) /\ Len(<<s1, s2>>) = 2 /\ Len(<<s3>>) = 1
  OBVIOUS
<1>2. steps \in Seq(S) /\ Len(steps) = 3
  BY <1>1, ConcatProperties
<1>3. steps[1] = s1 /\ steps[2] = s2 /\ steps[3] = s3
  BY <1>1, ConcatProperties
<1>4. DOMAIN steps = 1 .. 3 /\ \A j \in 1 .. 3 : j = 1 \/ j = 2 \/ j = 3
  BY <1>2
<1> HIDE DEF steps
<1>5. Sound(type, e, c, steps)
  BY <1>2, <1>3, <1>4, PlainIsSound
<1> QED
  BY <1>5 DEF steps

LEMMA BtrfsResizeIsSound ==
    ASSUME NEW type, NEW e, NEW c, c.op # "check_repair", "btrfs" \in e, {"mount", "umount"} \subseteq e,
           c.busy \in BOOLEAN
    PROVE  Sound(type, e, c, BtrfsResize(c))
<1> DEFINE progs == {"btrfs"}
           command == Command(progs, "active")
<1>1. CASE c.busy
  <2>1. AroundMount(c, 1, command) = <<command>>
    BY <1>1 DEF AroundMount
  <2>2. Plain(type, e, c, Find) /\ Plain(type, e, c, command)
    BY <1>1, PlainFind, PlainCommand
  <2>3. <<Find>> \o <<Find>> = <<Find, Find>>
    BY <2>2, TwoPlain
  <2>4. Sound(type, e, c, <<Find, Find>> \o <<command>>)
    BY <2>2, ThreePlain
  <2> QED
    BY <1>1, <2>1, <2>3, <2>4, Zenon DEF BtrfsResize
<1>2. CASE ~c.busy
  <2>1. <<Find>> \o <<>> = <<Find>>
    <3>1. <<Find>> \in Seq({Find})
      OBVIOUS
    <3> QED
      BY <3>1, ConcatEmptySeq
  <2>2. Around(<<Find>> \o AroundMount(c, 1, command), 1, progs)
    BY <1>2, MountsAround
  <2>3. (<<Find>> \o AroundMount(c, 1, command))[1] = Find
    BY <1>2, MountsAround
  <2> DEFINE steps == <<Find>> \o AroundMount(c, 1, command)
  <2>4. \A j \in 1 .. 1 : Plain(type, e, c, steps[j])
    BY <2>3, PlainFind
  <2> HIDE DEF steps
  <2>5. Sound(type, e, c, steps)
    BY <1>2, <2>2, <2>4, AroundIsSound DEF steps
  <2> QED
    BY <1>2, <2>1, <2>5, Zenon DEF steps, BtrfsResize
<1> QED
  BY <1>1, <1>2

(* The copy of an XFS: its ten steps, of which the second, third, fourth   *)
(* and fifth are taken back by the tenth, ninth, eighth and seventh.       *)
XfsSteps(steps) ==
  LET is(i, do, dir, parts, after, on, abort, lost, runs) ==
        /\ steps[i].do = do /\ steps[i].dir = dir /\ steps[i].parts = parts /\ steps[i].after = after
        /\ steps[i].on = on /\ steps[i].abort = abort /\ steps[i].lost = lost /\ steps[i].runs = runs
        /\ steps[i].ok = {0} /\ steps[i].closes = 0
  IN  /\ Len(steps) = 10 /\ DOMAIN steps = 1 .. 10
      /\ is(1, "run", "none", {"other"}, {}, "inactive", TRUE, FALSE, {"mkfs.xfs"})
      /\ is(2, "mkdir", "src", {"this"}, {}, "any", TRUE, FALSE, {})
      /\ is(3, "mkdir", "dest", {"this"}, {}, "any", FALSE, FALSE, {})
      /\ is(4, "mount", "src", {"this"}, {3}, "inactive", FALSE, FALSE, {"mount"})
      /\ is(5, "mount", "dest", {"other"}, {3, 4}, "inactive", FALSE, FALSE, {"mount"})
      /\ is(6, "run", "none", {"this", "other"}, {5}, "active", FALSE, TRUE, {"xfsdump", "xfsrestore"})
      /\ is(7, "umount", "dest", {"other"}, {5}, "active", FALSE, TRUE, {"umount"})
      /\ is(8, "umount", "src", {"this"}, {4}, "active", FALSE, FALSE, {"umount"})
      /\ is(9, "rmdir", "dest", {"this"}, {3}, "any", FALSE, FALSE, {})
      /\ is(10, "rmdir", "src", {"this"}, {}, "any", FALSE, FALSE, {})

LEMMA XfsStepsSound ==
    ASSUME NEW e, NEW c, NEW steps, XfsSteps(steps), c.op = "copy", ~c.busy,
           {"mount", "umount", "xfsdump", "xfsrestore", "mkfs.xfs"} \subseteq e
    PROVE  Sound("xfs", e, c, steps)
<1>1. Len(steps) = 10 /\ DOMAIN steps = 1 .. 10
  BY DEF XfsSteps
<1>2. \A j \in 1 .. 10 : j \in {1, 2, 3, 4, 5, 6, 7, 8, 9, 10}
  OBVIOUS
<1>3. \A k \in 3 .. 10 : ~steps[k].abort
  <2>1. \A k \in 3 .. 10 : k \in {3, 4, 5, 6, 7, 8, 9, 10}
    OBVIOUS
  <2> QED
    BY <2>1 DEF XfsSteps
<1>4. Undoes(steps, 2, 10) /\ Undoes(steps, 3, 9)
  BY <1>3 DEF XfsSteps, Undoes
<1>5. Undoes(steps, 4, 8) /\ Undoes(steps, 5, 7)
  BY <1>3 DEF XfsSteps, Undoes
<1>6. Paired(steps)
  <2>1. \A j \in 1 .. 10 : /\ steps[j].do = "mkdir" => j \in {2, 3}
                           /\ steps[j].do = "mount" => j \in {4, 5}
                           /\ steps[j].do = "umount" => j \in {7, 8}
                           /\ steps[j].do = "rmdir" => j \in {9, 10}
    BY <1>2 DEF XfsSteps
  <2>2. \A i \in DOMAIN steps : steps[i].do \in {"mkdir", "mount"} => \E j \in DOMAIN steps : Undoes(steps, i, j)
    BY <1>1, <1>4, <1>5, <2>1
  <2>3. \A i, j \in DOMAIN steps :
          /\ steps[i].do = "mkdir" /\ steps[j].do = "mkdir" /\ i # j => steps[i].dir # steps[j].dir
          /\ steps[i].do = "mount" /\ steps[j].do = "mount" /\ i # j => steps[i].parts # steps[j].parts
          /\ steps[i].do = "umount" /\ steps[j].do = "rmdir" /\ steps[i].dir = steps[j].dir => i < j
    BY <1>1, <2>1 DEF XfsSteps
  <2>4. \A j \in DOMAIN steps :
          /\ steps[j].do \in {"mkdir", "rmdir"} => steps[j].dir \in DOMAIN NoPlace
          /\ steps[j].do = "mount" =>
              \E i \in DOMAIN steps : i < j /\ steps[i].do = "mkdir" /\ steps[i].dir = steps[j].dir
          /\ steps[j].do = "umount" => \E i \in DOMAIN steps : Undoes(steps, i, j) /\ i \in steps[j].after
          /\ steps[j].do \in {"mount", "umount"} => \E which \in {"this", "other"} : steps[j].parts = {which}
    BY <1>1, <1>5, <2>1 DEF XfsSteps, NoPlace
  <2> QED
    BY <2>2, <2>3, <2>4 DEF Paired
<1>7. Placed(c, steps)
  <2>1. \A k \in DOMAIN steps : (k < 8 => ~Undoes(steps, 4, k)) /\ (k < 7 => ~Undoes(steps, 5, k))
    BY <1>1, <1>2 DEF XfsSteps, Undoes
  <2>2. 4 \in Needed(steps, 6) /\ 5 \in Needed(steps, 6) /\ 5 \in Needed(steps, 7) /\ 4 \in Needed(steps, 8)
    BY DEF Needed, XfsSteps
  <2>3. \A j \in DOMAIN steps : steps[j].on = "inactive" => j \in {1, 4, 5}
    BY <1>1, <1>2 DEF XfsSteps
  <2>4. \A j \in DOMAIN steps : steps[j].on = "active" => j \in {6, 7, 8}
    BY <1>1, <1>2 DEF XfsSteps
  <2>5. ASSUME NEW j \in DOMAIN steps, NEW which \in steps[j].parts
        PROVE  which = "this" \/ (which = "other" /\ c.op = "copy")
    BY <1>1, <1>2 DEF XfsSteps
  <2>6. ASSUME NEW j \in DOMAIN steps, NEW which \in steps[j].parts, steps[j].on = "inactive"
        PROVE  \A i \in DOMAIN steps : i < j /\ steps[i].do = "mount" => which \notin steps[i].parts
    BY <1>1, <1>2, <2>3, <2>6 DEF XfsSteps
  <2>7. ASSUME NEW j \in DOMAIN steps, NEW which \in steps[j].parts, steps[j].on = "active"
        PROVE  \E i \in Needed(steps, j) :
                 /\ steps[i].do = "mount" /\ which \in steps[i].parts
                 /\ \A k \in DOMAIN steps : k < j => ~Undoes(steps, i, k)
    <3>1. CASE which = "this" /\ j \in {6, 8}
      <4>1. 4 \in Needed(steps, j) /\ steps[4].do = "mount" /\ which \in steps[4].parts
        BY <2>2, <3>1 DEF XfsSteps
      <4>2. \A k \in DOMAIN steps : k < j => ~Undoes(steps, 4, k)
        BY <1>1, <2>1, <3>1
      <4> QED
        BY <4>1, <4>2
    <3>2. CASE which = "other" /\ j \in {6, 7}
      <4>1. 5 \in Needed(steps, j) /\ steps[5].do = "mount" /\ which \in steps[5].parts
        BY <2>2, <3>2 DEF XfsSteps
      <4>2. \A k \in DOMAIN steps : k < j => ~Undoes(steps, 5, k)
        BY <1>1, <2>1, <3>2
      <4> QED
        BY <4>1, <4>2
    <3> QED
      BY <2>4, <2>7, <3>1, <3>2 DEF XfsSteps
  <2>8. \A j \in DOMAIN steps : steps[j].do = "mount" => steps[j].on = "inactive"
    BY <1>1, <1>2 DEF XfsSteps
  <2> QED
    BY <2>5, <2>6, <2>7, <2>8 DEF Placed
<1>8. Answered("xfs", e, c, steps)
  BY <1>1, <1>2 DEF Answered, XfsSteps
<1> QED
  BY <1>1, <1>6, <1>7, <1>8 DEF Sound

IsLost(s, do, dir, parts, after, on, runs) ==
  /\ s.do = do /\ s.dir = dir /\ s.parts = parts /\ s.after = after /\ s.on = on /\ s.abort = FALSE
  /\ s.ok = {0} /\ s.lost = TRUE /\ s.closes = 0 /\ s.runs = runs

LEMMA TenSteps ==
    ASSUME NEW s1, NEW s2, NEW s3, NEW s4, NEW s5, NEW s6, NEW s7, NEW s8, NEW s9, NEW s10,
           Is(s1, "run", "none", {"other"}, {}, "inactive", TRUE, {"mkfs.xfs"}),
           Is(s2, "mkdir", "src", {"this"}, {}, "any", TRUE, {}),
           Is(s3, "mkdir", "dest", {"this"}, {}, "any", FALSE, {}),
           Is(s4, "mount", "src", {"this"}, {3}, "inactive", FALSE, {"mount"}),
           Is(s5, "mount", "dest", {"other"}, {3, 4}, "inactive", FALSE, {"mount"}),
           IsLost(s6, "run", "none", {"this", "other"}, {5}, "active", {"xfsdump", "xfsrestore"}),
           IsLost(s7, "umount", "dest", {"other"}, {5}, "active", {"umount"}),
           Is(s8, "umount", "src", {"this"}, {4}, "active", FALSE, {"umount"}),
           Is(s9, "rmdir", "dest", {"this"}, {3}, "any", FALSE, {}),
           Is(s10, "rmdir", "src", {"this"}, {}, "any", FALSE, {})
    PROVE  XfsSteps(<<s1, s2, s3, s4, s5, s6, s7, s8, s9, s10>>)
<1> DEFINE steps == <<s1, s2, s3, s4, s5, s6, s7, s8, s9, s10>>
<1>1. Len(steps) = 10 /\ DOMAIN steps = 1 .. 10
  OBVIOUS
<1>2. /\ steps[1] = s1 /\ steps[2] = s2 /\ steps[3] = s3 /\ steps[4] = s4 /\ steps[5] = s5
      /\ steps[6] = s6 /\ steps[7] = s7 /\ steps[8] = s8 /\ steps[9] = s9 /\ steps[10] = s10
  OBVIOUS
<1> HIDE DEF steps
<1>3. XfsSteps(steps)
  BY <1>1, <1>2 DEF XfsSteps, Is, IsLost
<1> QED
  BY <1>3 DEF steps

LEMMA XfsCopyIsSound ==
    ASSUME NEW e, NEW c, c.op = "copy", ~c.busy,
           {"mount", "umount", "xfsdump", "xfsrestore", "mkfs.xfs"} \subseteq e
    PROVE  Sound("xfs", e, c, XfsCopy)
<1> DEFINE s1 == [Command({"mkfs.xfs"}, "inactive") EXCEPT !.parts = {"other"}]
           s2 == MkDir("src")
           s3 == [MkDir("dest") EXCEPT !.abort = FALSE]
           s4 == [Mount("src") EXCEPT !.after = {3}]
           s5 == [Mount("dest") EXCEPT !.after = {3, 4}, !.parts = {"other"}]
           s6 == [Command({"xfsdump", "xfsrestore"}, "active") EXCEPT !.after = {5}, !.parts = {"this", "other"},
                                                                      !.abort = FALSE, !.lost = TRUE]
           s7 == [Umount("dest") EXCEPT !.after = {5}, !.parts = {"other"}, !.lost = TRUE]
           s8 == [Umount("src") EXCEPT !.after = {4}]
           s9 == [RmDir("dest") EXCEPT !.after = {3}]
           s10 == RmDir("src")
<1>1. XfsCopy = <<s1, s2, s3, s4, s5, s6, s7, s8, s9, s10>>
  BY Zenon DEF XfsCopy
<1>2. Is(s1, "run", "none", {"other"}, {}, "inactive", TRUE, {"mkfs.xfs"})
  BY DEF Is, Command, Step
<1>3. Is(s2, "mkdir", "src", {"this"}, {}, "any", TRUE, {})
  BY DEF Is, MkDir, Step
<1>4. Is(s3, "mkdir", "dest", {"this"}, {}, "any", FALSE, {})
  BY DEF Is, MkDir, Step
<1>5. Is(s4, "mount", "src", {"this"}, {3}, "inactive", FALSE, {"mount"})
  BY DEF Is, Mount, Step
<1>6. Is(s5, "mount", "dest", {"other"}, {3, 4}, "inactive", FALSE, {"mount"})
  BY DEF Is, Mount, Step
<1>7. IsLost(s6, "run", "none", {"this", "other"}, {5}, "active", {"xfsdump", "xfsrestore"})
  BY DEF IsLost, Command, Step
<1>8. IsLost(s7, "umount", "dest", {"other"}, {5}, "active", {"umount"})
  BY DEF IsLost, Umount, Step
<1>9. Is(s8, "umount", "src", {"this"}, {4}, "active", FALSE, {"umount"})
  BY DEF Is, Umount, Step
<1>10. Is(s9, "rmdir", "dest", {"this"}, {3}, "any", FALSE, {})
  BY DEF Is, RmDir, Step
<1>11. Is(s10, "rmdir", "src", {"this"}, {}, "any", FALSE, {})
  BY DEF Is, RmDir, Step
<1> HIDE DEF s1, s2, s3, s4, s5, s6, s7, s8, s9, s10
<1>12. XfsSteps(XfsCopy)
  BY <1>1, <1>2, <1>3, <1>4, <1>5, <1>6, <1>7, <1>8, <1>9, <1>10, <1>11, TenSteps
<1> QED
  BY <1>12, XfsStepsSound

-----------------------------------------------------------------------------
(* One driver after the other                                              *)

LEMMA FindIsSound ==
    ASSUME NEW type, NEW e, NEW c, c.op # "check_repair"
    PROVE  Sound(type, e, c, <<Find>>)
BY PlainFind, PlainIsSound

LEMMA CopyIsSound ==
    ASSUME NEW type, NEW e, NEW c, NEW prog, c.op = "copy", prog \in e, ~c.busy
    PROVE  Sound(type, e, c, CopyWith(prog))
<1> DEFINE step == [Command({prog}, "inactive") EXCEPT !.parts = {"this", "other"}]
<1>1. Plain(type, e, c, step)
  BY DEF Plain, Command, Step
<1>2. CopyWith(prog) = <<step>>
  BY DEF CopyWith
<1> HIDE DEF step
<1> QED
  BY <1>1, <1>2, PlainIsSound

(* The second resize gets the detail of the simulation. *)
LEMMA NtfsResizeIsSound ==
    ASSUME NEW e, NEW c, c.op \in {"grow", "shrink"}, "ntfsresize" \in e, ~c.busy
    PROVE  Sound("ntfs", e, c, NtfsResize)
<1> DEFINE first == Command({"ntfsresize"}, "inactive")
           second == [Command({"ntfsresize"}, "inactive") EXCEPT !.closes = 1]
<1>1. Plain("ntfs", e, c, first)
  BY PlainCommand
<1>2. Plain("ntfs", e, c, second)
  BY DEF Plain, Command, Step
<1>3. Sound("ntfs", e, c, <<first>> \o <<second>>)
  <2> HIDE DEF first, second
  <2> QED
    BY <1>1, <1>2, TwoPlain
<1> QED
  BY <1>3, Zenon DEF NtfsResize, Run

LEMMA FatReadIsSound ==
    ASSUME NEW e, NEW c, c.op # "check_repair", "mdir" \in e, "minfo" \in e, ~c.busy
    PROVE  Sound("fat", e, c, FatRead)
<1> DEFINE first == Command({"mdir"}, "inactive")
           second == Command({"minfo"}, "inactive")
<1>1. Plain("fat", e, c, first) /\ Plain("fat", e, c, second)
  BY PlainCommand
<1>2. Sound("fat", e, c, <<first>> \o <<second>>)
  <2> HIDE DEF first, second
  <2> QED
    BY <1>1, TwoPlain
<1> QED
  BY <1>2, Zenon DEF FatRead, Run

LEMMA FatLabelIsSound ==
    ASSUME NEW e, NEW c, c.op # "check_repair", "fatlabel" \in e, "mlabel" \in e, ~c.busy
    PROVE  Sound("fat", e, c, FatLabel(c))
<1>1. Sound("fat", e, c, Run("mlabel")) /\ Sound("fat", e, c, Run("fatlabel"))
  BY RunIsSound
<1> QED
  BY <1>1, Zenon DEF FatLabel

LEMMA UdfCreateIsSound ==
    ASSUME NEW e, NEW c, c.op # "check_repair", "mkudffs" \in e, ~c.busy
    PROVE  Sound("udf", e, c, UdfCreate)
<1> DEFINE make == Command({"mkudffs"}, "inactive")
<1>1. Plain("udf", e, c, Find) /\ Plain("udf", e, c, make)
  BY PlainFind, PlainCommand
<1>2. Sound("udf", e, c, <<Find>> \o <<make>>)
  <2> HIDE DEF make
  <2> QED
    BY <1>1, TwoPlain
<1> QED
  BY <1>2, Zenon DEF UdfCreate, Run

LEMMA ReiserfsResizeIsSound ==
    ASSUME NEW e, NEW c, c.op \in {"grow", "shrink"}, "resize_reiserfs" \in e
    PROVE  Sound("reiserfs", e, c, ReiserfsResize)
<1> DEFINE step == [Command({"resize_reiserfs"}, "any") EXCEPT !.ok = {0, 1}]
<1>1. Plain("reiserfs", e, c, step)
  BY DEF Plain, Command, Step
<1> HIDE DEF step
<1>2. Sound("reiserfs", e, c, <<step>>)
  BY <1>1, PlainIsSound
<1> QED
  BY <1>2 DEF step, ReiserfsResize

(* Only an ext4 of 16 TiB or more runs tune2fs. *)
LEMMA Ext2ResizeIsSound ==
    ASSUME NEW type, NEW e, NEW c, c.op # "check_repair", "resize2fs" \in e,
           type = "ext4" /\ c.huge => Gap(type, c) \/ "tune2fs" \in e
    PROVE  Sound(type, e, c, Ext2Resize(type, c))
<1> DEFINE tune == Command({"tune2fs"}, "any")
           resize == Command({"resize2fs"}, "any")
<1>1. Plain(type, e, c, resize)
  BY PlainCommand
<1>2. CASE type = "ext4" /\ c.huge
  <2>1. Plain(type, e, c, tune) /\ Plain(type, e, c, Find)
    BY <1>2, PlainCommand, PlainFind
  <2> HIDE DEF tune, resize
  <2>2. Sound(type, e, c, <<tune, Find>> \o <<resize>>)
    BY <1>1, <2>1, ThreePlain
  <2> QED
    BY <1>2, <2>2, Zenon DEF Ext2Resize, tune, resize, RunAnywhere
<1>3. CASE ~(type = "ext4" /\ c.huge)
  <2>1. <<>> \o RunAnywhere("resize2fs") = RunAnywhere("resize2fs")
    <3>1. RunAnywhere("resize2fs") \in Seq({resize})
      BY DEF RunAnywhere
    <3> QED
      BY <3>1, ConcatEmptySeq
  <2>2. Sound(type, e, c, RunAnywhere("resize2fs"))
    BY RunAnywhereIsSound
  <2> QED
    BY <1>3, <2>1, <2>2, Zenon DEF Ext2Resize
<1> QED
  BY <1>2, <1>3

LEMMA BcachefsIsSound ==
    ASSUME NEW e, NEW c \in Calls, Offers("bcachefs", e, c)
    PROVE  c.op \in DOMAIN Bcachefs(c) /\ Sound("bcachefs", e, c, Bcachefs(c)[c.op])
<1> DEFINE cap == Capability(c)
<1>1. Rules("bcachefs") = bcachefs
  BY DEF Rules, supported_filesystem, SupportedFileSystems
<1>2. ASSUME NEW r \in bcachefs
      PROVE  \/ r \in Internal({"busy", "move", "copy"})
             \/ r \in With({"bcachefs"}, {"online_read", "create", "create_with_label", "read_label", "read_uuid",
                  "check"})
             \/ r \in Growing({"bcachefs"})
  BY DEF bcachefs
<1>3. \A r \in bcachefs : Known(r.how)
  BY <1>2, Knowing
<1>4. PICK r \in bcachefs : Serves(r, e, cap)
  BY <1>1, <1>3, Offering DEF Offers
<1>5. Served(r, e, cap)
  BY <1>4, Serving
<1> HIDE DEF cap
<1>6. \/ cap \in {"online_read", "create", "create_with_label", "read_label", "read_uuid", "check"} /\ {"bcachefs"}
           \subseteq e
      \/ cap \in {"grow", "online_grow"} /\ {"bcachefs"} \subseteq e
  BY <1>2, <1>5, Zenon DEF Served
<1>7. Asked(c, cap)
  BY AskedIs DEF cap, Offers
<1>8. /\ c.op \in {"create", "check_repair", "set_used_sectors", "grow", "read_label", "read_uuid"}
      /\ "bcachefs" \in e
      /\ c.op = "create" => ~c.busy
      /\ c.op = "check_repair" => ~c.busy
      /\ c.op = "set_used_sectors" => c.busy
  BY <1>6, <1>7 DEF Asked, Operations
<1>9. CASE c.op = "create"
  BY <1>8, <1>9, RunIsSound DEF Bcachefs
<1>10. CASE c.op = "check_repair"
  BY <1>8, <1>10, CheckIsSound DEF Bcachefs
<1>11. CASE c.op \in {"grow", "read_label", "read_uuid"}
  BY <1>8, <1>11, RunAnywhereIsSound DEF Bcachefs
<1>12. CASE c.op = "set_used_sectors"
  BY <1>8, <1>12, OneCommand DEF Bcachefs
<1> QED
  BY <1>8, <1>9, <1>10, <1>11, <1>12

LEMMA BtrfsIsSound ==
    ASSUME NEW e, NEW c \in Calls, Offers("btrfs", e, c)
    PROVE  c.op \in DOMAIN Btrfs(c) /\ Sound("btrfs", e, c, Btrfs(c)[c.op])
<1> DEFINE cap == Capability(c)
<1>1. Rules("btrfs") = btrfs
  BY DEF Rules, supported_filesystem, SupportedFileSystems
<1>2. ASSUME NEW r \in btrfs
      PROVE  \/ r \in Internal({"busy"})
             \/ r \in Formats("mkfs.btrfs")
             \/ r \in With({"btrfs"}, {"busy", "read", "online_read", "read_label", "read_uuid", "check",
                  "write_label", "online_write_label"})
             \/ r \in Growing({"btrfs", "mount", "umount", "btrfs module"})
             \/ r \in Shrinking({"btrfs", "mount", "umount", "btrfs module"})
             \/ r \in With({"btrfstune", "btrfstune -u"}, {"write_uuid"})
             \/ r \in CopiedWhen({"btrfs"})
  BY DEF btrfs
<1>3. \A r \in btrfs : Known(r.how)
  BY <1>2, Knowing
<1>4. PICK r \in btrfs : Serves(r, e, cap)
  BY <1>1, <1>3, Offering DEF Offers
<1>5. Served(r, e, cap)
  BY <1>4, Serving
<1> HIDE DEF cap
<1>6. \/ cap \in {"create", "create_with_label"} /\ {"mkfs.btrfs"} \subseteq e
      \/ cap \in {"busy", "read", "online_read", "read_label", "read_uuid", "check", "write_label",
           "online_write_label"} /\ {"btrfs"} \subseteq e
      \/ cap \in {"grow", "online_grow"} /\ {"btrfs", "mount", "umount", "btrfs module"} \subseteq e
      \/ cap \in {"shrink", "online_shrink"} /\ {"btrfs", "mount", "umount", "btrfs module"} \subseteq e
      \/ cap \in {"write_uuid"} /\ {"btrfstune", "btrfstune -u"} \subseteq e
  BY <1>2, <1>5, Zenon DEF Served
<1>7. Asked(c, cap)
  BY AskedIs DEF cap, Offers
<1>8. /\ c.op \in {"create", "check_repair", "write_uuid", "write_label", "read_label", "read_uuid",
           "set_used_sectors", "grow", "shrink"}
      /\ c.busy \in BOOLEAN
      /\ c.op = "create" => ~c.busy /\ "mkfs.btrfs" \in e
      /\ c.op = "check_repair" => ~c.busy /\ "btrfs" \in e
      /\ c.op = "write_uuid" => ~c.busy /\ "btrfstune" \in e
      /\ c.op \in {"write_label", "read_label", "read_uuid", "set_used_sectors"} => "btrfs" \in e
      /\ c.op \in {"grow", "shrink"} => "btrfs" \in e /\ {"mount", "umount"} \subseteq e
  BY <1>6, <1>7 DEF Asked, Operations
<1>9. CASE c.op \in {"create", "write_uuid"}
  BY <1>8, <1>9, RunIsSound DEF Btrfs
<1>10. CASE c.op = "check_repair"
  BY <1>8, <1>10, CheckIsSound DEF Btrfs
<1>11. CASE c.op \in {"write_label", "read_label", "read_uuid", "set_used_sectors"}
  BY <1>8, <1>11, RunAnywhereIsSound DEF Btrfs
<1>12. CASE c.op \in {"grow", "shrink"}
  BY <1>8, <1>12, BtrfsResizeIsSound DEF Btrfs
<1> QED
  BY <1>8, <1>9, <1>10, <1>11, <1>12

LEMMA ExfatIsSound ==
    ASSUME NEW e, NEW c \in Calls, Offers("exfat", e, c)
    PROVE  c.op \in DOMAIN Exfat(c) /\ Sound("exfat", e, c, Exfat(c)[c.op])
<1> DEFINE cap == Capability(c)
<1>1. Rules("exfat") = exfat
  BY DEF Rules, supported_filesystem, SupportedFileSystems
<1>2. ASSUME NEW r \in exfat
      PROVE  \/ r \in Internal({"busy", "copy", "move", "online_read"})
             \/ r \in With({"dump.exfat"}, {"read"})
             \/ r \in With({"mkfs.exfat", "exfatprogs"}, {"create"})
             \/ r \in With({"tune.exfat"}, {"read_label", "write_label"})
             \/ r \in With({"tune.exfat", "tune.exfat -I"}, {"read_uuid", "write_uuid"})
             \/ r \in With({"fsck.exfat", "exfatprogs"}, {"check"})
  BY DEF exfat
<1>3. \A r \in exfat : Known(r.how)
  BY <1>2, Knowing
<1>4. PICK r \in exfat : Serves(r, e, cap)
  BY <1>1, <1>3, Offering DEF Offers
<1>5. Served(r, e, cap)
  BY <1>4, Serving
<1> HIDE DEF cap
<1>6. \/ cap \in {"read"} /\ {"dump.exfat"} \subseteq e
      \/ cap \in {"create"} /\ {"mkfs.exfat", "exfatprogs"} \subseteq e
      \/ cap \in {"read_label", "write_label"} /\ {"tune.exfat"} \subseteq e
      \/ cap \in {"read_uuid", "write_uuid"} /\ {"tune.exfat", "tune.exfat -I"} \subseteq e
      \/ cap \in {"check"} /\ {"fsck.exfat", "exfatprogs"} \subseteq e
  BY <1>2, <1>5, Zenon DEF Served
<1>7. Asked(c, cap)
  BY AskedIs DEF cap, Offers
<1>8. /\ c.op \in {"create", "check_repair", "set_used_sectors", "write_label", "write_uuid", "read_label",
           "read_uuid"}
      /\ c.op = "create" => ~c.busy /\ "mkfs.exfat" \in e
      /\ c.op = "check_repair" => ~c.busy /\ "fsck.exfat" \in e
      /\ c.op = "set_used_sectors" => ~c.busy /\ "dump.exfat" \in e
      /\ c.op \in {"write_label", "write_uuid"} => ~c.busy /\ "tune.exfat" \in e
      /\ c.op \in {"read_label", "read_uuid"} => "tune.exfat" \in e
  BY <1>6, <1>7 DEF Asked, Operations
<1>9. CASE c.op \in {"create", "write_label", "write_uuid", "set_used_sectors"}
  BY <1>8, <1>9, RunIsSound DEF Exfat
<1>10. CASE c.op = "check_repair"
  BY <1>8, <1>10, CheckIsSound DEF Exfat
<1>11. CASE c.op \in {"read_label", "read_uuid"}
  BY <1>8, <1>11, RunIsSound, SkipIsSound DEF Exfat
<1> QED
  BY <1>8, <1>9, <1>10, <1>11

LEMMA Ext2IsSound ==
    ASSUME NEW type \in {"ext2", "ext3", "ext4"}, NEW e, NEW c \in Calls, Offers(type, e, c)
    PROVE  c.op \in DOMAIN Ext2(type, c) /\ Sound(type, e, c, Ext2(type, c)[c.op])
<1> DEFINE cap == Capability(c)
           mkfs == "mkfs." \o type
<1>1. Rules(type) = ext2(type)
  BY DEF Rules, supported_filesystem, SupportedFileSystems
<1>2. ASSUME NEW r \in ext2(type)
      PROVE  \/ r \in Internal({"busy"})
             \/ r \in Formats(mkfs)
             \/ r \in With({"dumpe2fs"}, {"read", "online_read"})
             \/ r \in With({"tune2fs"}, {"read_uuid", "write_uuid"})
             \/ r \in With({"e2label"}, {"read_label", "write_label", "online_write_label"})
             \/ r \in With({"e2fsck"}, {"check"})
             \/ r \in With({"resize2fs", "tune2fs"}, {"grow"})
             \/ r \in Growing({"resize2fs", "tune2fs"})
             \/ r \in With({"resize2fs", "dumpe2fs"}, {"shrink"})
             \/ r \in CopiedWhen({"e2fsck"})
             \/ r \in With({"e2fsck", "e2image", "e2image -o"}, {"copy", "move"})
  BY DEF ext2
<1>3. \A r \in ext2(type) : Known(r.how)
  BY <1>2, Knowing
<1>4. PICK r \in ext2(type) : Serves(r, e, cap)
  BY <1>1, <1>3, Offering DEF Offers
<1>5. Served(r, e, cap)
  BY <1>4, Serving
<1> HIDE DEF cap, mkfs
<1>6. \/ cap \in {"create", "create_with_label"} /\ {mkfs} \subseteq e
      \/ cap \in {"read", "online_read"} /\ {"dumpe2fs"} \subseteq e
      \/ cap \in {"read_uuid", "write_uuid"} /\ {"tune2fs"} \subseteq e
      \/ cap \in {"read_label", "write_label", "online_write_label"} /\ {"e2label"} \subseteq e
      \/ cap \in {"check"} /\ {"e2fsck"} \subseteq e
      \/ cap \in {"grow"} /\ {"resize2fs", "tune2fs"} \subseteq e
      \/ cap \in {"grow", "online_grow"} /\ {"resize2fs", "tune2fs"} \subseteq e
      \/ cap \in {"shrink"} /\ {"resize2fs", "dumpe2fs"} \subseteq e
      \/ cap \in {"copy", "move"} /\ {"e2fsck", "e2image", "e2image -o"} \subseteq e
  BY <1>2, <1>5, Zenon DEF Served
<1>7. Asked(c, cap)
  BY AskedIs DEF cap, Offers
<1>8. /\ c.op \in {"create", "check_repair", "write_label", "write_uuid", "grow", "shrink", "move", "copy", "read_label",
                   "read_uuid", "set_used_sectors"}
      /\ c.op = "create" => ~c.busy /\ mkfs \in e
      /\ c.op = "check_repair" => ~c.busy /\ "e2fsck" \in e
      /\ c.op = "write_uuid" => ~c.busy /\ "tune2fs" \in e
      /\ c.op \in {"move", "copy"} => ~c.busy /\ "e2image" \in e
      /\ c.op \in {"write_label", "read_label"} => "e2label" \in e
      /\ c.op = "read_uuid" => "tune2fs" \in e
      /\ c.op = "set_used_sectors" => "dumpe2fs" \in e
      /\ c.op = "grow" => "resize2fs" \in e /\ "tune2fs" \in e
      /\ c.op = "shrink" => "resize2fs" \in e
  BY <1>6, <1>7 DEF Asked, Operations
<1>9. CASE c.op = "create"
  BY <1>8, <1>9, RunIsSound DEF Ext2, mkfs
<1>10. CASE c.op \in {"write_uuid", "move"}
  BY <1>8, <1>10, RunIsSound DEF Ext2
<1>11. CASE c.op = "check_repair"
  BY <1>8, <1>11, AcceptingIsSound DEF Ext2
<1>12. CASE c.op = "copy"
  BY <1>8, <1>12, CopyIsSound DEF Ext2
<1>13. CASE c.op \in {"write_label", "read_label", "read_uuid", "set_used_sectors"}
  BY <1>8, <1>13, RunAnywhereIsSound DEF Ext2
<1>14. CASE c.op \in {"grow", "shrink"}
  <2>1. type = "ext4" /\ c.huge => Gap(type, c) \/ "tune2fs" \in e
    BY <1>8, <1>14 DEF Gap
  <2>2. c.op \in DOMAIN Ext2(type, c) /\ Ext2(type, c)[c.op] = Ext2Resize(type, c)
    BY <1>14 DEF Ext2
  <2> QED
    BY <1>8, <1>14, <2>1, <2>2, Ext2ResizeIsSound
<1> QED
  BY <1>8, <1>9, <1>10, <1>11, <1>12, <1>13, <1>14

LEMMA F2fsIsSound ==
    ASSUME NEW e, NEW c \in Calls, Offers("f2fs", e, c)
    PROVE  c.op \in DOMAIN F2fs(c) /\ Sound("f2fs", e, c, F2fs(c)[c.op])
<1> DEFINE cap == Capability(c)
<1>1. Rules("f2fs") = f2fs
  BY DEF Rules, supported_filesystem, SupportedFileSystems
<1>2. ASSUME NEW r \in f2fs
      PROVE  \/ r \in Internal({"busy", "copy", "move", "online_read"})
             \/ r \in Formats("mkfs.f2fs")
             \/ r \in With({"dump.f2fs"}, {"read"})
             \/ r \in With({"fsck.f2fs"}, {"check"})
             \/ r \in With({"resize.f2fs"}, {"grow"})
  BY DEF f2fs
<1>3. \A r \in f2fs : Known(r.how)
  BY <1>2, Knowing
<1>4. PICK r \in f2fs : Serves(r, e, cap)
  BY <1>1, <1>3, Offering DEF Offers
<1>5. Served(r, e, cap)
  BY <1>4, Serving
<1> HIDE DEF cap
<1>6. \/ cap \in {"create", "create_with_label"} /\ {"mkfs.f2fs"} \subseteq e
      \/ cap \in {"read"} /\ {"dump.f2fs"} \subseteq e
      \/ cap \in {"check"} /\ {"fsck.f2fs"} \subseteq e
      \/ cap \in {"grow"} /\ {"resize.f2fs"} \subseteq e
  BY <1>2, <1>5, Zenon DEF Served
<1>7. Asked(c, cap)
  BY AskedIs DEF cap, Offers
<1>8. /\ c.op \in {"create", "check_repair", "grow", "set_used_sectors"}
      /\ c.op = "create" => ~c.busy /\ "mkfs.f2fs" \in e
      /\ c.op = "check_repair" => ~c.busy /\ "fsck.f2fs" \in e
      /\ c.op = "grow" => ~c.busy /\ "resize.f2fs" \in e
      /\ c.op = "set_used_sectors" => ~c.busy /\ "dump.f2fs" \in e
  BY <1>6, <1>7 DEF Asked, Operations
<1>9. CASE c.op \in {"create", "grow", "set_used_sectors"}
  BY <1>8, <1>9, RunIsSound DEF F2fs
<1>10. CASE c.op = "check_repair"
  BY <1>8, <1>10, CheckIsSound DEF F2fs
<1> QED
  BY <1>8, <1>9, <1>10

LEMMA Fat16IsSound ==
    ASSUME NEW e, NEW c \in Calls, Offers("fat", e, c)
    PROVE  c.op \in DOMAIN Fat16(c) /\ Sound("fat", e, c, Fat16(c)[c.op])
<1> DEFINE cap == Capability(c)
<1>1. Rules("fat") = fat16
  BY DEF Rules, supported_filesystem, SupportedFileSystems
<1>2. ASSUME NEW r \in fat16
      PROVE  \/ r \in Internal({"busy", "move", "copy", "online_read"})
             \/ r \in Formats("mkfs.fat")
             \/ r \in {Rule({"grow", "shrink"}, LIBPARTED, {})}
             \/ r \in With({"mdir"}, {"read_uuid"})
             \/ r \in With({"mdir", "minfo"}, {"read"})
             \/ r \in With({"fsck.fat"}, {"check"})
             \/ r \in With({"fatlabel"}, {"read_label"})
             \/ r \in With({"fatlabel", "mlabel"}, {"write_label"})
             \/ r \in With({"mlabel"}, {"write_uuid"})
  BY DEF fat16
<1>3. \A r \in fat16 : Known(r.how)
  BY <1>2, Knowing
<1>4. PICK r \in fat16 : Serves(r, e, cap)
  BY <1>1, <1>3, Offering DEF Offers
<1>5. Served(r, e, cap)
  BY <1>4, Serving
<1> HIDE DEF cap
<1>6. \/ cap \in {"create", "create_with_label"} /\ {"mkfs.fat"} \subseteq e
      \/ cap \in {"read_uuid"} /\ {"mdir"} \subseteq e
      \/ cap \in {"read"} /\ {"mdir", "minfo"} \subseteq e
      \/ cap \in {"check"} /\ {"fsck.fat"} \subseteq e
      \/ cap \in {"read_label"} /\ {"fatlabel"} \subseteq e
      \/ cap \in {"write_label"} /\ {"fatlabel", "mlabel"} \subseteq e
      \/ cap \in {"write_uuid"} /\ {"mlabel"} \subseteq e
  BY <1>2, <1>5, Zenon DEF Served
<1>7. Asked(c, cap)
  BY AskedIs DEF cap, Offers
<1>8. /\ c.op \in {"create", "check_repair", "write_label", "write_uuid", "read_label", "read_uuid",
           "set_used_sectors"}
      /\ c.op = "create" => ~c.busy /\ "mkfs.fat" \in e
      /\ c.op = "check_repair" => ~c.busy /\ "fsck.fat" \in e
      /\ c.op = "write_label" => ~c.busy /\ "fatlabel" \in e /\ "mlabel" \in e
      /\ c.op = "write_uuid" => ~c.busy /\ "mlabel" \in e
      /\ c.op = "read_label" => "fatlabel" \in e
      /\ c.op = "read_uuid" => "mdir" \in e
      /\ c.op = "set_used_sectors" => ~c.busy /\ "mdir" \in e /\ "minfo" \in e
  BY <1>6, <1>7 DEF Asked, Operations
<1>9. CASE c.op \in {"create", "write_uuid"}
  BY <1>8, <1>9, RunIsSound DEF Fat16
<1>10. CASE c.op = "write_label"
  BY <1>8, <1>10, FatLabelIsSound DEF Fat16
<1>11. CASE c.op = "check_repair"
  BY <1>8, <1>11, AcceptingIsSound DEF Fat16
<1>12. CASE c.op \in {"read_label", "read_uuid"}
  BY <1>8, <1>12, RunAnywhereIsSound DEF Fat16
<1>13. CASE c.op = "set_used_sectors"
  BY <1>8, <1>13, FatReadIsSound DEF Fat16
<1> QED
  BY <1>8, <1>9, <1>10, <1>11, <1>12, <1>13

LEMMA HfsIsSound ==
    ASSUME NEW e, NEW c \in Calls, Offers("hfs", e, c)
    PROVE  c.op \in DOMAIN Hfs(c) /\ Sound("hfs", e, c, Hfs(c)[c.op])
<1> DEFINE cap == Capability(c)
<1>1. Rules("hfs") = hfs
  BY DEF Rules, supported_filesystem, SupportedFileSystems
<1>2. ASSUME NEW r \in hfs
      PROVE  \/ r \in Internal({"busy", "copy", "move", "online_read"})
             \/ r \in Formats("hformat")
             \/ r \in {Rule({"read", "shrink"}, LIBPARTED, {})}
             \/ r \in With({"hfsck"}, {"check"})
  BY DEF hfs
<1>3. \A r \in hfs : Known(r.how)
  BY <1>2, Knowing
<1>4. PICK r \in hfs : Serves(r, e, cap)
  BY <1>1, <1>3, Offering DEF Offers
<1>5. Served(r, e, cap)
  BY <1>4, Serving
<1> HIDE DEF cap
<1>6. \/ cap \in {"create", "create_with_label"} /\ {"hformat"} \subseteq e
      \/ cap \in {"check"} /\ {"hfsck"} \subseteq e
  BY <1>2, <1>5, Zenon DEF Served
<1>7. Asked(c, cap)
  BY AskedIs DEF cap, Offers
<1>8. /\ c.op \in {"create", "check_repair"}
      /\ c.op = "create" => ~c.busy /\ "hformat" \in e
      /\ c.op = "check_repair" => ~c.busy /\ "hfsck" \in e
  BY <1>6, <1>7 DEF Asked, Operations
<1>9. CASE c.op = "create"
  BY <1>8, <1>9, RunIsSound DEF Hfs
<1>10. CASE c.op = "check_repair"
  BY <1>8, <1>10, CheckIsSound DEF Hfs
<1> QED
  BY <1>8, <1>9, <1>10

LEMMA HfsplusIsSound ==
    ASSUME NEW e, NEW c \in Calls, Offers("hfsplus", e, c)
    PROVE  c.op \in DOMAIN Hfsplus(c) /\ Sound("hfsplus", e, c, Hfsplus(c)[c.op])
<1> DEFINE cap == Capability(c)
<1>1. Rules("hfsplus") = hfsplus
  BY DEF Rules, supported_filesystem, SupportedFileSystems
<1>2. ASSUME NEW r \in hfsplus
      PROVE  \/ r \in Internal({"busy", "copy", "move", "online_read"})
             \/ r \in Formats("mkfs.hfsplus")
             \/ r \in {Rule({"read", "shrink"}, LIBPARTED, {})}
             \/ r \in With({"fsck.hfsplus"}, {"check"})
  BY DEF hfsplus
<1>3. \A r \in hfsplus : Known(r.how)
  BY <1>2, Knowing
<1>4. PICK r \in hfsplus : Serves(r, e, cap)
  BY <1>1, <1>3, Offering DEF Offers
<1>5. Served(r, e, cap)
  BY <1>4, Serving
<1> HIDE DEF cap
<1>6. \/ cap \in {"create", "create_with_label"} /\ {"mkfs.hfsplus"} \subseteq e
      \/ cap \in {"check"} /\ {"fsck.hfsplus"} \subseteq e
  BY <1>2, <1>5, Zenon DEF Served
<1>7. Asked(c, cap)
  BY AskedIs DEF cap, Offers
<1>8. /\ c.op \in {"create", "check_repair"}
      /\ c.op = "create" => ~c.busy /\ "mkfs.hfsplus" \in e
      /\ c.op = "check_repair" => ~c.busy /\ "fsck.hfsplus" \in e
  BY <1>6, <1>7 DEF Asked, Operations
<1>9. CASE c.op = "create"
  BY <1>8, <1>9, RunIsSound DEF Hfsplus
<1>10. CASE c.op = "check_repair"
  BY <1>8, <1>10, CheckIsSound DEF Hfsplus
<1> QED
  BY <1>8, <1>9, <1>10

LEMMA JfsIsSound ==
    ASSUME NEW e, NEW c \in Calls, Offers("jfs", e, c)
    PROVE  c.op \in DOMAIN Jfs(c) /\ Sound("jfs", e, c, Jfs(c)[c.op])
<1> DEFINE cap == Capability(c)
<1>1. Rules("jfs") = jfs
  BY DEF Rules, supported_filesystem, SupportedFileSystems
<1>2. ASSUME NEW r \in jfs
      PROVE  \/ r \in Internal({"busy"})
             \/ r \in Formats("mkfs.jfs")
             \/ r \in With({"jfs_debugfs"}, {"read", "online_read"})
             \/ r \in With({"jfs_tune"}, {"read_label", "write_label", "read_uuid", "write_uuid"})
             \/ r \in With({"jfs_fsck"}, {"check"})
             \/ r \in Growing({"mount", "umount", "jfs_fsck", "jfs module"})
             \/ r \in CopiedWhen({"jfs_fsck"})
  BY DEF jfs
<1>3. \A r \in jfs : Known(r.how)
  BY <1>2, Knowing
<1>4. PICK r \in jfs : Serves(r, e, cap)
  BY <1>1, <1>3, Offering DEF Offers
<1>5. Served(r, e, cap)
  BY <1>4, Serving
<1> HIDE DEF cap
<1>6. \/ cap \in {"create", "create_with_label"} /\ {"mkfs.jfs"} \subseteq e
      \/ cap \in {"read", "online_read"} /\ {"jfs_debugfs"} \subseteq e
      \/ cap \in {"read_label", "write_label", "read_uuid", "write_uuid"} /\ {"jfs_tune"} \subseteq e
      \/ cap \in {"check"} /\ {"jfs_fsck"} \subseteq e
      \/ cap \in {"grow", "online_grow"} /\ {"mount", "umount", "jfs_fsck", "jfs module"} \subseteq e
  BY <1>2, <1>5, Zenon DEF Served
<1>7. Asked(c, cap)
  BY AskedIs DEF cap, Offers
<1>8. /\ c.op \in {"create", "check_repair", "write_label", "write_uuid", "grow", "read_label", "read_uuid",
           "set_used_sectors"}
      /\ c.busy \in BOOLEAN
      /\ c.op = "create" => ~c.busy /\ "mkfs.jfs" \in e
      /\ c.op = "check_repair" => ~c.busy /\ "jfs_fsck" \in e
      /\ c.op \in {"write_label", "write_uuid"} => ~c.busy /\ "jfs_tune" \in e
      /\ c.op = "grow" => {"mount"} \subseteq e /\ {"mount", "umount"} \subseteq e
      /\ c.op \in {"read_label", "read_uuid"} => "jfs_tune" \in e
      /\ c.op = "set_used_sectors" => "jfs_debugfs" \in e
  BY <1>6, <1>7 DEF Asked, Operations
<1>9. CASE c.op \in {"create", "write_label", "write_uuid"}
  BY <1>8, <1>9, RunIsSound DEF Jfs
<1>10. CASE c.op = "check_repair"
  BY <1>8, <1>10, AcceptingIsSound DEF Jfs
<1>11. CASE c.op = "grow"
  BY <1>8, <1>11, AroundMountIsSound DEF Jfs
<1>12. CASE c.op \in {"read_label", "read_uuid", "set_used_sectors"}
  BY <1>8, <1>12, RunAnywhereIsSound DEF Jfs
<1> QED
  BY <1>8, <1>9, <1>10, <1>11, <1>12

LEMMA LinuxSwapIsSound ==
    ASSUME NEW e, NEW c \in Calls, Offers("linux_swap", e, c)
    PROVE  c.op \in DOMAIN LinuxSwap(c) /\ Sound("linux_swap", e, c, LinuxSwap(c)[c.op])
<1> DEFINE cap == Capability(c)
<1>1. Rules("linux_swap") = linux_swap
  BY DEF Rules, supported_filesystem, SupportedFileSystems
<1>2. ASSUME NEW r \in linux_swap
      PROVE  \/ r \in Internal({"busy"})
             \/ r \in Formats("mkswap")
             \/ r \in With({}, {"read", "online_read"})
             \/ r \in With({"mkswap"}, {"grow", "shrink", "copy", "move"})
             \/ r \in With({"swaplabel"}, {"read_label", "write_label", "read_uuid", "write_uuid"})
  BY DEF linux_swap
<1>3. \A r \in linux_swap : Known(r.how)
  BY <1>2, Knowing
<1>4. PICK r \in linux_swap : Serves(r, e, cap)
  BY <1>1, <1>3, Offering DEF Offers
<1>5. Served(r, e, cap)
  BY <1>4, Serving
<1> HIDE DEF cap
<1>6. \/ cap \in {"create", "create_with_label"} /\ {"mkswap"} \subseteq e
      \/ cap \in {"read", "online_read"}
      \/ cap \in {"grow", "shrink", "copy", "move"} /\ {"mkswap"} \subseteq e
      \/ cap \in {"read_label", "write_label", "read_uuid", "write_uuid"} /\ {"swaplabel"} \subseteq e
  BY <1>2, <1>5, Zenon DEF Served
<1>7. Asked(c, cap)
  BY AskedIs DEF cap, Offers
<1>8. /\ c.op \in {"create", "grow", "shrink", "write_label", "write_uuid", "move", "copy", "set_used_sectors",
           "read_label", "read_uuid"}
      /\ c.op \in {"create", "grow", "shrink"} => ~c.busy /\ "mkswap" \in e
      /\ c.op \in {"write_label", "write_uuid"} => ~c.busy /\ "swaplabel" \in e
      /\ c.op \in {"read_label", "read_uuid"} => "swaplabel" \in e
  BY <1>6, <1>7 DEF Asked, Operations
<1>9. CASE c.op \in {"create", "grow", "shrink", "write_label", "write_uuid"}
  BY <1>8, <1>9, RunIsSound DEF LinuxSwap
<1>10. CASE c.op \in {"move", "copy"}
  BY <1>8, <1>10, SkipIsSound DEF LinuxSwap
<1>11. CASE c.op = "set_used_sectors"
  BY <1>8, <1>11, SkipIsSound, FindIsSound DEF LinuxSwap
<1>12. CASE c.op \in {"read_label", "read_uuid"}
  BY <1>8, <1>12, RunAnywhereIsSound DEF LinuxSwap
<1> QED
  BY <1>8, <1>9, <1>10, <1>11, <1>12

LEMMA LuksIsSound ==
    ASSUME NEW e, NEW c \in Calls, Offers("luks", e, c)
    PROVE  c.op \in DOMAIN Luks(c) /\ Sound("luks", e, c, Luks(c)[c.op])
<1> DEFINE cap == Capability(c)
<1>1. Rules("luks") = luks
  BY DEF Rules, supported_filesystem, SupportedFileSystems
<1>2. ASSUME NEW r \in luks
      PROVE  \/ r \in Internal({"copy", "move"})
             \/ r \in With({}, {"busy", "read", "online_read"})
             \/ r \in Growing({"cryptsetup"})
             \/ r \in With({"cryptsetup", Linux36}, {"online_shrink"})
  BY DEF luks
<1>3. \A r \in luks : Known(r.how)
  BY <1>2, Knowing
<1>4. PICK r \in luks : Serves(r, e, cap)
  BY <1>1, <1>3, Offering DEF Offers
<1>5. Served(r, e, cap)
  BY <1>4, Serving
<1> HIDE DEF cap
<1>6. \/ cap \in {"busy", "read", "online_read"}
      \/ cap \in {"grow", "online_grow"} /\ {"cryptsetup"} \subseteq e
      \/ cap \in {"online_shrink"} /\ {"cryptsetup", Linux36} \subseteq e
  BY <1>2, <1>5, Zenon DEF Served
<1>7. Asked(c, cap)
  BY AskedIs DEF cap, Offers
<1>8. /\ c.op \in {"grow", "shrink", "set_used_sectors"}
      /\ c.op = "grow" => "cryptsetup" \in e
      /\ c.op = "shrink" => "cryptsetup" \in e
  BY <1>6, <1>7 DEF Asked, Operations
<1>9. CASE c.op \in {"grow", "shrink"}
  BY <1>8, <1>9, OneCommand, SkipIsSound, FindIsSound DEF Luks
<1>10. CASE c.op = "set_used_sectors"
  BY <1>8, <1>10, SkipIsSound DEF Luks
<1> QED
  BY <1>8, <1>9, <1>10

LEMMA Lvm2PvIsSound ==
    ASSUME NEW e, NEW c \in Calls, Offers("lvm2_pv", e, c)
    PROVE  c.op \in DOMAIN Lvm2Pv(c) /\ Sound("lvm2_pv", e, c, Lvm2Pv(c)[c.op])
<1> DEFINE cap == Capability(c)
<1>1. Rules("lvm2_pv") = lvm2_pv
  BY DEF Rules, supported_filesystem, SupportedFileSystems
<1>2. ASSUME NEW r \in lvm2_pv
      PROVE  \/ r \in With({"lvm"}, {"busy", "read", "create", "check", "remove", "online_read"})
             \/ r \in Growing({"lvm"})
             \/ r \in Shrinking({"lvm"})
             \/ r \in {Rule({"move"}, GPARTED, {"lvm"})}
  BY DEF lvm2_pv
<1>3. \A r \in lvm2_pv : Known(r.how)
  BY <1>2, Knowing
<1>4. PICK r \in lvm2_pv : Serves(r, e, cap)
  BY <1>1, <1>3, Offering DEF Offers
<1>5. Served(r, e, cap)
  BY <1>4, Serving
<1> HIDE DEF cap
<1>6. \/ cap \in {"busy", "read", "create", "check", "remove", "online_read"} /\ {"lvm"} \subseteq e
      \/ cap \in {"grow", "online_grow"} /\ {"lvm"} \subseteq e
      \/ cap \in {"shrink", "online_shrink"} /\ {"lvm"} \subseteq e
  BY <1>2, <1>5, Zenon DEF Served
<1>7. Asked(c, cap)
  BY AskedIs DEF cap, Offers
<1>8. /\ c.op \in {"create", "check_repair", "remove", "grow", "shrink", "set_used_sectors"}
      /\ "lvm" \in e
      /\ c.op \in {"create", "check_repair", "remove"} => ~c.busy
  BY <1>6, <1>7 DEF Asked, Operations
<1>9. CASE c.op \in {"create", "remove"}
  BY <1>8, <1>9, RunIsSound DEF Lvm2Pv
<1>10. CASE c.op = "check_repair"
  BY <1>8, <1>10, CheckIsSound DEF Lvm2Pv
<1>11. CASE c.op \in {"grow", "shrink"}
  BY <1>8, <1>11, RunAnywhereIsSound DEF Lvm2Pv
<1>12. CASE c.op = "set_used_sectors"
  BY <1>8, <1>12, SkipIsSound DEF Lvm2Pv
<1> QED
  BY <1>8, <1>9, <1>10, <1>11, <1>12

LEMMA MinixIsSound ==
    ASSUME NEW e, NEW c \in Calls, Offers("minix", e, c)
    PROVE  c.op \in DOMAIN Minix(c) /\ Sound("minix", e, c, Minix(c)[c.op])
<1> DEFINE cap == Capability(c)
<1>1. Rules("minix") = minix
  BY DEF Rules, supported_filesystem, SupportedFileSystems
<1>2. ASSUME NEW r \in minix
      PROVE  \/ r \in Internal({"busy", "move", "copy", "online_read"})
             \/ r \in With({"mkfs.minix"}, {"create"})
             \/ r \in With({"fsck.minix"}, {"check"})
  BY DEF minix
<1>3. \A r \in minix : Known(r.how)
  BY <1>2, Knowing
<1>4. PICK r \in minix : Serves(r, e, cap)
  BY <1>1, <1>3, Offering DEF Offers
<1>5. Served(r, e, cap)
  BY <1>4, Serving
<1> HIDE DEF cap
<1>6. \/ cap \in {"create"} /\ {"mkfs.minix"} \subseteq e
      \/ cap \in {"check"} /\ {"fsck.minix"} \subseteq e
  BY <1>2, <1>5, Zenon DEF Served
<1>7. Asked(c, cap)
  BY AskedIs DEF cap, Offers
<1>8. /\ c.op \in {"create", "check_repair"}
      /\ c.op = "create" => ~c.busy /\ "mkfs.minix" \in e
      /\ c.op = "check_repair" => ~c.busy /\ "fsck.minix" \in e
  BY <1>6, <1>7 DEF Asked, Operations
<1>9. CASE c.op = "create"
  BY <1>8, <1>9, RunIsSound DEF Minix
<1>10. CASE c.op = "check_repair"
  BY <1>8, <1>10, CheckIsSound DEF Minix
<1> QED
  BY <1>8, <1>9, <1>10

LEMMA Nilfs2IsSound ==
    ASSUME NEW e, NEW c \in Calls, Offers("nilfs2", e, c)
    PROVE  c.op \in DOMAIN Nilfs2(c) /\ Sound("nilfs2", e, c, Nilfs2(c)[c.op])
<1> DEFINE cap == Capability(c)
<1>1. Rules("nilfs2") = nilfs2
  BY DEF Rules, supported_filesystem, SupportedFileSystems
<1>2. ASSUME NEW r \in nilfs2
      PROVE  \/ r \in Internal({"busy", "copy", "move", "online_read"})
             \/ r \in Formats("mkfs.nilfs2")
             \/ r \in With({"nilfs-tune"}, {"read", "read_label", "write_label", "read_uuid", "write_uuid"})
             \/ r \in Growing({"mount", "umount", "nilfs-resize", "nilfs2 module", Linux30})
             \/ r \in Shrinking({"mount", "umount", "nilfs-resize", "nilfs2 module", Linux30} \cup {"nilfs-tune"})
  BY DEF nilfs2
<1>3. \A r \in nilfs2 : Known(r.how)
  BY <1>2, Knowing
<1>4. PICK r \in nilfs2 : Serves(r, e, cap)
  BY <1>1, <1>3, Offering DEF Offers
<1>5. Served(r, e, cap)
  BY <1>4, Serving
<1> HIDE DEF cap
<1>6. \/ cap \in {"create", "create_with_label"} /\ {"mkfs.nilfs2"} \subseteq e
      \/ cap \in {"read", "read_label", "write_label", "read_uuid", "write_uuid"} /\ {"nilfs-tune"} \subseteq e
      \/ cap \in {"grow", "online_grow"} /\ {"mount", "umount", "nilfs-resize", "nilfs2 module", Linux30} \subseteq e
      \/ cap \in {"shrink", "online_shrink"} /\ {"mount", "umount", "nilfs-resize", "nilfs2 module", Linux30} \cup
           {"nilfs-tune"} \subseteq e
  BY <1>2, <1>5, Zenon DEF Served
<1>7. Asked(c, cap)
  BY AskedIs DEF cap, Offers
<1>8. /\ c.op \in {"create", "write_label", "write_uuid", "set_used_sectors", "read_label", "read_uuid", "grow",
           "shrink"}
      /\ c.busy \in BOOLEAN
      /\ c.op = "create" => ~c.busy /\ "mkfs.nilfs2" \in e
      /\ c.op \in {"write_label", "write_uuid", "set_used_sectors"} => ~c.busy /\ "nilfs-tune" \in e
      /\ c.op \in {"read_label", "read_uuid"} => "nilfs-tune" \in e
      /\ c.op \in {"grow", "shrink"} => {"nilfs-resize"} \subseteq e /\ {"mount", "umount"} \subseteq e
  BY <1>6, <1>7 DEF Asked, Operations
<1>9. CASE c.op \in {"create", "write_label", "write_uuid", "set_used_sectors"}
  BY <1>8, <1>9, RunIsSound DEF Nilfs2
<1>10. CASE c.op \in {"grow", "shrink"}
  BY <1>8, <1>10, AroundMountIsSound DEF Nilfs2
<1>11. CASE c.op \in {"read_label", "read_uuid"}
  BY <1>8, <1>11, RunAnywhereIsSound DEF Nilfs2
<1> QED
  BY <1>8, <1>9, <1>10, <1>11

LEMMA NtfsIsSound ==
    ASSUME NEW e, NEW c \in Calls, Offers("ntfs", e, c)
    PROVE  c.op \in DOMAIN Ntfs(c) /\ Sound("ntfs", e, c, Ntfs(c)[c.op])
<1> DEFINE cap == Capability(c)
<1>1. Rules("ntfs") = ntfs
  BY DEF Rules, supported_filesystem, SupportedFileSystems
<1>2. ASSUME NEW r \in ntfs
      PROVE  \/ r \in Internal({"busy", "online_read"})
             \/ r \in Formats("mkntfs")
             \/ r \in With({"ntfsinfo"}, {"read"})
             \/ r \in With({"ntfslabel"}, {"read_label", "write_label", "write_uuid"})
             \/ r \in With({"ntfsresize"}, {"check", "grow"})
             \/ r \in With({"ntfsresize", "ntfsinfo"}, {"shrink"})
             \/ r \in {Rule({"move"}, GPARTED, {"ntfsresize"})}
             \/ r \in With({"ntfsclone"}, {"copy"})
  BY DEF ntfs
<1>3. \A r \in ntfs : Known(r.how)
  BY <1>2, Knowing
<1>4. PICK r \in ntfs : Serves(r, e, cap)
  BY <1>1, <1>3, Offering DEF Offers
<1>5. Served(r, e, cap)
  BY <1>4, Serving
<1> HIDE DEF cap
<1>6. \/ cap \in {"create", "create_with_label"} /\ {"mkntfs"} \subseteq e
      \/ cap \in {"read"} /\ {"ntfsinfo"} \subseteq e
      \/ cap \in {"read_label", "write_label", "write_uuid"} /\ {"ntfslabel"} \subseteq e
      \/ cap \in {"check", "grow"} /\ {"ntfsresize"} \subseteq e
      \/ cap \in {"shrink"} /\ {"ntfsresize", "ntfsinfo"} \subseteq e
      \/ cap \in {"copy"} /\ {"ntfsclone"} \subseteq e
  BY <1>2, <1>5, Zenon DEF Served
<1>7. Asked(c, cap)
  BY AskedIs DEF cap, Offers
<1>8. /\ c.op \in {"create", "check_repair", "grow", "shrink", "write_label", "write_uuid", "copy", "read_label",
           "set_used_sectors"}
      /\ c.op = "create" => ~c.busy /\ "mkntfs" \in e
      /\ c.op \in {"check_repair", "grow", "shrink"} => ~c.busy /\ "ntfsresize" \in e
      /\ c.op \in {"write_label", "write_uuid"} => ~c.busy /\ "ntfslabel" \in e
      /\ c.op = "copy" => ~c.busy /\ "ntfsclone" \in e
      /\ c.op = "read_label" => "ntfslabel" \in e
      /\ c.op = "set_used_sectors" => ~c.busy /\ "ntfsinfo" \in e
  BY <1>6, <1>7 DEF Asked, Operations
<1>9. CASE c.op \in {"create", "write_label", "write_uuid", "set_used_sectors"}
  BY <1>8, <1>9, RunIsSound DEF Ntfs
<1>10. CASE c.op = "check_repair"
  BY <1>8, <1>10, CheckIsSound DEF Ntfs
<1>11. CASE c.op = "read_label"
  BY <1>8, <1>11, RunAnywhereIsSound DEF Ntfs
<1>12. CASE c.op \in {"grow", "shrink"}
  BY <1>8, <1>12, NtfsResizeIsSound DEF Ntfs
<1>13. CASE c.op = "copy"
  BY <1>8, <1>13, CopyIsSound DEF Ntfs
<1> QED
  BY <1>8, <1>9, <1>10, <1>11, <1>12, <1>13

LEMMA Reiser4IsSound ==
    ASSUME NEW e, NEW c \in Calls, Offers("reiser4", e, c)
    PROVE  c.op \in DOMAIN Reiser4(c) /\ Sound("reiser4", e, c, Reiser4(c)[c.op])
<1> DEFINE cap == Capability(c)
<1>1. Rules("reiser4") = reiser4
  BY DEF Rules, supported_filesystem, SupportedFileSystems
<1>2. ASSUME NEW r \in reiser4
      PROVE  \/ r \in Internal({"busy", "online_read"})
             \/ r \in Formats("mkfs.reiser4")
             \/ r \in With({"debugfs.reiser4"}, {"read", "read_label", "read_uuid"})
             \/ r \in With({"fsck.reiser4"}, {"check"})
             \/ r \in CopiedWhen({"fsck.reiser4"})
  BY DEF reiser4
<1>3. \A r \in reiser4 : Known(r.how)
  BY <1>2, Knowing
<1>4. PICK r \in reiser4 : Serves(r, e, cap)
  BY <1>1, <1>3, Offering DEF Offers
<1>5. Served(r, e, cap)
  BY <1>4, Serving
<1> HIDE DEF cap
<1>6. \/ cap \in {"create", "create_with_label"} /\ {"mkfs.reiser4"} \subseteq e
      \/ cap \in {"read", "read_label", "read_uuid"} /\ {"debugfs.reiser4"} \subseteq e
      \/ cap \in {"check"} /\ {"fsck.reiser4"} \subseteq e
  BY <1>2, <1>5, Zenon DEF Served
<1>7. Asked(c, cap)
  BY AskedIs DEF cap, Offers
<1>8. /\ c.op \in {"create", "check_repair", "read_label", "read_uuid", "set_used_sectors"}
      /\ c.op = "create" => ~c.busy /\ "mkfs.reiser4" \in e
      /\ c.op = "check_repair" => ~c.busy /\ "fsck.reiser4" \in e
      /\ c.op \in {"read_label", "read_uuid"} => "debugfs.reiser4" \in e
      /\ c.op = "set_used_sectors" => ~c.busy /\ "debugfs.reiser4" \in e
  BY <1>6, <1>7 DEF Asked, Operations
<1>9. CASE c.op \in {"create", "set_used_sectors"}
  BY <1>8, <1>9, RunIsSound DEF Reiser4
<1>10. CASE c.op = "check_repair"
  BY <1>8, <1>10, CheckIsSound DEF Reiser4
<1>11. CASE c.op \in {"read_label", "read_uuid"}
  BY <1>8, <1>11, RunAnywhereIsSound DEF Reiser4
<1> QED
  BY <1>8, <1>9, <1>10, <1>11

LEMMA ReiserfsIsSound ==
    ASSUME NEW e, NEW c \in Calls, Offers("reiserfs", e, c)
    PROVE  c.op \in DOMAIN Reiserfs(c) /\ Sound("reiserfs", e, c, Reiserfs(c)[c.op])
<1> DEFINE cap == Capability(c)
<1>1. Rules("reiserfs") = reiserfs
  BY DEF Rules, supported_filesystem, SupportedFileSystems
<1>2. ASSUME NEW r \in reiserfs
      PROVE  \/ r \in Internal({"busy", "online_read"})
             \/ r \in Formats("mkreiserfs")
             \/ r \in With({"debugreiserfs"}, {"read", "read_label"})
             \/ r \in With({"reiserfstune"}, {"write_label", "read_uuid", "write_uuid"})
             \/ r \in With({"reiserfsck"}, {"check"})
             \/ r \in Growing({"resize_reiserfs", "reiserfsck"})
             \/ r \in With({"resize_reiserfs", "reiserfsck"} \cup {"debugreiserfs"}, {"shrink"})
             \/ r \in CopiedWhen({"reiserfsck"})
  BY DEF reiserfs
<1>3. \A r \in reiserfs : Known(r.how)
  BY <1>2, Knowing
<1>4. PICK r \in reiserfs : Serves(r, e, cap)
  BY <1>1, <1>3, Offering DEF Offers
<1>5. Served(r, e, cap)
  BY <1>4, Serving
<1> HIDE DEF cap
<1>6. \/ cap \in {"create", "create_with_label"} /\ {"mkreiserfs"} \subseteq e
      \/ cap \in {"read", "read_label"} /\ {"debugreiserfs"} \subseteq e
      \/ cap \in {"write_label", "read_uuid", "write_uuid"} /\ {"reiserfstune"} \subseteq e
      \/ cap \in {"check"} /\ {"reiserfsck"} \subseteq e
      \/ cap \in {"grow", "online_grow"} /\ {"resize_reiserfs", "reiserfsck"} \subseteq e
      \/ cap \in {"shrink"} /\ {"resize_reiserfs", "reiserfsck"} \cup {"debugreiserfs"} \subseteq e
  BY <1>2, <1>5, Zenon DEF Served
<1>7. Asked(c, cap)
  BY AskedIs DEF cap, Offers
<1>8. /\ c.op \in {"create", "check_repair", "write_label", "write_uuid", "grow", "shrink", "read_label", "read_uuid",
           "set_used_sectors"}
      /\ c.op = "create" => ~c.busy /\ "mkreiserfs" \in e
      /\ c.op = "check_repair" => ~c.busy /\ "reiserfsck" \in e
      /\ c.op \in {"write_label", "write_uuid"} => ~c.busy /\ "reiserfstune" \in e
      /\ c.op \in {"grow", "shrink"} => "resize_reiserfs" \in e
      /\ c.op = "read_label" => "debugreiserfs" \in e
      /\ c.op = "read_uuid" => Gap("reiserfs", c)
      /\ c.op = "set_used_sectors" => ~c.busy /\ "debugreiserfs" \in e
  BY <1>6, <1>7 DEF Asked, Operations, Gap
<1>9. CASE c.op \in {"create", "write_label", "write_uuid", "set_used_sectors"}
  BY <1>8, <1>9, RunIsSound DEF Reiserfs
<1>10. CASE c.op = "check_repair"
  BY <1>8, <1>10, AcceptingIsSound DEF Reiserfs
<1>11. CASE c.op \in {"read_label", "read_uuid"}
  BY <1>8, <1>11, RunAnywhereIsSound DEF Reiserfs
<1>12. CASE c.op \in {"grow", "shrink"}
  BY <1>8, <1>12, ReiserfsResizeIsSound DEF Reiserfs
<1> QED
  BY <1>8, <1>9, <1>10, <1>11, <1>12

LEMMA UdfIsSound ==
    ASSUME NEW e, NEW c \in Calls, Offers("udf", e, c)
    PROVE  c.op \in DOMAIN Udf(c) /\ Sound("udf", e, c, Udf(c)[c.op])
<1> DEFINE cap == Capability(c)
<1>1. Rules("udf") = udf
  BY DEF Rules, supported_filesystem, SupportedFileSystems
<1>2. ASSUME NEW r \in udf
      PROVE  \/ r \in Internal({"busy", "move", "copy", "online_read"})
             \/ r \in Formats("mkudffs")
             \/ r \in With({"udfinfo"}, {"read", "read_uuid"})
             \/ r \in With({"udflabel"}, {"read_label", "write_label", "write_uuid"})
  BY DEF udf
<1>3. \A r \in udf : Known(r.how)
  BY <1>2, Knowing
<1>4. PICK r \in udf : Serves(r, e, cap)
  BY <1>1, <1>3, Offering DEF Offers
<1>5. Served(r, e, cap)
  BY <1>4, Serving
<1> HIDE DEF cap
<1>6. \/ cap \in {"create", "create_with_label"} /\ {"mkudffs"} \subseteq e
      \/ cap \in {"read", "read_uuid"} /\ {"udfinfo"} \subseteq e
      \/ cap \in {"read_label", "write_label", "write_uuid"} /\ {"udflabel"} \subseteq e
  BY <1>2, <1>5, Zenon DEF Served
<1>7. Asked(c, cap)
  BY AskedIs DEF cap, Offers
<1>8. /\ c.op \in {"create", "write_label", "write_uuid", "read_label", "read_uuid", "set_used_sectors"}
      /\ c.op = "create" => ~c.busy /\ "mkudffs" \in e
      /\ c.op \in {"write_label", "write_uuid"} => ~c.busy /\ "udflabel" \in e
      /\ c.op = "read_label" => "udflabel" \in e
      /\ c.op = "read_uuid" => "udfinfo" \in e
      /\ c.op = "set_used_sectors" => ~c.busy /\ "udfinfo" \in e
  BY <1>6, <1>7 DEF Asked, Operations
<1>9. CASE c.op = "create"
  BY <1>8, <1>9, UdfCreateIsSound DEF Udf
<1>10. CASE c.op \in {"write_label", "write_uuid", "set_used_sectors"}
  BY <1>8, <1>10, RunIsSound DEF Udf
<1>11. CASE c.op \in {"read_label", "read_uuid"}
  BY <1>8, <1>11, RunAnywhereIsSound DEF Udf
<1> QED
  BY <1>8, <1>9, <1>10, <1>11

LEMMA XfsIsSound ==
    ASSUME NEW e, NEW c \in Calls, Offers("xfs", e, c)
    PROVE  c.op \in DOMAIN Xfs(c) /\ Sound("xfs", e, c, Xfs(c)[c.op])
<1> DEFINE cap == Capability(c)
<1>1. Rules("xfs") = xfs
  BY DEF Rules, supported_filesystem, SupportedFileSystems
<1>2. ASSUME NEW r \in xfs
      PROVE  \/ r \in Internal({"busy", "online_read"})
             \/ r \in Formats("mkfs.xfs")
             \/ r \in With({"xfs_db"}, {"read", "read_label"})
             \/ r \in With({"xfs_admin"}, {"write_label", "read_uuid", "write_uuid"})
             \/ r \in With({"xfs_io", "xfs_io label", Linux418}, {"online_write_label"})
             \/ r \in With({"xfs_repair"}, {"check"})
             \/ r \in Growing({"mount", "umount", "xfs_repair", "xfs module"} \cup {"xfs_growfs"})
             \/ r \in With({"mount", "umount", "xfs_repair", "xfs module"} \cup {"xfsdump", "xfsrestore", "mkfs.xfs"},
                  {"copy"})
             \/ r \in {Rule({"move"}, GPARTED, {"xfs_repair"})}
  BY DEF xfs
<1>3. \A r \in xfs : Known(r.how)
  BY <1>2, Knowing
<1>4. PICK r \in xfs : Serves(r, e, cap)
  BY <1>1, <1>3, Offering DEF Offers
<1>5. Served(r, e, cap)
  BY <1>4, Serving
<1> HIDE DEF cap
<1>6. \/ cap \in {"create", "create_with_label"} /\ {"mkfs.xfs"} \subseteq e
      \/ cap \in {"read", "read_label"} /\ {"xfs_db"} \subseteq e
      \/ cap \in {"write_label", "read_uuid", "write_uuid"} /\ {"xfs_admin"} \subseteq e
      \/ cap \in {"online_write_label"} /\ {"xfs_io", "xfs_io label", Linux418} \subseteq e
      \/ cap \in {"check"} /\ {"xfs_repair"} \subseteq e
      \/ cap \in {"grow", "online_grow"} /\ {"mount", "umount", "xfs_repair", "xfs module"} \cup {"xfs_growfs"}
           \subseteq e
      \/ cap \in {"copy"} /\ {"mount", "umount", "xfs_repair", "xfs module"} \cup {"xfsdump", "xfsrestore",
           "mkfs.xfs"} \subseteq e
  BY <1>2, <1>5, Zenon DEF Served
<1>7. Asked(c, cap)
  BY AskedIs DEF cap, Offers
<1>8. /\ c.op \in {"create", "check_repair", "write_label", "write_uuid", "grow", "copy", "read_label", "read_uuid",
           "set_used_sectors"}
      /\ c.busy \in BOOLEAN
      /\ c.op = "create" => ~c.busy /\ "mkfs.xfs" \in e
      /\ c.op = "check_repair" => ~c.busy /\ "xfs_repair" \in e
      /\ c.op = "write_label" => IF c.busy THEN "xfs_io" \in e ELSE "xfs_admin" \in e
      /\ c.op = "write_uuid" => ~c.busy /\ "xfs_admin" \in e
      /\ c.op = "grow" => {"xfs_growfs"} \subseteq e /\ {"mount", "umount"} \subseteq e
      /\ c.op = "copy" => ~c.busy /\ {"mount", "umount", "xfsdump", "xfsrestore", "mkfs.xfs"} \subseteq e
      /\ c.op = "read_label" => "xfs_db" \in e
      /\ c.op = "read_uuid" => "xfs_admin" \in e
      /\ c.op = "set_used_sectors" => ~c.busy /\ "xfs_db" \in e
  BY <1>6, <1>7 DEF Asked, Operations
<1>9. CASE c.op \in {"create", "write_uuid", "set_used_sectors"}
  BY <1>8, <1>9, RunIsSound DEF Xfs
<1>10. CASE c.op = "check_repair"
  BY <1>8, <1>10, CheckIsSound DEF Xfs
<1>11. CASE c.op = "write_label"
  BY <1>8, <1>11, RunIsSound, OneCommand DEF Xfs
<1>12. CASE c.op = "grow"
  BY <1>8, <1>12, AroundMountIsSound DEF Xfs
<1>13. CASE c.op = "copy"
  BY <1>8, <1>13, XfsCopyIsSound DEF Xfs
<1>14. CASE c.op \in {"read_label", "read_uuid"}
  BY <1>8, <1>14, RunAnywhereIsSound DEF Xfs
<1> QED
  BY <1>8, <1>9, <1>10, <1>11, <1>12, <1>13, <1>14

(* Every operation a driver is called for, it implements; its steps are    *)
(* sound (FileSystem.h, get_filesystem_support() and the operations of     *)
(* every driver).                                                          *)
THEOREM ProceduresAreSound ==
    ASSUME NEW type \in DOMAIN SupportedFileSystems, NEW e, NEW c \in Calls, Offers(type, e, c)
    PROVE  c.op \in DOMAIN Procedures(type, c) /\ Sound(type, e, c, Procedures(type, c)[c.op])
<1>1. type \in {"bcachefs", "btrfs", "exfat", "ext2", "ext3", "ext4", "f2fs", "fat", "hfs", "hfsplus", "jfs", "linux_swap", "lvm2_pv",
               "luks", "minix", "nilfs2", "ntfs", "reiser4", "reiserfs", "udf", "xfs"}
  BY DEF SupportedFileSystems
<1>2. CASE type = "bcachefs"
  BY <1>2, BcachefsIsSound DEF Procedures
<1>3. CASE type = "btrfs"
  BY <1>3, BtrfsIsSound DEF Procedures
<1>4. CASE type = "exfat"
  BY <1>4, ExfatIsSound DEF Procedures
<1>5. CASE type \in {"ext2", "ext3", "ext4"}
  BY <1>5, Ext2IsSound DEF Procedures
<1>6. CASE type = "f2fs"
  BY <1>6, F2fsIsSound DEF Procedures
<1>7. CASE type = "fat"
  BY <1>7, Fat16IsSound DEF Procedures
<1>8. CASE type = "hfs"
  BY <1>8, HfsIsSound DEF Procedures
<1>9. CASE type = "hfsplus"
  BY <1>9, HfsplusIsSound DEF Procedures
<1>10. CASE type = "jfs"
  BY <1>10, JfsIsSound DEF Procedures
<1>11. CASE type = "linux_swap"
  BY <1>11, LinuxSwapIsSound DEF Procedures
<1>12. CASE type = "luks"
  BY <1>12, LuksIsSound DEF Procedures
<1>13. CASE type = "lvm2_pv"
  BY <1>13, Lvm2PvIsSound DEF Procedures
<1>14. CASE type = "minix"
  BY <1>14, MinixIsSound DEF Procedures
<1>15. CASE type = "nilfs2"
  BY <1>15, Nilfs2IsSound DEF Procedures
<1>16. CASE type = "ntfs"
  BY <1>16, NtfsIsSound DEF Procedures
<1>17. CASE type = "reiser4"
  BY <1>17, Reiser4IsSound DEF Procedures
<1>18. CASE type = "reiserfs"
  BY <1>18, ReiserfsIsSound DEF Procedures
<1>19. CASE type = "udf"
  BY <1>19, UdfIsSound DEF Procedures
<1>20. CASE type = "xfs"
  BY <1>20, XfsIsSound DEF Procedures
<1> QED
  BY <1>1, <1>2, <1>3, <1>4, <1>5, <1>6, <1>7, <1>8, <1>9, <1>10, <1>11, <1>12, <1>13, <1>14, <1>15, <1>16, <1>17, <1>18, <1>19, <1>20

-----------------------------------------------------------------------------
(* What an invariant says of a step which is running                       *)

(* The driver's steps stay the same during a call. *)
LEMMA SameSteps ==
    ASSUME UNCHANGED <<fstype, call>>
    PROVE  /\ Steps' = Steps /\ (\A i : (Steps[i])' = Steps[i])
           /\ \A which : PartOf(which)' = PartOf(which)
           /\ \A s : PartsOf(s)' = PartsOf(s)
BY DEF Steps, Implemented, PartOf, PartsOf

(* Between a step and the one which takes it back no step aborts. *)
LEMMA NothingOwed ==
    ASSUME TypeOK, CallInv, StepsInv, Running, Now.abort
    PROVE  \A i : ~Owed(i)
<1> SUFFICES ASSUME NEW i, i \in passed, NEW j \in DOMAIN Steps, pc <= j, Undoes(Steps, i, j)
             PROVE  FALSE
  BY DEF Owed
<1>1. i < pc /\ i \in DOMAIN Steps
  BY DEF StepsInv
<1>2. DOMAIN Steps = 1 .. Len(Steps)
  BY DEF CallInv, Sound, Running
<1>3. pc \in i + 1 .. j
  BY <1>1, <1>2 DEF TypeOK
<1> QED
  BY <1>3 DEF Undoes, Now

(* What may be taken back is taken back by the step running, or still can  *)
(* be after it.                                                            *)
LEMMA StillOwed ==
    ASSUME TypeOK, CallInv, StepsInv, Running, NEW i, Owed(i),
           Steps' = Steps, passed \subseteq passed', pc' = pc + 1, ~Undoes(Steps, i, pc)
    PROVE  Owed(i)'
<1>1. PICK j \in DOMAIN Steps : pc <= j /\ Undoes(Steps, i, j)
  BY DEF Owed
<1>2. DOMAIN Steps = 1 .. Len(Steps)
  BY DEF CallInv, Sound, Running
<1>3. pc' <= j
  BY <1>1, <1>2 DEF TypeOK
<1> QED
  BY <1>1, <1>3 DEF Owed

(* A step left out is not one which takes something back. *)
LEMMA LeavesNothingOut ==
    ASSUME NEW i \in passed, Undoes(Steps, i, pc)
    PROVE  Now.after \subseteq passed /\ Now.do \in {"rmdir", "umount"}
BY DEF Undoes, Now

-----------------------------------------------------------------------------
(* How a step ends, whatever it does                                       *)

(* The step is done and succeeds, or it is not and the next one, or none,  *)
(* follows.                                                                *)
Onward ==
  /\ Running /\ UNCHANGED <<fstype, env, busy, call>>
  /\ failed \subseteq failed' /\ failed' \subseteq failed \cup {pc}
  /\ \/ passed' = passed \cup {pc} /\ Now.after \subseteq passed /\ pc' = pc + 1
     \/ passed' = passed /\ pc' = pc + 1
     \/ passed' = passed /\ pc' = Len(Steps) + 1 /\ Now.abort /\ Now.after \subseteq passed

LEMMA OnwardIs ==
    ASSUME Running, UNCHANGED <<fstype, env, busy, call>>, Now.after \subseteq passed, Succeeds \/ Fails \/ Warns
    PROVE  Onward
BY DEF Onward, Succeeds, Fails, Warns

LEMMA StepsKept ==
    ASSUME TypeOK, CallInv, StepsInv, Onward
    PROVE  /\ StepsInv' /\ CallInv' /\ pc' \in Nat \ {0} /\ Steps' = Steps
           /\ pc < pc' /\ (Running' => pc' = pc + 1)
<1>1. Steps' = Steps
  BY SameSteps DEF Onward
<1>2. call # Idle /\ DOMAIN Steps = 1 .. Len(Steps) /\ Len(Steps) \in Nat /\ pc \in DOMAIN Steps /\ pc \in Nat \ {0}
  BY DEF Onward, Running, CallInv, Sound, TypeOK
<1>3. pc' \in Nat \ {0} /\ pc < pc' /\ (Running' => pc' = pc + 1)
  BY <1>1, <1>2 DEF Onward, Running
<1>4. CallInv'
  BY <1>1, <1>2 DEF Onward, CallInv, Implemented
<1>5. passed' \subseteq DOMAIN Steps /\ failed' \subseteq DOMAIN Steps
  BY <1>2 DEF Onward, StepsInv
<1>6. ASSUME NEW i \in passed'
      PROVE  i < pc' /\ Steps[i].after \subseteq passed'
  <2>1. CASE i \in passed
    <3>1. i < pc /\ Steps[i].after \subseteq passed
      BY <2>1 DEF StepsInv
    <3> QED
      BY <1>2, <1>3, <1>5, <3>1 DEF Onward
  <2>2. CASE i \notin passed
    BY <1>3, <2>2 DEF Onward, Now
  <2> QED
    BY <2>1, <2>2
<1> QED
  BY <1>1, <1>3, <1>4, <1>5, <1>6 DEF StepsInv

Statuses == {"NONE", "EXECUTE", "SUCCESS", "ERROR", "WARNING"}

(* The status goes to the step's detail or, for the NTFS, to the first.    *)
LEMMA Settling ==
    ASSUME TypeOK, CallInv, ResultInv, Running, UNCHANGED <<fstype, call>>,
           NEW status \in {"SUCCESS", "ERROR", "WARNING"}, Settle(status)
    PROVE  details' \in Seq(Statuses) /\ Len(details') = pc /\ DetailsSettled'
<1> DEFINE longer == Append(details, "EXECUTE")
<1>1. longer \in Seq(Statuses) /\ Len(longer) = pc /\ details \in Seq(Statuses) /\ Len(details) = pc - 1
  BY DEF TypeOK, ResultInv, Statuses
<1>2. details' = [longer EXCEPT ![Closes(pc)] = status]
  BY DEF Settle
<1> HIDE DEF longer
<1>a. longer \in [1 .. pc -> Statuses] /\ pc \in Nat
  BY <1>1 DEF TypeOK
<1>b. status \in Statuses
  BY DEF Statuses
<1>c. details' \in [1 .. pc -> Statuses]
  BY <1>2, <1>a, <1>b
<1>3. details' \in Seq(Statuses) /\ Len(details') = pc
  BY <1>a, <1>c
<1>4. pc \in DOMAIN Steps
  BY DEF Running, CallInv, Sound, TypeOK
<1>5. CASE fstype = "ntfs" /\ call.op \in {"grow", "shrink"}
  BY <1>3, <1>5 DEF DetailsSettled
<1>6. CASE ~(fstype = "ntfs" /\ call.op \in {"grow", "shrink"})
  <2>1. Closes(pc) = pc
    BY <1>4, <1>6 DEF Closes, CallInv, Running, Sound, Answered
  <2>2. \A i \in DOMAIN details : details[i] # "EXECUTE"
    BY <1>6 DEF ResultInv, DetailsSettled, Running
  <2>3. \A i \in DOMAIN details' : details'[i] # "EXECUTE"
    <3> SUFFICES ASSUME NEW i \in 1 .. pc PROVE details'[i] # "EXECUTE"
      BY <1>3
    <3>1. CASE i = pc
      BY <1>1, <1>2, <2>1, <3>1
    <3>2. CASE i # pc
      <4>1. details'[i] = longer[i]
        BY <1>2, <1>a, <2>1, <3>2
      <4>2. i \in 1 .. Len(details)
        BY <1>1, <1>a, <3>2
      <4> QED
        BY <1>1, <2>2, <4>1, <4>2 DEF longer
    <3> QED
      BY <3>1, <3>2
  <2> QED
    BY <1>3, <2>3 DEF DetailsSettled
<1> QED
  BY <1>3, <1>5, <1>6

(* A step which neither mounts nor makes, unmounts nor removes anything    *)
(* leaves what is owed.                                                    *)
LEMMA OwedKept ==
    ASSUME TypeOK, CallInv, StepsInv, OwedInv, Onward, UNCHANGED <<mounts, dirs, place>>, stuck \subseteq stuck',
           \A i \in passed : Undoes(Steps, i, pc) => 
              /\ Now.do = "rmdir" => place[Now.dir] \notin dirs \ stuck'
              /\ Now.do = "umount" => MountOf(Now)[2] \in stuck'
    PROVE  OwedInv'
<1>1. Steps' = Steps /\ passed \subseteq passed'
  BY StepsKept DEF Onward
<1>2. CASE \A i : ~Owed(i)
  BY <1>2 DEF OwedInv
<1>3. CASE pc' = pc + 1
  <2>1. \A i : Owed(i) /\ ~Undoes(Steps, i, pc) => Owed(i)'
    BY <1>1, <1>3, StillOwed DEF Onward
  <2>2. ASSUME NEW d \in dirs' \ stuck'
        PROVE  \E i \in DOMAIN Steps : Owed(i)' /\ Steps[i].do = "mkdir" /\ d = place[Steps[i].dir]
    <3>1. PICK i \in DOMAIN Steps : Owed(i) /\ Steps[i].do = "mkdir" /\ d = place[Steps[i].dir]
      BY DEF OwedInv
    <3>2. ~Undoes(Steps, i, pc)
      BY <3>1 DEF Owed, Undoes, Now
    <3> QED
      BY <2>1, <3>1, <3>2
  <2>3. ASSUME NEW m \in mounts', m[2] \notin stuck' \cup {TheUser}
        PROVE  \E i \in DOMAIN Steps : Owed(i)' /\ Steps[i].do = "mount" /\ m = MountOf(Steps[i])
    <3>1. PICK i \in DOMAIN Steps : Owed(i) /\ Steps[i].do = "mount" /\ m = MountOf(Steps[i])
      BY <2>3 DEF OwedInv
    <3>2. ~Undoes(Steps, i, pc)
      BY <2>3, <3>1 DEF Owed, Undoes, Now, MountOf
    <3> QED
      BY <2>1, <3>1, <3>2
  <2>4. \A s : MountOf(s)' = MountOf(s)
    BY SameSteps DEF MountOf, Onward
  <2> QED
    BY <1>1, <2>2, <2>3, <2>4 DEF OwedInv
<1> QED
  BY <1>2, <1>3, NothingOwed DEF Onward

(* And what is mounted is still what was and what the call holds. *)
LEMMA ActiveKept ==
    ASSUME TypeOK, CallInv, StepsInv, ActiveInv, Onward, UNCHANGED <<mounts, place>>, stuck \subseteq stuck',
           passed' # passed => Now.do \notin {"mount", "umount"},
           success' => success,
           passed' = passed /\ Now.after \subseteq passed /\ (Now.do = "umount" \/ pc' # pc + 1) => ~success' \/ Unnoticed'
    PROVE  ActiveInv'
<1>1. Steps' = Steps /\ StepsInv' /\ DOMAIN Steps = 1 .. Len(Steps) /\ pc \in DOMAIN Steps
  BY StepsKept DEF Onward, CallInv, Sound, Running, TypeOK
<1>2. Unnoticed => Unnoticed'
  BY DEF Unnoticed, Onward
<1>3. Held' = Held
  BY <1>1 DEF Held, Onward, Now, Undoes
<1>4. \A s : MountOf(s)' = MountOf(s)
  BY SameSteps DEF MountOf, Onward
<1>5. SUFFICES ASSUME ~Unnoticed'
      PROVE  ActiveInv'
  BY DEF ActiveInv
<1>6. /\ \A p \in Partitions : busy[p] => Active(p)
      /\ \A m \in mounts : busy[m[1]] \/ \E i \in Held : m = MountOf(Steps[i])
      /\ \A i \in Held : MountOf(Steps[i]) \in mounts
  BY <1>2, <1>5 DEF ActiveInv
<1>7. ASSUME NEW j \in DOMAIN Steps, j < pc', j \notin passed', Steps[j].do = "umount", Steps[j].after \subseteq passed', success'
      PROVE  FALSE
  <2>1. Steps[j].after \subseteq 1 .. j - 1
    BY DEF CallInv, Onward, Running, Sound, Answered
  <2>2. CASE j < pc
    <3>1. Steps[j].after \subseteq passed
      BY <1>1, <1>7, <2>1, <2>2 DEF Onward, TypeOK
    <3> QED
      BY <1>2, <1>5, <1>7, <2>2, <3>1 DEF ActiveInv, Onward
  <2>3. CASE j = pc
    BY <1>5, <1>7, <2>3 DEF Onward, Now
  <2>4. CASE j > pc
    <3>1. pc' # pc + 1
      BY <1>1, <1>7, <2>4 DEF TypeOK
    <3> QED
      BY <1>5, <1>7, <3>1 DEF Onward
  <2> QED
    BY <1>1, <2>2, <2>3, <2>4 DEF TypeOK
<1> QED
  BY <1>1, <1>3, <1>4, <1>6, <1>7 DEF ActiveInv, Active, Onward

(* A damaged file system is only met in the one step of a check. *)
LEMMA DamagedIsChecked ==
    ASSUME TypeOK, CallInv, ResultInv, Running, damaged
    PROVE  /\ Now.do = "run" /\ Now.after = {} /\ ~Now.lost
           /\ Understood(Now.runs) \subseteq Now.ok
           /\ LeftDamaged(Now.runs) \cap Now.ok = {}
<1>1. call.op = "check_repair" /\ call # Idle
  BY DEF ResultInv, Running
<1>2. Answered(fstype, env, call, Steps)
  BY <1>1 DEF CallInv, Sound
<1>3. Len(Steps) = 1
  BY <1>1, <1>2 DEF Answered
<1>4. pc = 1
  BY <1>3 DEF Running, TypeOK
<1> QED
  BY <1>1, <1>2, <1>4 DEF Answered, Now

LEMMA ResultKept ==
    ASSUME TypeOK, CallInv, StepsInv, ResultInv, Onward,
           Running' => Len(details') = pc' - 1, DetailsSettled',
           success' \in BOOLEAN, success' => success, blamed => blamed', damaged' => damaged,
           success /\ ~success' => blamed' \/ Gap(fstype, call),
           success' /\ failed' # failed => Now.do = "rmdir" \/ (fstype = "xfs" /\ call.op = "copy"),
           damaged' => ~success'
    PROVE  ResultInv'
<1>1. Steps' = Steps /\ call' # Idle /\ call # Idle /\ UNCHANGED <<fstype, call>>
  BY StepsKept DEF Onward, Running
<1>2. ~success' /\ ~Gap(fstype, call) => blamed'
  BY <1>1 DEF ResultInv, TypeOK
<1>3. success' => (fstype = "xfs" /\ call.op = "copy") \/ \A i \in failed' : Steps[i].do = "rmdir"
  BY <1>1 DEF ResultInv, Onward, Now
<1>4. damaged' => call.op = "check_repair"
  BY DEF ResultInv
<1> QED
  BY <1>1, <1>2, <1>3, <1>4 DEF ResultInv

(* What is left out, and what only runs a program or looks something up,   *)
(* touches nothing the other parts of the invariant speak of.              *)
LEMMA LeftOutKeeps == IInv /\ LeftOut => IInv'
<1> SUFFICES ASSUME IInv, LeftOut
             PROVE  IInv'
  OBVIOUS
<1> USE DEF IInv
<1>1. Onward /\ Running /\ passed' = passed /\ pc' = pc + 1
  BY DEF LeftOut, Onward, session
<1>2. /\ UNCHANGED <<mounts, dirs, place, stuck, success, blamed, damaged, failed, mnt_number>>
      /\ ~(Now.after \subseteq passed)
  BY DEF LeftOut, world
<1>3. StepsInv' /\ CallInv' /\ pc' \in Nat \ {0}
  BY <1>1, StepsKept
<1>4. details' = Append(details, "NONE") /\ details \in Seq(Statuses) /\ Len(details) = pc - 1
  BY <1>1 DEF LeftOut, TypeOK, ResultInv, Statuses
<1>5. /\ details' \in Seq(Statuses) /\ Len(details') = pc /\ pc \in Nat
      /\ \A i \in DOMAIN details' : details'[i] = (IF i = pc THEN "NONE" ELSE details[i]) /\ (i # pc => i \in DOMAIN details)
  BY <1>4 DEF TypeOK, Statuses
<1>6. DetailsSettled'
  BY <1>1, <1>5 DEF ResultInv, Running, DetailsSettled, Onward
<1>7. TypeOK'
  BY <1>1, <1>2, <1>3, <1>5 DEF TypeOK, Onward, Statuses
<1>8. OwedInv'
  BY <1>1, <1>2, OwedKept, LeavesNothingOut
<1>9. ActiveInv'
  BY <1>1, <1>2, ActiveKept
<1>10. ResultInv'
  <2>1. ~damaged
    BY <1>1, <1>2, DamagedIsChecked
  <2>2. Len(details') = pc' - 1
    BY <1>1, <1>5
  <2>3. /\ success' \in BOOLEAN /\ success' = success /\ blamed' = blamed /\ failed' = failed
        /\ damaged' = FALSE
    BY <1>2, <2>1 DEF TypeOK
  <2> QED
    BY <1>1, <1>6, <2>2, <2>3, ResultKept
<1> QED
  BY <1>3, <1>7, <1>8, <1>9, <1>10

LEMMA Ends ==
    ASSUME TypeOK, CallInv, StepsInv, ResultInv, Running, UNCHANGED <<fstype, env, busy, call>>,
           Now.after \subseteq passed, Succeeds \/ Fails \/ Warns
    PROVE  /\ Onward /\ details' \in Seq(Statuses) /\ (Running' => Len(details') = pc' - 1) /\ DetailsSettled'
           /\ success' \in BOOLEAN /\ (success' => success)
<1>1. Onward
  BY OnwardIs
<1>2. details' \in Seq(Statuses) /\ Len(details') = pc /\ DetailsSettled'
  BY Settling DEF Succeeds, Fails, Warns
<1>3. Running' => pc' = pc + 1
  BY <1>1, StepsKept
<1>4. success' \in BOOLEAN /\ (success' => success)
  <2>1. success' = success \/ success' = FALSE
    BY DEF Succeeds, Fails, Warns
  <2> QED
    <3>1. CASE success' = success
      BY <3>1 DEF TypeOK
    <3>2. CASE success' = FALSE
      BY <3>2
    <3> QED
      BY <2>1, <3>1, <3>2
<1>5. Running' => Len(details') = pc' - 1
  BY <1>2, <1>3 DEF TypeOK
<1> QED
  BY <1>1, <1>2, <1>4, <1>5

(* The typed parts change only where something is made or mounted. *)
LEMMA TypeKept ==
    ASSUME TypeOK, CallInv, StepsInv, ResultInv, Onward, details' \in Seq(Statuses), success' \in BOOLEAN,
           damaged' \in BOOLEAN, blamed' \in BOOLEAN, UNCHANGED <<mnt_number, place>>, dirs' \subseteq dirs,
           mounts' \subseteq Partitions \X Nat
    PROVE  TypeOK'
<1>1. pc' \in Nat \ {0}
  BY StepsKept
<1> QED
  BY <1>1 DEF TypeOK, Onward, Statuses

(* A failure is noticed, and has a cause. *)
LEMMA FailureNoticed ==
    ASSUME TypeOK, CallInv, Running, Fails
    PROVE  /\ success' => fstype = "xfs" /\ call.op = "copy" /\ ~Now.abort /\ Now.lost
           /\ passed' = passed /\ (pc' # pc + 1 => ~success')
<1>1. pc \in DOMAIN Steps
  BY DEF CallInv, Running, Sound, TypeOK
<1>2. Now.lost => fstype = "xfs" /\ call.op = "copy" /\ ~Now.abort
  BY <1>1 DEF CallInv, Running, Sound, Answered, Now
<1> QED
  BY <1>2 DEF Fails

LEMMA RunCommandKeeps == IInv /\ RunCommand => IInv'
<1> SUFFICES ASSUME IInv, RunCommand
             PROVE  IInv'
  OBVIOUS
<1> USE DEF IInv
<1>1. /\ Running /\ Now.do = "run" /\ Now.after \subseteq passed
      /\ UNCHANGED <<fstype, env, busy, call, mounts, dirs, place, stuck, mnt_number>>
  BY DEF RunCommand, Doing, session
<1>2. Succeeds \/ Fails
  BY DEF RunCommand, CannotRun
<1>3. /\ Onward /\ details' \in Seq(Statuses) /\ (Running' => Len(details') = pc' - 1) /\ DetailsSettled'
      /\ success' \in BOOLEAN /\ (success' => success)
  BY <1>1, <1>2, Ends
<1>4. pc \in DOMAIN Steps /\ Answered(fstype, env, call, Steps)
  BY <1>1 DEF CallInv, Running, Sound, TypeOK
<1>5. 0 \in Now.ok /\ (Gap(fstype, call) \/ Found)
  BY <1>4 DEF Answered, Now, Found
<1>6. /\ damaged' \in BOOLEAN /\ (damaged' => damaged) /\ blamed' \in BOOLEAN /\ (blamed => blamed')
      /\ damaged' => Fails
      /\ success /\ ~success' => blamed' \/ Gap(fstype, call)
  <2>1. ASSUME NEW code \in ExitCodes(Now.runs), damaged' = (damaged /\ code \in LeftDamaged(Now.runs)),
               blamed' = (blamed \/ damaged' \/ code \in Misread(Now.runs)),
               IF code \in Now.ok THEN Succeeds ELSE Fails
        PROVE  /\ damaged' \in BOOLEAN /\ (damaged' => damaged) /\ blamed' \in BOOLEAN /\ (blamed => blamed')
               /\ damaged' => Fails
               /\ success /\ ~success' => blamed' \/ Gap(fstype, call)
    <3>1. CASE damaged
      <4>1. /\ Understood(Now.runs) \subseteq Now.ok
            /\ LeftDamaged(Now.runs) \cap Now.ok = {}
        BY <1>1, <3>1, DamagedIsChecked
      <4>2. code \in Misread(Now.runs) \cup Understood(Now.runs) \cup LeftDamaged(Now.runs)
        BY <3>1 DEF ExitCodes, Understood
      <4>3. CASE code \in Now.ok
        BY <2>1, <3>1, <4>1, <4>3 DEF Succeeds, TypeOK
      <4>4. CASE code \notin Now.ok
        BY <2>1, <3>1, <4>1, <4>2, <4>4 DEF TypeOK
      <4> QED
        BY <4>3, <4>4
    <3>2. CASE ~damaged
      <4>1. code = 0
        BY <3>2 DEF ExitCodes
      <4> QED
        BY <1>5, <2>1, <3>2, <4>1 DEF Succeeds, TypeOK
    <3> QED
      BY <3>1, <3>2 DEF TypeOK
  <2>2. CASE CannotRun /\ UNCHANGED damaged
    BY <1>5, <2>2 DEF CannotRun, Fault, NoFault, TypeOK
  <2> QED
    BY <2>1, <2>2 DEF RunCommand
<1>7. StepsInv' /\ CallInv'
  BY <1>3, StepsKept
<1>8. TypeOK'
  BY <1>1, <1>3, <1>6, TypeKept DEF TypeOK
<1>9. ASSUME NEW i \in passed PROVE ~Undoes(Steps, i, pc)
  BY <1>1 DEF Undoes, Now
<1>10. OwedInv'
  BY <1>1, <1>3, <1>9, OwedKept
<1>11. pc' # pc + 1 => ~success'
  BY <1>1, <1>2, FailureNoticed DEF Succeeds
<1>12. ActiveInv'
  BY <1>1, <1>3, <1>11, ActiveKept
<1>13. damaged' => ~success'
  BY <1>1, <1>6, DamagedIsChecked DEF Fails
<1>14. success' /\ failed' # failed => fstype = "xfs" /\ call.op = "copy"
  BY <1>1, <1>2, FailureNoticed DEF Succeeds
<1>15. ResultInv'
  BY <1>1, <1>3, <1>6, <1>13, <1>14, ResultKept
<1> QED
  BY <1>7, <1>8, <1>10, <1>12, <1>15

(* A step which fails without running a program, whatever it was to do. *)
LEMMA FailingKeeps ==
    ASSUME IInv, Running, Now.after \subseteq passed, Fails,
           UNCHANGED <<fstype, env, busy, call, mounts, dirs, place, damaged>>,
           Now.do \notin {"run", "rmdir"},
           Now.do = "umount" => stuck' = stuck \cup {MountOf(Now)[2]},
           Now.do # "umount" => stuck' = stuck,
           mnt_number' \in Nat, mnt_number <= mnt_number',
           Fault \/ (NoFault /\ ~Found)
    PROVE  IInv'
<1> USE DEF IInv
<1>1. /\ Onward /\ details' \in Seq(Statuses) /\ (Running' => Len(details') = pc' - 1) /\ DetailsSettled'
      /\ success' \in BOOLEAN /\ (success' => success)
  BY Ends
<1>2. pc \in DOMAIN Steps /\ Answered(fstype, env, call, Steps)
  BY DEF CallInv, Running, Sound, TypeOK
<1>3. Gap(fstype, call) \/ Found
  BY <1>2 DEF Answered, Now, Found
<1>4. blamed' \in BOOLEAN /\ (blamed => blamed') /\ (success /\ ~success' => blamed' \/ Gap(fstype, call))
  <2>1. CASE Fault
    BY <2>1 DEF Fault
  <2>2. CASE NoFault /\ ~Found
    BY <1>3, <2>2 DEF NoFault, TypeOK
  <2> QED
    BY <2>1, <2>2
<1>5. StepsInv' /\ CallInv' /\ pc' \in Nat \ {0}
  BY <1>1, StepsKept
<1>6. TypeOK'
  BY <1>1, <1>4, <1>5 DEF TypeOK, Statuses
<1>7. OwedInv'
  BY <1>1, OwedKept
<1>8. success' => fstype = "xfs" /\ call.op = "copy"
  BY FailureNoticed
<1>9. passed' = passed /\ (pc' # pc + 1 => ~success')
  BY FailureNoticed
<1>10. Now.do = "umount" => ~success' \/ Unnoticed'
  BY <1>8 DEF Unnoticed
<1>11. ActiveInv'
  BY <1>1, <1>9, <1>10, ActiveKept
<1>12. damaged' = FALSE
  BY DamagedIsChecked DEF TypeOK
<1>13. ResultInv'
  BY <1>1, <1>4, <1>8, <1>12, ResultKept
<1> QED
  BY <1>5, <1>6, <1>7, <1>11, <1>13

LEMMA LookUpKeeps == IInv /\ LookUp => IInv'
<1> SUFFICES ASSUME IInv, LookUp
             PROVE  IInv'
  OBVIOUS
<1> USE DEF IInv
<1>1. /\ Running /\ Now.do = "find" /\ Now.after \subseteq passed
      /\ UNCHANGED <<fstype, env, busy, call, mounts, dirs, place, stuck, damaged, mnt_number>>
      /\ mnt_number \in Nat
  BY DEF LookUp, Doing, session, world, TypeOK
<1>2. CASE Fails /\ Fault
  <2>1. mnt_number' \in Nat /\ mnt_number <= mnt_number'
    BY <1>1
  <2>2. Now.do \notin {"run", "rmdir", "umount"}
    BY <1>1
  <2>3. Fault \/ (NoFault /\ ~Found)
    BY <1>2
  <2> QED
    BY <1>1, <1>2, <2>1, <2>2, <2>3, FailingKeeps
<1>3. CASE Succeeds /\ NoFault
  <2>1. /\ Onward /\ details' \in Seq(Statuses) /\ (Running' => Len(details') = pc' - 1) /\ DetailsSettled'
        /\ success' \in BOOLEAN /\ (success' => success)
    BY <1>1, <1>3, Ends
  <2>2. StepsInv' /\ CallInv'
    BY <2>1, StepsKept
  <2>3. blamed' = blamed /\ failed' = failed /\ pc' = pc + 1 /\ (success => success')
    BY <1>3 DEF NoFault, Succeeds
  <2>4. damaged' = FALSE
    BY <1>1, DamagedIsChecked DEF TypeOK
  <2>5. TypeOK'
    BY <1>1, <2>1, <2>3, <2>4, TypeKept DEF TypeOK
  <2>6. OwedInv'
    BY <1>1, <2>1, OwedKept DEF Undoes, Now
  <2>7. ActiveInv'
    BY <1>1, <2>1, <2>3, ActiveKept
  <2>8. ResultInv'
    BY <2>1, <2>3, <2>4, ResultKept
  <2> QED
    BY <2>2, <2>5, <2>6, <2>7, <2>8
<1> QED
  BY <1>2, <1>3 DEF LookUp

(* A step which succeeds without running a program, but for what it makes  *)
(* or mounts.                                                              *)
LEMMA SucceedingKeeps ==
    ASSUME IInv, Running, Now.after \subseteq passed, Succeeds, NoFault, Now.do # "run",
           UNCHANGED <<fstype, env, busy, call, damaged>>
    PROVE  /\ Onward /\ StepsInv' /\ CallInv' /\ ResultInv' /\ details' \in Seq(Statuses)
           /\ success' = success /\ blamed' = blamed /\ success' \in BOOLEAN /\ damaged' \in BOOLEAN
           /\ blamed' \in BOOLEAN /\ passed' = passed \cup {pc} /\ pc' = pc + 1
<1> USE DEF IInv
<1>1. /\ Onward /\ details' \in Seq(Statuses) /\ (Running' => Len(details') = pc' - 1) /\ DetailsSettled'
      /\ success' \in BOOLEAN /\ (success' => success)
  BY Ends
<1>2. StepsInv' /\ CallInv'
  BY <1>1, StepsKept
<1>3. blamed' = blamed /\ failed' = failed /\ success' = success /\ passed' = passed \cup {pc} /\ pc' = pc + 1
  BY DEF NoFault, Succeeds
<1>4. damaged' = FALSE
  BY DamagedIsChecked DEF TypeOK
<1>5. blamed' \in BOOLEAN
  BY <1>3 DEF TypeOK
<1>6. ResultInv'
  BY <1>1, <1>3, <1>4, ResultKept
<1> QED
  BY <1>1, <1>2, <1>3, <1>4, <1>5, <1>6

(* No directory is the place of two steps. *)
LEMMA OwnPlace ==
    ASSUME TypeOK, CallInv, StepsInv, Running, Now.do = "mkdir"
    PROVE  /\ Now.dir \in DOMAIN NoPlace
           /\ \A i \in passed : Steps[i].do \in {"mkdir", "mount"} => Steps[i].dir # Now.dir
<1>1. Paired(Steps) /\ pc \in DOMAIN Steps /\ DOMAIN Steps = 1 .. Len(Steps)
  BY DEF CallInv, Running, Sound, TypeOK
<1>2. Now.dir \in DOMAIN NoPlace
  BY <1>1 DEF Paired, Now
<1>3. ASSUME NEW i \in DOMAIN Steps, i < pc, Steps[i].do = "mkdir"
      PROVE  Steps[i].dir # Now.dir
  BY <1>1, <1>3 DEF Paired, Now
<1>4. ASSUME NEW i \in passed, Steps[i].do = "mount"
      PROVE  Steps[i].dir # Now.dir
  <2>1. i \in DOMAIN Steps /\ i < pc
    BY DEF StepsInv
  <2>2. PICK k \in DOMAIN Steps : k < i /\ Steps[k].do = "mkdir" /\ Steps[k].dir = Steps[i].dir
    BY <1>1, <1>4, <2>1 DEF Paired
  <2> QED
    BY <1>1, <1>3, <2>1, <2>2 DEF TypeOK
<1> QED
  BY <1>2, <1>3, <1>4 DEF StepsInv

(* What is made or mounted is owed at once. *)
LEMMA OwedAtOnce ==
    ASSUME TypeOK, CallInv, Running, Now.do \in {"mkdir", "mount"}, Steps' = Steps,
           passed' = passed \cup {pc}, pc' = pc + 1, NEW i, i = pc
    PROVE  Owed(i)'
<1>1. Paired(Steps) /\ pc \in DOMAIN Steps /\ DOMAIN Steps = 1 .. Len(Steps)
  BY DEF CallInv, Running, Sound, TypeOK
<1>2. PICK j \in DOMAIN Steps : Undoes(Steps, pc, j)
  BY <1>1 DEF Paired, Now
<1>3. pc' <= j
  BY <1>1, <1>2 DEF Undoes
<1> QED
  BY <1>2, <1>3 DEF Owed

(* A step which was missed, was before the one which now succeeds.         *)
LEMMA MissedBefore ==
    ASSUME TypeOK, CallInv, Running, passed' = passed \cup {pc}, pc' = pc + 1,
           NEW j \in DOMAIN Steps, j < pc', j \notin passed', Steps[j].after \subseteq passed'
    PROVE  j < pc /\ j \notin passed /\ Steps[j].after \subseteq passed
<1>1. pc \in Nat \ {0} /\ DOMAIN Steps = 1 .. Len(Steps) /\ Len(Steps) \in Nat /\ Steps[j].after \subseteq 1 .. j - 1
  BY DEF TypeOK, CallInv, Running, Sound, Answered
<1>2. j < pc /\ j \notin passed
  BY <1>1
<1>3. pc \notin 1 .. j - 1
  BY <1>1, <1>2
<1> QED
  BY <1>1, <1>2, <1>3

LEMMA MakeDirectory ==
    ASSUME IInv, mk_temp_dir, Succeeds, NoFault, dirs' = dirs \cup {mnt_number'},
           place' = [place EXCEPT ![Now.dir] = mnt_number']
    PROVE  IInv'
<1> USE DEF IInv
<1>1. /\ Running /\ Now.do = "mkdir" /\ Now.after \subseteq passed /\ mnt_number' = mnt_number + 1
      /\ UNCHANGED <<fstype, env, busy, call, mounts, stuck, damaged>>
  BY DEF mk_temp_dir, Doing, session
<1>2. /\ Onward /\ StepsInv' /\ CallInv' /\ ResultInv' /\ details' \in Seq(Statuses)
      /\ success' = success /\ blamed' = blamed /\ success' \in BOOLEAN /\ damaged' \in BOOLEAN
      /\ blamed' \in BOOLEAN /\ passed' = passed \cup {pc} /\ pc' = pc + 1
  BY <1>1, SucceedingKeeps
<1>3. /\ Now.dir \in DOMAIN NoPlace
      /\ \A i \in passed : Steps[i].do \in {"mkdir", "mount"} => Steps[i].dir # Now.dir
  BY <1>1, OwnPlace
<1>4. Steps' = Steps /\ pc' \in Nat \ {0} /\ pc \in DOMAIN Steps
  BY <1>1, <1>2, StepsKept DEF Running, CallInv, Sound, TypeOK
<1>5. TypeOK'
  <2>a. mnt_number \in Nat /\ dirs \subseteq 1 .. mnt_number /\ place \in [DOMAIN NoPlace -> 0 .. mnt_number]
    BY DEF TypeOK
  <2>1. mnt_number' \in Nat /\ dirs' \subseteq 1 .. mnt_number'
    BY <1>1, <2>a
  <2>2. place' \in [DOMAIN NoPlace -> 0 .. mnt_number']
    BY <1>1, <1>3, <2>a
  <2>3. \A x, y \in DOMAIN NoPlace : place'[x] = place'[y] => x = y \/ place'[x] = 0
    BY <1>1, <2>1 DEF TypeOK
  <2> QED
    BY <1>1, <1>2, <1>4, <2>1, <2>2, <2>3 DEF TypeOK, Statuses
<1>6. place'[Now.dir] = mnt_number' /\ \A dir : dir # Now.dir => place'[dir] = place[dir]
  BY <1>3 DEF TypeOK
<1>7. \A s : s.dir # Now.dir => MountOf(s)' = MountOf(s)
  BY <1>1, <1>6, SameSteps DEF MountOf
<1>8. \A i : Owed(i) => Owed(i)'
  BY <1>1, <1>2, <1>4, StillOwed DEF Undoes, Now
<1>9. \A i : i = pc => Owed(i)'
  BY <1>1, <1>2, <1>4, OwedAtOnce
<1>10. OwedInv'
  <2>1. ASSUME NEW d \in dirs' \ stuck'
        PROVE  \E i \in DOMAIN Steps : Owed(i)' /\ Steps[i].do = "mkdir" /\ d = place'[Steps[i].dir]
    <3>1. CASE d = mnt_number'
      BY <1>1, <1>4, <1>6, <1>9, <3>1, Zenon DEF Now
    <3>2. CASE d \in dirs \ stuck
      <4>1. PICK i \in DOMAIN Steps : Owed(i) /\ Steps[i].do = "mkdir" /\ d = place[Steps[i].dir]
        BY <3>2 DEF OwedInv
      <4> QED
        BY <1>3, <1>6, <1>8, <4>1 DEF Owed
    <3> QED
      BY <1>1, <3>1, <3>2
  <2>2. ASSUME NEW m \in mounts', m[2] \notin stuck' \cup {TheUser}
        PROVE  \E i \in DOMAIN Steps : Owed(i)' /\ Steps[i].do = "mount" /\ m = MountOf(Steps[i])'
    <3>1. PICK i \in DOMAIN Steps : Owed(i) /\ Steps[i].do = "mount" /\ m = MountOf(Steps[i])
      BY <1>1, <2>2 DEF OwedInv
    <3> QED
      BY <1>3, <1>4, <1>7, <1>8, <3>1 DEF Owed
  <2> QED
    BY <1>4, <2>1, <2>2 DEF OwedInv
<1>11. ActiveInv'
  <2>1. Held' = Held
    BY <1>1, <1>2, <1>4 DEF Held, Undoes, Now
  <2>2. \A i \in Held : MountOf(Steps[i])' = MountOf(Steps[i])
    BY <1>3, <1>4, <1>7 DEF Held
  <2> QED
    <3>1. CASE Unnoticed
      BY <1>1, <3>1 DEF ActiveInv, Unnoticed
    <3>2. CASE ~Unnoticed
      <4>1. \A p \in Partitions : busy'[p] => Active(p)'
        BY <1>1, <3>2 DEF ActiveInv, Active
      <4>2. /\ \A m \in mounts' : busy'[m[1]] \/ \E i \in Held' : m = MountOf(Steps[i])'
            /\ \A i \in Held' : MountOf(Steps[i])' \in mounts'
        BY <1>1, <2>1, <2>2, <3>2 DEF ActiveInv
      <4>3. ASSUME NEW j \in DOMAIN Steps, j < pc', j \notin passed', Steps[j].do = "umount",
                   Steps[j].after \subseteq passed'
            PROVE  ~success'
        <5>1. j < pc /\ j \notin passed /\ Steps[j].after \subseteq passed
          BY <1>1, <1>2, <4>3, MissedBefore
        <5> QED
          BY <1>2, <3>2, <4>3, <5>1 DEF ActiveInv
      <4> QED
        BY <1>4, <4>1, <4>2, <4>3 DEF ActiveInv
    <3> QED
      BY <3>1, <3>2
<1> QED
  BY <1>2, <1>5, <1>10, <1>11

LEMMA mk_temp_dirKeeps == IInv /\ mk_temp_dir => IInv'
<1> SUFFICES ASSUME IInv, mk_temp_dir
             PROVE  IInv'
  OBVIOUS
<1>1. TypeOK
  BY DEF IInv
<1>2. mnt_number' = mnt_number + 1 /\ mnt_number' \notin dirs /\ mnt_number' \in Nat /\ mnt_number <= mnt_number'
  BY <1>1 DEF mk_temp_dir, TypeOK
<1>3. CASE Fails /\ Fault /\ UNCHANGED <<dirs, place>>
  <2>1. /\ Running /\ Now.do \notin {"run", "rmdir", "umount"} /\ Now.after \subseteq passed
        /\ UNCHANGED <<fstype, env, busy, call, mounts, dirs, place, damaged, stuck>>
    BY <1>3 DEF mk_temp_dir, Doing, session
  <2> QED
    BY <1>2, <1>3, <2>1, FailingKeeps
<1>4. CASE /\ Succeeds /\ NoFault /\ dirs' = dirs \cup {mnt_number'}
           /\ place' = [place EXCEPT ![Now.dir] = mnt_number']
  BY <1>4, MakeDirectory
<1> QED
  BY <1>2, <1>3, <1>4 DEF mk_temp_dir

(* A mount concerns one partition, and a directory made for it.            *)
LEMMA MountsOne ==
    ASSUME TypeOK, CallInv, Running, NEW i \in DOMAIN Steps, Steps[i].do \in {"mount", "umount"}
    PROVE  /\ \E which \in {"this", "other"} :
                /\ Steps[i].parts = {which} /\ PartsOf(Steps[i]) = {PartOf(which)}
                /\ MountOf(Steps[i]) = <<PartOf(which), place[Steps[i].dir]>>
           /\ MountOf(Steps[i]) \in Partitions \X Nat
<1>1. Paired(Steps) /\ DOMAIN Steps = 1 .. Len(Steps) /\ call.part \in Partitions
  BY DEF CallInv, Running, Sound, Calls
<1>2. PICK which \in {"this", "other"} : Steps[i].parts = {which}
  BY <1>1 DEF Paired
<1>3. PartsOf(Steps[i]) = {PartOf(which)}
  BY <1>2 DEF PartsOf
<1>4. MountOf(Steps[i]) = <<PartOf(which), place[Steps[i].dir]>>
  BY <1>3 DEF MountOf
<1>5. PartOf(which) \in Partitions
  BY <1>1, <1>2 DEF PartOf, Partitions, Other
<1>6. PICK k \in DOMAIN Steps : Steps[k].do = "mkdir" /\ Steps[k].dir = Steps[i].dir
  <2>1. PICK l \in DOMAIN Steps : Steps[l].do = "mount" /\ Steps[l].dir = Steps[i].dir
    BY <1>1 DEF Paired, Undoes
  <2> QED
    BY <1>1, <2>1 DEF Paired
<1>7. place[Steps[i].dir] \in Nat
  <2>1. Steps[i].dir \in DOMAIN NoPlace
    BY <1>1, <1>6 DEF Paired
  <2> QED
    BY <2>1 DEF TypeOK
<1> QED
  BY <1>2, <1>3, <1>4, <1>5, <1>7

LEMMA MountHeld ==
    ASSUME IInv, mount, Succeeds, NoFault, mounts' = mounts \cup {MountOf(Now)}
    PROVE  IInv'
<1> USE DEF IInv
<1>1. /\ Running /\ Now.do = "mount" /\ Now.after \subseteq passed
      /\ UNCHANGED <<fstype, env, busy, call, dirs, place, mnt_number, stuck, damaged>>
  BY DEF mount, Doing, session
<1>2. /\ Onward /\ StepsInv' /\ CallInv' /\ ResultInv' /\ details' \in Seq(Statuses)
      /\ success' = success /\ blamed' = blamed /\ success' \in BOOLEAN /\ damaged' \in BOOLEAN
      /\ blamed' \in BOOLEAN /\ passed' = passed \cup {pc} /\ pc' = pc + 1
  BY <1>1, SucceedingKeeps
<1>3. Steps' = Steps /\ pc' \in Nat \ {0} /\ pc \in DOMAIN Steps
  BY <1>1, <1>2, StepsKept DEF Running, CallInv, Sound, TypeOK
<1>4. MountOf(Now) \in Partitions \X Nat
  BY <1>1, <1>3, MountsOne DEF Now
<1>5. TypeOK'
  BY <1>1, <1>2, <1>3, <1>4 DEF TypeOK, Statuses
<1>6. \A s : MountOf(s)' = MountOf(s)
  BY <1>1, SameSteps DEF MountOf
<1>7. \A i : Owed(i) => Owed(i)'
  BY <1>1, <1>2, <1>3, StillOwed DEF Undoes, Now
<1>8. \A i : i = pc => Owed(i)'
  BY <1>1, <1>2, <1>3, OwedAtOnce
<1>9. OwedInv'
  <2>1. ASSUME NEW d \in dirs' \ stuck'
        PROVE  \E i \in DOMAIN Steps : Owed(i)' /\ Steps[i].do = "mkdir" /\ d = place[Steps[i].dir]
    BY <1>1, <1>7 DEF OwedInv
  <2>2. ASSUME NEW m \in mounts', m[2] \notin stuck' \cup {TheUser}
        PROVE  \E i \in DOMAIN Steps : Owed(i)' /\ Steps[i].do = "mount" /\ m = MountOf(Steps[i])
    <3>1. CASE m \in mounts
      BY <1>1, <1>7, <2>2, <3>1 DEF OwedInv
    <3>2. CASE m = MountOf(Now)
      BY <1>1, <1>3, <1>8, <3>2 DEF Now
    <3> QED
      BY <3>1, <3>2
  <2> QED
    BY <1>1, <1>3, <1>6, <2>1, <2>2 DEF OwedInv
<1>10. ActiveInv'
  <2>1. CASE Unnoticed
    BY <1>1, <2>1 DEF ActiveInv, Unnoticed
  <2>2. CASE ~Unnoticed
    <3>1. Held' = Held \cup {pc}
      <4>1. \A j \in passed' : ~Undoes(Steps, pc, j)
        <5>1. \A j \in passed' : j \in Nat /\ j <= pc
          BY <1>1, <1>2, <1>3 DEF StepsInv, TypeOK, CallInv, Running, Sound
        <5> QED
          BY <5>1 DEF Undoes, TypeOK
      <4>2. \A i : ~Undoes(Steps, i, pc)
        BY <1>1 DEF Undoes, Now
      <4> QED
        BY <1>1, <1>2, <1>3, <4>1, <4>2 DEF Held, Now
    <3>2. \A p \in Partitions : busy'[p] => Active(p)'
      BY <1>1, <2>2 DEF ActiveInv, Active
    <3>3. /\ \A m \in mounts' : busy'[m[1]] \/ \E i \in Held' : m = MountOf(Steps[i])
          /\ \A i \in Held' : MountOf(Steps[i]) \in mounts'
      BY <1>1, <2>2, <3>1 DEF ActiveInv, Now
    <3>4. ASSUME NEW j \in DOMAIN Steps, j < pc', j \notin passed', Steps[j].do = "umount",
                 Steps[j].after \subseteq passed'
          PROVE  ~success'
      <4>1. j < pc /\ j \notin passed /\ Steps[j].after \subseteq passed
        BY <1>1, <1>2, <3>4, MissedBefore
      <4> QED
        BY <1>2, <2>2, <3>4, <4>1 DEF ActiveInv
    <3> QED
      BY <1>3, <1>6, <3>2, <3>3, <3>4 DEF ActiveInv
  <2> QED
    BY <2>1, <2>2
<1> QED
  BY <1>2, <1>5, <1>9, <1>10

LEMMA mountKeeps == IInv /\ mount => IInv'
<1> SUFFICES ASSUME IInv, mount
             PROVE  IInv'
  OBVIOUS
<1>1. /\ Running /\ Now.do \notin {"run", "rmdir", "umount"} /\ Now.after \subseteq passed
      /\ UNCHANGED <<fstype, env, busy, call, dirs, place, damaged, stuck>>
      /\ mnt_number' \in Nat /\ mnt_number <= mnt_number'
  BY DEF mount, Doing, session, IInv, TypeOK
<1>2. CASE CannotRun /\ UNCHANGED mounts
  <2>1. Fails /\ (Fault \/ (NoFault /\ ~Found))
    BY <1>2 DEF CannotRun
  <2> QED
    BY <1>1, <1>2, <2>1, FailingKeeps
<1>3. CASE Succeeds /\ NoFault /\ mounts' = mounts \cup {MountOf(Now)}
  BY <1>3, MountHeld
<1> QED
  BY <1>2, <1>3 DEF mount

(* Two mounts of a call are on different partitions. *)
LEMMA MountsDiffer ==
    ASSUME TypeOK, CallInv, Running, NEW i \in DOMAIN Steps, NEW k \in DOMAIN Steps,
           Steps[i].do = "mount", Steps[k].do = "mount", MountOf(Steps[i])[1] = MountOf(Steps[k])[1]
    PROVE  i = k
<1>1. Paired(Steps) /\ call.part \in Partitions
  BY DEF CallInv, Running, Sound, Calls
<1>2. PICK v \in {"this", "other"} :
        Steps[i].parts = {v} /\ MountOf(Steps[i]) = <<PartOf(v), place[Steps[i].dir]>>
  BY MountsOne
<1>3. PICK w \in {"this", "other"} :
        Steps[k].parts = {w} /\ MountOf(Steps[k]) = <<PartOf(w), place[Steps[k].dir]>>
  BY MountsOne
<1>4. PartOf(v) = PartOf(w)
  BY <1>2, <1>3
<1>5. v = w
  BY <1>1, <1>4 DEF PartOf, Partitions, Other
<1>6. Steps[i].parts = Steps[k].parts
  BY <1>2, <1>3, <1>5
<1> QED
  BY <1>1, <1>6 DEF Paired

(* What is unmounted is what the call has mounted and nothing else it      *)
(* holds.                                                                  *)
LEMMA UnmountsOwn ==
    ASSUME TypeOK, CallInv, StepsInv, Running, Now.do = "umount", Now.after \subseteq passed
    PROVE  \E i \in passed :
             /\ Undoes(Steps, i, pc) /\ Steps[i].do = "mount" /\ MountOf(Steps[i]) = MountOf(Now)
             /\ \A k \in passed : Undoes(Steps, k, pc) => k = i
<1>1. Paired(Steps) /\ pc \in DOMAIN Steps
  BY DEF CallInv, Running, Sound, TypeOK
<1>2. PICK i \in DOMAIN Steps : Undoes(Steps, i, pc) /\ i \in Now.after
  BY <1>1 DEF Paired, Now
<1>3. \A k : Undoes(Steps, k, pc) => /\ Steps[k].do = "mount" /\ Steps[k].parts = Now.parts
                                     /\ MountOf(Steps[k]) = MountOf(Now)
  BY DEF Undoes, Now, MountOf, PartsOf
<1>4. \A k \in passed : Undoes(Steps, k, pc) => k = i
  BY <1>1, <1>2, <1>3 DEF StepsInv, Paired
<1> QED
  BY <1>2, <1>3, <1>4

LEMMA Unmounted ==
    ASSUME IInv, umount, Succeeds, NoFault, mounts' = mounts \ {MountOf(Now)}, stuck' = stuck
    PROVE  IInv'
<1> USE DEF IInv
<1>1. /\ Running /\ Now.do = "umount" /\ Now.after \subseteq passed
      /\ UNCHANGED <<fstype, env, busy, call, dirs, place, mnt_number, stuck, damaged>>
  BY DEF umount, Doing, session
<1>2. /\ Onward /\ StepsInv' /\ CallInv' /\ ResultInv' /\ details' \in Seq(Statuses)
      /\ success' = success /\ blamed' = blamed /\ success' \in BOOLEAN /\ damaged' \in BOOLEAN
      /\ blamed' \in BOOLEAN /\ passed' = passed \cup {pc} /\ pc' = pc + 1
  BY <1>1, SucceedingKeeps
<1>3. Steps' = Steps /\ pc' \in Nat \ {0} /\ pc \in DOMAIN Steps
  BY <1>1, <1>2, StepsKept DEF Running, CallInv, Sound, TypeOK
<1>4. PICK o \in passed :
        /\ Undoes(Steps, o, pc) /\ Steps[o].do = "mount" /\ MountOf(Steps[o]) = MountOf(Now)
        /\ \A k \in passed : Undoes(Steps, k, pc) => k = o
  BY <1>1, UnmountsOwn
<1>5. mounts' = mounts \ {MountOf(Steps[o])} /\ o \in DOMAIN Steps
  BY <1>4 DEF StepsInv
<1>6. TypeOK'
  BY <1>1, <1>2, <1>3 DEF TypeOK, Statuses
<1>7. \A s : MountOf(s)' = MountOf(s)
  BY <1>1, SameSteps DEF MountOf
<1>8. \A i : Owed(i) /\ i # o => Owed(i)'
  BY <1>1, <1>2, <1>3, <1>4, StillOwed DEF Owed
<1>9. OwedInv'
  <2>1. ASSUME NEW d \in dirs' \ stuck'
        PROVE  \E i \in DOMAIN Steps : Owed(i)' /\ Steps[i].do = "mkdir" /\ d = place[Steps[i].dir]
    BY <1>1, <1>4, <1>8 DEF OwedInv
  <2>2. ASSUME NEW m \in mounts', m[2] \notin stuck' \cup {TheUser}
        PROVE  \E i \in DOMAIN Steps : Owed(i)' /\ Steps[i].do = "mount" /\ m = MountOf(Steps[i])
    BY <1>1, <1>5, <1>8, <2>2 DEF OwedInv
  <2> QED
    BY <1>1, <1>3, <1>7, <2>1, <2>2 DEF OwedInv
<1>10. ActiveInv'
  <2>1. CASE Unnoticed
    BY <1>1, <2>1 DEF ActiveInv, Unnoticed
  <2>2. CASE ~Unnoticed
    <3>1. Held' = Held \ {o}
      BY <1>1, <1>2, <1>3, <1>4 DEF Held, Now
    <3>2. ~busy[MountOf(Steps[o])[1]]
      <4>1. Placed(call, Steps)
        BY <1>1 DEF CallInv, Running, Sound
      <4>2. PICK w \in {"this", "other"} :
              Steps[o].parts = {w} /\ MountOf(Steps[o]) = <<PartOf(w), place[Steps[o].dir]>>
        BY <1>1, <1>4, <1>5, MountsOne
      <4>3. IF w = "this" THEN ~call.busy ELSE call.op = "copy"
        BY <1>4, <1>5, <4>1, <4>2 DEF Placed
      <4>4. ~busy[PartOf(w)]
        BY <1>1, <4>2, <4>3 DEF CallInv, Running, PartOf
      <4> QED
        BY <4>2, <4>4
    <3>3. \A p \in Partitions : busy'[p] => Active(p)'
      BY <1>1, <1>5, <2>2, <3>2 DEF ActiveInv, Active
    <3>4. \A m \in mounts' : busy'[m[1]] \/ \E i \in Held' : m = MountOf(Steps[i])
      BY <1>1, <1>5, <2>2, <3>1 DEF ActiveInv
    <3>5. \A i \in Held' : MountOf(Steps[i]) \in mounts'
      <4> SUFFICES ASSUME NEW i \in Held, i # o
                   PROVE  MountOf(Steps[i]) # MountOf(Steps[o])
        BY <1>5, <2>2, <3>1 DEF ActiveInv
      <4>1. i \in DOMAIN Steps /\ Steps[i].do = "mount"
        BY DEF Held, StepsInv
      <4> QED
        BY <1>1, <1>4, <1>5, <4>1, MountsDiffer
    <3>6. ASSUME NEW j \in DOMAIN Steps, j < pc', j \notin passed', Steps[j].do = "umount",
                 Steps[j].after \subseteq passed'
          PROVE  ~success'
      <4>1. j < pc /\ j \notin passed /\ Steps[j].after \subseteq passed
        BY <1>1, <1>2, <3>6, MissedBefore
      <4> QED
        BY <1>2, <2>2, <3>6, <4>1 DEF ActiveInv
    <3> QED
      BY <1>3, <1>7, <3>3, <3>4, <3>5, <3>6 DEF ActiveInv
  <2> QED
    BY <2>1, <2>2
<1> QED
  BY <1>2, <1>6, <1>9, <1>10

LEMMA umountKeeps == IInv /\ umount => IInv'
<1> SUFFICES ASSUME IInv, umount
             PROVE  IInv'
  OBVIOUS
<1>1. /\ Running /\ Now.do = "umount" /\ Now.after \subseteq passed
      /\ UNCHANGED <<fstype, env, busy, call, dirs, place, damaged>>
      /\ mnt_number' \in Nat /\ mnt_number <= mnt_number'
  BY DEF umount, Doing, session, IInv, TypeOK
<1>2. CASE CannotRun /\ stuck' = stuck \cup {place[Now.dir]} /\ UNCHANGED mounts
  <2>1. Fails /\ (Fault \/ (NoFault /\ ~Found)) /\ stuck' = stuck \cup {MountOf(Now)[2]}
    BY <1>2 DEF CannotRun, MountOf
  <2> QED
    BY <1>1, <1>2, <2>1, FailingKeeps
<1>3. CASE Succeeds /\ NoFault /\ mounts' = mounts \ {MountOf(Now)} /\ stuck' = stuck
  BY <1>3, Unmounted
<1> QED
  BY <1>2, <1>3 DEF umount

LEMMA rm_temp_dirKeeps == IInv /\ rm_temp_dir => IInv'
<1> SUFFICES ASSUME IInv, rm_temp_dir
             PROVE  IInv'
  OBVIOUS
<1> USE DEF IInv
<1> DEFINE dir == place[Now.dir]
           inUse == \E m \in mounts : m[2] = dir
<1>1. /\ Running /\ Now.do = "rmdir" /\ Now.after \subseteq passed
      /\ UNCHANGED <<fstype, env, busy, call, mounts, place, mnt_number, damaged>>
  BY DEF rm_temp_dir, Doing, session
<1>2. \/ ~inUse /\ dirs' = dirs \ {dir} /\ Succeeds /\ NoFault /\ UNCHANGED stuck
      \/ inUse /\ Warns /\ NoFault /\ UNCHANGED stuck
      \/ ~inUse /\ Warns /\ Fault /\ stuck' = stuck \cup {dir}
  BY DEF rm_temp_dir
<1>3. /\ Onward /\ details' \in Seq(Statuses) /\ (Running' => Len(details') = pc' - 1) /\ DetailsSettled'
      /\ success' \in BOOLEAN /\ (success' => success)
  BY <1>1, <1>2, Ends
<1>4. Succeeds \/ Warns
  BY <1>2
<1>5. success' = success /\ pc' = pc + 1
  BY <1>4 DEF Succeeds, Warns
<1>6. dirs' \subseteq dirs /\ stuck \subseteq stuck'
  BY <1>2 DEF Warns
<1>7. blamed' \in BOOLEAN /\ (blamed => blamed')
  <2>1. NoFault \/ Fault
    BY <1>2
  <2> QED
    BY <2>1 DEF NoFault, Fault, TypeOK
<1>8. StepsInv' /\ CallInv' /\ Steps' = Steps
  BY <1>3, StepsKept
<1>9. damaged' = FALSE
  BY <1>1, DamagedIsChecked DEF TypeOK
<1>10. TypeOK'
  BY <1>1, <1>3, <1>6, <1>7, <1>9, TypeKept DEF TypeOK
<1>11. ResultInv'
  BY <1>1, <1>3, <1>5, <1>7, <1>9, ResultKept
<1>12. ActiveInv'
  BY <1>1, <1>3, <1>5, <1>6, ActiveKept
<1>13. ASSUME NEW i \in passed, Undoes(Steps, i, pc), dir \in dirs \ stuck, inUse
       PROVE  FALSE
  <2>1. PICK m \in mounts : m[2] = dir
    BY <1>13
  <2>2. dir # TheUser /\ Now.dir \in DOMAIN NoPlace /\ Paired(Steps) /\ pc \in DOMAIN Steps
    <3>1. dir # TheUser
      BY <1>13 DEF TypeOK, TheUser
    <3>2. Paired(Steps) /\ pc \in DOMAIN Steps
      BY <1>1 DEF TypeOK, CallInv, Running, Sound
    <3> QED
      BY <1>1, <3>1, <3>2 DEF Paired, Now
  <2>3. PICK k \in DOMAIN Steps : Owed(k) /\ Steps[k].do = "mount" /\ m = MountOf(Steps[k])
    BY <1>13, <2>1, <2>2 DEF OwedInv
  <2>4. Steps[k].dir = Now.dir
    <3>1. place[Steps[k].dir] = place[Now.dir]
      BY <2>1, <2>3 DEF MountOf
    <3>2. PICK l \in DOMAIN Steps : Steps[l].do = "mkdir" /\ Steps[l].dir = Steps[k].dir
      BY <2>2, <2>3 DEF Paired
    <3>3. Steps[k].dir \in DOMAIN NoPlace
      BY <2>2, <3>2 DEF Paired
    <3> QED
      BY <2>2, <3>1, <3>3 DEF TypeOK, TheUser
  <2>5. PICK j \in DOMAIN Steps : pc <= j /\ Undoes(Steps, k, j)
    BY <2>3 DEF Owed
  <2>6. Steps[j].do = "umount" /\ Steps[j].dir = Now.dir
    BY <2>3, <2>4, <2>5 DEF Undoes
  <2>7. j < pc
    BY <1>1, <2>2, <2>6 DEF Paired, Now
  <2> QED
    BY <1>1, <2>5, <2>7 DEF TypeOK, CallInv, Running, Sound
<1>14. OwedInv'
  <2>1. CASE Warns
    <3>1. UNCHANGED <<dirs, mounts, place>>
      BY <1>1, <2>1 DEF Warns
    <3>2. \A i \in passed : Undoes(Steps, i, pc) => dir \notin dirs \ stuck'
      <4>1. CASE inUse /\ UNCHANGED stuck
        BY <1>13, <4>1
      <4>2. CASE stuck' = stuck \cup {dir}
        BY <4>2
      <4>3. CASE dirs' = dirs \ {dir}
        BY <3>1, <4>3
      <4> QED
        BY <1>2, <4>1, <4>2, <4>3
    <3> QED
      BY <1>1, <1>3, <1>6, <3>1, <3>2, OwedKept
  <2>2. CASE dirs' = dirs \ {dir} /\ UNCHANGED stuck /\ Succeeds
    <3>1. passed \subseteq passed'
      BY <2>2 DEF Succeeds
    <3>2. \A i : Owed(i) /\ ~Undoes(Steps, i, pc) => Owed(i)'
      BY <1>1, <1>5, <1>8, <3>1, StillOwed
    <3>3. \A s : MountOf(s)' = MountOf(s)
      BY <1>1, SameSteps DEF MountOf
    <3>4. ASSUME NEW d \in dirs' \ stuck'
          PROVE  \E i \in DOMAIN Steps : Owed(i)' /\ Steps[i].do = "mkdir" /\ d = place[Steps[i].dir]
      <4>1. PICK i \in DOMAIN Steps : Owed(i) /\ Steps[i].do = "mkdir" /\ d = place[Steps[i].dir]
        BY <2>2 DEF OwedInv
      <4>2. ~Undoes(Steps, i, pc)
        BY <2>2, <4>1 DEF Undoes, Now
      <4> QED
        BY <3>2, <4>1, <4>2
    <3>5. ASSUME NEW m \in mounts', m[2] \notin stuck' \cup {TheUser}
          PROVE  \E i \in DOMAIN Steps : Owed(i)' /\ Steps[i].do = "mount" /\ m = MountOf(Steps[i])
      <4>1. PICK i \in DOMAIN Steps : Owed(i) /\ Steps[i].do = "mount" /\ m = MountOf(Steps[i])
        BY <1>1, <2>2, <3>5 DEF OwedInv
      <4>2. ~Undoes(Steps, i, pc)
        BY <1>1, <4>1 DEF Undoes, Now
      <4> QED
        BY <3>2, <4>1, <4>2
    <3> QED
      BY <1>1, <1>8, <3>3, <3>4, <3>5 DEF OwedInv
  <2> QED
    BY <1>2, <2>1, <2>2
<1> QED
  BY <1>8, <1>10, <1>11, <1>12, <1>14

-----------------------------------------------------------------------------
(* Between the calls                                                       *)

(* When no step is running nothing is owed.                                *)
LEMMA NothingOwedAfter ==
    ASSUME TypeOK, CallInv, StepsInv, OwedInv, ~Running
    PROVE  /\ \A i : ~Owed(i)
           /\ dirs \subseteq stuck
           /\ \A m \in mounts : m[2] \in stuck \cup {TheUser}
<1>1. pc \in Nat /\ DOMAIN Steps = 1 .. Len(Steps) /\ Len(Steps) \in Nat /\ (call = Idle \/ pc > Len(Steps))
  <2>1. CASE call = Idle
    BY <2>1 DEF Steps, TypeOK
  <2>2. CASE call # Idle
    BY <2>2 DEF CallInv, Sound, Running, TypeOK
  <2> QED
    BY <2>1, <2>2
<1>2. \A i : ~Owed(i)
  BY <1>1 DEF Owed, Steps
<1> QED
  BY <1>2 DEF OwedInv

LEMMA Nowhere ==
    ASSUME NEW n \in Nat
    PROVE  NoPlace \in [DOMAIN NoPlace -> 0 .. n] /\ \A x \in DOMAIN NoPlace : NoPlace[x] = 0
BY DEF NoPlace

LEMMA NoDetails == <<>> \in Seq(Statuses) /\ Len(<<>>) = 0 /\ DOMAIN <<>> = {}
OBVIOUS

(* A call begins, and ends, with nowhere a mount point and no details. *)
LEMMA FreshType ==
    ASSUME TypeOK, UNCHANGED <<fstype, dirs, mnt_number>>, mounts' \subseteq Partitions \X Nat,
           busy' \in [Partitions -> BOOLEAN],
           place' = NoPlace, details' = <<>>, pc' = 1, success' \in BOOLEAN, damaged' \in BOOLEAN, blamed' \in BOOLEAN
    PROVE  TypeOK'
<1>1. details' \in Seq(Statuses)
  BY NoDetails
<1>2. NoPlace \in [DOMAIN NoPlace -> 0 .. mnt_number] /\ \A x \in DOMAIN NoPlace : NoPlace[x] = 0
  BY Nowhere DEF TypeOK
<1>3. place' \in [DOMAIN NoPlace -> 0 .. mnt_number'] /\ \A x, y \in DOMAIN NoPlace : place'[x] = place'[y] => x = y \/ place'[x] = 0
  BY <1>2
<1>4. fstype' \in Types /\ mnt_number' \in Nat /\ dirs' \subseteq 1 .. mnt_number' /\ pc' \in Nat \ {0}
  BY DEF TypeOK
<1> QED
  BY <1>1, <1>3, <1>4 DEF TypeOK, Statuses

LEMMA CallKeeps ==
    ASSUME IInv, NEW op \in Operations, NEW p \in Partitions, Call(op, p)
    PROVE  IInv'
<1> USE DEF IInv
<1>1. /\ call = Idle /\ Offered(op, p) /\ UNCHANGED <<fstype, env, busy, mounts, dirs, stuck, mnt_number>>
      /\ pc' = 1 /\ passed' = {} /\ place' = NoPlace /\ details' = <<>> /\ failed' = {} /\ blamed' = FALSE
  BY DEF Call, session
<1>2. damaged' \in BOOLEAN /\ (damaged' => op = "check_repair")
  BY DEF Call
<1>3. call' \in Calls /\ call' # Idle /\ call'.busy = busy[p] /\ call'.op = op /\ call'.part = p
  <2>1. PICK huge \in BOOLEAN, label \in {"no label", "a label"} :
          call' = [op |-> op, part |-> p, busy |-> busy[p], huge |-> huge, label |-> label]
    BY DEF Call
  <2> QED
    BY <2>1 DEF Calls, TypeOK, Operations, Idle
<1>4. /\ op \in DOMAIN (IF busy[p] THEN Online ELSE Offline)
      /\ get_fs(fstype, env, (IF busy[p] THEN Online ELSE Offline)[op]) = EXTERNAL
      /\ op = "copy" => ~busy[Other(p)]
  BY <1>1 DEF Offered
<1>5. fstype \in DOMAIN SupportedFileSystems
  BY TypesAssumption DEF TypeOK
<1>6. op \in DOMAIN Procedures(fstype, call') /\ Sound(fstype, env, call', Procedures(fstype, call')[op])
  BY <1>3, <1>4, <1>5, ProceduresAreSound DEF Capability, Offers
<1>7. Implemented(call') /\ Implemented(call)' /\ success' = TRUE
  <2>1. Implemented(call') /\ Implemented(call)'
    BY <1>1, <1>3, <1>6 DEF Implemented
  <2> QED
    BY <2>1 DEF Call
<1>8. Steps' = Procedures(fstype, call')[op]
  BY <1>1, <1>3, <1>7 DEF Steps
<1>9. TypeOK'
  <2>1. mounts \subseteq Partitions \X Nat /\ busy \in [Partitions -> BOOLEAN]
    BY DEF TypeOK
  <2> QED
    BY <1>1, <1>2, <1>7, <2>1, FreshType
<1>10. CallInv'
  BY <1>1, <1>3, <1>4, <1>6, <1>7, <1>8 DEF CallInv
<1>11. StepsInv'
  BY <1>1 DEF StepsInv
<1>12. dirs \subseteq stuck /\ \A m \in mounts : m[2] \in stuck \cup {TheUser}
  BY <1>1, NothingOwedAfter DEF Running
<1>13. OwedInv'
  BY <1>1, <1>12 DEF OwedInv
<1>14. ActiveInv'
  <2>1. CASE Unnoticed
    BY <1>1, <2>1 DEF ActiveInv, Unnoticed
  <2>2. CASE ~Unnoticed
    <3>1. Held = {} /\ Held' = {}
      <4>1. passed = {}
        <5>1. Steps = <<>>
          BY <1>1 DEF Steps
        <5> QED
          BY <5>1, NoDetails DEF StepsInv
      <4> QED
        BY <1>1, <4>1 DEF Held
    <3>2. DOMAIN Steps' = 1 .. Len(Steps') /\ Len(Steps') \in Nat
      BY <1>6, <1>8 DEF Sound
    <3>3. \A j \in DOMAIN Steps' : ~(j < pc')
      BY <1>1, <3>2
    <3> QED
      BY <1>1, <2>2, <3>1, <3>3 DEF ActiveInv, Active
  <2> QED
    BY <2>1, <2>2
<1>15. ResultInv'
  <2>1. DetailsSettled'
    BY <1>1, NoDetails DEF DetailsSettled
  <2>2. Len(details') = pc' - 1
    <3>1. details' = <<>> /\ pc' = 1
      BY <1>1
    <3>2. Len(details') = 0
      BY <3>1, NoDetails
    <3> QED
      BY <3>1, <3>2
  <2>3. damaged' => call'.op = "check_repair"
    BY <1>2, <1>3
  <2>4. failed' = {} /\ success' = TRUE /\ pc' = 1 /\ call' # Idle
    BY <1>1, <1>3, <1>7
  <2> QED
    BY <2>1, <2>2, <2>3, <2>4 DEF ResultInv
<1> QED
  BY <1>9, <1>10, <1>11, <1>13, <1>14, <1>15

(* A call which succeeds holds nothing any more.                           *)
LEMMA NothingHeld ==
    ASSUME TypeOK, CallInv, StepsInv, ActiveInv, ~Unnoticed, Ended, success
    PROVE  Held = {}
<1> SUFFICES ASSUME NEW i \in Held
             PROVE  FALSE
  OBVIOUS
<1>1. Paired(Steps) /\ DOMAIN Steps = 1 .. Len(Steps) /\ Len(Steps) \in Nat
  BY DEF CallInv, Ended, Sound
<1>2. i \in passed /\ i \in DOMAIN Steps /\ Steps[i].do = "mount"
  BY DEF Held, StepsInv
<1>3. PICK j \in DOMAIN Steps : Undoes(Steps, i, j)
  BY <1>1, <1>2 DEF Paired
<1>4. Steps[j].do = "umount" /\ Steps[j].after \subseteq passed
  BY <1>2, <1>3 DEF Undoes
<1>5. j < pc /\ j \notin passed
  BY <1>1, <1>2, <1>3 DEF Held, Ended, TypeOK
<1> QED
  BY <1>4, <1>5 DEF ActiveInv

LEMMA ReturnKeeps == IInv /\ Return => IInv'
<1> SUFFICES ASSUME IInv, Return
             PROVE  IInv'
  OBVIOUS
<1> USE DEF IInv
<1>1. /\ Ended /\ call' = Idle /\ pc' = 1 /\ passed' = {} /\ place' = NoPlace /\ success' = TRUE
      /\ details' = <<>> /\ failed' = {} /\ blamed' = FALSE /\ damaged' = FALSE
      /\ UNCHANGED <<fstype, env, mounts, dirs, stuck, mnt_number>>
      /\ UNCHANGED busy \/ Rescan(mounts)
      /\ ~success => Rescan(mounts)
  BY DEF Return, session
<1>2. Steps' = <<>>
  BY <1>1 DEF Steps
<1>3. TypeOK'
  <2>1. mounts \subseteq Partitions \X Nat /\ busy' \in [Partitions -> BOOLEAN]
    BY <1>1 DEF TypeOK, Rescan
  <2> QED
    BY <1>1, <2>1, FreshType
<1>4. CallInv' /\ StepsInv'
  BY <1>1, <1>2 DEF CallInv, StepsInv
<1>5. ~Running
  BY <1>1 DEF Ended, Running, CallInv, Sound, TypeOK
<1>6. OwedInv'
  BY <1>1, <1>5, NothingOwedAfter DEF OwedInv
<1>7. ActiveInv'
  <2>1. Held' = {}
    BY <1>1 DEF Held
  <2>2. CASE Rescan(mounts)
    BY <1>1, <1>2, <2>1, <2>2 DEF ActiveInv, Rescan, Active, TypeOK
  <2>3. CASE UNCHANGED busy /\ success /\ ~Unnoticed
    <3>1. Held = {}
      BY <1>1, <2>3, NothingHeld
    <3> QED
      BY <1>1, <1>2, <2>1, <2>3, <3>1 DEF ActiveInv, Active
  <2>4. CASE Unnoticed
    BY <1>1, <2>4 DEF ActiveInv, Unnoticed
  <2> QED
    BY <1>1, <2>2, <2>3, <2>4
<1>8. ResultInv'
  BY <1>1 DEF ResultInv, Running
<1> QED
  BY <1>3, <1>4, <1>6, <1>7, <1>8

LEMMA ToggleKeeps ==
    ASSUME IInv, NEW p \in Partitions, ToggleActive(p)
    PROVE  IInv'
<1> USE DEF IInv
<1>1. /\ call = Idle /\ Rescan(mounts')
      /\ mounts' = IF Active(p) THEN {m \in mounts : m[1] # p} ELSE mounts \cup {<<p, TheUser>>}
      /\ UNCHANGED <<fstype, env, dirs, damaged, stuck, mnt_number, call, pc, passed, place, success, details, failed,
                     blamed>>
  BY DEF ToggleActive, session
<1>2. Steps = <<>> /\ Steps' = <<>> /\ Held' = {}
  BY <1>1 DEF Steps, Held, StepsInv
<1>3. TypeOK'
  BY <1>1 DEF TypeOK, Rescan, TheUser
<1>4. CallInv' /\ StepsInv' /\ ResultInv'
  BY <1>1, <1>2 DEF CallInv, StepsInv, ResultInv, Running, DetailsSettled
<1>5. OwedInv'
  BY <1>1, NothingOwedAfter DEF OwedInv, Running
<1>6. ActiveInv'
  BY <1>1, <1>2, <1>3 DEF ActiveInv, Rescan, Active, TypeOK
<1> QED
  BY <1>3, <1>4, <1>5, <1>6

LEMMA InitInv == Init => IInv
<1> SUFFICES ASSUME Init
             PROVE  IInv
  OBVIOUS
<1>1. Steps = <<>> /\ Held = {}
  BY DEF Init, Steps, Held
<1>2. TypeOK
  <2>1. NoPlace \in [DOMAIN NoPlace -> 0 .. mnt_number] /\ \A x \in DOMAIN NoPlace : NoPlace[x] = 0
    BY Nowhere DEF Init
  <2> QED
    <3>1. place \in [DOMAIN NoPlace -> 0 .. mnt_number] /\ \A x \in DOMAIN NoPlace : place[x] = 0
      BY <2>1 DEF Init
    <3>2. details \in Seq(Statuses) /\ pc \in Nat \ {0} /\ mnt_number \in Nat /\ dirs \subseteq 1 .. mnt_number
      BY NoDetails DEF Init
    <3>3. mounts \subseteq Partitions \X Nat /\ busy \in [Partitions -> BOOLEAN]
      <4>1. mounts \subseteq Partitions \X Nat
        BY DEF Init, TheUser
      <4>2. busy \in [Partitions -> BOOLEAN]
        BY DEF Init, Active
      <4> QED
        BY <4>1, <4>2
    <3>4. fstype \in Types /\ success \in BOOLEAN /\ damaged \in BOOLEAN /\ blamed \in BOOLEAN
      BY DEF Init
    <3> QED
      BY <3>1, <3>2, <3>3, <3>4 DEF TypeOK, Statuses
<1>3. CallInv /\ StepsInv /\ ResultInv
  BY <1>1 DEF Init, CallInv, StepsInv, ResultInv, Running
<1>4. OwedInv /\ ActiveInv
  BY <1>1 DEF Init, OwedInv, ActiveInv, Active
<1> QED
  BY <1>2, <1>3, <1>4 DEF IInv

-----------------------------------------------------------------------------
(* The step of the induction                                               *)
LEMMA NextInv == IInv /\ [Next]_vars => IInv'
<1> SUFFICES ASSUME IInv, [Next]_vars
             PROVE  IInv'
  OBVIOUS
<1>1. ASSUME NEW op \in Operations, NEW p \in Partitions, Call(op, p)
      PROVE  IInv'
  BY <1>1, CallKeeps
<1>2. CASE LeftOut
  BY <1>2, LeftOutKeeps
<1>3. CASE RunCommand
  BY <1>3, RunCommandKeeps
<1>4. CASE LookUp
  BY <1>4, LookUpKeeps
<1>5. CASE mk_temp_dir
  BY <1>5, mk_temp_dirKeeps
<1>6. CASE mount
  BY <1>6, mountKeeps
<1>7. CASE umount
  BY <1>7, umountKeeps
<1>8. CASE rm_temp_dir
  BY <1>8, rm_temp_dirKeeps
<1>9. CASE Return
  BY <1>9, ReturnKeeps
<1>10. ASSUME NEW p \in Partitions, ToggleActive(p)
       PROVE  IInv'
  BY <1>10, ToggleKeeps
<1>11. CASE UNCHANGED vars
  <2> USE <1>11 DEF vars, session, world, IInv
  <2>1. Steps' = Steps /\ Running' = Running /\ Held' = Held /\ \A s : MountOf(s)' = MountOf(s)
    BY SameSteps DEF Running, Held, MountOf
  <2>2. TypeOK'
    BY DEF TypeOK
  <2>3. CallInv'
    BY <2>1 DEF CallInv, Implemented
  <2>4. StepsInv'
    BY <2>1 DEF StepsInv
  <2>5. OwedInv'
    BY <2>1 DEF OwedInv, Owed
  <2>6. ActiveInv'
    BY <2>1 DEF ActiveInv, Unnoticed, Active
  <2>7. ResultInv'
    BY <2>1 DEF ResultInv, DetailsSettled, Running
  <2> QED
    BY <2>2, <2>3, <2>4, <2>5, <2>6, <2>7
<1> QED
  BY <1>1, <1>2, <1>3, <1>4, <1>5, <1>6, <1>7, <1>8, <1>9, <1>10, <1>11 DEF Next

(* The inductive invariant, of every session with every driver.            *)
THEOREM DriverInvariance == Spec => []IInv
<1> QED
  BY InitInv, NextInv, PTL DEF Spec

(* Nothing stays mounted and no directory is left behind unless unmounting *)
(* or removing it failed, whatever else fails and wherever (the resizes    *)
(* around a temporary mount, FileSystem::mk_temp_dir and rm_temp_dir).     *)
THEOREM AlwaysCleanedUp == Spec => []CleanedUp
<1>1. IInv => CleanedUp
  <2> SUFFICES ASSUME IInv, Ended
               PROVE  dirs \subseteq stuck /\ \A m \in mounts : m[2] = TheUser \/ m[2] \in stuck
    BY DEF CleanedUp
  <2>1. ~Running
    BY DEF IInv, Ended, Running, CallInv, Sound, TypeOK
  <2> QED
    BY <2>1, NothingOwedAfter DEF IInv
<1> QED
  BY <1>1, DriverInvariance, PTL

(* A program which needs its file system mounted, or not mounted, finds it *)
(* so.                                                                     *)
THEOREM AlwaysRightState == Spec => []RightState
<1>1. IInv => RightState
  <2> SUFFICES ASSUME IInv, Running, Now.after \subseteq passed, ~Unnoticed, NEW p \in PartsOf(Now)
               PROVE  /\ Now.on = "inactive" => ~Active(p)
                      /\ Now.on = "active" => Active(p)
    BY DEF RightState, Unnoticed
  <2> USE DEF IInv
  <2>1. pc \in DOMAIN Steps /\ Placed(call, Steps) /\ Paired(Steps) /\ call.part \in Partitions
    <3>1. Sound(fstype, env, call, Steps) /\ call \in Calls
      BY DEF CallInv, Running
    <3>2. pc \in DOMAIN Steps
      BY <3>1 DEF Sound, Running, TypeOK
    <3> QED
      BY <3>1, <3>2 DEF Sound, Calls
  <2>2. PICK which \in Now.parts : p = PartOf(which)
    BY DEF PartsOf
  <2>3. /\ \A q \in Partitions : busy[q] => Active(q)
        /\ \A m \in mounts : busy[m[1]] \/ \E i \in Held : m = MountOf(Steps[i])
        /\ \A i \in Held : MountOf(Steps[i]) \in mounts
    BY DEF ActiveInv
  <2>4. \A i \in Held : i \in passed /\ i \in DOMAIN Steps /\ i < pc /\ Steps[i].do = "mount"
    BY DEF Held, StepsInv
  <2>5. which = "this" \/ (which = "other" /\ call.op = "copy")
    BY <2>1, <2>2 DEF Placed, Now
  <2>6. ASSUME Now.on = "inactive"
        PROVE  ~Active(p)
    <3> SUFFICES ASSUME NEW m \in mounts, m[1] = p
                 PROVE  FALSE
      BY DEF Active
    <3>1. which = "this" => ~call.busy
      BY <2>1, <2>2, <2>6 DEF Placed, Now
    <3>2. ~busy[p]
      <4>1. call.busy = busy[call.part] /\ (call.op = "copy" => ~busy[Other(call.part)])
        BY DEF CallInv, Running
      <4> QED
        BY <2>2, <2>5, <3>1, <4>1 DEF PartOf
    <3>3. PICK i \in Held : m = MountOf(Steps[i])
      BY <2>3, <3>2
    <3>4. which \notin Steps[i].parts
      BY <2>1, <2>2, <2>4, <2>6 DEF Placed, Now
    <3>5. PICK w \in {"this", "other"} :
            Steps[i].parts = {w} /\ MountOf(Steps[i]) = <<PartOf(w), place[Steps[i].dir]>>
      BY <2>4, MountsOne
    <3> QED
      BY <2>1, <2>2, <2>5, <3>3, <3>4, <3>5 DEF PartOf, Partitions, Other
  <2>7. ASSUME Now.on = "active"
        PROVE  Active(p)
    <3>1. CASE which = "this" /\ call.busy
      BY <2>1, <2>2, <2>3, <3>1 DEF CallInv, Running, PartOf
    <3>2. ASSUME NEW i \in Needed(Steps, pc), Steps[i].do = "mount", which \in Steps[i].parts,
                 \A k \in DOMAIN Steps : k < pc => ~Undoes(Steps, i, k)
          PROVE  Active(p)
      <4>1. i \in passed
        BY <3>2 DEF Needed, StepsInv, Now
      <4>2. i \in Held
        BY <3>2, <4>1 DEF Held, StepsInv
      <4>3. PICK w \in {"this", "other"} :
              Steps[i].parts = {w} /\ MountOf(Steps[i]) = <<PartOf(w), place[Steps[i].dir]>>
        BY <2>4, <4>2, MountsOne
      <4> QED
        BY <2>2, <2>3, <3>2, <4>2, <4>3 DEF Active
    <3> QED
      BY <2>1, <2>2, <2>7, <3>1, <3>2 DEF Placed, Now
  <2> QED
    BY <2>6, <2>7
<1> QED
  BY <1>1, DriverInvariance, PTL

(* What an operation returns is what happened, in every driver, but for a  *)
(* repair the program reports by an exit code of Misread and the gaps      *)
(* HonestResult names: no failure without a cause outside the program, no  *)
(* success with a failed step, and none over damage which was left.        *)
THEOREM AlwaysHonest == Spec => []HonestResult
<1>1. IInv => HonestResult
  <2> SUFFICES ASSUME IInv, Ended
               PROVE  HonestResult
    BY DEF HonestResult, OnlyFaultsFail, HonestSuccess, CheckedMeansClean
  <2> USE DEF IInv
  <2>1. OnlyFaultsFail
    BY DEF OnlyFaultsFail, ResultInv, Ended
  <2>2. HonestSuccess
    BY DEF HonestSuccess, ResultInv, Ended
  <2>3. ASSUME success, damaged
        PROVE  FALSE
    <3>1. call.op = "check_repair" /\ pc = 1 /\ call # Idle
      BY <2>3 DEF ResultInv, Ended
    <3>2. Len(Steps) = 1
      BY <3>1 DEF CallInv, Sound, Answered
    <3> QED
      BY <3>1, <3>2 DEF Ended
  <2> QED
    BY <2>1, <2>2, <2>3 DEF HonestResult, CheckedMeansClean
<1> QED
  BY <1>1, DriverInvariance, PTL
===============================================================================
