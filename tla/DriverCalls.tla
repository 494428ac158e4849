------------------------------ MODULE DriverCalls ------------------------------
(***************************************************************************)
(* A session of calls to the driver of one file system type, in an         *)
(* environment where some of what the driver looks for may be missing, and *)
(* programs and system calls may fail.  FileSystem::mk_temp_dir and        *)
(* rm_temp_dir give the temporary mount points.                            *)
(***************************************************************************)
EXTENDS FileSystemDrivers

CONSTANTS
  Types,          \* the file system types to look at
  Kernels,        \* the kernels to look at, see FileSystemSupport
  MaxMissing,     \* bound: how many of the programs a driver looks for are missing
  MaxCalls,       \* bound: calls in one session
  MaxFaults       \* bound: failures of programs and system calls in one session

ASSUME TypesAssumption == Types \subseteq DOMAIN SupportedFileSystems

Partitions == {1, 2}
Other(p) == 3 - p
TheUser == 0      \* a mount point which is not one of GParted's directories

VARIABLES
  fstype, env,    \* the driver and what it found at start-up
  busy,           \* which partitions the last scan found active
  mounts,         \* <<partition, place>>: what is mounted or open, and where
  dirs,           \* the temporary directories there are, by number
  mnt_number,     \* the number of the last one
  call,           \* the operation running, or Idle
  pc,             \* its next step
  passed,         \* the steps which succeeded
  place,          \* the directory behind each mount point of the call
  success,        \* what the operation is going to return
  details,        \* the status of each step's detail
  damaged,        \* is the file system damaged
  \* what a reader of the log does not see
  failed,         \* the steps which failed
  blamed,         \* something outside the program failed during the call, or a
                  \* repair was reported by an exit code of Misread
  stuck,          \* directories which could not be unmounted or removed
  calls, faults   \* how many there have been

session == <<fstype, env>>
world == <<mounts, dirs, damaged, stuck>>
vars == <<session, busy, world, mnt_number, call, pc, passed, place, success, details, failed, blamed, calls, faults>>

Idle == [op |-> "none", part |-> 1, busy |-> FALSE, huge |-> FALSE, label |-> "no label"]

NoPlace == [dir \in {"mnt", "src", "dest"} |-> 0]

(* The base class does nothing and returns false for what a driver does    *)
(* not implement.                                                          *)
Implemented(c) == c.op \in DOMAIN Procedures(fstype, c)

Steps == IF call = Idle \/ ~Implemented(call) THEN <<>> ELSE Procedures(fstype, call)[call.op]
Running == call # Idle /\ pc <= Len(Steps)
Ended == call # Idle /\ pc > Len(Steps)
Now == Steps[pc]

Active(p) == \E m \in mounts : m[1] = p
PartOf(which) == IF which = "this" THEN call.part ELSE Other(call.part)
PartsOf(step) == {PartOf(which) : which \in step.parts}

(* What a step mounts or unmounts. *)
MountOf(step) == <<CHOOSE p \in PartsOf(step) : TRUE, place[step.dir]>>

(* The exit codes of a program which found damage and repaired it, as the  *)
(* comments of the drivers list them (e2fsck's are added up), those of     *)
(* them which the driver takes for failures, and that of a program which   *)
(* left the damage.                                                        *)
Repaired(progs) ==
  CASE progs = {"e2fsck"} -> {1, 2, 3}
    [] progs \in {{"jfs_fsck"}, {"reiserfsck"}} -> {1, 2}
    [] progs = {"fsck.fat"} -> {1}
    [] OTHER -> {0}
Misread(progs) ==
  CASE progs = {"e2fsck"} -> {3}
    [] progs \in {{"jfs_fsck"}, {"reiserfsck"}} -> {2}
    [] OTHER -> {}
Understood(progs) == Repaired(progs) \ Misread(progs)
LeftDamaged(progs) == IF Repaired(progs) = {0} THEN {1} ELSE {4}
ExitCodes(progs) == IF damaged THEN Repaired(progs) \cup LeftDamaged(progs) ELSE {0}

Programs(type) == LookedFor(type) \ UNION {KernelOffers(kernel) : kernel \in Kernels}

Init ==
  /\ fstype \in Types
  /\ \E kernel \in Kernels, missing \in UNION {kSubset(k, Programs(fstype)) : k \in 0..MaxMissing} :
       env = (Programs(fstype) \ missing) \cup (LookedFor(fstype) \cap KernelOffers(kernel))
  /\ mounts \in SUBSET (Partitions \X {TheUser})
  /\ busy = [p \in Partitions |-> Active(p)]
  /\ dirs = {} /\ mnt_number = 0 /\ damaged = FALSE /\ stuck = {}
  /\ call = Idle /\ pc = 1 /\ passed = {} /\ place = NoPlace /\ success = TRUE /\ details = <<>>
  /\ failed = {} /\ blamed = FALSE /\ calls = 0 /\ faults = 0

-----------------------------------------------------------------------------
(* GParted_Core runs the driver when the capability is EXTERNAL.  A copy   *)
(* and the operations on a whole file system are offered when it is not in *)
(* use.                                                                    *)
Offered(op, p) ==
  LET cap == IF busy[p] THEN Online ELSE Offline
  IN  /\ op \in DOMAIN cap
      /\ get_fs(fstype, env, cap[op]) = EXTERNAL
      /\ op = "copy" => ~busy[Other(p)]

Call(op, p) ==
  /\ call = Idle /\ calls < MaxCalls
  /\ Offered(op, p)
  /\ \E huge \in BOOLEAN, label \in {"no label", "a label"} :
       /\ huge => fstype = "ext4" /\ op \in {"grow", "shrink"}
       /\ label = "no label" => fstype = "fat" /\ op = "write_label"
       /\ call' = [op |-> op, part |-> p, busy |-> busy[p], huge |-> huge, label |-> label]
  /\ damaged' \in (IF op = "check_repair" THEN BOOLEAN ELSE {FALSE})
  /\ pc' = 1 /\ passed' = {} /\ place' = NoPlace /\ details' = <<>>
  /\ success' = Implemented(call')
  /\ failed' = {} /\ blamed' = FALSE /\ calls' = calls + 1
  /\ UNCHANGED <<session, busy, mounts, dirs, stuck, mnt_number, faults>>

(* The detail of step i, and the detail its result goes to. *)
Closes(i) == IF Steps[i].closes = 0 THEN i ELSE Steps[i].closes

Settle(status) == details' = [Append(details, "EXECUTE") EXCEPT ![Closes(pc)] = status]

Succeeds ==
  /\ passed' = passed \cup {pc}
  /\ Settle("SUCCESS")
  /\ pc' = pc + 1
  /\ UNCHANGED <<success, failed>>

Fails ==
  /\ success' = IF Now.lost THEN success ELSE FALSE
  /\ failed' = failed \cup {pc}
  /\ Settle("ERROR")
  /\ pc' = IF Now.abort THEN Len(Steps) + 1 ELSE pc + 1
  /\ UNCHANGED passed

Fault == faults < MaxFaults /\ faults' = faults + 1 /\ blamed' = TRUE
NoFault == UNCHANGED <<faults, blamed>>

Doing(what) == Running /\ Now.do = what /\ Now.after \subseteq passed

(* A step is left out because an earlier one it needs failed. *)
LeftOut ==
  /\ Running /\ ~(Now.after \subseteq passed)
  /\ pc' = pc + 1
  /\ details' = Append(details, "NONE")
  /\ UNCHANGED <<session, busy, world, mnt_number, call, passed, place, success, failed, blamed, calls, faults>>

Found == Now.runs \subseteq env

(* The program fails, or is not there. *)
CannotRun == Fails /\ (IF Found THEN Fault ELSE NoFault)

RunCommand ==
  /\ Doing("run")
  /\ \/ /\ Found
        /\ \E code \in ExitCodes(Now.runs) :
             /\ damaged' = (damaged /\ code \in LeftDamaged(Now.runs))
             /\ blamed' = (blamed \/ damaged' \/ code \in Misread(Now.runs))
             /\ IF code \in Now.ok THEN Succeeds ELSE Fails
        /\ UNCHANGED faults
     \/ CannotRun /\ UNCHANGED damaged
  /\ UNCHANGED <<session, busy, mounts, dirs, stuck, mnt_number, call, place, calls>>

(* What is looked for may not be there, or not be fit. *)
LookUp ==
  /\ Doing("find")
  /\ (Succeeds /\ NoFault) \/ (Fails /\ Fault)
  /\ UNCHANGED <<session, busy, world, mnt_number, call, place, calls>>

(* The number of a mount point is never used again. *)
mk_temp_dir ==
  /\ Doing("mkdir")
  /\ mnt_number' = mnt_number + 1
  /\ \/ /\ mnt_number' \notin dirs
        /\ dirs' = dirs \cup {mnt_number'}
        /\ place' = [place EXCEPT ![Now.dir] = mnt_number']
        /\ Succeeds /\ NoFault
     \/ mnt_number' \in dirs /\ Fails /\ NoFault /\ UNCHANGED <<dirs, place>>
     \/ Fails /\ Fault /\ UNCHANGED <<dirs, place>>
  /\ UNCHANGED <<session, busy, mounts, damaged, stuck, call, calls>>

mount ==
  /\ Doing("mount")
  /\ \/ /\ Found
        /\ mounts' = mounts \cup {MountOf(Now)}
        /\ Succeeds /\ NoFault
     \/ CannotRun /\ UNCHANGED mounts
  /\ UNCHANGED <<session, busy, dirs, damaged, stuck, mnt_number, call, place, calls>>

umount ==
  /\ Doing("umount")
  /\ \/ /\ Found
        /\ mounts' = mounts \ {MountOf(Now)}
        /\ Succeeds /\ NoFault /\ UNCHANGED stuck
     \/ CannotRun /\ stuck' = stuck \cup {place[Now.dir]} /\ UNCHANGED mounts
  /\ UNCHANGED <<session, busy, dirs, damaged, mnt_number, call, place, calls>>

(* A directory which cannot be removed is only a warning. *)
Warns ==
  /\ Settle("WARNING")
  /\ failed' = failed \cup {pc}
  /\ pc' = pc + 1
  /\ UNCHANGED <<passed, success, dirs>>

rm_temp_dir ==
  /\ Doing("rmdir")
  /\ LET dir == place[Now.dir]
         inUse == \E m \in mounts : m[2] = dir
     IN  \/ ~inUse /\ dirs' = dirs \ {dir} /\ Succeeds /\ NoFault /\ UNCHANGED stuck
         \/ inUse /\ Warns /\ NoFault /\ UNCHANGED stuck
         \/ ~inUse /\ Warns /\ Fault /\ stuck' = stuck \cup {dir}
  /\ UNCHANGED <<session, busy, mounts, damaged, mnt_number, call, place, calls>>

(* The queue goes on after a success; the devices are scanned again when   *)
(* it ends, and after a failure.                                           *)
Rescan(parts) == busy' = [p \in Partitions |-> \E m \in parts : m[1] = p]

Return ==
  /\ Ended
  /\ call' = Idle /\ pc' = 1 /\ passed' = {} /\ place' = NoPlace /\ success' = TRUE /\ details' = <<>>
  /\ failed' = {} /\ blamed' = FALSE /\ damaged' = FALSE
  /\ UNCHANGED busy \/ Rescan(mounts)
  /\ ~success => Rescan(mounts)
  /\ UNCHANGED <<session, mounts, dirs, stuck, mnt_number, calls, faults>>

(* The user mounts or unmounts (opens, activates) a partition between two  *)
(* operations.                                                             *)
ToggleActive(p) ==
  /\ call = Idle /\ calls < MaxCalls
  /\ mounts' = IF Active(p) THEN {m \in mounts : m[1] # p} ELSE mounts \cup {<<p, TheUser>>}
  /\ Rescan(mounts')
  /\ UNCHANGED <<session, dirs, damaged, stuck, mnt_number, call, pc, passed, place, success, details, failed,
                 blamed, calls, faults>>

Next ==
  \/ \E op \in Operations, p \in Partitions : Call(op, p)
  \/ LeftOut \/ RunCommand \/ LookUp \/ mk_temp_dir \/ mount \/ umount \/ rm_temp_dir
  \/ Return
  \/ \E p \in Partitions : ToggleActive(p)

Spec == Init /\ [][Next]_vars

-----------------------------------------------------------------------------
(* What a driver offers it can do: an operation fails only if something    *)
(* outside the program failed.  In particular the driver implements it,    *)
(* the programs it runs are among those get_filesystem_support() requires, *)
(* a repair is not taken for an error unless its exit code is one of       *)
(* Misread, and the number of a temporary mount point is free whatever is  *)
(* left of earlier ones.  Misread are the codes by which jfs_fsck (jfs.cc  *)
(* 298), reiserfsck (reiserfs.cc:223) and e2fsck (ext2.cc:320, the sum of  *)
(* 1 and 2) ask for a reboot after a repair.  Two gaps are excepted, too:  *)
(* the UUID of a reiserfs is offered for reiserfstune and read with        *)
(* debugreiserfs, and shrinking an ext4 to 16 TiB or more runs tune2fs,    *)
(* which is only required for growing.                                     *)
Gap(type, c) == \/ type = "reiserfs" /\ c.op = "read_uuid"
                \/ type = "ext4" /\ c.op = "shrink" /\ c.huge
OnlyFaultsFail == Ended /\ ~success /\ ~Gap(fstype, call) => blamed

(* Every step shown to the user has a final status in the end; but the     *)
(* real resize of an NTFS, whose status went to the simulation's detail.   *)
DetailsSettled ==
  \/ \A i \in DOMAIN details : details[i] # "EXECUTE"
  \/ fstype = "ntfs" /\ call.op \in {"grow", "shrink"}

(* An operation reported as successful had no failing step but the removal *)
(* of a directory; but for the copy of an XFS, which does not look.  And   *)
(* what is shown of its steps is settled.                                  *)
HonestSuccess ==
  Ended => /\ success => \/ \A i \in failed : Steps[i].do = "rmdir"
                         \/ fstype = "xfs" /\ call.op = "copy"
           /\ DetailsSettled

(* Nothing is left mounted on a temporary mount point and no directory is  *)
(* left behind, unless unmounting or removing it failed.                   *)
CleanedUp ==
  Ended => /\ dirs \subseteq stuck
           /\ \A m \in mounts : m[2] = TheUser \/ m[2] \in stuck

(* No program which needs an unmounted file system is run on a mounted     *)
(* one, or the reverse, also after an unmount failed; but for what a copy  *)
(* of an XFS left mounted unnoticed.                                       *)
RightState ==
  Running /\ Now.after \subseteq passed /\ ~(fstype = "xfs" /\ stuck # {}) =>
    \A p \in PartsOf(Now) : /\ Now.on = "inactive" => ~Active(p)
                        /\ Now.on = "active" => Active(p)

(* A check which is reported as successful leaves no damage. *)
CheckedMeansClean == Ended /\ success => ~damaged

(* The result of an operation is the true one: no failure without a cause  *)
(* outside the program but a repair whose exit code is one of Misread, no  *)
(* success with a step that failed, and no file system called checked      *)
(* which is still damaged.                                                 *)
HonestResult == OnlyFaultsFail /\ HonestSuccess /\ CheckedMeansClean

-----------------------------------------------------------------------------
(* What holds of every procedure of every driver, and makes it safe to run *)
(* it step by step                                                         *)

(* Step j takes back what step i did, is not left out when i succeeded and *)
(* is reached whatever fails in between.                                   *)
Undoes(steps, i, j) ==
  /\ i < j /\ <<steps[i].do, steps[j].do>> \in {<<"mkdir", "rmdir">>, <<"mount", "umount">>}
  /\ steps[i].dir = steps[j].dir /\ steps[i].parts = steps[j].parts
  /\ steps[j].after \subseteq {i}
  /\ \A k \in i + 1 .. j : ~steps[k].abort

(* Every directory made is removed again, after it was unmounted, and      *)
(* everything mounted is unmounted.                                        *)
Paired(steps) ==
  /\ \A i \in DOMAIN steps : steps[i].do \in {"mkdir", "mount"} => \E j \in DOMAIN steps : Undoes(steps, i, j)
  /\ \A i, j \in DOMAIN steps :
      /\ steps[i].do = "mkdir" /\ steps[j].do = "mkdir" /\ i # j => steps[i].dir # steps[j].dir
      /\ steps[i].do = "mount" /\ steps[j].do = "mount" /\ i # j => steps[i].parts # steps[j].parts
      /\ steps[i].do = "umount" /\ steps[j].do = "rmdir" /\ steps[i].dir = steps[j].dir => i < j
  /\ \A j \in DOMAIN steps :
      /\ steps[j].do \in {"mkdir", "rmdir"} => steps[j].dir \in DOMAIN NoPlace
      /\ steps[j].do = "mount" =>
          \E i \in DOMAIN steps : i < j /\ steps[i].do = "mkdir" /\ steps[i].dir = steps[j].dir
      /\ steps[j].do = "umount" => \E i \in DOMAIN steps : Undoes(steps, i, j) /\ i \in steps[j].after
      /\ steps[j].do \in {"mount", "umount"} => \E which \in {"this", "other"} : steps[j].parts = {which}

(* A program finds its partitions unmounted because nothing has mounted    *)
(* them, and mounted because they were or a step it needs has done it.     *)
Needed(steps, j) == steps[j].after \cup UNION {steps[i].after : i \in steps[j].after}

Placed(c, steps) ==
  \A j \in DOMAIN steps : \A which \in steps[j].parts :
    /\ which = "this" \/ (which = "other" /\ c.op = "copy")
    /\ steps[j].on = "inactive" =>
        /\ which = "this" => ~c.busy
        /\ \A i \in DOMAIN steps : i < j /\ steps[i].do = "mount" => which \notin steps[i].parts
    /\ steps[j].on = "active" =>
        \/ which = "this" /\ c.busy
        \/ \E i \in Needed(steps, j) :
             /\ steps[i].do = "mount" /\ which \in steps[i].parts
             /\ \A k \in DOMAIN steps : k < j => ~Undoes(steps, i, k)
    /\ steps[j].do = "mount" => steps[j].on = "inactive"

(* The programs are there, their exit codes are understood but for those   *)
(* of Misread, and a failure is noticed.                                   *)
Answered(type, e, c, steps) ==
  /\ \A j \in DOMAIN steps :
      /\ steps[j].do \in {"run", "find", "mkdir", "mount", "umount", "rmdir"}
      /\ steps[j].after \subseteq 1 .. j - 1
      /\ 0 \in steps[j].ok
      /\ Gap(type, c) \/ steps[j].runs \subseteq e
      /\ steps[j].lost => type = "xfs" /\ c.op = "copy" /\ ~steps[j].abort
      /\ steps[j].closes # 0 => type = "ntfs" /\ c.op \in {"grow", "shrink"}
  /\ c.op = "check_repair" =>
      /\ Len(steps) = 1 /\ steps[1].do = "run" /\ steps[1].after = {} /\ ~steps[1].lost
      /\ Understood(steps[1].runs) \subseteq steps[1].ok
      /\ LeftDamaged(steps[1].runs) \cap steps[1].ok = {}

Sound(type, e, c, steps) ==
  /\ Len(steps) \in Nat /\ DOMAIN steps = 1 .. Len(steps)
  /\ Paired(steps) /\ Placed(c, steps) /\ Answered(type, e, c, steps)

-----------------------------------------------------------------------------
(* The inductive invariant                                                 *)

Calls == [op : Operations, part : Partitions, busy : BOOLEAN, huge : BOOLEAN, label : {"no label", "a label"}]

TypeOK ==
  /\ fstype \in Types
  /\ busy \in [Partitions -> BOOLEAN]
  /\ mounts \subseteq Partitions \X Nat
  /\ mnt_number \in Nat /\ dirs \subseteq 1 .. mnt_number
  /\ place \in [DOMAIN NoPlace -> 0 .. mnt_number]
  /\ \A x, y \in DOMAIN NoPlace : place[x] = place[y] => x = y \/ place[x] = 0
  /\ pc \in Nat \ {0} /\ details \in Seq({"NONE", "EXECUTE", "SUCCESS", "ERROR", "WARNING"})
  /\ success \in BOOLEAN /\ damaged \in BOOLEAN /\ blamed \in BOOLEAN

CallInv ==
  /\ call # Idle =>
      /\ call \in Calls /\ Implemented(call) /\ Sound(fstype, env, call, Steps)
      /\ call.busy = busy[call.part]
      /\ call.op = "copy" => ~busy[Other(call.part)]
  /\ call = Idle => pc = 1 /\ success

(* What succeeded had what it needs. *)
StepsInv ==
  /\ passed \subseteq DOMAIN Steps /\ failed \subseteq DOMAIN Steps
  /\ \A i \in passed : i < pc /\ Steps[i].after \subseteq passed

(* A directory and a mount are owed while the step which takes them back   *)
(* is still to come.                                                       *)
Owed(i) == i \in passed /\ \E j \in DOMAIN Steps : pc <= j /\ Undoes(Steps, i, j)

OwedInv ==
  /\ \A d \in dirs \ stuck :
      \E i \in DOMAIN Steps : Owed(i) /\ Steps[i].do = "mkdir" /\ d = place[Steps[i].dir]
  /\ \A m \in mounts :
      m[2] \notin stuck \cup {TheUser} =>
        \E i \in DOMAIN Steps : Owed(i) /\ Steps[i].do = "mount" /\ m = MountOf(Steps[i])

(* What the call has mounted and not unmounted again. *)
Held == {i \in passed : Steps[i].do = "mount" /\ \A j \in passed : ~Undoes(Steps, i, j)}

Unnoticed == fstype = "xfs" /\ stuck # {}

(* What is mounted is what was when the devices were scanned, and what the *)
(* call has mounted.                                                       *)
ActiveInv ==
  Unnoticed \/
    /\ \A p \in Partitions : busy[p] => Active(p)
    /\ \A m \in mounts : busy[m[1]] \/ \E i \in Held : m = MountOf(Steps[i])
    /\ \A i \in Held : MountOf(Steps[i]) \in mounts
    /\ \A j \in DOMAIN Steps :
        j < pc /\ j \notin passed /\ Steps[j].do = "umount" /\ Steps[j].after \subseteq passed => ~success

ResultInv ==
  /\ call # Idle /\ ~success /\ ~Gap(fstype, call) => blamed
  /\ call # Idle /\ success =>
      /\ (fstype = "xfs" /\ call.op = "copy") \/ \A i \in failed : Steps[i].do = "rmdir"
      /\ damaged => call.op = "check_repair" /\ pc = 1
  /\ damaged => call.op = "check_repair"
  /\ Running => Len(details) = pc - 1
  /\ call # Idle => DetailsSettled

IInv == TypeOK /\ CallInv /\ StepsInv /\ OwedInv /\ ActiveInv /\ ResultInv
===============================================================================
