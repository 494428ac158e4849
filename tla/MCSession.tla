------------------------------- MODULE MCSession -------------------------------
EXTENDS Session

NoOne == [fstype |-> "unknown", busy |-> FALSE, mounts |-> FALSE, vg |-> ""]

Part(k, size, fstype) ==
    [key |-> <<"real", k>>, size |-> size, start |-> 0, extended |-> FALSE, allocated |-> TRUE,
     usage |-> NoUsage, logicals |-> <<>>, type |-> "primary", status |-> "real",
     fstype |-> fstype, busy |-> FALSE, mounts |-> FALSE, inner |-> NoOne, vg |-> "", id |-> k,
     flagged |-> FALSE, named |-> FALSE]
Plain(k, size) == Part(k, size, "ext4")
Usage(used, unused, unallocated) == [used |-> used, unused |-> unused, unallocated |-> unallocated]
Used(p, u) == [p EXCEPT !.usage = u]

\* From "start" on, one after the other
RECURSIVE Placed(_, _)
Placed(ps, start) ==
    [i \in DOMAIN ps |->
        LET at == start + FoldSeq(LAMBDA p, n : p.size + n, 0, SubSeq(ps, 1, i - 1))
            p == ps[i]
        IN  [p EXCEPT !.start = at, !.logicals = Placed(@, at),
                      !.key = IF p.allocated THEN @ ELSE <<"unallocated", at>>]]
Extended(k, ps) ==
    [Part(k, FoldSeq(LAMBDA p, n : p.size + n, 0, ps), "extended")
        EXCEPT !.type = "extended", !.extended = TRUE,
               !.logicals = [i \in DOMAIN ps |-> [ps[i] EXCEPT !.type = IF ps[i].allocated THEN "logical" ELSE @]]]

Device(path, naming, ps) ==
    [path |-> path, length |-> FoldSeq(LAMBDA p, n : p.size + n, 0, ps), readonly |-> FALSE,
     naming |-> naming, table |-> IF naming THEN "gpt" ELSE "msdos", partitions |-> Placed(ps, 0)]

MCNoDevice == Device("none", FALSE, <<>>)

World(devices, spare, actions, nested) ==
    [machine |-> devices, spare |-> spare, actions |-> actions, nested |-> nested,
     widths |-> {300}, installed |-> {Everything}, maxOps |-> 2, maxNew |-> 2, maxChanges |-> 2, maxStack |-> 4]

Limited(w, ops, changed, stack) == [w EXCEPT !.maxOps = ops, !.maxChanges = changed, !.maxStack = stack]

-----------------------------------------------------------------------------
(* Disks drawn in windows of many widths                                   *)

Full == Usage(90, 9, 1)
Even == Usage(1, 1, 1)
Layouts ==
    { <<Plain(1, 100)>>,
      <<Used(Plain(1, 999), Full), Used(Plain(2, 1), Even)>>,
      <<Plain(1, 1), Space(0, 500), Plain(2, 2), Used(Plain(3, 300), Usage(1, 999, 0)), Plain(4, 1)>>,
      <<Used(Plain(1, 300), Even), Extended(2, <<Used(Plain(5, 10), Usage(5, 5, 0)), Plain(6, 400)>>), Space(0, 40)>>,
      <<Extended(1, <<Plain(5, 1), Plain(6, 1), Space(0, 3)>>), Used(Plain(2, 900), Usage(300, 1, 2))>>,
      <<Extended(1, <<Plain(5, 2), Plain(6, 2), Plain(7, 3)>>)>>,
      <<Plain(1, 2), Extended(2, <<Space(0, 1)>>), Plain(3, 1), Space(0, 700)>> }
DrawnWorlds == { [World(<<Device("sda", FALSE, ps)>>, <<>>, {"select", "resize window"}, {})
                EXCEPT !.widths = {60, 97, 98, 99, 100, 113, 151, 199, 260, 541}] : ps \in Layouts }

-----------------------------------------------------------------------------
(* Partitions of all kinds                                                 *)

Kinds == DOMAIN SupportedFileSystems \ {"unallocated"}
Ordinary == Kinds \ (Activated \cup {"lvm2_pv", "luks"})
Lone(p) == World(<<Device("sda", TRUE, <<p>>)>>, <<>>, {"select"}, {})
\* The "mount point" of a physical volume is its volume group
GroupOf(fs, mounts) == IF fs = "lvm2_pv" /\ mounts THEN "vg0" ELSE ""
Kept == { Lone([Part(1, 50, fs) EXCEPT !.busy = on[1], !.mounts = on[2], !.vg = GroupOf(fs, on[2])]) :
            fs \in Kinds \ {"luks"}, on \in BOOLEAN \X BOOLEAN }
Sensible(w) ==
    LET p == w.machine[1].partitions[1]
    IN  p.fstype \in Ordinary /\ p.busy => p.mounts
Encrypted == { Lone([Part(1, 50, "luks") EXCEPT !.busy = TRUE,
                        !.inner = [fstype |-> fs, busy |-> on, mounts |-> on, vg |-> GroupOf(fs, on)]]) :
                 fs \in Kinds \ {"luks"}, on \in BOOLEAN }
             \cup { Lone(Part(1, 50, "luks")) }

\* Volume groups over two disks, with an encrypted member, all inactive
PV(p, vg) == [p EXCEPT !.fstype = "lvm2_pv", !.mounts = (vg # ""), !.vg = vg]
EncryptedPV(k, vg) ==
    [Part(k, 20, "luks") EXCEPT !.busy = TRUE,
        !.inner = [fstype |-> "lvm2_pv", busy |-> FALSE, mounts |-> vg # "", vg |-> vg]]
GroupsOf(v) ==
    Limited(World(<<Device("sda", TRUE, <<PV(Plain(1, 10), v[1]), PV(Plain(2, 30), v[2])>>),
                    Device("sdb", TRUE, <<EncryptedPV(3, v[3]), Space(0, 40), PV(Plain(4, 10), v[1])>>)>>, <<>>,
                  {"select", "choose device", "edit", "undo"}, {}), 1, 0, 1)
Groups == { GroupsOf(v) : v \in {<<"vg0", "", "vg0">>, <<"vg0", "vg1", "vg1">>, <<"", "vg0", "">>} }

\* Programs installed or removed while the window is there, also while it is drawn
Installed(p) ==
    [World(<<Device("sda", TRUE, <<p, Space(0, 5)>>)>>, <<>>, {"select", "features"}, {"features"})
        EXCEPT !.installed = {Everything, {}, LookedFor(p.fstype), Everything \ LookedFor(p.fstype)}]
Installing == { Installed([Part(1, 50, fs) EXCEPT !.busy = on, !.mounts = on]) : fs \in Kinds \ {"luks"}, on \in BOOLEAN }

-----------------------------------------------------------------------------
(* Devices which come and go, operations queued and cleared                *)

A == Device("sda", TRUE, <<Plain(1, 40), Space(0, 60), Plain(2, 30), Space(0, 20)>>)
B == Device("sdb", TRUE, <<Plain(3, 70), Space(0, 30)>>)
D == Device("sda", TRUE, <<Space(0, 60), Plain(1, 30)>>)
C == Device("sdc", TRUE, <<Space(0, 90)>>)

\* Handlers which interrupt each other, and a device which goes or comes
Panels == Limited(World(<<A, B>>, <<C>>, {"panel", "choose device", "table", "refresh"},
                        {"panel", "choose device"}), 0, 1, 4)
Nested == Limited(World(<<A, B>>, <<>>, {"choose device", "edit", "undo", "clear", "pane"},
                        {"select", "pane", "choose device"}), 1, 0, 3)
Plugged == Limited(World(<<A, B>>, <<C>>, {"choose device", "edit", "undo", "clear", "apply", "refresh"},
                         {"choose device"}), 1, 2, 2)
Several == Limited(World(<<D>>, <<>>, {"select", "edit", "undo", "clear", "apply"}, {}), 2, 1, 2)
Tables == Limited(World(<<A, B>>, <<C>>, {"select", "choose device", "table", "refresh"}, {"refresh"}), 0, 2, 2)
\* A flag while operations are queued, and another partition or device selected,
\* another scan or Undo before its dialog is there
E == Device("sda", TRUE, <<Plain(1, 40), Plain(2, 30)>>)
Flags == Limited(World(<<E>>, <<>>, {"select", "flags", "edit"}, {}), 2, 1, 2)
Waits == Limited(World(<<E, B>>, <<>>, {"select", "flags", "edit"},
                       {"select", "choose device", "refresh", "undo"}), 1, 1, 2)

MCWorlds == DrawnWorlds \cup {w \in Kept : Sensible(w)} \cup Encrypted \cup Installing \cup Groups \cup {Panels, Nested, Plugged, Several, Tables, Flags, Waits}
=============================================================================
