------------------------------ MODULE PartedText ------------------------------
(***************************************************************************)
(* The text between parted on a phone and the picture of its disks: what   *)
(* "parted print" says of every disk is put together, cut apart again by   *)
(* the names of the disks and read line by line (adb/PartedParser.cc,      *)
(* GParted_Core_Adb.cc).                                                   *)
(*                                                                         *)
(* A text is a sequence of lines, a line what it begins with and what      *)
(* follows.  The table of partitions has its headings and, in each row, a  *)
(* cell under every heading; empty cells at the end of a row are cut off.  *)
(* A disk is [path, model, length, sector_size, table, parts], parts from  *)
(* numbers to [start, end, fs, name, flags].  parted is asked for sectors, *)
(* and its errors come after the rest, as adb keeps them apart.            *)
(***************************************************************************)
EXTENDS Integers, Sequences, FiniteSets, SequencesExt, FiniteSetsExt

Line(begin, rest) == [begin |-> begin, rest |-> rest]
Blank == Line("", 0)
Headings == <<"Number", "Start", "End", "Size", "File system", "Name", "Flags">>

(***************************************************************************)
(* What parted prints                                                      *)
(***************************************************************************)
Row(n, part) ==
    LET cells == <<n, part.start, part.end, part.end - part.start + 1, part.fs, part.name, part.flags>>
    IN  Line("row", IF part.flags # {} THEN cells
                    ELSE IF part.name # "" THEN SubSeq(cells, 1, 6)
                    ELSE IF part.fs # "" THEN SubSeq(cells, 1, 5)
                    ELSE SubSeq(cells, 1, 4))

Printed(disk) ==
    <<Line("Model", disk.model), Line("Disk", [path |-> disk.path, length |-> disk.length]),
      Line("Sector size", disk.sector_size), Line("Partition Table", disk.table),
      Line("Disk Flags", 0), Blank>>
    \o IF disk.table = "unknown" THEN <<Line("Error", "unrecognised")>>
       ELSE <<Line("Number", Headings)>>
            \o [i \in 1 .. Cardinality(DOMAIN disk.parts) |->
                   LET n == SetToSortSeq(DOMAIN disk.parts, <)[i] IN Row(n, disk.parts[n])]
            \o <<Blank>>

\* print_all(), in the order "ls" has the disks
print_all(disks) == FlattenSeq([i \in DOMAIN disks |-> Printed(disks[i]) \o <<Blank>>])

(***************************************************************************)
(* What GParted reads                                                      *)
(***************************************************************************)
IsDisk(line) == line.begin = "Disk"

parse_device_paths(text) ==
    LET found == SelectSeq(text, IsDisk) IN [i \in DOMAIN found |-> found[i].rest.path]

extract_device_output_ToEnd(text, path) ==
    LET from == SelectInSeq(text, LAMBDA line : IsDisk(line) /\ line.rest.path = path)
    IN  IF from = 0 THEN <<>> ELSE SubSeq(text, from, Len(text))

\* From the line with its name to the next line with one; the model, which is
\* printed before the name, is the next disk's
extract_device_output(text, path) ==
    LET from == SelectInSeq(text, LAMBDA line : IsDisk(line) /\ line.rest.path = path)
        after == {i \in DOMAIN text : i > from /\ IsDisk(text[i])}
    IN  IF from = 0 THEN <<>>
        ELSE SubSeq(text, from, IF after = {} THEN Len(text) ELSE Min(after) - 1)

Unread == [path |-> "", model |-> "", length |-> 0, sector_size |-> 512, disktype |-> "", parts |-> <<>>]

\* Later lines take the place of earlier ones
parse_device_info(text) ==
    LET Read(device, line) ==
            CASE line.begin = "Model" -> [device EXCEPT !.model = line.rest]
              [] line.begin = "Disk" -> [device EXCEPT !.path = line.rest.path, !.length = line.rest.length]
              [] line.begin = "Sector size" -> [device EXCEPT !.sector_size = line.rest]
              [] line.begin = "Partition Table" -> [device EXCEPT !.disktype = line.rest]
              [] OTHER -> device
    IN  FoldLeft(Read, Unread, text)

Column(heading) == SelectInSeq(Headings, LAMBDA h : h = heading)
Cell(row, heading) ==
    IF Column(heading) <= Len(row) THEN row[Column(heading)]
    ELSE IF heading = "Flags" THEN {} ELSE ""

\* Every line after the headings which begins with a number is a partition
parse_partitions(text) ==
    LET head == SelectInSeq(text, LAMBDA line : line.begin = "Number")
        rows == {text[i].rest : i \in {k \in DOMAIN text : head # 0 /\ k > head /\ text[k].begin = "row"}}
        Of(n) == CHOOSE row \in rows : Cell(row, "Number") = n
    IN  [n \in {Cell(row, "Number") : row \in rows} |->
            [start |-> Cell(Of(n), "Start"), end |-> Cell(Of(n), "End"),
             fs |-> Cell(Of(n), "File system"), name |-> Cell(Of(n), "Name"),
             flags |-> Cell(Of(n), "Flags")]]

\* set_device_from_disk(), before file systems are looked for
read_device(text, path) ==
    LET output == extract_device_output(text, path)
        device == parse_device_info(output)
    IN  IF output = <<>> \/ \E i \in DOMAIN output : output[i].begin = "Error"
        THEN [Unread EXCEPT !.path = path, !.model = "Unknown Device", !.disktype = "unrecognized"]
        ELSE [device EXCEPT !.parts = parse_partitions(output)]

\* set_devices(): the devices, whose order is that of their names
set_devices(text) ==
    LET paths == parse_device_paths(text)
    IN  {read_device(text, paths[i]) : i \in DOMAIN paths}

(***************************************************************************)
(* What should be read                                                     *)
(***************************************************************************)
Truth(disk) ==
    IF disk.table = "unknown"
    THEN [path |-> disk.path, length |-> 0, sector_size |-> 512, disktype |-> "unrecognized", parts |-> <<>>]
    ELSE [path |-> disk.path, length |-> disk.length, sector_size |-> disk.sector_size,
          disktype |-> disk.table, parts |-> disk.parts]

Told(device) ==
    [path |-> device.path, length |-> device.length, sector_size |-> device.sector_size,
     disktype |-> device.disktype, parts |-> device.parts]

ReadAsPrinted(disks) ==
    {Told(device) : device \in set_devices(print_all(disks))} = {Truth(disks[i]) : i \in DOMAIN disks}
=============================================================================
