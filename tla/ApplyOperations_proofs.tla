------------------------ MODULE ApplyOperations_proofs ------------------------
(***************************************************************************)
(* First, what the steps of an operation lead to when none fails: for every *)
(* operation the dialogs let the user queue, each step finds what it is    *)
(* about, writes inside of it and leaves what can be put right.  Then,     *)
(* applying the queue: whatever fails, whenever the user cancels and however *)
(* many operations there are, the steps still to take lead from what is on *)
(* the disk to something sound.                                            *)
(***************************************************************************)
EXTENDS ApplyOperations, TLAPS, SequenceTheorems

-----------------------------------------------------------------------------
(* The situation between two steps: where the partition is and what is in it *)

Places == {p \in [start : Int, end : Int] : p.start <= p.end}
Contents == [state : {"good", "none"}, start : Int, length : Int, volume : Int]
Situations == [own : Places \cup {NoPlace}, fs : Contents]

Situation(own, content) == [own |-> own, fs |-> content]
Moved(x, place) == Situation(place, x.fs)
Holding(x, content) == Situation(x.own, content)

Open(kind) == kind \in {"open", "open_swap"}
Space(kind, x) == IF Open(kind) THEN x.fs.volume ELSE PlaceLength(x.own)

\* The file system is inside its volume and that inside the partition.
Sound(kind, x) ==
    /\ x \in Situations
    /\ x.own # NoPlace /\ x.fs.state = "good" =>
        /\ kind \notin {"swap", "open_swap"} =>
            x.own.start <= x.fs.start /\ x.fs.start + x.fs.length - 1 <= x.own.end
        /\ Open(kind) => x.fs.volume <= PlaceLength(x.own)
        /\ kind = "open" => x.fs.length <= x.fs.volume

AtHome(kind, x) ==
    kind # "swap" /\ x.own # NoPlace /\ x.fs.state = "good" => x.fs.start = x.own.start

Clear(place) == \A n \in DOMAIN Neighbours : ~Overlapping(Neighbours[n], place)

-----------------------------------------------------------------------------
(* The steps *)

TableSteps == {"resize", "reduce", "widen", "narrow", "restore", "undo"}
IdleSteps == {"check", "set_type", "bootsector", "label", "name", "uuid", "remove"}
FsSteps == {"shrink", "maximize", "shrink_encryption", "maximize_encryption", "erase", "create_filesystem", "recreate",
            "copy"}
Steps == [do : TableSteps \cup IdleSteps \cup FsSteps
                 \cup {"calibrate", "create_partition", "delete_partition", "move", "bug"},
          old : Places, new : Places]

Content(start, length, volume) ==
    [state |-> "good", start |-> start, length |-> length, volume |-> volume]
NewContent(kind, x) == Content(x.own.start, Space(kind, x), x.fs.volume)
CopyOf(source, place, x) == Content(place.start, PlaceLength(source), x.fs.volume)

\* What a step makes of the situation when it succeeds.
After(kind, s, x) ==
    CASE s.do \in TableSteps \cup {"create_partition"} -> Moved(x, s.new)
      [] s.do = "delete_partition" -> Situation(NoPlace, [x.fs EXCEPT !.state = "none"])
      [] s.do = "shrink" -> Holding(x, [x.fs EXCEPT !.length = PlaceLength(s.new)])
      [] s.do = "maximize" ->
           IF CanGrow THEN Holding(x, [x.fs EXCEPT !.length = Space(kind, x)]) ELSE x
      [] s.do = "shrink_encryption" -> Holding(x, [x.fs EXCEPT !.volume = PlaceLength(s.new)])
      [] s.do = "maximize_encryption" ->
           IF Open(kind) THEN Holding(x, [x.fs EXCEPT !.volume = PlaceLength(x.own)]) ELSE x
      [] s.do = "erase" -> Holding(x, [x.fs EXCEPT !.state = "none"])
      [] s.do \in {"create_filesystem", "recreate"} -> Holding(x, NewContent(kind, x))
      [] s.do = "copy" ->
           Holding(x, CopyOf(s.old, s.new, x))
      [] s.do = "move" ->
           IF kind = "swap" THEN x ELSE Holding(x, [x.fs EXCEPT !.start = s.new.start])
      [] OTHER -> x

\* The partition is found by the middle of the place.
Finds(kind, place, x) == x.own # NoPlace /\ (kind = "extended" \/ Holds(x.own, Middle(place)))

\* A step may be taken: it finds what it is about, writes inside of it, and
\* leaves what can be put right when it fails.
Fine(kind, possible, s, x) ==
    /\ s.do \notin {"move", "narrow", "restore", "undo"} => AtHome(kind, x)
    /\ s.do = "calibrate" =>
        Finds(kind, s.old, x) \/ \E n \in DOMAIN Neighbours : Holds(Neighbours[n], Middle(s.old))
    /\ s.do \in TableSteps \cup {"delete_partition"} => Finds(kind, s.old, x)
    /\ s.do \in {"resize", "widen"} => s.old = x.own
    /\ s.do = "resize" => s.new.start = s.old.start
    /\ s.do = "widen" => Within(s.old, s.new)
    /\ s.do \in {"resize", "reduce"} => AtHome(kind, Moved(x, s.new))
    /\ s.do \in {"narrow", "restore"} => Within(s.new, x.own)
    /\ s.do = "undo" => Clear(s.new)
    /\ s.do \in {"resize", "reduce", "widen", "create_partition"} => (possible => Clear(s.new))
    /\ s.do = "create_partition" => x.own = NoPlace /\ x.fs.state = "none"
    /\ s.do \in FsSteps => x.own # NoPlace
    /\ s.do \in {"erase", "create_filesystem", "recreate"} => Within(s.new, x.own)
    /\ s.do = "copy" =>
        /\ s.new.start = x.own.start
        /\ Within(Place(s.new.start, s.new.start + PlaceLength(s.old) - 1), x.own)
    /\ s.do = "move" /\ kind # "swap" =>
        /\ x.own = partition_all_space(s.old, s.new)
        /\ x.fs.state = "good" => x.fs.start = s.old.start
        /\ Sound(kind, Moved(x, s.old))
    /\ s.do = "bug" => ~possible

\* The steps lead from one situation to another, one after the other.
Leads(kind, possible, x, ss, y) ==
    /\ ss \in Seq(Steps)
    /\ \E w \in [1 .. Len(ss) + 1 -> Situations] :
        /\ w[1] = x /\ w[Len(ss) + 1] = y
        /\ \A i \in 1 .. Len(ss) + 1 : Sound(kind, w[i])
        /\ \A i \in 1 .. Len(ss) :
             Fine(kind, possible, ss[i], w[i]) /\ w[i + 1] = After(kind, ss[i], w[i])

LEMMA MiddleInside ==
    ASSUME NEW p \in Places
    PROVE  Middle(p) \in Int /\ p.start <= Middle(p) /\ Middle(p) <= p.end
BY DEF Places, Middle

LEMMA AfterNothing ==
    ASSUME NEW kind, NEW possible, NEW x, Sound(kind, x)
    PROVE  Leads(kind, possible, x, <<>>, x)
<1> DEFINE none == << >>
           w == [i \in 1 .. 1 |-> x]
<1>1. x \in Situations BY DEF Sound
<1>2. none \in Seq(Steps) /\ Len(none) = 0 BY EmptySeq
<1> HIDE DEF none
<1>3. w \in [1 .. Len(none) + 1 -> Situations] /\ w[1] = x BY <1>1, <1>2
<1> HIDE DEF w
<1>4. (\A i \in 1 .. Len(none) + 1 : i = 1) /\ (\A i \in 1 .. Len(none) : FALSE) BY <1>2
<1>5. Leads(kind, possible, x, none, x)
  BY <1>2, <1>3, <1>4 DEF Leads
<1> QED BY <1>5 DEF none

LEMMA AfterStep ==
    ASSUME NEW kind, NEW possible, NEW s \in Steps, NEW x,
           Sound(kind, x), Fine(kind, possible, s, x), Sound(kind, After(kind, s, x))
    PROVE  Leads(kind, possible, x, <<s>>, After(kind, s, x))
<1> DEFINE y == After(kind, s, x)
           one == <<s>>
           w == [i \in 1 .. 2 |-> IF i = 1 THEN x ELSE y]
<1>1. x \in Situations /\ y \in Situations BY DEF Sound
<1>2. one \in Seq(Steps) /\ Len(one) = 1 /\ one[1] = s OBVIOUS
<1>3. Sound(kind, y) OBVIOUS
<1>4. y = After(kind, s, x) OBVIOUS
<1> HIDE DEF y, one
<1>5. w \in [1 .. Len(one) + 1 -> Situations] /\ w[1] = x /\ w[2] = y BY <1>1, <1>2
<1> HIDE DEF w
<1>6. (\A i \in 1 .. Len(one) + 1 : i = 1 \/ i = 2) /\ (\A i \in 1 .. Len(one) : i = 1) BY <1>2
<1>7. w[Len(one) + 1] = y BY <1>2, <1>5
<1>8. \A i \in 1 .. Len(one) + 1 : Sound(kind, w[i]) BY <1>3, <1>5, <1>6
<1>9. \A i \in 1 .. Len(one) :
           Fine(kind, possible, one[i], w[i]) /\ w[i + 1] = After(kind, one[i], w[i])
  BY <1>2, <1>4, <1>5, <1>6
<1>10. Leads(kind, possible, x, one, y) BY <1>2, <1>5, <1>7, <1>8, <1>9 DEF Leads
<1> QED BY <1>10 DEF one, y

LEMMA AfterBoth ==
    ASSUME NEW kind, NEW possible, NEW x, NEW y, NEW z, NEW ss, NEW tt,
           Leads(kind, possible, x, ss, y), Leads(kind, possible, y, tt, z)
    PROVE  Leads(kind, possible, x, ss \o tt, z)
<1>1. ss \in Seq(Steps) /\ tt \in Seq(Steps) BY DEF Leads
<1>2. PICK v \in [1 .. Len(ss) + 1 -> Situations] :
        /\ v[1] = x /\ v[Len(ss) + 1] = y
        /\ \A i \in 1 .. Len(ss) + 1 : Sound(kind, v[i])
        /\ \A i \in 1 .. Len(ss) :
             Fine(kind, possible, ss[i], v[i]) /\ v[i + 1] = After(kind, ss[i], v[i])
  BY DEF Leads
<1>3. PICK w \in [1 .. Len(tt) + 1 -> Situations] :
        /\ w[1] = y /\ w[Len(tt) + 1] = z
        /\ \A i \in 1 .. Len(tt) + 1 : Sound(kind, w[i])
        /\ \A i \in 1 .. Len(tt) :
             Fine(kind, possible, tt[i], w[i]) /\ w[i + 1] = After(kind, tt[i], w[i])
  BY DEF Leads
<1> DEFINE both == ss \o tt
           m == Len(ss)
           n == Len(tt)
           u == [i \in 1 .. m + n + 1 |-> IF i <= m THEN v[i] ELSE w[i - m]]
<1>4. both \in Seq(Steps) /\ Len(both) = m + n /\ m \in Nat /\ n \in Nat
  BY <1>1, ConcatProperties, LenProperties
<1>5. /\ \A i \in 1 .. m : both[i] = ss[i]
      /\ \A i \in 1 .. n : both[m + i] = tt[i]
  BY <1>1, ConcatProperties
<1> HIDE DEF both, m, n
<1>6. ASSUME NEW i \in 1 .. m + 1 PROVE u[i] = v[i]
  <2>1. CASE i <= m BY <1>4, <2>1
  <2>2. CASE i = m + 1 BY <1>2, <1>3, <1>4, <2>2 DEF m, n
  <2> QED BY <1>4, <2>1, <2>2
<1>7. ASSUME NEW i \in 1 .. n + 1 PROVE u[m + i] = w[i]
  BY <1>4
<1> HIDE DEF u
<1>8. u \in [1 .. Len(both) + 1 -> Situations]
  BY <1>2, <1>3, <1>4 DEF u, m, n
<1>9. u[1] = x /\ u[Len(both) + 1] = z
  BY <1>2, <1>3, <1>4, <1>6, <1>7 DEF m, n
<1>10. ASSUME NEW i \in 1 .. Len(both) + 1 PROVE Sound(kind, u[i])
  <2>1. CASE i <= m BY <1>2, <1>4, <1>6, <2>1 DEF m
  <2>2. CASE i > m
    <3>1. i - m \in 1 .. n + 1 /\ i = m + (i - m) BY <1>4, <2>2
    <3> QED BY <1>3, <1>7, <3>1 DEF n
  <2> QED BY <1>4, <2>1, <2>2
<1>11. ASSUME NEW i \in 1 .. Len(both)
       PROVE  Fine(kind, possible, both[i], u[i]) /\ u[i + 1] = After(kind, both[i], u[i])
  <2>1. CASE i <= m
    <3>1. i \in 1 .. m /\ i \in 1 .. m + 1 /\ i + 1 \in 1 .. m + 1 BY <1>4, <2>1
    <3> QED BY <1>2, <1>5, <1>6, <3>1 DEF m
  <2>2. CASE i > m
    <3> DEFINE j == i - m
    <3>1. j \in 1 .. n /\ j \in 1 .. n + 1 /\ j + 1 \in 1 .. n + 1 /\ i = m + j /\ i + 1 = m + (j + 1)
      BY <1>4, <2>2
    <3> HIDE DEF j
    <3>2. both[i] = tt[j] /\ u[i] = w[j] /\ u[i + 1] = w[j + 1] BY <1>5, <1>7, <3>1
    <3> QED BY <1>3, <3>1, <3>2 DEF n
  <2> QED BY <1>4, <2>1, <2>2
<1> QED BY <1>4, <1>8, <1>9, <1>10, <1>11 DEF Leads, both

LEMMA ThenRest ==
    ASSUME NEW kind, NEW possible, NEW x, NEW y, NEW ss,
           Leads(kind, possible, x, ss, y), ss # <<>>
    PROVE  /\ Head(ss) \in Steps /\ Fine(kind, possible, Head(ss), x)
           /\ Sound(kind, x) /\ Sound(kind, After(kind, Head(ss), x))
           /\ Leads(kind, possible, After(kind, Head(ss), x), Tail(ss), y)
<1>1. ss \in Seq(Steps) BY DEF Leads
<1>2. PICK v \in [1 .. Len(ss) + 1 -> Situations] :
        /\ v[1] = x /\ v[Len(ss) + 1] = y
        /\ \A i \in 1 .. Len(ss) + 1 : Sound(kind, v[i])
        /\ \A i \in 1 .. Len(ss) :
             Fine(kind, possible, ss[i], v[i]) /\ v[i + 1] = After(kind, ss[i], v[i])
  BY DEF Leads
<1> DEFINE m == Len(ss)
           rest == Tail(ss)
           u == [i \in 1 .. m |-> v[i + 1]]
<1>3. /\ m \in Nat \ {0} /\ rest \in Seq(Steps) /\ Len(rest) = m - 1 /\ Head(ss) = ss[1]
      /\ \A i \in 1 .. m - 1 : rest[i] = ss[i + 1]
  BY <1>1, HeadTailProperties, EmptySeq
<1>4. Head(ss) \in Steps BY <1>1, <1>3, ElementOfSeq DEF m
<1> HIDE DEF m, rest
<1>5. 1 \in 1 .. m /\ 1 \in 1 .. m + 1 /\ 2 \in 1 .. m + 1 BY <1>3
<1>6. Fine(kind, possible, Head(ss), x) /\ v[2] = After(kind, Head(ss), x) /\ Sound(kind, x) /\ Sound(kind, v[2])
  BY <1>2, <1>3, <1>5 DEF m
<1>7. u \in [1 .. Len(rest) + 1 -> Situations] BY <1>2, <1>3 DEF m
<1>8. u[1] = v[2] /\ u[Len(rest) + 1] = y BY <1>2, <1>3, <1>5 DEF m
<1>9. \A i \in 1 .. Len(rest) + 1 : Sound(kind, u[i]) BY <1>2, <1>3 DEF m
<1>10. ASSUME NEW i \in 1 .. Len(rest)
       PROVE  Fine(kind, possible, rest[i], u[i]) /\ u[i + 1] = After(kind, rest[i], u[i])
  <2>1. i + 1 \in 1 .. m /\ i \in 1 .. m /\ i \in 1 .. m - 1 BY <1>3
  <2>2. u[i] = v[i + 1] /\ u[i + 1] = v[(i + 1) + 1] /\ rest[i] = ss[i + 1] BY <1>3, <2>1
  <2> QED BY <1>2, <2>1, <2>2 DEF m
<1> HIDE DEF u
<1>11. Leads(kind, possible, v[2], rest, y) BY <1>3, <1>7, <1>8, <1>9, <1>10 DEF Leads
<1> QED BY <1>4, <1>6, <1>11 DEF rest

LEMMA OneThenOne ==
    ASSUME NEW a, NEW b
    PROVE  <<a>> \o <<b>> = <<a, b>>
<1> DEFINE S == {a, b}
           one == <<a>>
           r == <<b>>
           t == <<a, b>>
<1>1. /\ one \in Seq(S) /\ Len(one) = 1 /\ r \in Seq(S) /\ Len(r) = 1 /\ t \in Seq(S) /\ Len(t) = 2
  OBVIOUS
<1>2. one \o r \in Seq(S) /\ Len(one \o r) = 2 BY <1>1, ConcatProperties
<1>3. ASSUME NEW i \in 1 .. 2 PROVE (one \o r)[i] = t[i]
  <2>1. (one \o r)[i] = IF i <= 1 THEN one[i] ELSE r[i - 1] BY <1>1, ConcatProperties
  <2>2. i = 1 \/ i = 2 OBVIOUS
  <2> QED BY <2>1, <2>2
<1> QED BY <1>1, <1>2, <1>3, SeqEqual

LEMMA OneThenTwo ==
    ASSUME NEW a, NEW b, NEW c
    PROVE  <<a>> \o <<b, c>> = <<a, b, c>>
<1> DEFINE S == {a, b, c}
           one == <<a>>
           r == <<b, c>>
           t == <<a, b, c>>
<1>1. /\ one \in Seq(S) /\ Len(one) = 1 /\ r \in Seq(S) /\ Len(r) = 2 /\ t \in Seq(S) /\ Len(t) = 3
  OBVIOUS
<1>2. one \o r \in Seq(S) /\ Len(one \o r) = 3 BY <1>1, ConcatProperties
<1>3. ASSUME NEW i \in 1 .. 3 PROVE (one \o r)[i] = t[i]
  <2>1. (one \o r)[i] = IF i <= 1 THEN one[i] ELSE r[i - 1] BY <1>1, ConcatProperties
  <2>2. i = 1 \/ i = 2 \/ i = 3 OBVIOUS
  <2> QED BY <2>1, <2>2
<1> QED BY <1>1, <1>2, <1>3, SeqEqual

LEMMA OneThenThree ==
    ASSUME NEW a, NEW b, NEW c, NEW d
    PROVE  <<a>> \o <<b, c, d>> = <<a, b, c, d>>
<1> DEFINE S == {a, b, c, d}
           one == <<a>>
           r == <<b, c, d>>
           t == <<a, b, c, d>>
<1>1. /\ one \in Seq(S) /\ Len(one) = 1 /\ r \in Seq(S) /\ Len(r) = 3 /\ t \in Seq(S) /\ Len(t) = 4
  OBVIOUS
<1>2. one \o r \in Seq(S) /\ Len(one \o r) = 4 BY <1>1, ConcatProperties
<1>3. ASSUME NEW i \in 1 .. 4 PROVE (one \o r)[i] = t[i]
  <2>1. (one \o r)[i] = IF i <= 1 THEN one[i] ELSE r[i - 1] BY <1>1, ConcatProperties
  <2>2. i = 1 \/ i = 2 \/ i = 3 \/ i = 4 OBVIOUS
  <2> QED BY <2>1, <2>2
<1> QED BY <1>1, <1>2, <1>3, SeqEqual

-----------------------------------------------------------------------------
(* One step *)

LEMMA Idle ==
    ASSUME NEW kind, NEW possible, NEW x, Sound(kind, x), AtHome(kind, x),
           NEW do \in IdleSteps, NEW p \in Places, NEW q \in Places
    PROVE  Leads(kind, possible, x, <<Step(do, p, q)>>, x)
<1> DEFINE s == Step(do, p, q)
<1>1. s \in Steps BY DEF Steps, Step
<1>2. Fine(kind, possible, s, x) BY DEF Fine, Step, IdleSteps, FsSteps, TableSteps
<1>3. After(kind, s, x) = x BY DEF After, Step, IdleSteps, TableSteps
<1> QED BY <1>1, <1>2, <1>3, AfterStep

LEMMA Calibrating ==
    ASSUME NEW kind, NEW possible, NEW x, Sound(kind, x), AtHome(kind, x), NEW p \in Places,
           Finds(kind, p, x) \/ \E n \in DOMAIN Neighbours : Holds(Neighbours[n], Middle(p))
    PROVE  Leads(kind, possible, x, <<calibrate_partition(p)>>, x)
<1> DEFINE s == calibrate_partition(p)
<1>1. s \in Steps BY DEF Steps, Step, calibrate_partition
<1>2. Fine(kind, possible, s, x) BY DEF Fine, Step, calibrate_partition, FsSteps, TableSteps
<1>3. After(kind, s, x) = x BY DEF After, Step, calibrate_partition, TableSteps
<1> QED BY <1>1, <1>2, <1>3, AfterStep

LEMMA Refusing ==
    ASSUME NEW kind, NEW possible, NEW x, Sound(kind, x), AtHome(kind, x), NEW p \in Places, NEW q \in Places,
           ~possible
    PROVE  Leads(kind, possible, x, <<Step("bug", p, q)>>, x)
<1> DEFINE s == Step("bug", p, q)
<1>1. s \in Steps BY DEF Steps, Step
<1>2. Fine(kind, possible, s, x) BY DEF Fine, Step, FsSteps, TableSteps
<1>3. After(kind, s, x) = x BY DEF After, Step, TableSteps
<1> QED BY <1>1, <1>2, <1>3, AfterStep

LEMMA Resizing ==
    ASSUME NEW kind, NEW possible, NEW x, Sound(kind, x), AtHome(kind, x), NEW p \in Places, NEW q \in Places,
           x.own = p, q.start = p.start, possible => Clear(q),
           kind = "swap" \/ PlaceLength(q) >= PlaceLength(p)
    PROVE  Leads(kind, possible, x, <<Step("resize", p, q)>>, Moved(x, q))
<1> DEFINE s == Step("resize", p, q)
<1>1. s \in Steps BY DEF Steps, Step, TableSteps
<1>2. x.own # NoPlace BY ApplyAssumption DEF Places, IsPlace
<1>3. Finds(kind, p, x) BY <1>2, MiddleInside DEF Finds, Holds
<1>4. AtHome(kind, Moved(x, q)) BY <1>2 DEF AtHome, Moved, Situation
<1>5. Fine(kind, possible, s, x) BY <1>3, <1>4 DEF Fine, Step, FsSteps, TableSteps
<1>6. After(kind, s, x) = Moved(x, q) BY DEF After, Step, TableSteps
<1>7. Sound(kind, Moved(x, q))
  BY <1>2 DEF Sound, Moved, Situation, Situations, Contents, Places, PlaceLength, Open
<1> QED BY <1>1, <1>5, <1>6, <1>7, AfterStep

\* The partition shrinks to what its content has been shrunk to.
LEMMA Reducing ==
    ASSUME NEW kind, NEW possible, NEW x, Sound(kind, x), AtHome(kind, x), NEW p \in Places, NEW q \in Places,
           x.own = p, possible => Clear(q), AtHome(kind, Moved(x, q)), Sound(kind, Moved(x, q))
    PROVE  Leads(kind, possible, x, <<Step("reduce", p, q)>>, Moved(x, q))
<1> DEFINE s == Step("reduce", p, q)
<1>1. s \in Steps BY DEF Steps, Step, TableSteps
<1>2. x.own # NoPlace BY ApplyAssumption DEF Places, IsPlace
<1>3. Finds(kind, p, x) BY <1>2, MiddleInside DEF Finds, Holds
<1>5. Fine(kind, possible, s, x) BY <1>3 DEF Fine, Step, FsSteps, TableSteps
<1>6. After(kind, s, x) = Moved(x, q) BY DEF After, Step, TableSteps
<1> QED BY <1>1, <1>5, <1>6, AfterStep

LEMMA Widening ==
    ASSUME NEW kind, NEW possible, NEW x, Sound(kind, x), AtHome(kind, x), NEW p \in Places, NEW q \in Places,
           x.own = p, Within(p, q), possible => Clear(q)
    PROVE  Leads(kind, possible, x, <<Step("widen", p, q)>>, Moved(x, q))
<1> DEFINE s == Step("widen", p, q)
<1>1. s \in Steps BY DEF Steps, Step, TableSteps
<1>2. x.own # NoPlace BY ApplyAssumption DEF Places, IsPlace
<1>3. Finds(kind, p, x) BY <1>2, MiddleInside DEF Finds, Holds
<1>5. Fine(kind, possible, s, x) BY <1>3 DEF Fine, Step, FsSteps, TableSteps
<1>6. After(kind, s, x) = Moved(x, q) BY DEF After, Step, TableSteps
<1>7. Sound(kind, Moved(x, q))
  BY <1>2 DEF Sound, Moved, Situation, Situations, Contents, Places, PlaceLength, Open, Within
<1> QED BY <1>1, <1>5, <1>6, <1>7, AfterStep

LEMMA Narrowing ==
    ASSUME NEW kind, NEW possible, NEW x, Sound(kind, x), NEW p \in Places, NEW q \in Places,
           x.own = p, Within(q, p), Sound(kind, Moved(x, q))
    PROVE  Leads(kind, possible, x, <<Step("narrow", p, q)>>, Moved(x, q))
<1> DEFINE s == Step("narrow", p, q)
<1>1. s \in Steps BY DEF Steps, Step, TableSteps
<1>2. x.own # NoPlace BY ApplyAssumption DEF Places, IsPlace
<1>3. Finds(kind, p, x) BY <1>2, MiddleInside DEF Finds, Holds
<1>5. Fine(kind, possible, s, x) BY <1>3 DEF Fine, Step, FsSteps, TableSteps
<1>6. After(kind, s, x) = Moved(x, q) BY DEF After, Step, TableSteps
<1> QED BY <1>1, <1>5, <1>6, AfterStep

LEMMA Creating ==
    ASSUME NEW kind, NEW possible, NEW x, Sound(kind, x), NEW p \in Places, possible => Clear(p),
           x.own = NoPlace, x.fs.state = "none"
    PROVE  Leads(kind, possible, x, <<create_partition(p)>>, Moved(x, p))
<1> DEFINE s == create_partition(p)
<1>1. s \in Steps BY DEF Steps, Step, create_partition
<1>2. AtHome(kind, x) BY DEF AtHome
<1>3. Fine(kind, possible, s, x) BY <1>2 DEF Fine, Step, create_partition, FsSteps, TableSteps
<1>4. After(kind, s, x) = Moved(x, p) BY DEF After, Step, create_partition, TableSteps
<1>5. Sound(kind, Moved(x, p)) BY DEF Sound, Moved, Situation, Situations
<1> QED BY <1>1, <1>3, <1>4, <1>5, AfterStep

LEMMA Deleting ==
    ASSUME NEW kind, NEW possible, NEW x, Sound(kind, x), AtHome(kind, x), NEW p \in Places, x.own = p
    PROVE  Leads(kind, possible, x, <<delete_partition(p)>>,
                 Situation(NoPlace, [x.fs EXCEPT !.state = "none"]))
<1> DEFINE s == delete_partition(p)
           y == Situation(NoPlace, [x.fs EXCEPT !.state = "none"])
<1>1. s \in Steps BY DEF Steps, Step, delete_partition
<1>2. x.own # NoPlace BY ApplyAssumption DEF Places, IsPlace
<1>3. Finds(kind, p, x) BY <1>2, MiddleInside DEF Finds, Holds
<1>4. Fine(kind, possible, s, x) BY <1>3 DEF Fine, Step, delete_partition, FsSteps, TableSteps
<1>5. After(kind, s, x) = y BY DEF After, Step, delete_partition, TableSteps
<1>6. Sound(kind, y) BY DEF Sound, Situation, Situations, Contents
<1> QED BY <1>1, <1>4, <1>5, <1>6, AfterStep

LEMMA Erasing ==
    ASSUME NEW kind, NEW possible, NEW x, Sound(kind, x), AtHome(kind, x), NEW p \in Places,
           x.own # NoPlace, Within(p, x.own)
    PROVE  Leads(kind, possible, x, <<erase_filesystem_signatures(p)>>, Holding(x, [x.fs EXCEPT !.state = "none"]))
<1> DEFINE s == erase_filesystem_signatures(p)
           y == Holding(x, [x.fs EXCEPT !.state = "none"])
<1>1. s \in Steps BY DEF Steps, Step, erase_filesystem_signatures, FsSteps
<1>2. Fine(kind, possible, s, x)
  BY DEF Fine, Step, erase_filesystem_signatures, FsSteps, TableSteps
<1>3. After(kind, s, x) = y BY DEF After, Step, erase_filesystem_signatures, TableSteps
<1>4. Sound(kind, y) BY DEF Sound, Holding, Situation, Situations, Contents
<1> QED BY <1>1, <1>2, <1>3, <1>4, AfterStep

LEMMA Making ==
    ASSUME NEW kind, NEW possible, NEW x, Sound(kind, x), AtHome(kind, x), NEW p \in Places,
           x.own # NoPlace, Within(p, x.own), Open(kind) => x.fs.volume <= PlaceLength(x.own),
           NEW do \in {"create_filesystem", "recreate"}
    PROVE  Leads(kind, possible, x, <<Step(do, p, p)>>, Holding(x, NewContent(kind, x)))
<1> DEFINE s == Step(do, p, p)
           y == Holding(x, NewContent(kind, x))
<1>1. s \in Steps BY DEF Steps, Step, FsSteps
<1>2. Fine(kind, possible, s, x) BY DEF Fine, Step, FsSteps, TableSteps
<1>3. After(kind, s, x) = y BY DEF After, Step, TableSteps
<1>4. x.own \in Places /\ x.fs \in Contents BY DEF Sound, Situations
<1>5. y \in Situations /\ y.own = x.own /\ y.fs.start = x.own.start /\ y.fs.length = Space(kind, x)
      /\ y.fs.volume = x.fs.volume
  BY <1>4 DEF Holding, Situation, Situations, Contents, NewContent, Content, Space, PlaceLength, Places
<1>6. Sound(kind, y) BY <1>4, <1>5 DEF Sound, Places, Contents, Space, PlaceLength, Open
<1> QED BY <1>1, <1>2, <1>3, <1>6, AfterStep

LEMMA MakingSwapAnew ==
    ASSUME NEW kind, NEW possible, NEW x, Sound(kind, x), AtHome(kind, x), NEW p \in Places,
           x.own # NoPlace, Within(p, x.own), Open(kind) => x.fs.volume <= PlaceLength(x.own)
    PROVE  Leads(kind, possible, x, recreate_linux_swap_filesystem(p), Holding(x, NewContent(kind, x)))
<1> DEFINE y == Holding(x, [x.fs EXCEPT !.state = "none"])
           a == <<erase_filesystem_signatures(p)>>
           b == <<Step("recreate", p, p)>>
<1>1. Leads(kind, possible, x, a, y) BY Erasing
<1>2. x \in Situations BY DEF Sound
<1>3. y.own = x.own /\ y.fs.volume = x.fs.volume /\ y.fs.state = "none" /\ Sound(kind, y) /\ AtHome(kind, y)
  BY <1>2 DEF Holding, Situation, Situations, Contents, Sound, AtHome
<1>4. Holding(y, NewContent(kind, y)) = Holding(x, NewContent(kind, x))
  BY <1>2 DEF Holding, Situation, Situations, Contents, NewContent, Content, Space
<1> HIDE DEF y
<1>5. Leads(kind, possible, y, b, Holding(x, NewContent(kind, x))) BY <1>3, <1>4, Making
<1>6. Leads(kind, possible, x, a \o b, Holding(x, NewContent(kind, x))) BY <1>1, <1>5, AfterBoth
<1>7. a \o b = recreate_linux_swap_filesystem(p) BY OneThenOne DEF recreate_linux_swap_filesystem
<1> QED BY <1>6, <1>7

Maximized(kind, x) == IF CanGrow THEN Holding(x, [x.fs EXCEPT !.length = Space(kind, x)]) ELSE x
VolumeMaximized(kind, x) ==
    IF Open(kind) THEN Holding(x, [x.fs EXCEPT !.volume = PlaceLength(x.own)]) ELSE x

LEMMA Maximizing ==
    ASSUME NEW kind, NEW possible, NEW x, Sound(kind, x), AtHome(kind, x), NEW p \in Places, x.own # NoPlace
    PROVE  Leads(kind, possible, x, <<maximize_filesystem(p)>>, Maximized(kind, x))
<1> DEFINE s == maximize_filesystem(p)
           y == Maximized(kind, x)
<1>1. s \in Steps BY DEF Steps, Step, FsSteps, maximize_filesystem
<1>2. Fine(kind, possible, s, x) BY DEF Fine, Step, FsSteps, TableSteps, maximize_filesystem
<1>3. After(kind, s, x) = y BY DEF After, Step, TableSteps, maximize_filesystem, Maximized
<1>4. x.own \in Places /\ x.fs \in Contents BY DEF Sound, Situations
<1>5. Sound(kind, y)
  <2>1. CASE CanGrow
    <3>1. y \in Situations /\ y.own = x.own /\ y.fs.start = x.fs.start /\ y.fs.length = Space(kind, x)
          /\ y.fs.volume = x.fs.volume /\ y.fs.state = x.fs.state
      BY <1>4, <2>1 DEF Maximized, Holding, Situation, Situations, Contents, Space, PlaceLength, Places
    <3> QED BY <1>4, <3>1 DEF Sound, AtHome, Places, Contents, Space, PlaceLength, Open
  <2>2. CASE ~CanGrow BY <2>2 DEF Maximized
  <2> QED BY <2>1, <2>2
<1> QED BY <1>1, <1>2, <1>3, <1>5, AfterStep

LEMMA MaximizingVolume ==
    ASSUME NEW kind, NEW possible, NEW x, Sound(kind, x), AtHome(kind, x), NEW p \in Places, x.own # NoPlace
    PROVE  Leads(kind, possible, x, <<maximize_encryption(p)>>, VolumeMaximized(kind, x))
<1> DEFINE s == maximize_encryption(p)
           y == VolumeMaximized(kind, x)
<1>1. s \in Steps BY DEF Steps, Step, FsSteps, maximize_encryption
<1>2. Fine(kind, possible, s, x) BY DEF Fine, Step, FsSteps, TableSteps, maximize_encryption
<1>3. After(kind, s, x) = y BY DEF After, Step, TableSteps, maximize_encryption, VolumeMaximized
<1>4. x.own \in Places /\ x.fs \in Contents BY DEF Sound, Situations
<1>5. Sound(kind, y)
  <2>1. CASE Open(kind)
    <3>1. y \in Situations /\ y.own = x.own /\ y.fs.start = x.fs.start /\ y.fs.length = x.fs.length
          /\ y.fs.volume = PlaceLength(x.own) /\ y.fs.state = x.fs.state
      BY <1>4, <2>1 DEF VolumeMaximized, Holding, Situation, Situations, Contents, PlaceLength, Places
    <3> QED BY <1>4, <2>1, <3>1 DEF Sound, Places, Contents, PlaceLength, Open
  <2>2. CASE ~Open(kind) BY <2>2 DEF VolumeMaximized
  <2> QED BY <2>1, <2>2
<1> QED BY <1>1, <1>2, <1>3, <1>5, AfterStep

LEMMA Shrinking ==
    ASSUME NEW kind, NEW possible, NEW x, Sound(kind, x), AtHome(kind, x), NEW p \in Places, NEW q \in Places,
           x.own = p, kind # "swap", PlaceLength(q) <= Space(kind, x)
    PROVE  Leads(kind, possible, x, <<shrink_filesystem(p, q)>>, Holding(x, [x.fs EXCEPT !.length = PlaceLength(q)]))
<1> DEFINE s == shrink_filesystem(p, q)
           y == Holding(x, [x.fs EXCEPT !.length = PlaceLength(q)])
<1>1. s \in Steps BY DEF Steps, Step, FsSteps, shrink_filesystem
<1>2. x.own # NoPlace BY ApplyAssumption DEF Places, IsPlace
<1>3. Fine(kind, possible, s, x) BY <1>2 DEF Fine, Step, FsSteps, TableSteps, shrink_filesystem
<1>4. After(kind, s, x) = y BY DEF After, Step, TableSteps, shrink_filesystem
<1>5. x.own \in Places /\ x.fs \in Contents BY DEF Sound, Situations
<1>6. y \in Situations /\ y.own = x.own /\ y.fs.start = x.fs.start /\ y.fs.length = PlaceLength(q)
      /\ y.fs.volume = x.fs.volume /\ y.fs.state = x.fs.state
  BY <1>5 DEF Holding, Situation, Situations, Contents, PlaceLength, Places
<1>7. Sound(kind, y) BY <1>5, <1>6 DEF Sound, AtHome, Places, Contents, Space, PlaceLength, Open
<1> QED BY <1>1, <1>3, <1>4, <1>7, AfterStep

LEMMA ShrinkingVolume ==
    ASSUME NEW kind, NEW possible, NEW x, Sound(kind, x), AtHome(kind, x), NEW p \in Places, NEW q \in Places,
           x.own = p, PlaceLength(q) <= PlaceLength(p), kind = "open" => x.fs.length <= PlaceLength(q)
    PROVE  Leads(kind, possible, x, <<shrink_encryption(p, q)>>, Holding(x, [x.fs EXCEPT !.volume = PlaceLength(q)]))
<1> DEFINE s == shrink_encryption(p, q)
           y == Holding(x, [x.fs EXCEPT !.volume = PlaceLength(q)])
<1>1. s \in Steps BY DEF Steps, Step, FsSteps, shrink_encryption
<1>2. x.own # NoPlace BY ApplyAssumption DEF Places, IsPlace
<1>3. Fine(kind, possible, s, x) BY <1>2 DEF Fine, Step, FsSteps, TableSteps, shrink_encryption
<1>4. After(kind, s, x) = y BY DEF After, Step, TableSteps, shrink_encryption
<1>5. x.own \in Places /\ x.fs \in Contents BY DEF Sound, Situations
<1>6. y \in Situations /\ y.own = x.own /\ y.fs.start = x.fs.start /\ y.fs.length = x.fs.length
      /\ y.fs.volume = PlaceLength(q) /\ y.fs.state = x.fs.state
  BY <1>5 DEF Holding, Situation, Situations, Contents, PlaceLength, Places
<1>7. Sound(kind, y) BY <1>5, <1>6 DEF Sound, Places, Contents, PlaceLength, Open
<1> QED BY <1>1, <1>3, <1>4, <1>7, AfterStep

LEMMA Copying ==
    ASSUME NEW kind, NEW possible, NEW x, Sound(kind, x), AtHome(kind, x), NEW p \in Places, NEW q \in Places,
           x.own = q, PlaceLength(p) <= PlaceLength(q), ~Open(kind)
    PROVE  Leads(kind, possible, x, <<copy_filesystem(p, q)>>,
                 Holding(x, CopyOf(p, q, x)))
<1> DEFINE s == copy_filesystem(p, q)
           y == Holding(x, CopyOf(p, q, x))
<1>1. s \in Steps BY DEF Steps, Step, FsSteps, copy_filesystem
<1>2. x.own # NoPlace BY ApplyAssumption DEF Places, IsPlace
<1>3. Fine(kind, possible, s, x)
  BY <1>2 DEF Fine, Step, FsSteps, TableSteps, copy_filesystem, Within, Place, PlaceLength, Places
<1>4. After(kind, s, x) = y BY DEF After, Step, TableSteps, copy_filesystem
<1>5. x.own \in Places /\ x.fs \in Contents BY DEF Sound, Situations
<1>6. y \in Situations /\ y.own = x.own /\ y.fs.start = q.start /\ y.fs.length = PlaceLength(p)
  BY <1>5 DEF Holding, Situation, Situations, Contents, CopyOf, Content, PlaceLength, Places
<1>7. Sound(kind, y) BY <1>5, <1>6 DEF Sound, Places, Contents, PlaceLength, Open
<1> QED BY <1>1, <1>3, <1>4, <1>7, AfterStep

\* Every block is written before the partition is narrowed to the new place.
LEMMA MovingContent ==
    ASSUME NEW kind, NEW possible, NEW x, Sound(kind, x), NEW p \in Places, NEW q \in Places,
           kind # "swap", x.own = partition_all_space(p, q), x.fs.state = "good" => x.fs.start = p.start,
           Sound(kind, Moved(x, p)), PlaceLength(p) = PlaceLength(q), ~Open(kind)
    PROVE  Leads(kind, possible, x, <<move_filesystem(p, q)>>, Holding(x, [x.fs EXCEPT !.start = q.start]))
<1> DEFINE s == move_filesystem(p, q)
           y == Holding(x, [x.fs EXCEPT !.start = q.start])
<1>1. s \in Steps BY DEF Steps, Step, FsSteps, move_filesystem
<1>2. Fine(kind, possible, s, x) BY DEF Fine, Step, FsSteps, TableSteps, move_filesystem
<1>3. After(kind, s, x) = y BY DEF After, Step, TableSteps, move_filesystem
<1>4. x.own \in Places /\ x.fs \in Contents BY ApplyAssumption
       DEF Sound, Situations, partition_all_space, Place, Places, Least, Most, IsPlace
<1>5. y \in Situations /\ y.own = x.own /\ y.fs.start = q.start /\ y.fs.length = x.fs.length
      /\ y.fs.volume = x.fs.volume /\ y.fs.state = x.fs.state
  BY <1>4 DEF Holding, Situation, Situations, Contents, PlaceLength, Places
<1>6. x.fs.state = "good" /\ kind \notin {"swap", "open_swap"} => x.fs.start + x.fs.length - 1 <= p.end
  <2>1. p # NoPlace BY ApplyAssumption DEF Places, IsPlace
  <2> QED BY <2>1 DEF Sound, Moved, Situation
<1>7. Sound(kind, y)
  BY <1>4, <1>5, <1>6 DEF Sound, Places, Contents, PlaceLength, Open, partition_all_space, Place, Least, Most
<1> QED BY <1>1, <1>2, <1>3, <1>7, AfterStep

-----------------------------------------------------------------------------
(* Resizing a partition and what is in it *)

\* A file system which may be worked on: it begins where its partition does, and
\* an opened volume is as large as its partition.
Ready(kind, x) ==
    /\ Sound(kind, x) /\ AtHome(kind, x)
    /\ x.own # NoPlace /\ x.fs.state = "good"
    /\ Open(kind) => x.fs.volume = PlaceLength(x.own)

Full(x) == x.fs.start = x.own.start /\ x.fs.length = PlaceLength(x.own)

LEMMA OwnIsPlace ==
    ASSUME NEW kind, NEW x, Sound(kind, x)
    PROVE  /\ x.fs \in Contents /\ x.own \in Places \cup {NoPlace} /\ NoPlace \notin Places
           /\ \A p \in Places : p # NoPlace
BY ApplyAssumption DEF Sound, Situations, Places, IsPlace

LEMMA Fields ==
    ASSUME NEW x, NEW p, NEW c
    PROVE  /\ Moved(x, p).own = p /\ Moved(x, p).fs = x.fs
           /\ Holding(x, c).own = x.own /\ Holding(x, c).fs = c
BY DEF Moved, Holding, Situation

LEMMA NewContentReady ==
    ASSUME NEW kind, NEW x, Sound(kind, x), x.own # NoPlace, Open(kind) => x.fs.volume = PlaceLength(x.own)
    PROVE  /\ Ready(kind, Holding(x, NewContent(kind, x))) /\ Holding(x, NewContent(kind, x)).own = x.own
           /\ Full(Holding(x, NewContent(kind, x)))
<1> DEFINE y == Holding(x, NewContent(kind, x))
<1>1. x.own \in Places /\ x.fs \in Contents BY OwnIsPlace
<1>2. Space(kind, x) = PlaceLength(x.own) BY DEF Space
<1>3. /\ y.own = x.own /\ y.fs.state = "good" /\ y.fs.start = x.own.start /\ y.fs.length = PlaceLength(x.own)
      /\ y.fs.volume = x.fs.volume /\ y \in Situations
  BY <1>1, <1>2 DEF Holding, Situation, Situations, Contents, NewContent, Content, PlaceLength, Places
<1> HIDE DEF y
<1>4. Sound(kind, y) BY <1>1, <1>3 DEF Sound, Places, Contents, PlaceLength, Open
<1>5. Ready(kind, y) /\ Full(y) BY <1>3, <1>4 DEF Ready, Full, AtHome
<1> QED BY <1>3, <1>5 DEF y

LEMMA MaximizedReady ==
    ASSUME NEW kind, NEW x, Ready(kind, x)
    PROVE  /\ Ready(kind, Maximized(kind, x)) /\ Maximized(kind, x).own = x.own
           /\ CanGrow /\ kind # "swap" => Full(Maximized(kind, x))
<1> DEFINE y == Maximized(kind, x)
<1>1. x.own \in Places /\ x.fs \in Contents BY OwnIsPlace DEF Ready
<1>2. CASE CanGrow
  <2>1. Space(kind, x) = PlaceLength(x.own) BY DEF Space, Ready
  <2>2. /\ y.own = x.own /\ y.fs.state = "good" /\ y.fs.start = x.fs.start /\ y.fs.length = PlaceLength(x.own)
        /\ y.fs.volume = x.fs.volume /\ y \in Situations
    BY <1>1, <1>2, <2>1 DEF Maximized, Holding, Situation, Situations, Contents, PlaceLength, Places, Ready
  <2> HIDE DEF y
  <2>3. Sound(kind, y) BY <1>1, <2>2 DEF Sound, Ready, AtHome, Places, Contents, PlaceLength, Open
  <2>4. Ready(kind, y) BY <2>2, <2>3 DEF Ready, AtHome
  <2>5. kind # "swap" => Full(y) BY <2>2 DEF Full, Ready, AtHome
  <2> QED BY <2>2, <2>4, <2>5 DEF y
<1>3. CASE ~CanGrow BY <1>3 DEF Maximized
<1> QED BY <1>2, <1>3

LEMMA ResizePlain ==
    ASSUME NEW kind, NEW possible, NEW x, NEW q \in Places,
           Ready(kind, x), ~Open(kind), q.start = x.own.start, possible => Clear(q)
    PROVE  \E y : /\ Leads(kind, possible, x, resize_plain(kind, x.own, q), y)
                  /\ Ready(kind, y) /\ y.own = q
                  /\ kind = "swap" \/ (CanGrow /\ PlaceLength(q) > PlaceLength(x.own)) => Full(y)
<1> DEFINE p == x.own
           check == <<check_repair_filesystem(q)>>
           moved == Moved(x, q)
<1>1. Sound(kind, x) /\ AtHome(kind, x) /\ p \in Places /\ x.fs \in Contents BY OwnIsPlace DEF Ready
<1>2. moved.own = q /\ moved.fs = x.fs /\ q # NoPlace BY <1>1, Fields, OwnIsPlace
<1>3. PlaceLength(p) \in Int /\ PlaceLength(q) \in Int BY <1>1 DEF PlaceLength, Places
<1>4. CASE kind = "swap"
  <2> DEFINE a == <<Step("resize", p, q)>>
             b == recreate_linux_swap_filesystem(q)
             y == Holding(moved, NewContent(kind, moved))
  <2>1. Leads(kind, possible, x, a, moved) BY <1>1, <1>4, Resizing
  <2>2. Sound(kind, moved) BY <1>1, <1>2, <1>4 DEF Sound, Open, Situations, Moved, Situation
  <2>3. AtHome(kind, moved) BY <1>4 DEF AtHome
  <2>4. Within(q, moved.own) BY <1>2 DEF Within, Places
  <2> HIDE DEF moved
  <2>5. Leads(kind, possible, moved, b, y) BY <1>2, <2>2, <2>3, <2>4, MakingSwapAnew
  <2>6. Leads(kind, possible, x, a \o b, y) BY <2>1, <2>5, AfterBoth
  <2>7. Ready(kind, y) /\ y.own = q /\ Full(y) BY <1>2, <2>2, NewContentReady
  <2>8. resize_plain(kind, p, q) = a \o b BY <1>4 DEF resize_plain
  <2> HIDE DEF y, a, b
  <2> QED BY <2>6, <2>7, <2>8
<1>5. CASE kind # "swap" /\ PlaceLength(q) < PlaceLength(p)
  <2> DEFINE a == <<shrink_filesystem(p, q)>>
             b == <<Step("reduce", p, q)>>
             z == Holding(x, [x.fs EXCEPT !.length = PlaceLength(q)])
             y == Moved(z, q)
  <2>1. Leads(kind, possible, x, check, x) BY <1>1, Idle DEF check_repair_filesystem, IdleSteps
  <2>2. Leads(kind, possible, x, a, z) BY <1>1, <1>3, <1>5, Shrinking DEF Space
  <2>3. /\ z.own = p /\ z.fs.start = x.fs.start /\ z.fs.length = PlaceLength(q) /\ z.fs.state = "good"
        /\ z.fs.volume = x.fs.volume /\ z \in Situations
    BY <1>1, <1>3 DEF Holding, Situation, Situations, Contents, Ready, Places
  <2> HIDE DEF z
  <2>4. y.own = q /\ y.fs = z.fs /\ y \in Situations BY <2>3 DEF Moved, Situation, Situations
  <2> HIDE DEF y
  <2>5. x.fs.start = p.start BY <1>5 DEF Ready, AtHome
  <2>6. Sound(kind, z) /\ Sound(kind, y)
    BY <1>1, <1>2, <1>5, <2>3, <2>4, <2>5 DEF Sound, Places, Contents, PlaceLength, Open
  <2>7. AtHome(kind, z) /\ AtHome(kind, y) BY <2>3, <2>4, <2>5 DEF AtHome
  <2>8. Leads(kind, possible, z, b, y) BY <1>1, <2>3, <2>6, <2>7, Reducing DEF y
  <2>9. Leads(kind, possible, x, check \o (a \o b), y) BY <2>1, <2>2, <2>8, AfterBoth
  <2>10. resize_plain(kind, p, q) = check \o (a \o b)
    BY <1>5, OneThenOne, OneThenTwo DEF resize_plain
  <2>11. Ready(kind, y) BY <1>2, <2>3, <2>4, <2>6, <2>7 DEF Ready
  <2> HIDE DEF a, b, check
  <2> QED BY <1>3, <1>5, <2>4, <2>9, <2>10, <2>11
<1>6. CASE kind # "swap" /\ PlaceLength(q) > PlaceLength(p)
  <2> DEFINE a == <<Step("resize", p, q)>>
             b == <<maximize_filesystem(q)>>
             y == Maximized(kind, moved)
  <2>1. Leads(kind, possible, x, check, x) BY <1>1, Idle DEF check_repair_filesystem, IdleSteps
  <2>2. Leads(kind, possible, x, a, moved) BY <1>1, <1>3, <1>6, Resizing
  <2>3. Ready(kind, moved)
    BY <1>1, <1>2, <1>6 DEF Ready, Sound, AtHome, Situations, Moved, Situation, Places, Contents, PlaceLength, Open
  <2> HIDE DEF moved
  <2>4. Leads(kind, possible, moved, b, y) BY <2>3, Maximizing DEF Ready
  <2>5. Ready(kind, y) /\ y.own = q /\ (CanGrow => Full(y)) BY <1>2, <1>6, <2>3, MaximizedReady
  <2> HIDE DEF y
  <2>6. Leads(kind, possible, x, check \o (a \o b), y) BY <2>1, <2>2, <2>4, AfterBoth
  <2>7. resize_plain(kind, p, q) = check \o (a \o b)
    BY <1>3, <1>6, OneThenOne, OneThenTwo DEF resize_plain
  <2> HIDE DEF a, b, check
  <2> QED BY <1>6, <2>5, <2>6, <2>7
<1>7. CASE kind # "swap" /\ PlaceLength(q) = PlaceLength(p)
  <2>1. p = q BY <1>1, <1>7 DEF Places, PlaceLength
  <2>2. resize_plain(kind, p, q) = <<>> BY <1>3, <1>7 DEF resize_plain
  <2> QED BY <1>1, <1>3, <1>7, <2>1, <2>2, AfterNothing
<1> QED BY <1>3, <1>4, <1>5, <1>6, <1>7

LEMMA MovedReady ==
    ASSUME NEW kind, NEW x, NEW q \in Places, Ready(kind, x), ~Open(kind),
           q.start = x.own.start, PlaceLength(q) >= PlaceLength(x.own)
    PROVE  Ready(kind, Moved(x, q))
<1>1. x.own \in Places /\ x.fs \in Contents /\ q # NoPlace BY OwnIsPlace DEF Ready
<1> QED BY <1>1 DEF Ready, Sound, AtHome, Situations, Moved, Situation, Places, Contents, PlaceLength, Open

LEMMA ResizeClosed ==
    ASSUME NEW possible, NEW x, NEW q \in Places,
           Ready("closed", x), q.start = x.own.start, possible => Clear(q), PlaceLength(q) >= PlaceLength(x.own)
    PROVE  \E y : /\ Leads("closed", possible, x, resize_encryption("closed", x.own, q), y)
                  /\ Ready("closed", y) /\ y.own = q
<1> DEFINE p == x.own
           moved == Moved(x, q)
           a == <<Step("resize", p, q)>>
           b == <<maximize_encryption(q)>>
<1>1. Sound("closed", x) /\ AtHome("closed", x) /\ p \in Places /\ x.fs \in Contents BY OwnIsPlace DEF Ready
<1>2. moved.own = q /\ moved.fs = x.fs /\ q # NoPlace BY <1>1, Fields, OwnIsPlace
<1>3. PlaceLength(p) \in Int /\ PlaceLength(q) \in Int BY <1>1 DEF PlaceLength, Places
<1>4. Leads("closed", possible, x, a, moved) BY <1>1, Resizing
<1>5. Ready("closed", moved) BY MovedReady DEF Open
<1> HIDE DEF moved
<1>6. VolumeMaximized("closed", moved) = moved BY DEF VolumeMaximized, Open
<1>7. Leads("closed", possible, moved, b, moved) BY <1>5, <1>6, MaximizingVolume DEF Ready
<1>8. Leads("closed", possible, x, a \o b, moved) BY <1>4, <1>7, AfterBoth
<1>9. resize_encryption("closed", p, q) = a \o b BY <1>3, OneThenOne DEF resize_encryption
<1> HIDE DEF a, b
<1> QED BY <1>2, <1>5, <1>8, <1>9

LEMMA VolumeMaximizedReady ==
    ASSUME NEW kind, NEW x, Sound(kind, x), AtHome(kind, x), x.own # NoPlace, x.fs.state = "good"
    PROVE  /\ Ready(kind, VolumeMaximized(kind, x)) /\ VolumeMaximized(kind, x).own = x.own
<1> DEFINE y == VolumeMaximized(kind, x)
<1>1. x.own \in Places /\ x.fs \in Contents BY OwnIsPlace
<1>2. CASE Open(kind)
  <2>1. /\ y.own = x.own /\ y.fs.state = "good" /\ y.fs.start = x.fs.start /\ y.fs.length = x.fs.length
        /\ y.fs.volume = PlaceLength(x.own) /\ y \in Situations
    BY <1>1, <1>2 DEF VolumeMaximized, Holding, Situation, Situations, Contents, PlaceLength, Places
  <2> HIDE DEF y
  <2>2. Sound(kind, y) BY <1>1, <1>2, <2>1 DEF Sound, Places, Contents, PlaceLength, Open
  <2>3. Ready(kind, y) BY <2>1, <2>2 DEF Ready, AtHome
  <2> QED BY <2>1, <2>3 DEF y
<1>3. CASE ~Open(kind) BY <1>3 DEF VolumeMaximized, Ready
<1> QED BY <1>2, <1>3

LEMMA MovedInto ==
    ASSUME NEW kind, NEW x, NEW q \in Places, Ready(kind, x), Open(kind),
           q.start = x.own.start, PlaceLength(q) >= PlaceLength(x.own)
    PROVE  Sound(kind, Moved(x, q)) /\ AtHome(kind, Moved(x, q)) /\ Moved(x, q).own # NoPlace
<1>1. x.own \in Places /\ x.fs \in Contents /\ q # NoPlace BY OwnIsPlace DEF Ready
<1> QED BY <1>1 DEF Ready, Sound, AtHome, Situations, Moved, Situation, Places, Contents, PlaceLength, Open

LEMMA ResizeOpen ==
    ASSUME NEW possible, NEW x, NEW q \in Places,
           Ready("open", x), q.start = x.own.start, possible => Clear(q)
    PROVE  \E y : /\ Leads("open", possible, x, resize_encryption("open", x.own, q), y)
                  /\ Ready("open", y) /\ y.own = q
                  /\ CanGrow /\ PlaceLength(q) > PlaceLength(x.own) => Full(y)
<1> DEFINE kind == "open"
           p == x.own
           check == <<check_repair_filesystem(p)>>
<1>1. Sound(kind, x) /\ AtHome(kind, x) /\ p \in Places /\ x.fs \in Contents BY OwnIsPlace DEF Ready
<1>2. PlaceLength(p) \in Int /\ PlaceLength(q) \in Int BY <1>1 DEF PlaceLength, Places
<1>3. Open(kind) /\ q # NoPlace BY OwnIsPlace DEF Open, Ready
<1>4. Leads(kind, possible, x, check, x) BY <1>1, Idle DEF check_repair_filesystem, IdleSteps
<1>5. CASE PlaceLength(q) < PlaceLength(p)
  <2> DEFINE a == <<shrink_filesystem(p, q)>>
             b == <<shrink_encryption(p, q)>>
             c == <<Step("reduce", p, q)>>
             v == Holding(x, [x.fs EXCEPT !.length = PlaceLength(q)])
             w == Holding(v, [v.fs EXCEPT !.volume = PlaceLength(q)])
             y == Moved(w, q)
  <2>1. PlaceLength(q) <= Space(kind, x) BY <1>1, <1>2, <1>3, <1>5 DEF Space, Ready
  <2>2. Leads(kind, possible, x, a, v) BY <1>1, <2>1, Shrinking
  <2>3. /\ v.own = p /\ v.fs.start = x.fs.start /\ v.fs.length = PlaceLength(q) /\ v.fs.state = "good"
        /\ v.fs.volume = x.fs.volume /\ v \in Situations
    BY <1>1, <1>2 DEF Holding, Situation, Situations, Contents, Ready, Places
  <2> HIDE DEF v
  <2>4. /\ w.own = p /\ w.fs.start = x.fs.start /\ w.fs.length = PlaceLength(q) /\ w.fs.state = "good"
        /\ w.fs.volume = PlaceLength(q) /\ w \in Situations
    BY <1>1, <1>2, <2>3 DEF Holding, Situation, Situations, Contents, Places
  <2>5. x.fs.start = p.start BY DEF Ready, AtHome
  <2>6. Sound(kind, v) /\ AtHome(kind, v)
    BY <1>1, <1>5, <2>3, <2>5 DEF Sound, Places, Contents, PlaceLength, Open, Ready, AtHome
  <2>7. Leads(kind, possible, v, b, w) BY <1>1, <1>2, <1>5, <2>3, <2>6, ShrinkingVolume
  <2> HIDE DEF w
  <2>8. y.own = q /\ y.fs = w.fs /\ y \in Situations BY <2>4 DEF Moved, Situation, Situations
  <2>9. Sound(kind, w) /\ AtHome(kind, w)
    BY <1>1, <1>5, <2>4, <2>5 DEF Sound, Places, Contents, PlaceLength, Open, AtHome
  <2> HIDE DEF y
  <2>10. Ready(kind, y)
    BY <1>1, <1>3, <2>4, <2>5, <2>8 DEF Ready, Sound, Places, Contents, PlaceLength, Open, AtHome
  <2>11. Leads(kind, possible, w, c, y) BY <1>1, <2>4, <2>9, <2>10, Reducing DEF y, Ready
  <2>12. Leads(kind, possible, x, check \o (a \o (b \o c)), y) BY <1>4, <2>2, <2>7, <2>11, AfterBoth
  <2>13. resize_encryption(kind, p, q) = check \o (a \o (b \o c))
    BY <1>5, OneThenOne, OneThenTwo, OneThenThree DEF resize_encryption
  <2>14. ~(PlaceLength(q) > PlaceLength(p)) BY <1>2, <1>5
  <2> HIDE DEF a, b, c, check
  <2> QED BY <2>8, <2>10, <2>12, <2>13, <2>14
<1>6. CASE PlaceLength(q) > PlaceLength(p)
  <2> DEFINE a == <<Step("resize", p, q)>>
             b == <<maximize_encryption(q)>>
             c == <<maximize_filesystem(q)>>
             v == Moved(x, q)
             w == VolumeMaximized(kind, v)
             y == Maximized(kind, w)
  <2>1. Leads(kind, possible, x, a, v) BY <1>1, <1>2, <1>6, Resizing
  <2>2. v.own = q /\ v.fs = x.fs BY Fields
  <2>3. Sound(kind, v) /\ AtHome(kind, v) /\ v.fs.state = "good" /\ v.own # NoPlace
    BY <1>2, <1>3, <1>6, <2>2, MovedInto DEF Ready
  <2> HIDE DEF v
  <2>4. Leads(kind, possible, v, b, w) BY <2>3, MaximizingVolume
  <2>5. Ready(kind, w) /\ w.own = q BY <2>2, <2>3, VolumeMaximizedReady
  <2> HIDE DEF w
  <2>6. Leads(kind, possible, w, c, y) BY <2>5, Maximizing DEF Ready
  <2>7. Ready(kind, y) /\ y.own = q /\ (CanGrow => Full(y)) BY <2>5, MaximizedReady
  <2> HIDE DEF y
  <2>8. Leads(kind, possible, x, check \o (a \o (b \o c)), y) BY <1>4, <2>1, <2>4, <2>6, AfterBoth
  <2>9. resize_encryption(kind, p, q) = check \o (a \o (b \o c))
    BY <1>2, <1>6, OneThenOne, OneThenTwo, OneThenThree DEF resize_encryption
  <2> HIDE DEF a, b, c, check
  <2> QED BY <2>7, <2>8, <2>9
<1>7. CASE PlaceLength(q) = PlaceLength(p)
  <2>1. p = q BY <1>1, <1>7 DEF Places, PlaceLength
  <2>2. resize_encryption(kind, p, q) = <<>> BY <1>2, <1>7 DEF resize_encryption
  <2> QED BY <1>1, <1>2, <1>7, <2>1, <2>2, AfterNothing
<1> QED BY <1>2, <1>5, <1>6, <1>7

LEMMA ResizeOpenSwap ==
    ASSUME NEW possible, NEW x, NEW q \in Places,
           Ready("open_swap", x), q.start = x.own.start, possible => Clear(q)
    PROVE  \E y : /\ Leads("open_swap", possible, x, resize_encryption("open_swap", x.own, q), y)
                  /\ Ready("open_swap", y) /\ y.own = q
                  /\ CanGrow /\ PlaceLength(q) > PlaceLength(x.own) => Full(y)
<1> DEFINE kind == "open_swap"
           p == x.own
           last == recreate_linux_swap_filesystem(q)
<1>1. Sound(kind, x) /\ AtHome(kind, x) /\ p \in Places /\ x.fs \in Contents BY OwnIsPlace DEF Ready
<1>2. PlaceLength(p) \in Int /\ PlaceLength(q) \in Int BY <1>1 DEF PlaceLength, Places
<1>3. Open(kind) /\ q # NoPlace BY OwnIsPlace DEF Open, Ready
<1>4. CASE PlaceLength(q) < PlaceLength(p)
  <2> DEFINE a == <<shrink_encryption(p, q)>>
             b == <<Step("reduce", p, q)>>
             v == Holding(x, [x.fs EXCEPT !.volume = PlaceLength(q)])
             w == Moved(v, q)
             y == Holding(w, NewContent(kind, w))
  <2>1. Leads(kind, possible, x, a, v) BY <1>1, <1>2, <1>4, ShrinkingVolume
  <2>2. /\ v.own = p /\ v.fs.start = x.fs.start /\ v.fs.length = x.fs.length /\ v.fs.state = "good"
        /\ v.fs.volume = PlaceLength(q) /\ v \in Situations
    BY <1>1, <1>2 DEF Holding, Situation, Situations, Contents, Ready, Places
  <2> HIDE DEF v
  <2>3. w.own = q /\ w.fs = v.fs /\ w \in Situations BY <2>2 DEF Moved, Situation, Situations
  <2>4. x.fs.start = p.start BY DEF Ready, AtHome
  <2> HIDE DEF w
  <2>5. Sound(kind, v) /\ AtHome(kind, v) /\ Sound(kind, w) /\ AtHome(kind, w)
    BY <1>1, <1>4, <2>2, <2>3, <2>4 DEF Sound, Places, Contents, PlaceLength, Open, AtHome
  <2>6. Leads(kind, possible, v, b, w) BY <1>1, <2>2, <2>5, Reducing DEF w
  <2>7. Within(q, w.own) BY <2>3 DEF Within, Places
  <2>8. w.fs.volume = PlaceLength(w.own) BY <2>2, <2>3
  <2>9. Leads(kind, possible, w, last, y) BY <1>2, <1>3, <2>3, <2>5, <2>7, <2>8, MakingSwapAnew
  <2>10. Ready(kind, y) /\ y.own = q BY <1>3, <2>3, <2>5, <2>8, NewContentReady
  <2> HIDE DEF y
  <2>11. Leads(kind, possible, x, (a \o b) \o last, y) BY <2>1, <2>6, <2>9, AfterBoth
  <2>12. resize_encryption(kind, p, q) = (a \o b) \o last
    BY <1>4, OneThenOne DEF resize_encryption
  <2>13. ~(PlaceLength(q) > PlaceLength(p)) BY <1>2, <1>4
  <2> HIDE DEF a, b, last
  <2> QED BY <2>10, <2>11, <2>12, <2>13
<1>5. CASE PlaceLength(q) > PlaceLength(p)
  <2> DEFINE a == <<Step("resize", p, q)>>
             b == <<maximize_encryption(q)>>
             v == Moved(x, q)
             w == VolumeMaximized(kind, v)
             y == Holding(w, NewContent(kind, w))
  <2>1. Leads(kind, possible, x, a, v) BY <1>1, <1>2, <1>5, Resizing
  <2>2. v.own = q /\ v.fs = x.fs BY Fields
  <2>3. Sound(kind, v) /\ AtHome(kind, v) /\ v.fs.state = "good" /\ v.own # NoPlace
    BY <1>2, <1>3, <1>5, <2>2, MovedInto DEF Ready
  <2> HIDE DEF v
  <2>4. Leads(kind, possible, v, b, w) BY <2>3, MaximizingVolume
  <2>5. Ready(kind, w) /\ w.own = q BY <2>2, <2>3, VolumeMaximizedReady
  <2> HIDE DEF w
  <2>6. Within(q, w.own) BY <2>5 DEF Within, Places
  <2>7. PlaceLength(w.own) \in Int /\ w.fs.volume = PlaceLength(w.own) BY <1>2, <1>3, <2>5 DEF Ready
  <2>8. Leads(kind, possible, w, last, y) BY <1>2, <1>3, <2>5, <2>6, <2>7, MakingSwapAnew DEF Ready
  <2>9. Ready(kind, y) /\ y.own = q /\ Full(y) BY <2>5, NewContentReady DEF Ready
  <2> HIDE DEF y
  <2>10. Leads(kind, possible, x, (a \o b) \o last, y) BY <2>1, <2>4, <2>8, AfterBoth
  <2>11. resize_encryption(kind, p, q) = (a \o b) \o last
    BY <1>2, <1>5, OneThenOne DEF resize_encryption
  <2> HIDE DEF a, b, last
  <2> QED BY <2>9, <2>10, <2>11
<1>6. CASE PlaceLength(q) = PlaceLength(p)
  <2>1. p = q BY <1>1, <1>6 DEF Places, PlaceLength
  <2>2. resize_encryption(kind, p, q) = <<>> BY <1>2, <1>6 DEF resize_encryption
  <2> QED BY <1>1, <1>2, <1>6, <2>1, <2>2, AfterNothing
<1> QED BY <1>2, <1>4, <1>5, <1>6

\* Whatever is in it, a partition is resized to the asked for place and what it
\* holds with it.
LEMMA Resize ==
    ASSUME NEW kind \in FsKinds, NEW possible, NEW x, NEW q \in Places,
           Ready(kind, x), q.start = x.own.start, possible => Clear(q),
           kind = "closed" => PlaceLength(q) >= PlaceLength(x.own)
    PROVE  \E y : /\ Leads(kind, possible, x, resize(kind, x.own, q), y)
                  /\ Ready(kind, y) /\ y.own = q
                  /\ kind # "closed" /\ (kind = "swap" \/ (CanGrow /\ PlaceLength(q) > PlaceLength(x.own))) => Full(y)
<1>1. CASE kind = "closed" BY <1>1, ResizeClosed DEF resize, Encrypted
<1>2. CASE kind = "open" BY <1>2, ResizeOpen DEF resize, Encrypted
<1>3. CASE kind = "open_swap" BY <1>3, ResizeOpenSwap DEF resize, Encrypted
<1>4. CASE ~Encrypted(kind)
  <2>1. ~Open(kind) BY <1>4 DEF Open, Encrypted
  <2> QED BY <1>4, <2>1, ResizePlain DEF resize, Encrypted
<1> QED BY <1>1, <1>2, <1>3, <1>4 DEF Encrypted

-----------------------------------------------------------------------------
(* Moving a partition and what is in it *)

LEMMA AllSpace ==
    ASSUME NEW p \in Places, NEW q \in Places
    PROVE  /\ partition_all_space(p, q) \in Places
           /\ Within(p, partition_all_space(p, q)) /\ Within(q, partition_all_space(p, q))
BY DEF partition_all_space, Place, Places, Within, Least, Most

LEMMA UpdatingBootsector ==
    ASSUME NEW kind, NEW possible, NEW x, Sound(kind, x), AtHome(kind, x), NEW p \in Places
    PROVE  Leads(kind, possible, x, update_bootsector(kind, p), x)
<1>1. CASE kind = "ntfs" BY <1>1, Idle DEF update_bootsector, IdleSteps
<1>2. CASE kind # "ntfs" BY <1>2, AfterNothing DEF update_bootsector
<1> QED BY <1>1, <1>2

LEMMA NotMovingSwap ==
    ASSUME NEW possible, NEW x, Sound("swap", x), NEW p \in Places, NEW q \in Places
    PROVE  Leads("swap", possible, x, <<move_filesystem(p, q)>>, x)
<1> DEFINE s == move_filesystem(p, q)
<1>1. s \in Steps BY DEF Steps, Step, move_filesystem
<1>2. Fine("swap", possible, s, x) BY DEF Fine, Step, FsSteps, TableSteps, move_filesystem
<1>3. After("swap", s, x) = x BY DEF After, Step, TableSteps, move_filesystem
<1> QED BY <1>1, <1>2, <1>3, AfterStep

\* The steps move() takes before it puts right what depends on the place
LEMMA MoveInto ==
    ASSUME NEW kind, NEW possible, NEW x, NEW q \in Places, Ready(kind, x), ~Open(kind),
           PlaceLength(q) = PlaceLength(x.own), possible => Clear(partition_all_space(x.own, q))
    PROVE  \E y : /\ Leads(kind, possible, x,
                        <<check_repair_filesystem(x.own), Step("widen", x.own, partition_all_space(x.own, q)),
                          move_filesystem(x.own, q), Step("narrow", partition_all_space(x.own, q), q)>>, y)
                  /\ Ready(kind, y) /\ y.own = q
<1> DEFINE p == x.own
           all == partition_all_space(p, q)
           a == <<check_repair_filesystem(p)>>
           b == <<Step("widen", p, all)>>
           c == <<move_filesystem(p, q)>>
           d == <<Step("narrow", all, q)>>
           v == Moved(x, all)
<1>1. Sound(kind, x) /\ AtHome(kind, x) /\ p \in Places /\ x.fs \in Contents BY OwnIsPlace DEF Ready
<1>2. all \in Places /\ Within(p, all) /\ Within(q, all) /\ q # NoPlace BY <1>1, AllSpace, OwnIsPlace
<1>3. v.own = all /\ v.fs = x.fs BY Fields
<1>4. Leads(kind, possible, x, a, x) BY <1>1, Idle DEF check_repair_filesystem, IdleSteps
<1>5. Leads(kind, possible, x, b, v) BY <1>1, <1>2, Widening
<1>6. Sound(kind, v)
  <2>1. v \in Situations BY <1>1, <1>2 DEF Moved, Situation, Situations
  <2> HIDE DEF v, all
  <2> QED BY <1>1, <1>2, <1>3, <2>1 DEF Sound, Contents, Places, Open, Within, Ready
<1>7. <<check_repair_filesystem(p), Step("widen", p, all), move_filesystem(p, q), Step("narrow", all, q)>>
      = a \o (b \o (c \o d))
  BY OneThenOne, OneThenTwo, OneThenThree
<1>8. CASE kind = "swap"
  <2> DEFINE y == Moved(v, q)
  <2>1. Leads(kind, possible, v, c, v) BY <1>1, <1>6, <1>8, NotMovingSwap
  <2>2. y.own = q /\ y.fs = x.fs BY <1>3, Fields
  <2>3. Sound(kind, y) BY <1>1, <1>3, <1>8 DEF Sound, Open, Situations, Moved, Situation
  <2> HIDE DEF v
  <2>4. Leads(kind, possible, v, d, y) BY <1>2, <1>3, <1>6, <2>3, Narrowing
  <2> HIDE DEF y
  <2>5. Ready(kind, y) BY <1>2, <1>8, <2>2, <2>3 DEF Ready, AtHome, Open
  <2>6. Leads(kind, possible, x, a \o (b \o (c \o d)), y) BY <1>4, <1>5, <2>1, <2>4, AfterBoth
  <2> HIDE DEF a, b, c, d
  <2> QED BY <1>7, <2>2, <2>5, <2>6
<1>9. CASE kind # "swap"
  <2> DEFINE w == Holding(v, [v.fs EXCEPT !.start = q.start])
             y == Moved(w, q)
  <2>1. x.fs.start = p.start BY <1>9 DEF Ready, AtHome
  <2>2. Moved(v, p) = x BY <1>1, <1>3 DEF Moved, Situation, Sound, Situations
  <2> HIDE DEF v
  <2>3. Leads(kind, possible, v, c, w) BY <1>1, <1>3, <1>6, <1>9, <2>1, <2>2, MovingContent
  <2>4. /\ w.own = all /\ w.fs.start = q.start /\ w.fs.length = x.fs.length /\ w.fs.volume = x.fs.volume
        /\ w.fs.state = "good" /\ w \in Situations
    BY <1>1, <1>2, <1>3 DEF Holding, Situation, Situations, Contents, Ready, Places
  <2> HIDE DEF w
  <2>5. y.own = q /\ y.fs = w.fs /\ y \in Situations BY <2>4 DEF Moved, Situation, Situations
  <2>6. x.fs.start + x.fs.length - 1 <= p.end BY <1>1, <1>9 DEF Sound, Ready, Open
  <2> HIDE DEF y
  <2>7. Sound(kind, w) /\ Sound(kind, y)
    BY <1>1, <1>2, <2>1, <2>4, <2>5, <2>6 DEF Sound, Places, Contents, PlaceLength, Open, Within
  <2>8. Leads(kind, possible, w, d, y) BY <1>2, <2>4, <2>7, Narrowing DEF y
  <2>9. Ready(kind, y) BY <1>2, <2>4, <2>5, <2>7 DEF Ready, AtHome
  <2>10. Leads(kind, possible, x, a \o (b \o (c \o d)), y) BY <1>4, <1>5, <2>3, <2>8, AfterBoth
  <2> HIDE DEF a, b, c, d
  <2> QED BY <1>7, <2>5, <2>9, <2>10
<1> QED BY <1>8, <1>9

SwapAnew(kind, q) == IF kind = "swap" THEN recreate_linux_swap_filesystem(q) ELSE <<>>

LEMMA LastSteps ==
    ASSUME NEW kind, NEW possible, NEW x, NEW q \in Places, Ready(kind, x), x.own = q
    PROVE  \E y : /\ Leads(kind, possible, x, SwapAnew(kind, q), y)
                  /\ Ready(kind, y) /\ y.own = q
                  /\ kind = "swap" => Full(y)
                  /\ kind # "swap" => y = x
<1>1. CASE kind = "swap"
  <2> DEFINE y == Holding(x, NewContent(kind, x))
  <2>1. Within(q, x.own) /\ ~Open(kind) BY <1>1 DEF Within, Places, Open
  <2>2. Leads(kind, possible, x, recreate_linux_swap_filesystem(q), y) BY <2>1, MakingSwapAnew DEF Ready
  <2>3. Ready(kind, y) /\ y.own = q /\ Full(y) BY NewContentReady DEF Ready
  <2> QED BY <1>1, <2>2, <2>3 DEF SwapAnew
<1>2. CASE kind # "swap" BY <1>2, AfterNothing DEF Ready, SwapAnew
<1> QED BY <1>1, <1>2

LEMMA Move ==
    ASSUME NEW kind, NEW possible, NEW x, NEW q \in Places, Ready(kind, x), ~Open(kind),
           PlaceLength(q) = PlaceLength(x.own), possible => Clear(partition_all_space(x.own, q))
    PROVE  \E y : /\ Leads(kind, possible, x, move(kind, x.own, q), y)
                  /\ Ready(kind, y) /\ y.own = q
                  /\ kind = "swap" => Full(y)
<1> DEFINE first == <<check_repair_filesystem(x.own), Step("widen", x.own, partition_all_space(x.own, q)),
                      move_filesystem(x.own, q), Step("narrow", partition_all_space(x.own, q), q)>>
           second == update_bootsector(kind, q)
           third == SwapAnew(kind, q)
<1>1. move(kind, x.own, q) = (first \o second) \o third BY DEF move, SwapAnew
<1> HIDE DEF first, second, third
<1>2. PICK v : Leads(kind, possible, x, first, v) /\ Ready(kind, v) /\ v.own = q BY MoveInto DEF first
<1>3. Leads(kind, possible, v, second, v) BY <1>2, UpdatingBootsector DEF Ready, second
<1>4. PICK y : Leads(kind, possible, v, third, y) /\ Ready(kind, y) /\ y.own = q /\ (kind = "swap" => Full(y))
  BY <1>2, LastSteps DEF third
<1>5. Leads(kind, possible, x, (first \o second) \o third, y) BY <1>2, <1>3, <1>4, AfterBoth
<1> QED BY <1>1, <1>4, <1>5

\* What is clear is clear in its parts.
LEMMA ClearWithin ==
    ASSUME NEW p \in Places, NEW q \in Places, Clear(q), Within(p, q)
    PROVE  Clear(p)
<1> SUFFICES ASSUME NEW n \in DOMAIN Neighbours PROVE ~Overlapping(Neighbours[n], p)
  BY DEF Clear
<1>1. Neighbours[n] \in Places BY ApplyAssumption DEF Places, IsPlace
<1>2. ~Overlapping(Neighbours[n], q) BY DEF Clear
<1> QED BY <1>1, <1>2 DEF Overlapping, Within, Places

\* The partition is where it was asked to be; what was to grow fills it.
ResizeEnds(kind, p, q, y) ==
    /\ Ready(kind, y) /\ y.own = q
    /\ kind # "closed" /\ (kind = "swap" \/ (CanGrow /\ PlaceLength(q) > PlaceLength(p))) => Full(y)

LEMMA ResizeMove ==
    ASSUME NEW kind \in FsKinds, NEW possible, NEW x, NEW q \in Places,
           Ready(kind, x), Clear(x.own), possible => Clear(partition_all_space(x.own, q)),
           kind = "closed" => PlaceLength(q) >= PlaceLength(x.own),
           Open(kind) => q.start = x.own.start
    PROVE  \E y : /\ Leads(kind, possible, x, resize_move(kind, x.own, q), y)
                  /\ ResizeEnds(kind, x.own, q, y)
<1> DEFINE p == x.own
<1>1. Sound(kind, x) /\ p \in Places BY OwnIsPlace DEF Ready
<1>2. PlaceLength(p) \in Int /\ PlaceLength(q) \in Int BY <1>1 DEF PlaceLength, Places
<1>3. kind # "extended" BY DEF FsKinds
<1>4. possible => Clear(q) BY <1>1, AllSpace, ClearWithin
<1>5. CASE q.start = p.start BY <1>3, <1>4, <1>5, Resize DEF resize_move, ResizeEnds
<1>6. CASE q.start # p.start /\ PlaceLength(q) = PlaceLength(p)
  <2>1. ~Open(kind) /\ resize_move(kind, p, q) = move(kind, p, q) BY <1>3, <1>6 DEF resize_move
  <2>2. ~(PlaceLength(q) > PlaceLength(p)) BY <1>2, <1>6
  <2> QED BY <1>6, <2>1, <2>2, Move DEF ResizeEnds
<1>7. CASE q.start # p.start /\ PlaceLength(q) > PlaceLength(p)
  <2> DEFINE temp == Place(q.start, q.start + PlaceLength(p) - 1)
             a == move(kind, p, temp)
             b == resize(kind, temp, q)
  <2>1. /\ temp \in Places /\ PlaceLength(temp) = PlaceLength(p) /\ temp.start = q.start
        /\ Within(partition_all_space(p, temp), partition_all_space(p, q))
    BY <1>1, <1>7 DEF Place, Places, PlaceLength, partition_all_space, Within, Least, Most
  <2>2. resize_move(kind, p, q) = a \o b BY <1>2, <1>3, <1>7 DEF resize_move
  <2> HIDE DEF temp
  <2>3. possible => Clear(partition_all_space(p, temp)) BY <1>1, <2>1, AllSpace, ClearWithin
  <2>4. ~Open(kind) BY <1>7
  <2>5. PICK v : Leads(kind, possible, x, a, v) /\ Ready(kind, v) /\ v.own = temp BY <2>1, <2>3, <2>4, Move
  <2>6. kind = "closed" => PlaceLength(q) >= PlaceLength(v.own) BY <2>1, <2>5
  <2>7. PICK y : /\ Leads(kind, possible, v, b, y) /\ Ready(kind, y) /\ y.own = q
                 /\ kind # "closed" /\ (kind = "swap" \/ (CanGrow /\ PlaceLength(q) > PlaceLength(v.own))) => Full(y)
    BY <1>4, <2>1, <2>5, <2>6, Resize
  <2> HIDE DEF a, b
  <2>8. Leads(kind, possible, x, a \o b, y) BY <2>5, <2>7, AfterBoth
  <2> QED BY <2>1, <2>2, <2>5, <2>7, <2>8 DEF ResizeEnds
<1>8. CASE q.start # p.start /\ PlaceLength(q) < PlaceLength(p)
  <2> DEFINE temp == Place(p.start, p.start + PlaceLength(q) - 1)
             a == resize(kind, p, temp)
             b == move(kind, temp, q)
  <2>1. /\ temp \in Places /\ PlaceLength(temp) = PlaceLength(q) /\ temp.start = p.start /\ Within(temp, p)
        /\ Within(partition_all_space(temp, q), partition_all_space(p, q))
    BY <1>1, <1>8 DEF Place, Places, PlaceLength, partition_all_space, Within, Least, Most
  <2>2. resize_move(kind, p, q) = a \o b BY <1>2, <1>3, <1>8 DEF resize_move
  <2> HIDE DEF temp
  <2>3. possible => Clear(partition_all_space(temp, q)) BY <1>1, <2>1, AllSpace, ClearWithin
  <2>4. ~Open(kind) /\ kind # "closed" /\ (possible => Clear(temp)) BY <1>1, <1>2, <1>8, <2>1, ClearWithin
  <2>9. \E v : Leads(kind, possible, x, resize(kind, p, temp), v) /\ Ready(kind, v) /\ v.own = temp
    BY <2>1, <2>4, Resize
  <2>5. PICK v : Leads(kind, possible, x, a, v) /\ Ready(kind, v) /\ v.own = temp BY <2>9
  <2>6. PICK y : /\ Leads(kind, possible, v, b, y) /\ Ready(kind, y) /\ y.own = q /\ (kind = "swap" => Full(y))
    BY <2>1, <2>3, <2>4, <2>5, Move
  <2> HIDE DEF a, b
  <2>7. Leads(kind, possible, x, a \o b, y) BY <2>5, <2>6, AfterBoth
  <2>8. ~(PlaceLength(q) > PlaceLength(p)) BY <1>2, <1>8
  <2> QED BY <2>2, <2>6, <2>7, <2>8 DEF ResizeEnds
<1> QED BY <1>2, <1>5, <1>6, <1>7, <1>8

-----------------------------------------------------------------------------
(* Making and copying a file system *)

\* What an operation finds and leaves: a good file system begins where its
\* partition does.
Tidy(kind, x) ==
    /\ Sound(kind, x)
    /\ x.fs.state = "good" =>
        /\ x.own # NoPlace /\ kind # "extended" /\ x.fs.start = x.own.start
        /\ kind = "swap" => x.fs.length <= PlaceLength(x.own)
        /\ Open(kind) => x.fs.volume = PlaceLength(x.own)

LEMMA TidyIs ==
    ASSUME NEW kind, NEW x, Tidy(kind, x)
    PROVE  /\ Sound(kind, x) /\ AtHome(kind, x)
           /\ x.fs.state = "good" => Ready(kind, x)
BY DEF Tidy, AtHome, Ready

LEMMA ReadyTidy ==
    ASSUME NEW kind, NEW x, Ready(kind, x), kind = "swap" => Full(x), kind # "extended"
    PROVE  Tidy(kind, x)
<1>1. x.own \in Places BY OwnIsPlace DEF Ready
<1>2. PlaceLength(x.own) \in Int BY <1>1 DEF PlaceLength, Places
<1>3. kind = "swap" => x.fs.length <= PlaceLength(x.own) BY <1>2 DEF Full
<1> QED BY <1>3 DEF Tidy, AtHome, Ready, Full

LEMMA MaximizedTidy ==
    ASSUME NEW kind, NEW x, Ready(kind, x), x.fs.start = x.own.start, kind # "extended",
           kind = "swap" => x.fs.length <= PlaceLength(x.own)
    PROVE  /\ Tidy(kind, Maximized(kind, x)) /\ Maximized(kind, x).own = x.own
           /\ Maximized(kind, x).fs.state = "good"
           /\ CanGrow => Full(Maximized(kind, x))
<1> DEFINE y == Maximized(kind, x)
<1>1. Ready(kind, y) /\ y.own = x.own BY MaximizedReady
<1>2. x.fs \in Contents BY OwnIsPlace DEF Ready
<1>3. y.fs.start = x.fs.start BY <1>2 DEF Maximized, Holding, Situation, Contents
<1>4. CanGrow => Full(y)
  <2> SUFFICES ASSUME CanGrow PROVE y.fs.length = PlaceLength(y.own) BY <1>1, <1>3 DEF Full
  <2>1. y.fs.length = Space(kind, x) BY <1>2 DEF Maximized, Holding, Situation, Contents
  <2> QED BY <1>1, <2>1 DEF Space, Ready
<1> HIDE DEF y
<1>6. kind = "swap" => y.fs.length <= PlaceLength(y.own)
  <2>1. CASE CanGrow
    <3>1. PlaceLength(y.own) \in Int BY <1>1, OwnIsPlace DEF Ready, PlaceLength, Places
    <3> QED BY <1>4, <2>1, <3>1 DEF Full
  <2>2. CASE ~CanGrow BY <2>2 DEF Maximized, y
  <2> QED BY <2>1, <2>2
<1>5. Tidy(kind, y) BY <1>1, <1>3, <1>6 DEF Tidy, Ready
<1> QED BY <1>1, <1>4, <1>5 DEF y, Ready

CheckEnds(kind, x, y) ==
    /\ Tidy(kind, y) /\ y.own = x.own /\ y.fs.state = "good"
    /\ CanGrow /\ kind # "closed" => Full(y)

LEMMA CheckRepairMaximize ==
    ASSUME NEW kind \in FsKinds, NEW possible, NEW x, NEW p \in Places, Ready(kind, x), x.fs.start = x.own.start,
           kind = "swap" => x.fs.length <= PlaceLength(x.own)
    PROVE  \E y : Leads(kind, possible, x, check_repair_maximize(kind, p), y) /\ CheckEnds(kind, x, y)
<1> DEFINE a == <<maximize_encryption(p)>>
           b == <<maximize_filesystem(p)>>
           v == VolumeMaximized(kind, x)
<1>1. kind # "extended" BY DEF FsKinds
<1>2. CASE ~Encrypted(kind)
  <2>1. Leads(kind, possible, x, b, Maximized(kind, x)) BY Maximizing DEF Ready
  <2>2. check_repair_maximize(kind, p) = b BY <1>2 DEF check_repair_maximize
  <2> HIDE DEF b
  <2> QED BY <1>1, <2>1, <2>2, MaximizedTidy DEF CheckEnds
<1>3. Leads(kind, possible, x, a, v) BY MaximizingVolume DEF Ready
<1>4. Ready(kind, v) /\ v.own = x.own BY VolumeMaximizedReady DEF Ready
<1>5. CASE kind = "closed"
  <2>1. a \o <<>> = a
    <3>1. a \in Seq(Steps) BY <1>3 DEF Leads
    <3> HIDE DEF a
    <3> QED BY <3>1, ConcatEmptySeq
  <2>2. check_repair_maximize(kind, p) = a BY <1>5, <2>1 DEF check_repair_maximize, Encrypted
  <2>3. v = x BY <1>5 DEF VolumeMaximized, Open
  <2>4. Tidy(kind, x) /\ x.fs.state = "good" BY <1>1, <1>5 DEF Tidy, Ready
  <2> HIDE DEF a, v
  <2> QED BY <1>3, <1>5, <2>2, <2>3, <2>4 DEF CheckEnds
<1>6. CASE kind \in {"open", "open_swap"}
  <2>1. x.fs \in Contents BY OwnIsPlace DEF Ready
  <2>2. v.fs.start = v.own.start BY <1>4, <2>1 DEF VolumeMaximized, Holding, Situation, Contents
  <2> HIDE DEF v
  <2>3. Leads(kind, possible, v, b, Maximized(kind, v)) BY <1>4, Maximizing DEF Ready
  <2>4. Leads(kind, possible, x, a \o b, Maximized(kind, v)) BY <1>3, <2>3, AfterBoth
  <2>5. check_repair_maximize(kind, p) = a \o b BY <1>6 DEF check_repair_maximize, Encrypted
  <2> HIDE DEF a, b
  <2>6. kind # "swap" BY <1>6
  <2> QED BY <1>1, <1>4, <2>2, <2>4, <2>5, <2>6, MaximizedTidy DEF CheckEnds
<1> QED BY <1>2, <1>5, <1>6 DEF Encrypted

\* What was in the partition is gone.
LEMMA Erased ==
    ASSUME NEW kind, NEW x, Sound(kind, x)
    PROVE  LET y == Holding(x, [x.fs EXCEPT !.state = "none"])
           IN  Tidy(kind, y) /\ AtHome(kind, y) /\ y.own = x.own /\ y.fs.state = "none"
<1> DEFINE y == Holding(x, [x.fs EXCEPT !.state = "none"])
<1>1. x.fs \in Contents /\ x \in Situations BY OwnIsPlace DEF Sound
<1>2. y.own = x.own /\ y.fs.state = "none" /\ y \in Situations
  BY <1>1 DEF Holding, Situation, Situations, Contents
<1> HIDE DEF y
<1>3. Tidy(kind, y) /\ AtHome(kind, y) BY <1>2 DEF Tidy, Sound, AtHome
<1> QED BY <1>2, <1>3 DEF y

LEMMA MadeTidy ==
    ASSUME NEW kind, NEW x, Sound(kind, x), x.own # NoPlace, ~Open(kind), kind # "extended"
    PROVE  LET y == Holding(x, NewContent(kind, x))
           IN  Tidy(kind, y) /\ y.own = x.own /\ y.fs.state = "good" /\ Full(y)
<1> DEFINE y == Holding(x, NewContent(kind, x))
<1>1. Ready(kind, y) /\ y.own = x.own /\ Full(y) BY NewContentReady
<1> HIDE DEF y
<1>2. Tidy(kind, y) BY <1>1, ReadyTidy
<1> QED BY <1>1, <1>2 DEF y, Ready

LEMMA EraseAndType ==
    ASSUME NEW kind, NEW possible, NEW x, NEW p \in Places, Sound(kind, x), AtHome(kind, x), x.own = p
    PROVE  \E y : /\ Leads(kind, possible, x, <<erase_filesystem_signatures(p), set_partition_type(p)>>, y)
                  /\ Tidy(kind, y) /\ AtHome(kind, y) /\ y.own = p /\ y.fs.state = "none"
<1> DEFINE a == <<erase_filesystem_signatures(p)>>
           b == <<set_partition_type(p)>>
           y == Holding(x, [x.fs EXCEPT !.state = "none"])
<1>1. Within(p, x.own) /\ x.own # NoPlace BY OwnIsPlace DEF Within, Places
<1>2. Leads(kind, possible, x, a, y) BY <1>1, Erasing
<1>3. Tidy(kind, y) /\ AtHome(kind, y) /\ y.own = x.own /\ y.fs.state = "none" BY Erased
<1> HIDE DEF y
<1>4. Leads(kind, possible, y, b, y) BY <1>3, Idle DEF Tidy, IdleSteps, set_partition_type
<1>5. Leads(kind, possible, x, a \o b, y) BY <1>2, <1>4, AfterBoth
<1>6. a \o b = <<erase_filesystem_signatures(p), set_partition_type(p)>> BY OneThenOne
<1> HIDE DEF a, b
<1> QED BY <1>3, <1>5, <1>6

LEMMA Format ==
    ASSUME NEW kind, NEW possible, NEW x, NEW p \in Places, Sound(kind, x), AtHome(kind, x), x.own = p,
           ~Open(kind), kind # "extended"
    PROVE  \E y : /\ Leads(kind, possible, x, format(kind, p), y)
                  /\ Tidy(kind, y) /\ y.own = p
                  /\ kind # "cleared" => y.fs.state = "good" /\ Full(y)
<1> DEFINE a == <<erase_filesystem_signatures(p), set_partition_type(p)>>
           b == <<create_filesystem(p)>>
<1>1. PICK v : /\ Leads(kind, possible, x, a, v)
               /\ Tidy(kind, v) /\ AtHome(kind, v) /\ v.own = p /\ v.fs.state = "none"
  BY EraseAndType
<1>2. CASE kind = "cleared"
  <2>1. a \o <<>> = a
    <3>1. a \in Seq(Steps) BY <1>1 DEF Leads
    <3> HIDE DEF a
    <3> QED BY <3>1, ConcatEmptySeq
  <2>2. format(kind, p) = a BY <1>2, <2>1 DEF format
  <2> HIDE DEF a
  <2> QED BY <1>1, <1>2, <2>2
<1>3. CASE kind # "cleared"
  <2> DEFINE y == Holding(v, NewContent(kind, v))
  <2>1. Within(p, v.own) /\ v.own # NoPlace BY <1>1, OwnIsPlace DEF Within, Places
  <2>2. Leads(kind, possible, v, b, y) BY <1>1, <2>1, Making DEF create_filesystem, Tidy
  <2>3. Tidy(kind, y) /\ y.own = p /\ y.fs.state = "good" /\ Full(y) BY <1>1, <2>1, MadeTidy DEF Tidy
  <2> HIDE DEF y
  <2>4. Leads(kind, possible, x, a \o b, y) BY <1>1, <2>2, AfterBoth
  <2>5. format(kind, p) = a \o b BY <1>3 DEF format
  <2> HIDE DEF a, b
  <2> QED BY <2>3, <2>4, <2>5
<1> QED BY <1>2, <1>3

LEMMA Create ==
    ASSUME NEW kind, NEW possible, NEW x, NEW p \in Places, Sound(kind, x), x.own = NoPlace, x.fs.state = "none",
           possible => Clear(p), ~Open(kind)
    PROVE  \E y : /\ Leads(kind, possible, x, create(kind, p), y)
                  /\ Tidy(kind, y) /\ y.own = p
                  /\ kind \notin {"extended", "unformatted", "cleared"} => y.fs.state = "good" /\ Full(y)
<1> DEFINE a == <<create_partition(p)>>
           b == IF Named THEN <<name_partition(p)>> ELSE <<>>
           c == CASE kind = "extended"    -> <<set_partition_type(p)>>
                  [] kind = "unformatted" -> <<>>
                  [] kind = "cleared"     -> <<erase_filesystem_signatures(p)>>
                  [] OTHER -> <<erase_filesystem_signatures(p), set_partition_type(p), create_filesystem(p)>>
           v == Moved(x, p)
<1>1. create(kind, p) = (a \o b) \o c BY DEF create
<1>2. Leads(kind, possible, x, a, v) BY Creating
<1>3. v.own = p /\ v.fs = x.fs /\ p # NoPlace /\ x.fs \in Contents BY Fields, OwnIsPlace
<1>4. v \in Situations BY <1>3 DEF Moved, Situation, Situations
<1> HIDE DEF v
<1>5. Tidy(kind, v) /\ Sound(kind, v) /\ AtHome(kind, v) BY <1>3, <1>4 DEF Tidy, Sound, AtHome
<1>6. Leads(kind, possible, v, b, v)
  <2>1. CASE Named BY <1>5, <2>1, Idle DEF name_partition, IdleSteps
  <2>2. CASE ~Named BY <1>5, <2>2, AfterNothing
  <2> QED BY <2>1, <2>2
<1>7. \E y : /\ Leads(kind, possible, v, c, y) /\ Tidy(kind, y) /\ y.own = p
             /\ kind \notin {"extended", "unformatted", "cleared"} => y.fs.state = "good" /\ Full(y)
  <2>1. CASE kind = "extended"
    <3>1. c = <<set_partition_type(p)>> BY <2>1
    <3>2. Leads(kind, possible, v, <<set_partition_type(p)>>, v) BY <1>5, Idle DEF set_partition_type, IdleSteps
    <3> HIDE DEF c
    <3> QED BY <1>3, <1>5, <2>1, <3>1, <3>2
  <2>2. CASE kind = "unformatted"
    <3>1. c = <<>> BY <2>2
    <3>2. Leads(kind, possible, v, <<>>, v) BY <1>5, AfterNothing
    <3> HIDE DEF c
    <3> QED BY <1>3, <1>5, <2>2, <3>1, <3>2
  <2>3. CASE kind = "cleared"
    <3> DEFINE y == Holding(v, [v.fs EXCEPT !.state = "none"])
    <3>1. c = <<erase_filesystem_signatures(p)>> BY <2>3
    <3>2. Within(p, v.own) /\ v.own # NoPlace BY <1>3 DEF Within, Places
    <3>3. Leads(kind, possible, v, <<erase_filesystem_signatures(p)>>, y) BY <1>5, <3>2, Erasing
    <3>4. Tidy(kind, y) /\ y.own = v.own BY <1>5, Erased
    <3> HIDE DEF c, y
    <3> QED BY <1>3, <2>3, <3>1, <3>3, <3>4
  <2>4. CASE kind \notin {"extended", "unformatted", "cleared"}
    <3> DEFINE e == <<erase_filesystem_signatures(p)>>
               t == <<set_partition_type(p)>>
               m == <<create_filesystem(p)>>
               d == <<erase_filesystem_signatures(p), set_partition_type(p)>>
    <3>1. c = <<erase_filesystem_signatures(p), set_partition_type(p), create_filesystem(p)>> BY <2>4
    <3>2. c = e \o (t \o m) BY <3>1, OneThenOne, OneThenTwo
    <3> DEFINE w == Holding(v, [v.fs EXCEPT !.state = "none"])
               y == Holding(w, NewContent(kind, w))
    <3>3. Within(p, v.own) /\ v.own # NoPlace BY <1>3 DEF Within, Places
    <3>4. Leads(kind, possible, v, e, w) BY <1>5, <3>3, Erasing
    <3>5. Tidy(kind, w) /\ AtHome(kind, w) /\ w.own = v.own BY <1>5, Erased
    <3> HIDE DEF c, w
    <3>6. Leads(kind, possible, w, t, w) BY <3>5, Idle DEF Tidy, IdleSteps, set_partition_type
    <3>7. Leads(kind, possible, w, m, y) BY <3>3, <3>5, Making DEF create_filesystem, Tidy
    <3>8. Tidy(kind, y) /\ y.own = w.own /\ y.fs.state = "good" /\ Full(y) BY <2>4, <3>3, <3>5, MadeTidy DEF Tidy
    <3> HIDE DEF y
    <3>9. Leads(kind, possible, v, e \o (t \o m), y) BY <3>4, <3>6, <3>7, AfterBoth
    <3> HIDE DEF e, t, m
    <3> QED BY <1>3, <3>2, <3>5, <3>8, <3>9
  <2> QED BY <2>1, <2>2, <2>3, <2>4
<1> HIDE DEF a, b, c
<1>8. PICK y : /\ Leads(kind, possible, v, c, y) /\ Tidy(kind, y) /\ y.own = p
               /\ kind \notin {"extended", "unformatted", "cleared"} => y.fs.state = "good" /\ Full(y)
  BY <1>7
<1>9. Leads(kind, possible, x, (a \o b) \o c, y) BY <1>2, <1>6, <1>8, AfterBoth
<1> QED BY <1>1, <1>8, <1>9

LEMMA CopyReady ==
    ASSUME NEW kind, NEW x, NEW p \in Places, Sound(kind, x), x.own \in Places, ~Open(kind),
           PlaceLength(p) <= PlaceLength(x.own)
    PROVE  LET y == Holding(x, CopyOf(p, x.own, x))
           IN  /\ Ready(kind, y) /\ y.own = x.own /\ y.fs.start = x.own.start /\ y.fs.length = PlaceLength(p)
<1> DEFINE y == Holding(x, CopyOf(p, x.own, x))
<1>1. x.fs \in Contents /\ x.own # NoPlace BY OwnIsPlace
<1>2. /\ y.own = x.own /\ y.fs.state = "good" /\ y.fs.start = x.own.start /\ y.fs.length = PlaceLength(p)
      /\ y \in Situations
  BY <1>1 DEF Holding, Situation, Situations, Contents, CopyOf, Content, PlaceLength, Places
<1> HIDE DEF y
<1>3. Sound(kind, y) BY <1>1, <1>2 DEF Sound, Places, Contents, PlaceLength, Open
<1>4. Ready(kind, y) BY <1>1, <1>2, <1>3 DEF Ready, AtHome
<1> QED BY <1>2, <1>4 DEF y

\* The steps copy() takes after the copy
LastOfCopy(kind, source, p) ==
    IF kind = "swap" THEN recreate_linux_swap_filesystem(p)
    ELSE <<check_repair_filesystem(p)>>
         \o (IF PlaceLength(p) > PlaceLength(source) THEN <<maximize_filesystem(p)>> ELSE <<>>)

LEMMA FinishCopy ==
    ASSUME NEW kind, NEW possible, NEW x, NEW source \in Places, NEW p \in Places, Ready(kind, x), ~Open(kind),
           kind # "extended", x.own = p, x.fs.start = p.start, x.fs.length = PlaceLength(source),
           PlaceLength(p) >= PlaceLength(source)
    PROVE  \E y : /\ Leads(kind, possible, x, LastOfCopy(kind, source, p), y)
                  /\ Tidy(kind, y) /\ y.own = p /\ y.fs.state = "good"
                  /\ CanGrow \/ kind = "swap" => Full(y)
<1>1. PlaceLength(p) \in Int /\ PlaceLength(source) \in Int BY DEF PlaceLength, Places
<1>2. CASE kind = "swap"
  <2> DEFINE y == Holding(x, NewContent(kind, x))
  <2>1. Within(p, x.own) /\ x.own # NoPlace BY DEF Within, Places, Ready
  <2>2. Leads(kind, possible, x, recreate_linux_swap_filesystem(p), y) BY <2>1, MakingSwapAnew DEF Ready
  <2>3. Tidy(kind, y) /\ y.own = x.own /\ y.fs.state = "good" /\ Full(y) BY <2>1, MadeTidy DEF Ready
  <2>4. LastOfCopy(kind, source, p) = recreate_linux_swap_filesystem(p) BY <1>2 DEF LastOfCopy
  <2> HIDE DEF y
  <2> QED BY <2>2, <2>3, <2>4
<1> DEFINE a == <<check_repair_filesystem(p)>>
<1>3. Leads(kind, possible, x, a, x) BY Idle DEF check_repair_filesystem, IdleSteps, Ready
<1>4. CASE kind # "swap" /\ PlaceLength(p) > PlaceLength(source)
  <2> DEFINE b == <<maximize_filesystem(p)>>
  <2>1. Leads(kind, possible, x, b, Maximized(kind, x)) BY Maximizing DEF Ready
  <2>2. Leads(kind, possible, x, a \o b, Maximized(kind, x)) BY <1>3, <2>1, AfterBoth
  <2>3. LastOfCopy(kind, source, p) = a \o b BY <1>4 DEF LastOfCopy
  <2> HIDE DEF a, b
  <2>4. /\ Tidy(kind, Maximized(kind, x)) /\ Maximized(kind, x).own = x.own
        /\ Maximized(kind, x).fs.state = "good" /\ (CanGrow => Full(Maximized(kind, x)))
    BY MaximizedTidy
  <2> QED BY <1>4, <2>2, <2>3, <2>4
<1>5. CASE kind # "swap" /\ PlaceLength(p) = PlaceLength(source)
  <2>1. a \o <<>> = a
    <3>1. a \in Seq(Steps) BY <1>3 DEF Leads
    <3> HIDE DEF a
    <3> QED BY <3>1, ConcatEmptySeq
  <2>2. ~(PlaceLength(p) > PlaceLength(source)) BY <1>1, <1>5
  <2>3. LastOfCopy(kind, source, p) = a BY <1>5, <2>1, <2>2 DEF LastOfCopy
  <2>4. Tidy(kind, x) BY <1>5, ReadyTidy
  <2>5. Full(x) /\ x.fs.state = "good" BY <1>5 DEF Full, Ready
  <2> HIDE DEF a
  <2> QED BY <1>3, <2>3, <2>4, <2>5
<1> QED BY <1>1, <1>2, <1>4, <1>5

CopySteps(kind, source, p) ==
    (<<erase_filesystem_signatures(p), set_partition_type(p), copy_filesystem(source, p)>>
     \o update_bootsector(kind, p)) \o LastOfCopy(kind, source, p)

LEMMA CopyInto ==
    ASSUME NEW kind, NEW possible, NEW x, NEW source \in Places, NEW p \in Places, Sound(kind, x), AtHome(kind, x),
           x.own = p, ~Open(kind), kind # "extended", PlaceLength(p) >= PlaceLength(source)
    PROVE  \E y : /\ Leads(kind, possible, x, CopySteps(kind, source, p), y)
                  /\ Tidy(kind, y) /\ y.own = p /\ y.fs.state = "good"
                  /\ CanGrow \/ kind = "swap" => Full(y)
<1> DEFINE e == <<erase_filesystem_signatures(p)>>
           t == <<set_partition_type(p)>>
           c == <<copy_filesystem(source, p)>>
           first == <<erase_filesystem_signatures(p), set_partition_type(p), copy_filesystem(source, p)>>
           second == update_bootsector(kind, p)
           third == LastOfCopy(kind, source, p)
           v == Holding(x, [x.fs EXCEPT !.state = "none"])
           w == Holding(v, CopyOf(source, p, v))
<1>1. first = e \o (t \o c) BY OneThenOne, OneThenTwo
<1>2. Within(p, x.own) /\ x.own # NoPlace BY OwnIsPlace DEF Within, Places
<1>3. Leads(kind, possible, x, e, v) BY <1>2, Erasing
<1>4. Tidy(kind, v) /\ AtHome(kind, v) /\ v.own = p BY Erased
<1> HIDE DEF v
<1>5. Leads(kind, possible, v, t, v) BY <1>4, Idle DEF Tidy, IdleSteps, set_partition_type
<1>6. PlaceLength(source) <= PlaceLength(p) BY DEF PlaceLength, Places
<1>7. Leads(kind, possible, v, c, w) BY <1>4, <1>6, Copying DEF Tidy
<1>8. Ready(kind, w) /\ w.own = p /\ w.fs.start = p.start /\ w.fs.length = PlaceLength(source)
  BY <1>4, <1>6, CopyReady DEF Tidy
<1> HIDE DEF w
<1>9. Leads(kind, possible, x, e \o (t \o c), w) BY <1>3, <1>5, <1>7, AfterBoth
<1> HIDE DEF e, t, c, first
<1>10. Leads(kind, possible, w, second, w) BY <1>8, UpdatingBootsector DEF Ready
<1>11. PICK y : /\ Leads(kind, possible, w, third, y)
                /\ Tidy(kind, y) /\ y.own = p /\ y.fs.state = "good"
                /\ CanGrow \/ kind = "swap" => Full(y)
  BY <1>8, FinishCopy
<1> HIDE DEF second, third
<1>12. Leads(kind, possible, x, (first \o second) \o third, y) BY <1>1, <1>9, <1>10, <1>11, AfterBoth
<1>13. CopySteps(kind, source, p) = (first \o second) \o third BY DEF CopySteps, first, second, third
<1> QED BY <1>11, <1>12, <1>13

Bugged(ss) == \E i \in DOMAIN ss : ss[i].do = "bug"

\* The source is in the partition, or the code refuses to copy it.
CopyEnds(kind, source, p, ss, y) ==
    \/ ss = <<Step("bug", source, p)>> /\ AtHome(kind, y)
    \/ /\ Tidy(kind, y) /\ y.own = p /\ y.fs.state = "good"
       /\ CanGrow \/ kind = "swap" => Full(y)

LEMMA Copy ==
    ASSUME NEW kind, NEW possible, NEW x, NEW source \in Places, NEW p \in Places, NEW fresh \in BOOLEAN,
           Sound(kind, x), AtHome(kind, x), ~Open(kind), kind # "extended",
           fresh => x.own = NoPlace /\ x.fs.state = "none" /\ (possible => Clear(p)),
           ~fresh => x.own = p,
           possible => PlaceLength(p) >= PlaceLength(source)
    PROVE  \E y : /\ Leads(kind, possible, x, copy(kind, source, p, fresh), y)
                  /\ CopyEnds(kind, source, p, copy(kind, source, p, fresh), y)
<1>1. PlaceLength(p) \in Int /\ PlaceLength(source) \in Int BY DEF PlaceLength, Places
<1>2. CASE PlaceLength(p) < PlaceLength(source)
  <2>1. ~possible BY <1>1, <1>2
  <2>2. copy(kind, source, p, fresh) = <<Step("bug", source, p)>> BY <1>2 DEF copy
  <2>3. Leads(kind, possible, x, <<Step("bug", source, p)>>, x) BY <2>1, Refusing
  <2> QED BY <2>2, <2>3 DEF CopyEnds
<1>3. CASE ~(PlaceLength(p) < PlaceLength(source))
  <2> DEFINE a == IF fresh THEN <<create_partition(p)>> ELSE <<>>
             first == <<erase_filesystem_signatures(p), set_partition_type(p), copy_filesystem(source, p)>>
             second == update_bootsector(kind, p)
             third == LastOfCopy(kind, source, p)
             all == CopySteps(kind, source, p)
  <2>1. copy(kind, source, p, fresh) = ((a \o first) \o second) \o third BY <1>3 DEF copy, LastOfCopy
  <2>2. \E v : Leads(kind, possible, x, a, v) /\ Sound(kind, v) /\ AtHome(kind, v) /\ v.own = p
    <3>1. CASE fresh
      <4> DEFINE v == Moved(x, p)
      <4>1. Leads(kind, possible, x, a, v) BY <3>1, Creating
      <4>2. v.own = p /\ v.fs = x.fs /\ p # NoPlace /\ x.fs \in Contents BY Fields, OwnIsPlace
      <4>3. v \in Situations BY <4>2 DEF Moved, Situation, Situations
      <4> HIDE DEF v, a
      <4>4. Sound(kind, v) /\ AtHome(kind, v) BY <3>1, <4>2, <4>3 DEF Sound, AtHome
      <4> QED BY <4>1, <4>2, <4>4
    <3>2. CASE ~fresh BY <3>2, AfterNothing
    <3> QED BY <3>1, <3>2
  <2>3. PICK v : Leads(kind, possible, x, a, v) /\ Sound(kind, v) /\ AtHome(kind, v) /\ v.own = p BY <2>2
  <2>4. PlaceLength(p) >= PlaceLength(source) BY <1>1, <1>3
  <2>5. PICK y : /\ Leads(kind, possible, v, all, y)
                 /\ Tidy(kind, y) /\ y.own = p /\ y.fs.state = "good"
                 /\ CanGrow \/ kind = "swap" => Full(y)
    <3> HIDE DEF a
    <3>1. Sound(kind, v) /\ AtHome(kind, v) /\ v.own = p BY <2>3
    <3> QED BY <2>4, <3>1, CopyInto
  <2>6. first \in Seq(Steps)
    <3>1. erase_filesystem_signatures(p) \in Steps /\ set_partition_type(p) \in Steps
          /\ copy_filesystem(source, p) \in Steps
      BY DEF erase_filesystem_signatures, set_partition_type, copy_filesystem, Steps, Step, IdleSteps, FsSteps
    <3> QED BY <3>1
  <2>7. second \in Seq(Steps) BY <2>3, UpdatingBootsector DEF Leads
  <2>8. third \in Seq(Steps)
    <3>1. /\ <<erase_filesystem_signatures(p), Step("recreate", p, p)>> \in Seq(Steps)
          /\ <<check_repair_filesystem(p)>> \in Seq(Steps) /\ <<maximize_filesystem(p)>> \in Seq(Steps)
      <4>1. erase_filesystem_signatures(p) \in Steps /\ Step("recreate", p, p) \in Steps
            /\ check_repair_filesystem(p) \in Steps /\ maximize_filesystem(p) \in Steps
        BY DEF erase_filesystem_signatures, check_repair_filesystem, maximize_filesystem, Steps, Step, IdleSteps, FsSteps
      <4> QED BY <4>1
    <3>2. <<>> \in Seq(Steps) BY EmptySeq
    <3>3. (IF PlaceLength(p) > PlaceLength(source) THEN <<maximize_filesystem(p)>> ELSE <<>>) \in Seq(Steps)
      BY <3>1, <3>2
    <3>4. kind # "swap" => third \in Seq(Steps) BY <3>1, <3>3, ConcatProperties DEF LastOfCopy
    <3>5. kind = "swap" => third \in Seq(Steps) BY <3>1 DEF LastOfCopy, recreate_linux_swap_filesystem
    <3> QED BY <3>4, <3>5
  <2>9. a \in Seq(Steps) BY <2>3 DEF Leads
  <2>12. all = (first \o second) \o third BY DEF CopySteps
  <2> HIDE DEF a, first, second, third
  <2>10. ((a \o first) \o second) \o third = a \o ((first \o second) \o third)
    <3>1. (a \o first) \o second = a \o (first \o second) BY <2>6, <2>7, <2>9, ConcatAssociative
    <3> DEFINE mid == first \o second
    <3>2. mid \in Seq(Steps) BY <2>6, <2>7, ConcatProperties
    <3> HIDE DEF mid
    <3>3. (a \o mid) \o third = a \o (mid \o third) BY <2>8, <2>9, <3>2, ConcatAssociative
    <3> QED BY <3>1, <3>3 DEF mid
  <2>11. Leads(kind, possible, x, a \o all, y) BY <2>3, <2>5, AfterBoth
  <2> QED BY <2>1, <2>5, <2>10, <2>11, <2>12 DEF CopyEnds
<1> QED BY <1>2, <1>3

-----------------------------------------------------------------------------
(* Every operation *)

\* The disk with the partition operated on in some place
Disk(own) == [n \in DOMAIN Neighbours \cup {"own"} |-> IF n = "own" THEN own ELSE Neighbours[n]]

TableHolds ==
    /\ table = Disk(table["own"])
    /\ table["own"] # NoPlace => table["own"] \in Places /\ Clear(table["own"])

LEMMA OwnFound ==
    ASSUME TableHolds, NEW kind, NEW p \in Places,
           table["own"] # NoPlace, kind = "extended" \/ Holds(table["own"], Middle(p))
    PROVE  get_lp_partition(kind, p) = "own" /\ Calibrated(kind, p) = table["own"]
<1>1. CASE kind = "extended" BY <1>1 DEF get_lp_partition, Calibrated
<1>2. CASE kind # "extended"
  <2> DEFINE at == {n \in PartitionsNow : Holds(table[n], Middle(p))}
  <2>1. "own" \in at BY <1>2 DEF PartitionsNow, TableHolds, Disk
  <2>2. \A n \in at : n = "own"
    <3> SUFFICES ASSUME NEW n \in DOMAIN Neighbours, n # "own", n \in at PROVE FALSE
      BY DEF PartitionsNow, TableHolds, Disk
    <3>1. table[n] = Neighbours[n] BY DEF TableHolds, Disk
    <3>2. ~Overlapping(Neighbours[n], table["own"]) BY DEF TableHolds, Clear
    <3>3. Neighbours[n] \in Places /\ table["own"] \in Places /\ Middle(p) \in Int
      BY ApplyAssumption, MiddleInside DEF Places, IsPlace, TableHolds
    <3>4. Holds(Neighbours[n], Middle(p)) /\ Holds(table["own"], Middle(p)) BY <1>2, <3>1
    <3> QED BY <3>2, <3>3, <3>4 DEF Overlapping, Holds, Places
  <2>3. get_lp_partition(kind, p) = IF at = {} THEN "none" ELSE CHOOSE n \in at : TRUE
    BY <1>2 DEF get_lp_partition
  <2> HIDE DEF at
  <2>4. get_lp_partition(kind, p) = "own" BY <2>1, <2>2, <2>3
  <2> QED BY <2>4 DEF Calibrated
<1> QED BY <1>1, <1>2

\* The source of a copy is the neighbour whose sector is in the middle.
Sources(p) == {n \in DOMAIN Neighbours : Holds(Neighbours[n], Middle(p))}
Source(p) == Neighbours[CHOOSE n \in Sources(p) : TRUE]

LEMMA SourceFound ==
    ASSUME TableHolds, NEW kind, NEW p \in Places, kind # "extended", Sources(p) # {}
    PROVE  /\ get_lp_partition(kind, p) \in DOMAIN Neighbours
           /\ Calibrated(kind, p) = Source(p) /\ Source(p) \in Places
<1> DEFINE at == {n \in PartitionsNow : Holds(table[n], Middle(p))}
<1>1. \A n \in DOMAIN Neighbours : Neighbours[n] \in Places /\ Neighbours[n] # NoPlace /\ n # "own" /\ n # "none"
  BY ApplyAssumption DEF Places, IsPlace
<1>2. \A n \in DOMAIN Neighbours : table[n] = Neighbours[n] /\ n \in DOMAIN table
  BY <1>1 DEF TableHolds, Disk
<1>3. DOMAIN table = DOMAIN Neighbours \cup {"own"} BY DEF TableHolds, Disk
<1>4. "own" \notin at
  <2> SUFFICES ASSUME "own" \in at PROVE FALSE OBVIOUS
  <2>1. PICK n \in DOMAIN Neighbours : Holds(Neighbours[n], Middle(p)) BY DEF Sources
  <2>2. ~Overlapping(Neighbours[n], table["own"]) /\ table["own"] \in Places BY DEF TableHolds, Clear, PartitionsNow
  <2>3. Middle(p) \in Int /\ Neighbours[n] \in Places BY <1>1, MiddleInside
  <2> QED BY <2>1, <2>2, <2>3 DEF Overlapping, Holds, Places
<1>5. at = Sources(p) BY <1>1, <1>2, <1>3, <1>4 DEF Sources, PartitionsNow
<1>6. get_lp_partition(kind, p) = IF at = {} THEN "none" ELSE CHOOSE n \in at : TRUE BY DEF get_lp_partition
<1> HIDE DEF at
<1>7. get_lp_partition(kind, p) = CHOOSE n \in Sources(p) : TRUE BY <1>5, <1>6
<1>8. get_lp_partition(kind, p) \in Sources(p) BY <1>7
<1>9. get_lp_partition(kind, p) \in DOMAIN Neighbours BY <1>8 DEF Sources
<1> QED BY <1>1, <1>2, <1>7, <1>9 DEF Calibrated, Source

LEMMA OwnCalibrated ==
    ASSUME TableHolds, NEW kind, NEW p \in Places, table["own"] = p
    PROVE  Calibrated(kind, p) = p
<1>1. table["own"] # NoPlace BY OwnIsPlace, ApplyAssumption DEF Places, IsPlace
<1>2. Holds(table["own"], Middle(p)) BY MiddleInside DEF Holds
<1> QED BY <1>1, <1>2, OwnFound

\* Where an operation finds its partition, and where it leaves it
PlaceBefore(op) == IF New(op) THEN NoPlace ELSE IF op.type = "COPY_OVER" THEN op.new ELSE op.old
PlaceAfter(op) == IF op.type = "DELETE" THEN NoPlace ELSE op.new

Start(op, x) ==
    /\ Tidy(op.kind, x) /\ x.own = PlaceBefore(op)
    /\ op.type \in {"RESIZE_MOVE", "CHECK", "LABEL", "NAME", "UUID"} /\ op.kind \in FsKinds => x.fs.state = "good"

Done(op, y) ==
    /\ Tidy(op.kind, y) /\ y.own = PlaceAfter(op)
    /\ op.type # "DELETE" /\ op.kind \in FsKinds => y.fs.state = "good"
    /\ Fills(op) => y.fs.state = "good" /\ Full(y)

\* Possible(op), told without the table: the source of a copy is a neighbour.
CanBeDone(op) ==
    /\ op.type \in {"CREATE", "COPY_NEW", "RESIZE_MOVE"} => Clear(op.new)
    /\ op.type \in {"COPY_NEW", "COPY_OVER"} => PlaceLength(op.new) >= PlaceLength(Source(op.old))

LEMMA PossibleIs ==
    ASSUME TableHolds, NEW op, Queueable(op)
    PROVE  Possible(op) <=> CanBeDone(op)
<1>1. CASE op.type \in {"COPY_NEW", "COPY_OVER"}
  <2>1. op.old \in Places /\ op.kind # "extended" /\ Sources(op.old) # {}
    BY <1>1 DEF Queueable, FsKinds, IsPlace, Places, Sources
  <2>2. Calibrated(op.kind, op.old) = Source(op.old) BY <2>1, SourceFound
  <2> QED BY <1>1, <2>2 DEF Possible, CanBeDone, Clear
<1>2. CASE op.type \notin {"COPY_NEW", "COPY_OVER"} BY <1>2 DEF Possible, CanBeDone, Clear
<1> QED BY <1>1, <1>2

LEMMA DoneAtHome ==
    ASSUME NEW op, NEW y, Done(op, y)
    PROVE  AtHome(op.kind, y)
BY TidyIs DEF Done

\* The steps of an operation lead to where it is done, or to a refusal.
LeadsThrough(op, x, ss) ==
    \E y : /\ Leads(op.kind, CanBeDone(op), x, ss, y)
           /\ AtHome(op.kind, y)
           /\ Done(op, y) \/ Bugged(ss)

LEMMA CalibratingOwn ==
    ASSUME NEW kind, NEW possible, NEW x, Tidy(kind, x), NEW p \in Places, x.own = p
    PROVE  Leads(kind, possible, x, <<calibrate_partition(p)>>, x)
<1>1. x.own # NoPlace BY OwnIsPlace DEF Tidy
<1>2. Finds(kind, p, x) BY <1>1, MiddleInside DEF Finds, Holds
<1> QED BY <1>2, TidyIs, Calibrating

\* The operations which leave the partition where it is and its file system as
\* large as it is
LEMMA LabelLeads ==
    ASSUME TableHolds, NEW op, Queueable(op), NEW x, Start(op, x), x.own = table["own"],
           op.type \in {"LABEL", "NAME", "UUID"}
    PROVE  LeadsThrough(op, x, apply_operation_to_disk(op))
<1> DEFINE kind == op.kind
           p == op.new
           s == IF op.type = "LABEL" THEN label_filesystem(p)
                ELSE IF op.type = "NAME" THEN name_partition(p) ELSE change_filesystem_uuid(p)
           a == <<calibrate_partition(p)>>
           b == <<s>>
<1>1. op.old = op.new /\ p \in Places BY DEF Queueable, IsPlace, Places
<1>2. x.own = p BY <1>1 DEF Start, PlaceBefore, New
<1>3. Calibrated(kind, p) = p BY <1>1, <1>2, OwnCalibrated
<1>4. Tidy(kind, x) BY DEF Start
<1>5. Leads(kind, CanBeDone(op), x, a, x) BY <1>1, <1>2, <1>4, CalibratingOwn
<1>6. s \in {Step("label", p, p), Step("name", p, p), Step("uuid", p, p)}
  BY DEF label_filesystem, name_partition, change_filesystem_uuid
<1> HIDE DEF s
<1>7. Leads(kind, CanBeDone(op), x, b, x) BY <1>1, <1>4, <1>6, TidyIs, Idle DEF IdleSteps
<1>8. Leads(kind, CanBeDone(op), x, a \o b, x) BY <1>5, <1>7, AfterBoth
<1>9. apply_operation_to_disk(op) = <<calibrate_partition(p), s>>
  BY <1>3 DEF apply_operation_to_disk, s
<1>10. a \o b = <<calibrate_partition(p), s>> BY OneThenOne
<1>11. Done(op, x)
  <2>1. x.own = PlaceAfter(op) BY <1>2 DEF PlaceAfter
  <2>2. ~Fills(op) BY DEF Fills
  <2> QED BY <1>4, <2>1, <2>2 DEF Done, Start
<1> HIDE DEF a, b
<1> QED BY <1>8, <1>9, <1>10, <1>11, DoneAtHome DEF LeadsThrough

LEMMA DeleteLeads ==
    ASSUME TableHolds, NEW op, Queueable(op), NEW x, Start(op, x), x.own = table["own"], op.type = "DELETE"
    PROVE  LeadsThrough(op, x, apply_operation_to_disk(op))
<1> DEFINE kind == op.kind
           p == op.old
           a == <<calibrate_partition(p)>>
           b == <<remove_filesystem(p)>>
           c == <<delete_partition(p)>>
           y == Situation(NoPlace, [x.fs EXCEPT !.state = "none"])
<1>1. p \in Places BY DEF Queueable, IsPlace, Places
<1>2. x.own = p BY <1>1 DEF Start, PlaceBefore, New
<1>3. Calibrated(kind, p) = p BY <1>1, <1>2, OwnCalibrated
<1>4. Tidy(kind, x) BY DEF Start
<1>5. Leads(kind, CanBeDone(op), x, a, x) BY <1>1, <1>2, <1>4, CalibratingOwn
<1>6. Leads(kind, CanBeDone(op), x, b, x) BY <1>1, <1>4, TidyIs, Idle DEF IdleSteps, remove_filesystem
<1>7. Leads(kind, CanBeDone(op), x, c, y) BY <1>1, <1>2, <1>4, TidyIs, Deleting
<1>8. Leads(kind, CanBeDone(op), x, a \o (b \o c), y) BY <1>5, <1>6, <1>7, AfterBoth
<1>9. apply_operation_to_disk(op) = <<calibrate_partition(p), remove_filesystem(p), delete_partition(p)>>
  BY <1>3 DEF apply_operation_to_disk
<1>10. a \o (b \o c) = <<calibrate_partition(p), remove_filesystem(p), delete_partition(p)>>
  BY OneThenOne, OneThenTwo
<1>11. Done(op, y)
  <2>1. x.fs \in Contents BY <1>4, OwnIsPlace DEF Tidy
  <2>2. y.own = NoPlace /\ y.fs.state = "none" /\ y \in Situations
    BY <2>1 DEF Situation, Situations, Contents
  <2> HIDE DEF y
  <2>3. Tidy(kind, y) BY <2>2 DEF Tidy, Sound
  <2>4. ~Fills(op) BY DEF Fills
  <2> QED BY <2>2, <2>3, <2>4 DEF Done, PlaceAfter
<1> HIDE DEF a, b, c, y
<1> QED BY <1>8, <1>9, <1>10, <1>11, DoneAtHome DEF LeadsThrough

LEMMA CheckLeads ==
    ASSUME TableHolds, NEW op, Queueable(op), NEW x, Start(op, x), x.own = table["own"], op.type = "CHECK"
    PROVE  LeadsThrough(op, x, apply_operation_to_disk(op))
<1> DEFINE kind == op.kind
           p == op.old
           a == <<calibrate_partition(p)>>
           b == <<check_repair_filesystem(p)>>
           c == check_repair_maximize(kind, p)
<1>1. p \in Places /\ op.old = op.new /\ kind \in FsKinds BY DEF Queueable, IsPlace, Places
<1>2. x.own = p BY <1>1 DEF Start, PlaceBefore, New
<1>3. Calibrated(kind, p) = p BY <1>1, <1>2, OwnCalibrated
<1>4. Tidy(kind, x) /\ x.fs.state = "good" BY <1>1 DEF Start
<1>5. Leads(kind, CanBeDone(op), x, a, x) BY <1>1, <1>2, <1>4, CalibratingOwn
<1>6. Leads(kind, CanBeDone(op), x, b, x) BY <1>1, <1>4, TidyIs, Idle DEF IdleSteps, check_repair_filesystem
<1>7. Ready(kind, x) /\ x.fs.start = x.own.start /\ (kind = "swap" => x.fs.length <= PlaceLength(x.own))
  BY <1>4, TidyIs DEF Tidy
<1>8. PICK y : Leads(kind, CanBeDone(op), x, c, y) /\ CheckEnds(kind, x, y)
  BY <1>1, <1>7, CheckRepairMaximize
<1> HIDE DEF c
<1>9. Leads(kind, CanBeDone(op), x, (a \o b) \o c, y) BY <1>5, <1>6, <1>8, AfterBoth
<1>10. apply_operation_to_disk(op) = <<calibrate_partition(p), check_repair_filesystem(p)>> \o c
  BY <1>3 DEF apply_operation_to_disk, c
<1>11. a \o b = <<calibrate_partition(p), check_repair_filesystem(p)>> BY OneThenOne
<1>12. Done(op, y)
  <2>1. y.own = PlaceAfter(op) BY <1>1, <1>2, <1>8 DEF PlaceAfter, CheckEnds
  <2>2. Fills(op) => CanGrow /\ kind # "closed" BY DEF Fills
  <2> QED BY <1>8, <2>1, <2>2 DEF Done, CheckEnds
<1> HIDE DEF a, b
<1> QED BY <1>9, <1>10, <1>11, <1>12, DoneAtHome DEF LeadsThrough

LEMMA FormatLeads ==
    ASSUME TableHolds, NEW op, Queueable(op), NEW x, Start(op, x), x.own = table["own"], op.type = "FORMAT"
    PROVE  LeadsThrough(op, x, apply_operation_to_disk(op))
<1> DEFINE kind == op.kind
           p == op.new
           a == <<calibrate_partition(p)>>
           b == <<remove_filesystem(p)>>
           c == format(kind, p)
<1>1. p \in Places /\ op.old = op.new /\ ~Open(kind) /\ kind # "extended" BY DEF Queueable, IsPlace, Places, Open
<1>2. x.own = p BY <1>1 DEF Start, PlaceBefore, New
<1>3. Calibrated(kind, p) = p BY <1>1, <1>2, OwnCalibrated
<1>4. Tidy(kind, x) BY DEF Start
<1>5. Leads(kind, CanBeDone(op), x, a, x) BY <1>1, <1>2, <1>4, CalibratingOwn
<1>6. Leads(kind, CanBeDone(op), x, b, x) BY <1>1, <1>4, TidyIs, Idle DEF IdleSteps, remove_filesystem
<1>7. PICK y : /\ Leads(kind, CanBeDone(op), x, c, y)
               /\ Tidy(kind, y) /\ y.own = p
               /\ kind # "cleared" => y.fs.state = "good" /\ Full(y)
  BY <1>1, <1>2, <1>4, TidyIs, Format
<1> HIDE DEF c
<1>8. Leads(kind, CanBeDone(op), x, (a \o b) \o c, y) BY <1>5, <1>6, <1>7, AfterBoth
<1>9. apply_operation_to_disk(op) = <<calibrate_partition(p), remove_filesystem(p)>> \o c
  BY <1>1, <1>3 DEF apply_operation_to_disk, c
<1>10. a \o b = <<calibrate_partition(p), remove_filesystem(p)>> BY OneThenOne
<1>11. Done(op, y)
  <2>1. y.own = PlaceAfter(op) BY <1>7 DEF PlaceAfter
  <2>2. Fills(op) => kind # "cleared" BY DEF Fills
  <2>3. kind \in FsKinds => kind # "cleared" BY DEF FsKinds
  <2> QED BY <1>7, <2>1, <2>2, <2>3 DEF Done
<1> HIDE DEF a, b
<1> QED BY <1>8, <1>9, <1>10, <1>11, DoneAtHome DEF LeadsThrough

LEMMA NothingYet ==
    ASSUME NEW op, NEW x, Start(op, x), New(op)
    PROVE  Sound(op.kind, x) /\ AtHome(op.kind, x) /\ x.own = NoPlace /\ x.fs.state = "none"
<1>1. Tidy(op.kind, x) /\ x.own = NoPlace BY DEF Start, PlaceBefore
<1>2. x.fs \in Contents BY <1>1, OwnIsPlace DEF Tidy
<1> QED BY <1>1, <1>2, TidyIs DEF Tidy, Contents

LEMMA CreateLeads ==
    ASSUME TableHolds, NEW op, Queueable(op), NEW x, Start(op, x), x.own = table["own"], op.type = "CREATE"
    PROVE  LeadsThrough(op, x, apply_operation_to_disk(op))
<1> DEFINE kind == op.kind
           p == op.new
<1>1. p \in Places /\ ~Open(kind) BY DEF Queueable, IsPlace, Places, Open
<1>2. CanBeDone(op) => Clear(p) BY DEF CanBeDone, Clear
<1>3. Sound(kind, x) /\ x.own = NoPlace /\ x.fs.state = "none" BY NothingYet DEF New
<1>4. PICK y : /\ Leads(kind, CanBeDone(op), x, create(kind, p), y)
               /\ Tidy(kind, y) /\ y.own = p
               /\ kind \notin {"extended", "unformatted", "cleared"} => y.fs.state = "good" /\ Full(y)
  BY <1>1, <1>2, <1>3, Create
<1>5. apply_operation_to_disk(op) = create(kind, p) BY DEF apply_operation_to_disk
<1>6. Done(op, y)
  <2>1. y.own = PlaceAfter(op) BY <1>4 DEF PlaceAfter
  <2>2. Fills(op) => kind \notin {"extended", "unformatted", "cleared"} BY DEF Fills
  <2>3. kind \in FsKinds => kind \notin {"extended", "unformatted", "cleared"} BY DEF FsKinds
  <2> QED BY <1>4, <2>1, <2>2, <2>3 DEF Done
<1> QED BY <1>4, <1>5, <1>6, DoneAtHome DEF LeadsThrough

LEMMA ResizeLeads ==
    ASSUME TableHolds, NEW op, Queueable(op), NEW x, Start(op, x), x.own = table["own"], op.type = "RESIZE_MOVE"
    PROVE  LeadsThrough(op, x, apply_operation_to_disk(op))
<1> DEFINE kind == op.kind
           p == op.old
           q == op.new
           a == <<calibrate_partition(p)>>
           b == resize_move(kind, p, q)
<1>1. /\ p \in Places /\ q \in Places /\ kind \in FsKinds \cup {"extended"}
      /\ kind = "closed" => PlaceLength(q) >= PlaceLength(p)
      /\ Open(kind) => q.start = p.start
      /\ \A n \in DOMAIN Neighbours :
            Overlapping(Neighbours[n], partition_all_space(p, q)) => Overlapping(Neighbours[n], q)
  BY DEF Queueable, IsPlace, Places, Open
<1>2. x.own = p BY <1>1 DEF Start, PlaceBefore, New
<1>3. Calibrated(kind, p) = p BY <1>1, <1>2, OwnCalibrated
<1>4. Tidy(kind, x) BY DEF Start
<1>5. Leads(kind, CanBeDone(op), x, a, x) BY <1>1, <1>2, <1>4, CalibratingOwn
<1>6. CanBeDone(op) => Clear(q) /\ Clear(partition_all_space(p, q)) BY <1>1 DEF CanBeDone, Clear
<1>7. apply_operation_to_disk(op) = a \o b BY <1>3 DEF apply_operation_to_disk
<1>8. x.own # NoPlace /\ Clear(p) BY <1>1, <1>2, OwnIsPlace DEF TableHolds, Tidy, Start
<1>9. CASE kind = "extended"
  <2> DEFINE y == Moved(x, q)
  <2>1. x.fs.state = "none" /\ x.fs \in Contents BY <1>4, <1>9, OwnIsPlace DEF Tidy, Contents
  <2>2. y.own = q /\ y.fs = x.fs BY Fields
  <2>3. y \in Situations BY <1>1, <2>1 DEF Moved, Situation, Situations
  <2> HIDE DEF y
  <2>4. Tidy(kind, y) /\ AtHome(kind, y) BY <2>1, <2>2, <2>3 DEF Tidy, Sound, AtHome
  <2>5. b = <<Step("reduce", p, q)>> BY <1>9 DEF resize_move
  <2>6. Leads(kind, CanBeDone(op), x, b, y)
    BY <1>1, <1>2, <1>4, <1>6, <2>4, <2>5, TidyIs, Reducing DEF y, Tidy
  <2> HIDE DEF a, b
  <2>7. Leads(kind, CanBeDone(op), x, a \o b, y) BY <1>5, <2>6, AfterBoth
  <2>8. Done(op, y)
    <3>1. ~Fills(op) /\ kind \notin FsKinds BY <1>9 DEF Fills, FsKinds
    <3> QED BY <2>2, <2>4, <3>1 DEF Done, PlaceAfter
  <2> QED BY <1>7, <2>7, <2>8, DoneAtHome DEF LeadsThrough
<1>10. CASE kind \in FsKinds
  <2>1. Ready(kind, x) BY <1>4, <1>10, TidyIs DEF Start
  <2> HIDE DEF a, b
  <2>2. /\ Clear(x.own) /\ (CanBeDone(op) => Clear(partition_all_space(x.own, q)))
        /\ kind = "closed" => PlaceLength(q) >= PlaceLength(x.own)
        /\ Open(kind) => q.start = x.own.start
    BY <1>1, <1>2, <1>6, <1>8
  <2>3. PICK y : Leads(kind, CanBeDone(op), x, resize_move(kind, x.own, q), y) /\ ResizeEnds(kind, x.own, q, y)
    BY <1>1, <1>10, <2>1, <2>2, ResizeMove
  <2>6. resize_move(kind, x.own, q) = b BY <1>2 DEF b
  <2>4. Leads(kind, CanBeDone(op), x, a \o b, y) BY <1>5, <2>3, <2>6, AfterBoth
  <2>5. Done(op, y)
    <3>1. Tidy(kind, y)
      <4>1. kind # "extended" BY <1>10 DEF FsKinds
      <4>2. kind = "swap" => Full(y) BY <2>3 DEF ResizeEnds
      <4> QED BY <2>3, <4>1, <4>2, ReadyTidy DEF ResizeEnds
    <3>2. Fills(op) => kind # "closed" /\ (kind = "swap" \/ (CanGrow /\ PlaceLength(q) > PlaceLength(x.own)))
      BY <1>2 DEF Fills
    <3> QED BY <2>3, <3>1, <3>2 DEF Done, PlaceAfter, Ready, ResizeEnds
  <2> QED BY <1>7, <2>4, <2>5, DoneAtHome DEF LeadsThrough
<1> QED BY <1>1, <1>9, <1>10

LEMMA BuggedLast ==
    ASSUME NEW ss \in Seq(Steps), NEW p \in Places, NEW q \in Places
    PROVE  Bugged(ss \o <<Step("bug", p, q)>>)
<1> DEFINE s == Step("bug", p, q)
           one == <<s>>
           both == ss \o one
<1>1. s \in Steps /\ s.do = "bug" BY DEF Step, Steps
<1> HIDE DEF s
<1>2. one \in Seq(Steps) /\ Len(one) = 1 /\ one[1] = s BY <1>1
<1> HIDE DEF one
<1>3. Len(ss) \in Nat BY LenProperties
<1>7. /\ both \in Seq(Steps) /\ Len(both) = Len(ss) + Len(one)
      /\ \A i \in 1 .. Len(ss) + Len(one) : both[i] = IF i <= Len(ss) THEN ss[i] ELSE one[i - Len(ss)]
  <2>1. one \in Seq(Steps) BY <1>2
  <2> QED BY <2>1, ConcatProperties
<1> HIDE DEF both
<1>4. both \in Seq(Steps) /\ Len(both) = Len(ss) + 1 /\ both[Len(ss) + 1] = s BY <1>2, <1>3, <1>7
<1>5. Len(ss) + 1 \in DOMAIN both BY <1>3, <1>4, LenProperties
<1>6. Bugged(both) BY <1>1, <1>4, <1>5 DEF Bugged
<1> QED BY <1>6 DEF both, one, s

\* Both kinds of copies: first come steps which find the partitions.
LEMMA CopyLeads ==
    ASSUME TableHolds, NEW op, Queueable(op), NEW x, Start(op, x), x.own = table["own"],
           op.type \in {"COPY_NEW", "COPY_OVER"}
    PROVE  LeadsThrough(op, x, apply_operation_to_disk(op))
<1> DEFINE kind == op.kind
           p == op.old
           q == op.new
           fresh == op.type = "COPY_NEW"
           source == Source(p)
           a == <<calibrate_partition(p)>>
           b == <<calibrate_partition(q)>>
           c == <<remove_filesystem(q)>>
           first == IF fresh THEN a ELSE <<calibrate_partition(p), calibrate_partition(q), remove_filesystem(q)>>
           rest == copy(kind, source, q, fresh)
<1>1. /\ p \in Places /\ q \in Places /\ kind \in FsKinds /\ ~Open(kind)
      /\ \E n \in DOMAIN Neighbours : Holds(Neighbours[n], Middle(p))
  BY DEF Queueable, IsPlace, Places, Open
<1>2. kind # "extended" BY <1>1 DEF FsKinds
<1>3. Calibrated(kind, p) = source /\ source \in Places BY <1>1, <1>2, SourceFound DEF Sources
<1>4. Tidy(kind, x) /\ Sound(kind, x) /\ AtHome(kind, x) BY TidyIs DEF Start
<1>5. fresh => x.own = NoPlace /\ x.fs.state = "none" BY NothingYet DEF New
<1>6. ~fresh => x.own = q /\ Calibrated(kind, q) = q BY <1>1, OwnCalibrated DEF Start, PlaceBefore, New
<1>7. CanBeDone(op) => (fresh => Clear(q)) /\ PlaceLength(q) >= PlaceLength(source) BY DEF CanBeDone, Clear
<1> HIDE DEF source
<1>8. Leads(kind, CanBeDone(op), x, a, x) BY <1>1, <1>4, Calibrating
<1>9. Leads(kind, CanBeDone(op), x, first, x)
  <2>1. CASE fresh BY <1>8, <2>1
  <2>2. CASE ~fresh
    <3>1. Leads(kind, CanBeDone(op), x, b, x) BY <1>1, <1>4, <1>6, <2>2, CalibratingOwn
    <3>2. Leads(kind, CanBeDone(op), x, c, x) BY <1>1, <1>4, Idle DEF IdleSteps, remove_filesystem
    <3>3. Leads(kind, CanBeDone(op), x, a \o (b \o c), x) BY <1>8, <3>1, <3>2, AfterBoth
    <3>4. first = a \o (b \o c) BY <2>2, OneThenOne, OneThenTwo
    <3> QED BY <3>3, <3>4
  <2> QED BY <2>1, <2>2
<1>10. apply_operation_to_disk(op) = first \o rest BY <1>3, <1>6 DEF apply_operation_to_disk
<1>16. /\ fresh => x.own = NoPlace /\ x.fs.state = "none" /\ (CanBeDone(op) => Clear(q))
       /\ ~fresh => x.own = q
       /\ CanBeDone(op) => PlaceLength(q) >= PlaceLength(source)
  BY <1>5, <1>6, <1>7
<1> HIDE DEF a, b, c, first
<1>11. \E y : Leads(kind, CanBeDone(op), x, rest, y) /\ CopyEnds(kind, source, q, rest, y)
  <2>1. CASE fresh
    <3>1. x.own = NoPlace /\ x.fs.state = "none" /\ (CanBeDone(op) => Clear(q)) BY <1>16, <2>1
    <3>2. \E y : /\ Leads(kind, CanBeDone(op), x, copy(kind, source, q, TRUE), y)
                 /\ CopyEnds(kind, source, q, copy(kind, source, q, TRUE), y)
      BY <1>1, <1>2, <1>3, <1>4, <1>16, <3>1, Copy
    <3>3. rest = copy(kind, source, q, TRUE) BY <2>1
    <3> QED BY <3>2, <3>3
  <2>2. CASE ~fresh
    <3>1. x.own = q BY <1>16, <2>2
    <3>2. \E y : /\ Leads(kind, CanBeDone(op), x, copy(kind, source, q, FALSE), y)
                 /\ CopyEnds(kind, source, q, copy(kind, source, q, FALSE), y)
      BY <1>1, <1>2, <1>3, <1>4, <1>16, <3>1, Copy
    <3>3. rest = copy(kind, source, q, FALSE) BY <2>2
    <3> QED BY <3>2, <3>3
  <2> QED BY <2>1, <2>2
<1> HIDE DEF rest
<1>17. PICK y : Leads(kind, CanBeDone(op), x, rest, y) /\ CopyEnds(kind, source, q, rest, y) BY <1>11
<1>12. Leads(kind, CanBeDone(op), x, first \o rest, y) BY <1>9, <1>17, AfterBoth
<1>13. CASE rest = <<Step("bug", source, q)>> /\ AtHome(kind, y)
  <2>1. first \in Seq(Steps) BY <1>9 DEF Leads
  <2>2. Bugged(first \o rest) BY <1>1, <1>3, <1>13, <2>1, BuggedLast
  <2> QED BY <1>10, <1>12, <1>13, <2>2 DEF LeadsThrough
<1>14. CASE /\ Tidy(kind, y) /\ y.own = q /\ y.fs.state = "good"
            /\ CanGrow \/ kind = "swap" => Full(y)
  <2>1. Fills(op) => CanGrow \/ kind = "swap" BY DEF Fills
  <2>2. Done(op, y) BY <1>14, <2>1 DEF Done, PlaceAfter
  <2> QED BY <1>10, <1>12, <2>2, DoneAtHome DEF LeadsThrough
<1> QED BY <1>13, <1>14, <1>17 DEF CopyEnds

LEMMA OperationLeads ==
    ASSUME TableHolds, NEW op, Queueable(op), NEW x, Start(op, x), x.own = table["own"]
    PROVE  LeadsThrough(op, x, apply_operation_to_disk(op))
<1>1. op.type \in {"DELETE", "CHECK", "CREATE", "RESIZE_MOVE", "FORMAT", "COPY_NEW", "COPY_OVER", "LABEL", "NAME", "UUID"}
  BY DEF Queueable
<1> QED BY <1>1, LabelLeads, DeleteLeads, CheckLeads, FormatLeads, CreateLeads, ResizeLeads, CopyLeads

\* The next operation on the same partition starts where the last has been done.
LEMMA DoneThenStart ==
    ASSUME NEW op, NEW before, Queueable(op), Follows(op, before), NEW x, Done(before, x)
    PROVE  Start(op, x)
<1>1. ~New(op) /\ before.type # "DELETE"
      /\ before.new = IF op.type = "COPY_OVER" THEN op.new ELSE op.old
  BY DEF Follows
<1>2. CASE op.kind = before.kind BY <1>1, <1>2 DEF Done, Start, PlaceBefore, PlaceAfter
<1>3. CASE op.type \in {"FORMAT", "COPY_OVER"} /\ before.kind \notin {"extended", "open", "open_swap"}
  <2>1. ~Open(op.kind) /\ op.kind # "extended" BY <1>3 DEF Queueable, FsKinds, Open
  <2>2. Tidy(before.kind, x) BY DEF Done
  <2>3. x.fs \in Contents /\ (x.own # NoPlace => x.own \in Places) BY <2>2, OwnIsPlace DEF Tidy
  <2>4. ASSUME x.fs.state = "good"
        PROVE  /\ x.own \in Places /\ x.fs.start = x.own.start /\ x.fs.length <= PlaceLength(x.own)
               /\ x.fs.start + x.fs.length - 1 <= x.own.end
    BY <1>3, <2>2, <2>3, <2>4 DEF Tidy, Sound, Open, Places, Contents, PlaceLength
  <2>5. Tidy(op.kind, x) BY <2>1, <2>2, <2>3, <2>4, OwnIsPlace DEF Tidy, Sound, Open, Places, Contents
  <2>6. x.own = PlaceBefore(op) BY <1>1 DEF Done, PlaceBefore, PlaceAfter
  <2> QED BY <1>3, <2>5, <2>6 DEF Start
<1> QED BY <1>2, <1>3 DEF Follows

-----------------------------------------------------------------------------
(* The inductive invariant *)

FsRecords == [state : {"good", "none", "damaged"}, start : Int, length : Int, volume : Int]

TypeOK ==
    /\ pc \in {"dialog", "op", "ended"} /\ cur \in Nat \ {0}
    /\ m_success \in BOOLEAN /\ m_cancel \in BOOLEAN /\ success \in BOOLEAN /\ forced \in BOOLEAN
    /\ cancelflag \in 0 .. 2 /\ faults \in Nat
    /\ fs \in FsRecords

QueueHolds ==
    /\ Len(queue) \in Nat /\ DOMAIN queue = 1 .. Len(queue)
    /\ \A i \in 1 .. Len(queue) : Queueable(queue[i])
    /\ \A i \in 2 .. Len(queue) : Follows(queue[i], queue[i - 1])

\* What a step heeds has been asked for.
CancelHolds == (cancelflag > 0 => m_cancel) /\ (cancelflag = 2 => forced)

\* Putting the partition where its file system is was what failed.
Excused == failed \cap {"narrow", "restore", "undo"} # {}

\* A file system c is what content says, or it is damaged or gone.
As(c, content) == c.volume = content.volume /\ (c.state = "good" => c = content)

\* The disk is as in x, except that a fault or a forced cancel may have damaged
\* the file system.
Spoiled == faults > 0 \/ forced
Like(x) ==
    /\ x \in Situations /\ table["own"] = x.own
    /\ As(fs, x.fs)
    /\ Spoiled \/ fs.state = x.fs.state

\* Within an operation: the steps to come lead from what is on the disk to y.
Going(op, x, y) ==
    /\ Like(x)
    /\ Leads(op.kind, CanBeDone(op), x, steps, y)
    /\ Excused \/ AtHome(op.kind, y)
    /\ success => Done(op, y) \/ Bugged(steps)

Blamed(op) == faults > 0 \/ m_cancel \/ ~CanBeDone(op)

InOperation ==
    /\ cur <= Len(queue)
    /\ \E x, y : Going(Op, x, y)
    /\ ~success => Blamed(Op)

\* Between two operations: the one before has left x.
Left(op, x) ==
    /\ Sound(op.kind, x)
    /\ Excused \/ AtHome(op.kind, x)
    /\ m_success => Done(op, x)

Between(x) ==
    /\ Like(x)
    /\ cur = 1 => Start(queue[1], x)
    /\ cur > 1 => Left(queue[cur - 1], x)

InDialog ==
    /\ steps = <<>> /\ cur <= Len(queue) + 1 /\ 1 <= Len(queue)
    /\ \E x : Between(x)

ApplyInv ==
    /\ TypeOK /\ QueueHolds /\ CancelHolds /\ TableHolds
    /\ pc = "op" => InOperation
    /\ pc # "op" => InDialog

-----------------------------------------------------------------------------
(* The partition table *)

LEMMA NeighboursPlaces ==
    \A n \in DOMAIN Neighbours : Neighbours[n] \in Places /\ Neighbours[n] # NoPlace /\ n # "own" /\ n # "none"
BY ApplyAssumption DEF Places, IsPlace

LEMMA RefusedIs ==
    ASSUME TableHolds, NEW p
    PROVE  Refused("own", p) <=> ~Clear(p)
<1>1. DOMAIN table = DOMAIN Neighbours \cup {"own"} BY DEF TableHolds, Disk
<1>2. \A n \in DOMAIN Neighbours : table[n] = Neighbours[n] BY NeighboursPlaces DEF TableHolds, Disk
<1>3. PartitionsNow \ {"own"} = DOMAIN Neighbours BY <1>1, <1>2, NeighboursPlaces DEF PartitionsNow
<1> QED BY <1>2, <1>3 DEF Refused, Clear

\* A partition which shrinks stays clear of its neighbours.
LEMMA WithinClear ==
    ASSUME NEW p \in Places, NEW q \in Places, Within(p, q), Clear(q)
    PROVE  Clear(p)
<1> SUFFICES ASSUME NEW n \in DOMAIN Neighbours, Overlapping(Neighbours[n], p) PROVE FALSE BY DEF Clear
<1>1. Neighbours[n] \in Places /\ ~Overlapping(Neighbours[n], q) BY NeighboursPlaces DEF Clear
<1> QED BY <1>1 DEF Overlapping, Within, Places

LEMMA TableChanges ==
    ASSUME TableHolds, NEW p, p = NoPlace \/ (p \in Places /\ Clear(p)), table' = [table EXCEPT !["own"] = p]
    PROVE  TableHolds' /\ table'["own"] = p
<1>1. table = Disk(table["own"]) BY DEF TableHolds
<1>2. table'["own"] = p BY <1>1 DEF Disk
<1>3. table' = Disk(p) BY <1>1 DEF Disk
<1>4. TableHolds' <=> /\ table' = Disk(table'["own"])
                      /\ table'["own"] # NoPlace => table'["own"] \in Places /\ Clear(table'["own"])
  BY DEF TableHolds, Disk
<1> QED BY <1>2, <1>3, <1>4

LEMMA TableStays ==
    ASSUME TableHolds, table' = table
    PROVE  TableHolds' /\ table'["own"] = table["own"]
BY DEF TableHolds, Disk

\* The partition a step is about is the one operated on.
LEMMA StepFinds ==
    ASSUME TableHolds, NEW x, Like(x), NEW kind, NEW possible, NEW s \in Steps, Fine(kind, possible, s, x),
           s.do \in TableSteps \cup {"delete_partition"}
    PROVE  get_lp_partition(kind, s.old) = "own" /\ x.own # NoPlace
<1>1. x.own # NoPlace /\ (kind = "extended" \/ Holds(x.own, Middle(s.old))) BY DEF Fine, Finds
<1>2. s.old \in Places BY DEF Steps
<1>3. table["own"] = x.own BY DEF Like
<1> QED BY <1>1, <1>2, <1>3, OwnFound
-----------------------------------------------------------------------------
(* What is done after a step has failed *)

\* The steps which put the partition where its file system is
BackSteps == {"narrow", "restore", "undo"}

\* Where a step which fails may leave the disk
FailsAt(kind, s, x, z) ==
    /\ z = x \/ z = After(kind, s, x)
    /\ s.do = "move" => z = x /\ kind # "swap"

\* The steps which put a resized or widened partition back find it, whether it
\* has been changed or not.
LEMMA UndoLeads ==
    ASSUME NEW kind, NEW possible, NEW x, NEW s \in Steps, Sound(kind, x), Fine(kind, possible, s, x),
           Sound(kind, After(kind, s, x)), s.do \in {"resize", "widen"}, Clear(x.own),
           NEW z, z = x \/ z = After(kind, s, x)
    PROVE  Leads(kind, possible, z, OnFailure(s), x) /\ AtHome(kind, x)
<1> DEFINE both == Place(Most(s.old.start, s.new.start), Least(s.old.end, s.new.end))
           undo == Step("undo", both, s.old)
<1>1. s.old = x.own /\ AtHome(kind, x) /\ s.old \in Places /\ s.new \in Places
  BY DEF Fine, Steps
<1>2. s.new.start = s.old.start \/ Within(s.old, s.new) BY DEF Fine
<1>3. both \in Places /\ Within(both, s.old) /\ Within(both, s.new)
  BY <1>1, <1>2 DEF Within, Places, Place, Most, Least
<1>4. z.own = s.old \/ z.own = s.new BY <1>1, Fields DEF After, TableSteps
<1>5. z.own # NoPlace /\ x.own # NoPlace BY <1>1, <1>4, OwnIsPlace
<1> HIDE DEF both
<1>6. Holds(z.own, Middle(both))
  <2>1. Middle(both) \in Int /\ both.start <= Middle(both) /\ Middle(both) <= both.end BY <1>3, MiddleInside
  <2>2. Holds(s.old, Middle(both)) /\ Holds(s.new, Middle(both))
    BY <1>1, <1>3, <2>1 DEF Holds, Within, Places
  <2> QED BY <1>4, <2>2
<1>7. undo \in Steps BY <1>1, <1>3 DEF Steps, Step, TableSteps
<1>8. Fine(kind, possible, undo, z)
  BY <1>1, <1>5, <1>6 DEF Fine, Finds, Step, FsSteps, TableSteps
<1>9. After(kind, undo, z) = Moved(z, s.old) BY DEF After, Step, TableSteps
<1>10. Moved(z, s.old) = x
  <2>1. z.fs = x.fs BY Fields DEF After, TableSteps
  <2>2. x \in Situations BY DEF Sound
  <2> QED BY <1>1, <2>1, <2>2 DEF Moved, Situation, Situations
<1>11. Sound(kind, z) OBVIOUS
<1>12. OnFailure(s) = <<undo>> BY DEF OnFailure, both
<1> HIDE DEF undo
<1>13. Leads(kind, possible, z, <<undo>>, x) BY <1>7, <1>8, <1>9, <1>10, <1>11, AfterStep
<1> QED BY <1>1, <1>12, <1>13

\* A partition widened for a move which failed shrinks back around the file
\* system, which is where it was.
LEMMA RestoreLeads ==
    ASSUME NEW kind, NEW possible, NEW x, NEW s \in Steps, Sound(kind, x), Fine(kind, possible, s, x),
           s.do = "move", kind # "swap"
    PROVE  Leads(kind, possible, x, OnFailure(s), Moved(x, s.old)) /\ AtHome(kind, Moved(x, s.old))
<1> DEFINE all == partition_all_space(s.old, s.new)
           restore == Step("restore", all, s.old)
           y == Moved(x, s.old)
           a == <<restore>>
           b == <<check_repair_filesystem(s.old)>>
<1>1. s.old \in Places /\ s.new \in Places BY DEF Steps
<1>2. all \in Places /\ Within(s.old, all) BY <1>1 DEF partition_all_space, Places, Place, Most, Least, Within
<1>3. x.own = all /\ (x.fs.state = "good" => x.fs.start = s.old.start) /\ Sound(kind, y) BY DEF Fine
<1>4. y.own = s.old /\ y.fs = x.fs BY Fields
<1>5. AtHome(kind, y) BY <1>3, <1>4 DEF AtHome
<1>6. OnFailure(s) = <<restore, check_repair_filesystem(s.old)>> BY DEF OnFailure
<1>7. x.own # NoPlace BY <1>2, <1>3, OwnIsPlace
<1> HIDE DEF all
<1>8. restore \in Steps BY <1>1, <1>2 DEF Steps, Step, TableSteps
<1>9. Finds(kind, all, x) BY <1>2, <1>3, <1>7, MiddleInside DEF Finds, Holds
<1>10. Fine(kind, possible, restore, x) BY <1>2, <1>3, <1>9 DEF Fine, Step, FsSteps, TableSteps
<1>11. After(kind, restore, x) = y BY DEF After, Step, TableSteps
<1> HIDE DEF restore, y
<1>12. Leads(kind, possible, x, a, y) BY <1>3, <1>8, <1>10, <1>11, AfterStep
<1>13. Leads(kind, possible, y, b, y) BY <1>1, <1>3, <1>5, Idle DEF check_repair_filesystem, IdleSteps
<1>14. Leads(kind, possible, x, a \o b, y) BY <1>12, <1>13, AfterBoth
<1>15. a \o b = <<restore, check_repair_filesystem(s.old)>> BY OneThenOne
<1> HIDE DEF a, b
<1> QED BY <1>5, <1>6, <1>14, <1>15 DEF y

LEMMA AfterAtHome ==
    ASSUME NEW kind, NEW possible, NEW x, NEW s \in Steps, Sound(kind, x), Fine(kind, possible, s, x),
           s.do \notin {"resize", "widen", "move"} \cup BackSteps
    PROVE  AtHome(kind, x) /\ AtHome(kind, After(kind, s, x))
<1>1. AtHome(kind, x) BY DEF Fine, BackSteps
<1>2. x.fs \in Contents /\ x \in Situations BY OwnIsPlace DEF Sound
<1>3. CASE s.do = "reduce" BY <1>1, <1>3 DEF Fine, After, TableSteps
<1>4. CASE s.do = "create_partition"
  <2>1. x.fs.state = "none" BY <1>4 DEF Fine
  <2>2. After(kind, s, x) = Moved(x, s.new) BY <1>4 DEF After
  <2> QED BY <1>1, <2>1, <2>2, Fields DEF AtHome
<1>5. CASE s.do = "delete_partition"
  <2>1. After(kind, s, x).own = NoPlace BY <1>5 DEF After, Situation, TableSteps
  <2> QED BY <1>1, <2>1 DEF AtHome
<1>6. CASE s.do \in {"shrink", "maximize", "shrink_encryption", "maximize_encryption"}
  <2>1. After(kind, s, x).own = x.own /\ After(kind, s, x).fs.start = x.fs.start
        /\ After(kind, s, x).fs.state = x.fs.state
    BY <1>2, <1>6 DEF After, TableSteps, Holding, Situation, Contents
  <2> QED BY <1>1, <2>1 DEF AtHome
<1>7. CASE s.do = "erase"
  <2>1. After(kind, s, x).fs.state = "none"
    BY <1>2, <1>7 DEF After, TableSteps, Holding, Situation, Contents
  <2> QED BY <1>1, <2>1 DEF AtHome
<1>8. CASE s.do \in {"create_filesystem", "recreate"}
  <2>1. After(kind, s, x).own = x.own /\ After(kind, s, x).fs.start = x.own.start
    BY <1>8 DEF After, TableSteps, Holding, Situation, NewContent, Content
  <2> QED BY <1>1, <2>1 DEF AtHome
<1>9. CASE s.do = "copy"
  <2>1. After(kind, s, x).own = x.own /\ After(kind, s, x).fs.start = s.new.start
    BY <1>9 DEF After, TableSteps, Holding, Situation, CopyOf, Content
  <2>2. s.new.start = x.own.start BY <1>9 DEF Fine
  <2> QED BY <1>1, <2>1, <2>2 DEF AtHome
<1>10. CASE s.do \in IdleSteps \cup {"calibrate", "bug"}
  <2>1. After(kind, s, x) = x BY <1>10 DEF After, TableSteps, IdleSteps
  <2> QED BY <1>1, <2>1
<1> QED BY <1>3, <1>4, <1>5, <1>6, <1>7, <1>8, <1>9, <1>10 DEF Steps, TableSteps, FsSteps, BackSteps

\* Whichever step fails, what is done then leads to where the partition begins
\* with its file system, unless the step was to put it there.
LEMMA FailureLeads ==
    ASSUME NEW kind, NEW possible, NEW x, NEW s \in Steps, Sound(kind, x), Fine(kind, possible, s, x),
           Sound(kind, After(kind, s, x)), x.own # NoPlace => Clear(x.own), NEW z, FailsAt(kind, s, x, z)
    PROVE  \E y : /\ Leads(kind, possible, z, OnFailure(s), y)
                  /\ s.do \in BackSteps \/ AtHome(kind, y)
<1>1. CASE s.do \in {"resize", "widen"}
  <2>1. x.own # NoPlace
    <3>1. x.own = s.old BY <1>1 DEF Fine
    <3> QED BY <3>1, OwnIsPlace DEF Steps
  <2>2. z = x \/ z = After(kind, s, x) BY DEF FailsAt
  <2> QED BY <1>1, <2>1, <2>2, UndoLeads
<1>2. CASE s.do = "move" BY <1>2, RestoreLeads DEF FailsAt
<1>3. CASE s.do \notin {"resize", "widen", "move"}
  <2>1. OnFailure(s) = <<>> BY <1>3 DEF OnFailure
  <2>2. Sound(kind, z) BY DEF FailsAt
  <2>3. Leads(kind, possible, z, <<>>, z) BY <2>2, AfterNothing
  <2>4. s.do \in BackSteps \/ AtHome(kind, z) BY <1>3, AfterAtHome DEF FailsAt
  <2> QED BY <2>1, <2>3, <2>4
<1> QED BY <1>1, <1>2, <1>3

-----------------------------------------------------------------------------
(* One step of the program *)

\* A step is about to be taken.
OnStep(op, x) ==
    /\ TypeOK /\ CancelHolds /\ TableHolds /\ Queueable(op)
    /\ pc = "op" /\ op = Op /\ steps # <<>> /\ Like(x) /\ Sound(op.kind, x)
    /\ Head(steps) \in Steps /\ Fine(op.kind, CanBeDone(op), Head(steps), x)
    /\ Sound(op.kind, After(op.kind, Head(steps), x))

Succeeded(op, x, z) ==
    /\ StepSucceeds /\ failed' = failed /\ faults' >= faults
    /\ z = After(op.kind, Head(steps), x) /\ Head(steps).do # "bug"

GaveUp(op, x, z) ==
    /\ StepReturnsFalse /\ failed \subseteq failed'
    /\ FailsAt(op.kind, Head(steps), x, z)
    /\ Head(steps).do \in BackSteps => Head(steps).do \in failed'
    /\ faults' > 0 \/ m_cancel \/ ~CanBeDone(op)

\* What any step does: it does all of what it is for, or it fails for a reason.
Outcome(op, x) == \E z : Like(z)' /\ (Succeeded(op, x, z) \/ GaveUp(op, x, z))

Goes(op, x) == TypeOK' /\ TableHolds' /\ Outcome(op, x)

LEMMA StepTypes ==
    ASSUME TypeOK, StepSucceeds \/ StepReturnsFalse, faults' \in Nat, fs' \in FsRecords
    PROVE  TypeOK'
<1>1. UNCHANGED dialog /\ cancelflag' = 0 /\ success' \in BOOLEAN
  BY DEF TypeOK, StepSucceeds, StepReturnsFalse
<1>2. pc' = pc /\ cur' = cur /\ m_success' = m_success /\ m_cancel' = m_cancel /\ forced' = forced
  BY <1>1 DEF dialog
<1> QED BY <1>1, <1>2 DEF TypeOK

LEMMA ContentsFs ==
    ASSUME TypeOK, NEW x, Like(x)
    PROVE  fs \in FsRecords /\ x.fs \in Contents /\ faults \in Nat /\ forced \in BOOLEAN /\ MaxFaults \in Nat
BY ApplyAssumption DEF TypeOK, Like, Situations

LEMMA FsSucceeds ==
    ASSUME NEW op, NEW x, OnStep(op, x), StepSucceeds, NoFault, UNCHANGED table, Head(steps).do # "bug",
           NEW c \in FsRecords, fs' = c, NEW z, z = After(op.kind, Head(steps), x), z.own = x.own,
           As(c, z.fs), Spoiled \/ c.state = z.fs.state
    PROVE  Goes(op, x)
<1>1. TypeOK' BY StepTypes DEF NoFault, OnStep, TypeOK
<1>2. TableHolds' /\ table'["own"] = z.own BY TableStays DEF OnStep, Like
<1>3. z \in Situations BY DEF OnStep, Sound
<1>4. Spoiled' <=> Spoiled BY DEF Spoiled, NoFault, StepSucceeds, dialog
<1>5. Like(z)' BY <1>2, <1>3, <1>4 DEF Like
<1>6. Succeeded(op, x, z) BY DEF Succeeded, NoFault, OnStep, TypeOK
<1> QED BY <1>1, <1>2, <1>5, <1>6 DEF Goes, Outcome

LEMMA FsFails ==
    ASSUME NEW op, NEW x, OnStep(op, x), StepReturnsFalse, NEW n \in Nat, Fault(n), n > 0,
           failed' = failed \cup {Head(steps).do}, UNCHANGED table,
           NEW c \in FsRecords, fs' = c, NEW z, FailsAt(op.kind, Head(steps), x, z), z.own = x.own, As(c, z.fs)
    PROVE  Goes(op, x)
<1>1. faults' \in Nat /\ faults' > 0 BY ApplyAssumption DEF Fault, OnStep, TypeOK
<1>2. TypeOK' BY <1>1, StepTypes DEF OnStep
<1>3. TableHolds' /\ table'["own"] = z.own BY TableStays DEF OnStep, Like
<1>4. z \in Situations BY DEF OnStep, Sound, FailsAt
<1>5. Like(z)' BY <1>1, <1>3, <1>4 DEF Like, Spoiled
<1>6. GaveUp(op, x, z) BY <1>1 DEF GaveUp
<1> QED BY <1>2, <1>3, <1>5, <1>6 DEF Goes, Outcome

\* What a stop by force leaves
LEMMA HarmedIs ==
    ASSUME TypeOK, NEW x, Like(x)
    PROVE  /\ Harmed \in FsRecords /\ As(Harmed, x.fs) /\ As(fs, x.fs) /\ fs \in FsRecords
           /\ NoFs \in FsRecords /\ As(NoFs, x.fs)
<1>1. fs \in FsRecords /\ As(fs, x.fs) BY DEF TypeOK, Like
<1>2. Harmed \in FsRecords /\ Harmed.state # "good" /\ Harmed.volume = fs.volume BY <1>1 DEF Harmed, FsRecords
<1>3. NoFs \in FsRecords /\ NoFs.state # "good" /\ NoFs.volume = fs.volume BY <1>1 DEF NoFs, FsRecords
<1> QED BY <1>1, <1>2, <1>3 DEF As

LEMMA FsStops ==
    ASSUME NEW op, NEW x, OnStep(op, x), StepStopped, UNCHANGED table, fs' \in StoppedFs,
           Head(steps).do \notin BackSteps, Head(steps).do = "move" => op.kind # "swap"
    PROVE  Goes(op, x)
<1>1. StepReturnsFalse /\ NoFault /\ cancelflag \in {1, 2} BY DEF StepStopped
<1>2. m_cancel /\ (cancelflag = 2 => forced) BY <1>1 DEF OnStep, CancelHolds
<1>3. faults' = faults /\ failed' = failed /\ forced' = forced BY <1>1 DEF NoFault, StepReturnsFalse, dialog
<1>4. fs' \in FsRecords /\ As(fs', x.fs) BY HarmedIs DEF StoppedFs, OnStep
<1>5. Spoiled' \/ fs'.state = x.fs.state
  <2>1. CASE cancelflag = 1 BY <1>3, <2>1 DEF StoppedFs, OnStep, Like, Spoiled
  <2>2. CASE cancelflag = 2 BY <1>2, <1>3, <2>2 DEF Spoiled
  <2> QED BY <1>1, <2>1, <2>2
<1>6. TypeOK' BY <1>1, <1>3, <1>4, StepTypes DEF OnStep, TypeOK
<1>7. TableHolds' /\ table'["own"] = x.own BY TableStays DEF OnStep, Like
<1>8. Like(x)' BY <1>4, <1>5, <1>7 DEF Like, OnStep, Sound
<1>9. GaveUp(op, x, x) BY <1>1, <1>2, <1>3 DEF GaveUp, FailsAt
<1> QED BY <1>6, <1>7, <1>8, <1>9 DEF Goes, Outcome

LEMMA Refuses ==
    ASSUME NEW op, NEW x, OnStep(op, x), StepRefused, UNCHANGED <<table, fs>>,
           Head(steps).do \notin BackSteps \cup {"move"}, ~CanBeDone(op)
    PROVE  Goes(op, x)
<1>1. StepReturnsFalse /\ NoFault BY DEF StepRefused
<1>2. faults' = faults /\ failed' = failed /\ forced' = forced BY <1>1 DEF NoFault, StepReturnsFalse, dialog
<1>3. TypeOK' BY <1>1, <1>2, StepTypes DEF OnStep, TypeOK
<1>4. TableHolds' /\ table'["own"] = x.own BY TableStays DEF OnStep, Like
<1>5. Like(x)' BY <1>2, <1>4 DEF Like, OnStep, Spoiled
<1>6. GaveUp(op, x, x) BY <1>1, <1>2 DEF GaveUp, FailsAt
<1> QED BY <1>3, <1>4, <1>5, <1>6 DEF Goes, Outcome

-----------------------------------------------------------------------------
(* Steps on the file system *)

\* A step which leaves the file system as it should be
Effect(op, x, z, after) ==
    /\ z = After(op.kind, Head(steps), x) /\ z.own = x.own
    /\ after \in FsRecords /\ As(after, z.fs)
    /\ Spoiled \/ after.state = z.fs.state

LEMMA FsStepGoes ==
    ASSUME NEW op, NEW x, OnStep(op, x), NEW do, NEW after, NEW halfway, FsStep(do, after, halfway),
           Head(steps).do \notin BackSteps \cup {"move", "bug"}, NEW z, Effect(op, x, z, after),
           \A c \in halfway : c \in FsRecords /\ (As(c, x.fs) \/ As(c, z.fs))
    PROVE  Goes(op, x)
<1>1. UNCHANGED table BY DEF FsStep
<1>5. /\ z = After(op.kind, Head(steps), x) /\ z.own = x.own
      /\ after \in FsRecords /\ As(after, z.fs) /\ (Spoiled \/ after.state = z.fs.state)
      /\ Head(steps).do # "bug"
  BY DEF Effect
<1>2. CASE StepSucceeds /\ NoFault /\ fs' = after BY <1>1, <1>2, <1>5, FsSucceeds
<1>3. CASE StepFails /\ fs' \in halfway
  <2>1. StepReturnsFalse /\ Fault(1) /\ failed' = failed \cup {Head(steps).do} BY <1>3 DEF StepFails
  <2>2. PICK c \in halfway : fs' = c BY <1>3
  <2>3. c \in FsRecords /\ (As(c, x.fs) \/ As(c, z.fs)) BY <2>2
  <2>4. FailsAt(op.kind, Head(steps), x, x) /\ FailsAt(op.kind, Head(steps), x, z) BY <1>5 DEF FailsAt
  <2>5. 1 \in Nat /\ 1 > 0 OBVIOUS
  <2>6. CASE As(c, x.fs) BY <1>1, <2>1, <2>2, <2>3, <2>4, <2>5, <2>6, FsFails
  <2>7. CASE As(c, z.fs) BY <1>1, <1>5, <2>1, <2>2, <2>3, <2>4, <2>5, <2>7, FsFails
  <2> QED BY <2>3, <2>6, <2>7
<1>4. CASE StepStopped /\ fs' \in StoppedFs BY <1>1, <1>4, FsStops
<1> QED BY <1>2, <1>3, <1>4 DEF FsStep

LEMMA Resized ==
    ASSUME NEW c \in FsRecords, NEW d \in Contents, As(c, d), NEW n \in Int
    PROVE  /\ [c EXCEPT !.length = n] \in FsRecords /\ [c EXCEPT !.length = n].state = c.state
           /\ [d EXCEPT !.length = n].state = d.state
           /\ As([c EXCEPT !.length = n], [d EXCEPT !.length = n])
           /\ [c EXCEPT !.volume = n] \in FsRecords /\ [c EXCEPT !.volume = n].state = c.state
           /\ [d EXCEPT !.volume = n].state = d.state
           /\ As([c EXCEPT !.volume = n], [d EXCEPT !.volume = n])
BY DEF FsRecords, Contents, As

LEMMA Made ==
    ASSUME NEW c \in FsRecords, NEW d \in Contents, As(c, d), NEW a \in Int, NEW n \in Int
    PROVE  LET made == [c EXCEPT !.state = "good", !.start = a, !.length = n]
           IN  made = Content(a, n, d.volume) /\ made \in FsRecords
<1> DEFINE made == [c EXCEPT !.state = "good", !.start = a, !.length = n]
<1>1. made \in FsRecords BY DEF FsRecords
<1>2. made.state = "good" /\ made.start = a /\ made.length = n /\ made.volume = c.volume BY DEF FsRecords
<1>3. c.volume = d.volume BY DEF As
<1> HIDE DEF made
<1>4. made = [state |-> made.state, start |-> made.start, length |-> made.length, volume |-> made.volume]
  BY <1>1 DEF FsRecords
<1>5. made = Content(a, n, d.volume) BY <1>2, <1>3, <1>4 DEF Content
<1> QED BY <1>1, <1>5 DEF made

LEMMA RoomIs ==
    ASSUME NEW op, NEW x, OnStep(op, x), x.own # NoPlace
    PROVE  Room = Space(op.kind, x) /\ Room \in Int /\ x.own \in Places /\ PlaceLength(x.own) \in Int
           /\ (Opened <=> Open(op.kind)) /\ table["own"] = x.own
<1>1. Opened <=> Open(op.kind) BY DEF Opened, Open, OnStep, Op
<1>2. table["own"] = x.own /\ As(fs, x.fs) /\ x.fs \in Contents BY ContentsFs DEF OnStep, Like
<1>3. x.own \in Places BY OwnIsPlace DEF OnStep
<1>4. fs.volume = x.fs.volume /\ x.fs.volume \in Int BY <1>2 DEF As, Contents
<1>5. PlaceLength(x.own) \in Int BY <1>3 DEF PlaceLength, Places
<1> QED BY <1>1, <1>2, <1>3, <1>4, <1>5 DEF Room, Space

LEMMA ShrunkIs ==
    ASSUME NEW op, NEW x, OnStep(op, x), Head(steps).do = "shrink"
    PROVE  Effect(op, x, After(op.kind, Head(steps), x), Shrunk)
<1> DEFINE s == Head(steps)
           z == After(op.kind, s, x)
<1>1. s.do = "shrink" /\ s \in Steps BY DEF OnStep
<1>2. fs \in FsRecords /\ x.fs \in Contents /\ As(fs, x.fs) BY ContentsFs DEF OnStep, Like
<1>3. Spoiled \/ fs.state = x.fs.state BY DEF OnStep, Like
<1> DEFINE n == PlaceLength(s.new)
           c == [fs EXCEPT !.length = n]
           d == [x.fs EXCEPT !.length = n]
<1>4. n \in Int BY <1>1 DEF PlaceLength, Places, Steps
<1>5. z = Holding(x, d) BY <1>1 DEF After, TableSteps
<1>6. Shrunk = c BY DEF Shrunk, Sized
<1> HIDE DEF n
<1>7. c \in FsRecords /\ c.state = fs.state /\ d.state = x.fs.state /\ As(c, d) BY <1>2, <1>4, Resized
<1> HIDE DEF c, d
<1>8. z.own = x.own /\ z.fs = d BY <1>5, Fields
<1>9. z = After(op.kind, Head(steps), x) OBVIOUS
<1> HIDE DEF z
<1> QED BY <1>3, <1>6, <1>7, <1>8, <1>9 DEF Effect

LEMMA GrownIs ==
    ASSUME NEW op, NEW x, OnStep(op, x), Head(steps).do = "maximize"
    PROVE  Effect(op, x, After(op.kind, Head(steps), x), Grown)
<1> DEFINE s == Head(steps)
           z == After(op.kind, s, x)
<1>1. s.do = "maximize" /\ s \in Steps BY DEF OnStep
<1>2. fs \in FsRecords /\ x.fs \in Contents /\ As(fs, x.fs) BY ContentsFs DEF OnStep, Like
<1>3. Spoiled \/ fs.state = x.fs.state BY DEF OnStep, Like
<1>4. CASE CanGrow
  <2> DEFINE n == Room
             c == [fs EXCEPT !.length = n]
             d == [x.fs EXCEPT !.length = n]
  <2>1. x.own # NoPlace BY <1>1 DEF OnStep, Fine, FsSteps
  <2>2. n \in Int /\ n = Space(op.kind, x) BY <2>1, RoomIs
  <2>3. z = Holding(x, d) BY <1>1, <1>4, <2>2 DEF After, TableSteps
  <2>4. Grown = c BY <1>4 DEF Grown, Sized
  <2>8. n \in Int BY <2>2
  <2> HIDE DEF n
  <2>5. c \in FsRecords /\ c.state = fs.state /\ d.state = x.fs.state /\ As(c, d) BY <1>2, <2>8, Resized
  <2> HIDE DEF c, d
  <2>6. z.own = x.own /\ z.fs = d BY <2>3, Fields
  <2>7. z = After(op.kind, Head(steps), x) OBVIOUS
  <2> HIDE DEF z
  <2> QED BY <1>3, <2>4, <2>5, <2>6, <2>7 DEF Effect
<1>5. CASE ~CanGrow
  <2>1. z = x BY <1>1, <1>5 DEF After, TableSteps
  <2>2. Grown = fs BY <1>5 DEF Grown
  <2> QED BY <1>2, <1>3, <2>1, <2>2 DEF Effect
<1> QED BY <1>4, <1>5

\* What the steps on an encryption volume make of the file system record
VolumeShrunk == SizedVolume(PlaceLength(Head(steps).new))
VolumeGrown == IF Opened THEN SizedVolume(PlaceLength(table["own"])) ELSE fs

LEMMA VolumeShrunkIs ==
    ASSUME NEW op, NEW x, OnStep(op, x), Head(steps).do = "shrink_encryption"
    PROVE  Effect(op, x, After(op.kind, Head(steps), x), VolumeShrunk)
<1> DEFINE s == Head(steps)
           z == After(op.kind, s, x)
<1>1. s.do = "shrink_encryption" /\ s \in Steps BY DEF OnStep
<1>2. fs \in FsRecords /\ x.fs \in Contents /\ As(fs, x.fs) BY ContentsFs DEF OnStep, Like
<1>3. Spoiled \/ fs.state = x.fs.state BY DEF OnStep, Like
<1> DEFINE n == PlaceLength(s.new)
           c == [fs EXCEPT !.volume = n]
           d == [x.fs EXCEPT !.volume = n]
<1>4. n \in Int BY <1>1 DEF PlaceLength, Places, Steps
<1>5. z = Holding(x, d) BY <1>1 DEF After, TableSteps
<1>6. VolumeShrunk = c BY DEF VolumeShrunk, SizedVolume
<1> HIDE DEF n
<1>7. c \in FsRecords /\ c.state = fs.state /\ d.state = x.fs.state /\ As(c, d) BY <1>2, <1>4, Resized
<1> HIDE DEF c, d
<1>8. z.own = x.own /\ z.fs = d BY <1>5, Fields
<1>9. z = After(op.kind, Head(steps), x) OBVIOUS
<1> HIDE DEF z
<1> QED BY <1>3, <1>6, <1>7, <1>8, <1>9 DEF Effect

LEMMA VolumeGrownIs ==
    ASSUME NEW op, NEW x, OnStep(op, x), Head(steps).do = "maximize_encryption"
    PROVE  Effect(op, x, After(op.kind, Head(steps), x), VolumeGrown)
<1> DEFINE s == Head(steps)
           z == After(op.kind, s, x)
<1>1. s.do = "maximize_encryption" /\ s \in Steps BY DEF OnStep
<1>2. fs \in FsRecords /\ x.fs \in Contents /\ As(fs, x.fs) BY ContentsFs DEF OnStep, Like
<1>3. Spoiled \/ fs.state = x.fs.state BY DEF OnStep, Like
<1>10. x.own # NoPlace BY <1>1 DEF OnStep, Fine, FsSteps
<1>11. table["own"] = x.own /\ PlaceLength(x.own) \in Int /\ (Opened <=> Open(op.kind)) BY <1>10, RoomIs
<1>4. CASE Open(op.kind)
  <2> DEFINE n == PlaceLength(x.own)
             c == [fs EXCEPT !.volume = n]
             d == [x.fs EXCEPT !.volume = n]
  <2>3. z = Holding(x, d) BY <1>1, <1>4 DEF After, TableSteps
  <2>4. VolumeGrown = c BY <1>4, <1>11 DEF VolumeGrown, SizedVolume
  <2>8. n \in Int BY <1>11
  <2> HIDE DEF n
  <2>5. c \in FsRecords /\ c.state = fs.state /\ d.state = x.fs.state /\ As(c, d) BY <1>2, <2>8, Resized
  <2> HIDE DEF c, d
  <2>6. z.own = x.own /\ z.fs = d BY <2>3, Fields
  <2>7. z = After(op.kind, Head(steps), x) OBVIOUS
  <2> HIDE DEF z
  <2> QED BY <1>3, <2>4, <2>5, <2>6, <2>7 DEF Effect
<1>5. CASE ~Open(op.kind)
  <2>1. z = x BY <1>1, <1>5 DEF After, TableSteps
  <2>2. VolumeGrown = fs BY <1>5, <1>11 DEF VolumeGrown
  <2> QED BY <1>2, <1>3, <2>1, <2>2 DEF Effect
<1> QED BY <1>4, <1>5

LEMMA ErasedIs ==
    ASSUME NEW op, NEW x, OnStep(op, x), Head(steps).do = "erase"
    PROVE  Effect(op, x, After(op.kind, Head(steps), x), NoFs)
<1> DEFINE s == Head(steps)
           z == After(op.kind, s, x)
<1>1. s.do = "erase" /\ s \in Steps BY DEF OnStep
<1>2. fs \in FsRecords /\ x.fs \in Contents /\ As(fs, x.fs) BY ContentsFs DEF OnStep, Like
<1>3. Spoiled \/ fs.state = x.fs.state BY DEF OnStep, Like
<1> DEFINE d == [x.fs EXCEPT !.state = "none"]
<1>4. z = Holding(x, d) BY <1>1 DEF After, TableSteps
<1>5. d.state = "none" /\ d.volume = x.fs.volume BY <1>2 DEF Contents
<1>6. NoFs \in FsRecords /\ NoFs.state = "none" /\ NoFs.volume = fs.volume BY <1>2 DEF NoFs, FsRecords
<1>7. z.own = x.own /\ z.fs = d BY <1>4, Fields
<1>9. z = After(op.kind, Head(steps), x) OBVIOUS
<1> HIDE DEF z, d
<1> QED BY <1>2, <1>5, <1>6, <1>7, <1>9 DEF Effect, As

LEMMA NewIs ==
    ASSUME NEW op, NEW x, OnStep(op, x), Head(steps).do \in {"create_filesystem", "recreate"}
    PROVE  Effect(op, x, After(op.kind, Head(steps), x), NewFs)
<1> DEFINE s == Head(steps)
           z == After(op.kind, s, x)
           d == NewContent(op.kind, x)
<1>1. s.do \in {"create_filesystem", "recreate"} OBVIOUS
<1>2. fs \in FsRecords /\ x.fs \in Contents /\ As(fs, x.fs) BY ContentsFs DEF OnStep, Like
<1>3. x.own # NoPlace BY <1>1 DEF OnStep, Fine, FsSteps
<1>4. table["own"] = x.own /\ Room \in Int /\ Room = Space(op.kind, x) /\ x.own \in Places BY <1>3, RoomIs
<1>5. x.own.start \in Int BY <1>4 DEF Places
<1>6. NewFs = Content(x.own.start, Room, x.fs.volume) /\ NewFs \in FsRecords
  <2> DEFINE a == x.own.start
             n == Room
             made == [fs EXCEPT !.state = "good", !.start = a, !.length = n]
  <2>1. NewFs = made BY <1>4 DEF NewFs
  <2>2. a \in Int /\ n \in Int BY <1>4, <1>5
  <2> HIDE DEF a, n
  <2>3. made = Content(a, n, x.fs.volume) /\ made \in FsRecords BY <1>2, <2>2, Made
  <2> HIDE DEF made
  <2> QED BY <2>1, <2>3 DEF a, n
<1>7. NewFs = d BY <1>4, <1>6 DEF NewContent
<1>8. z = Holding(x, d) BY <1>1 DEF After, TableSteps
<1> HIDE DEF d
<1>9. z.own = x.own /\ z.fs = d /\ z = After(op.kind, Head(steps), x) BY <1>8, Fields
<1> HIDE DEF z
<1> QED BY <1>6, <1>7, <1>9 DEF Effect, As

LEMMA CopiedIs ==
    ASSUME NEW op, NEW x, OnStep(op, x), Head(steps).do = "copy"
    PROVE  Effect(op, x, After(op.kind, Head(steps), x), Copied(Head(steps)))
<1> DEFINE s == Head(steps)
           z == After(op.kind, s, x)
           d == CopyOf(s.old, s.new, x)
<1>1. s.do = "copy" /\ s \in Steps BY DEF OnStep
<1>2. fs \in FsRecords /\ x.fs \in Contents /\ As(fs, x.fs) BY ContentsFs DEF OnStep, Like
<1>5. s.new.start \in Int /\ PlaceLength(s.old) \in Int BY <1>1 DEF Places, Steps, PlaceLength
<1>6. Copied(s) = Content(s.new.start, PlaceLength(s.old), x.fs.volume) /\ Copied(s) \in FsRecords
  BY <1>2, <1>5, Made DEF Copied
<1>7. Copied(s) = d BY <1>6 DEF CopyOf
<1>8. z = Holding(x, d) BY <1>1 DEF After, TableSteps
<1> HIDE DEF d
<1>9. z.own = x.own /\ z.fs = d /\ z = After(op.kind, Head(steps), x) BY <1>8, Fields
<1> HIDE DEF z
<1> QED BY <1>6, <1>7, <1>9 DEF Effect, As

LEMMA IdleIs ==
    ASSUME NEW op, NEW x, OnStep(op, x), Head(steps).do \in IdleSteps \cup {"calibrate"}
    PROVE  Effect(op, x, After(op.kind, Head(steps), x), fs) /\ After(op.kind, Head(steps), x) = x
<1>1. After(op.kind, Head(steps), x) = x BY DEF After, IdleSteps, TableSteps
<1>2. fs \in FsRecords /\ As(fs, x.fs) /\ (Spoiled \/ fs.state = x.fs.state) BY ContentsFs DEF OnStep, Like
<1> QED BY <1>1, <1>2 DEF Effect

LEMMA ShrinkGoes ==
    ASSUME NEW op, NEW x, OnStep(op, x), FsStep({"shrink"}, Shrunk, {fs, Shrunk})
    PROVE  Goes(op, x)
<1> DEFINE do == {"shrink"}
           halfway == {fs, Shrunk}
           z == After(op.kind, Head(steps), x)
<1>1. Head(steps).do \in do BY DEF FsStep, Running
<1>2. Effect(op, x, z, Shrunk) BY <1>1, ShrunkIs
<1>3. Head(steps).do \notin BackSteps \cup {"move", "bug"} BY <1>1 DEF BackSteps, IdleSteps
<1> HIDE DEF z
<1>4. /\ fs \in FsRecords /\ As(fs, x.fs) /\ NoFs \in FsRecords /\ As(NoFs, x.fs)
      /\ Shrunk \in FsRecords /\ As(Shrunk, z.fs)
  BY <1>2, HarmedIs DEF OnStep, Effect
<1>5. \A c \in halfway : c \in FsRecords /\ (As(c, x.fs) \/ As(c, z.fs)) BY <1>4
<1>6. FsStep(do, Shrunk, halfway) OBVIOUS
<1> HIDE DEF do, halfway
<1> QED BY <1>2, <1>3, <1>5, <1>6, FsStepGoes

LEMMA MaximizeGoes ==
    ASSUME NEW op, NEW x, OnStep(op, x), FsStep({"maximize"}, Grown, {fs, Grown})
    PROVE  Goes(op, x)
<1> DEFINE do == {"maximize"}
           halfway == {fs, Grown}
           z == After(op.kind, Head(steps), x)
<1>1. Head(steps).do \in do BY DEF FsStep, Running
<1>2. Effect(op, x, z, Grown) BY <1>1, GrownIs
<1>3. Head(steps).do \notin BackSteps \cup {"move", "bug"} BY <1>1 DEF BackSteps, IdleSteps
<1> HIDE DEF z
<1>4. /\ fs \in FsRecords /\ As(fs, x.fs) /\ NoFs \in FsRecords /\ As(NoFs, x.fs)
      /\ Grown \in FsRecords /\ As(Grown, z.fs)
  BY <1>2, HarmedIs DEF OnStep, Effect
<1>5. \A c \in halfway : c \in FsRecords /\ (As(c, x.fs) \/ As(c, z.fs)) BY <1>4
<1>6. FsStep(do, Grown, halfway) OBVIOUS
<1> HIDE DEF do, halfway
<1> QED BY <1>2, <1>3, <1>5, <1>6, FsStepGoes

LEMMA VolumeShrinkGoes ==
    ASSUME NEW op, NEW x, OnStep(op, x), FsStep({"shrink_encryption"}, VolumeShrunk, {fs, VolumeShrunk})
    PROVE  Goes(op, x)
<1> DEFINE do == {"shrink_encryption"}
           halfway == {fs, VolumeShrunk}
           z == After(op.kind, Head(steps), x)
<1>1. Head(steps).do \in do BY DEF FsStep, Running
<1>2. Effect(op, x, z, VolumeShrunk) BY <1>1, VolumeShrunkIs
<1>3. Head(steps).do \notin BackSteps \cup {"move", "bug"} BY <1>1 DEF BackSteps, IdleSteps
<1> HIDE DEF z
<1>4. /\ fs \in FsRecords /\ As(fs, x.fs) /\ NoFs \in FsRecords /\ As(NoFs, x.fs)
      /\ VolumeShrunk \in FsRecords /\ As(VolumeShrunk, z.fs)
  BY <1>2, HarmedIs DEF OnStep, Effect
<1>5. \A c \in halfway : c \in FsRecords /\ (As(c, x.fs) \/ As(c, z.fs)) BY <1>4
<1>6. FsStep(do, VolumeShrunk, halfway) OBVIOUS
<1> HIDE DEF do, halfway
<1> QED BY <1>2, <1>3, <1>5, <1>6, FsStepGoes

LEMMA VolumeGrowGoes ==
    ASSUME NEW op, NEW x, OnStep(op, x), FsStep({"maximize_encryption"}, VolumeGrown, {fs, VolumeGrown})
    PROVE  Goes(op, x)
<1> DEFINE do == {"maximize_encryption"}
           halfway == {fs, VolumeGrown}
           z == After(op.kind, Head(steps), x)
<1>1. Head(steps).do \in do BY DEF FsStep, Running
<1>2. Effect(op, x, z, VolumeGrown) BY <1>1, VolumeGrownIs
<1>3. Head(steps).do \notin BackSteps \cup {"move", "bug"} BY <1>1 DEF BackSteps, IdleSteps
<1> HIDE DEF z
<1>4. /\ fs \in FsRecords /\ As(fs, x.fs) /\ NoFs \in FsRecords /\ As(NoFs, x.fs)
      /\ VolumeGrown \in FsRecords /\ As(VolumeGrown, z.fs)
  BY <1>2, HarmedIs DEF OnStep, Effect
<1>5. \A c \in halfway : c \in FsRecords /\ (As(c, x.fs) \/ As(c, z.fs)) BY <1>4
<1>6. FsStep(do, VolumeGrown, halfway) OBVIOUS
<1> HIDE DEF do, halfway
<1> QED BY <1>2, <1>3, <1>5, <1>6, FsStepGoes

LEMMA EraseGoes ==
    ASSUME NEW op, NEW x, OnStep(op, x), FsStep({"erase"}, NoFs, {fs, NoFs})
    PROVE  Goes(op, x)
<1> DEFINE do == {"erase"}
           halfway == {fs, NoFs}
           z == After(op.kind, Head(steps), x)
<1>1. Head(steps).do \in do BY DEF FsStep, Running
<1>2. Effect(op, x, z, NoFs) BY <1>1, ErasedIs
<1>3. Head(steps).do \notin BackSteps \cup {"move", "bug"} BY <1>1 DEF BackSteps, IdleSteps
<1> HIDE DEF z
<1>4. /\ fs \in FsRecords /\ As(fs, x.fs) /\ NoFs \in FsRecords /\ As(NoFs, x.fs)
      /\ NoFs \in FsRecords /\ As(NoFs, z.fs)
  BY <1>2, HarmedIs DEF OnStep, Effect
<1>5. \A c \in halfway : c \in FsRecords /\ (As(c, x.fs) \/ As(c, z.fs)) BY <1>4
<1>6. FsStep(do, NoFs, halfway) OBVIOUS
<1> HIDE DEF do, halfway
<1> QED BY <1>2, <1>3, <1>5, <1>6, FsStepGoes

LEMMA CreateGoes ==
    ASSUME NEW op, NEW x, OnStep(op, x), FsStep({"create_filesystem", "recreate"}, NewFs, {NoFs, NewFs})
    PROVE  Goes(op, x)
<1> DEFINE do == {"create_filesystem", "recreate"}
           halfway == {NoFs, NewFs}
           z == After(op.kind, Head(steps), x)
<1>1. Head(steps).do \in do BY DEF FsStep, Running
<1>2. Effect(op, x, z, NewFs) BY <1>1, NewIs
<1>3. Head(steps).do \notin BackSteps \cup {"move", "bug"} BY <1>1 DEF BackSteps, IdleSteps
<1> HIDE DEF z
<1>4. /\ fs \in FsRecords /\ As(fs, x.fs) /\ NoFs \in FsRecords /\ As(NoFs, x.fs)
      /\ NewFs \in FsRecords /\ As(NewFs, z.fs)
  BY <1>2, HarmedIs DEF OnStep, Effect
<1>5. \A c \in halfway : c \in FsRecords /\ (As(c, x.fs) \/ As(c, z.fs)) BY <1>4
<1>6. FsStep(do, NewFs, halfway) OBVIOUS
<1> HIDE DEF do, halfway
<1> QED BY <1>2, <1>3, <1>5, <1>6, FsStepGoes

LEMMA CopyGoes ==
    ASSUME NEW op, NEW x, OnStep(op, x), FsStep({"copy"}, Copied(Head(steps)), {NoFs})
    PROVE  Goes(op, x)
<1> DEFINE do == {"copy"}
           halfway == {NoFs}
           z == After(op.kind, Head(steps), x)
<1>1. Head(steps).do \in do BY DEF FsStep, Running
<1>2. Effect(op, x, z, Copied(Head(steps))) BY <1>1, CopiedIs
<1>3. Head(steps).do \notin BackSteps \cup {"move", "bug"} BY <1>1 DEF BackSteps, IdleSteps
<1> HIDE DEF z
<1>4. /\ fs \in FsRecords /\ As(fs, x.fs) /\ NoFs \in FsRecords /\ As(NoFs, x.fs)
      /\ Copied(Head(steps)) \in FsRecords /\ As(Copied(Head(steps)), z.fs)
  BY <1>2, HarmedIs DEF OnStep, Effect
<1>5. \A c \in halfway : c \in FsRecords /\ (As(c, x.fs) \/ As(c, z.fs)) BY <1>4
<1>6. FsStep(do, Copied(Head(steps)), halfway) OBVIOUS
<1> HIDE DEF do, halfway
<1> QED BY <1>2, <1>3, <1>5, <1>6, FsStepGoes

LEMMA IdleGoes ==
    ASSUME NEW op, NEW x, OnStep(op, x), FsStep(IdleSteps, fs, {fs})
    PROVE  Goes(op, x)
<1> DEFINE do == IdleSteps
           halfway == {fs}
           z == After(op.kind, Head(steps), x)
<1>1. Head(steps).do \in do BY DEF FsStep, Running
<1>2. Effect(op, x, z, fs) BY <1>1, IdleIs
<1>3. Head(steps).do \notin BackSteps \cup {"move", "bug"} BY <1>1 DEF BackSteps, IdleSteps
<1> HIDE DEF z
<1>4. /\ fs \in FsRecords /\ As(fs, x.fs) /\ NoFs \in FsRecords /\ As(NoFs, x.fs)
      /\ fs \in FsRecords /\ As(fs, z.fs)
  BY <1>2, HarmedIs DEF OnStep, Effect
<1>5. \A c \in halfway : c \in FsRecords /\ (As(c, x.fs) \/ As(c, z.fs)) BY <1>4
<1>6. FsStep(do, fs, halfway) OBVIOUS
<1> HIDE DEF do, halfway
<1> QED BY <1>2, <1>3, <1>5, <1>6, FsStepGoes

\* FAT and HFS, by libparted
LEMMA LibpartedGoes ==
    ASSUME NEW op, NEW x, OnStep(op, x), resize_move_filesystem_using_libparted
    PROVE  Goes(op, x)
<1> DEFINE after == IF Head(steps).do = "shrink" THEN Shrunk ELSE Grown
           z == After(op.kind, Head(steps), x)
<1>1. Head(steps).do \in {"shrink", "maximize"}
  BY DEF resize_move_filesystem_using_libparted, UsesLibparted, Running, ByLibparted
<1>2. Effect(op, x, z, after) BY <1>1, ShrunkIs, GrownIs
<1>3. Head(steps).do \notin BackSteps \cup {"move", "bug"} BY <1>1 DEF BackSteps
<1>4. /\ UNCHANGED table
      /\ (StepSucceeds /\ NoFault /\ fs' = after) \/ (StepFails /\ fs' \in {fs, Harmed})
  BY DEF resize_move_filesystem_using_libparted
<1> HIDE DEF after, z
<1>5. CASE StepSucceeds /\ NoFault /\ fs' = after
  <2>1. /\ z = After(op.kind, Head(steps), x) /\ z.own = x.own
        /\ after \in FsRecords /\ As(after, z.fs) /\ (Spoiled \/ after.state = z.fs.state)
    BY <1>2 DEF Effect
  <2>2. Head(steps).do # "bug" BY <1>3
  <2> QED BY <1>4, <1>5, <2>1, <2>2, FsSucceeds
<1>6. CASE StepFails /\ fs' \in {fs, Harmed}
  <2>1. StepReturnsFalse /\ Fault(1) /\ failed' = failed \cup {Head(steps).do} BY <1>6 DEF StepFails
  <2>2. fs \in FsRecords /\ As(fs, x.fs) /\ Harmed \in FsRecords /\ As(Harmed, x.fs) BY HarmedIs DEF OnStep
  <2>3. PICK c : fs' = c /\ c \in FsRecords /\ As(c, x.fs) BY <1>6, <2>2
  <2>4. FailsAt(op.kind, Head(steps), x, x) BY <1>3 DEF FailsAt
  <2>5. 1 \in Nat /\ 1 > 0 OBVIOUS
  <2> QED BY <1>4, <2>1, <2>3, <2>4, <2>5, FsFails
<1> QED BY <1>4, <1>5, <1>6

LEMMA MoveGoes ==
    ASSUME NEW op, NEW x, OnStep(op, x), MoveFs
    PROVE  Goes(op, x)
<1> DEFINE s == Head(steps)
           moved == IF fs.start = s.old.start THEN [fs EXCEPT !.start = s.new.start] ELSE Harmed
<1>1. s.do = "move" /\ op.kind # "swap" /\ s \in Steps BY DEF MoveFs, Running, OnStep, Op
<1>2. fs \in FsRecords /\ As(fs, x.fs) /\ Harmed \in FsRecords /\ As(Harmed, x.fs) /\ x.fs \in Contents
  BY HarmedIs, ContentsFs DEF OnStep
<1>3. Spoiled \/ fs.state = x.fs.state BY DEF OnStep, Like
<1>4. s.new.start \in Int BY <1>1 DEF Steps, Places
<1>5. x.fs.state = "good" => x.fs.start = s.old.start BY <1>1 DEF OnStep, Fine
<1>7. PICK z : z = After(op.kind, Head(steps), x) OBVIOUS
<1>6. z.own = x.own /\ z.fs = [x.fs EXCEPT !.start = s.new.start]
  BY <1>1, <1>7, Fields DEF After, TableSteps
<1>8. /\ UNCHANGED table
      /\ \/ StepSucceeds /\ NoFault /\ fs' = moved
         \/ StepSucceeds /\ Fault(1) /\ fs' = Harmed /\ UNCHANGED failed
         \/ StepFails /\ UNCHANGED fs
         \/ StepStopped /\ fs' \in StoppedFs
         \/ StepReturnsFalse /\ Fault(2) /\ failed' = failed \cup {"move"} /\ fs' = Harmed
         \/ /\ cancelflag = 1 /\ StepReturnsFalse /\ Fault(1)
            /\ failed' = failed \cup {"move"} /\ fs' = Harmed
  BY DEF MoveFs
<1>9. FailsAt(op.kind, s, x, x) BY <1>1 DEF FailsAt
<1>10. 1 \in Nat /\ 1 > 0 /\ 2 \in Nat /\ 2 > 0 OBVIOUS
<1>11. CASE StepSucceeds /\ NoFault /\ fs' = moved
  <2>1. CASE fs.state = "good"
    <3> DEFINE d == [x.fs EXCEPT !.start = s.new.start]
    <3>1. fs = x.fs /\ fs.start = s.old.start BY <1>2, <1>5, <2>1 DEF As
    <3>2. moved = d BY <3>1
    <3>3. d \in FsRecords BY <1>2, <1>4 DEF FsRecords, Contents
    <3> HIDE DEF d, moved
    <3>4. moved \in FsRecords /\ As(moved, z.fs) /\ moved.state = z.fs.state BY <1>6, <3>2, <3>3 DEF As, d
    <3>5. s.do # "bug" BY <1>1
    <3> QED BY <1>6, <1>7, <1>8, <1>11, <3>4, <3>5, FsSucceeds
  <2>2. CASE fs.state # "good"
    <3>1. /\ moved \in FsRecords /\ moved.state # "good" /\ moved.volume = fs.volume
          /\ fs.start = s.old.start => moved.state = fs.state
      BY <1>2, <1>4, <2>2 DEF FsRecords, Harmed
    <3>2. z.fs.state = x.fs.state /\ z.fs.volume = x.fs.volume BY <1>2, <1>6 DEF Contents
    <3>3. Harmed.state = fs.state \/ fs.state = "damaged" \/ fs.state = "good" BY <1>2 DEF Harmed, FsRecords
    <3>4. Spoiled \/ moved.state = fs.state
      <4>1. x.fs.state \in {"good", "none"} BY <1>2 DEF Contents
      <4>2. Spoiled \/ Harmed.state = fs.state BY <1>3, <2>2, <3>3, <4>1
      <4> QED BY <3>1, <4>2
    <3>5. As(moved, z.fs) BY <1>2, <3>1, <3>2 DEF As
    <3>6. Spoiled \/ moved.state = z.fs.state BY <1>3, <3>2, <3>4
    <3>7. s.do # "bug" BY <1>1
    <3> HIDE DEF moved
    <3> QED BY <1>6, <1>7, <1>8, <1>11, <3>1, <3>5, <3>6, <3>7, FsSucceeds
  <2> QED BY <2>1, <2>2
<1>12. CASE StepSucceeds /\ Fault(1) /\ fs' = Harmed /\ UNCHANGED failed
  <2>1. faults' \in Nat /\ faults' > 0 BY <1>12, ApplyAssumption DEF Fault, OnStep, TypeOK
  <2>2. TypeOK' BY <1>2, <1>12, <2>1, StepTypes DEF OnStep
  <2>3. TableHolds' /\ table'["own"] = x.own BY <1>8, TableStays DEF OnStep, Like
  <2>4. As(Harmed, z.fs)
    <3>1. Harmed.state # "good" /\ Harmed.volume = fs.volume BY <1>2 DEF Harmed, FsRecords
    <3>2. z.fs.volume = x.fs.volume BY <1>2, <1>6 DEF Contents
    <3> QED BY <1>2, <3>1, <3>2 DEF As
  <2>5. z \in Situations BY <1>7 DEF OnStep, Sound
  <2>6. Like(z)' BY <1>6, <1>12, <2>1, <2>3, <2>4, <2>5 DEF Like, Spoiled
  <2>7. Succeeded(op, x, z) BY <1>1, <1>7, <1>12 DEF Succeeded, Fault, OnStep, TypeOK
  <2> QED BY <2>2, <2>3, <2>6, <2>7 DEF Goes, Outcome
<1>13. CASE StepFails /\ UNCHANGED fs
  <2>1. StepReturnsFalse /\ Fault(1) /\ failed' = failed \cup {Head(steps).do} BY <1>13 DEF StepFails
  <2> QED BY <1>2, <1>8, <1>9, <1>10, <1>13, <2>1, FsFails
<1>14. CASE StepStopped /\ fs' \in StoppedFs
  <2>1. Head(steps).do \notin BackSteps /\ op.kind # "swap" BY <1>1 DEF BackSteps
  <2> QED BY <1>8, <1>14, <2>1, FsStops
<1>15. CASE StepReturnsFalse /\ Fault(2) /\ failed' = failed \cup {"move"} /\ fs' = Harmed
  <2>1. failed' = failed \cup {Head(steps).do} BY <1>1, <1>15
  <2> QED BY <1>2, <1>8, <1>9, <1>10, <1>15, <2>1, FsFails
<1>16. CASE StepReturnsFalse /\ Fault(1) /\ failed' = failed \cup {"move"} /\ fs' = Harmed
  <2>1. failed' = failed \cup {Head(steps).do} BY <1>1, <1>16
  <2> QED BY <1>2, <1>8, <1>9, <1>10, <1>16, <2>1, FsFails
<1> QED BY <1>8, <1>11, <1>12, <1>13, <1>14, <1>15, <1>16

LEMMA MoveSwapGoes ==
    ASSUME NEW op, NEW x, OnStep(op, x), MoveSwap
    PROVE  Goes(op, x)
<1> DEFINE z == After(op.kind, Head(steps), x)
<1>1. Head(steps).do = "move" /\ op.kind = "swap" BY DEF MoveSwap, Running, OnStep, Op
<1>2. z = x BY <1>1 DEF After, TableSteps
<1>3. fs \in FsRecords /\ As(fs, x.fs) /\ (Spoiled \/ fs.state = x.fs.state) BY ContentsFs DEF OnStep, Like
<1>4. StepSucceeds /\ NoFault /\ UNCHANGED <<table, fs>> /\ Head(steps).do # "bug" BY <1>1 DEF MoveSwap
<1>5. z = After(op.kind, Head(steps), x) OBVIOUS
<1> HIDE DEF z
<1> QED BY <1>2, <1>3, <1>4, <1>5, FsSucceeds

-----------------------------------------------------------------------------
(* Steps on the partition table *)

\* The partition gets a place, or the step fails and it may have it anyway.
LEMMA PlaceChanges ==
    ASSUME NEW op, NEW x, OnStep(op, x), NEW p, p = NoPlace \/ (p \in Places /\ Clear(p)),
           NEW z, z = After(op.kind, Head(steps), x), z.own = p,
           ChangeTable([table EXCEPT !["own"] = p]),
           NEW c \in FsRecords, fs' = c,
           IF table'["own"] = p THEN As(c, z.fs) ELSE As(c, x.fs),
           Spoiled \/ (table'["own"] = p => c.state = z.fs.state),
           Head(steps).do \notin {"move", "bug"}
    PROVE  Goes(op, x)
<1> DEFINE new == [table EXCEPT !["own"] = p]
<1>1. TableHolds /\ table["own"] = x.own BY DEF OnStep, Like
<1>2. x \in Situations /\ z \in Situations BY DEF OnStep, Sound
<1>3. table' = new => TableHolds' /\ table'["own"] = p BY <1>1, TableChanges
<1>4. table' = table => TableHolds' /\ table'["own"] = x.own BY <1>1, TableStays
<1>5. \/ StepSucceeds /\ NoFault /\ table' = new
      \/ StepFails /\ table' \in {table, new}
  BY DEF ChangeTable, get_device_and_disk, commit
<1> HIDE DEF new
<1>6. CASE StepSucceeds /\ NoFault /\ table' = new
  <2>1. faults' = faults /\ failed' = failed /\ forced' = forced BY <1>6 DEF NoFault, StepSucceeds, dialog
  <2>2. TypeOK' BY <1>6, <2>1, StepTypes DEF OnStep, TypeOK
  <2>3. As(c, z.fs) /\ (Spoiled \/ c.state = z.fs.state) BY <1>3, <1>6
  <2>4. Spoiled' <=> Spoiled BY <2>1 DEF Spoiled
  <2>5. Like(z)' BY <1>2, <1>3, <1>6, <2>3, <2>4 DEF Like
  <2>6. Succeeded(op, x, z) BY <1>6, <2>1 DEF Succeeded, OnStep, TypeOK
  <2> QED BY <1>3, <1>6, <2>2, <2>5, <2>6 DEF Goes, Outcome
<1>7. CASE StepFails /\ table' \in {table, new}
  <2>1. StepReturnsFalse /\ faults' = faults + 1 /\ failed' = failed \cup {Head(steps).do}
    BY <1>7 DEF StepFails, Fault
  <2>2. faults' \in Nat /\ faults' > 0 BY <2>1 DEF OnStep, TypeOK
  <2>3. TypeOK' BY <2>1, <2>2, StepTypes DEF OnStep
  <2>4. TableHolds' BY <1>3, <1>4, <1>7
  <2>5. CASE table'["own"] = p
    <3>1. Like(z)' BY <1>2, <2>2, <2>5 DEF Like, Spoiled
    <3>2. GaveUp(op, x, z) BY <2>1, <2>2 DEF GaveUp, FailsAt
    <3> QED BY <2>3, <2>4, <3>1, <3>2 DEF Goes, Outcome
  <2>6. CASE table'["own"] # p
    <3>1. table'["own"] = x.own BY <1>3, <1>4, <1>7, <2>6
    <3>2. Like(x)' BY <1>2, <2>2, <2>6, <3>1 DEF Like, Spoiled
    <3>3. GaveUp(op, x, x) BY <2>1, <2>2 DEF GaveUp, FailsAt
    <3> QED BY <2>3, <2>4, <3>2, <3>3 DEF Goes, Outcome
  <2> QED BY <2>5, <2>6
<1> QED BY <1>5, <1>6, <1>7

\* Putting a partition back is never refused: nothing else has come between.
LEMMA BackClear ==
    ASSUME NEW op, NEW x, OnStep(op, x), Head(steps).do \in BackSteps
    PROVE  Clear(Head(steps).new)
<1> DEFINE s == Head(steps)
<1>1. s \in Steps /\ s.new \in Places BY DEF OnStep, Steps
<1>2. CASE s.do = "undo" BY <1>2 DEF OnStep, Fine
<1>3. CASE s.do \in {"narrow", "restore"}
  <2>1. Within(s.new, x.own) /\ x.own # NoPlace BY <1>3 DEF OnStep, Fine, Finds, TableSteps
  <2>2. x.own \in Places /\ Clear(x.own) BY <2>1 DEF OnStep, Like, TableHolds
  <2> QED BY <1>1, <2>1, <2>2, WithinClear
<1> QED BY <1>2, <1>3 DEF BackSteps

LEMMA ResizePartitionGoes ==
    ASSUME NEW op, NEW x, OnStep(op, x), resize_move_partition
    PROVE  Goes(op, x)
<1> DEFINE s == Head(steps)
<1>1. s.do \in TableSteps /\ s \in Steps /\ s.new \in Places /\ UNCHANGED fs /\ op.kind = queue[cur].kind
  BY DEF resize_move_partition, Running, TableSteps, OnStep, Steps, Op
<1>2. get_lp_partition(op.kind, s.old) = "own" BY <1>1, StepFinds DEF OnStep
<1>3. \/ Refused("own", s.new) /\ StepRefused /\ UNCHANGED table
      \/ ~Refused("own", s.new) /\ ChangeTable([table EXCEPT !["own"] = s.new])
  BY <1>1, <1>2 DEF resize_move_partition
<1>4. Refused("own", s.new) <=> ~Clear(s.new) BY RefusedIs DEF OnStep
<1>5. CASE Refused("own", s.new) /\ StepRefused /\ UNCHANGED table
  <2>1. s.do \notin BackSteps BY <1>4, <1>5, BackClear
  <2>2. s.do \in {"resize", "reduce", "widen"} BY <1>1, <2>1 DEF TableSteps, BackSteps
  <2>3. ~CanBeDone(op)
    <3>1. CanBeDone(op) => Clear(s.new) BY <2>2 DEF OnStep, Fine
    <3> QED BY <1>4, <1>5, <3>1
  <2>4. Head(steps).do \notin BackSteps \cup {"move"} BY <2>1, <2>2
  <2>5. UNCHANGED <<table, fs>> BY <1>1, <1>5
  <2> QED BY <1>5, <2>3, <2>4, <2>5, Refuses
<1>6. CASE ~Refused("own", s.new) /\ ChangeTable([table EXCEPT !["own"] = s.new])
  <2>1. PICK p : p = s.new OBVIOUS
  <2>2. PICK z : z = After(op.kind, Head(steps), x) OBVIOUS
  <2>9. z = Moved(x, p) BY <1>1, <2>1, <2>2 DEF After, TableSteps
  <2>3. z.own = p /\ z.fs = x.fs BY <2>9, Fields
  <2>4. p \in Places /\ Clear(p) BY <1>1, <1>4, <1>6, <2>1
  <2>5. ChangeTable([table EXCEPT !["own"] = p]) BY <1>6, <2>1
  <2>6. PICK c : c = fs OBVIOUS
  <2>7. fs' = c /\ c \in FsRecords /\ As(c, x.fs) /\ (Spoiled \/ c.state = x.fs.state)
    BY <1>1, <2>6 DEF OnStep, Like, TypeOK
  <2>8. Head(steps).do \notin {"move", "bug"} BY <1>1 DEF TableSteps
  <2> QED BY <2>2, <2>3, <2>4, <2>5, <2>7, <2>8, PlaceChanges
<1> QED BY <1>3, <1>5, <1>6

LEMMA CreatePartitionGoes ==
    ASSUME NEW op, NEW x, OnStep(op, x), CreatePartition
    PROVE  Goes(op, x)
<1> DEFINE s == Head(steps)
<1>1. s.do = "create_partition" /\ s \in Steps /\ s.new \in Places /\ UNCHANGED fs
  BY DEF CreatePartition, Running, OnStep, Steps
<1>3. \/ Refused("own", s.new) /\ StepRefused /\ UNCHANGED table
      \/ ~Refused("own", s.new) /\ ChangeTable([table EXCEPT !["own"] = s.new])
  BY DEF CreatePartition
<1>4. Refused("own", s.new) <=> ~Clear(s.new) BY RefusedIs DEF OnStep
<1>5. CASE Refused("own", s.new) /\ StepRefused /\ UNCHANGED table
  <2>3. ~CanBeDone(op)
    <3>1. CanBeDone(op) => Clear(s.new) BY <1>1 DEF OnStep, Fine
    <3> QED BY <1>4, <1>5, <3>1
  <2>4. Head(steps).do \notin BackSteps \cup {"move"} BY <1>1 DEF BackSteps
  <2>5. UNCHANGED <<table, fs>> BY <1>1, <1>5
  <2> QED BY <1>5, <2>3, <2>4, <2>5, Refuses
<1>6. CASE ~Refused("own", s.new) /\ ChangeTable([table EXCEPT !["own"] = s.new])
  <2>1. PICK p : p = s.new OBVIOUS
  <2>2. PICK z : z = After(op.kind, Head(steps), x) OBVIOUS
  <2>9. z = Moved(x, p) BY <1>1, <2>1, <2>2 DEF After
  <2>3. z.own = p /\ z.fs = x.fs BY <2>9, Fields
  <2>4. p \in Places /\ Clear(p) BY <1>1, <1>4, <1>6, <2>1
  <2>5. ChangeTable([table EXCEPT !["own"] = p]) BY <1>6, <2>1
  <2>6. PICK c : c = fs OBVIOUS
  <2>7. fs' = c /\ c \in FsRecords /\ As(c, x.fs) /\ (Spoiled \/ c.state = x.fs.state)
    BY <1>1, <2>6 DEF OnStep, Like, TypeOK
  <2>8. Head(steps).do \notin {"move", "bug"} BY <1>1
  <2> QED BY <2>2, <2>3, <2>4, <2>5, <2>7, <2>8, PlaceChanges
<1> QED BY <1>3, <1>5, <1>6

LEMMA DeletePartitionGoes ==
    ASSUME NEW op, NEW x, OnStep(op, x), DeletePartition
    PROVE  Goes(op, x)
<1> DEFINE s == Head(steps)
           gone == [table EXCEPT !["own"] = NoPlace]
<1>1. s.do = "delete_partition" /\ s \in Steps /\ op.kind = queue[cur].kind
  BY DEF DeletePartition, Running, OnStep, Op
<1>2. get_lp_partition(op.kind, s.old) = "own" /\ x.own # NoPlace BY <1>1, StepFinds DEF OnStep
<1>3. ChangeTable(gone) /\ fs' = IF table' = gone THEN NoFs ELSE fs BY <1>1, <1>2 DEF DeletePartition
<1>4. table["own"] = x.own /\ TableHolds /\ As(fs, x.fs) /\ fs \in FsRecords /\ x.fs \in Contents
  BY ContentsFs DEF OnStep, Like
<1>5. gone["own"] = NoPlace /\ gone # table BY <1>2, <1>4 DEF TableHolds, Disk
<1>6. PICK z : z = After(op.kind, Head(steps), x) OBVIOUS
<1>7. z.own = NoPlace /\ z.fs = [x.fs EXCEPT !.state = "none"] BY <1>1, <1>6 DEF After, TableSteps, Situation
<1>8. z.fs.state = "none" /\ z.fs.volume = x.fs.volume BY <1>4, <1>7 DEF Contents
<1>9. NoFs \in FsRecords /\ NoFs.state = "none" /\ NoFs.volume = fs.volume BY <1>4 DEF NoFs, FsRecords
<1>10. table' = gone \/ table' = table BY <1>3 DEF ChangeTable, get_device_and_disk, commit
<1> HIDE DEF gone
<1>11. PICK c : c = fs' OBVIOUS
<1>12. CASE table' = gone
  <2>1. table'["own"] = NoPlace /\ c = NoFs BY <1>3, <1>5, <1>11, <1>12
  <2>2. c \in FsRecords /\ As(c, z.fs) /\ c.state = z.fs.state BY <1>4, <1>8, <1>9, <2>1 DEF As
  <2>3. ChangeTable([table EXCEPT !["own"] = NoPlace]) BY <1>3 DEF gone
  <2>4. Head(steps).do \notin {"move", "bug"} BY <1>1
  <2> QED BY <1>6, <1>7, <1>11, <2>1, <2>2, <2>3, <2>4, PlaceChanges
<1>13. CASE table' = table
  <2>1. table'["own"] # NoPlace /\ c = fs BY <1>2, <1>3, <1>4, <1>5, <1>11, <1>13
  <2>2. c \in FsRecords /\ As(c, x.fs) BY <1>4, <2>1
  <2>3. ChangeTable([table EXCEPT !["own"] = NoPlace]) BY <1>3 DEF gone
  <2>4. Head(steps).do \notin {"move", "bug"} BY <1>1
  <2> QED BY <1>6, <1>7, <1>11, <2>1, <2>2, <2>3, <2>4, PlaceChanges
<1> QED BY <1>10, <1>12, <1>13

LEMMA CalibrateGoes ==
    ASSUME NEW op, NEW x, OnStep(op, x), calibrate
    PROVE  Goes(op, x)
<1> DEFINE s == Head(steps)
<1>1. s.do = "calibrate" /\ s \in Steps /\ s.old \in Places /\ op.kind = queue[cur].kind /\ UNCHANGED <<table, fs>>
  BY DEF calibrate, Running, OnStep, Op, Steps
<1>2. get_lp_partition(op.kind, s.old) # "none"
  <2>1. CASE Finds(op.kind, s.old, x)
    <3>1. table["own"] = x.own BY DEF OnStep, Like
    <3>2. get_lp_partition(op.kind, s.old) = "own" BY <1>1, <2>1, <3>1, OwnFound DEF Finds, OnStep
    <3> QED BY <3>2
  <2>2. CASE op.kind # "extended" /\ \E n \in DOMAIN Neighbours : Holds(Neighbours[n], Middle(s.old))
    <3>1. Sources(s.old) # {} BY <2>2 DEF Sources
    <3> QED BY <1>1, <2>2, <3>1, SourceFound, NeighboursPlaces DEF OnStep
  <2>3. CASE op.kind = "extended" BY <2>3 DEF get_lp_partition
  <2> QED BY <1>1, <2>1, <2>2, <2>3 DEF OnStep, Fine
<1>3. (StepSucceeds /\ NoFault) \/ StepFails BY <1>1, <1>2 DEF calibrate
<1>4. Effect(op, x, x, fs) /\ After(op.kind, Head(steps), x) = x BY <1>1, IdleIs
<1>5. As(fs, x.fs) /\ fs \in FsRecords /\ (Spoiled \/ fs.state = x.fs.state) BY <1>4 DEF Effect
<1>6. CASE StepSucceeds /\ NoFault
  <2>1. Head(steps).do # "bug" BY <1>1
  <2> QED BY <1>1, <1>4, <1>5, <1>6, <2>1, FsSucceeds
<1>7. CASE StepFails
  <2>1. StepReturnsFalse /\ Fault(1) /\ failed' = failed \cup {Head(steps).do} BY <1>7 DEF StepFails
  <2>2. FailsAt(op.kind, Head(steps), x, x) BY <1>1 DEF FailsAt
  <2>3. 1 \in Nat /\ 1 > 0 OBVIOUS
  <2> QED BY <1>1, <1>5, <2>1, <2>2, <2>3, FsFails
<1> QED BY <1>3, <1>6, <1>7

LEMMA BugGoes ==
    ASSUME NEW op, NEW x, OnStep(op, x), Bug
    PROVE  Goes(op, x)
<1>1. Head(steps).do = "bug" /\ StepRefused /\ UNCHANGED <<table, fs>> BY DEF Bug, Running
<1>2. ~CanBeDone(op) BY <1>1 DEF OnStep, Fine
<1>3. Head(steps).do \notin BackSteps \cup {"move"} BY <1>1 DEF BackSteps
<1> QED BY <1>1, <1>2, <1>3, Refuses

LEMMA StepGoes ==
    ASSUME NEW op, NEW x, OnStep(op, x), TakeStep
    PROVE  Goes(op, x)
<1>1. CASE Shrink BY <1>1, ShrinkGoes DEF Shrink
<1>2. CASE Maximize BY <1>2, MaximizeGoes DEF Maximize
<1>3. CASE ShrinkEncryption BY <1>3, VolumeShrinkGoes DEF ShrinkEncryption, VolumeShrunk
<1>4. CASE MaximizeEncryption BY <1>4, VolumeGrowGoes DEF MaximizeEncryption, VolumeGrown
<1>5. CASE EraseSignatures BY <1>5, EraseGoes DEF EraseSignatures
<1>6. CASE CreateFilesystem BY <1>6, CreateGoes DEF CreateFilesystem
<1>7. CASE CopyFilesystem BY <1>7, CopyGoes DEF CopyFilesystem
<1>8. CASE OtherStep BY <1>8, IdleGoes DEF OtherStep, IdleSteps
<1> QED BY <1>1, <1>2, <1>3, <1>4, <1>5, <1>6, <1>7, <1>8, LibpartedGoes, MoveGoes, MoveSwapGoes,
           ResizePartitionGoes, CreatePartitionGoes, DeletePartitionGoes, CalibrateGoes, BugGoes
        DEF TakeStep

-----------------------------------------------------------------------------
(* The invariant holds *)

LEMMA NothingLeft ==
    ASSUME NEW kind, NEW possible, NEW x, NEW y, Leads(kind, possible, x, <<>>, y)
    PROVE  x = y /\ Sound(kind, x)
<1> DEFINE none == << >>
<1>1. none \in Seq(Steps) /\ Len(none) = 0 BY EmptySeq
<1>2. Leads(kind, possible, x, none, y) OBVIOUS
<1> HIDE DEF none
<1>3. PICK w \in [1 .. Len(none) + 1 -> Situations] :
        /\ w[1] = x /\ w[Len(none) + 1] = y
        /\ \A i \in 1 .. Len(none) + 1 : Sound(kind, w[i])
  BY <1>2 DEF Leads
<1>4. w[1] = y /\ 1 \in 1 .. Len(none) + 1 BY <1>1, <1>3
<1> QED BY <1>3, <1>4

LEMMA BuggedRest ==
    ASSUME NEW ss \in Seq(Steps), ss # <<>>, Bugged(ss), Head(ss).do # "bug"
    PROVE  Bugged(Tail(ss))
<1> DEFINE rest == Tail(ss)
<1>1. /\ Len(ss) \in Nat \ {0} /\ rest \in Seq(Steps) /\ Len(rest) = Len(ss) - 1 /\ Head(ss) = ss[1]
      /\ \A i \in 1 .. Len(ss) - 1 : rest[i] = ss[i + 1]
  BY HeadTailProperties, EmptySeq
<1> HIDE DEF rest
<1>2. PICK i \in DOMAIN ss : ss[i].do = "bug" BY DEF Bugged
<1>3. i \in 1 .. Len(ss) /\ i # 1 BY <1>1, <1>2, LenProperties
<1>4. i - 1 \in 1 .. Len(ss) - 1 /\ (i - 1) + 1 = i BY <1>1, <1>3
<1>5. rest[i - 1] = ss[i] BY <1>1, <1>4
<1>6. i - 1 \in DOMAIN rest BY <1>1, <1>4, LenProperties
<1>7. Bugged(rest) BY <1>2, <1>5, <1>6 DEF Bugged
<1> QED BY <1>7 DEF rest

LEMMA NothingBugged == ~Bugged(<<>>)
<1> DEFINE none == << >>
<1>1. DOMAIN none = {} OBVIOUS
<1> HIDE DEF none
<1>2. ~Bugged(none) BY <1>1 DEF Bugged
<1> QED BY <1>2 DEF none

\* A step of an operation
LEMMA StepKeeps ==
    ASSUME ApplyInv, TakeStep
    PROVE  ApplyInv'
<1>1. pc = "op" /\ steps # <<>>
  BY DEF TakeStep, resize_move_partition, CreatePartition, DeletePartition, Shrink, Maximize,
         resize_move_filesystem_using_libparted, UsesLibparted, ShrinkEncryption, MaximizeEncryption,
         EraseSignatures, CreateFilesystem, CopyFilesystem, MoveFs, MoveSwap, OtherStep, calibrate, Bug,
         FsStep, Running
<1>2. TypeOK /\ QueueHolds /\ CancelHolds /\ TableHolds /\ cur <= Len(queue) /\ (~success => Blamed(Op))
  BY <1>1 DEF ApplyInv, InOperation
<1>3. PICK x, y : Going(Op, x, y) BY <1>1 DEF ApplyInv, InOperation
<1>4. PICK op : op = Op OBVIOUS
<1>5. Going(op, x, y) BY <1>3, <1>4
<1>6. cur \in 1 .. Len(queue) BY <1>2 DEF TypeOK, QueueHolds
<1>7. Queueable(op) BY <1>2, <1>4, <1>6 DEF QueueHolds, Op
<1> DEFINE s == Head(steps)
<1>8. Like(x) /\ Leads(op.kind, CanBeDone(op), x, steps, y) /\ (Excused \/ AtHome(op.kind, y))
      /\ (success => Done(op, y) \/ Bugged(steps))
  BY <1>5 DEF Going
<1>9. /\ s \in Steps /\ Fine(op.kind, CanBeDone(op), s, x)
      /\ Sound(op.kind, x) /\ Sound(op.kind, After(op.kind, s, x))
      /\ Leads(op.kind, CanBeDone(op), After(op.kind, s, x), Tail(steps), y)
  BY <1>1, <1>8, ThenRest
<1>10. steps \in Seq(Steps) BY <1>8 DEF Leads
<1>11. OnStep(op, x) BY <1>1, <1>2, <1>4, <1>7, <1>8, <1>9 DEF OnStep
<1>12. Goes(op, x) BY <1>11, StepGoes
<1>13. TypeOK' /\ TableHolds' BY <1>12 DEF Goes
<1>14. PICK z : Like(z)' /\ (Succeeded(op, x, z) \/ GaveUp(op, x, z)) BY <1>12 DEF Goes, Outcome
<1>15. UNCHANGED dialog /\ cancelflag' = 0
  BY <1>14 DEF Succeeded, GaveUp, StepSucceeds, StepReturnsFalse
<1>16. /\ queue' = queue /\ cur' = cur /\ m_success' = m_success /\ m_cancel' = m_cancel /\ pc' = pc
       /\ forced' = forced
  BY <1>15 DEF dialog
<1>17. QueueHolds' /\ CancelHolds' /\ Op' = op
  BY <1>2, <1>4, <1>15, <1>16 DEF QueueHolds, CancelHolds, Op
<1>18. InOperation'
  <2>1. CASE Succeeded(op, x, z)
    <3>1. /\ steps' = Tail(steps) /\ success' = success /\ failed' = failed
          /\ z = After(op.kind, s, x) /\ s.do # "bug"
      BY <2>1 DEF Succeeded, StepSucceeds
    <3>2. Leads(op.kind, CanBeDone(op), z, steps', y) BY <1>9, <3>1
    <3>3. success' => Done(op, y) \/ Bugged(steps') BY <1>1, <1>8, <1>10, <3>1, BuggedRest
    <3>4. Excused' \/ AtHome(op.kind, y) BY <1>8, <3>1 DEF Excused
    <3>5. Going(op, z, y)' BY <1>14, <3>2, <3>3, <3>4 DEF Going
    <3>6. ~success' => faults' > 0 \/ m_cancel' \/ ~CanBeDone(op)
      <4>1. faults' >= faults BY <2>1 DEF Succeeded
      <4>2. faults \in Nat /\ faults' \in Nat BY <1>2, <1>13 DEF TypeOK
      <4> QED BY <1>2, <1>4, <1>16, <3>1, <4>1, <4>2 DEF Blamed
    <3> QED BY <1>2, <1>16, <1>17, <3>5, <3>6 DEF InOperation, Blamed
  <2>2. CASE GaveUp(op, x, z)
    <3>1. /\ steps' = OnFailure(s) /\ success' = FALSE /\ failed \subseteq failed'
          /\ FailsAt(op.kind, s, x, z) /\ (s.do \in BackSteps => s.do \in failed')
          /\ faults' > 0 \/ m_cancel \/ ~CanBeDone(op)
      BY <2>2 DEF GaveUp, StepReturnsFalse
    <3>2. x.own # NoPlace => Clear(x.own) BY <1>2, <1>8 DEF TableHolds, Like
    <3>3. PICK v : /\ Leads(op.kind, CanBeDone(op), z, OnFailure(s), v)
                   /\ s.do \in BackSteps \/ AtHome(op.kind, v)
      BY <1>9, <3>1, <3>2, FailureLeads
    <3>4. Leads(op.kind, CanBeDone(op), z, steps', v) BY <3>1, <3>3
    <3>5. Excused' \/ AtHome(op.kind, v) BY <3>1, <3>3 DEF Excused, BackSteps
    <3>6. Going(op, z, v)' BY <1>14, <3>1, <3>4, <3>5 DEF Going
    <3> QED BY <1>2, <1>16, <1>17, <3>1, <3>6 DEF InOperation, Blamed
  <2> QED BY <1>14, <2>1, <2>2
<1> QED BY <1>1, <1>13, <1>16, <1>17, <1>18 DEF ApplyInv

\* The next operation starts where the last has been done.
LEMMA BeginKeeps ==
    ASSUME ApplyInv, BeginOperation
    PROVE  ApplyInv'
<1>1. pc = "dialog" /\ cur <= Len(queue) /\ m_success /\ pc' = "op" /\ success' = TRUE /\ cancelflag' = 0
      /\ steps' = apply_operation_to_disk(queue[cur])
  BY DEF BeginOperation
<1>2. /\ queue' = queue /\ cur' = cur /\ m_success' = m_success /\ m_cancel' = m_cancel /\ table' = table
      /\ fs' = fs /\ failed' = failed /\ faults' = faults /\ forced' = forced
  BY DEF BeginOperation
<1>3. TypeOK /\ QueueHolds /\ CancelHolds /\ TableHolds /\ InDialog BY <1>1 DEF ApplyInv
<1>4. PICK x : Between(x) BY <1>3 DEF InDialog
<1>5. PICK op : op = Op OBVIOUS
<1>6. cur \in 1 .. Len(queue) BY <1>1, <1>3 DEF TypeOK, QueueHolds
<1>7. Queueable(op) BY <1>3, <1>5, <1>6 DEF QueueHolds, Op
<1>8. Start(op, x)
  <2>1. CASE cur = 1 BY <1>4, <1>5, <2>1 DEF Between, Op
  <2>2. CASE cur > 1
    <3>1. PICK before : before = queue[cur - 1] OBVIOUS
    <3>2. Left(before, x) BY <1>4, <2>2, <3>1 DEF Between
    <3>3. Done(before, x) BY <1>1, <3>2 DEF Left
    <3>4. cur \in 2 .. Len(queue) BY <1>6, <2>2
    <3>5. Follows(op, before) BY <1>3, <1>5, <3>1, <3>4 DEF QueueHolds, Op
    <3> QED BY <1>7, <3>3, <3>5, DoneThenStart
  <2> QED BY <1>6, <2>1, <2>2
<1>9. Like(x) BY <1>4 DEF Between
<1>10. LeadsThrough(op, x, apply_operation_to_disk(op)) BY <1>3, <1>7, <1>8, <1>9, OperationLeads DEF Like
<1>11. steps' = apply_operation_to_disk(op) BY <1>1, <1>5 DEF Op
<1>12. PICK y : /\ Leads(op.kind, CanBeDone(op), x, apply_operation_to_disk(op), y)
                /\ AtHome(op.kind, y)
                /\ Done(op, y) \/ Bugged(apply_operation_to_disk(op))
  BY <1>10 DEF LeadsThrough
<1>13. Like(x)' BY <1>2, <1>9 DEF Like, Spoiled
<1>14. Going(op, x, y)' BY <1>11, <1>12, <1>13 DEF Going
<1>15. Op' = op BY <1>2, <1>5 DEF Op
<1>16. InOperation' BY <1>1, <1>2, <1>14, <1>15 DEF InOperation
<1>17. TypeOK' /\ QueueHolds' /\ CancelHolds' BY <1>1, <1>2, <1>3 DEF TypeOK, QueueHolds, CancelHolds
<1>18. TableHolds' BY <1>2, <1>3, TableStays
<1> QED BY <1>1, <1>16, <1>17, <1>18 DEF ApplyInv

LEMMA EndKeeps ==
    ASSUME ApplyInv, EndOperation
    PROVE  ApplyInv'
<1>1. pc = "op" /\ steps = <<>> /\ pc' = "dialog" /\ m_success' = success /\ cur' = cur + 1
  BY DEF EndOperation
<1>2. /\ queue' = queue /\ m_cancel' = m_cancel /\ steps' = steps /\ success' = success
      /\ cancelflag' = cancelflag /\ table' = table
      /\ fs' = fs /\ failed' = failed /\ faults' = faults /\ forced' = forced
  BY DEF EndOperation
<1>3. TypeOK /\ QueueHolds /\ CancelHolds /\ TableHolds /\ cur <= Len(queue) BY <1>1 DEF ApplyInv, InOperation
<1>4. PICK x, y : Going(Op, x, y) BY <1>1 DEF ApplyInv, InOperation
<1>5. PICK op : op = Op OBVIOUS
<1>6. /\ Like(x) /\ Leads(op.kind, CanBeDone(op), x, steps, y) /\ (Excused \/ AtHome(op.kind, y))
      /\ (success => Done(op, y) \/ Bugged(steps))
  BY <1>4, <1>5 DEF Going
<1>7. Leads(op.kind, CanBeDone(op), x, <<>>, y) BY <1>1, <1>6
<1>8. x = y /\ Sound(op.kind, x) BY <1>7, NothingLeft
<1>9. success => Done(op, x) BY <1>1, <1>6, <1>8, NothingBugged
<1>10. Like(x)' BY <1>2, <1>6 DEF Like, Spoiled
<1>11. Left(op, x)'
  <2>1. Excused' \/ AtHome(op.kind, x) BY <1>2, <1>6, <1>8 DEF Excused
  <2>2. m_success' => Done(op, x) BY <1>1, <1>9
  <2> QED BY <1>8, <2>1, <2>2 DEF Left
<1>12. cur \in Nat \ {0} /\ Len(queue) \in Nat BY <1>3 DEF TypeOK, QueueHolds
<1>13. queue'[cur' - 1] = op /\ cur' # 1
  <2>1. cur' - 1 = cur /\ cur' # 1 BY <1>1, <1>12
  <2> QED BY <1>2, <1>5, <2>1 DEF Op
<1>14. Between(x)' BY <1>10, <1>11, <1>13 DEF Between
<1>15. InDialog' BY <1>1, <1>2, <1>3, <1>12, <1>14 DEF InDialog
<1>16. TypeOK' /\ QueueHolds' /\ CancelHolds' BY <1>1, <1>2, <1>3 DEF TypeOK, QueueHolds, CancelHolds
<1>17. TableHolds' BY <1>2, <1>3, TableStays
<1> QED BY <1>1, <1>15, <1>16, <1>17 DEF ApplyInv

LEMMA DialogKeeps ==
    ASSUME ApplyInv, EndDialog
    PROVE  ApplyInv'
<1>1. pc = "dialog" /\ pc' = "ended" BY DEF EndDialog
<1>2. /\ queue' = queue /\ cur' = cur /\ m_success' = m_success /\ m_cancel' = m_cancel /\ steps' = steps
      /\ success' = success /\ cancelflag' = cancelflag /\ table' = table
      /\ fs' = fs /\ failed' = failed /\ faults' = faults /\ forced' = forced
  BY DEF EndDialog
<1>3. TypeOK /\ QueueHolds /\ CancelHolds /\ TableHolds /\ InDialog BY <1>1 DEF ApplyInv
<1>4. PICK x : Between(x) BY <1>3 DEF InDialog
<1>5. Between(x)' BY <1>2, <1>4 DEF Between, Like, Spoiled, Left, Excused
<1>6. InDialog' BY <1>2, <1>3, <1>5 DEF InDialog
<1>7. TypeOK' /\ QueueHolds' /\ CancelHolds' BY <1>1, <1>2, <1>3 DEF TypeOK, QueueHolds, CancelHolds
<1>8. TableHolds' BY <1>2, <1>3, TableStays
<1> QED BY <1>1, <1>6, <1>7, <1>8 DEF ApplyInv

\* A cancel gives a failure a reason, and a forced one damages an excuse.
LEMMA CancelKeeps ==
    ASSUME ApplyInv, Cancel \/ ForceCancel
    PROVE  ApplyInv'
<1>1. pc = "op" /\ m_cancel' = TRUE /\ cancelflag' \in 0 .. 2 /\ (cancelflag' = 2 => forced' = TRUE)
      /\ (forced' = forced \/ forced' = TRUE)
  <2>1. CASE Cancel BY <2>1 DEF Cancel
  <2>2. CASE ForceCancel
    <3>1. m_cancel = TRUE BY <2>2 DEF ForceCancel, ApplyInv, TypeOK
    <3> QED BY <2>2, <3>1 DEF ForceCancel
  <2> QED BY <2>1, <2>2
<1>2. /\ queue' = queue /\ cur' = cur /\ m_success' = m_success /\ pc' = pc /\ steps' = steps
      /\ success' = success /\ table' = table /\ fs' = fs /\ failed' = failed /\ faults' = faults
  BY DEF Cancel, ForceCancel
<1>3. TypeOK /\ QueueHolds /\ TableHolds /\ cur <= Len(queue) BY <1>1 DEF ApplyInv, InOperation
<1>4. PICK x, y : Going(Op, x, y) BY <1>1 DEF ApplyInv, InOperation
<1>5. PICK op : op = Op OBVIOUS
<1>6. Op' = op BY <1>2, <1>5 DEF Op
<1>7. forced => forced' BY <1>1
<1>8. Like(x)' BY <1>2, <1>4, <1>7 DEF Going, Like, Spoiled
<1>9. Going(op, x, y)' BY <1>2, <1>4, <1>5, <1>8 DEF Going, Excused
<1>10. InOperation' BY <1>1, <1>2, <1>3, <1>6, <1>9 DEF InOperation, Blamed
<1>11. TypeOK' /\ QueueHolds' /\ CancelHolds' BY <1>1, <1>2, <1>3 DEF TypeOK, QueueHolds, CancelHolds
<1>12. TableHolds' BY <1>2, <1>3, TableStays
<1> QED BY <1>1, <1>2, <1>10, <1>11, <1>12 DEF ApplyInv

LEMMA ApplyStutters ==
    ASSUME ApplyInv, UNCHANGED vars
    PROVE  ApplyInv'
<1>1. /\ queue' = queue /\ cur' = cur /\ m_success' = m_success /\ m_cancel' = m_cancel /\ steps' = steps
      /\ success' = success /\ cancelflag' = cancelflag /\ table' = table /\ pc' = pc
      /\ fs' = fs /\ failed' = failed /\ faults' = faults /\ forced' = forced
  BY DEF vars
<1> QED BY <1>1 DEF ApplyInv, TypeOK, QueueHolds, CancelHolds, TableHolds, Disk, InOperation, InDialog, Going,
      Between, Like, Spoiled, Left, Excused, Blamed, Op

LEMMA ApplyStarts == Init => ApplyInv
<1> SUFFICES ASSUME Init PROVE ApplyInv OBVIOUS
<1>1. PICK s \in Scenarios : /\ queue = s.queue /\ fs = s.fs
                             /\ table = [n \in DOMAIN Neighbours \cup {"own"} |->
                                           IF n = "own" THEN s.own ELSE Neighbours[n]]
  BY DEF Init
<1>2. /\ cur = 1 /\ m_success = TRUE /\ m_cancel = FALSE /\ pc = "dialog" /\ steps = <<>> /\ success = TRUE
      /\ cancelflag = 0 /\ failed = {} /\ faults = 0 /\ forced = FALSE
  BY DEF Init
<1>3. /\ s.own = NoPlace \/ (IsPlace(s.own) /\ \A n \in DOMAIN Neighbours : ~Overlapping(Neighbours[n], s.own))
      /\ s.fs \in [state : {"good", "none"}, start : Int, length : Int, volume : Int]
      /\ Len(s.queue) \in Nat \ {0} /\ DOMAIN s.queue = 1 .. Len(s.queue)
      /\ \A i \in DOMAIN s.queue : Queueable(s.queue[i])
      /\ Begins(s, s.queue[1])
      /\ \A i \in 2 .. Len(s.queue) : Follows(s.queue[i], s.queue[i - 1])
  BY ScenarioAssumption
<1>4. table = Disk(s.own) /\ table["own"] = s.own BY <1>1 DEF Disk
<1>5. TableHolds BY <1>3, <1>4 DEF TableHolds, Clear, IsPlace, Places
<1>6. QueueHolds BY <1>1, <1>3 DEF QueueHolds
<1>7. TypeOK
  <2>1. fs \in FsRecords BY <1>1, <1>3 DEF FsRecords
  <2>2. m_success \in BOOLEAN /\ m_cancel \in BOOLEAN /\ success \in BOOLEAN /\ forced \in BOOLEAN BY <1>2
  <2>3. pc \in {"dialog", "op", "ended"} /\ cur \in Nat \ {0} /\ cancelflag \in 0 .. 2 /\ faults \in Nat BY <1>2
  <2> QED BY <2>1, <2>2, <2>3 DEF TypeOK
<1>8. PICK x : x = Situation(s.own, s.fs) OBVIOUS
<1>9. x.own = s.own /\ x.fs = s.fs /\ x \in Situations
  BY <1>3, <1>8 DEF Situation, Situations, Contents, IsPlace, Places
<1>10. Like(x) BY <1>1, <1>4, <1>9 DEF Like, As
<1>11. PICK op : op = queue[1] OBVIOUS
<1>12. Queueable(op) /\ Begins(s, op) BY <1>1, <1>3, <1>11
<1>13. Tidy(op.kind, x)
  <2>1. Fits(op.kind, x.own, x.fs) BY <1>9, <1>12 DEF Begins
  <2>2. x.own # NoPlace => x.own \in Places BY <1>9 DEF Situations
  <2>3. x.fs \in Contents BY <1>9 DEF Situations
  <2>4. Sound(op.kind, x)
    BY <1>9, <2>1, <2>2, <2>3 DEF Sound, Fits, Open, PlaceLength, Places, Contents
  <2> QED BY <2>1, <2>4 DEF Tidy, Fits, Open
<1>14. Start(op, x) BY <1>9, <1>12, <1>13 DEF Start, Begins, PlaceBefore
<1>15. Between(x) BY <1>2, <1>10, <1>11, <1>14 DEF Between
<1>16. InDialog BY <1>1, <1>2, <1>3, <1>15 DEF InDialog
<1> QED BY <1>2, <1>5, <1>6, <1>7, <1>16 DEF ApplyInv, CancelHolds

LEMMA NextKeeps == ApplyInv /\ [Next]_vars => ApplyInv'
<1> SUFFICES ASSUME ApplyInv, [Next]_vars PROVE ApplyInv' OBVIOUS
<1> QED BY StepKeeps, BeginKeeps, EndKeeps, DialogKeeps, CancelKeeps, ApplyStutters DEF Next

\* Whatever the disk, the queue, the faults and the cancels: there is a sound
\* situation which the disk is like, and the steps still to take lead from it to
\* one where the partition begins with its file system (Dialog_Progress and
\* GParted_Core::apply_operation_to_disk()).
THEOREM ApplyInvariance == Spec => []ApplyInv
BY ApplyStarts, NextKeeps, PTL DEF Spec

-----------------------------------------------------------------------------
(* What follows *)

\* What the invariant says in the middle of an operation
LEMMA Midway ==
    ASSUME ApplyInv, pc = "op"
    PROVE  \E x : /\ Like(x) /\ TableHolds /\ Queueable(Op) /\ Sound(Op.kind, x)
                  /\ steps # <<>> => Head(steps) \in Steps /\ Fine(Op.kind, CanBeDone(Op), Head(steps), x)
<1>1. TypeOK /\ QueueHolds /\ TableHolds /\ cur <= Len(queue) BY DEF ApplyInv, InOperation
<1>2. PICK x, y : Going(Op, x, y) BY DEF ApplyInv, InOperation
<1>3. Like(x) /\ Leads(Op.kind, CanBeDone(Op), x, steps, y) BY <1>2 DEF Going
<1>4. cur \in 1 .. Len(queue) BY <1>1 DEF TypeOK, QueueHolds
<1>5. Queueable(Op) BY <1>1, <1>4 DEF QueueHolds, Op
<1>6. CASE steps = <<>>
  <2>1. Leads(Op.kind, CanBeDone(Op), x, <<>>, y) BY <1>3, <1>6
  <2>2. Sound(Op.kind, x) BY <2>1, NothingLeft
  <2> QED BY <1>1, <1>3, <1>5, <1>6, <2>2
<1>7. CASE steps # <<>>
  <2>1. Head(steps) \in Steps /\ Fine(Op.kind, CanBeDone(Op), Head(steps), x) /\ Sound(Op.kind, x)
    BY <1>3, <1>7, ThenRest
  <2> QED BY <1>1, <1>3, <1>5, <2>1
<1> QED BY <1>6, <1>7

LEMMA NestedNow ==
    ASSUME ApplyInv
    PROVE  Nested
<1> SUFFICES ASSUME HasFs, pc = "op"
             PROVE  /\ Op.kind \notin {"swap", "open_swap"} =>
                          table["own"].start <= fs.start /\ FsEnd <= table["own"].end
                    /\ Opened => fs.volume <= PlaceLength(table["own"])
                    /\ Op.kind = "open" => fs.length <= fs.volume
  BY DEF Nested
<1>1. PICK x : Like(x) /\ Sound(Op.kind, x) BY Midway
<1>2. table["own"] = x.own /\ fs = x.fs /\ x.own # NoPlace /\ x.fs.state = "good"
  BY <1>1 DEF Like, As, HasFs
<1>3. Opened <=> Open(Op.kind) BY DEF Opened, Open, Op
<1> QED BY <1>1, <1>2, <1>3 DEF Sound, FsEnd

LEMMA WritesInsideNow ==
    ASSUME ApplyInv
    PROVE  WritesInside
<1> SUFFICES ASSUME pc = "op", steps # <<>>, ~(Op.kind = "swap" /\ Head(steps).do = "move"),
                    NEW p \in Written(Head(steps))
             PROVE  table["own"] # NoPlace /\ Within(p, table["own"])
  BY DEF WritesInside
<1> DEFINE s == Head(steps)
<1>1. PICK x : Like(x) /\ Sound(Op.kind, x) /\ s \in Steps /\ Fine(Op.kind, CanBeDone(Op), s, x) BY Midway
<1>2. table["own"] = x.own BY <1>1 DEF Like
<1>3. s.old \in Places /\ s.new \in Places BY <1>1 DEF Steps
<1>4. CASE s.do \in {"erase", "create_filesystem", "recreate"}
  <2>1. p = s.new BY <1>4 DEF Written
  <2>2. Within(s.new, x.own) /\ x.own # NoPlace BY <1>1, <1>4 DEF Fine, FsSteps
  <2> QED BY <1>2, <2>1, <2>2
<1>5. CASE s.do = "move"
  <2>1. p \in {s.old, s.new} BY <1>5 DEF Written
  <2>2. x.own = partition_all_space(s.old, s.new) BY <1>1, <1>5 DEF Fine
  <2>3. Within(s.old, x.own) /\ Within(s.new, x.own) /\ x.own \in Places
    BY <1>3, <2>2 DEF partition_all_space, Within, Places, Place, Most, Least
  <2> QED BY <1>1, <1>2, <2>1, <2>3, OwnIsPlace
<1>6. CASE s.do = "copy"
  <2>1. p = Place(s.new.start, s.new.start + PlaceLength(s.old) - 1) BY <1>6 DEF Written
  <2>2. Within(Place(s.new.start, s.new.start + PlaceLength(s.old) - 1), x.own) /\ x.own # NoPlace
    BY <1>1, <1>6 DEF Fine, FsSteps
  <2> QED BY <1>2, <2>1, <2>2
<1> QED BY <1>4, <1>5, <1>6 DEF Written

\* Nothing ever reaches out of the partition operated on into its neighbours,
\* whichever step fails or is stopped: partitions shrink after what they hold and
\* grow before it, and move() widens before it writes (resize_plain(),
\* resize_encryption(), move(), copy()).
THEOREM NothingReachesOut == Spec => []StaysInside
<1>1. ApplyInv => StaysInside BY NestedNow, WritesInsideNow DEF StaysInside
<1> QED BY <1>1, ApplyInvariance, PTL

\* The middle sector of the place a step is given is in the partition operated
\* on and in no other, also in a rollback which does not know whether the failed
\* step had changed it (GParted_Core.cc:2718-2721).
THEOREM AlwaysTargetFound == Spec => []TargetFound
<1>1. ASSUME ApplyInv PROVE TargetFound
  <2> SUFFICES ASSUME Running({"resize", "reduce", "widen", "narrow", "restore", "undo", "delete_partition"})
               PROVE  get_lp_partition(Op.kind, Head(steps).old) = "own"
    BY DEF TargetFound
  <2>1. pc = "op" /\ steps # <<>> /\ Head(steps).do \in TableSteps \cup {"delete_partition"}
    BY DEF Running, TableSteps
  <2>2. PICK x : /\ Like(x) /\ TableHolds /\ Head(steps) \in Steps
                 /\ Fine(Op.kind, CanBeDone(Op), Head(steps), x)
    BY <1>1, <2>1, Midway
  <2> QED BY <2>1, <2>2, StepFinds
<1> QED BY <1>1, ApplyInvariance, PTL

\* When an operation is over, however it went, the partition starts where its
\* file system does, unless putting it there was what failed; and the file
\* system is damaged only after a fault or a forced cancel.
THEOREM AlwaysMountable == Spec => []Mountable
<1>1. ASSUME ApplyInv PROVE Mountable
  <2> SUFFICES ASSUME pc # "op", table["own"] # NoPlace
               PROVE  /\ HasFs /\ queue[Most(1, cur - 1)].kind # "swap"
                            /\ failed \cap {"narrow", "restore", "undo"} = {} =>
                              fs.start = table["own"].start
                      /\ fs.state = "damaged" => forced \/ faults > 0
    BY DEF Mountable
  <2>1. TypeOK /\ InDialog BY <1>1 DEF ApplyInv
  <2>2. PICK x : Between(x) BY <2>1 DEF InDialog
  <2>3. Like(x) BY <2>2 DEF Between
  <2>4. PICK op : op = queue[Most(1, cur - 1)] OBVIOUS
  <2>5. Excused \/ AtHome(op.kind, x)
    <3>1. CASE cur = 1
      <4>1. op = queue[1] BY <2>4, <3>1 DEF Most
      <4>2. Start(op, x) BY <2>2, <3>1, <4>1 DEF Between
      <4> QED BY <4>2, TidyIs DEF Start
    <3>2. CASE cur > 1
      <4>1. Most(1, cur - 1) = cur - 1 BY <2>1, <3>2 DEF Most, TypeOK
      <4>2. op = queue[cur - 1] BY <2>4, <4>1
      <4>3. Left(op, x) BY <2>2, <3>2, <4>2 DEF Between
      <4> QED BY <4>3 DEF Left
    <3> QED BY <2>1, <3>1, <3>2 DEF TypeOK
  <2>6. ASSUME HasFs, op.kind # "swap", failed \cap {"narrow", "restore", "undo"} = {}
        PROVE  fs.start = table["own"].start
    BY <2>3, <2>5, <2>6 DEF Excused, AtHome, Like, As, HasFs
  <2>7. ASSUME fs.state = "damaged" PROVE forced \/ faults > 0
    <3>1. x.fs.state \in {"good", "none"} BY <2>3 DEF Like, Situations, Contents
    <3> QED BY <2>3, <2>7, <3>1 DEF Like, Spoiled
  <2> QED BY <2>4, <2>6, <2>7
<1> QED BY <1>1, ApplyInvariance, PTL

LEMMA OnlyFaultsFailNow ==
    ASSUME ApplyInv
    PROVE  OnlyFaultsFail
<1> SUFFICES ASSUME pc = "op", ~success PROVE faults > 0 \/ m_cancel \/ ~Possible(Op)
  BY DEF OnlyFaultsFail
<1>1. Blamed(Op) BY DEF ApplyInv, InOperation
<1>2. PICK x : TableHolds /\ Queueable(Op) BY Midway
<1>3. Possible(Op) <=> CanBeDone(Op) BY <1>2, PossibleIs
<1> QED BY <1>1, <1>3 DEF Blamed

LEMMA SuccessMeansDoneNow ==
    ASSUME ApplyInv
    PROVE  SuccessMeansDone
<1>1. SUFFICES ASSUME pc # "op", m_success, cur > 1, NEW op, op = queue[cur - 1]
               PROVE  /\ table["own"] = (IF op.type = "DELETE" THEN NoPlace ELSE op.new)
                      /\ Fills(op) /\ faults = 0 /\ ~forced =>
                           /\ HasFs /\ fs.start = table["own"].start
                           /\ FsEnd = table["own"].end
  BY DEF SuccessMeansDone
<1>2. TypeOK /\ QueueHolds /\ InDialog BY <1>1 DEF ApplyInv
<1>3. PICK x : Between(x) BY <1>2 DEF InDialog
<1>4. Like(x) /\ Left(op, x) BY <1>1, <1>3 DEF Between
<1>5. Done(op, x) BY <1>1, <1>4 DEF Left
<1>6. table["own"] = x.own /\ x.own = PlaceAfter(op) BY <1>4, <1>5 DEF Like, Done
<1>7. ASSUME Fills(op), faults = 0, ~forced
      PROVE  HasFs /\ fs.start = table["own"].start /\ FsEnd = table["own"].end
  <2>1. x.fs.state = "good" /\ Full(x) BY <1>5, <1>7 DEF Done
  <2>2. fs = x.fs BY <1>4, <1>7, <2>1 DEF Like, As, Spoiled
  <2>3. x.own # NoPlace BY <1>5, <2>1 DEF Done, Tidy
  <2>4. x.own \in Places BY <1>4, <2>3, OwnIsPlace DEF Left
  <2> QED BY <1>6, <2>1, <2>2, <2>3, <2>4 DEF HasFs, FsEnd, Full, PlaceLength, Places
<1> QED BY <1>6, <1>7 DEF PlaceAfter

\* The outcome which is reported is the true one: a failure has a cause outside
\* the program or the user's cancel, a success means that everything was done.
THEOREM AlwaysHonestOutcome == Spec => []HonestOutcome
<1>1. ApplyInv => HonestOutcome BY OnlyFaultsFailNow, SuccessMeansDoneNow DEF HonestOutcome
<1> QED BY <1>1, ApplyInvariance, PTL
===============================================================================
