------------------------------ MODULE VisualDisk ------------------------------
(***************************************************************************)
(* The two views of a disk in the main window, the graphic                 *)
(* (DrawingAreaVisualDisk) and the list (TreeView_Detail), and what the    *)
(* information dialog draws of one partition.                              *)
(*                                                                         *)
(* A partition is a record with at least                                   *)
(*   key                  what Partition::operator==() compares            *)
(*   size                 sectors                                          *)
(*   extended, allocated  its type is not / its file system is not         *)
(*                        unallocated                                      *)
(*   usage                [used, unused, unallocated] in sectors, NoUsage  *)
(*                        when it is not known                             *)
(*   logicals             of an extended partition, else empty             *)
(* and a partition in the graphic, a VisualPartition, has in pixels        *)
(*   length, x, y, height, used, unused, unallocated                       *)
(* and the key of the partition it points to.                              *)
(***************************************************************************)
EXTENDS Integers, Sequences, SequencesExt, FiniteSetsExt, TLC

MAIN_BORDER == 5
BORDER == 4
SEP == 4
HEIGHT == 70 + 2 * MAIN_BORDER

NoUsage == [used |-> -1, unused |-> -1, unallocated |-> -1]

\* Utils::round() of a / b: halves away from zero
RoundedPx(a, b) == IF a >= 0 THEN (2 * a + b) \div (2 * b) ELSE -((b - 2 * a) \div (2 * b))

-----------------------------------------------------------------------------
(* How wide each partition is                                              *)

get_total_separator_px(ps) ==
    LET extended == {i \in DOMAIN ps : ps[i].extended}
    IN  (Len(ps) - 1 + IF extended = {} THEN 0 ELSE Len(ps[Min(extended)].logicals) - 1) * SEP

Visual(p, length, logicals) ==
    [key |-> p.key, length |-> length, logicals |-> logicals, x |-> 0, y |-> 0, height |-> 0,
     used |-> 0, unused |-> 0, unallocated |-> 0]

\* Pixels of all of them with the separators between
Across(vs) == FoldSeq(LAMBDA v, n : v.length + n, (Len(vs) - 1) * SEP, vs)

\* set_static_data() and calc_length(): each takes its share of the pixels, at
\* least "least", and an extended partition what its logicals need
RECURSIVE calc_length(_, _, _, _)
calc_length(ps, whole, px, least) ==
    [i \in DOMAIN ps |->
        LET p == ps[i]
            share == RoundedPx(px * p.size, whole)
            logicals == calc_length(p.logicals, p.size, share - 2 * BORDER, least)
        IN  IF p.logicals = <<>> THEN Visual(p, Max({share, least}), <<>>)
            ELSE Visual(p, Across(logicals) + 2 * BORDER, logicals)]

\* The inner loop of on_size_allocate(): fewer pixels are shared out until all fit
RECURSIVE Shared(_, _, _, _, _)
Shared(ps, whole, px, least, available) ==
    LET vs == calc_length(ps, whole, px, least)
        over == Across(vs) - available
    IN  IF over > 0 /\ px > 0 THEN Shared(ps, whole, px - over, least, available)
        ELSE [px |-> px, vs |-> vs]

\* The outer loop: the narrowest partition may become narrower
RECURSIVE Narrowed(_, _, _, _)
Narrowed(ps, whole, least, available) ==
    LET shared == Shared(ps, whole, available - get_total_separator_px(ps), least, available)
    IN  IF shared.px <= 0 /\ least > 1 THEN Narrowed(ps, whole, least - 1, available)
        ELSE shared.vs

RECURSIVE spreadout_leftover_px_Unwidened(_, _)
spreadout_leftover_px_Unwidened(vs, pixels) ==
    LET plain == {i \in DOMAIN vs : vs[i].logicals = <<>>}
        given == {i \in plain : Cardinality({j \in plain : j < i}) < pixels}
        rest == pixels - Cardinality(given)
        nested == DOMAIN vs \ plain
        deeper == spreadout_leftover_px_Unwidened(vs[Max(nested)].logicals, rest)
        wider == [i \in DOMAIN vs |-> IF i \in given THEN [vs[i] EXCEPT !.length = @ + 1] ELSE vs[i]]
    IN  IF rest = 0 \/ nested = {} THEN [vs |-> wider, left |-> rest]
        ELSE [vs |-> [wider EXCEPT ![Max(nested)].logicals = deeper.vs], left |-> deeper.left]

\* One pixel each for the partitions in order, then for the logicals
RECURSIVE spreadout_leftover_px(_, _)
spreadout_leftover_px(vs, pixels) ==
    LET plain == {i \in DOMAIN vs : vs[i].logicals = <<>>}
        given == {i \in plain : Cardinality({j \in plain : j < i}) < pixels}
        rest == pixels - Cardinality(given)
        nested == DOMAIN vs \ plain
        last == Max(nested)
        deeper == spreadout_leftover_px(vs[last].logicals, rest)
        wider == [i \in DOMAIN vs |-> IF i \in given THEN [vs[i] EXCEPT !.length = @ + 1] ELSE vs[i]]
    IN  IF rest = 0 \/ nested = {} THEN [vs |-> wider, left |-> rest]
        ELSE [vs |-> [wider EXCEPT ![last].logicals = deeper.vs,
                                   ![last].length = @ + rest - deeper.left],
              left |-> deeper.left]

RECURSIVE SpreadAll(_, _)
SpreadAll(vs, pixels) ==
    IF pixels <= 0 THEN vs
    ELSE LET spread == spreadout_leftover_px(vs, pixels) IN SpreadAll(spread.vs, spread.left)

-----------------------------------------------------------------------------
(* Where it is                                                             *)

RECURSIVE calc_position_and_height(_, _, _)
calc_position_and_height(vs, start, border) ==
    [i \in DOMAIN vs |->
        LET x == start + FoldSeq(LAMBDA v, n : v.length + SEP + n, 0, SubSeq(vs, 1, i - 1))
        IN  [vs[i] EXCEPT !.x = x, !.y = border, !.height = HEIGHT - 2 * border,
                          !.logicals = calc_position_and_height(@, x + BORDER, border + BORDER)]]

-----------------------------------------------------------------------------
(* How full it is                                                          *)

Figures == {"used", "unused", "unallocated"}

\* Partition::get_usage_triple(): the smallest figure and the one between are
\* rounded, the largest is what is left; the smallest changes places with it if
\* rounding made it larger.  First come the figures in order, from the smallest.
Ordered(s) ==
    CASE s.used <= s.unused /\ s.used <= s.unallocated ->
            IF s.unused <= s.unallocated THEN <<"used", "unused", "unallocated">>
            ELSE <<"used", "unallocated", "unused">>
      [] s.unused < s.used /\ s.unused <= s.unallocated ->
            IF s.used <= s.unallocated THEN <<"unused", "used", "unallocated">>
            ELSE <<"unused", "unallocated", "used">>
      [] OTHER ->
            IF s.used <= s.unused THEN <<"unallocated", "used", "unused">>
            ELSE <<"unallocated", "unused", "used">>

\* "a" and "b" for the smallest and the one between of "imax"
Given(order, a, b, imax) ==
    order[1] :> Min({a, imax - a - b}) @@ order[2] :> b @@ order[3] :> Max({a, imax - a - b})

Parted(s, order, imax) ==
    LET total == s.used + s.unused + s.unallocated
    IN  Given(order, RoundedPx(s[order[1]] * imax, total), RoundedPx(s[order[2]] * imax, total), imax)

Split(s, imax) == Parted(s, Ordered(s), imax)

get_usage_triple(usage, imax) == Split([f \in Figures |-> Max({0, usage[f]})], imax)

\* Unknown figures are shown as unused
DrawnUsage(p, px) ==
    IF p.usage # NoUsage THEN get_usage_triple(p.usage, px)
    ELSE [used |-> 0, unused |-> px, unallocated |-> 0]

RECURSIVE calc_usage(_, _)
calc_usage(vs, ps) ==
    [i \in DOMAIN vs |->
        LET drawn == DrawnUsage(ps[i], vs[i].length - 2 * BORDER)
            v == [vs[i] EXCEPT !.logicals = calc_usage(@, ps[i].logicals)]
        IN  IF ps[i].extended \/ ~ps[i].allocated THEN v ELSE drawn @@ v]

\* load_partitions() and on_size_allocate(): the graphic of a disk of "whole" sectors
\* in a widget "width" pixels wide
on_size_allocate(ps, whole, width) ==
    LET available == width - 2 * MAIN_BORDER
        fitting == Narrowed(ps, whole, BORDER * 2 + 2, available)
        left == available - Across(fitting)
        spread == IF ps # <<>> /\ Across(fitting) > 0 THEN SpreadAll(fitting, left) ELSE fitting
    IN  calc_usage(calc_position_and_height(spread, MAIN_BORDER, MAIN_BORDER), ps)

\* init_drawingarea() of the information dialog
InfoWidth == 400
InfoDrawn(p) ==
    IF p.extended THEN [used |-> 0, unused |-> 0, unallocated |-> InfoWidth - 2 * BORDER]
    ELSE DrawnUsage(p, InfoWidth - 2 * BORDER)

\* The percentages it tells
InfoPercent(p) == get_usage_triple(p.usage, 100)

-----------------------------------------------------------------------------
(* Which one is selected                                                   *)

Covers(v, x, y) == x \in v.x .. v.x + v.length - 1 /\ y \in v.y .. v.y + v.height - 1

Nobody == <<>>

\* The partition in front, and for an extended one first those inside
RECURSIVE set_selected_by_coord(_, _, _)
set_selected_by_coord(vs, x, y) ==
    LET Hit(v) == LET inside == set_selected_by_coord(v.logicals, x, y)
                  IN  IF inside # Nobody THEN inside
                      ELSE IF Covers(v, x, y) THEN v.key ELSE Nobody
        hits == {i \in DOMAIN vs : Hit(vs[i]) # Nobody}
    IN  IF hits = {} THEN Nobody ELSE Hit(vs[Min(hits)])

\* All partitions, an extended one before its logicals, as the list has them
RECURSIVE load_partitions(_)
load_partitions(ps) ==
    FoldLeft(LAMBDA rows, p : rows \o <<p>> \o load_partitions(p.logicals), <<>>, ps)

\* Either view looks for the partition equal to the one selected in the other
set_selected_by_ptn(ps, key) ==
    IF \E p \in Range(load_partitions(ps)) : p.key = key THEN key ELSE Nobody

-----------------------------------------------------------------------------
(* Properties of the drawing                                               *)

RECURSIVE AllVisual(_)
AllVisual(vs) == UNION {{vs[i]} \cup AllVisual(vs[i].logicals) : i \in DOMAIN vs}

\* The least all could be drawn in: one pixel each
Least(ps) == Across(calc_length(ps, 1, 0, 1))

\* Side by side from "from" to "to" with gaps of SEP
RECURSIVE SideBySide(_, _, _)
SideBySide(vs, from, to) ==
    /\ vs # <<>> => vs[1].x = from /\ Last(vs).x + Last(vs).length = to
    /\ \A i \in 2 .. Len(vs) : vs[i].x = vs[i - 1].x + vs[i - 1].length + SEP
    /\ \A i \in DOMAIN vs : vs[i].length > 0
         /\ (vs[i].logicals # <<>> =>
                SideBySide(vs[i].logicals, vs[i].x + BORDER, vs[i].x + vs[i].length - BORDER))

\* The bars of the usage drawn inside the partition, one after the other
BarsInside(v) ==
    LET n == v.used + v.unused + v.unallocated
    IN  \A f \in Figures : v[f] > 0 => v[f] <= n /\ n <= v.length - 2 * BORDER
=============================================================================
