------------------------------- MODULE Layout -------------------------------
(***************************************************************************)
(* The layout engine, src/compositor/src/layout.rs: it divides a container *)
(* among items, for the windows of a tiled mode and for the widgets of a   *)
(* window.  An item has a smallest size, an optional largest size (NoMax   *)
(* is none) and a weight with which it grows.                              *)
(*                                                                         *)
(* Sizes are u32 in the code.  The only subtraction that can go below zero *)
(* is the one of the last column or row of a grid, and it wraps.           *)
(* The stack, row and column rules are used nowhere and left out.          *)
(* The code computes the share of an item in f32; for the sizes of a       *)
(* screen that is the quotient rounded down.                               *)
(***************************************************************************)
EXTENDS Integers, SequencesExt

U32 == 1073741824     \* stands for 2^32: larger than every size of a screen
NoMax == U32

Rect(x, y, w, h) == [x |-> x, y |-> y, w |-> w, h |-> h]

Wrapped(n) == IF n < 0 THEN n + U32 ELSE n
Sub(a, b) == IF a > b THEN a - b ELSE 0      \* saturating_sub
Least(a, b) == IF a < b THEN a ELSE b
Most(a, b) == IF a > b THEN a ELSE b

Placed(item, rect) == [id |-> item.id, rect |-> rect]

(* Every slot has the same length, but the last one takes what is left. *)
SlotLength(length, count, gap, i) ==
    LET total_gap == (count - 1) * gap
        each      == Sub(length, total_gap) \div count
    IN  IF i = count - 1 THEN Wrapped(length - each * (count - 1) - total_gap) ELSE each

SlotStart_flush(length, count, gap, i) == i * (Sub(length, (count - 1) * gap) \div count)

SlotStart(length, count, gap, i) == i * (Sub(length, (count - 1) * gap) \div count + gap)

(* Items that do not fit into the rows are not placed. *)
Grid(box, items, gap, grid_rows, grid_cols) ==
    LET rows  == Most(grid_rows, 1)
        cols  == Most(grid_cols, 1)
        shown == SubSeq(items, 1, Least(Len(items), rows * cols))
        place(i) == LET r == (i - 1) \div cols
                        c == (i - 1) % cols
                    IN  Rect(box.x + SlotStart(box.w, cols, gap, c), box.y + SlotStart(box.h, rows, gap, r),
                             Least(SlotLength(box.w, cols, gap, c), items[i].max_w),
                             Least(SlotLength(box.h, rows, gap, r), items[i].max_h))
    IN  [i \in DOMAIN shown |-> Placed(items[i], place(i))]

----------------------------------------------------------------------------
(* Flex: items follow each other on the main axis, lines on the other *)

Basis(is_row, item) == IF is_row THEN item.min_w ELSE item.min_h
Cross(is_row, item) == IF is_row THEN item.min_h ELSE item.min_w
MaxMain(is_row, item) == IF is_row THEN item.max_w ELSE item.max_h
MaxCross(is_row, item) == IF is_row THEN item.max_h ELSE item.max_w

total_basis(is_row, items) == FoldLeft(LAMBDA sum, item : sum + Basis(is_row, item), 0, items)
total_grow(items) == FoldLeft(LAMBDA sum, item : sum + item.grow, 0, items)

Lines(spec, items, gap, main_size) ==
    LET is_row == spec.direction = "row"
        Take(acc, item) ==
            LET basis == Basis(is_row, item)
                full  == acc.line # <<>> /\ acc.used + gap + basis > main_size
            IN  IF full \/ acc.line = <<>>
                THEN [done |-> IF full THEN Append(acc.done, acc.line) ELSE acc.done,
                      line |-> <<item>>, used |-> basis]
                ELSE [acc EXCEPT !.line = Append(@, item), !.used = @ + gap + basis]
        all == FoldLeft(Take, [done |-> <<>>, line |-> <<>>, used |-> 0], items)
    IN  IF spec.wrap = "nowrap" THEN <<items>> ELSE Append(all.done, all.line)

LineCross_of_last(box, spec, line) ==
    LET is_row == spec.direction = "row"
    IN  IF spec.wrap = "nowrap" THEN Cross(is_row, [min_w |-> box.w, min_h |-> box.h])
        ELSE Cross(is_row, Last(line))

LineCross(box, spec, line) ==
    LET is_row == spec.direction = "row"
    IN  IF spec.wrap = "nowrap" THEN Cross(is_row, [min_w |-> box.w, min_h |-> box.h])
        ELSE FoldLeft(LAMBDA m, item : Most(m, Cross(is_row, item)), 0, line)

(* What an item gets of the space that is left *)
GrowShare(available, item, grow) == IF grow > 0 THEN (available * item.grow) \div grow ELSE 0

(* Where the first item of a line starts, and what justification adds to   *)
(* the gap between two                                                     *)
MainStart(justify, available, count) ==
    CASE justify = "center" -> available \div 2
      [] justify = "end" -> available
      [] justify = "space-around" -> available \div (count * 2)
      [] OTHER -> 0

ExtraGap(justify, available, count) ==
    CASE justify = "space-between" /\ count > 1 -> available \div (count - 1)
      [] justify = "space-around" -> available \div count
      [] OTHER -> 0

CrossOffset(align, room) ==
    CASE align = "center" -> room \div 2 [] align = "end" -> room [] OTHER -> 0

MainSize(is_row, item, share) == Least(Basis(is_row, item) + share, MaxMain(is_row, item))

CrossSize(is_row, item, align, line_cross) ==
    Least(IF align = "stretch" THEN line_cross ELSE Cross(is_row, item), MaxCross(is_row, item))

FlexRect(box, is_row, main_pos, cross_pos, main, cross) ==
    IF is_row THEN Rect(box.x + main_pos, box.y + cross_pos, main, cross)
    ELSE Rect(box.x + cross_pos, box.y + main_pos, cross, main)

PlaceItem(box, spec, item, main_pos, cross_pos, line_cross, main, cross) ==
    Placed(item, FlexRect(box, spec.direction = "row", main_pos,
                          cross_pos + CrossOffset(spec.align, Sub(line_cross, cross)), main, cross))

(* The items of a line, the first of them at pos *)
RECURSIVE PlaceItems(_, _, _, _, _, _, _, _, _)
PlaceItems(box, spec, line, pos, step, cross_pos, line_cross, available, grow) ==
    IF line = <<>> THEN <<>>
    ELSE LET is_row == spec.direction = "row"
             item   == Head(line)
             main   == MainSize(is_row, item, GrowShare(available, item, grow))
         IN  <<PlaceItem(box, spec, item, pos, cross_pos, line_cross, main, CrossSize(is_row, item, spec.align, line_cross))>> \o
             PlaceItems(box, spec, Tail(line), pos + main + step, step, cross_pos, line_cross, available, grow)

(* Space-around adds its extra gap twice. *)
Justified(box, spec, line, gap, cross_pos, line_cross, available, grow) ==
    LET justify == IF grow = 0 THEN spec.justify ELSE "start"
        extra   == ExtraGap(justify, available, Len(line))
    IN  PlaceItems(box, spec, line, MainStart(justify, available, Len(line)),
                   gap + (IF spec.justify = "space-around" THEN 2 * extra ELSE extra),
                   cross_pos, line_cross, available, grow)

PlaceLine(box, spec, line, gap, cross_pos, line_cross) ==
    LET is_row    == spec.direction = "row"
        available == Sub(IF is_row THEN box.w ELSE box.h,
                         total_basis(is_row, line) + (Len(line) - 1) * gap)
    IN  Justified(box, spec, line, gap, cross_pos, line_cross, available, total_grow(line))

RECURSIVE PlaceLines(_, _, _, _, _)
PlaceLines(box, spec, lines, gap, cross_pos) ==
    IF lines = <<>> THEN <<>>
    ELSE LET line_cross == LineCross(box, spec, Head(lines))
         IN  PlaceLine(box, spec, Head(lines), gap, cross_pos, line_cross) \o
             PlaceLines(box, spec, Tail(lines), gap, cross_pos + line_cross + gap)

Flex(box, items, gap, spec) ==
    PlaceLines(box, spec, Lines(spec, items, gap, IF spec.direction = "row" THEN box.w ELSE box.h), gap, 0)

layout(box, spec, items, gap) ==
    IF items = <<>> THEN <<>>
    ELSE IF spec.type = "grid" THEN Grid(box, items, gap, spec.rows, spec.cols)
    ELSE Flex(box, items, gap, spec)
============================================================================
