------------------------------- MODULE Plater -------------------------------
(***************************************************************************)
(* Arranging the objects of a plate (elysian-model plater.rs:              *)
(* arrange_on_plate): the bounding boxes of the instances are put side by  *)
(* side in rows until one no longer fits the depth of the bed, and the     *)
(* pile so packed is moved to the middle of the bed.  Heights and the      *)
(* drop to the bed are left out; lengths are whole millimetres.            *)
(***************************************************************************)
EXTENDS Integers, Sequences

CONSTANTS Beds,     \* beds: the corners x0, y0, x1, y1 of what can be printed on
          Gaps,     \* distances asked for
          Boxes     \* widths and depths of the instances, in the plate's order

\* Beds and boxes have corners and sizes, and none is turned inside out.
ASSUME PlaterAssumption ==
    /\ \A b \in Beds : /\ b.x0 \in Int /\ b.x1 \in Int /\ b.x0 <= b.x1
                       /\ b.y0 \in Int /\ b.y1 \in Int /\ b.y0 <= b.y1
    /\ Gaps \subseteq Int
    /\ Boxes \subseteq Seq([w : Nat, d : Nat])

VARIABLES bed, gap, boxes,  \* what is arranged, on what
          spots,            \* the lower left corners of the boxes placed so far
          x, y, row,        \* where the next goes, and the depth of the row
          step              \* "pack", then "done"

arrangement == <<bed, gap, boxes, spots, x, y, row, step>>

\* A box that would reach past the right margin starts a new row, unless the
\* row is empty.
Wraps(w) == x > bed.x0 + 1 /\ x + w > bed.x1 - 1

NextX(w) == IF Wraps(w) THEN bed.x0 + 1 ELSE x
NextY(w) == IF Wraps(w) THEN y + row + gap ELSE y

\* Faulty variant, for the mutation checks.
RowOfTheLast(w, d) == d

NextRow(w, d) == IF Wraps(w) \/ row < d THEN d ELSE row

\* The box to place next.
Upcoming == Len(spots) + 1

Fits == /\ Upcoming <= Len(boxes)
        /\ NextY(boxes[Upcoming].w) + boxes[Upcoming].d <= bed.y1

Pack ==
    /\ step = "pack"
    /\ Fits
    /\ LET box == boxes[Upcoming]
       IN  /\ spots' = Append(spots, [x |-> NextX(box.w), y |-> NextY(box.w)])
           /\ x' = NextX(box.w) + box.w + gap
           /\ y' = NextY(box.w)
           /\ row' = NextRow(box.w, box.d)
    /\ UNCHANGED <<bed, gap, boxes, step>>

\* From what would centre the pile to what also keeps it on the bed; the far
\* edge has the last word.
Shift(low, high, from, to) ==
    LET centred == (low + high - from - to) \div 2
        near == IF from + centred < low THEN low - from ELSE centred
    IN  IF to + near > high THEN high - to ELSE near

\* The edges of the pile.
Lowest(S) == CHOOSE m \in S : \A n \in S : m <= n
Highest(S) == CHOOSE m \in S : \A n \in S : n <= m

\* align_center.  The boxes that were not placed stay where they were.
Centre ==
    /\ step = "pack"
    /\ ~Fits
    /\ LET placed == DOMAIN spots
           dx == Shift(bed.x0, bed.x1, Lowest({spots[i].x : i \in placed}),
                       Highest({spots[i].x + boxes[i].w : i \in placed}))
           dy == Shift(bed.y0, bed.y1, Lowest({spots[i].y : i \in placed}),
                       Highest({spots[i].y + boxes[i].d : i \in placed}))
       IN  spots' = [i \in placed |-> [x |-> spots[i].x + dx, y |-> spots[i].y + dy]]
    /\ step' = "done"
    /\ UNCHANGED <<bed, gap, boxes, x, y, row>>

ArrangeInit ==
    /\ bed \in Beds
    /\ gap \in {IF g < 1 THEN 1 ELSE g : g \in Gaps}
    /\ boxes \in Boxes
    /\ spots = <<>>
    /\ x = bed.x0 + 1
    /\ y = bed.y0 + 1
    /\ row = 0
    /\ step = "pack"

Arrange == Pack \/ Centre

ArrangeSpec == ArrangeInit /\ [][Arrange]_arrangement

-----------------------------------------------------------------------------
(* Properties *)

\* Any two boxes placed are the gap apart, across or along the bed, in rows of
\* whatever boxes and after the pile was moved.
PlacedApart ==
    \A i, j \in DOMAIN spots :
        i # j => \/ spots[i].x + boxes[i].w + gap <= spots[j].x
                 \/ spots[j].x + boxes[j].w + gap <= spots[i].x
                 \/ spots[i].y + boxes[i].d + gap <= spots[j].y
                 \/ spots[j].y + boxes[j].d + gap <= spots[i].y

\* Once the pile was moved, every box placed lies on the bed, unless one of
\* them is wider than the bed: the row checks the width only of a box that is
\* not the first of its row.
PileOnBed ==
    step = "done" /\ (\A i \in DOMAIN spots : boxes[i].w <= bed.x1 - bed.x0) =>
        \A i \in DOMAIN spots :
            /\ bed.x0 <= spots[i].x /\ spots[i].x + boxes[i].w <= bed.x1
            /\ bed.y0 <= spots[i].y /\ spots[i].y + boxes[i].d <= bed.y1

\* Arrange leaves the boxes it placed apart from one another and on the bed.
Arranged == PlacedApart /\ PileOnBed
=============================================================================
