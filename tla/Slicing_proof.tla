--------------------------- MODULE Slicing_proof ---------------------------
(***************************************************************************)
(* Proofs about the parts of the slicer that work layer by layer or box by *)
(* box: the arrangement of a plate, the regions of a layer, the shells and *)
(* the layer plan.  Each is one pass whose loop the module takes step by   *)
(* step; what the loop has done so far is the inductive invariant.         *)
(***************************************************************************)
EXTENDS Plater, Shells, SliceRegions, LayerPlan, FiniteSetTheorems, SequenceTheorems, WellFoundedInduction, TLAPS

-----------------------------------------------------------------------------
(* Induction on the natural numbers, without an operator as a parameter: a *)
(* set of numbers has a least element, because no finite set 1 .. n has an *)
(* endless chain of subsets.                                               *)

LEMMA Least ==
    ASSUME NEW T, T \subseteq Nat, T # {}
    PROVE  \E m \in T : \A n \in T : m <= n
<1> DEFINE R == StrictSubsetOrdering(Nat)
           U == {1 .. n : n \in T}
           V == FiniteSubsetsOf(Nat)
<1>1. IsWellFoundedOn(R, V)
  BY FS_StrictSubsetOrderingWellFounded
<1>2. U \subseteq V /\ U # {}
  <2>1. ASSUME NEW n \in T PROVE 1 .. n \in V
    <3>1. 1 \in Int /\ n \in Int /\ 1 .. n \in SUBSET Nat
      OBVIOUS
    <3>2. IsFiniteSet(1 .. n)
      BY <3>1, FS_Interval, Zenon
    <3> QED BY <3>1, <3>2 DEF FiniteSubsetsOf
  <2> QED BY <2>1
<1>3. PICK u \in U : \A w \in U : ~(<<w, u>> \in R)
  <2> HIDE DEF R, U, V
  <2> QED BY <1>1, <1>2, WFMin
<1>4. PICK m \in T : u = 1 .. m
  OBVIOUS
<1>5. ASSUME NEW n \in T, n < m PROVE FALSE
  <2>1. 1 .. n \subseteq u /\ m \in u /\ m \notin 1 .. n
    BY <1>4, <1>5
  <2>2. <<1 .. n, u>> \in R
    BY <2>1, <1>4 DEF StrictSubsetOrdering
  <2> QED BY <1>3, <2>2
<1> QED BY <1>5

\* What holds of 0 and passes to the next number holds of all.
LEMMA Induct ==
    ASSUME NEW T, 0 \in T, \A n \in Nat : n \in T => n + 1 \in T
    PROVE  \A n \in Nat : n \in T
<1> SUFFICES ASSUME NEW k \in Nat \ T PROVE FALSE
  OBVIOUS
<1>1. PICK m \in Nat \ T : \A n \in Nat \ T : m <= n
  BY Least
<1>2. m - 1 \in Nat /\ m - 1 \in T
  BY <1>1
<1> QED BY <1>1, <1>2

\* A list of numbers has a least and a greatest.
LEMMA Extremes ==
    ASSUME NEW n \in Nat \ {0}, NEW f \in [1 .. n -> Int]
    PROVE  /\ \E k \in 1 .. n : \A i \in 1 .. n : f[k] <= f[i]
           /\ \E k \in 1 .. n : \A i \in 1 .. n : f[i] <= f[k]
<1> DEFINE Has(m) == m = 0 \/ (/\ \E k \in 1 .. m : \A i \in 1 .. m : f[k] <= f[i]
                               /\ \E k \in 1 .. m : \A i \in 1 .. m : f[i] <= f[k])
           T == {m \in Nat : m <= n => Has(m)}
<1>1. 0 \in T
  OBVIOUS
<1>2. ASSUME NEW m \in Nat, m \in T
      PROVE  m + 1 \in T
  <2> SUFFICES ASSUME m + 1 <= n
               PROVE  Has(m + 1)
    OBVIOUS
  <2>1. CASE m = 0
    BY <2>1
  <2>2. CASE m # 0
    <3>1. PICK low \in 1 .. m : \A i \in 1 .. m : f[low] <= f[i]
      BY <1>2, <2>2
    <3>2. PICK high \in 1 .. m : \A i \in 1 .. m : f[i] <= f[high]
      BY <1>2, <2>2
    <3>3. \A i \in 1 .. m + 1 : i \in 1 .. m \/ i = m + 1
      OBVIOUS
    <3>4. f[low] \in Int /\ f[high] \in Int /\ f[m + 1] \in Int /\ m + 1 \in 1 .. m + 1
          /\ low \in 1 .. m + 1 /\ high \in 1 .. m + 1
      BY <3>1, <3>2
    <3>5. \E k \in 1 .. m + 1 : \A i \in 1 .. m + 1 : f[k] <= f[i]
      <4>1. CASE f[low] <= f[m + 1]
        BY <3>1, <3>3, <3>4, <4>1
      <4>2. CASE f[m + 1] <= f[low]
        <5>1. ASSUME NEW i \in 1 .. m + 1 PROVE f[m + 1] <= f[i]
          <6>1. f[i] \in Int
            OBVIOUS
          <6> QED BY <3>1, <3>3, <3>4, <4>2, <6>1
        <5> QED BY <3>4, <5>1
      <4> QED BY <3>4, <4>1, <4>2
    <3>6. \E k \in 1 .. m + 1 : \A i \in 1 .. m + 1 : f[i] <= f[k]
      <4>1. CASE f[m + 1] <= f[high]
        BY <3>2, <3>3, <3>4, <4>1
      <4>2. CASE f[high] <= f[m + 1]
        <5>1. ASSUME NEW i \in 1 .. m + 1 PROVE f[i] <= f[m + 1]
          <6>1. f[i] \in Int
            OBVIOUS
          <6> QED BY <3>2, <3>3, <3>4, <4>2, <6>1
        <5> QED BY <3>4, <5>1
      <4> QED BY <3>4, <4>1, <4>2
    <3> QED BY <3>5, <3>6
  <2> QED BY <2>1, <2>2
<1>3. n \in T
  <2> HIDE DEF T
  <2> QED BY <1>1, <1>2, Induct
<1> QED BY <1>3

-----------------------------------------------------------------------------
(* The arrangement of a plate *)

\* The lowest and the highest of S are among the n values of f.
Bounds(n, f, S) ==
    /\ \E k \in 1 .. n : Lowest(S) = f[k]
    /\ \E k \in 1 .. n : Highest(S) = f[k]
    /\ \A i \in 1 .. n : Lowest(S) <= f[i] /\ f[i] <= Highest(S)

\* The edges of a pile of boxes are edges of two of its boxes.
LEMMA Edges ==
    ASSUME NEW n \in Nat \ {0}, NEW f \in [1 .. n -> Int],
           NEW S, S = {f[i] : i \in 1 .. n}
    PROVE  Bounds(n, f, S)
<1>0. /\ \E k \in 1 .. n : \A i \in 1 .. n : f[k] <= f[i]
      /\ \E k \in 1 .. n : \A i \in 1 .. n : f[i] <= f[k]
  BY Extremes
<1>1. \E m \in S : \A k \in S : m <= k
  BY <1>0
<1>2. \E m \in S : \A k \in S : k <= m
  BY <1>0
<1>3. Lowest(S) \in S /\ \A k \in S : Lowest(S) <= k
  BY <1>1 DEF Lowest
<1>4. Highest(S) \in S /\ \A k \in S : k <= Highest(S)
  BY <1>2 DEF Highest
<1> QED BY <1>3, <1>4 DEF Bounds

\* The shift brings a pile that is not wider than the bed onto the bed.
LEMMA ShiftFits ==
    ASSUME NEW low \in Int, NEW high \in Int, NEW from \in Int, NEW to \in Int
    PROVE  /\ Shift(low, high, from, to) \in Int
           /\ to - from <= high - low => /\ low <= from + Shift(low, high, from, to)
                                         /\ to + Shift(low, high, from, to) <= high
<1> DEFINE centred == (low + high - from - to) \div 2
           near == IF from + centred < low THEN low - from ELSE centred
<1>1. centred \in Int
  OBVIOUS
<1> HIDE DEF centred
<1>2. near \in Int /\ from + near >= low
  BY <1>1
<1>3. Shift(low, high, from, to) = IF to + near > high THEN high - to ELSE near
  BY DEF Shift, near, centred
<1> HIDE DEF near
<1> QED BY <1>2, <1>3

\* Boxes and spots.
Sizes == [w : Nat, d : Nat]
Places == [x : Int, y : Int]

PileTyped ==
    /\ bed.x0 \in Int /\ bed.x1 \in Int /\ bed.y0 \in Int /\ bed.y1 \in Int
    /\ gap \in Nat \ {0}
    /\ boxes \in Seq(Sizes) /\ spots \in Seq(Places) /\ Len(spots) <= Len(boxes)
    /\ step \in {"pack", "done"}

\* A box placed is off the margins, and begins its row or ends before the right
\* one; it is in the row at hand, to the left of what comes next, or in an
\* earlier row.
InRow(i) ==
    /\ bed.x0 + 1 <= spots[i].x /\ bed.y0 + 1 <= spots[i].y
    /\ spots[i].y + boxes[i].d <= bed.y1
    /\ spots[i].x = bed.x0 + 1 \/ spots[i].x + boxes[i].w <= bed.x1 - 1
    /\ \/ spots[i].y = y /\ spots[i].x + boxes[i].w + gap <= x /\ boxes[i].d <= row
       \/ spots[i].y + boxes[i].d + gap <= y

InRows ==
    step = "pack" =>
        /\ x \in Int /\ y \in Int /\ row \in Nat
        /\ bed.x0 + 1 <= x /\ bed.y0 + 1 <= y
        /\ \A i \in DOMAIN spots : InRow(i)

PileOK == PileTyped /\ InRows /\ Arranged

\* What the proofs look up of a box placed.
LEMMA BoxTyped ==
    ASSUME PileTyped, NEW i \in 1 .. Len(spots)
    PROVE  /\ spots[i].x \in Int /\ spots[i].y \in Int
           /\ boxes[i].w \in Nat /\ boxes[i].d \in Nat
<1>1. spots[i] \in Places /\ boxes[i] \in Sizes
  BY ElementOfSeq DEF PileTyped
<1> QED BY <1>1 DEF Places, Sizes

\* A box goes beside those of its row and below those of the rows before.
LEMMA PackSafe ==
    ASSUME PileOK, Pack
    PROVE  PileOK'
<1> DEFINE n == Len(spots)
           box == boxes[n + 1]
           nx == NextX(box.w)
           ny == NextY(box.w)
<1>1. /\ step = "pack" /\ UNCHANGED <<bed, gap, boxes, step>>
      /\ n + 1 <= Len(boxes) /\ ny + box.d <= bed.y1
      /\ spots' = Append(spots, [x |-> nx, y |-> ny])
      /\ x' = nx + box.w + gap /\ y' = ny /\ row' = NextRow(box.w, box.d)
  BY DEF Pack, Fits, Upcoming
<1>2. n \in Nat /\ DOMAIN spots = 1 .. n /\ box.w \in Nat /\ box.d \in Nat
  <2>1. n \in Nat /\ DOMAIN spots = 1 .. n
    BY DEF PileOK, PileTyped
  <2>2. box \in Sizes
    BY <1>1, <2>1, ElementOfSeq DEF PileOK, PileTyped
  <2> QED BY <2>1, <2>2 DEF Sizes
<1>3. x \in Int /\ y \in Int /\ row \in Nat /\ bed.x0 + 1 <= x /\ bed.y0 + 1 <= y
      /\ \A i \in 1 .. n : InRow(i)
  BY <1>1, <1>2 DEF PileOK, InRows
<1>4. bed.x0 \in Int /\ bed.x1 \in Int /\ bed.y0 \in Int /\ bed.y1 \in Int /\ gap \in Nat \ {0}
  BY DEF PileOK, PileTyped
<1> HIDE DEF box
<1>5. /\ nx \in Int /\ ny \in Int /\ bed.x0 + 1 <= nx /\ bed.y0 + 1 <= ny
      /\ nx = bed.x0 + 1 \/ nx + box.w <= bed.x1 - 1
      /\ row' \in Nat /\ box.d <= row'
      /\ \/ nx = x /\ ny = y /\ row <= row'
         \/ ny = y + row + gap
  <2>1. CASE Wraps(box.w)
    <3>1. nx = bed.x0 + 1 /\ ny = y + row + gap /\ row' = box.d
      BY <1>1, <2>1 DEF NextX, NextY, NextRow
    <3> DEFINE left == bed.x0
               front == bed.y0
    <3>2. /\ nx = left + 1 /\ ny = y + row + gap /\ left \in Int /\ front \in Int
          /\ gap \in Int /\ 0 < gap /\ front + 1 <= y
      BY <1>3, <1>4, <3>1
    <3> HIDE DEF left, front, nx, ny
    <3>3. nx \in Int /\ ny \in Int /\ left + 1 <= nx /\ front + 1 <= ny
      BY <1>3, <3>2
    <3> QED BY <1>2, <3>1, <3>3 DEF left, front
  <2>2. CASE ~Wraps(box.w)
    <3>1. nx = x /\ ny = y /\ row' = IF row < box.d THEN box.d ELSE row
      BY <1>1, <2>2 DEF NextX, NextY, NextRow
    <3>2. x = bed.x0 + 1 \/ x + box.w <= bed.x1 - 1
      <4> DEFINE left == bed.x0
                 right == bed.x1
                 width == box.w
      <4>1. /\ left \in Int /\ right \in Int /\ width \in Nat /\ x \in Int /\ left + 1 <= x
            /\ ~(x > left + 1 /\ x + width > right - 1)
        BY <1>2, <1>3, <1>4, <2>2 DEF Wraps
      <4> HIDE DEF left, right, width
      <4>2. x = left + 1 \/ x + width <= right - 1
        BY <4>1
      <4> QED BY <4>2 DEF left, right, width
    <3> QED BY <1>2, <1>3, <3>1, <3>2
  <2> QED BY <2>1, <2>2
<1> HIDE DEF nx, ny
<1>6. /\ spots' \in Seq(Places) /\ Len(spots') = n + 1 /\ DOMAIN spots' = 1 .. n + 1
      /\ \A i \in 1 .. n : spots'[i] = spots[i]
      /\ spots'[n + 1] = [x |-> nx, y |-> ny]
  <2>1. [x |-> nx, y |-> ny] \in Places
    BY <1>5 DEF Places
  <2>2. spots \in Seq(Places)
    BY DEF PileOK, PileTyped
  <2> QED BY <1>1, <1>2, <2>1, <2>2, AppendProperties
<1>7. PileTyped'
  BY <1>1, <1>2, <1>6 DEF PileOK, PileTyped
<1>8. spots'[n + 1].x = nx /\ spots'[n + 1].y = ny /\ boxes'[n + 1] = box
  BY <1>1, <1>6 DEF box
<1>9. ASSUME NEW i \in 1 .. n
      PROVE  /\ spots'[i] = spots[i] /\ boxes'[i] = boxes[i]
             /\ spots[i].x \in Int /\ spots[i].y \in Int /\ boxes[i].w \in Nat /\ boxes[i].d \in Nat
             /\ InRow(i)
  BY <1>1, <1>3, <1>6, BoxTyped DEF PileOK
<1>10. ASSUME NEW i \in 1 .. n + 1
       PROVE  InRow(i)'
  <2>1. CASE i = n + 1
    <3>1. /\ spots'[i].x = nx /\ spots'[i].y = ny
          /\ boxes'[i].w = box.w /\ boxes'[i].d = box.d /\ bed' = bed /\ gap' = gap
      BY <1>1, <1>8, <2>1
    <3>2. x' = nx + box.w + gap /\ y' = ny /\ box.d <= row'
          /\ bed.x0 + 1 <= nx /\ bed.y0 + 1 <= ny /\ ny + box.d <= bed.y1
          /\ (nx = bed.x0 + 1 \/ nx + box.w <= bed.x1 - 1)
      BY <1>1, <1>5 DEF box, nx, ny
    <3>3. nx + box.w + gap <= x'
      <4> DEFINE w == box.w
      <4>1. w \in Int /\ nx \in Int /\ gap \in Int /\ x' = nx + w + gap
        BY <1>2, <1>4, <1>5, <3>2
      <4> HIDE DEF w
      <4>2. nx + w + gap <= x'
        BY <4>1
      <4> QED BY <4>2 DEF w
    <3> QED BY <3>1, <3>2, <3>3 DEF InRow
  <2>2. CASE i \in 1 .. n
    <3> DEFINE sx == spots[i].x
               sy == spots[i].y
               w == boxes[i].w
               d == boxes[i].d
    <3>1. /\ sx \in Int /\ sy \in Int /\ w \in Nat /\ d \in Nat
          /\ bed.x0 + 1 <= sx /\ bed.y0 + 1 <= sy /\ sy + d <= bed.y1
          /\ sx = bed.x0 + 1 \/ sx + w <= bed.x1 - 1
          /\ \/ sy = y /\ sx + w + gap <= x /\ d <= row
             \/ sy + d + gap <= y
      BY <1>9, <2>2 DEF InRow
    <3>2. /\ spots'[i].x = sx /\ spots'[i].y = sy /\ boxes'[i].w = w /\ boxes'[i].d = d
      BY <1>9, <2>2
    <3> HIDE DEF sx, sy, w, d
    <3> DEFINE bw == box.w
    <3>3. /\ bw \in Nat /\ gap \in Nat /\ nx \in Int /\ ny \in Int /\ x \in Int /\ y \in Int
          /\ row \in Nat /\ row' \in Nat
          /\ x' = nx + bw + gap /\ y' = ny
          /\ (nx = x /\ ny = y /\ row <= row') \/ ny = y + row + gap
      BY <1>1, <1>2, <1>3, <1>4, <1>5 DEF nx, ny, box
    <3> HIDE DEF bw
    <3>4. \/ sy = y' /\ sx + w + gap <= x' /\ d <= row'
          \/ sy + d + gap <= y'
      <4>1. CASE nx = x /\ ny = y /\ row <= row'
        BY <3>1, <3>3, <4>1
      <4>2. CASE ny = y + row + gap
        BY <3>1, <3>3, <4>2
      <4> QED BY <3>3, <4>1, <4>2
    <3> QED BY <1>1, <3>1, <3>2, <3>4 DEF InRow
  <2>3. i = n + 1 \/ i \in 1 .. n
    BY <1>2
  <2> QED BY <2>1, <2>2, <2>3
<1>11. InRows'
  <2>1. x' \in Int /\ y' \in Int /\ row' \in Nat /\ bed.x0 + 1 <= x' /\ bed.y0 + 1 <= y'
    <3> DEFINE w == box.w
    <3>1. w \in Int /\ 0 <= w /\ nx \in Int /\ gap \in Int /\ 0 <= gap /\ x' = nx + w + gap
      BY <1>1, <1>2, <1>4, <1>5 DEF nx, box
    <3> HIDE DEF w
    <3>2. x' \in Int /\ nx <= x'
      BY <3>1
    <3>3. \A a \in Int : a <= nx => a <= x'
      BY <3>1, <3>2
    <3>4. bed.x0 + 1 \in Int /\ bed.x0 + 1 <= nx
      BY <1>4, <1>5
    <3> QED BY <1>1, <1>5, <3>2, <3>3, <3>4 DEF ny, box
  <2> QED BY <1>1, <1>6, <1>10, <2>1 DEF InRows
<1>12. PlacedApart'
  <2>1. ASSUME NEW i \in 1 .. n, NEW j, j = n + 1
        PROVE  \/ spots'[i].x + boxes'[i].w + gap <= spots'[j].x
               \/ spots'[i].y + boxes'[i].d + gap <= spots'[j].y
    <3> DEFINE sx == spots[i].x
               sy == spots[i].y
               w == boxes[i].w
               d == boxes[i].d
    <3>1. /\ sx \in Int /\ sy \in Int /\ w \in Nat /\ d \in Nat
          /\ \/ sy = y /\ sx + w + gap <= x /\ d <= row
             \/ sy + d + gap <= y
      BY <1>9 DEF InRow
    <3>2. /\ spots'[i].x = sx /\ spots'[i].y = sy /\ boxes'[i].w = w /\ boxes'[i].d = d
          /\ spots'[j].x = nx /\ spots'[j].y = ny
      BY <1>8, <1>9, <2>1
    <3> HIDE DEF sx, sy, w, d
    <3>3. sx + w + gap <= nx \/ sy + d + gap <= ny
      BY <1>2, <1>3, <1>4, <1>5, <3>1
    <3> QED BY <3>2, <3>3
  <2>2. ASSUME NEW i \in 1 .. n, NEW j \in 1 .. n, i # j
        PROVE  \/ spots'[i].x + boxes'[i].w + gap <= spots'[j].x
               \/ spots'[j].x + boxes'[j].w + gap <= spots'[i].x
               \/ spots'[i].y + boxes'[i].d + gap <= spots'[j].y
               \/ spots'[j].y + boxes'[j].d + gap <= spots'[i].y
    BY <1>2, <1>9, <2>2 DEF PileOK, Arranged, PlacedApart
  <2>3. \A i \in 1 .. n + 1 : i \in 1 .. n \/ i = n + 1
    BY <1>2
  <2> QED BY <1>1, <1>6, <2>1, <2>2, <2>3 DEF PlacedApart
<1>13. PileOnBed'
  BY <1>1 DEF PileOnBed
<1> QED BY <1>7, <1>11, <1>12, <1>13 DEF PileOK, Arranged

\* The pile moves as one, onto the bed if none of its boxes is wider.
LEMMA CentreSafe ==
    ASSUME PileOK, Centre
    PROVE  PileOK'
<1> DEFINE n == Len(spots)
           xs == {spots[i].x : i \in 1 .. n}
           xe == {spots[i].x + boxes[i].w : i \in 1 .. n}
           ys == {spots[i].y : i \in 1 .. n}
           ye == {spots[i].y + boxes[i].d : i \in 1 .. n}
           dx == Shift(bed.x0, bed.x1, Lowest(xs), Highest(xe))
           dy == Shift(bed.y0, bed.y1, Lowest(ys), Highest(ye))
<1>1. n \in Nat /\ DOMAIN spots = 1 .. n
  BY DEF PileOK, PileTyped
<1>2. /\ step = "pack" /\ step' = "done" /\ UNCHANGED <<bed, gap, boxes, x, y, row>>
      /\ spots' = [i \in 1 .. n |-> [x |-> spots[i].x + dx, y |-> spots[i].y + dy]]
  BY <1>1 DEF Centre
<1>3. ASSUME NEW i \in 1 .. n
      PROVE  /\ spots[i].x \in Int /\ spots[i].y \in Int
             /\ boxes[i].w \in Nat /\ boxes[i].d \in Nat /\ InRow(i)
  BY <1>1, <1>2, BoxTyped DEF PileOK, InRows
<1>4. bed.x0 \in Int /\ bed.x1 \in Int /\ bed.y0 \in Int /\ bed.y1 \in Int /\ gap \in Int
  BY DEF PileOK, PileTyped
<1>5. n # 0 =>
         /\ dx \in Int /\ dy \in Int
         /\ \A i \in 1 .. n : bed.y0 <= spots[i].y + dy /\ spots[i].y + boxes[i].d + dy <= bed.y1
         /\ (\A i \in 1 .. n : boxes[i].w <= bed.x1 - bed.x0) =>
               \A i \in 1 .. n : bed.x0 <= spots[i].x + dx /\ spots[i].x + boxes[i].w + dx <= bed.x1
  <2> SUFFICES ASSUME n # 0
               PROVE  /\ dx \in Int /\ dy \in Int
                      /\ \A i \in 1 .. n : /\ bed.y0 <= spots[i].y + dy
                                           /\ spots[i].y + boxes[i].d + dy <= bed.y1
                      /\ (\A i \in 1 .. n : boxes[i].w <= bed.x1 - bed.x0) =>
                            \A i \in 1 .. n : /\ bed.x0 <= spots[i].x + dx
                                              /\ spots[i].x + boxes[i].w + dx <= bed.x1
    OBVIOUS
  <2> DEFINE sx == [i \in 1 .. n |-> spots[i].x]
             ex == [i \in 1 .. n |-> spots[i].x + boxes[i].w]
             sy == [i \in 1 .. n |-> spots[i].y]
             ey == [i \in 1 .. n |-> spots[i].y + boxes[i].d]
  <2>1. /\ n \in Nat \ {0}
        /\ sx \in [1 .. n -> Int] /\ ex \in [1 .. n -> Int]
        /\ sy \in [1 .. n -> Int] /\ ey \in [1 .. n -> Int]
        /\ xs = {sx[i] : i \in 1 .. n} /\ xe = {ex[i] : i \in 1 .. n}
        /\ ys = {sy[i] : i \in 1 .. n} /\ ye = {ey[i] : i \in 1 .. n}
    <3>1. n \in Nat \ {0}
      BY <1>1
    <3>2. /\ sx \in [1 .. n -> Int] /\ ex \in [1 .. n -> Int]
          /\ sy \in [1 .. n -> Int] /\ ey \in [1 .. n -> Int]
      BY <1>3
    <3>3. /\ xs = {sx[i] : i \in 1 .. n} /\ xe = {ex[i] : i \in 1 .. n}
          /\ ys = {sy[i] : i \in 1 .. n} /\ ye = {ey[i] : i \in 1 .. n}
      OBVIOUS
    <3> HIDE DEF n, sx, ex, sy, ey, xs, xe, ys, ye
    <3> QED BY <3>1, <3>2, <3>3
  <2>2. ASSUME NEW i \in 1 .. n
        PROVE  /\ sx[i] = spots[i].x /\ ex[i] = spots[i].x + boxes[i].w
               /\ sy[i] = spots[i].y /\ ey[i] = spots[i].y + boxes[i].d
               /\ sx[i] \in Int /\ ex[i] \in Int /\ sy[i] \in Int /\ ey[i] \in Int
    BY <1>3
  <2>3. ASSUME NEW i \in 1 .. n
        PROVE  /\ bed.x0 + 1 <= sx[i] /\ bed.y0 + 1 <= sy[i] /\ ey[i] <= bed.y1
               /\ ex[i] <= bed.x1 - 1 \/ ex[i] = bed.x0 + 1 + boxes[i].w
    BY <1>3, <1>4, <2>2 DEF InRow
  <2> HIDE DEF n, sx, ex, sy, ey, xs, xe, ys, ye
  <2>14. Bounds(n, sx, xs) /\ Bounds(n, ex, xe) /\ Bounds(n, sy, ys) /\ Bounds(n, ey, ye)
    BY <2>1, Edges
  <2>4. PICK lx \in 1 .. n, hx \in 1 .. n : Lowest(xs) = sx[lx] /\ Highest(xe) = ex[hx]
    BY <2>14 DEF Bounds
  <2>5. PICK ly \in 1 .. n, hy \in 1 .. n : Lowest(ys) = sy[ly] /\ Highest(ye) = ey[hy]
    BY <2>14 DEF Bounds
  <2>6. \A i \in 1 .. n : /\ Lowest(xs) <= sx[i] /\ ex[i] <= Highest(xe)
                          /\ Lowest(ys) <= sy[i] /\ ey[i] <= Highest(ye)
    BY <2>14 DEF Bounds
  <2> DEFINE l == Lowest(xs)
             h == Highest(xe)
             b == Lowest(ys)
             f == Highest(ye)
  <2>7. l \in Int /\ h \in Int /\ b \in Int /\ f \in Int
    BY <2>2, <2>4, <2>5
  <2>8. /\ dx \in Int /\ dy \in Int
        /\ h - l <= bed.x1 - bed.x0 => bed.x0 <= l + dx /\ h + dx <= bed.x1
        /\ f - b <= bed.y1 - bed.y0 => bed.y0 <= b + dy /\ f + dy <= bed.y1
    <3> HIDE DEF l, h, b, f
    <3>1. /\ Shift(bed.x0, bed.x1, l, h) \in Int
          /\ h - l <= bed.x1 - bed.x0 => /\ bed.x0 <= l + Shift(bed.x0, bed.x1, l, h)
                                         /\ h + Shift(bed.x0, bed.x1, l, h) <= bed.x1
      BY <1>4, <2>7, ShiftFits
    <3>2. /\ Shift(bed.y0, bed.y1, b, f) \in Int
          /\ f - b <= bed.y1 - bed.y0 => /\ bed.y0 <= b + Shift(bed.y0, bed.y1, b, f)
                                         /\ f + Shift(bed.y0, bed.y1, b, f) <= bed.y1
      BY <1>4, <2>7, ShiftFits
    <3> QED BY <3>1, <3>2 DEF l, h, b, f
  <2>9. f - b <= bed.y1 - bed.y0
    <3>1. bed.y0 + 1 <= b /\ f <= bed.y1
      BY <2>3, <2>5
    <3> HIDE DEF b, f
    <3> QED BY <1>4, <2>7, <3>1
  <2>10. ASSUME \A i \in 1 .. n : boxes[i].w <= bed.x1 - bed.x0
         PROVE  h - l <= bed.x1 - bed.x0
    <3>1. bed.x0 + 1 <= l /\ (h <= bed.x1 - 1 \/ h = bed.x0 + 1 + boxes[hx].w)
      BY <2>3, <2>4
    <3>2. boxes[hx].w \in Int /\ boxes[hx].w <= bed.x1 - bed.x0
      BY <1>3, <2>10 DEF n
    <3> HIDE DEF l, h
    <3>3. CASE h <= bed.x1 - 1
      BY <1>4, <2>7, <3>1, <3>3
    <3>4. CASE h = bed.x0 + 1 + boxes[hx].w
      BY <1>4, <2>7, <3>1, <3>2, <3>4
    <3> QED BY <3>1, <3>3, <3>4
  <2> HIDE DEF dx, dy
  <2>11. ASSUME NEW i \in 1 .. n
         PROVE  /\ bed.y0 <= sy[i] + dy /\ ey[i] + dy <= bed.y1
                /\ h - l <= bed.x1 - bed.x0 => bed.x0 <= sx[i] + dx /\ ex[i] + dx <= bed.x1
    <3>1. /\ l <= sx[i] /\ ex[i] <= h /\ b <= sy[i] /\ ey[i] <= f
          /\ sx[i] \in Int /\ ex[i] \in Int /\ sy[i] \in Int /\ ey[i] \in Int
      BY <2>2, <2>6
    <3> HIDE DEF l, h, b, f
    <3>2. bed.y0 <= sy[i] + dy /\ ey[i] + dy <= bed.y1
      BY <1>4, <2>7, <2>8, <2>9, <3>1
    <3>3. h - l <= bed.x1 - bed.x0 => bed.x0 <= sx[i] + dx /\ ex[i] + dx <= bed.x1
      BY <1>4, <2>7, <2>8, <3>1
    <3> QED BY <3>2, <3>3
  <2> HIDE DEF l, h
  <2>12. \A i \in 1 .. n : bed.y0 <= spots[i].y + dy /\ spots[i].y + boxes[i].d + dy <= bed.y1
    BY <2>2, <2>11
  <2>13. h - l <= bed.x1 - bed.x0 =>
            \A i \in 1 .. n : bed.x0 <= spots[i].x + dx /\ spots[i].x + boxes[i].w + dx <= bed.x1
    BY <2>2, <2>11
  <2> QED BY <2>8, <2>10, <2>12, <2>13
<1> HIDE DEF dx, dy
<1>6. /\ spots' \in Seq(Places) /\ Len(spots') = n /\ DOMAIN spots' = 1 .. n
      /\ \A i \in 1 .. n : spots'[i].x = spots[i].x + dx /\ spots'[i].y = spots[i].y + dy
  <2>1. CASE n = 0
    <3>1. spots' = <<>>
      BY <1>2, <2>1
    <3> QED BY <2>1, <3>1
  <2>2. CASE n # 0
    <3>1. \A i \in 1 .. n : [x |-> spots[i].x + dx, y |-> spots[i].y + dy] \in Places
      BY <1>3, <1>5, <2>2 DEF Places
    <3> HIDE DEF n
    <3> QED BY <1>1, <1>2, <3>1
  <2> QED BY <2>1, <2>2
<1>7. PileTyped'
  BY <1>2, <1>6 DEF PileOK, PileTyped
<1>8. InRows'
  BY <1>2 DEF InRows
<1>9. PlacedApart'
  <2> SUFFICES ASSUME NEW i \in 1 .. n, NEW j \in 1 .. n, i # j
               PROVE  \/ spots'[i].x + boxes[i].w + gap <= spots'[j].x
                      \/ spots'[j].x + boxes[j].w + gap <= spots'[i].x
                      \/ spots'[i].y + boxes[i].d + gap <= spots'[j].y
                      \/ spots'[j].y + boxes[j].d + gap <= spots'[i].y
    BY <1>2, <1>6 DEF PlacedApart
  <2>1. \/ spots[i].x + boxes[i].w + gap <= spots[j].x
        \/ spots[j].x + boxes[j].w + gap <= spots[i].x
        \/ spots[i].y + boxes[i].d + gap <= spots[j].y
        \/ spots[j].y + boxes[j].d + gap <= spots[i].y
    BY <1>1 DEF PileOK, Arranged, PlacedApart
  <2>2. dx \in Int /\ dy \in Int
    BY <1>5
  <2> DEFINE ax == spots[i].x
             ay == spots[i].y
             aw == boxes[i].w
             ad == boxes[i].d
             bx == spots[j].x
             by == spots[j].y
             bw == boxes[j].w
             bd == boxes[j].d
  <2>3. /\ ax \in Int /\ ay \in Int /\ aw \in Int /\ ad \in Int
        /\ bx \in Int /\ by \in Int /\ bw \in Int /\ bd \in Int
    BY <1>3
  <2>4. \/ ax + aw + gap <= bx \/ bx + bw + gap <= ax
        \/ ay + ad + gap <= by \/ by + bd + gap <= ay
    BY <2>1
  <2>5. /\ spots'[i].x = ax + dx /\ spots'[i].y = ay + dy
        /\ spots'[j].x = bx + dx /\ spots'[j].y = by + dy
    BY <1>6
  <2> HIDE DEF ax, ay, bx, by, aw, ad, bw, bd
  <2>6. \/ (ax + dx) + aw + gap <= bx + dx \/ (bx + dx) + bw + gap <= ax + dx
        \/ (ay + dy) + ad + gap <= by + dy \/ (by + dy) + bd + gap <= ay + dy
    BY <1>4, <2>2, <2>3, <2>4
  <2> QED BY <2>5, <2>6 DEF aw, ad, bw, bd
<1>10. PileOnBed'
  <2> SUFFICES ASSUME \A i \in 1 .. n : boxes[i].w <= bed.x1 - bed.x0, NEW i \in 1 .. n
               PROVE  /\ bed.x0 <= spots'[i].x /\ spots'[i].x + boxes[i].w <= bed.x1
                      /\ bed.y0 <= spots'[i].y /\ spots'[i].y + boxes[i].d <= bed.y1
    BY <1>2, <1>6 DEF PileOnBed
  <2>1. n # 0
    BY <1>1
  <2>2. /\ bed.x0 <= spots[i].x + dx /\ spots[i].x + boxes[i].w + dx <= bed.x1
        /\ bed.y0 <= spots[i].y + dy /\ spots[i].y + boxes[i].d + dy <= bed.y1
        /\ dx \in Int /\ dy \in Int
    BY <1>5, <2>1
  <2>3. \A a, w, d \in Int : (a + d) + w = a + w + d
    OBVIOUS
  <2>4. spots[i].x \in Int /\ spots[i].y \in Int /\ boxes[i].w \in Int /\ boxes[i].d \in Int
    BY <1>3
  <2> QED BY <1>6, <2>2, <2>3, <2>4
<1> QED BY <1>7, <1>8, <1>9, <1>10 DEF PileOK, Arranged

\* Whatever the boxes, the bed and the gap: boxes placed are the gap apart, and
\* on the bed once they were centred, unless one is wider than the bed.
THEOREM PilesArranged == ArrangeSpec => [](PileTyped /\ Arranged)
<1>1. ArrangeInit => PileOK
  <2> SUFFICES ASSUME ArrangeInit
               PROVE  PileOK
    OBVIOUS
  <2>1. /\ bed.x0 \in Int /\ bed.x1 \in Int /\ bed.y0 \in Int /\ bed.y1 \in Int
        /\ gap \in Nat \ {0} /\ boxes \in Seq(Sizes)
    BY PlaterAssumption DEF ArrangeInit, Sizes
  <2>2. spots = <<>> /\ Len(spots) = 0 /\ DOMAIN spots = {} /\ step = "pack"
    BY DEF ArrangeInit
  <2>3. PileTyped
    BY <2>1, <2>2 DEF PileTyped
  <2>4. InRows
    BY <2>1, <2>2 DEF ArrangeInit, InRows
  <2>5. Arranged
    BY <2>2 DEF Arranged, PlacedApart, PileOnBed
  <2> QED BY <2>3, <2>4, <2>5 DEF PileOK
<1>2. PileOK /\ [Arrange]_arrangement => PileOK'
  <2> SUFFICES ASSUME PileOK, [Arrange]_arrangement
               PROVE  PileOK'
    OBVIOUS
  <2>1. CASE Pack
    BY <2>1, PackSafe
  <2>2. CASE Centre
    BY <2>2, CentreSafe
  <2>3. CASE UNCHANGED arrangement
    BY <2>3 DEF arrangement, PileOK, PileTyped, InRows, InRow, Arranged, PlacedApart, PileOnBed
  <2> QED BY <2>1, <2>2, <2>3 DEF Arrange
<1>3. PileOK => PileTyped /\ Arranged
  BY DEF PileOK
<1> QED BY <1>1, <1>2, <1>3, PTL DEF ArrangeSpec

-----------------------------------------------------------------------------
(* Shells and infill *)

\* What ShapesTyped says of one region under one setting.
LEMMA Bodily ==
    ASSUME ShapesTyped, NEW b \in Bodies, NEW s \in Shellings
    PROVE  /\ Len(b.region) \in Nat
           /\ b.region \in Seq(SUBSET Int) /\ b.object \in Seq(SUBSET Int)
           /\ s.top \in Nat /\ s.bottom \in Nat /\ s.topTh \in Nat /\ s.bottomTh \in Nat
           /\ s.ring \in Nat /\ s.raft \in Nat /\ s.nozzle \in Nat /\ s.layer \in Nat
BY DEF ShapesTyped

\* z is the heights summed up to k layers.
IsTops(z, h, k) == z = [i \in 0 .. k |-> IF i = 0 THEN 0 ELSE z[i - 1] + h[i]]

\* There is a function as Tops defines it.
LEMMA TopsSteps ==
    ASSUME NEW h \in Seq(Nat), NEW n \in 0 .. Len(h)
    PROVE  Tops(h)[n] = IF n = 0 THEN 0 ELSE Tops(h)[n - 1] + h[n]
<1> DEFINE T == {k \in Nat : \E z : IsTops(z, h, k)}
<1>1. 0 \in T
  <2>1. IsTops([i \in 0 .. 0 |-> 0], h, 0)
    BY DEF IsTops
  <2> QED BY <2>1
<1>2. ASSUME NEW k \in Nat, k \in T PROVE k + 1 \in T
  <2>1. PICK z : IsTops(z, h, k)
    BY <1>2
  <2> DEFINE w == [i \in 0 .. k + 1 |-> IF i = k + 1 THEN z[k] + h[k + 1] ELSE z[i]]
  <2>2. IsTops(w, h, k + 1)
    <3>1. ASSUME NEW i \in 0 .. k + 1 PROVE w[i] = IF i = 0 THEN 0 ELSE w[i - 1] + h[i]
      <4>1. CASE i = k + 1
        BY <4>1
      <4>2. CASE i # k + 1 /\ i # 0
        <5>1. i \in 0 .. k /\ i - 1 \in 0 .. k /\ i - 1 # k + 1
          BY <4>2
        <5> QED BY <2>1, <4>2, <5>1 DEF IsTops
      <4>3. CASE i = 0
        BY <2>1, <4>3 DEF IsTops
      <4> QED BY <4>1, <4>2, <4>3
    <3> QED BY <3>1 DEF IsTops
  <2> HIDE DEF w
  <2> QED BY <2>2
<1>3. Len(h) \in T
  <2>0. Len(h) \in Nat
    OBVIOUS
  <2> HIDE DEF T
  <2> QED BY <2>0, <1>1, <1>2, Induct
<1>4. IsTops(Tops(h), h, Len(h))
  <2>1. \E z : IsTops(z, h, Len(h))
    BY <1>3
  <2>2. IsTops(CHOOSE z : IsTops(z, h, Len(h)), h, Len(h))
    BY <2>1, Zenon
  <2>3. Tops(h) = CHOOSE z : IsTops(z, h, Len(h))
    BY Zenon DEF Tops, IsTops
  <2> QED BY <2>2, <2>3
<1> QED BY <1>4 DEF IsTops

LEMMA TopsTyped ==
    ASSUME NEW h \in Seq(Nat), NEW n \in 0 .. Len(h)
    PROVE  Tops(h)[n] \in Nat
<1> DEFINE T == {k \in Nat : k <= Len(h) => Tops(h)[k] \in Nat}
<1>1. 0 \in T
  BY TopsSteps
<1>2. ASSUME NEW k \in Nat, k \in T PROVE k + 1 \in T
  <2> SUFFICES ASSUME k + 1 <= Len(h) PROVE Tops(h)[k + 1] \in Nat
    OBVIOUS
  <2>1. Tops(h)[k + 1] = Tops(h)[k] + h[k + 1]
    <3>1. k + 1 \in 0 .. Len(h) /\ k + 1 # 0 /\ k + 1 - 1 = k
      OBVIOUS
    <3> QED BY <3>1, TopsSteps
  <2>2. h[k + 1] \in Nat /\ Tops(h)[k] \in Nat
    BY <1>2, ElementOfSeq
  <2> QED BY <2>1, <2>2
<1>3. n \in T
  <2>0. n \in Nat
    OBVIOUS
  <2> HIDE DEF T
  <2> QED BY <2>0, <1>1, <1>2, Induct
<1> QED BY <1>3

LEMMA TopsRise ==
    ASSUME NEW h \in Seq(Nat), NEW i \in 0 .. Len(h), NEW j \in 0 .. Len(h), i <= j
    PROVE  Tops(h)[i] <= Tops(h)[j]
<1> DEFINE T == {k \in Nat : i + k <= Len(h) => Tops(h)[i] <= Tops(h)[i + k]}
<1>1. 0 \in T
  <2>1. Tops(h)[i] \in Nat /\ i + 0 = i
    BY TopsTyped
  <2> QED BY <2>1
<1>2. ASSUME NEW k \in Nat, k \in T PROVE k + 1 \in T
  <2> SUFFICES ASSUME i + (k + 1) <= Len(h) PROVE Tops(h)[i] <= Tops(h)[i + (k + 1)]
    OBVIOUS
  <2> DEFINE m == i + k
  <2>0. m \in Nat /\ m <= Len(h) /\ m + 1 = i + (k + 1) /\ m + 1 \in 0 .. Len(h) /\ m \in 0 .. Len(h)
        /\ m + 1 - 1 = m /\ m + 1 # 0 /\ m + 1 \in 1 .. Len(h)
    OBVIOUS
  <2>1. Tops(h)[i] <= Tops(h)[m]
    BY <1>2, <2>0
  <2> HIDE DEF m
  <2>2. Tops(h)[m + 1] = Tops(h)[m] + h[m + 1]
    BY <2>0, TopsSteps
  <2>3. h[m + 1] \in Nat /\ Tops(h)[m] \in Nat /\ Tops(h)[i] \in Nat
    BY <2>0, ElementOfSeq, TopsTyped
  <2>4. Tops(h)[i] <= Tops(h)[m + 1]
    BY <2>1, <2>2, <2>3
  <2> QED BY <2>0, <2>4 DEF m
<1>3. j - i \in T
  <2> HIDE DEF T
  <2>1. j - i \in Nat
    OBVIOUS
  <2> QED BY <1>1, <1>2, <2>1, Induct
<1>4. i + (j - i) = j /\ i + (j - i) <= Len(h)
  OBVIOUS
<1> QED BY <1>3, <1>4
\* One layer of the walk that stacks layers.
Walked(w, h, s, n) ==
    IF n <= s.raft + 1 THEN [height |-> 0, count |-> 0]
    ELSE IF w[n - 1].height + h[n] > s.nozzle THEN [height |-> h[n], count |-> 1]
    ELSE [height |-> w[n - 1].height + h[n], count |-> w[n - 1].count + 1]

IsStacking(w, h, s, k) == w = [n \in 0 .. k |-> Walked(w, h, s, n)]

LEMMA StackingSteps ==
    ASSUME NEW h \in Seq(Nat), NEW s, s.raft \in Nat, NEW n \in 0 .. Len(h)
    PROVE  Stacking(h, s)[n] = Walked(Stacking(h, s), h, s, n)
<1> DEFINE T == {k \in Nat : \E w : IsStacking(w, h, s, k)}
<1>1. 0 \in T
  <2>1. IsStacking([n_1 \in 0 .. 0 |-> [height |-> 0, count |-> 0]], h, s, 0)
    BY DEF IsStacking, Walked
  <2> QED BY <2>1
<1>2. ASSUME NEW k \in Nat, k \in T PROVE k + 1 \in T
  <2>1. PICK w : IsStacking(w, h, s, k)
    BY <1>2
  <2> DEFINE v == [i \in 0 .. k + 1 |-> IF i = k + 1 THEN Walked(w, h, s, k + 1) ELSE w[i]]
  <2>2. IsStacking(v, h, s, k + 1)
    <3>1. ASSUME NEW i \in 0 .. k + 1 PROVE v[i] = Walked(v, h, s, i)
      <4>1. CASE i <= s.raft + 1
        <5>1. v[i] = [height |-> 0, count |-> 0]
          BY <2>1, <4>1 DEF IsStacking, Walked
        <5> QED BY <4>1, <5>1 DEF Walked
      <4>2. CASE ~(i <= s.raft + 1)
        <5>1. i - 1 \in 0 .. k /\ v[i - 1] = w[i - 1]
          BY <4>2
        <5>2. v[i] = Walked(w, h, s, i)
          <6>1. CASE i = k + 1
            BY <6>1
          <6>2. CASE i # k + 1
            <7>1. i \in 0 .. k /\ v[i] = w[i]
              BY <6>2
            <7>2. w[i] = Walked(w, h, s, i)
              BY <2>1, <7>1 DEF IsStacking
            <7> QED BY <7>1, <7>2
          <6> QED BY <6>1, <6>2
        <5> HIDE DEF v
        <5> QED BY <5>1, <5>2 DEF Walked
      <4> QED BY <4>1, <4>2
    <3>2. v = [i \in 0 .. k + 1 |-> v[i]]
      OBVIOUS
    <3> HIDE DEF v
    <3> QED BY <3>1, <3>2 DEF IsStacking
  <2> HIDE DEF v
  <2> QED BY <2>2
<1>3. Len(h) \in T
  <2>0. Len(h) \in Nat
    OBVIOUS
  <2> HIDE DEF T
  <2> QED BY <2>0, <1>1, <1>2, Induct
<1>4. IsStacking(Stacking(h, s), h, s, Len(h))
  <2>1. \E w : IsStacking(w, h, s, Len(h))
    BY <1>3
  <2>2. IsStacking(CHOOSE w : IsStacking(w, h, s, Len(h)), h, s, Len(h))
    BY <2>1, Zenon
  <2>3. Stacking(h, s) = CHOOSE w : IsStacking(w, h, s, Len(h))
    BY Zenon DEF Stacking, IsStacking, Walked
  <2> QED BY <2>2, <2>3
<1> QED BY <1>4 DEF IsStacking

\* The stack that layer n is in so far: its layers are counted from the first
\* on, their heights summed up, and two or more are under the nozzle.
Run(w, z, s, n) ==
    /\ w[n].count \in Nat /\ w[n].count <= n /\ w[n].height = z[n] - z[n - w[n].count]
    /\ w[n].count # 0 => w[n].count <= n - (s.raft + 1)
    /\ n > s.raft + 1 => w[n].count # 0
    /\ w[n].count <= 1 \/ w[n].height <= s.nozzle
    /\ \A k \in Nat : n - w[n].count < k /\ k <= n => w[k].count = k - (n - w[n].count)

LEMMA RunsRight ==
    ASSUME NEW h \in Seq(Nat), NEW s, s.raft \in Nat, s.nozzle \in Nat, NEW n \in 0 .. Len(h)
    PROVE  Run(Stacking(h, s), Tops(h), s, n)
<1> DEFINE w == Stacking(h, s)
           z == Tops(h)
           T == {k \in Nat : k <= Len(h) => Run(w, z, s, k)}
<1>a. ASSUME NEW k \in 0 .. Len(h), k <= s.raft + 1 PROVE Run(w, z, s, k)
  <2>1. w[k] = [height |-> 0, count |-> 0]
    BY <1>a, StackingSteps DEF Walked
  <2>2. z[k] \in Nat
    BY TopsTyped
  <2> HIDE DEF w, z
  <2> QED BY <1>a, <2>1, <2>2 DEF Run
<1>1. 0 \in T
  BY <1>a
<1>2. ASSUME NEW k \in Nat, k \in T PROVE k + 1 \in T
  <2> SUFFICES ASSUME k + 1 <= Len(h) PROVE Run(w, z, s, k + 1)
    OBVIOUS
  <2> DEFINE m == k + 1
  <2>1. /\ m \in 0 .. Len(h) /\ m \in 1 .. Len(h) /\ m - 1 = k /\ m # 0 /\ m \in Nat /\ k < m
        /\ k \in 0 .. Len(h)
    OBVIOUS
  <2>2. Run(w, z, s, k)
    BY <1>2
  <2>3. w[m] = Walked(w, h, s, m)
    BY <2>1, StackingSteps
  <2>4. /\ z[m] = z[k] + h[m] /\ h[m] \in Nat /\ z[k] \in Nat /\ z[m] \in Nat
        /\ z[k - w[k].count] \in Nat
    <3>1. k - w[k].count \in 0 .. Len(h)
      BY <2>1, <2>2 DEF Run
    <3> QED BY <2>1, <3>1, TopsSteps, TopsTyped, ElementOfSeq
  <2> HIDE DEF w, z
  <2>5. CASE m <= s.raft + 1
    BY <1>a, <2>1, <2>5
  <2>6. CASE m > s.raft + 1 /\ w[k].height + h[m] > s.nozzle
    <3>1. w[m] = [height |-> h[m], count |-> 1]
      BY <2>1, <2>3, <2>6 DEF Walked
    <3>2. w[m].height = h[m] /\ w[m].count = 1 /\ m - 1 = k
      BY <2>1, <3>1
    <3>3. \A i \in Nat : m - 1 < i /\ i <= m => i = m
      BY <2>1
    <3>4. h[m] = z[m] - z[k]
      BY <2>4
    <3> HIDE DEF m
    <3>5. 1 <= m - (s.raft + 1) /\ 1 <= m
      BY <2>1, <2>6
    <3>6. \A i \in Nat : m - 1 < i /\ i <= m => w[i].count = i - (m - 1)
      <4>1. m - (m - 1) = 1
        BY <2>1
      <4> QED BY <3>2, <3>3, <4>1
    <3>7. w[m].height = z[m] - z[m - 1]
      BY <3>2, <3>4
    <3>8. w[m].count \in Nat /\ w[m].count <= m /\ w[m].count # 0 /\ w[m].count <= 1
          /\ w[m].count <= m - (s.raft + 1)
      BY <3>2, <3>5
    <3>9. Run(w, z, s, m)
      BY <3>2, <3>6, <3>7, <3>8 DEF Run
    <3> QED BY <3>9 DEF m
  <2>7. CASE m > s.raft + 1 /\ ~(w[k].height + h[m] > s.nozzle)
    <3>1. w[m] = [height |-> w[k].height + h[m], count |-> w[k].count + 1]
      BY <2>1, <2>3, <2>7 DEF Walked
    <3> DEFINE c == w[k].count
    <3>2. /\ w[m].height = w[k].height + h[m] /\ w[m].count = c + 1
      BY <3>1
    <3>3. /\ c \in Nat /\ c <= k /\ w[k].height = z[k] - z[k - c]
          /\ c # 0 => c <= k - (s.raft + 1)
          /\ \A i \in Nat : k - c < i /\ i <= k => w[i].count = i - (k - c)
      BY <2>2 DEF Run
    <3>4. z[k - c] \in Nat
      BY <2>4
    <3> HIDE DEF m, c
    <3>5. m - (c + 1) = k - c /\ c + 1 <= m /\ c + 1 \in Nat /\ c + 1 # 0
      <4>1. m \in Nat /\ m - 1 = k /\ c \in Nat /\ c <= k
        BY <2>1, <3>3
      <4> QED BY <4>1
    <3>6. w[m].height = z[m] - z[k - c] /\ w[m].height <= s.nozzle
      <4> DEFINE zm == z[m]
                 zk == z[k]
                 zc == z[k - c]
                 hm == h[m]
                 hk == w[k].height
                 nozzle == s.nozzle
      <4>1. /\ zm = zk + hm /\ hm \in Nat /\ zk \in Nat /\ zc \in Nat /\ hk = zk - zc /\ nozzle \in Nat
            /\ ~(hk + hm > nozzle)
        BY <2>4, <2>7, <3>3, <3>4
      <4>2. w[m].height = hk + hm
        BY <3>2
      <4> HIDE DEF zm, zk, zc, hm, hk, nozzle
      <4>3. hk + hm = zm - zc /\ hk + hm <= nozzle
        BY <4>1
      <4> QED BY <4>2, <4>3 DEF zm, zc, nozzle
    <3>7. c + 1 <= m - (s.raft + 1)
      <4> DEFINE r == s.raft
      <4>1. r \in Nat /\ m > r + 1 /\ m \in Nat /\ k \in Nat /\ m - 1 = k /\ c \in Nat /\ (c # 0 => c <= k - (r + 1))
        BY <2>1, <2>7, <3>3
      <4> HIDE DEF r
      <4>2. c + 1 <= m - (r + 1)
        BY <4>1
      <4> QED BY <4>2 DEF r
    <3>8. ASSUME NEW i \in Nat, k - c < i, i <= m PROVE w[i].count = i - (k - c)
      <4>1. CASE i = m
        BY <2>1, <3>2, <3>3, <4>1
      <4>2. CASE i # m
        <5>1. i <= k
          BY <2>1, <3>8, <4>2
        <5> QED BY <3>3, <3>8, <5>1
      <4> QED BY <4>1, <4>2
    <3> QED BY <2>1, <3>2, <3>5, <3>6, <3>7, <3>8 DEF Run
  <2> QED BY <2>1, <2>5, <2>6, <2>7
<1>3. n \in T
  <2>0. n \in Nat
    OBVIOUS
  <2> HIDE DEF T
  <2> QED BY <2>0, <1>1, <1>2, Induct
<1> QED BY <1>3
LEMMA StackCounts ==
    ASSUME ShapesTyped, body \in Bodies, setting \in Shellings, NEW m \in LayerIds
    PROVE  Stack(m) \in Nat
<1>1. /\ body.heights \in Seq(Nat) /\ setting.raft \in Nat /\ setting.nozzle \in Nat
      /\ m \in 0 .. Len(body.heights)
  BY DEF ShapesTyped, LayerIds
<1>2. Run(Stacking(body.heights, setting), Tops(body.heights), setting, m)
  BY <1>1, RunsRight
<1> QED BY <1>2 DEF Run, Stack

\* A stack of two or more layers is of layers there are, under the nozzle and no
\* lower than a regular layer.
LEMMA StackFits ==
    ASSUME ShapesTyped, body \in Bodies, setting \in Shellings,
           NEW m \in LayerIds, Stack(m) > 1
    PROVE  /\ Stack(m) \in Nat /\ m + 1 - Stack(m) \in LayerIds
           /\ Sum(m + 1 - Stack(m), m) <= setting.nozzle
           /\ Sum(m + 1 - Stack(m), m) >= setting.layer
           /\ Sum(m + 1 - Stack(m), m) \in Nat
<1> DEFINE h == body.heights
           w == Stacking(h, setting)
           z == Tops(h)
           c == w[m].count
           len == Len(h)
<1>1. /\ h \in Seq(Nat) /\ Len(body.region) = len /\ len \in Nat
      /\ setting.raft \in Nat /\ setting.nozzle \in Nat /\ setting.layer \in Nat
      /\ \A i \in 2 .. len - 1 : h[i] + h[i + 1] >= setting.layer
  BY DEF ShapesTyped
<1>2. m \in 1 .. len /\ m \in 0 .. len /\ m \in Nat
  BY <1>1 DEF LayerIds
<1>3. Run(w, z, setting, m)
  BY <1>1, <1>2, RunsRight
<1>4. Stack(m) = c
  BY DEF Stack
<1>5. /\ c \in Nat /\ c <= m /\ c <= m - (setting.raft + 1) /\ c > 1
      /\ w[m].height = z[m] - z[m - c] /\ w[m].height <= setting.nozzle
  BY <1>3, <1>4 DEF Run
<1> DEFINE a == m - c
           raft == setting.raft
<1> HIDE DEF h, w, z, c, len
<1>6. /\ a \in Nat /\ a + 1 \in 2 .. len - 1 /\ a \in 0 .. len /\ a + 1 \in 0 .. len /\ a + 2 \in 0 .. len
      /\ a + 2 <= m /\ m + 1 - c = a + 1 /\ (a + 1) - 1 = a /\ (a + 2) - 1 = a + 1 /\ (a + 1) + 1 = a + 2
  <2>1. raft \in Nat /\ c <= m - (raft + 1)
    BY <1>1, <1>5
  <2> HIDE DEF raft
  <2> QED BY <1>1, <1>2, <1>5, <2>1
<1> HIDE DEF a
<1>7. /\ z[a] \in Nat /\ z[m] \in Nat /\ z[a + 1] \in Nat /\ z[a + 2] \in Nat /\ z[a + 2] <= z[m] /\ z[a] <= z[m]
  BY <1>1, <1>2, <1>6, TopsTyped, TopsRise DEF z, len
<1>8. z[a + 1] = z[a] + h[a + 1] /\ z[a + 2] = z[a + 1] + h[a + 2]
  BY <1>1, <1>6, TopsSteps DEF z, len
<1>9. h[a + 1] \in Nat /\ h[a + 2] \in Nat /\ h[a + 1] + h[a + 2] >= setting.layer
  <2>1. a + 1 \in 1 .. len /\ a + 2 \in 1 .. len
    BY <1>1, <1>6
  <2>2. h[a + 1] \in Nat /\ h[a + 2] \in Nat
    BY <1>1, <2>1, ElementOfSeq DEF len
  <2>3. h[a + 1] + h[(a + 1) + 1] >= setting.layer
    BY <1>1, <1>6
  <2> QED BY <1>6, <2>2, <2>3
<1>10. Sum(m + 1 - Stack(m), m) = z[m] - z[a]
  BY <1>4, <1>6 DEF Sum, z, h
<1>11. z[m] - z[a] \in Nat /\ z[m] - z[a] <= setting.nozzle /\ z[m] - z[a] >= setting.layer
  <2> DEFINE zm == z[m]
             z0 == z[a]
             z1 == z[a + 1]
             z2 == z[a + 2]
             h1 == h[a + 1]
             h2 == h[a + 2]
             layer == setting.layer
  <2>1. /\ zm \in Nat /\ z0 \in Nat /\ z1 \in Nat /\ z2 \in Nat /\ h1 \in Nat /\ h2 \in Nat /\ layer \in Nat
        /\ z1 = z0 + h1 /\ z2 = z1 + h2 /\ h1 + h2 >= layer /\ z2 <= zm
    BY <1>1, <1>7, <1>8, <1>9
  <2> HIDE DEF zm, z0, z1, z2, h1, h2, layer
  <2>2. zm - z0 \in Nat /\ zm - z0 >= layer
    BY <2>1
  <2>3. z[m] - z[a] <= setting.nozzle
    BY <1>5 DEF a
  <2> QED BY <2>2, <2>3 DEF zm, z0, layer
<1>12. m + 1 - Stack(m) \in LayerIds
  BY <1>1, <1>4, <1>6 DEF LayerIds
<1> QED BY <1>4, <1>5, <1>10, <1>11, <1>12

\* No layer is in two stacks.
LEMMA StacksApart ==
    ASSUME ShapesTyped, body \in Bodies, setting \in Shellings,
           NEW m \in LayerIds, NEW n \in LayerIds, m < n, Stack(m) > 1, Stack(n) > 1
    PROVE  m < n + 1 - Stack(n)
<1> DEFINE h == body.heights
           w == Stacking(h, setting)
           c == w[n].count
           len == Len(h)
<1>1. /\ h \in Seq(Nat) /\ Len(body.region) = len /\ len \in Nat
      /\ setting.raft \in Nat /\ setting.nozzle \in Nat
  BY DEF ShapesTyped
<1>2. m \in Nat /\ n \in Nat /\ n \in 0 .. len /\ m + 1 \in LayerIds /\ m + 1 \in Nat /\ m + 1 <= n
  BY <1>1 DEF LayerIds
<1>3. Run(w, Tops(h), setting, n)
  BY <1>1, <1>2, RunsRight
<1>4. Stack(n) = c /\ w[m + 1].count = 1
  BY <1>2 DEF Stack
<1>5. /\ c \in Nat /\ \A k \in Nat : n - c < k /\ k <= n => w[k].count = k - (n - c)
  BY <1>3 DEF Run
<1> HIDE DEF w, c, h, len
<1>6. ~(n - c < m)
  <2> SUFFICES ASSUME n - c < m PROVE FALSE
    OBVIOUS
  <2>1. n - c < m + 1
    BY <1>2, <1>5
  <2>2. w[m + 1].count = (m + 1) - (n - c)
    BY <1>2, <1>5, <2>1
  <2> QED BY <1>2, <1>4, <1>5, <2>2
<1> QED BY <1>2, <1>4, <1>5, <1>6

\* The top of layer j is solid in every layer its window reaches, and so is its
\* bottom.
Reached(j) ==
    \A i \in LayerIds :
        /\ i \in Below(j, setting.top, setting.topTh) => top[j] \cap Region(i) \subseteq solid[i]
        /\ i \in Above(j, setting.bottom, setting.bottomTh) => bottom[j] \cap Region(i) \subseteq solid[i]

\* Between a cell of layer i and the open lie the shell's layers and thickness.
Inside(i, c) ==
    \A j \in LayerIds :
        /\ i <= j /\ (\A l \in i .. j : c \in Region(l)) =>
              /\ j - i < setting.top => c \in Cover(j + 1)
              /\ setting.top > 0 /\ Span(i, j) < setting.topTh => c \in Cover(j + 1)
        /\ j <= i /\ (\A l \in j .. i : c \in Region(l)) =>
              /\ i - j < setting.bottom => c \in Cover(j - 1)
              /\ setting.bottom > 0 /\ Span(i, j) < setting.bottomTh => c \in Cover(j - 1)

\* Shells are of the region, and hold what was found open so far.
Shelled ==
    /\ DOMAIN solid = LayerIds
    /\ top = [i \in LayerIds |-> IF setting.top = 0 THEN {} ELSE Region(i) \ Cover(i + 1)]
    /\ bottom = [i \in LayerIds |-> IF setting.bottom = 0 THEN {} ELSE Region(i) \ Cover(i - 1)]
    /\ \A i \in LayerIds : solid[i] \subseteq Region(i) /\ top[i] \cup bottom[i] \subseteq solid[i]

\* What is not solid is inside.
DividedRight ==
    /\ DOMAIN sparse = LayerIds /\ DOMAIN thick = LayerIds /\ DOMAIN thickHeight = LayerIds
    /\ \A i \in LayerIds : solid[i] \subseteq Region(i) /\ top[i] \cup bottom[i] \subseteq solid[i]
    /\ \A i \in LayerIds : \A c \in Region(i) \ solid[i] : Inside(i, c)
    /\ \A i \in LayerIds : sparse[i] \subseteq Region(i) \ solid[i]
    /\ \A m \in LayerIds : doing = "combine" /\ at <= m => thick[m] = {}

\* Combined infill stands for layers that have none of their own there.
CombinedOf(m) ==
    /\ Stack(m) > 1
    /\ thickHeight[m] = Sum(m + 1 - Stack(m), m)
    /\ \A i \in Stacked(m) : thick[m] \subseteq Region(i) \ (solid[i] \cup sparse[i])

\* What a layer lacks is combined infill, or near it.
Near(i, c) ==
    \E m \in LayerIds : /\ i \in Stacked(m) /\ thick[m] # {}
                       /\ c \in Grown(thick[m], setting.ring)

Filled ==
    /\ DividedRight
    /\ \A m \in LayerIds : thick[m] # {} => CombinedOf(m)
    /\ \A i \in LayerIds : \A c \in Region(i) \ (solid[i] \cup sparse[i]) : Near(i, c)

ShellsOK ==
    /\ body \in Bodies /\ setting \in Shellings
    /\ at \in Nat \ {0}
    /\ doing \in {"detect", "project", "combine", "done"}
    /\ doing = "detect" => at = 1
    /\ doing = "project" => Shelled /\ \A j \in LayerIds : j < at => Reached(j)
    /\ doing \in {"combine", "done"} => Filled

LEMMA ShellsStart == ShapesTyped /\ ShellsInit => ShellsOK
BY DEF ShellsInit, ShellsOK

LEMMA DetectKeeps ==
    ASSUME ShapesTyped, ShellsOK, Detect
    PROVE  ShellsOK'
<1>1. body' = body /\ setting' = setting /\ at' = 1 /\ doing' = "project" /\ at = 1
  BY DEF Detect, ShellsOK
<1>2. LayerIds' = LayerIds /\ (\A i : Region(i)' = Region(i)) /\ (\A i : Cover(i)' = Cover(i))
  BY <1>1 DEF LayerIds, Region, Cover
<1>3. Shelled'
  BY <1>1, <1>2 DEF Detect, Shelled
<1>4. \A j \in LayerIds' : ~(j < at')
  BY <1>1 DEF LayerIds
<1> QED BY <1>1, <1>3, <1>4 DEF ShellsOK

LEMMA ProjectKeeps ==
    ASSUME ShapesTyped, ShellsOK, Project
    PROVE  ShellsOK'
<1>1. /\ body' = body /\ setting' = setting /\ top' = top /\ bottom' = bottom
      /\ at' = at + 1 /\ doing' = "project" /\ doing = "project" /\ at \in LayerIds
  BY DEF Project, ShellsOK
<1>2. /\ LayerIds' = LayerIds /\ (\A i : Region(i)' = Region(i)) /\ (\A i : Cover(i)' = Cover(i))
      /\ \A i, j : Span(i, j)' = Span(i, j)
  BY <1>1 DEF LayerIds, Region, Cover, Span, Sum
<1>3. /\ \A i, n, th : Above(i, n, th)' = Above(i, n, th)
      /\ \A i, n, th : Below(i, n, th)' = Below(i, n, th)
  BY <1>2 DEF Above, Below
<1>4. Shelled /\ \A j \in LayerIds : j < at => Reached(j)
  BY <1>1 DEF ShellsOK
<1>5. \A i \in LayerIds :
        /\ solid[i] \subseteq solid'[i] /\ solid'[i] \subseteq Region(i)
        /\ i \in Below(at, setting.top, setting.topTh) => top[at] \cap Region(i) \subseteq solid'[i]
        /\ i \in Above(at, setting.bottom, setting.bottomTh) => bottom[at] \cap Region(i) \subseteq solid'[i]
  BY <1>1, <1>4 DEF Project, Shelled
<1>6. DOMAIN solid' = LayerIds
  BY DEF Project
<1>7. Shelled'
  BY <1>1, <1>2, <1>4, <1>5, <1>6 DEF Shelled
<1>8. ASSUME NEW j \in LayerIds, j < at + 1
      PROVE  Reached(j)'
  <2>1. CASE j = at
    BY <1>1, <1>2, <1>3, <1>5, <2>1 DEF Reached
  <2>2. CASE j # at
    <3>1. j < at
      BY <1>1, <1>8, <2>2 DEF LayerIds, ShellsOK
    <3>2. Reached(j)
      BY <1>4, <3>1
    <3> QED BY <1>1, <1>2, <1>3, <1>5, <3>2 DEF Reached
  <2> QED BY <2>1, <2>2
<1> QED BY <1>1, <1>2, <1>7, <1>8 DEF ShellsOK
LEMMA IslandsWithin == ASSUME NEW cells, NEW r \in Islands(cells) PROVE r \subseteq cells
BY DEF Islands

\* Once every layer was projected, what is not solid is inside.
LEMMA OpenIsSolid ==
    ASSUME ShapesTyped, body \in Bodies, setting \in Shellings, Shelled,
           \A j \in LayerIds : Reached(j),
           NEW i \in LayerIds, NEW c \in Region(i) \ solid[i]
    PROVE  Inside(i, c)
<1>1. setting.top \in Nat /\ setting.bottom \in Nat
  BY Bodily
<1>2. LayerIds \subseteq Int
  BY DEF LayerIds
<1>3. ASSUME NEW j \in LayerIds, i <= j, \A l \in i .. j : c \in Region(l), c \notin Cover(j + 1)
      PROVE  ~Within(j - i, setting.top, setting.topTh, Span(i, j))
  <2> SUFFICES ASSUME Within(j - i, setting.top, setting.topTh, Span(i, j)) PROVE FALSE
    OBVIOUS
  <2>1. setting.top # 0
    BY DEF Within
  <2>2. c \in Region(j)
    BY <1>2, <1>3
  <2>3. c \in top[j]
    BY <1>3, <2>1, <2>2 DEF Shelled
  <2>4. CASE i = j
    BY <2>3, <2>4 DEF Shelled
  <2>5. CASE i # j
    <3>1. i < j /\ ~(j <= i)
      BY <1>2, <1>3, <2>5
    <3>2. Span(j, i) = Span(i, j)
      BY <1>3, <3>1 DEF Span
    <3>3. i \in Below(j, setting.top, setting.topTh)
      BY <3>1, <3>2 DEF Below
    <3> QED BY <2>3, <3>3 DEF Reached
  <2> QED BY <2>4, <2>5
<1>4. ASSUME NEW j \in LayerIds, j <= i, \A l \in j .. i : c \in Region(l), c \notin Cover(j - 1)
      PROVE  ~Within(i - j, setting.bottom, setting.bottomTh, Span(i, j))
  <2> SUFFICES ASSUME Within(i - j, setting.bottom, setting.bottomTh, Span(i, j)) PROVE FALSE
    OBVIOUS
  <2>1. setting.bottom # 0
    BY DEF Within
  <2>2. c \in Region(j)
    BY <1>2, <1>4
  <2>3. c \in bottom[j]
    BY <1>4, <2>1, <2>2 DEF Shelled
  <2>4. CASE i = j
    BY <2>3, <2>4 DEF Shelled
  <2>5. CASE i # j
    <3>1. i > j /\ ~(i <= j) /\ j <= i
      BY <1>2, <1>4, <2>5
    <3>2. Span(j, i) = Span(i, j)
      BY <3>1 DEF Span
    <3>3. i \in Above(j, setting.bottom, setting.bottomTh)
      BY <3>1, <3>2 DEF Above
    <3> QED BY <2>3, <3>3 DEF Reached
  <2> QED BY <2>4, <2>5
<1>5. \A j \in LayerIds : /\ j - i < setting.top /\ i <= j => setting.top > 0
                          /\ i - j < setting.bottom /\ j <= i => setting.bottom > 0
  BY <1>1, <1>2
<1> QED BY <1>3, <1>4, <1>5 DEF Inside, Within

LEMMA DivideKeeps ==
    ASSUME ShapesTyped, ShellsOK, Divide
    PROVE  ShellsOK'
<1>1. /\ body' = body /\ setting' = setting /\ top' = top /\ bottom' = bottom
      /\ at' = 1 /\ doing' \in {"combine", "done"}
      /\ doing = "project" /\ at \notin LayerIds
      /\ thick' = [i \in LayerIds |-> {}] /\ thickHeight' = [i \in LayerIds |-> 0]
  BY DEF Divide
<1>2. /\ LayerIds' = LayerIds /\ (\A i : Region(i)' = Region(i)) /\ (\A i : Cover(i)' = Cover(i))
      /\ \A i, j : Span(i, j)' = Span(i, j)
  BY <1>1 DEF LayerIds, Region, Cover, Span, Sum
<1>3. Shelled /\ \A j \in LayerIds : Reached(j)
  <2>1. \A j \in LayerIds : j < at
    BY <1>1, Bodily DEF ShellsOK, LayerIds
  <2> QED BY <1>1, <2>1 DEF ShellsOK
<1>4. ASSUME NEW i \in LayerIds PROVE solid[i] \subseteq solid'[i] /\ solid'[i] \subseteq Region(i)
  <2>1. \A p \in Islands(Slope(i)) : p \subseteq Region(i)
    BY IslandsWithin DEF Slope
  <2>2. \A filled : \A p \in Islands(Region(i) \ filled) : p \subseteq Region(i)
    BY IslandsWithin
  <2>3. solid[i] \subseteq Region(i)
    BY <1>3 DEF Shelled
  <2> QED BY <2>1, <2>2, <2>3 DEF Divide
<1>5. sparse' = [i \in LayerIds |-> Region(i) \ solid'[i]]
  BY DEF Divide
<1>6. ASSUME NEW i \in LayerIds, NEW c \in Region(i) \ solid'[i] PROVE Inside(i, c)'
  <2>1. Inside(i, c)
    BY <1>3, <1>4, OpenIsSolid DEF ShellsOK
  <2> QED BY <1>1, <1>2, <2>1 DEF Inside
<1>8. \A i \in LayerIds : top'[i] \cup bottom'[i] \subseteq solid'[i]
  BY <1>1, <1>3, <1>4 DEF Shelled
<1>7. Filled'
  BY <1>1, <1>2, <1>4, <1>5, <1>6, <1>8 DEF Filled, DividedRight, CombinedOf, Near
<1> QED BY <1>1, <1>7 DEF ShellsOK

LEMMA MaxOfTwo == ASSUME NEW a \in Int, NEW b \in Int, b <= a PROVE Max({a, b}) = a
<1>1. \A p \in {a, b} : (\A q \in {a, b} : p >= q) => p = a
  OBVIOUS
<1>2. \A q \in {a, b} : a >= q
  OBVIOUS
<1> QED BY <1>1, <1>2 DEF Max

LEMMA MinOfRange == ASSUME NEW a \in Int, NEW b \in Int, a <= b PROVE Min(a .. b) = a
<1>1. \A p \in a .. b : (\A q \in a .. b : p <= q) => p = a
  OBVIOUS
<1>2. a \in a .. b /\ \A q \in a .. b : a <= q
  OBVIOUS
<1> QED BY <1>1, <1>2 DEF Min

\* Neither a ring nor nothing is smaller than what it is around.
LEMMA GrownHolds ==
    ASSUME NEW cells, cells \subseteq Int, NEW by \in Nat
    PROVE  cells \subseteq Grown(cells, by) /\ (cells = {} => Grown(cells, by) = {})
<1>1. 0 \in -by .. by
  OBVIOUS
<1>2. \A c \in cells : c + 0 = c
  OBVIOUS
<1> QED BY <1>1, <1>2 DEF Grown

LEMMA CombineKeeps ==
    ASSUME ShapesTyped, ShellsOK, Combine
    PROVE  ShellsOK'
<1> DEFINE shared == IF Stack(at) <= 1 THEN {}
                     ELSE {c \in sparse[at] : \A j \in Stacked(at) : c \in sparse[j]}
<1>1. /\ body' = body /\ setting' = setting /\ top' = top /\ bottom' = bottom /\ solid' = solid
      /\ at' = at + 1 /\ doing' = doing
      /\ doing = "combine" /\ at \in LayerIds
      /\ thick' = [thick EXCEPT ![at] = shared]
      /\ thickHeight' = [thickHeight EXCEPT ![at] =
            IF shared = {} THEN 0 ELSE Max({Sum(at + 1 - Stack(at), at), setting.layer})]
      /\ sparse' = [i \in LayerIds |-> IF Stack(at) > 1 /\ i \in Stacked(at)
                                     THEN sparse[i] \ Grown(shared, setting.ring)
                                     ELSE sparse[i]]
  BY DEF Combine
<1>2. /\ LayerIds' = LayerIds /\ (\A i : Region(i)' = Region(i)) /\ (\A i : Cover(i)' = Cover(i))
      /\ (\A i, j : Sum(i, j)' = Sum(i, j)) /\ (\A i, j : Span(i, j)' = Span(i, j))
  BY <1>1 DEF LayerIds, Region, Cover, Span, Sum
<1>3. /\ (\A i : Stack(i)' = Stack(i)) /\ (\A i : Stacked(i)' = Stacked(i))
  BY <1>1, <1>2 DEF Stack, Stacked
<1>4. Filled /\ body \in Bodies /\ setting \in Shellings
  BY <1>1 DEF ShellsOK
<1>5. \A i \in LayerIds : Region(i) \subseteq Int
  <2>1. body.region \in Seq(SUBSET Int)
    BY <1>4, Bodily
  <2> QED BY <2>1, ElementOfSeq DEF Region, LayerIds
<1>6. shared \subseteq Int /\ setting.ring \in Nat /\ setting.layer \in Nat
  BY <1>1, <1>4, <1>5, Bodily DEF Filled, DividedRight, CombinedOf, Near
<1>7. shared # {} => Stack(at) > 1 /\ \A i \in Stacked(at) : i \in LayerIds /\ shared \subseteq sparse[i]
  <2> SUFFICES ASSUME shared # {}
               PROVE  Stack(at) > 1 /\ \A i \in Stacked(at) : i \in LayerIds /\ shared \subseteq sparse[i]
    OBVIOUS
  <2>1. Stack(at) > 1
    BY <1>1, <1>4, StackCounts
  <2>2. Stacked(at) \subseteq LayerIds
    <3>1. at + 1 - Stack(at) \in LayerIds /\ at \in LayerIds
      BY <1>1, <1>4, <2>1, StackFits
    <3> QED BY <3>1, <1>4, Bodily DEF Stacked, LayerIds
  <2> QED BY <2>1, <2>2
<1> HIDE DEF shared
<1>8. shared \subseteq Grown(shared, setting.ring) /\ (shared = {} => Grown(shared, setting.ring) = {})
  BY <1>6, GrownHolds
<1>9. DOMAIN sparse' = LayerIds /\ DOMAIN thick' = LayerIds /\ DOMAIN thickHeight' = LayerIds
  BY <1>1, <1>4 DEF Filled, DividedRight, CombinedOf, Near
<1>10. /\ thick'[at] = shared /\ thick[at] = {}
       /\ \A m \in LayerIds : m # at => thick'[m] = thick[m] /\ thickHeight'[m] = thickHeight[m]
  <2>1. at <= at
    BY DEF ShellsOK
  <2> QED BY <1>1, <1>4, <2>1 DEF Filled, DividedRight, CombinedOf, Near
<1>11. ASSUME NEW i \in LayerIds
       PROVE  /\ sparse'[i] \subseteq sparse[i]
              /\ sparse[i] \subseteq Region(i) \ solid[i] /\ solid[i] \subseteq Region(i)
              /\ shared # {} /\ i \in Stacked(at) => sparse'[i] \cap shared = {}
              /\ \A c \in sparse[i] \ sparse'[i] :
                    i \in Stacked(at) /\ shared # {} /\ c \in Grown(shared, setting.ring)
  <2>1. sparse[i] \subseteq Region(i) \ solid[i] /\ solid[i] \subseteq Region(i)
    BY <1>4 DEF Filled, DividedRight, CombinedOf, Near
  <2>2. CASE Stack(at) > 1 /\ i \in Stacked(at)
    <3>1. sparse'[i] = sparse[i] \ Grown(shared, setting.ring)
      BY <1>1, <2>2
    <3> QED BY <1>8, <2>1, <2>2, <3>1
  <2>3. CASE ~(Stack(at) > 1 /\ i \in Stacked(at))
    <3>1. sparse'[i] = sparse[i]
      BY <1>1, <2>3
    <3> QED BY <1>7, <2>1, <2>3, <3>1
  <2> QED BY <2>2, <2>3
<1>12. ASSUME NEW m \in LayerIds, thick'[m] # {}
       PROVE  /\ Stack(m) > 1
              /\ thickHeight'[m] = Sum(m + 1 - Stack(m), m)
              /\ \A i \in Stacked(m) : thick'[m] \subseteq Region(i) \ (solid[i] \cup sparse'[i])
  <2>1. CASE m = at
    <3>1. shared # {} /\ Stack(at) > 1
      BY <1>7, <1>10, <1>12, <2>1
    <3>2. /\ Sum(at + 1 - Stack(at), at) \in Nat
          /\ setting.layer <= Sum(at + 1 - Stack(at), at)
      BY <1>1, <1>4, <3>1, StackFits
    <3>3. thickHeight'[at] = Max({Sum(at + 1 - Stack(at), at), setting.layer})
      BY <1>1, <1>4, <3>1 DEF Filled, DividedRight, CombinedOf, Near
    <3>4. thickHeight'[at] = Sum(at + 1 - Stack(at), at)
      BY <1>6, <3>2, <3>3, MaxOfTwo
    <3>5. ASSUME NEW i \in Stacked(at)
          PROVE  shared \subseteq Region(i) \ (solid[i] \cup sparse'[i])
      <4>1. i \in LayerIds /\ shared \subseteq sparse[i]
        BY <1>7, <3>1
      <4> QED BY <1>11, <3>1, <3>5, <4>1
    <3> QED BY <1>10, <2>1, <3>1, <3>4, <3>5
  <2>2. CASE m # at
    <3>1. /\ thick[m] # {} /\ thick'[m] = thick[m] /\ thickHeight'[m] = thickHeight[m]
      BY <1>10, <1>12, <2>2
    <3>2. /\ Stack(m) > 1 /\ thickHeight[m] = Sum(m + 1 - Stack(m), m)
          /\ \A i \in Stacked(m) : thick[m] \subseteq Region(i) \ (solid[i] \cup sparse[i])
      BY <1>4, <3>1 DEF Filled, DividedRight, CombinedOf, Near
    <3>3. Stacked(m) \subseteq LayerIds
      BY <1>4, <3>2, StackFits, Bodily DEF Stacked, LayerIds
    <3> QED BY <1>11, <3>1, <3>2, <3>3
  <2> QED BY <2>1, <2>2
<1>13. ASSUME NEW i \in LayerIds, NEW c \in Region(i) \ (solid[i] \cup sparse'[i])
       PROVE  \E m \in LayerIds : /\ i \in Stacked(m) /\ thick'[m] # {}
                                /\ c \in Grown(thick'[m], setting.ring)
  <2>1. CASE c \in sparse[i]
    <3>1. i \in Stacked(at) /\ shared # {} /\ c \in Grown(shared, setting.ring)
      BY <1>11, <1>13, <2>1
    <3> QED BY <1>1, <1>10, <3>1
  <2>2. CASE c \notin sparse[i]
    <3>1. PICK m \in LayerIds : /\ i \in Stacked(m) /\ thick[m] # {}
                               /\ c \in Grown(thick[m], setting.ring)
      BY <1>4, <1>13, <2>2 DEF Filled, DividedRight, CombinedOf, Near
    <3>2. m # at
      BY <1>10, <3>1
    <3> QED BY <1>10, <3>1, <3>2
  <2> QED BY <2>1, <2>2
<1>14. \A m \in LayerIds : at + 1 <= m => thick'[m] = {}
  <2> SUFFICES ASSUME NEW m \in LayerIds, at + 1 <= m PROVE thick'[m] = {}
    OBVIOUS
  <2>1. at <= m /\ m # at
    BY DEF LayerIds, ShellsOK
  <2> QED BY <1>1, <1>4, <1>10, <2>1 DEF Filled, DividedRight, CombinedOf, Near
<1>15. \A i \in LayerIds : \A c \in Region(i) \ solid[i] : Inside(i, c)'
  BY <1>1, <1>2, <1>4 DEF Filled, DividedRight, CombinedOf, Near, Inside
<1>16. \A i \in LayerIds : sparse'[i] \subseteq Region(i) \ solid[i]
  BY <1>11
<1>17. \A i \in LayerIds : solid[i] \subseteq Region(i) /\ top[i] \cup bottom[i] \subseteq solid[i]
  BY <1>4, <1>11 DEF Filled, DividedRight
<1>18. DividedRight'
  BY <1>1, <1>2, <1>9, <1>14, <1>15, <1>16, <1>17 DEF DividedRight
<1>19. \A m \in LayerIds : thick'[m] # {} => CombinedOf(m)'
  BY <1>1, <1>2, <1>3, <1>12 DEF CombinedOf
<1>20. \A i \in LayerIds : \A c \in Region(i) \ (solid[i] \cup sparse'[i]) : Near(i, c)'
  BY <1>1, <1>2, <1>3, <1>13 DEF Near
<1>21. Filled'
  BY <1>1, <1>2, <1>18, <1>19, <1>20 DEF Filled
<1> QED BY <1>1, <1>21 DEF ShellsOK, LayerIds

LEMMA CombinedKeeps ==
    ASSUME ShellsOK, Combined
    PROVE  ShellsOK'
<1>1. /\ UNCHANGED <<body, setting, top, bottom, solid, sparse, thick, thickHeight, at>>
      /\ doing' = "done" /\ doing = "combine"
  BY DEF Combined
<1>2. /\ LayerIds' = LayerIds /\ (\A i : Region(i)' = Region(i)) /\ (\A i : Cover(i)' = Cover(i))
      /\ (\A i, j : Sum(i, j)' = Sum(i, j)) /\ (\A i, j : Span(i, j)' = Span(i, j))
  BY <1>1 DEF LayerIds, Region, Cover, Span, Sum
<1>3. /\ (\A i : Stack(i)' = Stack(i)) /\ (\A i : Stacked(i)' = Stacked(i))
  BY <1>1, <1>2 DEF Stack, Stacked
<1>4. \A i, c : Inside(i, c)' = Inside(i, c)
  BY <1>1, <1>2 DEF Inside
<1>5. Filled
  BY <1>1 DEF ShellsOK
<1>6. Filled'
  BY <1>1, <1>2, <1>3, <1>4, <1>5 DEF Filled, DividedRight, CombinedOf, Near
<1> QED BY <1>1, <1>6 DEF ShellsOK
\* Shells and infill keep the invariant.
LEMMA ShellsKept == ShapesTyped /\ ShellsOK /\ [Shelling]_shelling => ShellsOK'
<1> SUFFICES ASSUME ShapesTyped, ShellsOK, [Shelling]_shelling PROVE ShellsOK'
  OBVIOUS
<1>1. CASE UNCHANGED shelling
  <2>1. UNCHANGED <<body, setting, top, bottom, solid, sparse, thick, thickHeight, at, doing>>
    BY <1>1 DEF shelling
  <2>2. /\ LayerIds' = LayerIds /\ (\A i : Region(i)' = Region(i)) /\ (\A i : Cover(i)' = Cover(i))
        /\ (\A i, j : Sum(i, j)' = Sum(i, j)) /\ (\A i, j : Span(i, j)' = Span(i, j))
    BY <2>1 DEF LayerIds, Region, Cover, Span, Sum
  <2>3. /\ (\A i : Stack(i)' = Stack(i)) /\ (\A i : Stacked(i)' = Stacked(i))
        /\ \A i, n, th : Above(i, n, th)' = Above(i, n, th)
        /\ \A i, n, th : Below(i, n, th)' = Below(i, n, th)
    BY <2>1, <2>2 DEF Stack, Stacked, Above, Below
  <2>4. /\ (\A i, c : Inside(i, c)' = Inside(i, c)) /\ (\A i, c : Near(i, c)' = Near(i, c))
        /\ (\A j : Reached(j)' = Reached(j)) /\ (\A m : CombinedOf(m)' = CombinedOf(m))
    BY <2>1, <2>2, <2>3 DEF Inside, Near, Reached, CombinedOf
  <2>5. DividedRight' = DividedRight /\ Shelled' = Shelled
    BY <2>1, <2>2, <2>4 DEF DividedRight, Shelled
  <2> QED BY <2>1, <2>2, <2>4, <2>5 DEF ShellsOK, Filled
<1> QED BY <1>1, DetectKeeps, ProjectKeeps, DivideKeeps, CombineKeeps, CombinedKeeps DEF Shelling

\* Infill is what is inside, also where layers are combined.
LEMMA InfillInside ==
    ASSUME ShapesTyped, ShellsOK
    PROVE  SparseIsDeep
<1> SUFFICES ASSUME doing = "done", NEW i \in LayerIds, NEW j \in LayerIds, NEW c \in Sparse(i)
             PROVE  Inside(i, c)
  BY DEF SparseIsDeep, Inside
<1>1. Filled
  BY DEF ShellsOK
<1>2. CASE c \in sparse[i]
  BY <1>1, <1>2 DEF Filled, DividedRight
<1>3. CASE c \notin sparse[i]
  <2>1. PICK m \in LayerIds : i \in Under(m) /\ c \in thick[m]
    BY <1>3 DEF Sparse
  <2>2. thick[m] # {} /\ i \in Stacked(m)
    BY <2>1 DEF Under
  <2>3. c \in Region(i) \ solid[i]
    BY <1>1, <2>1, <2>2 DEF Filled, CombinedOf
  <2> QED BY <1>1, <2>3 DEF Filled, DividedRight
<1> QED BY <1>2, <1>3

\* No cell of a layer is filled twice, but as both top and bottom.
LEMMA InfillOnce ==
    ASSUME ShapesTyped, ShellsOK
    PROVE  FilledOnce
<1> SUFFICES ASSUME doing = "done" PROVE FilledOnce
  BY DEF FilledOnce
<1>1. Filled /\ body \in Bodies /\ setting \in Shellings
  BY DEF ShellsOK
<1>2. ASSUME NEW m \in LayerIds, thick[m] # {}
      PROVE  /\ thickHeight[m] <= setting.nozzle
             /\ thickHeight[m] = Sum(Min(Under(m)), m)
  <2>1. CombinedOf(m)
    BY <1>1, <1>2 DEF Filled
  <2>2. /\ m + 1 - Stack(m) \in LayerIds /\ Stack(m) \in Nat /\ Stack(m) > 1
        /\ Sum(m + 1 - Stack(m), m) <= setting.nozzle
    BY <1>1, <2>1, StackFits DEF CombinedOf
  <2>3. m \in Int /\ m + 1 - Stack(m) \in Int /\ m + 1 - Stack(m) <= m
    BY <2>2 DEF LayerIds
  <2>4. Min(Under(m)) = m + 1 - Stack(m)
    BY <1>2, <2>3, MinOfRange DEF Under, Stacked
  <2> QED BY <2>1, <2>2, <2>4 DEF CombinedOf
<1>3. ASSUME NEW i \in LayerIds, NEW c
      PROVE  \/ c \in top[i] \cap bottom[i] /\ Fills(i, c) = {TopPass, BottomPass}
             \/ c \in Region(i) \ (top[i] \cap bottom[i]) /\ Cardinality(Fills(i, c)) = 1
             \/ c \notin Region(i) /\ Fills(i, c) = {}
             \/ /\ Fills(i, c) = {}
                /\ \E m \in LayerIds : i \in Under(m) /\ c \in Grown(thick[m], setting.ring)
  <2>1. /\ solid[i] \subseteq Region(i) /\ sparse[i] \subseteq Region(i) \ solid[i]
        /\ top[i] \cup bottom[i] \subseteq solid[i]
    BY <1>1 DEF Filled, DividedRight
  <2>2. ASSUME NEW m \in LayerIds, i \in Under(m), c \in thick[m]
        PROVE  c \in Region(i) \ (solid[i] \cup sparse[i]) /\ Stack(m) > 1 /\ i \in Stacked(m)
    <3>1. i \in Stacked(m) /\ CombinedOf(m)
      BY <1>1, <2>2 DEF Under, Filled
    <3> QED BY <2>2, <3>1 DEF CombinedOf
  <2>3. ASSUME NEW m \in LayerIds, NEW n \in LayerIds, i \in Under(m), i \in Under(n), c \in thick[m], c \in thick[n]
        PROVE  m = n
    <3>1. Stack(m) > 1 /\ Stack(n) > 1 /\ i \in Stacked(m) /\ i \in Stacked(n)
      BY <2>2, <2>3
    <3>2. ~(m < n) /\ ~(n < m)
      <4>1. /\ m \in Int /\ n \in Int /\ Stack(m) \in Nat /\ Stack(n) \in Nat
            /\ i <= m /\ i <= n /\ m + 1 - Stack(m) <= i /\ n + 1 - Stack(n) <= i /\ i \in Int
        BY <1>1, <3>1, StackCounts DEF Stacked, LayerIds
      <4>2. m < n => m < n + 1 - Stack(n)
        BY <1>1, <3>1, StacksApart
      <4>3. n < m => n < m + 1 - Stack(m)
        BY <1>1, <3>1, StacksApart
      <4> QED BY <4>1, <4>2, <4>3
    <3> QED BY <3>2 DEF LayerIds
  <2>4. CASE c \notin Region(i)
    BY <2>1, <2>2, <2>4 DEF Fills, OtherSolid
  <2>5. CASE c \in solid[i]
    <3>0. \A m \in LayerIds : ~(i \in Under(m) /\ c \in thick[m])
      BY <2>2, <2>5
    <3>1. CASE c \in top[i] \cap bottom[i]
      <4>1. Fills(i, c) = {TopPass, BottomPass}
        BY <2>1, <2>5, <3>0, <3>1 DEF Fills, OtherSolid
      <4> QED BY <3>1, <4>1
    <3>2. CASE c \in top[i] \ bottom[i]
      <4>1. Fills(i, c) = {TopPass}
        BY <2>1, <2>5, <3>0, <3>2 DEF Fills, OtherSolid
      <4> QED BY <2>1, <2>5, <3>2, <4>1, FS_Singleton
    <3>3. CASE c \in bottom[i] \ top[i]
      <4>1. Fills(i, c) = {BottomPass}
        BY <2>1, <2>5, <3>0, <3>3 DEF Fills, OtherSolid
      <4> QED BY <2>1, <2>5, <3>3, <4>1, FS_Singleton
    <3>4. CASE c \notin top[i] \cup bottom[i]
      <4>1. Fills(i, c) = {SolidPass}
        BY <2>1, <2>5, <3>0, <3>4 DEF Fills, OtherSolid
      <4> QED BY <2>1, <2>5, <3>4, <4>1, FS_Singleton
    <3> QED BY <3>1, <3>2, <3>3, <3>4
  <2>6. CASE c \in sparse[i]
    <3>1. Fills(i, c) = {SparsePass}
      BY <2>1, <2>2, <2>6 DEF Fills, OtherSolid
    <3> QED BY <2>1, <2>6, <3>1, FS_Singleton
  <2>7. CASE c \in Region(i) \ (solid[i] \cup sparse[i])
    <3>1. CASE \E m \in LayerIds : i \in Under(m) /\ c \in thick[m]
      <4>1. PICK m \in LayerIds : i \in Under(m) /\ c \in thick[m]
        BY <3>1
      <4>2. Fills(i, c) = {m}
        BY <2>1, <2>3, <2>7, <4>1 DEF Fills, OtherSolid
      <4> QED BY <2>1, <2>7, <4>2, FS_Singleton
    <3>2. CASE ~ \E m \in LayerIds : i \in Under(m) /\ c \in thick[m]
      <4>1. Fills(i, c) = {}
        BY <2>1, <2>7, <3>2 DEF Fills, OtherSolid
      <4>2. Near(i, c)
        BY <1>1, <2>7 DEF Filled
      <4> QED BY <4>1, <4>2 DEF Near, Under
    <3> QED BY <3>1, <3>2
  <2> QED BY <2>4, <2>5, <2>6, <2>7
<1> QED BY <1>2, <1>3 DEF FilledOnce

\* The invariant of the shells, whatever the region, the heights and the
\* settings of the shell.
LEMMA ShellsInvariant == ShellsSpec => []ShellsOK
<1>1. ShellsInit => ShellsOK
  BY ShellsStart, ShapesAssumption
<1>2. ShellsOK /\ [Shelling]_shelling => ShellsOK'
  BY ShellsKept, ShapesAssumption
<1> QED BY <1>1, <1>2, PTL DEF ShellsSpec

\* Going from sparse infill up or down through the region one meets the layers
\* and the thickness that the shell is to have (detect_surfaces,
\* discover_shells).
THEOREM SparseInside == ShellsSpec => []SparseIsDeep
<1>1. ShellsOK => SparseIsDeep
  BY ShapesAssumption, InfillInside
<1> QED BY <1>1, ShellsInvariant, PTL

\* All infill is filled, and by one pass only, however many layers are combined
\* into a thick one; only what is both top and bottom of its layer is filled as
\* the one and as the other (emit_shells, combine_sparse_infill).
THEOREM InfillFilled == ShellsSpec => []FilledOnce
<1>1. ShellsOK => FilledOnce
  BY ShapesAssumption, InfillOnce
<1> QED BY <1>1, ShellsInvariant, PTL

-----------------------------------------------------------------------------
(* Regions of a layer *)

\* f[n] is what of the first n members of the list has its index in I.
IsThose(f, list, I, k) ==
    f = [n \in 0 .. k |-> IF n = 0 THEN <<>>
                          ELSE IF n \in I THEN Append(f[n - 1], list[n])
                          ELSE f[n - 1]]

\* Those is the last value of such a function.
LEMMA ThoseSteps ==
    ASSUME NEW list, Len(list) \in Nat, NEW I
    PROVE  \E f : IsThose(f, list, I, Len(list)) /\ Those(list, I) = f[Len(list)]
<1> DEFINE T == {k \in Nat : \E f : IsThose(f, list, I, k)}
<1>1. 0 \in T
  <2>1. IsThose([n \in 0 .. 0 |-> <<>>], list, I, 0)
    BY DEF IsThose
  <2> QED BY <2>1
<1>2. ASSUME NEW k \in Nat, k \in T PROVE k + 1 \in T
  <2>1. PICK f : IsThose(f, list, I, k)
    BY <1>2
  <2> DEFINE g == [n \in 0 .. k + 1 |-> IF n = k + 1
                                        THEN IF k + 1 \in I THEN Append(f[k], list[k + 1]) ELSE f[k]
                                        ELSE f[n]]
  <2>2. IsThose(g, list, I, k + 1)
    <3>1. ASSUME NEW n \in 0 .. k + 1
          PROVE  g[n] = IF n = 0 THEN <<>> ELSE IF n \in I THEN Append(g[n - 1], list[n]) ELSE g[n - 1]
      <4>1. CASE n = k + 1
        BY <4>1
      <4>2. CASE n # k + 1 /\ n # 0
        <5>1. n \in 0 .. k /\ n - 1 \in 0 .. k /\ n - 1 # k + 1
          BY <4>2
        <5>2. g[n] = f[n] /\ g[n - 1] = f[n - 1]
          BY <4>2, <5>1
        <5>3. f[n] = IF n \in I THEN Append(f[n - 1], list[n]) ELSE f[n - 1]
          BY <2>1, <4>2, <5>1 DEF IsThose
        <5> QED BY <4>2, <5>2, <5>3
      <4>3. CASE n = 0
        BY <2>1, <4>3 DEF IsThose
      <4> QED BY <4>1, <4>2, <4>3
    <3> QED BY <3>1 DEF IsThose
  <2> HIDE DEF g
  <2> QED BY <2>2
<1>3. Len(list) \in T
  <2> HIDE DEF T
  <2> QED BY <1>1, <1>2, Induct
<1>4. \E f : IsThose(f, list, I, Len(list))
  BY <1>3
<1>5. IsThose(CHOOSE f : IsThose(f, list, I, Len(list)), list, I, Len(list))
  BY <1>4, Zenon
<1>6. Those(list, I) = (CHOOSE f : IsThose(f, list, I, Len(list)))[Len(list)]
  BY Zenon DEF Those, IsThose
<1> QED BY <1>5, <1>6

\* They are members with such an index.

LEMMA ThoseTyped ==
    ASSUME NEW list, Len(list) \in Nat, DOMAIN list = 1 .. Len(list), NEW I
    PROVE  Those(list, I) \in Seq({list[i] : i \in I \cap DOMAIN list})
<1> DEFINE V == {list[i] : i \in I \cap DOMAIN list}
<1>1. PICK f : IsThose(f, list, I, Len(list)) /\ Those(list, I) = f[Len(list)]
  BY ThoseSteps
<1> DEFINE T == {k \in Nat : k <= Len(list) => f[k] \in Seq(V)}
<1>2. 0 \in T
  <2>1. f[0] = <<>>
    BY <1>1 DEF IsThose
  <2> HIDE DEF V
  <2>2. <<>> \in Seq(V)
    OBVIOUS
  <2>3. f[0] \in Seq(V)
    BY <2>1, <2>2
  <2> QED BY <2>3
<1>3. ASSUME NEW k \in Nat, k \in T PROVE k + 1 \in T
  <2> SUFFICES ASSUME k + 1 <= Len(list) PROVE f[k + 1] \in Seq(V)
    OBVIOUS
  <2>1. f[k] \in Seq(V)
    BY <1>3
  <2>2. f[k + 1] = IF k + 1 \in I THEN Append(f[k], list[k + 1]) ELSE f[k]
    <3>1. k + 1 \in 0 .. Len(list) /\ k + 1 # 0 /\ k + 1 - 1 = k
      OBVIOUS
    <3>2. f = [n \in 0 .. Len(list) |-> IF n = 0 THEN <<>>
                                       ELSE IF n \in I THEN Append(f[n - 1], list[n])
                                       ELSE f[n - 1]]
      BY <1>1, Zenon DEF IsThose
    <3> DEFINE m == k + 1
    <3>3. f[m] = IF m = 0 THEN <<>> ELSE IF m \in I THEN Append(f[m - 1], list[m]) ELSE f[m - 1]
      <4> HIDE DEF m
      <4> QED BY <3>1, <3>2 DEF m
    <3> QED BY <3>1, <3>3
  <2>3. CASE k + 1 \in I
    <3>1. list[k + 1] \in V
      BY <2>3
    <3> HIDE DEF V
    <3> QED BY <2>1, <2>2, <2>3, <3>1
  <2>4. CASE k + 1 \notin I
    BY <2>1, <2>2, <2>4
  <2> QED BY <2>3, <2>4
<1>4. Len(list) \in T
  <2> HIDE DEF T
  <2> QED BY <1>2, <1>3, Induct
<1> QED BY <1>1, <1>4

\* f[n] is the first n members of the list, each once.
IsUnique(f, list, k) ==
    f = [n \in 0 .. k |-> IF n = 0 THEN <<>>
                          ELSE IF Contains(f[n - 1], list[n]) THEN f[n - 1]
                          ELSE Append(f[n - 1], list[n])]

\* Unique is the last value of such a function.
LEMMA UniqueSteps ==
    ASSUME NEW list, Len(list) \in Nat
    PROVE  \E f : IsUnique(f, list, Len(list)) /\ Unique(list) = f[Len(list)]
<1> DEFINE T == {k \in Nat : \E f : IsUnique(f, list, k)}
<1>1. 0 \in T
  <2>1. IsUnique([n \in 0 .. 0 |-> <<>>], list, 0)
    BY DEF IsUnique
  <2> QED BY <2>1
<1>2. ASSUME NEW k \in Nat, k \in T PROVE k + 1 \in T
  <2>1. PICK f : IsUnique(f, list, k)
    BY <1>2
  <2> DEFINE g == [n \in 0 .. k + 1 |->
                     IF n = k + 1
                     THEN IF Contains(f[k], list[k + 1]) THEN f[k] ELSE Append(f[k], list[k + 1])
                     ELSE f[n]]
  <2>2. IsUnique(g, list, k + 1)
    <3>1. ASSUME NEW n \in 0 .. k + 1
          PROVE  g[n] = IF n = 0 THEN <<>>
                        ELSE IF Contains(g[n - 1], list[n]) THEN g[n - 1]
                        ELSE Append(g[n - 1], list[n])
      <4>1. CASE n = k + 1
        BY <4>1
      <4>2. CASE n # k + 1 /\ n # 0
        <5>1. n \in 0 .. k /\ n - 1 \in 0 .. k /\ n - 1 # k + 1
          BY <4>2
        <5>2. g[n] = f[n] /\ g[n - 1] = f[n - 1]
          BY <4>2, <5>1
        <5>3. f[n] = IF Contains(f[n - 1], list[n]) THEN f[n - 1] ELSE Append(f[n - 1], list[n])
          BY <2>1, <4>2, <5>1 DEF IsUnique
        <5> QED BY <4>2, <5>2, <5>3
      <4>3. CASE n = 0
        BY <2>1, <4>3 DEF IsUnique
      <4> QED BY <4>1, <4>2, <4>3
    <3> QED BY <3>1 DEF IsUnique
  <2> HIDE DEF g
  <2> QED BY <2>2
<1>3. Len(list) \in T
  <2> HIDE DEF T
  <2> QED BY <1>1, <1>2, Induct
<1>4. \E f : IsUnique(f, list, Len(list))
  BY <1>3
<1>5. IsUnique(CHOOSE f : IsUnique(f, list, Len(list)), list, Len(list))
  BY <1>4, Zenon
<1>6. Unique(list) = (CHOOSE f : IsUnique(f, list, Len(list)))[Len(list)]
  BY Zenon DEF Unique, IsUnique
<1> QED BY <1>5, <1>6

\* u holds what the first k of the list are, none twice.
Once(u, list, k) ==
    /\ u \in Seq({list[i] : i \in 1 .. Len(list)})
    /\ \A r, s \in 1 .. Len(u) : u[r] = u[s] => r = s
    /\ \A j \in 1 .. k : \E r \in 1 .. Len(u) : u[r] = list[j]

\* A member more is added where it is new.
LEMMA OnceMore ==
    ASSUME NEW list, Len(list) \in Nat, NEW k \in 1 .. Len(list), NEW u, Once(u, list, k - 1)
    PROVE  Once(IF Contains(u, list[k]) THEN u ELSE Append(u, list[k]), list, k)
<1> DEFINE V == {list[i] : i \in 1 .. Len(list)}
           v == Append(u, list[k])
<1>1. u \in Seq(V) /\ list[k] \in V /\ Len(u) \in Nat
  BY DEF Once
<1>2. CASE Contains(u, list[k])
  <2>1. \A j \in 1 .. k : j \in 1 .. k - 1 \/ j = k
    OBVIOUS
  <2> QED BY <1>2, <2>1 DEF Once, Contains
<1>3. CASE ~Contains(u, list[k])
  <2> HIDE DEF V
  <2>1. /\ v \in Seq(V) /\ Len(v) = Len(u) + 1 /\ v[Len(u) + 1] = list[k]
        /\ \A r \in 1 .. Len(u) : v[r] = u[r]
    BY <1>1
  <2> HIDE DEF v
  <2>2. \A r \in 1 .. Len(v) : r \in 1 .. Len(u) \/ r = Len(u) + 1
    BY <1>1, <2>1
  <2>3. \A r \in 1 .. Len(u) : u[r] # list[k]
    BY <1>3 DEF Contains
  <2>4. ASSUME NEW r \in 1 .. Len(v), NEW s \in 1 .. Len(v), v[r] = v[s] PROVE r = s
    <3>1. r \in 1 .. Len(u) /\ s \in 1 .. Len(u) => r = s
      BY <2>1, <2>4 DEF Once
    <3> QED BY <2>1, <2>2, <2>3, <2>4, <3>1
  <2>5. ASSUME NEW j \in 1 .. k PROVE \E r \in 1 .. Len(v) : v[r] = list[j]
    <3>1. CASE j = k
      BY <1>1, <2>1, <3>1
    <3>2. CASE j # k
      <4>1. j \in 1 .. k - 1
        BY <3>2
      <4>2. PICK r \in 1 .. Len(u) : u[r] = list[j]
        BY <4>1 DEF Once
      <4>3. r \in 1 .. Len(v)
        BY <1>1, <2>1
      <4> QED BY <2>1, <4>2, <4>3
    <3> QED BY <3>1, <3>2
  <2> QED BY <1>3, <2>1, <2>4, <2>5 DEF Once, V, v
<1> QED BY <1>2, <1>3

\* Unique holds what the list holds, each once.
LEMMA UniqueOnce ==
    ASSUME NEW list, Len(list) \in Nat
    PROVE  Once(Unique(list), list, Len(list))
<1>1. PICK f : IsUnique(f, list, Len(list)) /\ Unique(list) = f[Len(list)]
  BY UniqueSteps
<1> DEFINE T == {k \in Nat : k <= Len(list) => Once(f[k], list, k)}
<1>2. 0 \in T
  <2>1. f[0] = <<>>
    BY <1>1 DEF IsUnique
  <2>2. Once(<<>>, list, 0)
    BY DEF Once
  <2> QED BY <2>1, <2>2
<1>3. ASSUME NEW k \in Nat, k \in T PROVE k + 1 \in T
  <2> SUFFICES ASSUME k + 1 <= Len(list) PROVE Once(f[k + 1], list, k + 1)
    OBVIOUS
  <2>1. Once(f[k], list, k)
    BY <1>3
  <2> DEFINE m == k + 1
  <2>2. m \in 0 .. Len(list) /\ m \in 1 .. Len(list) /\ m # 0 /\ m - 1 = k
    OBVIOUS
  <2>3. f = [n \in 0 .. Len(list) |-> IF n = 0 THEN <<>>
                                     ELSE IF Contains(f[n - 1], list[n]) THEN f[n - 1]
                                     ELSE Append(f[n - 1], list[n])]
    BY <1>1, Zenon DEF IsUnique
  <2> HIDE DEF m
  <2>4. f[m] = IF Contains(f[k], list[m]) THEN f[k] ELSE Append(f[k], list[m])
    BY <2>2, <2>3
  <2>5. Once(f[m], list, m)
    BY <2>1, <2>2, <2>4, OnceMore
  <2> QED BY <2>5 DEF m
<1>4. Len(list) \in T
  <2> HIDE DEF T
  <2> QED BY <1>2, <1>3, Induct
<1> QED BY <1>1, <1>4

\* A sequence of whatever.
IsList(list) == Len(list) \in Nat /\ list = [i \in 1 .. Len(list) |-> list[i]]

\* Sequences are lists,
LEMMA SeqIsList == ASSUME NEW V, NEW list \in Seq(V) PROVE IsList(list)
BY DEF IsList

\* and so is what one is appended to.
LEMMA AppendList ==
    ASSUME NEW list, IsList(list), NEW e
    PROVE  /\ IsList(Append(list, e)) /\ Len(Append(list, e)) = Len(list) + 1
           /\ \A i \in 1 .. Len(list) : Append(list, e)[i] = list[i]
           /\ Append(list, e)[Len(list) + 1] = e
<1> DEFINE V == {list[i] : i \in 1 .. Len(list)} \cup {e}
<1>1. list \in Seq(V) /\ e \in V
  <2>1. list \in [1 .. Len(list) -> V] /\ Len(list) \in Nat
    BY DEF IsList
  <2> QED BY <2>1
<1> HIDE DEF V
<1>2. Append(list, e) \in Seq(V) /\ Len(list) \in Nat
  BY <1>1
<1>3. IsList(Append(list, e))
  BY <1>2, SeqIsList
<1> QED BY <1>1, <1>2, <1>3

\* Of the members before the n-th, the i-th is the last to hold c.
Has(list, n, i, c) == c \in list[i].cells /\ \A j \in i + 1 .. n - 1 : c \notin list[j].cells

\* The settings of a cell before modifiers.
Based(c, cfg) ==
    IF PartsDiffer
    THEN \E i \in 1 .. Len(Parts) : Has(Parts, Len(Parts) + 1, i, c) /\ cfg = PartSettings(Parts[i], base)
    ELSE cfg = base

\* Those after the modifiers before the n-th.
Right(c, cfg, n) ==
    \/ \E k \in 1 .. n - 1 : Has(Modifiers, n, k, c) /\ cfg = RegionSettings(Modifiers[k], base)
    \/ (\A k \in 1 .. n - 1 : c \notin Modifiers[k].cells) /\ Based(c, cfg)

\* Of the parts before the next, each has what no later of them covers.
Clipped ==
    /\ PartsDiffer
    /\ next \in Nat \ {0} /\ next <= Len(Parts) + 1
    /\ IsList(slices) /\ Len(slices) = Len(Parts)
    /\ UNION {slices[i] : i \in 1 .. Len(Parts)} = Whole
    /\ \A i \in 1 .. Len(Parts) : i >= next => slices[i] = Parts[i].cells \ Removed
    /\ \A i \in 1 .. Len(Parts) : \A c \in slices[i] : Has(Parts, next, i, c)

\* Regions share out what is printed, under the settings meant so far.
Shared ==
    /\ next \in Nat \ {0} /\ next <= Len(pieces) /\ next <= Len(Modifiers) + 1
    /\ IsList(pieces) /\ IsList(cfgs) /\ Len(cfgs) = Len(pieces)
    /\ UNION {pieces[r] : r \in 1 .. Len(pieces)} = Whole
    /\ \A r, s \in 1 .. Len(pieces) : r # s => pieces[r] \cap pieces[s] = {}
    /\ \A r \in 1 .. Len(pieces) : \A c \in pieces[r] : Right(c, cfgs[r], next)

\* The invariant of the regions.
RegionsOK ==
    /\ volumes \in Seq(Volumes)
    /\ phase \in {"plan", "refused", "clip", "modify", "done"}
    /\ phase = "plan" => next = 1 /\ pieces = <<>>
    /\ phase = "clip" => Clipped
    /\ phase = "modify" => Shared
    /\ phase = "done" => RegionsShare

\* Parts and modifiers are lists of volumes that are such.

LEMMA ListsTyped ==
    ASSUME volumes \in Seq(Volumes)
    PROVE  /\ IsList(Parts) /\ IsList(Modifiers)
           /\ \A k \in 1 .. Len(Modifiers) :
                 \E i \in DOMAIN volumes : volumes[i].kind = "modifier" /\ volumes[i].region # None
                                          /\ Modifiers[k] = volumes[i]
<1> DEFINE I == {i \in DOMAIN volumes : volumes[i].kind = "part"}
           J == {i \in DOMAIN volumes : /\ volumes[i].kind = "modifier" /\ volumes[i].region # None
                                       /\ RegionSettings(volumes[i], base) # base}
<1>1. Len(volumes) \in Nat /\ DOMAIN volumes = 1 .. Len(volumes)
  OBVIOUS
<1>2. Parts = Those(volumes, I) /\ Modifiers = Those(volumes, J)
  BY DEF Parts, OfKind, Modifiers
<1>3. /\ Parts \in Seq({volumes[i] : i \in I \cap DOMAIN volumes})
      /\ Modifiers \in Seq({volumes[i] : i \in J \cap DOMAIN volumes})
  <2> HIDE DEF I, J
  <2> QED BY <1>1, <1>2, ThoseTyped
<1>4. \A k \in 1 .. Len(Modifiers) : Modifiers[k] \in {volumes[i] : i \in J \cap DOMAIN volumes}
  BY <1>3, ElementOfSeq
<1>5. IsList(Parts) /\ IsList(Modifiers)
  <2> HIDE DEF I, J
  <2> QED BY <1>3, SeqIsList
<1> QED BY <1>4, <1>5

\* The invariant of the regions: it holds at the start,
LEMMA RegionsStart == ASSUME ObjectsTyped, SlicingInit PROVE RegionsOK
BY DEF ObjectsTyped, SlicingInit, RegionsOK

\* What a step that keeps the object keeps.

LEMMA ObjectKept ==
    ASSUME volumes' = volumes, base' = base
    PROVE  /\ Parts' = Parts /\ Modifiers' = Modifiers /\ Removed' = Removed /\ Whole' = Whole
           /\ PartsDiffer' = PartsDiffer
           /\ \A c, cfg, n : Right(c, cfg, n)' = Right(c, cfg, n)
<1>1. /\ OfKind("part")' = OfKind("part") /\ OfKind("negative")' = OfKind("negative")
      /\ Modifiers' = Modifiers
  BY DEF OfKind, Modifiers
<1>2. Parts' = Parts
  BY <1>1 DEF Parts
<1>3. Removed' = Removed
  BY <1>1 DEF Removed
<1>4. Whole' = Whole /\ PartsDiffer' = PartsDiffer
  BY <1>2, <1>3 DEF Whole, PartsDiffer
<1>5. \A c, cfg : Based(c, cfg)' = Based(c, cfg)
  BY <1>2, <1>4 DEF Based
<1> QED BY <1>1, <1>2, <1>3, <1>4, <1>5 DEF Right

\* a later part takes what it covers from the earlier ones,
LEMMA ClipKeeps ==
    ASSUME RegionsOK, ClipEarlier
    PROVE  RegionsOK'
<1>1. /\ volumes' = volumes /\ base' = base /\ phase' = phase /\ next' = next + 1
      /\ phase = "clip" /\ next <= Len(slices)
      /\ slices' = [i \in DOMAIN slices |-> IF i < next THEN slices[i] \ slices[next] ELSE slices[i]]
  BY DEF ClipEarlier
<1>2. /\ Parts' = Parts /\ Removed' = Removed /\ Whole' = Whole /\ PartsDiffer' = PartsDiffer
  BY <1>1, ObjectKept
<1>3. Clipped /\ volumes \in Seq(Volumes)
  BY <1>1 DEF RegionsOK
<1> DEFINE n == Len(Parts)
<1>4. /\ n \in Nat /\ next \in 1 .. n /\ DOMAIN slices = 1 .. n /\ Len(slices) = n
  BY <1>1, <1>3 DEF Clipped, IsList
<1>5. \A i \in 1 .. n : slices'[i] = IF i < next THEN slices[i] \ slices[next] ELSE slices[i]
  BY <1>1, <1>4
<1>6. IsList(slices') /\ Len(slices') = n
  <2> HIDE DEF n
  <2> QED BY <1>1, <1>4 DEF IsList
<1>7. \A i \in 1 .. n : \A c \in slices[i] : Has(Parts, next, i, c) /\ c \in Whole
  BY <1>3 DEF Clipped
<1>8. slices[next] = Parts[next].cells \ Removed
  BY <1>3, <1>4 DEF Clipped
<1> HIDE DEF n
<1>9. UNION {slices'[i] : i \in 1 .. n} = Whole
  <2>1. UNION {slices[i] : i \in 1 .. n} = Whole
    BY <1>3 DEF Clipped, n
  <2>2. ASSUME NEW c \in Whole PROVE \E i \in 1 .. n : c \in slices'[i]
    <3>1. PICK i \in 1 .. n : c \in slices[i]
      BY <2>1
    <3>2. CASE c \in slices[next]
      <4>1. next \in 1 .. n /\ ~(next < next)
        BY <1>4
      <4>2. c \in slices'[next]
        BY <1>5, <3>2, <4>1
      <4> QED BY <4>1, <4>2
    <3>3. CASE c \notin slices[next]
      BY <1>5, <3>1, <3>3
    <3> QED BY <3>2, <3>3
  <2>3. \A i \in 1 .. n : slices'[i] \subseteq slices[i]
    BY <1>5
  <2> QED BY <2>1, <2>2, <2>3
<1>10. ASSUME NEW i \in 1 .. n, i >= next + 1 PROVE slices'[i] = Parts[i].cells \ Removed
  <2>1. i >= next /\ ~(i < next)
    BY <1>4, <1>10
  <2> QED BY <1>3, <1>5, <2>1 DEF Clipped, n
<1>11. ASSUME NEW i \in 1 .. n, NEW c \in slices'[i] PROVE Has(Parts, next + 1, i, c)
  <2>1. c \in slices[i] /\ (i < next => c \notin slices[next])
    BY <1>5, <1>11
  <2>2. Has(Parts, next, i, c) /\ c \in Whole
    BY <1>7, <2>1
  <2>3. i < next => c \notin Parts[next].cells
    BY <1>8, <2>1, <2>2 DEF Whole
  <2>4. ASSUME NEW j \in i + 1 .. (next + 1) - 1 PROVE c \notin Parts[j].cells
    <3>1. j \in i + 1 .. next - 1 \/ (j = next /\ i < next)
      BY <1>4
    <3> QED BY <2>2, <2>3, <3>1 DEF Has
  <2>5. c \in Parts[i].cells
    BY <2>2 DEF Has
  <2> QED BY <2>4, <2>5 DEF Has
<1>12. Clipped'
  <2>1. PartsDiffer
    BY <1>3 DEF Clipped
  <2>2. next + 1 \in Nat \ {0} /\ next + 1 <= n + 1
    BY <1>4
  <2> QED BY <1>1, <1>2, <1>6, <1>9, <1>10, <1>11, <2>1, <2>2 DEF Clipped, n
<1> QED BY <1>1, <1>3, <1>12 DEF RegionsOK

\* parts begin with all of their own,
LEMMA CutKeeps ==
    ASSUME RegionsOK, CutParts
    PROVE  RegionsOK'
<1>1. /\ volumes' = volumes /\ base' = base /\ phase' = "clip" /\ next' = 2
      /\ PartsDiffer /\ slices' = [i \in DOMAIN Parts |-> Parts[i].cells \ Removed]
  BY DEF CutParts
<1>2. /\ Parts' = Parts /\ Removed' = Removed /\ Whole' = Whole /\ PartsDiffer' = PartsDiffer
  BY <1>1, ObjectKept
<1>3. volumes \in Seq(Volumes)
  BY DEF RegionsOK
<1> DEFINE n == Len(Parts)
<1>4. n \in Nat /\ DOMAIN Parts = 1 .. n
  BY <1>3, ListsTyped DEF IsList
<1>5. n > 1
  BY <1>1 DEF PartsDiffer
<1>6. slices' = [i \in 1 .. n |-> Parts[i].cells \ Removed]
  BY <1>1, <1>4
<1>7. \A c : c \in Whole <=> c \notin Removed /\ \E i \in 1 .. n : c \in Parts[i].cells
  BY <1>4 DEF Whole, ToSet
<1> HIDE DEF n
<1>8. IsList(slices') /\ Len(slices') = n
  BY <1>4, <1>6 DEF IsList
<1>9. \A i \in 1 .. n : slices'[i] = Parts[i].cells \ Removed
  BY <1>6
<1>10. UNION {slices'[i] : i \in 1 .. n} = Whole
  BY <1>7, <1>9
<1>11. ASSUME NEW i \in 1 .. n, NEW c \in slices'[i] PROVE Has(Parts, 2, i, c)
  <2>1. i + 1 .. 2 - 1 = {}
    OBVIOUS
  <2> QED BY <1>9, <1>11, <2>1 DEF Has
<1>12. Clipped'
  <2>1. 2 \in Nat \ {0} /\ 2 <= n + 1
    BY <1>4, <1>5
  <2> QED BY <1>1, <1>2, <1>8, <1>9, <1>10, <1>11, <2>1 DEF Clipped, n
<1> QED BY <1>1, <1>3, <1>12 DEF RegionsOK

\* parts without regions are one region,
LEMMA OneKeeps ==
    ASSUME RegionsOK, OneSlot
    PROVE  RegionsOK'
<1>1. /\ volumes' = volumes /\ base' = base /\ phase' = "modify" /\ next' = 1 /\ ~PartsDiffer
      /\ pieces' = <<Whole>> /\ cfgs' = <<base>>
  BY DEF OneSlot, RegionsOK
<1>2. /\ Modifiers' = Modifiers /\ Whole' = Whole
      /\ \A c, cfg, n : Right(c, cfg, n)' = Right(c, cfg, n)
  BY <1>1, ObjectKept
<1>3. volumes \in Seq(Volumes) /\ Len(Modifiers) \in Nat
  BY ListsTyped DEF RegionsOK, IsList
<1>4. \A c : Right(c, base, 1)
  BY <1>1 DEF Right, Based
<1>5. IsList(pieces') /\ IsList(cfgs') /\ Len(pieces') = 1 /\ Len(cfgs') = 1
      /\ \A r \in 1 .. 1 : pieces'[r] = Whole /\ cfgs'[r] = base
  BY <1>1 DEF IsList
<1>6. Shared'
  BY <1>1, <1>2, <1>3, <1>4, <1>5 DEF Shared
<1> QED BY <1>1, <1>3, <1>6 DEF RegionsOK

\* parts of the same settings become one region,
LEMMA GatherKeeps ==
    ASSUME RegionsOK, GatherParts
    PROVE  RegionsOK'
<1> DEFINE n == Len(Parts)
           own == [i \in DOMAIN Parts |-> PartSettings(Parts[i], base)]
           of(r) == {j \in DOMAIN slices : PartSettings(Parts[j], base) = cfgs'[r]}
<1>1. /\ volumes' = volumes /\ base' = base /\ phase' = "modify" /\ next' = 1
      /\ phase = "clip" /\ next > Len(slices)
      /\ cfgs' = Unique(own)
      /\ pieces' = [r \in DOMAIN cfgs' |-> UNION {slices[i] : i \in of(r)}]
  BY DEF GatherParts
<1>2. /\ Parts' = Parts /\ Modifiers' = Modifiers /\ Whole' = Whole /\ PartsDiffer' = PartsDiffer
      /\ \A c, cfg, k : Right(c, cfg, k)' = Right(c, cfg, k)
  BY <1>1, ObjectKept
<1>3. Clipped /\ volumes \in Seq(Volumes)
  BY <1>1 DEF RegionsOK
<1>4. /\ n \in Nat /\ n > 1 /\ DOMAIN Parts = 1 .. n /\ DOMAIN slices = 1 .. n /\ next = n + 1
      /\ Len(Modifiers) \in Nat
  BY <1>1, <1>3, ListsTyped DEF Clipped, IsList, PartsDiffer
<1>5. /\ Len(own) = n /\ \A i \in 1 .. n : own[i] = PartSettings(Parts[i], base)
  BY <1>4
<1> HIDE DEF own
<1>6. Once(cfgs', own, n)
  BY <1>1, <1>4, <1>5, UniqueOnce
<1> DEFINE m == Len(cfgs')
<1>7. /\ IsList(cfgs') /\ m \in Nat /\ DOMAIN cfgs' = 1 .. m
      /\ \A r, s \in 1 .. m : cfgs'[r] = cfgs'[s] => r = s
      /\ \A j \in 1 .. n : \E r \in 1 .. m : cfgs'[r] = PartSettings(Parts[j], base)
  BY <1>5, <1>6, SeqIsList DEF Once, IsList
<1> HIDE DEF n, m
<1>8. m >= 1
  <2>1. 1 \in 1 .. n
    BY <1>4
  <2>2. PICK r \in 1 .. m : cfgs'[r] = PartSettings(Parts[1], base)
    BY <1>7, <2>1
  <2> QED BY <1>7, <2>2
<1>9. pieces' = [r \in 1 .. m |-> UNION {slices[i] : i \in of(r)}]
  BY <1>1, <1>7
<1>10. IsList(pieces') /\ Len(pieces') = m
  BY <1>7, <1>9 DEF IsList
<1>11. \A r \in 1 .. m : \A c : c \in pieces'[r] <=>
          \E i \in 1 .. n : c \in slices[i] /\ PartSettings(Parts[i], base) = cfgs'[r]
  BY <1>4, <1>9
<1>12. \A i \in 1 .. n : \A c \in slices[i] : Has(Parts, n + 1, i, c)
  BY <1>3, <1>4 DEF Clipped, n
<1>13. UNION {pieces'[r] : r \in 1 .. m} = Whole
  <2>1. \A c : c \in Whole <=> \E i \in 1 .. n : c \in slices[i]
    BY <1>3 DEF Clipped, n
  <2>2. ASSUME NEW c \in Whole PROVE \E r \in 1 .. m : c \in pieces'[r]
    <3>1. PICK i \in 1 .. n : c \in slices[i]
      BY <2>1
    <3>2. PICK r \in 1 .. m : cfgs'[r] = PartSettings(Parts[i], base)
      BY <1>7
    <3> QED BY <1>11, <3>1, <3>2
  <2>3. ASSUME NEW r \in 1 .. m, NEW c \in pieces'[r] PROVE c \in Whole
    BY <1>11, <2>1
  <2> QED BY <2>2, <2>3
<1>14. ASSUME NEW r \in 1 .. m, NEW s \in 1 .. m, r # s PROVE pieces'[r] \cap pieces'[s] = {}
  <2> SUFFICES ASSUME NEW c \in pieces'[r], c \in pieces'[s] PROVE FALSE
    OBVIOUS
  <2>1. PICK i \in 1 .. n : c \in slices[i] /\ PartSettings(Parts[i], base) = cfgs'[r]
    BY <1>11
  <2>2. PICK j \in 1 .. n : c \in slices[j] /\ PartSettings(Parts[j], base) = cfgs'[s]
    BY <1>11
  <2>3. Has(Parts, n + 1, i, c) /\ Has(Parts, n + 1, j, c)
    BY <1>12, <2>1, <2>2
  <2>4. ~(i < j) /\ ~(j < i)
    <3>1. i \in Int /\ j \in Int /\ i <= n /\ j <= n /\ n \in Int
      BY <1>4
    <3>2. i < j => j \in i + 1 .. (n + 1) - 1
      BY <3>1
    <3>3. j < i => i \in j + 1 .. (n + 1) - 1
      BY <3>1
    <3> QED BY <2>3, <3>2, <3>3 DEF Has
  <2>5. i = j
    BY <2>4
  <2> QED BY <1>7, <1>14, <2>1, <2>2, <2>5
<1>15. ASSUME NEW r \in 1 .. m, NEW c \in pieces'[r] PROVE Right(c, cfgs'[r], 1)
  <2>1. PICK i \in 1 .. n : c \in slices[i] /\ PartSettings(Parts[i], base) = cfgs'[r]
    BY <1>11
  <2>2. Has(Parts, n + 1, i, c) /\ PartsDiffer
    BY <1>3, <1>12, <2>1 DEF Clipped
  <2>3. Based(c, cfgs'[r])
    BY <2>1, <2>2 DEF Based, n
  <2>4. 1 .. 1 - 1 = {}
    OBVIOUS
  <2> QED BY <2>3, <2>4 DEF Right
<1>16. Shared'
  <2>1. Len(cfgs') = m
    BY DEF m
  <2>2. 1 \in Nat \ {0} /\ 1 <= m /\ 1 <= Len(Modifiers) + 1
    BY <1>4, <1>7, <1>8
  <2> QED BY <1>1, <1>2, <1>7, <1>10, <1>13, <1>14, <1>15, <2>1, <2>2 DEF Shared
<1> QED BY <1>1, <1>3, <1>16 DEF RegionsOK

\* a modifier takes what it covers from all regions,
LEMMA ModifierKeeps ==
    ASSUME RegionsOK, ApplyModifier
    PROVE  RegionsOK'
<1> DEFINE m == Len(pieces)
           cells == Modifiers[next].cells
           mine == UNION {pieces[r] \cap cells : r \in DOMAIN pieces}
           rest == [r \in DOMAIN pieces |-> pieces[r] \ cells]
           cfg == RegionSettings(Modifiers[next], base)
<1>1. /\ volumes' = volumes /\ base' = base /\ phase' = phase /\ next' = next + 1
      /\ phase = "modify" /\ next <= Len(Modifiers)
      /\ pieces' = Append(rest, mine) /\ cfgs' = Append(cfgs, cfg)
  BY DEF ApplyModifier
<1>2. /\ Modifiers' = Modifiers /\ Whole' = Whole
      /\ \A c, g, n : Right(c, g, n)' = Right(c, g, n)
  BY <1>1, ObjectKept
<1>3. Shared /\ volumes \in Seq(Volumes)
  BY <1>1 DEF RegionsOK
<1>4. /\ m \in Nat /\ DOMAIN pieces = 1 .. m /\ IsList(cfgs) /\ Len(cfgs) = m
      /\ next \in Nat \ {0} /\ next <= m /\ Len(Modifiers) \in Nat
  BY <1>3, ListsTyped DEF Shared, IsList
<1>5. IsList(rest) /\ Len(rest) = m /\ \A r \in 1 .. m : rest[r] = pieces[r] \ cells
  <2> HIDE DEF m, cells
  <2> QED BY <1>4 DEF IsList
<1>6. \A c : c \in mine <=> c \in cells /\ \E r \in 1 .. m : c \in pieces[r]
  BY <1>4
<1> HIDE DEF m, cells, mine, rest, cfg
<1>7. /\ IsList(pieces') /\ Len(pieces') = m + 1 /\ pieces'[m + 1] = mine
      /\ \A r \in 1 .. m : pieces'[r] = pieces[r] \ cells
  BY <1>1, <1>5, AppendList
<1>8. /\ IsList(cfgs') /\ Len(cfgs') = m + 1 /\ cfgs'[m + 1] = cfg
      /\ \A r \in 1 .. m : cfgs'[r] = cfgs[r]
  BY <1>1, <1>4, AppendList
<1>9. /\ \A c : c \in Whole <=> \E r \in 1 .. m : c \in pieces[r]
      /\ \A r, s \in 1 .. m : r # s => pieces[r] \cap pieces[s] = {}
      /\ \A r \in 1 .. m : \A c \in pieces[r] : Right(c, cfgs[r], next)
  BY <1>3 DEF Shared, m
<1>10. \A r \in 1 .. m + 1 : r \in 1 .. m \/ r = m + 1
  BY <1>4
<1>11. \A r \in 1 .. m : r \in 1 .. m + 1
  BY <1>4
<1>12. UNION {pieces'[r] : r \in 1 .. m + 1} = Whole
  <2>1. ASSUME NEW c \in Whole PROVE \E r \in 1 .. m + 1 : c \in pieces'[r]
    <3>1. PICK r \in 1 .. m : c \in pieces[r]
      BY <1>9
    <3>2. CASE c \in cells
      <4>1. m + 1 \in 1 .. m + 1
        BY <1>4
      <4> QED BY <1>6, <1>7, <3>1, <3>2, <4>1
    <3>3. CASE c \notin cells
      BY <1>7, <1>11, <3>1, <3>3
    <3> QED BY <3>2, <3>3
  <2>2. ASSUME NEW r \in 1 .. m + 1, NEW c \in pieces'[r] PROVE c \in Whole
    BY <1>6, <1>7, <1>9, <1>10
  <2> QED BY <2>1, <2>2
<1>13. ASSUME NEW r \in 1 .. m + 1, NEW s \in 1 .. m + 1, r # s PROVE pieces'[r] \cap pieces'[s] = {}
  BY <1>6, <1>7, <1>9, <1>10, <1>13
<1>14. ASSUME NEW r \in 1 .. m + 1, NEW c \in pieces'[r] PROVE Right(c, cfgs'[r], next + 1)
  <2>1. CASE r = m + 1
    <3>1. c \in cells /\ cfgs'[r] = cfg
      BY <1>6, <1>7, <1>8, <1>14, <2>1
    <3>2. next \in 1 .. (next + 1) - 1 /\ next + 1 .. (next + 1) - 1 = {}
      BY <1>4
    <3>3. Has(Modifiers, next + 1, next, c)
      BY <3>1, <3>2 DEF Has, cells
    <3> QED BY <3>1, <3>2, <3>3 DEF Right, cfg
  <2>2. CASE r \in 1 .. m
    <3>1. c \in pieces[r] /\ c \notin cells /\ cfgs'[r] = cfgs[r]
      BY <1>7, <1>8, <1>14, <2>2
    <3>2. Right(c, cfgs[r], next)
      BY <1>9, <2>2, <3>1
    <3>3. \A k \in 1 .. (next + 1) - 1 : k \in 1 .. next - 1 \/ k = next
      BY <1>4
    <3>4. CASE \E k \in 1 .. next - 1 : /\ Has(Modifiers, next, k, c)
                                        /\ cfgs[r] = RegionSettings(Modifiers[k], base)
      <4>1. PICK k \in 1 .. next - 1 : /\ Has(Modifiers, next, k, c)
                                      /\ cfgs[r] = RegionSettings(Modifiers[k], base)
        BY <3>4
      <4>2. ASSUME NEW j \in k + 1 .. (next + 1) - 1 PROVE c \notin Modifiers[j].cells
        <5>1. j \in k + 1 .. next - 1 \/ j = next
          BY <1>4
        <5> QED BY <3>1, <4>1, <5>1 DEF Has, cells
      <4>3. Has(Modifiers, next + 1, k, c)
        BY <4>1, <4>2 DEF Has
      <4>4. k \in 1 .. (next + 1) - 1
        BY <1>4
      <4> QED BY <3>1, <4>1, <4>3, <4>4 DEF Right
    <3>5. CASE (\A k \in 1 .. next - 1 : c \notin Modifiers[k].cells) /\ Based(c, cfgs[r])
      <4>1. \A k \in 1 .. (next + 1) - 1 : c \notin Modifiers[k].cells
        BY <3>1, <3>3, <3>5 DEF cells
      <4> QED BY <3>1, <3>5, <4>1 DEF Right
    <3> QED BY <3>2, <3>4, <3>5 DEF Right
  <2> QED BY <1>10, <2>1, <2>2
<1>15. next + 1 \in Nat \ {0} /\ next + 1 <= m + 1 /\ next + 1 <= Len(Modifiers) + 1
  BY <1>1, <1>4
<1>16. Shared'
  BY <1>1, <1>2, <1>7, <1>8, <1>12, <1>13, <1>14, <1>15 DEF Shared
<1> QED BY <1>1, <1>3, <1>16 DEF RegionsOK

\* Max is the greatest member.
LEMMA MaxIs == ASSUME NEW S, S \subseteq Int, NEW k \in S, \A l \in S : l <= k PROVE Max(S) = k
<1>1. \A p \in S : (\A q \in S : p >= q) => p = k
  OBVIOUS
<1>2. \A q \in S : k >= q
  OBVIOUS
<1> QED BY <1>1, <1>2 DEF Max

\* The last of a list to hold a cell is the greatest of those that do.

LEMMA LastHolds ==
    ASSUME NEW list, IsList(list), NEW i \in 1 .. Len(list), NEW c, Has(list, Len(list) + 1, i, c)
    PROVE  Holding(list, c) # {} /\ Max(Holding(list, c)) = i
<1>1. DOMAIN list = 1 .. Len(list) /\ Len(list) \in Nat
  BY DEF IsList
<1>2. i \in Holding(list, c) /\ Holding(list, c) \subseteq Int
  BY <1>1 DEF Holding, Has
<1>3. ASSUME NEW l \in Holding(list, c) PROVE l <= i
  <2> SUFFICES ASSUME ~(l <= i) PROVE FALSE
    OBVIOUS
  <2>1. l \in i + 1 .. (Len(list) + 1) - 1 /\ c \in list[l].cells
    BY <1>1 DEF Holding
  <2> QED BY <2>1 DEF Has
<1> QED BY <1>2, <1>3, MaxIs

\* The settings right after all modifiers are those meant.

LEMMA RightIsMeant ==
    ASSUME volumes \in Seq(Volumes), NEW c, NEW cfg, Right(c, cfg, Len(Modifiers) + 1)
    PROVE  /\ PartsDiffer /\ pieces # <<>> => cfg = MeantFor(c)
           /\ ~PartsDiffer => cfg = MeantFor(c)
<1>1. IsList(Parts) /\ IsList(Modifiers)
  BY ListsTyped
<1>2. DOMAIN Modifiers = 1 .. Len(Modifiers) /\ Len(Modifiers) \in Nat /\ (Len(Modifiers) + 1) - 1 = Len(Modifiers)
  BY <1>1 DEF IsList
<1>3. CASE \E k \in 1 .. Len(Modifiers) : /\ Has(Modifiers, Len(Modifiers) + 1, k, c)
                                         /\ cfg = RegionSettings(Modifiers[k], base)
  <2>1. PICK k \in 1 .. Len(Modifiers) : /\ Has(Modifiers, Len(Modifiers) + 1, k, c)
                                         /\ cfg = RegionSettings(Modifiers[k], base)
    BY <1>3
  <2>2. Holding(Modifiers, c) # {} /\ Max(Holding(Modifiers, c)) = k
    BY <1>1, <2>1, LastHolds
  <2> QED BY <2>1, <2>2 DEF MeantFor
<1>4. CASE (\A k \in 1 .. Len(Modifiers) : c \notin Modifiers[k].cells) /\ Based(c, cfg)
  <2>1. Holding(Modifiers, c) = {}
    BY <1>2, <1>4 DEF Holding
  <2>2. ASSUME PartsDiffer, pieces # <<>> PROVE cfg = MeantFor(c)
    <3>1. PICK i \in 1 .. Len(Parts) : /\ Has(Parts, Len(Parts) + 1, i, c)
                                      /\ cfg = PartSettings(Parts[i], base)
      BY <1>4, <2>2 DEF Based
    <3>2. Max(Holding(Parts, c)) = i
      BY <1>1, <3>1, LastHolds
    <3> QED BY <2>1, <2>2, <3>1, <3>2 DEF MeantFor
  <2>3. ASSUME ~PartsDiffer PROVE cfg = MeantFor(c)
    BY <1>4, <2>1, <2>3 DEF Based, MeantFor
  <2> QED BY <2>2, <2>3
<1> QED BY <1>2, <1>3, <1>4 DEF Right

\* a layer without regions prints under the settings of the object,
LEMMA UndividedKeeps ==
    ASSUME RegionsOK, Undivided
    PROVE  RegionsOK'
<1>1. /\ volumes' = volumes /\ base' = base /\ phase' = "done" /\ contours' = Whole
      /\ pieces' = pieces /\ cfgs' = cfgs /\ pieces = <<>>
      /\ PlainMesh \/ (~PartsDiffer /\ Modifiers = <<>>)
  BY DEF Undivided, RegionsOK
<1>2. /\ Modifiers' = Modifiers /\ Whole' = Whole
  BY <1>1, ObjectKept
<1>3. volumes \in Seq(Volumes)
  BY DEF RegionsOK
<1>4. \A c : Holding(Modifiers, c) = {}
  <2>1. DOMAIN Modifiers = 1 .. Len(Modifiers) /\ Len(Modifiers) \in Nat
    BY <1>3, ListsTyped DEF IsList
  <2>2. CASE Modifiers = <<>>
    BY <2>2 DEF Holding
  <2>3. CASE PlainMesh
    <3> SUFFICES ASSUME NEW k \in 1 .. Len(Modifiers) PROVE FALSE
      BY <2>1 DEF Holding
    <3>1. PICK i \in DOMAIN volumes : volumes[i].region # None
      BY <1>3, ListsTyped
    <3> QED BY <2>3, <3>1 DEF PlainMesh, NeedsVolumeSlice
  <2> QED BY <1>1, <2>2, <2>3
<1>5. \A c : MeantFor(c)' = base /\ PrintedUnder(c)' = {base}
  BY <1>1, <1>2, <1>4 DEF MeantFor, PrintedUnder
<1>6. DOMAIN pieces' = {}
  BY <1>1
<1>7. RegionsShare'
  BY <1>1, <1>2, <1>5, <1>6 DEF RegionsShare
<1> QED BY <1>1, <1>3, <1>7 DEF RegionsOK

\* and one with regions under theirs.
LEMMA DividedKeeps ==
    ASSUME RegionsOK, Divided
    PROVE  RegionsOK'
<1> DEFINE m == Len(pieces)
<1>1. /\ volumes' = volumes /\ base' = base /\ phase' = "done" /\ phase = "modify"
      /\ next > Len(Modifiers) /\ contours' = UNION ToSet(pieces)
      /\ IF m <= 1 THEN pieces' = <<>> /\ cfgs' = <<>> ELSE pieces' = pieces /\ cfgs' = cfgs
  BY DEF Divided
<1>2. /\ Parts' = Parts /\ Modifiers' = Modifiers /\ Whole' = Whole /\ PartsDiffer' = PartsDiffer
  BY <1>1, ObjectKept
<1>3. Shared /\ volumes \in Seq(Volumes)
  BY <1>1 DEF RegionsOK
<1>4. /\ m \in Nat /\ DOMAIN pieces = 1 .. m /\ Len(Modifiers) \in Nat
      /\ DOMAIN Modifiers = 1 .. Len(Modifiers)
  BY <1>3, ListsTyped DEF Shared, IsList
<1>5. next = Len(Modifiers) + 1 /\ Len(Modifiers) + 1 <= m
  BY <1>1, <1>3, <1>4 DEF Shared
<1>6. contours' = Whole
  <2>1. ToSet(pieces) = {pieces[r] : r \in 1 .. m}
    BY <1>4 DEF ToSet
  <2> QED BY <1>1, <1>3, <2>1 DEF Shared
<1>7. CASE m <= 1
  <2>1. pieces' = <<>> /\ DOMAIN pieces' = {} /\ 1 .. Len(Modifiers) = {}
    BY <1>1, <1>4, <1>5, <1>7
  <2>2. \A c : Holding(Modifiers, c) = {}
    BY <1>4, <2>1 DEF Holding
  <2>3. \A c : MeantFor(c)' = base /\ PrintedUnder(c)' = {base}
    BY <1>1, <1>2, <2>1, <2>2 DEF MeantFor, PrintedUnder
  <2>4. RegionsShare'
    BY <1>2, <1>6, <2>1, <2>3 DEF RegionsShare
  <2> QED BY <1>1, <1>3, <2>4 DEF RegionsOK
<1>8. CASE ~(m <= 1)
  <2>1. pieces' = pieces /\ cfgs' = cfgs /\ pieces # <<>>
    BY <1>1, <1>4, <1>8
  <2>2. ASSUME NEW r \in 1 .. m, NEW c \in pieces[r] PROVE cfgs[r] = MeantFor(c)
    <3>1. Right(c, cfgs[r], Len(Modifiers) + 1)
      BY <1>3, <1>5, <2>2 DEF Shared
    <3> QED BY <1>3, <2>1, <3>1, RightIsMeant
  <2>3. ASSUME NEW c \in Whole PROVE PrintedUnder(c) = {MeantFor(c)}
    <3>1. PICK r \in 1 .. m : c \in pieces[r]
      BY <1>3 DEF Shared
    <3>2. PrintedUnder(c) = {cfgs[s] : s \in {k \in 1 .. m : c \in pieces[k]}}
      BY <1>4, <2>1 DEF PrintedUnder
    <3> HIDE DEF m
    <3> QED BY <2>2, <3>1, <3>2
  <2>4. \A c : MeantFor(c)' = MeantFor(c) /\ PrintedUnder(c)' = PrintedUnder(c)
    BY <1>1, <1>2, <2>1 DEF MeantFor, PrintedUnder
  <2>5. \A r, s \in DOMAIN pieces : r # s => pieces[r] \cap pieces[s] = {}
    BY <1>3, <1>4 DEF Shared
  <2>6. RegionsShare'
    BY <1>2, <1>6, <2>1, <2>3, <2>4, <2>5 DEF RegionsShare
  <2> QED BY <1>1, <1>3, <2>6 DEF RegionsOK
<1> QED BY <1>7, <1>8

\* Nothing is printed of an object without a part.
LEMMA EmptyKeeps ==
    ASSUME RegionsOK, EmptyMesh
    PROVE  RegionsOK'
BY DEF RegionsOK, EmptyMesh

\* A step that changes nothing keeps the invariant.
LEMMA NothingKeeps ==
    ASSUME RegionsOK, UNCHANGED slicing
    PROVE  RegionsOK'
<1>1. /\ volumes' = volumes /\ base' = base /\ slices' = slices /\ pieces' = pieces
      /\ cfgs' = cfgs /\ next' = next /\ phase' = phase /\ contours' = contours
  BY DEF slicing
<1>2. /\ Parts' = Parts /\ Modifiers' = Modifiers /\ Removed' = Removed /\ Whole' = Whole
      /\ PartsDiffer' = PartsDiffer
      /\ \A c, cfg, n : Right(c, cfg, n)' = Right(c, cfg, n)
  BY <1>1, ObjectKept
<1>3. Clipped' = Clipped
  BY <1>1, <1>2 DEF Clipped
<1>4. Shared' = Shared
  BY <1>1, <1>2 DEF Shared
<1>5. \A c : MeantFor(c)' = MeantFor(c) /\ PrintedUnder(c)' = PrintedUnder(c)
  BY <1>1, <1>2 DEF MeantFor, PrintedUnder
<1>6. RegionsShare' = RegionsShare
  BY <1>1, <1>2, <1>5 DEF RegionsShare
<1> QED BY <1>1, <1>3, <1>4, <1>6 DEF RegionsOK

\* Whatever volumes an object has and however they overlap, what is printed of
\* a layer is its parts without the negative volumes, and every cell of it
\* belongs to one region, under the settings of the last modifier over it or
\* else the last part that holds it (slice_volumes_with_planes).
THEOREM RegionsShared == SlicingSpec => [](RegionsOK /\ RegionsShare)
<1>1. SlicingInit => RegionsOK
  BY RegionsStart, ObjectsAssumption
<1>2. RegionsOK /\ [Slicing]_slicing => RegionsOK'
  BY EmptyKeeps, UndividedKeeps, OneKeeps, CutKeeps, ClipKeeps, GatherKeeps, ModifierKeeps,
     DividedKeeps, NothingKeeps DEF Slicing
<1>3. RegionsOK => RegionsShare
  <2>1. CASE phase = "done"
    BY <2>1 DEF RegionsOK
  <2>2. CASE phase # "done"
    BY <2>2 DEF RegionsShare
  <2> QED BY <2>1, <2>2
<1> QED BY <1>1, <1>2, <1>3, PTL DEF SlicingSpec

-----------------------------------------------------------------------------
(* The layer plan                                                          *)

\* f[n] is the sum of the first n.
IsSum(f, s, k) == f = [n \in 0 .. k |-> IF n = 0 THEN 0 ELSE f[n - 1] + s[n]]

\* The function Total defines exists.
LEMMA SumSteps ==
    ASSUME NEW s \in Seq(Int)
    PROVE  \E f : IsSum(f, s, Len(s)) /\ Total(s) = f[Len(s)]
<1> DEFINE T == {k \in Nat : \E f : IsSum(f, s, k)}
<1>1. 0 \in T
  <2>1. IsSum([n \in 0 .. 0 |-> 0], s, 0)
    BY DEF IsSum
  <2> QED BY <2>1
<1>2. ASSUME NEW k \in Nat, k \in T PROVE k + 1 \in T
  <2>1. PICK f : IsSum(f, s, k)
    BY <1>2
  <2> DEFINE g == [n \in 0 .. k + 1 |-> IF n = k + 1 THEN f[k] + s[k + 1] ELSE f[n]]
  <2>2. IsSum(g, s, k + 1)
    <3>1. ASSUME NEW n \in 0 .. k + 1
          PROVE  g[n] = IF n = 0 THEN 0 ELSE g[n - 1] + s[n]
      <4>1. CASE n = k + 1
        BY <4>1
      <4>2. CASE n # k + 1 /\ n # 0
        <5>1. n \in 0 .. k /\ n - 1 \in 0 .. k /\ n - 1 # k + 1
          BY <4>2
        <5>2. g[n] = f[n] /\ g[n - 1] = f[n - 1]
          BY <4>2, <5>1
        <5>3. f[n] = f[n - 1] + s[n]
          BY <2>1, <4>2, <5>1 DEF IsSum
        <5> QED BY <4>2, <5>2, <5>3
      <4>3. CASE n = 0
        BY <2>1, <4>3 DEF IsSum
      <4> QED BY <4>1, <4>2, <4>3
    <3> QED BY <3>1 DEF IsSum
  <2> HIDE DEF g
  <2> QED BY <2>2
<1>3. Len(s) \in T
  <2> HIDE DEF T
  <2> QED BY <1>1, <1>2, Induct
<1>4. \E f : IsSum(f, s, Len(s))
  BY <1>3
<1>5. IsSum(CHOOSE f : IsSum(f, s, Len(s)), s, Len(s))
  BY <1>4, Zenon
<1>6. Total(s) = (CHOOSE f : IsSum(f, s, Len(s)))[Len(s)]
  BY Zenon DEF Total, IsSum
<1> QED BY <1>5, <1>6

\* Lists that begin alike have the same sums so far, which are numbers.
LEMMA SumsAgree ==
    ASSUME NEW s \in Seq(Int), NEW t \in Seq(Int), NEW k \in Nat, k <= Len(s), k <= Len(t),
           \A n \in 1 .. k : s[n] = t[n],
           NEW f, IsSum(f, s, Len(s)), NEW g, IsSum(g, t, Len(t))
    PROVE  f[k] = g[k] /\ f[k] \in Int
<1> DEFINE T == {n \in Nat : n <= k => f[n] = g[n] /\ f[n] \in Int}
<1>1. 0 \in T
  BY DEF IsSum
<1>2. ASSUME NEW n \in Nat, n \in T PROVE n + 1 \in T
  <2> SUFFICES ASSUME n + 1 <= k PROVE f[n + 1] = g[n + 1] /\ f[n + 1] \in Int
    OBVIOUS
  <2>1. f[n] = g[n] /\ f[n] \in Int
    BY <1>2
  <2> DEFINE m == n + 1
  <2>2. /\ m \in 1 .. k /\ m \in 0 .. Len(s) /\ m \in 0 .. Len(t) /\ m # 0 /\ m - 1 = n
        /\ m \in 1 .. Len(s)
    OBVIOUS
  <2> HIDE DEF m
  <2>3. f[m] = f[n] + s[m] /\ g[m] = g[n] + t[m]
    BY <2>2 DEF IsSum
  <2>4. s[m] = t[m] /\ s[m] \in Int
    BY <2>2
  <2>5. f[m] = g[m] /\ f[m] \in Int
    BY <2>1, <2>3, <2>4
  <2> QED BY <2>5 DEF m
<1>3. k \in T
  <2> HIDE DEF T
  <2> QED BY <1>1, <1>2, Induct
<1> QED BY <1>3

\* One more height adds to the sum.
LEMMA TotalAppend ==
    ASSUME NEW s \in Seq(Int), NEW e \in Int
    PROVE  Total(s) \in Int /\ Total(Append(s, e)) = Total(s) + e
<1> DEFINE t == Append(s, e)
           k == Len(s)
           m == k + 1
<1>1. t \in Seq(Int) /\ Len(t) = m /\ k \in Nat /\ t[m] = e /\ \A n \in 1 .. k : s[n] = t[n]
  OBVIOUS
<1>2. PICK f : IsSum(f, s, k) /\ Total(s) = f[k]
  BY SumSteps
<1> HIDE DEF t, k
<1>3. PICK g : IsSum(g, t, Len(t)) /\ Total(t) = g[Len(t)]
  BY <1>1, SumSteps
<1>4. f[k] = g[k] /\ f[k] \in Int
  <2>1. k <= Len(s) /\ k <= Len(t) /\ IsSum(f, s, Len(s))
    BY <1>1, <1>2 DEF k
  <2> QED BY <1>1, <1>2, <1>3, <2>1, SumsAgree
<1>5. m \in 0 .. Len(t) /\ m # 0 /\ m - 1 = k
  BY <1>1
<1> HIDE DEF m
<1>6. g[m] = g[k] + t[m]
  BY <1>3, <1>5 DEF IsSum
<1> QED BY <1>1, <1>2, <1>3, <1>4, <1>6 DEF t

\* Five more of the same.
LEMMA FiveMore ==
    ASSUME NEW f, NEW m \in Nat, NEW v \in Int, f[m] \in Int,
           \A k \in Nat : m < k /\ k <= m + 5 => f[k] = f[k - 1] + v
    PROVE  f[m + 5] = f[m] + 5 * v
<1> DEFINE a == f[m]
           b == f[m + 1]
           c == f[m + 2]
           d == f[m + 3]
           e == f[m + 4]
           g == f[m + 5]
<1>1. b = a + v
  <2>1. m + 1 \in Nat /\ m < m + 1 /\ m + 1 <= m + 5 /\ (m + 1) - 1 = m
    OBVIOUS
  <2> QED BY <2>1
<1>2. c = b + v
  <2>1. m + 2 \in Nat /\ m < m + 2 /\ m + 2 <= m + 5 /\ (m + 2) - 1 = m + 1
    OBVIOUS
  <2> QED BY <2>1
<1>3. d = c + v
  <2>1. m + 3 \in Nat /\ m < m + 3 /\ m + 3 <= m + 5 /\ (m + 3) - 1 = m + 2
    OBVIOUS
  <2> QED BY <2>1
<1>4. e = d + v
  <2>1. m + 4 \in Nat /\ m < m + 4 /\ m + 4 <= m + 5 /\ (m + 4) - 1 = m + 3
    OBVIOUS
  <2> QED BY <2>1
<1>5. g = e + v
  <2>1. m + 5 \in Nat /\ m < m + 5 /\ m + 5 <= m + 5 /\ (m + 5) - 1 = m + 4
    OBVIOUS
  <2> QED BY <2>1
<1>6. a \in Int
  OBVIOUS
<1>7. g = a + 5 * v
  <2> HIDE DEF a, b, c, d, e, g
  <2> QED BY <1>1, <1>2, <1>3, <1>4, <1>5, <1>6
<1> QED BY <1>7

\* When the last five are alike, their sum and that of the others are told apart.
LEMMA LastFive ==
    ASSUME NEW s \in Seq(Int), Len(s) >= 5, NEW v \in Int,
           \A i \in Len(s) - 4 .. Len(s) : s[i] = v
    PROVE  /\ Total(SubSeq(s, Len(s) - 4, Len(s))) = 5 * v
           /\ Total(SubSeq(s, 1, Len(s) - 5)) \in Int
           /\ Total(s) = Total(SubSeq(s, 1, Len(s) - 5)) + 5 * v
<1> DEFINE n == Len(s)
           m == n - 5
           l == n - 4
           a == SubSeq(s, 1, m)
           b == SubSeq(s, l, n)
<1>1. /\ n \in Nat /\ m \in Nat /\ n = m + 5 /\ l = m + 1 /\ l \in Nat
      /\ \A i \in l .. n : s[i] = v
  OBVIOUS
<1> HIDE DEF n, m, l
<1>2. a \in Seq(Int) /\ Len(a) = m /\ \A i \in 1 .. m : s[i] = a[i]
  <2>1. 1 \in 1 .. n + 1 /\ m \in 0 .. n /\ n = Len(s)
    BY <1>1 DEF n
  <2>2. a \in Seq(Int) /\ Len(a) = IF 1 <= m THEN m - 1 + 1 ELSE 0
    BY <1>1, <2>1, SubSeqProperties
  <2>3. \A i \in 1 .. m - 1 + 1 : a[i] = s[1 + i - 1]
    BY <1>1, <2>1, SubSeqProperties
  <2>4. \A i \in 1 .. m : i \in 1 .. m - 1 + 1 /\ 1 + i - 1 = i
    BY <1>1
  <2>5. Len(a) = m
    <3> HIDE DEF a
    <3> QED BY <1>1, <2>2
  <2> QED BY <2>2, <2>3, <2>4, <2>5
<1>3. b \in Seq(Int) /\ Len(b) = 5 /\ \A i \in 1 .. 5 : b[i] = v
  <2>1. l \in 1 .. n + 1 /\ n \in 0 .. n /\ n = Len(s) /\ n - l + 1 = 5 /\ l <= n
    BY <1>1 DEF n
  <2>2. b \in Seq(Int) /\ Len(b) = IF l <= n THEN n - l + 1 ELSE 0
    BY <1>1, <2>1, SubSeqProperties
  <2>3. \A i \in 1 .. n - l + 1 : b[i] = s[l + i - 1]
    BY <1>1, <2>1, SubSeqProperties
  <2>4. \A i \in 1 .. 5 : l + i - 1 \in l .. n
    BY <1>1
  <2>5. Len(b) = 5
    <3> HIDE DEF b
    <3> QED BY <2>1, <2>2
  <2>6. \A i \in 1 .. 5 : b[i] = s[l + i - 1]
    <3> HIDE DEF b
    <3> QED BY <2>1, <2>3
  <2> QED BY <1>1, <2>2, <2>4, <2>5, <2>6
<1> HIDE DEF a, b
<1>4. PICK f : IsSum(f, s, n) /\ Total(s) = f[n]
  BY SumSteps DEF n
<1>5. PICK g : IsSum(g, a, Len(a)) /\ Total(a) = g[Len(a)]
  BY <1>2, SumSteps
<1>6. PICK h : IsSum(h, b, 5) /\ Total(b) = h[5]
  BY <1>3, SumSteps
<1>8. f[m] = g[m] /\ f[m] \in Int
  <2>1. IsSum(f, s, Len(s)) /\ IsSum(g, a, Len(a)) /\ m \in Nat
    BY <1>1, <1>4, <1>5 DEF n
  <2>2. m <= Len(s) /\ m <= Len(a)
    BY <1>1, <1>2 DEF n
  <2>3. a \in Seq(Int) /\ \A i \in 1 .. m : s[i] = a[i]
    BY <1>2
  <2> QED BY <2>1, <2>2, <2>3, SumsAgree
<1>9. Total(a) = f[m]
  BY <1>2, <1>5, <1>8
<1>10. ASSUME NEW k \in Nat, m < k, k <= m + 5 PROVE f[k] = f[k - 1] + v
  <2>1. k \in 0 .. n /\ k # 0 /\ k \in l .. n
    BY <1>1, <1>10
  <2>2. f[k] = f[k - 1] + s[k]
    BY <1>4, <2>1 DEF IsSum
  <2> QED BY <1>1, <2>1, <2>2
<1>11. f[n] = f[m] + 5 * v
  BY <1>1, <1>8, <1>10, FiveMore
<1>12. h[0] = 0 /\ \A k \in Nat : 0 < k /\ k <= 0 + 5 => h[k] = h[k - 1] + v
  <2>1. h[0] = 0
    BY <1>6 DEF IsSum
  <2>2. ASSUME NEW k \in Nat, 0 < k, k <= 0 + 5 PROVE h[k] = h[k - 1] + v
    <3>1. k \in 0 .. 5 /\ k # 0 /\ b[k] = v
      BY <1>3, <2>2
    <3> QED BY <1>6, <3>1 DEF IsSum
  <2> QED BY <2>1, <2>2
<1>13. h[5] = 5 * v
  <2>1. h[0 + 5] = h[0] + 5 * v
    <3>1. h[0] \in Int /\ 0 \in Nat
      BY <1>12
    <3> QED BY <1>12, <3>1, FiveMore
  <2> QED BY <1>12, <2>1
<1> QED BY <1>4, <1>6, <1>8, <1>9, <1>11, <1>13 DEF n, m, l, a, b

\* The layers added: the first, and others of one height.
Slabs(s) ==
    /\ s \in Seq(Int) /\ Len(s) # 0 /\ s[1] = wanted.first
    /\ \A i \in 2 .. Len(s) : s[i] = wanted.layer

\* The last of them begins so that its middle is below the top.
EndsAbout == /\ PlanZ \in Int /\ PlanZ % 5 = 0
             /\ Len(heights) >= 2 => 2 * PlanZ < 2 * wanted.top + wanted.layer

\* Five layers of heights within the limits could reach the top.
InReach ==
    LET h == wanted.layer
        room == wanted.top - (PlanZ - 5 * h)
    IN  wanted.min <= h /\ h <= wanted.max /\ 5 * wanted.min <= room /\ room <= 5 * wanted.max

\* One pass over five layers of one height is all there is: it reaches the top,
\* or none of them can change any more.
AlignOK ==
    /\ ~MoreLayers /\ Aligns
    /\ \/ five = [i \in 1 .. 5 |-> wanted.layer] /\ can = 1 .. 5 /\ missing = Reach(PlanZ, wanted.top)
       \/ missing = 0 /\ \E v \in Int : /\ five = [i \in 1 .. 5 |-> v]
                                        /\ 5 * v = 5 * wanted.layer + wanted.top - PlanZ
                                        /\ InReach => wanted.min <= v /\ v <= wanted.max
       \/ can = {} /\ missing > 0 /\ ~InReach

PlanOK ==
    /\ wanted \in Plans
    /\ stage \in {"add", "align", "done"}
    /\ stage # "done" => Slabs(heights) /\ EndsAbout
    /\ stage = "align" => AlignOK
    /\ LayersReachTop

\* Of six layers added, the last five are of the one height.
LEMMA SlabsEnd ==
    ASSUME wanted \in Plans, Slabs(heights), Len(heights) >= 6
    PROVE  /\ \A i \in Len(heights) - 4 .. Len(heights) : heights[i] = wanted.layer
           /\ wanted.layer \in Int
           /\ Total(SubSeq(heights, Len(heights) - 4, Len(heights))) = 5 * wanted.layer
           /\ PlanZ = Total(SubSeq(heights, 1, Len(heights) - 5)) + 5 * wanted.layer
           /\ Total(SubSeq(heights, 1, Len(heights) - 5)) \in Int
<1> DEFINE n == Len(heights)
<1>1. wanted.layer \in Int /\ heights \in Seq(Int) /\ n \in Nat /\ n >= 6
  BY PlansAssumption DEF Slabs
<1>2. \A i \in n - 4 .. n : heights[i] = wanted.layer
  <2>1. \A i \in n - 4 .. n : i \in 2 .. n
    <3> HIDE DEF n
    <3> QED BY <1>1
  <2> QED BY <2>1 DEF Slabs
<1>3. n >= 5
  <2> HIDE DEF n
  <2> QED BY <1>1
<1> QED BY <1>1, <1>2, <1>3, LastFive DEF PlanZ

\* The first layer is there.
LEMMA PlanInitOK == ASSUME PlanInit PROVE PlanOK
<1>1. wanted \in Plans /\ heights = <<wanted.first>> /\ stage = "add"
  BY DEF PlanInit
<1>2. wanted.first \in Nat /\ wanted.first % 5 = 0
  BY <1>1, PlansAssumption
<1>3. Slabs(heights) /\ Len(heights) = 1
  BY <1>1, <1>2 DEF Slabs
<1>4. PlanZ = wanted.first
  <2>1. PICK f : IsSum(f, heights, Len(heights)) /\ Total(heights) = f[Len(heights)]
    BY <1>3, SumSteps DEF Slabs
  <2>2. f[0] = 0 /\ f[1] = f[0] + heights[1]
    BY <1>3, <2>1 DEF IsSum
  <2>3. Total(heights) = 0 + wanted.first
    BY <1>1, <1>3, <2>1, <2>2
  <2> QED BY <1>2, <2>3 DEF PlanZ
<1>5. EndsAbout
  BY <1>2, <1>3, <1>4 DEF EndsAbout
<1> QED BY <1>1, <1>3, <1>5 DEF PlanOK, LayersReachTop

\* A layer of the one height more.
LEMMA AddLayerOK == ASSUME PlanOK, AddLayer PROVE PlanOK'
<1>1. wanted \in Plans /\ stage = "add" /\ Slabs(heights) /\ EndsAbout /\ MoreLayers
  BY DEF PlanOK, AddLayer
<1>2. heights' = Append(heights, wanted.layer) /\ wanted' = wanted /\ stage' = stage
  BY DEF AddLayer
<1>3. wanted.layer \in Nat /\ wanted.layer % 5 = 0 /\ wanted.top \in Nat
  BY <1>1, PlansAssumption
<1>4. heights \in Seq(Int) /\ wanted.layer \in Int
  BY <1>1, <1>3 DEF Slabs
<1>5. PlanZ' = PlanZ + wanted.layer
  BY <1>2, <1>4, TotalAppend DEF PlanZ
<1>6. Slabs(heights)'
  <2>1. heights' \in Seq(Int) /\ Len(heights') = Len(heights) + 1 /\ Len(heights) \in Nat
    BY <1>2, <1>4
  <2>2. \A i \in 1 .. Len(heights) : heights'[i] = heights[i]
    BY <1>2, <1>4
  <2>3. heights'[Len(heights) + 1] = wanted.layer
    BY <1>2, <1>4
  <2>4. \A i \in 2 .. Len(heights') : i = Len(heights) + 1 \/ (i \in 2 .. Len(heights) /\ i \in 1 .. Len(heights))
    BY <2>1
  <2>5. 1 \in 1 .. Len(heights) /\ Len(heights') # 0
    BY <1>1, <2>1 DEF Slabs
  <2> QED BY <1>1, <1>2, <2>1, <2>2, <2>3, <2>4, <2>5 DEF Slabs
<1>7. EndsAbout'
  <2>1. PlanZ \in Int /\ PlanZ % 5 = 0 /\ 2 * PlanZ + wanted.layer < 2 * wanted.top
    BY <1>1 DEF EndsAbout, MoreLayers
  <2>2. /\ PlanZ + wanted.layer \in Int /\ (PlanZ + wanted.layer) % 5 = 0
        /\ 2 * (PlanZ + wanted.layer) < 2 * wanted.top + wanted.layer
    <3> DEFINE z == PlanZ
               l == wanted.layer
               t == wanted.top
    <3>1. z \in Int /\ z % 5 = 0 /\ l \in Nat /\ l % 5 = 0 /\ t \in Nat /\ 2 * z + l < 2 * t
      BY <1>3, <2>1
    <3> HIDE DEF z, l, t
    <3>2. z + l \in Int /\ (z + l) % 5 = 0 /\ 2 * (z + l) < 2 * t + l
      BY <3>1
    <3> QED BY <3>2 DEF z, l, t
  <2> QED BY <1>2, <1>5, <2>2 DEF EndsAbout
<1> QED BY <1>1, <1>2, <1>6, <1>7 DEF PlanOK, LayersReachTop

\* A plan that stays as it was ends about the top, and if five layers could
\* reach it, it was not to, or did.
LEMMA StaysOK ==
    ASSUME wanted \in Plans, Slabs(heights), EndsAbout, ~MoreLayers,
           wanted.precise /\ Len(heights) >= 6 => PlanZ = wanted.top \/ ~InReach,
           UNCHANGED <<wanted, heights>>, stage' = "done"
    PROVE  PlanOK'
<1> SUFFICES ASSUME Len(heights) >= 6 PROVE LayersReachTop'
  BY DEF PlanOK, LayersReachTop
<1> DEFINE h == wanted.layer
           z == PlanZ
           t == wanted.top
           n == Len(heights)
           o == Total(SubSeq(heights, n - 4, n))
           k == z - o
           room == t - k
<1>1. /\ h \in Nat /\ t \in Nat /\ wanted.min \in Nat /\ wanted.max \in Nat
  BY PlansAssumption
<1>2. o = 5 * h /\ \A i \in n - 4 .. n : heights[i] = h
  BY SlabsEnd
<1>3. z \in Int /\ 2 * z < 2 * t + h
  <2>1. n \in Nat /\ n >= 2
    BY DEF Slabs
  <2> QED BY <2>1 DEF EndsAbout
<1>4. 2 * z + h >= 2 * t
  <2>1. \/ ~(2 * z + Lower(wanted.min, h) < 2 * t)
        \/ ~(2 * z + h < 2 * t)
    BY DEF MoreLayers
  <2> HIDE DEF z, h, t
  <2> QED BY <1>1, <1>3, <2>1 DEF Lower
<1>5. 2 * Reach(z, t) <= h
  <2> HIDE DEF z, h, t
  <2> QED BY <1>1, <1>3, <1>4 DEF Reach
<1>6. wanted.precise /\ wanted.min <= h /\ h <= wanted.max
         /\ 5 * wanted.min <= room /\ room <= 5 * wanted.max => z = t
  BY <1>2 DEF InReach
<1>7. wanted' = wanted /\ heights' = heights /\ PlanZ' = PlanZ
  BY DEF PlanZ
<1> HIDE DEF h, z, t, n, o, k, room
<1>8. /\ 2 * Reach(z, t) <= h
      /\ wanted.precise /\ wanted.min <= h /\ h <= wanted.max
            /\ 5 * wanted.min <= room /\ room <= 5 * wanted.max =>
            /\ z = t
            /\ \A i \in n - 4 .. n : wanted.min <= heights[i] /\ heights[i] <= wanted.max
  BY <1>2, <1>5, <1>6
<1> QED BY <1>7, <1>8 DEF LayersReachTop, h, z, t, n, o, k, room

\* No alignment is asked for, or none is needed.
LEMMA PlannedOK == ASSUME PlanOK, Planned PROVE PlanOK'
<1>1. wanted.precise \in BOOLEAN
  BY PlansAssumption DEF PlanOK
<1> QED BY <1>1, StaysOK DEF PlanOK, Planned, Aligns

\* No layer can change: five layers could not have reached the top.
LEMMA GiveUpOK == ASSUME PlanOK, GiveUp PROVE PlanOK'
<1>1. ~InReach
  <2>1. AlignOK /\ missing > 0 /\ can = {}
    BY DEF PlanOK, GiveUp
  <2>2. 1 \in 1 .. 5 /\ ~(0 > 0)
    OBVIOUS
  <2> QED BY <2>1, <2>2 DEF AlignOK
<1> QED BY <1>1, StaysOK DEF PlanOK, GiveUp, AlignOK

\* The last five, all of the one height.
LEMMA BeginAlignOK == ASSUME PlanOK, BeginAlign PROVE PlanOK'
<1>1. /\ wanted \in Plans /\ stage = "add" /\ Slabs(heights) /\ EndsAbout /\ ~MoreLayers /\ Aligns
      /\ Len(heights) >= 6
  BY DEF PlanOK, BeginAlign, Aligns
<1>2. /\ five' = SubSeq(heights, Len(heights) - 4, Len(heights)) /\ can' = 1 .. 5
      /\ missing' = Reach(PlanZ, wanted.top) /\ stage' = "align" /\ UNCHANGED <<wanted, heights>>
  BY DEF BeginAlign
<1>3. five' = [i \in 1 .. 5 |-> wanted.layer]
  <2> DEFINE n == Len(heights)
             l == n - 4
             b == SubSeq(heights, l, n)
             w == wanted.layer
  <2>1. n \in Nat /\ n >= 6 /\ heights \in Seq(Int)
    BY <1>1 DEF Slabs
  <2>2. \A i \in l .. n : heights[i] = w /\ w \in Int
    BY <1>1, SlabsEnd
  <2> HIDE DEF n, w
  <2>3. l \in Int /\ n \in Int /\ n - l + 1 = 5 /\ l <= n
    BY <2>1
  <2> HIDE DEF l
  <2>4. b \in Seq(Int) /\ Len(b) = IF l <= n THEN n - l + 1 ELSE 0
    BY <2>1, <2>2, <2>3, SubSeqProperties
  <2>5. \A i \in 1 .. n - l + 1 : b[i] = heights[l + i - 1]
    BY <2>1, <2>2, <2>3, SubSeqProperties
  <2> HIDE DEF b
  <2>6. b \in Seq(Int) /\ Len(b) = 5
    BY <2>3, <2>4
  <2>7. \A i \in 1 .. 5 : b[i] = w
    <3>1. \A i \in 1 .. 5 : i \in 1 .. n - l + 1 /\ l + i - 1 \in l .. n
      BY <2>3
    <3> QED BY <2>2, <2>5, <3>1
  <2>8. b = [i \in 1 .. 5 |-> b[i]]
    BY <2>6
  <2>9. b = [i \in 1 .. 5 |-> w]
    BY <2>7, <2>8
  <2> QED BY <1>2, <2>9 DEF b, l, n, w
<1>4. PlanZ' = PlanZ
  BY <1>2 DEF PlanZ
<1>5. ~MoreLayers' /\ Aligns'
  BY <1>1, <1>2, <1>4 DEF MoreLayers, Aligns, Lower
<1>6. AlignOK'
  BY <1>2, <1>3, <1>4, <1>5 DEF AlignOK, Reach
<1>7. Slabs(heights)' /\ EndsAbout'
  BY <1>1, <1>2, <1>4 DEF Slabs, EndsAbout
<1> QED BY <1>1, <1>2, <1>6, <1>7 DEF PlanOK, LayersReachTop

\* As they are alike, all take their share, or none does.
LEMMA ShareOK == ASSUME PlanOK, Share PROVE PlanOK'
<1> DEFINE h == wanted.layer
           z == PlanZ
           t == wanted.top
           lo == wanted.min
           hi == wanted.max
           d == Reach(z, t)
           e == d \div 5
           over == Over(h, e)
           v == IF Passes(h, e) THEN Limit ELSE Changed(h, e)
<1>1. /\ wanted \in Plans /\ stage = "align" /\ Slabs(heights) /\ EndsAbout /\ AlignOK
      /\ missing > 0 /\ can # {}
  BY DEF PlanOK, Share
<1>2. five = [i \in 1 .. 5 |-> h] /\ can = 1 .. 5 /\ missing = d
  <2>1. ~(0 > 0)
    OBVIOUS
  <2> QED BY <1>1, <2>1 DEF AlignOK
<1>3. Cardinality(can) = 5
  <2>1. Cardinality(1 .. 5) = 5
    <3>1. 1 \in Int /\ 5 \in Int /\ ~(1 > 5) /\ 5 - 1 + 1 = 5
      OBVIOUS
    <3>2. Cardinality(1 .. 5) = IF 1 > 5 THEN 0 ELSE 5 - 1 + 1
      BY <3>1, FS_Interval
    <3> QED BY <3>1, <3>2
  <2> QED BY <1>2, <2>1
<1>4. /\ five' = [i \in 1 .. 5 |-> v]
      /\ can' = {i \in 1 .. 5 : ~Passes(h, e) /\ h # Limit}
      /\ missing' = Total([i \in 1 .. 5 |-> over])
      /\ UNCHANGED <<wanted, heights, stage>>
  BY <1>2, <1>3 DEF Share
<1>5. /\ h \in Nat /\ t \in Nat /\ lo \in Nat /\ hi \in Nat /\ z \in Int
      /\ z % 5 = 0 /\ t % 5 = 0 /\ d > 0
  BY <1>1, <1>2, PlansAssumption DEF EndsAbout
<1>6. d = IF z < t THEN t - z ELSE z - t
  BY DEF Reach
<1>7. /\ Taller <=> z < t
      /\ Limit = IF z < t THEN IF hi < lo THEN lo ELSE hi ELSE lo
  BY DEF Taller, Limit
<1> DEFINE m == Limit
           w == Changed(h, e)
<1>8. /\ w = IF z < t THEN h + e ELSE h - e
      /\ Passes(h, e) <=> IF z < t THEN w > m ELSE w < m
      /\ over = IF h = m THEN e
                ELSE IF Passes(h, e) THEN IF z < t THEN w - m ELSE m - w ELSE 0
  BY <1>7 DEF Changed, Passes, Over
<1>9. InReach <=> lo <= h /\ h <= hi /\ 5 * lo <= t - (z - 5 * h) /\ t - (z - 5 * h) <= 5 * hi
  BY DEF InReach
<1> DEFINE p == Passes(h, e)
<1>10. e \in Nat /\ 5 * e = d
  <2> HIDE DEF h, z, t, lo, hi, d
  <2>1. d \in Nat /\ d % 5 = 0
    BY <1>5, <1>6
  <2> HIDE DEF e
  <2>2. e = d \div 5
    BY DEF e
  <2> QED BY <2>1, <2>2
<1> HIDE DEF h, z, t, lo, hi, d, e, over, m, w, p
<1>11. over \in Int /\ v \in Int
  BY <1>5, <1>6, <1>7, <1>8, <1>10 DEF p, v, m, w
<1>12. missing' = 5 * over
  <2> DEFINE s == [i \in 1 .. 5 |-> over]
  <2>1. s \in Seq(Int) /\ Len(s) = 5 /\ \A i \in 1 .. 5 : s[i] = over
    BY <1>11
  <2> HIDE DEF s
  <2>2. SubSeq(s, 1, 5) = s
    BY <2>1, SubSeqFull
  <2>3. Len(s) - 4 = 1 /\ Len(s) >= 5
    BY <2>1
  <2>4. Total(SubSeq(s, Len(s) - 4, Len(s))) = 5 * over
    BY <1>11, <2>1, <2>3, LastFive
  <2> QED BY <1>4, <2>1, <2>2, <2>3, <2>4 DEF s
<1>13. PlanZ' = PlanZ
  BY <1>4 DEF PlanZ
<1>14. ~MoreLayers' /\ Aligns'
  BY <1>1, <1>4, <1>13 DEF AlignOK, MoreLayers, Aligns, Lower
<1>15. Slabs(heights)' /\ EndsAbout'
  BY <1>1, <1>4, <1>13 DEF Slabs, EndsAbout
<1>16. CASE p \/ h = m
  <2>1. can' = {}
    BY <1>4, <1>16 DEF p, m
  <2>2. over > 0
    BY <1>5, <1>6, <1>7, <1>8, <1>10, <1>16 DEF p, m
  <2>3. ~InReach
    <3>1. ~(lo <= h /\ h <= hi /\ 5 * lo <= t - (z - 5 * h) /\ t - (z - 5 * h) <= 5 * hi)
      BY <1>5, <1>6, <1>7, <1>8, <1>10, <1>16 DEF p, m
    <3> QED BY <1>9, <3>1
  <2>4. missing' > 0 /\ ~InReach'
    BY <1>4, <1>11, <1>12, <1>13, <2>2, <2>3 DEF InReach
  <2>5. AlignOK'
    BY <1>14, <2>1, <2>4 DEF AlignOK
  <2> QED BY <1>1, <1>4, <1>15, <2>5 DEF PlanOK, LayersReachTop
<1>17. CASE ~p /\ h # m
  <2>1. missing' = 0
    BY <1>8, <1>12, <1>17 DEF p
  <2>2. v = w
    BY <1>17 DEF p, v, w
  <2>3. /\ 5 * v = 5 * h + t - z
        /\ lo <= h /\ h <= hi /\ 5 * lo <= t - (z - 5 * h) /\ t - (z - 5 * h) <= 5 * hi => lo <= v /\ v <= hi
    <3> HIDE DEF v
    <3> QED BY <1>5, <1>6, <1>7, <1>8, <1>10, <1>11, <1>17, <2>2 DEF p, m
  <2>4. InReach' => InReach
    BY <1>4, <1>13 DEF InReach
  <2>5. AlignOK'
    <3>1. /\ v \in Int /\ five' = [i \in 1 .. 5 |-> v]
          /\ 5 * v = (5 * wanted.layer + wanted.top - PlanZ)'
          /\ InReach' => wanted'.min <= v /\ v <= wanted'.max
      BY <1>4, <1>9, <1>11, <1>13, <2>3, <2>4 DEF h, t, z, lo, hi
    <3> HIDE DEF v
    <3> QED BY <1>14, <2>1, <3>1 DEF AlignOK
  <2> QED BY <1>1, <1>4, <1>15, <2>5 DEF PlanOK, LayersReachTop
<1> QED BY <1>16, <1>17

\* The five end at the top.
LEMMA AlignedOK == ASSUME PlanOK, Aligned PROVE PlanOK'
<1> DEFINE n == Len(heights)
           m == n - 5
           a == SubSeq(heights, 1, m)
           g == a \o five
           h == wanted.layer
           z == PlanZ
           t == wanted.top
<1>1. /\ wanted \in Plans /\ stage = "align" /\ Slabs(heights) /\ EndsAbout /\ AlignOK /\ missing = 0
      /\ heights' = g /\ stage' = "done" /\ wanted' = wanted
  BY DEF PlanOK, Aligned
<1>2. n \in Nat /\ n >= 6 /\ heights \in Seq(Int) /\ Aligns /\ z # t /\ m \in Nat
  BY <1>1 DEF AlignOK, Aligns, Slabs
<1>3. /\ h \in Nat /\ t \in Nat /\ z \in Int
      /\ wanted.min \in Nat /\ wanted.max \in Nat
  BY <1>1, PlansAssumption DEF EndsAbout
<1>4. PICK v \in Int : /\ five = [i \in 1 .. 5 |-> v] /\ 5 * v = 5 * h + t - z
                       /\ InReach => wanted.min <= v /\ v <= wanted.max
  <2>1. ~(0 > 0)
    OBVIOUS
  <2>2. CASE missing = Reach(PlanZ, wanted.top)
    <3> HIDE DEF z, t
    <3>1. Reach(z, t) = 0
      BY <1>1, <2>2 DEF z, t
    <3>2. FALSE
      BY <1>2, <1>3, <3>1 DEF Reach
    <3> QED BY <3>2
  <2> QED BY <1>1, <2>1, <2>2 DEF AlignOK
<1>5. Total(a) \in Int /\ z = Total(a) + 5 * h
  BY <1>1, <1>2, SlabsEnd
<1> HIDE DEF n, h, z, t
<1>6. a \in Seq(Int) /\ Len(a) = m
  <2>1. \A i \in 1 .. m : heights[i] \in Int
    BY <1>2 DEF n
  <2>2. a \in Seq(Int) /\ Len(a) = IF 1 <= m THEN m - 1 + 1 ELSE 0
    BY <1>2, <2>1, SubSeqProperties
  <2> HIDE DEF a, m
  <2> QED BY <1>2, <2>2
<1>7. five \in Seq(Int) /\ Len(five) = 5 /\ \A i \in 1 .. 5 : five[i] = v
  BY <1>4
<1> HIDE DEF a
<1>8. /\ g \in Seq(Int) /\ Len(g) = m + 5
      /\ \A i \in 1 .. m + 5 : g[i] = IF i <= m THEN a[i] ELSE five[i - m]
  <2>1. /\ g \in Seq(Int) /\ Len(g) = Len(a) + Len(five)
        /\ \A i \in 1 .. Len(a) + Len(five) : g[i] = IF i <= Len(a) THEN a[i] ELSE five[i - Len(a)]
    BY <1>6, <1>7, ConcatProperties
  <2> HIDE DEF g, m
  <2> QED BY <1>6, <1>7, <2>1
<1> HIDE DEF g
<1>9. n = m + 5 /\ n - 4 = m + 1
  BY <1>2
<1> HIDE DEF m
<1>10. \A i \in m + 1 .. m + 5 : g[i] = v
  <2>1. \A i \in m + 1 .. m + 5 : i \in 1 .. m + 5 /\ ~(i <= m) /\ i - m \in 1 .. 5
    BY <1>2
  <2> QED BY <1>7, <1>8, <2>1
<1>11. SubSeq(g, 1, m) = a
  <2> DEFINE b == SubSeq(g, 1, m)
  <2>1. \A i \in 1 .. m : g[i] \in Int /\ g[i] = a[i] /\ i \in 1 .. m + 5
    BY <1>2, <1>6, <1>8
  <2>2. /\ b \in Seq(Int) /\ Len(b) = IF 1 <= m THEN m - 1 + 1 ELSE 0
        /\ \A i \in 1 .. m - 1 + 1 : b[i] = g[1 + i - 1]
    BY <1>2, <2>1, SubSeqProperties
  <2> HIDE DEF b
  <2>3. Len(b) = m
    BY <1>2, <2>2
  <2>4. \A i \in 1 .. m : b[i] = a[i]
    <3>1. \A i \in 1 .. m : i \in 1 .. m - 1 + 1 /\ 1 + i - 1 = i
      BY <1>2
    <3> QED BY <2>1, <2>2, <3>1
  <2>5. b = a
    BY <1>6, <2>2, <2>3, <2>4, SeqEqual
  <2> QED BY <2>5 DEF b
<1>12. /\ Total(SubSeq(g, Len(g) - 4, Len(g))) = 5 * v
       /\ Total(g) = Total(a) + 5 * v
  <2>1. Len(g) >= 5 /\ Len(g) - 4 = m + 1 /\ Len(g) - 5 = m
    BY <1>2, <1>8
  <2>2. \A i \in Len(g) - 4 .. Len(g) : g[i] = v
    BY <1>8, <1>10, <2>1
  <2> QED BY <1>8, <1>11, <2>1, <2>2, LastFive
<1> DEFINE u == Total(g)
           o == Total(SubSeq(g, Len(g) - 4, Len(g)))
           k == u - o
           room == t - k
<1>13. u = t
  <2> DEFINE c == Total(a)
  <2>1. c \in Int /\ z = c + 5 * h /\ u = c + 5 * v /\ 5 * v = 5 * h + t - z
    BY <1>4, <1>5, <1>12
  <2> HIDE DEF c, u
  <2> QED BY <1>3, <2>1
<1>14. room = t - (z - 5 * h)
  <2> DEFINE c == Total(a)
  <2>1. c \in Int /\ z = c + 5 * h /\ u = c + 5 * v /\ o = 5 * v
    BY <1>5, <1>12
  <2> HIDE DEF c, u, o
  <2> QED BY <1>3, <2>1
<1>15. 2 * Reach(u, t) <= h
  <2> HIDE DEF u
  <2> QED BY <1>3, <1>13 DEF Reach
<1>16. InReach <=> /\ wanted.min <= h /\ h <= wanted.max
                   /\ 5 * wanted.min <= room /\ room <= 5 * wanted.max
  <2> HIDE DEF room
  <2> QED BY <1>14 DEF InReach, h, z, t
<1>17. \A i \in Len(g) - 4 .. Len(g) : g[i] = v
  <2>1. Len(g) - 4 = m + 1
    BY <1>2, <1>8
  <2> QED BY <1>8, <1>10, <2>1
<1>18. LayersReachTop'
  <2> HIDE DEF u, o, k, room
  <2>1. /\ 2 * Reach(u, t) <= h
        /\ wanted.precise /\ wanted.min <= h /\ h <= wanted.max
              /\ 5 * wanted.min <= room /\ room <= 5 * wanted.max =>
              /\ u = t
              /\ \A i \in Len(g) - 4 .. Len(g) : wanted.min <= g[i] /\ g[i] <= wanted.max
    BY <1>4, <1>13, <1>15, <1>16, <1>17
  <2>2. heights' = g /\ wanted' = wanted /\ PlanZ' = u
    BY <1>1 DEF PlanZ, u
  <2> QED BY <2>1, <2>2 DEF LayersReachTop, u, o, k, room, h, t
<1> QED BY <1>1, <1>18 DEF PlanOK

\* The layers end within half a layer of the top, or at it if they are to and can.
THEOREM LayersAtTop == PlanSpec => []LayersReachTop
<1>1. PlanInit => PlanOK
  BY PlanInitOK
<1>2. PlanOK /\ [Planning]_planning => PlanOK'
  <2>1. ASSUME PlanOK, UNCHANGED planning PROVE PlanOK'
    <3>1. UNCHANGED <<wanted, heights, five, can, missing, stage>> /\ PlanZ' = PlanZ
      BY <2>1 DEF planning, PlanZ
    <3> QED BY <2>1, <3>1 DEF PlanOK, Slabs, EndsAbout, AlignOK, InReach, MoreLayers, Aligns, LayersReachTop
  <2> QED BY <2>1, AddLayerOK, PlannedOK, BeginAlignOK, ShareOK, GiveUpOK, AlignedOK DEF Planning
<1>3. PlanOK => LayersReachTop
  BY DEF PlanOK
<1> QED BY <1>1, <1>2, <1>3, PTL DEF PlanSpec
=============================================================================
