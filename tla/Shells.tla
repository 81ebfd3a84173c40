------------------------------- MODULE Shells -------------------------------
(***************************************************************************)
(* Which infill of a region is solid and which sparse (elysian-slicer      *)
(* prepare_infill.rs: detect_shells, combine_sparse_infill).  Where a      *)
(* layer is not covered by the next there is a top, projected down over    *)
(* the layers of the shell, and bottoms likewise up; what is left is       *)
(* sparse, printed layer by layer or, combined, several layers at a time.  *)
(*                                                                         *)
(* A polygon is the set of the cells it covers, along one line; what is    *)
(* less than a cell (covers grown, gaps closed, edges rounded) is left     *)
(* out.  Heights are whole numbers.  No density is zero, neither that of   *)
(* sparse infill nor that of a surface.                                    *)
(***************************************************************************)
EXTENDS Integers, Sequences, FiniteSets, FiniteSetsExt, SequencesExt

CONSTANTS Bodies,   \* region: the infill of the region, layer by layer;
                    \* object: that of the whole object; heights of the layers
          Shellings \* settings, see below

\* There are as many heights as layers and lengths are not negative; beyond
\* the first, two layers are together no lower than a regular one.
ShapesTyped ==
    /\ \A b \in Bodies :
          /\ b.region \in Seq(SUBSET Int) /\ b.object \in Seq(SUBSET Int)
          /\ b.heights \in Seq(Nat) /\ Len(b.heights) = Len(b.region)
    /\ \A s \in Shellings :
          /\ {s.top, s.bottom, s.topTh, s.bottomTh, s.layer, s.nozzle, s.raft, s.ring} \subseteq Nat
          /\ {s.interface, s.vertical} \subseteq BOOLEAN
    /\ \A b \in Bodies, s \in Shellings :
          \A i \in 2 .. Len(b.heights) - 1 : b.heights[i] + b.heights[i + 1] >= s.layer
ASSUME ShapesAssumption == ShapesTyped

VARIABLES body,     \* what is printed
          setting,  \* top, bottom: layers of the shells; topTh, bottomTh: their
                    \* thickness; interface, vertical: options; small: an area;
                    \* layer: height of a regular layer; nozzle: 0, or what
                    \* combined infill is kept under; raft, ring: layers of the
                    \* raft, clearance in cells
          top, bottom, solid, sparse,  \* kinds of infill, layer by layer
          thick, thickHeight,          \* combined infill and its height
          at, doing                    \* the layer at hand and what is done

shelling == <<body, setting, top, bottom, solid, sparse, thick, thickHeight, at, doing>>

LayerIds == 1 .. Len(body.region)
Region(i) == IF i \in LayerIds THEN body.region[i] ELSE {}

\* What hides a layer: any infill of the object or, with interface_shells, of
\* the region alone.
Cover(i) == IF i \notin LayerIds THEN {}
            ELSE IF setting.interface THEN body.region[i] ELSE body.object[i]

\* How high layers of such heights reach together.
Tops(heights) == LET z[n \in 0 .. Len(heights)] == IF n = 0 THEN 0 ELSE z[n - 1] + heights[n] IN z

\* From under layer i to the top of layer j.
Sum(i, j) == Tops(body.heights)[j] - Tops(body.heights)[i - 1]

\* Between the tops of two layers.
Span(i, j) == IF i <= j THEN Sum(i + 1, j) ELSE Sum(j + 1, i)

\* Faulty variant, for the mutation checks.
WithinLess(k, n, th, span) == n > 0 /\ (k + 1 < n \/ span < th)

\* within_shell_window
Within(k, n, th, span) == n > 0 /\ (k < n \/ span < th)

\* The layers of the window that starts at layer i and goes up or down.
Above(i, n, th) == {j \in LayerIds : j > i /\ Within(j - i, n, th, Span(i, j))}
Below(i, n, th) == {j \in LayerIds : j < i /\ Within(i - j, n, th, Span(i, j))}

\* The pieces that polygons fall into.
Islands(cells) ==
    {r \in {a .. b : a, b \in cells} :
        r # {} /\ r \subseteq cells /\ Min(r) - 1 \notin cells /\ Max(r) + 1 \notin cells}

-----------------------------------------------------------------------------
ShellsInit ==
    /\ body \in Bodies
    /\ setting \in Shellings
    /\ top = <<>> /\ bottom = <<>> /\ solid = <<>> /\ sparse = <<>>
    /\ thick = <<>> /\ thickHeight = <<>>
    /\ at = 1
    /\ doing = "detect"

\* detect_shells: tops and bottoms of each layer.
Detect ==
    /\ doing = "detect"
    /\ top' = [i \in LayerIds |-> IF setting.top = 0 THEN {} ELSE Region(i) \ Cover(i + 1)]
    /\ bottom' = [i \in LayerIds |-> IF setting.bottom = 0 THEN {} ELSE Region(i) \ Cover(i - 1)]
    /\ solid' = [i \in LayerIds |-> top'[i] \cup bottom'[i]]
    /\ doing' = "project"
    /\ UNCHANGED <<body, setting, sparse, thick, thickHeight, at>>

\* The top of a layer goes down and its bottom up, through their windows.
Project ==
    /\ doing = "project" /\ at \in LayerIds
    /\ solid' = [i \in LayerIds |->
          solid[i] \cup (Region(i) \cap
             (   (IF i \in Below(at, setting.top, setting.topTh) THEN top[at] ELSE {})
              \cup (IF i \in Above(at, setting.bottom, setting.bottomTh) THEN bottom[at] ELSE {})))]
    /\ at' = at + 1
    /\ UNCHANGED <<body, setting, top, bottom, sparse, thick, thickHeight, doing>>

\* vertical_shell_extra: infill that some layer of the windows has not.
Slope(i) ==
    {c \in Region(i) : \E j \in Above(i, setting.top, setting.topTh)
                                \cup Below(i, setting.bottom, setting.bottomTh) : c \notin Region(j)}

\* filter_tiny_vertical_drops: a single cell inside the object is not worth
\* it, unless an island of the infill is gone with it.
Kept(piece, i) ==
    \/ Cardinality(piece) > 1
    \/ i - 1 \notin LayerIds \/ i + 1 \notin LayerIds
    \/ ~(piece \subseteq body.object[i - 1] \cap body.object[i + 1])
    \/ Cardinality(Islands(Region(i) \ piece)) < Cardinality(Islands(Region(i)))

\* ensure_vertical_shell_thickness; then the rest is sparse but for islands of
\* at most the area set (promote_small_sparse).
Divide ==
    /\ doing = "project" /\ at \notin LayerIds
    /\ LET filled == [i \in LayerIds |-> solid[i] \cup
                        UNION {p \in Islands(Slope(i)) : setting.vertical /\ Kept(p, i)}]
           small(i) == UNION {p \in Islands(Region(i) \ filled[i]) : Cardinality(p) <= setting.small}
       IN  /\ solid' = [i \in LayerIds |-> filled[i] \cup small(i)]
           /\ sparse' = [i \in LayerIds |-> Region(i) \ solid'[i]]
    /\ thick' = [i \in LayerIds |-> {}]
    /\ thickHeight' = [i \in LayerIds |-> 0]
    /\ at' = 1
    /\ doing' = IF setting.nozzle = 0 \/ Len(body.region) < 2 THEN "done" ELSE "combine"
    /\ UNCHANGED <<body, setting, top, bottom>>

\* Layers are stacked from the bottom up, as many as fit under the nozzle; the
\* first, and as many more as the raft has, stay alone.
Stacking(heights, s) ==
    LET walk[n \in 0 .. Len(heights)] ==
            IF n <= s.raft + 1 THEN [height |-> 0, count |-> 0]
            ELSE IF walk[n - 1].height + heights[n] > s.nozzle THEN [height |-> heights[n], count |-> 1]
            ELSE [height |-> walk[n - 1].height + heights[n], count |-> walk[n - 1].count + 1]
    IN  walk

\* How many layers end in layer i: a stack ends where the next one begins.
Stack(i) ==
    LET walk == Stacking(body.heights, setting)
    IN  IF i + 1 \notin LayerIds \/ walk[i + 1].count = 1 THEN walk[i].count ELSE 0

\* The layers printed at once with layer i, itself the last.
Stacked(i) == (i + 1 - Stack(i)) .. i

Grown(cells, by) == {c + d : c \in cells, d \in -by .. by}

\* Faulty variant, for the mutation checks.
CombineTwice ==
    /\ doing = "combine" /\ at \in LayerIds
    /\ LET shared == IF Stack(at) <= 1 THEN {}
                     ELSE {c \in sparse[at] : \A j \in Stacked(at) : c \in sparse[j]}
       IN  /\ sparse' = [sparse EXCEPT ![at] = @ \ Grown(shared, setting.ring)]
           /\ thick' = [thick EXCEPT ![at] = shared]
           /\ thickHeight' = [thickHeight EXCEPT ![at] =
                                IF shared = {} THEN 0
                                ELSE Max({Sum(at + 1 - Stack(at), at), setting.layer})]
    /\ at' = at + 1
    /\ UNCHANGED <<body, setting, top, bottom, solid, doing>>

\* combine_sparse_infill: what all the layers stacked share is printed with the
\* last of them; each loses it, and a ring around it.
Combine ==
    /\ doing = "combine" /\ at \in LayerIds
    /\ LET shared == IF Stack(at) <= 1 THEN {}
                     ELSE {c \in sparse[at] : \A j \in Stacked(at) : c \in sparse[j]}
       IN  /\ sparse' = [i \in LayerIds |-> IF Stack(at) > 1 /\ i \in Stacked(at)
                                          THEN sparse[i] \ Grown(shared, setting.ring)
                                          ELSE sparse[i]]
           /\ thick' = [thick EXCEPT ![at] = shared]
           /\ thickHeight' = [thickHeight EXCEPT ![at] =
                                IF shared = {} THEN 0
                                ELSE Max({Sum(at + 1 - Stack(at), at), setting.layer})]
    /\ at' = at + 1
    /\ UNCHANGED <<body, setting, top, bottom, solid, doing>>

Combined ==
    /\ doing = "combine" /\ at \notin LayerIds
    /\ doing' = "done"
    /\ UNCHANGED <<body, setting, top, bottom, solid, sparse, thick, thickHeight, at>>

\* emit_shells: solid infill that is neither top nor bottom.
OtherSolid(i) == solid[i] \ (top[i] \cup bottom[i])

Shelling == Detect \/ Project \/ Divide \/ Combine \/ Combined

ShellsSpec == ShellsInit /\ [][Shelling]_shelling

-----------------------------------------------------------------------------
(* Properties *)

\* The layers that combined infill of layer m stands for.
Under(m) == IF thick[m] = {} THEN {} ELSE Stacked(m)

\* Sparse infill of a layer, or of combined infill that stands for it.
Sparse(i) == sparse[i] \cup UNION {thick[m] : m \in {n \in LayerIds : i \in Under(n)}}

\* Going up or down from sparse infill through the region, one does not come
\* out in the open as long as one is within the shell's number of layers or
\* within its thickness, also where layers are combined.
SparseIsDeep ==
    doing = "done" =>
        \A i, j \in LayerIds : \A c \in Sparse(i) :
            /\ i <= j /\ (\A l \in i .. j : c \in Region(l)) =>
                  /\ j - i < setting.top => c \in Cover(j + 1)
                  /\ setting.top > 0 /\ Span(i, j) < setting.topTh => c \in Cover(j + 1)
            /\ j <= i /\ (\A l \in j .. i : c \in Region(l)) =>
                  /\ i - j < setting.bottom => c \in Cover(j - 1)
                  /\ setting.bottom > 0 /\ Span(i, j) < setting.bottomTh => c \in Cover(j - 1)

\* The passes that fill a layer: one for its tops, one for its bottoms, one for
\* the rest of its solid infill, one for its own sparse infill; and combined
\* infill, by its layer.
TopPass == -1
BottomPass == -2
SolidPass == -3
SparsePass == -4

Fills(i, c) == {m \in LayerIds : i \in Under(m) /\ c \in thick[m]}
               \cup {k \in {TopPass} : c \in top[i]} \cup {k \in {BottomPass} : c \in bottom[i]}
               \cup {k \in {SolidPass} : c \in OtherSolid(i)} \cup {k \in {SparsePass} : c \in sparse[i]}

\* A cell open to both sides is filled as top and again as bottom
\* (prepare_infill.rs:440, 478) and by nothing else.  All other infill is
\* filled by one pass: as top, as bottom, as other solid infill, as sparse
\* infill of its layer, or by the combined infill of one later layer, which is
\* as high as the layers it stands for and no higher than allowed; nothing is
\* left empty but for the ring around combined infill.
FilledOnce ==
    doing = "done" =>
        /\ \A m \in LayerIds : thick[m] # {} => /\ thickHeight[m] <= setting.nozzle
                                              /\ thickHeight[m] = Sum(Min(Under(m)), m)
        /\ \A i \in LayerIds, c \in UNION ToSet(body.object) :
              \/ c \in top[i] \cap bottom[i] /\ Fills(i, c) = {TopPass, BottomPass}
              \/ c \in Region(i) \ (top[i] \cap bottom[i]) /\ Cardinality(Fills(i, c)) = 1
              \/ c \notin Region(i) /\ Fills(i, c) = {}
              \/ /\ Fills(i, c) = {}
                 /\ \E m \in LayerIds : i \in Under(m) /\ c \in Grown(thick[m], setting.ring)
=============================================================================
