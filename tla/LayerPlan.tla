------------------------------ MODULE LayerPlan ------------------------------
(***************************************************************************)
(* The layers of an object (elysian-slicer slicing.rs:                     *)
(* generate_object_layers): layers are added while the middle of the next  *)
(* is below the top of the object; with precise_z_height the last five are *)
(* then made taller or thinner until the last ends at the top.  Lengths    *)
(* are whole numbers, of a unit the gap can be divided in.                 *)
(***************************************************************************)
EXTENDS Integers, Sequences, FiniteSets

CONSTANTS Plans  \* tops of objects, and settings: first, layer, min, max, precise

\* In a unit that a gap can be divided by five in.
ASSUME PlansAssumption ==
    \A p \in Plans :
       /\ p.top \in Nat /\ p.first \in Nat /\ p.layer \in Nat /\ p.min \in Nat /\ p.max \in Nat
       /\ p.top % 5 = 0 /\ p.first % 5 = 0 /\ p.layer % 5 = 0
       /\ p.precise \in BOOLEAN

VARIABLES wanted,    \* the top, and the settings
          heights,   \* of the layers so far
          five,      \* those of the last five, as they will be
          can,       \* which of the five can still change
          missing,   \* what they still have to change by
          stage      \* "add", "align", then "done"

planning == <<wanted, heights, five, can, missing, stage>>

Total(s) ==
    LET sum[n \in 0 .. Len(s)] == IF n = 0 THEN 0 ELSE sum[n - 1] + s[n]
    IN  sum[Len(s)]
PlanZ == Total(heights)
Reach(a, b) == IF a < b THEN b - a ELSE a - b
Lower(a, b) == IF a < b THEN a ELSE b

PlanInit ==
    /\ wanted \in Plans
    /\ heights = <<wanted.first>>
    /\ five = <<>> /\ can = {} /\ missing = 0
    /\ stage = "add"

\* A next layer begins below the top, by half of the thinnest layer, and its
\* middle is below the top.
MoreLayers == /\ 2 * PlanZ + Lower(wanted.min, wanted.layer) < 2 * wanted.top
              /\ 2 * PlanZ + wanted.layer < 2 * wanted.top

AddLayer ==
    /\ stage = "add" /\ MoreLayers
    /\ heights' = Append(heights, wanted.layer)
    /\ UNCHANGED <<wanted, five, can, missing, stage>>

\* Alignment is asked for, there are enough layers, and the last ends elsewhere.
Aligns == wanted.precise /\ Len(heights) >= 6 /\ PlanZ # wanted.top

Planned ==
    /\ stage = "add" /\ ~MoreLayers /\ ~Aligns
    /\ stage' = "done"
    /\ UNCHANGED <<wanted, heights, five, can, missing>>

BeginAlign ==
    /\ stage = "add" /\ ~MoreLayers /\ Aligns
    /\ five' = SubSeq(heights, Len(heights) - 4, Len(heights))
    /\ can' = 1 .. 5
    /\ missing' = Reach(PlanZ, wanted.top)
    /\ stage' = "align"
    /\ UNCHANGED <<wanted, heights>>

Taller == PlanZ < wanted.top
Limit == IF Taller THEN IF wanted.max < wanted.min THEN wanted.min ELSE wanted.max
         ELSE wanted.min

\* An equal share for each that can change; what would pass the limit is left
\* for the others (a layer at the limit takes none).
Changed(h, share) == IF Taller THEN h + share ELSE h - share
Passes(h, share) == IF Taller THEN Changed(h, share) > Limit ELSE Changed(h, share) < Limit
Over(h, share) == IF h = Limit THEN share
                  ELSE IF Passes(h, share) THEN IF Taller THEN Changed(h, share) - Limit
                                                ELSE Limit - Changed(h, share)
                  ELSE 0

\* Faulty variant, for the mutation checks.
ShareOnce ==
    /\ stage = "align" /\ missing > 0 /\ can # {}
    /\ LET share == missing \div Cardinality(can)
       IN  /\ five' = [i \in 1 .. 5 |-> IF i \notin can THEN five[i]
                                        ELSE IF Passes(five[i], share) THEN Limit
                                        ELSE Changed(five[i], share)]
           /\ can' = {i \in can : ~Passes(five[i], share) /\ five[i] # Limit}
           /\ missing' = 0
    /\ UNCHANGED <<wanted, heights, stage>>

\* One pass over the five layers.
Share ==
    /\ stage = "align" /\ missing > 0 /\ can # {}
    /\ LET share == missing \div Cardinality(can)
       IN  /\ five' = [i \in 1 .. 5 |-> IF i \notin can THEN five[i]
                                        ELSE IF Passes(five[i], share) THEN Limit
                                        ELSE Changed(five[i], share)]
           /\ can' = {i \in can : ~Passes(five[i], share) /\ five[i] # Limit}
           /\ missing' = Total([i \in 1 .. 5 |-> IF i \in can THEN Over(five[i], share) ELSE 0])
    /\ UNCHANGED <<wanted, heights, stage>>

\* None can change any more: the plan stays as it was.
GiveUp ==
    /\ stage = "align" /\ missing > 0 /\ can = {}
    /\ stage' = "done"
    /\ UNCHANGED <<wanted, heights, five, can, missing>>

Aligned ==
    /\ stage = "align" /\ missing = 0
    /\ heights' = SubSeq(heights, 1, Len(heights) - 5) \o five
    /\ stage' = "done"
    /\ UNCHANGED <<wanted, five, can, missing>>

Planning == AddLayer \/ Planned \/ BeginAlign \/ Share \/ GiveUp \/ Aligned

PlanSpec == PlanInit /\ [][Planning]_planning

-----------------------------------------------------------------------------
(* Properties *)

\* The last layer ends within half a layer of the top, and with
\* precise_z_height exactly there if its five layers can be of heights within
\* the limits that reach it, and then they are.
LayersReachTop ==
    stage = "done" /\ Len(heights) >= 6 =>
        LET h == wanted.layer
            base == PlanZ - Total(SubSeq(heights, Len(heights) - 4, Len(heights)))
            room == wanted.top - base
        IN  /\ 2 * Reach(PlanZ, wanted.top) <= h
            /\ wanted.precise /\ wanted.min <= h /\ h <= wanted.max
                  /\ 5 * wanted.min <= room /\ room <= 5 * wanted.max =>
                  /\ PlanZ = wanted.top
                  /\ \A i \in Len(heights) - 4 .. Len(heights) :
                        wanted.min <= heights[i] /\ heights[i] <= wanted.max
=============================================================================
