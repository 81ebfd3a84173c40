---------------------------- MODULE GcodeWriter ----------------------------
(***************************************************************************)
(* The G-code writer (elysian-gcode: writer.rs, motion.rs, paths.rs): one  *)
(* pass over the layers of a slice that keeps, beside the text, what it    *)
(* believes of the machine: the height of the nozzle, the hop it owes or   *)
(* has made, the filament it has pulled back and the tool it called last.  *)
(* The text has no other state, so a belief that is wrong is a line of     *)
(* plastic in the wrong place.  The model runs the writer and the machine  *)
(* that obeys its lines side by side, and keeps the last extrusion.        *)
(***************************************************************************)
EXTENDS Integers, Sequences

CONSTANTS Settings,   \* the settings the writer may be given
          Layers,     \* layers of each object
          Height      \* height of a layer, in units of Z

\* A layer is at least one unit high, and there is a layer.
ASSUME LayersAssumption == Layers \in Nat \ {0} /\ Height \in Nat \ {0}

\* Lengths are not negative; filaments and tools are numbered from 1, and 0 is
\* no filament of its own.
Filaments == [wall : Nat, sparse : Nat, solid : Nat]

ASSUME SettingsAssumption ==
    \A s \in Settings :
        /\ {s.retraction, s.hop, s.towerLift, s.support, s.interface, s.objects} \subseteq Nat
        /\ s.hopBelow \in Int
        /\ {s.changing, s.spiral, s.scarf, s.scan, s.towers, s.infillFirst} \subseteq BOOLEAN
        /\ s.wrapping \in {"off", "retract", "snippet"}
        /\ [wall |-> s.wall, sparse |-> s.sparse, solid |-> s.solid] \in Filaments
        /\ s.regions \in Seq(Filaments)
        /\ s.map \in Seq(Nat \ {0})

VARIABLES settings,   \* the settings of this export
          layer,      \* the layer being written: 0 before the first
          slots,      \* what is left to write of it, in order
          pen,        \* the writer's state and the machine's height
          bead        \* the last extrusion, or NoBead

vars == <<settings, layer, slots, pen, bead>>

NoBead == [role |-> "none"]

\* The features whose loops may be scarfed or spiralled: perimeters.
Walls == {"OuterWall", "InnerWall"}

\* The tool of a filament, through filament_map; 0 stands for no filament.
Tool(s, filament) == IF filament \in 1..Len(s.map) THEN s.map[filament]
                     ELSE IF filament >= 1 THEN filament
                     ELSE IF s.map = <<>> THEN 1 ELSE s.map[1]

\* The nozzle the start code leaves in place.
Implicit(s) == Tool(s, s.wall)

\* Objects printed one after another restart at the bottom.
PrintZ(n) == (((n - 1) % Layers) + 1) * Height

-----------------------------------------------------------------------------
(* A layer as the writer walks it.  how: what the writer does about the    *)
(* tool before the feature.                                                *)

Slot(role, filament, how) == [role |-> role, filament |-> filament, how |-> how]

\* The features before the walls; a tower only if the slice has one here.
BeforeWalls(s, tower) ==
    <<Slot("Skirt", 0, "keep"), Slot("Brim", 0, "keep")>>
    \o (IF tower THEN <<Slot("Lift", 0, "keep"), Slot("PrimeTower", 0, "keep"), Slot("Lower", 0, "keep")>>
        ELSE <<>>)
    \o <<Slot("Support", s.support, IF s.support > 0 THEN "call" ELSE "keep"),
         Slot("SupportInterface", s.interface, IF s.interface > 0 THEN "call" ELSE "keep"),
         Slot("SupportIroning", 0, "keep"),
         Slot("WallTool", s.wall, "keep")>>

\* One region's walls in wall_sequence order, then the gaps between them.
WallSlots(s, filament, how) ==
    LET outer == <<Slot("OuterWall", filament, how)>>
        inner == <<Slot("InnerWall", filament, how)>>
    IN  (CASE s.sequence = "OuterInner" -> outer \o inner
           [] s.sequence = "InnerOuter" -> inner \o outer
           [] OTHER -> inner \o outer \o inner)
        \o <<Slot("GapInfill", filament, how)>>

InfillSlots(sparse, solid) ==
    <<Slot("SparseInfill", sparse, "region"), Slot("SolidInfill", solid, "region")>>

\* split: the layer has the paths of its regions apart, as parts with their
\* own filaments or modifiers make it.
AllWalls(s, split) ==
    IF split THEN WallSlots(s, s.regions[1].wall, "region") \o WallSlots(s, s.regions[2].wall, "region")
    ELSE WallSlots(s, s.wall, "keep")

AllInfill(s, split) ==
    IF split THEN InfillSlots(s.regions[1].sparse, s.regions[1].solid)
                  \o InfillSlots(s.regions[2].sparse, s.regions[2].solid)
    ELSE InfillSlots(s.sparse, s.solid)

LayerSlots(s, first, tower, split) ==
    BeforeWalls(s, tower)
    \o (IF s.infillFirst /\ ~first THEN AllInfill(s, split) \o AllWalls(s, split)
        ELSE AllWalls(s, split) \o AllInfill(s, split))
    \o <<Slot("Ironing", s.solid, "region")>>

-----------------------------------------------------------------------------
(* The writer's moves, as functions of its state p.  up is where the       *)
(* machine's nozzle is; z is where the writer believes it to be.           *)

\* lazy_lift: the hop is owed until the next travel.
QueueLift(s, p) ==
    IF p.lifted > 0 \/ p.toLift > 0 \/ s.hop = 0 \/ p.z > s.hopBelow THEN p
    ELSE [p EXCEPT !.toLift = s.hop]

\* Pulls back what is missing of the retraction length, wiping or not.
Retract(s, p) ==
    IF s.retraction = 0 THEN p
    ELSE LET missing == IF p.retracted < s.retraction THEN s.retraction - p.retracted ELSE 0
         IN  QueueLift(s, [p EXCEPT !.retracted = @ + missing])

\* told: the hop is a line of its own; a slope too steep to write is not.
LazyLift(p, told) ==
    IF p.toLift = 0 THEN p
    ELSE [p EXCEPT !.toLift = 0, !.lifted = p.toLift, !.z = @ + p.toLift,
                   !.up = IF told THEN p.z + p.toLift ELSE @]

\* Faulty variant, for the mutation checks.
UnliftForgetting(p) == [p EXCEPT !.lifted = 0, !.toLift = 0]

Unlift(p) ==
    IF p.lifted = 0 THEN [p EXCEPT !.toLift = 0]
    ELSE [p EXCEPT !.z = @ - p.lifted, !.up = p.z - p.lifted, !.lifted = 0, !.toLift = 0]

Unretract(p) == [Unlift(p) EXCEPT !.retracted = 0]

\* A travel carries Z while the nozzle is lifted.
Travelled(p) == [p EXCEPT !.up = IF p.lifted > 0 THEN p.z ELSE @, !.placed = TRUE]

\* far: at least retraction_minimum_travel; inside: needs_retraction says no.
TravelTo(s, p, far, inside, told) ==
    IF ~p.placed THEN Travelled(p)
    ELSE LET q == IF far /\ (p.forces \/ ~inside) THEN Retract(s, p) ELSE p
         IN  Travelled(LazyLift(q, told))

\* set_extruder: nothing if the tool is the one called last.
Toolchange(s, p, filament) ==
    LET kept == \/ "objects" \in s.flush
                \/ "infill" \in s.flush
                \/ "support" \in s.flush /\ p.support
        q == [(IF kept THEN p ELSE Retract(s, p)) EXCEPT !.tool = Tool(s, filament)]
    IN  IF p.tool = Tool(s, filament) THEN p
        ELSE IF "objects" \in s.flush THEN q ELSE Unretract(q)

\* The first call is left out when it names the nozzle already in place.
RegionToolchange(s, p, filament) ==
    IF p.tool = 0 /\ Tool(s, filament) = Implicit(s) THEN p ELSE Toolchange(s, p, filament)

ToolFor(s, p, slot) ==
    CASE slot.how = "call" -> Toolchange(s, p, slot.filament)
      [] slot.how = "region" -> RegionToolchange(s, p, slot.filament)
      [] OTHER -> p

\* An explicit line to a height, as between layers and around the tower.
MoveZ(p, z) == [p EXCEPT !.z = z, !.up = z]

\* retract_when_changing_layer, and scan_first_layer's pair of moves; the
\* detection snippet of wrapping ends at the height of the layer.
LayerMoves(s, p, n) ==
    LET left == IF n > 1 /\ s.changing THEN Retract(s, p) ELSE p
        at == IF s.spiral /\ n > 1 THEN left ELSE [MoveZ(left, PrintZ(n)) EXCEPT !.lifted = 0]
        scanned == IF n = 2 /\ s.scan THEN Unretract(Retract(s, at)) ELSE at
    IN  CASE s.wrapping = "off" -> scanned
          [] s.wrapping = "retract" -> Retract(s, scanned)
          [] s.wrapping = "snippet" -> [MoveZ(Retract(s, scanned), PrintZ(n)) EXCEPT !.lifted = 0]

-----------------------------------------------------------------------------
(* One path.  A scarfed loop starts drop units below its layer and ramps   *)
(* up; a spiral's loop ramps from where the nozzle is.                     *)

Scarfs(s, n, role) == s.scarf /\ role \in Walls /\ n > 1 /\ ~s.spiral

Laid(s, p, slot, from, to, n) ==
    [role |-> slot.role, filament |-> slot.filament, how |-> slot.how, layer |-> n,
     tool |-> IF p.tool = 0 THEN Implicit(s) ELSE p.tool,
     from |-> from, to |-> to,
     pulled |-> p.retracted, raised |-> p.lifted, adrift |-> p.up # p.z]

\* emit_one_path, with the tool the feature calls for.
Extrude(slot, far, inside, told, loop, drop, forces) ==
    LET called == ToolFor(settings, pen, slot)
        p == Unretract(TravelTo(settings, [called EXCEPT !.support = slot.role = "Support"], far, inside, told))
        top == PrintZ(layer)
        climbs == loop /\ (settings.spiral \/ drop > 0)
    IN  /\ pen' = [(IF climbs THEN MoveZ(p, top) ELSE p) EXCEPT !.forces = forces]
        /\ bead' = Laid(settings, p, slot,
                        IF drop > 0 THEN top - drop ELSE p.up,
                        IF climbs THEN top ELSE p.up, layer)

\* A path of the feature at hand: the travel to it is short or long, inside
\* the part or not.  A wall is a loop unless it was split where it overhangs;
\* outer walls and overhangs force the next retraction.
Path ==
    /\ slots # <<>>
    /\ Head(slots).role \notin {"Lift", "Lower", "WallTool"}
    /\ \E far, inside, told, loop, forces \in BOOLEAN, drop \in 0..Height :
          LET role == Head(slots).role
          IN  /\ loop \/ forces => role \in Walls
              /\ role = "OuterWall" => forces
              /\ drop > 0 => loop /\ Scarfs(settings, layer, role)
              /\ Extrude(Head(slots), far, inside, told, loop, drop, forces)
    /\ UNCHANGED <<settings, layer, slots>>

\* The feature has no paths, or no more.
NextFeature ==
    /\ slots # <<>>
    /\ Head(slots).role \notin {"Lift", "Lower", "WallTool"}
    /\ slots' = Tail(slots)
    /\ UNCHANGED <<settings, layer, pen, bead>>

\* prime_tower_lift_height: up before the tower, down after it.
TowerLift ==
    /\ slots # <<>>
    /\ Head(slots).role \in {"Lift", "Lower"}
    /\ slots' = Tail(slots)
    /\ pen' = IF settings.towerLift = 0 THEN pen
              ELSE MoveZ(pen, PrintZ(layer) + (IF Head(slots).role = "Lift" THEN settings.towerLift ELSE 0))
    /\ UNCHANGED <<settings, layer, bead>>

\* Back to the filament of the walls, once any tool has been called.
WallTool ==
    /\ slots # <<>>
    /\ Head(slots).role = "WallTool"
    /\ slots' = Tail(slots)
    /\ pen' = IF pen.tool = 0 THEN pen ELSE Toolchange(settings, pen, settings.wall)
    /\ UNCHANGED <<settings, layer, bead>>

\* CHANGE_LAYER.
BeginLayer ==
    /\ slots = <<>>
    /\ layer < settings.objects * Layers
    /\ layer' = layer + 1
    /\ \E tower, split \in BOOLEAN :
          /\ tower => settings.towers
          /\ split => Len(settings.regions) = 2
          /\ slots' = LayerSlots(settings, layer = 0, tower, split)
    /\ pen' = LayerMoves(settings, pen, layer + 1)
    /\ UNCHANGED <<settings, bead>>

Init ==
    /\ settings \in Settings
    /\ layer = 0
    /\ slots = <<>>
    /\ pen = [z |-> 0, up |-> 0, lifted |-> 0, toLift |-> 0, retracted |-> 0,
              tool |-> 0, placed |-> FALSE, forces |-> FALSE, support |-> FALSE]
    /\ bead = NoBead

Next == BeginLayer \/ Path \/ NextFeature \/ TowerLift \/ WallTool

Spec == Init /\ [][Next]_vars

-----------------------------------------------------------------------------
(* Properties *)

\* Every line is laid where its layer is: level with the top of the layer, or,
\* a wall with a scarf, from no lower than the layer below up to that top.  Only
\* the prime tower is laid higher, by prime_tower_lift_height, and a spiral
\* only keeps below the top.  It takes every hop to be undone before the line
\* and no hop still owed to leak into it across retractions, tool changes and
\* layers (motion.rs: retract, apply_lazy_lift, unlift; writer.rs: Z).  A
\* spiral of several objects printed one after another is left out: no line
\* takes the nozzle down to the next object (writer.rs:88).
OnLayer ==
    bead # NoBead /\ (settings.spiral => settings.objects = 1) =>
        LET top == PrintZ(bead.layer) + (IF bead.role = "PrimeTower" THEN settings.towerLift ELSE 0)
        IN  /\ bead.to <= top
            /\ bead.from <= bead.to
            /\ ~settings.spiral => bead.to = top
            /\ ~settings.spiral /\ bead.role \notin Walls => bead.from = top
            /\ ~settings.spiral => bead.from >= top - Height

\* No line is laid with the filament still pulled back, with the nozzle on its
\* hop, or at another height than the writer believes; and the filament is
\* never pulled back further than retraction_length, however many retractions
\* follow one another (motion.rs retract and unretract).
Primed ==
    /\ bead # NoBead => bead.pulled = 0 /\ bead.raised = 0 /\ ~bead.adrift
    /\ pen.retracted <= settings.retraction

\* A feature that names a filament is printed with that filament's tool: also
\* after the tools of support, of other regions and of the layer before.  The
\* walls of a layer of one region that come after its infill are left out:
\* there the writer does not return to wall_filament (writer.rs:339).
RightFilament ==
    bead # NoBead /\ bead.filament > 0
    /\ ~(bead.how = "keep" /\ settings.infillFirst /\ bead.layer > 1) =>
        bead.tool = Tool(settings, bead.filament)

\* Every line of every layer is laid in place, primed and of its filament,
\* whatever retractions, hops, tool changes and ramps came before it.
LinesRight == OnLayer /\ Primed /\ RightFilament
=============================================================================
