---------------------------- MODULE SliceRegions ----------------------------
(***************************************************************************)
(* One layer of an object of several volumes (elysian-slicer lib.rs:       *)
(* slice_volumes_with_planes): what is printed on it and under which       *)
(* settings.  Parts are united, negative volumes taken away; parts of      *)
(* different settings and parameter modifiers split the layer into         *)
(* regions, the later volume taking what the earlier ones held.            *)
(*                                                                         *)
(* A polygon is the set of the cells it covers.  Of the settings there are *)
(* the filament, for the keys a region may have of its own, and one value  *)
(* for the keys only a whole object has; 0 as a filament stands for the    *)
(* first.  Painted colours, seams and supports are left out.               *)
(***************************************************************************)
EXTENDS Integers, Sequences, SequencesExt, FiniteSetsExt

CONSTANTS Objects,  \* sequences of volumes: kind, cells, region, whole
          Projects  \* settings of a project: filament, whole

None == -1  \* a volume without such a key

\* The kinds of volume modelled; settings are numbers.
Volumes == [kind : {"part", "modifier", "negative"}, cells : SUBSET Nat,
            region : Nat \cup {None}, whole : Nat \cup {None}]

ObjectsTyped == Objects \subseteq Seq(Volumes)
ASSUME ObjectsAssumption == ObjectsTyped

VARIABLES volumes, base,  \* of the object, and its settings
          slices,         \* what of each part is still its own
          pieces, cfgs,   \* the regions so far and their settings
          next,           \* the part or modifier to be taken next
          phase,          \* what is done next
          contours        \* what is printed

slicing == <<volumes, base, slices, pieces, cfgs, next, phase, contours>>

\* The members of a list with the indices in I, in order.
Those(list, I) ==
    LET first[n \in 0 .. Len(list)] == IF n = 0 THEN <<>>
                                      ELSE IF n \in I THEN Append(first[n - 1], list[n])
                                      ELSE first[n - 1]
    IN  first[Len(list)]

OfKind(kind) == Those(volumes, {i \in DOMAIN volumes : volumes[i].kind = kind})
Parts == OfKind("part")

-----------------------------------------------------------------------------
(* Settings *)

\* region_settings: the keys of regions that the volume has itself.
RegionSettings(volume, parent) ==
    [parent EXCEPT !.filament = IF volume.region = None THEN @ ELSE volume.region]

\* part_region_settings: filament 0 becomes the first.
PartSettings(volume, parent) ==
    LET own == RegionSettings(volume, parent)
    IN  [own EXCEPT !.filament = IF @ < 1 THEN 1 ELSE @]

\* agreed_object_settings: a key of whole objects that every part has.
AgreedSettings(list, project) ==
    LET shared == {list[i].whole : i \in {j \in DOMAIN list : list[j].kind = "part"}}
    IN  IF \E k \in shared : shared = {k} /\ k # None
        THEN [project EXCEPT !.whole = CHOOSE k \in shared : TRUE]
        ELSE project

\* The modifiers that change something.
Modifiers ==
    Those(volumes, {i \in DOMAIN volumes : /\ volumes[i].kind = "modifier" /\ volumes[i].region # None
                                          /\ RegionSettings(volumes[i], base) # base})

\* split_parts
PartsDiffer == Len(Parts) > 1 /\ \E i \in DOMAIN Parts : Parts[i].region # None

\* unique_part_configs: the members of a list, each once.
Unique(list) ==
    LET first[n \in 0 .. Len(list)] == IF n = 0 THEN <<>>
                                      ELSE IF Contains(first[n - 1], list[n]) THEN first[n - 1]
                                      ELSE Append(first[n - 1], list[n])
    IN  first[Len(list)]

\* ModelVolume::needs_volume_slice, of the kinds of volume modelled.
NeedsVolumeSlice(v) == v.kind = "negative" \/ v.region # None

\* An object of one plain part is sliced as a mesh.
PlainMesh == Len(Parts) = 1 /\ \A i \in DOMAIN volumes : ~NeedsVolumeSlice(volumes[i])

-----------------------------------------------------------------------------
Removed == UNION {v.cells : v \in ToSet(OfKind("negative"))}
Whole == (UNION {v.cells : v \in ToSet(Parts)}) \ Removed

SlicingInit ==
    /\ volumes \in Objects
    /\ base \in {AgreedSettings(volumes, project) : project \in Projects}
    /\ slices = <<>> /\ pieces = <<>> /\ cfgs = <<>>
    /\ next = 1
    /\ phase = "plan"
    /\ contours = {}

\* Without a part: SlicerError::EmptyMesh.
EmptyMesh ==
    /\ phase = "plan" /\ Parts = <<>>
    /\ phase' = "refused"
    /\ UNCHANGED <<volumes, base, slices, pieces, cfgs, next, contours>>

\* slice_mesh, or a layer that nothing splits into regions.
Undivided ==
    /\ phase = "plan" /\ Parts # <<>>
    /\ \/ PlainMesh
       \/ ~PartsDiffer /\ Modifiers = <<>>
    /\ contours' = Whole
    /\ phase' = "done"
    /\ UNCHANGED <<volumes, base, slices, pieces, cfgs, next>>

\* split_volume_regions of parts with one region: all that is printed.
OneSlot ==
    /\ phase = "plan" /\ Parts # <<>>
    /\ ~PartsDiffer /\ Modifiers # <<>>
    /\ pieces' = <<Whole>> /\ cfgs' = <<base>>
    /\ phase' = "modify"
    /\ UNCHANGED <<volumes, base, slices, next, contours>>

\* split_model_part_regions: each part without the negative volumes.
CutParts ==
    /\ phase = "plan" /\ PartsDiffer
    /\ slices' = [i \in DOMAIN Parts |-> Parts[i].cells \ Removed]
    /\ next' = 2
    /\ phase' = "clip"
    /\ UNCHANGED <<volumes, base, pieces, cfgs, contours>>

\* Faulty variant, for the mutation checks.
ClipLater ==
    /\ phase = "clip" /\ next <= Len(slices)
    /\ slices' = [slices EXCEPT ![next] = @ \ slices[1]]
    /\ next' = next + 1
    /\ UNCHANGED <<volumes, base, pieces, cfgs, phase, contours>>

\* What a later part covers, the earlier ones lose.
ClipEarlier ==
    /\ phase = "clip" /\ next <= Len(slices)
    /\ slices' = [i \in DOMAIN slices |->
                    IF i < next THEN slices[i] \ slices[next] ELSE slices[i]]
    /\ next' = next + 1
    /\ UNCHANGED <<volumes, base, pieces, cfgs, phase, contours>>

\* A region for each settings among the parts.
GatherParts ==
    /\ phase = "clip" /\ next > Len(slices)
    /\ cfgs' = Unique([i \in DOMAIN Parts |-> PartSettings(Parts[i], base)])
    /\ pieces' = [r \in DOMAIN cfgs' |->
                   UNION {slices[i] : i \in {j \in DOMAIN slices :
                                               PartSettings(Parts[j], base) = cfgs'[r]}}]
    /\ next' = 1
    /\ phase' = "modify"
    /\ UNCHANGED <<volumes, base, slices, contours>>

\* apply_modifiers: a modifier takes what it covers from every region.
ApplyModifier ==
    /\ phase = "modify" /\ next <= Len(Modifiers)
    /\ LET volume == Modifiers[next]
       IN  /\ pieces' = Append([r \in DOMAIN pieces |-> pieces[r] \ volume.cells],
                              UNION {pieces[r] \cap volume.cells : r \in DOMAIN pieces})
           /\ cfgs' = Append(cfgs, RegionSettings(volume, base))
    /\ next' = next + 1
    /\ UNCHANGED <<volumes, base, slices, phase, contours>>

\* The layer prints its regions; a single one is forgotten.
Divided ==
    /\ phase = "modify" /\ next > Len(Modifiers)
    /\ contours' = UNION ToSet(pieces)
    /\ IF Len(pieces) <= 1 THEN pieces' = <<>> /\ cfgs' = <<>> ELSE UNCHANGED <<pieces, cfgs>>
    /\ phase' = "done"
    /\ UNCHANGED <<volumes, base, slices, next>>

Slicing == \/ EmptyMesh \/ Undivided \/ OneSlot \/ CutParts
           \/ ClipEarlier \/ GatherParts \/ ApplyModifier \/ Divided

SlicingSpec == SlicingInit /\ [][Slicing]_slicing

-----------------------------------------------------------------------------
(* Properties *)

\* The settings a cell is printed under: its region's, or the object's.
PrintedUnder(c) ==
    IF pieces = <<>> THEN {base} ELSE {cfgs[r] : r \in {s \in DOMAIN pieces : c \in pieces[s]}}

Holding(list, c) == {i \in DOMAIN list : c \in list[i].cells}

\* The settings meant for a cell: those of the last modifier over it, or else
\* of the last part that holds it, provided that regions were made of the
\* parts; without regions it is the object's (see PartKeysUsed).
MeantFor(c) ==
    IF Holding(Modifiers, c) # {} THEN RegionSettings(Modifiers[Max(Holding(Modifiers, c))], base)
    ELSE IF PartsDiffer /\ pieces # <<>> THEN PartSettings(Parts[Max(Holding(Parts, c))], base)
    ELSE base

\* What is printed of an object is its parts without its negative volumes; the
\* regions share it out, each cell to exactly one region, whose settings are
\* those of the last modifier or else the last part that covers it, in
\* whatever order volumes overlap.
RegionsShare ==
    phase = "done" =>
        /\ contours = Whole
        /\ \A r, s \in DOMAIN pieces : r # s => pieces[r] \cap pieces[s] = {}
        /\ \A c \in contours : PrintedUnder(c) = {MeantFor(c)}

\* A part that has keys of its own is printed with them where no modifier and
\* no later part covers it ("Object-level process keys overlay onto each
\* volume; part keys win", elysian-io bbs.rs).
PartKeysUsed ==
    phase = "done" =>
        \A c \in contours :
            LET part == Parts[Max(Holding(Parts, c))]
            IN  Holding(OfKind("modifier"), c) = {} /\ part.region # None
                    => \A s \in PrintedUnder(c) : s.filament = part.region
=============================================================================
