------------------------------- MODULE MCParts -------------------------------
(* Parts of the studio that share no state, each alone: a behaviour is one  *)
(* of one part, and the others stay in one of their initial states.         *)
EXTENDS GcodeWriter, Plater, Inventory, SliceRegions, Shells, LayerPlan, PartCooling, RtspReader, Template

VARIABLE part

-----------------------------------------------------------------------------
(* G-code: one setting at a time differs from the base.                     *)

Base == [retraction |-> 2, hop |-> 1, hopBelow |-> 100, changing |-> TRUE, spiral |-> FALSE,
         scarf |-> TRUE, scan |-> TRUE, wrapping |-> "off", towers |-> TRUE, towerLift |-> 1,
         flush |-> {}, support |-> 2, interface |-> 1, wall |-> 1, sparse |-> 2, solid |-> 1,
         map |-> <<1, 2>>, infillFirst |-> FALSE, sequence |-> "InnerOuter",
         regions |-> <<[wall |-> 1, sparse |-> 2, solid |-> 1], [wall |-> 2, sparse |-> 2, solid |-> 2]>>,
         objects |-> 1]

MCSettings == {
    Base,
    [Base EXCEPT !.changing = FALSE],
    [Base EXCEPT !.hop = 0, !.flush = {"objects"}],
    [Base EXCEPT !.hopBelow = 2],
    [Base EXCEPT !.retraction = 0, !.sequence = "OuterInner"],
    [Base EXCEPT !.spiral = TRUE, !.towers = FALSE],
    [Base EXCEPT !.spiral = TRUE, !.objects = 2, !.map = <<>>],
    [Base EXCEPT !.wrapping = "retract", !.scan = FALSE],
    [Base EXCEPT !.wrapping = "snippet", !.flush = {"infill"}, !.towerLift = 0],
    [Base EXCEPT !.objects = 2, !.scarf = FALSE, !.regions = <<>>],
    [Base EXCEPT !.infillFirst = TRUE, !.scarf = FALSE],
    [Base EXCEPT !.flush = {"support"}, !.interface = 2, !.support = 0],
    [Base EXCEPT !.wall = 2, !.sequence = "InnerOuterInner"]}

-----------------------------------------------------------------------------
(* A square bed and a deep one off the origin; boxes wider than either.     *)

MCBeds == {[x0 |-> 0, y0 |-> 0, x1 |-> 8, y1 |-> 8], [x0 |-> -3, y0 |-> 2, x1 |-> 5, y1 |-> 12]}
MCBoxes == SeqOf([w : {1, 3, 9}, d : {1, 4}], 4)

-----------------------------------------------------------------------------
(* Two products by the maker's name and the cloud's; weights in half spools. *)

Cloud(n) == <<"c", n>>
Jade == <<"jade">>
Black == <<"black">>

MCNames == {Jade}
MCProfiles == {<<>>}
MCBlank == <<>>
MCRemote ==
    SeqOf({[id |-> Cloud(1), profile |-> <<"b">>, name |-> Jade, initial |-> 2, net |-> 1],
           [id |-> Cloud(2), profile |-> <<>>, name |-> Black, initial |-> 0, net |-> 0]}, 2)
MCLegacy == {<<>>, <<[id |-> Cloud(1), profile |-> <<>>, name |-> Jade, initial |-> 2, net |-> 2],
                     [id |-> <<>>, profile |-> <<>>, name |-> Black, initial |-> 2, net |-> 1]>>}

-----------------------------------------------------------------------------
(* Fans with and without ramps, boosts and an early start; layers with an    *)
(* overhang or two, near and far, and ironing last; in spiral_mode the Z may  *)
(* come within a mark, after one, more than once or not at all.             *)

Fan0 == [close |-> 0, full |-> 0, first |-> 0, min |-> 2, max |-> 10, keep |-> TRUE, slow |-> 1, cool |-> 5,
         overhang |-> 8, boost |-> TRUE, ironing |-> 4, preStart |-> 0,
         aux |-> FALSE, auxClose |-> 1, auxFull |-> 0, auxFirst |-> 0, auxTarget |-> 7]

Move == <<"move">>
Overhang == <<"overhang", "move", "overhangEnd">>
Ironing == <<"ironing", "move", "ironingEnd">>

MCTexts == {a \o <<"z">> \o b \o c \o d :
               a \in {<<>>, Move}, b \in {<<>>, Move, Move \o Move},
               c \in {<<>>, Overhang, Overhang \o Move \o Overhang,
                      Overhang \o Move \o Move \o Move \o Overhang},
               d \in {<<>>, Move \o Ironing}}
           \cup {<<"overhang">> \o a \o <<"overhangEnd">> \o b :
               a \in {<<"z">>, <<"z", "z">>, <<"move", "z", "move">>, Move},
               b \in {<<>>, <<"z", "move">> \o Overhang, Move \o Ironing}}
           \cup {Move \o <<"ironing", "move", "z", "move", "ironingEnd">>}

MCFans == {Fan0, [Fan0 EXCEPT !.preStart = 2, !.aux = TRUE],
           [Fan0 EXCEPT !.preStart = 1, !.close = 1, !.full = 3, !.auxFull = 3, !.aux = TRUE, !.ironing = 6],
           [Fan0 EXCEPT !.boost = FALSE, !.keep = FALSE, !.ironing = -1]}

-----------------------------------------------------------------------------
(* Streams with a late reply, the other channel, units whole, joined and     *)
(* split, parts without a start and a start without an end, stray bytes;     *)
(* payloads hold bytes that look like a frame, a reply and the end of a head. *)

Packet(channel, p, r) == [r EXCEPT !.bytes = <<36, channel, Len(p)>> \o p \o @]
Unit1 == <<36, 13>>
Unit2 == <<82, 5, 36>>

\* A packet, and what comes after it; begun: the begin of a unit before it.
Add(item, r) ==
    CASE item[1] = "unit" -> [Packet(0, <<1>> \o item[2], r) EXCEPT !.units = <<item[2]>> \o @]
      [] item[1] = "joined" -> [Packet(0, <<24, 2>> \o Unit1 \o <<3>> \o Unit2, r) EXCEPT
                                   !.units = <<Unit1, Unit2>> \o @]
      [] item[1] = "start" -> [Packet(0, <<28>> \o r.begun, r) EXCEPT !.begun = item[2]]
      [] item[1] = "middle" -> [Packet(0, <<29, Last(r.begun)>>, r) EXCEPT !.begun = Front(@)]
      [] item[1] = "end" -> [Packet(0, <<30, Last(item[2])>>, r) EXCEPT
                                !.begun = Front(item[2]), !.units = <<item[2]>> \o @]
      [] item[1] = "nothing" -> Packet(item[2], item[3], r)
      [] item[1] = "reply" -> [r EXCEPT !.bytes = <<82, 7, Len(item[2]), 13>> \o item[2] \o @]
      [] item[1] = "byte" -> [r EXCEPT !.bytes = <<item[2]>> \o @]

Split(u, f) == <<<<"start", f>>, <<"nothing", 1, <<9>>>>, <<"middle">>, <<"end", u>>>>

OneSending == <<<<"unit", Unit1>>, <<"reply", <<36, 1>>>>>> \o Split(Unit2, <<>>)

Sendings == {
    OneSending,
    <<<<"joined">>, <<"nothing", 0, <<29, 4>>>>, <<"nothing", 0, <<9, 4>>>>, <<"nothing", 0, <<>>>>,
      <<"reply", <<>>>>, <<"unit", Unit2>>>>,
    <<<<"start", <<>>>>>> \o Split(Unit2, <<5>>) \o <<<<"byte", 6>>, <<"byte", 6>>, <<"unit", Unit2>>>>}

\* Each with what is left of it, packet by packet.
Lefts(items) ==
    LET from[n \in 1..(Len(items) + 1)] ==
            IF n > Len(items) THEN [begun |-> <<>>, bytes |-> <<>>, units |-> <<>>] ELSE Add(items[n], from[n + 1])
    IN  from

AllLefts == UNION {Range(Lefts(items)) : items \in Sendings}
MCStreams == {Lefts(items)[1].bytes : items \in Sendings}
Carried == LET all == AllLefts
           IN  [to \in {<<r.begun, r.bytes>> : r \in all} |->
                   (CHOOSE r \in all : <<r.begun, r.bytes>> = to).units] @@ <<>>
MCGiven == Carried

-----------------------------------------------------------------------------
(* Objects of one to three parts, up to two modifiers and a negative volume, *)
(* on two cells.                                                            *)

Part(cells, region, whole) == [kind |-> "part", cells |-> cells, region |-> region, whole |-> whole]
Changing(cells, region) == [kind |-> "modifier", cells |-> cells, region |-> region, whole |-> -1]
Hole == [kind |-> "negative", cells |-> {1}, region |-> -1, whole |-> -1]

SomeParts == {Part(c, r, -1) : c \in {{1}, {2}, {1, 2}}, r \in {-1, 1, 2}}
             \cup {Part({1}, -1, 5), Part({1, 2}, 2, 5)}
SomeModifiers == {Changing(c, r) : c \in {{1}, {1, 2}}, r \in {-1, 1, 2}}

MCObjects == {h \o p \o m : h \in {<<>>, <<Hole>>}, p \in SeqOf(SomeParts, 2), m \in SeqOf(SomeModifiers, 2)}
             \cup [1 .. 3 -> SomeParts]

NoRegions == /\ volumes = <<>> /\ slices = <<>> /\ pieces = <<>> /\ cfgs = <<>> /\ next = 1
             /\ base = [filament |-> 0, whole |-> 4] /\ phase = "plan" /\ contours = {}

MCProjects == {[filament |-> 0, whole |-> 4], [filament |-> 1, whole |-> 4]}

-----------------------------------------------------------------------------
(* Four layers of up to three cells, of an object alone or beside another    *)
(* region; shells by layers and by thickness; combined infill.              *)

Rows == {{}, {1}, {1, 2}, {1, 3}, {1, 2, 3}}
Shell0 == [top |-> 1, bottom |-> 1, topTh |-> 0, bottomTh |-> 0, interface |-> FALSE, vertical |-> FALSE,
           small |-> 0, layer |-> 1, nozzle |-> 2, raft |-> 0, ring |-> 0]

NoBody == [region |-> <<{}, {}, {}, {}>>, object |-> <<{}, {}, {}, {}>>, heights |-> <<2, 1, 1, 1>>]

MCBodies == {[region |-> r, object |-> [i \in 1 .. 4 |-> r[i] \cup beside], heights |-> <<2, 1, 1, 1>>] :
                r \in [1 .. 4 -> Rows], beside \in {{}, {3}}}

NoShells == /\ body = NoBody /\ setting = Shell0 /\ top = <<>> /\ bottom = <<>> /\ solid = <<>>
            /\ sparse = <<>> /\ thick = <<>> /\ thickHeight = <<>> /\ at = 1 /\ doing = "detect"

MCShellings == {Shell0,
                [Shell0 EXCEPT !.topTh = 2, !.nozzle = 3, !.ring = 1],
                [Shell0 EXCEPT !.top = 2, !.bottom = 0, !.interface = TRUE],
                [Shell0 EXCEPT !.vertical = TRUE, !.bottomTh = 2, !.small = 1],
                [Shell0 EXCEPT !.top = 0, !.bottom = 2, !.vertical = TRUE, !.raft = 1, !.interface = TRUE]}

-----------------------------------------------------------------------------
(* Objects of 5 to 8 layers of 4 units, at any height in between; limits of  *)
(* the heights wide, narrow, and such that a layer is outside them.         *)

Unit == 120
Plan0 == [top |-> 24 * Unit, first |-> 4 * Unit, layer |-> 4 * Unit,
          min |-> 2 * Unit, max |-> 6 * Unit, precise |-> TRUE]

NoPlan == /\ wanted = [Plan0 EXCEPT !.precise = FALSE] /\ heights = <<Plan0.first>>
          /\ five = <<>> /\ can = {} /\ missing = 0 /\ stage = "add"

MCPlans == {[Plan0 EXCEPT !.top = t * Unit, !.first = f * Unit, !.min = l[1] * Unit, !.max = l[2] * Unit,
                          !.precise = p] :
               t \in 20 .. 32, f \in {2, 4, 6}, p \in BOOLEAN,
               l \in {<<2, 6>>, <<4, 4>>, <<3, 5>>, <<2, 3>>, <<5, 6>>, <<5, 3>>}}

-----------------------------------------------------------------------------
(* Templates with their meaning, put together from the end: r is the text    *)
(* that follows, b a branch and t the branches that follow.                 *)

Nothing == [tokens |-> <<>>, meaning |-> <<>>]
Text(n, r) == [tokens |-> <<<<"text", n>>>> \o r.tokens, meaning |-> <<<<"text", n>>>> \o r.meaning]
Line(n) == Text(n, Nothing)
Value(n, r) == [tokens |-> <<<<"value", n>>>> \o r.tokens, meaning |-> <<<<"text", n>>>> \o r.meaning]
Unpaired(bracket, r) == [tokens |-> <<<<bracket, 0>>>> \o r.tokens, meaning |-> <<<<bracket, 0>>>> \o r.meaning]
Bracket(b, r) == LET shut == <<<<"open", 0>>>> \o b.tokens \o <<<<"close", 0>>>>
                 IN  [tokens |-> shut \o r.tokens, meaning |-> shut \o r.meaning]
End(r) == [tokens |-> <<<<"endif", FALSE>>>> \o r.tokens, other |-> <<>>, after |-> r]
Else(b, t) == [t EXCEPT !.tokens = <<<<"else", FALSE>>>> \o b.tokens \o @, !.other = b.meaning]
Elsif(d, b, t) == [t EXCEPT !.tokens = <<<<"elsif", d>>>> \o b.tokens \o @,
                            !.other = IF d THEN b.meaning ELSE @]
If(c, b, t) == [tokens |-> <<<<"if", c>>>> \o b.tokens \o t.tokens,
                meaning |-> (IF c THEN b.meaning ELSE t.other) \o t.after.meaning]

Lines == {Nothing} \cup {Line(n) : n \in 1 .. 6}
Ends == {End(Nothing), End(Line(1))}
Elses == {Else(Line(2), t) : t \in Ends}
Elsifs == {Elsif(d, Line(3), t) : d \in BOOLEAN, t \in Ends \cup Elses}
Longer == {Elsif(d, Line(4), t) : d \in BOOLEAN, t \in Elsifs}
Simple == {If(c, b, t) : c \in BOOLEAN, b \in {Nothing, Line(5)}, t \in Ends \cup Elses \cup Elsifs}
          \cup {If(c, Line(5), t) : c \in BOOLEAN, t \in Longer}
Mixed == {Text(6, a) : a \in Simple} \cup {If(c, Line(5), End(a)) : c \in BOOLEAN, a \in Simple}
Final == {End(Line(6))}
Nesting == {Else(b, t) : b \in Simple, t \in Final} \cup {Elsif(d, b, t) : d \in BOOLEAN, b \in Simple, t \in Final}
Nested == {If(c, b, t) : c \in BOOLEAN, b \in Simple, t \in Final \cup {Else(Line(4), End(Line(6)))}}
          \cup {If(c, Line(3), t) : c \in BOOLEAN, t \in Nesting}

Deep == {If(c, If(d, If(e, Line(5), End(Nothing)), End(Line(6))), t) :
            c \in BOOLEAN, d \in BOOLEAN, e \in BOOLEAN, t \in Final \cup {Else(Line(4), End(Line(6)))}}

Values == {Value(n, Nothing) : n \in 1 .. 2}
Bracketings == {Bracket(b, r) : b \in Values \cup {If(c, Line(5), t) : c \in BOOLEAN, t \in Ends},
                                r \in {Nothing} \cup Values}
Doubled == {Bracket(b, r) : b \in Bracketings, r \in Lines}
Unclosed == {Unpaired("open", r) : r \in {Line(5)} \cup Values \cup Bracketings}
Shut == {Unpaired("close", r) : r \in {Nothing} \cup Values}
Enclosed == Values \cup Bracketings \cup Doubled \cup Unclosed \cup Shut
InIfs == {If(c, b, t) : c \in BOOLEAN, b \in Bracketings \cup Unclosed \cup Values,
                        t \in {End(a) : a \in Shut} \cup {Else(Line(2), End(Nothing))}}

Closed == Lines \cup Simple \cup Mixed \cup Nested \cup Deep \cup Enclosed \cup InIfs
Partial == Ends \cup Elses \cup Elsifs \cup Longer \cup {End(a) : a \in Simple} \cup Final
           \cup Nesting \cup {Else(Line(4), End(Line(6)))} \cup {End(a) : a \in Shut}

Meanings ==
    LET all == Closed
    IN  [w \in {r.tokens : r \in all} |-> (CHOOSE r \in all : r.tokens = w).meaning] @@ <<>>
Alternatives ==
    LET all == Partial
    IN  [w \in {t.tokens : t \in all} |-> (CHOOSE t \in all : t.tokens = w).other] @@ <<>>
Continuations ==
    LET all == Partial
    IN  [w \in {t.tokens : t \in all} |-> (CHOOSE t \in all : t.tokens = w).after.tokens] @@ <<>>

\* Some with an {if} or {endif} left out, or an {endif} outside the brackets of
\* its {if}, and some with text that is not ASCII.
Foreign == <<<<"utf8", 0>>>>
Torn == {<<<<"open", 0>>, <<"if", c>>, <<"close", 0>>>> \o Foreign \o <<<<"endif", FALSE>>>> : c \in BOOLEAN}
Macros == {a.tokens : a \in Closed} \cup {Tail(a.tokens) : a \in Simple} \cup {Front(a.tokens) : a \in Simple}
          \cup Torn \cup {<<<<"if", c>>>> \o w \o <<<<"endif", FALSE>>>> \o Foreign : c \in BOOLEAN, w \in Torn}

\* Each evaluated once.
MCTemplates == Macros
MCMeaning == Meanings
MCOther == Alternatives
MCAfter == Continuations

-----------------------------------------------------------------------------
PartsInit ==
    /\ part \in {"gcode", "plater", "inventory", "cooling", "camera", "regions", "shells",
                "plan", "template"}
    /\ IF part = "gcode" THEN TRUE ELSE settings = Base
    /\ Init
    /\ IF part = "plater" THEN TRUE
       ELSE bed = [x0 |-> 0, y0 |-> 0, x1 |-> 8, y1 |-> 8] /\ gap = 1 /\ boxes = <<>>
    /\ ArrangeInit
    /\ IF part = "inventory" THEN TRUE ELSE inv = [filaments |-> <<>>, spools |-> <<>>]
    /\ InventoryInit
    /\ IF part = "cooling" THEN TRUE ELSE fans = Fan0
    /\ CoolingInit
    /\ IF part = "camera" THEN TRUE ELSE wire = Lefts(OneSending)[1].bytes
    /\ ReaderInit
    /\ IF part = "regions" THEN SlicingInit ELSE NoRegions
    /\ IF part = "shells" THEN ShellsInit ELSE NoShells
    /\ IF part = "plan" THEN PlanInit ELSE NoPlan
    /\ IF part = "template" THEN TRUE ELSE template = <<>>
    /\ TemplateInit

PartsNext ==
    \/ part = "gcode" /\ Next
       /\ UNCHANGED <<part, arrangement, store, cooling, reading, slicing, shelling, planning, expanding>>
    \/ part = "plater" /\ Arrange
       /\ UNCHANGED <<part, vars, store, cooling, reading, slicing, shelling, planning, expanding>>
    \/ part = "inventory" /\ InventoryNext
       /\ UNCHANGED <<part, vars, arrangement, cooling, reading, slicing, shelling, planning, expanding>>
    \/ part = "cooling" /\ CoolingNext
       /\ UNCHANGED <<part, vars, arrangement, store, reading, slicing, shelling, planning, expanding>>
    \/ part = "camera" /\ ReaderNext
       /\ UNCHANGED <<part, vars, arrangement, store, cooling, slicing, shelling, planning, expanding>>
    \/ part = "regions" /\ Slicing
       /\ UNCHANGED <<part, vars, arrangement, store, cooling, reading, shelling, planning, expanding>>
    \/ part = "shells" /\ Shelling
       /\ UNCHANGED <<part, vars, arrangement, store, cooling, reading, slicing, planning, expanding>>
    \/ part = "plan" /\ Planning
       /\ UNCHANGED <<part, vars, arrangement, store, cooling, reading, slicing, shelling, expanding>>
    \/ part = "template" /\ Expand
       /\ UNCHANGED <<part, vars, arrangement, store, cooling, reading, slicing, shelling, planning>>

parts == <<part, vars, arrangement, store, cooling, reading, slicing, shelling, planning, expanding>>

PartsSpec == PartsInit /\ [][PartsNext]_parts
=============================================================================
