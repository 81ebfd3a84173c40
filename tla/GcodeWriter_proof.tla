-------------------------- MODULE GcodeWriter_proof --------------------------
(***************************************************************************)
(* Proofs about the G-code writer.  Between two actions the nozzle is      *)
(* never on its hop: every travel that lifts is followed by the unretract  *)
(* of its path.  So the machine is where the writer believes it to be, at  *)
(* the top of the layer but for the prime tower; and the order of the      *)
(* features says which tool the walls meet.                                *)
(* Then the part fan, put into the written lines by a second pass: what it *)
(* believes of the fan is right wherever plastic is laid.                  *)
(* Last the macros of the printer: what is out and what is still to come   *)
(* are together what the macro means, {if} within {if}.                    *)
(***************************************************************************)
EXTENDS GcodeWriter, PartCooling, Template,
        FiniteSetTheorems, SequenceTheorems, WellFoundedInduction, TLAPS

Pen == [z : Int, up : Int, lifted : Nat, toLift : Nat, retracted : Nat, tool : Nat,
        placed : BOOLEAN, forces : BOOLEAN, support : BOOLEAN]

\* The nozzle is not on its hop and where the writer believes it to be.
Level(p) == p.lifted = 0 /\ p.up = p.z

\* What the next line needs of the writer's state.
Ready(s, p) == p \in Pen /\ Level(p) /\ p.retracted <= s.retraction

\* q is p moved nowhere, whatever was pulled back or is owed.
Stays(p, q) == q.z = p.z /\ q.tool = p.tool

-----------------------------------------------------------------------------
(* The writer's moves *)

\* The settings the moves look at are numbers (SliceSettings).
LEMMA LengthsTyped ==
    ASSUME NEW s \in Settings
    PROVE  /\ s.retraction \in Nat /\ s.hop \in Nat /\ s.towerLift \in Nat /\ s.hopBelow \in Int
           /\ s.wall \in Nat /\ s.sparse \in Nat /\ s.solid \in Nat
           /\ s.support \in Nat /\ s.interface \in Nat /\ s.objects \in Nat
           /\ s.regions \in Seq(Filaments) /\ s.map \in Seq(Nat \ {0})
BY SettingsAssumption DEF Filaments

\* Tools are numbered from 1, whatever filament_map holds
\* (tool_command_for_filament).
LEMMA ToolsCounted ==
    ASSUME NEW s \in Settings, NEW f \in Nat
    PROVE  Tool(s, f) \in Nat \ {0}
<1>1. s.map \in Seq(Nat \ {0})
  BY LengthsTyped
<1>2. CASE f \in 1 .. Len(s.map)
  BY <1>1, <1>2, ElementOfSeq DEF Tool
<1>3. CASE s.map # <<>> /\ f = 0
  <2>1. 1 \in 1 .. Len(s.map)
    BY <1>1, <1>3, EmptySeq
  <2> QED BY <1>1, <1>3, <2>1, ElementOfSeq DEF Tool
<1> QED BY <1>2, <1>3 DEF Tool

\* A retraction on the level pulls back to the length set at most and leaves
\* the nozzle there (emit_retract_e, queue_lift).
LEMMA Retracts ==
    ASSUME NEW s \in Settings, NEW p, Ready(s, p)
    PROVE  Ready(s, Retract(s, p)) /\ Stays(p, Retract(s, p))
<1> USE LengthsTyped DEF Ready, Pen, Level
<1> DEFINE missing == IF p.retracted < s.retraction THEN s.retraction - p.retracted ELSE 0
           q == [p EXCEPT !.retracted = @ + missing]
<1>1. Ready(s, q) /\ Stays(p, q)
  <2>1. p.retracted + missing \in Nat /\ p.retracted + missing <= s.retraction
    OBVIOUS
  <2> HIDE DEF missing
  <2> QED BY <2>1 DEF Stays
<1> HIDE DEF q
<1>2. Ready(s, QueueLift(s, q)) /\ Stays(q, QueueLift(s, q))
  <2>1. Ready(s, [q EXCEPT !.toLift = s.hop]) /\ Stays(q, [q EXCEPT !.toLift = s.hop])
    BY <1>1 DEF Stays
  <2>2. QueueLift(s, q) \in {q, [q EXCEPT !.toLift = s.hop]}
    BY DEF QueueLift
  <2> QED BY <1>1, <2>1, <2>2 DEF Stays
<1>3. Retract(s, p) \in {p, QueueLift(s, q)}
  BY DEF Retract, q
<1> QED BY <1>1, <1>2, <1>3 DEF Stays

\* Unretracting undoes the hop, if there was one (unlift, unretract).
LEMMA Unretracts ==
    ASSUME NEW s \in Settings, NEW p \in Pen, p.lifted = 0 => p.up = p.z
    PROVE  LET q == Unretract(p)
           IN  Ready(s, q) /\ q.z = p.z - p.lifted /\ q.retracted = 0 /\ q.tool = p.tool
<1> DEFINE u == Unlift(p)
<1>1. u \in Pen /\ Level(u) /\ u.z = p.z - p.lifted /\ u.tool = p.tool
  <2>1. CASE p.lifted = 0
    BY <2>1 DEF Unlift, Pen, Level
  <2>2. CASE p.lifted # 0
    <3> DEFINE z == p.z - p.lifted
               q == [p EXCEPT !.z = z, !.up = z]
    <3>1. q \in Pen /\ q.up = q.z /\ q.z = p.z - p.lifted /\ q.tool = p.tool
      <4>1. z \in Int
        BY DEF Pen
      <4> HIDE DEF z
      <4>2. q \in Pen /\ q.up = z /\ q.z = z /\ q.tool = p.tool
        BY <4>1 DEF Pen
      <4> QED BY <4>2 DEF z
    <3>2. u = [q EXCEPT !.lifted = 0, !.toLift = 0]
      BY <2>2 DEF Unlift
    <3> HIDE DEF q, u
    <3> QED BY <3>1, <3>2 DEF Pen, Level
  <2> QED BY <2>1, <2>2
<1>2. Unretract(p) = [u EXCEPT !.retracted = 0]
  BY DEF Unretract
<1> HIDE DEF u
<1>3. s.retraction \in Nat
  BY LengthsTyped
<1>4. Unretract(p) \in Pen /\ Level(Unretract(p)) /\ Unretract(p).z = u.z
      /\ Unretract(p).retracted = 0 /\ Unretract(p).tool = u.tool
  BY <1>1, <1>2 DEF Pen, Level
<1> QED BY <1>1, <1>3, <1>4 DEF Ready

\* After the travel to a path and the unretract before it, whether it hopped
\* or not, the nozzle is where it was and the filament primed (travel_to).
LEMMA TravelsBack ==
    ASSUME NEW s \in Settings, NEW p, Ready(s, p),
           NEW far \in BOOLEAN, NEW inside \in BOOLEAN, NEW told \in BOOLEAN
    PROVE  LET q == Unretract(TravelTo(s, p, far, inside, told))
           IN  Ready(s, q) /\ Stays(p, q) /\ q.retracted = 0
<1> DEFINE r == IF far /\ (p.forces \/ ~inside) THEN Retract(s, p) ELSE p
           t == TravelTo(s, p, far, inside, told)
<1>1. Ready(s, r) /\ Stays(p, r)
  BY Retracts DEF Stays
<1>2. t = Travelled(p) \/ t = Travelled(LazyLift(r, told))
  BY DEF TravelTo
<1>3. /\ Travelled(p) \in Pen /\ Travelled(p).lifted = 0 /\ Travelled(p).up = Travelled(p).z
      /\ Stays(p, Travelled(p))
  BY DEF Travelled, Ready, Pen, Level, Stays
<1>4. LET u == Travelled(LazyLift(r, told))
      IN  /\ u \in Pen
          /\ u.lifted = 0 => u.up = u.z
          /\ u.z - u.lifted = r.z
          /\ u.tool = r.tool
  <2> DEFINE l == LazyLift(r, told)
  <2> HIDE DEF r
  <2>1. l \in Pen /\ (l.lifted = 0 => l.up = l.z) /\ l.z - l.lifted = r.z /\ l.tool = r.tool
    <3>1. CASE r.toLift = 0
      BY <1>1, <3>1 DEF LazyLift, Ready, Pen, Level
    <3>2. CASE r.toLift # 0
      <4> DEFINE z == r.z + r.toLift
                 up == IF told THEN z ELSE r.up
                 k == [r EXCEPT !.toLift = 0, !.lifted = r.toLift]
      <4>0. z \in Int /\ r \in Pen
        BY <1>1 DEF Ready, Pen
      <4>1. up \in Int /\ k \in Pen /\ k.lifted = r.toLift /\ k.tool = r.tool
        <5> HIDE DEF z
        <5>1. k \in Pen /\ k.lifted = r.toLift /\ k.tool = r.tool
          BY <4>0 DEF Pen
        <5>2. up \in Int
          BY <4>0 DEF Pen
        <5> QED BY <5>1, <5>2
      <4>2. l = [k EXCEPT !.z = z, !.up = up]
        BY <3>2 DEF LazyLift
      <4> HIDE DEF k, l, up, z
      <4>3. l \in Pen /\ l.z = z /\ l.lifted = r.toLift /\ l.tool = r.tool
        BY <4>0, <4>1, <4>2 DEF Pen
      <4> QED BY <1>1, <3>2, <4>3 DEF z, Ready, Pen
    <3> QED BY <3>1, <3>2
  <2> DEFINE up == IF l.lifted > 0 THEN l.z ELSE l.up
             u == [l EXCEPT !.up = up, !.placed = TRUE]
  <2>2. u = Travelled(l)
    BY DEF Travelled
  <2> HIDE DEF l
  <2>3. up \in Int /\ (l.lifted = 0 => up = l.up)
    BY <2>1 DEF Pen
  <2>4. u \in Pen /\ u.up = up /\ u.z = l.z /\ u.lifted = l.lifted /\ u.tool = l.tool
    <3> HIDE DEF up
    <3> QED BY <2>1, <2>3 DEF Pen
  <2> HIDE DEF u, up
  <2> QED BY <2>1, <2>2, <2>3, <2>4 DEF l
<1>5. /\ t \in Pen
      /\ t.lifted = 0 => t.up = t.z
      /\ t.z - t.lifted = p.z
      /\ t.tool = p.tool
  <2> HIDE DEF t, r
  <2>1. CASE t = Travelled(p)
    BY <1>3, <2>1 DEF Stays, Ready, Pen
  <2>2. CASE t = Travelled(LazyLift(r, told))
    BY <1>1, <1>4, <2>2 DEF Stays
  <2> QED BY <1>2, <2>1, <2>2
<1> HIDE DEF t
<1>6. Ready(s, Unretract(t)) /\ Stays(p, Unretract(t)) /\ Unretract(t).retracted = 0
  BY <1>5, Unretracts DEF Stays
<1> QED BY <1>6 DEF t

\* A change of tool is made on the spot (emit_toolchange).
LEMMA Toolchanges ==
    ASSUME NEW s \in Settings, NEW p, Ready(s, p), NEW f \in Nat
    PROVE  LET q == Toolchange(s, p, f)
           IN  Ready(s, q) /\ q.z = p.z /\ q.tool = Tool(s, f)
<1>1. Tool(s, f) \in Nat
  BY ToolsCounted
<1>2. ASSUME NEW r, Ready(s, r), r.z = p.z
      PROVE  LET q == [r EXCEPT !.tool = Tool(s, f)]
             IN  Ready(s, q) /\ q.z = p.z /\ q.tool = Tool(s, f)
  BY <1>1, <1>2 DEF Ready, Pen, Level
<1>3. ASSUME NEW q, Ready(s, q), q.z = p.z, q.tool = Tool(s, f)
      PROVE  Ready(s, Unretract(q)) /\ Unretract(q).z = p.z /\ Unretract(q).tool = Tool(s, f)
  BY <1>3, Unretracts DEF Ready, Pen, Level
<1>4. Ready(s, Retract(s, p)) /\ Retract(s, p).z = p.z
  BY Retracts DEF Stays
<1> QED BY <1>2, <1>3, <1>4 DEF Toolchange

-----------------------------------------------------------------------------
(* The order of a layer *)

Roles == {"Skirt", "Brim", "Lift", "PrimeTower", "Lower", "Support", "SupportInterface",
          "SupportIroning", "WallTool", "OuterWall", "InnerWall", "GapInfill",
          "SparseInfill", "SolidInfill", "Ironing"}
Slots == [role : Roles, filament : Nat, how : {"keep", "call", "region"}]

\* A wall that is printed with whatever tool is there, though it has a filament.
Trusts(slot) == slot.how = "keep" /\ slot.filament # 0 /\ slot.role # "WallTool"

\* The tower is between its moves up and down, and a wall that trusts the tool
\* follows another or the return to the filament of the walls, unless the
\* infill comes first.
Follows(a, b, infillFirst) ==
    /\ a.role = "Lift" <=> b.role = "PrimeTower"
    /\ a.role = "PrimeTower" <=> b.role = "Lower"
    /\ Trusts(b) /\ ~infillFirst => a.role = "WallTool" \/ Trusts(a)

\* A part of a layer whose features follow one another.
Ordered(list, infillFirst) ==
    \A i \in 1 .. Len(list) - 1 : Follows(list[i], list[i + 1], infillFirst)

\* The features of s: a wall that trusts the tool is of the filament of the walls.
Features(s) == {slot \in Slots : Trusts(slot) => slot.filament = s.wall}

\* A part of the layer of s.
PartOfLayer(s, list, infillFirst) ==
    list \in Seq(Features(s)) /\ list # <<>> /\ Ordered(list, infillFirst)

\* Neighbours in c, which is a and then b, are neighbours in a, in b or meet
\* where they join.
Neighbours(a, b, c) ==
    \A i \in 1 .. Len(c) - 1 :
       \/ i \in 1 .. Len(a) - 1 /\ c[i] = a[i] /\ c[i + 1] = a[i + 1]
       \/ c[i] = a[Len(a)] /\ c[i + 1] = b[1]
       \/ \E j \in 1 .. Len(b) - 1 : c[i] = b[j] /\ c[i + 1] = b[j + 1]

\* The elements of two sequences, one after the other.
LEMMA Joined ==
    ASSUME NEW S, NEW a \in Seq(S), NEW b \in Seq(S), a # <<>>, b # <<>>
    PROVE  /\ a \o b \in Seq(S) /\ a \o b # <<>>
           /\ (a \o b)[1] = a[1] /\ (a \o b)[Len(a \o b)] = b[Len(b)]
           /\ Neighbours(a, b, a \o b)
<1>1. Len(a) \in Nat \ {0} /\ Len(b) \in Nat \ {0}
  BY EmptySeq
<1>2. a \o b \in Seq(S) /\ Len(a \o b) = Len(a) + Len(b)
      /\ \A i \in 1 .. Len(a) + Len(b) : (a \o b)[i] = IF i <= Len(a) THEN a[i] ELSE b[i - Len(a)]
  BY ConcatProperties
<1> DEFINE c == a \o b
           m == Len(a)
           n == Len(b)
<1> HIDE DEF c, m, n
<1>3. m \in Nat \ {0} /\ n \in Nat \ {0} /\ Len(c) = m + n
      /\ \A i \in 1 .. m + n : c[i] = IF i <= m THEN a[i] ELSE b[i - m]
  BY <1>1, <1>2 DEF c, m, n
<1>4. c[1] = a[1]
  BY <1>3
<1>5. c[m + n] = b[n]
  <2>1. m + n \in 1 .. m + n /\ ~(m + n <= m) /\ (m + n) - m = n
    BY <1>3
  <2> QED BY <1>3, <2>1
<1>6. ASSUME NEW i \in 1 .. m + n - 1
      PROVE  \/ i \in 1 .. m - 1 /\ c[i] = a[i] /\ c[i + 1] = a[i + 1]
             \/ c[i] = a[m] /\ c[i + 1] = b[1]
             \/ \E j \in 1 .. n - 1 : c[i] = b[j] /\ c[i + 1] = b[j + 1]
  <2>0. i \in 1 .. m + n /\ i + 1 \in 1 .. m + n
    BY <1>3
  <2>1. CASE i < m
    BY <1>3, <2>0, <2>1
  <2>2. CASE i = m
    <3>1. (i + 1) - m = 1 /\ ~(i + 1 <= m)
      BY <1>3, <2>2
    <3> QED BY <1>3, <2>0, <2>2, <3>1
  <2>3. CASE i > m
    <3> DEFINE j == i - m
    <3>1. j \in 1 .. n - 1 /\ (i + 1) - m = j + 1 /\ ~(i <= m) /\ ~(i + 1 <= m)
      BY <1>3, <2>3
    <3>2. c[i] = b[j] /\ c[i + 1] = b[(i + 1) - m]
      BY <1>3, <2>0, <3>1
    <3> QED BY <3>1, <3>2
  <2> QED BY <1>3, <2>1, <2>2, <2>3
<1> QED BY <1>2, <1>3, <1>4, <1>5, <1>6, EmptySeq, SMTT(30) DEF Neighbours, c, m, n

\* The first and the last feature of a list.
Ends(list, first, last) == list[1] = first /\ list[Len(list)] = last

\* Two parts make one, if the first feature of the second follows the last of
\* the first.
LEMMA PartsJoin ==
    ASSUME NEW s \in Settings, NEW a, NEW b, NEW infillFirst \in BOOLEAN,
           PartOfLayer(s, a, infillFirst), PartOfLayer(s, b, infillFirst),
           Follows(a[Len(a)], b[1], infillFirst)
    PROVE  /\ PartOfLayer(s, a \o b, infillFirst)
           /\ Ends(a \o b, a[1], b[Len(b)])
<1> DEFINE c == a \o b
<1>1. a \in Seq(Features(s)) /\ b \in Seq(Features(s)) /\ a # <<>> /\ b # <<>>
  BY DEF PartOfLayer
<1>2. /\ c \in Seq(Features(s)) /\ c # <<>> /\ c[1] = a[1] /\ c[Len(c)] = b[Len(b)]
      /\ Neighbours(a, b, c)
  BY <1>1, Joined, Zenon
<1> HIDE DEF c
<1>3. Ordered(c, infillFirst)
  BY <1>2 DEF PartOfLayer, Ordered, Neighbours
<1>4. PartOfLayer(s, c, infillFirst)
  BY <1>2, <1>3 DEF PartOfLayer
<1> QED BY <1>2, <1>4 DEF c, Ends

\* Features any of which may follow any other make a part in whatever order.
LEMMA AnyOrder ==
    ASSUME NEW s \in Settings, NEW infillFirst \in BOOLEAN, NEW K \in SUBSET Features(s),
           NEW list \in Seq(K), list # <<>>,
           \A a, b \in K : Follows(a, b, infillFirst)
    PROVE  PartOfLayer(s, list, infillFirst) /\ list[1] \in K /\ list[Len(list)] \in K
<1>1. Len(list) \in Nat \ {0}
  BY EmptySeq
<1>2. \A i \in 1 .. Len(list) : list[i] \in K
  BY ElementOfSeq
<1>3. list \in Seq(Features(s))
  OBVIOUS
<1>4. Ordered(list, infillFirst)
  <2> SUFFICES ASSUME NEW i \in 1 .. Len(list) - 1
               PROVE  Follows(list[i], list[i + 1], infillFirst)
    BY DEF Ordered
  <2>1. i \in 1 .. Len(list) /\ i + 1 \in 1 .. Len(list)
    BY <1>1
  <2> QED BY <1>2, <2>1
<1>5. 1 \in 1 .. Len(list) /\ Len(list) \in 1 .. Len(list)
  BY <1>1
<1> QED BY <1>2, <1>3, <1>4, <1>5 DEF PartOfLayer

\* Features but those of the tower; and of them the ones that do not trust the
\* tool they find.
Plain(s) == {slot \in Features(s) : slot.role \notin {"Lift", "PrimeTower", "Lower"}}
Quiet(s) == {slot \in Plain(s) : ~Trusts(slot)}

\* A feature with no filament of its own, or that calls for its tool.
LEMMA QuietSlots ==
    ASSUME NEW s \in Settings, NEW role \in Roles, role \notin {"Lift", "PrimeTower", "Lower"},
           NEW filament \in Nat, NEW how \in {"keep", "call", "region"},
           how = "keep" /\ role # "WallTool" => filament = 0
    PROVE  Slot(role, filament, how) \in Quiet(s)
<1> DEFINE slot == Slot(role, filament, how)
<1>1. slot \in Slots /\ slot.role = role /\ slot.filament = filament /\ slot.how = how
  BY DEF Slot, Slots
<1> HIDE DEF slot
<1>2. slot \in Quiet(s)
  BY <1>1 DEF Features, Trusts, Plain, Quiet
<1> QED BY <1>2 DEF slot

\* Skirt to wall tool, with the tower or without (writer.rs: a layer's start).
LEMMA WallToolIsCalled ==
    ASSUME NEW s \in Settings, NEW tower \in BOOLEAN, NEW infillFirst \in BOOLEAN
    PROVE  LET list == BeforeWalls(s, tower)
           IN  /\ PartOfLayer(s, list, infillFirst)
               /\ list[1] \in Quiet(s)
               /\ list[Len(list)] \in Quiet(s) /\ list[Len(list)].role = "WallTool"
<1> DEFINE opening == <<Slot("Skirt", 0, "keep"), Slot("Brim", 0, "keep")>>
           around == <<Slot("Lift", 0, "keep"), Slot("PrimeTower", 0, "keep"), Slot("Lower", 0, "keep")>>
           rest == <<Slot("Support", s.support, IF s.support > 0 THEN "call" ELSE "keep"),
                     Slot("SupportInterface", s.interface, IF s.interface > 0 THEN "call" ELSE "keep"),
                     Slot("SupportIroning", 0, "keep"),
                     Slot("WallTool", s.wall, "keep")>>
<1>1. \A a, b \in Quiet(s) : Follows(a, b, infillFirst)
  BY DEF Quiet, Plain, Follows
<1>2. PartOfLayer(s, opening, infillFirst) /\ opening[1] \in Quiet(s) /\ opening[Len(opening)] \in Quiet(s)
  <2>1. Slot("Skirt", 0, "keep") \in Quiet(s) /\ Slot("Brim", 0, "keep") \in Quiet(s)
    BY QuietSlots DEF Roles
  <2>2. opening \in Seq(Quiet(s)) /\ opening # <<>>
    BY <2>1
  <2> HIDE DEF opening
  <2> QED BY <1>1, <2>2, AnyOrder DEF Quiet, Plain
<1>3. PartOfLayer(s, rest, infillFirst) /\ rest[1] \in Quiet(s)
      /\ rest[Len(rest)] \in Quiet(s) /\ rest[Len(rest)].role = "WallTool"
  <2> DEFINE support == Slot("Support", s.support, IF s.support > 0 THEN "call" ELSE "keep")
             interface == Slot("SupportInterface", s.interface,
                               IF s.interface > 0 THEN "call" ELSE "keep")
             ironing == Slot("SupportIroning", 0, "keep")
             tool == Slot("WallTool", s.wall, "keep")
  <2>1. ASSUME NEW role \in {"Support", "SupportInterface"}, NEW filament \in Nat
        PROVE  Slot(role, filament, IF filament > 0 THEN "call" ELSE "keep") \in Quiet(s)
    <3>1. CASE filament > 0
      BY <3>1, QuietSlots DEF Roles
    <3>2. CASE filament = 0
      BY <3>2, QuietSlots DEF Roles
    <3>3. filament > 0 \/ filament = 0
      OBVIOUS
    <3> QED BY <3>1, <3>2, <3>3, Zenon
  <2>2. support \in Quiet(s) /\ interface \in Quiet(s)
    BY <2>1, LengthsTyped
  <2>3. ironing \in Quiet(s) /\ tool \in Quiet(s)
    BY QuietSlots, LengthsTyped DEF Roles
  <2>0. rest = <<support, interface, ironing, tool>> /\ tool.role = "WallTool"
    BY DEF Slot
  <2> HIDE DEF support, interface, ironing, tool, rest
  <2>4. rest \in Seq(Quiet(s)) /\ rest # <<>> /\ rest[Len(rest)].role = "WallTool"
    <3>1. rest \in Seq(Quiet(s)) /\ Len(rest) = 4 /\ rest[4] = tool
      BY <2>0, <2>2, <2>3
    <3> QED BY <2>0, <3>1, EmptySeq
  <2> QED BY <1>1, <2>4, AnyOrder DEF Quiet, Plain
<1>4. /\ PartOfLayer(s, around, infillFirst)
      /\ around[1].role = "Lift" /\ around[Len(around)].role = "Lower"
      /\ ~Trusts(around[1])
  <2> DEFINE up == Slot("Lift", 0, "keep")
             here == Slot("PrimeTower", 0, "keep")
             down == Slot("Lower", 0, "keep")
  <2>0. /\ up \in Slots /\ up.role = "Lift" /\ up.filament = 0
        /\ here \in Slots /\ here.role = "PrimeTower" /\ here.filament = 0
        /\ down \in Slots /\ down.role = "Lower" /\ down.filament = 0
    BY DEF Slot, Slots, Roles
  <2>3. around = <<up, here, down>>
    OBVIOUS
  <2> HIDE DEF up, here, down, around
  <2>1. /\ up \in Features(s) /\ here \in Features(s) /\ down \in Features(s)
        /\ ~Trusts(up) /\ ~Trusts(here) /\ ~Trusts(down)
    BY <2>0 DEF Features, Trusts
  <2>2. Follows(up, here, infillFirst) /\ Follows(here, down, infillFirst)
    BY <2>0, <2>1 DEF Follows
  <2>4. around \in Seq(Features(s)) /\ around # <<>>
        /\ Len(around) = 3 /\ around[1] = up /\ around[2] = here /\ around[3] = down
    BY <2>1, <2>3
  <2>5. Ordered(around, infillFirst)
    BY <2>2, <2>4 DEF Ordered
  <2> QED BY <2>0, <2>1, <2>4, <2>5 DEF PartOfLayer
<1>5. BeforeWalls(s, tower) = opening \o (IF tower THEN around ELSE <<>>) \o rest
  BY DEF BeforeWalls
<1> HIDE DEF opening, around, rest
<1>6. CASE tower
  <2>1. Follows(opening[Len(opening)], around[1], infillFirst)
    BY <1>2, <1>4 DEF Follows, Quiet, Plain
  <2>2. /\ PartOfLayer(s, opening \o around, infillFirst)
        /\ Ends(opening \o around, opening[1], around[Len(around)])
    BY <1>2, <1>4, <2>1, PartsJoin
  <2>3. Follows(around[Len(around)], rest[1], infillFirst)
    BY <1>3, <1>4 DEF Follows, Quiet, Plain
  <2> DEFINE begin == opening \o around
  <2>4. BeforeWalls(s, tower) = begin \o rest
    BY <1>5, <1>6
  <2> HIDE DEF begin
  <2>5. PartOfLayer(s, begin, infillFirst) /\ Ends(begin, opening[1], around[Len(around)])
    BY <2>2 DEF begin
  <2>6. Follows(begin[Len(begin)], rest[1], infillFirst)
    BY <2>3, <2>5 DEF Ends
  <2>7. PartOfLayer(s, begin \o rest, infillFirst) /\ Ends(begin \o rest, begin[1], rest[Len(rest)])
    BY <1>3, <2>5, <2>6, PartsJoin
  <2> QED BY <1>2, <1>3, <2>4, <2>5, <2>7 DEF Ends
<1>7. CASE ~tower
  <2>1. BeforeWalls(s, tower) = opening \o rest
    BY <1>2, <1>5, <1>7, ConcatEmptySeq DEF PartOfLayer
  <2>2. Follows(opening[Len(opening)], rest[1], infillFirst)
    BY <1>1, <1>2, <1>3
  <2>3. PartOfLayer(s, opening \o rest, infillFirst) /\ Ends(opening \o rest, opening[1], rest[Len(rest)])
    BY <1>2, <1>3, <2>2, PartsJoin
  <2> QED BY <1>2, <1>3, <2>1, <2>3 DEF Ends
<1> QED BY <1>6, <1>7

\* The walls of a region: those of a layer with one region trust the tool.
LEMMA WallsInOrder ==
    ASSUME NEW s \in Settings, NEW filament \in Nat, NEW how \in {"keep", "region"},
           how = "keep" => filament = s.wall,
           NEW K, K = {slot \in Plain(s) : slot.how = how /\ slot.filament = filament}
    PROVE  WallSlots(s, filament, how) \in Seq(K) /\ WallSlots(s, filament, how) # <<>>
<1> DEFINE outer == Slot("OuterWall", filament, how)
           inner == Slot("InnerWall", filament, how)
           gap == Slot("GapInfill", filament, how)
<1>1. ASSUME NEW role \in {"OuterWall", "InnerWall", "GapInfill"}
      PROVE  Slot(role, filament, how) \in K
  BY DEF Slot, Slots, Roles, Features, Trusts, Plain
<1>2. outer \in K /\ inner \in K /\ gap \in K
  BY <1>1
<1>3. WallSlots(s, filament, how) \in
          {(<<outer>> \o <<inner>>) \o <<gap>>, (<<inner>> \o <<outer>>) \o <<gap>>,
           (<<inner>> \o <<outer>> \o <<inner>>) \o <<gap>>}
  BY DEF WallSlots
<1> HIDE DEF outer, inner, gap
<1>4. \A list \in Seq(K) : list \o <<gap>> \in Seq(K) /\ list \o <<gap>> # <<>>
  BY <1>2
<1>5. <<outer>> \o <<inner>> \in Seq(K) /\ <<inner>> \o <<outer>> \in Seq(K)
      /\ <<inner>> \o <<outer>> \o <<inner>> \in Seq(K)
  BY <1>2
<1> QED BY <1>3, <1>4, <1>5

\* Infill calls for its tool.
LEMMA InfillCalls ==
    ASSUME NEW s \in Settings, NEW sparse \in Nat, NEW solid \in Nat
    PROVE  InfillSlots(sparse, solid) \in Seq(Quiet(s)) /\ InfillSlots(sparse, solid) # <<>>
<1> DEFINE a == Slot("SparseInfill", sparse, "region")
           b == Slot("SolidInfill", solid, "region")
<1>1. a \in Quiet(s) /\ b \in Quiet(s)
  BY QuietSlots DEF Roles
<1>2. InfillSlots(sparse, solid) = <<a, b>>
  BY DEF InfillSlots
<1> HIDE DEF a, b
<1> QED BY <1>1, <1>2

\* A region's own filaments.
LEMMA RegionsTyped ==
    ASSUME NEW s \in Settings, Len(s.regions) = 2, NEW i \in {1, 2}
    PROVE  /\ s.regions[i].wall \in Nat
           /\ s.regions[i].sparse \in Nat
           /\ s.regions[i].solid \in Nat
<1>1. s.regions[i] \in Filaments
  BY LengthsTyped, ElementOfSeq
<1> QED BY <1>1 DEF Filaments

\* The walls of a layer are all of one kind: each calls for its tool, or all
\* trust the one they find to be that of the walls.
LEMMA WallsAgree ==
    ASSUME NEW s \in Settings, NEW split \in BOOLEAN, split => Len(s.regions) = 2
    PROVE  LET K == IF split THEN {slot \in Plain(s) : slot.how = "region"}
                    ELSE {slot \in Plain(s) : slot.how = "keep" /\ slot.filament = s.wall}
           IN  AllWalls(s, split) \in Seq(K) /\ AllWalls(s, split) # <<>>
<1>1. CASE split
  <2> DEFINE K == {slot \in Plain(s) : slot.how = "region"}
             a == WallSlots(s, s.regions[1].wall, "region")
             b == WallSlots(s, s.regions[2].wall, "region")
  <2>1. ASSUME NEW i \in {1, 2}
        PROVE  WallSlots(s, s.regions[i].wall, "region") \in Seq(K)
               /\ WallSlots(s, s.regions[i].wall, "region") # <<>>
    <3> DEFINE w == s.regions[i].wall
               N == {slot \in Plain(s) : slot.how = "region" /\ slot.filament = w}
    <3>1. w \in Nat
      BY <1>1, <2>1, RegionsTyped
    <3> HIDE DEF w
    <3>2. WallSlots(s, w, "region") \in Seq(N) /\ WallSlots(s, w, "region") # <<>>
      BY <3>1, WallsInOrder
    <3>3. N \subseteq K
      OBVIOUS
    <3> HIDE DEF N, K
    <3>4. WallSlots(s, w, "region") \in Seq(K)
      BY <3>2, <3>3
    <3> QED BY <3>2, <3>4 DEF w
  <2>2. a \in Seq(K) /\ b \in Seq(K) /\ a # <<>>
    BY <2>1
  <2>3. AllWalls(s, split) = a \o b
    BY <1>1 DEF AllWalls
  <2> HIDE DEF a, b, K
  <2>4. a \o b \in Seq(K) /\ a \o b # <<>>
    BY <2>2
  <2> QED BY <1>1, <2>3, <2>4 DEF K
<1>2. CASE ~split
  <2>1. AllWalls(s, split) = WallSlots(s, s.wall, "keep")
    BY <1>2 DEF AllWalls
  <2> QED BY <1>2, <2>1, LengthsTyped, WallsInOrder
<1> QED BY <1>1, <1>2

\* All infill of a layer calls for its tools.
LEMMA AllInfillCalls ==
    ASSUME NEW s \in Settings, NEW split \in BOOLEAN, split => Len(s.regions) = 2
    PROVE  AllInfill(s, split) \in Seq(Quiet(s)) /\ AllInfill(s, split) # <<>>
<1>1. CASE split
  <2> DEFINE a == InfillSlots(s.regions[1].sparse, s.regions[1].solid)
             b == InfillSlots(s.regions[2].sparse, s.regions[2].solid)
  <2>1. a \in Seq(Quiet(s)) /\ a # <<>> /\ b \in Seq(Quiet(s))
    BY <1>1, RegionsTyped, InfillCalls
  <2>2. AllInfill(s, split) = a \o b
    BY <1>1 DEF AllInfill
  <2> HIDE DEF a, b
  <2> QED BY <2>1, <2>2
<1>2. CASE ~split
  BY <1>2, LengthsTyped, InfillCalls DEF AllInfill
<1> QED BY <1>1, <1>2

\* A layer of s that is in order from its first feature to its last.
Whole(s, list, infillFirst) ==
    PartOfLayer(s, list, infillFirst) /\ list[1] \in Quiet(s) /\ list[Len(list)] \in Plain(s)

\* Every layer is in order: the tower between its two moves, and no wall that
\* trusts the tool before the writer has gone back to that of the walls, unless
\* the infill comes first (writer.rs: the order of a layer).
LEMMA LayerInOrder ==
    ASSUME NEW s \in Settings, NEW first \in BOOLEAN, NEW tower \in BOOLEAN,
           NEW split \in BOOLEAN, split => Len(s.regions) = 2,
           NEW swapped, swapped = (s.infillFirst /\ ~first)
    PROVE  Whole(s, LayerSlots(s, first, tower, split), swapped)
<1> DEFINE infillFirst == s.infillFirst /\ ~first
           begin == BeforeWalls(s, tower)
           walls == AllWalls(s, split)
           infill == AllInfill(s, split)
           middle == IF infillFirst THEN infill \o walls ELSE walls \o infill
           ironing == <<Slot("Ironing", s.solid, "region")>>
<1>1. LayerSlots(s, first, tower, split) = begin \o middle \o ironing
  BY DEF LayerSlots
<1>2. infillFirst \in BOOLEAN
  BY SettingsAssumption
<1>3. ironing \in Seq(Quiet(s)) /\ ironing # <<>>
  <2> DEFINE slot == Slot("Ironing", s.solid, "region")
  <2>1. slot \in Quiet(s)
    BY LengthsTyped, QuietSlots DEF Roles
  <2>2. ironing = <<slot>>
    OBVIOUS
  <2> HIDE DEF slot, ironing
  <2> QED BY <2>1, <2>2
<1> DEFINE N == IF split THEN {slot \in Plain(s) : slot.how = "region"}
                ELSE {slot \in Plain(s) : slot.how = "keep" /\ slot.filament = s.wall}
<1>4. walls \in Seq(N) /\ walls # <<>>
  BY WallsAgree
<1>5. infill \in Seq(Quiet(s)) /\ infill # <<>>
  BY AllInfillCalls
<1>6. N \in SUBSET Features(s) /\ N \subseteq Plain(s) /\ \A a, b \in N : Follows(a, b, infillFirst)
  BY DEF Plain, Follows, Trusts
<1>7. /\ Quiet(s) \in SUBSET Features(s) /\ Quiet(s) \subseteq Plain(s)
      /\ \A a \in Plain(s), b \in Quiet(s) : Follows(a, b, infillFirst)
  BY DEF Plain, Quiet, Follows
<1>8. infillFirst => \A a, b \in Plain(s) : Follows(a, b, infillFirst)
  BY DEF Plain, Follows
<1>9. Plain(s) \in SUBSET Features(s)
  BY DEF Plain
<1> HIDE DEF begin, walls, infill, ironing, N, infillFirst
<1>10. /\ PartOfLayer(s, middle, infillFirst)
       /\ middle[1] \in Plain(s) /\ middle[Len(middle)] \in Plain(s)
  <2>1. CASE infillFirst
    <3>1. infill \o walls \in Seq(Plain(s)) /\ infill \o walls # <<>>
      <4>1. infill \in Seq(Plain(s)) /\ walls \in Seq(Plain(s)) /\ infill # <<>>
        BY <1>4, <1>5, <1>6, <1>7
      <4> QED BY <4>1
    <3>2. middle = infill \o walls
      BY <2>1
    <3> HIDE DEF middle
    <3> QED BY <1>2, <1>8, <1>9, <2>1, <3>1, <3>2, AnyOrder
  <2>2. CASE ~infillFirst
    <3>1. middle = walls \o infill
      BY <2>2
    <3>2. PartOfLayer(s, walls, infillFirst) /\ walls[1] \in N /\ walls[Len(walls)] \in N
      BY <1>2, <1>4, <1>6, AnyOrder
    <3>3. /\ PartOfLayer(s, infill, infillFirst)
          /\ infill[1] \in Quiet(s) /\ infill[Len(infill)] \in Quiet(s)
      BY <1>2, <1>5, <1>7, AnyOrder
    <3>4. Follows(walls[Len(walls)], infill[1], infillFirst)
      BY <1>6, <1>7, <3>2, <3>3
    <3>5. PartOfLayer(s, walls \o infill, infillFirst)
          /\ Ends(walls \o infill, walls[1], infill[Len(infill)])
      BY <1>2, <3>2, <3>3, <3>4, PartsJoin
    <3> HIDE DEF middle
    <3> QED BY <1>6, <1>7, <3>1, <3>2, <3>3, <3>5 DEF Ends
  <2> QED BY <2>1, <2>2
<1> HIDE DEF middle
<1>11. /\ PartOfLayer(s, begin, infillFirst)
       /\ begin[1] \in Quiet(s)
       /\ begin[Len(begin)] \in Quiet(s) /\ begin[Len(begin)].role = "WallTool"
  BY <1>2, WallToolIsCalled DEF begin
<1>12. Follows(begin[Len(begin)], middle[1], infillFirst)
  BY <1>10, <1>11 DEF Follows, Plain, Quiet
<1>13. PartOfLayer(s, begin \o middle, infillFirst)
       /\ Ends(begin \o middle, begin[1], middle[Len(middle)])
  BY <1>2, <1>10, <1>11, <1>12, PartsJoin
<1>14. PartOfLayer(s, ironing, infillFirst)
       /\ ironing[1] \in Quiet(s) /\ ironing[Len(ironing)] \in Quiet(s)
  BY <1>2, <1>3, <1>7, AnyOrder
<1> DEFINE upTo == begin \o middle
<1>15. PartOfLayer(s, upTo, infillFirst) /\ Ends(upTo, begin[1], middle[Len(middle)])
  BY <1>13
<1>16. LayerSlots(s, first, tower, split) = upTo \o ironing
  BY <1>1
<1> HIDE DEF upTo
<1>17. Follows(upTo[Len(upTo)], ironing[1], infillFirst)
  BY <1>7, <1>10, <1>14, <1>15 DEF Ends
<1>18. PartOfLayer(s, upTo \o ironing, infillFirst)
       /\ Ends(upTo \o ironing, upTo[1], ironing[Len(ironing)])
  BY <1>2, <1>14, <1>15, <1>17, PartsJoin
<1>19. swapped = infillFirst
  BY DEF infillFirst
<1> QED BY <1>7, <1>11, <1>14, <1>15, <1>16, <1>18, <1>19 DEF Ends, Whole

-----------------------------------------------------------------------------
(* Between layers *)

\* The height of a layer.
LEMMA HeightsTyped ==
    ASSUME NEW n \in Nat
    PROVE  PrintZ(n) \in Int
BY LayersAssumption DEF PrintZ

\* One object is printed upwards.
LEMMA HeightsGrow ==
    ASSUME NEW n \in 1 .. Layers - 1
    PROVE  PrintZ(n) <= PrintZ(n + 1)
<1>1. (n - 1) % Layers = n - 1 /\ ((n + 1) - 1) % Layers = n
  BY LayersAssumption
<1>2. PrintZ(n) = n * Height /\ PrintZ(n + 1) = (n + 1) * Height
  BY <1>1 DEF PrintZ
<1> QED BY <1>2, LayersAssumption

\* A feature finds its tool, or leaves the nozzle that the start code left.
LEMMA ToolsFor ==
    ASSUME NEW s \in Settings, NEW p, Ready(s, p), NEW slot \in Features(s)
    PROVE  LET q == ToolFor(s, p, slot)
           IN  /\ Ready(s, q) /\ q.z = p.z
               /\ slot.how = "keep" => q.tool = p.tool
               /\ slot.how # "keep" =>
                     \/ q.tool = Tool(s, slot.filament)
                     \/ q.tool = 0 /\ Tool(s, slot.filament) = Implicit(s)
<1>1. slot.filament \in Nat /\ slot.how \in {"keep", "call", "region"}
  BY DEF Features, Slots
<1>2. LET q == Toolchange(s, p, slot.filament)
      IN  Ready(s, q) /\ q.z = p.z /\ q.tool = Tool(s, slot.filament)
  BY <1>1, Toolchanges
<1> QED BY <1>1, <1>2 DEF ToolFor, RegionToolchange

\* The line to the layer's height.
Moved(p, n) == [MoveZ(p, PrintZ(n)) EXCEPT !.lifted = 0]

\* Between layers the nozzle ends level with the layer that begins, at the
\* height a spiral has reached or, after its snippet, at that of the layer.
LEMMA LayersMoved ==
    ASSUME NEW s \in Settings, NEW p, Ready(s, p), NEW n \in Nat \ {0}
    PROVE  LET q == LayerMoves(s, p, n)
           IN  /\ Ready(s, q)
               /\ q.z = PrintZ(n) \/ (s.spiral /\ n > 1 /\ q.z = p.z)
<1>1. ASSUME NEW r, Ready(s, r)
      PROVE  Ready(s, Moved(r, n)) /\ Moved(r, n).z = PrintZ(n)
  <2>1. PrintZ(n) \in Int
    BY HeightsTyped
  <2> QED BY <1>1, <2>1 DEF Moved, MoveZ, Ready, Pen, Level
<1>2. ASSUME NEW r, Ready(s, r)
      PROVE  Ready(s, Retract(s, r)) /\ Retract(s, r).z = r.z
  BY <1>2, Retracts DEF Stays
<1>3. ASSUME NEW r, Ready(s, r)
      PROVE  Ready(s, Unretract(r)) /\ Unretract(r).z = r.z
  BY <1>3, Unretracts DEF Ready, Pen, Level
<1> DEFINE left == IF n > 1 /\ s.changing THEN Retract(s, p) ELSE p
           at == IF s.spiral /\ n > 1 THEN left ELSE Moved(left, n)
           scanned == IF n = 2 /\ s.scan THEN Unretract(Retract(s, at)) ELSE at
<1>4. Ready(s, left) /\ left.z = p.z
  BY <1>2
<1> HIDE DEF left
<1>5. Ready(s, at) /\ (at.z = PrintZ(n) \/ (s.spiral /\ n > 1 /\ at.z = p.z))
  <2>1. CASE s.spiral /\ n > 1
    BY <1>4, <2>1
  <2>2. CASE ~(s.spiral /\ n > 1)
    <3>1. at = Moved(left, n)
      BY <2>2
    <3> HIDE DEF at
    <3> QED BY <1>1, <1>4, <3>1
  <2> QED BY <2>1, <2>2
<1> HIDE DEF at
<1>6. Ready(s, scanned) /\ scanned.z = at.z
  BY <1>2, <1>3, <1>5
<1>7. LayerMoves(s, p, n) = CASE s.wrapping = "off" -> scanned
          [] s.wrapping = "retract" -> Retract(s, scanned)
          [] s.wrapping = "snippet" -> Moved(Retract(s, scanned), n)
  BY DEF LayerMoves, left, at, scanned, Moved
<1> HIDE DEF scanned
<1>8. s.wrapping \in {"off", "retract", "snippet"}
  BY SettingsAssumption
<1>9. Ready(s, Retract(s, scanned)) /\ Retract(s, scanned).z = scanned.z
  BY <1>2, <1>6
<1>10. Ready(s, Moved(Retract(s, scanned), n)) /\ Moved(Retract(s, scanned), n).z = PrintZ(n)
  BY <1>1, <1>9
<1>11. LayerMoves(s, p, n) \in {scanned, Retract(s, scanned), Moved(Retract(s, scanned), n)}
  BY <1>7, <1>8
<1> QED BY <1>5, <1>6, <1>9, <1>10, <1>11

-----------------------------------------------------------------------------
(* The inductive invariant *)

\* The layer at hand is one of the slice.
Counts ==
    /\ settings \in Settings
    /\ layer \in 0 .. settings.objects * Layers
    /\ slots # <<>> => layer > 0

\* On this layer the infill is printed first.
InfillFirst == settings.infillFirst /\ layer > 1

\* What is left of the layer is in order and does not end at the tower.
InOrder ==
    slots # <<>> =>
        PartOfLayer(settings, slots, InfillFirst) /\ slots[Len(slots)] \in Plain(settings)

\* The nozzle is at the top of the layer, but for the tower; a spiral has got
\* there at most.
Aloft == IF slots # <<>> /\ Head(slots).role \in {"PrimeTower", "Lower"}
         THEN settings.towerLift ELSE 0
AtHeight ==
    /\ layer > 0 /\ ~settings.spiral => pen.z = PrintZ(layer) + Aloft
    /\ layer > 0 /\ settings.spiral /\ settings.objects = 1 => pen.z <= PrintZ(layer) + Aloft

\* A wall that trusts the tool finds that of the walls.
HasTool ==
    slots # <<>> /\ Trusts(Head(slots)) /\ ~InfillFirst =>
        pen.tool \in {0, Tool(settings, settings.wall)}

\* Between two actions the nozzle is off its hop and where the writer believes
\* it to be, at its layer, and the order of the features is as it must be.
WriterOK == Counts /\ InOrder /\ Ready(settings, pen) /\ AtHeight /\ HasTool

\* What the tool in place is to a feature with a filament of its own.
ToolOf(s, q) == IF q.tool = 0 THEN Implicit(s) ELSE q.tool

\* The writer at the start of a path: the tool is called, the travel is done
\* and the filament is back (emit_one_path).
LEMMA Approaches ==
    ASSUME NEW s \in Settings, NEW p, Ready(s, p), NEW slot \in Features(s),
           NEW far \in BOOLEAN, NEW inside \in BOOLEAN, NEW told \in BOOLEAN
    PROVE  LET called == ToolFor(s, p, slot)
               q == Unretract(TravelTo(s, [called EXCEPT !.support = slot.role = "Support"],
                                       far, inside, told))
           IN  /\ Ready(s, q) /\ q.z = p.z /\ q.retracted = 0
               /\ slot.how = "keep" => q.tool = p.tool
               /\ slot.how # "keep" => ToolOf(s, q) = Tool(s, slot.filament)
<1> DEFINE called == ToolFor(s, p, slot)
           r == [called EXCEPT !.support = slot.role = "Support"]
           q == Unretract(TravelTo(s, r, far, inside, told))
<1>1. /\ Ready(s, called) /\ called.z = p.z
      /\ slot.how = "keep" => called.tool = p.tool
      /\ slot.how # "keep" =>
            \/ called.tool = Tool(s, slot.filament)
            \/ called.tool = 0 /\ Tool(s, slot.filament) = Implicit(s)
  BY ToolsFor
<1> HIDE DEF called
<1>2. Ready(s, r) /\ r.z = called.z /\ r.tool = called.tool
  <2> DEFINE support == slot.role = "Support"
  <2>1. support \in BOOLEAN
    OBVIOUS
  <2> HIDE DEF support
  <2> QED BY <1>1, <2>1 DEF Ready, Pen, Level
<1> HIDE DEF r
<1>3. Ready(s, q) /\ q.z = r.z /\ q.tool = r.tool /\ q.retracted = 0
  BY <1>2, TravelsBack DEF Stays
<1> HIDE DEF q
<1>4. slot.how # "keep" => ToolOf(s, q) = Tool(s, slot.filament)
  <2>1. slot.filament \in Nat
    BY DEF Features, Slots
  <2>2. Tool(s, slot.filament) # 0
    BY <2>1, ToolsCounted
  <2> QED BY <1>1, <1>2, <1>3, <2>2 DEF ToolOf
<1>5. q.z = p.z /\ (slot.how = "keep" => q.tool = p.tool)
  BY <1>1, <1>2, <1>3
<1> QED BY <1>3, <1>4, <1>5 DEF q, r, called

-----------------------------------------------------------------------------
(* The steps *)

\* What is left after a feature is still in order.
LEMMA TailInOrder ==
    ASSUME WriterOK, slots # <<>>, slots' = Tail(slots), UNCHANGED <<settings, layer>>
    PROVE  /\ Counts' /\ InOrder'
           /\ slots' # <<>> => /\ Head(slots') \in Features(settings)
                               /\ Follows(Head(slots), Head(slots'), InfillFirst)
           /\ slots' = <<>> => Head(slots) \in Plain(settings)
<1> DEFINE s == settings
           n == Len(slots)
<1>1. /\ slots \in Seq(Features(s)) /\ Ordered(slots, InfillFirst) /\ slots[n] \in Plain(s)
      /\ n \in Nat \ {0} /\ Head(slots) = slots[1]
  BY EmptySeq DEF WriterOK, InOrder, PartOfLayer
<1>2. /\ slots' \in Seq(Features(s)) /\ Len(slots') = n - 1
      /\ \A i \in 1 .. n - 1 : slots'[i] = slots[i + 1]
  BY <1>1, HeadTailProperties
<1>3. CASE n = 1
  <2>1. slots' = <<>>
    BY <1>2, <1>3, EmptySeq
  <2> QED BY <1>1, <1>3, <2>1 DEF WriterOK, Counts, InOrder
<1>4. CASE n > 1
  <2>1. slots' # <<>>
    BY <1>2, <1>4, EmptySeq
  <2>2. slots'[1] = slots[2] /\ slots'[1] \in Features(s) /\ Head(slots') = slots'[1]
        /\ slots'[Len(slots')] = slots[n]
    BY <1>1, <1>2, <1>4, <2>1, ElementOfSeq
  <2>3. Follows(slots[1], slots[2], InfillFirst)
    BY <1>1, <1>4 DEF Ordered
  <2>4. Ordered(slots', InfillFirst)
    <3> SUFFICES ASSUME NEW i \in 1 .. Len(slots') - 1
                 PROVE  Follows(slots'[i], slots'[i + 1], InfillFirst)
      BY DEF Ordered
    <3>1. /\ i \in 1 .. n - 1 /\ i + 1 \in 1 .. n - 1
      BY <1>1, <1>2
    <3>2. slots'[i] = slots[i + 1] /\ slots'[i + 1] = slots[(i + 1) + 1]
      BY <1>2, <3>1
    <3> QED BY <1>1, <3>1, <3>2 DEF Ordered
  <2>5. InfillFirst' = InfillFirst /\ settings' = s
    BY DEF InfillFirst
  <2>6. PartOfLayer(s, slots', InfillFirst) /\ slots'[Len(slots')] \in Plain(s)
    BY <1>1, <1>2, <2>1, <2>2, <2>4 DEF PartOfLayer
  <2>7. InOrder'
    BY <2>5, <2>6 DEF InOrder
  <2> QED BY <1>1, <2>1, <2>2, <2>3, <2>7 DEF WriterOK, Counts
<1>5. n = 1 \/ n > 1
  <2>1. n \in Nat \ {0}
    BY <1>1
  <2> HIDE DEF n
  <2> QED BY <2>1
<1> QED BY <1>3, <1>4, <1>5, Zenon

\* The next feature is as high as the one before, but at the moves of the tower,
\* and a wall that trusts the tool follows one that does, but after Wall tool.
LEMMA NextInPlace ==
    ASSUME WriterOK, slots # <<>>, slots' = Tail(slots), UNCHANGED <<settings, layer>>
    PROVE  /\ Head(slots).role \notin {"Lift", "Lower"} => Aloft' = Aloft
           /\ Head(slots).role = "Lift" => Aloft' = settings.towerLift
           /\ Head(slots).role = "Lower" => Aloft' = 0
           /\ Head(slots).role # "WallTool" /\ pen'.tool = pen.tool => HasTool'
<1>1. /\ slots' # <<>> => Follows(Head(slots), Head(slots'), InfillFirst)
      /\ slots' = <<>> => Head(slots) \in Plain(settings)
  BY TailInOrder
<1>2. CASE slots' = <<>>
  BY <1>1, <1>2 DEF Aloft, HasTool, Plain
<1>3. CASE slots' # <<>>
  <2>1. Aloft' = IF Head(slots').role \in {"PrimeTower", "Lower"} THEN settings.towerLift ELSE 0
    BY <1>3 DEF Aloft
  <2>2. Aloft = IF Head(slots).role \in {"PrimeTower", "Lower"} THEN settings.towerLift ELSE 0
    BY DEF Aloft
  <2>3. ASSUME Head(slots).role # "WallTool", pen'.tool = pen.tool
        PROVE  HasTool'
    <3>1. InfillFirst' = InfillFirst
      BY DEF InfillFirst
    <3> SUFFICES ASSUME Trusts(Head(slots')), ~InfillFirst
                 PROVE  pen'.tool \in {0, Tool(settings, settings.wall)}
      BY <3>1 DEF HasTool
    <3>2. Trusts(Head(slots))
      BY <1>1, <1>3, <2>3 DEF Follows
    <3> QED BY <2>3, <3>2 DEF WriterOK, HasTool
  <2> QED BY <1>1, <1>3, <2>1, <2>2, <2>3 DEF Follows
<1> QED BY <1>2, <1>3

\* A path is laid in place, primed and of its filament, and leaves the writer
\* ready for the next.
LEMMA PathSafe ==
    ASSUME WriterOK, LinesRight, Path
    PROVE  WriterOK' /\ LinesRight'
<1>1. PICK far \in BOOLEAN, inside \in BOOLEAN, told \in BOOLEAN, loop \in BOOLEAN,
           forces \in BOOLEAN, drop \in 0 .. Height :
          /\ loop \/ forces => Head(slots).role \in Walls
          /\ drop > 0 => loop /\ Scarfs(settings, layer, Head(slots).role)
          /\ Extrude(Head(slots), far, inside, told, loop, drop, forces)
  BY DEF Path
<1>2. /\ slots # <<>> /\ UNCHANGED <<settings, layer, slots>>
      /\ Head(slots).role \notin {"Lift", "Lower", "WallTool"}
  BY DEF Path
<1> DEFINE s == settings
           slot == Head(slots)
           role == slot.role
           called == ToolFor(s, pen, slot)
           q == Unretract(TravelTo(s, [called EXCEPT !.support = slot.role = "Support"],
                                   far, inside, told))
           top == PrintZ(layer)
           climbs == loop /\ (s.spiral \/ drop > 0)
           r == IF climbs THEN MoveZ(q, top) ELSE q
           from == IF drop > 0 THEN top - drop ELSE q.up
           to == IF climbs THEN top ELSE q.up
<1>3. s \in Settings /\ layer \in Nat \ {0} /\ Ready(s, pen) /\ slot \in Features(s)
  <2>1. slots \in Seq(Features(s)) /\ s.objects * Layers \in Nat
    BY <1>2, LengthsTyped, LayersAssumption DEF WriterOK, Counts, InOrder, PartOfLayer
  <2> QED BY <1>2, <2>1 DEF WriterOK, Counts
<1>4. /\ Ready(s, q) /\ q.z = pen.z /\ q.retracted = 0
      /\ slot.how = "keep" => q.tool = pen.tool
      /\ slot.how # "keep" => ToolOf(s, q) = Tool(s, slot.filament)
  BY <1>1, <1>3, Approaches
<1>5. pen' = [r EXCEPT !.forces = forces] /\ bead' = Laid(s, q, slot, from, to, layer)
  BY <1>1 DEF Extrude
<1> HIDE DEF q, called
<1>6. top \in Int
  BY <1>3, HeightsTyped
<1>7. Ready(s, r) /\ r.z = (IF climbs THEN top ELSE q.z) /\ r.tool = q.tool
  <2>1. CASE climbs
    <3>1. r = MoveZ(q, top)
      BY <2>1
    <3> HIDE DEF r, top
    <3> QED BY <1>4, <1>6, <2>1, <3>1 DEF MoveZ, Ready, Pen, Level
  <2>2. CASE ~climbs
    BY <1>4, <2>2
  <2> QED BY <2>1, <2>2
<1> HIDE DEF r
<1>8. Ready(s, pen') /\ pen'.z = r.z /\ pen'.tool = r.tool
  BY <1>1, <1>5, <1>7 DEF Ready, Pen, Level
<1>9. Aloft' = Aloft /\ InfillFirst' = InfillFirst /\ layer' = layer /\ settings' = s
      /\ (climbs => Aloft = 0)
      /\ Aloft = (IF role = "PrimeTower" THEN s.towerLift ELSE 0)
  BY <1>1, <1>2 DEF Aloft, InfillFirst, Walls
<1>10. /\ ~s.spiral => pen.z = top + Aloft
       /\ s.spiral /\ s.objects = 1 => pen.z <= top + Aloft
       /\ pen.z \in Int /\ Aloft \in Nat /\ q.up = pen.z
  BY <1>3, <1>4, <1>9, LengthsTyped DEF WriterOK, AtHeight, Ready, Pen, Level
<1> HIDE DEF top
<1>11. WriterOK'
  <2>1. AtHeight'
    BY <1>4, <1>6, <1>7, <1>8, <1>9, <1>10 DEF AtHeight, top
  <2>2. HasTool'
    BY <1>2, <1>4, <1>7, <1>8, <1>9 DEF WriterOK, HasTool, Trusts
  <2>3. Counts' /\ InOrder'
    BY <1>2, <1>9 DEF WriterOK, Counts, InOrder
  <2> QED BY <1>8, <1>9, <2>1, <2>2, <2>3 DEF WriterOK
<1>12. /\ bead' # NoBead
       /\ bead'.role = role /\ bead'.filament = slot.filament /\ bead'.how = slot.how
       /\ bead'.layer = layer /\ bead'.tool = ToolOf(s, q)
       /\ bead'.from = from /\ bead'.to = to
       /\ bead'.pulled = 0 /\ bead'.raised = 0 /\ bead'.adrift = FALSE
  <2>1. q.lifted = 0 /\ q.up = q.z
    BY <1>4 DEF Ready, Level
  <2> HIDE DEF from, to
  <2> QED BY <1>4, <1>5, <2>1 DEF Laid, NoBead, ToolOf
<1>13. OnLayer'
  <2>1. drop > 0 => climbs /\ ~s.spiral
    BY <1>1 DEF Scarfs
  <2>2. climbs => role \in Walls
    BY <1>1
  <2>3. drop \in Int /\ 0 <= drop /\ drop <= Height /\ Height \in Int
    BY LayersAssumption
  <2>4. /\ (s.spiral => s.objects = 1) => from <= to
        /\ s.spiral /\ s.objects = 1 => to <= top + Aloft
        /\ ~s.spiral => to = top + Aloft /\ from >= (top + Aloft) - Height
        /\ ~s.spiral /\ role \notin Walls => from = top + Aloft
    <3>1. CASE climbs
      <4>1. to = top /\ Aloft = 0 /\ role \in Walls
        BY <1>9, <2>2, <3>1
      <4>2. from = (IF drop > 0 THEN top - drop ELSE pen.z)
        BY <1>10
      <4>3. CASE drop > 0
        <5>1. from = top - drop /\ ~s.spiral
          BY <2>1, <4>2, <4>3
        <5> HIDE DEF from, to, climbs
        <5> QED BY <1>6, <2>3, <4>1, <5>1
      <4>4. CASE ~(drop > 0)
        <5>1. from = pen.z
          BY <4>2, <4>4
        <5>2. s.spiral
          BY <3>1, <4>4
        <5> HIDE DEF from, to, climbs
        <5> QED BY <1>6, <1>10, <2>3, <4>1, <5>1, <5>2
      <4> QED BY <4>3, <4>4
    <3>2. CASE ~climbs
      <4>1. from = pen.z /\ to = pen.z
        BY <1>10, <2>1, <2>3, <3>2
      <4> HIDE DEF from, to, climbs
      <4> QED BY <1>6, <1>10, <2>3, <4>1
    <3> QED BY <3>1, <3>2
  <2>5. from \in Int /\ to \in Int
    BY <1>6, <1>10, <2>3
  <2> HIDE DEF from, to
  <2> QED BY <1>6, <1>9, <1>10, <1>12, <2>4, <2>5 DEF OnLayer, top
<1>14. Primed'
  BY <1>8, <1>9, <1>12 DEF Primed, Ready
<1>15. RightFilament'
  <2> SUFFICES ASSUME slot.filament > 0, ~(slot.how = "keep" /\ s.infillFirst /\ layer > 1)
               PROVE  ToolOf(s, q) = Tool(s, slot.filament)
    BY <1>9, <1>12 DEF RightFilament
  <2>1. CASE slot.how # "keep"
    BY <1>4, <2>1
  <2>2. CASE slot.how = "keep"
    <3>1. slot.filament \in Nat /\ Trusts(slot) /\ slot.filament = s.wall
      BY <1>2, <1>3, <2>2 DEF Features, Slots, Trusts
    <3>2. pen.tool \in {0, Tool(s, s.wall)}
      BY <1>2, <2>2, <3>1 DEF WriterOK, HasTool, InfillFirst
    <3> QED BY <1>4, <2>2, <3>1, <3>2 DEF ToolOf, Implicit
  <2> QED BY <2>1, <2>2
<1> QED BY <1>11, <1>13, <1>14, <1>15 DEF LinesRight

\* The tower is lifted to and lowered from, level on both sides.
LEMMA TowerLiftSafe ==
    ASSUME WriterOK, LinesRight, TowerLift
    PROVE  WriterOK' /\ LinesRight'
<1> DEFINE s == settings
           lift == IF Head(slots).role = "Lift" THEN s.towerLift ELSE 0
           z == PrintZ(layer) + lift
<1>1. /\ slots # <<>> /\ slots' = Tail(slots) /\ UNCHANGED <<settings, layer, bead>>
      /\ Head(slots).role \in {"Lift", "Lower"}
      /\ pen' = IF s.towerLift = 0 THEN pen ELSE MoveZ(pen, z)
  BY DEF TowerLift
<1>2. Counts' /\ InOrder'
  BY <1>1, TailInOrder
<1>3. Aloft' = lift /\ (s.towerLift = 0 => Aloft = 0) /\ lift \in Nat
  <2>1. s.towerLift \in Nat
    BY LengthsTyped DEF WriterOK, Counts
  <2>2. s.towerLift = 0 => Aloft = 0
    BY DEF Aloft
  <2>3. CASE Head(slots).role = "Lift"
    BY <1>1, <2>1, <2>2, <2>3, NextInPlace
  <2>4. CASE Head(slots).role = "Lower"
    <3>1. Aloft' = 0
      BY <1>1, <2>4, NextInPlace
    <3> QED BY <2>2, <2>4, <3>1
  <2> QED BY <1>1, <2>3, <2>4
<1>4. PrintZ(layer) \in Int /\ layer \in Nat \ {0} /\ s \in Settings
  <2>1. s.objects * Layers \in Nat
    BY LengthsTyped, LayersAssumption DEF WriterOK, Counts
  <2> QED BY <1>1, <2>1, HeightsTyped DEF WriterOK, Counts
<1>5. Ready(s, pen') /\ pen'.tool = pen.tool
      /\ pen'.z = IF s.towerLift = 0 THEN pen.z ELSE z
  <2>1. z \in Int
    BY <1>3, <1>4
  <2> HIDE DEF z
  <2>2. Ready(s, MoveZ(pen, z)) /\ MoveZ(pen, z).tool = pen.tool /\ MoveZ(pen, z).z = z
    BY <2>1 DEF WriterOK, MoveZ, Ready, Pen, Level
  <2> QED BY <1>1, <2>2 DEF WriterOK
<1>6. AtHeight'
  <2>1. s.towerLift = 0 => lift = 0
    OBVIOUS
  <2>2. pen.z \in Int
    BY DEF WriterOK, Ready, Pen
  <2>3. /\ ~s.spiral => pen'.z = PrintZ(layer) + lift
        /\ s.spiral /\ s.objects = 1 => pen'.z <= PrintZ(layer) + lift
    <3>1. s.towerLift = 0 =>
            /\ ~s.spiral => pen.z = PrintZ(layer)
            /\ s.spiral /\ s.objects = 1 => pen.z <= PrintZ(layer)
      BY <1>3, <1>4 DEF WriterOK, AtHeight
    <3> HIDE DEF lift
    <3> QED BY <1>3, <1>4, <1>5, <2>1, <2>2, <3>1
  <2> QED BY <1>1, <1>3, <2>3 DEF AtHeight
<1>7. HasTool'
  BY <1>1, <1>5, NextInPlace
<1>8. WriterOK'
  BY <1>1, <1>2, <1>5, <1>6, <1>7 DEF WriterOK
<1>9. LinesRight'
  BY <1>1, <1>5 DEF LinesRight, OnLayer, Primed, RightFilament, Ready
<1> QED BY <1>8, <1>9

\* Going on to the next feature moves nothing.
LEMMA NextFeatureSafe ==
    ASSUME WriterOK, LinesRight, NextFeature
    PROVE  WriterOK' /\ LinesRight'
<1>1. /\ slots # <<>> /\ slots' = Tail(slots) /\ UNCHANGED <<settings, layer, pen, bead>>
      /\ Head(slots).role \notin {"Lift", "Lower", "WallTool"}
  BY DEF NextFeature
<1>2. Counts' /\ InOrder'
  BY <1>1, TailInOrder
<1>3. Aloft' = Aloft /\ HasTool'
  BY <1>1, NextInPlace
<1>4. AtHeight'
  BY <1>1, <1>3 DEF WriterOK, AtHeight
<1>5. WriterOK'
  BY <1>1, <1>2, <1>3, <1>4 DEF WriterOK
<1>6. LinesRight'
  BY <1>1 DEF LinesRight, OnLayer, Primed, RightFilament
<1> QED BY <1>5, <1>6

\* The return to the filament of the walls is what the walls then trust.
LEMMA WallToolSafe ==
    ASSUME WriterOK, LinesRight, WallTool
    PROVE  WriterOK' /\ LinesRight'
<1> DEFINE s == settings
           called == Toolchange(s, pen, s.wall)
<1>1. /\ slots # <<>> /\ slots' = Tail(slots) /\ UNCHANGED <<settings, layer, bead>>
      /\ Head(slots).role = "WallTool"
      /\ pen' = IF pen.tool = 0 THEN pen ELSE called
  BY DEF WallTool
<1>2. Counts' /\ InOrder'
  BY <1>1, TailInOrder
<1>3. Aloft' = Aloft
  BY <1>1, NextInPlace
<1>4. Ready(s, called) /\ called.z = pen.z /\ called.tool = Tool(s, s.wall)
  BY Toolchanges, LengthsTyped DEF WriterOK, Counts
<1> HIDE DEF called
<1>5. Ready(s, pen') /\ pen'.z = pen.z /\ pen'.tool \in {0, Tool(s, s.wall)}
  BY <1>1, <1>4 DEF WriterOK
<1>6. AtHeight' /\ HasTool'
  BY <1>1, <1>3, <1>5 DEF WriterOK, AtHeight, HasTool
<1>7. WriterOK'
  BY <1>1, <1>2, <1>5, <1>6 DEF WriterOK
<1>8. LinesRight'
  BY <1>1, <1>5 DEF LinesRight, OnLayer, Primed, RightFilament, Ready
<1> QED BY <1>7, <1>8

\* A layer begins level with its top, and with all its features in order.
LEMMA BeginLayerSafe ==
    ASSUME WriterOK, LinesRight, BeginLayer
    PROVE  WriterOK' /\ LinesRight'
<1> DEFINE s == settings
           n == layer + 1
           swapped == s.infillFirst /\ ~(layer = 0)
           moved == LayerMoves(s, pen, n)
<1>1. /\ slots = <<>> /\ layer < s.objects * Layers /\ layer' = n
      /\ pen' = moved /\ UNCHANGED <<settings, bead>>
  BY DEF BeginLayer
<1>2. PICK tower \in BOOLEAN, split \in BOOLEAN :
          /\ split => Len(s.regions) = 2
          /\ slots' = LayerSlots(s, layer = 0, tower, split)
  BY DEF BeginLayer
<1>3. /\ s \in Settings /\ layer \in Nat /\ n \in Nat \ {0} /\ Ready(s, pen)
      /\ s.objects * Layers \in Nat
  <2>1. s.objects * Layers \in Nat
    BY LengthsTyped, LayersAssumption DEF WriterOK, Counts
  <2> QED BY <2>1 DEF WriterOK, Counts
<1>4. Whole(s, slots', swapped)
  <2> DEFINE first == layer = 0
  <2>1. first \in BOOLEAN /\ slots' = LayerSlots(s, first, tower, split)
        /\ swapped = (s.infillFirst /\ ~first)
    BY <1>2
  <2> HIDE DEF first, swapped
  <2> QED BY <1>2, <1>3, <2>1, LayerInOrder
<1>5. /\ Ready(s, moved)
      /\ moved.z = PrintZ(n) \/ (s.spiral /\ n > 1 /\ moved.z = pen.z)
  BY <1>3, LayersMoved
<1> HIDE DEF moved
<1>6. InfillFirst' = swapped
  <2>1. layer' > 1 <=> ~(layer = 0)
    BY <1>1, <1>3
  <2> QED BY <1>1, <2>1 DEF InfillFirst
<1>7. InOrder' /\ slots' # <<>> /\ Head(slots') \in Quiet(s)
  <2>1. slots' \in Seq(Features(s)) /\ slots' # <<>>
    BY <1>4 DEF Whole, PartOfLayer
  <2>2. Head(slots') = slots'[1]
    BY <2>1
  <2> QED BY <1>1, <1>4, <1>6, <2>1, <2>2 DEF InOrder, Whole
<1>8. Counts'
  BY <1>1, <1>3 DEF WriterOK, Counts
<1>9. Aloft' = 0 /\ HasTool'
  BY <1>7 DEF Aloft, HasTool, Quiet, Plain
<1>10. AtHeight'
  <2>1. PrintZ(n) \in Int
    BY <1>3, HeightsTyped
  <2>2. CASE moved.z = PrintZ(n)
    BY <1>1, <1>9, <2>1, <2>2 DEF AtHeight
  <2>3. CASE s.spiral /\ n > 1 /\ moved.z = pen.z
    <3> SUFFICES ASSUME s.objects = 1
                 PROVE  pen.z <= PrintZ(n)
      BY <1>1, <1>9, <2>1, <2>3 DEF AtHeight
    <3>1. Layers \in Nat \ {0} /\ s.objects * Layers = Layers
      BY LayersAssumption
    <3>2. layer \in 1 .. Layers - 1
      BY <1>1, <1>3, <2>3, <3>1
    <3>3. PrintZ(layer) <= PrintZ(n) /\ PrintZ(layer) \in Int
      BY <1>3, <3>2, HeightsGrow, HeightsTyped
    <3>4. Aloft = 0 /\ pen.z \in Int
      BY <1>1, <1>3 DEF Aloft, Ready, Pen
    <3>5. pen.z <= PrintZ(layer)
      BY <2>3, <3>2, <3>3, <3>4 DEF WriterOK, AtHeight
    <3> HIDE DEF n
    <3> QED BY <2>1, <3>3, <3>4, <3>5
  <2> QED BY <1>5, <2>2, <2>3
<1>11. WriterOK'
  BY <1>1, <1>5, <1>7, <1>8, <1>9, <1>10 DEF WriterOK
<1>12. LinesRight'
  BY <1>1, <1>5 DEF LinesRight, OnLayer, Primed, RightFilament, Ready
<1> QED BY <1>11, <1>12

\* Whatever the settings, and however many layers and objects: every line of
\* every layer is laid at its layer, with the nozzle off its hop, the filament
\* back and the tool of its filament (LinesRight), because between two actions
\* the nozzle is level and the features are in order (WriterOK).
THEOREM LinesAreRight == Spec => [](WriterOK /\ LinesRight)
<1>1. Init => WriterOK /\ LinesRight
  <2> SUFFICES ASSUME Init
               PROVE  WriterOK /\ LinesRight
    OBVIOUS
  <2>1. settings \in Settings /\ settings.retraction \in Nat /\ settings.objects * Layers \in Nat
    BY LengthsTyped, LayersAssumption DEF Init
  <2>2. Ready(settings, pen)
    BY <2>1 DEF Init, Ready, Pen, Level
  <2>3. Counts /\ InOrder /\ AtHeight /\ HasTool
    BY <2>1 DEF Init, Counts, InOrder, AtHeight, HasTool
  <2>4. LinesRight
    BY <2>1 DEF Init, LinesRight, OnLayer, Primed, RightFilament
  <2> QED BY <2>2, <2>3, <2>4 DEF WriterOK
<1>2. WriterOK /\ LinesRight /\ [Next]_vars => WriterOK' /\ LinesRight'
  <2> SUFFICES ASSUME WriterOK, LinesRight, [Next]_vars
               PROVE  WriterOK' /\ LinesRight'
    OBVIOUS
  <2>1. CASE BeginLayer
    BY <2>1, BeginLayerSafe
  <2>2. CASE Path
    BY <2>2, PathSafe
  <2>3. CASE NextFeature
    BY <2>3, NextFeatureSafe
  <2>4. CASE TowerLift
    BY <2>4, TowerLiftSafe
  <2>5. CASE WallTool
    BY <2>5, WallToolSafe
  <2>6. CASE UNCHANGED vars
    <3>1. UNCHANGED <<settings, layer, slots, pen, bead>>
      BY <2>6 DEF vars
    <3>2. WriterOK'
      BY <3>1 DEF WriterOK, Counts, InOrder, AtHeight, HasTool, Aloft, InfillFirst
    <3>3. LinesRight'
      BY <3>1 DEF LinesRight, OnLayer, Primed, RightFilament
    <3> QED BY <3>2, <3>3
  <2> QED BY <2>1, <2>2, <2>3, <2>4, <2>5, <2>6 DEF Next
<1> QED BY <1>1, <1>2, PTL DEF Spec

-----------------------------------------------------------------------------
(* The part fan: a layer with the lines put in (PartCooling)               *)

\* The lines of a layer once the fans' have been put in.
LineKinds == {"move", "z", "fan", "aux"} \cup Marks

\* What the writer and insert_fan_after_z make of a layer: marks come in pairs,
\* ironing last; nothing is printed between a Z and a fan's line to come.
InPrintOrder(t) ==
    /\ t \in Seq(LineKinds) /\ t # <<>>
    /\ Paired(t, "overhang", "overhangEnd") /\ Paired(t, "ironing", "ironingEnd")
    /\ \A n, m \in DOMAIN t : t[n] = "overhang" /\ t[m] = "ironing" => n < m
    /\ \A z, f, n \in DOMAIN t : t[z] = "z" /\ t[f] = "fan" /\ z < n /\ n < f => t[n] \notin {"move", "z"}

\* What is put between the first p lines and the others.
PutIn(t, lines, p, inject) ==
    /\ t \in Seq(LineKinds)
    /\ Len(t) = Len(lines) + Len(inject)
    /\ \A n \in 1..p : t[n] = lines[n]
    /\ \A n \in 1..Len(inject) : t[p + n] = inject[n]
    /\ \A n \in (p + 1)..Len(lines) : t[n + Len(inject)] = lines[n]

\* Line p is the first with a Z.
FirstZ(lines, p) ==
    /\ p \in 1..Len(lines) /\ lines[p] = "z" /\ \A n \in 1..(p - 1) : lines[n] # "z"

\* What flush_layer may put in.
Injects == {<<>>, <<"fan">>, <<"aux">>, <<"fan", "aux">>}

\* Numbers have a least one: what the first line with a Z is found by.
LEMMA Least ==
    ASSUME NEW T, T \subseteq Nat, T # {}
    PROVE  \E m \in T : \A n \in T : m <= n
<1> DEFINE R == StrictSubsetOrdering(Nat)
           U == {1 .. n : n \in T}
           V == FiniteSubsetsOf(Nat)
<1>1. IsWellFoundedOn(R, V)
  BY FS_StrictSubsetOrderingWellFounded
<1>2. U \subseteq V /\ U # {}
  <2>1. ASSUME NEW n \in T PROVE 1 .. n \in V
    <3>1. 1 \in Int /\ n \in Int /\ 1 .. n \in SUBSET Nat
      OBVIOUS
    <3>2. IsFiniteSet(1 .. n)
      BY <3>1, FS_Interval, Zenon
    <3> QED BY <3>1, <3>2 DEF FiniteSubsetsOf
  <2> QED BY <2>1
<1>3. PICK u \in U : \A w \in U : ~(<<w, u>> \in R)
  <2> HIDE DEF R, U, V
  <2> QED BY <1>1, <1>2, WFMin
<1>4. PICK m \in T : u = 1 .. m
  OBVIOUS
<1>5. ASSUME NEW n \in T, n < m PROVE FALSE
  <2>1. 1 .. n \subseteq u /\ m \in u /\ m \notin 1 .. n
    BY <1>4, <1>5
  <2>2. <<1 .. n, u>> \in R
    BY <2>1, <1>4 DEF StrictSubsetOrdering
  <2> QED BY <1>3, <2>2
<1> QED BY <1>5


\* insert_fan_after_z finds the first line with a Z.
LEMMA HasFirstZ ==
    ASSUME NEW lines \in Seq(LineKinds), NEW zs, zs = {n \in DOMAIN lines : lines[n] = "z"}, zs # {},
           NEW p, p = CHOOSE n \in zs : \A m \in zs : n <= m
    PROVE  FirstZ(lines, p)
<1>1. zs \subseteq Nat
  OBVIOUS
<1>2. \E n \in zs : \A m \in zs : n <= m
  BY <1>1, Least
<1>3. p \in zs /\ \A m \in zs : p <= m
  BY <1>2
<1> QED BY <1>1, <1>3 DEF FirstZ

\* Only fans' lines are put in.
LEMMA InjectKinds ==
    ASSUME NEW inject \in Injects
    PROVE  inject \in Seq({"fan", "aux"})
<1>1. <<>> \in Seq({"fan", "aux"})
  OBVIOUS
<1>2. <<"fan">> \in Seq({"fan", "aux"})
  OBVIOUS
<1>3. <<"aux">> \in Seq({"fan", "aux"})
  OBVIOUS
<1>4. <<"fan", "aux">> \in Seq({"fan", "aux"})
  OBVIOUS
<1> QED BY <1>1, <1>2, <1>3, <1>4 DEF Injects

\* insert_fan_after_z puts the lines after the first Z, or at the end.
LEMMA PutsIn ==
    ASSUME NEW lines \in Seq(LineKinds), NEW inject \in Injects
    PROVE  \E p \in 0..Len(lines) :
              /\ PutIn(AfterZ(lines, inject), lines, p, inject)
              /\ \/ FirstZ(lines, p)
                 \/ p = Len(lines) /\ \A n \in DOMAIN lines : lines[n] # "z"
<1> DEFINE zs == {n \in DOMAIN lines : lines[n] = "z"}
           z == CHOOSE n \in zs : \A m \in zs : n <= m
<1>0. inject \in Seq(LineKinds)
  BY InjectKinds DEF LineKinds
<1>1. CASE zs = {}
  <2>1. AfterZ(lines, inject) = lines \o inject
    BY <1>1 DEF AfterZ
  <2>2. PutIn(lines \o inject, lines, Len(lines), inject)
    BY <1>0 DEF PutIn
  <2>3. \A n \in DOMAIN lines : lines[n] # "z"
    BY <1>1
  <2> QED BY <2>1, <2>2, <2>3
<1>2. CASE zs # {}
  <2>1. FirstZ(lines, z)
    BY <1>2, HasFirstZ
  <2> DEFINE p == z
             first == SubSeq(lines, 1, p)
             rest == SubSeq(lines, p + 1, Len(lines))
  <2>2. AfterZ(lines, inject) = first \o inject \o rest
    BY <1>2 DEF AfterZ
  <2> HIDE DEF z
  <2>3. p \in 1..Len(lines) /\ p \in Nat /\ Len(lines) \in Nat
    BY <2>1 DEF FirstZ
  <2>4. first \in Seq(LineKinds) /\ Len(first) = p /\ \A n \in 1..p : first[n] = lines[n]
    BY <2>3
  <2>5. /\ rest \in Seq(LineKinds) /\ Len(rest) = Len(lines) - p
        /\ \A n \in 1..(Len(lines) - p) : rest[n] = lines[p + n]
    BY <2>3
  <2> HIDE DEF first, rest
  <2>6. PutIn(first \o inject \o rest, lines, p, inject)
    <3>1. Len(first \o inject) = p + Len(inject)
      BY <1>0, <2>4
    <3>2. first \o inject \in Seq(LineKinds)
      BY <1>0, <2>4
    <3> DEFINE t == first \o inject \o rest
    <3>3. t \in Seq(LineKinds) /\ Len(t) = Len(lines) + Len(inject)
      <4> DEFINE u == first \o inject
      <4>0. u \in Seq(LineKinds) /\ Len(u) = p + Len(inject)
        BY <3>1, <3>2
      <4> HIDE DEF u
      <4>1. Len(u \o rest) = p + Len(inject) + (Len(lines) - p)
        BY <2>5, <4>0
      <4> USE DEF u
      <4>2. t \in Seq(LineKinds)
        BY <2>5, <3>2
      <4> QED BY <1>0, <2>3, <4>1, <4>2
    <3>4. \A n \in 1..p : t[n] = lines[n]
      BY <1>0, <2>3, <2>4, <2>5, <3>1, <3>2
    <3>5. \A n \in 1..Len(inject) : t[p + n] = inject[n]
      BY <1>0, <2>3, <2>4, <2>5, <3>1, <3>2
    <3>6. ASSUME NEW n \in (p + 1)..Len(lines) PROVE t[n + Len(inject)] = lines[n]
      <4> DEFINE i == n - p
      <4>0. i \in 1..(Len(lines) - p) /\ p + i = n /\ n + Len(inject) = p + Len(inject) + i
        BY <1>0, <2>3
      <4> HIDE DEF i
      <4>1. t[(p + Len(inject)) + i] = rest[i]
        BY <1>0, <2>3, <2>5, <3>1, <3>2, <4>0
      <4>2. rest[i] = lines[n]
        BY <2>5, <4>0
      <4> QED BY <4>0, <4>1, <4>2
    <3> HIDE DEF t
    <3> QED BY <3>3, <3>4, <3>5, <3>6 DEF PutIn, t
  <2> QED BY <2>1, <2>2, <2>3, <2>6
<1> QED BY <1>1, <1>2

\* The writer's lines are lines of a layer.
LEMMA KindsWiden ==
    ASSUME NEW lines \in Seq({"move", "z"} \cup Marks)
    PROVE  lines \in Seq(LineKinds)
<1>1. {"move", "z"} \cup Marks \subseteq LineKinds
  BY DEF LineKinds
<1> QED BY <1>1, SeqMonotonic

\* Where each line of the layer came from.
LEMMA PutLines ==
    ASSUME NEW lines \in Seq(LineKinds), NEW t, NEW p \in 0..Len(lines), NEW inject \in Injects,
           PutIn(t, lines, p, inject), NEW n \in DOMAIN t
    PROVE  \/ n \in 1..p /\ n \in DOMAIN lines /\ t[n] = lines[n]
           \/ n \in (p + 1)..(p + Len(inject)) /\ t[n] \in {"fan", "aux"}
           \/ n > p + Len(inject) /\ n - Len(inject) \in DOMAIN lines /\ t[n] = lines[n - Len(inject)]
<1> DEFINE k == Len(inject)
<1>0. inject \in Seq({"fan", "aux"})
  BY InjectKinds
<1>1. k \in Nat /\ Len(lines) \in Nat /\ p \in Nat
  BY <1>0
<1>2. DOMAIN t = 1..(Len(lines) + k)
  BY DEF PutIn
<1>3. CASE n <= p
  BY <1>1, <1>2, <1>3 DEF PutIn
<1>4. CASE p < n /\ n <= p + k
  <2>1. n - p \in 1..k /\ t[p + (n - p)] = inject[n - p] /\ p + (n - p) = n
    BY <1>1, <1>2, <1>4 DEF PutIn
  <2>2. inject[n - p] \in {"fan", "aux"}
    BY <1>0, <2>1, ElementOfSeq
  <2> QED BY <1>1, <1>2, <1>4, <2>1, <2>2
<1>5. CASE p + k < n
  <2>1. n - k \in (p + 1)..Len(lines) /\ t[(n - k) + k] = lines[n - k] /\ (n - k) + k = n
    BY <1>1, <1>2, <1>5 DEF PutIn
  <2> QED BY <1>1, <1>2, <1>5, <2>1
<1> QED BY <1>1, <1>2, <1>3, <1>4, <1>5

\* Fans' lines leave the pairs as they were, also where they come in between.
LEMMA PutPaired ==
    ASSUME NEW lines \in Seq(LineKinds), NEW t, NEW p \in 0..Len(lines), NEW inject \in Injects,
           PutIn(t, lines, p, inject),
           NEW mark \in Marks, NEW end \in Marks, Paired(lines, mark, end)
    PROVE  Paired(t, mark, end)
<1> DEFINE k == Len(inject)
           At(n) == IF n <= p THEN n ELSE n + k
<1>1. k \in Nat /\ DOMAIN t = 1..(Len(lines) + k) /\ Len(lines) \in Nat
  <2>1. inject \in Seq({"fan", "aux"})
    BY InjectKinds
  <2> QED BY <2>1 DEF PutIn
<1>2. \A n \in DOMAIN lines : At(n) \in DOMAIN t /\ At(n) \in Int /\ t[At(n)] = lines[n]
  <2> SUFFICES ASSUME NEW n \in DOMAIN lines PROVE At(n) \in DOMAIN t /\ t[At(n)] = lines[n]
    BY <1>1
  <2>1. n \in 1..Len(lines)
    OBVIOUS
  <2>2. CASE n <= p
    BY <1>1, <2>1, <2>2 DEF PutIn
  <2>3. CASE ~(n <= p)
    <3>1. n \in (p + 1)..Len(lines)
      BY <1>1, <2>1, <2>3
    <3>2. t[n + k] = lines[n] /\ n + k \in DOMAIN t
      BY <1>1, <3>1 DEF PutIn
    <3> QED BY <2>3, <3>2
  <2> QED BY <2>2, <2>3
<1>3. \A m, n \in DOMAIN lines : At(m) < At(n) <=> m < n
  BY <1>1
<1>4. ASSUME NEW j \in DOMAIN t, t[j] \in Marks
      PROVE  \E n \in DOMAIN lines : j = At(n)
  <2>1. t[j] \notin {"fan", "aux"}
    BY <1>4 DEF Marks
  <2>2. \/ j \in 1..p /\ j \in DOMAIN lines
        \/ j > p + k /\ j - k \in DOMAIN lines
    BY <2>1, PutLines
  <2>3. CASE j \in 1..p /\ j \in DOMAIN lines
    BY <2>3
  <2>4. CASE j > p + k /\ j - k \in DOMAIN lines
    <3>1. At(j - k) = j
      BY <1>1, <2>4
    <3> QED BY <2>4, <3>1
  <2> QED BY <2>2, <2>3, <2>4
<1> HIDE DEF At, k
<1>5. \A a, b \in Int : \A j \in DOMAIN t : j \in (a + 1)..(b - 1) <=> a < j /\ j < b
  OBVIOUS
<1>6. \A a, b, j \in DOMAIN lines : a < j /\ j < b => j \in (a + 1)..(b - 1)
  OBVIOUS
<1>7. ASSUME NEW a \in DOMAIN lines, NEW b \in DOMAIN lines,
             \A j \in (a + 1)..(b - 1) : lines[j] \notin Marks
      PROVE  \A j \in (At(a) + 1)..(At(b) - 1) : t[j] \notin Marks
  <2> SUFFICES ASSUME NEW j \in (At(a) + 1)..(At(b) - 1), t[j] \in Marks PROVE FALSE
    OBVIOUS
  <2>1. j \in DOMAIN t
    <3>1. At(a) \in DOMAIN t /\ At(b) \in DOMAIN t
      BY <1>2
    <3> QED BY <1>1, <3>1
  <2>2. At(a) < j /\ j < At(b)
    BY <1>2, <2>1, <1>5
  <2>3. PICK n \in DOMAIN lines : j = At(n)
    BY <1>4, <2>1
  <2>4. n \in (a + 1)..(b - 1)
    BY <1>3, <1>6, <2>2, <2>3
  <2> QED BY <1>2, <1>7, <2>3, <2>4
<1>8. ASSUME NEW n \in DOMAIN t, t[n] = mark
      PROVE  \E m \in DOMAIN t : n < m /\ t[m] = end /\ \A j \in (n + 1)..(m - 1) : t[j] \notin Marks
  <2>1. PICK a \in DOMAIN lines : n = At(a)
    BY <1>4, <1>8
  <2>2. lines[a] = mark
    BY <1>2, <1>8, <2>1
  <2>3. PICK b \in DOMAIN lines : a < b /\ lines[b] = end /\ \A j \in (a + 1)..(b - 1) : lines[j] \notin Marks
    BY <2>2 DEF Paired
  <2> QED BY <1>2, <1>3, <1>7, <2>1, <2>3
<1>9. ASSUME NEW m \in DOMAIN t, t[m] = end
      PROVE  \E n \in DOMAIN t : n < m /\ t[n] = mark /\ \A j \in (n + 1)..(m - 1) : t[j] \notin Marks
  <2>1. PICK b \in DOMAIN lines : m = At(b)
    BY <1>4, <1>9
  <2>2. lines[b] = end
    BY <1>2, <1>9, <2>1
  <2>3. PICK a \in DOMAIN lines : a < b /\ lines[a] = mark /\ \A j \in (a + 1)..(b - 1) : lines[j] \notin Marks
    BY <2>2 DEF Paired
  <2> QED BY <1>2, <1>3, <1>7, <2>1, <2>3
<1> QED BY <1>8, <1>9 DEF Paired

\* The lines of a layer as they come out of insert_fan_after_z.
LEMMA LaidOut ==
    ASSUME NEW lines \in Texts, NEW inject \in Injects
    PROVE  InPrintOrder(AfterZ(lines, inject))
<1>1. /\ lines \in Seq({"move", "z"} \cup Marks) /\ lines # <<>>
      /\ Paired(lines, "overhang", "overhangEnd") /\ Paired(lines, "ironing", "ironingEnd")
      /\ \A n, m \in DOMAIN lines : lines[n] = "overhang" /\ lines[m] = "ironing" => n < m
  BY TextsAssumption
<1>2. lines \in Seq(LineKinds)
  BY <1>1, KindsWiden
<1> DEFINE t == AfterZ(lines, inject)
           k == Len(inject)
<1>3. PICK p \in 0..Len(lines) :
         /\ PutIn(t, lines, p, inject)
         /\ \/ FirstZ(lines, p)
            \/ p = Len(lines) /\ \A n \in DOMAIN lines : lines[n] # "z"
  BY <1>2, PutsIn
<1> HIDE DEF t
<1>4. k \in Nat /\ Len(lines) \in Nat /\ p \in Nat /\ DOMAIN t = 1..(Len(lines) + k) /\ t \in Seq(LineKinds)
  <2>1. inject \in Seq({"fan", "aux"})
    BY InjectKinds
  <2> QED BY <1>2, <1>3, <2>1 DEF PutIn
<1>6. /\ Paired(t, "overhang", "overhangEnd")
      /\ Paired(t, "ironing", "ironingEnd")
  <2>1. {"overhang", "overhangEnd", "ironing", "ironingEnd"} \subseteq Marks
    BY DEF Marks
  <2> QED BY <1>1, <1>2, <1>3, <2>1, PutPaired
<1>7. ASSUME NEW n \in DOMAIN t
      PROVE  \/ n \in 1..p /\ n \in DOMAIN lines /\ t[n] = lines[n]
             \/ n \in (p + 1)..(p + k) /\ t[n] \in {"fan", "aux"}
             \/ n > p + k /\ n - k \in DOMAIN lines /\ t[n] = lines[n - k]
  BY <1>2, <1>3, PutLines
<1> HIDE DEF k
<1>8. ASSUME NEW n \in DOMAIN t, t[n] \in Marks
      PROVE  \/ n <= p /\ n \in DOMAIN lines /\ t[n] = lines[n]
             \/ n > p + k /\ n - k \in DOMAIN lines /\ t[n] = lines[n - k]
  <2>1. t[n] \notin {"fan", "aux"}
    BY <1>8 DEF Marks
  <2> QED BY <1>4, <1>7, <2>1
<1>9. ASSUME NEW n \in DOMAIN lines PROVE lines[n] \in {"move", "z"} \cup Marks
  <2> DEFINE S == {"move", "z"} \cup Marks
  <2>0. n \in 1..Len(lines)
    BY <1>2
  <2>1. lines \in Seq(S)
    BY <1>1, Zenon
  <2> HIDE DEF S
  <2>2. lines[n] \in S
    BY <2>0, <2>1, ElementOfSeq
  <2> QED BY <2>2 DEF S
<1>10. ASSUME NEW f \in DOMAIN t, t[f] \in {"fan", "aux"}
       PROVE  f \in (p + 1)..(p + k)
  <2>1. t[f] \notin {"move", "z"} \cup Marks
    BY <1>10 DEF Marks
  <2> QED BY <1>7, <1>9, <2>1
<1>11. \A n, m \in DOMAIN t : t[n] = "overhang" /\ t[m] = "ironing" => n < m
  <2> SUFFICES ASSUME NEW n \in DOMAIN t, NEW m \in DOMAIN t, t[n] = "overhang", t[m] = "ironing"
               PROVE  n < m
    OBVIOUS
  <2>1. t[n] \in Marks /\ t[m] \in Marks
    BY DEF Marks
  <2>2. PICK a \in DOMAIN lines : lines[a] = "overhang" /\ ((a = n /\ n <= p) \/ (a = n - k /\ n > p + k))
    BY <1>8, <2>1
  <2>3. PICK b \in DOMAIN lines : lines[b] = "ironing" /\ ((b = m /\ m <= p) \/ (b = m - k /\ m > p + k))
    BY <1>8, <2>1
  <2>4. a < b
    BY <1>1, <2>2, <2>3
  <2> QED BY <1>4, <2>2, <2>3, <2>4
<1>13. \A z, f, n \in DOMAIN t : t[z] = "z" /\ t[f] = "fan" /\ z < n /\ n < f => t[n] \notin {"move", "z"}
  <2> SUFFICES ASSUME NEW z \in DOMAIN t, NEW f \in DOMAIN t, NEW n \in DOMAIN t,
                      t[z] = "z", t[f] = "fan", z < n, n < f
               PROVE  t[n] \notin {"move", "z"}
    OBVIOUS
  <2>1. f \in (p + 1)..(p + k)
    BY <1>10
  <2>2. z \in 1..p /\ z \in DOMAIN lines /\ lines[z] = "z"
    BY <1>4, <1>7, <2>1
  <2>3. FirstZ(lines, p)
    BY <1>3, <2>2
  <2>4. ~(z < p)
    BY <1>4, <2>2, <2>3 DEF FirstZ
  <2>5. n \in (p + 1)..(p + k)
    BY <1>4, <2>1, <2>2, <2>4
  <2> QED BY <1>4, <1>7, <2>5
<1>14. t # <<>>
  <2>1. \A other \in Seq(LineKinds) : other # <<>> => Len(other) \in Nat \ {0}
    BY EmptySeq
  <2>2. Len(lines) \in Nat \ {0}
    BY <1>1, <1>2, <2>1, Zenon
  <2> QED BY <1>4, <2>2
<1> QED BY <1>4, <1>6, <1>11, <1>13, <1>14 DEF InPrintOrder, t

\* The lines asked for are there.
LEMMA PutsThem ==
    ASSUME NEW lines \in Texts, NEW inject \in Injects, NEW line \in {"fan", "aux"}
    PROVE  (\E n \in DOMAIN AfterZ(lines, inject) : AfterZ(lines, inject)[n] = line)
              <=> \E n \in DOMAIN inject : inject[n] = line
<1>1. lines \in Seq({"move", "z"} \cup Marks)
  BY TextsAssumption
<1>2. lines \in Seq(LineKinds)
  BY <1>1, KindsWiden
<1> DEFINE t == AfterZ(lines, inject)
           k == Len(inject)
<1>3. PICK p \in 0..Len(lines) : PutIn(t, lines, p, inject)
  BY <1>2, PutsIn
<1> HIDE DEF t
<1>4. /\ k \in Nat /\ Len(lines) \in Nat /\ p \in Nat /\ DOMAIN t = 1..(Len(lines) + k)
      /\ DOMAIN inject = 1..k
  <2>1. inject \in Seq({"fan", "aux"})
    BY InjectKinds
  <2> QED BY <1>2, <1>3, <2>1 DEF PutIn
<1>5. \A n \in DOMAIN lines : lines[n] # line
  <2>1. ASSUME NEW n \in DOMAIN lines PROVE lines[n] \in {"move", "z"} \cup Marks
    BY <1>1, ElementOfSeq
  <2> QED BY <2>1 DEF Marks
<1>6. ASSUME NEW n \in DOMAIN t, t[n] = line PROVE \E m \in DOMAIN inject : inject[m] = line
  <2>1. n \in (p + 1)..(p + k)
    BY <1>2, <1>3, <1>5, <1>6, PutLines
  <2>2. n - p \in 1..k /\ t[p + (n - p)] = inject[n - p] /\ p + (n - p) = n
    BY <1>3, <1>4, <2>1 DEF PutIn
  <2> QED BY <1>4, <1>6, <2>2
<1>7. ASSUME NEW m \in DOMAIN inject, inject[m] = line PROVE \E n \in DOMAIN t : t[n] = line
  <2>1. t[p + m] = inject[m] /\ p + m \in DOMAIN t
    BY <1>3, <1>4 DEF PutIn
  <2> QED BY <1>7, <2>1
<1> QED BY <1>6, <1>7 DEF t

-----------------------------------------------------------------------------
(* Between a mark and its end *)

\* Line a of t lies between a mark and its end.
Inside(t, a, mark, end) ==
    \E n \in 1..(a - 1) : t[n] = mark /\ \A m \in (n + 1)..(a - 1) : t[m] # end

\* Inside, the next mark is the end, and it is still to come.
LEMMA EndComes ==
    ASSUME NEW t \in Seq(LineKinds), NEW a \in Nat \ {0}, NEW mark \in Marks, NEW end \in Marks,
           Paired(t, mark, end), a <= Len(t) + 1, Inside(t, a, mark, end)
    PROVE  a <= Len(t) /\ (t[a] = end \/ t[a] \notin Marks)
<1>1. PICK n \in 1..(a - 1) : t[n] = mark /\ \A m \in (n + 1)..(a - 1) : t[m] # end
  BY DEF Inside
<1>2. n \in DOMAIN t /\ n \in Nat /\ n < a
  BY <1>1
<1>3. PICK e \in DOMAIN t : n < e /\ t[e] = end /\ \A j \in (n + 1)..(e - 1) : t[j] \notin Marks
  BY <1>1, <1>2 DEF Paired
<1>4. e \in 1..Len(t) /\ Len(t) \in Nat
  OBVIOUS
<1>5. a <= e
  BY <1>1, <1>2, <1>3, <1>4
<1>6. CASE a = e
  BY <1>3, <1>4, <1>6
<1>7. CASE a < e
  BY <1>2, <1>3, <1>4, <1>7
<1> QED BY <1>4, <1>5, <1>6, <1>7

\* An end is reached from its mark.
LEMMA MarkCame ==
    ASSUME NEW t \in Seq(LineKinds), NEW a \in DOMAIN t, NEW mark \in Marks, NEW end \in Marks,
           Paired(t, mark, end), t[a] = end
    PROVE  Inside(t, a, mark, end)
<1>1. PICK n \in DOMAIN t : n < a /\ t[n] = mark /\ \A j \in (n + 1)..(a - 1) : t[j] \notin Marks
  BY DEF Paired
<1>2. n \in 1..(a - 1)
  BY <1>1
<1>3. \A j \in (n + 1)..(a - 1) : t[j] # end
  BY <1>1
<1> QED BY <1>1, <1>2, <1>3 DEF Inside

\* What a line does to being between a mark and its end.
LEMMA InsideNext ==
    ASSUME NEW t, NEW a \in Nat \ {0}, NEW mark, NEW end, mark # end
    PROVE  Inside(t, a + 1, mark, end) <=> t[a] = mark \/ (Inside(t, a, mark, end) /\ t[a] # end)
<1>1. ASSUME Inside(t, a + 1, mark, end), t[a] # mark PROVE Inside(t, a, mark, end) /\ t[a] # end
  <2>1. PICK n \in 1..a : t[n] = mark /\ \A m \in (n + 1)..a : t[m] # end
    BY <1>1 DEF Inside
  <2>2. n \in 1..(a - 1)
    BY <1>1, <2>1
  <2>3. t[a] # end /\ \A m \in (n + 1)..(a - 1) : t[m] # end
    BY <2>1, <2>2
  <2> QED BY <2>1, <2>2, <2>3 DEF Inside
<1>2. ASSUME t[a] = mark PROVE Inside(t, a + 1, mark, end)
  <2>1. a \in 1..(a + 1 - 1) /\ (a + 1)..(a + 1 - 1) = {}
    OBVIOUS
  <2> QED BY <1>2, <2>1 DEF Inside
<1>3. ASSUME Inside(t, a, mark, end), t[a] # end PROVE Inside(t, a + 1, mark, end)
  <2>1. PICK n \in 1..(a - 1) : t[n] = mark /\ \A m \in (n + 1)..(a - 1) : t[m] # end
    BY <1>3 DEF Inside
  <2>2. n \in 1..(a + 1 - 1) /\ \A m \in (n + 1)..(a + 1 - 1) : t[m] # end
    BY <1>3, <2>1
  <2> QED BY <2>1, <2>2 DEF Inside
<1> QED BY <1>1, <1>2, <1>3

\* An overhang and ironing do not overlap.
LEMMA NotInBoth ==
    ASSUME NEW t \in Seq(LineKinds), InPrintOrder(t), NEW a \in Nat \ {0}, a <= Len(t)
    PROVE  ~(Inside(t, a, "overhang", "overhangEnd") /\ Inside(t, a, "ironing", "ironingEnd"))
<1>0. /\ \A n \in 1..(a - 1) : n \in DOMAIN t
      /\ \A n, m \in 1..(a - 1), e \in DOMAIN t :
            n < m /\ n < e /\ ~(e \in (n + 1)..(a - 1)) => m \in (n + 1)..(e - 1)
  OBVIOUS
<1> SUFFICES ASSUME Inside(t, a, "overhang", "overhangEnd"), Inside(t, a, "ironing", "ironingEnd")
             PROVE  FALSE
  OBVIOUS
<1>1. PICK n \in 1..(a - 1) : t[n] = "overhang" /\ \A m \in (n + 1)..(a - 1) : t[m] # "overhangEnd"
  BY DEF Inside
<1>2. PICK i \in 1..(a - 1) : t[i] = "ironing"
  BY DEF Inside
<1>3. n \in DOMAIN t /\ i \in DOMAIN t
  BY <1>0, <1>1, <1>2, Zenon
<1>4. n < i
  BY <1>1, <1>2, <1>3 DEF InPrintOrder
<1>5. PICK e \in DOMAIN t : n < e /\ t[e] = "overhangEnd" /\ \A j \in (n + 1)..(e - 1) : t[j] \notin Marks
  BY <1>1, <1>3 DEF InPrintOrder, Paired
<1>6. ~(e \in (n + 1)..(a - 1))
  BY <1>1, <1>5
<1>7. i \in (n + 1)..(e - 1)
  BY <1>0, <1>1, <1>2, <1>4, <1>5, <1>6, Zenon
<1>8. "ironing" \in Marks
  BY DEF Marks
<1> QED BY <1>2, <1>5, <1>7, <1>8

\* Once ironing has begun no overhang is left.
LEMMA NoneAfterIroning ==
    ASSUME NEW t \in Seq(LineKinds), InPrintOrder(t), NEW a \in Nat \ {0}, NEW n \in DOMAIN t, t[n] = "overhang", a <= n
    PROVE  ~Inside(t, a, "ironing", "ironingEnd") /\ (a \in DOMAIN t => t[a] # "ironing")
<1>1. t \in Seq(LineKinds)
  BY DEF InPrintOrder
<1>2. ASSUME NEW i \in DOMAIN t, t[i] = "ironing" PROVE n < i
  BY <1>2 DEF InPrintOrder
<1>3. ~Inside(t, a, "ironing", "ironingEnd")
  <2> SUFFICES ASSUME NEW i \in 1..(a - 1), t[i] = "ironing"
               PROVE  FALSE
    BY DEF Inside
  <2>1. i \in DOMAIN t /\ i < n
    BY <1>1
  <2> QED BY <1>1, <1>2, <2>1
<1>4. ASSUME a \in DOMAIN t, t[a] = "ironing" PROVE FALSE
  <2>1. n < a /\ n \in Nat
    BY <1>1, <1>2, <1>4
  <2> QED BY <2>1
<1> QED BY <1>3, <1>4

-----------------------------------------------------------------------------
(* The time in between *)

\* The lines that take time, from one up to another.
Timed(t, from, to) == {m \in from..(to - 1) : t[m] \in {"move", "z"}}

\* They can be counted.
LEMMA TimedCounted ==
    ASSUME NEW t, NEW from \in Int, NEW to \in Int
    PROVE  IsFiniteSet(Timed(t, from, to)) /\ Cardinality(Timed(t, from, to)) \in Nat
<1>1. IsFiniteSet(from..(to - 1))
  BY FS_Interval
<1>2. Timed(t, from, to) \in SUBSET (from..(to - 1))
  BY DEF Timed
<1>3. IsFiniteSet(Timed(t, from, to))
  BY <1>1, <1>2, FS_Subset
<1> QED BY <1>3, FS_CardinalityType

\* From a line to itself there are none.
LEMMA TimedNone ==
    ASSUME NEW t, NEW a \in Int
    PROVE  Cardinality(Timed(t, a, a)) = 0
<1>1. Timed(t, a, a) = {}
  BY DEF Timed
<1> QED BY <1>1, FS_EmptySet

\* The time from a line on is its own and that from the next line on.
LEMMA TimedFirst ==
    ASSUME NEW t, NEW from \in Int, NEW to \in Int, from < to
    PROVE  Cardinality(Timed(t, from, to))
              = (IF t[from] \in {"move", "z"} THEN 1 ELSE 0) + Cardinality(Timed(t, from + 1, to))
<1>1. IsFiniteSet(Timed(t, from + 1, to)) /\ Cardinality(Timed(t, from + 1, to)) \in Nat
  BY TimedCounted
<1>2. from \notin Timed(t, from + 1, to)
  BY DEF Timed
<1>3. CASE t[from] \in {"move", "z"}
  <2>1. Timed(t, from, to) = Timed(t, from + 1, to) \cup {from}
    BY <1>3 DEF Timed
  <2>2. Cardinality(Timed(t, from + 1, to) \cup {from}) = Cardinality(Timed(t, from + 1, to)) + 1
    BY <1>1, <1>2, FS_AddElement
  <2> QED BY <1>1, <1>3, <2>1, <2>2
<1>4. CASE t[from] \notin {"move", "z"}
  <2>1. Timed(t, from, to) = Timed(t, from + 1, to)
    BY <1>4 DEF Timed
  <2> QED BY <1>1, <1>4, <2>1
<1> QED BY <1>3, <1>4

\* The time up to the line after is that up to the line and its own.
LEMMA TimedLast ==
    ASSUME NEW t, NEW from \in Int, NEW to \in Int, from <= to
    PROVE  Cardinality(Timed(t, from, to + 1))
              = Cardinality(Timed(t, from, to)) + (IF t[to] \in {"move", "z"} THEN 1 ELSE 0)
<1>1. IsFiniteSet(Timed(t, from, to)) /\ Cardinality(Timed(t, from, to)) \in Nat
  BY TimedCounted
<1>2. to \notin Timed(t, from, to)
  BY DEF Timed
<1>3. CASE t[to] \in {"move", "z"}
  <2>1. Timed(t, from, to + 1) = Timed(t, from, to) \cup {to}
    BY <1>3 DEF Timed
  <2>2. Cardinality(Timed(t, from, to) \cup {to}) = Cardinality(Timed(t, from, to)) + 1
    BY <1>1, <1>2, FS_AddElement
  <2> QED BY <1>1, <1>3, <2>1, <2>2
<1>4. CASE t[to] \notin {"move", "z"}
  <2>1. Timed(t, from, to + 1) = Timed(t, from, to)
    BY <1>4 DEF Timed
  <2> QED BY <1>1, <1>4, <2>1
<1> QED BY <1>3, <1>4

-----------------------------------------------------------------------------
(* What a line changes *)

\* At line a of t: over an overhang, in ironing, and with such a line to come.
Over(t, a) == Inside(t, a, "overhang", "overhangEnd")
Iron(t, a) == Inside(t, a, "ironing", "ironingEnd")
Ahead(t, a, line) == \E n \in DOMAIN t : a <= n /\ t[n] = line

\* Marks are not printed.
LEMMA MarkKinds ==
    /\ {"overhang", "overhangEnd", "ironing", "ironingEnd"} \subseteq Marks
    /\ {"move", "z", "fan", "aux"} \cap Marks = {}
BY DEF Marks

\* Between a mark and its end no other mark.
LEMMA InsideQuiet ==
    ASSUME NEW t \in Seq(LineKinds), InPrintOrder(t), NEW a \in Nat \ {0}, a <= Len(t)
    PROVE  /\ Over(t, a) => t[a] = "overhangEnd" \/ t[a] \notin Marks
           /\ Iron(t, a) => t[a] = "ironingEnd" \/ t[a] \notin Marks
           /\ t[a] = "overhangEnd" => Over(t, a)
           /\ t[a] = "ironingEnd" => Iron(t, a)
           /\ ~(Over(t, a) /\ Iron(t, a))
<1>1. Paired(t, "overhang", "overhangEnd") /\ Paired(t, "ironing", "ironingEnd")
  BY DEF InPrintOrder
<1>2. /\ "overhang" \in Marks /\ "overhangEnd" \in Marks
      /\ "ironing" \in Marks /\ "ironingEnd" \in Marks
  BY DEF Marks
<1>3. a <= Len(t) + 1 /\ a \in DOMAIN t
  OBVIOUS
<1>4. Over(t, a) => t[a] = "overhangEnd" \/ t[a] \notin Marks
  BY <1>1, <1>2, <1>3, EndComes, Zenon DEF Over
<1>5. Iron(t, a) => t[a] = "ironingEnd" \/ t[a] \notin Marks
  BY <1>1, <1>2, <1>3, EndComes, Zenon DEF Iron
<1>6. t[a] = "overhangEnd" => Over(t, a)
  BY <1>1, <1>2, <1>3, MarkCame, Zenon DEF Over
<1>7. t[a] = "ironingEnd" => Iron(t, a)
  BY <1>1, <1>2, <1>3, MarkCame, Zenon DEF Iron
<1>8. ~(Over(t, a) /\ Iron(t, a))
  BY NotInBoth DEF Over, Iron
<1> QED BY <1>4, <1>5, <1>6, <1>7, <1>8

\* Past a line: an overhang or ironing has begun, or goes on.
LEMMA InsideAfter ==
    ASSUME NEW t \in Seq(LineKinds), NEW a \in Nat \ {0}
    PROVE  /\ Over(t, a + 1) <=> t[a] = "overhang" \/ (Over(t, a) /\ t[a] # "overhangEnd")
           /\ Iron(t, a + 1) <=> t[a] = "ironing" \/ (Iron(t, a) /\ t[a] # "ironingEnd")
<1>1. "overhang" # "overhangEnd" /\ "ironing" # "ironingEnd"
  OBVIOUS
<1>2. Over(t, a + 1) <=> t[a] = "overhang" \/ (Over(t, a) /\ t[a] # "overhangEnd")
  BY <1>1, InsideNext, Zenon DEF Over
<1>3. Iron(t, a + 1) <=> t[a] = "ironing" \/ (Iron(t, a) /\ t[a] # "ironingEnd")
  BY <1>1, InsideNext, Zenon DEF Iron
<1> QED BY <1>2, <1>3

\* A line to come is this one or comes later.
LEMMA AheadNext ==
    ASSUME NEW t \in Seq(LineKinds), NEW a \in Nat \ {0}, NEW line
    PROVE  /\ Ahead(t, a + 1, line) => Ahead(t, a, line)
           /\ Ahead(t, a, line) => Ahead(t, a + 1, line) \/ t[a] = line
<1>1. \A n \in DOMAIN t : (a + 1 <= n => a <= n) /\ (a <= n => a + 1 <= n \/ a = n)
  OBVIOUS
<1> QED BY <1>1, Zenon DEF Ahead

\* With an overhang to come there is no ironing.
LEMMA IroningLast ==
    ASSUME NEW t \in Seq(LineKinds), InPrintOrder(t), NEW a \in Nat \ {0}, a <= Len(t), Ahead(t, a, "overhang")
    PROVE  ~Iron(t, a) /\ t[a] # "ironing"
<1>1. PICK n \in DOMAIN t : a <= n /\ t[n] = "overhang"
  BY DEF Ahead
<1>2. a \in DOMAIN t
  OBVIOUS
<1> QED BY <1>1, <1>2, NoneAfterIroning, Zenon DEF Iron

\* Past the last line nothing is open and nothing to come.
LEMMA ClosedAtEnd ==
    ASSUME NEW t \in Seq(LineKinds), InPrintOrder(t)
    PROVE  /\ ~Over(t, Len(t) + 1) /\ ~Iron(t, Len(t) + 1)
           /\ \A line : ~Ahead(t, Len(t) + 1, line)
<1>1. Paired(t, "overhang", "overhangEnd") /\ Paired(t, "ironing", "ironingEnd")
  BY DEF InPrintOrder
<1>2. /\ "overhang" \in Marks /\ "overhangEnd" \in Marks
      /\ "ironing" \in Marks /\ "ironingEnd" \in Marks
  BY DEF Marks
<1> DEFINE a == Len(t) + 1
<1>3. a \in Nat \ {0} /\ a <= Len(t) + 1 /\ ~(a <= Len(t)) /\ \A n \in DOMAIN t : ~(a <= n)
  OBVIOUS
<1> HIDE DEF a
<1>4. ~Over(t, a)
  BY <1>1, <1>2, <1>3, EndComes, Zenon DEF Over
<1>5. ~Iron(t, a)
  BY <1>1, <1>2, <1>3, EndComes, Zenon DEF Iron
<1>6. \A line : ~Ahead(t, a, line)
  BY <1>3, Zenon DEF Ahead
<1> QED BY <1>4, <1>5, <1>6 DEF a

-----------------------------------------------------------------------------
(* The invariant: what the fan is, and is believed to be, at each line      *)

\* The look-ahead has set the overhang's fan, for the overhang it is at.
Boosted ==
    /\ Boosts /\ current = fans.overhang
    /\ look \in written..Len(text) /\ text[look] = "overhang"
    /\ Cardinality(Timed(text, written, look)) <= fans.preStart

\* rewrite_feature_fans believes in the fan the place calls for, unless the
\* look-ahead has boosted it.
CurrentOK ==
    /\ Over(text, written) /\ Boosts => current = fans.overhang
    /\ Iron(text, written) /\ Irons => current = fans.ironing
    /\ ~(Over(text, written) /\ Boosts) /\ ~(Iron(text, written) /\ Irons) => current = want.fan \/ Boosted

\* The layer's own line came after the boost, or after ironing began, and took
\* it back.
TakenBack ==
    /\ early /\ fan = want.fan
    /\ \/ Boosts /\ current = fans.overhang /\ ~Iron(text, written)
       \/ Irons /\ current = fans.ironing /\ Iron(text, written)

\* Up to the layer's own fan line its belief runs ahead of the machine; from
\* there on it is right, but for a boost the line has taken back.
FanOK ==
    IF Ahead(text, written, "fan") THEN current = want.fan \/ early
    ELSE fan = current \/ TakenBack

\* The look-ahead is no further than the time it has counted.
TimesOK == Cardinality(Timed(text, written, LookAt)) <= AheadAt - seen

\* The auxiliary fan is right, or its line is still to come.
AuxOK == fans.aux => want.aux = AuxFan(fans, nth) /\ (aux = want.aux \/ Ahead(text, written, "aux"))

\* Within a layer.
LayerOK ==
    /\ InPrintOrder(text) /\ written \in 1..Len(text)
    /\ look \in Nat \ {0} /\ seen \in Nat /\ ahead \in Nat
    /\ CurrentOK /\ FanOK /\ TimesOK /\ AuxOK

\* Between layers the machine has what the last one asked for.
BetweenOK ==
    /\ fan = want.fan
    /\ fans.aux => aux = want.aux /\ (nth > 0 => want.aux = AuxFan(fans, nth - 1))

\* The inductive invariant.
CoolingOK ==
    /\ fans \in Fans /\ nth \in Nat
    /\ want.fan \in Int /\ current \in Int
    /\ IF Idle THEN BetweenOK ELSE LayerOK

-----------------------------------------------------------------------------
(* Fans are numbers *)

\* The settings, one by one.
LEMMA FansTyped ==
    ASSUME NEW s \in Fans
    PROVE  /\ s.close \in Nat /\ s.full \in Nat /\ s.first \in Nat /\ s.min \in Nat /\ s.max \in Nat
           /\ s.slow \in Nat /\ s.cool \in Nat /\ s.overhang \in Nat /\ s.preStart \in Nat
           /\ s.ironing \in Int /\ s.keep \in BOOLEAN /\ s.boost \in BOOLEAN
BY FansAssumption

\* Speeds are numbers, also on a ramp.
LEMMA RampTyped ==
    ASSUME NEW from \in Int, NEW to \in Int, NEW n \in Int, NEW d \in Nat \ {0}
    PROVE  Ramp(from, to, n, d) \in Int
<1> DEFINE sum == 2 * (from * (d - n) + to * n) + d
           by == 2 * d
<1>1. from * (d - n) \in Int /\ to * n \in Int
  OBVIOUS
<1>2. sum \in Int /\ by \in Int /\ by > 0
  BY <1>1
<1> HIDE DEF sum, by
<1>3. sum \div by \in Int
  BY <1>2
<1> QED BY <1>3 DEF Ramp, sum, by

\* part_fan_percent is a number.
LEMMA PartFanTyped ==
    ASSUME NEW s \in Fans, NEW id \in Nat, NEW time \in Nat
    PROVE  PartFan(s, id, time) \in Int
<1> DEFINE close == Close(s)
           steady == CASE time < s.slow -> s.max
                       [] time >= s.slow /\ time < s.cool ->
                             ((time - s.slow) * s.min + (s.cool - time) * s.max) \div (s.cool - s.slow)
                       [] OTHER -> IF s.keep THEN s.min ELSE 0
<1>1. close \in Nat
  BY FansTyped DEF Close
<1>2. steady \in Int
  <2>1. CASE time < s.slow
    BY <2>1, FansTyped
  <2>2. CASE time >= s.slow /\ time < s.cool
    <3> DEFINE sum == (time - s.slow) * s.min + (s.cool - time) * s.max
               by == s.cool - s.slow
    <3>1. (time - s.slow) * s.min \in Int /\ (s.cool - time) * s.max \in Int
      BY FansTyped
    <3>2. sum \in Int /\ by \in Int /\ by > 0
      BY <2>2, <3>1, FansTyped
    <3>3. steady = sum \div by
      BY <2>2, FansTyped
    <3> HIDE DEF sum, by, steady
    <3>4. sum \div by \in Int
      BY <3>2
    <3> QED BY <3>3, <3>4
  <2>3. CASE ~(time < s.slow) /\ ~(time >= s.slow /\ time < s.cool)
    BY <2>3, FansTyped
  <2> QED BY <2>1, <2>2, <2>3
<1> HIDE DEF close, steady
<1>3. PartFan(s, id, time)
        = CASE id < close -> s.first
            [] id >= close /\ id + 1 < s.full -> Ramp(s.first, steady, id + 1 - close, s.full - close)
            [] OTHER -> steady
  BY DEF PartFan, close, steady
<1>4. CASE id < close
  BY <1>1, <1>3, <1>4, FansTyped
<1>5. CASE id >= close /\ id + 1 < s.full
  <2>1. s.full - close \in Nat \ {0} /\ id + 1 - close \in Int /\ s.first \in Int
    BY <1>1, <1>5, FansTyped
  <2>2. Ramp(s.first, steady, id + 1 - close, s.full - close) \in Int
    BY <1>2, <2>1, RampTyped
  <2> QED BY <1>1, <1>3, <1>5, <2>2
<1>6. CASE ~(id < close) /\ ~(id >= close /\ id + 1 < s.full)
  BY <1>2, <1>3, <1>6
<1> QED BY <1>4, <1>5, <1>6

\* flush_layer's inject holds the lines that are wanted.
Inject(f, a) ==
    (IF want.fan # f THEN <<"fan">> ELSE <<>>) \o (IF fans.aux /\ want.aux # a THEN <<"aux">> ELSE <<>>)

\* The fan's line is among them where the fan differs, and the auxiliary fan's
\* where that one does.
LEMMA InjectFor ==
    ASSUME NEW f, NEW a
    PROVE  /\ Inject(f, a) \in Injects
           /\ (\E n \in DOMAIN Inject(f, a) : Inject(f, a)[n] = "fan") <=> want.fan # f
           /\ (\E n \in DOMAIN Inject(f, a) : Inject(f, a)[n] = "aux") <=> fans.aux /\ want.aux # a
<1> DEFINE inject == Inject(f, a)
           wantFan == want.fan # f
           wantAux == fans.aux /\ want.aux # a
           Holds == /\ inject \in Injects
                    /\ (\E n \in DOMAIN inject : inject[n] = "fan") <=> wantFan
                    /\ (\E n \in DOMAIN inject : inject[n] = "aux") <=> wantAux
<1>0. inject = (IF wantFan THEN <<"fan">> ELSE <<>>) \o (IF wantAux THEN <<"aux">> ELSE <<>>)
  BY DEF Inject
<1> SUFFICES Holds
  OBVIOUS
<1> HIDE DEF wantFan, wantAux, inject
<1>1. CASE wantFan /\ wantAux
  <2> DEFINE u == <<"fan">>
             v == <<"aux">>
             w == <<"fan", "aux">>
  <2> DEFINE S == {"fan", "aux"}
  <2>1. /\ u \in Seq(S) /\ v \in Seq(S) /\ w \in Seq(S)
        /\ Len(u) = 1 /\ Len(v) = 1 /\ Len(w) = 2
        /\ u[1] = "fan" /\ v[1] = "aux" /\ w[1] = "fan" /\ w[2] = "aux"
    <3>1. u \in Seq(S)
      OBVIOUS
    <3>2. v \in Seq(S)
      OBVIOUS
    <3>3. w \in Seq(S)
      OBVIOUS
    <3>4. Len(u) = 1 /\ Len(v) = 1 /\ Len(w) = 2
      OBVIOUS
    <3>5. u[1] = "fan" /\ v[1] = "aux"
      OBVIOUS
    <3>6. w[1] = "fan" /\ w[2] = "aux"
      OBVIOUS
    <3> QED BY <3>1, <3>2, <3>3, <3>4, <3>5, <3>6
  <2>2. inject = u \o v
    BY <1>0, <1>1
  <2> HIDE DEF u, v, w, S
  <2>3. /\ u \o v \in Seq(S) /\ Len(u \o v) = 2
        /\ (u \o v)[1] = u[1] /\ (u \o v)[2] = v[1]
    <3>1. u \o v \in Seq(S) /\ Len(u \o v) = 2
      BY <2>1, ConcatProperties
    <3>2. (u \o v)[1] = u[1]
      BY <2>1
    <3>3. (u \o v)[2] = v[1]
      <4>1. \A i \in 1..(Len(u) + Len(v)) :
               (u \o v)[i] = IF i <= Len(u) THEN u[i] ELSE v[i - Len(u)]
        BY <2>1, ConcatProperties
      <4>2. 2 \in 1..(Len(u) + Len(v)) /\ ~(2 <= Len(u)) /\ 2 - Len(u) = 1
        BY <2>1
      <4> QED BY <4>1, <4>2, Zenon
    <3> QED BY <3>1, <3>2, <3>3
  <2>4. \A i \in 1..2 : i = 1 \/ i = 2
    OBVIOUS
  <2>5. \A i \in 1..2 : (u \o v)[i] = w[i]
    BY <2>1, <2>3, <2>4, Zenon
  <2>6. u \o v = w
    BY <2>1, <2>3, <2>5, SeqEqual
  <2>7. 1 \in DOMAIN w /\ 2 \in DOMAIN w
    BY <2>1
  <2> QED BY <1>1, <2>1, <2>2, <2>6, <2>7, Zenon DEF Injects, w
<1>2. CASE wantFan /\ ~wantAux
  <2>1. inject = <<"fan">>
    <3>1. <<"fan">> \in Seq({"fan", "aux"})
      OBVIOUS
    <3> QED BY <1>0, <1>2, <3>1, ConcatEmptySeq
  <2>2. inject \in Injects
    BY <2>1 DEF Injects
  <2>3. DOMAIN <<"fan">> = {1} /\ <<"fan">>[1] = "fan"
    OBVIOUS
  <2> QED BY <1>2, <2>1, <2>2, <2>3, Zenon
<1>3. CASE ~wantFan /\ wantAux
  <2>1. inject = <<"aux">>
    <3>1. <<"aux">> \in Seq({"fan", "aux"})
      OBVIOUS
    <3> QED BY <1>0, <1>3, <3>1, ConcatEmptySeq
  <2>2. inject \in Injects
    BY <2>1 DEF Injects
  <2>3. DOMAIN <<"aux">> = {1} /\ <<"aux">>[1] = "aux"
    OBVIOUS
  <2> QED BY <1>3, <2>1, <2>2, <2>3, Zenon
<1>4. CASE ~wantFan /\ ~wantAux
  <2>1. inject = <<>>
    BY <1>0, <1>4
  <2> QED BY <1>4, <2>1 DEF Injects
<1> QED BY <1>1, <1>2, <1>3, <1>4

\* At the first line nothing is open.
LEMMA NothingBefore ==
    ASSUME NEW t
    PROVE  ~Over(t, 1) /\ ~Iron(t, 1)
<1>1. 1..(1 - 1) = {}
  OBVIOUS
<1> QED BY <1>1, Zenon DEF Over, Iron, Inside

\* A new layer: it differs from the last one's fan, and has a line for it, or
\* does not.
LEMMA FlushKeeps == ASSUME CoolingOK, FlushLayer PROVE CoolingOK'
<1>1. Idle /\ BetweenOK /\ fans \in Fans /\ nth \in Nat
  BY DEF CoolingOK, FlushLayer
<1>2. PICK lines \in Texts, time \in Times :
         LET f == PartFan(fans, nth, time)
             a == AuxFan(fans, nth)
             inject == (IF want.fan # f THEN <<"fan">> ELSE <<>>)
                       \o (IF fans.aux /\ want.aux # a THEN <<"aux">> ELSE <<>>)
         IN  /\ text' = AfterZ(lines, inject)
             /\ want' = [fan |-> f, aux |-> IF fans.aux THEN a ELSE want.aux]
             /\ current' = f
  BY DEF FlushLayer
<1> DEFINE f == PartFan(fans, nth, time)
           a == AuxFan(fans, nth)
           wantFan == want.fan # f
           wantAux == fans.aux /\ want.aux # a
           inject == Inject(f, a)
<1>3. /\ text' = AfterZ(lines, inject)
      /\ want'.fan = f /\ want'.aux = (IF fans.aux THEN a ELSE want.aux)
      /\ current' = f
  BY <1>2 DEF Inject
<1>4. /\ written' = 1 /\ look' = 1 /\ seen' = 0 /\ ahead' = 0 /\ early' = FALSE
      /\ fans' = fans /\ nth' = nth /\ fan' = fan /\ aux' = aux
  BY DEF FlushLayer
<1>5. f \in Int
  <2>1. time \in Nat
    BY TimesAssumption
  <2> QED BY <1>1, <2>1, PartFanTyped
<1>6. /\ inject \in Injects
      /\ (\E n \in DOMAIN inject : inject[n] = "fan") <=> wantFan
      /\ (\E n \in DOMAIN inject : inject[n] = "aux") <=> wantAux
  BY InjectFor
<1> HIDE DEF f, a, inject, wantFan, wantAux
<1>7. InPrintOrder(text')
  BY <1>3, <1>6, LaidOut
<1>8. (\E n \in DOMAIN text' : text'[n] = "fan") <=> wantFan
  BY <1>3, <1>6, PutsThem
<1>9. (\E n \in DOMAIN text' : text'[n] = "aux") <=> wantAux
  BY <1>3, <1>6, PutsThem
<1>10. text' \in Seq(LineKinds) /\ text' # <<>>
  BY <1>7 DEF InPrintOrder
<1>11. 1 \in 1..Len(text') /\ \A n \in DOMAIN text' : 1 <= n
  <2>1. \A t \in Seq(LineKinds) : t # <<>> => Len(t) \in Nat \ {0}
    BY EmptySeq
  <2>2. Len(text') \in Nat \ {0}
    BY <1>10, <2>1, Zenon
  <2> QED BY <1>10, <2>2
<1>12. (Ahead(text, written, "fan"))' <=> wantFan
  BY <1>4, <1>8, <1>11, Zenon DEF Ahead
<1>13. (Ahead(text, written, "aux"))' <=> wantAux
  BY <1>4, <1>9, <1>11, Zenon DEF Ahead
<1>14. CurrentOK'
  <2>1. ~(Over(text, written))' /\ ~(Iron(text, written))'
    BY <1>4, NothingBefore
  <2>2. current' = want'.fan
    BY <1>3
  <2> QED BY <2>1, <2>2, Zenon DEF CurrentOK
<1>15. FanOK'
  <2>1. CASE wantFan
    BY <1>3, <1>12, <2>1 DEF FanOK
  <2>2. CASE ~wantFan
    <3>1. fan' = current'
      BY <1>1, <1>3, <1>4, <2>2 DEF BetweenOK, wantFan
    <3> QED BY <1>12, <2>2, <3>1, Zenon DEF FanOK
  <2> QED BY <2>1, <2>2
<1>16. TimesOK'
  <2>1. LookAt' = 1
    BY <1>4 DEF LookAt
  <2>2. Cardinality(Timed(text', 1, 1)) = 0
    BY TimedNone
  <2>3. AheadAt' - seen' >= 0
    BY <1>4 DEF AheadAt, SeenAt, TimeOf
  <2>4. Cardinality(Timed(text, written, LookAt))' = 0
    BY <1>4, <2>1, <2>2, Zenon
  <2> QED BY <2>3, <2>4 DEF TimesOK
<1>17. AuxOK'
  <2> SUFFICES ASSUME fans.aux
               PROVE  want'.aux = AuxFan(fans, nth) /\ (aux' = want'.aux \/ wantAux)
    BY <1>4, <1>13 DEF AuxOK
  <2>1. aux = want.aux
    BY <1>1 DEF BetweenOK
  <2> QED BY <1>3, <1>4, <2>1 DEF wantAux, a
<1>18. LayerOK'
  BY <1>4, <1>7, <1>11, <1>14, <1>15, <1>16, <1>17 DEF LayerOK
<1>19. ~Idle'
  BY <1>10 DEF Idle
<1> QED BY <1>1, <1>3, <1>4, <1>5, <1>18, <1>19 DEF CoolingOK

\* Times are numbers, and the look-ahead is not behind.
LEMMA TimesTyped ==
    ASSUME LayerOK
    PROVE  /\ text \in Seq(LineKinds) /\ written \in Nat \ {0} /\ written <= Len(text)
           /\ \A n : TimeOf(n) \in {0, 1}
           /\ LookAt \in Nat \ {0} /\ written <= LookAt
           /\ SeenAt \in Nat /\ SeenAt = seen + TimeOf(written) /\ seen \in Nat
           /\ AheadAt \in Nat /\ SeenAt <= AheadAt
           /\ Cardinality(Timed(text, written, LookAt)) \in Nat
<1>1. text \in Seq(LineKinds)
  BY DEF LayerOK, InPrintOrder
<1>2. written \in 1..Len(text) /\ look \in Nat \ {0} /\ seen \in Nat /\ ahead \in Nat
  BY DEF LayerOK
<1>3. written \in Nat \ {0} /\ written <= Len(text)
  BY <1>1, <1>2
<1>4. \A n : TimeOf(n) \in {0, 1}
  BY DEF TimeOf
<1>5. LookAt \in Nat \ {0} /\ written <= LookAt
  BY <1>2, <1>3 DEF LookAt
<1>6. TimeOf(written) \in {0, 1}
  BY <1>4
<1>7. SeenAt \in Nat /\ SeenAt = seen + TimeOf(written)
  BY <1>2, <1>6 DEF SeenAt
<1>8. AheadAt \in Nat /\ SeenAt <= AheadAt
  BY <1>2, <1>7 DEF AheadAt
<1>9. Cardinality(Timed(text, written, LookAt)) \in Nat
  BY <1>3, <1>5, TimedCounted
<1> QED BY <1>1, <1>2, <1>3, <1>4, <1>5, <1>7, <1>8, <1>9

\* Speeds are numbers, and a boost is one.
LEMMA WantTyped ==
    ASSUME CoolingOK
    PROVE  /\ fans.overhang \in Int /\ fans.preStart \in Int /\ fans.ironing \in Int
           /\ want.fan \in Int /\ current \in Int
           /\ Boosts => want.fan < fans.overhang
<1>1. fans \in Fans /\ want.fan \in Int /\ current \in Int
  BY DEF CoolingOK
<1>2. fans.overhang \in Nat /\ fans.preStart \in Nat /\ fans.ironing \in Int
  BY <1>1, FansTyped
<1> QED BY <1>1, <1>2 DEF Boosts

\* Looking ahead: it looks on while less time lies between than the pre-start,
\* so what it boosts for is near.
LEMMA LookAheadKeeps == ASSUME CoolingOK, LookAhead PROVE CoolingOK'
<1>1. ~Idle /\ LayerOK /\ fans \in Fans /\ nth \in Nat
  BY DEF CoolingOK, LookAhead, Looking
<1>2. Boosts /\ LookAt <= Len(text) /\ AheadAt - SeenAt < fans.preStart /\ current < fans.overhang
  BY DEF LookAhead, Looking
<1>3. /\ fans' = fans /\ nth' = nth /\ text' = text /\ written' = written
      /\ seen' = seen /\ want' = want /\ aux' = aux
      /\ ahead' = AheadAt + TimeOf(LookAt)
  BY DEF LookAhead
<1>4. /\ text \in Seq(LineKinds) /\ written \in Nat \ {0} /\ written <= Len(text)
      /\ \A n : TimeOf(n) \in {0, 1}
      /\ LookAt \in Nat \ {0} /\ written <= LookAt
      /\ SeenAt \in Nat /\ SeenAt = seen + TimeOf(written) /\ seen \in Nat
      /\ AheadAt \in Nat /\ SeenAt <= AheadAt
      /\ Cardinality(Timed(text, written, LookAt)) \in Nat
  BY <1>1, TimesTyped
<1>5. /\ fans.overhang \in Int /\ fans.preStart \in Int /\ fans.ironing \in Int
      /\ want.fan \in Int /\ current \in Int /\ want.fan < fans.overhang
  BY <1>2, WantTyped
<1>6. current # fans.overhang
  BY <1>2, <1>5
<1>7. ~Over(text, written)
  BY <1>1, <1>2, <1>6 DEF LayerOK, CurrentOK
<1>8. TimeOf(LookAt) \in {0, 1} /\ TimeOf(written) \in {0, 1}
  BY <1>4
<1>9. ahead' \in Nat /\ SeenAt <= ahead'
  BY <1>3, <1>4, <1>8
<1>10. SeenAt' = SeenAt /\ Boosts' = Boosts /\ Irons' = Irons
  BY <1>3 DEF SeenAt, TimeOf, Boosts, Irons, Allowed
<1>11. AheadAt' = ahead'
  BY <1>4, <1>9, <1>10 DEF AheadAt
<1>12. Cardinality(Timed(text, written, LookAt)) <= AheadAt - seen
  BY <1>1 DEF LayerOK, TimesOK
<1>13. AuxOK'
  BY <1>1, <1>3 DEF LayerOK, AuxOK
<1>14. CASE text[LookAt] = "overhang"
  <2>1. /\ look' = LookAt /\ fan' = fans.overhang /\ current' = fans.overhang
        /\ early' = (early \/ \E n \in written..Len(text) : text[n] = "fan")
    BY <1>14 DEF LookAhead, FanToCome
  <2>2. LookAt' = LookAt
    BY <1>3, <1>4, <2>1 DEF LookAt
  <2>3. TimeOf(LookAt) = 0
    BY <1>14 DEF TimeOf
  <2>4. TimesOK'
    BY <1>3, <1>4, <1>11, <1>12, <2>2, <2>3 DEF TimesOK
  <2>5. Cardinality(Timed(text, written, LookAt)) <= fans.preStart
    BY <1>2, <1>4, <1>5, <1>8, <1>12, SMTT(30)
  <2>6. LookAt \in written..Len(text) /\ LookAt \in DOMAIN text
    BY <1>2, <1>4
  <2>7. Boosted'
    BY <1>2, <1>3, <1>10, <1>14, <2>1, <2>5, <2>6 DEF Boosted
  <2>8. ~Iron(text, written)
    <3>1. Ahead(text, written, "overhang")
      BY <1>4, <1>14, <2>6, Zenon DEF Ahead
    <3> QED BY <1>1, <1>4, <3>1, IroningLast DEF LayerOK
  <2>9. CurrentOK'
    BY <1>3, <1>7, <2>7, <2>8, Zenon DEF CurrentOK
  <2>10. FanOK'
    <3>1. CASE Ahead(text, written, "fan")
      <4>1. \A n \in DOMAIN text : written <= n => n \in written..Len(text)
        BY <1>4
      <4>2. early'
        BY <2>1, <3>1, <4>1, Zenon DEF Ahead
      <4> QED BY <1>3, <3>1, <4>2, Zenon DEF FanOK
    <3>2. CASE ~Ahead(text, written, "fan")
      BY <1>3, <2>1, <3>2, Zenon DEF FanOK
    <3> QED BY <3>1, <3>2
  <2>11. LayerOK'
    BY <1>1, <1>3, <1>4, <1>9, <1>13, <2>1, <2>4, <2>9, <2>10 DEF LayerOK
  <2> QED BY <1>1, <1>3, <1>5, <2>1, <2>11 DEF CoolingOK, Idle
<1>15. CASE text[LookAt] # "overhang"
  <2>1. look' = LookAt + 1 /\ fan' = fan /\ current' = current /\ early' = early
    BY <1>15 DEF LookAhead
  <2>2. LookAt' = LookAt + 1
    BY <1>3, <1>4, <2>1 DEF LookAt
  <2>3. TimesOK'
    <3>1. Cardinality(Timed(text, written, LookAt + 1))
            = Cardinality(Timed(text, written, LookAt)) + TimeOf(LookAt)
      BY <1>4, TimedLast DEF TimeOf
    <3>2. Cardinality(Timed(text, written, LookAt + 1)) <= ahead' - seen
      BY <1>3, <1>4, <1>8, <1>12, <3>1
    <3> QED BY <1>3, <1>11, <2>2, <3>2 DEF TimesOK
  <2>4. CurrentOK'
    <3>1. ~Boosted
      BY <1>6 DEF Boosted
    <3> QED BY <1>1, <1>3, <1>7, <1>10, <2>1, <3>1 DEF LayerOK, CurrentOK
  <2>5. FanOK'
    <3>1. TakenBack' = TakenBack
      BY <1>3, <1>10, <2>1 DEF TakenBack
    <3> QED BY <1>1, <1>3, <2>1, <3>1 DEF LayerOK, FanOK
  <2>6. LayerOK'
    BY <1>1, <1>3, <1>4, <1>9, <1>13, <2>1, <2>3, <2>4, <2>5 DEF LayerOK
  <2> QED BY <1>1, <1>3, <1>5, <2>1, <2>6 DEF CoolingOK, Idle
<1> QED BY <1>14, <1>15

\* What a line leaves behind, before it is known whether it was the last.
CurrentAfter ==
    /\ Over(text, written + 1) /\ Boosts => current' = fans.overhang
    /\ Iron(text, written + 1) /\ Irons => current' = fans.ironing
    /\ ~(Over(text, written + 1) /\ Boosts) /\ ~(Iron(text, written + 1) /\ Irons)
          => current' = want.fan \/ (current' = current /\ Boosted /\ look # written)

\* And what the machine obeys by then.
FanAfter ==
    IF Ahead(text, written + 1, "fan") THEN current' = want.fan \/ early'
    ELSE \/ fan' = current'
         \/ /\ early' /\ fan' = want.fan
            /\ \/ Boosts /\ current' = fans.overhang /\ ~Iron(text, written + 1)
               \/ Irons /\ current' = fans.ironing /\ Iron(text, written + 1)

\* The six lines that may turn the fan, and those that do not.
LEMMA LineWritten == ASSUME CoolingOK, WriteLine PROVE CurrentAfter /\ FanAfter
<1>1. LayerOK
  BY DEF CoolingOK, WriteLine
<1>2. CurrentOK /\ FanOK /\ InPrintOrder(text)
  BY <1>1 DEF LayerOK
<1> DEFINE line == text[written]
<1>3. /\ line = "overhang" /\ Boosts /\ current < fans.overhang => Turn(fans.overhang)
      /\ line = "overhangEnd" /\ Boosts => Turn(want.fan)
      /\ line = "ironing" /\ Irons => Turn(fans.ironing)
      /\ line = "ironingEnd" /\ Irons => Turn(want.fan)
      /\ line = "fan" => fan' = want.fan /\ current' = current
      /\ \/ line \notin {"overhang", "overhangEnd", "ironing", "ironingEnd", "fan"}
         \/ line = "overhang" /\ ~(Boosts /\ current < fans.overhang)
         \/ line = "overhangEnd" /\ ~Boosts
         \/ line \in {"ironing", "ironingEnd"} /\ ~Irons
         => fan' = fan /\ current' = current
  BY DEF WriteLine
<1>0. early' = CASE line \in {"overhang", "ironing"} -> early \/ FanToCome
                 [] line \in {"overhangEnd", "ironingEnd"} -> FALSE
                 [] OTHER -> early
  BY DEF WriteLine
<1>4. text \in Seq(LineKinds) /\ written \in Nat \ {0} /\ written <= Len(text)
  BY <1>1, TimesTyped
<1>5. /\ fans.overhang \in Int /\ fans.ironing \in Int /\ want.fan \in Int /\ current \in Int
      /\ Boosts => want.fan < fans.overhang
  BY WantTyped
<1>6. /\ Over(text, written) => line = "overhangEnd" \/ line \notin Marks
      /\ Iron(text, written) => line = "ironingEnd" \/ line \notin Marks
      /\ line = "overhangEnd" => Over(text, written)
      /\ line = "ironingEnd" => Iron(text, written)
      /\ ~(Over(text, written) /\ Iron(text, written))
  BY <1>2, <1>4, InsideQuiet
<1>7. /\ Over(text, written + 1) <=> line = "overhang" \/ (Over(text, written) /\ line # "overhangEnd")
      /\ Iron(text, written + 1) <=> line = "ironing" \/ (Iron(text, written) /\ line # "ironingEnd")
  BY <1>4, InsideAfter
<1>8. Ahead(text, written, "fan") => FanToCome
  <2>1. \A n \in DOMAIN text : written <= n => n \in written..Len(text)
    BY <1>4
  <2> QED BY <2>1, Zenon DEF Ahead, FanToCome
<1>9. /\ Ahead(text, written + 1, "fan") => Ahead(text, written, "fan")
      /\ Ahead(text, written, "fan") => Ahead(text, written + 1, "fan") \/ line = "fan"
      /\ line = "fan" => Ahead(text, written, "fan")
  <2>1. written \in DOMAIN text /\ written <= written
    BY <1>4
  <2>2. line = "fan" => Ahead(text, written, "fan")
    BY <2>1, Zenon DEF Ahead
  <2> QED BY <1>4, <2>2, AheadNext
<1>10. Boosted => ~Iron(text, written) /\ line # "ironing"
  <2>1. ASSUME Boosted PROVE Ahead(text, written, "overhang")
    <3>1. look \in written..Len(text) /\ text[look] = "overhang"
      BY <2>1 DEF Boosted
    <3>2. \A n \in written..Len(text) : n \in DOMAIN text /\ written <= n
      BY <1>4
    <3> QED BY <3>1, <3>2, Zenon DEF Ahead
  <2> QED BY <1>2, <1>4, <2>1, IroningLast
<1>11. Boosted => Boosts /\ current = fans.overhang /\ (line # "overhang" => look # written)
  BY DEF Boosted
<1>12. TakenBack => /\ early /\ fan = want.fan
                    /\ \/ Boosts /\ current = fans.overhang /\ ~Iron(text, written)
                       \/ Irons /\ current = fans.ironing /\ Iron(text, written)
  BY DEF TakenBack
<1>13. {"overhang", "overhangEnd", "ironing", "ironingEnd"} \subseteq Marks
  BY MarkKinds
<1> DEFINE over == Over(text, written)
           iron == Iron(text, written)
           over2 == Over(text, written + 1)
           iron2 == Iron(text, written + 1)
           fanAhead == Ahead(text, written, "fan")
           fanAhead2 == Ahead(text, written + 1, "fan")
<1>14. /\ over /\ Boosts => current = fans.overhang
       /\ iron /\ Irons => current = fans.ironing
       /\ ~(over /\ Boosts) /\ ~(iron /\ Irons) => current = want.fan \/ Boosted
  BY <1>2 DEF CurrentOK
<1>15. IF fanAhead THEN current = want.fan \/ early ELSE fan = current \/ TakenBack
  BY <1>2 DEF FanOK
<1>16. /\ over => line = "overhangEnd" \/ line \notin Marks
       /\ iron => line = "ironingEnd" \/ line \notin Marks
       /\ line = "overhangEnd" => over
       /\ line = "ironingEnd" => iron
       /\ ~(over /\ iron)
       /\ over2 <=> line = "overhang" \/ (over /\ line # "overhangEnd")
       /\ iron2 <=> line = "ironing" \/ (iron /\ line # "ironingEnd")
       /\ fanAhead => FanToCome
       /\ fanAhead2 => fanAhead
       /\ fanAhead => fanAhead2 \/ line = "fan"
       /\ line = "fan" => fanAhead
       /\ Boosted => ~iron /\ line # "ironing"
       /\ TakenBack => /\ early /\ fan = want.fan
                       /\ \/ Boosts /\ current = fans.overhang /\ ~iron
                          \/ Irons /\ current = fans.ironing /\ iron
  BY <1>6, <1>7, <1>8, <1>9, <1>10, <1>12
<1> DEFINE Current2 == /\ over2 /\ Boosts => current' = fans.overhang
                       /\ iron2 /\ Irons => current' = fans.ironing
                       /\ ~(over2 /\ Boosts) /\ ~(iron2 /\ Irons)
                             => current' = want.fan \/ (current' = current /\ Boosted /\ look # written)
           Fan2 == IF fanAhead2 THEN current' = want.fan \/ early'
                   ELSE \/ fan' = current'
                        \/ /\ early' /\ fan' = want.fan
                           /\ \/ Boosts /\ current' = fans.overhang /\ ~iron2
                              \/ Irons /\ current' = fans.ironing /\ iron2
<1> SUFFICES Current2 /\ Fan2
  BY DEF CurrentAfter, FanAfter
<1> HIDE DEF line, over, iron, over2, iron2, fanAhead, fanAhead2
<1>17. CASE line = "overhang"
  <2>1. ~over /\ ~iron /\ over2 /\ ~iron2 /\ (fanAhead2 <=> fanAhead)
    BY <1>13, <1>16, <1>17
  <2>2. (early \/ fanAhead => early')
    BY <1>0, <1>16, <1>17
  <2>3. CASE Boosts /\ current < fans.overhang
    <3>1. Turn(fans.overhang)
      BY <1>3, <1>17, <2>3
    <3>2. fan' = fans.overhang /\ current' = fans.overhang
      BY <1>5, <2>3, <3>1 DEF Turn
    <3> QED BY <2>1, <2>2, <2>3, <3>2
  <2>4. CASE Boosts /\ ~(current < fans.overhang)
    <3>1. fan' = fan /\ current' = current
      BY <1>3, <1>17, <2>4
    <3>2. current = fans.overhang
      BY <1>5, <1>11, <1>14, <2>1, <2>4
    <3>3. ~fanAhead => fan = current \/ TakenBack
      BY <1>15
    <3> QED BY <1>16, <2>1, <2>2, <2>4, <3>1, <3>2, <3>3
  <2>5. CASE ~Boosts
    <3>1. fan' = fan /\ current' = current
      BY <1>3, <1>17, <2>5
    <3>2. current = want.fan /\ (fanAhead \/ fan = current)
      BY <1>11, <1>14, <1>15, <1>16, <2>1, <2>5
    <3> QED BY <2>1, <2>5, <3>1, <3>2
  <2> QED BY <2>3, <2>4, <2>5
<1>18. CASE line = "overhangEnd"
  <2>1. over /\ ~iron /\ ~over2 /\ ~iron2 /\ (fanAhead2 <=> fanAhead)
    BY <1>13, <1>16, <1>18
  <2>2. CASE Boosts
    <3>1. Turn(want.fan)
      BY <1>3, <1>18, <2>2
    <3>2. current = fans.overhang /\ current # want.fan
      BY <1>5, <1>14, <2>1, <2>2
    <3>3. fan' = want.fan /\ current' = want.fan
      BY <3>1, <3>2 DEF Turn
    <3> QED BY <2>1, <3>3
  <2>3. CASE ~Boosts
    <3>1. fan' = fan /\ current' = current
      BY <1>3, <1>18, <2>3
    <3>2. current = want.fan /\ (fanAhead \/ fan = current)
      BY <1>11, <1>14, <1>15, <1>16, <2>1, <2>3
    <3> QED BY <2>1, <2>3, <3>1, <3>2
  <2> QED BY <2>2, <2>3
<1>19. CASE line = "ironing"
  <2>1. ~over /\ ~iron /\ ~over2 /\ iron2 /\ (fanAhead2 <=> fanAhead)
    BY <1>13, <1>16, <1>19
  <2>2. current = want.fan
    BY <1>14, <1>16, <1>19, <2>1
  <2>3. fanAhead \/ fan = current
    BY <1>5, <1>15, <1>16, <2>1, <2>2
  <2>4. fanAhead => early'
    BY <1>0, <1>16, <1>19
  <2>5. CASE Irons
    <3>1. Turn(fans.ironing)
      BY <1>3, <1>19, <2>5
    <3>2. current' = fans.ironing /\ (fanAhead \/ fan' = fans.ironing)
      BY <2>3, <3>1 DEF Turn
    <3> QED BY <2>1, <2>4, <2>5, <3>2
  <2>6. CASE ~Irons
    <3>1. fan' = fan /\ current' = current
      BY <1>3, <1>19, <2>6
    <3> QED BY <2>1, <2>2, <2>3, <2>6, <3>1
  <2> QED BY <2>5, <2>6
<1>20. CASE line = "ironingEnd"
  <2>1. ~over /\ iron /\ ~over2 /\ ~iron2 /\ (fanAhead2 <=> fanAhead)
    BY <1>13, <1>16, <1>20
  <2>2. ~Boosted /\ (fanAhead \/ fan = current \/ (Irons /\ fan = want.fan))
    BY <1>15, <1>16, <2>1
  <2>3. CASE Irons
    <3>1. Turn(want.fan)
      BY <1>3, <1>20, <2>3
    <3>2. current' = want.fan /\ (fanAhead \/ fan' = want.fan)
      BY <2>2, <3>1 DEF Turn
    <3> QED BY <2>1, <3>2
  <2>4. CASE ~Irons
    <3>1. fan' = fan /\ current' = current
      BY <1>3, <1>20, <2>4
    <3>2. current = want.fan
      BY <1>14, <2>1, <2>2, <2>4
    <3> QED BY <2>1, <2>2, <2>4, <3>1, <3>2
  <2> QED BY <2>3, <2>4
<1>21. CASE line = "fan"
  <2>1. (over2 <=> over) /\ (iron2 <=> iron) /\ fanAhead /\ ~(over /\ iron)
    BY <1>16, <1>21
  <2>2. fan' = want.fan /\ current' = current /\ early' = early
    BY <1>0, <1>3, <1>21
  <2>3. Boosted => look # written /\ Boosts /\ current = fans.overhang /\ ~iron
    BY <1>11, <1>16, <1>21
  <2>4. current = want.fan \/ early
    BY <1>15, <2>1
  <2>5. Current2
    BY <1>14, <2>1, <2>2, <2>3
  <2>6. Fan2
    <3>1. CASE over /\ Boosts
      BY <1>14, <2>1, <2>2, <2>4, <3>1
    <3>2. CASE iron /\ Irons
      BY <1>14, <2>1, <2>2, <2>4, <3>2
    <3>3. CASE ~(over /\ Boosts) /\ ~(iron /\ Irons)
      BY <1>14, <2>1, <2>2, <2>3, <2>4, <3>3
    <3> QED BY <3>1, <3>2, <3>3
  <2> QED BY <2>5, <2>6
<1>22. CASE line \notin {"overhang", "overhangEnd", "ironing", "ironingEnd", "fan"}
  <2>1. (over2 <=> over) /\ (iron2 <=> iron) /\ (fanAhead2 <=> fanAhead)
    BY <1>16, <1>22
  <2>2. fan' = fan /\ current' = current /\ early' = early
    BY <1>0, <1>3, <1>22
  <2>3. Boosted => look # written
    BY <1>11, <1>22
  <2>4. Current2
    BY <1>14, <2>1, <2>2, <2>3
  <2>5. Fan2
    BY <1>15, <1>16, <2>1, <2>2
  <2> QED BY <2>4, <2>5
<1> QED BY <1>17, <1>18, <1>19, <1>20, <1>21, <1>22

\* Writing a line, in the layer and at its end.
LEMMA WriteLineKeeps == ASSUME CoolingOK, WriteLine PROVE CoolingOK'
<1>1. ~Idle /\ LayerOK /\ fans \in Fans /\ nth \in Nat /\ want.fan \in Int
  BY DEF CoolingOK, WriteLine
<1>2. CurrentAfter /\ FanAfter
  BY LineWritten
<1>3. /\ fans' = fans /\ want' = want
      /\ aux' = IF text[written] = "aux" THEN want.aux ELSE aux
  BY DEF WriteLine
<1>4. /\ text \in Seq(LineKinds) /\ written \in Nat \ {0} /\ written <= Len(text)
      /\ \A n : TimeOf(n) \in {0, 1}
      /\ LookAt \in Nat \ {0} /\ written <= LookAt
      /\ SeenAt \in Nat /\ SeenAt = seen + TimeOf(written) /\ seen \in Nat
      /\ AheadAt \in Nat /\ SeenAt <= AheadAt
      /\ Cardinality(Timed(text, written, LookAt)) \in Nat
  BY <1>1, TimesTyped
<1>5. /\ fans.overhang \in Int /\ fans.preStart \in Int /\ fans.ironing \in Int
      /\ want.fan \in Int /\ current \in Int
      /\ Boosts => want.fan < fans.overhang
  BY WantTyped
<1>6. current' \in Int
  <2>1. current' \in {current, fans.overhang, fans.ironing, want.fan}
    BY DEF WriteLine, Turn
  <2> QED BY <1>5, <2>1
<1>7. Ahead(text, written, "aux") => Ahead(text, written + 1, "aux") \/ text[written] = "aux"
  BY <1>4, AheadNext
<1>8. CASE written < Len(text)
  <2>1. /\ written' = written + 1 /\ seen' = SeenAt /\ ahead' = AheadAt /\ look' = LookAt
        /\ nth' = nth /\ text' = text
    BY <1>8 DEF WriteLine
  <2>2. Boosts' = Boosts /\ Irons' = Irons
    BY <1>3, <2>1 DEF Boosts, Irons, Allowed
  <2>3. Boosted /\ look # written /\ current' = current => Boosted'
    <3> SUFFICES ASSUME Boosted, look # written, current' = current PROVE Boosted'
      OBVIOUS
    <3>1. /\ Boosts /\ current = fans.overhang
          /\ look \in written..Len(text) /\ text[look] = "overhang"
          /\ Cardinality(Timed(text, written, look)) <= fans.preStart
      BY DEF Boosted
    <3>2. look \in (written + 1)..Len(text) /\ look \in Int /\ written < look
      BY <1>4, <3>1
    <3>3. look' = look
      BY <1>4, <2>1, <3>2 DEF LookAt
    <3>4. Cardinality(Timed(text, written + 1, look)) <= fans.preStart
      <4> DEFINE now == Cardinality(Timed(text, written, look))
                 next == Cardinality(Timed(text, written + 1, look))
      <4>1. now = (IF text[written] \in {"move", "z"} THEN 1 ELSE 0) + next
        BY <1>4, <3>2, TimedFirst
      <4>2. next \in Nat
        BY <1>4, <3>2, TimedCounted
      <4> HIDE DEF now, next
      <4>3. next <= now
        BY <4>1, <4>2
      <4>4. now <= fans.preStart /\ now \in Int
        BY <3>1, <4>1, <4>2 DEF now
      <4>5. next <= fans.preStart
        BY <1>5, <4>2, <4>3, <4>4
      <4> QED BY <4>5 DEF next
    <3> QED BY <1>3, <2>1, <2>2, <3>1, <3>2, <3>3, <3>4 DEF Boosted
  <2>4. CurrentOK'
    BY <1>2, <1>3, <2>1, <2>2, <2>3, Zenon DEF CurrentAfter, CurrentOK
  <2>5. FanOK'
    BY <1>2, <1>3, <2>1, <2>2, Zenon DEF FanAfter, FanOK, TakenBack
  <2>6. AheadAt' \in Int /\ AheadAt <= AheadAt'
    <3>1. AheadAt' = IF AheadAt < SeenAt' THEN SeenAt' ELSE AheadAt
      BY <2>1 DEF AheadAt
    <3>2. SeenAt' \in Int
      <4>1. SeenAt' = SeenAt + (TimeOf(written))'
        BY <2>1 DEF SeenAt
      <4>2. (TimeOf(written))' \in {0, 1}
        BY DEF TimeOf
      <4> QED BY <1>4, <4>1, <4>2
    <3> QED BY <1>4, <3>1, <3>2
  <2>7. TimesOK'
    <3>0. LookAt' = IF LookAt < written + 1 THEN written + 1 ELSE LookAt
      BY <2>1 DEF LookAt
    <3>1. CASE LookAt = written
      <4>1. LookAt' = written + 1
        BY <1>4, <2>1, <3>0, <3>1
      <4>2. Cardinality(Timed(text, written + 1, written + 1)) = 0
        BY <1>4, TimedNone
      <4>3. 0 <= AheadAt' - SeenAt
        BY <1>4, <2>6
      <4> QED BY <2>1, <4>1, <4>2, <4>3 DEF TimesOK
    <3>2. CASE LookAt # written
      <4>0. written < LookAt
        BY <1>4, <3>2
      <4>1. LookAt' = LookAt
        BY <1>4, <2>1, <3>0, <4>0
      <4> DEFINE now == Cardinality(Timed(text, written, LookAt))
                 next == Cardinality(Timed(text, written + 1, LookAt))
      <4>2. now = TimeOf(written) + next
        BY <1>4, <4>0, TimedFirst DEF TimeOf
      <4>3. next \in Nat
        BY <1>4, TimedCounted
      <4>4. now <= AheadAt - seen
        BY <1>1 DEF LayerOK, TimesOK
      <4> HIDE DEF now, next
      <4>5. TimeOf(written) \in {0, 1}
        BY <1>4
      <4>6. next <= AheadAt' - SeenAt
        BY <1>4, <2>6, <4>2, <4>3, <4>4, <4>5, SMTT(30)
      <4> QED BY <2>1, <4>1, <4>6 DEF TimesOK, next
    <3> QED BY <3>1, <3>2
  <2>8. AuxOK'
    <3> SUFFICES ASSUME fans.aux
                 PROVE  want.aux = AuxFan(fans, nth) /\ (aux' = want.aux \/ Ahead(text, written + 1, "aux"))
      BY <1>3, <2>1, Zenon DEF AuxOK
    <3>1. want.aux = AuxFan(fans, nth) /\ (aux = want.aux \/ Ahead(text, written, "aux"))
      BY <1>1 DEF LayerOK, AuxOK
    <3> QED BY <1>3, <1>7, <3>1, Zenon
  <2>9. written' \in 1..Len(text)
    BY <1>4, <1>8, <2>1
  <2>10. LayerOK'
    BY <1>1, <1>4, <2>1, <2>4, <2>5, <2>7, <2>8, <2>9 DEF LayerOK
  <2> QED BY <1>1, <1>3, <1>6, <2>1, <2>10 DEF CoolingOK, Idle
<1>9. CASE ~(written < Len(text))
  <2>1. nth' = nth + 1 /\ text' = <<>>
    BY <1>9 DEF WriteLine
  <2>2. written = Len(text) /\ Len(text) \in Nat
    BY <1>4, <1>9
  <2>3. /\ ~Over(text, written + 1) /\ ~Iron(text, written + 1)
        /\ ~Ahead(text, written + 1, "fan") /\ ~Ahead(text, written + 1, "aux")
    BY <1>1, <1>4, <2>2, ClosedAtEnd DEF LayerOK
  <2>4. ~(Boosted /\ look # written)
    BY <2>2 DEF Boosted
  <2>5. current' = want.fan
    BY <1>2, <2>3, <2>4 DEF CurrentAfter
  <2>6. fan' = want.fan
    BY <1>2, <1>5, <2>3, <2>5 DEF FanAfter
  <2>7. fans.aux => want.aux = AuxFan(fans, nth) /\ (aux = want.aux \/ Ahead(text, written, "aux"))
    BY <1>1 DEF LayerOK, AuxOK
  <2>8. fans.aux => want.aux = AuxFan(fans, nth) /\ aux' = want.aux
    BY <1>3, <1>7, <2>3, <2>7
  <2>9. nth' \in Nat /\ nth' - 1 = nth
    BY <1>1, <2>1
  <2>10. BetweenOK'
    BY <1>3, <2>6, <2>8, <2>9 DEF BetweenOK
  <2> QED BY <1>1, <1>3, <1>6, <2>1, <2>9, <2>10 DEF CoolingOK, Idle
<1> QED BY <1>8, <1>9

\* Nothing is printed yet.
LEMMA InitKeeps == CoolingInit => CoolingOK
<1> SUFFICES ASSUME CoolingInit PROVE CoolingOK
  OBVIOUS
<1>1. /\ fans \in Fans /\ nth = 0 /\ text = <<>>
      /\ want.fan = Unset /\ want.aux = Unset /\ current = Unset /\ fan = Unset /\ aux = Unset
  BY DEF CoolingInit
<1>2. Unset \in Int
  BY DEF Unset
<1>3. Idle
  BY <1>1 DEF Idle
<1>4. BetweenOK
  BY <1>1 DEF BetweenOK
<1> QED BY <1>1, <1>2, <1>3, <1>4 DEF CoolingOK

\* Nothing changes.
LEMMA StutterKeeps == ASSUME CoolingOK, UNCHANGED cooling PROVE CoolingOK'
BY DEF cooling, CoolingOK, Idle, BetweenOK, LayerOK, CurrentOK, FanOK, TimesOK, AuxOK, TakenBack, Boosted,
       LookAt, AheadAt, SeenAt, TimeOf, Boosts, Irons, Allowed

\* The invariant gives the property: at a line printed past the first Z the
\* fan's line is behind, so the machine has what is believed, or the boost that
\* line took back.
LEMMA FanIsRight == ASSUME CoolingOK PROVE FanFollows
<1>1. ASSUME Idle, nth > 0 PROVE fan = want.fan /\ (fans.aux => aux = AuxFan(fans, nth - 1))
  BY <1>1 DEF CoolingOK, BetweenOK
<1> DEFINE PastZ == /\ ~Idle /\ ~Looking /\ text[written] \in {"move", "z"}
                    /\ (\E n \in 1..(written - 1) : text[n] = "z")
           Right == CASE Amid("overhang", "overhangEnd") /\ Boosts -> fan = fans.overhang \/ (early /\ fan = want.fan)
                      [] Amid("ironing", "ironingEnd") /\ Irons -> fan = fans.ironing \/ (early /\ fan = want.fan)
                      [] OTHER -> fan = want.fan \/ (Boosts /\ fan = fans.overhang /\ Near)
<1>2. ASSUME PastZ PROVE Right
  <2>1. LayerOK
    BY <1>2 DEF CoolingOK
  <2>2. text \in Seq(LineKinds) /\ written \in Nat \ {0} /\ written <= Len(text)
    BY <2>1, TimesTyped
  <2>3. InPrintOrder(text) /\ CurrentOK /\ FanOK
    BY <2>1 DEF LayerOK
  <2>4. ~Ahead(text, written, "fan")
    <3>0. /\ written \in DOMAIN text
          /\ \A n \in 1..(written - 1) : n \in DOMAIN text /\ n < written
          /\ \A f \in DOMAIN text : written <= f => written < f \/ written = f
      BY <2>2
    <3> SUFFICES ASSUME NEW f \in DOMAIN text, written <= f, text[f] = "fan" PROVE FALSE
      BY DEF Ahead
    <3>1. PICK z \in 1..(written - 1) : text[z] = "z"
      BY <1>2
    <3>2. text[written] \in {"move", "z"}
      BY <1>2
    <3>3. written # f
      BY <3>2
    <3>4. written < f
      BY <3>0, <3>3
    <3>5. text[written] \notin {"move", "z"}
      BY <2>3, <3>0, <3>1, <3>4 DEF InPrintOrder
    <3> QED BY <3>2, <3>5
  <2>5. fan = current \/ TakenBack
    BY <2>3, <2>4 DEF FanOK
  <2>6. /\ Amid("overhang", "overhangEnd") <=> Over(text, written)
        /\ Amid("ironing", "ironingEnd") <=> Iron(text, written)
    BY Zenon DEF Amid, Over, Iron, Inside
  <2>7. ~(Over(text, written) /\ Iron(text, written))
    BY <2>2, <2>3, InsideQuiet
  <2>8. Boosted => Near
    <3> SUFFICES ASSUME Boosted PROVE Near
      OBVIOUS
    <3>1. /\ look \in written..Len(text) /\ text[look] = "overhang"
          /\ Cardinality(Timed(text, written, look)) <= fans.preStart
      BY DEF Boosted
    <3>2. {m \in written..(look - 1) : TimeOf(m) > 0} = Timed(text, written, look)
      BY DEF Timed, TimeOf
    <3> QED BY <3>1, <3>2, Zenon DEF Near
  <2>9. Boosted => Boosts /\ current = fans.overhang
    BY DEF Boosted
  <2>10. TakenBack => early /\ fan = want.fan
    BY DEF TakenBack
  <2>11. CASE Over(text, written) /\ Boosts
    <3>1. current = fans.overhang
      BY <2>3, <2>11 DEF CurrentOK
    <3> QED BY <2>5, <2>6, <2>7, <2>10, <2>11, <3>1
  <2>12. CASE ~(Over(text, written) /\ Boosts) /\ Iron(text, written) /\ Irons
    <3>1. current = fans.ironing
      BY <2>3, <2>12 DEF CurrentOK
    <3> QED BY <2>5, <2>6, <2>10, <2>12, <3>1
  <2>13. CASE ~(Over(text, written) /\ Boosts) /\ ~(Iron(text, written) /\ Irons)
    <3>1. current = want.fan \/ Boosted
      BY <2>3, <2>13 DEF CurrentOK
    <3> QED BY <2>5, <2>6, <2>8, <2>9, <2>10, <2>13, <3>1
  <2> QED BY <2>11, <2>12, <2>13
<1> QED BY <1>1, <1>2 DEF FanFollows

\* Whatever the settings, the layers and their times, spiral_mode's with them:
\* what is printed past its layer's first Z has the fan it should have, or the
\* layer's own where that line came after a boost began, and each layer ends
\* with the fans it asked for (apply_part_cooling).
THEOREM FansFollow == CoolingSpec => []FanFollows
<1>1. CoolingInit => CoolingOK
  BY InitKeeps
<1>2. CoolingOK /\ [CoolingNext]_cooling => CoolingOK'
  BY FlushKeeps, LookAheadKeeps, WriteLineKeeps, StutterKeeps DEF CoolingNext
<1>3. CoolingOK => FanFollows
  BY FanIsRight
<1> QED BY <1>1, <1>2, <1>3, PTL DEF CoolingSpec

-----------------------------------------------------------------------------
(* The macros of the printer *)

\* What holds of 0 and passes to the next number holds of all.
LEMMA Induct ==
    ASSUME NEW T, 0 \in T, \A n \in Nat : n \in T => n + 1 \in T
    PROVE  \A n \in Nat : n \in T
<1> SUFFICES ASSUME NEW k \in Nat \ T PROVE FALSE
  OBVIOUS
<1>1. PICK m \in Nat \ T : \A n \in Nat \ T : m <= n
  BY Least
<1>2. m - 1 \in Nat /\ m - 1 \in T
  BY <1>1
<1> QED BY <1>1, <1>2

-----------------------------------------------------------------------------
(* What a template means                                                    *)

Macro == Seq(Ascii)

\* The conditions; and ASCII stays itself.
LEMMA Kind ==
    ASSUME NEW x \in Ascii
    PROVE  /\ x[1] \in {"if", "elsif"} => x[2] \in BOOLEAN
           /\ Recoded(x) = x /\ Shown(x) \in Ascii
<1>1. CASE x \in {"text", "value", "open", "close"} \X Nat
  <2>1. x[1] \in {"text", "value", "open", "close"} /\ x[2] \in Nat
    BY <1>1
  <2>2. <<"text", x[2]>> \in Ascii
    BY <2>1 DEF Ascii
  <2>3. Shown(x) \in Ascii
    BY <2>2 DEF Shown
  <2>4. x[1] # "utf8" /\ x[1] \notin {"if", "elsif"}
    BY <2>1
  <2> QED BY <2>3, <2>4 DEF Recoded
<1>2. CASE x \in {"if", "elsif", "else", "endif"} \X BOOLEAN
  <2>1. x[1] \in {"if", "elsif", "else", "endif"} /\ x[2] \in BOOLEAN
    BY <1>2
  <2>2. x[1] # "utf8" /\ x[1] # "value"
    BY <2>1
  <2> QED BY <2>1, <2>2 DEF Recoded, Shown
<1> QED BY <1>1, <1>2 DEF Ascii

\* A text is its first token and the others.
LEMMA FirstToken ==
    ASSUME NEW w \in Macro, w # <<>>
    PROVE  /\ Tail(w) \in Macro /\ Len(Tail(w)) = Len(w) - 1 /\ Len(w) \in Nat \ {0}
           /\ w[1] \in Ascii /\ Head(w) = w[1] /\ w = <<w[1]>> \o Tail(w)
<1>1. w \in Seq(Ascii) /\ Len(w) \in Nat \ {0}
  BY EmptySeq DEF Macro
<1>2. Tail(w) \in Seq(Ascii) /\ Len(Tail(w)) = Len(w) - 1 /\ \A i \in 1 .. Len(w) - 1 : Tail(w)[i] = w[i + 1]
  BY <1>1
<1>3. w[1] \in Ascii /\ Head(w) = w[1]
  BY <1>1
<1> DEFINE r == Tail(w)
           x == w[1]
<1> HIDE DEF r, x
<1>4. r \in Seq(Ascii) /\ x \in Ascii
  BY <1>2, <1>3 DEF r, x
<1>5. /\ <<x>> \o r \in Seq(Ascii) /\ Len(<<x>> \o r) = 1 + Len(r)
      /\ \A i \in 1 .. 1 + Len(r) : (<<x>> \o r)[i] = IF i = 1 THEN x ELSE r[i - 1]
  BY <1>4
<1>6. ASSUME NEW i \in 1 .. Len(w) PROVE (<<x>> \o r)[i] = w[i]
  <2>1. CASE i = 1
    BY <1>1, <1>2, <1>5, <2>1 DEF x, r
  <2>2. CASE i # 1
    <3>1. i - 1 \in 1 .. Len(w) - 1 /\ i - 1 + 1 = i /\ i \in 1 .. 1 + Len(r)
      BY <1>1, <1>2, <2>2 DEF r
    <3>2. r[i - 1] = w[i]
      BY <1>2, <3>1 DEF r
    <3> QED BY <1>5, <2>2, <3>1, <3>2
  <2> QED BY <2>1, <2>2
<1>7. Len(<<x>> \o r) = Len(w)
  BY <1>1, <1>2, <1>5 DEF r
<1>8. w = <<x>> \o r
  BY <1>1, <1>5, <1>6, <1>7, SeqEqual
<1> QED BY <1>1, <1>2, <1>3, <1>8 DEF Macro, x, r

\* After its first token it is a branch and the others.
LEMMA Cut ==
    ASSUME NEW w \in Macro, NEW n \in 2 .. Len(w)
    PROVE  /\ Branch(w, n) \in Macro /\ Others(w, n) \in Macro
           /\ Tail(w) = Branch(w, n) \o Others(w, n)
           /\ Len(Branch(w, n)) < Len(w) /\ Len(Others(w, n)) < Len(w)
<1>1. w \in Seq(Ascii) /\ Len(w) \in Nat /\ n \in Nat /\ w # <<>> /\ n - 1 \in Nat /\ n - 1 <= Len(w)
  BY DEF Macro
<1>2. Branch(w, n) \in Seq(Ascii) /\ Len(Branch(w, n)) = n - 2
  <2> DEFINE k == n - 1
  <2>1. k \in Nat /\ k >= 1 /\ k <= Len(w) /\ k - 1 = n - 2
    BY <1>1
  <2> HIDE DEF k
  <2>2. SubSeq(w, 2, k) \in Seq(Ascii) /\ Len(SubSeq(w, 2, k)) = k - 1
    BY <1>1, <2>1
  <2> QED BY <2>1, <2>2 DEF Branch, k
<1>3. Others(w, n) \in Seq(Ascii) /\ Len(Others(w, n)) = Len(w) - n + 1
  BY <1>1 DEF Others
<1>4. Tail(w) = SubSeq(w, 2, Len(w))
  BY <1>1, TailIsSubSeq
<1>5. SubSeq(w, 2, n - 1) \o SubSeq(w, n, Len(w)) = SubSeq(w, 2, Len(w))
  <2>1. 2 \in 1 .. Len(w) + 1 /\ n - 1 \in (2 - 1) .. Len(w) /\ Len(w) \in (n - 1) .. Len(w) /\ (n - 1) + 1 = n
    BY <1>1
  <2> DEFINE k == n - 1
  <2>2. k \in (2 - 1) .. Len(w) /\ Len(w) \in k .. Len(w) /\ k + 1 = n
    BY <2>1
  <2> HIDE DEF k
  <2>3. SubSeq(w, 2, k) \o SubSeq(w, k + 1, Len(w)) = SubSeq(w, 2, Len(w))
    BY <1>1, <2>1, <2>2, ConcatAdjacentSubSeq
  <2> QED BY <2>2, <2>3 DEF k
<1>6. n - 2 < Len(w) /\ Len(w) - n + 1 < Len(w)
  BY <1>1
<1> QED BY <1>2, <1>3, <1>4, <1>5, <1>6 DEF Branch, Others, Macro

\* What a text says, with its branch and the others for an {if}.
IfSays(w, b, t) ==
    /\ b \in DOMAIN Meaning /\ t \in DOMAIN After /\ Tail(w) = b \o t
    /\ Len(b) < Len(w) /\ Len(t) < Len(w)
    /\ Meaning[w] = (IF w[1][2] THEN Meaning[b] ELSE Other[t]) \o Meaning[After[t]]

\* What it says when it begins with brackets that are closed at n.
BracketSays(w, n) ==
    /\ Closing(w, n) /\ Branch(w, n) \in DOMAIN Meaning /\ Others(w, n + 1) \in DOMAIN Meaning
    /\ Meaning[w] = SubSeq(w, 1, n) \o Meaning[Others(w, n + 1)]

LEMMA TextSays ==
    ASSUME NEW w \in DOMAIN Meaning
    PROVE  /\ w \in Macro /\ Meaning[w] \in Macro
           /\ w = <<>> => Meaning[w] = <<>>
           /\ w # <<>> => w[1][1] \in {"text", "value", "open", "close", "if"}
           /\ w # <<>> /\ w[1][1] # "if" /\ ~Bracketed(w) =>
                 Tail(w) \in DOMAIN Meaning /\ Meaning[w] = <<Shown(w[1])>> \o Meaning[Tail(w)]
           /\ w # <<>> /\ Bracketed(w) =>
                 w[1][1] = "open" /\ \E n \in 2 .. Len(w) : BracketSays(w, n)
           /\ w # <<>> /\ w[1][1] = "if" => \E b, t : IfSays(w, b, t)
<1>1. w \in Macro /\ Meaning[w] \in Macro /\ Says(w)
  BY MeaningAssumption DEF Macro
<1>2. "if" \notin {"text", "value", "open", "close"}
  OBVIOUS
<1>3. "if" # "open"
  OBVIOUS
<1>4. ASSUME w # <<>>, w[1][1] = "if" PROVE \E b, t : IfSays(w, b, t)
  <2>1. PICK n \in 2 .. Len(w) :
           /\ Branched(w, n)
           /\ Meaning[w] = (IF w[1][2] THEN Meaning[Branch(w, n)] ELSE Other[Others(w, n)])
                           \o Meaning[After[Others(w, n)]]
    BY <1>1, <1>2, <1>3, <1>4, Zenon DEF Says
  <2>2. /\ Tail(w) = Branch(w, n) \o Others(w, n)
        /\ Len(Branch(w, n)) < Len(w) /\ Len(Others(w, n)) < Len(w)
    BY <1>1, Cut
  <2>3. IfSays(w, Branch(w, n), Others(w, n))
    BY <2>1, <2>2, Zenon DEF IfSays, Branched
  <2> QED BY <2>3, Zenon
<1>5. w = <<>> => Meaning[w] = <<>>
  BY <1>1, Zenon DEF Says
<1>6. w # <<>> => w[1][1] \in {"text", "value", "open", "close", "if"}
  <2>1. w # <<>> => w[1][1] \in {"text", "value", "open", "close"} \/ w[1][1] = "open" \/ w[1][1] = "if"
    BY <1>1, Zenon DEF Says
  <2> QED BY <2>1
<1>7. w # <<>> /\ w[1][1] # "if" /\ ~Bracketed(w) =>
         Tail(w) \in DOMAIN Meaning /\ Meaning[w] = <<Shown(w[1])>> \o Meaning[Tail(w)]
  BY <1>1, Zenon DEF Says, Bracketed
<1>8. ASSUME w # <<>>, Bracketed(w)
      PROVE  w[1][1] = "open" /\ \E n \in 2 .. Len(w) : BracketSays(w, n)
  <2>1. w[1][1] = "open"
    BY <1>8, Zenon DEF Bracketed, Closing
  <2>2. \E n \in 2 .. Len(w) :
           /\ Closing(w, n) /\ Branch(w, n) \in DOMAIN Meaning
           /\ Others(w, n + 1) \in DOMAIN Meaning
           /\ Meaning[w] = SubSeq(w, 1, n) \o Meaning[Others(w, n + 1)]
    BY <1>1, <1>3, <1>8, <2>1, Zenon DEF Says
  <2> QED BY <2>1, <2>2, Zenon DEF BracketSays
<1> QED BY <1>1, <1>4, <1>5, <1>6, <1>7, <1>8

\* What the branches from t on say.
ElseSays(t, b, u) ==
    /\ b \in DOMAIN Meaning /\ u \in DOMAIN After /\ Tail(t) = b \o u
    /\ Len(b) < Len(t) /\ Len(u) < Len(t)
    /\ After[t] = After[u]
    /\ Other[t] = IF t[1][1] = "else" \/ t[1][2] THEN Meaning[b] ELSE Other[u]

LEMMA OtherSays ==
    ASSUME NEW t \in DOMAIN After
    PROVE  /\ t \in Macro /\ Other[t] \in Macro /\ After[t] \in DOMAIN Meaning
           /\ t # <<>> /\ t[1][1] \in {"elsif", "else", "endif"}
           /\ t[1][1] = "endif" => After[t] = Tail(t) /\ Other[t] = <<>>
           /\ t[1][1] # "endif" => \E b, u : ElseSays(t, b, u)
<1>1. t \in Macro /\ Other[t] \in Macro /\ After[t] \in DOMAIN Meaning /\ SaysElse(t)
  BY MeaningAssumption DEF Macro
<1>2. "endif" # "elsif" /\ "endif" # "else"
  OBVIOUS
<1>3. ASSUME t[1][1] # "endif" PROVE \E b, u : ElseSays(t, b, u)
  <2>1. PICK n \in 2 .. Len(t) :
           /\ Branched(t, n)
           /\ After[t] = After[Others(t, n)]
           /\ Other[t] = IF t[1][1] = "else" \/ t[1][2] THEN Meaning[Branch(t, n)]
                         ELSE Other[Others(t, n)]
    BY <1>1, <1>3, Zenon DEF SaysElse
  <2>2. /\ Tail(t) = Branch(t, n) \o Others(t, n)
        /\ Len(Branch(t, n)) < Len(t) /\ Len(Others(t, n)) < Len(t)
    BY <1>1, Cut
  <2>3. ElseSays(t, Branch(t, n), Others(t, n))
    BY <2>1, <2>2, Zenon DEF ElseSays, Branched
  <2> QED BY <2>3, Zenon
<1>4. t # <<>> /\ t[1][1] \in {"elsif", "else", "endif"}
  BY <1>1, Zenon DEF SaysElse
<1>5. t[1][1] = "endif" => After[t] = Tail(t) /\ Other[t] = <<>>
  BY <1>1, <1>2, Zenon DEF SaysElse
<1> QED BY <1>1, <1>3, <1>4, <1>5

-----------------------------------------------------------------------------
(* How deep the tokens of a text are                                        *)

\* Reading x at depth a leads to depth b, and an {if} is open for what is not
\* of this branch.
Ticks(x, a, b) ==
    /\ a \in Nat /\ b \in Nat
    /\ a = 0 => x[1] \notin {"elsif", "else", "endif"}
    /\ x[1] = "if" => b = a + 1
    /\ x[1] = "endif" => b = a - 1
    /\ x[1] \notin {"if", "endif"} => b = a

\* d[n] is the depth after n tokens.
Climbs(w, d) ==
    /\ d \in [0 .. Len(w) -> Nat]
    /\ \A n \in 1 .. Len(w) : Ticks(w[n], d[n - 1], d[n])

Leads(w, a, z) == \E d : Climbs(w, d) /\ d[0] = a /\ d[Len(w)] = z

\* One token.
LEMMA LeadsByToken ==
    ASSUME NEW x \in Ascii, NEW a, NEW z, Ticks(x, a, z)
    PROVE  Leads(<<x>>, a, z)
<1> DEFINE d == [n \in 0 .. 1 |-> IF n = 0 THEN a ELSE z]
<1>1. a \in Nat /\ z \in Nat
  BY DEF Ticks
<1>2. Len(<<x>>) = 1 /\ <<x>>[1] = x
  OBVIOUS
<1>3. d \in [0 .. 1 -> Nat] /\ d[0] = a /\ d[1] = z
  BY <1>1
<1>4. \A n \in 1 .. 1 : n = 1 /\ n - 1 = 0
  OBVIOUS
<1> HIDE DEF d
<1>5. Climbs(<<x>>, d)
  <2>1. ASSUME NEW n \in 1 .. 1 PROVE Ticks(<<x>>[n], d[n - 1], d[n])
    <3>1. n = 1 /\ n - 1 = 0
      BY <1>4
    <3> QED BY <1>2, <1>3, <3>1
  <2> QED BY <1>2, <1>3, <2>1 DEF Climbs
<1> QED BY <1>2, <1>3, <1>5 DEF Leads

\* A text that leads back to no depth does so within an {if} too.
LEMMA LeadsWithin ==
    ASSUME NEW w \in Macro, Leads(w, 0, 0)
    PROVE  Leads(w, 1, 1)
<1>1. PICK d : Climbs(w, d) /\ d[0] = 0 /\ d[Len(w)] = 0
  BY DEF Leads
<1>2. Len(w) \in Nat /\ 0 \in 0 .. Len(w) /\ Len(w) \in 0 .. Len(w)
  BY DEF Macro
<1> DEFINE e == [n \in 0 .. Len(w) |-> d[n] + 1]
<1>3. \A n \in 0 .. Len(w) : d[n] \in Nat
  BY <1>1 DEF Climbs
<1>4. e \in [0 .. Len(w) -> Nat] /\ e[0] = 1 /\ e[Len(w)] = 1 /\ \A n \in 0 .. Len(w) : e[n] = d[n] + 1
  BY <1>1, <1>2, <1>3
<1> HIDE DEF e
<1>5. ASSUME NEW n \in 1 .. Len(w) PROVE Ticks(w[n], e[n - 1], e[n])
  <2>1. n \in 0 .. Len(w) /\ n - 1 \in 0 .. Len(w)
    BY <1>2
  <2>2. Ticks(w[n], d[n - 1], d[n])
    BY <1>1 DEF Climbs
  <2> DEFINE a == d[n - 1]
             b == d[n]
             x == w[n]
  <2>3. e[n - 1] = a + 1 /\ e[n] = b + 1 /\ a \in Nat /\ b \in Nat
    BY <1>3, <1>4, <2>1
  <2> HIDE DEF a, b, x
  <2>4. Ticks(x, a, b)
    BY <2>2 DEF a, b, x
  <2>5. Ticks(x, a + 1, b + 1)
    BY <2>3, <2>4 DEF Ticks
  <2> QED BY <2>3, <2>5 DEF x
<1> QED BY <1>4, <1>5 DEF Leads, Climbs

\* Two texts, one after the other.
LEMMA LeadsFurther ==
    ASSUME NEW u \in Macro, NEW v \in Macro, NEW a, NEW b, NEW c, Leads(u, a, b), Leads(v, b, c)
    PROVE  Leads(u \o v, a, c)
<1>1. PICK d : Climbs(u, d) /\ d[0] = a /\ d[Len(u)] = b
  BY DEF Leads
<1>2. PICK e : Climbs(v, e) /\ e[0] = b /\ e[Len(v)] = c
  BY DEF Leads
<1>3. Len(u) \in Nat /\ Len(v) \in Nat /\ u \in Seq(Ascii) /\ v \in Seq(Ascii)
  BY DEF Macro
<1> DEFINE k == Len(u)
           l == Len(v)
           w == u \o v
           f == [n \in 0 .. k + l |-> IF n <= k THEN d[n] ELSE e[n - k]]
<1>4. /\ Len(w) = k + l
      /\ \A n \in 1 .. k : w[n] = u[n]
      /\ \A n \in (k + 1) .. (k + l) : w[n] = v[n - k]
  BY <1>3
<1> HIDE DEF w
<1>5. k \in Nat /\ l \in Nat
  BY <1>3
<1>6. d \in [0 .. k -> Nat] /\ e \in [0 .. l -> Nat]
  BY <1>1, <1>2 DEF Climbs
<1>7. \A n \in 1 .. k : Ticks(u[n], d[n - 1], d[n])
  BY <1>1 DEF Climbs
<1>8. \A n \in 1 .. l : Ticks(v[n], e[n - 1], e[n])
  BY <1>2 DEF Climbs
<1>9. d[0] = a /\ d[k] = b /\ e[0] = b /\ e[l] = c
  BY <1>1, <1>2
<1> HIDE DEF k, l
<1>10. /\ \A n \in 0 .. k : f[n] = d[n]
       /\ \A n \in (k + 1) .. (k + l) : f[n] = e[n - k]
  BY <1>5
<1>11. f \in [0 .. k + l -> Nat]
  <2>1. ASSUME NEW n \in 0 .. k + l PROVE (IF n <= k THEN d[n] ELSE e[n - k]) \in Nat
    <3>1. CASE n <= k
      <4>1. n \in 0 .. k
        BY <1>5, <3>1
      <4> QED BY <1>6, <3>1, <4>1
    <3>2. CASE ~(n <= k)
      <4>1. n - k \in 0 .. l
        BY <1>5, <3>2
      <4> QED BY <1>6, <3>2, <4>1
    <3> QED BY <3>1, <3>2
  <2> QED BY <2>1
<1>12. f[0] = a
  BY <1>5, <1>9, <1>10
<1> HIDE DEF f
<1>13. f[k + l] = c
  <2>1. CASE l = 0
    <3>1. k + l = k /\ k \in 0 .. k
      BY <1>5, <2>1
    <3>2. f[k] = d[k] /\ e[0] = c
      BY <1>9, <1>10, <2>1, <3>1
    <3>3. f[k] = c
      BY <1>9, <3>2
    <3> QED BY <3>1, <3>3
  <2>2. CASE l # 0
    <3> DEFINE n == k + l
    <3>1. n \in (k + 1) .. (k + l) /\ n - k = l
      BY <1>5, <2>2
    <3> HIDE DEF n
    <3>2. f[n] = e[n - k]
      BY <1>10, <3>1
    <3>3. f[n] = c
      BY <1>9, <3>1, <3>2
    <3> QED BY <3>3 DEF n
  <2> QED BY <2>1, <2>2
<1>14. ASSUME NEW n \in 1 .. k + l PROVE Ticks(w[n], f[n - 1], f[n])
  <2>1. CASE n <= k
    <3>1. n \in 1 .. k /\ n \in 0 .. k /\ n - 1 \in 0 .. k
      BY <1>5, <2>1
    <3> QED BY <1>4, <1>7, <1>10, <3>1
  <2>2. CASE n = k + 1
    <3>1. /\ n \in (k + 1) .. (k + l) /\ n - k = 1 /\ n - 1 = k /\ k \in 0 .. k /\ 1 \in 1 .. l /\ 1 - 1 = 0
      BY <1>5, <2>2
    <3>2. w[n] = v[n - k] /\ f[n] = e[n - k]
      <4>1. n \in (k + 1) .. (k + l)
        BY <3>1
      <4> QED BY <1>4, <1>10, <4>1, Zenon
    <3>3. w[n] = v[1] /\ f[n] = e[1]
      BY <3>1, <3>2, Zenon
    <3>4. f[n - 1] = e[0]
      BY <1>9, <1>10, <3>1
    <3>5. Ticks(v[1], e[0], e[1])
      BY <1>8, <3>1
    <3> QED BY <3>3, <3>5, <3>4
  <2>3. CASE n > k + 1
    <3>1. /\ n \in (k + 1) .. (k + l) /\ n - 1 \in (k + 1) .. (k + l) /\ n - k \in 1 .. l
          /\ n - 1 - k = n - k - 1
      BY <1>5, <2>3
    <3>2. w[n] = v[n - k] /\ f[n] = e[n - k] /\ f[n - 1] = e[n - k - 1]
      BY <1>4, <1>10, <3>1
    <3>3. Ticks(v[n - k], e[n - k - 1], e[n - k])
      BY <1>8, <3>1
    <3> QED BY <3>2, <3>3
  <2>4. n <= k \/ n = k + 1 \/ n > k + 1
    BY <1>5
  <2> QED BY <2>1, <2>2, <2>3, <2>4
<1> QED BY <1>4, <1>11, <1>12, <1>13, <1>14 DEF Leads, Climbs, w

\* A text is at the depth 0 at its end, as are the branches from one's brace on
\* after the {endif}.
LEMMA LeadsBack ==
    /\ \A w \in DOMAIN Meaning : Leads(w, 0, 0)
    /\ \A t \in DOMAIN After : Leads(t, 1, 0)
<1> DEFINE T == {k \in Nat : /\ \A w \in DOMAIN Meaning : Len(w) <= k => Leads(w, 0, 0)
                             /\ \A t \in DOMAIN After : Len(t) <= k => Leads(t, 1, 0)}
<1>1. Leads(<<>>, 0, 0)
  <2> DEFINE d == [n \in 0 .. 0 |-> 0]
  <2>1. d \in [0 .. 0 -> Nat] /\ d[0] = 0 /\ Len(<<>>) = 0 /\ 1 .. 0 = {}
    OBVIOUS
  <2> HIDE DEF d
  <2> QED BY <2>1 DEF Leads, Climbs
<1>2. 0 \in T
  <2>1. ASSUME NEW w \in DOMAIN Meaning, Len(w) <= 0 PROVE Leads(w, 0, 0)
    <3>1. w \in Macro
      BY TextSays
    <3>2. w = <<>>
      BY <2>1, <3>1, FirstToken
    <3> QED BY <1>1, <3>2
  <2>2. ASSUME NEW t \in DOMAIN After, Len(t) <= 0 PROVE FALSE
    <3>1. t \in Macro /\ t # <<>>
      BY OtherSays
    <3> QED BY <2>2, <3>1, FirstToken
  <2> QED BY <2>1, <2>2
<1>3. ASSUME NEW k \in Nat, k \in T PROVE k + 1 \in T
  <2>0. /\ \A w \in DOMAIN Meaning : Len(w) <= k => Leads(w, 0, 0)
        /\ \A t \in DOMAIN After : Len(t) <= k => Leads(t, 1, 0)
    BY <1>3
  <2>1. ASSUME NEW w \in DOMAIN Meaning, NEW l \in Nat, l < Len(w), Len(w) <= k + 1, Len(w) \in Nat
        PROVE  l <= k
    BY <2>1
  <2>2. ASSUME NEW w \in DOMAIN Meaning, Len(w) <= k + 1 PROVE Leads(w, 0, 0)
    <3>1. w \in Macro
      BY TextSays
    <3>2. CASE w = <<>>
      BY <1>1, <3>2
    <3>3. CASE w # <<>> /\ w[1][1] # "if" /\ ~Bracketed(w)
      <4>1. Tail(w) \in DOMAIN Meaning
        BY <3>3, TextSays
      <4>2. Len(Tail(w)) <= k /\ w[1] \in Ascii /\ w = <<w[1]>> \o Tail(w) /\ Tail(w) \in Macro
        BY <2>2, <3>1, <3>3, FirstToken
      <4>3. Leads(Tail(w), 0, 0)
        BY <2>0, <4>1, <4>2
      <4>4. Ticks(w[1], 0, 0)
        <5>1. w[1][1] \in {"text", "value", "open", "close", "if"}
          BY <3>3, TextSays
        <5> QED BY <3>3, <5>1 DEF Ticks
      <4>5. Leads(<<w[1]>>, 0, 0)
        BY <4>2, <4>4, LeadsByToken
      <4>6. <<w[1]>> \in Macro
        BY <4>2 DEF Macro
      <4>7. Leads(<<w[1]>> \o Tail(w), 0, 0)
        BY <4>2, <4>3, <4>5, <4>6, LeadsFurther
      <4> QED BY <4>2, <4>7
    <3>4. CASE w # <<>> /\ w[1][1] = "if"
      <4>1. PICK b, t : IfSays(w, b, t)
        BY <3>4, TextSays
      <4>2. b \in DOMAIN Meaning /\ t \in DOMAIN After /\ Tail(w) = b \o t /\ Len(b) < Len(w) /\ Len(t) < Len(w)
        BY <4>1 DEF IfSays
      <4>3. b \in Macro /\ t \in Macro
        BY <4>2, TextSays, OtherSays
      <4>4. Len(b) \in Nat /\ Len(t) \in Nat /\ Len(w) \in Nat
        BY <3>1, <4>3 DEF Macro
      <4>5. Len(b) <= k /\ Len(t) <= k
        BY <2>2, <4>2, <4>4
      <4>6. Leads(b, 1, 1) /\ Leads(t, 1, 0)
        BY <2>0, <4>2, <4>3, <4>5, LeadsWithin
      <4>7. Leads(b \o t, 1, 0)
        BY <4>3, <4>6, LeadsFurther
      <4>8. w[1] \in Ascii /\ w = <<w[1]>> \o Tail(w) /\ Tail(w) \in Macro
        BY <3>1, <3>4, FirstToken
      <4>9. Ticks(w[1], 0, 1)
        BY <3>4 DEF Ticks
      <4>10. Leads(<<w[1]>>, 0, 1)
        BY <4>8, <4>9, LeadsByToken
      <4>11. <<w[1]>> \in Macro
        BY <4>8 DEF Macro
      <4>12. Leads(<<w[1]>> \o Tail(w), 0, 0)
        BY <4>2, <4>7, <4>8, <4>10, <4>11, LeadsFurther
      <4> QED BY <4>8, <4>12
    <3>5. CASE w # <<>> /\ Bracketed(w)
      <4>1. PICK n \in 2 .. Len(w) : BracketSays(w, n)
        BY <3>5, TextSays
      <4> DEFINE b == Branch(w, n)
                 u == Others(w, n)
                 v == Others(w, n + 1)
      <4>2. b \in DOMAIN Meaning /\ v \in DOMAIN Meaning /\ w[1][1] = "open" /\ w[n][1] = "close"
        BY <4>1 DEF BracketSays, Closing
      <4>3. /\ b \in Macro /\ u \in Macro /\ v \in Macro /\ Tail(w) = b \o u
            /\ Len(b) < Len(w) /\ Len(u) < Len(w)
        BY <3>1, <4>2, Cut, TextSays
      <4>4. w[1] \in Ascii /\ w = <<w[1]>> \o Tail(w) /\ Tail(w) \in Macro /\ Len(w) \in Nat
        BY <3>1, <3>5, FirstToken
      <4>5. w[n] \in Ascii /\ u = <<w[n]>> \o v
        <5>1. w \in Seq(Ascii) /\ n \in 1 .. Len(w) /\ Len(w) \in n .. Len(w)
          BY <3>1, <4>4 DEF Macro
        <5>2. SubSeq(w, n, Len(w)) = <<w[n]>> \o SubSeq(w, n + 1, Len(w))
          BY <5>1, SubSeqRecursiveFirst
        <5>3. w[n] \in Ascii
          BY <5>1
        <5> QED BY <5>2, <5>3, Zenon DEF Others
      <4> HIDE DEF b, u, v
      <4>6. Len(b) \in Nat /\ Len(v) \in Nat /\ Len(u) \in Nat /\ <<w[n]>> \in Macro /\ <<w[1]>> \in Macro
        <5>1. Len(b) \in Nat /\ Len(v) \in Nat /\ Len(u) \in Nat
          BY <4>3 DEF Macro
        <5>2. \A x \in Ascii : <<x>> \in Macro
          BY DEF Macro
        <5> QED BY <4>4, <4>5, <5>1, <5>2
      <4>7. Len(u) = 1 + Len(v)
        <5> DEFINE x == w[n]
        <5>1. x \in Ascii /\ v \in Seq(Ascii) /\ u = <<x>> \o v
          BY <4>3, <4>5 DEF Macro
        <5> HIDE DEF x
        <5> QED BY <5>1
      <4>8. Len(b) <= k /\ Len(v) <= k
        BY <2>2, <4>3, <4>4, <4>6, <4>7
      <4>9. Leads(b, 0, 0) /\ Leads(v, 0, 0)
        BY <2>0, <4>2, <4>8
      <4>10. Ticks(w[1], 0, 0) /\ Ticks(w[n], 0, 0)
        BY <4>2 DEF Ticks
      <4>11. Leads(<<w[1]>>, 0, 0) /\ Leads(<<w[n]>>, 0, 0)
        BY <4>4, <4>5, <4>10, LeadsByToken
      <4>12. Leads(u, 0, 0)
        <5>1. Leads(<<w[n]>> \o v, 0, 0)
          BY <4>3, <4>6, <4>9, <4>11, LeadsFurther
        <5> QED BY <4>5, <5>1
      <4>13. Leads(Tail(w), 0, 0)
        <5>1. Leads(b \o u, 0, 0)
          BY <4>3, <4>9, <4>12, LeadsFurther
        <5> QED BY <4>3, <5>1
      <4>14. Leads(<<w[1]>> \o Tail(w), 0, 0)
        BY <4>4, <4>6, <4>11, <4>13, LeadsFurther
      <4> QED BY <4>4, <4>14
    <3> QED BY <3>2, <3>3, <3>4, <3>5
  <2>3. ASSUME NEW t \in DOMAIN After, Len(t) <= k + 1 PROVE Leads(t, 1, 0)
    <3>1. t \in Macro /\ t # <<>> /\ t[1][1] \in {"elsif", "else", "endif"}
      BY OtherSays
    <3>2. /\ t[1] \in Ascii /\ t = <<t[1]>> \o Tail(t) /\ Tail(t) \in Macro
          /\ Len(Tail(t)) = Len(t) - 1 /\ Len(t) \in Nat
      BY <3>1, FirstToken
    <3>3. <<t[1]>> \in Macro
      BY <3>2 DEF Macro
    <3>4. CASE t[1][1] = "endif"
      <4>1. Tail(t) \in DOMAIN Meaning
        BY <3>4, OtherSays
      <4>2. Len(Tail(t)) <= k
        BY <2>3, <3>2
      <4>3. Leads(Tail(t), 0, 0)
        BY <2>0, <4>1, <4>2
      <4>4. Ticks(t[1], 1, 0)
        BY <3>4 DEF Ticks
      <4>5. Leads(<<t[1]>>, 1, 0)
        BY <3>2, <4>4, LeadsByToken
      <4>6. Leads(<<t[1]>> \o Tail(t), 1, 0)
        BY <3>2, <3>3, <4>3, <4>5, LeadsFurther
      <4> QED BY <3>2, <4>6
    <3>5. CASE t[1][1] # "endif"
      <4>1. PICK b, u : ElseSays(t, b, u)
        BY <3>5, OtherSays
      <4>2. b \in DOMAIN Meaning /\ u \in DOMAIN After /\ Tail(t) = b \o u /\ Len(b) < Len(t) /\ Len(u) < Len(t)
        BY <4>1 DEF ElseSays
      <4>3. b \in Macro /\ u \in Macro
        BY <4>2, TextSays, OtherSays
      <4>4. Len(b) \in Nat /\ Len(u) \in Nat
        BY <4>3 DEF Macro
      <4>5. Len(b) <= k /\ Len(u) <= k
        BY <2>3, <3>2, <4>2, <4>4
      <4>6. Leads(b, 1, 1) /\ Leads(u, 1, 0)
        BY <2>0, <4>2, <4>3, <4>5, LeadsWithin
      <4>7. Leads(b \o u, 1, 0)
        BY <4>3, <4>6, LeadsFurther
      <4>8. Ticks(t[1], 1, 1)
        BY <3>1, <3>5 DEF Ticks
      <4>9. Leads(<<t[1]>>, 1, 1)
        BY <3>2, <4>8, LeadsByToken
      <4>10. Leads(<<t[1]>> \o Tail(t), 1, 0)
        BY <3>2, <3>3, <4>2, <4>7, <4>9, LeadsFurther
      <4> QED BY <3>2, <4>10
    <3> QED BY <3>4, <3>5
  <2> QED BY <2>2, <2>3
<1>4. \A k \in Nat : k \in T
  <2> HIDE DEF T
  <2> QED BY <1>2, <1>3, Induct
<1>5. ASSUME NEW w \in DOMAIN Meaning PROVE Leads(w, 0, 0)
  <2>1. Len(w) \in Nat /\ Len(w) <= Len(w)
    BY TextSays DEF Macro
  <2>2. Len(w) \in T
    <3> HIDE DEF T
    <3> QED BY <1>4, <2>1
  <2> QED BY <2>1, <2>2
<1>6. ASSUME NEW t \in DOMAIN After PROVE Leads(t, 1, 0)
  <2>1. Len(t) \in Nat /\ Len(t) <= Len(t)
    BY OtherSays DEF Macro
  <2>2. Len(t) \in T
    <3> HIDE DEF T
    <3> QED BY <1>4, <2>1
  <2> QED BY <2>1, <2>2
<1> QED BY <1>5, <1>6

-----------------------------------------------------------------------------
(* What is still to come                                                    *)

\* The innermost k of the texts fs mean m, one after the other.
Comes(fs, k, m) ==
    \E o \in [Nat -> Macro] :
       /\ o[0] = <<>> /\ o[k] = m
       /\ \A i \in 1 .. k : fs[i] \in DOMAIN Meaning /\ o[i] = Meaning[fs[i]] \o o[i - 1]

\* Nothing comes of no texts.
LEMMA ComesNone ==
    ASSUME NEW fs
    PROVE  Comes(fs, 0, <<>>) /\ \A m : Comes(fs, 0, m) => m = <<>>
<1> DEFINE o == [i \in Nat |-> <<>>]
<1>1. <<>> \in Macro
  BY EmptySeq DEF Macro
<1>2. o \in [Nat -> Macro] /\ o[0] = <<>> /\ 1 .. 0 = {}
  BY <1>1
<1> HIDE DEF o
<1>3. Comes(fs, 0, <<>>)
  BY <1>2 DEF Comes
<1> QED BY <1>3 DEF Comes

\* One text more comes first.
LEMMA ComesMore ==
    ASSUME NEW fs, NEW k \in Nat, NEW m, Comes(fs, k, m), NEW l, l = k + 1, fs[l] \in DOMAIN Meaning
    PROVE  Comes(fs, l, Meaning[fs[l]] \o m)
<1>1. PICK o \in [Nat -> Macro] :
         /\ o[0] = <<>> /\ o[k] = m
         /\ \A i \in 1 .. k : fs[i] \in DOMAIN Meaning /\ o[i] = Meaning[fs[i]] \o o[i - 1]
  BY DEF Comes
<1> DEFINE q == Meaning[fs[l]] \o m
           p == [i \in Nat |-> IF i = l THEN q ELSE o[i]]
<1>2. l \in Nat /\ k < l /\ 0 < l /\ l - 1 = k
  OBVIOUS
<1>3. m \in Macro /\ Meaning[fs[l]] \in Macro
  BY <1>1, TextSays
<1>4. q \in Macro
  BY <1>3, ConcatProperties DEF Macro
<1> HIDE DEF q
<1>5. p \in [Nat -> Macro] /\ p[l] = q /\ \A i \in Nat : i # l => p[i] = o[i]
  BY <1>2, <1>4
<1> HIDE DEF p
<1>6. p[0] = <<>> /\ p[k] = m
  BY <1>1, <1>2, <1>5
<1>7. ASSUME NEW i \in 1 .. l PROVE fs[i] \in DOMAIN Meaning /\ p[i] = Meaning[fs[i]] \o p[i - 1]
  <2>1. CASE i = l
    <3>1. i - 1 = k
      BY <1>2, <2>1
    <3>2. p[i] = Meaning[fs[l]] \o m
      BY <1>5, <2>1 DEF q
    <3> QED BY <1>6, <2>1, <3>1, <3>2
  <2>2. CASE i # l
    <3>1. i \in 1 .. k /\ i \in Nat /\ i - 1 \in Nat /\ i - 1 # l
      BY <1>2, <2>2
    <3>2. p[i] = o[i] /\ p[i - 1] = o[i - 1]
      BY <1>5, <2>2, <3>1
    <3> QED BY <1>1, <3>1, <3>2
  <2> QED BY <2>1, <2>2
<1>8. Comes(fs, l, q)
  BY <1>5, <1>6, <1>7 DEF Comes
<1> QED BY <1>8 DEF q

\* Only those texts count.
LEMMA ComesSame ==
    ASSUME NEW fs, NEW gs, NEW k \in Nat, NEW m, Comes(fs, k, m), \A i \in 1 .. k : gs[i] = fs[i]
    PROVE  Comes(gs, k, m)
BY DEF Comes

\* What comes is a text.
LEMMA ComesText ==
    ASSUME NEW fs, NEW k \in Nat, NEW m, Comes(fs, k, m)
    PROVE  m \in Macro
BY DEF Comes

\* What is left of a branch b and the text t after it, when n tokens are read.
Left(b, t, n) == SubSeq(b, n + 1, Len(b)) \o t

\* Before the first token, and after the last.
LEMMA LeftNone ==
    ASSUME NEW b \in Macro, NEW t \in Macro
    PROVE  /\ Left(b, t, 0) = b \o t /\ Left(b, t, Len(b)) = t
           /\ SubSeq(b, 1, 0) = <<>> /\ SubSeq(b, 1, Len(b)) = b
<1>1. b \in Seq(Ascii) /\ t \in Seq(Ascii) /\ Len(b) \in Nat
  BY DEF Macro
<1>2. SubSeq(b, 1, Len(b)) = b
  BY <1>1, SubSeqFull
<1>3. SubSeq(b, 1, 0) = <<>> /\ SubSeq(b, Len(b) + 1, Len(b)) = <<>>
  BY <1>1, SubSeqEmpty
<1>4. <<>> \o t = t
  BY <1>1, ConcatEmptySeq
<1>5. Left(b, t, 0) = b \o t
  <2>1. 0 + 1 = 1
    OBVIOUS
  <2>2. Left(b, t, 0) = SubSeq(b, 1, Len(b)) \o t
    BY ONLY <2>1, Zenon DEF Left
  <2> QED BY <1>2, <2>2
<1>6. Left(b, t, Len(b)) = t
  BY <1>3, <1>4 DEF Left
<1> QED BY <1>2, <1>3, <1>5, <1>6

\* A token before a text.
LEMMA TailOfMore ==
    ASSUME NEW x \in Ascii, NEW q \in Macro
    PROVE  <<x>> \o q # <<>> /\ (<<x>> \o q)[1] = x /\ Tail(<<x>> \o q) = q
<1> DEFINE w == <<x>> \o q
           r == Tail(w)
<1>1. q \in Seq(Ascii) /\ Len(q) \in Nat
  BY DEF Macro
<1>2. w \in Seq(Ascii) /\ Len(w) = 1 + Len(q) /\ \A i \in 1 .. 1 + Len(q) : w[i] = IF i = 1 THEN x ELSE q[i - 1]
  BY <1>1
<1> HIDE DEF w
<1>3. w # <<>> /\ w[1] = x
  BY <1>1, <1>2
<1>4. r \in Seq(Ascii) /\ Len(r) = Len(q) /\ \A i \in 1 .. Len(q) : r[i] = w[i + 1]
  BY <1>1, <1>2, <1>3
<1> HIDE DEF r
<1>5. ASSUME NEW i \in 1 .. Len(q) PROVE r[i] = q[i]
  <2>1. i + 1 \in 1 .. 1 + Len(q) /\ i + 1 # 1 /\ i + 1 - 1 = i
    BY <1>1
  <2> QED BY <1>2, <1>4, <2>1
<1>6. r = q
  BY <1>1, <1>4, <1>5, SeqEqual
<1> QED BY <1>3, <1>6 DEF w, r

\* One token of the branch is read.
LEMMA LeftMore ==
    ASSUME NEW b \in Macro, NEW t \in Macro, NEW n \in Nat, NEW k \in Nat, k = n + 1, k <= Len(b)
    PROVE  /\ b[k] \in Ascii /\ Left(b, t, n) # <<>> /\ Left(b, t, n)[1] = b[k]
           /\ Tail(Left(b, t, n)) = Left(b, t, k)
           /\ Append(SubSeq(b, 1, n), b[k]) = SubSeq(b, 1, k)
<1>1. b \in Seq(Ascii) /\ t \in Seq(Ascii) /\ Len(b) \in Nat /\ k \in 1 .. Len(b)
  BY DEF Macro
<1> DEFINE x == b[k]
           s == SubSeq(b, k + 1, Len(b))
<1>2. x \in Ascii
  BY <1>1
<1>3. s \in Seq(Ascii)
  BY <1>1
<1>4. SubSeq(b, k, Len(b)) = <<x>> \o s
  <2>1. k \in 1 .. Len(b) /\ Len(b) \in k .. Len(b)
    BY <1>1
  <2> QED BY <1>1, <2>1, SubSeqRecursiveFirst
<1>5. SubSeq(b, 1, k) = Append(SubSeq(b, 1, n), x)
  <2>1. 1 \in 1 .. Len(b) /\ k \in 1 .. Len(b) /\ k - 1 = n
    BY <1>1
  <2>2. SubSeq(b, 1, k) = Append(SubSeq(b, 1, k - 1), b[k])
    BY <1>1, <2>1, SubSeqRecursiveSecond
  <2> QED BY <2>1, <2>2
<1> HIDE DEF x, s
<1>6. Left(b, t, n) = (<<x>> \o s) \o t
  BY <1>4 DEF Left
<1>7. (<<x>> \o s) \o t = <<x>> \o (s \o t)
  <2>1. <<x>> \in Seq(Ascii)
    BY <1>2
  <2> QED BY <1>1, <1>3, <2>1, ConcatAssociative
<1>8. s \o t \in Macro
  BY <1>1, <1>3, ConcatProperties DEF Macro
<1>9. <<x>> \o (s \o t) # <<>> /\ (<<x>> \o (s \o t))[1] = x /\ Tail(<<x>> \o (s \o t)) = s \o t
  BY <1>2, <1>8, TailOfMore
<1>10. Left(b, t, k) = s \o t
  BY DEF Left, s
<1> QED BY <1>2, <1>5, <1>6, <1>7, <1>9, <1>10 DEF x

\* Three texts, one after the other.
LEMMA Grouped ==
    ASSUME NEW s \in Macro, NEW t \in Macro, NEW u \in Macro
    PROVE  (s \o t) \o u = s \o (t \o u)
BY ConcatAssociative DEF Macro

\* The text expanded: what comes before it, and what its first token leaves of it.
LEMMA Top ==
    ASSUME frames \in Seq(Macro), frames # <<>>
    PROVE  \E k \in Nat, l \in Nat :
              /\ l = k + 1 /\ Len(frames) = l /\ Rest = frames[l] /\ Rest \in Macro
              /\ Front(frames) \in Seq(Macro) /\ Len(Front(frames)) = k
              /\ \A i \in 1 .. k : Front(frames)[i] = frames[i]
              /\ Rest # <<>> =>
                    /\ Token = Rest[1] /\ Token \in Ascii
                    /\ Consumed \in Seq(Macro) /\ Len(Consumed) = l /\ Consumed[l] = Tail(Rest)
                    /\ \A i \in 1 .. k : Consumed[i] = frames[i]
<1> DEFINE l == Len(frames)
           k == l - 1
<1>1. l \in Nat /\ k \in Nat /\ l = k + 1 /\ l \in 1 .. l /\ Len(frames) = l
  BY EmptySeq
<1>2. Rest = frames[l] /\ Rest \in Macro
  BY <1>1 DEF Rest, Last
<1>3. Front(frames) = SubSeq(frames, 1, k)
  BY DEF Front
<1>4. Consumed = [frames EXCEPT ![l] = Tail(Rest)]
  BY DEF Consumed
<1> HIDE DEF k, l
<1>5. /\ Front(frames) \in Seq(Macro) /\ Len(Front(frames)) = k
      /\ \A i \in 1 .. k : Front(frames)[i] = frames[i]
  <2>1. 1 \in Int /\ k \in Int /\ k - 1 + 1 = k /\ (1 <= k => k - 1 + 1 = k) /\ (~(1 <= k) => 0 = k)
    BY <1>1
  <2>2. \A i \in 1 .. k : frames[i] \in Macro
    BY <1>1
  <2>3. /\ SubSeq(frames, 1, k) \in Seq(Macro)
        /\ Len(SubSeq(frames, 1, k)) = IF 1 <= k THEN k - 1 + 1 ELSE 0
        /\ \A i \in 1 .. k - 1 + 1 : SubSeq(frames, 1, k)[i] = frames[1 + i - 1]
    BY <2>1, <2>2, SubSeqProperties
  <2>4. \A i \in 1 .. k : 1 + i - 1 = i
    BY <2>1
  <2> QED BY <1>3, <2>1, <2>3, <2>4
<1>6. ASSUME Rest # <<>>
      PROVE  /\ Token = Rest[1] /\ Token \in Ascii
             /\ Consumed \in Seq(Macro) /\ Len(Consumed) = l /\ Consumed[l] = Tail(Rest)
             /\ \A i \in 1 .. k : Consumed[i] = frames[i]
  <2>1. Token = Rest[1] /\ Token \in Ascii /\ Tail(Rest) \in Macro
    BY <1>2, <1>6, FirstToken DEF Token
  <2> DEFINE r == Tail(Rest)
  <2> HIDE DEF r
  <2>2. Consumed = [frames EXCEPT ![l] = r]
    BY <1>4 DEF r
  <2>3. \A i \in 1 .. k : i # l /\ i \in 1 .. l
    BY <1>1
  <2>4. r \in Macro
    BY <2>1 DEF r
  <2>5. /\ [frames EXCEPT ![l] = r] \in Seq(Macro) /\ Len([frames EXCEPT ![l] = r]) = Len(frames)
        /\ \A i \in 1 .. Len(frames) : [frames EXCEPT ![l] = r][i] = IF i = l THEN r ELSE frames[i]
    BY <1>1, <2>4, ExceptSeq
  <2> QED BY <1>1, <2>1, <2>2, <2>3, <2>5 DEF r
<1> QED BY <1>1, <1>2, <1>5, <1>6

-----------------------------------------------------------------------------
(* The expansion                                                            *)

\* Outside an {if}: what is still to come completes the output.
AtText ==
    /\ ~within
    /\ \E m : Comes(frames, Len(frames), m) /\ expanded \o m = Meaning[template]

\* What an {if} counts for when b is the branch read, and t is the others.
IfMeans(b, t) ==
    IF chosen # <<>> THEN Meaning[chosen[1]]
    ELSE IF take THEN Meaning[b] ELSE Other[t]

\* Within an {if}: n tokens of the branch b are read, at depths d; m comes after all of it.
AtBranch(b, t, d, n, m) ==
    /\ within /\ take \in BOOLEAN /\ frames # <<>>
    /\ b \in DOMAIN Meaning /\ t \in DOMAIN After
    /\ Climbs(b, d) /\ d[0] = 0 /\ d[Len(b)] = 0
    /\ n \in 0 .. Len(b) /\ depth = d[n]
    /\ collecting = SubSeq(b, 1, n) /\ Rest = Left(b, t, n)
    /\ chosen = <<>> \/ \E c \in DOMAIN Meaning : chosen = <<c>>
    /\ Comes(frames, Len(frames) - 1, m)
    /\ expanded \o ((IfMeans(b, t) \o Meaning[After[t]]) \o m) = Meaning[template]

TemplateOK ==
    template \in DOMAIN Meaning =>
       /\ frames \in Seq(Macro) /\ expanded \in Macro
       /\ AtText \/ \E b, t, d, n, m : AtBranch(b, t, d, n, m)

\* The template is expanded first, and nothing is out.
LEMMA TemplateStart == TemplateInit => TemplateOK
<1> SUFFICES ASSUME TemplateInit, template \in DOMAIN Meaning
             PROVE  frames \in Seq(Macro) /\ expanded \in Macro /\ AtText
  BY DEF TemplateOK
<1>1. template \in Macro /\ Meaning[template] \in Macro
  BY TextSays
<1>2. frames = <<template>> /\ expanded = <<>> /\ ~within
  BY DEF TemplateInit
<1>3. frames \in Seq(Macro) /\ Len(frames) = 1 /\ frames[1] = template /\ expanded \in Macro
  BY <1>1, <1>2, EmptySeq DEF Macro
<1>4. Comes(frames, 1, Meaning[frames[1]] \o <<>>)
  <2>1. 0 \in Nat /\ 1 = 0 + 1
    OBVIOUS
  <2>2. Comes(frames, 0, <<>>)
    BY ComesNone
  <2>3. frames[1] \in DOMAIN Meaning
    BY <1>3
  <2> QED BY <2>1, <2>2, <2>3, ComesMore, Zenon
<1>5. Meaning[frames[1]] \o <<>> = Meaning[template] /\ <<>> \o Meaning[template] = Meaning[template]
  BY <1>1, <1>3, ConcatEmptySeq DEF Macro
<1>6. AtText
  BY <1>2, <1>3, <1>4, <1>5 DEF AtText
<1> QED BY <1>3, <1>6

\* Outside an {if}, the text expanded means something, and so does what is around it.
LEMMA InText ==
    ASSUME frames \in Seq(Macro), AtText, NEW k \in Nat, NEW l, l = k + 1, Len(frames) = l,
           Rest = frames[l]
    PROVE  /\ Rest \in DOMAIN Meaning
           /\ \E m \in Macro : /\ Comes(frames, k, m)
                               /\ expanded \o (Meaning[Rest] \o m) = Meaning[template]
<1>1. PICK p : Comes(frames, l, p) /\ expanded \o p = Meaning[template]
  BY DEF AtText
<1>2. PICK o \in [Nat -> Macro] :
         /\ o[0] = <<>> /\ o[l] = p
         /\ \A i \in 1 .. l : frames[i] \in DOMAIN Meaning /\ o[i] = Meaning[frames[i]] \o o[i - 1]
  BY <1>1 DEF Comes
<1>3. l \in 1 .. l /\ l - 1 = k /\ \A i \in 1 .. k : i \in 1 .. l
  OBVIOUS
<1>4. Rest \in DOMAIN Meaning /\ p = Meaning[Rest] \o o[k]
  BY <1>2, <1>3
<1>5. Comes(frames, k, o[k]) /\ o[k] \in Macro
  BY <1>2, <1>3 DEF Comes
<1> QED BY <1>1, <1>4, <1>5

\* The text expanded means something.
LEMMA RestMeans ==
    ASSUME TemplateOK, template \in DOMAIN Meaning, ~within, frames # <<>>
    PROVE  Rest \in DOMAIN Meaning /\ Rest \in Macro
<1>1. frames \in Seq(Macro) /\ AtText
  BY Zenon DEF TemplateOK, AtBranch
<1>2. PICK k \in Nat, l \in Nat : l = k + 1 /\ Len(frames) = l /\ Rest = frames[l] /\ Rest \in Macro
  BY <1>1, Top, Zenon
<1> QED BY <1>1, <1>2, InText

\* u goes out, and r is left of the text: what is to come is the shorter by u.
LEMMA OutStep ==
    ASSUME TemplateOK, template \in DOMAIN Meaning, ~within, frames # <<>>,
           NEW u \in Macro, NEW r \in DOMAIN Meaning, Meaning[Rest] = u \o Meaning[r],
           expanded' = expanded \o u, frames' = [frames EXCEPT ![Len(frames)] = r],
           within' = within, template' = template
    PROVE  frames' \in Seq(Macro) /\ expanded' \in Macro /\ AtText'
<1>1. frames \in Seq(Macro) /\ expanded \in Macro /\ AtText
  BY Zenon DEF TemplateOK, AtBranch
<1>2. PICK k \in Nat, l \in Nat : l = k + 1 /\ Len(frames) = l /\ Rest = frames[l]
  BY <1>1, Top, Zenon
<1>3. PICK m \in Macro : Comes(frames, k, m) /\ expanded \o (Meaning[Rest] \o m) = Meaning[template]
  BY <1>1, <1>2, InText
<1> DEFINE q == Meaning[r]
           fs == [frames EXCEPT ![l] = r]
<1>4. q \in Macro /\ r \in Macro
  BY TextSays
<1>5. fs \in Seq(Macro) /\ Len(fs) = l /\ fs[l] = r /\ \A i \in 1 .. k : fs[i] = frames[i]
  <2>1. l \in 1 .. Len(frames) /\ \A i \in 1 .. k : i # l /\ i \in 1 .. Len(frames)
    BY <1>2
  <2> QED BY <1>1, <1>2, <1>4, <2>1, ExceptSeq
<1> HIDE DEF fs
<1>6. Comes(fs, l, q \o m)
  <2>1. Comes(fs, k, m)
    BY <1>3, <1>5, ComesSame
  <2>2. Comes(fs, l, Meaning[fs[l]] \o m)
    BY <1>2, <1>5, <2>1, ComesMore
  <2> QED BY <1>5, <2>2
<1>7. expanded \o u \in Macro /\ (expanded \o u) \o (q \o m) = Meaning[template]
  <2> HIDE DEF q
  <2>1. u \o q \in Macro /\ q \o m \in Macro /\ expanded \o u \in Macro
    BY <1>1, <1>4, ConcatProperties DEF Macro
  <2>2. (expanded \o u) \o (q \o m) = expanded \o (u \o (q \o m))
    BY <1>1, <2>1, Grouped, Zenon
  <2>3. (u \o q) \o m = u \o (q \o m)
    BY <1>4, Grouped, Zenon
  <2>4. expanded \o ((u \o q) \o m) = Meaning[template]
    BY <1>3 DEF q
  <2> QED BY <2>1, <2>2, <2>3, <2>4, Zenon
<1> HIDE DEF q
<1>8. frames' = fs
  BY <1>2 DEF fs
<1>9. ~within' /\ Comes(frames', Len(frames'), q \o m) /\ expanded' \o (q \o m) = Meaning[template']
  BY <1>5, <1>6, <1>7, <1>8
<1>10. AtText'
  BY <1>9 DEF AtText
<1> QED BY <1>5, <1>7, <1>8, <1>10

\* A token of text goes out.
LEMMA CopyStep ==
    ASSUME TemplateOK, template \in DOMAIN Meaning, Copy
    PROVE  frames' \in Seq(Macro) /\ expanded' \in Macro /\ AtText'
<1>1. frames # <<>> /\ Rest # <<>> /\ ~within /\ Token[1] # "if" /\ ~Bracketed(Rest)
  BY DEF Copy, Expanding
<1>2. Rest \in DOMAIN Meaning /\ Rest \in Macro
  BY <1>1, RestMeans
<1>3. Token = Rest[1] /\ Token \in Ascii
  BY <1>1, <1>2, FirstToken DEF Token
<1>4. Tail(Rest) \in DOMAIN Meaning /\ Meaning[Rest] = <<Shown(Token)>> \o Meaning[Tail(Rest)]
  BY <1>1, <1>2, <1>3, TextSays
<1> DEFINE x == Shown(Token)
<1>5. x \in Ascii /\ Recoded(Token) = Token
  BY <1>3, Kind
<1>6. /\ expanded' = Append(expanded, x) /\ within' = within /\ template' = template
      /\ frames' = [frames EXCEPT ![Len(frames)] = Tail(Rest)]
  BY <1>5 DEF Copy, Consumed
<1> HIDE DEF x
<1>7. <<x>> \in Macro
  BY <1>5 DEF Macro
<1>8. expanded' = expanded \o <<x>>
  <2>1. expanded \in Seq(Ascii)
    BY Zenon DEF TemplateOK, Macro
  <2> QED BY <1>5, <1>6, <2>1, AppendIsConcat
<1> QED BY <1>1, <1>4, <1>6, <1>7, <1>8, OutStep DEF x

\* Brackets go out with all they hold.
LEMMA CopyBracketStep ==
    ASSUME TemplateOK, template \in DOMAIN Meaning, CopyBracket
    PROVE  frames' \in Seq(Macro) /\ expanded' \in Macro /\ AtText'
<1>1. frames # <<>> /\ Rest # <<>> /\ ~within /\ within' = within /\ template' = template
  BY DEF CopyBracket, Expanding
<1>2. Rest \in DOMAIN Meaning /\ Rest \in Macro
  BY <1>1, RestMeans
<1>3. PICK n \in 2 .. Len(Rest) :
         /\ Closing(Rest, n) /\ expanded' = expanded \o SubSeq(Rest, 1, n)
         /\ frames' = [frames EXCEPT ![Len(frames)] = Others(Rest, n + 1)]
  BY DEF CopyBracket
<1>4. PICK p \in 2 .. Len(Rest) : BracketSays(Rest, p)
  BY <1>1, <1>2, <1>3, TextSays DEF Bracketed
<1>5. p = n
  <2>1. Closing(Rest, p)
    BY <1>4 DEF BracketSays
  <2>2. ASSUME NEW i \in 2 .. Len(Rest), NEW j \in 2 .. Len(Rest), i < j PROVE i \in 2 .. (j - 1)
    BY <2>2
  <2>3. ASSUME NEW i \in 2 .. Len(Rest), NEW j \in 2 .. Len(Rest), Closing(Rest, i), Closing(Rest, j)
        PROVE  ~(i < j)
    BY <2>2, <2>3, Zenon DEF Closing
  <2>4. ~(p < n) /\ ~(n < p)
    BY <1>3, <2>1, <2>3
  <2> QED BY <2>4
<1>6. /\ Others(Rest, n + 1) \in DOMAIN Meaning
      /\ Meaning[Rest] = SubSeq(Rest, 1, n) \o Meaning[Others(Rest, n + 1)]
  BY <1>4, <1>5 DEF BracketSays
<1>7. SubSeq(Rest, 1, n) \in Macro
  <2>1. Rest \in Seq(Ascii) /\ Len(Rest) \in Nat /\ n \in 1 .. Len(Rest)
    BY <1>2 DEF Macro
  <2> QED BY <2>1 DEF Macro
<1> QED BY <1>1, <1>3, <1>6, <1>7, OutStep

\* An {if} is entered: its first branch is read, at no depth.
LEMMA EnterIfStep ==
    ASSUME TemplateOK, template \in DOMAIN Meaning, EnterIf
    PROVE  /\ frames' \in Seq(Macro) /\ expanded' \in Macro
           /\ \E b, t, d, n, m : AtBranch(b, t, d, n, m)'
<1>1. frames # <<>> /\ Rest # <<>> /\ ~within /\ Token[1] = "if"
  BY DEF EnterIf, Expanding
<1>2. frames \in Seq(Macro) /\ expanded \in Macro /\ AtText
  BY <1>1, Zenon DEF TemplateOK, AtBranch
<1>3. PICK k \in Nat, l \in Nat :
         /\ l = k + 1 /\ Len(frames) = l /\ Rest = frames[l] /\ Rest \in Macro
         /\ Token = Rest[1] /\ Token \in Ascii
         /\ Consumed \in Seq(Macro) /\ Len(Consumed) = l /\ Consumed[l] = Tail(Rest)
         /\ \A i \in 1 .. k : Consumed[i] = frames[i]
  <2>1. PICK k \in Nat, l \in Nat :
           /\ l = k + 1 /\ Len(frames) = l /\ Rest = frames[l] /\ Rest \in Macro
           /\ Rest # <<>> =>
                 /\ Token = Rest[1] /\ Token \in Ascii
                 /\ Consumed \in Seq(Macro) /\ Len(Consumed) = l /\ Consumed[l] = Tail(Rest)
                 /\ \A i \in 1 .. k : Consumed[i] = frames[i]
    BY <1>1, <1>2, Top, Zenon
  <2> QED BY <1>1, <2>1, Zenon
<1>4. Rest \in DOMAIN Meaning
  BY <1>2, <1>3, InText
<1>5. PICK m \in Macro : Comes(frames, k, m) /\ expanded \o (Meaning[Rest] \o m) = Meaning[template]
  BY <1>2, <1>3, InText
<1>6. PICK b, t : IfSays(Rest, b, t)
  BY <1>1, <1>3, <1>4, TextSays
<1>7. /\ b \in DOMAIN Meaning /\ t \in DOMAIN After /\ Tail(Rest) = b \o t
      /\ Meaning[Rest] = (IF Token[2] THEN Meaning[b] ELSE Other[t]) \o Meaning[After[t]]
  BY <1>3, <1>6, Zenon DEF IfSays
<1>8. b \in Macro /\ t \in Macro
  BY <1>7, TextSays, OtherSays
<1>9. PICK d : Climbs(b, d) /\ d[0] = 0 /\ d[Len(b)] = 0
  BY <1>7, LeadsBack DEF Leads
<1>10. Token[2] \in BOOLEAN
  BY <1>1, <1>3, Kind
<1>11. /\ within' = TRUE /\ chosen' = <<>> /\ take' = Token[2] /\ collecting' = <<>> /\ depth' = 0
       /\ frames' = Consumed /\ template' = template /\ expanded' = expanded
  BY DEF EnterIf
<1>12. Len(frames') = l /\ frames' # <<>> /\ Len(frames') - 1 = k
  <2>1. frames' \in Seq(Macro) /\ Len(frames') = l /\ l # 0
    BY <1>3, <1>11
  <2>2. frames' # <<>>
    BY <2>1
  <2> QED BY <1>3, <2>1, <2>2
<1>13. Rest' = b \o t
  BY <1>3, <1>7, <1>11, <1>12 DEF Rest, Last
<1>14. Comes(frames', k, m)
  BY <1>3, <1>5, <1>11, ComesSame
<1>15. IfMeans(b, t)' = IF Token[2] THEN Meaning[b] ELSE Other[t]
  BY <1>11, Zenon DEF IfMeans
<1>16. 0 \in 0 .. Len(b) /\ SubSeq(b, 1, 0) = <<>> /\ Left(b, t, 0) = b \o t
  BY <1>8, LeftNone DEF Macro
<1>17. expanded' \o ((IfMeans(b, t)' \o Meaning[After[t]]) \o m) = Meaning[template']
  BY <1>5, <1>7, <1>11, <1>15, Zenon
<1>18. AtBranch(b, t, d, 0, m)'
  BY <1>7, <1>9, <1>10, <1>11, <1>12, <1>13, <1>14, <1>16, <1>17, Zenon DEF AtBranch
<1>19. frames' \in Seq(Macro) /\ expanded' \in Macro
  BY <1>2, <1>3, <1>11
<1> QED BY <1>18, <1>19, Zenon

\* A text at its end has no more to say.
LEMMA ReturnStep ==
    ASSUME TemplateOK, template \in DOMAIN Meaning, Return
    PROVE  frames' \in Seq(Macro) /\ expanded' \in Macro /\ AtText'
<1>1. frames # <<>> /\ Rest = <<>> /\ ~within
  BY DEF Return
<1>2. frames \in Seq(Macro) /\ expanded \in Macro /\ AtText
  BY <1>1, Zenon DEF TemplateOK, AtBranch
<1>3. PICK k \in Nat, l \in Nat :
         /\ l = k + 1 /\ Len(frames) = l /\ Rest = frames[l]
         /\ Front(frames) \in Seq(Macro) /\ Len(Front(frames)) = k
         /\ \A i \in 1 .. k : Front(frames)[i] = frames[i]
  BY <1>1, <1>2, Top, Zenon
<1>4. Rest \in DOMAIN Meaning
  BY <1>2, <1>3, InText
<1>5. PICK m \in Macro : Comes(frames, k, m) /\ expanded \o (Meaning[Rest] \o m) = Meaning[template]
  BY <1>2, <1>3, InText
<1>6. Meaning[Rest] = <<>>
  BY <1>1, <1>4, TextSays
<1>7. <<>> \o m = m
  BY ConcatEmptySeq DEF Macro
<1>8. Comes(Front(frames), k, m)
  BY <1>3, <1>5, ComesSame
<1>9. frames' = Front(frames) /\ within' = within /\ expanded' = expanded /\ template' = template
  BY DEF Return
<1>10. ~within' /\ Comes(frames', Len(frames'), m) /\ expanded' \o m = Meaning[template']
  BY <1>1, <1>3, <1>5, <1>6, <1>7, <1>8, <1>9
<1>11. AtText'
  BY <1>10 DEF AtText
<1> QED BY <1>2, <1>3, <1>9, <1>11

\* The tokens of the branch are read: the others come next, at no depth.
LEMMA BranchEnds ==
    ASSUME NEW b, NEW t, NEW d, NEW n, NEW m, AtBranch(b, t, d, n, m)
    PROVE  /\ b \in Macro /\ t \in Macro /\ Rest # <<>> /\ Len(b) \in Nat /\ n \in Nat /\ n <= Len(b)
           /\ n = Len(b) => collecting = b /\ Rest = t /\ depth = 0
           /\ n # Len(b) => /\ n + 1 \in 1 .. Len(b) /\ Rest[1] = b[n + 1]
                            /\ Ticks(b[n + 1], depth, d[n + 1])
                            /\ Tail(Rest) = Left(b, t, n + 1)
                            /\ Append(collecting, b[n + 1]) = SubSeq(b, 1, n + 1)
<1>1. /\ b \in DOMAIN Meaning /\ t \in DOMAIN After /\ Climbs(b, d) /\ d[Len(b)] = 0
      /\ n \in 0 .. Len(b) /\ depth = d[n] /\ collecting = SubSeq(b, 1, n) /\ Rest = Left(b, t, n)
  BY DEF AtBranch
<1>2. b \in Macro /\ t \in Macro /\ t # <<>>
  BY <1>1, TextSays, OtherSays
<1>3. Len(b) \in Nat /\ n \in Nat /\ n <= Len(b)
  BY <1>1, <1>2 DEF Macro
<1>4. ASSUME n = Len(b) PROVE collecting = b /\ Rest = t /\ depth = 0
  BY <1>1, <1>2, <1>4, LeftNone, Zenon
<1>5. ASSUME n # Len(b)
      PROVE  /\ n + 1 \in 1 .. Len(b) /\ Rest[1] = b[n + 1] /\ Rest # <<>>
             /\ Ticks(b[n + 1], depth, d[n + 1])
             /\ Tail(Rest) = Left(b, t, n + 1)
             /\ Append(collecting, b[n + 1]) = SubSeq(b, 1, n + 1)
  <2> DEFINE k == n + 1
  <2>1. k \in Nat /\ k = n + 1 /\ k <= Len(b) /\ k \in 1 .. Len(b) /\ k - 1 = n
    BY <1>3, <1>5
  <2> HIDE DEF k
  <2>2. /\ Left(b, t, n) # <<>> /\ Left(b, t, n)[1] = b[k]
        /\ Tail(Left(b, t, n)) = Left(b, t, k)
        /\ Append(SubSeq(b, 1, n), b[k]) = SubSeq(b, 1, k)
    BY <1>2, <1>3, <2>1, LeftMore
  <2>3. Ticks(b[k], d[n], d[k])
    <3>1. Ticks(b[k], d[k - 1], d[k])
      BY <1>1, <2>1, Zenon DEF Climbs
    <3> QED BY <2>1, <3>1
  <2>4. /\ k \in 1 .. Len(b) /\ Rest[1] = b[k] /\ Rest # <<>> /\ Ticks(b[k], depth, d[k])
        /\ Tail(Rest) = Left(b, t, k) /\ Append(collecting, b[k]) = SubSeq(b, 1, k)
    BY <1>1, <2>1, <2>2, <2>3, Zenon
  <2> QED BY <2>4, Zenon DEF k
<1> QED BY <1>2, <1>3, <1>4, <1>5, Zenon

\* At no depth, the next brace is one of the {if}'s own, and the branch is complete.
LEMMA OwnBrace ==
    ASSUME NEW b, NEW t, NEW d, NEW n, NEW m, AtBranch(b, t, d, n, m),
           depth = 0, Rest[1][1] \in {"elsif", "else", "endif"}
    PROVE  n = Len(b)
<1> SUFFICES ASSUME n # Len(b) PROVE FALSE
  OBVIOUS
<1>1. Rest[1] = b[n + 1] /\ Ticks(b[n + 1], depth, d[n + 1])
  BY BranchEnds, Zenon
<1> QED BY <1>1, Zenon DEF Ticks

\* Within an {if}, the text expanded goes on, and something comes after it.
LEMMA InBranch ==
    ASSUME frames \in Seq(Macro), NEW b, NEW t, NEW d, NEW n, NEW m, AtBranch(b, t, d, n, m)
    PROVE  \E k \in Nat, l \in Nat :
              /\ l = k + 1 /\ Len(frames) = l /\ Comes(frames, k, m) /\ m \in Macro
              /\ Token = Rest[1] /\ Token \in Ascii
              /\ Consumed \in Seq(Macro) /\ Len(Consumed) = l /\ Consumed[l] = Tail(Rest)
              /\ Comes(Consumed, k, m)
<1>1. frames # <<>> /\ Comes(frames, Len(frames) - 1, m)
  BY DEF AtBranch
<1>2. Rest # <<>>
  BY BranchEnds, Zenon
<1>3. PICK k \in Nat, l \in Nat :
         /\ l = k + 1 /\ Len(frames) = l
         /\ Token = Rest[1] /\ Token \in Ascii
         /\ Consumed \in Seq(Macro) /\ Len(Consumed) = l /\ Consumed[l] = Tail(Rest)
         /\ \A i \in 1 .. k : Consumed[i] = frames[i]
  <2>1. PICK k \in Nat, l \in Nat :
           /\ l = k + 1 /\ Len(frames) = l /\ Rest = frames[l] /\ Rest \in Macro
           /\ Rest # <<>> =>
                 /\ Token = Rest[1] /\ Token \in Ascii
                 /\ Consumed \in Seq(Macro) /\ Len(Consumed) = l /\ Consumed[l] = Tail(Rest)
                 /\ \A i \in 1 .. k : Consumed[i] = frames[i]
    BY <1>1, Top, Zenon
  <2> QED BY <1>2, <2>1, Zenon
<1>4. Len(frames) - 1 = k
  BY <1>3
<1>5. Comes(frames, k, m)
  BY <1>1, <1>4
<1>6. m \in Macro
  BY <1>5, ComesText
<1>7. Comes(Consumed, k, m)
  BY <1>3, <1>5, ComesSame
<1> QED BY <1>3, <1>5, <1>6, <1>7, Zenon

\* At an {elsif} or {else}, the branch read is settled, and the next begins.
LEMMA NextBranchStep ==
    ASSUME frames \in Seq(Macro), expanded \in Macro, NextBranch,
           NEW b, NEW t, NEW d, NEW n, NEW m, AtBranch(b, t, d, n, m)
    PROVE  /\ frames' \in Seq(Macro) /\ expanded' \in Macro
           /\ \E c, u, e : AtBranch(c, u, e, 0, m)'
<1>1. depth = 0 /\ Token[1] \in {"elsif", "else"}
  BY DEF NextBranch
<1>2. PICK k \in Nat, l \in Nat :
         /\ l = k + 1 /\ Len(frames) = l /\ Comes(frames, k, m) /\ m \in Macro
         /\ Token = Rest[1] /\ Token \in Ascii
         /\ Consumed \in Seq(Macro) /\ Len(Consumed) = l /\ Consumed[l] = Tail(Rest)
         /\ Comes(Consumed, k, m)
  BY InBranch, Zenon
<1>3. Token[1] \in {"elsif", "else", "endif"} /\ Token[1] # "endif"
  BY <1>1
<1>4. n = Len(b)
  BY <1>1, <1>2, <1>3, OwnBrace, Zenon
<1>5. collecting = b /\ Rest = t
  BY <1>4, BranchEnds, Zenon
<1>6. /\ within /\ take \in BOOLEAN /\ b \in DOMAIN Meaning /\ t \in DOMAIN After
      /\ chosen = <<>> \/ \E c \in DOMAIN Meaning : chosen = <<c>>
      /\ expanded \o ((IfMeans(b, t) \o Meaning[After[t]]) \o m) = Meaning[template]
  BY Zenon DEF AtBranch
<1>7. PICK c, u : ElseSays(t, c, u)
  BY <1>2, <1>3, <1>5, <1>6, OtherSays, Zenon
<1>8. /\ c \in DOMAIN Meaning /\ u \in DOMAIN After /\ Tail(t) = c \o u /\ After[t] = After[u]
      /\ Other[t] = IF Token[1] = "else" \/ Token[2] THEN Meaning[c] ELSE Other[u]
  BY <1>2, <1>5, <1>7, Zenon DEF ElseSays
<1>9. c \in Macro /\ u \in Macro
  BY <1>8, TextSays, OtherSays
<1>10. PICK e : Climbs(c, e) /\ e[0] = 0 /\ e[Len(c)] = 0
  BY <1>8, LeadsBack DEF Leads
<1>11. /\ chosen' = (IF take /\ chosen = <<>> THEN <<b>> ELSE chosen)
       /\ take' = (chosen' = <<>> /\ (Token[1] = "else" \/ Token[2]))
       /\ collecting' = <<>> /\ frames' = Consumed /\ template' = template
       /\ within' = within /\ depth' = depth /\ expanded' = expanded
  BY <1>5 DEF NextBranch, Committed
<1>12. Len(frames') = l /\ frames' # <<>> /\ Len(frames') - 1 = k
  <2>1. frames' \in Seq(Macro) /\ Len(frames') = l /\ l # 0
    BY <1>2, <1>11
  <2>2. frames' # <<>>
    BY <2>1
  <2> QED BY <1>2, <2>1, <2>2
<1>13. Rest' = c \o u
  BY <1>2, <1>5, <1>8, <1>11, <1>12 DEF Rest, Last
<1>14. Comes(frames', k, m)
  BY <1>2, <1>11
<1>15. take' \in BOOLEAN
  BY <1>11
<1>16. \A x : <<x>> # <<>> /\ <<x>>[1] = x
  OBVIOUS
<1>17. chosen' = <<>> \/ \E x \in DOMAIN Meaning : chosen' = <<x>>
  BY <1>6, <1>11, Zenon
<1>18. IfMeans(c, u)' = IfMeans(b, t)
  <2>1. CASE chosen # <<>>
    BY <1>11, <2>1, Zenon DEF IfMeans
  <2>2. CASE chosen = <<>> /\ take
    <3>1. chosen' = <<b>>
      BY <1>11, <2>2, Zenon
    <3> QED BY <1>16, <2>2, <3>1, Zenon DEF IfMeans
  <2>3. CASE chosen = <<>> /\ ~take
    <3>1. chosen' = <<>> /\ (take' <=> (Token[1] = "else" \/ Token[2]))
      BY <1>11, <2>3, Zenon
    <3> QED BY <1>8, <2>3, <3>1, Zenon DEF IfMeans
  <2> QED BY <2>1, <2>2, <2>3, Zenon
<1>19. 0 \in 0 .. Len(c) /\ SubSeq(c, 1, 0) = <<>> /\ Left(c, u, 0) = c \o u
  BY <1>9, LeftNone DEF Macro
<1>20. expanded' \o ((IfMeans(c, u)' \o Meaning[After[u]]) \o m) = Meaning[template']
  BY <1>6, <1>8, <1>11, <1>18, Zenon
<1>21. AtBranch(c, u, e, 0, m)'
  BY <1>1, <1>6, <1>8, <1>10, <1>11, <1>12, <1>13, <1>14, <1>15, <1>17, <1>19, <1>20, Zenon DEF AtBranch
<1>22. frames' \in Seq(Macro) /\ expanded' \in Macro
  BY <1>2, <1>11
<1> QED BY <1>21, <1>22, Zenon

\* One token more of the branch.
LEMMA CollectStep ==
    ASSUME frames \in Seq(Macro), expanded \in Macro, Collect,
           NEW b, NEW t, NEW d, NEW n, NEW m, AtBranch(b, t, d, n, m)
    PROVE  frames' \in Seq(Macro) /\ expanded' \in Macro /\ AtBranch(b, t, d, n + 1, m)'
<1>1. PICK k \in Nat, l \in Nat :
         /\ l = k + 1 /\ Len(frames) = l /\ Comes(frames, k, m) /\ m \in Macro
         /\ Token = Rest[1] /\ Token \in Ascii
         /\ Consumed \in Seq(Macro) /\ Len(Consumed) = l /\ Consumed[l] = Tail(Rest)
         /\ Comes(Consumed, k, m)
  BY InBranch, Zenon
<1>2. /\ within /\ take \in BOOLEAN /\ b \in DOMAIN Meaning /\ t \in DOMAIN After
      /\ Climbs(b, d) /\ d[0] = 0 /\ d[Len(b)] = 0
      /\ chosen = <<>> \/ \E c \in DOMAIN Meaning : chosen = <<c>>
      /\ expanded \o ((IfMeans(b, t) \o Meaning[After[t]]) \o m) = Meaning[template]
  BY Zenon DEF AtBranch
<1>3. n # Len(b)
  <2> SUFFICES ASSUME n = Len(b) PROVE FALSE
    OBVIOUS
  <2>1. Rest = t /\ depth = 0
    BY BranchEnds, Zenon
  <2>2. t[1][1] \notin {"elsif", "else", "endif"}
    BY <1>1, <2>1 DEF Collect
  <2>3. t[1][1] \in {"elsif", "else", "endif"}
    BY <1>2, OtherSays, Zenon
  <2> QED BY <2>2, <2>3
<1> DEFINE j == n + 1
<1>4. /\ j \in 1 .. Len(b) /\ Token = b[j] /\ Ticks(Token, depth, d[j])
      /\ Tail(Rest) = Left(b, t, j) /\ Append(collecting, Token) = SubSeq(b, 1, j)
  BY <1>1, <1>3, BranchEnds, Zenon
<1>5. j \in 0 .. Len(b)
  BY <1>4
<1> HIDE DEF j
<1>6. Recoded(Token) = Token
  BY <1>1, Kind
<1>7. /\ collecting' = Append(collecting, Token) /\ frames' = Consumed /\ template' = template
      /\ within' = within /\ chosen' = chosen /\ take' = take /\ expanded' = expanded
      /\ depth' = CASE Token[1] = "if" -> depth + 1
                    [] Token[1] = "endif" -> depth - 1
                    [] OTHER -> depth
  BY <1>6 DEF Collect
<1>8. depth' = d[j]
  <2>1. CASE Token[1] = "if"
    <3>1. "if" # "endif"
      OBVIOUS
    <3>2. depth' = depth + 1
      BY <1>7, <2>1, <3>1
    <3> QED BY <1>4, <2>1, <3>2, Zenon DEF Ticks
  <2>2. CASE Token[1] = "endif"
    <3>1. "if" # "endif"
      OBVIOUS
    <3>2. depth' = depth - 1
      BY <1>7, <2>2, <3>1
    <3> QED BY <1>4, <2>2, <3>2, Zenon DEF Ticks
  <2>3. CASE Token[1] \notin {"if", "endif"}
    <3>1. depth' = depth
      BY <1>7, <2>3
    <3> QED BY <1>4, <2>3, <3>1, Zenon DEF Ticks
  <2> QED BY <2>1, <2>2, <2>3
<1>9. Len(frames') = l /\ frames' # <<>> /\ Len(frames') - 1 = k
  <2>1. frames' \in Seq(Macro) /\ Len(frames') = l /\ l # 0
    BY <1>1, <1>7
  <2>2. frames' # <<>>
    BY <2>1
  <2> QED BY <1>1, <2>1, <2>2
<1>10. Rest' = Left(b, t, j)
  BY <1>1, <1>4, <1>7, <1>9 DEF Rest, Last
<1>11. Comes(frames', k, m)
  BY <1>1, <1>7
<1>12. IfMeans(b, t)' = IfMeans(b, t)
  BY <1>7, Zenon DEF IfMeans
<1>13. expanded' \o ((IfMeans(b, t)' \o Meaning[After[t]]) \o m) = Meaning[template']
  BY <1>2, <1>7, <1>12, Zenon
<1>14. collecting' = SubSeq(b, 1, j)
  BY <1>4, <1>7, Zenon
<1>15. AtBranch(b, t, d, j, m)'
  BY <1>2, <1>5, <1>7, <1>8, <1>9, <1>10, <1>11, <1>13, <1>14, Zenon DEF AtBranch
<1>16. frames' \in Seq(Macro) /\ expanded' \in Macro
  BY <1>1, <1>7
<1> QED BY <1>15, <1>16, Zenon DEF j

\* At the {endif}, the branch chosen is what comes first, or there is none.
LEMMA LeaveIfStep ==
    ASSUME frames \in Seq(Macro), expanded \in Macro, LeaveIf,
           NEW b, NEW t, NEW d, NEW n, NEW m, AtBranch(b, t, d, n, m)
    PROVE  frames' \in Seq(Macro) /\ expanded' \in Macro /\ AtText'
<1>1. Rest # <<>>
  BY BranchEnds, Zenon
<1>2. depth = 0 /\ Token[1] = "endif"
  BY <1>1 DEF LeaveIf
<1>3. PICK k \in Nat, l \in Nat :
         /\ l = k + 1 /\ Len(frames) = l /\ Comes(frames, k, m) /\ m \in Macro
         /\ Token = Rest[1] /\ Token \in Ascii
         /\ Consumed \in Seq(Macro) /\ Len(Consumed) = l /\ Consumed[l] = Tail(Rest)
         /\ Comes(Consumed, k, m)
  BY InBranch, Zenon
<1>4. Token[1] \in {"elsif", "else", "endif"}
  BY <1>2
<1>5. n = Len(b)
  BY <1>2, <1>3, <1>4, OwnBrace, Zenon
<1>6. collecting = b /\ Rest = t
  BY <1>5, BranchEnds, Zenon
<1>7. /\ take \in BOOLEAN /\ b \in DOMAIN Meaning /\ t \in DOMAIN After
      /\ chosen = <<>> \/ \E c \in DOMAIN Meaning : chosen = <<c>>
      /\ expanded \o ((IfMeans(b, t) \o Meaning[After[t]]) \o m) = Meaning[template]
  BY Zenon DEF AtBranch
<1>8. After[t] = Tail(t) /\ Other[t] = <<>> /\ After[t] \in DOMAIN Meaning
  BY <1>2, <1>3, <1>6, <1>7, OtherSays, Zenon
<1> DEFINE a == After[t]
           q == Meaning[a] \o m
<1>9. /\ frames' = Consumed \o Committed /\ template' = template
      /\ within' = FALSE /\ expanded' = expanded
  BY <1>1 DEF LeaveIf
<1>10. a \in DOMAIN Meaning /\ Consumed[l] = a /\ Meaning[a] \in Macro /\ a \in Macro
  BY <1>3, <1>6, <1>8, TextSays
<1> HIDE DEF a
<1>11. q \in Macro
  BY <1>3, <1>10, ConcatProperties DEF Macro
<1>12. Comes(Consumed, l, q)
  <2>1. Comes(Consumed, l, Meaning[Consumed[l]] \o m)
    BY <1>3, <1>10, ComesMore
  <2> QED BY <1>10, <2>1
<1>13. \A c : (IfMeans(b, t) = Meaning[c] /\ c \in DOMAIN Meaning) =>
                 expanded \o (Meaning[c] \o q) = Meaning[template]
  <2> SUFFICES ASSUME NEW c \in DOMAIN Meaning, IfMeans(b, t) = Meaning[c]
               PROVE  expanded \o (Meaning[c] \o q) = Meaning[template]
    OBVIOUS
  <2>1. expanded \o ((Meaning[c] \o Meaning[a]) \o m) = Meaning[template]
    BY <1>7 DEF a
  <2>2. Meaning[c] \in Macro
    BY TextSays
  <2>3. (Meaning[c] \o Meaning[a]) \o m = Meaning[c] \o q
    <3> HIDE DEF q
    <3>2. (Meaning[c] \o Meaning[a]) \o m = Meaning[c] \o (Meaning[a] \o m)
      BY <1>3, <1>10, <2>2, Grouped, Zenon
    <3>3. q = Meaning[a] \o m
      BY DEF q
    <3> QED BY <3>2, <3>3, Zenon
  <2> QED BY <2>1, <2>3
<1>14. IfMeans(b, t) = <<>> => expanded \o q = Meaning[template]
  <2> SUFFICES ASSUME IfMeans(b, t) = <<>> PROVE expanded \o q = Meaning[template]
    OBVIOUS
  <2>1. expanded \o ((<<>> \o Meaning[a]) \o m) = Meaning[template]
    BY <1>7 DEF a
  <2>2. <<>> \o Meaning[a] = Meaning[a]
    BY <1>10, ConcatEmptySeq DEF Macro
  <2> QED BY <2>1, <2>2
<1>15. Committed = (IF take /\ chosen = <<>> THEN <<b>> ELSE chosen)
  BY <1>6 DEF Committed
<1>16. \A x : <<x>> # <<>> /\ <<x>>[1] = x
  OBVIOUS
<1> HIDE DEF q
<1>17. ASSUME NEW c \in DOMAIN Meaning, Committed = <<c>>, IfMeans(b, t) = Meaning[c]
       PROVE  frames' \in Seq(Macro) /\ AtText'
  <2>1. c \in Macro
    BY TextSays
  <2> DEFINE fs == Consumed \o <<c>>
             j == l + 1
  <2>2. /\ fs \in Seq(Macro) /\ Len(fs) = j /\ j \in Nat /\ fs[j] = c
        /\ \A i \in 1 .. l : fs[i] = Consumed[i]
    BY <1>3, <2>1
  <2> HIDE DEF fs
  <2>3. Comes(fs, l, q)
    BY <1>12, <2>2, ComesSame
  <2>4. Comes(fs, j, Meaning[fs[j]] \o q)
    BY <2>2, <2>3, ComesMore
  <2>5. expanded \o (Meaning[c] \o q) = Meaning[template]
    BY <1>13, <1>17
  <2>6. frames' = fs
    BY <1>9, <1>17 DEF fs
  <2>7. ~within' /\ Comes(frames', Len(frames'), Meaning[c] \o q)
        /\ expanded' \o (Meaning[c] \o q) = Meaning[template']
    BY <1>9, <2>2, <2>4, <2>5, <2>6
  <2> QED BY <2>2, <2>6, <2>7 DEF AtText
<1>18. ASSUME Committed = <<>>, IfMeans(b, t) = <<>>
       PROVE  frames' \in Seq(Macro) /\ AtText'
  <2>1. frames' = Consumed
    <3>1. Consumed \o <<>> = Consumed
      BY <1>3, ConcatEmptySeq
    <3> QED BY <1>9, <1>18, <3>1
  <2>2. ~within' /\ Comes(frames', Len(frames'), q) /\ expanded' \o q = Meaning[template']
    BY <1>3, <1>9, <1>12, <1>14, <1>18, <2>1
  <2> QED BY <1>3, <2>1, <2>2 DEF AtText
<1>19. CASE chosen # <<>>
  <2>1. PICK c \in DOMAIN Meaning : chosen = <<c>>
    BY <1>7, <1>19, Zenon
  <2>2. Committed = <<c>> /\ IfMeans(b, t) = Meaning[c]
    BY <1>15, <1>16, <2>1, Zenon DEF IfMeans
  <2> QED BY <1>9, <1>17, <2>2, Zenon
<1>20. CASE chosen = <<>> /\ take
  <2>1. Committed = <<b>> /\ IfMeans(b, t) = Meaning[b]
    BY <1>15, <1>20, Zenon DEF IfMeans
  <2> QED BY <1>7, <1>9, <1>17, <2>1, Zenon
<1>21. CASE chosen = <<>> /\ ~take
  <2>1. Committed = <<>> /\ IfMeans(b, t) = <<>>
    BY <1>8, <1>15, <1>21, Zenon DEF IfMeans
  <2> QED BY <1>9, <1>18, <2>1, Zenon
<1>22. expanded' \in Macro
  BY <1>9
<1> QED BY <1>19, <1>20, <1>21, <1>22, Zenon

\* Each step leaves what is out and what is to come together as they were.
LEMMA TemplateStep == TemplateOK /\ [Expand]_expanding => TemplateOK'
<1> SUFFICES ASSUME TemplateOK, [Expand]_expanding, template' \in DOMAIN Meaning PROVE TemplateOK'
  BY DEF TemplateOK
<1>1. CASE UNCHANGED expanding
  <2>1. /\ template' = template /\ frames' = frames /\ within' = within /\ chosen' = chosen
        /\ take' = take /\ collecting' = collecting /\ depth' = depth /\ expanded' = expanded
    BY <1>1 DEF expanding
  <2>2. Rest' = Rest
    BY <2>1, Zenon DEF Rest
  <2>3. AtText => AtText'
    BY <2>1, Zenon DEF AtText
  <2>4. ASSUME NEW b, NEW t, NEW d, NEW n, NEW m, AtBranch(b, t, d, n, m)
        PROVE  AtBranch(b, t, d, n, m)'
    <3>1. IfMeans(b, t)' = IfMeans(b, t)
      BY <2>1, Zenon DEF IfMeans
    <3> QED BY <2>1, <2>2, <2>4, <3>1, Zenon DEF AtBranch
  <2>5. frames' \in Seq(Macro) /\ expanded' \in Macro /\ (AtText \/ \E b, t, d, n, m : AtBranch(b, t, d, n, m))
    BY <2>1, Zenon DEF TemplateOK
  <2>6. AtText' \/ \E b, t, d, n, m : AtBranch(b, t, d, n, m)'
    BY <2>3, <2>4, <2>5, Zenon
  <2> QED BY <2>5, <2>6, Zenon DEF TemplateOK
<1>2. CASE Expand
  <2>1. template \in DOMAIN Meaning
    BY <1>2 DEF Expand, Copy, CopyBracket, EnterIf, NextBranch, Collect, LeaveIf, Return
  <2>2. frames \in Seq(Macro) /\ expanded \in Macro
    BY <2>1, Zenon DEF TemplateOK
  <2>3. within \/ ~within
    OBVIOUS
  <2>4. CASE Copy
    BY <2>1, <2>4, CopyStep, Zenon DEF TemplateOK
  <2>5. CASE CopyBracket
    BY <2>1, <2>5, CopyBracketStep, Zenon DEF TemplateOK
  <2>6. CASE EnterIf
    BY <2>1, <2>6, EnterIfStep, Zenon DEF TemplateOK
  <2>7. CASE Return
    BY <2>1, <2>7, ReturnStep, Zenon DEF TemplateOK
  <2>8. ASSUME NextBranch \/ Collect \/ LeaveIf PROVE \E b, t, d, n, m : AtBranch(b, t, d, n, m)
    <3>1. within
      BY <2>8, Zenon DEF NextBranch, Collect, LeaveIf, Reading
    <3> QED BY <2>1, <3>1, Zenon DEF TemplateOK, AtText
  <2>9. CASE NextBranch
    <3>1. PICK b, t, d, n, m : AtBranch(b, t, d, n, m)
      BY <2>8, <2>9, Zenon
    <3>2. /\ frames' \in Seq(Macro) /\ expanded' \in Macro
          /\ \E c, u, e : AtBranch(c, u, e, 0, m)'
      BY <2>2, <2>9, <3>1, NextBranchStep, Zenon
    <3>3. \E c, u, e, j, p : AtBranch(c, u, e, j, p)'
      BY <3>2, Zenon
    <3> QED BY <3>2, <3>3, Zenon DEF TemplateOK
  <2>10. CASE Collect
    <3>1. PICK b, t, d, n, m : AtBranch(b, t, d, n, m)
      BY <2>8, <2>10, Zenon
    <3> QED BY <2>2, <2>10, <3>1, CollectStep, Zenon DEF TemplateOK
  <2>11. CASE LeaveIf
    <3>1. PICK b, t, d, n, m : AtBranch(b, t, d, n, m)
      BY <2>8, <2>11, Zenon
    <3> QED BY <2>2, <2>11, <3>1, LeaveIfStep, Zenon DEF TemplateOK
  <2> QED BY <1>2, <2>4, <2>6, <2>7, <2>9, <2>10, <2>11, <2>5, Zenon DEF Expand
<1> QED BY <1>1, <1>2

\* Every ASCII macro whose {if}s all have their {endif}, in the same brackets, is
\* expanded to what it means.
THEOREM MacrosExpand == TemplateSpec => []ExpandsToMeaning
<1>1. TemplateOK => ExpandsToMeaning
  <2> SUFFICES ASSUME TemplateOK, template \in DOMAIN Meaning, frames = <<>>
               PROVE  expanded = Meaning[template]
    BY DEF ExpandsToMeaning
  <2>1. expanded \in Macro /\ AtText
    BY Zenon DEF TemplateOK, AtBranch
  <2>2. PICK m : Comes(frames, 0, m) /\ expanded \o m = Meaning[template]
    BY <2>1 DEF AtText
  <2>3. m = <<>>
    BY <2>2, ComesNone
  <2>4. expanded \o <<>> = expanded
    BY <2>1, ConcatEmptySeq DEF Macro
  <2> QED BY <2>2, <2>3, <2>4
<1>2. TemplateSpec => []TemplateOK
  BY TemplateStart, TemplateStep, PTL DEF TemplateSpec
<1> QED BY <1>1, <1>2, PTL
=============================================================================
