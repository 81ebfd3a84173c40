----------------------------- MODULE PartCooling -----------------------------
(***************************************************************************)
(* The part fan (elysian-gcode cooling.rs: apply_part_cooling): a second   *)
(* pass over the written G-code, layer by layer.  It puts a line for the   *)
(* layer's fan after the first line with a Z, when the fan differs from    *)
(* the layer before, and then turns the writer's marks around overhangs    *)
(* and ironing into fan lines, an overhang's up to pre_start_fan_time      *)
(* early.  The machine obeys the lines as they come out.                   *)
(***************************************************************************)
EXTENDS Integers, Sequences, FiniteSets

CONSTANTS Fans,       \* the settings of the fans
          Texts,      \* layers as the writer may write them
          Times,      \* what a layer may take to print
          MaxLayer    \* bound on the layers

VARIABLES fans,       \* the settings of this export
          nth,        \* layer_id of the layer at hand, or of the next
          text,       \* its lines: "move", "z", "fan", "aux" and the marks
          written, look,   \* the line being written; the one the look-ahead is at
          seen, ahead,    \* time up to each of them
          want,       \* fan of the layer, and the auxiliary fan
          current,    \* part fan, as rewrite_feature_fans believes
          fan, aux,   \* the machine's fans
          early       \* history: a boost began before the layer's own fan line

cooling == <<fans, nth, text, written, look, seen, ahead, want, current, fan, aux, early>>

Unset == -1

\* Settings are read as whole numbers, ironing's below 0 where it has no fan
\* of its own.
ASSUME FansAssumption ==
    \A s \in Fans : /\ {s.close, s.full, s.first, s.min, s.max, s.slow, s.cool, s.overhang, s.preStart} \subseteq Nat
                   /\ s.ironing \in Int
                   /\ {s.keep, s.boost} \subseteq BOOLEAN
ASSUME TimesAssumption == Times \subseteq Nat /\ MaxLayer \in Nat

Marks == {"overhang", "overhangEnd", "ironing", "ironingEnd"}

\* emit_marked: a mark, lines without one, and its end.
Paired(lines, mark, end) ==
    /\ \A n \in DOMAIN lines : lines[n] = mark =>
          \E m \in DOMAIN lines : n < m /\ lines[m] = end /\ \A k \in (n + 1)..(m - 1) : lines[k] \notin Marks
    /\ \A m \in DOMAIN lines : lines[m] = end =>
          \E n \in DOMAIN lines : n < m /\ lines[n] = mark /\ \A k \in (n + 1)..(m - 1) : lines[k] \notin Marks

\* A layer as the writer leaves it: every mark with its end, ironing last.  Its
\* first line with a Z mostly comes before any of them; in spiral_mode the wall's
\* own lines hold it, and a mark may come before (writer.rs:88, motion.rs:709).
ASSUME TextsAssumption ==
    \A lines \in Texts :
       /\ lines \in Seq({"move", "z"} \cup Marks) /\ lines # <<>>
       /\ Paired(lines, "overhang", "overhangEnd") /\ Paired(lines, "ironing", "ironingEnd")
       /\ \A n, m \in DOMAIN lines : lines[n] = "overhang" /\ lines[m] = "ironing" => n < m

\* first layers at their own speed, from there a ramp to full.
Close(s) == IF s.close = 0 /\ s.full > 0 THEN 1 ELSE s.close

\* Between two speeds, rounded; n of the d layers of the ramp are done.
Ramp(from, to, n, d) == (2 * (from * (d - n) + to * n) + d) \div (2 * d)

\* part_fan_percent.
PartFan(s, id, time) ==
    LET close == Close(s)
        steady == CASE time < s.slow -> s.max
                    [] time >= s.slow /\ time < s.cool ->
                          ((time - s.slow) * s.min + (s.cool - time) * s.max) \div (s.cool - s.slow)
                    [] OTHER -> IF s.keep THEN s.min ELSE 0
    IN  CASE id < close -> s.first
          [] id >= close /\ id + 1 < s.full -> Ramp(s.first, steady, id + 1 - close, s.full - close)
          [] OTHER -> steady

\* additional_fan_percent.
AuxFan(s, id) ==
    CASE id < s.auxClose -> s.auxFirst
      [] id >= s.auxClose /\ id + 1 < s.auxFull ->
            Ramp(s.auxFirst, s.auxTarget, id + 1 - s.auxClose, s.auxFull - s.auxClose)
      [] OTHER -> s.auxTarget

\* layer_allows_feature_fan.
Allowed == nth >= Close(fans)
Boosts == Allowed /\ fans.boost /\ fans.overhang > want.fan
Irons == Allowed /\ fans.ironing >= 0

TimeOf(n) == IF text[n] \in {"move", "z"} THEN 1 ELSE 0

\* Faulty variant, for the mutation checks.
AtEnd(lines, inject) == lines \o inject

\* insert_fan_after_z, with the lines the layer needs.
AfterZ(lines, inject) ==
    LET zs == {n \in DOMAIN lines : lines[n] = "z"}
        z == CHOOSE n \in zs : \A m \in zs : n <= m
    IN  IF zs = {} THEN lines \o inject
        ELSE SubSeq(lines, 1, z) \o inject \o SubSeq(lines, z + 1, Len(lines))

-----------------------------------------------------------------------------
Idle == text = <<>>

\* flush_layer.
FlushLayer ==
    /\ Idle
    /\ nth < MaxLayer
    /\ \E lines \in Texts, time \in Times :
          LET f == PartFan(fans, nth, time)
              a == AuxFan(fans, nth)
              inject == (IF want.fan # f THEN <<"fan">> ELSE <<>>)
                        \o (IF fans.aux /\ want.aux # a THEN <<"aux">> ELSE <<>>)
          IN  /\ text' = AfterZ(lines, inject)
              /\ want' = [fan |-> f, aux |-> IF fans.aux THEN a ELSE want.aux]
              /\ current' = f
    /\ written' = 1 /\ look' = 1
    /\ seen' = 0 /\ ahead' = 0
    /\ early' = FALSE
    /\ UNCHANGED <<fans, nth, fan, aux>>

\* The layer's own fan line is still to be written.
FanToCome == \E n \in written..Len(text) : text[n] = "fan"

\* The look-ahead, caught up with the line being written.
LookAt == IF look < written THEN written ELSE look
SeenAt == seen + TimeOf(written)
AheadAt == IF ahead < SeenAt THEN SeenAt ELSE ahead

Looking ==
    /\ ~Idle
    /\ Boosts
    /\ fans.preStart > 0
    /\ LookAt <= Len(text)
    /\ AheadAt - SeenAt < fans.preStart
    /\ current < fans.overhang

\* One line of the look-ahead.
LookAhead ==
    /\ Looking
    /\ ahead' = AheadAt + TimeOf(LookAt)
    /\ IF text[LookAt] = "overhang"
       THEN /\ look' = LookAt
            /\ fan' = fans.overhang /\ current' = fans.overhang
            /\ early' = (early \/ FanToCome)
       ELSE look' = LookAt + 1 /\ UNCHANGED <<fan, current, early>>
    /\ UNCHANGED <<fans, nth, text, written, seen, want, aux>>

\* A fan line, unless the fan is believed to be there.
Turn(to) ==
    IF current = to THEN UNCHANGED <<fan, current>> ELSE fan' = to /\ current' = to

\* One line of the layer: copied, or a mark replaced; after the last, the
\* next layer.
WriteLine ==
    /\ ~Idle
    /\ ~Looking
    /\ CASE text[written] = "overhang" /\ Boosts /\ current < fans.overhang -> Turn(fans.overhang)
         [] text[written] = "overhangEnd" /\ Boosts -> Turn(want.fan)
         [] text[written] = "ironing" /\ Irons -> Turn(fans.ironing)
         [] text[written] = "ironingEnd" /\ Irons -> Turn(want.fan)
         [] text[written] = "fan" -> fan' = want.fan /\ UNCHANGED current
         [] OTHER -> UNCHANGED <<fan, current>>
    /\ aux' = IF text[written] = "aux" THEN want.aux ELSE aux
    /\ IF written < Len(text)
       THEN written' = written + 1 /\ seen' = SeenAt /\ ahead' = AheadAt /\ look' = LookAt /\ UNCHANGED <<nth, text>>
       ELSE written' = 1 /\ seen' = 0 /\ ahead' = 0 /\ look' = 1 /\ nth' = nth + 1 /\ text' = <<>>
    /\ early' = CASE text[written] \in {"overhang", "ironing"} -> early \/ FanToCome
                  [] text[written] \in {"overhangEnd", "ironingEnd"} -> FALSE
                  [] OTHER -> early
    /\ UNCHANGED <<fans, want>>

CoolingInit ==
    /\ fans \in Fans
    /\ nth = 0
    /\ text = <<>>
    /\ written = 1 /\ look = 1
    /\ seen = 0 /\ ahead = 0
    /\ want = [fan |-> Unset, aux |-> Unset]
    /\ current = Unset
    /\ fan = Unset /\ aux = Unset
    /\ early = FALSE

CoolingNext == FlushLayer \/ LookAhead \/ WriteLine

CoolingSpec == CoolingInit /\ [][CoolingNext]_cooling

-----------------------------------------------------------------------------
(* Properties *)

\* The line at hand lies between a mark and its end.
Amid(mark, end) ==
    \E n \in 1..(written - 1) : text[n] = mark /\ \A m \in (n + 1)..(written - 1) : text[m] # end

\* An overhang starts less than pre_start_fan_time after the line at hand.
Near == \E n \in written..Len(text) :
            /\ text[n] = "overhang"
            /\ Cardinality({m \in written..(n - 1) : TimeOf(m) > 0}) <= fans.preStart

\* Once the layer's first line with a Z is written, what is printed has the fan
\* it should have: over an overhang the overhang fan, in ironing the ironing
\* fan, else the layer's, or the overhang's when one is near; and each layer ends
\* with the machine at the layer's fans, which is why the next one may leave its
\* line out.  A layer's own line comes after that Z whatever is on at the time
\* (cooling.rs:543): where it falls into a boost, that the look-ahead began
\* (cooling.rs:443) or a mark before the Z (spiral_mode), it takes the boost back
\* until the mark's end; early tells those boosts from the others, and there the
\* fan is one of the two.
FanFollows ==
    /\ Idle /\ nth > 0 => fan = want.fan /\ (fans.aux => aux = AuxFan(fans, nth - 1))
    /\ /\ ~Idle /\ ~Looking
       /\ text[written] \in {"move", "z"}
       /\ \E n \in 1..(written - 1) : text[n] = "z"
       => CASE Amid("overhang", "overhangEnd") /\ Boosts -> fan = fans.overhang \/ (early /\ fan = want.fan)
            [] Amid("ironing", "ironingEnd") /\ Irons -> fan = fans.ironing \/ (early /\ fan = want.fan)
            [] OTHER -> fan = want.fan \/ (Boosts /\ fan = fans.overhang /\ Near)
=============================================================================
