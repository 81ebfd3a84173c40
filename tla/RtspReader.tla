------------------------------ MODULE RtspReader ------------------------------
(***************************************************************************)
(* The camera's RTSPS stream (elysian-protocol rtsps.rs: read_interleaved, *)
(* fill, H264Depay): one TLS connection carries RTP packets in '$' frames  *)
(* and late RTSP replies, cut into reads wherever the network cuts them,   *)
(* and a picture unit may be spread over several packets.  Bytes are       *)
(* numbers; a frame's head is '$', a channel and a length, and one number  *)
(* stands for the blank line that ends a reply's head.                     *)
(***************************************************************************)
EXTENDS Integers, Sequences, SequencesExt

CONSTANTS Streams,   \* what a printer may send, in bytes
          Given,     \* the units in bytes to come, after a unit's begin
          Chunk      \* bound on the bytes of one read

VARIABLES sent,      \* the units of the stream, in order
          wire,      \* bytes not read yet
          buf,       \* bytes read and not used
          fu,        \* fragments of a unit, or nothing
          units      \* units given to the decoder

reading == <<sent, wire, buf, fu, units>>

Dollar == 36
Reply == 82          \* the 'R' of RTSP/1.0
HeadEnd == 13

\* Kinds of payload: a whole unit, several, the parts of one, others.
Single == 1
Several == 24
FuStart == 28
FuMiddle == 29
FuEnd == 30

-----------------------------------------------------------------------------
(* Framing                                                                 *)

Framed == buf # <<>> /\ buf[1] = Dollar
FrameEnd == 3 + buf[3]
FrameReady == Framed /\ Len(buf) >= 3 /\ Len(buf) >= FrameEnd

\* find_headers_end looks through the whole buffer; the head of a reply holds
\* its length before its end.
Heads == {n \in DOMAIN buf : buf[n] = HeadEnd}
Headed == buf # <<>> /\ buf[1] # Dollar /\ Heads # {}
HeadAt == CHOOSE n \in Heads : \A m \in Heads : n <= m
ReplyEnd == HeadAt + buf[HeadAt - 1]
ReplyReady == Headed /\ Len(buf) >= ReplyEnd

Stray == buf # <<>> /\ buf[1] \notin {Dollar, Reply} /\ Heads = {}

Drained(n) == SubSeq(buf, n + 1, Len(buf))

\* stap_a: units with their lengths before them, as far as they are whole.
Joined(p) ==
    LET from[n \in 1..(Len(p) + 1)] ==
            IF n > Len(p) \/ n + p[n] > Len(p) THEN <<>>
            ELSE <<SubSeq(p, n + 1, n + p[n])>> \o from[n + p[n] + 1]
    IN  from[1]

-----------------------------------------------------------------------------
(* What a stream means, packet by packet: the units after f, the begin of   *)
(* a unit or nothing, in the bytes s.                                       *)

Known(f, s) == <<f, s>> \in DOMAIN Given

\* Only frames of channel 0 count; a unit is whole, or joined to others, or in
\* parts, and then as long as all of them.
PacketMeans(f, channel, p, s, rest) ==
    IF channel = 0 /\ p # <<>> /\ (p[1] \in {Single, Several, FuStart} \/ (p[1] \in {FuMiddle, FuEnd} /\ f # <<>>))
    THEN \/ p[1] = Single /\ Known(f, rest) /\ Given[<<f, s>>] = <<Tail(p)>> \o Given[<<f, rest>>]
         \/ p[1] = Several /\ Known(f, rest) /\ Given[<<f, s>>] = Joined(Tail(p)) \o Given[<<f, rest>>]
         \/ p[1] = FuStart /\ Known(Tail(p), rest) /\ Given[<<f, s>>] = Given[<<Tail(p), rest>>]
         \/ p[1] = FuMiddle /\ Known(f \o Tail(p), rest) /\ Given[<<f, s>>] = Given[<<f \o Tail(p), rest>>]
         \/ p[1] = FuEnd /\ Known(<<>>, rest) /\ Given[<<f, s>>] = <<f \o Tail(p)>> \o Given[<<<<>>, rest>>]
    ELSE Known(f, rest) /\ Given[<<f, s>>] = Given[<<f, rest>>]

FrameMeans(f, s) ==
    \E n \in 3..Len(s) :
       s[3] = n - 3 /\ PacketMeans(f, s[2], SubSeq(s, 4, n), s, SubSeq(s, n + 1, Len(s)))

\* The reply of n bytes says nothing.
SaysNothing(f, s, n) ==
    Known(f, SubSeq(s, n + 1, Len(s))) /\ Given[<<f, s>>] = Given[<<f, SubSeq(s, n + 1, Len(s))>>]

\* A reply holds its length at the end of its head.
ReplyMeans(f, s) ==
    \E h \in 2..Len(s) :
       /\ s[h] = HeadEnd /\ \A n \in 1..(h - 1) : s[n] # HeadEnd
       /\ h + s[h - 1] <= Len(s)
       /\ SaysNothing(f, s, h + s[h - 1])

\* A stray byte has no reply after it.
StrayMeans(f, s) ==
    /\ \A n \in DOMAIN s : s[n] # HeadEnd
    /\ Known(f, Tail(s)) /\ Given[<<f, s>>] = Given[<<f, Tail(s)>>]

Means(f, s) ==
    \/ s = <<>> /\ Given[<<f, s>>] = <<>>
    \/ s # <<>> /\ s[1] = Dollar /\ FrameMeans(f, s)
    \/ s # <<>> /\ s[1] = Reply /\ ReplyMeans(f, s)
    \/ s # <<>> /\ s[1] \notin {Dollar, Reply} /\ StrayMeans(f, s)

ASSUME GivenAssumption ==
    /\ DOMAIN Given \subseteq Seq(Nat) \X Seq(Nat)
    /\ \A to \in DOMAIN Given : Given[to] \in Seq(Seq(Nat)) /\ Means(to[1], to[2])
    /\ \A s \in Streams : Known(<<>>, s)

-----------------------------------------------------------------------------
(* H264Depay                                                               *)

\* fu_a: a first part starts over, the others need one.
Depay(p) ==
    CASE p[1] = Single -> units' = Append(units, Tail(p)) /\ fu' = fu
      [] p[1] = Several -> units' = units \o Joined(Tail(p)) /\ fu' = fu
      [] p[1] = FuStart -> fu' = Tail(p) /\ units' = units
      [] p[1] = FuMiddle /\ fu # <<>> -> fu' = fu \o Tail(p) /\ units' = units
      [] p[1] = FuEnd /\ fu # <<>> -> fu' = <<>> /\ units' = Append(units, fu \o Tail(p))
      [] OTHER -> UNCHANGED <<fu, units>>

-----------------------------------------------------------------------------
\* fill: a read gives some of what is there, and ends the stream at its end.
Fill ==
    /\ ~FrameReady /\ ~ReplyReady /\ ~Stray
    /\ wire # <<>>
    /\ \E n \in 1..Chunk :
          /\ n <= Len(wire)
          /\ buf' = buf \o SubSeq(wire, 1, n)
          /\ wire' = SubSeq(wire, n + 1, Len(wire))
    /\ UNCHANGED <<sent, fu, units>>

\* A frame of channel 0 goes to the depacketizer, one of another is dropped.
TakePacket ==
    /\ FrameReady
    /\ buf' = Drained(FrameEnd)
    /\ IF buf[2] = 0 /\ buf[3] > 0 THEN Depay(SubSeq(buf, 4, FrameEnd)) ELSE UNCHANGED <<fu, units>>
    /\ UNCHANGED <<sent, wire>>

\* Faulty variant, for the mutation checks.
DropHead ==
    /\ ReplyReady
    /\ buf' = Drained(HeadAt)
    /\ UNCHANGED <<sent, wire, fu, units>>

DropReply ==
    /\ ReplyReady
    /\ buf' = Drained(ReplyEnd)
    /\ UNCHANGED <<sent, wire, fu, units>>

SkipByte ==
    /\ Stray
    /\ buf' = Tail(buf)
    /\ UNCHANGED <<sent, wire, fu, units>>

ReaderInit ==
    /\ \E s \in Streams : sent = Given[<<<<>>, s>>] /\ wire = s
    /\ buf = <<>>
    /\ fu = <<>>
    /\ units = <<>>

ReaderNext == Fill \/ TakePacket \/ DropReply \/ SkipByte

ReaderSpec == ReaderInit /\ [][ReaderNext]_reading

-----------------------------------------------------------------------------
(* Properties *)

\* Wherever the reads are cut, the decoder is given the units of the stream,
\* whole and in order: none lost, doubled or joined to a reply or to the other
\* channel's frames; and all of them once everything was read.
UnitsInOrder ==
    /\ IsPrefix(units, sent)
    /\ wire = <<>> /\ ~FrameReady /\ ~ReplyReady /\ ~Stray => units = sent
=============================================================================
