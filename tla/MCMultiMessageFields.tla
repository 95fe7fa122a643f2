------------------------- MODULE MCMultiMessageFields -------------------------
(***************************************************************************)
(* Frames of discriminated messages on a bus of three lanes.  The outer    *)
(* header is a kind, compared with a register, two bytes no field covers,  *)
(* and the message count; a sub-header is a tag and a length; messages are *)
(* of three variants.  x has two places, y has the place that is x's in    *)
(* the second variant.  No frame ends with its header or behind a          *)
(* sub-header, and the lanes behind a frame's end hold what could be a     *)
(* message.                                                                *)
(***************************************************************************)
EXTENDS MultiMessageDiscriminated, SequencesExt

At(offset, length) == [offset |-> offset, length |-> length]

MCFields          == [kind |-> At(0, 1), count |-> At(3, 1)]
MCLengthField     == [length |-> At(1, 1)]
MCDropConditions  ==
  {[name |-> "kind_mismatch", field |-> "kind", kind |-> "DropOnRegisterMismatch",
    register |-> "cfg_kind", mask |-> 255]}
MCRouteConditions == << >>
MCConfigDefault   == [cfg_kind |-> 8]

MCCommonFields  == [seq |-> At(0, 1), tag |-> At(1, 1)]
MCVariants      == 1 :> [x |-> At(2, 1)] @@ 2 :> [x |-> At(3, 1)] @@ 3 :> [y |-> At(3, 1), z |-> At(4, 1)]
MCVariantLength == 1 :> 3 @@ 2 :> 4 @@ 3 :> 5

(* msgs holds the tag and the length of each message. *)
TaggedBytes(count, msgs) ==
  <<8, 201, 202, count>> \o
  FlattenSeq([i \in DOMAIN msgs |->
    <<100, msgs[i][2]>> \o
    [j \in 1 .. msgs[i][2] |-> IF j = 2 THEN msgs[i][1] ELSE 20 * i + j]])

Tagged(count, msgs, cut, null) ==
  LET bytes == TaggedBytes(count, msgs)
      n     == Len(bytes) - cut
      end   == ((n + KEEP_WIDTH - 1) \div KEEP_WIDTH + (IF null THEN 1 ELSE 0)) * KEEP_WIDTH
  IN  [len |-> n, end |-> end, user |-> {},
       data |-> [p \in 0 .. end - 1 |-> IF p >= n THEN 1 ELSE bytes[p + 1]]]

(* A header that is too short. *)
Bare == [len |-> 3, end |-> 3, user |-> {}, data |-> [p \in 0 .. 2 |-> IF p = 0 THEN 8 ELSE 1]]

AllFrames ==
  {Tagged(3, <<<<3, 5>>, <<1, 3>>, <<2, 4>>>>, 0, FALSE),
   Tagged(2, <<<<1, 4>>, <<2, 4>>>>, 0, FALSE),            \* a wrong length
   Tagged(2, <<<<9, 4>>, <<1, 3>>>>, 4, FALSE),            \* an unknown variant, cut in a sub-header
   Tagged(1, <<<<2, 10>>>>, 0, FALSE),                     \* the offset wraps
   Tagged(2, <<<<1, 1>>, <<2, 4>>>>, 2, FALSE),            \* no tag, cut in a message
   Tagged(2, <<<<1, 3>>, <<1, 0>>>>, 0, FALSE),            \* an empty message
   Tagged(1, <<<<2, 4>>, <<1, 3>>>>, 0, FALSE),            \* bytes left over
   Tagged(3, <<<<1, 3>>>>, 0, FALSE),                      \* messages missing
   Tagged(2, <<<<1, 3>>>>, 0, TRUE),                       \* ended by an empty beat
   Tagged(1, <<<<2, 4>>>>, 1, TRUE),
   Tagged(0, <<<<1, 3>>>>, 0, FALSE), Bare}

(* TLC evaluates AllFrames once, MCFieldFrames whenever it takes Frames.   *)
MCFieldFrames == AllFrames

(* None ends where the parser does not look. *)
ASSUME FramesEndAssumption == FramesEnd
==============================================================================
