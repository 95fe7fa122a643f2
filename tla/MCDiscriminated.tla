---------------------------- MODULE MCDiscriminated ----------------------------
(***************************************************************************)
(* Three variants on a two-byte bus.  The discriminator is on the second   *)
(* beat; x has two places, one on that beat and one on the next; y has the *)
(* place that is x's in the second variant; z spans two beats, the longest *)
(* message ends with a beat.                                               *)
(***************************************************************************)
EXTENDS DiscriminatedFrames, SequencesExt

At(offset, length) == [offset |-> offset, length |-> length]

MCCommonFields  == [seq |-> At(0, 1), tag |-> At(2, 1)]
MCVariants      == 1 :> [x |-> At(3, 1)] @@ 2 :> [x |-> At(4, 1)] @@ 3 :> [y |-> At(4, 1), z |-> At(5, 3)]
MCVariantLength == 1 :> 4 @@ 2 :> 5 @@ 3 :> 8

(* A frame of n bytes whose discriminator is tag; seq tells frames apart,  *)
(* the lanes past its end hold the tag of a known variant.                 *)
Frame(seq, tag, n, users, null) ==
  LET end == ((n + KEEP_WIDTH - 1) \div KEEP_WIDTH + (IF null THEN 1 ELSE 0)) * KEEP_WIDTH
  IN  [len |-> n, end |-> end, user |-> users,
       data |-> [p \in 0 .. end - 1 |->
                   IF p >= n THEN 1 ELSE IF p = 2 THEN tag ELSE 20 * seq + p]]

AllFrames ==
  {Frame(1, 1, 4, {}, FALSE), Frame(2, 1, 4, {2}, TRUE), Frame(1, 2, 5, {}, FALSE),
   Frame(2, 3, 8, {}, FALSE), Frame(3, 3, 8, {}, TRUE), Frame(1, 1, 2, {}, TRUE),
   Frame(3, 2, 4, {0}, FALSE), Frame(2, 9, 4, {2}, FALSE), Frame(3, 3, 11, {6}, FALSE)}
  \cup {Frame(1, 1, n, {}, FALSE) : n \in {1, 3}}
  \cup {Frame(1, 3, n, {}, FALSE) : n \in {6, 9}}

(* TLC evaluates AllFrames once, MCFrames whenever it takes Frames.        *)
MCFrames == AllFrames

(* A message of the longest variant, and a frame with a byte too many.     *)
MCOverLongFrames == {Frame(2, 3, 8, {}, FALSE), Frame(1, 3, 9, {}, FALSE)}
==============================================================================
