------------------------- MODULE MCMultiMessageFrames -------------------------
(***************************************************************************)
(* A small multi-message protocol and the frames sent to its parser.  The  *)
(* outer header is 4 bytes: a kind, compared with a register, two bytes no *)
(* field covers, and the message count, on the last beat when KEEP_WIDTH   *)
(* is 3.  A sub-header is a tag and the length of the body.                *)
(***************************************************************************)
EXTENDS MultiMessageFrames, SequencesExt

MCFields ==
  [kind |-> [offset |-> 0, length |-> 1], count |-> [offset |-> 3, length |-> 1]]
MCSubFields ==
  [tag |-> [offset |-> 0, length |-> 1], length |-> [offset |-> 1, length |-> 1]]
MCDropConditions ==
  {[name |-> "kind_mismatch", field |-> "kind", kind |-> "DropOnRegisterMismatch",
    register |-> "cfg_kind", mask |-> 255]}
MCRouteConditions == << >>
MCConfigDefault   == [cfg_kind |-> 8]
MCConfigValues    == {[cfg_kind |-> 9]}

(* The bytes of a frame whose header says count and whose messages have    *)
(* the lengths in lens; bytes differ by message and by position in it.     *)
Message(i, n) == <<100 + i, n>> \o [j \in 1 .. n |-> 20 * i + j]
Bytes(count, lens) ==
  <<8, 201, 202, count>> \o FlattenSeq([i \in DOMAIN lens |-> Message(i, lens[i])])

(* A frame of the first n of these bytes, followed by others if n is more  *)
(* than there are; null says that an empty last beat is added to it.       *)
Sized(count, lens, n, users, null) ==
  LET bytes == Bytes(count, lens)
      end   == ((n + KEEP_WIDTH - 1) \div KEEP_WIDTH + (IF null THEN 1 ELSE 0)) * KEEP_WIDTH
  IN  [len |-> n, end |-> end, user |-> users,
       data |-> [p \in 0 .. end - 1 |->
                   IF p >= n THEN 255 ELSE IF p < Len(bytes) THEN bytes[p + 1] ELSE 210 + p]]
Whole(count, lens, users, null) == Sized(count, lens, Len(Bytes(count, lens)), users, null)

(* Frames that are what their headers announce. *)
WellFormed ==
       {Whole(Len(lens), lens, {}, FALSE) : lens \in {<<1, 1>>, <<7, 2>>, <<2, 5, 1>>}}
  \cup {Whole(2, <<4, 3>>, {q}, FALSE) : q \in {0, 3 * KEEP_WIDTH}}

(* Frames that are not: cut in a header or in a body, with bytes behind    *)
(* the last message, with messages missing, of length 0, or followed by an *)
(* empty beat.                                                             *)
Damaged ==
       {Sized(2, <<5, 3>>, n, {}, FALSE) : n \in {2, 5, 8, 14}}
  \cup {Sized(1, <<3>>, n, {}, FALSE) : n \in {10, 13}}
  \cup {Whole(3, <<2, 2>>, {}, FALSE), Whole(1, <<2, 1>>, {}, FALSE)}
  \cup {Whole(2, lens, {}, FALSE) : lens \in {<<0, 2>>, <<2, 0>>}}
  \cup {Whole(n, <<3>>, {}, TRUE) : n \in {1, 2}}
  \cup {Sized(1, <<4>>, n, {}, TRUE) : n \in {3, 6}}
  \cup {Whole(0, << >>, {}, FALSE), Whole(0, <<2>>, {}, FALSE)}

(* Frames that end where a message that was announced should begin, or     *)
(* right behind a sub-header that announces a body; and an ordinary one.   *)
MCBoundaryFrames ==
  {Whole(1, <<2>>, {}, FALSE)} \cup {Sized(2, <<5, 3>>, n, {}, FALSE) : n \in {4, 6, 13}}

(* A frame that an empty beat ends after part of a body has been sent; and *)
(* an ordinary one.                                                        *)
MCOpenFrames == {Whole(1, <<2>>, {}, FALSE), Sized(1, <<7>>, 9, {}, TRUE)}

MCFrames == WellFormed \cup Damaged

(* Only frames of MCBoundaryFrames end where the parser does not look, and *)
(* only one of MCOpenFrames leaves an output frame open.                   *)
ASSUME FramesEndAssumption ==
  /\ \A f \in MCFrames : ~EndsUnnoticed(f) /\ ~LeavesOpen(f)
  /\ \E f \in MCBoundaryFrames : EndsUnnoticed(f)
  /\ \E f \in MCOpenFrames : LeavesOpen(f)
==============================================================================
