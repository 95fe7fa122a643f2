---------------------------- MODULE MessageReader ----------------------------
(***************************************************************************)
(* What a multi-message parser of discriminated messages promises: each    *)
(* message of a frame that passes is published, once and in order, with    *)
(* the fields of its variant, if it is of a known variant and has that     *)
(* variant's length.  A message that is not counts as malformed, and the   *)
(* messages behind it are read all the same.  A frame that is not what its *)
(* headers announce counts as malformed too, but for one whose last        *)
(* message counts already where the frame turns out to be so.              *)
(***************************************************************************)
EXTENDS MessageWalk, VariantPlan

VARIABLE published    \* the message published last

vars == <<walk, published>>

Init == WalkInit /\ published = NoMessage

(* The frame ends before the message does. *)
Cut ==
  /\ InMessage
  /\ Body <= frame.len /\ BodyEnd > frame.len
  /\ Finish /\ CountMalformed
  /\ UNCHANGED published

Publish ==
  /\ Whole
  /\ IsMessage(frame, Body, Length)
  /\ published' = MessageAt(frame, Body)
  /\ \/ More /\ UNCHANGED malformed
     \/ Last /\ (IF AsAnnounced THEN UNCHANGED malformed ELSE CountMalformed)

Skip ==
  /\ More \/ Last
  /\ ~IsMessage(frame, Body, Length)
  /\ CountMalformed
  /\ UNCHANGED published

Read == (Refuse /\ UNCHANGED published) \/ Cut \/ Publish \/ Skip

Next ==
  \/ Read
  \/ (Elsewhere \/ Discard) /\ UNCHANGED published
  \/ WalkReset /\ published' = NoMessage

(* A frame is read to its end, and one discarded is got rid of. *)
Fairness == WF_vars(Read) /\ WF_vars(Discard /\ UNCHANGED published)

Safety == Init /\ [][Next]_vars

Spec == Safety /\ Fairness
==============================================================================
