--------------------------- MODULE MessageSplitter ---------------------------
(***************************************************************************)
(* What a multi-message parser promises: of a frame that passes, the body  *)
(* of each message is delivered, once, in order and whole, as a frame of   *)
(* its own, marked if the source flagged a beat of the frame up to the     *)
(* body's last byte.  A frame that is not what its headers announce counts *)
(* as malformed, once.  Where it stops being so nothing more of it is      *)
(* delivered, but for a body that the frame's end cuts short: a part of it *)
(* is, marked, with less than a beat of what there was missing.            *)
(***************************************************************************)
EXTENDS MessageWalk

VARIABLE delivered    \* the body delivered last

vars == <<walk, delivered>>

Init == WalkInit /\ delivered = Nothing

(* The frame ends before the body does. *)
Cut ==
  /\ InMessage
  /\ Body < frame.len /\ BodyEnd > frame.len
  /\ Finish /\ CountMalformed
  /\ \E n \in 1 .. frame.len - Body :
       /\ n > frame.len - Body - KEEP_WIDTH
       /\ delivered' = [payload |-> Slice(frame, Body, n), error |-> TRUE, tdest |-> 0]

Deliver ==
  /\ Whole
  /\ delivered' = [payload |-> Slice(frame, Body, Length),
                   error |-> \E q \in frame.user : q < BodyEnd, tdest |-> 0]
  /\ \/ More /\ UNCHANGED malformed
     \/ Last /\ (IF AsAnnounced THEN UNCHANGED malformed ELSE CountMalformed)

Split == ((Refuse \/ Lost) /\ UNCHANGED delivered) \/ Cut \/ Deliver

Next ==
  \/ Split
  \/ (Elsewhere \/ Discard \/ WalkReset) /\ UNCHANGED delivered

(* A frame is split to its end, and one discarded is got rid of. *)
Fairness == WF_vars(Split) /\ WF_vars(Discard /\ UNCHANGED delivered)

Safety == Init /\ [][Next]_vars

Spec == Safety /\ Fairness
==============================================================================
