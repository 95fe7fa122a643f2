------------------------------ MODULE MessageFeed ------------------------------
(***************************************************************************)
(* What a splitter and a reader behind it promise together, without a bus: *)
(* each message of a frame is published, once and in order, with the       *)
(* fields of its variant, if it is of a known variant and has that         *)
(* variant's length.  A message that is not is refused, and counts unless  *)
(* it is marked; a frame that is not what its headers announce counts in   *)
(* its own counter.  A message the frame's end cuts short is read too, as  *)
(* far as it was sent on: it is published where that is a message.         *)
(***************************************************************************)
EXTENDS MessageWalk, VariantPlan

VARIABLES
  announced,    \* the message being published, or none
  refused       \* messages that were

vars == <<walk, announced, refused>>

Init == WalkInit /\ announced = NoMessage /\ refused = 0

(* The end of the last beat a message can have: one that goes on behind it *)
(* is refused there, and a mark that comes later is no excuse.             *)
Limit == ((max_length + KEEP_WIDTH - 1) \div KEEP_WIDTH) * KEEP_WIDTH

CountRefused == refused' = (refused + 1) % COUNTER_MOD

(* The reader's judgement of the first n bytes of a body. *)
Judge(n, marked) ==
  \/ /\ IsMessage(frame, Body, n)
     /\ announced' = MessageAt(frame, Body)
     /\ UNCHANGED refused
  \/ /\ ~IsMessage(frame, Body, n)
     /\ announced' = NoMessage
     /\ \/ marked /\ UNCHANGED refused
        \/ (~marked \/ n > Limit) /\ CountRefused

(* The frame ends before the body does. *)
Cut ==
  /\ InMessage
  /\ Body < frame.len /\ BodyEnd > frame.len
  /\ Finish /\ CountMalformed
  /\ \E n \in 1 .. frame.len - Body : n > frame.len - Body - KEEP_WIDTH /\ Judge(n, TRUE)

Deliver ==
  /\ Whole
  /\ Judge(Length, \E q \in frame.user : q < BodyEnd)
  /\ \/ More /\ UNCHANGED malformed
     \/ Last /\ (IF AsAnnounced THEN UNCHANGED malformed ELSE CountMalformed)

(* Nothing is judged; what is announced may be over. *)
Quiet == announced' \in {announced, NoMessage} /\ UNCHANGED refused

Read == ((Refuse \/ Lost) /\ Quiet) \/ Cut \/ Deliver

Next ==
  \/ Read
  \/ (Elsewhere \/ Discard) /\ Quiet
  \/ UNCHANGED walk /\ Quiet
  \/ WalkReset /\ announced' = NoMessage /\ refused' = 0

Spec == Init /\ [][Next]_vars
==============================================================================
