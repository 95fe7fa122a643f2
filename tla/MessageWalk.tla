----------------------------- MODULE MessageWalk -----------------------------
(***************************************************************************)
(* What every multi-message parser promises, whatever it does with a       *)
(* message: it walks over the messages of a frame that passes, from one    *)
(* sub-header to the next, and is done with the frame where the frame      *)
(* stops being what its headers announce.                                  *)
(***************************************************************************)
EXTENDS FrameIntake, MessagePlan

VARIABLES
  start,        \* where in the frame the message in hand begins
  left,         \* messages to come, with the one in hand
  malformed     \* malformed_count

walk == <<intake, start, left, malformed>>

Body    == start + SUB_HEADER_BYTES
Length  == MsgLen(SubHeader(frame, start))
BodyEnd == Body + Length
Padded  == frame.len + KEEP_WIDTH = frame.end    \* its last beat is empty

WalkInit == IntakeInit /\ start = 0 /\ left = 0 /\ malformed = 0

CountMalformed == malformed' = (malformed + 1) % COUNTER_MOD

Short(f) ==
  /\ TooShort(f)
  /\ CountMalformed
  /\ UNCHANGED <<start, left>>

NoMessages(f) ==
  /\ Pass(f)
  /\ MsgCount(Header(f)) = 0
  /\ phase' \in {"idle", "discard"}
  /\ UNCHANGED <<start, left, malformed>>

Admit(f) ==
  /\ Pass(f)
  /\ MsgCount(Header(f)) # 0
  /\ phase' = "messages"
  /\ start' = TOTAL_LENGTH
  /\ left' = MsgCount(Header(f))
  /\ UNCHANGED malformed

------------------------------------------------------------------------------
InMessage == phase = "messages" /\ Configure /\ UNCHANGED <<frame, counts>>

(* Done with the frame, though it may go on. *)
Finish == phase' \in {"idle", "discard"} /\ start' = 0 /\ left' = 0

(* The frame ends before the sub-header does. *)
NoHeader ==
  /\ InMessage
  /\ Body > frame.len
  /\ Finish /\ CountMalformed

ZeroLength ==
  /\ InMessage
  /\ Body <= frame.len /\ Length = 0
  /\ Finish /\ CountMalformed

(* The frame ends before the body does, with an empty beat, and what there *)
(* is of the body comes to nothing.                                        *)
Lost ==
  /\ InMessage
  /\ Body <= frame.len /\ BodyEnd > frame.len /\ Padded
  /\ Finish /\ CountMalformed

(* A message that is all there, and the next one or the end of the frame.  *)
Whole == phase = "messages" /\ Body <= frame.len /\ Length # 0 /\ BodyEnd <= frame.len

More ==
  /\ Whole /\ InMessage
  /\ left > 1
  /\ BodyEnd < frame.len \/ Padded
  /\ start' = BodyEnd
  /\ left' = left - 1
  /\ UNCHANGED phase

(* Whether the frame ends with its last message. *)
AsAnnounced == left = 1 /\ BodyEnd = frame.len /\ ~Padded

Last ==
  /\ Whole /\ InMessage
  /\ Finish
  /\ left > 1 => BodyEnd = frame.len /\ ~Padded

(* What moves the walk but the messages themselves. *)
Refuse  == NoHeader \/ ZeroLength
Discard == Discarded /\ UNCHANGED <<start, left, malformed>>
Elsewhere ==
  \/ (Reconfigure \/ \E f \in Frames : Begin(f) \/ Reject(f)) /\ UNCHANGED <<start, left, malformed>>
  \/ \E f \in Frames : Short(f) \/ NoMessages(f) \/ Admit(f)
WalkReset == IntakeReset /\ start' = 0 /\ left' = 0 /\ malformed' = 0
==============================================================================
