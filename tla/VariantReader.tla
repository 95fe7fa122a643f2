----------------------------- MODULE VariantReader -----------------------------
(***************************************************************************)
(* What a discriminated parser promises, without a bus: a frame that is    *)
(* one message of a known variant, of that variant's length, is published  *)
(* once, with the fields of that variant.  Any other frame is not, and     *)
(* counts as malformed, once, unless the source marked its last beat, or   *)
(* the last one a message can have if it is longer than that.              *)
(***************************************************************************)
EXTENDS VariantBeats

CONSTANT COUNTER_MOD

VARIABLES
  phase,        \* of the frame in hand
  frame,        \* the frame in hand, or the last one
  published,    \* the message published last
  malformed     \* frames that were

vars == <<phase, frame, published, malformed>>

LastPosition == PARSE_FINAL_BEAT * KEEP_WIDTH
Fits(f)      == f.end <= LastPosition + KEEP_WIDTH
Readable(f)  == Fits(f) /\ IsMessage(f, 0, f.len)
Marked(f)    == (IF Fits(f) THEN f.end - KEEP_WIDTH ELSE LastPosition) \in f.user

Init ==
  /\ phase = "idle"
  /\ frame \in Frames
  /\ published = NoMessage
  /\ malformed = 0

Candidate(f) ==
  /\ (phase = "idle" /\ f \in Frames) \/ (phase = "reading" /\ f = frame)
  /\ frame' = f

Begin(f) ==
  /\ Candidate(f)
  /\ phase = "idle" /\ phase' = "reading"
  /\ UNCHANGED <<published, malformed>>

Publish(f) ==
  /\ Candidate(f)
  /\ Readable(f)
  /\ published' = MessageAt(f, 0)
  /\ phase' = "idle"
  /\ UNCHANGED malformed

Refuse(f) ==
  /\ Candidate(f)
  /\ ~Readable(f)
  /\ malformed' = IF Marked(f) THEN malformed ELSE (malformed + 1) % COUNTER_MOD
  /\ phase' = IF Fits(f) THEN "idle" ELSE "discard"
  /\ UNCHANGED published

Discard ==
  /\ phase = "discard" /\ phase' = "idle"
  /\ UNCHANGED <<frame, published, malformed>>

Reset ==
  /\ phase' = "idle"
  /\ published' = NoMessage
  /\ malformed' = 0
  /\ UNCHANGED frame

Next ==
  \/ Discard \/ Reset
  \/ \E f \in Frames : Begin(f) \/ Publish(f) \/ Refuse(f)

(* A frame taken in is read to its end. *)
Judge    == \E f \in Frames : Publish(f) \/ Refuse(f)
Fairness == WF_vars(phase = "reading" /\ Judge) /\ WF_vars(Discard)

Safety == Init /\ [][Next]_vars
Spec   == Safety /\ Fairness
==============================================================================
