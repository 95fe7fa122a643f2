-------------------------- MODULE DiscriminatedFrames --------------------------
(***************************************************************************)
(* DiscriminatedParser together with its listeners: a consumer that takes  *)
(* the fields of the message whenever fields_fresh is high, and, on the    *)
(* output port, a sink that waits for the end of an output frame.  The     *)
(* parser and the consumer implement VariantReader.                        *)
(***************************************************************************)
EXTENDS DiscriminatedParser

VARIABLES
  sampled,    \* the message the consumer took last
  open        \* the sink has taken beats of an output frame that has not ended

framesVars == <<vars, sampled, open>>

Message == IF fields_fresh THEN OutputsOf(field_reg) ELSE sampled
Sample  == sampled' = Message
Sink    == open' = (forward /\ ~m_axis_tlast)

FramesInit == Init /\ sampled = NoMessage /\ open = FALSE

FramesNext ==
  \/ Present /\ UNCHANGED <<sampled, open>>
  \/ Parse /\ Sample /\ Sink
  \/ (Drain \/ IdleEdge) /\ Sample /\ UNCHANGED open
  \/ Reset /\ sampled' = NoMessage /\ open' = FALSE

FramesFairness ==
  /\ WF_framesVars(Present /\ UNCHANGED <<sampled, open>>)
  /\ WF_framesVars((Parse /\ Sample /\ Sink) \/ (Drain /\ Sample /\ UNCHANGED open))

FramesSpec == FramesInit /\ [][FramesNext]_framesVars /\ FramesFairness

------------------------------------------------------------------------------
Phase ==
  CASE state = "ST_DRAIN"            -> "discard"
    [] state = "ST_PARSE" /\ pos = 0 -> "idle"
    [] OTHER                         -> "reading"

Reader == INSTANCE VariantReader WITH
  phase     <- Phase,
  frame     <- cur,
  published <- Message,
  malformed <- malformed_count

(* Whatever the order of the variants and wherever their fields overlap,   *)
(* and however the source and the sink pause: each message is published    *)
(* once with the fields of its own variant, each frame that is none counts *)
(* once, and the parser is back in step with the next frame.               *)
ImplementsReader == Reader!Spec

(* What is forwarded of a frame is ended: between two frames no output     *)
(* frame is open that the next one would be taken for a part of.           *)
SeparateFrames == open => state = "ST_PARSE" /\ pos > 0
==============================================================================
