-------------------------- MODULE MultiMessageFrames --------------------------
(***************************************************************************)
(* MultiMessageParser together with a sink that reassembles what m_axis    *)
(* carries, and the claim that the two implement MessageSplitter.          *)
(***************************************************************************)
EXTENDS MultiMessageParser, StreamSink

framesVars == <<vars, sink>>

Sink == Take(m_axis_tdata, m_axis_tkeep, m_axis_tlast, m_axis_tuser, m_axis_tdest)

FramesInit == Init /\ SinkInit

FramesNext ==
  \/ Output /\ Sink
  \/ (Present \/ Consume \/ IdleEdge) /\ UNCHANGED sink
  \/ Reset /\ SinkReset

FramesFairness ==
  /\ WF_framesVars(Present /\ UNCHANGED sink)
  /\ WF_framesVars((Consume /\ UNCHANGED sink) \/ (Output /\ Sink))

FramesSpec == FramesInit /\ [][FramesNext]_framesVars /\ FramesFairness

------------------------------------------------------------------------------
(* Every body is sent as a frame of its own: between two bodies no output  *)
(* frame is open that the next one would be taken for a part of.           *)
SeparateFrames == received # << >> => state = "ST_MSG_BODY"

(* A frame that an empty beat ends when a beat or more of a body has been  *)
(* sent and more of it is to come: its output frame is not ended.          *)
LeavesOpen(f) ==
  /\ f.len >= TOTAL_LENGTH /\ f.len + KEEP_WIDTH = f.end
  /\ \E n \in 1 .. MsgCount(HeaderOf(f)) : \E at \in Starts(f, n) :
       BodyOf(f, at[n]) + KEEP_WIDTH <= f.len /\ NextStart(f, at[n]) > f.len
NoneLeftOpen == \A f \in Frames : ~LeavesOpen(f)

(* What holds between any two steps and makes this true, if no frame is    *)
(* left open: the sink has the bytes of the body in hand that were sent,   *)
(* full beats of them, and no marked beat is read before it is needed.     *)
Sent == Consumed - BodyOf(cur, MessageFrom)
SinkInv ==
  IF state = "ST_MSG_BODY"
  THEN /\ received = [i \in 1 .. Sent |-> cur.data[BodyOf(cur, MessageFrom) + i - 1]]
       /\ Sent # 0 => Sent >= KEEP_WIDTH
  ELSE received = << >>
ReadWhenNeeded ==
  InMessages =>
    \A q \in cur.user : q < Accepted => q < IF state = "ST_MSG_HDR" THEN Consumed ELSE BodyEnd

FramesInv == IInv /\ SinkInv /\ ReadWhenNeeded

Splitter == INSTANCE MessageSplitter WITH
  phase     <- Phase,
  frame     <- cur,
  cfg       <- cfg_reg,
  counts    <- drop_count,
  start     <- WalkStart,
  left      <- WalkLeft,
  malformed <- malformed_count

(* Whatever lanes headers and bodies start at, and however source and sink *)
(* pause, the parser does to frames what MessageSplitter allows: it finds  *)
(* every message, delivers each body once, whole, in order and marked as   *)
(* it should be, and counts a frame as malformed exactly once or not.      *)
ImplementsSplitter == Splitter!Spec
==============================================================================
