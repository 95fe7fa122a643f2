---------------------------- MODULE SidebandFrames ----------------------------
(***************************************************************************)
(* SidebandParser together with a sink that reassembles what m_axis        *)
(* carries, frame by frame, from the output wires alone; and the claim     *)
(* that the two implement FrameFilter.                                     *)
(***************************************************************************)
EXTENDS SidebandParser, StreamSink

framesVars == <<vars, sink>>

Sink == Take(m_axis_tdata, m_axis_tkeep, m_axis_tlast, m_axis_tuser, m_axis_tdest)

FramesInit == Init /\ SinkInit

FramesNext ==
  \/ Output /\ Sink
  \/ (Present \/ Consume \/ IdleEdge) /\ UNCHANGED sink
  \/ Reset /\ SinkReset

FramesFairness ==
  /\ WF_framesVars(Present /\ UNCHANGED sink)
  /\ WF_framesVars((Consume /\ UNCHANGED sink) \/ (Output /\ Sink))

FramesSpec == FramesInit /\ [][FramesNext]_framesVars /\ FramesFairness

------------------------------------------------------------------------------
(* A frame is in its header from its first beat to the one that completes  *)
(* the header; the source's position tells it from no frame at all.        *)
Phase ==
  CASE state = "ST_PARSE" -> IF pos = 0 THEN "idle" ELSE "header"
    [] state = "ST_DROP"  -> "discard"
    [] OTHER              -> "payload"

Filter == INSTANCE FrameFilter WITH
  phase  <- Phase,
  frame  <- cur,
  tdest  <- IF Phase = "payload" THEN route_tdest_reg ELSE 0,
  cfg    <- cfg_reg,
  counts <- drop_count

(* Clock edge by clock edge, stalls, tails and flushes included, the       *)
(* parser does to whole frames what FrameFilter allows and no more: every  *)
(* admitted frame reaches the sink exactly once, whole, marked and routed  *)
(* as it should be, and every drop is counted once.                        *)
ImplementsFilter == Filter!Spec
==============================================================================
