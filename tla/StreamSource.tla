----------------------------- MODULE StreamSource -----------------------------
(***************************************************************************)
(* What drives the input port of a parser.  The wires s_axis_* are         *)
(* functions of the frame being sent and of the position in it; the source *)
(* may pause before any beat, and holds a beat until it is accepted.       *)
(***************************************************************************)
EXTENDS AxiStream

CONSTANT KEEP_ALWAYS    \* whether the source drives tkeep on every beat

ASSUME KeepAlwaysAssumption == KEEP_ALWAYS \in BOOLEAN

VARIABLES
  src,            \* the frame being sent
  pos,            \* position in src of the beat on the bus, or of the next one
  s_axis_tvalid,
  cur             \* history: the frame whose beat was accepted last

source == <<src, pos, s_axis_tvalid>>

s_axis_tdata == [i \in Lanes |-> src.data[pos + i]]
s_axis_tlast == pos + KEEP_WIDTH = src.end
s_axis_tkeep == IF s_axis_tlast \/ KEEP_ALWAYS THEN {i \in Lanes : pos + i < src.len} ELSE {}
s_axis_tuser == pos \in src.user

input_valid_bytes == IF s_axis_tlast THEN keep_count(s_axis_tkeep) ELSE KEEP_WIDTH

SourceInit ==
  /\ src \in Frames
  /\ pos = 0
  /\ s_axis_tvalid = FALSE
  /\ cur = src

(* The next beat, of the frame being sent or of a new one, comes on the bus. *)
Offer ==
  /\ ~s_axis_tvalid
  /\ s_axis_tvalid' = TRUE
  /\ src' \in IF pos = 0 THEN Frames ELSE {src}
  /\ UNCHANGED <<pos, cur>>

(* The beat on the bus is accepted. *)
Handshake ==
  /\ s_axis_tvalid
  /\ s_axis_tvalid' = FALSE
  /\ pos' = IF s_axis_tlast THEN 0 ELSE pos + KEEP_WIDTH
  /\ cur' = src
  /\ src' = src

(* The source obeys the reset too. *)
SourceReset ==
  /\ pos' = 0
  /\ s_axis_tvalid' = FALSE
  /\ UNCHANGED <<src, cur>>

SourceTypeOK ==
  /\ src \in Frames
  /\ pos \in Nat
  /\ s_axis_tvalid \in BOOLEAN
  /\ cur \in Frames

(* Where the source is in its frame. *)
SourceInv ==
  /\ SourceTypeOK
  /\ pos < src.end
  /\ \E n \in 0 .. pos : pos = n * KEEP_WIDTH
  /\ pos > 0 => cur = src
==============================================================================
