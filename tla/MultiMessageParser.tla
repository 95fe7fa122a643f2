-------------------------- MODULE MultiMessageParser --------------------------
(***************************************************************************)
(* The parser the generator emits for a MultiMessageProtocol whose         *)
(* messages are length-prefixed: it sends the body of each message         *)
(* downstream as a frame of its own.                                       *)
(***************************************************************************)
EXTENDS MessageHeaders

VARIABLE sub_fields_fresh

vars == <<common, sub_fields_fresh, source, cur>>

------------------------------------------------------------------------------
(* Input wires. *)

(* Faults: the end of the frame, or a full beat, does not stop the         *)
(* appending; nothing is appended.                                         *)
NeedsMore   == state = "ST_MSG_BODY" /\ Len(scratch) < KEEP_WIDTH /\ msg_bytes_remaining > Len(scratch)
NeedsBody   == state = "ST_MSG_BODY" /\ msg_bytes_remaining > Len(scratch) /\ ~scratch_last
WhenEmpty   == state \in {"ST_MSG_HDR", "ST_MSG_BODY"} => Empty

body_needs_input ==
  /\ state = "ST_MSG_BODY"
  /\ Len(scratch) < KEEP_WIDTH
  /\ msg_bytes_remaining > Len(scratch)
  /\ ~scratch_last
s_axis_tready == HeadersReady \/ (state = "ST_MSG_BODY" /\ (Empty \/ body_needs_input))

------------------------------------------------------------------------------
(* Output wires. *)

(* Fault: a body ends with a beat. *)
WholeBeats ==
  IF state = "ST_MSG_BODY" THEN Min({Len(scratch), KEEP_WIDTH}) ELSE 0
body_out_bytes ==
  IF state = "ST_MSG_BODY" THEN Min({msg_bytes_remaining, Len(scratch), KEEP_WIDTH}) ELSE 0
body_truncated ==
  state = "ST_MSG_BODY" /\ ~Empty /\ scratch_last /\ msg_bytes_remaining > Len(scratch)
body_completes == msg_bytes_remaining <= body_out_bytes

m_axis_tvalid == state = "ST_MSG_BODY" /\ ~Empty /\ msg_bytes_remaining # 0 /\ ~body_needs_input
m_axis_tdata  == [i \in 0 .. body_out_bytes - 1 |-> scratch[i + 1]]
m_axis_tkeep  == keep_for_count(body_out_bytes)
(* Fault: a body that is cut short does not end. *)
CompleteLast  == state = "ST_MSG_BODY" /\ ~Empty /\ body_completes
m_axis_tlast  == state = "ST_MSG_BODY" /\ ~Empty /\ (body_completes \/ body_truncated)
m_axis_tuser  == sticky_tuser \/ body_truncated
m_axis_tdest  == 0

sub_fields_valid == state = "ST_MSG_BODY"

------------------------------------------------------------------------------
Init    == CommonInit /\ sub_fields_fresh = FALSE
Present == Offer /\ UNCHANGED <<common, sub_fields_fresh>>
Reset   == CommonReset /\ sub_fields_fresh' = FALSE

(* An edge at which nothing is handed over. *)
IdleEdge ==
  /\ ~(s_axis_tvalid /\ s_axis_tready)
  /\ ~(state = "ST_MSG_HDR" /\ ~Empty)
  /\ CommonIdle
  /\ sub_fields_fresh' = FALSE

(* ST_PARSE, ST_MSG_HDR and ST_DRAIN. *)
Headers ==
  \/ (ParseEdge \/ Terminator \/ SubHeaderMore \/ SubHeaderShort \/ Drain) /\ sub_fields_fresh' = FALSE
  \/ (ZeroLength \/ BeginBody) /\ sub_fields_fresh' = TRUE

------------------------------------------------------------------------------
(* ST_MSG_BODY. *)

BodyEdge ==
  /\ state = "ST_MSG_BODY"
  /\ Later
  /\ sub_fields_fresh' = FALSE
  /\ UNCHANGED <<sub_header_offset, sub_reg>>

(* Input is loaded into the scratchpad, behind what it holds. *)
Load ==
  /\ BodyEdge
  /\ s_axis_tready /\ Handshake
  /\ scratch' = scratch \o InputBytes
  /\ scratch_last' = s_axis_tlast
  /\ IF NoInput
     THEN Malformed /\ msg_bytes_remaining' = 0 /\ msg_remaining' = 0 /\ state' = "ST_PARSE"
     ELSE Mark /\ UNCHANGED <<malformed_count, msg_bytes_remaining, msg_remaining, state>>

(* The sink takes the beat on m_axis. *)
BodyOut ==
  /\ BodyEdge
  /\ m_axis_tvalid
  /\ UNCHANGED <<source, cur, scratch_last>>

Rest == SubSeq(scratch, body_out_bytes + 1, Len(scratch))

(* The frame ends before the body does. *)
BodyTruncated ==
  /\ BodyOut
  /\ body_truncated
  /\ Malformed
  /\ msg_bytes_remaining' = 0
  /\ msg_remaining' = 0
  /\ scratch' = << >>
  /\ state' = "ST_PARSE"

BodyMore ==
  /\ BodyOut
  /\ ~body_truncated
  /\ ~body_completes
  /\ msg_bytes_remaining' = msg_bytes_remaining - body_out_bytes
  /\ scratch' = Rest
  /\ UNCHANGED <<state, msg_remaining, malformed_count, sticky_tuser>>

BodyComplete ==
  /\ BodyOut
  /\ ~body_truncated
  /\ body_completes
  /\ msg_bytes_remaining' = 0

(* The last message ends with the frame. *)
LastMessage ==
  /\ BodyComplete
  /\ msg_remaining <= 1
  /\ Rest = << >> /\ scratch_last
  /\ msg_remaining' = 0
  /\ scratch' = Rest
  /\ state' = "ST_PARSE"
  /\ UNCHANGED <<malformed_count, sticky_tuser>>

(* The frame goes on behind its last message. *)
ExtraBytes ==
  /\ BodyComplete
  /\ msg_remaining <= 1
  /\ Rest # << >> \/ ~scratch_last
  /\ Malformed
  /\ msg_remaining' = 0
  /\ scratch' = << >>
  /\ ParseOrDrain(scratch_last)

(* The frame ends and messages are missing. *)
MissingMessages ==
  /\ BodyComplete
  /\ msg_remaining > 1
  /\ Rest = << >> /\ scratch_last
  /\ Malformed
  /\ msg_remaining' = 0
  /\ scratch' = << >>
  /\ state' = "ST_PARSE"

NextMessage ==
  /\ BodyComplete
  /\ msg_remaining > 1
  /\ Rest # << >> \/ ~scratch_last
  /\ msg_remaining' = msg_remaining - 1
  /\ scratch' = Rest
  /\ state' = "ST_MSG_HDR"
  /\ UNCHANGED <<malformed_count, sticky_tuser>>

Consume == Headers \/ Load
Output == BodyTruncated \/ BodyMore \/ LastMessage \/ ExtraBytes \/ MissingMessages \/ NextMessage

Next == Present \/ Consume \/ Output \/ IdleEdge \/ Reset

(* As for the sideband parser: the source and the sink go on. *)
Fairness == WF_vars(Present) /\ WF_vars(Consume \/ Output)

Spec == Init /\ [][Next]_vars /\ Fairness
------------------------------------------------------------------------------
TypeOK == CommonTypeOK /\ sub_fields_fresh \in BOOLEAN

(* A body leaves in full beats up to its last one.  tlast comes with the   *)
(* byte its sub-header says is the last, or, if the frame is over before   *)
(* that, with an error mark.                                               *)
BodyBoundary ==
  m_axis_tvalid =>
    IF m_axis_tlast
    THEN \/ Consumed + keep_count(m_axis_tkeep) = BodyEnd
         \/ pos = 0 /\ cur.len < BodyEnd /\ m_axis_tuser
    ELSE m_axis_tkeep = Lanes

(* A body that is not cut short is marked exactly if the source marked one *)
(* of the beats it has read of the frame, those of the outer header too.   *)
MessageMarked ==
  m_axis_tvalid /\ ~body_truncated =>
    m_axis_tuser = (\E q \in cur.user : q < Accepted)

(* While the fields of a sub-header are announced they are one sub-header, *)
(* the one right before the body being sent.                               *)
SubFieldsCoherent ==
  sub_fields_valid =>
    /\ MessageFrom >= TOTAL_LENGTH
    /\ sub_reg = SubHeader(cur, MessageFrom)

(* Whatever its headers announce, the parser gets to the end of a frame.   *)
FrameCompletes ==
  (state # "ST_PARSE" \/ pos > 0) ~> (state = "ST_PARSE" /\ pos = 0)

------------------------------------------------------------------------------
MarkInv ==
  InMessages \/ (state = "ST_PARSE" /\ pos > 0) => sticky_tuser = (\E q \in cur.user : q < Accepted)

IInv == HeadersInv /\ MarkInv /\ sub_fields_fresh \in BOOLEAN
==============================================================================
