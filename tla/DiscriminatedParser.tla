-------------------------- MODULE DiscriminatedParser --------------------------
(***************************************************************************)
(* The parser the generator emits for a DiscriminatedProtocol: it captures *)
(* the fields of one message per frame, by the value of the discriminator  *)
(* where a field has several places, and publishes them if the frame has   *)
(* the length the variant asks for.  With forward it passes the beats on   *)
(* while it reads them.                                                    *)
(***************************************************************************)
EXTENDS VariantBeats, StreamSource

CONSTANTS
  forward,        \* whether the module has an output port
  COUNTER_MOD     \* counters wrap here: 2^32 in the emitted module

ASSUME ReaderAssumption == forward \in BOOLEAN /\ COUNTER_MOD \in Nat \ {0}

VARIABLES
  state, beat_count, fields_valid_reg, fields_fresh, malformed_count,
  field_reg       \* the field registers, byte by byte

registers == <<state, beat_count, fields_valid_reg, malformed_count, field_reg>>
vars      == <<registers, fields_fresh, source, cur>>

State == {"ST_PARSE", "ST_DRAIN"}

------------------------------------------------------------------------------
(* Input and output wires. *)

s_axis_tready(m_axis_tready) == ~forward \/ state = "ST_DRAIN" \/ m_axis_tready

m_axis_tvalid == forward /\ state = "ST_PARSE" /\ s_axis_tvalid
m_axis_tdata  == s_axis_tdata
m_axis_tkeep  == s_axis_tkeep
m_axis_tlast  == s_axis_tlast
m_axis_tuser  == s_axis_tuser
m_axis_tdest  == 0

(* Fault: the discriminator on the bus is not bypassed. *)
RegisteredValue == KeyIn(field_reg)
discriminator_value ==
  LET at == CommonFields[discriminator]
  IN  IF beat_count = discriminator_beat
      THEN BigEndian([p \in at.offset .. Ends(at) - 1 |-> s_axis_tdata[byte_in_beat(p)]], at)
      ELSE RegisteredValue

variant_known   == discriminator_value \in DOMAIN variant_length
expected_length == IF variant_known THEN variant_length[discriminator_value] ELSE 0
(* Fault: beats are counted, and not bytes. *)
BeatBytes       == (beat_count + 1) * KEEP_WIDTH
frame_bytes     == beat_count * KEEP_WIDTH + input_valid_bytes

Captured ==
  [r \in RegBytes |->
     LET here == {p \in {at.offset + r[2] : at \in CaptureAt(r[1], discriminator_value)} : beat_of(p) = beat_count}
     IN  IF here = {} THEN field_reg[r] ELSE s_axis_tdata[byte_in_beat(CHOOSE p \in here : TRUE)]]

------------------------------------------------------------------------------
Init ==
  /\ SourceInit
  /\ state = "ST_PARSE"
  /\ beat_count = 0
  /\ fields_valid_reg = FALSE
  /\ fields_fresh = FALSE
  /\ malformed_count = 0
  /\ field_reg = [r \in RegBytes |-> 0]

Present == Offer /\ UNCHANGED <<registers, fields_fresh>>

ParseBeat ==
  /\ state = "ST_PARSE"
  /\ Handshake
  /\ field_reg' = Captured

(* A frame that is not published counts unless this beat is marked.        *)
(* Fault: the counter is wider than its port.                              *)
CountFree == malformed_count' = IF s_axis_tuser THEN malformed_count ELSE malformed_count + 1
CountRefused ==
  malformed_count' = IF s_axis_tuser THEN malformed_count ELSE (malformed_count + 1) % COUNTER_MOD

Publish ==
  /\ ParseBeat
  /\ s_axis_tlast
  /\ variant_known /\ frame_bytes = expected_length
  /\ fields_fresh' = TRUE
  /\ fields_valid_reg' = TRUE
  /\ beat_count' = 0
  /\ UNCHANGED <<state, malformed_count>>

Refuse ==
  /\ ParseBeat
  /\ s_axis_tlast
  /\ ~(variant_known /\ frame_bytes = expected_length)
  /\ CountRefused
  /\ beat_count' = 0
  /\ fields_fresh' = FALSE
  /\ UNCHANGED <<state, fields_valid_reg>>

(* The frame goes on behind the longest variant. *)
OverLong ==
  /\ ParseBeat
  /\ ~s_axis_tlast
  /\ beat_count = PARSE_FINAL_BEAT
  /\ CountRefused
  /\ beat_count' = 0
  /\ state' = "ST_DRAIN"
  /\ fields_fresh' = FALSE
  /\ UNCHANGED fields_valid_reg

ParseMore ==
  /\ ParseBeat
  /\ ~s_axis_tlast
  /\ beat_count # PARSE_FINAL_BEAT
  /\ beat_count' = beat_count + 1
  /\ fields_fresh' = FALSE
  /\ UNCHANGED <<state, fields_valid_reg, malformed_count>>

(* Fault: draining stops at any beat. *)
DrainOne == state' = "ST_PARSE"
DrainOn  == IF s_axis_tlast THEN state' = "ST_PARSE" ELSE UNCHANGED state

Drain ==
  /\ state = "ST_DRAIN"
  /\ Handshake
  /\ DrainOn
  /\ fields_fresh' = FALSE
  /\ UNCHANGED <<beat_count, fields_valid_reg, malformed_count, field_reg>>

(* An edge without a handshake, and the reset. *)
IdleEdge ==
  /\ ~(s_axis_tvalid /\ s_axis_tready(FALSE))
  /\ fields_fresh' = FALSE
  /\ UNCHANGED <<registers, source, cur>>

Reset ==
  /\ SourceReset
  /\ state' = "ST_PARSE"
  /\ beat_count' = 0
  /\ fields_valid_reg' = FALSE
  /\ fields_fresh' = FALSE
  /\ malformed_count' = 0
  /\ field_reg' = [r \in RegBytes |-> 0]

Parse == Publish \/ Refuse \/ OverLong \/ ParseMore

Next == Present \/ Parse \/ Drain \/ IdleEdge \/ Reset

(* The source keeps sending and the sink, if there is one, accepting. *)
Fairness == WF_vars(Present) /\ WF_vars(Parse \/ Drain)

Spec == Init /\ [][Next]_vars /\ Fairness

------------------------------------------------------------------------------
TypeOK ==
  /\ SourceTypeOK
  /\ state \in State
  /\ beat_count \in 0 .. PARSE_FINAL_BEAT
  /\ fields_valid_reg \in BOOLEAN
  /\ fields_fresh \in BOOLEAN
  /\ malformed_count \in 0 .. COUNTER_MOD - 1
  /\ field_reg \in [RegBytes -> Byte]

(* What is announced as fresh is one message, whole and of the length its  *)
(* variant has: each of its fields is what the frame holds at the place    *)
(* the field has in this variant, whichever variants came before and       *)
(* whatever else lies at the same place in others.                         *)
Published ==
  fields_fresh =>
    /\ pos = 0
    /\ IsMessage(cur, 0, cur.len)
    /\ OutputsOf(field_reg) = MessageAt(cur, 0)

(* The parser reads a message from the first beat of a frame and drains    *)
(* within one: it is never out of step with the source.                    *)
Framing ==
  /\ state = "ST_PARSE" => pos = beat_count * KEEP_WIDTH
  /\ state = "ST_DRAIN" => pos > 0

(***************************************************************************)
(* What makes these inductive.  Of the bytes before a position, the field  *)
(* registers hold those where the frame's own variant has fields: those of *)
(* fields with one place from the first beat on, those of the others since *)
(* the discriminator is known.                                             *)
(***************************************************************************)
IInv ==
  /\ TypeOK /\ SourceInv
  /\ Framing /\ Published
  /\ state = "ST_PARSE" => Hold(field_reg, src, 0, pos)
  /\ state = "ST_DRAIN" => beat_count = 0
==============================================================================
