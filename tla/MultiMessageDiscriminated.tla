----------------------- MODULE MultiMessageDiscriminated -----------------------
(***************************************************************************)
(* The parser the generator emits for a MultiMessageProtocol whose         *)
(* messages are length-prefixed and discriminated: it captures the fields  *)
(* of each message byte by byte, by the value of the discriminator where a *)
(* field has several places, and publishes them if the message has the     *)
(* length its variant asks for.  It has no output port; at the end are     *)
(* what takes the fields and what the two promise together.                *)
(***************************************************************************)
EXTENDS MessageHeaders, VariantPlan

VARIABLES
  msg_len_captured, sub_parse_offset,
  itch_reg,         \* the message's field registers, byte by byte
  itch_fields_valid, itch_fields_fresh

payload == <<msg_len_captured, sub_parse_offset, itch_reg, itch_fields_valid>>
vars    == <<common, payload, itch_fields_fresh, source, cur>>

(* The discriminator is read from its register, which lags one byte, and   *)
(* nothing checks that this is late enough.                                *)
ASSUME DiscriminatorAssumption == DiscriminatorFirst

(* sub_parse_offset has the bits it takes to count to max_length: a power  *)
(* of two behind every length, of which the prover knows no more.          *)
OFFSET_MOD == Min({2 ^ b : b \in 1 .. max_length} \ (0 .. max_length))
ASSUME OffsetAssumption ==
  OFFSET_MOD \in Nat \ {0} /\ \A k \in DOMAIN variant_length : variant_length[k] < OFFSET_MOD

------------------------------------------------------------------------------
s_axis_tready   == HeadersReady \/ (state = "ST_MSG_BODY" /\ Empty)

variant_known   == KeyIn(itch_reg) \in DOMAIN variant_length
(* Fault: any length will do. *)
KnownVariant    == variant_known
GoodMessage     == variant_known /\ variant_length[KeyIn(itch_reg)] = msg_len_captured

(* Fault: the byte that completes a message is judged and not captured. *)
CapturedBefore ==
  [r \in RegBytes |->
     IF /\ msg_bytes_remaining > 1
        /\ sub_parse_offset \in {at.offset + r[2] : at \in CaptureAt(r[1], KeyIn(itch_reg))}
     THEN Head(Pad) ELSE itch_reg[r]]
CapturedByte ==
  [r \in RegBytes |->
     IF sub_parse_offset \in {at.offset + r[2] : at \in CaptureAt(r[1], KeyIn(itch_reg))}
     THEN Head(Pad) ELSE itch_reg[r]]

------------------------------------------------------------------------------
Init ==
  /\ CommonInit
  /\ msg_len_captured = 0 /\ sub_parse_offset = 0
  /\ itch_reg = [r \in RegBytes |-> 0]
  /\ itch_fields_valid = FALSE /\ itch_fields_fresh = FALSE

Present == Offer /\ UNCHANGED <<common, payload, itch_fields_fresh>>

Reset ==
  /\ CommonReset
  /\ msg_len_captured' = 0 /\ sub_parse_offset' = 0
  /\ itch_reg' = [r \in RegBytes |-> 0]
  /\ itch_fields_valid' = FALSE /\ itch_fields_fresh' = FALSE

(* An edge of ST_PARSE takes the message of the frame before it back. *)
Parse ==
  /\ ParseEdge
  /\ itch_fields_valid' = FALSE /\ itch_fields_fresh' = FALSE
  /\ UNCHANGED <<msg_len_captured, sub_parse_offset, itch_reg>>

MessageHeader ==
  /\ Terminator \/ SubHeaderMore \/ SubHeaderShort \/ ZeroLength
  /\ itch_fields_fresh' = FALSE
  /\ UNCHANGED payload

BeginPayload ==
  /\ BeginBody
  /\ msg_len_captured' = msg_len
  /\ sub_parse_offset' = 0
  /\ itch_fields_fresh' = FALSE
  /\ UNCHANGED <<itch_reg, itch_fields_valid>>

------------------------------------------------------------------------------
(* ST_MSG_BODY. *)

(* The frame ends, with an empty beat, where a byte should be. *)
PayloadTerminator ==
  /\ state = "ST_MSG_BODY"
  /\ Empty /\ NoInput
  /\ Handshake
  /\ Later
  /\ Malformed
  /\ msg_bytes_remaining' = 0 /\ msg_remaining' = 0 /\ sub_parse_offset' = 0
  /\ itch_fields_valid' = FALSE /\ itch_fields_fresh' = FALSE
  /\ state' = "ST_PARSE"
  /\ UNCHANGED <<scratches, sub_header_offset, sub_reg, msg_len_captured, itch_reg>>

PayloadByte ==
  /\ state = "ST_MSG_BODY"
  /\ TakeByte
  /\ itch_reg' = CapturedByte
  /\ UNCHANGED <<sub_header_offset, sub_reg, msg_len_captured>>

PayloadMore ==
  /\ PayloadByte
  /\ msg_bytes_remaining # 1
  /\ ~is_last_byte
  /\ msg_bytes_remaining' = msg_bytes_remaining - 1
  /\ sub_parse_offset' = (sub_parse_offset + 1) % OFFSET_MOD
  /\ scratch' = Tail(Pad)
  /\ MarkByte
  /\ itch_fields_fresh' = FALSE
  /\ UNCHANGED <<state, msg_remaining, malformed_count, itch_fields_valid>>

(* The frame ends before the message does. *)
PayloadShort ==
  /\ PayloadByte
  /\ msg_bytes_remaining # 1
  /\ is_last_byte
  /\ Malformed
  /\ msg_bytes_remaining' = msg_bytes_remaining - 1
  /\ msg_remaining' = 0 /\ sub_parse_offset' = 0
  /\ scratch' = << >>
  /\ itch_fields_valid' = FALSE /\ itch_fields_fresh' = FALSE
  /\ state' = "ST_PARSE"

PayloadComplete ==
  /\ PayloadByte
  /\ msg_bytes_remaining = 1
  /\ sub_parse_offset' = 0
  /\ itch_fields_fresh' = GoodMessage
  /\ itch_fields_valid' = (itch_fields_valid \/ GoodMessage)
  /\ UNCHANGED msg_bytes_remaining

(* A message that is not published counts, and the next one is read. *)
Judged == IF GoodMessage THEN MarkByte /\ UNCHANGED malformed_count ELSE Malformed

(* The last message ends with the frame. *)
LastMessage ==
  /\ PayloadComplete
  /\ msg_remaining <= 1
  /\ is_last_byte
  /\ Judged
  /\ msg_remaining' = 0
  /\ scratch' = Tail(Pad)
  /\ state' = "ST_PARSE"

(* The frame goes on behind its last message. *)
ExtraBytes ==
  /\ PayloadComplete
  /\ msg_remaining <= 1
  /\ ~is_last_byte
  /\ Malformed
  /\ msg_remaining' = 0
  /\ scratch' = << >>
  /\ ParseOrDrain(is_last_beat)

(* The frame ends and messages are missing. *)
MissingMessages ==
  /\ PayloadComplete
  /\ msg_remaining > 1
  /\ is_last_byte
  /\ Malformed
  /\ msg_remaining' = 0
  /\ scratch' = << >>
  /\ state' = "ST_PARSE"

NextMessage ==
  /\ PayloadComplete
  /\ msg_remaining > 1
  /\ ~is_last_byte
  /\ Judged
  /\ msg_remaining' = msg_remaining - 1
  /\ scratch' = Tail(Pad)
  /\ state' = "ST_MSG_HDR"

DrainFrame ==
  /\ Drain
  /\ itch_fields_fresh' = FALSE
  /\ IF s_axis_tlast
     THEN sub_parse_offset' = 0 /\ itch_fields_valid' = FALSE
     ELSE UNCHANGED <<sub_parse_offset, itch_fields_valid>>
  /\ UNCHANGED <<msg_len_captured, itch_reg>>

(* An edge at which nothing is handed over and no byte is waiting. *)
IdleEdge ==
  /\ ~(s_axis_tvalid /\ s_axis_tready)
  /\ ~(InMessages /\ ~Empty)
  /\ CommonIdle
  /\ itch_fields_valid' = (itch_fields_valid /\ state # "ST_PARSE")
  /\ itch_fields_fresh' = FALSE
  /\ UNCHANGED <<msg_len_captured, sub_parse_offset, itch_reg>>

Payload ==
  \/ PayloadTerminator \/ PayloadMore \/ PayloadShort
  \/ LastMessage \/ ExtraBytes \/ MissingMessages \/ NextMessage

Consume == Parse \/ MessageHeader \/ BeginPayload \/ Payload \/ DrainFrame

Next == Present \/ Consume \/ IdleEdge \/ Reset

(* The source keeps sending; a parser with no output waits for nothing else. *)
Fairness == WF_vars(Present) /\ WF_vars(Consume)

Spec == Init /\ [][Next]_vars /\ Fairness

------------------------------------------------------------------------------
TypeOK ==
  /\ CommonTypeOK
  /\ msg_len_captured \in Nat
  /\ sub_parse_offset \in 0 .. OFFSET_MOD - 1
  /\ itch_reg \in [RegBytes -> Byte]
  /\ itch_fields_valid \in BOOLEAN
  /\ itch_fields_fresh \in BOOLEAN

(* Four counters are advanced or set back on different paths: between two  *)
(* bytes of a message they agree on where in it the parser is, whatever    *)
(* became of the messages and frames before it.                            *)
PayloadInStep ==
  state = "ST_MSG_BODY" =>
    /\ MessageFrom >= TOTAL_LENGTH
    /\ sub_reg = SubHeader(cur, MessageFrom)
    /\ msg_len_captured = MsgLen(sub_reg)
    /\ sub_parse_offset = (msg_len_captured - msg_bytes_remaining) % OFFSET_MOD

(* What is announced as fresh is one message of the frame, all of it in    *)
(* the frame, of the length its variant asks for and with the fields of    *)
(* that variant.                                                           *)
MessagePublished ==
  itch_fields_fresh =>
    \E n \in 1 .. Count : \E at \in Starts(cur, n) :
      /\ BodyOf(cur, at[n]) <= cur.len /\ NextStart(cur, at[n]) <= cur.len
      /\ IsMessage(cur, BodyOf(cur, at[n]), MsgLen(SubHeader(cur, at[n])))
      /\ OutputsOf(itch_reg) = MessageAt(cur, BodyOf(cur, at[n]))

------------------------------------------------------------------------------
(* Of the message in hand the registers hold the bytes read of it that     *)
(* its variant has fields for, unless it is so long that the offset has    *)
(* wrapped.                                                                *)
Done == msg_len_captured - msg_bytes_remaining
PayloadInv ==
  state = "ST_MSG_BODY" =>
    /\ msg_len_captured = MsgLen(sub_reg)
    /\ sub_parse_offset = Done % OFFSET_MOD
    /\ Done < OFFSET_MOD => Hold(itch_reg, cur, BodyOf(cur, Start), Done)

IInv == HeadersInv /\ TypeOK /\ PayloadInv /\ MessagePublished
------------------------------------------------------------------------------
(* The parser and a consumer that takes the fields of the message whenever *)
(* itch_fields_fresh is high implement MessageReader.                      *)

VARIABLE sampled    \* the message the consumer took last

fieldsVars == <<vars, sampled>>

Current == IF itch_fields_fresh THEN OutputsOf(itch_reg) ELSE sampled
Sample  == sampled' = Current

FieldsInit == Init /\ sampled = NoMessage

FieldsNext ==
  \/ Present /\ UNCHANGED sampled
  \/ (Consume \/ IdleEdge) /\ Sample
  \/ Reset /\ sampled' = NoMessage

FieldsFairness ==
  /\ WF_fieldsVars(Present /\ UNCHANGED sampled)
  /\ WF_fieldsVars(Consume /\ Sample)

FieldsSpec == FieldsInit /\ [][FieldsNext]_fieldsVars /\ FieldsFairness

------------------------------------------------------------------------------
Reader == INSTANCE MessageReader WITH
  phase     <- Phase,
  frame     <- cur,
  cfg       <- cfg_reg,
  counts    <- drop_count,
  start     <- WalkStart,
  left      <- WalkLeft,
  malformed <- malformed_count,
  published <- Current

(* Whatever lanes messages start at, however long they say they are and in *)
(* whatever order their variants come, within a frame and from one to the  *)
(* next: each message is published once with the fields of its own variant *)
(* or not at all and counted, and the parser finds the next one.           *)
ImplementsReader == Reader!Spec
==============================================================================
