---------------------------- MODULE MessageHeaders ----------------------------
(***************************************************************************)
(* What the two modules the generator emits for a MultiMessageProtocol     *)
(* have in common: they capture the outer header of a frame, then byte by  *)
(* byte the sub-header of each message, and drain what they refuse.        *)
(*                                                                         *)
(* Input bytes wait in a scratchpad of two beats.  scratch is its first    *)
(* scratch_count_reg bytes; what lies behind them is never read before it  *)
(* is overwritten.                                                         *)
(***************************************************************************)
EXTENDS HeaderParser, MessagePlan, Sequences

VARIABLES
  state, sub_header_offset, msg_remaining, msg_bytes_remaining,
  scratch, scratch_last, sticky_tuser, malformed_count,
  sub_reg,          \* the sub-header field registers, byte by byte
  fields_fresh

messages  == <<msg_remaining, msg_bytes_remaining, sub_header_offset, sub_reg>>
scratches == <<scratch, scratch_last>>
outer     == <<beat_count, field_reg, drop_count>>
common    == <<state, messages, scratches, outer, sticky_tuser, malformed_count, cfg_reg,
               fields_fresh>>

State == {"ST_PARSE", "ST_MSG_HDR", "ST_MSG_BODY", "ST_DRAIN"}

(***************************************************************************)
(* The generator counts the beats of the outer header from TOTAL_LENGTH,   *)
(* and the last beat whose fields are bypassed, where it emits drop        *)
(* checks, from the fields.  Where the two differ the checks name wires    *)
(* that are not declared and the module does not compile.                  *)
(***************************************************************************)
OUTER_TAIL_START == ((TOTAL_LENGTH - 1) % KEEP_WIDTH) + 1
ASSUME OuterAssumption == PARSE_BEATS = (TOTAL_LENGTH + KEEP_WIDTH - 1) \div KEEP_WIDTH

------------------------------------------------------------------------------
(* Wires. *)

Empty      == scratch = << >>
InputBytes == [i \in 1 .. input_valid_bytes |-> s_axis_tdata[i - 1]]
NoInput    == s_axis_tlast /\ input_valid_bytes = 0

(* The scratchpad a sub-header byte is taken from. *)
Pad             == IF Empty THEN InputBytes ELSE scratch
(* Fault: the register, which describes the beat before, is read.          *)
StaleLast       == scratch_last
is_last_beat    == IF Empty THEN s_axis_tlast ELSE scratch_last
(* Fault: the last byte there is for now is taken for the frame's last.    *)
NoMoreBytes     == Len(Pad) = 1
is_last_byte    == Len(Pad) = 1 /\ is_last_beat
SubBypassed     == [o \in SubBytes |-> IF o = sub_header_offset THEN Head(Pad) ELSE sub_reg[o]]
(* Fault: the byte that completes the sub-header is not bypassed. *)
StaleLength     == MsgLen(sub_reg)
msg_len         == MsgLen(SubBypassed)

fields_valid == state # "ST_PARSE"

(* s_axis_tready where headers are read and refused frames drained. *)
HeadersReady == state \in {"ST_PARSE", "ST_DRAIN"} \/ (state = "ST_MSG_HDR" /\ Empty)

------------------------------------------------------------------------------
CommonInit ==
  /\ SourceInit
  /\ HeaderInit
  /\ state = "ST_PARSE"
  /\ sub_header_offset = 0
  /\ msg_remaining = 0
  /\ msg_bytes_remaining = 0
  /\ scratch = << >> /\ scratch_last = FALSE
  /\ sticky_tuser = FALSE
  /\ malformed_count = 0
  /\ sub_reg = [o \in SubBytes |-> 0]
  /\ fields_fresh = FALSE

CommonReset ==
  /\ SourceReset
  /\ HeaderReset
  /\ state' = "ST_PARSE"
  /\ sub_header_offset' = 0 /\ msg_remaining' = 0 /\ msg_bytes_remaining' = 0
  /\ scratch' = << >> /\ scratch_last' = FALSE
  /\ sticky_tuser' = FALSE
  /\ malformed_count' = 0
  /\ sub_reg' = [o \in SubBytes |-> 0]
  /\ fields_fresh' = FALSE

Accept == HeadersReady /\ Handshake

(* Fault: the counter is wider than its port. *)
MalformedFree == malformed_count' = malformed_count + 1 /\ sticky_tuser' = TRUE
(* A frame, or a message, that is not what it is announced as. *)
Malformed ==
  /\ malformed_count' = (malformed_count + 1) % COUNTER_MOD
  /\ sticky_tuser' = TRUE

(* Fault: the last beat decides alone. *)
MarkLast == sticky_tuser' = s_axis_tuser
Mark     == sticky_tuser' = (sticky_tuser \/ s_axis_tuser)

(* Fault: a frame is drained even if it has ended. *)
Draining(last)     == state' = "ST_DRAIN"
ParseOrDrain(last) == state' = IF last THEN "ST_PARSE" ELSE "ST_DRAIN"

------------------------------------------------------------------------------
(* ST_PARSE. *)

ParseBeat ==
  /\ state = "ST_PARSE"
  /\ Accept
  /\ ConfigEdge
  /\ field_reg' = Captured
  /\ UNCHANGED sub_reg

(* The first beat of a frame forgets the marks of the one before it. *)
ParseMark ==
  /\ sticky_tuser' = ((beat_count # 0 /\ sticky_tuser) \/ s_axis_tuser)
  /\ UNCHANGED malformed_count

ParseMore ==
  /\ ParseBeat
  /\ beat_count # PARSE_FINAL_BEAT
  /\ ~s_axis_tlast
  /\ ParseMark
  /\ beat_count' = beat_count + 1
  /\ fields_fresh' = FALSE
  /\ UNCHANGED <<state, messages, scratches, drop_count>>

(* The frame ends on a beat before the header's last one. *)
ParseShort ==
  /\ ParseBeat
  /\ beat_count # PARSE_FINAL_BEAT
  /\ s_axis_tlast
  /\ Malformed
  /\ beat_count' = 0
  /\ fields_fresh' = FALSE
  /\ UNCHANGED <<state, messages, scratches, drop_count>>

FinalBeat ==
  /\ ParseBeat
  /\ beat_count = PARSE_FINAL_BEAT
  /\ beat_count' = 0

FinalShort ==
  /\ FinalBeat
  /\ input_valid_bytes < OUTER_TAIL_START
  /\ Malformed
  /\ scratch' = << >> /\ scratch_last' = FALSE
  /\ fields_fresh' = FALSE
  /\ UNCHANGED <<state, messages, drop_count>>

HeaderComplete ==
  /\ FinalBeat
  /\ input_valid_bytes >= OUTER_TAIL_START
  /\ ParseMark
  /\ fields_fresh' = TRUE

FinalDrop ==
  /\ HeaderComplete
  /\ drops_now # {}
  /\ CountDrops
  /\ scratch' = << >> /\ scratch_last' = FALSE
  /\ ParseOrDrain(s_axis_tlast)
  /\ UNCHANGED messages

(* The bytes behind the header on its last beat are the first to be read. *)
FinalAccept ==
  /\ HeaderComplete
  /\ drops_now = {}
  /\ msg_remaining' = MsgCount(Bypassed)
  /\ sub_header_offset' = 0
  /\ scratch' = SubSeq(InputBytes, OUTER_TAIL_START + 1, input_valid_bytes)
  /\ scratch_last' = s_axis_tlast
  /\ IF MsgCount(Bypassed) = 0 THEN ParseOrDrain(s_axis_tlast) ELSE state' = "ST_MSG_HDR"
  /\ UNCHANGED <<msg_bytes_remaining, drop_count>>

------------------------------------------------------------------------------
(* Every edge but those of ST_PARSE. *)

Later ==
  /\ ConfigEdge
  /\ fields_fresh' = FALSE
  /\ UNCHANGED outer

(* A byte is consumed, from the scratchpad or straight from the input. *)
TakeByte ==
  /\ \/ Empty /\ ~NoInput /\ Handshake
     \/ ~Empty /\ UNCHANGED <<source, cur>>
  /\ Later
  /\ scratch_last' = is_last_beat
MarkByte == IF Empty THEN Mark ELSE UNCHANGED sticky_tuser

------------------------------------------------------------------------------
(* ST_MSG_HDR. *)

(* The frame ends, with an empty beat, where a sub-header byte should be. *)
Terminator ==
  /\ state = "ST_MSG_HDR"
  /\ Empty /\ NoInput
  /\ Accept
  /\ Later
  /\ Malformed
  /\ state' = "ST_PARSE"
  /\ UNCHANGED <<messages, scratches>>

SubHeaderByte ==
  /\ state = "ST_MSG_HDR"
  /\ TakeByte
  /\ sub_reg' = SubBypassed

SubHeaderMore ==
  /\ SubHeaderByte
  /\ sub_header_offset # SUB_HEADER_BYTES - 1
  /\ ~is_last_byte
  /\ sub_header_offset' = sub_header_offset + 1
  /\ scratch' = Tail(Pad)
  /\ MarkByte
  /\ UNCHANGED <<state, msg_remaining, msg_bytes_remaining, malformed_count>>

SubHeaderShort ==
  /\ SubHeaderByte
  /\ sub_header_offset # SUB_HEADER_BYTES - 1
  /\ is_last_byte
  /\ Malformed
  /\ sub_header_offset' = 0
  /\ scratch' = << >>
  /\ state' = "ST_PARSE"
  /\ UNCHANGED <<msg_remaining, msg_bytes_remaining>>

SubHeaderComplete ==
  /\ SubHeaderByte
  /\ sub_header_offset = SUB_HEADER_BYTES - 1
  /\ sub_header_offset' = 0
  /\ UNCHANGED msg_remaining

ZeroLength ==
  /\ SubHeaderComplete
  /\ msg_len = 0
  /\ Malformed
  /\ scratch' = << >>
  /\ ParseOrDrain(is_last_beat)
  /\ UNCHANGED msg_bytes_remaining

BeginBody ==
  /\ SubHeaderComplete
  /\ msg_len # 0
  /\ msg_bytes_remaining' = msg_len
  /\ scratch' = Tail(Pad)
  /\ MarkByte
  /\ state' = "ST_MSG_BODY"
  /\ UNCHANGED malformed_count

------------------------------------------------------------------------------
(* ST_DRAIN, and an edge at which nothing is handed over. *)

Drain ==
  /\ state = "ST_DRAIN"
  /\ Accept
  /\ Later
  /\ Mark
  /\ IF s_axis_tlast
     THEN /\ state' = "ST_PARSE"
          /\ scratch' = << >> /\ scratch_last' = FALSE
          /\ sub_header_offset' = 0 /\ msg_remaining' = 0 /\ msg_bytes_remaining' = 0
     ELSE UNCHANGED <<state, scratches, sub_header_offset, msg_remaining, msg_bytes_remaining>>
  /\ UNCHANGED <<malformed_count, sub_reg>>

CommonIdle ==
  /\ Later
  /\ UNCHANGED <<state, messages, scratches, sticky_tuser, malformed_count, source, cur>>

ParseEdge == ParseMore \/ ParseShort \/ FinalShort \/ FinalDrop \/ FinalAccept

------------------------------------------------------------------------------
(* Where the parser is in the frame whose beats it reads: how many of the  *)
(* frame's bytes it has accepted, how many of them it has consumed, and    *)
(* where the body it sends and the sub-header before that begin.           *)
Accepted    == IF pos > 0 THEN pos ELSE cur.len
Consumed    == Accepted - Len(scratch)
BodyEnd     == Consumed + msg_bytes_remaining
MessageFrom == BodyEnd - MsgLen(sub_reg) - SUB_HEADER_BYTES
InMessages  == state \in {"ST_MSG_HDR", "ST_MSG_BODY"}

CommonTypeOK ==
  /\ SourceTypeOK
  /\ HeaderTypeOK
  /\ state \in State
  /\ sub_header_offset \in SubOffsets
  /\ msg_remaining \in Nat
  /\ msg_bytes_remaining \in Nat
  /\ scratch \in Seq(Byte) /\ Len(scratch) <= 2 * KEEP_WIDTH - 1
  /\ scratch_last \in BOOLEAN
  /\ sticky_tuser \in BOOLEAN
  /\ malformed_count \in 0 .. COUNTER_MOD - 1
  /\ sub_reg \in [SubBytes -> Byte]
  /\ fields_fresh \in BOOLEAN

(* The parser and the source agree on where frames end: the parser expects *)
(* an outer header exactly when a frame starts, and while it waits for     *)
(* bytes of a message or drains, the frame those bytes are in goes on.     *)
Framing ==
  /\ state = "ST_PARSE" => pos = beat_count * KEEP_WIDTH
  /\ InMessages /\ Empty => pos > 0
  /\ state = "ST_DRAIN" => pos > 0

(* Appending to the scratchpad and taking bytes from its front, one or a   *)
(* beat at a time, never loses, repeats or reorders a byte: it holds the   *)
(* bytes of the frame between those consumed and those accepted, and it    *)
(* knows whether they are the frame's last.                                *)
ScratchIntact ==
  InMessages =>
    /\ Consumed >= TOTAL_LENGTH
    /\ scratch = [i \in 1 .. Len(scratch) |-> cur.data[Consumed + i - 1]]
    /\ scratch_last = (pos = 0)

(* While the outer fields are announced they are the header of the frame   *)
(* whose bytes are being read, over all its messages.                      *)
FieldsCoherent ==
  fields_valid \/ fields_fresh => \A p \in HeaderBytes : field_reg[p] = cur.data[p]

------------------------------------------------------------------------------
(* What holds between any two steps and makes these true: what the outer   *)
(* registers, the sub-header registers and the counters of messages and    *)
(* bytes hold, state by state, if no frame ends unnoticed.                 *)

Count == MsgCount(HeaderOf(cur))
Start == IF state = "ST_MSG_HDR" THEN Consumed - sub_header_offset ELSE MessageFrom

(* Every field byte up to pos is captured, and no beat is half parsed      *)
(* outside ST_PARSE.                                                       *)
ParseInv ==
  IF state = "ST_PARSE" THEN \A p \in HeaderBytes : p < pos => field_reg[p] = src.data[p]
                        ELSE beat_count = 0

(* The message in hand is one of the frame's, with msg_remaining to come.  *)
(* If the frame is over its last beat was not an empty one.                *)
WalkInv ==
  InMessages =>
    /\ \E n \in 1 .. Count : msg_remaining = Count - n + 1 /\ \E at \in Starts(cur, n) : at[n] = Start
    /\ pos = 0 => cur.len + KEEP_WIDTH # cur.end

SubHeaderInv ==
  state = "ST_MSG_HDR" =>
    \A o \in SubBytes : o < sub_header_offset => sub_reg[o] = cur.data[Start + o]

BodyInv ==
  state = "ST_MSG_BODY" =>
    /\ sub_header_offset = 0
    /\ sub_reg = SubHeader(cur, Start)
    /\ msg_bytes_remaining \in 1 .. MsgLen(sub_reg)

HeadersInv ==
  /\ SourceInv /\ CommonTypeOK
  /\ Framing /\ ScratchIntact /\ FieldsCoherent
  /\ ParseInv /\ WalkInv /\ SubHeaderInv /\ BodyInv
------------------------------------------------------------------------------
(* What the parsers promise: they walk over the messages of a frame.       *)

Phase ==
  CASE state = "ST_PARSE" -> IF pos = 0 THEN "idle" ELSE "header"
    [] state = "ST_DRAIN" -> "discard"
    [] OTHER              -> "messages"
WalkStart == IF InMessages THEN Start ELSE 0
WalkLeft  == IF InMessages THEN msg_remaining ELSE 0

Walk == INSTANCE MessageWalk WITH
  phase     <- Phase,
  frame     <- cur,
  cfg       <- cfg_reg,
  counts    <- drop_count,
  start     <- WalkStart,
  left      <- WalkLeft,
  malformed <- malformed_count
==============================================================================
