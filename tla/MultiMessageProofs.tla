--------------------------- MODULE MultiMessageProofs ---------------------------
(***************************************************************************)
(* Proofs, for every bus width, definition of messages and set of frames   *)
(* that meets the assumptions and of which none ends where the parser does *)
(* not look, that IInv is an invariant of MultiMessageParser and that its  *)
(* safety properties follow from it; and, if none ends with an output      *)
(* frame left open either, that FramesInv is one of MultiMessageFrames and *)
(* that parser and sink refine MessageSplitter.                            *)
(***************************************************************************)
EXTENDS MultiMessageFrames, MessageHeadersProofs

(* ST_MSG_BODY. *)

LEMMA KeepsLoad ==
  ASSUME HeadersInv, Load
  PROVE  HeadersInv'
<1>1. /\ state = "ST_MSG_BODY" /\ Later /\ s_axis_tready /\ Handshake
      /\ sub_header_offset' = sub_header_offset /\ sub_reg' = sub_reg
      /\ scratch' = scratch \o InputBytes /\ scratch_last' = s_axis_tlast
      /\ IF NoInput
         THEN Malformed /\ msg_bytes_remaining' = 0 /\ msg_remaining' = 0 /\ state' = "ST_PARSE"
         ELSE Mark /\ UNCHANGED <<malformed_count, msg_bytes_remaining, msg_remaining, state>>
  BY DEF Load, BodyEdge
<1>2. /\ InMessages /\ SUB_HEADER_BYTES \in Nat \ {0} /\ sub_header_offset = 0
      /\ MsgLen(sub_reg) \in Nat /\ msg_bytes_remaining \in 1 .. MsgLen(sub_reg)
      /\ sub_reg = SubHeader(cur, Start)
      /\ Start = (Consumed + msg_bytes_remaining) - MsgLen(sub_reg) - SUB_HEADER_BYTES
  BY <1>1, InBody
<1>3. /\ SourceInv /\ pos \in Nat /\ KEEP_WIDTH \in Nat \ {0}
      /\ cur \in Frames /\ cur.len \in Nat /\ \A p \in 0 .. cur.len - 1 : cur.data[p] \in Byte
      /\ scratch \in Seq(Byte) /\ Len(scratch) \in Nat /\ (Empty <=> Len(scratch) = 0)
      /\ Consumed \in Nat /\ Consumed >= TOTAL_LENGTH /\ Accepted = Consumed + Len(scratch)
      /\ scratch = Slice(cur, Consumed, Len(scratch)) /\ scratch_last = (pos = 0)
      /\ Empty => pos > 0
  BY <1>2, Held
<1>4. pos > 0 /\ Len(scratch) < KEEP_WIDTH
  <2>1. Empty \/ body_needs_input
    BY <1>1 DEF s_axis_tready, HeadersReady
  <2>2. CASE Empty
    BY <1>3, <2>2
  <2>3. CASE body_needs_input
    <3>1. ~scratch_last /\ Len(scratch) < KEEP_WIDTH
      BY <2>3 DEF body_needs_input
    <3>2. pos # 0
      BY <1>3, <3>1
    <3> QED
      BY <1>3, <3>1, <3>2
  <2> QED
    BY <2>1, <2>2, <2>3
<1>5. cur = src /\ Accepted = pos
  BY <1>3, <1>4 DEF SourceInv, Accepted
<1>6. /\ SourceInv' /\ cur' = cur
      /\ pos' \in Nat /\ (pos' = 0 <=> s_axis_tlast)
      /\ input_valid_bytes = Valid /\ Valid \in 0 .. KEEP_WIDTH
      /\ Accepted' = pos + Valid /\ pos + Valid <= cur.len
      /\ (s_axis_tlast /\ Valid # 0 => cur.len + KEEP_WIDTH # cur.end)
      /\ (~s_axis_tlast => Valid = KEEP_WIDTH)
  BY <1>1, <1>3, <1>5, Taken
<1>7. /\ beat_count' = 0 /\ HeaderHeld' /\ fields_fresh' = FALSE
      /\ field_reg' \in [HeaderBytes -> Byte] /\ cfg_reg' \in ConfigValues \cup {CONFIG_DEFAULT}
      /\ drop_count' \in [DropConditions -> 0 .. COUNTER_MOD - 1]
      /\ Count' = Count
  BY <1>1, <1>6, Stays
<1>8. PICK n \in Nat : n = Len(scratch)
  BY <1>3
<1>9. PICK v \in Nat : v = Valid
  BY <1>3, <1>6
<1>10. PICK c \in Nat : c = Consumed
  BY <1>3
<1>11. scratch' = Slice(cur, c, n + v) /\ Len(scratch') = n + v /\ scratch' \in Seq(Byte)
  <2>0. c + n + v <= cur.len /\ cur.len \in Nat
    <3>1. Accepted = Consumed + Len(scratch) /\ Accepted = pos /\ pos + Valid <= cur.len /\ cur.len \in Nat
      BY <1>3, <1>4, <1>5, <1>6
    <3> QED
      BY <3>1, <1>8, <1>9, <1>10
  <2>1. \A p \in c .. c + n + v - 1 : cur.data[p] \in Byte
    <3>1. ASSUME NEW p \in c .. c + n + v - 1 PROVE p \in 0 .. cur.len - 1
      BY <2>0
    <3>2. \A p \in 0 .. cur.len - 1 : cur.data[p] \in Byte
      BY <1>3
    <3> QED
      BY <3>1, <3>2
  <2>2. InputBytes = Slice(cur, c + n, v)
    BY <1>3, <1>5, <1>8, <1>9, <1>10, Inputs
  <2>3. Slice(cur, c, n) \o Slice(cur, c + n, v) = Slice(cur, c, n + v)
    BY <2>1, SlicesJoin
  <2>4. scratch' = Slice(cur, c, n + v)
    BY <1>1, <1>3, <1>8, <1>10, <2>2, <2>3
  <2>5. n + v \in Nat /\ \A p \in c .. c + (n + v) - 1 : cur.data[p] \in Byte
    BY <2>1
  <2>6. Slice(cur, c, n + v) \in Seq(Byte) /\ Len(Slice(cur, c, n + v)) = n + v
    BY <2>5, SliceType
  <2> QED
    BY <2>4, <2>6
<1>12. ScratchOK'
  <2>1. n + v <= 2 * KEEP_WIDTH - 1
    BY <1>3, <1>4, <1>6, <1>8, <1>9
  <2> QED
    BY <1>1, <1>11, <2>1 DEF ScratchOK, s_axis_tlast
<1>13. CASE NoInput
  <2>1. s_axis_tlast
    BY <1>13 DEF NoInput
  <2>2. Malformed /\ msg_bytes_remaining' = 0 /\ msg_remaining' = 0 /\ state' = "ST_PARSE"
    BY <1>1, <1>13
  <2>3. malformed_count' \in 0 .. COUNTER_MOD - 1 /\ sticky_tuser' = TRUE
    BY <2>2, Counters, IsTyped DEF Malformed
  <2>4. RegistersOK'
    BY <1>1, <1>7, <2>2, <2>3, IsTyped DEF RegistersOK
  <2> QED
    BY <1>6, <1>7, <1>12, <2>1, <2>2, <2>4, BetweenFrames
<1>14. CASE ~NoInput
  <2>1. Mark /\ UNCHANGED <<malformed_count, msg_bytes_remaining, msg_remaining, state>>
    BY <1>1, <1>14
  <2>2. Valid # 0
    BY <1>3, <1>6, <1>14 DEF NoInput
  <2>3. sticky_tuser' \in BOOLEAN
    BY <2>1 DEF Mark
  <2>4. RegistersOK'
    BY <1>1, <1>7, <2>1, <2>3, IsTyped DEF RegistersOK
  <2>5. Consumed' = c
    <3>1. Consumed' = Accepted' - Len(scratch')
      BY DEF Consumed
    <3> QED
      BY <1>3, <1>5, <1>6, <1>8, <1>9, <1>10, <1>11, <3>1
  <2>6. InFrame(c)'
    <3>1. Len(scratch') # 0
      BY <1>9, <1>11, <2>2
    <3>2. scratch' = Slice(cur', c, Len(scratch'))
      BY <1>6, <1>11
    <3>3. scratch_last' = (pos' = 0)
      BY <1>1, <1>6 DEF s_axis_tlast
    <3> QED
      BY <1>3, <1>6, <1>10, <2>2, <2>5, <3>1, <3>2, <3>3 DEF InFrame
  <2>7. PICK start : start = Start
    OBVIOUS
  <2>8. Start' = start
    <3>1. Start' = (Consumed' + msg_bytes_remaining') - MsgLen(sub_reg)' - SUB_HEADER_BYTES
      BY <1>1, <2>1 DEF Start, MessageFrom, BodyEnd
    <3>2. MsgLen(sub_reg)' = MsgLen(sub_reg)
      BY <1>1
    <3> QED
      BY <1>2, <1>10, <2>1, <2>5, <2>7, <3>1, <3>2
  <2>9. OnMessage(start)'
    <3>1. \E k \in 1 .. Count : msg_remaining = Count - k + 1 /\ \E at \in Starts(cur, k) : at[k] = start
      BY <1>2, <2>7, OnIt
    <3> QED
      BY <1>6, <1>7, <2>1, <2>8, <3>1 DEF OnMessage
  <2>10. SubHeaderInv' /\ BodyInv'
    <3>1. sub_reg' = SubHeader(cur', start) /\ MsgLen(sub_reg)' = MsgLen(sub_reg)
      BY <1>1, <1>2, <1>6, <2>7
    <3> QED
      BY <1>1, <1>2, <2>1, <2>8, <3>1 DEF SubHeaderInv, BodyInv
  <2> QED
    BY <1>1, <1>6, <1>7, <1>12, <2>1, <2>4, <2>6, <2>9, <2>10, AmongMessages
<1> QED
  BY <1>13, <1>14

(* The bytes of a beat on m_axis: as many as there are and as fit. *)
LEMMA OutBytes ==
  ASSUME HeadersInv, state = "ST_MSG_BODY"
  PROVE  /\ body_out_bytes \in Nat /\ body_out_bytes <= msg_bytes_remaining
         /\ body_out_bytes <= Len(scratch) /\ body_out_bytes <= KEEP_WIDTH
         /\ body_out_bytes \in {msg_bytes_remaining, Len(scratch), KEEP_WIDTH}
<1>1. msg_bytes_remaining \in Nat /\ Len(scratch) \in Nat /\ KEEP_WIDTH \in Nat
  BY Held, InBody
<1>2. ASSUME NEW a \in Nat, NEW b \in Nat, NEW c \in Nat
      PROVE  /\ Min({a, b, c}) \in {a, b, c}
             /\ Min({a, b, c}) <= a /\ Min({a, b, c}) <= b /\ Min({a, b, c}) <= c
  <2>1. \E x \in {a, b, c} : \A y \in {a, b, c} : x <= y
    OBVIOUS
  <2>2. Min({a, b, c}) = CHOOSE x \in {a, b, c} : \A y \in {a, b, c} : x <= y
    BY DEF Min
  <2>3. Min({a, b, c}) \in {a, b, c} /\ \A y \in {a, b, c} : Min({a, b, c}) <= y
    BY <2>1, <2>2
  <2> QED
    BY <2>3
<1>3. body_out_bytes = Min({msg_bytes_remaining, Len(scratch), KEEP_WIDTH})
  BY DEF body_out_bytes
<1>4. /\ body_out_bytes \in {msg_bytes_remaining, Len(scratch), KEEP_WIDTH}
      /\ body_out_bytes <= msg_bytes_remaining /\ body_out_bytes <= Len(scratch) /\ body_out_bytes <= KEEP_WIDTH
  BY <1>1, <1>2, <1>3
<1> QED
  BY <1>1, <1>4

(* What a beat on m_axis leaves in the scratchpad. *)
LEMMA Sending ==
  ASSUME HeadersInv, BodyOut
  PROVE  /\ state = "ST_MSG_BODY" /\ Later
         /\ sub_header_offset' = sub_header_offset /\ sub_reg' = sub_reg /\ scratch_last' = scratch_last
         /\ SourceInv' /\ pos' = pos /\ cur' = cur /\ Accepted' = Accepted
         /\ Rest = Slice(cur, Consumed + body_out_bytes, Len(scratch) - body_out_bytes)
         /\ Rest \in Seq(Byte) /\ Len(Rest) = Len(scratch) - body_out_bytes
         /\ (Rest = << >> <=> Len(Rest) = 0) /\ Len(Rest) <= 2 * KEEP_WIDTH - 1
         /\ scratch_last = (pos = 0) /\ scratch_last \in BOOLEAN
<1>1. /\ state = "ST_MSG_BODY" /\ Later
      /\ sub_header_offset' = sub_header_offset /\ sub_reg' = sub_reg
      /\ UNCHANGED <<source, cur, scratch_last>>
  BY DEF BodyOut, BodyEdge
<1>2. InMessages
  BY <1>1, InBody
<1>3. /\ SourceInv /\ cur \in Frames /\ cur.len \in Nat /\ \A p \in 0 .. cur.len - 1 : cur.data[p] \in Byte
      /\ Accepted <= cur.len
      /\ scratch \in Seq(Byte) /\ Len(scratch) \in Nat /\ KEEP_WIDTH \in Nat
      /\ Consumed \in Nat /\ Accepted = Consumed + Len(scratch)
      /\ scratch = Slice(cur, Consumed, Len(scratch)) /\ scratch_last = (pos = 0)
  BY <1>2, Held
<1>4. SourceInv' /\ pos' = pos /\ cur' = cur /\ Accepted' = Accepted
  BY <1>1, <1>3 DEF SourceInv, SourceTypeOK, source, Accepted
<1>5. body_out_bytes \in Nat /\ body_out_bytes <= Len(scratch)
  BY <1>1, OutBytes
<1>6. PICK n \in Nat : n = Len(scratch)
  BY <1>3
<1>7. PICK c \in Nat : c = Consumed
  BY <1>3
<1>8. PICK k \in 0 .. n : k = body_out_bytes
  BY <1>5, <1>6
<1>9. \A p \in c .. c + n - 1 : cur.data[p] \in Byte
  BY <1>3, <1>6, <1>7
<1>10. Rest = Slice(cur, c + k, n - k)
  <2>1. SubSeq(Slice(cur, c, n), k + 1, n) = Slice(cur, c + k, n - k)
    BY <1>9, SliceRest
  <2> QED
    BY <1>3, <1>6, <1>7, <1>8, <2>1 DEF Rest
<1>11. Rest \in Seq(Byte) /\ Len(Rest) = n - k
  <2>1. c + k \in Nat /\ n - k \in Nat /\ \A p \in c + k .. (c + k) + (n - k) - 1 : cur.data[p] \in Byte
    BY <1>9
  <2>2. Slice(cur, c + k, n - k) \in Seq(Byte) /\ Len(Slice(cur, c + k, n - k)) = n - k
    BY <2>1, SliceType
  <2> QED
    BY <1>10, <2>2
<1>12. Rest = << >> <=> Len(Rest) = 0
  BY <1>11, EmptySeq
<1>13. Len(Rest) <= 2 * KEEP_WIDTH - 1
  <2>1. Len(scratch) <= 2 * KEEP_WIDTH - 1
    BY IsTyped DEF ScratchOK
  <2> QED
    BY <1>3, <1>6, <1>8, <1>11, <2>1
<1>14. scratch_last \in BOOLEAN
  BY IsTyped DEF ScratchOK
<1> QED
  BY <1>1, <1>3, <1>4, <1>6, <1>7, <1>8, <1>10, <1>11, <1>12, <1>13, <1>14

(* The body, or the frame, ends with this beat and no message follows.     *)
LEMMA KeepsBodyEnds ==
  ASSUME HeadersInv, BodyTruncated \/ LastMessage \/ ExtraBytes \/ MissingMessages
  PROVE  HeadersInv'
<1>1. /\ BodyOut /\ msg_bytes_remaining' = 0 /\ msg_remaining' = 0
      /\ Malformed \/ UNCHANGED <<malformed_count, sticky_tuser>>
      /\ scratch' = << >>
  BY DEF BodyTruncated, LastMessage, ExtraBytes, MissingMessages, BodyComplete
<1>2. /\ state = "ST_MSG_BODY" /\ Later
      /\ sub_header_offset' = sub_header_offset /\ sub_reg' = sub_reg /\ scratch_last' = scratch_last
      /\ SourceInv' /\ pos' = pos /\ cur' = cur
      /\ scratch_last = (pos = 0) /\ scratch_last \in BOOLEAN
  BY <1>1, Sending
<1>3. /\ beat_count' = 0 /\ HeaderHeld' /\ fields_fresh' = FALSE
      /\ field_reg' \in [HeaderBytes -> Byte] /\ cfg_reg' \in ConfigValues \cup {CONFIG_DEFAULT}
      /\ drop_count' \in [DropConditions -> 0 .. COUNTER_MOD - 1]
  BY <1>2, Stays
<1>4. malformed_count' \in 0 .. COUNTER_MOD - 1 /\ sticky_tuser' \in BOOLEAN
  <2>1. CASE Malformed
    BY <2>1, Counters, IsTyped DEF Malformed
  <2>2. CASE UNCHANGED <<malformed_count, sticky_tuser>>
    BY <2>2, IsTyped DEF RegistersOK
  <2> QED
    BY <1>1, <2>1, <2>2
<1>5. RegistersOK'
  BY <1>1, <1>2, <1>3, <1>4, IsTyped DEF RegistersOK
<1>6. ScratchOK'
  <2>1. << >> \in Seq(Byte) /\ Len(<< >>) <= 2 * KEEP_WIDTH - 1
    BY Layout
  <2> QED
    BY <1>1, <1>2, <2>1 DEF ScratchOK
<1>7. CASE scratch_last /\ state' = "ST_PARSE"
  <2>1. pos' = 0
    BY <1>2, <1>7
  <2> QED
    BY <1>2, <1>3, <1>5, <1>6, <1>7, <2>1, BetweenFrames
<1>8. CASE ~scratch_last /\ state' = "ST_DRAIN"
  <2>1. pos' # 0
    BY <1>2, <1>8
  <2> QED
    BY <1>2, <1>3, <1>5, <1>6, <1>8, <2>1, RestDrained
<1>9. (scratch_last /\ state' = "ST_PARSE") \/ (~scratch_last /\ state' = "ST_DRAIN")
  <2>1. CASE BodyTruncated
    BY <2>1 DEF BodyTruncated, body_truncated
  <2>2. CASE LastMessage \/ MissingMessages
    BY <2>2 DEF LastMessage, MissingMessages
  <2>3. CASE ExtraBytes
    BY <2>3 DEF ExtraBytes, ParseOrDrain
  <2> QED
    BY <2>1, <2>2, <2>3
<1> QED
  BY <1>7, <1>8, <1>9

(* What follows a beat of a body where the frame goes on. *)
LEMMA BodyGoesOn ==
  ASSUME HeadersInv, BodyMore \/ NextMessage
  PROVE  /\ SourceInv' /\ RegistersOK' /\ ScratchOK' /\ cur' = cur
         /\ beat_count' = 0 /\ HeaderHeld' /\ Count' = Count /\ sub_reg' = sub_reg
         /\ sub_header_offset' = 0
         /\ \E c \in Nat : c = Consumed + body_out_bytes /\ InFrame(c)'
<1>1. /\ BodyOut /\ ~body_truncated /\ scratch' = Rest
      /\ UNCHANGED <<malformed_count, sticky_tuser>>
  BY DEF BodyMore, NextMessage, BodyComplete
<1>2. /\ state = "ST_MSG_BODY" /\ Later
      /\ sub_header_offset' = sub_header_offset /\ sub_reg' = sub_reg /\ scratch_last' = scratch_last
      /\ SourceInv' /\ pos' = pos /\ cur' = cur /\ Accepted' = Accepted
      /\ Rest = Slice(cur, Consumed + body_out_bytes, Len(scratch) - body_out_bytes)
      /\ Rest \in Seq(Byte) /\ Len(Rest) = Len(scratch) - body_out_bytes
      /\ (Rest = << >> <=> Len(Rest) = 0) /\ Len(Rest) <= 2 * KEEP_WIDTH - 1
      /\ scratch_last = (pos = 0) /\ scratch_last \in BOOLEAN
  BY <1>1, Sending
<1>3. /\ InMessages /\ sub_header_offset = 0 /\ msg_bytes_remaining \in Nat
  BY <1>2, InBody
<1>4. /\ Len(scratch) \in Nat /\ KEEP_WIDTH \in Nat
      /\ Consumed \in Nat /\ Consumed >= TOTAL_LENGTH /\ Accepted = Consumed + Len(scratch)
  BY <1>3, Held
<1>5. body_out_bytes \in Nat /\ body_out_bytes <= msg_bytes_remaining /\ body_out_bytes <= Len(scratch)
  BY <1>2, OutBytes
<1>6. /\ beat_count' = 0 /\ HeaderHeld' /\ fields_fresh' = FALSE
      /\ field_reg' \in [HeaderBytes -> Byte] /\ cfg_reg' \in ConfigValues \cup {CONFIG_DEFAULT}
      /\ drop_count' \in [DropConditions -> 0 .. COUNTER_MOD - 1]
      /\ Count' = Count
  BY <1>2, Stays
<1>7. RegistersOK'
  <2>1. msg_bytes_remaining' \in Nat /\ msg_remaining' \in Nat
    <3>1. CASE BodyMore
      BY <1>3, <1>5, <3>1, IsTyped DEF BodyMore, RegistersOK
    <3>2. CASE NextMessage
      BY <3>2, IsTyped DEF NextMessage, BodyComplete, RegistersOK
    <3> QED
      BY <3>1, <3>2
  <2> QED
    BY <1>1, <1>2, <1>6, <2>1, IsTyped DEF RegistersOK
<1>8. ScratchOK'
  BY <1>1, <1>2 DEF ScratchOK
<1>9. Len(scratch') = 0 => pos' # 0
  <2>1. SUFFICES ASSUME Len(scratch') = 0, pos' = 0 PROVE FALSE
    OBVIOUS
  <2>2. Rest = << >> /\ scratch_last /\ Len(scratch) = body_out_bytes
    <3>1. pos = 0
      BY <1>2, <2>1
    <3>2. scratch_last
      BY <1>2, <3>1
    <3>3. Len(Rest) = 0
      BY <1>1, <2>1
    <3>4. Len(scratch) = body_out_bytes
      <4>1. Len(scratch) - body_out_bytes = 0
        BY <1>2, <3>3
      <4> QED
        BY <1>4, <1>5, <4>1
    <3> QED
      BY <1>2, <3>2, <3>3, <3>4
  <2>3. CASE BodyMore
    <3>1. ~(msg_bytes_remaining <= body_out_bytes) /\ ~Empty
      BY <2>3 DEF BodyMore, BodyOut, m_axis_tvalid, body_completes
    <3>2. msg_bytes_remaining > Len(scratch)
      BY <1>3, <1>5, <2>2, <3>1
    <3>3. body_truncated
      BY <1>2, <2>2, <3>1, <3>2 DEF body_truncated
    <3> QED
      BY <1>1, <3>3
  <2>4. CASE NextMessage
    BY <2>2, <2>4 DEF NextMessage
  <2> QED
    BY <2>3, <2>4
<1>10. PICK c \in Nat : c = Consumed + body_out_bytes
  BY <1>4, <1>5
<1>11. Consumed' = c
  <2>1. Consumed' = Accepted' - Len(scratch')
    BY DEF Consumed
  <2> QED
    BY <1>1, <1>2, <1>4, <1>5, <1>10, <2>1
<1>12. InFrame(c)'
  <2>1. scratch' = Slice(cur', c, Len(scratch')) /\ c >= TOTAL_LENGTH
    BY <1>1, <1>2, <1>4, <1>5, <1>10, Layout
  <2>2. scratch_last' = (pos' = 0)
    BY <1>2
  <2>3. pos = 0 => cur.len + KEEP_WIDTH # cur.end
    BY <1>3 DEF HeadersInv, WalkInv
  <2> QED
    BY <1>2, <1>9, <1>11, <2>1, <2>2, <2>3 DEF InFrame
<1> QED
  BY <1>2, <1>3, <1>6, <1>7, <1>8, <1>10, <1>12

LEMMA KeepsBodyMore ==
  ASSUME HeadersInv, BodyMore
  PROVE  HeadersInv'
<1>1. /\ BodyOut /\ ~body_completes /\ msg_bytes_remaining' = msg_bytes_remaining - body_out_bytes
      /\ UNCHANGED <<state, msg_remaining>>
  BY DEF BodyMore
<1>2. state = "ST_MSG_BODY"
  BY <1>1 DEF BodyOut, BodyEdge
<1>3. /\ SourceInv' /\ RegistersOK' /\ ScratchOK' /\ cur' = cur
      /\ beat_count' = 0 /\ HeaderHeld' /\ Count' = Count /\ sub_reg' = sub_reg
      /\ sub_header_offset' = 0
      /\ \E c \in Nat : c = Consumed + body_out_bytes /\ InFrame(c)'
  BY BodyGoesOn
<1>4. PICK c \in Nat : c = Consumed + body_out_bytes /\ InFrame(c)'
  BY <1>3
<1>5. PICK start : start = Start
  OBVIOUS
<1>6. /\ InMessages /\ SUB_HEADER_BYTES \in Nat \ {0}
      /\ MsgLen(sub_reg) \in Nat /\ msg_bytes_remaining \in 1 .. MsgLen(sub_reg) /\ msg_bytes_remaining \in Nat
      /\ sub_reg = SubHeader(cur, Start)
      /\ Start = (Consumed + msg_bytes_remaining) - MsgLen(sub_reg) - SUB_HEADER_BYTES
  BY <1>2, InBody
<1>7. body_out_bytes \in Nat /\ msg_bytes_remaining > body_out_bytes /\ Consumed \in Nat
  <2>1. body_out_bytes \in Nat /\ Consumed \in Nat
    BY <1>2, <1>6, OutBytes, Held
  <2> QED
    BY <1>1, <1>6, <2>1 DEF body_completes
<1>8. MsgLen(sub_reg)' = MsgLen(sub_reg)
  BY <1>3
<1>9. Start' = start
  <2>1. Start' = (Consumed' + msg_bytes_remaining') - MsgLen(sub_reg)' - SUB_HEADER_BYTES
    BY <1>1, <1>2 DEF Start, MessageFrom, BodyEnd
  <2>2. Consumed' = Consumed + body_out_bytes
    BY <1>4 DEF InFrame
  <2> QED
    BY <1>1, <1>5, <1>6, <1>7, <1>8, <2>1, <2>2
<1>10. OnMessage(start)'
  <2>1. \E k \in 1 .. Count : msg_remaining = Count - k + 1 /\ \E at \in Starts(cur, k) : at[k] = start
    BY <1>5, <1>6, OnIt
  <2> QED
    BY <1>1, <1>3, <1>9, <2>1 DEF OnMessage
<1>11. SubHeaderInv' /\ BodyInv'
  <2>1. msg_bytes_remaining' \in 1 .. MsgLen(sub_reg)'
    <3>1. msg_bytes_remaining - body_out_bytes \in 1 .. MsgLen(sub_reg)
      BY <1>6, <1>7
    <3>2. msg_bytes_remaining' \in 1 .. MsgLen(sub_reg)
      BY <1>1, <3>1
    <3> QED
      BY <1>8, <3>2
  <2>2. sub_reg' = SubHeader(cur', start)
    BY <1>3, <1>5, <1>6
  <2> QED
    BY <1>1, <1>2, <1>3, <1>9, <2>1, <2>2 DEF SubHeaderInv, BodyInv
<1> QED
  BY <1>1, <1>2, <1>3, <1>4, <1>10, <1>11, AmongMessages

(* The next message starts where the body of this one ends. *)
LEMMA KeepsNextMessage ==
  ASSUME HeadersInv, NextMessage
  PROVE  HeadersInv'
<1>1. /\ BodyOut /\ body_completes /\ msg_bytes_remaining' = 0 /\ msg_remaining > 1
      /\ msg_remaining' = msg_remaining - 1 /\ state' = "ST_MSG_HDR"
  BY DEF NextMessage, BodyComplete
<1>2. state = "ST_MSG_BODY"
  BY <1>1 DEF BodyOut, BodyEdge
<1>3. /\ SourceInv' /\ RegistersOK' /\ ScratchOK' /\ cur' = cur
      /\ beat_count' = 0 /\ HeaderHeld' /\ Count' = Count /\ sub_reg' = sub_reg
      /\ sub_header_offset' = 0
      /\ \E c \in Nat : c = Consumed + body_out_bytes /\ InFrame(c)'
  BY BodyGoesOn
<1>4. PICK c \in Nat : c = Consumed + body_out_bytes /\ InFrame(c)'
  BY <1>3
<1>5. /\ InMessages /\ SUB_HEADER_BYTES \in Nat \ {0}
      /\ MsgLen(sub_reg) \in Nat /\ msg_bytes_remaining \in Nat
      /\ sub_reg = SubHeader(cur, Start) /\ Start \in Nat
      /\ Start = (Consumed + msg_bytes_remaining) - MsgLen(sub_reg) - SUB_HEADER_BYTES
  BY <1>2, InBody
<1>6. /\ body_out_bytes = msg_bytes_remaining /\ Consumed \in Nat
      /\ c <= cur.len /\ c >= TOTAL_LENGTH /\ cur.len \in Nat
  <2>1. body_out_bytes \in Nat /\ body_out_bytes <= msg_bytes_remaining /\ body_out_bytes <= Len(scratch)
    BY <1>2, OutBytes
  <2>2. /\ Consumed \in Nat /\ Consumed >= TOTAL_LENGTH /\ Accepted = Consumed + Len(scratch)
        /\ Accepted <= cur.len /\ cur.len \in Nat /\ Len(scratch) \in Nat
    BY <1>5, Held
  <2> QED
    BY <1>1, <1>4, <1>5, <2>1, <2>2, Layout DEF body_completes
<1>7. \E n \in 1 .. Count : msg_remaining - 1 = Count - n + 1 /\ \E at \in Starts(cur, n) : at[n] = c
  <2>1. c \in TOTAL_LENGTH .. cur.len /\ c = BodyEnd
    BY <1>4, <1>6, Layout DEF BodyEnd
  <2> QED
    BY <1>1, <1>2, <2>1, Further
<1>8. Start' = c
  <2>1. Consumed' = c
    BY <1>4 DEF InFrame
  <2> QED
    BY <1>1, <1>3, <2>1 DEF Start
<1>9. OnMessage(c)'
  BY <1>1, <1>3, <1>7, <1>8 DEF OnMessage
<1>10. SubHeaderInv' /\ BodyInv'
  <2>1. \A o \in SubBytes : ~(o < sub_header_offset')
    BY <1>3, MessagePlanAssumption DEF SubOffsets
  <2> QED
    BY <1>1, <2>1 DEF SubHeaderInv, BodyInv
<1> QED
  BY <1>1, <1>3, <1>4, <1>9, <1>10, AmongMessages
------------------------------------------------------------------------------
(* The marks. *)

(* The marks on the beats read, with those of this beat. *)
LEMMA Marks ==
  ASSUME SourceInv, Valid # 0
  PROVE  (\E q \in src.user : q < pos + Valid) = ((\E q \in src.user : q < pos) \/ s_axis_tuser)
<1>1. /\ pos \in Nat /\ Valid \in 0 .. KEEP_WIDTH /\ KEEP_WIDTH \in Nat /\ src.end \in Nat
      /\ src.user \subseteq 0 .. src.end - 1
  BY Beat, KeepWidthAssumption
<1>2. ASSUME NEW q \in src.user, q < pos + Valid
      PROVE  q < pos \/ s_axis_tuser
  <2>1. q < pos + KEEP_WIDTH
    BY <1>1, <1>2
  <2> QED
    BY <2>1, BeatStart DEF s_axis_tuser
<1>3. \A q \in src.user : q < pos => q < pos + Valid
  BY <1>1
<1>4. s_axis_tuser => pos \in src.user /\ pos < pos + Valid
  BY <1>1 DEF s_axis_tuser
<1>5. s_axis_tuser \in BOOLEAN
  BY DEF s_axis_tuser
<1> QED
  BY <1>2, <1>3, <1>4, <1>5

------------------------------------------------------------------------------
(* What the invariant says of the bytes accepted and not consumed. *)

(* The marks since the header's first beat. *)
LEMMA HeaderMarks ==
  ASSUME HeadersInv, MarkInv, ParseBeat, ParseMark, Valid # 0
  PROVE  sticky_tuser' = (\E q \in cur'.user : q < Accepted')
<1>1. SourceInv /\ Handshake /\ state = "ST_PARSE" /\ pos = beat_count * KEEP_WIDTH /\ beat_count \in Nat
  BY Capture, Layout
<1>2. cur' = src /\ Accepted' = pos + Valid
  BY <1>1, Taken
<1>3. (\E q \in src.user : q < pos) = (beat_count # 0 /\ sticky_tuser)
  <2>1. CASE beat_count = 0
    <3>1. pos = 0
      BY <1>1, <2>1, Layout
    <3>2. \A q \in src.user : ~(q < 0)
      BY <1>1, Beat
    <3> QED
      BY <2>1, <3>1, <3>2
  <2>2. CASE beat_count # 0
    <3>1. pos > 0
      <4>1. PICK d \in Nat : beat_count = d + 1
        BY <1>1, <2>2
      <4>2. pos = d * KEEP_WIDTH + KEEP_WIDTH /\ d * KEEP_WIDTH \in Nat
        BY <1>1, <4>1, Layout
      <4> QED
        BY <4>2, Layout
    <3>2. sticky_tuser = (\E q \in cur.user : q < Accepted)
      BY <1>1, <3>1 DEF MarkInv
    <3>3. cur = src /\ Accepted = pos
      BY <1>1, <3>1 DEF SourceInv, Accepted
    <3> QED
      BY <2>2, <3>2, <3>3, IsTyped DEF RegistersOK
  <2> QED
    BY <2>1, <2>2
<1>4. (\E q \in src.user : q < pos + Valid) = ((\E q \in src.user : q < pos) \/ s_axis_tuser)
  BY <1>1, Marks
<1>5. sticky_tuser' = ((beat_count # 0 /\ sticky_tuser) \/ s_axis_tuser)
  BY DEF ParseMark
<1> QED
  BY <1>2, <1>3, <1>4, <1>5

(* A byte is taken, and the marks of its beat with it. *)
LEMMA ByteMarks ==
  ASSUME HeadersInv, MarkInv, InMessages, TakeByte, MarkByte
  PROVE  sticky_tuser' = (\E q \in cur'.user : q < Accepted')
<1>1. /\ SourceInv /\ sticky_tuser = (\E q \in cur.user : q < Accepted) /\ sticky_tuser \in BOOLEAN
      /\ KEEP_WIDTH \in Nat \ {0} /\ (Empty => cur = src /\ Accepted = pos)
  BY Held, IsTyped DEF MarkInv, RegistersOK
<1>2. CASE Empty
  <2>1. ~NoInput /\ Handshake /\ sticky_tuser' = (sticky_tuser \/ s_axis_tuser)
    BY <1>2 DEF TakeByte, MarkByte, Mark
  <2>2. cur' = src /\ Accepted' = pos + Valid /\ input_valid_bytes = Valid /\ (~s_axis_tlast => Valid = KEEP_WIDTH)
    BY <1>1, <2>1, Taken
  <2>3. Valid # 0
    BY <1>1, <2>1, <2>2 DEF NoInput
  <2>4. (\E q \in src.user : q < pos + Valid) = ((\E q \in src.user : q < pos) \/ s_axis_tuser)
    BY <1>1, <2>3, Marks
  <2> QED
    BY <1>1, <1>2, <2>1, <2>2, <2>4
<1>3. CASE ~Empty
  <2>1. UNCHANGED <<source, cur, sticky_tuser>>
    BY <1>3 DEF TakeByte, MarkByte
  <2>2. Accepted' = Accepted
    BY <2>1 DEF source, Accepted
  <2> QED
    BY <1>1, <2>1, <2>2
<1> QED
  BY <1>2, <1>3

(* Input is loaded, and the marks of the beat with it. *)
LEMMA LoadMarks ==
  ASSUME HeadersInv, MarkInv, Load, ~NoInput
  PROVE  sticky_tuser' = (\E q \in cur'.user : q < Accepted')
<1>1. /\ state = "ST_MSG_BODY" /\ s_axis_tready /\ Handshake /\ Mark
  BY DEF Load, BodyEdge
<1>2. InMessages
  BY <1>1 DEF InMessages
<1>3. /\ SourceInv /\ KEEP_WIDTH \in Nat \ {0} /\ scratch_last = (pos = 0) /\ pos \in Nat
      /\ (Empty => pos > 0) /\ sticky_tuser = (\E q \in cur.user : q < Accepted) /\ sticky_tuser \in BOOLEAN
  BY <1>2, Held, IsTyped DEF MarkInv, RegistersOK
<1>4. pos > 0
  <2>1. Empty \/ ~scratch_last
    BY <1>1 DEF s_axis_tready, HeadersReady, body_needs_input
  <2>2. ~scratch_last => pos # 0
    BY <1>3, Zenon
  <2> QED
    BY <1>3, <2>1, <2>2
<1>5. cur = src /\ Accepted = pos
  BY <1>3, <1>4 DEF SourceInv, Accepted
<1>6. cur' = src /\ Accepted' = pos + Valid /\ input_valid_bytes = Valid /\ (~s_axis_tlast => Valid = KEEP_WIDTH)
  BY <1>1, <1>3, Taken
<1>7. Valid # 0
  BY <1>3, <1>6 DEF NoInput
<1>8. (\E q \in src.user : q < pos + Valid) = ((\E q \in src.user : q < pos) \/ s_axis_tuser)
  BY <1>3, <1>7, Marks
<1>9. sticky_tuser' = (sticky_tuser \/ s_axis_tuser)
  BY <1>1 DEF Mark
<1> QED
  BY <1>3, <1>5, <1>6, <1>8, <1>9

(* Between frames, and while one is drained, the flag means nothing. *)
LEMMA MarksAtRest ==
  ASSUME HeadersInv', beat_count' = 0, state' \in {"ST_PARSE", "ST_DRAIN"}
  PROVE  MarkInv'
<1>1. ~InMessages'
  BY DEF InMessages
<1>2. state' = "ST_PARSE" => ~(pos' > 0)
  BY Layout DEF HeadersInv, Framing
<1> QED
  BY <1>1, <1>2, Zenon DEF MarkInv

LEMMA KeepsMarks ==
  ASSUME HeadersInv, MarkInv, HeadersInv', [Next]_vars
  PROVE  MarkInv'
<1>1. CASE ParseEdge
  <2>1. CASE ParseMore \/ FinalAccept
    <3>1. ParseBeat /\ ParseMark /\ (ParseMore => ~s_axis_tlast) /\ (FinalAccept => input_valid_bytes >= OUTER_TAIL_START)
      BY <2>1 DEF ParseMore, FinalAccept, HeaderComplete, FinalBeat
    <3>2. input_valid_bytes = Valid /\ (~s_axis_tlast => Valid = KEEP_WIDTH)
      BY <3>1, Capture, Taken
    <3>3. Valid # 0
      BY <2>1, <3>1, <3>2, Layout
    <3>4. sticky_tuser' = (\E q \in cur'.user : q < Accepted')
      BY <3>1, <3>3, HeaderMarks
    <3> QED
      BY <3>4, Zenon DEF MarkInv
  <2>2. CASE ParseShort \/ FinalShort \/ FinalDrop
    <3>1. state' \in {"ST_PARSE", "ST_DRAIN"} /\ beat_count' = 0
      BY <2>2 DEF ParseShort, FinalShort, FinalDrop, HeaderComplete, FinalBeat, ParseBeat, ParseOrDrain
    <3> QED
      BY <3>1, MarksAtRest
  <2> QED
    BY <1>1, <2>1, <2>2 DEF ParseEdge
<1>2. CASE SubHeaderMore \/ BeginBody
  <2>1. state = "ST_MSG_HDR" /\ TakeByte /\ MarkByte
    BY <1>2 DEF SubHeaderMore, BeginBody, SubHeaderComplete, SubHeaderByte
  <2>2. sticky_tuser' = (\E q \in cur'.user : q < Accepted')
    BY <2>1, ByteMarks DEF InMessages
  <2> QED
    BY <2>2, Zenon DEF MarkInv
<1>3. CASE Terminator \/ SubHeaderShort \/ ZeroLength \/ Drain
  <2>1. state # "ST_PARSE" /\ Later /\ state' \in {"ST_PARSE", "ST_DRAIN"}
    BY <1>3 DEF Terminator, SubHeaderShort, ZeroLength, SubHeaderComplete, SubHeaderByte, TakeByte, Drain, ParseOrDrain
  <2>2. beat_count' = 0
    BY <2>1, Counted DEF Later, outer
  <2> QED
    BY <2>1, <2>2, MarksAtRest
<1>4. CASE Load
  <2>1. CASE NoInput
    <3>1. state # "ST_PARSE" /\ Later /\ state' = "ST_PARSE"
      BY <1>4, <2>1 DEF Load, BodyEdge
    <3>2. beat_count' = 0
      BY <3>1, Counted DEF Later, outer
    <3> QED
      BY <3>1, <3>2, MarksAtRest
  <2>2. CASE ~NoInput
    <3>1. sticky_tuser' = (\E q \in cur'.user : q < Accepted')
      BY <1>4, <2>2, LoadMarks
    <3> QED
      BY <3>1, Zenon DEF MarkInv
  <2> QED
    BY <2>1, <2>2
<1>5. CASE BodyMore \/ NextMessage
  <2>1. BodyOut /\ UNCHANGED sticky_tuser
    BY <1>5 DEF BodyMore, NextMessage, BodyComplete
  <2>2. state = "ST_MSG_BODY" /\ cur' = cur /\ Accepted' = Accepted
    BY <2>1, Sending
  <2>3. sticky_tuser' = (\E q \in cur'.user : q < Accepted')
    BY <2>1, <2>2 DEF MarkInv, InMessages
  <2> QED
    BY <2>3, Zenon DEF MarkInv
<1>6. CASE BodyTruncated \/ LastMessage \/ ExtraBytes \/ MissingMessages
  <2>1. state # "ST_PARSE" /\ Later /\ state' \in {"ST_PARSE", "ST_DRAIN"}
    BY <1>6 DEF BodyTruncated, LastMessage, ExtraBytes, MissingMessages, BodyComplete, BodyOut, BodyEdge, ParseOrDrain
  <2>2. beat_count' = 0
    BY <2>1, Counted DEF Later, outer
  <2> QED
    BY <2>1, <2>2, MarksAtRest
<1>7. CASE Present \/ IdleEdge \/ UNCHANGED vars
  <2>1. UNCHANGED <<state, sticky_tuser, pos, cur>>
    BY <1>7 DEF Present, Offer, IdleEdge, CommonIdle, vars, common, source
  <2>2. Accepted' = Accepted /\ InMessages' = InMessages
    BY <2>1 DEF Accepted, InMessages
  <2> QED
    BY <2>1, <2>2 DEF MarkInv
<1>8. CASE Reset
  <2>1. beat_count' = 0 /\ state' = "ST_PARSE"
    BY <1>8 DEF Reset, CommonReset, HeaderReset
  <2> QED
    BY <2>1, MarksAtRest
<1> QED
  BY <1>1, <1>2, <1>3, <1>4, <1>5, <1>6, <1>7, <1>8 DEF Next, Consume, Output, Headers
------------------------------------------------------------------------------
LEMMA InitInv == Init => IInv
<1>1. SUFFICES ASSUME Init PROVE IInv
  OBVIOUS
<1>2. HeadersInv /\ state = "ST_PARSE" /\ pos = 0 /\ sub_fields_fresh = FALSE
  BY <1>1, InitHeaders DEF Init, CommonInit, SourceInit
<1>3. ~InMessages /\ ~(pos > 0)
  BY <1>2 DEF InMessages
<1>4. MarkInv
  BY <1>3, Zenon DEF MarkInv
<1> QED
  BY <1>2, <1>4 DEF IInv

LEMMA StepInv ==
  ASSUME FramesEnd, IInv, [Next]_vars
  PROVE  IInv'
<1> USE DEF IInv
<1>1. HeadersInv'
  <2>1. CASE Present \/ IdleEdge \/ UNCHANGED vars
    BY <2>1, KeepsWaiting DEF Present, IdleEdge, vars
  <2>2. CASE Headers
    BY <2>2, KeepsParseEdge, KeepsTerminator, KeepsSubHeaderMore, KeepsSubHeaderEnds, KeepsDrain,
       KeepsBeginBody DEF Headers
  <2>3. CASE Load
    BY <2>3, KeepsLoad
  <2>4. CASE Output
    BY <2>4, KeepsBodyEnds, KeepsBodyMore, KeepsNextMessage DEF Output
  <2>5. CASE Reset
    BY <2>5, KeepsReset DEF Reset
  <2> QED
    BY <2>1, <2>2, <2>3, <2>4, <2>5 DEF Next, Consume
<1>2. MarkInv'
  BY <1>1, KeepsMarks
<1>3. sub_fields_fresh' \in BOOLEAN
  BY DEF Next, vars, Present, Consume, Headers, Load, Output, BodyTruncated, BodyMore, LastMessage,
         ExtraBytes, MissingMessages, NextMessage, BodyComplete, BodyOut, BodyEdge, IdleEdge, Reset
<1> QED
  BY <1>1, <1>2, <1>3

(***************************************************************************)
(* Whatever the definition and the bus, if no frame ends where the parser  *)
(* does not look, its scratchpad, its registers and its counters stay in   *)
(* step with the frame: the sub-header it reads is one of the frame's, and *)
(* the body it sends is the one announced there.                           *)
(***************************************************************************)
THEOREM Invariance == FramesEnd => (Spec => []IInv)
<1> SUFFICES ASSUME FramesEnd PROVE Spec => []IInv
  OBVIOUS
<1>1. Init => IInv
  BY InitInv
<1>2. IInv /\ [Next]_vars => IInv'
  BY StepInv
<1> QED
  BY <1>1, <1>2, PTL DEF Spec

(* Every register keeps its type, and the counters do not overflow.        *)
THEOREM TypeCorrect == FramesEnd => (Spec => []TypeOK)
<1>1. IInv => TypeOK
  BY DEF IInv, HeadersInv, TypeOK
<1> SUFFICES ASSUME FramesEnd PROVE Spec => []TypeOK
  OBVIOUS
<1>2. Spec => []IInv
  BY Invariance
<1> QED
  BY <1>1, <1>2, PTL

(* The parser never takes bytes of one frame for those of another.         *)
THEOREM InStep == FramesEnd => (Spec => []Framing)
<1>1. IInv => Framing
  BY DEF IInv, HeadersInv
<1> SUFFICES ASSUME FramesEnd PROVE Spec => []Framing
  OBVIOUS
<1>2. Spec => []IInv
  BY Invariance
<1> QED
  BY <1>1, <1>2, PTL

(* The scratchpad holds the bytes accepted and not consumed, in their      *)
(* order.                                                                  *)
THEOREM ScratchKept == FramesEnd => (Spec => []ScratchIntact)
<1>1. IInv => ScratchIntact
  BY DEF IInv, HeadersInv
<1> SUFFICES ASSUME FramesEnd PROVE Spec => []ScratchIntact
  OBVIOUS
<1>2. Spec => []IInv
  BY Invariance
<1> QED
  BY <1>1, <1>2, PTL

(* While the outer fields are announced they are those of one header.      *)
THEOREM HeadersCoherent == FramesEnd => (Spec => []FieldsCoherent)
<1>1. IInv => FieldsCoherent
  BY DEF IInv, HeadersInv
<1> SUFFICES ASSUME FramesEnd PROVE Spec => []FieldsCoherent
  OBVIOUS
<1>2. Spec => []IInv
  BY Invariance
<1> QED
  BY <1>1, <1>2, PTL

(* While the fields of a sub-header are announced they are those of one    *)
(* sub-header, right before the body being sent.                           *)
THEOREM SubHeadersCoherent == FramesEnd => (Spec => []SubFieldsCoherent)
<1>1. IInv => SubFieldsCoherent
  <2> SUFFICES ASSUME IInv, state = "ST_MSG_BODY" PROVE MessageFrom >= TOTAL_LENGTH /\ sub_reg = SubHeader(cur, MessageFrom)
    BY DEF SubFieldsCoherent, sub_fields_valid
  <2>0. HeadersInv
    BY DEF IInv
  <2>1. Start = MessageFrom
    BY DEF Start
  <2>2. sub_reg = SubHeader(cur, Start) /\ Start \in TOTAL_LENGTH .. cur.len
    BY <2>0, InBody
  <2> QED
    BY <2>1, <2>2, Layout
<1> SUFFICES ASSUME FramesEnd PROVE Spec => []SubFieldsCoherent
  OBVIOUS
<1>2. Spec => []IInv
  BY Invariance
<1> QED
  BY <1>1, <1>2, PTL

(* A body that is not cut short is marked exactly if the source marked one *)
(* of the beats read of its frame.                                         *)
THEOREM MarksKept == FramesEnd => (Spec => []MessageMarked)
<1>1. IInv => MessageMarked
  <2> SUFFICES ASSUME IInv, m_axis_tvalid, ~body_truncated
               PROVE  m_axis_tuser = (\E q \in cur.user : q < Accepted)
    BY DEF MessageMarked
  <2>1. state = "ST_MSG_BODY"
    BY DEF m_axis_tvalid
  <2>2. sticky_tuser = (\E q \in cur.user : q < Accepted) /\ sticky_tuser \in BOOLEAN
    BY <2>1, IsTyped DEF IInv, MarkInv, InMessages, RegistersOK
  <2>3. m_axis_tuser = sticky_tuser
    BY <2>2, Zenon DEF m_axis_tuser
  <2> QED
    BY <2>2, <2>3
<1> SUFFICES ASSUME FramesEnd PROVE Spec => []MessageMarked
  OBVIOUS
<1>2. Spec => []IInv
  BY Invariance
<1> QED
  BY <1>1, <1>2, PTL

LEMMA BoundaryHeld == IInv => BodyBoundary
<1> SUFFICES ASSUME IInv, m_axis_tvalid
             PROVE  IF m_axis_tlast
                    THEN \/ Consumed + keep_count(m_axis_tkeep) = BodyEnd
                         \/ pos = 0 /\ cur.len < BodyEnd /\ m_axis_tuser
                    ELSE m_axis_tkeep = Lanes
  BY DEF BodyBoundary
<1>0. HeadersInv
  BY DEF IInv
<1>1. state = "ST_MSG_BODY" /\ ~Empty /\ ~body_needs_input
  BY DEF m_axis_tvalid
<1>2. /\ body_out_bytes \in Nat /\ body_out_bytes <= msg_bytes_remaining
      /\ body_out_bytes \in {msg_bytes_remaining, Len(scratch), KEEP_WIDTH}
      /\ body_out_bytes <= Len(scratch)
  BY <1>0, <1>1, OutBytes
<1>3. msg_bytes_remaining \in Nat /\ InMessages
  BY <1>0, <1>1, InBody
<1>4. /\ Consumed \in Nat /\ Accepted = Consumed + Len(scratch) /\ Len(scratch) \in Nat
      /\ scratch_last = (pos = 0) /\ KEEP_WIDTH \in Nat \ {0} /\ pos \in Nat
  BY <1>0, <1>3, Held
<1>5. keep_count(m_axis_tkeep) = body_out_bytes
  BY <1>2, Masks DEF m_axis_tkeep
<1>6. CASE body_completes
  <2>1. body_out_bytes = msg_bytes_remaining
    BY <1>2, <1>3, <1>6 DEF body_completes
  <2>2. m_axis_tlast
    BY <1>1, <1>6 DEF m_axis_tlast
  <2> QED
    BY <1>5, <2>1, <2>2 DEF BodyEnd
<1>7. CASE body_truncated /\ ~body_completes
  <2>1. scratch_last /\ msg_bytes_remaining > Len(scratch)
    BY <1>7 DEF body_truncated
  <2>2. pos = 0
    BY <1>4, <2>1
  <2>3. cur.len = Consumed + Len(scratch)
    BY <1>4, <2>2 DEF Accepted
  <2>4. cur.len < BodyEnd
    BY <1>3, <1>4, <2>1, <2>3 DEF BodyEnd
  <2>5. m_axis_tlast /\ m_axis_tuser
    BY <1>1, <1>7 DEF m_axis_tlast, m_axis_tuser
  <2> QED
    BY <2>2, <2>4, <2>5
<1>8. CASE ~body_truncated /\ ~body_completes
  <2>1. ~m_axis_tlast
    BY <1>8 DEF m_axis_tlast
  <2>2. msg_bytes_remaining > body_out_bytes
    BY <1>2, <1>3, <1>8 DEF body_completes
  <2>3. body_out_bytes # Len(scratch) \/ body_out_bytes = KEEP_WIDTH
    <3>1. SUFFICES ASSUME body_out_bytes = Len(scratch), body_out_bytes # KEEP_WIDTH PROVE FALSE
      OBVIOUS
    <3>2. msg_bytes_remaining > Len(scratch)
      BY <2>2, <3>1
    <3>3. ~scratch_last
      BY <1>1, <1>8, <3>2 DEF body_truncated
    <3>4. Len(scratch) < KEEP_WIDTH
      <4>1. body_out_bytes <= KEEP_WIDTH
        BY <1>0, <1>1, OutBytes
      <4> QED
        BY <1>2, <1>4, <3>1, <4>1
    <3> QED
      BY <1>1, <3>2, <3>3, <3>4 DEF body_needs_input
  <2>4. body_out_bytes = KEEP_WIDTH
    BY <1>2, <1>3, <2>2, <2>3
  <2> QED
    BY <2>1, <2>4 DEF m_axis_tkeep, keep_for_count, Lanes
<1> QED
  BY <1>6, <1>7, <1>8

(* A body ends with the byte its sub-header announces as the last one, or  *)
(* with an error mark where the frame is over before that.                 *)
THEOREM BodiesEnd == FramesEnd => (Spec => []BodyBoundary)
<1>1. IInv => BodyBoundary
  BY BoundaryHeld
<1> SUFFICES ASSUME FramesEnd PROVE Spec => []BodyBoundary
  OBVIOUS
<1>2. Spec => []IInv
  BY Invariance
<1> QED
  BY <1>1, <1>2, PTL


------------------------------------------------------------------------------
(* What the sink has received of the body in hand, and which beats have   *)
(* been read by then.                                                      *)

(* An edge of ST_MSG_BODY that stays there leaves the message in hand.     *)
LEMMA SameBody ==
  ASSUME HeadersInv, BodyMore \/ (Load /\ ~NoInput)
  PROVE  /\ state = "ST_MSG_BODY" /\ state' = "ST_MSG_BODY" /\ Later /\ cur' = cur
         /\ UNCHANGED <<msg_remaining, malformed_count>>
         /\ MessageFrom' = MessageFrom /\ BodyEnd' = BodyEnd /\ sub_reg' = sub_reg
         /\ BodyMore => Consumed' = Consumed + body_out_bytes /\ Accepted' = Accepted
         /\ Load => Consumed' = Consumed /\ Consumed + Len(scratch) = pos /\ Len(scratch) < msg_bytes_remaining
<1>1. /\ state = "ST_MSG_BODY" /\ state' = "ST_MSG_BODY" /\ Later /\ UNCHANGED <<sub_reg, msg_remaining, malformed_count>>
  BY DEF BodyMore, BodyOut, BodyEdge, Load
<1>2. /\ InMessages /\ SUB_HEADER_BYTES \in Nat \ {0} /\ MsgLen(sub_reg) \in Nat /\ msg_bytes_remaining \in Nat \ {0}
  BY <1>1, InBody
<1>3. /\ Consumed \in Nat /\ Len(scratch) \in Nat /\ Accepted = Consumed + Len(scratch)
      /\ pos \in Nat /\ KEEP_WIDTH \in Nat \ {0} /\ scratch_last = (pos = 0) /\ cur \in Frames
      /\ (Empty <=> Len(scratch) = 0) /\ (Empty => pos > 0) /\ SourceInv
      /\ scratch \in Seq(Byte)
  BY <1>2, Held
<1>4. ASSUME BodyMore
      PROVE  /\ cur' = cur /\ Consumed' = Consumed + body_out_bytes /\ Accepted' = Accepted
             /\ msg_bytes_remaining' = msg_bytes_remaining - body_out_bytes /\ body_out_bytes \in Nat
  <2>1. BodyOut /\ scratch' = Rest /\ msg_bytes_remaining' = msg_bytes_remaining - body_out_bytes
    BY <1>4 DEF BodyMore
  <2>2. /\ cur' = cur /\ Accepted' = Accepted /\ Len(Rest) = Len(scratch) - body_out_bytes
    BY <2>1, Sending
  <2>3. body_out_bytes \in Nat
    BY <1>1, OutBytes
  <2>4. Consumed' = Accepted' - Len(scratch')
    BY DEF Consumed
  <2> QED
    BY <1>3, <2>1, <2>2, <2>3, <2>4
<1>5. ASSUME Load, ~NoInput
      PROVE  /\ cur' = cur /\ Consumed' = Consumed /\ msg_bytes_remaining' = msg_bytes_remaining
             /\ Consumed + Len(scratch) = pos /\ Len(scratch) < msg_bytes_remaining
  <2>1. /\ s_axis_tready /\ Handshake /\ scratch' = scratch \o InputBytes /\ msg_bytes_remaining' = msg_bytes_remaining
    BY <1>5 DEF Load
  <2>2. Empty \/ body_needs_input
    BY <1>1, <2>1 DEF s_axis_tready, HeadersReady
  <2>3. pos > 0 /\ Len(scratch) < msg_bytes_remaining
    <3>1. CASE Empty
      BY <1>2, <1>3, <3>1
    <3>2. CASE body_needs_input
      <4>1. ~scratch_last /\ Len(scratch) < msg_bytes_remaining
        BY <1>2, <1>3, <3>2 DEF body_needs_input
      <4>2. pos # 0
        BY <1>3, <4>1, Zenon
      <4> QED
        BY <1>3, <4>1, <4>2
    <3> QED
      BY <2>2, <3>1, <3>2
  <2>4. cur = src /\ Accepted = pos
    BY <1>3, <2>3 DEF SourceInv, Accepted
  <2>5. /\ cur' = cur /\ Accepted' = pos + Valid /\ Valid \in 0 .. KEEP_WIDTH /\ pos + Valid <= src.len /\ src \in Frames
    BY <1>3, <2>1, <2>4, Taken
  <2>6. PICK v \in Nat : v = Valid
    BY <1>3, <2>5
  <2>7. InputBytes \in Seq(Byte) /\ Len(InputBytes) = v
    <3>1. \A p \in pos .. pos + v - 1 : src.data[p] \in Byte
      BY <1>3, <2>5, <2>6, Bytes
    <3>2. InputBytes = Slice(src, pos, v)
      BY <1>3, <2>6, Inputs
    <3> QED
      BY <1>3, <3>1, <3>2, SliceType
  <2>8. Len(scratch') = Len(scratch) + v
    <3>1. Len(scratch \o InputBytes) = Len(scratch) + Len(InputBytes)
      BY <1>3, <2>7, ConcatProperties
    <3> QED
      BY <2>1, <2>7, <3>1
  <2>9. Consumed' = Accepted' - Len(scratch')
    BY DEF Consumed
  <2>10. Consumed' = Consumed
    <3>1. PICK n \in Nat : n = Len(scratch)
      BY <1>3
    <3> QED
      BY <1>3, <2>4, <2>5, <2>6, <2>8, <2>9, <3>1
  <2> QED
    BY <1>3, <2>1, <2>3, <2>4, <2>5, <2>10
<1>6. cur' = cur /\ Consumed' + msg_bytes_remaining' = Consumed + msg_bytes_remaining
  BY <1>2, <1>3, <1>4, <1>5
<1>7. BodyEnd' = BodyEnd
  BY <1>6 DEF BodyEnd
<1>8. MessageFrom' = MessageFrom
  <2>1. MsgLen(sub_reg)' = MsgLen(sub_reg)
    BY <1>1
  <2> QED
    BY <1>7, <2>1 DEF MessageFrom
<1>9. BodyMore => Consumed' = Consumed + body_out_bytes /\ Accepted' = Accepted
  BY <1>4
<1>10. Load => Consumed' = Consumed /\ Consumed + Len(scratch) = pos /\ Len(scratch) < msg_bytes_remaining
  <2>1. Load => ~NoInput
    BY <1>1 DEF Load
  <2> QED
    BY <1>5, <2>1
<1> QED
  BY <1>1, <1>6, <1>7, <1>8, <1>9, <1>10

(* The bytes of a beat on m_axis follow those sent before. *)
LEMMA SentBytes ==
  ASSUME FramesInv, BodyOut
  PROVE  /\ state = "ST_MSG_BODY" /\ Sent \in Nat /\ body_out_bytes \in Nat
         /\ Walk!Body + Sent = Consumed
         /\ received \o [i \in 1 .. keep_count(m_axis_tkeep) |-> m_axis_tdata[i - 1]]
              = Splitter!Slice(cur, Walk!Body, Sent + body_out_bytes)
<1>0. HeadersInv /\ SinkInv
  BY DEF FramesInv, IInv
<1>1. BodyOut /\ state = "ST_MSG_BODY"
  BY DEF BodyOut, BodyEdge
<1>2. /\ Walk!Body \in Nat /\ Consumed \in Nat /\ Walk!Body <= Consumed /\ Walk!Body = Start + SUB_HEADER_BYTES
  BY <1>0, <1>1, WalkBody
<1>3. BodyOf(cur, MessageFrom) = Walk!Body
  BY <1>1, <1>2 DEF BodyOf, Start
<1>4. Sent \in Nat /\ Walk!Body + Sent = Consumed
  BY <1>2, <1>3 DEF Sent
<1>5. body_out_bytes \in Nat /\ body_out_bytes <= Len(scratch) /\ keep_count(m_axis_tkeep) = body_out_bytes
  BY <1>0, <1>1, OutBytes, Masks DEF m_axis_tkeep
<1>6. received = [i \in 1 .. Sent |-> cur.data[Walk!Body + i - 1]]
  BY <1>0, <1>1, <1>3 DEF SinkInv
<1>7. \A i \in 0 .. body_out_bytes - 1 : m_axis_tdata[i] = cur.data[Walk!Body + Sent + i]
  <2>1. scratch = Slice(cur, Consumed, Len(scratch)) /\ Len(scratch) \in Nat
    BY <1>0, <1>1, Held DEF InMessages
  <2>2. ASSUME NEW i \in 0 .. body_out_bytes - 1 PROVE m_axis_tdata[i] = cur.data[Walk!Body + Sent + i]
    <3>1. m_axis_tdata[i] = scratch[i + 1]
      BY DEF m_axis_tdata
    <3>2. PICK n \in Nat : n = Len(scratch)
      BY <2>1
    <3>3. i + 1 \in 1 .. n
      BY <1>5, <3>2
    <3>4. scratch[i + 1] = cur.data[Consumed + (i + 1) - 1]
      BY <2>1, <3>2, <3>3 DEF Slice
    <3>5. Consumed + (i + 1) - 1 = Walk!Body + Sent + i
      BY <1>2, <1>4
    <3> QED
      BY <3>1, <3>4, <3>5
  <2> QED
    BY <2>2
<1> DEFINE bytes == received \o [i \in 1 .. body_out_bytes |-> m_axis_tdata[i - 1]]
<1>8. bytes = Splitter!Slice(cur, Walk!Body, Sent + body_out_bytes)
  <2>1. [i \in 1 .. Sent |-> cur.data[Walk!Body + i - 1]] \o [i \in 1 .. body_out_bytes |-> m_axis_tdata[i - 1]]
          = [i \in 1 .. Sent + body_out_bytes |-> cur.data[Walk!Body + i - 1]]
    <3>1. PICK from \in Nat, m \in Nat, n \in Nat : from = Walk!Body /\ m = Sent /\ n = body_out_bytes
      BY <1>2, <1>4, <1>5
    <3>2. \A i \in 0 .. n - 1 : m_axis_tdata[i] = cur.data[from + m + i]
      BY <1>7, <3>1
    <3>3. [i \in 1 .. m |-> cur.data[from + i - 1]] \o [i \in 1 .. n |-> m_axis_tdata[i - 1]]
            = [i \in 1 .. m + n |-> cur.data[from + i - 1]]
      BY <3>2, SliceMore
    <3> QED
      BY <3>1, <3>3
  <2> QED
    BY <1>6, <2>1 DEF Splitter!Slice
<1> HIDE DEF bytes
<1>9. bytes = received \o [i \in 1 .. keep_count(m_axis_tkeep) |-> m_axis_tdata[i - 1]]
  BY <1>5 DEF bytes
<1> QED
  BY <1>1, <1>4, <1>5, <1>8, <1>9

(* What the sink makes of it. *)
LEMMA SentBeat ==
  ASSUME FramesInv, Output, Sink
  PROVE  IF m_axis_tlast
         THEN /\ received' = << >>
              /\ delivered' = [payload |-> Splitter!Slice(cur, Walk!Body, Sent + body_out_bytes),
                               error |-> m_axis_tuser, tdest |-> 0]
         ELSE /\ received' = Splitter!Slice(cur, Walk!Body, Sent + body_out_bytes)
              /\ delivered' = delivered
<1>1. BodyOut
  BY DEF Output, BodyTruncated, BodyMore, LastMessage, ExtraBytes, MissingMessages, NextMessage, BodyComplete
<1>2. Take(m_axis_tdata, m_axis_tkeep, m_axis_tlast, m_axis_tuser, m_axis_tdest)
  BY DEF Sink
<1> DEFINE bytes == received \o [i \in 1 .. keep_count(m_axis_tkeep) |-> m_axis_tdata[i - 1]]
<1>3. IF m_axis_tlast
      THEN /\ received' = << >>
           /\ delivered' = [payload |-> bytes, error |-> m_axis_tuser, tdest |-> m_axis_tdest]
      ELSE received' = bytes /\ delivered' = delivered
  BY <1>2, Zenon DEF Take
<1>4. bytes = Splitter!Slice(cur, Walk!Body, Sent + body_out_bytes)
  BY <1>1, SentBytes
<1> HIDE DEF bytes
<1> QED
  BY <1>3, <1>4 DEF m_axis_tdest

(* An empty beat ends the frame before the body ends. *)
LEMMA BodyLost ==
  ASSUME HeadersInv, Load, NoInput
  PROVE  /\ state = "ST_MSG_BODY" /\ state' = "ST_PARSE" /\ pos' = 0 /\ cur' = cur /\ Later /\ Malformed
         /\ cur.len \in Nat /\ cur.len >= TOTAL_LENGTH /\ cur.len + KEEP_WIDTH = cur.end
         /\ Consumed <= cur.len /\ Walk!BodyEnd > cur.len
<1>1. /\ state = "ST_MSG_BODY" /\ Later /\ s_axis_tready /\ Handshake /\ Malformed /\ state' = "ST_PARSE"
  BY DEF Load, BodyEdge
<1>2. InMessages /\ msg_bytes_remaining \in Nat \ {0}
  BY <1>1, InBody
<1>3. /\ Consumed \in Nat /\ Len(scratch) \in Nat /\ Accepted = Consumed + Len(scratch) /\ Consumed >= TOTAL_LENGTH
      /\ pos \in Nat /\ scratch_last = (pos = 0) /\ cur.len \in Nat
      /\ (Empty <=> Len(scratch) = 0) /\ (Empty => pos > 0) /\ SourceInv
  BY <1>2, Held
<1>4. pos > 0 /\ Len(scratch) < msg_bytes_remaining
  <2>1. Empty \/ body_needs_input
    BY <1>1 DEF s_axis_tready, HeadersReady
  <2>2. CASE Empty
    BY <1>2, <1>3, <2>2
  <2>3. CASE body_needs_input
    <3>1. ~scratch_last /\ Len(scratch) < msg_bytes_remaining
      BY <1>2, <1>3, <2>3 DEF body_needs_input
    <3>2. pos # 0
      BY <1>3, <3>1, Zenon
    <3> QED
      BY <1>3, <3>1, <3>2
  <2> QED
    BY <2>1, <2>2, <2>3
<1>5. cur = src /\ Accepted = pos
  BY <1>3, <1>4 DEF SourceInv, Accepted
<1>6. /\ cur' = cur /\ (pos' = 0 <=> s_axis_tlast) /\ input_valid_bytes = Valid /\ Accepted' = pos + Valid
  BY <1>1, <1>3, <1>5, Taken
<1>7. s_axis_tlast /\ Valid = 0
  BY <1>6 DEF NoInput
<1>8. pos' = 0 /\ cur.len = pos /\ cur.len + KEEP_WIDTH = cur.end
  BY <1>3, <1>5, <1>6, <1>7 DEF Accepted, s_axis_tlast
<1>9. Walk!BodyEnd = Consumed + msg_bytes_remaining
  BY <1>1, WalkBody
<1>10. Consumed <= cur.len /\ Walk!BodyEnd > cur.len
  <2>1. PICK n \in Nat : n = Len(scratch)
    BY <1>3
  <2> QED
    BY <1>2, <1>3, <1>4, <1>5, <1>8, <1>9, <2>1
<1> QED
  BY <1>1, <1>3, <1>6, <1>8, <1>10, Layout

(* By then nothing of it has been sent, or the output frame stays open.    *)
LEMMA NothingSent ==
  ASSUME NoneLeftOpen, FramesInv, Load, NoInput
  PROVE  Sent = 0 /\ received = << >>
<1>0. HeadersInv /\ SinkInv
  BY DEF FramesInv, IInv
<1>1. /\ state = "ST_MSG_BODY" /\ cur.len \in Nat /\ cur.len >= TOTAL_LENGTH /\ cur.len + KEEP_WIDTH = cur.end
      /\ Consumed <= cur.len /\ Walk!BodyEnd > cur.len
  BY <1>0, BodyLost
<1>2. /\ Walk!Body \in Nat /\ Consumed \in Nat /\ Walk!Body <= Consumed /\ Walk!Body = Start + SUB_HEADER_BYTES
      /\ Walk!BodyEnd = Walk!Body + Walk!Length /\ Walk!Length = MsgLen(sub_reg)
  BY <1>0, <1>1, WalkBody
<1>3. sub_reg = SubHeader(cur, Start) /\ InMessages
  BY <1>0, <1>1, InBody
<1>4. PICK n \in 1 .. Count : \E at \in Starts(cur, n) : at[n] = Start
  BY <1>0, <1>3, OnIt
<1>5. PICK at \in Starts(cur, n) : at[n] = Start
  BY <1>4
<1>6. BodyOf(cur, at[n]) = Walk!Body /\ NextStart(cur, at[n]) = Walk!BodyEnd
  BY <1>2, <1>3, <1>5 DEF BodyOf, NextStart
<1>7. ~LeavesOpen(cur)
  BY <1>0, Held DEF NoneLeftOpen
<1>8. ~(Walk!Body + KEEP_WIDTH <= cur.len)
  BY <1>1, <1>6, <1>7 DEF LeavesOpen, Count
<1>9. BodyOf(cur, MessageFrom) = Walk!Body
  BY <1>1, <1>2 DEF BodyOf, Start
<1>10. KEEP_WIDTH \in Nat
  BY Layout
<1>11. Sent = 0
  <2>1. Sent = Consumed - Walk!Body
    BY <1>9 DEF Sent
  <2>2. Sent < KEEP_WIDTH /\ Sent \in Nat
    BY <1>1, <1>2, <1>8, <1>10, <2>1
  <2>3. Sent # 0 => Sent >= KEEP_WIDTH
    BY <1>0, <1>1 DEF SinkInv
  <2> QED
    BY <1>10, <2>2, <2>3
<1>12. received = [i \in 1 .. 0 |-> cur.data[Walk!Body + i - 1]]
  BY <1>0, <1>1, <1>9, <1>11 DEF SinkInv
<1>13. [i \in 1 .. 0 |-> cur.data[Walk!Body + i - 1]] = << >>
  <2>1. PICK from \in Nat : from = Walk!Body
    BY <1>2
  <2>2. [i \in 1 .. 0 |-> cur.data[from + i - 1]] = << >>
    BY SliceNone
  <2> QED
    BY <2>1, <2>2
<1> QED
  BY <1>11, <1>12, <1>13

(* A sub-header is complete: the body begins behind it. *)
LEMMA BodyBegins ==
  ASSUME HeadersInv, BeginBody
  PROVE  /\ state' = "ST_MSG_BODY" /\ cur' = cur /\ Consumed' = Consumed + 1 /\ Consumed \in Nat
         /\ BodyEnd' = Consumed' + msg_len /\ msg_len \in Nat \ {0}
         /\ BodyOf(cur, MessageFrom)' = Consumed'
<1>1. /\ state' = "ST_MSG_BODY" /\ SubHeaderByte /\ scratch' = Tail(Pad) /\ msg_bytes_remaining' = msg_len /\ msg_len # 0
  BY DEF BeginBody, SubHeaderComplete
<1>2. /\ TakeByte /\ state = "ST_MSG_HDR" /\ sub_reg' = SubBypassed /\ msg_len \in Nat /\ SUB_HEADER_BYTES \in Nat
  BY <1>1, SubByte
<1>3. /\ cur' = cur /\ Consumed \in Nat /\ Len(Pad) \in Nat /\ Len(Tail(Pad)) = Len(Pad) - 1
      /\ Accepted' = Consumed + Len(Pad)
  BY <1>2, Taking DEF InMessages
<1>4. Consumed' = Accepted' - Len(scratch')
  BY DEF Consumed
<1>5. Consumed' = Consumed + 1
  <2>1. PICK n \in Nat, c \in Nat : n = Len(Pad) /\ c = Consumed
    BY <1>3
  <2>2. Accepted' = c + n /\ Len(scratch') = n - 1
    BY <1>1, <1>3, <2>1, Zenon
  <2>3. Consumed' = (c + n) - (n - 1)
    BY <1>4, <2>2, Zenon
  <2>4. Consumed' = c + 1
    BY <2>3
  <2> QED
    BY <2>1, <2>4
<1>6. MsgLen(sub_reg)' = msg_len
  BY <1>2 DEF msg_len
<1>7. BodyEnd' = Consumed' + msg_len
  BY <1>1 DEF BodyEnd
<1>8. MessageFrom' = BodyEnd' - MsgLen(sub_reg)' - SUB_HEADER_BYTES
  BY DEF MessageFrom
<1>9. BodyOf(cur, MessageFrom)' = MessageFrom' + SUB_HEADER_BYTES
  BY DEF BodyOf
<1>10. BodyOf(cur, MessageFrom)' = Consumed'
  BY <1>2, <1>3, <1>5, <1>6, <1>7, <1>8, <1>9
<1> QED
  BY <1>1, <1>2, <1>3, <1>5, <1>7, <1>10

(* A sub-header, or the rest of a frame, is read: nothing is sent. *)
LEMMA HeadersSink ==
  ASSUME FramesInv, Headers, UNCHANGED sink
  PROVE  SinkInv'
<1>1. state # "ST_MSG_BODY"
  BY DEF Headers, ParseEdge, ParseMore, ParseShort, FinalShort, FinalDrop, FinalAccept, HeaderComplete, FinalBeat,
         ParseBeat, Terminator, SubHeaderMore, SubHeaderShort, ZeroLength, BeginBody, SubHeaderComplete,
         SubHeaderByte, Drain
<1>2. received' = << >>
  BY <1>1 DEF FramesInv, SinkInv, sink
<1>3. CASE state' # "ST_MSG_BODY"
  BY <1>2, <1>3 DEF SinkInv
<1>4. CASE state' = "ST_MSG_BODY"
  <2>1. BeginBody
    BY <1>1, <1>4 DEF Headers, ParseEdge, ParseMore, ParseShort, FinalShort, FinalDrop, FinalAccept, HeaderComplete,
         FinalBeat, ParseBeat, Terminator, SubHeaderMore, SubHeaderShort, ZeroLength, SubHeaderComplete,
         SubHeaderByte, Drain, ParseOrDrain
  <2>2. PICK from \in Nat : from = Consumed' /\ from = BodyOf(cur, MessageFrom)'
    BY <2>1, BodyBegins DEF FramesInv, IInv
  <2>3. Sent' = Consumed' - BodyOf(cur, MessageFrom)'
    BY DEF Sent
  <2>4. Sent' = 0
    <3>1. Sent' = from - from
      BY <2>2, <2>3, Zenon
    <3> QED
      BY <3>1
  <2>5. [i \in 1 .. 0 |-> (cur').data[from + i - 1]] = << >>
    BY SliceNone
  <2> QED
    BY <1>2, <1>4, <2>2, <2>4, <2>5 DEF SinkInv
<1> QED
  BY <1>3, <1>4

LEMMA LoadSink ==
  ASSUME NoneLeftOpen, FramesInv, Load, UNCHANGED sink
  PROVE  SinkInv'
<1>0. HeadersInv /\ SinkInv
  BY DEF FramesInv, IInv
<1>1. CASE NoInput
  BY <1>0, <1>1, NothingSent, BodyLost DEF SinkInv, sink
<1>2. CASE ~NoInput
  <2>1. /\ state = "ST_MSG_BODY" /\ state' = "ST_MSG_BODY" /\ cur' = cur /\ MessageFrom' = MessageFrom
        /\ Consumed' = Consumed /\ received' = received
    BY <1>0, <1>2, SameBody DEF sink
  <2>2. BodyOf(cur, MessageFrom)' = BodyOf(cur, MessageFrom)
    BY <2>1 DEF BodyOf
  <2>3. Sent' = Sent
    BY <2>1, <2>2 DEF Sent
  <2> QED
    BY <1>0, <2>1, <2>2, <2>3 DEF SinkInv
<1> QED
  BY <1>1, <1>2

(* A beat that is not a body's last leaves the parser in it. *)
LEMMA SentMore ==
  ASSUME FramesInv, Output
  PROVE  /\ BodyMore => /\ state' = "ST_MSG_BODY" /\ ~m_axis_tlast /\ cur' = cur
                        /\ BodyOf(cur, MessageFrom) = Walk!Body /\ BodyOf(cur, MessageFrom)' = Walk!Body
                        /\ Sent' = Sent + body_out_bytes
         /\ ~BodyMore => m_axis_tlast /\ state' # "ST_MSG_BODY"
<1>0. HeadersInv
  BY DEF FramesInv, IInv
<1>1. BodyOut
  BY DEF Output, BodyTruncated, BodyMore, LastMessage, ExtraBytes, MissingMessages, NextMessage, BodyComplete
<1>2. ASSUME BodyMore
      PROVE  /\ state' = "ST_MSG_BODY" /\ ~m_axis_tlast /\ cur' = cur
             /\ BodyOf(cur, MessageFrom) = Walk!Body /\ BodyOf(cur, MessageFrom)' = Walk!Body
             /\ Sent' = Sent + body_out_bytes
  <2>1. /\ state = "ST_MSG_BODY" /\ state' = "ST_MSG_BODY" /\ cur' = cur /\ MessageFrom' = MessageFrom
        /\ Consumed' = Consumed + body_out_bytes
    BY <1>0, <1>2, SameBody
  <2>2. /\ Walk!Body \in Nat /\ Consumed \in Nat /\ Walk!Body = Start + SUB_HEADER_BYTES
    BY <1>0, <2>1, WalkBody
  <2>3. BodyOf(cur, MessageFrom) = Walk!Body /\ BodyOf(cur, MessageFrom)' = Walk!Body
    BY <2>1, <2>2 DEF BodyOf, Start
  <2>4. body_out_bytes \in Nat
    BY <1>1, SentBytes
  <2>5. Sent' = Sent + body_out_bytes
    BY <2>1, <2>2, <2>3, <2>4 DEF Sent
  <2>6. ~m_axis_tlast
    BY <1>2 DEF BodyMore, m_axis_tlast
  <2> QED
    BY <2>1, <2>3, <2>5, <2>6
<1>3. ~BodyMore => m_axis_tlast /\ state' # "ST_MSG_BODY"
  BY DEF Output, BodyTruncated, LastMessage, ExtraBytes, MissingMessages, NextMessage, BodyComplete,
         BodyOut, BodyEdge, m_axis_tlast, m_axis_tvalid, body_truncated, ParseOrDrain
<1> QED
  BY <1>2, <1>3

LEMMA OutputSink ==
  ASSUME FramesInv, Output, Sink
  PROVE  SinkInv'
<1>1. CASE BodyMore
  <2>1. /\ state' = "ST_MSG_BODY" /\ ~m_axis_tlast /\ m_axis_tvalid /\ BodyOut /\ cur' = cur
        /\ BodyOf(cur, MessageFrom)' = Walk!Body /\ Sent' = Sent + body_out_bytes
    BY <1>1, SentMore DEF BodyMore, BodyOut
  <2>2. /\ Sent \in Nat /\ body_out_bytes \in Nat
        /\ received' = Splitter!Slice(cur, Walk!Body, Sent + body_out_bytes)
    BY <2>1, SentBytes, SentBeat
  <2>3. body_out_bytes = KEEP_WIDTH /\ KEEP_WIDTH \in Nat
    <3>1. m_axis_tkeep = Lanes
      BY <2>1, BoundaryHeld DEF BodyBoundary, FramesInv
    <3>2. keep_for_count(KEEP_WIDTH) = Lanes /\ KEEP_WIDTH \in Nat
      BY Layout DEF keep_for_count, Lanes
    <3> QED
      BY <2>2, <3>1, <3>2, Masks DEF m_axis_tkeep
  <2>4. received' = [i \in 1 .. Sent' |-> cur'.data[BodyOf(cur, MessageFrom)' + i - 1]]
    BY <2>1, <2>2 DEF Splitter!Slice
  <2>5. Sent' >= KEEP_WIDTH
    BY <2>1, <2>2, <2>3
  <2> QED
    BY <2>1, <2>4, <2>5 DEF SinkInv
<1>2. CASE ~BodyMore
  BY <1>2, SentMore, SentBeat DEF SinkInv
<1> QED
  BY <1>1, <1>2

(* The frame passes, and its messages begin. *)
LEMMA FirstNeeded ==
  ASSUME HeadersInv, FinalAccept
  PROVE  ReadWhenNeeded'
<1>1. ParseBeat /\ state' \in {"ST_PARSE", "ST_DRAIN", "ST_MSG_HDR"}
  BY DEF FinalAccept, HeaderComplete, FinalBeat, ParseOrDrain
<1>2. SourceInv /\ Handshake
  BY <1>1, Capture
<1>3. cur' = src /\ Valid \in 0 .. KEEP_WIDTH /\ Accepted' = pos + Valid
  BY <1>2, Taken
<1>4. pos \in Nat /\ KEEP_WIDTH \in Nat /\ OUTER_TAIL_START \in 1 .. KEEP_WIDTH
  BY <1>2, Beat, Layout
<1>5. pos + OUTER_TAIL_START = TOTAL_LENGTH /\ Consumed' = TOTAL_LENGTH
  BY BehindHeader
<1>6. ASSUME NEW q \in cur'.user, q < Accepted'
      PROVE  q < TOTAL_LENGTH
  <2>1. q \in src.user /\ q \in Nat
    BY <1>2, <1>3, Beat
  <2>2. q < pos + KEEP_WIDTH
    BY <1>3, <1>4, <1>6, <2>1
  <2>3. q < pos \/ q = pos
    BY <1>2, <2>1, <2>2, BeatStart
  <2> QED
    BY <1>4, <1>5, <2>1, <2>3
<1> QED
  BY <1>1, <1>5, <1>6 DEF ReadWhenNeeded, InMessages

(* A byte is taken, and a beat read only if it is in that beat. *)
LEMMA ByteNeeded ==
  ASSUME HeadersInv, ReadWhenNeeded, state = "ST_MSG_HDR", TakeByte, NEW q \in cur'.user, q < Accepted'
  PROVE  q \in Nat /\ q <= Consumed
<1>1. /\ InMessages /\ SourceInv /\ Consumed \in Nat /\ KEEP_WIDTH \in Nat /\ cur \in Frames
      /\ (Empty => cur = src /\ Consumed = pos)
  BY Held DEF InMessages
<1>2. CASE Empty
  <2>1. Handshake
    BY <1>2 DEF TakeByte
  <2>2. cur' = src /\ Accepted' = pos + Valid /\ Valid \in 0 .. KEEP_WIDTH
    BY <1>1, <2>1, Taken
  <2>3. q \in src.user /\ q \in Nat /\ pos \in Nat
    BY <1>1, <2>2, Beat
  <2>4. q < pos + KEEP_WIDTH
    BY <1>1, <2>2, <2>3
  <2>5. q < pos \/ q = pos
    BY <1>1, <2>3, <2>4, BeatStart
  <2> QED
    BY <1>1, <1>2, <2>3, <2>5
<1>3. CASE ~Empty
  <2>1. cur' = cur /\ Accepted' = Accepted
    BY <1>3 DEF TakeByte, source, Accepted
  <2>2. q < Consumed
    BY <1>1, <2>1 DEF ReadWhenNeeded
  <2>3. q \in Nat
    BY <1>1, <2>1, FramesAssumption DEF IsFrame
  <2> QED
    BY <1>1, <2>2, <2>3
<1> QED
  BY <1>2, <1>3

LEMMA SubHeaderNeeded ==
  ASSUME HeadersInv, ReadWhenNeeded, SubHeaderMore
  PROVE  ReadWhenNeeded'
<1>1. SubHeaderByte /\ TakeByte /\ state = "ST_MSG_HDR" /\ state' = state /\ scratch' = Tail(Pad)
  BY DEF SubHeaderMore, SubHeaderByte
<1>2. Consumed \in Nat /\ Len(Pad) \in Nat /\ Len(Tail(Pad)) = Len(Pad) - 1 /\ Accepted' = Consumed + Len(Pad)
  BY <1>1, Taking DEF InMessages
<1>3. Consumed' = Consumed + 1
  <2>1. PICK n \in Nat, c \in Nat : n = Len(Pad) /\ c = Consumed
    BY <1>2
  <2>2. Accepted' = c + n /\ Len(scratch') = n - 1
    BY <1>1, <1>2, <2>1, Zenon
  <2>3. Consumed' = Accepted' - Len(scratch')
    BY DEF Consumed
  <2>4. Consumed' = (c + n) - (n - 1)
    BY <2>2, <2>3, Zenon
  <2>5. Consumed' = c + 1
    BY <2>4
  <2> QED
    BY <2>1, <2>5
<1>4. ASSUME NEW q \in cur'.user, q < Accepted'
      PROVE  q < Consumed'
  <2>1. q \in Nat /\ q <= Consumed
    BY <1>1, <1>4, ByteNeeded
  <2> QED
    BY <1>2, <1>3, <2>1
<1> QED
  BY <1>1, <1>4 DEF ReadWhenNeeded

LEMMA BodyNeeded ==
  ASSUME HeadersInv, ReadWhenNeeded, BeginBody
  PROVE  ReadWhenNeeded'
<1>1. TakeByte /\ state = "ST_MSG_HDR"
  BY DEF BeginBody, SubHeaderComplete, SubHeaderByte
<1>2. /\ state' = "ST_MSG_BODY" /\ Consumed' = Consumed + 1 /\ Consumed \in Nat
      /\ BodyEnd' = Consumed' + msg_len /\ msg_len \in Nat \ {0}
  BY BodyBegins
<1>3. PICK m \in Nat \ {0} : m = msg_len
  BY <1>2
<1>4. BodyEnd' = (Consumed + 1) + m
  BY <1>2, <1>3, Zenon
<1>5. ASSUME NEW q \in cur'.user, q < Accepted'
      PROVE  q < BodyEnd'
  <2>1. q \in Nat /\ q <= Consumed
    BY <1>1, <1>5, ByteNeeded
  <2> QED
    BY <1>2, <1>3, <1>4, <2>1
<1> QED
  BY <1>2, <1>5 DEF ReadWhenNeeded

LEMMA LoadNeeded ==
  ASSUME HeadersInv, ReadWhenNeeded, Load
  PROVE  ReadWhenNeeded'
<1>1. CASE NoInput
  BY <1>1, BodyLost DEF ReadWhenNeeded, InMessages
<1>2. CASE ~NoInput
  <2>1. /\ state = "ST_MSG_BODY" /\ state' = "ST_MSG_BODY" /\ BodyEnd' = BodyEnd
        /\ Consumed + Len(scratch) = pos /\ Len(scratch) < msg_bytes_remaining /\ Handshake
    BY <1>2, SameBody DEF Load
  <2>2. SourceInv /\ KEEP_WIDTH \in Nat /\ Consumed \in Nat /\ Len(scratch) \in Nat /\ msg_bytes_remaining \in Nat
    BY <2>1, Held, InBody
  <2>3. cur' = src /\ Accepted' = pos + Valid /\ Valid \in 0 .. KEEP_WIDTH
    BY <2>1, <2>2, Taken
  <2>4. ASSUME NEW q \in cur'.user, q < Accepted'
        PROVE  q < BodyEnd'
    <3>1. q \in src.user /\ q \in Nat /\ pos \in Nat
      BY <2>2, <2>3, Beat
    <3>2. q < pos + KEEP_WIDTH
      BY <2>2, <2>3, <2>4, <3>1
    <3>3. q <= pos
      BY <2>2, <3>1, <3>2, BeatStart
    <3>4. pos < Consumed + msg_bytes_remaining
      <4>1. PICK n \in Nat : n = Len(scratch)
        BY <2>2
      <4> QED
        BY <2>1, <2>2, <4>1
    <3>5. q < BodyEnd
      BY <2>2, <3>1, <3>3, <3>4 DEF BodyEnd
    <3> QED
      BY <2>1, <3>5
  <2> QED
    BY <2>1, <2>4 DEF ReadWhenNeeded
<1> QED
  BY <1>1, <1>2

LEMMA OutputNeeded ==
  ASSUME HeadersInv, ReadWhenNeeded, Output
  PROVE  ReadWhenNeeded'
<1>1. CASE BodyMore
  <2>1. /\ state = "ST_MSG_BODY" /\ state' = "ST_MSG_BODY" /\ cur' = cur /\ BodyEnd' = BodyEnd /\ Accepted' = Accepted
    BY <1>1, SameBody
  <2> QED
    BY <2>1 DEF ReadWhenNeeded, InMessages
<1>2. CASE NextMessage
  <2>1. /\ BodyOut /\ scratch' = Rest /\ state' = "ST_MSG_HDR" /\ msg_bytes_remaining <= body_out_bytes
    BY <1>2 DEF NextMessage, BodyComplete, body_completes
  <2>2. /\ state = "ST_MSG_BODY" /\ cur' = cur /\ Accepted' = Accepted
        /\ Len(Rest) = Len(scratch) - body_out_bytes
    BY <2>1, Sending
  <2>3. /\ body_out_bytes \in Nat /\ body_out_bytes <= msg_bytes_remaining /\ msg_bytes_remaining \in Nat
        /\ Consumed \in Nat /\ Len(scratch) \in Nat /\ Accepted = Consumed + Len(scratch)
    BY <2>2, OutBytes, InBody, Held
  <2>4. Consumed' = BodyEnd
    <3>1. PICK n \in Nat, b \in Nat, c \in Nat :
             n = Len(scratch) /\ b = body_out_bytes /\ c = Consumed
      BY <2>3
    <3>2. b = msg_bytes_remaining
      BY <2>1, <2>3, <3>1
    <3>3. Accepted' = c + n /\ Len(scratch') = n - b
      BY <2>1, <2>2, <2>3, <3>1, Zenon
    <3>4. Consumed' = (c + n) - (n - b)
      BY <3>3, Zenon DEF Consumed
    <3>5. Consumed' = c + b
      BY <3>4
    <3> QED
      BY <3>1, <3>2, <3>5, Zenon DEF BodyEnd
  <2> QED
    BY <2>1, <2>2, <2>4 DEF ReadWhenNeeded, InMessages
<1>3. CASE BodyTruncated \/ LastMessage \/ ExtraBytes \/ MissingMessages
  <2>1. state' \in {"ST_PARSE", "ST_DRAIN"}
    BY <1>3 DEF BodyTruncated, LastMessage, ExtraBytes, MissingMessages, ParseOrDrain
  <2> QED
    BY <2>1 DEF ReadWhenNeeded, InMessages
<1> QED
  BY <1>1, <1>2, <1>3 DEF Output

LEMMA StillNeeded ==
  ASSUME ReadWhenNeeded, UNCHANGED <<state, messages, scratches, pos, cur>>
  PROVE  ReadWhenNeeded'
BY DEF ReadWhenNeeded, InMessages, Accepted, Consumed, BodyEnd, messages, scratches

LEMMA StillSink ==
  ASSUME SinkInv, UNCHANGED <<state, messages, scratches, pos, cur, received>>
  PROVE  SinkInv'
BY DEF SinkInv, Sent, BodyOf, MessageFrom, BodyEnd, Consumed, Accepted, messages, scratches

LEMMA KeepsNeeded ==
  ASSUME HeadersInv, ReadWhenNeeded, [Next]_vars
  PROVE  ReadWhenNeeded'
<1>1. CASE Present \/ IdleEdge \/ UNCHANGED vars
  <2>1. UNCHANGED <<state, messages, scratches, pos, cur>>
    BY <1>1 DEF Present, IdleEdge, Offer, CommonIdle, Later, vars, common, source
  <2> QED
    BY <2>1, StillNeeded
<1>2. CASE Headers
  <2>1. CASE state' \in {"ST_PARSE", "ST_DRAIN"}
    BY <2>1 DEF ReadWhenNeeded, InMessages
  <2>2. CASE state' \notin {"ST_PARSE", "ST_DRAIN"}
    <3>1. FinalAccept \/ SubHeaderMore \/ BeginBody
      BY <1>2, <2>2 DEF Headers, ParseEdge, ParseMore, ParseShort, FinalShort, FinalDrop, HeaderComplete, FinalBeat,
         ParseBeat, Terminator, SubHeaderShort, ZeroLength, Drain, ParseOrDrain
    <3> QED
      BY <3>1, FirstNeeded, SubHeaderNeeded, BodyNeeded
  <2> QED
    BY <2>1, <2>2
<1>3. CASE Load
  BY <1>3, LoadNeeded
<1>4. CASE Output
  BY <1>4, OutputNeeded
<1>5. CASE Reset
  BY <1>5 DEF Reset, CommonReset, ReadWhenNeeded, InMessages
<1> QED
  BY <1>1, <1>2, <1>3, <1>4, <1>5 DEF Next, Consume

LEMMA KeepsSink ==
  ASSUME NoneLeftOpen, FramesInv, [FramesNext]_framesVars
  PROVE  SinkInv'
<1>1. CASE ((Present \/ IdleEdge) /\ UNCHANGED sink) \/ UNCHANGED framesVars
  <2>1. UNCHANGED <<state, messages, scratches, pos, cur, received>>
    BY <1>1 DEF Present, IdleEdge, Offer, CommonIdle, Later, framesVars, vars, common, source, sink
  <2> QED
    BY <2>1, StillSink DEF FramesInv
<1>2. CASE Consume /\ UNCHANGED sink
  BY <1>2, HeadersSink, LoadSink DEF Consume
<1>3. CASE Output /\ Sink
  BY <1>3, OutputSink
<1>4. CASE Reset /\ SinkReset
  BY <1>4 DEF Reset, CommonReset, SinkReset, SinkInv
<1> QED
  BY <1>1, <1>2, <1>3, <1>4 DEF FramesNext

LEMMA FramesInitInv == FramesInit => FramesInv
<1> SUFFICES ASSUME FramesInit PROVE FramesInv
  OBVIOUS
<1>1. IInv /\ state = "ST_PARSE" /\ received = << >>
  BY InitInv DEF FramesInit, Init, CommonInit, SinkInit
<1> QED
  BY <1>1 DEF FramesInv, SinkInv, ReadWhenNeeded, InMessages

LEMMA FramesStepInv ==
  ASSUME FramesEnd, NoneLeftOpen, FramesInv, [FramesNext]_framesVars
  PROVE  FramesInv'
<1>1. [Next]_vars
  BY DEF FramesNext, Next, framesVars
<1>2. IInv'
  BY <1>1, StepInv DEF FramesInv
<1>3. ReadWhenNeeded'
  BY <1>1, KeepsNeeded DEF FramesInv, IInv
<1>4. SinkInv'
  BY KeepsSink
<1> QED
  BY <1>2, <1>3, <1>4 DEF FramesInv

(***************************************************************************)
(* With a sink attached the parser's invariant holds on, the sink has the  *)
(* bytes sent of the body in hand and no others, and no beat is read       *)
(* before one of its bytes is needed, if no frame ends unnoticed or with   *)
(* an empty beat inside a body of which beats have been sent.              *)
(***************************************************************************)
THEOREM FramesInvariance == FramesEnd /\ NoneLeftOpen => (FramesSpec => []FramesInv)
<1> SUFFICES ASSUME FramesEnd, NoneLeftOpen PROVE FramesSpec => []FramesInv
  OBVIOUS
<1>1. FramesInit => FramesInv
  BY FramesInitInv
<1>2. FramesInv /\ [FramesNext]_framesVars => FramesInv'
  BY FramesStepInv
<1> QED
  BY <1>1, <1>2, PTL DEF FramesSpec

(* Between two bodies no output frame is open.                             *)
THEOREM BodiesSeparate == FramesEnd /\ NoneLeftOpen => (FramesSpec => []SeparateFrames)
<1> SUFFICES ASSUME FramesEnd, NoneLeftOpen PROVE FramesSpec => []SeparateFrames
  OBVIOUS
<1>1. FramesInv => SeparateFrames
  BY DEF FramesInv, SinkInv, SeparateFrames
<1>2. FramesSpec => []FramesInv
  BY FramesInvariance
<1> QED
  BY <1>1, <1>2, PTL

------------------------------------------------------------------------------
(* The refinement of MessageSplitter. *)

(* The walk of the instance is the walk of the headers. *)
LEMMA SplitterReads ==
  /\ \A hdr, cfg : Splitter!DropsOf(hdr, cfg) = Walk!DropsOf(hdr, cfg)
  /\ \A hdr : Splitter!MsgCount(hdr) = Walk!MsgCount(hdr)
  /\ \A f : Splitter!Header(f) = Walk!Header(f)
  /\ Splitter!Body = Walk!Body /\ Splitter!Length = Walk!Length /\ Splitter!BodyEnd = Walk!BodyEnd
<1>1. \A x, y : Splitter!BitAnd(x, y) = Walk!BitAnd(x, y)
  BY DEF Walk!BitAnd, Splitter!BitAnd
<1>2. \A hdr, f : Splitter!BigEndian(hdr, f) = Walk!BigEndian(hdr, f)
  BY DEF Walk!BigEndian, Splitter!BigEndian
<1>3. \A hdr, f : Splitter!FieldValue(hdr, f) = Walk!FieldValue(hdr, f)
  BY <1>2 DEF Walk!FieldValue, Splitter!FieldValue
<1>4. \A hdr, cfg : Splitter!DropsOf(hdr, cfg) = Walk!DropsOf(hdr, cfg)
  BY <1>1, <1>3 DEF Walk!DropsOf, Splitter!DropsOf, Walk!drop_expression, Splitter!drop_expression
<1>5. \A hdr : Splitter!MsgCount(hdr) = Walk!MsgCount(hdr)
  BY <1>3 DEF Walk!MsgCount, Splitter!MsgCount
<1>6. \A f : Splitter!Header(f) = Walk!Header(f)
  BY DEF Walk!Header, Splitter!Header, Walk!HeaderBytes, Splitter!HeaderBytes,
         Walk!FieldBytes, Splitter!FieldBytes
<1>7. Splitter!Body = Walk!Body
  BY DEF Walk!Body, Splitter!Body
<1>8. Splitter!Length = Walk!Length
  BY <1>2 DEF Walk!Length, Splitter!Length, Walk!MsgLen, Splitter!MsgLen, Walk!SubHeader, Splitter!SubHeader,
              Walk!SubBytes, Splitter!SubBytes
<1>9. Splitter!BodyEnd = Walk!BodyEnd
  BY <1>7, <1>8 DEF Walk!BodyEnd, Splitter!BodyEnd
<1> QED
  BY <1>4, <1>5, <1>6, <1>7, <1>8, <1>9

LEMMA SplitterWalks ==
  /\ Walk!WalkInit => Splitter!WalkInit
  /\ Walk!Elsewhere => Splitter!Elsewhere
  /\ Walk!Discard => Splitter!Discard
  /\ Walk!NoHeader \/ Walk!ZeroLength => Splitter!Refuse
  /\ Walk!WalkReset => Splitter!WalkReset
  /\ UNCHANGED Walk!walk => UNCHANGED Splitter!walk
  /\ Walk!Finish => Splitter!Finish
  /\ Walk!Configure => Splitter!Configure
<1>1. Walk!WalkInit => Splitter!WalkInit
  BY DEF Walk!WalkInit, Splitter!WalkInit, Walk!IntakeInit, Splitter!IntakeInit
<1>2. \A f : Walk!Candidate(f) => Splitter!Candidate(f)
  BY DEF Walk!Candidate, Splitter!Candidate, Walk!Configure, Splitter!Configure
<1>3. Walk!Elsewhere => Splitter!Elsewhere
  <2>1. \A f : /\ Walk!Begin(f) => Splitter!Begin(f)
               /\ Walk!Reject(f) => Splitter!Reject(f)
    BY <1>2, SplitterReads DEF Walk!Begin, Splitter!Begin, Walk!Reject, Splitter!Reject
  <2>2. \A f : Walk!Short(f) => Splitter!Short(f)
    BY <1>2 DEF Walk!Short, Splitter!Short, Walk!TooShort, Splitter!TooShort,
                Walk!CountMalformed, Splitter!CountMalformed
  <2>3. \A f : Walk!Pass(f) => Splitter!Pass(f)
    BY <1>2, SplitterReads DEF Walk!Pass, Splitter!Pass
  <2>4. \A f : /\ Walk!NoMessages(f) => Splitter!NoMessages(f)
               /\ Walk!Admit(f) => Splitter!Admit(f)
    BY <2>3, SplitterReads DEF Walk!NoMessages, Splitter!NoMessages, Walk!Admit, Splitter!Admit
  <2>5. Walk!Reconfigure => Splitter!Reconfigure
    BY DEF Walk!Reconfigure, Splitter!Reconfigure, Walk!Configure, Splitter!Configure
  <2> QED
    BY <2>1, <2>2, <2>4, <2>5 DEF Walk!Elsewhere, Splitter!Elsewhere
<1>4. Walk!Discard => Splitter!Discard
  BY DEF Walk!Discard, Splitter!Discard, Walk!Discarded, Splitter!Discarded, Walk!Configure, Splitter!Configure
<1>5. Walk!NoHeader \/ Walk!ZeroLength => Splitter!Refuse
  BY SplitterReads DEF Walk!NoHeader, Splitter!NoHeader, Walk!ZeroLength, Splitter!ZeroLength,
     Splitter!Refuse, Walk!InMessage, Splitter!InMessage, Walk!Finish, Splitter!Finish,
     Walk!Configure, Splitter!Configure, Walk!CountMalformed, Splitter!CountMalformed
<1>6. Walk!WalkReset => Splitter!WalkReset
  BY DEF Walk!WalkReset, Splitter!WalkReset, Walk!IntakeReset, Splitter!IntakeReset
<1>7. UNCHANGED Walk!walk => UNCHANGED Splitter!walk
  BY DEF Walk!walk, Splitter!walk, Walk!intake, Splitter!intake
<1>8. Walk!Finish => Splitter!Finish
  BY DEF Walk!Finish, Splitter!Finish
<1>9. Walk!Configure => Splitter!Configure
  BY DEF Walk!Configure, Splitter!Configure
<1> QED
  BY <1>1, <1>3, <1>4, <1>5, <1>6, <1>7, <1>8, <1>9

LEMMA SplitterMessages ==
  /\ Walk!InMessage => Splitter!InMessage
  /\ Walk!Lost => Splitter!Lost
  /\ Walk!Whole => Splitter!Whole
  /\ Walk!More => Splitter!More
  /\ Walk!Last => Splitter!Last
  /\ Walk!AsAnnounced <=> Splitter!AsAnnounced
<1>1. Walk!InMessage => Splitter!InMessage
  BY DEF Walk!InMessage, Splitter!InMessage, Walk!Configure, Splitter!Configure
<1>2. Walk!Whole => Splitter!Whole
  BY SplitterReads DEF Walk!Whole, Splitter!Whole
<1>3. Walk!More => Splitter!More
  BY <1>1, <1>2, SplitterReads DEF Walk!More, Splitter!More, Walk!Padded, Splitter!Padded
<1>4. Walk!Last => Splitter!Last
  BY <1>1, <1>2, SplitterReads DEF Walk!Last, Splitter!Last, Walk!Padded, Splitter!Padded,
     Walk!Finish, Splitter!Finish
<1>5. Walk!AsAnnounced <=> Splitter!AsAnnounced
  BY SplitterReads DEF Walk!AsAnnounced, Splitter!AsAnnounced, Walk!Padded, Splitter!Padded
<1>6. Walk!Lost => Splitter!Lost
  BY <1>1, SplitterWalks, SplitterReads DEF Walk!Lost, Splitter!Lost, Walk!Padded, Splitter!Padded,
     Walk!CountMalformed, Splitter!CountMalformed
<1> QED
  BY <1>1, <1>2, <1>3, <1>4, <1>5, <1>6

(* A body is cut short: what there is of it is sent, but for what one beat *)
(* does not carry.                                                         *)
LEMMA BodyCut ==
  ASSUME FramesInv, BodyTruncated
  PROVE  /\ Walk!InMessage /\ Walk!Finish /\ Walk!CountMalformed
         /\ Walk!Body \in Nat /\ Walk!Body < cur.len /\ Walk!BodyEnd > cur.len
         /\ Sent + body_out_bytes \in 1 .. cur.len - Walk!Body
         /\ Sent + body_out_bytes > cur.len - Walk!Body - KEEP_WIDTH
         /\ m_axis_tlast /\ m_axis_tuser = TRUE /\ Later /\ cur' = cur
<1>0. HeadersInv
  BY DEF FramesInv, IInv
<1>1. /\ BodyOut /\ state = "ST_MSG_BODY" /\ ~Empty /\ scratch_last /\ msg_bytes_remaining > Len(scratch)
      /\ Malformed /\ state' = "ST_PARSE" /\ body_truncated
  BY DEF BodyTruncated, body_truncated
<1>2. /\ Later /\ pos' = pos /\ cur' = cur /\ scratch_last = (pos = 0)
  BY <1>0, <1>1, Sending
<1>3. pos = 0
  BY <1>1, <1>2
<1>4. /\ InMessages /\ Consumed \in Nat /\ Len(scratch) \in Nat /\ Len(scratch) # 0 /\ KEEP_WIDTH \in Nat \ {0}
      /\ cur.len = Consumed + Len(scratch) /\ Len(scratch) <= 2 * KEEP_WIDTH - 1
  BY <1>0, <1>1, <1>3, Held, IsTyped DEF InMessages, Accepted, ScratchOK
<1>5. /\ Phase = "messages" /\ Walk!Body \in Nat /\ Walk!Body <= Consumed
      /\ Walk!BodyEnd = Consumed + msg_bytes_remaining /\ msg_bytes_remaining \in Nat
      /\ Walk!Body = Start + SUB_HEADER_BYTES
  BY <1>0, <1>1, WalkBody, InBody
<1>6. m_axis_tlast /\ m_axis_tuser = TRUE
  BY <1>1 DEF m_axis_tlast, m_axis_tuser
<1>7. /\ Sent \in Nat /\ body_out_bytes \in Nat
      /\ Walk!Body + Sent = Consumed
  BY <1>0, <1>1, SentBytes
<1>9. PICK n \in Nat, s \in Nat, b \in Nat, k \in Nat \ {0}, from \in Nat :
        n = Len(scratch) /\ s = Sent /\ b = body_out_bytes /\ k = KEEP_WIDTH /\ from = Walk!Body
  BY <1>4, <1>5, <1>7
<1>10. b <= n /\ b # 0 /\ b + k > n
  <2>1. b \in {msg_bytes_remaining, n, k} /\ b <= n
    BY <1>0, <1>1, <1>9, OutBytes
  <2>2. n # 0 /\ n <= 2 * k - 1 /\ msg_bytes_remaining > n
    BY <1>1, <1>4, <1>9
  <2> QED
    BY <1>5, <1>9, <2>1, <2>2
<1>11. cur.len = (from + s) + n
  BY <1>4, <1>7, <1>9, Zenon
<1>12. /\ s + b \in 1 .. cur.len - from /\ s + b > cur.len - from - k
  BY <1>9, <1>10, <1>11
<1>13. Walk!InMessage
  BY <1>2, <1>5 DEF Walk!InMessage, Walk!Configure, Later, ConfigEdge, outer
<1>14. Walk!Finish
  <2>1. pos' \in Nat /\ pos' = 0
    BY <1>2, <1>3
  <2> QED
    BY <1>1, <2>1, WalkFinish
<1>15. Walk!Body < cur.len /\ Walk!BodyEnd > cur.len
  <2>1. from < cur.len
    BY <1>9, <1>10, <1>11
  <2>2. Walk!BodyEnd > cur.len
    BY <1>1, <1>4, <1>5, <1>9
  <2> QED
    BY <1>9, <2>1, <2>2
<1>16. Walk!CountMalformed
  BY <1>1 DEF Malformed, Walk!CountMalformed
<1> QED
  BY <1>2, <1>5, <1>6, <1>9, <1>12, <1>13, <1>14, <1>15, <1>16

LEMMA SplitterCut ==
  ASSUME FramesInv, BodyTruncated, Sink
  PROVE  Splitter!Cut
<1>1. /\ Walk!InMessage /\ Walk!Finish /\ Walk!CountMalformed
      /\ Walk!Body \in Nat /\ Walk!Body < cur.len /\ Walk!BodyEnd > cur.len
      /\ Sent + body_out_bytes \in 1 .. cur.len - Walk!Body
      /\ Sent + body_out_bytes > cur.len - Walk!Body - KEEP_WIDTH
      /\ m_axis_tlast /\ m_axis_tuser = TRUE
  BY BodyCut
<1>2. delivered' = [payload |-> Splitter!Slice(cur, Walk!Body, Sent + body_out_bytes), error |-> TRUE, tdest |-> 0]
  BY <1>1, SentBeat DEF Output
<1>3. \E n \in 1 .. cur.len - Walk!Body :
        /\ n > cur.len - Walk!Body - KEEP_WIDTH
        /\ delivered' = [payload |-> Splitter!Slice(cur, Walk!Body, n), error |-> TRUE, tdest |-> 0]
  BY <1>1, <1>2
<1> QED
  BY <1>1, <1>3, SplitterMessages, SplitterWalks, SplitterReads
  DEF Splitter!Cut, Splitter!CountMalformed, Walk!CountMalformed

LEMMA BodyGone ==
  ASSUME FramesInv, Load, NoInput
  PROVE  Walk!Lost
<1>1. /\ state = "ST_MSG_BODY" /\ state' = "ST_PARSE" /\ pos' = 0 /\ cur' = cur /\ Later /\ Malformed
      /\ cur.len \in Nat /\ cur.len + KEEP_WIDTH = cur.end
      /\ Consumed <= cur.len /\ Walk!BodyEnd > cur.len
  BY BodyLost DEF FramesInv, IInv
<1>2. Phase = "messages" /\ Walk!Body \in Nat /\ Consumed \in Nat /\ Walk!Body <= Consumed
  BY <1>1, WalkBody DEF FramesInv, IInv
<1>3. Walk!InMessage
  BY <1>1, <1>2 DEF Walk!InMessage, Walk!Configure, Later, ConfigEdge, outer
<1>4. Walk!Finish
  <2>1. pos' \in Nat
    BY <1>1
  <2> QED
    BY <1>1, <2>1, WalkFinish
<1>5. Walk!Body <= cur.len /\ Walk!BodyEnd > cur.len /\ Walk!Padded
  BY <1>1, <1>2 DEF Walk!Padded
<1>6. Walk!CountMalformed 
  BY <1>1 DEF Malformed, Walk!CountMalformed
<1> QED
  BY <1>3, <1>4, <1>5, <1>6 DEF Walk!Lost

(* The last beat of a body: its mark, and where the frame stands.          *)
LEMMA BodyWhole ==
  ASSUME FramesInv, BodyComplete
  PROVE  /\ HeadersInv /\ SourceInv' /\ state = "ST_MSG_BODY" /\ Later /\ cur' = cur
         /\ Walk!BodyEnd \in Nat /\ Walk!BodyEnd <= Accepted' /\ (pos' = 0 => cur.len + KEEP_WIDTH # cur.end)
         /\ (pos' = 0 /\ Accepted' = Walk!BodyEnd) <=> (Rest = << >> /\ scratch_last)
         /\ scratch' = Rest => Consumed' = Walk!BodyEnd
         /\ sub_header_offset' = 0
         /\ (pos' = 0) = scratch_last
         /\ m_axis_tlast /\ m_axis_tuser = (\E q \in cur.user : q < Walk!BodyEnd)
         /\ Sent + body_out_bytes = Walk!Length
<1>0. HeadersInv /\ MarkInv /\ ReadWhenNeeded
  BY DEF FramesInv, IInv
<1>1. BodyOut /\ ~body_truncated /\ msg_bytes_remaining <= body_out_bytes
  BY DEF BodyComplete, body_completes
<1>2. /\ state = "ST_MSG_BODY" /\ Later /\ SourceInv' /\ pos' = pos /\ cur' = cur /\ Accepted' = Accepted
      /\ sub_header_offset' = sub_header_offset
      /\ Len(Rest) = Len(scratch) - body_out_bytes /\ (Rest = << >> <=> Len(Rest) = 0)
      /\ scratch_last = (pos = 0)
  BY <1>0, <1>1, Sending
<1>3. /\ InMessages /\ sub_header_offset = 0 /\ msg_bytes_remaining \in Nat
      /\ Consumed \in Nat /\ Len(scratch) \in Nat /\ Accepted = Consumed + Len(scratch)
  BY <1>0, <1>2, InBody, Held
<1>4. body_out_bytes \in Nat /\ body_out_bytes = msg_bytes_remaining /\ body_out_bytes <= Len(scratch)
  <2>1. body_out_bytes \in Nat /\ body_out_bytes <= msg_bytes_remaining /\ body_out_bytes <= Len(scratch)
    BY <1>0, <1>2, OutBytes
  <2> QED
    BY <1>1, <1>3, <2>1
<1>5. /\ Walk!Body \in Nat /\ Walk!Length \in Nat /\ Walk!BodyEnd = Walk!Body + Walk!Length
      /\ Walk!BodyEnd = Consumed + msg_bytes_remaining /\ Walk!Body <= Consumed
      /\ Walk!Body = Start + SUB_HEADER_BYTES
  BY <1>0, <1>2, WalkBody
<1>6. PICK c \in Nat, n \in Nat, b \in Nat :
        c = Consumed /\ n = Len(scratch) /\ b = body_out_bytes /\ b <= n /\ b = msg_bytes_remaining
        /\ Accepted = c + n /\ Walk!BodyEnd = c + b /\ Len(Rest) = n - b
  BY <1>2, <1>3, <1>4, <1>5
<1>7. Walk!BodyEnd \in Nat /\ Walk!BodyEnd <= Accepted' /\ (Accepted' = Walk!BodyEnd <=> Rest = << >>)
  <2>1. Accepted' = c + n
    BY <1>2, <1>6
  <2>2. n - b = 0 <=> Rest = << >>
    BY <1>2, <1>6
  <2> QED
    BY <1>6, <2>1, <2>2
<1>8. scratch' = Rest => Consumed' = Walk!BodyEnd
  <2>1. SUFFICES ASSUME scratch' = Rest PROVE Consumed' = Walk!BodyEnd
    OBVIOUS
  <2>2. Accepted' = c + n /\ Len(scratch') = n - b
    BY <1>2, <1>6, <2>1
  <2>3. Consumed' = (c + n) - (n - b)
    BY <2>2, Zenon DEF Consumed
  <2> QED
    BY <1>6, <2>3
<1>9. (pos' = 0) = scratch_last
  BY <1>2, Zenon
<1>10. pos' = 0 => cur.len + KEEP_WIDTH # cur.end
  BY <1>0, <1>2, <1>3 DEF HeadersInv, WalkInv
<1>11. /\ m_axis_tlast /\ m_axis_tuser = sticky_tuser
  BY <1>0, <1>1, <1>2, IsTyped DEF m_axis_tlast, m_axis_tuser, BodyOut, m_axis_tvalid, body_completes, RegistersOK
<1>12. Sent \in Nat /\ Walk!Body + Sent = Consumed
  BY <1>1, SentBytes
<1>13. Sent + body_out_bytes = Walk!Length
  BY <1>3, <1>4, <1>5, <1>12
<1>14. sticky_tuser = (\E q \in cur.user : q < Walk!BodyEnd)
  <2>1. sticky_tuser = (\E q \in cur.user : q < Accepted)
    BY <1>0, <1>3 DEF MarkInv
  <2>2. ASSUME NEW q \in cur.user PROVE (q < Accepted) <=> (q < Walk!BodyEnd)
    <3>1. q \in Nat
      BY <1>0, Held, FramesAssumption DEF IsFrame
    <3>2. q < Accepted => q < BodyEnd
      BY <1>0, <1>2, <1>3 DEF ReadWhenNeeded
    <3>3. BodyEnd = Walk!BodyEnd
      BY <1>5 DEF BodyEnd
    <3> QED
      BY <1>6, <3>1, <3>2, <3>3
  <2> QED
    BY <2>1, <2>2
<1> QED
  BY <1>0, <1>2, <1>3, <1>7, <1>8, <1>9, <1>10, <1>11, <1>12, <1>13, <1>14

LEMMA BodyNext ==
  ASSUME FramesInv, NextMessage
  PROVE  Walk!More /\ UNCHANGED malformed_count /\ Later /\ cur' = cur
<1>1. /\ BodyComplete /\ msg_remaining > 1 /\ ~(Rest = << >> /\ scratch_last)
      /\ msg_remaining' = msg_remaining - 1 /\ scratch' = Rest /\ state' = "ST_MSG_HDR"
      /\ malformed_count' = malformed_count
  BY DEF NextMessage
<1>2. /\ HeadersInv /\ SourceInv' /\ state = "ST_MSG_BODY" /\ Later /\ cur' = cur
      /\ Walk!BodyEnd <= Accepted' /\ (pos' = 0 => cur.len + KEEP_WIDTH # cur.end)
      /\ ~(pos' = 0 /\ Accepted' = Walk!BodyEnd)
      /\ Consumed' = Walk!BodyEnd /\ sub_header_offset' = 0
  BY <1>1, BodyWhole
<1> QED
  BY <1>1, <1>2, WalkNext

LEMMA BodyLast ==
  ASSUME FramesInv, LastMessage \/ ExtraBytes \/ MissingMessages
  PROVE  /\ Walk!Last /\ Later /\ cur' = cur
         /\ IF Walk!AsAnnounced THEN UNCHANGED malformed_count ELSE Walk!CountMalformed
<1> DEFINE ends == Rest = << >> /\ scratch_last
<1>1. BodyComplete
  BY DEF LastMessage, ExtraBytes, MissingMessages
<1>2. /\ HeadersInv /\ SourceInv' /\ state = "ST_MSG_BODY" /\ Later /\ cur' = cur
      /\ Walk!BodyEnd <= Accepted' /\ (pos' = 0 => cur.len + KEEP_WIDTH # cur.end)
      /\ (pos' = 0 /\ Accepted' = Walk!BodyEnd) <=> ends
      /\ (pos' = 0) = scratch_last
  BY <1>1, BodyWhole
<1>3. (pos' = 0 /\ state' = "ST_PARSE") \/ state' = "ST_DRAIN"
  BY <1>2 DEF LastMessage, ExtraBytes, MissingMessages, ParseOrDrain
<1>4. msg_remaining > 1 => ends
  BY <1>1, <1>2, InBody, IsTyped DEF LastMessage, ExtraBytes, MissingMessages, RegistersOK
<1>5. /\ Walk!Last /\ (Walk!AsAnnounced <=> msg_remaining = 1 /\ ends)
  BY <1>2, <1>3, <1>4, WalkLast
<1>6. msg_remaining \in Nat \ {0}
  BY <1>2, WalkWhole
<1>7. IF Walk!AsAnnounced THEN malformed_count' = malformed_count ELSE Malformed
  <2>1. CASE LastMessage
    BY <1>5, <1>6, <2>1 DEF LastMessage
  <2>2. CASE ExtraBytes
    BY <1>5, <2>2 DEF ExtraBytes
  <2>3. CASE MissingMessages
    BY <1>5, <1>6, <2>3 DEF MissingMessages
  <2> QED
    BY <2>1, <2>2, <2>3
<1> QED
  BY <1>2, <1>5, <1>7 DEF Malformed, Walk!CountMalformed

LEMMA SplitterWhole ==
  ASSUME FramesInv, NextMessage \/ LastMessage \/ ExtraBytes \/ MissingMessages, Sink
  PROVE  Splitter!Deliver
<1>1. BodyComplete /\ Output
  BY DEF LastMessage, ExtraBytes, MissingMessages, NextMessage, Output
<1>2. /\ m_axis_tlast /\ m_axis_tuser = (\E q \in cur.user : q < Walk!BodyEnd)
      /\ Sent + body_out_bytes = Walk!Length /\ Walk!Whole
  BY <1>1, BodyWhole, WalkWhole
<1>3. delivered' = [payload |-> Splitter!Slice(cur, Walk!Body, Walk!Length),
                    error |-> \E q \in cur.user : q < Walk!BodyEnd, tdest |-> 0]
  BY <1>1, <1>2, SentBeat
<1>4. \/ Splitter!More /\ UNCHANGED malformed_count
      \/ Splitter!Last /\ (IF Splitter!AsAnnounced THEN UNCHANGED malformed_count ELSE Splitter!CountMalformed)
  BY BodyNext, BodyLast, SplitterMessages DEF Walk!CountMalformed, Splitter!CountMalformed
<1> QED
  BY <1>2, <1>3, <1>4, SplitterMessages, SplitterReads DEF Splitter!Deliver

(* Every step of the parser and its sink is one MessageSplitter allows, or *)
(* leaves what it speaks of alone.                                         *)
LEMMA SplitterStep ==
  ASSUME NoneLeftOpen, FramesInv, [FramesNext]_framesVars
  PROVE  [Splitter!Next]_(Splitter!vars)
<1>0. HeadersInv
  BY DEF FramesInv, IInv
<1>1. CASE ((Present \/ IdleEdge) /\ UNCHANGED sink) \/ UNCHANGED framesVars
  <2>1. Walk!Elsewhere \/ UNCHANGED Walk!walk
    BY <1>1, WalkWaiting DEF Present, IdleEdge, framesVars, vars
  <2>2. UNCHANGED delivered
    BY <1>1 DEF framesVars, sink
  <2> QED
    BY <2>1, <2>2, SplitterWalks DEF Splitter!Next, Splitter!vars
<1>2. CASE Headers /\ UNCHANGED sink
  <2>1. Walk!Elsewhere \/ Walk!Discard \/ Walk!NoHeader \/ Walk!ZeroLength
    BY <1>0, <1>2, WalkParse, WalkNoHeader, WalkZeroLength, WalkSubHeader, WalkDrain DEF Headers
  <2> QED
    BY <1>2, <2>1, SplitterWalks DEF Splitter!Next, Splitter!Split, sink
<1>3. CASE Load /\ UNCHANGED sink
  <2>1. CASE NoInput
    BY <1>3, <2>1, BodyGone, SplitterMessages DEF Splitter!Next, Splitter!Split, sink
  <2>2. CASE ~NoInput
    <3>1. /\ state = "ST_MSG_BODY" /\ state' = "ST_MSG_BODY" /\ Later /\ cur' = cur
          /\ UNCHANGED <<msg_remaining, malformed_count>> /\ MessageFrom' = MessageFrom
      BY <1>0, <1>3, <2>2, SameBody
    <3>2. UNCHANGED <<Phase, WalkStart, WalkLeft>> /\ UNCHANGED <<drop_count, delivered>>
      BY <1>3, <3>1 DEF Phase, WalkStart, WalkLeft, InMessages, Start, Later, outer, sink
    <3>3. Splitter!Reconfigure
      BY <3>1, <3>2 DEF Splitter!Reconfigure, Splitter!Configure, Later, ConfigEdge
    <3> QED
      BY <3>1, <3>2, <3>3 DEF Splitter!Next, Splitter!Elsewhere
  <2> QED
    BY <2>1, <2>2
<1>4. CASE BodyMore /\ Sink
  <2>1. /\ state = "ST_MSG_BODY" /\ state' = "ST_MSG_BODY" /\ Later /\ cur' = cur
        /\ UNCHANGED <<msg_remaining, malformed_count>> /\ MessageFrom' = MessageFrom
    BY <1>0, <1>4, SameBody
  <2>2. delivered' = delivered
    <3>1. ~m_axis_tlast /\ Output
      BY <1>4 DEF BodyMore, m_axis_tlast, Output
    <3> QED
      BY <1>4, <3>1, SentBeat
  <2>3. UNCHANGED <<Phase, WalkStart, WalkLeft>> /\ UNCHANGED drop_count
    BY <2>1 DEF Phase, WalkStart, WalkLeft, InMessages, Start, Later, outer
  <2>4. Splitter!Reconfigure
    BY <2>1, <2>3 DEF Splitter!Reconfigure, Splitter!Configure, Later, ConfigEdge
  <2> QED
    BY <2>1, <2>2, <2>3, <2>4 DEF Splitter!Next, Splitter!Elsewhere
<1>5. CASE BodyTruncated /\ Sink
  BY <1>5, SplitterCut DEF Splitter!Next, Splitter!Split
<1>6. CASE (NextMessage \/ LastMessage \/ ExtraBytes \/ MissingMessages) /\ Sink
  BY <1>6, SplitterWhole DEF Splitter!Next, Splitter!Split
<1>7. CASE Reset /\ SinkReset
  <2>1. Walk!WalkReset
    BY <1>7, WalkResets DEF Reset
  <2> QED
    BY <1>7, <2>1, SplitterWalks DEF Splitter!Next, SinkReset
<1> QED
  BY <1>1, <1>2, <1>3, <1>4, <1>5, <1>6, <1>7 DEF FramesNext, Consume, Output

(***************************************************************************)
(* The parser and its sink do to whole frames what MessageSplitter allows  *)
(* and nothing else, for every bus width, definition and set of frames of  *)
(* which none ends unnoticed or with an output frame open.                 *)
(***************************************************************************)
THEOREM SplitsFrames == FramesEnd /\ NoneLeftOpen => (FramesSpec => Splitter!Safety)
<1> SUFFICES ASSUME FramesEnd, NoneLeftOpen PROVE FramesSpec => Splitter!Safety
  OBVIOUS
<1>1. FramesInit => Splitter!Init
  <2> SUFFICES ASSUME FramesInit PROVE Splitter!Init
    OBVIOUS
  <2>1. Splitter!WalkInit
    BY WalkBegins, SplitterWalks DEF FramesInit, Init
  <2> QED
    BY <2>1 DEF FramesInit, SinkInit, Nothing, Splitter!Init, Splitter!Nothing
<1>2. FramesInv /\ [FramesNext]_framesVars => [Splitter!Next]_(Splitter!vars)
  BY SplitterStep
<1>3. FramesSpec => []FramesInv
  BY FramesInvariance
<1> QED
  BY <1>1, <1>2, <1>3, PTL DEF FramesSpec, Splitter!Safety
==============================================================================
