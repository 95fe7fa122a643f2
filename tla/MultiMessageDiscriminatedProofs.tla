-------------------- MODULE MultiMessageDiscriminatedProofs --------------------
(***************************************************************************)
(* Proofs, for every bus width, definition of messages and of variants and *)
(* set of frames that meets the assumptions and of which none ends where   *)
(* the parser does not look, that IInv is an invariant of                  *)
(* MultiMessageDiscriminated, that its safety properties follow from it,   *)
(* and that parser and consumer refine MessageReader.                      *)
(***************************************************************************)
EXTENDS MultiMessageDiscriminated, MessageHeadersProofs

(* The fields of a message and the registers that capture them. *)

(* The places a field is captured at by one discriminator: at most one,    *)
(* and the one of its variant.                                             *)
LEMMA Places ==
  ASSUME NEW f \in FieldNames
  PROVE  /\ Size(f) \in Nat \ {0}
         /\ \A at \in Locations(f) : at.offset \in Nat /\ at.length = Size(f)
         /\ Cardinality(Locations(f)) # 1 => Cardinality(Locations(f)) > 1
         /\ \A k : CaptureAt(f, k) \subseteq Locations(f)
         /\ \A k : \A a, b \in CaptureAt(f, k) : a = b
         /\ \A k \in DOMAIN Variants : f \in MessageFields(k) => LocationIn(k, f) \in CaptureAt(f, k)
         /\ \A i \in 0 .. Size(f) - 1 : <<f, i>> \in RegBytes
<1>1. Locations(f) # {}
  BY DEF FieldNames, Locations, VariantsWith
<1>2. \A at \in Locations(f) : at.offset \in Nat /\ at.length \in Nat \ {0} /\ at.length = Size(f)
  BY VariantPlanAssumption
<1>3. Size(f) \in Nat \ {0}
  BY <1>1, <1>2
<1>4. IsFiniteSet(Locations(f))
  <2>1. CASE f \in DOMAIN CommonFields
    BY <2>1, FS_Singleton DEF Locations
  <2>2. CASE f \notin DOMAIN CommonFields
    <3> DEFINE place == [k \in VariantsWith(f) |-> Variants[k][f]]
    <3>1. IsFiniteSet(VariantsWith(f))
      BY VariantPlanAssumption, FS_Subset DEF VariantsWith
    <3>2. Locations(f) = {Variants[k][f] : k \in VariantsWith(f)}
      BY <2>2 DEF Locations
    <3>3. place \in Surjection(VariantsWith(f), Locations(f))
      BY <3>2 DEF Surjection
    <3> QED
      BY <3>1, <3>3, FS_Surjection
  <2> QED
    BY <2>1, <2>2
<1>5. Cardinality(Locations(f)) \in Nat \ {0}
  BY <1>1, <1>4, FS_CardinalityType, FS_EmptySet
<1>6. Cardinality(Locations(f)) = 1 => \E at : Locations(f) = {at}
  BY <1>4, FS_Singleton
<1>7. ASSUME NEW k PROVE CaptureAt(f, k) \subseteq Locations(f) /\ \A a, b \in CaptureAt(f, k) : a = b
  <2>1. CASE Cardinality(Locations(f)) = 1
    BY <1>6, <2>1 DEF CaptureAt
  <2>2. CASE Cardinality(Locations(f)) # 1
    <3>1. f \notin DOMAIN CommonFields
      BY <2>2, FS_Singleton DEF Locations
    <3>2. Locations(f) = {Variants[v][f] : v \in VariantsWith(f)}
      BY <3>1 DEF Locations
    <3>3. CaptureAt(f, k) = {Variants[v][f] : v \in {k} \cap VariantsWith(f)}
      BY <2>2 DEF CaptureAt
    <3> QED
      BY <3>2, <3>3
  <2> QED
    BY <2>1, <2>2
<1>8. ASSUME NEW k \in DOMAIN Variants, f \in MessageFields(k)
      PROVE  LocationIn(k, f) \in CaptureAt(f, k)
  <2>1. CASE f \in DOMAIN CommonFields
    <3>1. Locations(f) = {CommonFields[f]} /\ LocationIn(k, f) = CommonFields[f]
      BY <2>1 DEF Locations, LocationIn
    <3>2. CaptureAt(f, k) = Locations(f)
      BY <3>1, FS_Singleton DEF CaptureAt
    <3> QED
      BY <3>1, <3>2
  <2>2. CASE f \notin DOMAIN CommonFields
    <3>1. k \in VariantsWith(f) /\ LocationIn(k, f) = Variants[k][f]
      BY <1>8, <2>2 DEF MessageFields, VariantsWith, LocationIn
    <3>2. Variants[k][f] \in Locations(f)
      BY <2>2, <3>1 DEF Locations
    <3> QED
      BY <3>1, <3>2 DEF CaptureAt
  <2> QED
    BY <2>1, <2>2
<1>9. \A i \in 0 .. Size(f) - 1 : <<f, i>> \in RegBytes
  BY DEF RegBytes
<1> QED
  BY <1>2, <1>3, <1>5, <1>7, <1>8, <1>9

(* The discriminator lies within every variant, and registers that hold    *)
(* its bytes hold its value.                                               *)
LEMMA Keyed ==
  LET at == CommonFields[discriminator]
  IN  /\ discriminator \in FieldNames /\ CaptureAt(discriminator, 0) = {at} /\ Locations(discriminator) = {at}
      /\ at.offset \in Nat /\ Ends(at) \in Nat /\ at.offset < Ends(at)
      /\ \A k \in DOMAIN Variants : Ends(at) <= variant_length[k]
      /\ \A reg, f : \A from, n \in Nat : Hold(reg, f, from, n) /\ Ends(at) <= n => KeyIn(reg) = KeyAt(f, from)
<1> DEFINE at == CommonFields[discriminator]
<1>1. discriminator \in FieldNames /\ Locations(discriminator) = {at}
  BY VariantPlanAssumption DEF FieldNames, Locations
<1>2. at.offset \in Nat /\ at.length = Size(discriminator) /\ Size(discriminator) \in Nat \ {0}
  BY <1>1, Places
<1>3. Ends(at) = at.offset + Size(discriminator) /\ Ends(at) \in Nat /\ at.offset < Ends(at)
  BY <1>2 DEF Ends
<1>4. \A k : CaptureAt(discriminator, k) = {at}
  BY <1>1, FS_Singleton DEF CaptureAt
<1>5. ASSUME NEW k \in DOMAIN Variants PROVE Ends(at) <= variant_length[k]
  <2>1. discriminator \in MessageFields(k) /\ LocationIn(k, discriminator) = at
    BY VariantPlanAssumption DEF MessageFields, LocationIn
  <2> QED
    BY <2>1, VariantPlanAssumption
<1>6. ASSUME NEW reg, NEW f, NEW from \in Nat, NEW n \in Nat, Hold(reg, f, from, n), Ends(at) <= n
      PROVE  KeyIn(reg) = KeyAt(f, from)
  <2>1. ASSUME NEW p \in at.offset .. Ends(at) - 1
        PROVE  reg[<<discriminator, p - at.offset>>] = f.data[from + p]
    <3>1. /\ p - at.offset \in 0 .. Size(discriminator) - 1
          /\ at.offset + (p - at.offset) = p /\ p < n /\ from + at.offset + (p - at.offset) = from + p
      <4> HIDE DEF at
      <4> QED
        BY <1>2, <1>3, <1>6
    <3> QED
      BY <1>1, <1>4, <1>6, <3>1 DEF Hold
  <2>2. [p \in at.offset .. Ends(at) - 1 |-> reg[<<discriminator, p - at.offset>>]]
          = [p \in at.offset .. Ends(at) - 1 |-> f.data[from + p]]
    BY <2>1
  <2> QED
    BY <2>2, Zenon DEF KeyIn, KeyAt
<1> QED
  BY <1>1, <1>2, <1>3, <1>4, <1>5, <1>6

(* Registers that hold all the bytes of a message announce that message.   *)
LEMMA Outputs ==
  ASSUME NEW reg, NEW f, NEW from \in Nat, NEW n \in Nat, Hold(reg, f, from, n),
         KeyAt(f, from) \in DOMAIN Variants, variant_length[KeyAt(f, from)] <= n
  PROVE  OutputsOf(reg) = MessageAt(f, from)
<1> DEFINE k == KeyAt(f, from)
<1>1. KeyIn(reg) = k
  <2>1. variant_length[k] \in Nat
    BY VariantPlanAssumption
  <2>2. Ends(CommonFields[discriminator]) <= n
    BY <2>1, Keyed
  <2> QED
    BY <2>2, Keyed
<1>2. ASSUME NEW name \in MessageFields(k)
      PROVE  [i \in 1 .. Size(name) |-> reg[<<name, i - 1>>]]
               = [i \in 1 .. LocationIn(k, name).length |-> f.data[from + LocationIn(k, name).offset + i - 1]]
  <2> DEFINE at == LocationIn(k, name)
  <2>1. name \in FieldNames
    BY DEF MessageFields, FieldNames
  <2>2. at \in CaptureAt(name, k) /\ at \in Locations(name) /\ at.offset \in Nat /\ at.length = Size(name)
        /\ Size(name) \in Nat
    BY <2>1, Places
  <2>3. at.offset + at.length <= variant_length[k] /\ variant_length[k] \in Nat
    BY VariantPlanAssumption DEF Ends
  <2>4. ASSUME NEW i \in 1 .. Size(name)
        PROVE  reg[<<name, i - 1>>] = f.data[from + at.offset + i - 1]
    <3> HIDE DEF at
    <3>1. /\ i - 1 \in 0 .. Size(name) - 1 /\ at.offset + (i - 1) < n
          /\ from + at.offset + i - 1 = from + at.offset + (i - 1)
      BY <2>2, <2>3
    <3> QED
      BY <2>1, <2>2, <3>1 DEF Hold
  <2> QED
    BY <2>2, <2>4
<1>3. MessageAt(f, from) =
        [key |-> k, fields |-> [name \in MessageFields(k) |->
           [i \in 1 .. LocationIn(k, name).length |-> f.data[from + LocationIn(k, name).offset + i - 1]]]]
  BY DEF MessageAt
<1>4. OutputsOf(reg) =
        [key |-> k, fields |-> [name \in MessageFields(k) |-> [i \in 1 .. Size(name) |-> reg[<<name, i - 1>>]]]]
  BY <1>1, Zenon DEF OutputsOf
<1> HIDE DEF k
<1> QED
  BY <1>2, <1>3, <1>4

(* Nothing is held of no bytes. *)
LEMMA HoldNothing == \A reg, f, from : Hold(reg, f, from, 0)
<1>1. SUFFICES ASSUME NEW name \in FieldNames, NEW at \in Locations(name), NEW i \in 0 .. Size(name) - 1
               PROVE  ~(at.offset + i < 0)
  BY DEF Hold
<1>2. at.offset \in Nat /\ Size(name) \in Nat
  BY Places
<1> QED
  BY <1>2

(* A byte that is put where the registers say it belongs is where the      *)
(* message has it.                                                         *)
LEMMA OneMore ==
  ASSUME NEW reg, NEW new, NEW f, NEW from \in Nat, NEW n \in Nat, DiscriminatorFirst, Hold(reg, f, from, n),
         \A name \in FieldNames : \A i \in 0 .. Size(name) - 1 :
           new[<<name, i>>] = IF n \in {at.offset + i : at \in CaptureAt(name, KeyIn(reg))}
                              THEN f.data[from + n] ELSE reg[<<name, i>>]
  PROVE  Hold(new, f, from, n + 1)
<1> DEFINE first == CommonFields[discriminator]
           key   == KeyAt(f, from)
<1>1. SUFFICES ASSUME NEW name \in FieldNames, NEW at \in Locations(name), NEW i \in 0 .. Size(name) - 1,
                      at.offset + i < n + 1, at \in CaptureAt(name, key)
               PROVE  new[<<name, i>>] = f.data[from + at.offset + i]
  BY DEF Hold
<1>2. at.offset \in Nat /\ Size(name) \in Nat /\ i \in Nat /\ at.offset + i <= n /\ at.offset <= n
  <2>1. at.offset \in Nat /\ Size(name) \in Nat
    BY Places
  <2> QED
    BY <1>1, <2>1
<1>3. CaptureAt(name, KeyIn(reg)) = CaptureAt(name, key)
  <2>1. CASE Cardinality(Locations(name)) = 1
    BY <2>1 DEF CaptureAt
  <2>2. CASE Cardinality(Locations(name)) # 1
    <3>1. Cardinality(Locations(name)) > 1
      BY <2>2, Places
    <3>2. at.offset >= Ends(first)
      BY <3>1 DEF DiscriminatorFirst
    <3>3. Ends(first) \in Nat
      BY Keyed
    <3>4. Ends(first) <= n
      <4> HIDE DEF first
      <4> QED
        BY <1>2, <3>2, <3>3
    <3>5. KeyIn(reg) = key
      BY <3>4, Keyed
    <3> QED
      BY <3>5
  <2> QED
    BY <2>1, <2>2
<1>4. CaptureAt(name, KeyIn(reg)) = {at}
  BY <1>1, <1>3, Places
<1>5. new[<<name, i>>] = IF n = at.offset + i THEN f.data[from + n] ELSE reg[<<name, i>>]
  BY <1>4
<1>6. CASE at.offset + i = n
  <2>1. from + at.offset + i = from + n
    BY <1>2, <1>6
  <2> QED
    BY <1>5, <1>6, <2>1
<1>7. CASE at.offset + i # n
  <2>1. at.offset + i < n
    BY <1>2, <1>7
  <2>2. reg[<<name, i>>] = f.data[from + at.offset + i]
    BY <1>1, <2>1 DEF Hold
  <2> QED
    BY <1>5, <1>7, <2>2
<1> QED
  BY <1>6, <1>7

------------------------------------------------------------------------------

(* Counting one on and wrapping commute. *)
LEMMA Wrapped ==
  ASSUME NEW m \in Nat \ {0}, NEW a \in Nat
  PROVE  ((a % m) + 1) % m = (a + 1) % m /\ a % m \in 0 .. m - 1 /\ (a < m => a % m = a)
<1> DEFINE q == a \div m
           r == a % m
<1>1. q \in Nat /\ r \in 0 .. m - 1 /\ a = q * m + r
  BY Z3
<1>2. a < m => r = a
  BY Z3
<1> HIDE DEF q, r
<1>3. (r + 1) % m = (a + 1) % m
  <2>1. q * m \in Nat /\ (q + 1) * m \in Nat /\ (q + 1) * m = q * m + m
    BY <1>1
  <2>2. CASE r + 1 < m
    BY <1>1, <2>1, <2>2, Z3
  <2>3. CASE r + 1 = m
    BY <1>1, <2>1, <2>3, Z3
  <2> QED
    BY <1>1, <2>2, <2>3
<1> QED
  BY <1>1, <1>2, <1>3 DEF r

------------------------------------------------------------------------------
(* ST_MSG_BODY: what the steps the two parsers have in common rely on. *)

(* A byte of a body is taken. *)
LEMMA BodyByte ==
  ASSUME HeadersInv, PayloadByte, msg_bytes_remaining' \in Nat, msg_remaining' \in Nat,
         Malformed \/ (MarkByte /\ UNCHANGED malformed_count)
  PROVE  /\ SourceInv' /\ RegistersOK' /\ cur' = cur /\ beat_count' = 0 /\ HeaderHeld' /\ Count' = Count
         /\ fields_fresh' = FALSE /\ sub_reg' = sub_reg /\ sub_header_offset' = 0
         /\ scratch_last' = is_last_beat /\ is_last_beat = (pos' = 0)
<1>1. /\ state = "ST_MSG_BODY" /\ TakeByte /\ Later /\ scratch_last' = is_last_beat
      /\ UNCHANGED <<sub_header_offset, sub_reg>>
  BY DEF PayloadByte, TakeByte
<1>2. InMessages /\ sub_header_offset = 0
  BY <1>1, InBody
<1>3. SourceInv' /\ cur' = cur /\ is_last_beat = (pos' = 0) /\ (MarkByte => sticky_tuser' \in BOOLEAN)
  BY <1>1, <1>2, Taking
<1>4. /\ beat_count' = 0 /\ HeaderHeld' /\ fields_fresh' = FALSE
      /\ field_reg' \in [HeaderBytes -> Byte] /\ cfg_reg' \in ConfigValues \cup {CONFIG_DEFAULT}
      /\ drop_count' \in [DropConditions -> 0 .. COUNTER_MOD - 1]
      /\ Count' = Count
  BY <1>1, <1>3, Stays
<1>5. malformed_count' \in 0 .. COUNTER_MOD - 1 /\ sticky_tuser' \in BOOLEAN
  <2>1. CASE Malformed
    BY <2>1, Counters, IsTyped DEF Malformed
  <2>2. CASE MarkByte /\ UNCHANGED malformed_count
    BY <1>3, <2>2, IsTyped DEF RegistersOK
  <2> QED
    BY <2>1, <2>2
<1>6. RegistersOK'
  BY <1>1, <1>4, <1>5, IsTyped DEF RegistersOK
<1> QED
  BY <1>1, <1>2, <1>3, <1>4, <1>6

(* The frame goes on behind it. *)
LEMMA ByteGoesOn ==
  ASSUME HeadersInv, PayloadByte, ~is_last_byte, scratch' = Tail(Pad)
  PROVE  /\ ScratchOK' /\ Consumed \in Nat /\ Consumed' = Consumed + 1 /\ Consumed + 1 <= cur.len
         /\ \E c \in Nat : c = Consumed + 1 /\ InFrame(c)'
<1>1. /\ state = "ST_MSG_BODY" /\ TakeByte /\ scratch_last' = is_last_beat
  BY DEF PayloadByte, TakeByte
<1>2. /\ cur' = cur /\ cur.len \in Nat /\ TOTAL_LENGTH \in Nat
      /\ Consumed \in Nat /\ Consumed >= TOTAL_LENGTH /\ KEEP_WIDTH \in Nat
      /\ Len(Pad) \in Nat \ {0} /\ Len(Pad) <= 2 * KEEP_WIDTH - 1
      /\ Tail(Pad) = Slice(cur, Consumed + 1, Len(Pad) - 1)
      /\ Tail(Pad) \in Seq(Byte) /\ Len(Tail(Pad)) = Len(Pad) - 1
      /\ Accepted' = Consumed + Len(Pad) /\ Consumed + Len(Pad) <= cur.len
      /\ pos' \in Nat /\ is_last_beat = (pos' = 0)
      /\ (pos' = 0 => cur.len + KEEP_WIDTH # cur.end)
  BY <1>1, Taking, Layout DEF InMessages
<1>3. ScratchOK'
  BY <1>1, <1>2 DEF ScratchOK
<1>4. Len(scratch') = Len(Pad) - 1 /\ Consumed' = Consumed + 1
  BY <1>2 DEF Consumed
<1>5. PICK c \in Nat : c = Consumed + 1
  BY <1>2
<1>6. InFrame(c)'
  <2>1. Len(scratch') = 0 => pos' # 0
    <3>1. Len(scratch') = 0 => Len(Pad) = 1
      BY <1>2, <1>4
    <3>2. ~(Len(Pad) = 1 /\ is_last_beat) /\ (pos' = 0 => is_last_beat)
      BY <1>2, Zenon DEF is_last_byte
    <3> QED
      BY <3>1, <3>2
  <2>2. c \in Nat /\ c >= TOTAL_LENGTH /\ scratch' = Slice(cur', c, Len(scratch')) /\ Consumed' = c
    BY <1>2, <1>4, <1>5
  <2> QED
    BY <1>1, <1>2, <2>1, <2>2 DEF InFrame
<1> QED
  BY <1>2, <1>3, <1>4, <1>5, <1>6

LEMMA KeepsPayloadMore ==
  ASSUME HeadersInv, PayloadMore
  PROVE  HeadersInv' /\ Start' = Start
<1>1. /\ PayloadByte /\ msg_bytes_remaining # 1 /\ ~is_last_byte
      /\ msg_bytes_remaining' = msg_bytes_remaining - 1 /\ scratch' = Tail(Pad) /\ MarkByte
      /\ UNCHANGED <<state, msg_remaining, malformed_count>>
  BY DEF PayloadMore
<1>2. state = "ST_MSG_BODY"
  BY <1>1 DEF PayloadByte
<1>3. /\ InMessages /\ SUB_HEADER_BYTES \in Nat \ {0}
      /\ MsgLen(sub_reg) \in Nat /\ msg_bytes_remaining \in 1 .. MsgLen(sub_reg) /\ msg_bytes_remaining \in Nat
      /\ sub_reg = SubHeader(cur, Start)
      /\ Start = (Consumed + msg_bytes_remaining) - MsgLen(sub_reg) - SUB_HEADER_BYTES
  BY <1>2, InBody
<1>4. msg_bytes_remaining' \in 1 .. MsgLen(sub_reg) /\ msg_bytes_remaining' \in Nat /\ msg_remaining' \in Nat
  BY <1>1, <1>3, IsTyped DEF RegistersOK
<1>5. /\ SourceInv' /\ RegistersOK' /\ cur' = cur /\ beat_count' = 0 /\ HeaderHeld' /\ Count' = Count
      /\ sub_reg' = sub_reg /\ sub_header_offset' = 0
  BY <1>1, <1>4, BodyByte
<1>6. ScratchOK' /\ Consumed \in Nat /\ Consumed' = Consumed + 1 /\ \E c \in Nat : InFrame(c)'
  BY <1>1, ByteGoesOn
<1>7. PICK c \in Nat : InFrame(c)'
  BY <1>6
<1>8. MsgLen(sub_reg)' = MsgLen(sub_reg)
  BY <1>5
<1>9. Start' = Start
  <2>1. Start' = (Consumed' + msg_bytes_remaining') - MsgLen(sub_reg)' - SUB_HEADER_BYTES
    BY <1>1, <1>2 DEF Start, MessageFrom, BodyEnd
  <2> QED
    BY <1>1, <1>3, <1>6, <1>8, <2>1
<1>10. PICK start : start = Start
  OBVIOUS
<1>11. OnMessage(start)'
  <2>1. \E k \in 1 .. Count : msg_remaining = Count - k + 1 /\ \E at \in Starts(cur, k) : at[k] = start
    BY <1>3, <1>10, OnIt
  <2> QED
    BY <1>1, <1>5, <1>9, <1>10, <2>1 DEF OnMessage
<1>12. SubHeaderInv' /\ BodyInv'
  <2>1. sub_reg' = SubHeader(cur', start)
    BY <1>3, <1>5, <1>10
  <2> QED
    BY <1>1, <1>2, <1>4, <1>5, <1>8, <1>9, <1>10, <2>1 DEF SubHeaderInv, BodyInv
<1>13. HeadersInv'
  BY <1>1, <1>2, <1>5, <1>6, <1>7, <1>11, <1>12, AmongMessages
<1> QED
  BY <1>9, <1>13

(* The message, or the frame, ends with this byte and no message follows.  *)
LEMMA KeepsPayloadEnds ==
  ASSUME HeadersInv, PayloadShort \/ LastMessage \/ ExtraBytes \/ MissingMessages
  PROVE  HeadersInv'
<1>1. /\ PayloadByte /\ msg_remaining' = 0
      /\ msg_bytes_remaining' \in {msg_bytes_remaining, msg_bytes_remaining - 1}
      /\ Malformed \/ (MarkByte /\ UNCHANGED malformed_count)
      /\ scratch' \in {<< >>, Tail(Pad)}
  BY DEF PayloadShort, LastMessage, ExtraBytes, MissingMessages, PayloadComplete, Judged
<1>2. /\ state = "ST_MSG_BODY" /\ TakeByte
  BY <1>1 DEF PayloadByte
<1>3. msg_bytes_remaining' \in Nat /\ msg_remaining' \in Nat
  <2>1. MsgLen(sub_reg) \in Nat /\ msg_bytes_remaining \in 1 .. MsgLen(sub_reg)
    BY <1>2, InBody
  <2> QED
    BY <1>1, <2>1
<1>4. /\ SourceInv' /\ RegistersOK' /\ cur' = cur /\ beat_count' = 0 /\ HeaderHeld'
      /\ fields_fresh' = FALSE /\ scratch_last' = is_last_beat /\ is_last_beat = (pos' = 0)
  BY <1>1, <1>3, BodyByte
<1>5. ScratchOK'
  <2>1. << >> \in Seq(Byte) /\ Len(<< >>) <= 2 * KEEP_WIDTH - 1 /\ KEEP_WIDTH \in Nat
    BY Layout
  <2>2. Tail(Pad) \in Seq(Byte) /\ Len(Tail(Pad)) <= 2 * KEEP_WIDTH - 1
    <3>1. Len(Pad) \in Nat \ {0} /\ Len(Pad) <= 2 * KEEP_WIDTH - 1 /\ Tail(Pad) \in Seq(Byte)
          /\ Len(Tail(Pad)) = Len(Pad) - 1
      BY <1>2, Taking DEF InMessages
    <3> QED
      BY <2>1, <3>1
  <2> QED
    BY <1>1, <1>4, <2>1, <2>2 DEF ScratchOK
<1>6. (is_last_beat /\ state' = "ST_PARSE") \/ (~is_last_beat /\ state' = "ST_DRAIN")
  <2>1. CASE PayloadShort \/ LastMessage \/ MissingMessages
    BY <2>1 DEF PayloadShort, LastMessage, MissingMessages, is_last_byte
  <2>2. CASE ExtraBytes
    BY <2>2 DEF ExtraBytes, ParseOrDrain
  <2> QED
    BY <2>1, <2>2
<1>7. CASE is_last_beat /\ state' = "ST_PARSE"
  <2>1. pos' = 0
    BY <1>4, <1>7
  <2> QED
    BY <1>4, <1>5, <1>7, <2>1, BetweenFrames
<1>8. CASE ~is_last_beat /\ state' = "ST_DRAIN"
  <2>1. pos' # 0
    BY <1>4, <1>8
  <2> QED
    BY <1>4, <1>5, <1>8, <2>1, RestDrained
<1> QED
  BY <1>6, <1>7, <1>8

(* The next message starts behind this byte, the last one of this one.     *)
LEMMA KeepsNextMessage ==
  ASSUME HeadersInv, NextMessage
  PROVE  HeadersInv'
<1>1. /\ PayloadByte /\ msg_bytes_remaining = 1 /\ msg_bytes_remaining' = 1 /\ msg_remaining > 1
      /\ msg_remaining' = msg_remaining - 1 /\ state' = "ST_MSG_HDR"
      /\ ~is_last_byte /\ scratch' = Tail(Pad)
      /\ Malformed \/ (MarkByte /\ UNCHANGED malformed_count)
  BY DEF NextMessage, PayloadComplete, Judged
<1>2. state = "ST_MSG_BODY"
  BY <1>1 DEF PayloadByte
<1>3. /\ SourceInv' /\ RegistersOK' /\ cur' = cur /\ beat_count' = 0 /\ HeaderHeld' /\ Count' = Count
      /\ sub_reg' = sub_reg /\ sub_header_offset' = 0
  <2>1. msg_remaining' \in Nat
    BY <1>1, IsTyped DEF RegistersOK
  <2> QED
    BY <1>1, <2>1, BodyByte
<1>4. /\ ScratchOK' /\ Consumed \in Nat /\ Consumed' = Consumed + 1 /\ Consumed + 1 <= cur.len
      /\ \E c \in Nat : c = Consumed + 1 /\ InFrame(c)'
  BY <1>1, ByteGoesOn
<1>5. PICK c \in Nat : c = Consumed + 1 /\ InFrame(c)'
  BY <1>4
<1>6. c \in TOTAL_LENGTH .. cur.len /\ c = BodyEnd
  <2>1. Consumed >= TOTAL_LENGTH /\ cur.len \in Nat /\ TOTAL_LENGTH \in Nat
    BY <1>2, InBody, Held, Layout
  <2> QED
    BY <1>1, <1>4, <1>5, <2>1 DEF BodyEnd
<1>7. \E n \in 1 .. Count : msg_remaining - 1 = Count - n + 1 /\ \E at \in Starts(cur, n) : at[n] = c
  BY <1>1, <1>2, <1>6, Further
<1>8. Start' = c
  BY <1>1, <1>3, <1>4, <1>5 DEF Start
<1>9. OnMessage(c)'
  BY <1>1, <1>3, <1>7, <1>8 DEF OnMessage
<1>10. SubHeaderInv' /\ BodyInv'
  <2>1. \A o \in SubBytes : ~(o < sub_header_offset')
    BY <1>3, MessagePlanAssumption DEF SubOffsets
  <2> QED
    BY <1>1, <2>1 DEF SubHeaderInv, BodyInv
<1> QED
  BY <1>1, <1>3, <1>4, <1>5, <1>9, <1>10, AmongMessages

(* An empty beat where a byte of a body should be. *)
LEMMA KeepsPayloadTerminator ==
  ASSUME HeadersInv, PayloadTerminator
  PROVE  HeadersInv'
<1>1. /\ state = "ST_MSG_BODY" /\ Empty /\ NoInput /\ Handshake /\ Later /\ Malformed /\ state' = "ST_PARSE"
      /\ msg_bytes_remaining' = 0 /\ msg_remaining' = 0
      /\ UNCHANGED <<scratches, sub_header_offset, sub_reg>>
  BY DEF PayloadTerminator
<1>2. SourceInv /\ cur = src
  BY <1>1, Held DEF InMessages
<1>3. SourceInv' /\ cur' = cur /\ pos' = 0
  BY <1>1, <1>2, Taken DEF NoInput
<1>4. /\ beat_count' = 0 /\ HeaderHeld' /\ fields_fresh' = FALSE
      /\ field_reg' \in [HeaderBytes -> Byte] /\ cfg_reg' \in ConfigValues \cup {CONFIG_DEFAULT}
      /\ drop_count' \in [DropConditions -> 0 .. COUNTER_MOD - 1]
  BY <1>1, <1>3, Stays
<1>5. malformed_count' \in 0 .. COUNTER_MOD - 1 /\ sticky_tuser' = TRUE
  BY <1>1, Counters, IsTyped DEF Malformed
<1>6. RegistersOK' /\ ScratchOK'
  BY <1>1, <1>4, <1>5, IsTyped DEF RegistersOK, ScratchOK, scratches
<1> QED
  BY <1>1, <1>3, <1>4, <1>6, BetweenFrames

LEMMA KeepsHeaders ==
  ASSUME FramesEnd, HeadersInv, [Next]_vars
  PROVE  HeadersInv'
<1>1. CASE Present \/ IdleEdge \/ UNCHANGED vars
  BY <1>1, KeepsWaiting DEF Present, IdleEdge, vars
<1>2. CASE Parse \/ MessageHeader \/ BeginPayload \/ DrainFrame
  BY <1>2, KeepsParseEdge, KeepsTerminator, KeepsSubHeaderMore, KeepsSubHeaderEnds, KeepsBeginBody,
     KeepsDrain DEF Parse, MessageHeader, BeginPayload, DrainFrame
<1>3. CASE Payload
  BY <1>3, KeepsPayloadTerminator, KeepsPayloadMore, KeepsPayloadEnds, KeepsNextMessage DEF Payload
<1>4. CASE Reset
  BY <1>4, KeepsReset DEF Reset
<1> QED
  BY <1>1, <1>2, <1>3, <1>4 DEF Next, Consume

------------------------------------------------------------------------------
(* The registers of a message. *)

LEMMA KeepsType ==
  ASSUME HeadersInv, HeadersInv', TypeOK, [Next]_vars
  PROVE  TypeOK'
<1>1. CommonTypeOK'
  BY DEF HeadersInv
<1>2. /\ msg_len_captured \in Nat /\ sub_parse_offset \in 0 .. OFFSET_MOD - 1
      /\ itch_reg \in [RegBytes -> Byte] /\ OFFSET_MOD \in Nat \ {0}
      /\ itch_fields_valid \in BOOLEAN /\ itch_fields_fresh \in BOOLEAN
  BY OffsetAssumption DEF TypeOK
<1>3. msg_len_captured' \in Nat
  <2>1. CASE BeginPayload
    BY <2>1, SubByte DEF BeginPayload, BeginBody, SubHeaderComplete
  <2>2. CASE ~BeginPayload
    BY <1>2, <2>2 DEF Next, vars, payload, Present, Consume, Parse, MessageHeader, Payload, PayloadTerminator,
           PayloadMore, PayloadShort, LastMessage, ExtraBytes, MissingMessages, NextMessage,
           PayloadComplete, PayloadByte, DrainFrame, IdleEdge, Reset
  <2> QED
    BY <2>1, <2>2
<1>4. sub_parse_offset' \in 0 .. OFFSET_MOD - 1
  <2>1. 0 \in 0 .. OFFSET_MOD - 1 /\ (sub_parse_offset + 1) % OFFSET_MOD \in 0 .. OFFSET_MOD - 1
    BY <1>2, Wrapped
  <2>2. sub_parse_offset' \in {0, sub_parse_offset, (sub_parse_offset + 1) % OFFSET_MOD}
    BY DEF Next, vars, payload, Present, Consume, Parse, MessageHeader, BeginPayload, Payload,
           PayloadTerminator, PayloadMore, PayloadShort, LastMessage, ExtraBytes, MissingMessages, NextMessage,
           PayloadComplete, DrainFrame, IdleEdge, Reset
  <2> QED
    BY <1>2, <2>1, <2>2
<1>5. itch_reg' \in [RegBytes -> Byte]
  <2>1. CASE PayloadByte
    <3>1. Head(Pad) \in Byte
      BY <2>1, Taking DEF PayloadByte, InMessages
    <3> QED
      BY <1>2, <2>1, <3>1 DEF PayloadByte, CapturedByte
  <2>2. CASE ~PayloadByte
    <3>1. itch_reg' \in {itch_reg, [r \in RegBytes |-> 0]}
      BY <2>2 DEF Next, vars, payload, Present, Consume, Parse, MessageHeader, BeginPayload, Payload,
             PayloadTerminator, PayloadMore, PayloadShort, LastMessage, ExtraBytes, MissingMessages, NextMessage,
             PayloadComplete, DrainFrame, IdleEdge, Reset
    <3> QED
      BY <1>2, <3>1 DEF Byte
  <2> QED
    BY <2>1, <2>2
<1>6. itch_fields_valid' \in BOOLEAN /\ itch_fields_fresh' \in BOOLEAN
  <2>1. CASE PayloadComplete
    <3>1. GoodMessage \in BOOLEAN
      BY DEF GoodMessage
    <3> QED
      BY <1>2, <2>1, <3>1, Zenon DEF PayloadComplete
  <2>2. CASE ~PayloadComplete
    BY <1>2, <2>2 DEF Next, vars, payload, Present, Consume, Parse, MessageHeader, BeginPayload, Payload,
           PayloadTerminator, PayloadMore, PayloadShort, LastMessage, ExtraBytes, MissingMessages, NextMessage,
           DrainFrame, IdleEdge, Reset
  <2> QED
    BY <2>1, <2>2
<1> QED
  BY <1>1, <1>3, <1>4, <1>5, <1>6 DEF TypeOK

(* Between two bytes of a message the position in it is known, and the     *)
(* byte that is next goes where the message's own variant has it.          *)
LEMMA NextByte ==
  ASSUME HeadersInv, TypeOK, PayloadInv, PayloadByte
  PROVE  /\ msg_len_captured = MsgLen(sub_reg) /\ msg_bytes_remaining \in 1 .. msg_len_captured
         /\ msg_len_captured \in Nat /\ Done \in Nat /\ OFFSET_MOD \in Nat \ {0}
         /\ Start \in TOTAL_LENGTH .. cur.len /\ Start \in Nat /\ BodyOf(cur, Start) \in Nat
         /\ sub_reg = SubHeader(cur, Start) /\ BodyOf(cur, Start) + Done = Consumed
         /\ Done < OFFSET_MOD => /\ Hold(itch_reg, cur, BodyOf(cur, Start), Done)
                                 /\ Hold(CapturedByte, cur, BodyOf(cur, Start), Done + 1)
<1>1. state = "ST_MSG_BODY" /\ TakeByte
  BY DEF PayloadByte
<1>2. /\ InMessages /\ SUB_HEADER_BYTES \in Nat \ {0}
      /\ MsgLen(sub_reg) \in Nat /\ msg_bytes_remaining \in 1 .. MsgLen(sub_reg)
      /\ Start = (Consumed + msg_bytes_remaining) - MsgLen(sub_reg) - SUB_HEADER_BYTES
  BY <1>1, InBody
<1>3. /\ Head(Pad) = cur.data[Consumed] /\ Consumed \in Nat
      /\ sub_reg = SubHeader(cur, Start) /\ Start \in TOTAL_LENGTH .. cur.len /\ Start \in Nat
  BY <1>1, <1>2, InBody, Taking
<1>4. /\ msg_len_captured = MsgLen(sub_reg) /\ sub_parse_offset = Done % OFFSET_MOD
      /\ Done < OFFSET_MOD => Hold(itch_reg, cur, BodyOf(cur, Start), Done)
  BY <1>1 DEF PayloadInv
<1>5. Done = MsgLen(sub_reg) - msg_bytes_remaining /\ Done \in Nat /\ OFFSET_MOD \in Nat \ {0}
  <2>1. Done = MsgLen(sub_reg) - msg_bytes_remaining
    BY <1>4 DEF Done
  <2>2. OFFSET_MOD \in Nat \ {0}
    BY OffsetAssumption
  <2> QED
    BY <1>2, <2>1, <2>2
<1>6. BodyOf(cur, Start) \in Nat /\ BodyOf(cur, Start) + Done = Consumed
  <2>1. BodyOf(cur, Start) = Start + SUB_HEADER_BYTES /\ Start \in Nat /\ Consumed \in Nat
    BY <1>3 DEF BodyOf
  <2> QED
    BY <1>2, <1>5, <2>1
<1>7. ASSUME Done < OFFSET_MOD PROVE Hold(CapturedByte, cur, BodyOf(cur, Start), Done + 1)
  <2> DEFINE from == BodyOf(cur, Start)
             n    == Done
  <2>1. sub_parse_offset = n
    BY <1>4, <1>5, <1>7, Wrapped
  <2>2. Head(Pad) = cur.data[from + n]
    BY <1>3, <1>6
  <2>3. ASSUME NEW name \in FieldNames, NEW i \in 0 .. Size(name) - 1
        PROVE  CapturedByte[<<name, i>>] =
                 IF n \in {at.offset + i : at \in CaptureAt(name, KeyIn(itch_reg))}
                 THEN cur.data[from + n] ELSE itch_reg[<<name, i>>]
    <3>1. <<name, i>> \in RegBytes
      BY Places
    <3> HIDE DEF from, n
    <3> QED
      BY <2>1, <2>2, <3>1 DEF CapturedByte
  <2>4. Hold(itch_reg, cur, from, n) /\ from \in Nat /\ n \in Nat
    BY <1>4, <1>5, <1>6, <1>7
  <2> HIDE DEF from, n
  <2>5. Hold(CapturedByte, cur, from, n + 1)
    BY <2>3, <2>4, OneMore, DiscriminatorAssumption
  <2> QED
    BY <2>5 DEF from, n
<1> QED
  BY <1>2, <1>3, <1>4, <1>5, <1>6, <1>7

LEMMA KeepsPayload ==
  ASSUME HeadersInv, TypeOK, PayloadInv, [Next]_vars
  PROVE  PayloadInv'
<1>1. OFFSET_MOD \in Nat \ {0}
  BY OffsetAssumption
<1>2. CASE BeginPayload
  <2>1. /\ msg_len_captured' = msg_len /\ msg_bytes_remaining' = msg_len /\ sub_parse_offset' = 0
        /\ sub_reg' = SubBypassed /\ msg_len \in Nat
    BY <1>2, SubByte DEF BeginPayload, BeginBody, SubHeaderComplete, SubHeaderByte
  <2>2. msg_len_captured' = MsgLen(sub_reg)'
    BY <2>1 DEF msg_len
  <2>3. Done' = 0
    BY <2>1 DEF Done
  <2>4. 0 = 0 % OFFSET_MOD
    BY <1>1, Wrapped
  <2>5. Hold(itch_reg, cur, BodyOf(cur, Start), Done)'
    BY <2>3, HoldNothing
  <2> QED
    BY <2>1, <2>2, <2>3, <2>4, <2>5 DEF PayloadInv
<1>3. CASE PayloadMore
  <2>1. /\ PayloadByte /\ msg_bytes_remaining' = msg_bytes_remaining - 1
        /\ sub_parse_offset' = (sub_parse_offset + 1) % OFFSET_MOD
        /\ itch_reg' = CapturedByte /\ sub_reg' = sub_reg /\ msg_len_captured' = msg_len_captured
    BY <1>3 DEF PayloadMore, PayloadByte
  <2>2. Start' = Start /\ cur' = cur
    BY <1>3, <2>1, KeepsPayloadMore, Taking DEF PayloadByte, InMessages
  <2>3. /\ msg_len_captured = MsgLen(sub_reg) /\ msg_bytes_remaining \in Nat /\ msg_len_captured \in Nat
        /\ Done \in Nat
        /\ Done < OFFSET_MOD => Hold(CapturedByte, cur, BodyOf(cur, Start), Done + 1)
    BY <2>1, NextByte
  <2>4. Done' = Done + 1
    BY <2>1, <2>3 DEF Done
  <2>5. sub_parse_offset = Done % OFFSET_MOD
    BY <2>1 DEF PayloadInv, PayloadByte
  <2>6. sub_parse_offset' = Done' % OFFSET_MOD
    BY <1>1, <2>1, <2>3, <2>4, <2>5, Wrapped
  <2>7. msg_len_captured' = MsgLen(sub_reg)'
    BY <2>1, <2>3
  <2>8. ASSUME Done' < OFFSET_MOD PROVE Hold(itch_reg, cur, BodyOf(cur, Start), Done)'
    <3>1. Done < OFFSET_MOD
      BY <1>1, <2>3, <2>4, <2>8
    <3>2. BodyOf(cur', Start') = BodyOf(cur, Start)
      BY <2>2
    <3> QED
      BY <2>1, <2>2, <2>3, <2>4, <3>1, <3>2
  <2> QED
    BY <2>6, <2>7, <2>8 DEF PayloadInv
<1>4. CASE Present \/ IdleEdge \/ UNCHANGED vars
  <2>1. UNCHANGED <<state, msg_len_captured, sub_parse_offset, itch_reg, msg_bytes_remaining, sub_header_offset,
                    sub_reg, scratch, pos, cur>>
    BY <1>4 DEF Present, Offer, IdleEdge, CommonIdle, vars, payload, common, messages, scratches, source
  <2>2. Start' = Start /\ Done' = Done
    BY <2>1 DEF Start, Consumed, Accepted, MessageFrom, BodyEnd, Done
  <2> QED
    BY <2>1, <2>2 DEF PayloadInv
<1>5. CASE ~(BeginPayload \/ PayloadMore \/ Present \/ IdleEdge \/ UNCHANGED vars)
  <2>1. state' # "ST_MSG_BODY"
    BY <1>5 DEF Next, Consume, Parse, ParseEdge, ParseBeat, ParseMore, ParseShort, FinalShort, FinalBeat, FinalDrop,
           HeaderComplete, FinalAccept, MessageHeader, Terminator, SubHeaderMore, SubHeaderByte, SubHeaderShort,
           ZeroLength, Payload, PayloadTerminator, PayloadShort, LastMessage, ExtraBytes, MissingMessages,
           NextMessage, DrainFrame, Drain, Reset, CommonReset, ParseOrDrain
  <2> QED
    BY <2>1 DEF PayloadInv
<1> QED
  BY <1>2, <1>3, <1>4, <1>5

(* At a message's last byte the parser knows what it is, and holds it all. *)
LEMMA Verdict ==
  ASSUME HeadersInv, TypeOK, PayloadInv, PayloadComplete
  PROVE  /\ GoodMessage <=> IsMessage(cur, BodyOf(cur, Start), MsgLen(sub_reg))
         /\ GoodMessage => OutputsOf(itch_reg)' = MessageAt(cur, BodyOf(cur, Start))
         /\ BodyOf(cur, Start) \in Nat /\ BodyOf(cur, Start) + MsgLen(sub_reg) = Consumed + 1
<1> DEFINE from == BodyOf(cur, Start)
           key  == KeyAt(cur, from)
           len  == msg_len_captured
           e    == Ends(CommonFields[discriminator])
<1>1. PayloadByte /\ msg_bytes_remaining = 1 /\ itch_reg' = CapturedByte
  BY DEF PayloadComplete, PayloadByte
<1>2. /\ len = MsgLen(sub_reg) /\ len \in Nat /\ Done \in Nat
      /\ from \in Nat /\ from + Done = Consumed
      /\ Done < OFFSET_MOD => Hold(itch_reg, cur, from, Done) /\ Hold(CapturedByte, cur, from, Done + 1)
      /\ OFFSET_MOD \in Nat
  BY <1>1, NextByte
<1>3. Done = len - 1 /\ from + len = Consumed + 1
  <2>1. Done = len - 1
    BY <1>1 DEF Done
  <2> QED
    BY <1>2, <2>1
<1>4. e \in Nat /\ \A k \in DOMAIN Variants : e < variant_length[k] /\ variant_length[k] < OFFSET_MOD
  BY VariantPlanAssumption, OffsetAssumption, DiscriminatorAssumption, Keyed DEF DiscriminatorFirst
<1>5. ASSUME NEW k \in DOMAIN Variants, variant_length[k] = len
      PROVE  e <= Done /\ e < len /\ Hold(CapturedByte, cur, from, len) /\ KeyIn(itch_reg) = key
  <2>1. e < len /\ len < OFFSET_MOD
    BY <1>4, <1>5
  <2>2. e <= Done /\ Done < OFFSET_MOD /\ Done + 1 = len
    <3> HIDE DEF e
    <3> QED
      BY <1>2, <1>3, <1>4, <2>1
  <2>3. Hold(itch_reg, cur, from, Done) /\ Hold(CapturedByte, cur, from, len)
    BY <1>2, <2>2
  <2>4. KeyIn(itch_reg) = key
    BY <1>2, <2>2, <2>3, Keyed
  <2> QED
    BY <2>1, <2>2, <2>3, <2>4
<1>6. ASSUME GoodMessage
      PROVE  IsMessage(cur, from, len) /\ OutputsOf(CapturedByte) = MessageAt(cur, from)
  <2>1. KeyIn(itch_reg) \in DOMAIN Variants /\ variant_length[KeyIn(itch_reg)] = len
    BY <1>6, VariantPlanAssumption DEF GoodMessage, variant_known
  <2>2. e < len /\ Hold(CapturedByte, cur, from, len) /\ key = KeyIn(itch_reg)
    BY <1>5, <2>1
  <2>3. key \in DOMAIN Variants /\ variant_length[key] = len
    BY <2>1, <2>2
  <2>4. len >= e
    <3> HIDE DEF e
    <3> QED
      BY <1>2, <1>4, <2>2
  <2>5. variant_length[key] <= len
    BY <1>2, <2>3
  <2> QED
    BY <1>2, <2>2, <2>3, <2>4, <2>5, Outputs DEF IsMessage
<1>7. ASSUME IsMessage(cur, from, len)
      PROVE  GoodMessage
  <2>1. key \in DOMAIN Variants /\ variant_length[key] = len
    BY <1>7 DEF IsMessage
  <2>2. KeyIn(itch_reg) = key
    BY <1>5, <2>1
  <2> QED
    BY <2>1, <2>2, VariantPlanAssumption DEF GoodMessage, variant_known
<1>8. OutputsOf(itch_reg)' = OutputsOf(CapturedByte)
  BY <1>1
<1> QED
  BY <1>2, <1>3, <1>6, <1>7, <1>8

(* A message that is published is one of the frame's. *)
LEMMA Judgement ==
  ASSUME HeadersInv, TypeOK, PayloadInv, PayloadComplete, GoodMessage
  PROVE  MessagePublished'
<1>1. PayloadByte
  BY DEF PayloadComplete
<1>2. /\ IsMessage(cur, BodyOf(cur, Start), MsgLen(sub_reg))
      /\ OutputsOf(itch_reg)' = MessageAt(cur, BodyOf(cur, Start))
      /\ BodyOf(cur, Start) \in Nat /\ BodyOf(cur, Start) + MsgLen(sub_reg) = Consumed + 1
  BY Verdict
<1>3. sub_reg = SubHeader(cur, Start)
  BY <1>1, NextByte
<1>4. cur' = cur /\ Consumed + 1 <= cur.len
  <2>1. /\ cur' = cur /\ Consumed \in Nat /\ Len(Pad) \in Nat \ {0} /\ Consumed + Len(Pad) <= cur.len
        /\ cur.len \in Nat
    BY <1>1, Taking DEF PayloadByte, InMessages
  <2> QED
    BY <2>1
<1>5. BodyOf(cur, Start) <= cur.len /\ NextStart(cur, Start) <= cur.len
  <2>1. MsgLen(sub_reg) \in Nat
    BY <1>1, NextByte
  <2>2. Consumed \in Nat /\ cur.len \in Nat
    BY <1>1, Taking DEF PayloadByte, InMessages
  <2>3. BodyOf(cur, Start) <= cur.len
    BY <1>2, <1>4, <2>1, <2>2
  <2>4. NextStart(cur, Start) <= cur.len
    BY <1>2, <1>3, <1>4 DEF NextStart
  <2> QED
    BY <2>3, <2>4
<1>6. PICK n \in 1 .. Count : \E at \in Starts(cur, n) : at[n] = Start
  BY <1>1, OnIt DEF PayloadByte, InMessages
<1>7. PICK start : start = Start
  OBVIOUS
<1>8. /\ BodyOf(cur, start) <= cur.len /\ NextStart(cur, start) <= cur.len
      /\ IsMessage(cur, BodyOf(cur, start), MsgLen(SubHeader(cur, start)))
      /\ OutputsOf(itch_reg)' = MessageAt(cur, BodyOf(cur, start))
  BY <1>2, <1>3, <1>5, <1>7
<1>9. n \in 1 .. Count' /\ \E at \in Starts(cur', n) : at[n] = start
  BY <1>4, <1>6, <1>7 DEF Count
<1> QED
  BY <1>4, <1>8, <1>9 DEF MessagePublished

LEMMA KeepsPublished ==
  ASSUME HeadersInv, TypeOK, PayloadInv, MessagePublished, [Next]_vars
  PROVE  MessagePublished'
<1>1. CASE PayloadComplete
  <2>1. CASE GoodMessage
    BY <1>1, <2>1, Judgement
  <2>2. CASE ~GoodMessage
    BY <1>1, <2>2 DEF PayloadComplete, MessagePublished
  <2> QED
    BY <2>1, <2>2
<1>2. CASE Present \/ UNCHANGED vars
  <2>1. UNCHANGED <<itch_fields_fresh, itch_reg, cur>>
    BY <1>2 DEF Present, Offer, vars, payload
  <2> QED
    BY <2>1 DEF MessagePublished, Count
<1>3. CASE ~(PayloadComplete \/ Present \/ UNCHANGED vars)
  <2>1. itch_fields_fresh' = FALSE
    BY <1>3 DEF Next, Consume, Parse, MessageHeader, BeginPayload, Payload, PayloadTerminator, PayloadMore,
           PayloadShort, LastMessage, ExtraBytes, MissingMessages, NextMessage, DrainFrame, IdleEdge, Reset
  <2> QED
    BY <2>1 DEF MessagePublished
<1> QED
  BY <1>1, <1>2, <1>3

------------------------------------------------------------------------------
(* The invariant. *)

LEMMA InitInv == Init => IInv
<1>1. SUFFICES ASSUME Init PROVE IInv
  OBVIOUS
<1>2. HeadersInv /\ state = "ST_PARSE"
  BY <1>1, InitHeaders DEF Init, CommonInit
<1>3. TypeOK
  <2>1. /\ msg_len_captured \in Nat /\ sub_parse_offset \in 0 .. OFFSET_MOD - 1
        /\ itch_reg \in [RegBytes -> Byte]
    BY <1>1, OffsetAssumption DEF Init, Byte
  <2> QED
    BY <1>1, <1>2, <2>1 DEF Init, TypeOK, HeadersInv
<1> QED
  BY <1>1, <1>2, <1>3 DEF Init, IInv, PayloadInv, MessagePublished

LEMMA StepInv ==
  ASSUME FramesEnd, IInv, [Next]_vars
  PROVE  IInv'
BY KeepsHeaders, KeepsType, KeepsPayload, KeepsPublished DEF IInv

(***************************************************************************)
(* Whatever the definition and the bus, if no frame ends where the parser  *)
(* does not look: what it says of the message in hand stays true.          *)
(***************************************************************************)
THEOREM Invariance == FramesEnd => (Spec => []IInv)
<1> SUFFICES ASSUME FramesEnd PROVE Spec => []IInv
  OBVIOUS
<1>1. Init => IInv
  BY InitInv
<1>2. IInv /\ [Next]_vars => IInv'
  BY StepInv
<1> QED
  BY <1>1, <1>2, PTL DEF Spec

(* Every register keeps its type; the counters do not overflow.            *)
THEOREM TypeCorrect == FramesEnd => (Spec => []TypeOK)
<1> SUFFICES ASSUME FramesEnd PROVE Spec => []TypeOK
  OBVIOUS
<1>1. IInv => TypeOK
  BY DEF IInv
<1>2. Spec => []IInv
  BY Invariance
<1> QED
  BY <1>1, <1>2, PTL

(* Parser and source agree on where frames end, the scratchpad loses no    *)
(* byte, and the outer fields are those of one header.                     *)
THEOREM HeadersKept == FramesEnd => (Spec => [](Framing /\ ScratchIntact /\ FieldsCoherent))
<1> SUFFICES ASSUME FramesEnd PROVE Spec => [](Framing /\ ScratchIntact /\ FieldsCoherent)
  OBVIOUS
<1>1. IInv => Framing /\ ScratchIntact /\ FieldsCoherent
  BY DEF IInv, HeadersInv
<1>2. Spec => []IInv
  BY Invariance
<1> QED
  BY <1>1, <1>2, PTL

(* Between two bytes of a message the four counters agree on where in it   *)
(* the parser is.                                                          *)
THEOREM CountersAgree == FramesEnd => (Spec => []PayloadInStep)
<1> SUFFICES ASSUME FramesEnd PROVE Spec => []PayloadInStep
  OBVIOUS
<1>1. IInv => PayloadInStep
  <2> SUFFICES ASSUME IInv, state = "ST_MSG_BODY"
               PROVE  /\ MessageFrom >= TOTAL_LENGTH /\ sub_reg = SubHeader(cur, MessageFrom)
                      /\ msg_len_captured = MsgLen(sub_reg)
                      /\ sub_parse_offset = (msg_len_captured - msg_bytes_remaining) % OFFSET_MOD
    BY DEF PayloadInStep
  <2>1. HeadersInv /\ Start = MessageFrom
    BY DEF IInv, Start
  <2>2. Start >= TOTAL_LENGTH /\ sub_reg = SubHeader(cur, Start)
    BY <2>1, InBody, Layout
  <2>3. msg_len_captured = MsgLen(sub_reg) /\ sub_parse_offset = Done % OFFSET_MOD
    BY DEF IInv, PayloadInv
  <2> QED
    BY <2>1, <2>2, <2>3 DEF Done
<1>2. Spec => []IInv
  BY Invariance
<1> QED
  BY <1>1, <1>2, PTL

(* What is announced as fresh is one message of the frame with the fields  *)
(* of its own variant, wherever on the bus its bytes came.                 *)
THEOREM PublishedOwn == FramesEnd => (Spec => []MessagePublished)
<1> SUFFICES ASSUME FramesEnd PROVE Spec => []MessagePublished
  OBVIOUS
<1>1. IInv => MessagePublished
  BY DEF IInv
<1>2. Spec => []IInv
  BY Invariance
<1> QED
  BY <1>1, <1>2, PTL

------------------------------------------------------------------------------
(* The refinement of MessageReader.                                        *)

(* The walk of the instance is the walk of the headers. *)
LEMMA ReaderReads ==
  /\ \A hdr, cfg : Reader!DropsOf(hdr, cfg) = Walk!DropsOf(hdr, cfg)
  /\ \A hdr : Reader!MsgCount(hdr) = Walk!MsgCount(hdr)
  /\ \A f : Reader!Header(f) = Walk!Header(f)
  /\ Reader!Body = Walk!Body /\ Reader!Length = Walk!Length /\ Reader!BodyEnd = Walk!BodyEnd
<1>1. \A x, y : Reader!BitAnd(x, y) = Walk!BitAnd(x, y)
  BY DEF Walk!BitAnd, Reader!BitAnd
<1>2. \A hdr, f : Reader!BigEndian(hdr, f) = Walk!BigEndian(hdr, f)
  BY DEF Walk!BigEndian, Reader!BigEndian
<1>3. \A hdr, f : Reader!FieldValue(hdr, f) = Walk!FieldValue(hdr, f)
  BY <1>2 DEF Walk!FieldValue, Reader!FieldValue
<1>4. \A hdr, cfg : Reader!DropsOf(hdr, cfg) = Walk!DropsOf(hdr, cfg)
  BY <1>1, <1>3 DEF Walk!DropsOf, Reader!DropsOf, Walk!drop_expression, Reader!drop_expression
<1>5. \A hdr : Reader!MsgCount(hdr) = Walk!MsgCount(hdr)
  BY <1>3 DEF Walk!MsgCount, Reader!MsgCount
<1>6. \A f : Reader!Header(f) = Walk!Header(f)
  BY DEF Walk!Header, Reader!Header, Walk!HeaderBytes, Reader!HeaderBytes,
         Walk!FieldBytes, Reader!FieldBytes
<1>7. Reader!Body = Walk!Body
  BY DEF Walk!Body, Reader!Body
<1>8. Reader!Length = Walk!Length
  BY <1>2 DEF Walk!Length, Reader!Length, Walk!MsgLen, Reader!MsgLen, Walk!SubHeader, Reader!SubHeader,
              Walk!SubBytes, Reader!SubBytes
<1>9. Reader!BodyEnd = Walk!BodyEnd
  BY <1>7, <1>8 DEF Walk!BodyEnd, Reader!BodyEnd
<1> QED
  BY <1>4, <1>5, <1>6, <1>7, <1>8, <1>9

LEMMA ReaderWalks ==
  /\ Walk!WalkInit => Reader!WalkInit
  /\ Walk!Elsewhere => Reader!Elsewhere
  /\ Walk!Discard => Reader!Discard
  /\ Walk!NoHeader \/ Walk!ZeroLength => Reader!Refuse
  /\ Walk!WalkReset => Reader!WalkReset
  /\ UNCHANGED Walk!walk => UNCHANGED Reader!walk
  /\ Walk!Finish => Reader!Finish
  /\ Walk!Configure => Reader!Configure
<1>1. Walk!WalkInit => Reader!WalkInit
  BY DEF Walk!WalkInit, Reader!WalkInit, Walk!IntakeInit, Reader!IntakeInit
<1>2. \A f : Walk!Candidate(f) => Reader!Candidate(f)
  BY DEF Walk!Candidate, Reader!Candidate, Walk!Configure, Reader!Configure
<1>3. Walk!Elsewhere => Reader!Elsewhere
  <2>1. \A f : /\ Walk!Begin(f) => Reader!Begin(f)
               /\ Walk!Reject(f) => Reader!Reject(f)
    BY <1>2, ReaderReads DEF Walk!Begin, Reader!Begin, Walk!Reject, Reader!Reject
  <2>2. \A f : Walk!Short(f) => Reader!Short(f)
    BY <1>2 DEF Walk!Short, Reader!Short, Walk!TooShort, Reader!TooShort,
                Walk!CountMalformed, Reader!CountMalformed
  <2>3. \A f : Walk!Pass(f) => Reader!Pass(f)
    BY <1>2, ReaderReads DEF Walk!Pass, Reader!Pass
  <2>4. \A f : /\ Walk!NoMessages(f) => Reader!NoMessages(f)
               /\ Walk!Admit(f) => Reader!Admit(f)
    BY <2>3, ReaderReads DEF Walk!NoMessages, Reader!NoMessages, Walk!Admit, Reader!Admit
  <2>5. Walk!Reconfigure => Reader!Reconfigure
    BY DEF Walk!Reconfigure, Reader!Reconfigure, Walk!Configure, Reader!Configure
  <2> QED
    BY <2>1, <2>2, <2>4, <2>5 DEF Walk!Elsewhere, Reader!Elsewhere
<1>4. Walk!Discard => Reader!Discard
  BY DEF Walk!Discard, Reader!Discard, Walk!Discarded, Reader!Discarded, Walk!Configure, Reader!Configure
<1>5. Walk!NoHeader \/ Walk!ZeroLength => Reader!Refuse
  BY ReaderReads DEF Walk!NoHeader, Reader!NoHeader, Walk!ZeroLength, Reader!ZeroLength,
     Reader!Refuse, Walk!InMessage, Reader!InMessage, Walk!Finish, Reader!Finish,
     Walk!Configure, Reader!Configure, Walk!CountMalformed, Reader!CountMalformed
<1>6. Walk!WalkReset => Reader!WalkReset
  BY DEF Walk!WalkReset, Reader!WalkReset, Walk!IntakeReset, Reader!IntakeReset
<1>7. UNCHANGED Walk!walk => UNCHANGED Reader!walk
  BY DEF Walk!walk, Reader!walk, Walk!intake, Reader!intake
<1>8. Walk!Finish => Reader!Finish
  BY DEF Walk!Finish, Reader!Finish
<1>9. Walk!Configure => Reader!Configure
  BY DEF Walk!Configure, Reader!Configure
<1> QED
  BY <1>1, <1>3, <1>4, <1>5, <1>6, <1>7, <1>8, <1>9

LEMMA ReaderMessages ==
  /\ Walk!InMessage => Reader!InMessage
  /\ Walk!Whole => Reader!Whole
  /\ Walk!More => Reader!More
  /\ Walk!Last => Reader!Last
  /\ Walk!AsAnnounced <=> Reader!AsAnnounced
<1>1. Walk!InMessage => Reader!InMessage
  BY DEF Walk!InMessage, Reader!InMessage, Walk!Configure, Reader!Configure
<1>2. Walk!Whole => Reader!Whole
  BY ReaderReads DEF Walk!Whole, Reader!Whole
<1>3. Walk!More => Reader!More
  BY <1>1, <1>2, ReaderReads DEF Walk!More, Reader!More, Walk!Padded, Reader!Padded
<1>4. Walk!Last => Reader!Last
  BY <1>1, <1>2, ReaderReads DEF Walk!Last, Reader!Last, Walk!Padded, Reader!Padded,
     Walk!Finish, Reader!Finish
<1>5. Walk!AsAnnounced <=> Reader!AsAnnounced
  BY ReaderReads DEF Walk!AsAnnounced, Reader!AsAnnounced, Walk!Padded, Reader!Padded
<1> QED
  BY <1>1, <1>2, <1>3, <1>4, <1>5

(* What the definition says of messages is the same for both. *)
LEMMA ReaderVariants ==
  /\ Reader!NoMessage = NoMessage
  /\ \A f, from : Reader!MessageAt(f, from) = MessageAt(f, from)
  /\ \A f, from, len : Reader!IsMessage(f, from, len) = IsMessage(f, from, len)
<1>1. \A hdr, f : Reader!BigEndian(hdr, f) = BigEndian(hdr, f)
  BY DEF Reader!BigEndian, BigEndian
<1>2. \A at : Reader!Ends(at) = Ends(at)
  BY DEF Reader!Ends, Ends
<1>3. \A f, from : Reader!KeyAt(f, from) = KeyAt(f, from)
  BY <1>1, <1>2, Zenon DEF Reader!KeyAt, KeyAt
<1>4. \A k : Reader!MessageFields(k) = MessageFields(k)
  BY DEF Reader!MessageFields, MessageFields
<1>5. \A k, f : Reader!LocationIn(k, f) = LocationIn(k, f)
  BY DEF Reader!LocationIn, LocationIn
<1>6. \A f, from : Reader!MessageAt(f, from) = MessageAt(f, from)
  BY <1>3, <1>4, <1>5, Zenon DEF Reader!MessageAt, MessageAt
<1>7. \A f, from, len : Reader!IsMessage(f, from, len) = IsMessage(f, from, len)
  BY <1>2, <1>3, Zenon DEF Reader!IsMessage, IsMessage
<1>8. Reader!NoMessage = NoMessage
  BY DEF Reader!NoMessage, NoMessage
<1> QED
  BY <1>6, <1>7, <1>8

(* The consumer has what was announced last. *)
LEMMA Sampled ==
  ASSUME Sample
  PROVE  Current' = IF itch_fields_fresh' THEN OutputsOf(itch_reg)' ELSE Current
<1>1. Current' = IF itch_fields_fresh' THEN OutputsOf(itch_reg)' ELSE sampled'
  BY DEF Current
<1> QED
  BY <1>1 DEF Sample

(* The frame ends before a message does. *)
LEMMA ReaderCut ==
  ASSUME HeadersInv, PayloadTerminator \/ PayloadShort, Current' = Current
  PROVE  Reader!Cut
<1>1. /\ state = "ST_MSG_BODY" /\ state' = "ST_PARSE" /\ Later /\ Malformed
  BY DEF PayloadTerminator, PayloadShort, PayloadByte, TakeByte
<1>2. /\ InMessages /\ cur.len \in Nat /\ SourceInv /\ KEEP_WIDTH \in Nat
      /\ Consumed \in Nat /\ msg_bytes_remaining \in Nat \ {0}
      /\ Empty => cur = src /\ Consumed = pos
  BY <1>1, InBody, Held DEF InMessages
<1>3. /\ Phase = "messages" /\ Walk!Body \in Nat /\ Walk!Body <= Consumed
      /\ Walk!BodyEnd = Consumed + msg_bytes_remaining
  BY <1>1, WalkBody
<1>4. /\ cur' = cur /\ pos' = 0 /\ Consumed <= cur.len /\ Consumed + msg_bytes_remaining > cur.len
  <2>1. CASE PayloadTerminator
    <3>1. Empty /\ NoInput /\ Handshake
      BY <2>1 DEF PayloadTerminator
    <3>2. /\ cur' = src /\ (pos' = 0 <=> s_axis_tlast) /\ input_valid_bytes = Valid
      BY <1>2, <3>1, Taken
    <3>3. s_axis_tlast /\ Valid = 0
      BY <3>1, <3>2 DEF NoInput
    <3>4. src.len = pos
      BY <1>2, <3>3, Beat
    <3> QED
      BY <1>2, <3>1, <3>2, <3>3, <3>4
  <2>2. CASE PayloadShort
    <3>1. PayloadByte /\ TakeByte /\ is_last_byte /\ msg_bytes_remaining # 1
      BY <2>2 DEF PayloadShort, PayloadByte
    <3>2. /\ cur' = cur /\ is_last_beat = (pos' = 0) /\ (pos' = 0 => cur.len = Consumed + Len(Pad))
      BY <1>2, <3>1, Taking
    <3>3. pos' = 0 /\ cur.len = Consumed + 1
      BY <3>1, <3>2 DEF is_last_byte
    <3> QED
      BY <1>2, <3>1, <3>2, <3>3
  <2> QED
    BY <2>1, <2>2
<1>5. Reader!InMessage
  BY <1>1, <1>3, <1>4 DEF Reader!InMessage, Reader!Configure, Later, ConfigEdge, outer
<1>6. Reader!Finish
  <2>1. pos' \in Nat
    BY <1>4
  <2> QED
    BY <1>1, <1>4, <2>1, WalkFinish, ReaderWalks
<1>7. Reader!Body <= cur.len /\ Reader!BodyEnd > cur.len
  <2>1. Walk!Body <= cur.len /\ Walk!BodyEnd > cur.len
    BY <1>2, <1>3, <1>4
  <2> QED
    BY <2>1, ReaderReads
<1>8. Reader!CountMalformed
  BY <1>1 DEF Malformed, Reader!CountMalformed
<1> QED
  BY <1>5, <1>6, <1>7, <1>8 DEF Reader!Cut

(* The last byte of a message: what is published, and where the frame is.  *)
LEMMA ReaderWhole ==
  ASSUME HeadersInv, TypeOK, PayloadInv, PayloadComplete, Sample
  PROVE  /\ SourceInv' /\ state = "ST_MSG_BODY" /\ Later /\ cur' = cur
         /\ Walk!BodyEnd <= Accepted' /\ (pos' = 0 => cur.len + KEEP_WIDTH # cur.end)
         /\ (pos' = 0 /\ Accepted' = Walk!BodyEnd) <=> is_last_byte
         /\ is_last_beat = (pos' = 0)
         /\ ~is_last_byte /\ scratch' = Tail(Pad) => Consumed' = Walk!BodyEnd
         /\ sub_header_offset' = 0 /\ msg_remaining \in Nat
         /\ GoodMessage <=> Reader!IsMessage(cur, Reader!Body, Reader!Length)
         /\ Current' = IF GoodMessage THEN Reader!MessageAt(cur, Reader!Body) ELSE Current
<1>1. /\ PayloadByte /\ TakeByte /\ Later /\ state = "ST_MSG_BODY" /\ msg_bytes_remaining = 1
      /\ itch_fields_fresh' = GoodMessage /\ sub_header_offset' = sub_header_offset
  BY DEF PayloadComplete, PayloadByte, TakeByte
<1>2. /\ SourceInv' /\ cur' = cur /\ Len(Pad) \in Nat \ {0} /\ Consumed \in Nat
      /\ Accepted' = Consumed + Len(Pad) /\ is_last_beat = (pos' = 0)
      /\ pos' = 0 => cur.len + KEEP_WIDTH # cur.end
  BY <1>1, Taking DEF InMessages
<1>3. /\ Walk!Body = Start + SUB_HEADER_BYTES /\ Walk!Length = MsgLen(sub_reg)
      /\ Walk!BodyEnd = Consumed + 1
  BY <1>1, WalkBody
<1>4. PICK n \in Nat \ {0}, c \in Nat : n = Len(Pad) /\ c = Consumed /\ Accepted' = c + n /\ Walk!BodyEnd = c + 1
  BY <1>2, <1>3
<1>5. Walk!BodyEnd <= Accepted' /\ (Accepted' = Walk!BodyEnd <=> Len(Pad) = 1)
  BY <1>4
<1>6. (pos' = 0 /\ Accepted' = Walk!BodyEnd) <=> is_last_byte
  BY <1>2, <1>5 DEF is_last_byte
<1>7. ~is_last_byte /\ scratch' = Tail(Pad) => Consumed' = Walk!BodyEnd
  BY <1>1, <1>3, ByteGoesOn
<1>8. sub_header_offset' = 0 /\ msg_remaining \in Nat
  BY <1>1, InBody, IsTyped DEF RegistersOK
<1>9. /\ GoodMessage <=> IsMessage(cur, BodyOf(cur, Start), MsgLen(sub_reg))
      /\ GoodMessage => OutputsOf(itch_reg)' = MessageAt(cur, BodyOf(cur, Start))
  BY Verdict
<1>10. BodyOf(cur, Start) = Reader!Body /\ MsgLen(sub_reg) = Reader!Length
  <2>1. BodyOf(cur, Start) = Start + SUB_HEADER_BYTES
    BY DEF BodyOf
  <2> QED
    BY <1>3, <2>1, ReaderReads
<1>11. GoodMessage <=> Reader!IsMessage(cur, Reader!Body, Reader!Length)
  BY <1>9, <1>10, ReaderVariants
<1>12. Current' = IF GoodMessage THEN Reader!MessageAt(cur, Reader!Body) ELSE Current
  <2>1. CASE GoodMessage
    BY <1>1, <1>9, <1>10, <2>1, Sampled, ReaderVariants
  <2>2. CASE ~GoodMessage
    BY <1>1, <2>2, Sampled
  <2> QED
    BY <2>1, <2>2
<1> QED
  BY <1>1, <1>2, <1>5, <1>6, <1>7, <1>8, <1>11, <1>12

LEMMA ReaderNext ==
  ASSUME HeadersInv, TypeOK, PayloadInv, NextMessage, Sample
  PROVE  Reader!Read
<1>1. /\ PayloadComplete /\ msg_remaining > 1 /\ ~is_last_byte /\ Judged
      /\ msg_remaining' = msg_remaining - 1 /\ scratch' = Tail(Pad) /\ state' = "ST_MSG_HDR"
  BY DEF NextMessage
<1>2. /\ SourceInv' /\ state = "ST_MSG_BODY" /\ Later /\ cur' = cur
      /\ Walk!BodyEnd <= Accepted' /\ (pos' = 0 => cur.len + KEEP_WIDTH # cur.end)
      /\ ~(pos' = 0 /\ Accepted' = Walk!BodyEnd)
      /\ Consumed' = Walk!BodyEnd /\ sub_header_offset' = 0
      /\ GoodMessage <=> Reader!IsMessage(cur, Reader!Body, Reader!Length)
      /\ Current' = IF GoodMessage THEN Reader!MessageAt(cur, Reader!Body) ELSE Current
  BY <1>1, ReaderWhole
<1>3. Walk!More /\ Walk!Whole
  BY <1>1, <1>2, WalkNext DEF Walk!More
<1>4. Reader!More /\ Reader!Whole
  BY <1>3, ReaderMessages
<1>5. CASE GoodMessage
  BY <1>1, <1>2, <1>4, <1>5 DEF Judged, Reader!Publish, Reader!Read
<1>6. CASE ~GoodMessage
  BY <1>1, <1>2, <1>4, <1>6 DEF Judged, Malformed, Reader!CountMalformed, Reader!Skip, Reader!Read
<1> QED
  BY <1>5, <1>6

LEMMA ReaderLast ==
  ASSUME HeadersInv, TypeOK, PayloadInv, LastMessage \/ ExtraBytes \/ MissingMessages, Sample
  PROVE  Reader!Read
<1>1. PayloadComplete
  BY DEF LastMessage, ExtraBytes, MissingMessages
<1>2. /\ SourceInv' /\ state = "ST_MSG_BODY" /\ Later /\ cur' = cur
      /\ Walk!BodyEnd <= Accepted' /\ (pos' = 0 => cur.len + KEEP_WIDTH # cur.end)
      /\ (pos' = 0 /\ Accepted' = Walk!BodyEnd) <=> is_last_byte
      /\ is_last_beat = (pos' = 0) /\ msg_remaining \in Nat
      /\ GoodMessage <=> Reader!IsMessage(cur, Reader!Body, Reader!Length)
      /\ Current' = IF GoodMessage THEN Reader!MessageAt(cur, Reader!Body) ELSE Current
  BY <1>1, ReaderWhole
<1>3. (pos' = 0 /\ state' = "ST_PARSE") \/ state' = "ST_DRAIN"
  BY <1>2 DEF LastMessage, ExtraBytes, MissingMessages, ParseOrDrain
<1>4. msg_remaining > 1 => is_last_byte
  BY <1>2 DEF LastMessage, ExtraBytes, MissingMessages
<1>5. Walk!Last /\ (Walk!AsAnnounced <=> msg_remaining = 1 /\ is_last_byte)
  BY <1>2, <1>3, <1>4, WalkLast
<1>6. Walk!Whole /\ msg_remaining \in Nat \ {0}
  BY <1>2, WalkWhole
<1>7. IF Walk!AsAnnounced /\ GoodMessage THEN malformed_count' = malformed_count ELSE Malformed
  <2>1. CASE LastMessage
    BY <1>5, <1>6, <2>1 DEF LastMessage, Judged
  <2>2. CASE ExtraBytes
    BY <1>5, <2>2 DEF ExtraBytes
  <2>3. CASE MissingMessages
    BY <1>5, <1>6, <2>3 DEF MissingMessages
  <2> QED
    BY <2>1, <2>2, <2>3
<1>8. Reader!Last /\ Reader!Whole /\ (Walk!AsAnnounced <=> Reader!AsAnnounced)
  BY <1>5, <1>6, ReaderMessages
<1>9. CASE GoodMessage
  BY <1>2, <1>7, <1>8, <1>9 DEF Malformed, Reader!CountMalformed, Reader!Publish, Reader!Read
<1>10. CASE ~GoodMessage
  BY <1>2, <1>7, <1>8, <1>10 DEF Malformed, Reader!CountMalformed, Reader!Skip, Reader!Read
<1> QED
  BY <1>9, <1>10

(* Every step of the parser and its consumer is one MessageReader allows,  *)
(* or leaves what it speaks of alone.                                      *)
LEMMA ReaderStep ==
  ASSUME IInv, [FieldsNext]_fieldsVars
  PROVE  [Reader!Next]_(Reader!vars)
<1>0. HeadersInv /\ TypeOK /\ PayloadInv
  BY DEF IInv
<1>1. CASE (Present /\ UNCHANGED sampled) \/ UNCHANGED fieldsVars
  <2>1. Walk!Elsewhere \/ UNCHANGED Walk!walk
    BY <1>1, WalkWaiting DEF Present, fieldsVars, vars
  <2>2. UNCHANGED Current
    BY <1>1 DEF Current, Present, fieldsVars, vars, payload
  <2> QED
    BY <2>1, <2>2, ReaderWalks DEF Reader!Next, Reader!vars
<1>2. CASE (IdleEdge \/ Parse \/ MessageHeader \/ BeginPayload \/ DrainFrame) /\ Sample
  <2>1. ~itch_fields_fresh'
    BY <1>2 DEF IdleEdge, Parse, MessageHeader, BeginPayload, DrainFrame
  <2>2. Current' = Current
    BY <1>2, <2>1, Sampled
  <2>3. \/ Walk!Elsewhere \/ UNCHANGED Walk!walk
        \/ Walk!Discard \/ Walk!NoHeader \/ Walk!ZeroLength
    BY <1>0, <1>2, WalkWaiting, WalkParse, WalkNoHeader, WalkZeroLength, WalkSubHeader, WalkDrain
       DEF IdleEdge, Parse, MessageHeader, BeginPayload, DrainFrame
  <2> QED
    BY <2>2, <2>3, ReaderWalks DEF Reader!Next, Reader!Read, Reader!vars
<1>3. CASE PayloadMore /\ Sample
  <2>1. ~itch_fields_fresh' /\ PayloadByte /\ TakeByte /\ Later /\ state = "ST_MSG_BODY"
        /\ UNCHANGED <<state, msg_remaining, malformed_count>>
    BY <1>3 DEF PayloadMore, PayloadByte, TakeByte
  <2>2. Current' = Current
    BY <1>3, <2>1, Sampled
  <2>3. cur' = cur /\ Start' = Start
    BY <1>0, <1>3, <2>1, KeepsPayloadMore, Taking DEF InMessages
  <2>4. UNCHANGED <<Phase, WalkStart, WalkLeft>> /\ UNCHANGED drop_count
    BY <2>1, <2>3 DEF Phase, WalkStart, WalkLeft, InMessages, Later, outer
  <2>5. Reader!Reconfigure
    BY <2>1, <2>3, <2>4 DEF Reader!Reconfigure, Reader!Configure, Later, ConfigEdge
  <2> QED
    BY <2>1, <2>2, <2>4, <2>5 DEF Reader!Next, Reader!Elsewhere
<1>4. CASE (PayloadTerminator \/ PayloadShort) /\ Sample
  <2>1. Current' = Current
    BY <1>4, Sampled DEF PayloadTerminator, PayloadShort
  <2> QED
    BY <1>0, <1>4, <2>1, ReaderCut DEF Reader!Next, Reader!Read
<1>5. CASE (LastMessage \/ ExtraBytes \/ MissingMessages \/ NextMessage) /\ Sample
  BY <1>0, <1>5, ReaderLast, ReaderNext DEF Reader!Next
<1>6. CASE Reset /\ sampled' = NoMessage
  <2>1. Walk!WalkReset
    BY <1>6, WalkResets DEF Reset
  <2>2. Current' = NoMessage
    BY <1>6 DEF Reset, Current
  <2> QED
    BY <2>1, <2>2, ReaderWalks, ReaderVariants DEF Reader!Next
<1> QED
  BY <1>1, <1>2, <1>3, <1>4, <1>5, <1>6 DEF FieldsNext, Consume, Payload

(***************************************************************************)
(* The parser and its consumer do to whole frames what MessageReader       *)
(* allows and nothing else, for every bus width, definition of messages    *)
(* and of variants and set of frames of which none ends unnoticed: each    *)
(* message is published with the fields of its own variant, once, or not   *)
(* at all and counted, and the next one is found.                          *)
(***************************************************************************)
THEOREM ReadsMessages == FramesEnd => (FieldsSpec => Reader!Safety)
<1> SUFFICES ASSUME FramesEnd PROVE FieldsSpec => Reader!Safety
  OBVIOUS
<1>1. FieldsInit => Reader!Init /\ IInv
  <2> SUFFICES ASSUME FieldsInit PROVE Reader!Init /\ IInv
    OBVIOUS
  <2>1. Reader!WalkInit
    BY WalkBegins, ReaderWalks DEF FieldsInit, Init
  <2>2. Current = NoMessage
    BY DEF FieldsInit, Init, Current
  <2> QED
    BY <2>1, <2>2, ReaderVariants, InitInv DEF FieldsInit, Reader!Init
<1>2. IInv /\ [FieldsNext]_fieldsVars => IInv'
  <2> SUFFICES ASSUME IInv, [FieldsNext]_fieldsVars PROVE IInv'
    OBVIOUS
  <2>1. [Next]_vars
    BY DEF FieldsNext, Next, fieldsVars
  <2> QED
    BY <2>1, StepInv
<1>3. IInv /\ [FieldsNext]_fieldsVars => [Reader!Next]_(Reader!vars)
  BY ReaderStep
<1> QED
  BY <1>1, <1>2, <1>3, PTL DEF FieldsSpec, Reader!Safety
==============================================================================
