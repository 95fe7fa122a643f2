------------------------- MODULE SidebandParserProofs -------------------------
(***************************************************************************)
(* Proofs, for every bus width, header, plan and set of frames that meets  *)
(* the assumptions, that IInv is an invariant of SidebandParser and        *)
(* FramesInv one of SidebandFrames, that the safety properties follow from *)
(* IInv, and that parser and sink refine FrameFilter.                      *)
(***************************************************************************)
EXTENDS SidebandInvariant, StreamSourceProofs, WellFoundedInduction

(* The header ends PAYLOAD_START_BYTE bytes into its last beat. *)
LEMMA HeaderEnd ==
  /\ PARSE_FINAL_BEAT \in Nat
  /\ PAYLOAD_START_BYTE \in 1 .. KEEP_WIDTH
  /\ TAIL_BYTES \in 0 .. KEEP_WIDTH - 1
  /\ PARSE_FINAL_BEAT * KEEP_WIDTH + PAYLOAD_START_BYTE = TOTAL_LENGTH
<1>1. KEEP_WIDTH \in Nat \ {0} /\ TOTAL_LENGTH \in Nat \ {0}
  BY KeepWidthAssumption, PlanAssumption
<1> DEFINE q == (TOTAL_LENGTH - 1) \div KEEP_WIDTH
           r == (TOTAL_LENGTH - 1) % KEEP_WIDTH
<1>2. q \in Nat /\ r \in 0 .. KEEP_WIDTH - 1 /\ TOTAL_LENGTH - 1 = q * KEEP_WIDTH + r
  BY <1>1, Z3
<1>3. PARSE_FINAL_BEAT = q /\ PAYLOAD_START_BYTE = r + 1
  BY <1>2, HeaderAssumption DEF PARSE_FINAL_BEAT, PAYLOAD_START_BYTE
<1> HIDE DEF q, r
<1> QED
  BY <1>1, <1>2, <1>3 DEF TAIL_BYTES

(* A bounded set of naturals has a greatest element. *)
LEMMA MaxExists ==
  ASSUME NEW S \in SUBSET Nat, S # {}, NEW n \in Nat, \A s \in S : s <= n
  PROVE  Max(S) \in S
<1> DEFINE T == {n - s : s \in S}
           R == OpToRel(<, Nat)
<1>1. T \subseteq Nat /\ T # {}
  <2>1. \A s \in S : s \in Nat /\ s <= n
    OBVIOUS
  <2>2. \A s \in S : n - s \in Nat
    BY <2>1
  <2> QED
    BY <2>2
<1>2. \E x \in T : \A y \in T : ~ (<<y, x>> \in R)
  <2>1. IsWellFoundedOn(R, Nat)
    BY NatLessThanWellFounded
  <2> HIDE DEF T, R
  <2> QED
    BY <1>1, <2>1, WFMin
<1>3. PICK x \in T : \A y \in T : ~ (y < x)
  BY <1>1, <1>2 DEF OpToRel
<1>4. PICK s \in S : x = n - s
  OBVIOUS
<1>5. ASSUME NEW t \in S PROVE s >= t
  <2>1. n - t \in T /\ s \in 0 .. n /\ t \in 0 .. n
    BY <1>4
  <2>2. ~(n - t < x)
    BY <1>3, <2>1
  <2> QED
    BY <1>4, <2>1, <2>2
<1> QED
  BY <1>5 DEF Max

(* Every frame has a destination. *)
LEMMA RouteType ==
  ASSUME NEW hdr, NEW cfg
  PROVE  RouteOf(hdr, cfg) \in Nat
<1> DEFINE matches == {i \in DOMAIN RouteConditions :
                         route_condition(RouteConditions[i], hdr, cfg)}
<1>1. DOMAIN RouteConditions = 1 .. Len(RouteConditions) /\ Len(RouteConditions) \in Nat
  BY RoutesAssumption
<1>2. CASE matches = {}
  BY <1>2, PlanAssumption DEF RouteOf
<1>3. CASE matches # {}
  <2>1. Max(matches) \in matches
    <3>1. matches \in SUBSET Nat /\ \A i \in matches : i <= Len(RouteConditions)
      BY <1>1
    <3> HIDE DEF matches
    <3> QED
      BY <1>1, <1>3, <3>1, MaxExists
  <2>2. RouteConditions[Max(matches)].dest \in Nat
    BY <2>1, PlanAssumption
  <2> QED
    BY <1>3, <2>2 DEF RouteOf
<1> QED
  BY <1>2, <1>3

------------------------------------------------------------------------------
LEMMA AcceptSource ==
  ASSUME TypeOK, SourceInv, Accept
  PROVE  /\ SourceInv' /\ SourceTypeOK'
         /\ src' = src /\ cur' = src /\ src \in Frames
         /\ pos' = IF s_axis_tlast THEN 0 ELSE pos + KEEP_WIDTH
         /\ cfg_reg' \in ConfigValues \cup {CONFIG_DEFAULT}
<1>1. Handshake /\ ConfigEdge
  BY DEF Accept, Handshake
<1>2. SourceInv' /\ src' = src /\ cur' = src /\ src \in Frames
      /\ pos' = IF s_axis_tlast THEN 0 ELSE pos + KEEP_WIDTH
  BY <1>1, HandshakeSource, HeaderAssumption
<1> QED
  BY <1>1, <1>2 DEF SourceInv, ConfigEdge, TypeOK, SourceTypeOK, HeaderTypeOK

(* Where the marks of the beat on the bus go. *)
LEMMA AcceptSticky ==
  ASSUME TypeOK, SourceInv, StickyInv, Accept, Stick,
         state = "ST_PARSE" \/ pos > 0,
         s_axis_tlast => state' # "ST_PARSE"
  PROVE  StickyInv'
<1>1. KEEP_WIDTH \in Nat \ {0}
  BY KeepWidthAssumption
<1>2. src' = src /\ cur' = src
  BY AcceptSource
<1>3. Flagged = {q \in src.user : q < pos}
  <2>1. CASE pos > 0
    BY <2>1 DEF Flagged, SourceInv
  <2>2. CASE ~(pos > 0)
    <3>1. pos = 0 /\ src.user \subseteq Nat
      BY <2>2, Beat, HeaderAssumption
    <3> QED
      BY <2>2, <3>1 DEF Flagged
  <2> QED
    BY <2>1, <2>2
<1>4. sticky_tuser' = (\E q \in src.user : q < pos + KEEP_WIDTH)
  <2>1. sticky_tuser' = (sticky_tuser \/ pos \in src.user)
    BY DEF Stick, s_axis_tuser
  <2>2. sticky_tuser = (\E q \in src.user : q < pos)
    BY <1>3 DEF StickyInv
  <2>3. pos \in Nat /\ src.user \subseteq Nat
    BY Beat, HeaderAssumption
  <2>4. \A q \in src.user : q < pos + KEEP_WIDTH <=> q < pos \/ q = pos
    <3> TAKE q \in src.user
    <3>1. q \in Nat
      BY <2>3
    <3>2. q < pos + KEEP_WIDTH => q < pos \/ q = pos
      BY BeatStart
    <3> QED
      BY <1>1, <2>3, <3>1, <3>2
  <2>5. (\E q \in src.user : q < pos + KEEP_WIDTH)
          <=> (\E q \in src.user : q < pos) \/ pos \in src.user
    BY <2>4, Zenon
  <2> QED
    BY <2>1, <2>2, <2>5
<1>5. Flagged' = {q \in src.user : q < pos + KEEP_WIDTH}
  <2>1. CASE s_axis_tlast
    <3>1. pos' = 0 /\ Flagged' = src.user
      BY <1>2, <2>1 DEF Accept, Handshake, Flagged
    <3>2. \A q \in src.user : q < pos + KEEP_WIDTH
      BY <1>1, <2>1, Beat, HeaderAssumption
    <3> QED
      BY <3>1, <3>2
  <2>2. CASE ~s_axis_tlast
    <3>1. pos' = pos + KEEP_WIDTH /\ pos' > 0
      BY <1>1, <2>2, Beat, HeaderAssumption DEF Accept, Handshake
    <3> QED
      BY <1>2, <3>1 DEF Flagged
  <2> QED
    BY <2>1, <2>2
<1>6. (Flagged' # {}) = (\E q \in src.user : q < pos + KEEP_WIDTH)
  BY <1>5
<1> QED
  BY <1>4, <1>6, Zenon DEF StickyInv

(* A frame that ends leaves no mark behind. *)
LEMMA EndSticky ==
  ASSUME EndFrame \/ (Clear /\ state' = "ST_PARSE"), pos' = 0
  PROVE  StickyInv'
<1>1. sticky_tuser' = FALSE /\ Flagged' = {}
  BY DEF Flagged, EndFrame, Clear
<1> QED
  BY <1>1 DEF StickyInv

------------------------------------------------------------------------------
(* The header. *)

LEMMA CapturedBytes ==
  ASSUME TypeOK, SourceInv, ParseInv, state = "ST_PARSE"
  PROVE  /\ Captured \in [HeaderBytes -> Byte]
         /\ \A p \in HeaderBytes : p < pos + KEEP_WIDTH => Captured[p] = src.data[p]
<1>1. KEEP_WIDTH \in Nat \ {0} /\ HeaderBytes \subseteq Nat
  BY KeepWidthAssumption, PlanAssumption
<1>2. beat_count \in Nat /\ pos = beat_count * KEEP_WIDTH /\ pos \in Nat
  BY HeaderEnd DEF TypeOK, SourceTypeOK, HeaderTypeOK, ParseInv
<1>3. \A p \in HeaderBytes : byte_in_beat(p) \in Lanes
  BY <1>1, <1>2, BeatOf
<1>4. Captured \in [HeaderBytes -> Byte]
  BY <1>3, Beat, HeaderAssumption DEF Captured, TypeOK, SourceTypeOK, HeaderTypeOK, Data
<1>5. ASSUME NEW p \in HeaderBytes, p < pos + KEEP_WIDTH
      PROVE  Captured[p] = src.data[p]
  <2>1. p \in Nat
    BY <1>1
  <2>2. CASE beat_of(p) = beat_count
    <3>1. pos + byte_in_beat(p) = p
      BY <1>2, <2>1, <2>2, BeatOf
    <3>2. s_axis_tdata[byte_in_beat(p)] = src.data[pos + byte_in_beat(p)]
      BY <1>3, Beat, HeaderAssumption
    <3> QED
      BY <2>2, <3>1, <3>2 DEF Captured
  <2>3. CASE beat_of(p) # beat_count
    <3>1. p < pos
      BY <1>1, <1>2, <1>5, <2>1, <2>3, BeatOf
    <3>2. field_reg[p] = cur.data[p]
      BY <3>1 DEF ParseInv
    <3>3. cur = src
      BY <1>2, <2>1, <3>1 DEF SourceInv
    <3> QED
      BY <2>3, <3>2, <3>3 DEF Captured
  <2> QED
    BY <2>2, <2>3
<1> QED
  BY <1>4, <1>5

(* On the final beat the registers and the bypass agree on the header. *)
LEMMA FinalHeader ==
  ASSUME TypeOK, SourceInv, ParseInv, FinalBeat
  PROVE  /\ pos + PAYLOAD_START_BYTE = TOTAL_LENGTH
         /\ Captured = [p \in HeaderBytes |-> src.data[p]]
         /\ Bypassed = Captured
<1>1. state = "ST_PARSE" /\ beat_count = PARSE_FINAL_BEAT
  BY DEF FinalBeat, ParseBeat
<1>2. pos + PAYLOAD_START_BYTE = TOTAL_LENGTH
  BY <1>1, HeaderEnd DEF ParseInv
<1>3. \A p \in HeaderBytes : p < pos + KEEP_WIDTH
  <2>1. HeaderBytes \subseteq 0 .. TOTAL_LENGTH - 1 /\ TOTAL_LENGTH \in Nat
    BY PlanAssumption
  <2>2. pos \in Nat /\ KEEP_WIDTH \in Nat /\ PAYLOAD_START_BYTE \in 1 .. KEEP_WIDTH
    BY KeepWidthAssumption, HeaderEnd DEF TypeOK, SourceTypeOK, HeaderTypeOK
  <2> QED
    BY <1>2, <2>1, <2>2
<1>4. \A p \in HeaderBytes : Captured[p] = src.data[p]
  BY <1>1, <1>3, CapturedBytes
<1>5. Captured = [p \in HeaderBytes |-> src.data[p]]
  BY <1>4 DEF Captured
<1>6. Bypassed = Captured
  BY <1>1 DEF Bypassed, Captured
<1> QED
  BY <1>2, <1>5, <1>6

(* A frame that is judged has its whole header behind it, and is judged by *)
(* that header.                                                            *)
LEMMA JudgedFrame ==
  ASSUME TypeOK, SourceInv, ParseInv, Judge
  PROVE  /\ pos + PAYLOAD_START_BYTE = TOTAL_LENGTH
         /\ src.len >= TOTAL_LENGTH
         /\ Valid >= PAYLOAD_START_BYTE
         /\ parse_tail_bytes = Valid - PAYLOAD_START_BYTE
         /\ field_reg' \in [HeaderBytes -> Byte]
         /\ HeaderCaptured'
         /\ verdict' = [judged |-> TRUE, drops |-> drops_now, tdest |-> route_tdest_next]
         /\ drops_now \subseteq DropConditions
         /\ route_tdest_next \in Nat
<1>1. pos + PAYLOAD_START_BYTE = TOTAL_LENGTH /\ Captured = [p \in HeaderBytes |-> src.data[p]]
      /\ Bypassed = Captured
  BY FinalHeader DEF Judge
<1>2. /\ KEEP_WIDTH \in Nat /\ PAYLOAD_START_BYTE \in 1 .. KEEP_WIDTH /\ pos \in Nat
      /\ src.len \in Nat /\ Valid \in 0 .. KEEP_WIDTH
  BY KeepWidthAssumption, HeaderEnd, Beat, HeaderAssumption
<1>3. Valid >= PAYLOAD_START_BYTE
  <2>1. CASE s_axis_tlast
    BY <1>2, <2>1, Beat, HeaderAssumption DEF Judge, HeaderEndsEarly, input_valid_bytes
  <2>2. CASE ~s_axis_tlast
    BY <1>2, <2>2, Beat, HeaderAssumption
  <2> QED
    BY <2>1, <2>2
<1>4. src.len >= TOTAL_LENGTH
  BY <1>1, <1>2, <1>3 DEF Valid
<1>5. parse_tail_bytes = Valid - PAYLOAD_START_BYTE
  <2>1. {i \in s_axis_tkeep : i >= PAYLOAD_START_BYTE} = PAYLOAD_START_BYTE .. Valid - 1
    BY <1>2, Beat, HeaderAssumption DEF keep_for_count
  <2> QED
    <3>1. PAYLOAD_START_BYTE \in Nat /\ Valid \in Nat /\ PAYLOAD_START_BYTE <= Valid
      BY <1>2, <1>3
    <3>2. keep_count(PAYLOAD_START_BYTE .. Valid - 1) = Valid - PAYLOAD_START_BYTE
      BY <3>1, Masks
    <3> QED
      BY <2>1, <3>2 DEF parse_tail_bytes
<1>6. field_reg' = Captured /\ cur' = src
  BY DEF Judge, FinalBeat, ParseBeat, Accept, Handshake
<1>7. field_reg' \in [HeaderBytes -> Byte]
  BY <1>6, CapturedBytes DEF Judge, FinalBeat, ParseBeat
<1>8. HeaderCaptured'
  BY <1>1, <1>6 DEF HeaderCaptured
<1>9. verdict' = [judged |-> TRUE, drops |-> drops_now, tdest |-> route_tdest_next]
  BY <1>1 DEF Judge, drops_now, route_tdest_next
<1>10. drops_now \subseteq DropConditions /\ route_tdest_next \in Nat
  BY RouteType DEF drops_now, DropsOf, route_tdest_next
<1> QED
  BY <1>1, <1>3, <1>4, <1>5, <1>7, <1>8, <1>9, <1>10

(* What an output handshake adds to the bytes handed on. *)
LEMMA EmitType ==
  ASSUME TypeOK, SourceInv
  PROVE  /\ m_axis_tkeep \in SUBSET Lanes
         /\ keep_count(m_axis_tkeep) \in Nat
         /\ Emit => emitted' \in Nat
<1>1. m_axis_tkeep \in SUBSET Lanes
  BY DEF m_axis_tkeep, s_axis_tkeep, ShiftLeftKeep, TypeOK, SourceTypeOK, HeaderTypeOK
<1>2. keep_count(m_axis_tkeep) \in Nat
  BY <1>1, Masks
<1> QED
  BY <1>1, <1>2 DEF Emit, TypeOK, SourceTypeOK, HeaderTypeOK

(* Between two frames all that is left of a frame is its header, and that  *)
(* only while it is announced as fresh.                                    *)
LEMMA BetweenFrames ==
  ASSUME TypeOK', SourceInv', state' = "ST_PARSE", Clear, pos' = 0, beat_count' = 0,
         fields_fresh' => HeaderCaptured'
  PROVE  IInv'
<1>1. StickyInv'
  BY EndSticky
<1>2. ParseInv'
  <2>1. KEEP_WIDTH \in Nat /\ HeaderBytes \subseteq Nat
    BY KeepWidthAssumption, PlanAssumption
  <2>2. pos' = beat_count' * KEEP_WIDTH
    BY <2>1
  <2>3. \A p \in HeaderBytes : ~ (p < pos')
    BY <2>1
  <2> QED
    BY <2>2, <2>3 DEF ParseInv, Clear
<1> QED
  BY <1>1, <1>2 DEF IInv, JudgedInv, RealignInv, LastTailInv, ForwardInv, DropInv,
                    Realigning, TailOnly

------------------------------------------------------------------------------
(* Each step preserves the invariant. *)

LEMMA PresentInv == IInv /\ Present => IInv'
<1> SUFFICES ASSUME IInv, Present PROVE IInv'
  OBVIOUS
<1> USE DEF IInv
<1>1. /\ src' \in Frames /\ (pos > 0 => src' = src) /\ s_axis_tvalid' = TRUE
      /\ UNCHANGED <<registers, pos, history>>
  BY DEF Present, Offer, history, TypeOK, SourceTypeOK
<1>2. UNCHANGED <<state, beat_count, sticky_tuser, parser_drop, route_tdest_reg, tail,
                  fields_fresh, field_reg, cfg_reg, drop_count, pos, cur, verdict, emitted>>
  BY <1>1 DEF registers, history
<1>3. TypeOK'
  BY <1>1, <1>2 DEF TypeOK, SourceTypeOK, HeaderTypeOK
<1>4. SourceInv'
  BY OfferSource DEF Present
<1>5. StickyInv' /\ ParseInv' /\ JudgedInv'
  BY <1>2 DEF StickyInv, Flagged, ParseInv, JudgedInv, HeaderCaptured
<1>6. RealignInv' /\ LastTailInv' /\ ForwardInv' /\ DropInv'
  BY <1>2 DEF RealignInv, LastTailInv, ForwardInv, DropInv, Realigning, TailOnly, Position
<1> QED
  BY <1>3, <1>4, <1>5, <1>6

LEMMA IdleEdgeInv == IInv /\ IdleEdge => IInv'
<1> SUFFICES ASSUME IInv, IdleEdge PROVE IInv'
  OBVIOUS
<1> USE DEF IInv
<1>1. /\ fields_fresh' = FALSE /\ cfg_reg' \in ConfigValues \cup {CONFIG_DEFAULT}
      /\ UNCHANGED <<state, beat_count, sticky_tuser, parser_drop, route_tdest_reg, tail,
                     field_reg, drop_count, src, pos, s_axis_tvalid, cur, verdict, emitted>>
  BY DEF IdleEdge, source, history, ConfigEdge, TypeOK, SourceTypeOK, HeaderTypeOK
<1>2. TypeOK'
  BY <1>1 DEF TypeOK, SourceTypeOK, HeaderTypeOK
<1>3. SourceInv' /\ StickyInv' /\ ParseInv' /\ JudgedInv'
  BY <1>1 DEF SourceInv, SourceTypeOK, StickyInv, Flagged, ParseInv, JudgedInv, HeaderCaptured
<1>4. RealignInv' /\ LastTailInv' /\ ForwardInv' /\ DropInv'
  BY <1>1 DEF RealignInv, LastTailInv, ForwardInv, DropInv, Realigning, TailOnly, Position
<1> QED
  BY <1>2, <1>3, <1>4

LEMMA ResetInv == IInv /\ Reset => IInv'
<1> SUFFICES ASSUME IInv, Reset PROVE IInv'
  OBVIOUS
<1> USE DEF IInv
<1>1. 0 \in Byte /\ 0 \in 0 .. PARSE_FINAL_BEAT /\ 0 \in 0 .. COUNTER_MOD - 1 /\ NoData \in Data
  BY HeaderEnd, CounterAssumption DEF Byte, NoData, Data
<1>2. SourceInv' /\ pos' = 0
  BY OfferSource DEF Reset, SourceReset
<1>3. TypeOK'
  <2>1. SourceTypeOK'
    BY <1>2 DEF SourceInv
  <2>2. HeaderTypeOK'
    BY <1>1 DEF Reset, HeaderReset, HeaderTypeOK
  <2> QED
    BY <1>1, <2>1, <2>2 DEF Reset, Clear, TypeOK, State, EmptyTail, Unjudged
<1> QED
  BY <1>2, <1>3, BetweenFrames DEF Reset, HeaderReset

LEMMA ParseMoreInv == IInv /\ ParseMore => IInv'
<1> SUFFICES ASSUME IInv, ParseMore PROVE IInv'
  OBVIOUS
<1> USE DEF IInv
<1>1. Accept /\ state = "ST_PARSE" /\ ~s_axis_tlast /\ Stick
  BY DEF ParseMore, ParseBeat
<1>2. pos' = pos + KEEP_WIDTH
  BY <1>1 DEF Accept, Handshake
<1>3. beat_count \in Nat /\ beat_count + 1 \in 0 .. PARSE_FINAL_BEAT
  BY HeaderEnd DEF ParseMore, TypeOK, SourceTypeOK, HeaderTypeOK
<1>4. SourceInv' /\ cur' = src /\ src' = src
  BY <1>1, AcceptSource
<1>5. StickyInv'
  BY <1>1, AcceptSticky
<1>6. TypeOK'
  <2>1. Captured \in [HeaderBytes -> Byte]
    BY <1>1, CapturedBytes
  <2> QED
    BY <1>1, <1>3, <2>1, AcceptSource DEF ParseMore, ParseBeat, TypeOK, SourceTypeOK, HeaderTypeOK, Stick, Unjudged
<1>7. ParseInv'
  <2>1. pos' = beat_count' * KEEP_WIDTH
    <3>1. (beat_count + 1) * KEEP_WIDTH = beat_count * KEEP_WIDTH + KEEP_WIDTH
      BY <1>3, KeepWidthAssumption
    <3> QED
      BY <1>1, <1>2, <3>1 DEF ParseMore, ParseInv
  <2>2. \A p \in HeaderBytes : p < pos' => field_reg'[p] = cur'.data[p]
    BY <1>1, <1>2, <1>4, CapturedBytes DEF ParseMore, ParseBeat
  <2> QED
    BY <1>1, <2>1, <2>2 DEF ParseMore, ParseInv
<1>8. state' = "ST_PARSE"
  BY <1>1 DEF ParseMore
<1> QED
  BY <1>4, <1>5, <1>6, <1>7, <1>8
     DEF JudgedInv, RealignInv, LastTailInv, ForwardInv, DropInv, Realigning, TailOnly

LEMMA ShortInv == IInv /\ (ParseShort \/ FinalShort) => IInv'
<1> SUFFICES ASSUME IInv, ParseShort \/ FinalShort PROVE IInv'
  OBVIOUS
<1> USE DEF IInv
<1>1. /\ Accept /\ state = "ST_PARSE" /\ s_axis_tlast /\ field_reg' = Captured
      /\ state' = "ST_PARSE" /\ Clear /\ beat_count' = 0 /\ ~fields_fresh'
      /\ fields_fresh' \in BOOLEAN /\ emitted' = 0 /\ verdict' = Unjudged
      /\ route_tdest_reg' \in Nat /\ UNCHANGED <<tail, drop_count>>
  <2>1. CASE ParseShort
    BY <2>1 DEF ParseShort, ParseBeat, TypeOK, SourceTypeOK, HeaderTypeOK
  <2>2. CASE FinalShort
    BY <2>2 DEF FinalShort, FinalBeat, ParseBeat, HeaderEndsEarly, EndFrame
  <2> QED
    BY <2>1, <2>2
<1>2. pos' = 0
  BY <1>1 DEF Accept, Handshake
<1>3. TypeOK'
  <2>1. Captured \in [HeaderBytes -> Byte] /\ 0 \in 0 .. PARSE_FINAL_BEAT
    BY <1>1, CapturedBytes, HeaderEnd
  <2> QED
    BY <1>1, <2>1, AcceptSource DEF TypeOK, SourceTypeOK, HeaderTypeOK, Clear, State, Unjudged
<1> QED
  BY <1>1, <1>2, <1>3, AcceptSource, BetweenFrames

(* What the four outcomes of a complete header have in common. *)
LEMMA Judgement ==
  ASSUME IInv, Judge
  PROVE  /\ Accept /\ state = "ST_PARSE" /\ beat_count' = 0 /\ emitted' = 0
         /\ fields_fresh' = TRUE /\ ~parser_drop
         /\ SourceInv' /\ cur' = src /\ src' = src
         /\ 0 \in 0 .. PARSE_FINAL_BEAT
         /\ verdict' \in [judged: BOOLEAN, drops: SUBSET DropConditions, tdest: Nat]
  BY AcceptSource, JudgedFrame, HeaderEnd
     DEF IInv, Judge, FinalBeat, ParseBeat, ParseInv

LEMMA FinalDropInv == IInv /\ FinalDrop => IInv'
<1> SUFFICES ASSUME IInv, FinalDrop PROVE IInv'
  OBVIOUS
<1>0. TypeOK /\ SourceInv /\ StickyInv /\ ParseInv
  BY DEF IInv
<1>1. Judge
  BY DEF FinalDrop
<1>2. drop_count' \in [DropConditions -> 0 .. COUNTER_MOD - 1]
  <2>1. \A c \in DropConditions : /\ drop_count[c] \in 0 .. COUNTER_MOD - 1
                                  /\ (drop_count[c] + 1) % COUNTER_MOD \in 0 .. COUNTER_MOD - 1
    BY <1>0, CounterAssumption DEF TypeOK, SourceTypeOK, HeaderTypeOK
  <2> QED
    BY <2>1 DEF FinalDrop, CountDrops
<1>3. TypeOK'
  <2>1. /\ state' \in State /\ sticky_tuser' \in BOOLEAN /\ parser_drop' \in BOOLEAN
        /\ route_tdest_reg' \in Nat /\ tail' = tail
    <3>1. CASE s_axis_tlast
      <4>1. EndFrame /\ tail' = tail
        BY <3>1 DEF FinalDrop
      <4> QED
        BY <4>1 DEF EndFrame, Clear, State
    <3>2. CASE ~s_axis_tlast
      BY <1>0, <1>1, <3>2, JudgedFrame DEF FinalDrop, Stick, State
    <3> QED
      BY <3>1, <3>2
  <2> QED
    BY <1>0, <1>1, <1>2, <2>1, Judgement, JudgedFrame, AcceptSource DEF TypeOK, SourceTypeOK, HeaderTypeOK
<1>4. CASE s_axis_tlast
  <2>1. pos' = 0 /\ EndFrame
    BY <1>0, <1>1, <1>4, Judgement DEF Accept, Handshake, FinalDrop
  <2> QED
    BY <1>0, <1>1, <1>3, <2>1, Judgement, JudgedFrame, BetweenFrames DEF EndFrame
<1>5. CASE ~s_axis_tlast
  <2>1. state' = "ST_DROP" /\ route_tdest_reg' = route_tdest_next /\ Stick
    BY <1>5 DEF FinalDrop
  <2>2. pos' = pos + KEEP_WIDTH /\ pos' > 0
    BY <1>0, <1>1, <1>5, Judgement, KeepWidthAssumption DEF Accept, Handshake, TypeOK, SourceTypeOK, HeaderTypeOK
  <2>3. StickyInv'
    BY <1>0, <1>1, <1>5, <2>1, Judgement, AcceptSticky
  <2>4. JudgedInv'
    BY <1>0, <1>1, <2>1, Judgement, JudgedFrame DEF JudgedInv
  <2> QED
    BY <1>0, <1>1, <1>3, <2>1, <2>2, <2>3, <2>4, Judgement
       DEF IInv, ParseInv, RealignInv, LastTailInv, ForwardInv, DropInv, Realigning, TailOnly
<1> QED
  BY <1>4, <1>5

LEMMA FinalHeaderOnlyInv == IInv /\ FinalHeaderOnly => IInv'
<1> SUFFICES ASSUME IInv, FinalHeaderOnly PROVE IInv'
  OBVIOUS
<1>0. TypeOK /\ SourceInv /\ StickyInv /\ ParseInv
  BY DEF IInv
<1>1. Judge /\ s_axis_tlast /\ EndFrame /\ UNCHANGED <<tail, drop_count>>
  BY DEF FinalHeaderOnly, Pass
<1>2. pos' = 0
  BY <1>0, <1>1, Judgement DEF Accept, Handshake
<1>3. TypeOK'
  <2>1. /\ state' \in State /\ sticky_tuser' \in BOOLEAN /\ parser_drop' \in BOOLEAN
        /\ route_tdest_reg' \in Nat
    BY <1>1 DEF EndFrame, Clear, State
  <2> QED
    BY <1>0, <1>1, <2>1, Judgement, JudgedFrame, AcceptSource DEF TypeOK, SourceTypeOK, HeaderTypeOK
<1> QED
  BY <1>0, <1>1, <1>2, <1>3, Judgement, JudgedFrame, BetweenFrames DEF EndFrame

LEMMA FinalForwardInv == IInv /\ FinalForward => IInv'
<1> SUFFICES ASSUME IInv, FinalForward PROVE IInv'
  OBVIOUS
<1>0. TypeOK /\ SourceInv /\ StickyInv /\ ParseInv
  BY DEF IInv
<1>1. /\ Judge /\ ~s_axis_tlast /\ parse_tail_bytes = 0 /\ drops_now = {}
      /\ state' = "ST_FORWARD" /\ route_tdest_reg' = route_tdest_next /\ Stick
      /\ UNCHANGED <<parser_drop, tail, drop_count>>
  BY DEF FinalForward, Pass
<1>2. TypeOK'
  BY <1>0, <1>1, Judgement, JudgedFrame, AcceptSource DEF TypeOK, SourceTypeOK, HeaderTypeOK, Stick, State
<1>3. StickyInv'
  BY <1>0, <1>1, Judgement, AcceptSticky
<1>4. JudgedInv'
  BY <1>0, <1>1, Judgement, JudgedFrame DEF JudgedInv
<1>5. ForwardInv'
  <2>1. pos \in Nat /\ KEEP_WIDTH \in Nat \ {0} /\ PAYLOAD_START_BYTE \in 1 .. KEEP_WIDTH
    BY <1>0, KeepWidthAssumption, HeaderEnd DEF TypeOK, SourceTypeOK, HeaderTypeOK
  <2>2. Valid = KEEP_WIDTH /\ pos' = pos + KEEP_WIDTH
    BY <1>0, <1>1, Judgement, Beat, HeaderAssumption DEF Accept, Handshake
  <2>3. PAYLOAD_START_BYTE = KEEP_WIDTH /\ TOTAL_LENGTH = pos + PAYLOAD_START_BYTE
    BY <1>0, <1>1, <2>1, <2>2, JudgedFrame
  <2>4. TOTAL_LENGTH + 0 = TOTAL_LENGTH
    BY PlanAssumption
  <2> QED
    BY <1>0, <1>1, <2>1, <2>2, <2>3, <2>4, Judgement DEF ForwardInv, Position
<1> QED
  BY <1>0, <1>1, <1>2, <1>3, <1>4, <1>5, Judgement
     DEF IInv, ParseInv, RealignInv, LastTailInv, DropInv, Realigning, TailOnly

LEMMA FinalRealignInv == IInv /\ FinalRealign => IInv'
<1> SUFFICES ASSUME IInv, FinalRealign PROVE IInv'
  OBVIOUS
<1>0. TypeOK /\ SourceInv /\ StickyInv /\ ParseInv
  BY DEF IInv
<1>1. /\ Judge /\ drops_now = {} /\ parse_tail_bytes # 0
      /\ tail' = [tdata |-> ShiftRight(s_axis_tdata, PAYLOAD_START_BYTE),
                  tkeep |-> keep_for_count(parse_tail_bytes),
                  tlast |-> s_axis_tlast,
                  tuser |-> s_axis_tuser]
      /\ state' = "ST_REALIGN" /\ route_tdest_reg' = route_tdest_next /\ Stick
      /\ UNCHANGED <<parser_drop, drop_count>>
  BY DEF FinalRealign, Pass
<1>2. /\ pos \in Nat /\ KEEP_WIDTH \in Nat \ {0} /\ PAYLOAD_START_BYTE \in 1 .. KEEP_WIDTH
      /\ TAIL_BYTES = KEEP_WIDTH - PAYLOAD_START_BYTE /\ Valid \in 0 .. KEEP_WIDTH
      /\ src.len \in Nat /\ TOTAL_LENGTH \in Nat /\ TOTAL_LENGTH = pos + PAYLOAD_START_BYTE
      /\ Valid > PAYLOAD_START_BYTE
      /\ parse_tail_bytes = Valid - PAYLOAD_START_BYTE
  BY <1>0, <1>1, KeepWidthAssumption, PlanAssumption, HeaderEnd, Beat, HeaderAssumption, JudgedFrame DEF TAIL_BYTES
<1>3. /\ Accept /\ SourceInv' /\ cur' = src /\ src' = src /\ state = "ST_PARSE"
      /\ beat_count' = 0 /\ emitted' = 0 /\ ~parser_drop
  BY <1>1, Judgement
<1>4. Position' = TOTAL_LENGTH
  BY <1>2, <1>3 DEF Position
<1>5. tail' \in [tdata: Data, tkeep: SUBSET Lanes, tlast: BOOLEAN, tuser: BOOLEAN]
  <2>1. ShiftRight(s_axis_tdata, PAYLOAD_START_BYTE) \in Data
    BY <1>0, <1>2, Beat, HeaderAssumption DEF ShiftRight, Data, Byte, Lanes
  <2>2. keep_for_count(parse_tail_bytes) \in SUBSET Lanes
    BY <1>2 DEF keep_for_count, Lanes
  <2>3. s_axis_tlast \in BOOLEAN /\ s_axis_tuser \in BOOLEAN
    BY DEF s_axis_tlast, s_axis_tuser
  <2> QED
    BY <1>1, <2>1, <2>2, <2>3
<1>6. TypeOK'
  BY <1>0, <1>1, <1>5, Judgement, JudgedFrame, AcceptSource DEF TypeOK, SourceTypeOK, HeaderTypeOK, Stick, State
<1>7. StickyInv'
  BY <1>0, <1>1, <1>3, AcceptSticky
<1>8. JudgedInv'
  BY <1>0, <1>1, <1>3, Judgement, JudgedFrame DEF JudgedInv
<1>9. tail'.tuser => sticky_tuser'
  BY <1>1 DEF Stick
<1>10. \A i \in Lanes : i + PAYLOAD_START_BYTE \in Lanes =>
         tail'.tdata[i] = cur'.data[Position' + i]
  <2> TAKE i \in Lanes
  <2>1. i \in Nat
    BY DEF Lanes
  <2>2. ASSUME i + PAYLOAD_START_BYTE \in Lanes
        PROVE  tail'.tdata[i] = src.data[pos + (i + PAYLOAD_START_BYTE)]
    BY <1>0, <1>1, <2>2, Beat, HeaderAssumption DEF ShiftRight
  <2>3. pos + (i + PAYLOAD_START_BYTE) = TOTAL_LENGTH + i
    BY <1>2, <2>1
  <2> QED
    BY <1>3, <1>4, <2>2, <2>3
<1>11. RealignInv'
  <2>1. SUFFICES ASSUME ~s_axis_tlast PROVE RealignInv'
    BY <1>1 DEF RealignInv, Realigning
  <2>2. Valid = KEEP_WIDTH /\ pos' = pos + KEEP_WIDTH
    BY <1>0, <1>3, <2>1, Beat, HeaderAssumption DEF Accept, Handshake
  <2>3. parse_tail_bytes = TAIL_BYTES /\ TAIL_BYTES > 0
    BY <1>2, <2>2
  <2>4. pos' > 0 /\ Position' + TAIL_BYTES = pos'
    BY <1>2, <1>4, <2>2
  <2>5. \A i \in Lanes : tail'.tdata[i] = IF i < TAIL_BYTES THEN cur'.data[Position' + i] ELSE 0
    <3> TAKE i \in Lanes
    <3>1. i + PAYLOAD_START_BYTE \in Lanes <=> i < TAIL_BYTES
      BY <1>2 DEF Lanes
    <3>2. i + PAYLOAD_START_BYTE \notin Lanes => tail'.tdata[i] = 0
      BY <1>1 DEF ShiftRight
    <3> QED
      BY <1>10, <3>1, <3>2
  <2> QED
    BY <1>1, <1>9, <2>3, <2>4, <2>5 DEF RealignInv
<1>12. LastTailInv'
  <2>1. SUFFICES ASSUME s_axis_tlast PROVE LastTailInv'
    BY <1>1 DEF LastTailInv, TailOnly
  <2>2. pos' = 0 /\ src.len = pos + Valid
    BY <1>0, <1>3, <2>1, Beat, HeaderAssumption DEF Accept, Handshake
  <2>3. /\ cur'.len - Position' = parse_tail_bytes
        /\ Position' < cur'.len /\ cur'.len - Position' <= KEEP_WIDTH
    BY <1>2, <1>3, <1>4, <2>2
  <2>4. \A i \in keep_for_count(parse_tail_bytes) : i \in Lanes /\ i + PAYLOAD_START_BYTE \in Lanes
    BY <1>2 DEF keep_for_count, Lanes
  <2> QED
    BY <1>1, <1>9, <1>10, <2>2, <2>3, <2>4 DEF LastTailInv
<1> QED
  BY <1>1, <1>3, <1>6, <1>7, <1>8, <1>11, <1>12 DEF IInv, ParseInv, ForwardInv, DropInv

------------------------------------------------------------------------------
(* Past the header. *)

(* What the source does when no beat is accepted. *)
LEMMA SourceStays ==
  ASSUME IInv, UNCHANGED <<source, cur>>
  PROVE  /\ SourceInv' /\ pos' = pos /\ src' = src /\ cur' = cur
         /\ src \in Frames /\ cur \in Frames /\ s_axis_tvalid' \in BOOLEAN
<1>1. UNCHANGED <<src, pos, s_axis_tvalid, cur>>
  BY DEF source
<1> QED
  BY <1>1 DEF IInv, SourceTypeOK, SourceInv

(* Whatever ends a frame past its header leaves the parser between frames. *)
LEMMA LastEdge ==
  ASSUME IInv, state # "ST_PARSE", Later, EndFrame, beat_count' \in {0, beat_count},
         pos' = 0, SourceInv', tail' \in {tail, EmptyTail}, emitted' \in Nat,
         src' \in Frames, cur' \in Frames, s_axis_tvalid' \in BOOLEAN,
         cfg_reg' \in ConfigValues \cup {CONFIG_DEFAULT}
  PROVE  IInv'
<1>0. TypeOK /\ beat_count = 0
  BY DEF IInv, JudgedInv
<1>1. EmptyTail \in [tdata: Data, tkeep: SUBSET Lanes, tlast: BOOLEAN, tuser: BOOLEAN]
  BY DEF EmptyTail, NoData, Data, Byte
<1>2. TypeOK'
  BY <1>0, <1>1 DEF TypeOK, SourceTypeOK, HeaderTypeOK, Later, EndFrame, Clear, State
<1> QED
  BY <1>0, <1>2, BetweenFrames DEF Later, EndFrame

LEMMA RealignTailOnlyInv == IInv /\ (RealignTailOnly \/ Flush) => IInv'
<1> SUFFICES ASSUME IInv, RealignTailOnly \/ Flush PROVE IInv'
  OBVIOUS
<1>1. /\ TailOnly \/ state = "ST_FLUSH"
      /\ state # "ST_PARSE"
      /\ Later /\ Emit /\ tail' = EmptyTail /\ EndFrame /\ ConfigEdge
      /\ beat_count' = beat_count /\ UNCHANGED <<source, cur>>
  BY DEF RealignTailOnly, Flush, TailOnly
<1>2. TypeOK /\ SourceInv /\ pos = 0
  BY <1>1 DEF IInv, LastTailInv
<1>3. emitted' \in Nat /\ cfg_reg' \in ConfigValues \cup {CONFIG_DEFAULT}
  BY <1>1, <1>2, EmitType DEF ConfigEdge, TypeOK, SourceTypeOK, HeaderTypeOK
<1> QED
  BY <1>1, <1>2, <1>3, SourceStays, LastEdge

LEMMA RealignLastInv == IInv /\ RealignLast => IInv'
<1> SUFFICES ASSUME IInv, RealignLast PROVE IInv'
  OBVIOUS
<1>1. /\ Accept /\ s_axis_tlast /\ state # "ST_PARSE"
      /\ Later /\ Emit /\ tail' = EmptyTail /\ EndFrame /\ beat_count' = beat_count
  BY DEF RealignLast, RealignBeat, Realigning, LastFits
<1>2. TypeOK /\ SourceInv /\ pos' = 0
  BY <1>1 DEF IInv, Accept, Handshake
<1>3. emitted' \in Nat
  BY <1>1, <1>2, EmitType
<1>4. SourceInv' /\ cfg_reg' \in ConfigValues \cup {CONFIG_DEFAULT}
  BY <1>1, <1>2, AcceptSource
<1>5. src' \in Frames /\ cur' \in Frames /\ s_axis_tvalid' \in BOOLEAN
  BY <1>4 DEF SourceInv, SourceTypeOK
<1> QED
  BY <1>1, <1>2, <1>3, <1>4, <1>5, LastEdge

(* A beat on which the realigned output is full. *)
LEMMA RealignFull ==
  ASSUME IInv, RealignBeat, ~LastFits
  PROVE  /\ TypeOK /\ SourceInv /\ StickyInv
         /\ Accept /\ Later /\ state = "ST_REALIGN" /\ tail.tlast = FALSE /\ pos > 0
         /\ beat_count' = beat_count /\ cur = src
         /\ Position' = pos + PAYLOAD_START_BYTE
         /\ Position' \in Nat /\ emitted' \in Nat
         /\ ShiftRight(s_axis_tdata, PAYLOAD_START_BYTE) \in Data
         /\ \A i \in Lanes : ShiftRight(s_axis_tdata, PAYLOAD_START_BYTE)[i] =
                IF i < TAIL_BYTES THEN src.data[Position' + i] ELSE 0
<1>0. TypeOK /\ SourceInv /\ StickyInv /\ RealignInv
  BY DEF IInv
<1>1. /\ Accept /\ Later /\ Emit /\ state = "ST_REALIGN" /\ Realigning /\ ~tail.tlast
      /\ beat_count' = beat_count
  BY DEF RealignBeat, Realigning
<1>2. tail.tlast = FALSE
  BY <1>0, <1>1 DEF TypeOK, SourceTypeOK, HeaderTypeOK
<1>3. pos > 0 /\ Position + TAIL_BYTES = pos
  BY <1>0, <1>1 DEF RealignInv
<1>4. /\ KEEP_WIDTH \in Nat \ {0} /\ PAYLOAD_START_BYTE \in 1 .. KEEP_WIDTH
      /\ TAIL_BYTES = KEEP_WIDTH - PAYLOAD_START_BYTE
      /\ pos \in Nat /\ emitted \in Nat /\ TOTAL_LENGTH \in Nat
  BY <1>0, KeepWidthAssumption, PlanAssumption, HeaderEnd DEF TypeOK, SourceTypeOK, HeaderTypeOK, TAIL_BYTES
<1>5. m_axis_tkeep = Lanes
  BY <1>1 DEF m_axis_tkeep, TailOnly
<1>6. keep_count(Lanes) = KEEP_WIDTH
  BY <1>4, Masks DEF Lanes, keep_for_count
<1>7. emitted' = emitted + KEEP_WIDTH
  BY <1>1, <1>5, <1>6 DEF Emit
<1>8. Position' = pos + PAYLOAD_START_BYTE
  BY <1>3, <1>4, <1>7 DEF Position
<1>9. cur = src
  BY <1>0, <1>3 DEF SourceInv
<1>10. ShiftRight(s_axis_tdata, PAYLOAD_START_BYTE) \in Data
  BY <1>0, <1>4, Beat, HeaderAssumption DEF ShiftRight, Data, Byte, Lanes
<1>11. ASSUME NEW i \in Lanes
       PROVE  ShiftRight(s_axis_tdata, PAYLOAD_START_BYTE)[i] =
                IF i < TAIL_BYTES THEN src.data[Position' + i] ELSE 0
  <2>1. i \in Nat /\ (i + PAYLOAD_START_BYTE \in Lanes <=> i < TAIL_BYTES)
    BY <1>4 DEF Lanes
  <2>2. ASSUME i + PAYLOAD_START_BYTE \in Lanes
        PROVE  s_axis_tdata[i + PAYLOAD_START_BYTE] = src.data[Position' + i]
    <3>1. s_axis_tdata[i + PAYLOAD_START_BYTE] = src.data[pos + (i + PAYLOAD_START_BYTE)]
      BY <1>0, <2>2, Beat, HeaderAssumption
    <3>2. pos + (i + PAYLOAD_START_BYTE) = Position' + i
      BY <1>4, <1>8, <2>1
    <3> QED
      BY <3>1, <3>2
  <2> QED
    BY <2>1, <2>2 DEF ShiftRight
<1> QED
  BY <1>0, <1>1, <1>2, <1>3, <1>4, <1>7, <1>8, <1>9, <1>10, <1>11

LEMMA RealignMoreInv == IInv /\ RealignMore => IInv'
<1> SUFFICES ASSUME IInv, RealignMore PROVE IInv'
  OBVIOUS
<1>1. /\ RealignBeat /\ ~LastFits /\ ~s_axis_tlast /\ Stick
      /\ tail' = [tail EXCEPT !.tdata = ShiftRight(s_axis_tdata, PAYLOAD_START_BYTE),
                              !.tuser = s_axis_tuser]
      /\ UNCHANGED <<state, parser_drop, route_tdest_reg>>
  BY DEF RealignMore, LastFits
<1>2. /\ TypeOK /\ SourceInv /\ StickyInv
      /\ Accept /\ Later /\ state = "ST_REALIGN" /\ tail.tlast = FALSE
      /\ beat_count' = beat_count /\ cur = src
  BY <1>1, RealignFull
<1>3. /\ SourceInv' /\ cur' = src /\ src' = src /\ pos' = pos + KEEP_WIDTH /\ pos' > 0
  <2>1. pos \in Nat /\ KEEP_WIDTH \in Nat \ {0}
    BY <1>2, KeepWidthAssumption DEF TypeOK, SourceTypeOK, HeaderTypeOK
  <2>2. pos' = pos + KEEP_WIDTH
    BY <1>1, <1>2 DEF Accept, Handshake
  <2> QED
    BY <1>2, <2>1, <2>2, AcceptSource
<1>4. /\ tail' \in [tdata: Data, tkeep: SUBSET Lanes, tlast: BOOLEAN, tuser: BOOLEAN]
      /\ tail'.tdata = ShiftRight(s_axis_tdata, PAYLOAD_START_BYTE)
      /\ tail'.tkeep = tail.tkeep /\ tail'.tlast = FALSE /\ tail'.tuser = s_axis_tuser
  <2>1. tail \in [tdata: Data, tkeep: SUBSET Lanes, tlast: BOOLEAN, tuser: BOOLEAN]
    BY <1>2 DEF TypeOK, SourceTypeOK, HeaderTypeOK
  <2>2. ShiftRight(s_axis_tdata, PAYLOAD_START_BYTE) \in Data /\ s_axis_tuser \in BOOLEAN
    BY <1>1, RealignFull DEF s_axis_tuser
  <2> QED
    BY <1>1, <1>2, <2>1, <2>2
<1>5. TypeOK'
  BY <1>1, <1>2, <1>4, AcceptSource, RealignFull DEF TypeOK, SourceTypeOK, HeaderTypeOK, Later, Stick
<1>6. StickyInv'
  BY <1>1, <1>2, AcceptSticky, RealignFull
<1>7. JudgedInv'
  BY <1>1, <1>2, <1>3 DEF IInv, JudgedInv, HeaderCaptured, Later
<1>8. RealignInv'
  <2>1. Position' + TAIL_BYTES = pos'
    <3>1. KEEP_WIDTH \in Nat /\ PAYLOAD_START_BYTE \in Nat /\ pos \in Nat
      BY <1>2, KeepWidthAssumption, HeaderEnd DEF TypeOK, SourceTypeOK, HeaderTypeOK
    <3> QED
      BY <1>1, <1>3, <3>1, RealignFull DEF TAIL_BYTES
  <2>2. TAIL_BYTES > 0 /\ tail.tkeep = keep_for_count(TAIL_BYTES)
    BY <1>1 DEF IInv, RealignInv, RealignBeat
  <2>3. \A i \in Lanes : tail'.tdata[i] = IF i < TAIL_BYTES THEN cur'.data[Position' + i] ELSE 0
    BY <1>1, <1>3, <1>4, RealignFull
  <2>4. tail'.tuser => sticky_tuser'
    BY <1>1, <1>4 DEF Stick
  <2> QED
    BY <1>3, <1>4, <2>1, <2>2, <2>3, <2>4 DEF RealignInv
<1> QED
  BY <1>1, <1>2, <1>3, <1>4, <1>5, <1>6, <1>7, <1>8
     DEF IInv, ParseInv, LastTailInv, ForwardInv, DropInv, TailOnly

LEMMA RealignSpillInv == IInv /\ RealignSpill => IInv'
<1> SUFFICES ASSUME IInv, RealignSpill PROVE IInv'
  OBVIOUS
<1> DEFINE n == keep_count(s_axis_tkeep) - PAYLOAD_START_BYTE
<1>1. /\ RealignBeat /\ ~LastFits /\ s_axis_tlast /\ Stick
      /\ tail' = [tdata |-> ShiftRight(s_axis_tdata, PAYLOAD_START_BYTE),
                  tkeep |-> keep_for_count(n), tlast |-> FALSE, tuser |-> s_axis_tuser]
      /\ state' = "ST_FLUSH" /\ UNCHANGED <<parser_drop, route_tdest_reg>>
  BY DEF RealignSpill
<1>2. /\ TypeOK /\ SourceInv /\ StickyInv
      /\ Accept /\ Later /\ state = "ST_REALIGN" /\ pos > 0
      /\ beat_count' = beat_count /\ cur = src
  BY <1>1, RealignFull
<1>3. SourceInv' /\ cur' = src /\ src' = src /\ pos' = 0
  BY <1>1, <1>2, AcceptSource DEF Accept, Handshake
<1>4. /\ KEEP_WIDTH \in Nat \ {0} /\ PAYLOAD_START_BYTE \in 1 .. KEEP_WIDTH
      /\ TAIL_BYTES = KEEP_WIDTH - PAYLOAD_START_BYTE /\ pos \in Nat /\ Valid \in 0 .. KEEP_WIDTH
      /\ n = Valid - PAYLOAD_START_BYTE /\ src.len = pos + Valid
  BY <1>1, <1>2, KeepWidthAssumption, HeaderEnd, Beat, HeaderAssumption DEF TAIL_BYTES
<1>5. PAYLOAD_START_BYTE < Valid
  <2>1. PAYLOAD_START_BYTE \in keep_for_count(Valid)
    BY <1>1, <1>2, Beat, HeaderAssumption DEF LastFits
  <2> QED
    BY <1>4, <2>1 DEF keep_for_count
<1> HIDE DEF n
<1>6. /\ n \in 1 .. TAIL_BYTES /\ cur'.len - Position' = n
      /\ Position' < cur'.len /\ cur'.len - Position' <= KEEP_WIDTH
  BY <1>1, <1>3, <1>4, <1>5, RealignFull
<1>7. keep_for_count(n) \subseteq Lanes /\ \A i \in keep_for_count(n) : i < TAIL_BYTES
  BY <1>4, <1>6 DEF keep_for_count, Lanes
<1>8. TypeOK'
  <2>1. tail' \in [tdata: Data, tkeep: SUBSET Lanes, tlast: BOOLEAN, tuser: BOOLEAN]
    BY <1>1, <1>7, RealignFull DEF s_axis_tuser
  <2> QED
    BY <1>1, <1>2, <2>1, AcceptSource, RealignFull DEF TypeOK, SourceTypeOK, HeaderTypeOK, Later, Stick, State
<1>9. StickyInv'
  BY <1>1, <1>2, AcceptSticky
<1>10. JudgedInv'
  BY <1>1, <1>2, <1>3 DEF IInv, JudgedInv, HeaderCaptured, Later
<1>11. LastTailInv'
  <2>1. \A i \in tail'.tkeep : tail'.tdata[i] = cur'.data[Position' + i]
    BY <1>1, <1>3, <1>7, RealignFull
  <2>2. tail'.tuser => sticky_tuser'
    BY <1>1 DEF Stick
  <2> QED
    BY <1>1, <1>3, <1>6, <2>1, <2>2 DEF LastTailInv
<1> QED
  BY <1>1, <1>3, <1>8, <1>9, <1>10, <1>11
     DEF IInv, ParseInv, RealignInv, ForwardInv, DropInv, Realigning

LEMMA ForwardStepInv == IInv /\ Forward => IInv'
<1> SUFFICES ASSUME IInv, Forward PROVE IInv'
  OBVIOUS
<1>1. state = "ST_FORWARD" /\ Later /\ Accept /\ Emit /\ tail' = tail
  BY DEF Forward
<1>2. TypeOK /\ SourceInv /\ StickyInv /\ pos > 0 /\ Position = pos
  BY <1>1 DEF IInv, ForwardInv
<1>3. SourceInv' /\ cur' = src /\ src' = src /\ cur = src
  BY <1>1, <1>2, AcceptSource DEF SourceInv
<1>4. CASE s_axis_tlast
  <2>1. EndFrame /\ beat_count' = 0 /\ pos' = 0
    BY <1>1, <1>4 DEF Forward, Accept, Handshake
  <2>2. emitted' \in Nat
    BY <1>1, <1>2, EmitType
  <2>3. src' \in Frames /\ cur' \in Frames /\ s_axis_tvalid' \in BOOLEAN
    BY <1>3 DEF SourceInv, SourceTypeOK
  <2>4. cfg_reg' \in ConfigValues \cup {CONFIG_DEFAULT}
    BY <1>1, <1>2, AcceptSource
  <2> QED
    BY <1>1, <1>3, <2>1, <2>2, <2>3, <2>4, LastEdge
<1>5. CASE ~s_axis_tlast
  <2>1. Stick /\ UNCHANGED <<state, beat_count, parser_drop, route_tdest_reg>>
    BY <1>5 DEF Forward
  <2>2. /\ KEEP_WIDTH \in Nat \ {0} /\ pos \in Nat /\ emitted \in Nat /\ TOTAL_LENGTH \in Nat
        /\ pos' = pos + KEEP_WIDTH /\ Valid = KEEP_WIDTH
    BY <1>1, <1>2, <1>5, Beat, HeaderAssumption, KeepWidthAssumption, PlanAssumption DEF Accept, Handshake, TypeOK, SourceTypeOK, HeaderTypeOK
  <2>3. emitted' = emitted + KEEP_WIDTH
    <3>1. m_axis_tkeep = s_axis_tkeep
      BY <1>1 DEF m_axis_tkeep, TailOnly, Realigning
    <3>2. keep_count(s_axis_tkeep) = KEEP_WIDTH
      BY <1>2, <2>2, Beat, HeaderAssumption
    <3> QED
      BY <1>1, <3>1, <3>2 DEF Emit
  <2>4. ForwardInv'
    BY <1>2, <2>2, <2>3 DEF ForwardInv, Position
  <2>5. TypeOK'
    BY <1>1, <1>2, <2>1, EmitType, AcceptSource DEF TypeOK, SourceTypeOK, HeaderTypeOK, Later, Stick
  <2>6. StickyInv'
    BY <1>1, <1>2, <1>5, <2>1, AcceptSticky
  <2>7. JudgedInv'
    BY <1>1, <1>3, <2>1 DEF IInv, JudgedInv, HeaderCaptured, Later
  <2> QED
    BY <1>1, <1>3, <2>1, <2>4, <2>5, <2>6, <2>7
       DEF IInv, ParseInv, RealignInv, LastTailInv, DropInv, Realigning, TailOnly
<1> QED
  BY <1>4, <1>5

LEMMA DropStepInv == IInv /\ Drop => IInv'
<1> SUFFICES ASSUME IInv, Drop PROVE IInv'
  OBVIOUS
<1>1. state = "ST_DROP" /\ Later /\ Accept /\ emitted' = emitted /\ tail' = tail
  BY DEF Drop
<1>2. TypeOK /\ SourceInv /\ StickyInv /\ pos > 0 /\ emitted' \in Nat
  BY <1>1 DEF IInv, DropInv, TypeOK, SourceTypeOK, HeaderTypeOK
<1>3. SourceInv' /\ cur' = src /\ src' = src /\ cur = src
  BY <1>1, <1>2, AcceptSource DEF SourceInv
<1>4. CASE s_axis_tlast
  <2>1. EndFrame /\ beat_count' = 0 /\ pos' = 0
    BY <1>1, <1>4 DEF Drop, Accept, Handshake
  <2>2. src' \in Frames /\ cur' \in Frames /\ s_axis_tvalid' \in BOOLEAN
    BY <1>3 DEF SourceInv, SourceTypeOK
  <2>3. cfg_reg' \in ConfigValues \cup {CONFIG_DEFAULT}
    BY <1>1, <1>2, AcceptSource
  <2> QED
    BY <1>1, <1>2, <1>3, <2>1, <2>2, <2>3, LastEdge
<1>5. CASE ~s_axis_tlast
  <2>1. Stick /\ UNCHANGED <<state, beat_count, parser_drop, route_tdest_reg>>
    BY <1>5 DEF Drop
  <2>2. pos' = pos + KEEP_WIDTH /\ pos' > 0
    BY <1>1, <1>2, <1>5, KeepWidthAssumption DEF Accept, Handshake, TypeOK, SourceTypeOK, HeaderTypeOK
  <2>3. TypeOK'
    BY <1>1, <1>2, <2>1, AcceptSource DEF TypeOK, SourceTypeOK, HeaderTypeOK, Later, Stick
  <2>4. StickyInv'
    BY <1>1, <1>2, <1>5, <2>1, AcceptSticky
  <2>5. JudgedInv'
    BY <1>1, <1>3, <2>1 DEF IInv, JudgedInv, HeaderCaptured, Later
  <2> QED
    BY <1>1, <1>3, <2>1, <2>2, <2>3, <2>4, <2>5
       DEF IInv, ParseInv, RealignInv, LastTailInv, ForwardInv, DropInv, Realigning, TailOnly
<1> QED
  BY <1>4, <1>5

------------------------------------------------------------------------------
LEMMA InitInv == Init => IInv
<1> SUFFICES ASSUME Init PROVE IInv
  OBVIOUS
<1>1. /\ KEEP_WIDTH \in Nat \ {0} /\ HeaderBytes \subseteq Nat
      /\ src \in Frames /\ src.end \in Nat \ {0} /\ pos = 0
  BY KeepWidthAssumption, PlanAssumption, FramesAssumption DEF Init, SourceInit, IsFrame
<1>2. TypeOK
  <2>1. 0 \in Byte /\ 0 \in 0 .. PARSE_FINAL_BEAT /\ 0 \in 0 .. COUNTER_MOD - 1 /\ NoData \in Data
    BY HeaderEnd, CounterAssumption DEF Byte, NoData, Data
  <2>2. SourceTypeOK
    BY DEF Init, SourceInit, SourceTypeOK
  <2>3. HeaderTypeOK
    BY <2>1 DEF Init, HeaderInit, HeaderTypeOK
  <2> QED
    BY <2>1, <2>2, <2>3 DEF Init, TypeOK, State, EmptyTail, Unjudged
<1>3. SourceInv
  <2>1. 0 \in 0 .. pos /\ pos = 0 * KEEP_WIDTH
    BY <1>1
  <2>2. \E n \in 0 .. pos : pos = n * KEEP_WIDTH
    BY <2>1, Zenon
  <2>3. pos < src.end /\ ~(pos > 0)
    BY <1>1
  <2> QED
    BY <1>2, <2>2, <2>3, Zenon DEF SourceInv, TypeOK
<1>4. StickyInv
  <2>1. Flagged = {} /\ sticky_tuser = FALSE
    BY <1>1 DEF Init, Flagged
  <2> QED
    BY <2>1 DEF StickyInv
<1>5. ParseInv
  <2>1. pos = beat_count * KEEP_WIDTH /\ \A p \in HeaderBytes : ~ (p < pos)
    BY <1>1 DEF Init, HeaderInit
  <2> QED
    BY <2>1 DEF Init, ParseInv
<1> QED
  BY <1>2, <1>3, <1>4, <1>5
     DEF Init, IInv, JudgedInv, RealignInv, LastTailInv, ForwardInv, DropInv, Realigning, TailOnly

LEMMA StepInv ==
  ASSUME IInv, [Next]_vars
  PROVE  IInv'
<1>1. CASE Present
  BY <1>1, PresentInv
<1>2. CASE Consume
  BY <1>2, ParseMoreInv, ShortInv, FinalDropInv, FinalRealignInv, FinalHeaderOnlyInv,
     FinalForwardInv, DropStepInv DEF Consume
<1>3. CASE Output
  BY <1>3, RealignTailOnlyInv, RealignMoreInv, RealignLastInv, RealignSpillInv, ForwardStepInv
     DEF Output
<1>4. CASE IdleEdge
  BY <1>4, IdleEdgeInv
<1>5. CASE Reset
  BY <1>5, ResetInv
<1>6. CASE UNCHANGED vars
  BY <1>6 DEF vars, registers, source, history, IInv, TypeOK, SourceTypeOK, HeaderTypeOK, SourceInv, StickyInv, Flagged,
              ParseInv, JudgedInv, HeaderCaptured, RealignInv, LastTailInv, ForwardInv, DropInv,
              Realigning, TailOnly, Position
<1> QED
  BY <1>1, <1>2, <1>3, <1>4, <1>5, <1>6 DEF Next

(* IInv holds initially and every step of the parser and its source        *)
(* preserves it.                                                           *)
THEOREM Invariance == Spec => []IInv
<1>1. Init => IInv
  BY InitInv
<1>2. IInv /\ [Next]_vars => IInv'
  BY StepInv
<1> QED
  BY <1>1, <1>2, PTL DEF Spec

(* Every register keeps its type: in particular beat_count stays within    *)
(* the header and no drop counter leaves its width.                        *)
THEOREM TypeCorrect == Spec => []TypeOK
<1>1. IInv => TypeOK
  BY DEF IInv
<1> QED
  BY <1>1, Invariance, PTL

------------------------------------------------------------------------------
(* The safety properties follow from the invariant. *)

(* What a realigned beat is made of: the tail's bytes, then the bytes of   *)
(* the beat on the bus, which continue them.                               *)
LEMMA RealignedData ==
  ASSUME IInv, Realigning
  PROVE  /\ TypeOK /\ SourceInv /\ cur = src
         /\ Position \in Nat /\ pos \in Nat /\ Position + TAIL_BYTES = pos
         /\ TAIL_BYTES \in 0 .. KEEP_WIDTH - 1
         /\ m_axis_tdata \in [Lanes -> Int]
         /\ \A i \in Lanes : m_axis_tdata[i] = src.data[Position + i]
<1>0. TypeOK /\ SourceInv /\ RealignInv
  BY DEF IInv
<1>1. /\ pos > 0 /\ Position + TAIL_BYTES = pos
      /\ \A i \in Lanes : tail.tdata[i] = IF i < TAIL_BYTES THEN cur.data[Position + i] ELSE 0
  BY <1>0 DEF RealignInv
<1>2. /\ KEEP_WIDTH \in Nat \ {0} /\ TAIL_BYTES \in 0 .. KEEP_WIDTH - 1
      /\ pos \in Nat /\ Position \in Nat
  BY <1>0, KeepWidthAssumption, PlanAssumption, HeaderEnd DEF TypeOK, SourceTypeOK, HeaderTypeOK, Position
<1>3. cur = src
  BY <1>0, <1>1 DEF SourceInv
<1>4. m_axis_tdata = Or(tail.tdata, ShiftLeft(s_axis_tdata, TAIL_BYTES))
  <2>1. state = "ST_REALIGN" /\ ~TailOnly
    BY DEF Realigning, TailOnly
  <2> QED
    BY <2>1 DEF m_axis_tdata
<1>5. ASSUME NEW i \in Lanes
      PROVE  m_axis_tdata[i] = src.data[Position + i] /\ m_axis_tdata[i] \in Int
  <2>1. i \in Nat /\ i < KEEP_WIDTH
    BY <1>2 DEF Lanes
  <2>2. tail.tdata[i] \in Byte /\ 0 \in Byte /\ Byte \subseteq Int
    BY <1>0 DEF TypeOK, SourceTypeOK, HeaderTypeOK, Data, Byte
  <2>3. m_axis_tdata[i] = IF tail.tdata[i] = 0 THEN ShiftLeft(s_axis_tdata, TAIL_BYTES)[i]
                          ELSE IF ShiftLeft(s_axis_tdata, TAIL_BYTES)[i] = 0 THEN tail.tdata[i]
                          ELSE 256
    BY <1>4 DEF Or
  <2>4. CASE i < TAIL_BYTES
    <3>1. ShiftLeft(s_axis_tdata, TAIL_BYTES)[i] = 0
      BY <1>2, <2>1, <2>4 DEF ShiftLeft
    <3>2. tail.tdata[i] = src.data[Position + i]
      BY <1>1, <1>3, <2>4
    <3> QED
      BY <2>2, <2>3, <3>1, <3>2
  <2>5. CASE ~(i < TAIL_BYTES)
    <3>1. i - TAIL_BYTES \in Lanes /\ i >= TAIL_BYTES
      BY <1>2, <2>1, <2>5 DEF Lanes
    <3>2. ShiftLeft(s_axis_tdata, TAIL_BYTES)[i] = s_axis_tdata[i - TAIL_BYTES]
      BY <3>1 DEF ShiftLeft
    <3>3. s_axis_tdata[i - TAIL_BYTES] = src.data[pos + (i - TAIL_BYTES)]
      BY <1>0, <3>1, Beat, HeaderAssumption
    <3>4. pos + (i - TAIL_BYTES) = Position + i
      BY <1>1, <1>2, <2>1
    <3>5. s_axis_tdata[i - TAIL_BYTES] \in Byte
      BY <1>0, <3>1, Beat, HeaderAssumption DEF Data
    <3>6. tail.tdata[i] = 0
      BY <1>1, <2>5
    <3> QED
      BY <2>2, <2>3, <3>2, <3>3, <3>4, <3>5, <3>6
  <2> QED
    BY <2>4, <2>5
<1>6. m_axis_tdata \in [Lanes -> Int]
  BY <1>4, <1>5 DEF Or
<1> QED
  BY <1>0, <1>1, <1>2, <1>3, <1>5, <1>6

(* The number of lanes a realigned last beat has: those of the tail and    *)
(* those the source's last beat adds to them.                              *)
LEMMA RealignedKeep ==
  ASSUME IInv, Realigning
  PROVE  m_axis_tkeep = IF LastFits THEN keep_for_count(TAIL_BYTES + Valid)
                                    ELSE keep_for_count(KEEP_WIDTH)
<1>0. TypeOK /\ SourceInv /\ RealignInv
  BY DEF IInv
<1>1. /\ KEEP_WIDTH \in Nat \ {0} /\ TAIL_BYTES \in 0 .. KEEP_WIDTH - 1
      /\ PAYLOAD_START_BYTE \in 1 .. KEEP_WIDTH /\ TAIL_BYTES = KEEP_WIDTH - PAYLOAD_START_BYTE
      /\ Valid \in 0 .. KEEP_WIDTH /\ s_axis_tkeep = keep_for_count(Valid)
  BY <1>0, KeepWidthAssumption, HeaderEnd, Beat, HeaderAssumption DEF TAIL_BYTES
<1>2. tail.tkeep = keep_for_count(TAIL_BYTES) /\ ~TailOnly /\ state = "ST_REALIGN"
  BY <1>0 DEF RealignInv, Realigning, TailOnly
<1>3. CASE ~LastFits
  BY <1>2, <1>3 DEF m_axis_tkeep, Lanes, keep_for_count, Realigning
<1>4. CASE LastFits
  <2>1. m_axis_tkeep = keep_for_count(TAIL_BYTES) \cup ShiftLeftKeep(keep_for_count(Valid), TAIL_BYTES)
    BY <1>1, <1>2, <1>4 DEF m_axis_tkeep
  <2>2. Valid <= PAYLOAD_START_BYTE
    BY <1>1, <1>4 DEF LastFits, keep_for_count
  <2> QED
    BY <1>1, <1>4, <2>1, <2>2 DEF keep_for_count, ShiftLeftKeep, Lanes
<1> QED
  BY <1>3, <1>4

(* Realignment loses, repeats and reorders nothing, and tlast is where the *)
(* frame ends.                                                             *)
LEMMA OutputBeat == IInv => PayloadIntegrity /\ FrameBoundary
<1> SUFFICES ASSUME IInv, m_axis_tvalid PROVE PayloadIntegrity /\ FrameBoundary
  BY DEF PayloadIntegrity, FrameBoundary
<1>0. TypeOK /\ SourceInv
  BY DEF IInv
<1>1. /\ KEEP_WIDTH \in Nat \ {0} /\ pos \in Nat /\ Position \in Nat
      /\ TAIL_BYTES \in 0 .. KEEP_WIDTH - 1
      /\ Valid \in 0 .. KEEP_WIDTH /\ src.len \in Nat
  BY <1>0, KeepWidthAssumption, PlanAssumption, HeaderEnd, Beat, HeaderAssumption DEF TypeOK, SourceTypeOK, HeaderTypeOK, Position
<1>2. SUFFICES ASSUME NEW n \in 0 .. KEEP_WIDTH, m_axis_tkeep = keep_for_count(n)
                PROVE  /\ \A i \in 0 .. n - 1 :
                            Position + i < cur.len /\ m_axis_tdata[i] = cur.data[Position + i]
                       /\ m_axis_tlast => Position + n = cur.len
                       /\ ~m_axis_tlast => n = KEEP_WIDTH
  <2>1. \E n \in 0 .. KEEP_WIDTH : m_axis_tkeep = keep_for_count(n)
    <3>1. CASE Realigning
      <4>1. CASE LastFits
        <5>1. TAIL_BYTES + Valid \in 0 .. KEEP_WIDTH
          <6>1. Valid <= PAYLOAD_START_BYTE /\ PAYLOAD_START_BYTE \in 1 .. KEEP_WIDTH
            BY <1>0, <1>1, <4>1, HeaderEnd, Beat, HeaderAssumption DEF LastFits, keep_for_count
          <6> QED
            BY <1>1, <6>1 DEF TAIL_BYTES
        <5> QED
          BY <3>1, <4>1, <5>1, RealignedKeep
      <4>2. CASE ~LastFits
        BY <1>1, <3>1, <4>2, RealignedKeep
      <4> QED
        BY <4>1, <4>2
    <3>2. CASE TailOnly \/ state = "ST_FLUSH"
      <4>1. LastTailInv /\ m_axis_tkeep = tail.tkeep
        BY <3>2 DEF IInv, m_axis_tkeep, TailOnly, Realigning
      <4>2. cur.len - Position \in 0 .. KEEP_WIDTH
        <5>1. cur.len \in Nat
          BY <1>0, FramesAssumption DEF TypeOK, SourceTypeOK, HeaderTypeOK, IsFrame
        <5> QED
          BY <1>1, <3>2, <4>1, <5>1 DEF LastTailInv
      <4> QED
        BY <3>2, <4>1, <4>2 DEF LastTailInv
    <3>3. CASE state = "ST_FORWARD"
      BY <1>0, <1>1, <3>3, Beat, HeaderAssumption DEF m_axis_tkeep, TailOnly, Realigning
    <3> QED
      BY <3>1, <3>2, <3>3 DEF m_axis_tvalid
  <2>2. \A n \in 0 .. KEEP_WIDTH : keep_count(keep_for_count(n)) = n
    BY <1>1, Masks
  <2>3. Lanes = keep_for_count(KEEP_WIDTH)
    BY DEF Lanes, keep_for_count
  <2> QED
    BY <2>1, <2>2, <2>3 DEF PayloadIntegrity, FrameBoundary, keep_for_count
<1>3. n = keep_count(m_axis_tkeep)
  BY <1>1, <1>2, Masks
<1>4. CASE Realigning
  <2>1. /\ cur = src /\ Position + TAIL_BYTES = pos
        /\ \A i \in Lanes : m_axis_tdata[i] = src.data[Position + i]
    BY <1>4, RealignedData
  <2>2. m_axis_tlast <=> LastFits
    BY <1>4 DEF m_axis_tlast, TailOnly, Realigning
  <2>3. CASE LastFits
    <3>1. n = TAIL_BYTES + Valid
      <4>1. TAIL_BYTES + Valid \in Nat
        BY <1>1
      <4> QED
        BY <1>3, <1>4, <2>3, <4>1, RealignedKeep, Masks
    <3>2. src.len = pos + Valid
      BY <1>0, <2>3, Beat, HeaderAssumption DEF LastFits
    <3> QED
      BY <1>1, <1>2, <2>1, <2>2, <2>3, <3>1, <3>2 DEF Lanes
  <2>4. CASE ~LastFits
    <3>1. n = KEEP_WIDTH
      BY <1>1, <1>3, <1>4, <2>4, RealignedKeep, Masks
    <3>2. Position + KEEP_WIDTH <= src.len
      <4>1. CASE s_axis_tlast
        <5>1. Valid > PAYLOAD_START_BYTE /\ src.len = pos + Valid
          BY <1>0, <1>1, <2>4, <4>1, HeaderEnd, Beat, HeaderAssumption DEF LastFits, keep_for_count
        <5> QED
          BY <1>1, <2>1, <5>1, HeaderEnd DEF TAIL_BYTES
      <4>2. CASE ~s_axis_tlast
        <5>1. Valid = KEEP_WIDTH
          BY <1>0, <4>2, Beat, HeaderAssumption
        <5>2. pos + KEEP_WIDTH <= src.len
          BY <1>1, <5>1 DEF Valid
        <5> QED
          BY <1>1, <2>1, <5>2
      <4> QED
        BY <4>1, <4>2
    <3> QED
      BY <1>1, <2>1, <2>2, <2>4, <3>1, <3>2 DEF Lanes
  <2> QED
    BY <2>3, <2>4
<1>5. CASE TailOnly \/ state = "ST_FLUSH"
  <2>1. LastTailInv /\ m_axis_tkeep = tail.tkeep /\ m_axis_tdata = tail.tdata /\ m_axis_tlast
    BY <1>5 DEF IInv, m_axis_tkeep, m_axis_tdata, m_axis_tlast, TailOnly, Realigning
  <2>2. cur.len \in Nat
    BY <1>0, FramesAssumption DEF TypeOK, SourceTypeOK, HeaderTypeOK, IsFrame
  <2>3. n = cur.len - Position
    <3>1. cur.len - Position \in Nat /\ tail.tkeep = keep_for_count(cur.len - Position)
      BY <1>1, <1>5, <2>1, <2>2 DEF LastTailInv
    <3> QED
      BY <1>3, <2>1, <3>1, Masks
  <2>4. \A i \in 0 .. n - 1 : m_axis_tdata[i] = cur.data[Position + i]
    BY <1>2, <1>5, <2>1 DEF LastTailInv, keep_for_count
  <2> QED
    BY <1>1, <2>1, <2>2, <2>3, <2>4
<1>6. CASE state = "ST_FORWARD"
  <2>1. /\ pos > 0 /\ Position = pos /\ cur = src
        /\ m_axis_tkeep = s_axis_tkeep /\ m_axis_tdata = s_axis_tdata
        /\ m_axis_tlast <=> s_axis_tlast
    BY <1>0, <1>6 DEF IInv, ForwardInv, SourceInv, m_axis_tkeep, m_axis_tdata, m_axis_tlast,
                     TailOnly, Realigning
  <2>2. n = Valid
    BY <1>0, <1>3, <2>1, Beat, HeaderAssumption
  <2>3. \A i \in 0 .. n - 1 : m_axis_tdata[i] = src.data[pos + i]
    BY <1>0, <1>1, <2>1, Beat, HeaderAssumption DEF Lanes
  <2>4. \A i \in 0 .. n - 1 : pos + i < src.len
    BY <1>1, <2>2 DEF Valid
  <2>5. (s_axis_tlast => pos + n = src.len) /\ (~s_axis_tlast => n = KEEP_WIDTH)
    BY <1>0, <2>2, Beat, HeaderAssumption
  <2> QED
    BY <2>1, <2>3, <2>4, <2>5
<1> QED
  BY <1>4, <1>5, <1>6 DEF m_axis_tvalid

(* Error marks neither get lost nor leak: the flag of the beat offered     *)
(* sums up the beats of its own frame.                                     *)
LEMMA OutputError == IInv => ErrorFlag
<1> SUFFICES ASSUME IInv, m_axis_tvalid PROVE ErrorFlag
  BY DEF ErrorFlag
<1>0. TypeOK /\ SourceInv /\ StickyInv
  BY DEF IInv
<1>1. ~parser_drop
  BY DEF IInv, JudgedInv, m_axis_tvalid, TailOnly, Realigning
<1>2. CASE TailOnly \/ state = "ST_FLUSH"
  <2>1. /\ pos = 0 /\ (tail.tuser => sticky_tuser)
        /\ m_axis_tuser = (sticky_tuser \/ parser_drop \/ tail.tuser)
    BY <1>2 DEF IInv, LastTailInv, m_axis_tuser, TailOnly, Realigning
  <2>2. Flagged = cur.user
    BY <1>2, <2>1 DEF Flagged, TailOnly
  <2>3. m_axis_tuser = (cur.user # {})
    BY <1>0, <1>1, <2>1, <2>2, Zenon DEF StickyInv
  <2> QED
    BY <1>2, <2>3 DEF ErrorFlag
<1>3. CASE Realigning \/ state = "ST_FORWARD"
  <2>1. /\ pos > 0 /\ ~TailOnly /\ state # "ST_FLUSH"
        /\ Realigning => (tail.tuser => sticky_tuser)
    BY <1>3 DEF IInv, RealignInv, ForwardInv, Realigning, TailOnly
  <2>2. cur = src /\ pos \in Nat /\ src.user \subseteq Nat
    BY <1>0, <2>1, Beat, HeaderAssumption DEF SourceInv
  <2>3. sticky_tuser = (\E q \in src.user : q < pos)
    <3>1. Flagged = {q \in src.user : q < pos}
      BY <2>1, <2>2 DEF Flagged
    <3> QED
      BY <1>0, <3>1 DEF StickyInv
  <2>4. m_axis_tuser <=> sticky_tuser \/ s_axis_tuser
    <3>1. CASE Realigning
      <4>1. m_axis_tuser = (sticky_tuser \/ parser_drop \/ (tail.tuser \/ s_axis_tuser))
        BY <3>1 DEF m_axis_tuser
      <4> QED
        BY <1>1, <2>1, <3>1, <4>1, Zenon
    <3>2. CASE state = "ST_FORWARD"
      <4>1. m_axis_tuser = (sticky_tuser \/ parser_drop \/ s_axis_tuser)
        BY <3>2 DEF m_axis_tuser, Realigning
      <4> QED
        BY <1>1, <4>1, Zenon
    <3> QED
      BY <1>3, <3>1, <3>2
  <2>5. m_axis_tuser <=> {q \in src.user : q <= pos} # {}
    <3>1. s_axis_tuser <=> pos \in src.user
      BY DEF s_axis_tuser
    <3>2. \A q \in src.user : q <= pos <=> q < pos \/ q = pos
      BY <2>2
    <3>3. ({q \in src.user : q <= pos} # {}) <=> (\E q \in src.user : q < pos) \/ pos \in src.user
      BY <3>2, Zenon
    <3> QED
      BY <2>3, <2>4, <3>1, <3>3, Zenon
  <2>6. m_axis_tuser \in BOOLEAN
    BY <1>0 DEF m_axis_tuser, s_axis_tuser, TypeOK, SourceTypeOK, HeaderTypeOK
  <2>7. m_axis_tuser = ({q \in cur.user : q <= pos} # {})
    BY <2>2, <2>5, <2>6, Zenon
  <2> QED
    BY <2>1, <2>7, Zenon DEF ErrorFlag
<1> QED
  BY <1>2, <1>3 DEF m_axis_tvalid

LEMMA OutputAccepted == IInv => OnlyAccepted
  BY DEF IInv, OnlyAccepted, JudgedInv, m_axis_tvalid, m_axis_tdest, TailOnly, Realigning

LEMMA OutputFields == IInv => FieldsCoherent
  BY DEF IInv, FieldsCoherent, ParseInv, JudgedInv, HeaderCaptured, fields_valid

(* Realignment loses, repeats and reorders no payload byte, for any bus    *)
(* width, header length and frame length.                                  *)
THEOREM PayloadIntact == Spec => []PayloadIntegrity
<1> QED
  BY Invariance, OutputBeat, PTL

(* tlast and tkeep end every output frame with the frame's last byte.      *)
THEOREM FrameEnds == Spec => []FrameBoundary
<1> QED
  BY Invariance, OutputBeat, PTL

(* The error flag of a beat offered downstream sums up its own frame.      *)
THEOREM ErrorsKept == Spec => []ErrorFlag
<1> QED
  BY Invariance, OutputError, PTL

(* Nothing of a rejected or incomplete frame is offered downstream, and a  *)
(* frame keeps the destination it was judged to have.                      *)
THEOREM RejectedStopped == Spec => []OnlyAccepted
<1> QED
  BY Invariance, OutputAccepted, PTL

(* The field outputs never announce a mixture of two headers.              *)
THEOREM HeadersCoherent == Spec => []FieldsCoherent
<1> QED
  BY Invariance, OutputFields, PTL

(* A beat on offer does not change under the sink's eyes while it waits.   *)
THEOREM OffersHeld == Spec => HeldUntilAccepted
<1>1. ASSUME Present, m_axis_tvalid PROVE m_axis' = m_axis
  <2>1. /\ ~s_axis_tvalid
        /\ UNCHANGED <<state, tail, sticky_tuser, parser_drop, route_tdest_reg>>
    BY <1>1 DEF Present, Offer, registers
  <2>2. CASE TailOnly
    <3>1. TailOnly' /\ ~Realigning /\ ~Realigning' /\ state = "ST_REALIGN" /\ state' = "ST_REALIGN"
      BY <2>1, <2>2 DEF TailOnly, Realigning
    <3> QED
      BY <2>1, <2>2, <3>1 DEF m_axis, m_axis_tvalid, m_axis_tdata, m_axis_tkeep, m_axis_tlast,
                               m_axis_tuser, m_axis_tdest
  <2>3. CASE state = "ST_FLUSH"
    <3>1. state' = "ST_FLUSH" /\ ~Realigning /\ ~Realigning' /\ ~TailOnly /\ ~TailOnly'
      BY <2>1, <2>3 DEF TailOnly, Realigning
    <3> QED
      BY <2>1, <2>3, <3>1 DEF m_axis, m_axis_tvalid, m_axis_tdata, m_axis_tkeep, m_axis_tlast,
                               m_axis_tuser, m_axis_tdest
  <2> QED
    BY <1>1, <2>1, <2>2, <2>3 DEF m_axis_tvalid
<1>2. ASSUME IdleEdge PROVE m_axis' = m_axis
  BY <1>2 DEF IdleEdge, source, m_axis, m_axis_tvalid, m_axis_tdata, m_axis_tkeep, m_axis_tlast,
              m_axis_tuser, m_axis_tdest, TailOnly, Realigning, LastFits,
              s_axis_tdata, s_axis_tkeep, s_axis_tlast, s_axis_tuser
<1>3. m_axis_tvalid /\ (Present \/ IdleEdge) => m_axis' = m_axis
  BY <1>1, <1>2
<1> QED
  BY <1>3, PTL DEF Spec, HeldUntilAccepted

------------------------------------------------------------------------------
(* The sink, and FrameFilter.                                              *)

(* The instance's operators on headers are the parser's. *)
LEMMA FilterJudges ==
  \A hdr, cfg : /\ Filter!DropsOf(hdr, cfg) = DropsOf(hdr, cfg)
                /\ Filter!RouteOf(hdr, cfg) = RouteOf(hdr, cfg)
<1>1. \A x, y : Filter!BitAnd(x, y) = BitAnd(x, y)
  BY DEF Filter!BitAnd, BitAnd
<1>2. \A hdr, f : Filter!BigEndian(hdr, f) = BigEndian(hdr, f)
  BY DEF Filter!BigEndian, BigEndian
<1>3. \A S : Filter!Max(S) = Max(S)
  BY DEF Filter!Max, Max
<1>4. \A c, hdr, cfg : Filter!route_condition(c, hdr, cfg) = route_condition(c, hdr, cfg)
  BY <1>1, <1>2 DEF Filter!route_condition, route_condition, Filter!FieldValue, FieldValue
<1> TAKE hdr, cfg
<1>5. {i \in DOMAIN RouteConditions : Filter!route_condition(RouteConditions[i], hdr, cfg)}
       = {i \in DOMAIN RouteConditions : route_condition(RouteConditions[i], hdr, cfg)}
  BY <1>4, Zenon
<1>6. Filter!RouteOf(hdr, cfg) = RouteOf(hdr, cfg)
  BY <1>3, <1>5, Zenon DEF Filter!RouteOf, RouteOf
<1>7. Filter!DropsOf(hdr, cfg) = DropsOf(hdr, cfg)
  BY <1>1, <1>2 DEF Filter!DropsOf, DropsOf, Filter!drop_expression, drop_expression,
                    Filter!FieldValue, FieldValue
<1> QED
  BY <1>6, <1>7

LEMMA FilterHeader ==
  \A f : Filter!Header(f) = [p \in HeaderBytes |-> f.data[p]]
  BY DEF Filter!Header, Filter!HeaderBytes, HeaderBytes, Filter!FieldBytes, FieldBytes

(* What the edges that hand on a beat have in common. *)
LEMMA OutputHandshake ==
  ASSUME IInv, Output
  PROVE  /\ m_axis_tvalid /\ Emit /\ ConfigEdge /\ UNCHANGED <<cur, drop_count>>
         /\ Phase = "payload"
         /\ m_axis_tlast => Phase' = "idle" /\ m_axis_tuser = (cur.user # {})
         /\ ~m_axis_tlast => Phase' = "payload" /\ route_tdest_reg' = route_tdest_reg
<1>0. TypeOK /\ SourceInv /\ ErrorFlag
  BY OutputError DEF IInv
<1>1. CASE RealignTailOnly \/ Flush
  <2>1. /\ TailOnly \/ state = "ST_FLUSH"
        /\ ~Realigning
        /\ Emit /\ ConfigEdge /\ EndFrame /\ Later /\ UNCHANGED <<source, cur>>
    BY <1>1 DEF RealignTailOnly, Flush, TailOnly, Realigning
  <2>2. m_axis_tvalid /\ m_axis_tlast /\ pos' = 0
    BY <2>1 DEF m_axis_tvalid, m_axis_tlast, IInv, LastTailInv, source
  <2>3. m_axis_tuser = (cur.user # {})
    BY <1>0, <2>1, <2>2 DEF ErrorFlag
  <2> QED
    BY <2>1, <2>2, <2>3 DEF Phase, EndFrame, Later, TailOnly
<1>2. CASE RealignMore \/ RealignLast \/ RealignSpill \/ Forward
  <2>1. /\ (Realigning /\ (m_axis_tlast <=> LastFits)) \/ (state = "ST_FORWARD" /\ (m_axis_tlast <=> s_axis_tlast))
        /\ Accept /\ Emit /\ Later
        /\ m_axis_tlast => EndFrame /\ s_axis_tlast
        /\ ~m_axis_tlast => /\ state' \in {"ST_REALIGN", "ST_FLUSH", "ST_FORWARD"}
                            /\ route_tdest_reg' = route_tdest_reg
    BY <1>2 DEF RealignMore, RealignLast, RealignSpill, RealignBeat, Forward, Realigning, LastFits,
                m_axis_tlast, TailOnly
  <2>2. m_axis_tvalid /\ pos > 0 /\ cur = src /\ ~TailOnly /\ state # "ST_FLUSH"
    BY <1>0, <2>1 DEF m_axis_tvalid, Accept, Handshake, IInv, RealignInv, ForwardInv, SourceInv,
                      Realigning, TailOnly
  <2>3. cur' = cur /\ ConfigEdge /\ drop_count' = drop_count
    BY <2>1, <2>2 DEF Accept, Handshake, Later
  <2>4. ASSUME m_axis_tlast PROVE pos' = 0 /\ m_axis_tuser = (cur.user # {})
    <3>1. pos' = 0 /\ s_axis_tlast
      BY <2>1, <2>4 DEF Accept, Handshake
    <3>2. m_axis_tuser = ({q \in cur.user : q <= pos} # {})
      BY <1>0, <2>2, Zenon DEF ErrorFlag
    <3>3. \A q \in src.user : q <= pos
      <4> TAKE q \in src.user
      <4>1. q \in Nat /\ pos \in Nat /\ q < pos + KEEP_WIDTH
        BY <1>0, <3>1, Beat, KeepWidthAssumption
      <4> QED
        BY <1>0, <4>1, BeatStart
    <3> QED
      BY <2>2, <3>1, <3>2, <3>3
  <2>5. Phase = "payload" /\ (m_axis_tlast => Phase' = "idle") /\ (~m_axis_tlast => Phase' = "payload")
    BY <2>1, <2>4 DEF Phase, EndFrame, Realigning
  <2> QED
    BY <2>1, <2>2, <2>3, <2>4, <2>5
<1> QED
  BY <1>1, <1>2 DEF Output

(* What the sink has once it took a beat. *)
LEMMA TakenBeat ==
  ASSUME FramesInv, Output, Sink
  PROVE  /\ emitted' = emitted + keep_count(m_axis_tkeep) /\ emitted' \in Nat
         /\ IF m_axis_tlast
            THEN /\ received' = << >>
                 /\ delivered' = [payload |-> Filter!Slice(cur, TOTAL_LENGTH, emitted'),
                                  error |-> m_axis_tuser, tdest |-> m_axis_tdest]
            ELSE /\ received' = Filter!Slice(cur, TOTAL_LENGTH, emitted')
                 /\ delivered' = delivered
<1>0. IInv /\ TypeOK /\ SourceInv /\ SinkInv
  BY DEF FramesInv, IInv
<1>1. Phase = "payload" /\ Emit /\ m_axis_tvalid
  BY <1>0, OutputHandshake
<1> DEFINE n == keep_count(m_axis_tkeep)
           bytes == received \o [i \in 1 .. n |-> m_axis_tdata[i - 1]]
<1>2. n \in Nat /\ emitted \in Nat /\ TOTAL_LENGTH \in Nat /\ emitted' = emitted + n
  BY <1>0, <1>1, EmitType, PlanAssumption DEF Emit, TypeOK
<1>3. \A i \in 0 .. n - 1 : m_axis_tdata[i] = cur.data[TOTAL_LENGTH + emitted + i]
  <2>1. PayloadIntegrity
    BY <1>0, OutputBeat
  <2> QED
    BY <1>1, <2>1 DEF PayloadIntegrity, Position, keep_for_count
<1>4. received = [i \in 1 .. emitted |-> cur.data[TOTAL_LENGTH + i - 1]]
  BY <1>0, <1>1 DEF SinkInv, Filter!Slice
<1>5. bytes = Filter!Slice(cur, TOTAL_LENGTH, emitted')
  <2> HIDE DEF n
  <2>1. [i \in 1 .. emitted |-> cur.data[TOTAL_LENGTH + i - 1]] \o [i \in 1 .. n |-> m_axis_tdata[i - 1]]
          = [i \in 1 .. emitted + n |-> cur.data[TOTAL_LENGTH + i - 1]]
    BY <1>2, <1>3, SliceMore
  <2> QED
    BY <1>2, <1>4, <2>1 DEF Filter!Slice
<1>6. Take(m_axis_tdata, m_axis_tkeep, m_axis_tlast, m_axis_tuser, m_axis_tdest)
  BY DEF Sink
<1>7. IF m_axis_tlast
      THEN /\ received' = << >>
           /\ delivered' = [payload |-> bytes, error |-> m_axis_tuser, tdest |-> m_axis_tdest]
      ELSE received' = bytes /\ delivered' = delivered
  BY <1>6, Zenon DEF Take
<1> HIDE DEF bytes
<1> QED
  BY <1>2, <1>5, <1>7

LEMMA OutputSink ==
  ASSUME FramesInv, Output, Sink
  PROVE  SinkInv'
<1>1. /\ m_axis_tlast => Phase' = "idle"
      /\ ~m_axis_tlast => Phase' = "payload"
      /\ cur' = cur
  BY OutputHandshake DEF FramesInv
<1> QED
  BY <1>1, TakenBeat DEF SinkInv, Filter!Slice

(* A beat of the header is one of a frame whose header is not complete.    *)
LEMMA ParseCandidate ==
  ASSUME FramesInv, ParseBeat
  PROVE  /\ TypeOK /\ SourceInv /\ ParseInv /\ src \in Frames /\ cur' = src
         /\ pos \in Nat /\ (pos > 0 => cur = src)
         /\ pos' = IF s_axis_tlast THEN 0 ELSE pos + KEEP_WIDTH
         /\ Phase = IF pos = 0 THEN "idle" ELSE "header"
         /\ Filter!Candidate(src)
         /\ received = << >> /\ emitted' = 0
<1>1. /\ TypeOK /\ SourceInv /\ ParseInv /\ SinkInv
      /\ state = "ST_PARSE" /\ Accept /\ emitted' = 0
  BY DEF FramesInv, IInv, ParseBeat
<1>2. /\ src \in Frames /\ cur' = src /\ pos \in Nat /\ (pos > 0 => cur = src)
      /\ pos' = IF s_axis_tlast THEN 0 ELSE pos + KEEP_WIDTH
      /\ Filter!Configure
  BY <1>1 DEF SourceInv, SourceTypeOK, Accept, Handshake, ConfigEdge, Filter!Configure
<1>3. Phase = IF pos = 0 THEN "idle" ELSE "header"
  BY <1>1 DEF Phase
<1>4. Filter!Candidate(src)
  BY <1>2, <1>3 DEF Filter!Candidate
<1>5. received = << >>
  BY <1>1, <1>3 DEF SinkInv
<1> QED
  BY <1>1, <1>2, <1>3, <1>4, <1>5

(* What the parser judges on the last beat of a header is what FrameFilter *)
(* judges.                                                                 *)
LEMMA FilterJudgement ==
  ASSUME FramesInv, Judge
  PROVE  /\ src.len >= TOTAL_LENGTH
         /\ Filter!DropsOf(Filter!Header(src), cfg_reg) = drops_now
         /\ Filter!RouteOf(Filter!Header(src), cfg_reg) = route_tdest_next
<1>1. TypeOK /\ SourceInv /\ ParseInv /\ FinalBeat
  BY DEF FramesInv, IInv, Judge
<1>2. Bypassed = [p \in HeaderBytes |-> src.data[p]] /\ src.len >= TOTAL_LENGTH
  BY <1>1, FinalHeader, JudgedFrame
<1>3. Filter!Header(src) = Bypassed
  BY <1>2, FilterHeader
<1> QED
  BY <1>2, <1>3, FilterJudges DEF drops_now, route_tdest_next

LEMMA FilterMore ==
  ASSUME FramesInv, ParseMore
  PROVE  /\ Phase' = "header" /\ route_tdest_reg' = route_tdest_reg
         /\ Filter!Begin(src) \/ Filter!Reconfigure
<1>1. ParseBeat /\ ~s_axis_tlast /\ state' = "ST_PARSE" /\ drop_count' = drop_count
      /\ route_tdest_reg' = route_tdest_reg
  BY DEF ParseMore, ParseBeat
<1>2. pos' = pos + KEEP_WIDTH /\ pos' # 0
  BY <1>1, ParseCandidate, KeepWidthAssumption
<1>3. Phase' = "header"
  BY <1>1, <1>2 DEF Phase
<1>4. CASE pos = 0
  BY <1>1, <1>3, <1>4, ParseCandidate DEF Filter!Begin
<1>5. CASE pos # 0
  BY <1>1, <1>3, <1>5, ParseCandidate DEF Filter!Reconfigure, Filter!Candidate
<1> QED
  BY <1>1, <1>3, <1>4, <1>5

LEMMA FilterShort ==
  ASSUME FramesInv, ParseShort \/ FinalShort
  PROVE  Phase' = "idle" /\ Filter!TooShort(src)
<1>1. /\ ParseBeat /\ s_axis_tlast /\ state' = "ST_PARSE" /\ drop_count' = drop_count
      /\ \/ beat_count # PARSE_FINAL_BEAT
         \/ beat_count = PARSE_FINAL_BEAT /\ input_valid_bytes < PAYLOAD_START_BYTE
  BY DEF ParseShort, FinalShort, FinalBeat, ParseBeat, HeaderEndsEarly, EndFrame
<1>2. Phase' = "idle"
  BY <1>1, ParseCandidate DEF Phase
<1>3. src.len < TOTAL_LENGTH
  <2>1. /\ pos = beat_count * KEEP_WIDTH /\ src.len = pos + Valid /\ Valid \in 0 .. KEEP_WIDTH
        /\ beat_count \in 0 .. PARSE_FINAL_BEAT /\ input_valid_bytes = Valid
    BY <1>1, ParseCandidate, Beat DEF ParseInv, ParseBeat, TypeOK, HeaderTypeOK
  <2>2. /\ KEEP_WIDTH \in Nat \ {0} /\ PARSE_FINAL_BEAT \in Nat /\ PAYLOAD_START_BYTE \in 1 .. KEEP_WIDTH
        /\ PARSE_FINAL_BEAT * KEEP_WIDTH + PAYLOAD_START_BYTE = TOTAL_LENGTH
    BY HeaderEnd, KeepWidthAssumption
  <2>3. CASE beat_count # PARSE_FINAL_BEAT
    <3>1. PICK d \in Nat : PARSE_FINAL_BEAT = beat_count + 1 + d
      BY <2>1, <2>2, <2>3
    <3>2. PARSE_FINAL_BEAT * KEEP_WIDTH = beat_count * KEEP_WIDTH + KEEP_WIDTH + d * KEEP_WIDTH
      BY <2>1, <2>2, <3>1
    <3>3. d * KEEP_WIDTH \in Nat /\ beat_count * KEEP_WIDTH \in Nat
      BY <2>1, <2>2
    <3> QED
      BY <2>1, <2>2, <3>2, <3>3
  <2>4. CASE beat_count = PARSE_FINAL_BEAT
    <3>1. Valid < PAYLOAD_START_BYTE /\ pos = PARSE_FINAL_BEAT * KEEP_WIDTH /\ pos \in Nat
      BY <1>1, <2>1, <2>4, ParseCandidate
    <3> QED
      BY <2>1, <2>2, <3>1
  <2> QED
    BY <2>3, <2>4
<1> QED
  BY <1>1, <1>2, <1>3, ParseCandidate DEF Filter!TooShort

LEMMA FilterDrop ==
  ASSUME FramesInv, FinalDrop
  PROVE  Phase' \in {"idle", "discard"} /\ Filter!Reject(src)
<1>1. Judge /\ ParseBeat /\ drops_now # {} /\ CountDrops
      /\ IF s_axis_tlast THEN state' = "ST_PARSE" ELSE state' = "ST_DROP"
  BY DEF FinalDrop, Judge, FinalBeat, EndFrame
<1>2. Phase' \in {"idle", "discard"}
  BY <1>1, ParseCandidate DEF Phase
<1>3. drop_count' = [c \in DropConditions |->
                       IF c \in Filter!DropsOf(Filter!Header(src), cfg_reg)
                       THEN (drop_count[c] + 1) % COUNTER_MOD ELSE drop_count[c]]
  BY <1>1, FilterJudgement DEF CountDrops
<1> QED
  BY <1>1, <1>2, <1>3, ParseCandidate, FilterJudgement DEF Filter!Reject

LEMMA FilterAdmit ==
  ASSUME FramesInv, FinalRealign \/ FinalForward, UNCHANGED sink
  PROVE  Phase' = "payload" /\ Filter!Admit(src)
<1>1. /\ Judge /\ ParseBeat /\ drops_now = {} /\ drop_count' = drop_count
      /\ state' \in {"ST_REALIGN", "ST_FORWARD"} /\ route_tdest_reg' = route_tdest_next
  BY DEF FinalRealign, FinalForward, Pass, Judge, FinalBeat
<1>2. Phase' = "payload"
  BY <1>1 DEF Phase
<1>3. Filter!Pass(src)
  BY <1>1, ParseCandidate, FilterJudgement DEF Filter!Pass
<1> QED
  BY <1>1, <1>2, <1>3, FilterJudgement DEF Filter!Admit, sink

LEMMA FilterHeaderOnly ==
  ASSUME FramesInv, FinalHeaderOnly, UNCHANGED sink
  PROVE  Phase' = "idle" /\ Filter!HeaderOnly(src)
<1>1. /\ Judge /\ ParseBeat /\ drops_now = {} /\ drop_count' = drop_count
      /\ parse_tail_bytes = 0 /\ s_axis_tlast /\ state' = "ST_PARSE"
  BY DEF FinalHeaderOnly, Pass, Judge, FinalBeat, EndFrame
<1>2. Phase' = "idle" /\ Phase \in {"idle", "header"}
  BY <1>1, ParseCandidate DEF Phase
<1>3. Filter!Pass(src)
  BY <1>1, ParseCandidate, FilterJudgement DEF Filter!Pass
<1>4. src.len = TOTAL_LENGTH
  <2>1. /\ pos \in Nat /\ Valid \in 0 .. KEEP_WIDTH /\ src.len = pos + Valid
        /\ pos + PAYLOAD_START_BYTE = TOTAL_LENGTH /\ PAYLOAD_START_BYTE \in 1 .. KEEP_WIDTH
        /\ Valid - PAYLOAD_START_BYTE = 0
    BY <1>1, ParseCandidate, Beat, JudgedFrame, HeaderEnd
  <2> QED
    BY <2>1, KeepWidthAssumption
<1> QED
  BY <1>1, <1>2, <1>3, <1>4 DEF Filter!HeaderOnly, sink

LEMMA FilterDiscard ==
  ASSUME FramesInv, Drop, UNCHANGED sink
  PROVE  /\ Phase = "discard" /\ Phase' # "payload"
         /\ Filter!Discard \/ Filter!Reconfigure
<1>1. /\ state = "ST_DROP" /\ Accept /\ drop_count' = drop_count /\ SourceInv /\ pos > 0
      /\ IF s_axis_tlast THEN state' = "ST_PARSE" ELSE state' = state
  BY DEF Drop, Later, EndFrame, FramesInv, IInv, DropInv
<1>2. Filter!Configure /\ cur' = cur /\ (s_axis_tlast => pos' = 0)
  BY <1>1 DEF Accept, Handshake, SourceInv, ConfigEdge, Filter!Configure
<1>3. Phase = "discard" /\ Phase' = IF s_axis_tlast THEN "idle" ELSE "discard"
  BY <1>1, <1>2 DEF Phase
<1> QED
  BY <1>1, <1>2, <1>3 DEF Filter!Discard, Filter!Discarded, Filter!Reconfigure, sink

LEMMA FilterDeliver ==
  ASSUME FramesInv, Output, Sink
  PROVE  /\ m_axis_tlast => Filter!Deliver
         /\ ~m_axis_tlast => Filter!Reconfigure /\ Phase' = "payload" /\ Phase = "payload"
                              /\ route_tdest_reg' = route_tdest_reg /\ delivered' = delivered
<1>1. IInv /\ TypeOK /\ FrameBoundary
  BY OutputBeat DEF FramesInv, IInv
<1>2. /\ m_axis_tvalid /\ Emit /\ Filter!Configure /\ UNCHANGED <<cur, drop_count>> /\ Phase = "payload"
      /\ m_axis_tlast => Phase' = "idle" /\ m_axis_tuser = (cur.user # {})
      /\ ~m_axis_tlast => Phase' = "payload" /\ route_tdest_reg' = route_tdest_reg
  BY <1>1, OutputHandshake DEF ConfigEdge, Filter!Configure
<1>3. ASSUME m_axis_tlast
      PROVE  delivered' = [payload |-> Filter!Slice(cur, TOTAL_LENGTH, cur.len - TOTAL_LENGTH),
                           error |-> cur.user # {}, tdest |-> route_tdest_reg]
  <2>1. Position + keep_count(m_axis_tkeep) = cur.len
    BY <1>1, <1>2, <1>3 DEF FrameBoundary
  <2>2. emitted' = cur.len - TOTAL_LENGTH
    <3>1. /\ emitted \in Nat /\ TOTAL_LENGTH \in Nat /\ keep_count(m_axis_tkeep) \in Nat
      BY <1>1, EmitType, PlanAssumption DEF TypeOK, IInv
    <3> QED
      BY <1>2, <2>1, <3>1 DEF Emit, Position
  <2> QED
    BY <1>2, <1>3, <2>2, TakenBeat DEF m_axis_tdest
<1>4. ~m_axis_tlast => delivered' = delivered
  BY TakenBeat
<1> QED
  BY <1>2, <1>3, <1>4 DEF Filter!Deliver, Filter!Reconfigure

LEMMA IdleStep ==
  ASSUME FramesInv, Present \/ IdleEdge, UNCHANGED sink
  PROVE  SinkInv' /\ Filter!Reconfigure /\ UNCHANGED <<Phase, route_tdest_reg, delivered>>
<1>1. /\ Filter!Configure
      /\ UNCHANGED <<state, pos, cur, drop_count, emitted, route_tdest_reg, received, delivered>>
  BY DEF Present, Offer, IdleEdge, registers, source, history, sink, ConfigEdge, Filter!Configure
<1>2. Phase' = Phase
  BY <1>1 DEF Phase
<1> QED
  BY <1>1, <1>2 DEF Filter!Reconfigure, FramesInv, SinkInv, Filter!Slice

LEMMA ConsumeSink ==
  ASSUME FramesInv, Consume, UNCHANGED sink
  PROVE  SinkInv'
<1>1. CASE Phase' # "payload"
  <2>1. received = << >>
    <3>1. CASE ParseBeat
      BY <3>1, ParseCandidate
    <3>2. CASE Drop
      BY <3>2, FilterDiscard DEF FramesInv, SinkInv
    <3> QED
      BY <3>1, <3>2 DEF Consume, ParseMore, ParseShort, FinalShort, FinalDrop, FinalRealign,
                        FinalHeaderOnly, FinalForward, Pass, Judge, FinalBeat
  <2> QED
    BY <1>1, <2>1 DEF SinkInv, sink
<1>2. CASE Phase' = "payload"
  <2>1. ParseBeat
    BY <1>2, FilterDiscard DEF Consume, ParseMore, ParseShort, FinalShort, FinalDrop, FinalRealign,
                               FinalHeaderOnly, FinalForward, Pass, Judge, FinalBeat
  <2>2. received' = << >> /\ emitted' = 0
    BY <2>1, ParseCandidate DEF sink
  <2>3. [i \in 1 .. 0 |-> cur'.data[TOTAL_LENGTH + i - 1]] = << >>
    BY SliceNone, PlanAssumption
  <2> QED
    BY <1>2, <2>2, <2>3 DEF SinkInv, Filter!Slice
<1> QED
  BY <1>1, <1>2

LEMMA ResetStep ==
  ASSUME Reset, SinkReset
  PROVE  SinkInv' /\ Phase' = "idle" /\ Filter!IntakeReset /\ UNCHANGED delivered
<1>1. Phase' = "idle"
  BY DEF Reset, SourceReset, Phase
<1> QED
  BY <1>1 DEF Reset, SourceReset, HeaderReset, SinkReset, SinkInv, Filter!IntakeReset

(* The sink has exactly the payload emitted so far of the frame in hand,   *)
(* and the parser's own invariant holds with the sink attached.            *)
THEOREM FramesInvariance == FramesSpec => []FramesInv
<1>1. FramesInit => FramesInv
  <2> SUFFICES ASSUME FramesInit PROVE FramesInv
    OBVIOUS
  <2>1. Phase = "idle" /\ received = << >>
    BY DEF FramesInit, Init, SourceInit, SinkInit, Phase
  <2> QED
    BY <2>1, InitInv DEF FramesInit, FramesInv, SinkInv
<1>2. FramesInv /\ [FramesNext]_framesVars => FramesInv'
  <2> SUFFICES ASSUME FramesInv, [FramesNext]_framesVars PROVE FramesInv'
    OBVIOUS
  <2>1. CASE UNCHANGED framesVars
    <3>1. UNCHANGED vars
      BY <2>1 DEF framesVars
    <3>2. IInv'
      BY <3>1, StepInv DEF FramesInv
    <3>3. UNCHANGED <<state, pos, cur, emitted, received>>
      BY <2>1 DEF framesVars, vars, registers, source, history, sink
    <3> QED
      BY <3>2, <3>3 DEF FramesInv, SinkInv, Phase, Filter!Slice
  <2>2. CASE FramesNext
    <3>1. IInv'
      BY <2>2, StepInv DEF FramesInv, FramesNext, Next
    <3>2. SinkInv'
      BY <2>2, OutputSink, IdleStep, ConsumeSink, ResetStep DEF FramesNext
    <3> QED
      BY <3>1, <3>2 DEF FramesInv
  <2> QED
    BY <2>1, <2>2
<1> QED
  BY <1>1, <1>2, PTL DEF FramesSpec

(* Every step of the parser and its sink is a step FrameFilter allows, or  *)
(* leaves what FrameFilter speaks of alone.                                *)
LEMMA FilterStepInv ==
  ASSUME FramesInv, [FramesNext]_framesVars
  PROVE  [Filter!Next]_(Filter!vars)
<1> SUFFICES ASSUME FramesNext PROVE Filter!Next
  <2>1. CASE UNCHANGED framesVars
    <3>1. UNCHANGED <<state, pos, cur, cfg_reg, drop_count, route_tdest_reg, delivered>>
      BY <2>1 DEF framesVars, vars, registers, source, history, sink
    <3> QED
      BY <3>1 DEF Filter!vars, Filter!intake, Phase
  <2> QED
    BY <2>1
<1> DEFINE tdest == IF Phase = "payload" THEN route_tdest_reg ELSE 0
<1>1. CASE Output /\ Sink
  <2>1. ~m_axis_tlast => Filter!Reconfigure /\ UNCHANGED <<tdest, delivered>>
    BY <1>1, FilterDeliver
  <2> QED
    BY <1>1, <2>1, FilterDeliver DEF Filter!Next
<1>2. CASE (Present \/ IdleEdge) /\ UNCHANGED sink
  <2>1. Filter!Reconfigure /\ UNCHANGED <<tdest, delivered>>
    BY <1>2, IdleStep
  <2> QED
    BY <2>1 DEF Filter!Next
<1>3. CASE Consume /\ UNCHANGED sink
  <2>0. delivered' = delivered
    BY <1>3 DEF sink
  <2>1. CASE ParseMore
    <3>1. UNCHANGED <<tdest, delivered>> /\ src \in Frames
      BY <1>3, <2>0, <2>1, FilterMore, ParseCandidate DEF ParseMore
    <3> QED
      BY <2>1, <3>1, FilterMore DEF Filter!Next
  <2>2. CASE ParseShort \/ FinalShort
    <3>1. UNCHANGED <<tdest, delivered>> /\ src \in Frames
      BY <1>3, <2>0, <2>2, FilterShort, ParseCandidate DEF ParseShort, FinalShort, FinalBeat
    <3> QED
      BY <2>2, <3>1, FilterShort DEF Filter!Next
  <2>3. CASE FinalDrop
    <3>1. UNCHANGED <<tdest, delivered>> /\ src \in Frames
      BY <1>3, <2>0, <2>3, FilterDrop, ParseCandidate DEF FinalDrop, Judge, FinalBeat
    <3> QED
      BY <2>3, <3>1, FilterDrop DEF Filter!Next
  <2>4. CASE FinalRealign \/ FinalForward
    <3>1. src \in Frames
      BY <2>4, ParseCandidate DEF FinalRealign, FinalForward, Pass, Judge, FinalBeat
    <3> QED
      BY <1>3, <2>4, <3>1, FilterAdmit DEF Filter!Next
  <2>5. CASE FinalHeaderOnly
    <3>1. src \in Frames
      BY <2>5, ParseCandidate DEF FinalHeaderOnly, Pass, Judge, FinalBeat
    <3> QED
      BY <1>3, <2>5, <3>1, FilterHeaderOnly DEF Filter!Next
  <2>6. CASE Drop
    <3>1. UNCHANGED <<tdest, delivered>>
      BY <1>3, <2>0, <2>6, FilterDiscard
    <3> QED
      BY <1>3, <2>6, <3>1, FilterDiscard DEF Filter!Next
  <2> QED
    BY <1>3, <2>1, <2>2, <2>3, <2>4, <2>5, <2>6 DEF Consume
<1>4. CASE Reset /\ SinkReset
  <2>1. Filter!IntakeReset /\ tdest' = 0 /\ UNCHANGED delivered
    BY <1>4, ResetStep
  <2> QED
    BY <2>1 DEF Filter!Next
<1> QED
  BY <1>1, <1>2, <1>3, <1>4 DEF FramesNext

(* The parser and its sink do to whole frames what FrameFilter allows and  *)
(* nothing else, for every bus width, header and set of frames.            *)
THEOREM FiltersFrames == FramesSpec => Filter!Safety
<1>1. FramesInit => Filter!Init
  <2> SUFFICES ASSUME FramesInit PROVE Filter!Init
    OBVIOUS
  <2>1. Phase = "idle"
    BY DEF FramesInit, Init, SourceInit, Phase
  <2> QED
    BY <2>1 DEF FramesInit, Init, SourceInit, HeaderInit, SinkInit, Nothing,
                Filter!Init, Filter!IntakeInit, Filter!Nothing
<1>2. FramesInv /\ [FramesNext]_framesVars => [Filter!Next]_(Filter!vars)
  BY FilterStepInv
<1> QED
  BY <1>1, <1>2, FramesInvariance, PTL DEF FramesSpec, Filter!Safety
==============================================================================
