---------------------------- MODULE SidebandParser ----------------------------
(***************************************************************************)
(* The parser the generator emits for a SidebandProtocol: it captures the  *)
(* header fields of a frame, then drops the frame or forwards what follows *)
(* the header, realigned to lane 0.                                        *)
(*                                                                         *)
(* Every action but Present is one clock edge.  The input wires s_axis_*   *)
(* are functions of the frame the source is sending and of its position in *)
(* it; the output wires m_axis_* are functions of the registers and of the *)
(* input wires.  The sink's m_axis_tready is free at every edge: the       *)
(* actions that hand a beat to the sink are the edges at which it is high, *)
(* IdleEdge is an edge at which no handshake takes place.                  *)
(***************************************************************************)
EXTENDS HeaderParser

VARIABLES
  state, sticky_tuser, parser_drop, route_tdest_reg,
  tail,           \* the registers tail_tdata, tail_tkeep, tail_tlast, tail_tuser
  fields_fresh,
  (* history *)
  verdict,        \* what cur's header asks for, once it has been judged
  emitted         \* payload bytes of cur handed to the sink

registers == <<state, beat_count, sticky_tuser, parser_drop, route_tdest_reg, tail,
               fields_fresh, field_reg, cfg_reg, drop_count>>
history   == <<cur, verdict, emitted>>
vars      == <<registers, source, history>>

State     == {"ST_PARSE", "ST_REALIGN", "ST_FLUSH", "ST_FORWARD", "ST_DROP"}
EmptyTail == [tdata |-> NoData, tkeep |-> {}, tlast |-> FALSE, tuser |-> FALSE]
Unjudged  == [judged |-> FALSE, drops |-> {}, tdest |-> 0]

------------------------------------------------------------------------------
(* Input wires. *)

(* Fault: a frame being dropped is stalled instead of drained. *)
StallDropped(m_axis_tready) ==
  CASE state = "ST_REALIGN" -> ~tail.tlast /\ m_axis_tready
    [] state = "ST_FORWARD" -> m_axis_tready
    [] OTHER                -> state = "ST_PARSE"

s_axis_tready(m_axis_tready) ==
  CASE state = "ST_REALIGN" -> ~tail.tlast /\ m_axis_tready
    [] state = "ST_FLUSH"   -> FALSE
    [] state = "ST_FORWARD" -> m_axis_tready
    [] OTHER                -> TRUE

parse_tail_bytes == keep_count({i \in s_axis_tkeep : i >= PAYLOAD_START_BYTE})

route_tdest_next == RouteOf(Bypassed, cfg_reg)

------------------------------------------------------------------------------
(* Output wires. *)

Realigning == state = "ST_REALIGN" /\ ~tail.tlast
TailOnly   == state = "ST_REALIGN" /\ tail.tlast
(* Fault: the bytes that do not fit behind the tail are forgotten. *)
AlwaysFits == s_axis_tlast
LastFits   == s_axis_tlast /\ PAYLOAD_START_BYTE \notin s_axis_tkeep

m_axis_tvalid ==
  \/ TailOnly
  \/ Realigning /\ s_axis_tvalid
  \/ state = "ST_FLUSH"
  \/ state = "ST_FORWARD" /\ s_axis_tvalid
m_axis_tdata ==
  CASE Realigning         -> Or(tail.tdata, ShiftLeft(s_axis_tdata, TAIL_BYTES))
    [] TailOnly           -> tail.tdata
    [] state = "ST_FLUSH" -> tail.tdata
    [] OTHER              -> s_axis_tdata
m_axis_tkeep ==
  CASE TailOnly               -> tail.tkeep
    [] Realigning /\ LastFits -> tail.tkeep \cup ShiftLeftKeep(s_axis_tkeep, TAIL_BYTES)
    [] state = "ST_FLUSH"     -> tail.tkeep
    [] state = "ST_FORWARD"   -> s_axis_tkeep
    [] OTHER                  -> Lanes
(* Fault: only realigned frames end. *)
RealignedLast == TailOnly \/ (Realigning /\ LastFits) \/ state = "ST_FLUSH"

m_axis_tlast ==
  \/ TailOnly
  \/ Realigning /\ LastFits
  \/ state = "ST_FLUSH"
  \/ state = "ST_FORWARD" /\ s_axis_tlast
(* Fault: the beat on the bus marks the beat on offer in every state. *)
UnmuxedUser == sticky_tuser \/ parser_drop \/ tail.tuser \/ s_axis_tuser

m_axis_tuser ==
  \/ sticky_tuser
  \/ parser_drop
  \/ IF Realigning THEN tail.tuser \/ s_axis_tuser
     ELSE IF state = "ST_FORWARD" THEN s_axis_tuser ELSE tail.tuser
m_axis_tdest == route_tdest_reg
fields_valid == state # "ST_PARSE"

m_axis == <<m_axis_tvalid, m_axis_tdata, m_axis_tkeep, m_axis_tlast, m_axis_tuser, m_axis_tdest>>

------------------------------------------------------------------------------
Init ==
  /\ SourceInit
  /\ HeaderInit
  /\ state = "ST_PARSE"
  /\ sticky_tuser = FALSE
  /\ parser_drop = FALSE
  /\ route_tdest_reg = 0
  /\ tail = EmptyTail
  /\ fields_fresh = FALSE
  /\ verdict = Unjudged
  /\ emitted = 0

Present ==
  /\ Offer
  /\ UNCHANGED <<registers, verdict, emitted>>

(* The input handshake of a beat. *)
Accept ==
  /\ s_axis_tready(TRUE)
  /\ Handshake
  /\ ConfigEdge

(* Faults: a beat overwrites the flags of earlier ones; a frame inherits   *)
(* the flag of the one before it.                                          *)
StickLast == sticky_tuser' = s_axis_tuser
KeepFlag  == parser_drop' = FALSE /\ UNCHANGED sticky_tuser

(* The flags of a frame, and what every end of frame resets. *)
Stick == sticky_tuser' = (sticky_tuser \/ s_axis_tuser)
Clear == sticky_tuser' = FALSE /\ parser_drop' = FALSE
EndFrame ==
  /\ state' = "ST_PARSE"
  /\ Clear
  /\ route_tdest_reg' = 0

(* An output handshake of the beat on m_axis. *)
Emit == emitted' = emitted + keep_count(m_axis_tkeep)

------------------------------------------------------------------------------
(* ST_PARSE. *)

ParseBeat ==
  /\ state = "ST_PARSE"
  /\ Accept
  /\ field_reg' = Captured
  /\ emitted' = 0

(* More header beats remain. *)
ParseMore ==
  /\ ParseBeat
  /\ beat_count # PARSE_FINAL_BEAT
  /\ ~s_axis_tlast
  /\ beat_count' = beat_count + 1
  /\ Stick
  /\ fields_fresh' = FALSE
  /\ verdict' = Unjudged
  /\ UNCHANGED <<state, parser_drop, route_tdest_reg, tail, drop_count>>

(* The frame ends on a beat before the header's last one. *)
ParseShort ==
  /\ ParseBeat
  /\ beat_count # PARSE_FINAL_BEAT
  /\ s_axis_tlast
  /\ beat_count' = 0
  /\ Clear
  /\ fields_fresh' = FALSE
  /\ verdict' = Unjudged
  /\ UNCHANGED <<state, route_tdest_reg, tail, drop_count>>

FinalBeat ==
  /\ ParseBeat
  /\ beat_count = PARSE_FINAL_BEAT
  /\ beat_count' = 0

HeaderEndsEarly == s_axis_tlast /\ input_valid_bytes < PAYLOAD_START_BYTE

FinalShort ==
  /\ FinalBeat
  /\ HeaderEndsEarly
  /\ EndFrame
  /\ fields_fresh' = FALSE
  /\ verdict' = Unjudged
  /\ UNCHANGED <<tail, drop_count>>

(* The header is complete: the frame is judged. *)
Judge ==
  /\ FinalBeat
  /\ ~HeaderEndsEarly
  /\ fields_fresh' = TRUE
  /\ verdict' = LET hdr == [p \in HeaderBytes |-> src.data[p]]
                IN  [judged |-> TRUE, drops |-> DropsOf(hdr, cfg_reg),
                     tdest |-> RouteOf(hdr, cfg_reg)]

FinalDrop ==
  /\ Judge
  /\ drops_now # {}
  /\ CountDrops
  /\ IF s_axis_tlast
     THEN EndFrame
     ELSE /\ state' = "ST_DROP"
          /\ parser_drop' = TRUE
          /\ route_tdest_reg' = route_tdest_next
          /\ Stick
  /\ UNCHANGED tail

Pass ==
  /\ Judge
  /\ drops_now = {}
  /\ UNCHANGED drop_count

(* Payload follows the header on its last beat: save it. *)
FinalRealign ==
  /\ Pass
  /\ parse_tail_bytes # 0
  /\ tail' = [tdata |-> ShiftRight(s_axis_tdata, PAYLOAD_START_BYTE),
              tkeep |-> keep_for_count(parse_tail_bytes),
              tlast |-> s_axis_tlast,
              tuser |-> s_axis_tuser]
  /\ state' = "ST_REALIGN"
  /\ route_tdest_reg' = route_tdest_next
  /\ Stick
  /\ UNCHANGED parser_drop

FinalHeaderOnly ==
  /\ Pass
  /\ parse_tail_bytes = 0
  /\ s_axis_tlast
  /\ EndFrame
  /\ UNCHANGED tail

FinalForward ==
  /\ Pass
  /\ parse_tail_bytes = 0
  /\ ~s_axis_tlast
  /\ state' = "ST_FORWARD"
  /\ route_tdest_reg' = route_tdest_next
  /\ Stick
  /\ UNCHANGED <<parser_drop, tail>>

------------------------------------------------------------------------------
(* ST_REALIGN, ST_FLUSH, ST_FORWARD and ST_DROP. *)

Later ==
  /\ fields_fresh' = FALSE
  /\ UNCHANGED <<field_reg, drop_count, verdict>>

RealignTailOnly ==
  /\ TailOnly
  /\ Later
  /\ Emit
  /\ tail' = EmptyTail
  /\ EndFrame
  /\ ConfigEdge
  /\ UNCHANGED <<beat_count, source, cur>>

RealignBeat ==
  /\ Realigning
  /\ Later
  /\ Accept
  /\ Emit
  /\ UNCHANGED beat_count

RealignMore ==
  /\ RealignBeat
  /\ ~s_axis_tlast
  /\ tail' = [tail EXCEPT !.tdata = ShiftRight(s_axis_tdata, PAYLOAD_START_BYTE),
                          !.tuser = s_axis_tuser]
  /\ Stick
  /\ UNCHANGED <<state, parser_drop, route_tdest_reg>>

(* The final bytes fit behind the tail. *)
RealignLast ==
  /\ RealignBeat
  /\ LastFits
  /\ tail' = EmptyTail
  /\ EndFrame

(* They do not: the rest is flushed on a beat of its own. *)
RealignSpill ==
  /\ RealignBeat
  /\ s_axis_tlast
  /\ ~LastFits
  /\ tail' = [tdata |-> ShiftRight(s_axis_tdata, PAYLOAD_START_BYTE),
              tkeep |-> keep_for_count(keep_count(s_axis_tkeep) - PAYLOAD_START_BYTE),
              tlast |-> FALSE,
              tuser |-> s_axis_tuser]
  /\ state' = "ST_FLUSH"
  /\ Stick
  /\ UNCHANGED <<parser_drop, route_tdest_reg>>

Flush ==
  /\ state = "ST_FLUSH"
  /\ Later
  /\ Emit
  /\ tail' = EmptyTail
  /\ EndFrame
  /\ ConfigEdge
  /\ UNCHANGED <<beat_count, source, cur>>

Forward ==
  /\ state = "ST_FORWARD"
  /\ Later
  /\ Accept
  /\ Emit
  /\ IF s_axis_tlast
     THEN EndFrame /\ beat_count' = 0
     ELSE Stick /\ UNCHANGED <<state, beat_count, parser_drop, route_tdest_reg>>
  /\ UNCHANGED tail

Drop ==
  /\ state = "ST_DROP"
  /\ Later
  /\ Accept
  /\ IF s_axis_tlast
     THEN EndFrame /\ beat_count' = 0
     ELSE Stick /\ UNCHANGED <<state, beat_count, parser_drop, route_tdest_reg>>
  /\ UNCHANGED <<tail, emitted>>

------------------------------------------------------------------------------
(* An edge without a handshake, and the reset. *)

IdleEdge ==
  /\ ~(s_axis_tvalid /\ s_axis_tready(FALSE))
  /\ ConfigEdge
  /\ fields_fresh' = FALSE
  /\ UNCHANGED <<state, beat_count, sticky_tuser, parser_drop, route_tdest_reg, tail,
                 field_reg, drop_count, source, history>>

Reset ==
  /\ SourceReset
  /\ HeaderReset
  /\ state' = "ST_PARSE"
  /\ Clear
  /\ route_tdest_reg' = 0
  /\ tail' = EmptyTail
  /\ fields_fresh' = FALSE
  /\ verdict' = Unjudged
  /\ emitted' = 0

(* The edges that accept a beat and emit nothing, and those that emit one. *)
Consume ==
  \/ ParseMore \/ ParseShort \/ FinalShort
  \/ FinalDrop \/ FinalRealign \/ FinalHeaderOnly \/ FinalForward
  \/ Drop
Output ==
  \/ RealignTailOnly \/ RealignMore \/ RealignLast \/ RealignSpill
  \/ Flush \/ Forward

Next == Present \/ Consume \/ Output \/ IdleEdge \/ Reset

(* The clock runs, the source keeps sending and the sink keeps accepting:  *)
(* no beat is refused for ever.                                            *)
Fairness == WF_vars(Present) /\ WF_vars(Consume \/ Output)

Spec == Init /\ [][Next]_vars /\ Fairness

------------------------------------------------------------------------------
TypeOK ==
  /\ SourceTypeOK
  /\ HeaderTypeOK
  /\ state \in State
  /\ sticky_tuser \in BOOLEAN
  /\ parser_drop \in BOOLEAN
  /\ route_tdest_reg \in Nat
  /\ tail \in [tdata: Data, tkeep: SUBSET Lanes, tlast: BOOLEAN, tuser: BOOLEAN]
  /\ fields_fresh \in BOOLEAN
  /\ verdict \in [judged: BOOLEAN, drops: SUBSET DropConditions, tdest: Nat]
  /\ emitted \in Nat

(* The payload position lane 0 of the beat on m_axis stands at. *)
Position == TOTAL_LENGTH + emitted

(* Realignment loses, repeats and reorders nothing: the valid lanes of     *)
(* every beat offered downstream are dense and carry the payload bytes of  *)
(* the frame in hand, in order, from where the previous beat stopped.      *)
PayloadIntegrity ==
  m_axis_tvalid =>
    /\ m_axis_tkeep = keep_for_count(keep_count(m_axis_tkeep))
    /\ \A i \in m_axis_tkeep :
         Position + i < cur.len /\ m_axis_tdata[i] = cur.data[Position + i]

(* Every beat but the last is full, and the last one ends exactly with the *)
(* frame's last byte: tlast is neither early, nor late, nor missing.       *)
FrameBoundary ==
  m_axis_tvalid =>
    IF m_axis_tlast THEN Position + keep_count(m_axis_tkeep) = cur.len
                    ELSE m_axis_tkeep = Lanes

(* The error flag of a beat says that a beat of the same frame, header     *)
(* beats included, carried one up to now: none is lost on the way through  *)
(* the tail registers, and none leaks from an earlier frame.               *)
ErrorFlag ==
  m_axis_tvalid =>
    LET seen == IF TailOnly \/ state = "ST_FLUSH" THEN cur.user
                                                 ELSE {q \in cur.user : q <= pos}
    IN  m_axis_tuser = (seen # {})

(* Only a frame judged complete and acceptable is offered downstream, with *)
(* the route its header asked for under the configuration of that moment,  *)
(* whatever the configuration ports do later in the frame.                 *)
OnlyAccepted ==
  m_axis_tvalid =>
    /\ verdict.judged /\ verdict.drops = {}
    /\ cur.len >= TOTAL_LENGTH
    /\ m_axis_tdest = verdict.tdest

(* While the field outputs are announced, as valid or as fresh, they are   *)
(* the header of one frame, the one in hand, and no mixture of two.        *)
FieldsCoherent ==
  fields_valid \/ fields_fresh =>
    \A p \in HeaderBytes : field_reg[p] = cur.data[p]

(* A beat offered and not accepted is still there, unchanged, after an     *)
(* edge at which the sink stalls and when the source offers its next beat. *)
HeldUntilAccepted ==
  [][m_axis_tvalid /\ (Present \/ IdleEdge) => m_axis' = m_axis]_vars

(* Whatever a frame does to the parser, the parser is eventually between   *)
(* two frames again: no state waits for ever.                              *)
FrameCompletes ==
  (state # "ST_PARSE" \/ pos > 0) ~> (state = "ST_PARSE" /\ pos = 0)
==============================================================================
