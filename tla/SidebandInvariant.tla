-------------------------- MODULE SidebandInvariant ---------------------------
(***************************************************************************)
(* The inductive invariant of SidebandParser and of its sink: what holds   *)
(* between any two of their steps and makes the safety properties true.    *)
(*                                                                         *)
(* It needs two things the generator does not enforce: some field reaches  *)
(* the beat that holds the header's last byte, so that PARSE_BEATS, which  *)
(* follows the fields, and PAYLOAD_START_BYTE, which follows TOTAL_LENGTH, *)
(* agree on where the payload starts; and the source drives tkeep on every *)
(* beat.                                                                   *)
(***************************************************************************)
EXTENDS SidebandFrames

ASSUME HeaderAssumption ==
  /\ PARSE_BEATS = ((TOTAL_LENGTH - 1) \div KEEP_WIDTH) + 1
  /\ KEEP_ALWAYS
ASSUME RoutesAssumption == RouteConditions \in Seq(Range(RouteConditions))

(* The flag remembers the error marks of the beats accepted of cur. *)
Flagged ==
  IF pos > 0 THEN {q \in cur.user : q < pos}
             ELSE IF state = "ST_PARSE" THEN {} ELSE cur.user
StickyInv == sticky_tuser = (Flagged # {})

HeaderCaptured == \A p \in HeaderBytes : field_reg[p] = cur.data[p]

ParseInv ==
  state = "ST_PARSE" =>
    /\ pos = beat_count * KEEP_WIDTH
    /\ ~parser_drop
    /\ \A p \in HeaderBytes : p < pos => field_reg[p] = cur.data[p]
    /\ fields_fresh => pos = 0 /\ HeaderCaptured

(* Past the header: the frame is judged and its header is in the registers. *)
JudgedInv ==
  state # "ST_PARSE" =>
    /\ beat_count = 0
    /\ HeaderCaptured
    /\ verdict.judged
    /\ cur.len >= TOTAL_LENGTH
    /\ route_tdest_reg = verdict.tdest
    /\ state # "ST_DROP" => verdict.drops = {} /\ ~parser_drop

(* The tail holds the payload bytes accepted and not handed on yet: as     *)
(* many as one beat leaves over, or the last ones of the frame.            *)
RealignInv ==
  Realigning =>
    /\ pos > 0
    /\ TAIL_BYTES > 0
    /\ Position + TAIL_BYTES = pos
    /\ tail.tkeep = keep_for_count(TAIL_BYTES)
    /\ \A i \in Lanes : tail.tdata[i] = IF i < TAIL_BYTES THEN cur.data[Position + i] ELSE 0
    /\ tail.tuser => sticky_tuser

LastTailInv ==
  TailOnly \/ state = "ST_FLUSH" =>
    /\ pos = 0
    /\ Position < cur.len
    /\ cur.len - Position <= KEEP_WIDTH
    /\ tail.tkeep = keep_for_count(cur.len - Position)
    /\ \A i \in tail.tkeep : tail.tdata[i] = cur.data[Position + i]
    /\ tail.tuser => sticky_tuser

ForwardInv == state = "ST_FORWARD" => pos > 0 /\ Position = pos
DropInv    == state = "ST_DROP" => pos > 0

IInv ==
  /\ TypeOK /\ SourceInv /\ StickyInv
  /\ ParseInv /\ JudgedInv
  /\ RealignInv /\ LastTailInv /\ ForwardInv /\ DropInv

(* The sink has the payload of the frame in hand as far as it was emitted, *)
(* and nothing of any other frame.                                         *)
SinkInv ==
  received = IF Phase = "payload" THEN Filter!Slice(cur, TOTAL_LENGTH, emitted) ELSE << >>

FramesInv == IInv /\ SinkInv
==============================================================================
