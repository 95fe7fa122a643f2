----------------------------- MODULE MCHftPipeline -----------------------------
(***************************************************************************)
(* The pipeline at its true size on the 80-bit bus: the protocols of the   *)
(* examples, the packets of the pipeline's benches and a few more.         *)
(***************************************************************************)
EXTENDS HftPipeline

Bench == INSTANCE Examples

RouterPlan == Stage!sideband_plan(Bench!UDP_PORT_ROUTER, KEEP_WIDTH)
MoldPlan   == Stage!generate(Stage!Constructed(Bench!MOLD_UDP_PARSER), KEEP_WIDTH)
ItchPlan   == Stage!variant_constants(Bench!ITCH_PARSER)

MoldFields ==
  [session_id |-> [offset |-> 0, length |-> 10], seq_num |-> [offset |-> 10, length |-> 8],
   msg_count |-> [offset |-> 18, length |-> 2]]
MoldSubFields == [msg_len |-> [offset |-> 0, length |-> 2]]
ItchCommon ==
  [message_type |-> [offset |-> 0, length |-> 1], stock_locate |-> [offset |-> 1, length |-> 2],
   tracking_number |-> [offset |-> 3, length |-> 2], timestamp |-> [offset |-> 5, length |-> 6]]
ItchVariants  == ItchPlan.Variants
ItchLengths   == ItchPlan.variant_length

(* They are what the generators make of the examples. *)
ASSUME PlanAsGenerated ==
  /\ MoldFields = MoldPlan.Fields /\ MoldSubFields = MoldPlan.SubFields
  /\ ItchCommon = ItchPlan.CommonFields

NoConditions == {}
NoRoutes     == << >>
NoConfig     == << >>

Tests       == Range(Bench!HftGood \o Bench!HftMultiMessage \o Bench!HftOverflow \o Bench!HftUnread) \cup {Bench!Stress(2)}
Through(packet, flagged) == Gated(RouterPlan, packet, Bench!HftPort, flagged)

(* A message too long for any variant, whole or cut; one of no length; one *)
(* that the frame's end makes a message of a known kind; and frames marked *)
(* from their first beat, or on a later one.                               *)
Odd ==
  {Bench!ok_frame(3, <<Bench!Text(70), Bench!SystemEvent>>), Bench!len_overflow(4, Bench!Text(70), 90),
   Bench!ok_frame(5, <<Bench!SystemEvent, << >>>>), Bench!len_overflow(6, Bench!SystemEvent, 20)}
Flagged == {<<Bench!ok_frame(8, <<Bench!make_unknown_type_msg, Bench!SystemEvent>>), {4 * KEEP_WIDTH}>>}
           \cup {<<Bench!ok_frame(3, <<Bench!Text(70)>>), {b * KEEP_WIDTH}>> : b \in {4, 9}}

AllFrames ==
  UNION {Through(sent[1], sent[2]) : sent \in ({t.packet : t \in Tests} \cup Odd) \X {{}} \cup Flagged}
AllAsserted == UNION {Through(t.packet, {}) \X {t.hw} : t \in Tests}

(* What the configuration names: TLC evaluates each definition once, and   *)
(* what stands for a constant whenever the constant is used.               *)
MCFields       == MoldFields
MCSubFields    == MoldSubFields
MCCommonFields == ItchCommon
MCVariants     == ItchVariants
MCLengths      == ItchLengths
MCConfigValues == {NoConfig}
MCFrames       == AllFrames
MCAsserted     == AllAsserted

(* The gate keeps from the splitter what the benches send to other ports.  *)
ASSUME GateAssumption ==
  \A t \in Tests : Through(t.packet, {}) = {} => t.hw.published = << >> /\ t.hw.malformed = 0

(* Every frame is one of those the pipeline's theorems are about.          *)
ASSUME FramesEndAssumption == FramesEnd /\ NoneLeftOpen
==============================================================================
