------------------------------ MODULE HftPipeline ------------------------------
(***************************************************************************)
(* The pipeline of three emitted modules: a UDP port router, behind a gate *)
(* that lets only frames for one destination through, a splitter of their  *)
(* messages, and a reader of those.  The router and the gate are what      *)
(* FrameFilter says of them, a map from packets to the frames the splitter *)
(* gets; the splitter is MultiMessageParser, beat by beat; the reader, a   *)
(* DiscriminatedParser with no output port and so always ready, takes the  *)
(* splitter's beats at the edges they leave at.                            *)
(***************************************************************************)
EXTENDS MultiMessageFrames

CONSTANTS
  CommonFields, discriminator, Variants, variant_length,   \* of the messages
  Asserted   \* <<frame, what a bench asserts of its publications and its count>>

Itch  == INSTANCE VariantBeats
Stage == INSTANCE Datapath

(* A message's fields lie within it, and none is longer than the longest.  *)
ASSUME ReaderAssumption ==
  /\ Itch!max_length \in Nat
  /\ CommonFields[discriminator].offset \in Nat /\ CommonFields[discriminator].length \in Nat
  /\ \A k \in DOMAIN Variants :
       /\ variant_length[k] \in 0 .. Itch!max_length
       /\ \A f \in Itch!MessageFields(k) :
            LET at == Itch!LocationIn(k, f)
            IN  at.offset \in Nat /\ at.length \in Nat /\ Itch!Ends(at) <= variant_length[k]

VARIABLES
  itch_state, itch_malformed_count,
  announced,    \* the message the field outputs show while itch_fields_fresh is high
  counted,      \* history: the message being drained has been counted
  log           \* history: what the frame in hand has led to

itch == <<itch_state, itch_malformed_count, announced, counted>>
pipelineVars == <<framesVars, itch, log>>

------------------------------------------------------------------------------
(* The first stage and the gate: the frames a packet becomes, if any.      *)

ITCH_DEST == 0
Gated(plan, packet, config, flagged) ==
  LET seen == Stage!Filtered(plan, Stage!FrameOf(packet, KEEP_WIDTH, {}), Stage!Loaded(plan, config))
  IN  IF seen.dest # ITCH_DEST THEN {} ELSE {Stage!FrameOf(bytes, KEEP_WIDTH, flagged) : bytes \in Range(seen.out)}

------------------------------------------------------------------------------
(* The reader. *)

ItchInit ==
  /\ itch_state = "ST_PARSE"
  /\ itch_malformed_count = 0
  /\ announced = Itch!NoMessage
  /\ counted = FALSE

itch_fields_fresh == announced # Itch!NoMessage

(* The message on the bus, with this beat, in the form of a frame. *)
Message ==
  LET bytes == received \o [i \in 1 .. keep_count(m_axis_tkeep) |-> m_axis_tdata[i - 1]]
  IN  [len |-> Len(bytes), end |-> Len(bytes), data |-> [p \in 0 .. Len(bytes) - 1 |-> bytes[p + 1]]]
Known(msg) == Itch!IsMessage(msg, 0, msg.len)
Limit == Itch!PARSE_BEATS * KEEP_WIDTH

(* The fields are announced for one cycle.                                 *)
(* Fault: until the next message is judged.                                *)
StaysFresh == UNCHANGED announced
NotFresh   == announced' = Itch!NoMessage

(* Fault: a marked message counts too. *)
CountAlways == itch_malformed_count' = (itch_malformed_count + 1) % COUNTER_MOD
CountUnmarked ==
  itch_malformed_count' = IF m_axis_tuser THEN itch_malformed_count ELSE (itch_malformed_count + 1) % COUNTER_MOD

ItchPublish(msg) ==
  /\ itch_state = "ST_PARSE"
  /\ m_axis_tlast /\ Known(msg)
  /\ announced' = Itch!MessageAt(msg, 0)
  /\ UNCHANGED <<itch_state, itch_malformed_count, counted>>

ItchRefuse(msg) ==
  /\ itch_state = "ST_PARSE"
  /\ m_axis_tlast /\ ~Known(msg)
  /\ CountUnmarked
  /\ NotFresh
  /\ UNCHANGED <<itch_state, counted>>

ItchOverLong(msg) ==
  /\ itch_state = "ST_PARSE"
  /\ ~m_axis_tlast /\ msg.len = Limit
  /\ CountUnmarked
  /\ counted' = ~m_axis_tuser
  /\ itch_state' = "ST_DRAIN"
  /\ NotFresh

ItchMore(msg) ==
  /\ itch_state = "ST_PARSE"
  /\ ~m_axis_tlast /\ msg.len # Limit
  /\ NotFresh
  /\ UNCHANGED <<itch_state, itch_malformed_count, counted>>

ItchDrain ==
  /\ itch_state = "ST_DRAIN"
  /\ IF m_axis_tlast THEN itch_state' = "ST_PARSE" /\ counted' = FALSE ELSE UNCHANGED <<itch_state, counted>>
  /\ NotFresh
  /\ UNCHANGED itch_malformed_count

ItchBeat ==
  \/ \E msg \in {Message} : ItchPublish(msg) \/ ItchRefuse(msg) \/ ItchOverLong(msg) \/ ItchMore(msg)
  \/ ItchDrain

(* An edge without a beat. *)
ItchIdle == NotFresh /\ UNCHANGED <<itch_state, itch_malformed_count, counted>>

ItchReset ==
  /\ itch_state' = "ST_PARSE" /\ itch_malformed_count' = 0
  /\ announced' = Itch!NoMessage /\ counted' = FALSE

------------------------------------------------------------------------------
(* The pipeline.  Its malformed_count is the sum of its stages'.           *)

Rise(counter, next) == IF next = counter THEN 0 ELSE 1

NoLog == [whole |-> FALSE, published |-> << >>, malformed |-> 0]
Log ==
  LET before == IF pos = 0 /\ pos' # pos THEN [NoLog EXCEPT !.whole = TRUE] ELSE log
  IN  log' = [before EXCEPT
                !.published = IF itch_fields_fresh' THEN Append(@, announced'.fields) ELSE @,
                !.malformed = @ + Rise(malformed_count, malformed_count')
                                + Rise(itch_malformed_count, itch_malformed_count')]

PipelineInit == Init /\ SinkInit /\ ItchInit /\ log = NoLog

Enter  == Present /\ UNCHANGED <<sink, itch, log>>
Within == (Consume \/ IdleEdge) /\ UNCHANGED sink /\ ItchIdle /\ Log
Leave  == Output /\ Sink /\ ItchBeat /\ Log

PipelineReset == Reset /\ SinkReset /\ ItchReset /\ log' = NoLog

PipelineNext == Enter \/ Within \/ Leave \/ PipelineReset

PipelineSpec == PipelineInit /\ [][PipelineNext]_pipelineVars

------------------------------------------------------------------------------
(* The sequence number on the outputs when a message's fields are fresh is *)
(* that of the frame the message came in, although the two outputs belong  *)
(* to different stages and the splitter may be at the next frame already.  *)
SeqNumCoherent ==
  itch_fields_fresh =>
    /\ \A p \in HeaderBytes : field_reg[p] = cur.data[p]
    /\ \E at \in TOTAL_LENGTH + SUB_HEADER_BYTES .. cur.len - 1 :
         Itch!KeyAt(cur, at) = announced.key /\ announced = Itch!MessageAt(cur, at)

(* What the benches of the pipeline assert of a packet is so, whatever the *)
(* packets before it and wherever the source pauses: the messages it       *)
(* publishes and by how much malformed_count goes up.                      *)
FrameAsTested ==
  log.whole /\ state = "ST_PARSE" /\ pos = 0 =>
    \A test \in Asserted : test[1] = cur =>
      LET hw == test[2] IN
      /\ "malformed" \in DOMAIN hw => log.malformed = hw.malformed
      /\ "published" \in DOMAIN hw =>
           /\ Len(log.published) = Len(hw.published)
           /\ \A m \in DOMAIN hw.published : \A n \in DOMAIN hw.published[m] :
                n \in DOMAIN log.published[m] /\ log.published[m][n] = hw.published[m][n]

(* What the reader is doing with the message on the bus.  One too long for *)
(* any variant has been counted by then, or was marked.                    *)
ReaderInv ==
  /\ itch_malformed_count \in 0 .. COUNTER_MOD - 1
  /\ itch_state \in {"ST_PARSE", "ST_DRAIN"} /\ counted \in BOOLEAN
  /\ counted => itch_state = "ST_DRAIN"
  /\ itch_state = "ST_DRAIN" =>
       /\ state = "ST_MSG_BODY" /\ Sent # 0 /\ Sent >= Limit
       /\ counted \/ sticky_tuser

PipelineInv == FramesInv /\ ReaderInv /\ SeqNumCoherent

(* The messages refused.  One that is counted before its end counts there. *)
Refused == IF counted THEN (itch_malformed_count + COUNTER_MOD - 1) % COUNTER_MOD ELSE itch_malformed_count

Feed == INSTANCE MessageFeed WITH
  phase     <- Phase,
  frame     <- cur,
  cfg       <- cfg_reg,
  counts    <- drop_count,
  start     <- WalkStart,
  left      <- WalkLeft,
  malformed <- malformed_count,
  refused   <- Refused

(* The stages in series publish what MessageFeed says they publish and     *)
(* count what it says they count, beat boundaries and pauses regardless.   *)
ImplementsFeed == Feed!Spec
==============================================================================
