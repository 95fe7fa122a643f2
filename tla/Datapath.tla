-------------------------------- MODULE Datapath --------------------------------
(***************************************************************************)
(* What the modules generated from a plan do to one frame, a packet and    *)
(* the beats on which the source raises tuser: the promises of FrameFilter, *)
(* MessageSplitter, MessageReader and VariantReader in one formula each.   *)
(***************************************************************************)
EXTENDS Planning

Beats(kw)   == INSTANCE AxiStream WITH KEEP_WIDTH <- kw, Frames <- {}
Gen(plan)   == INSTANCE GenerationPlan WITH
  KEEP_WIDTH <- plan.KEEP_WIDTH, Frames <- {}, TOTAL_LENGTH <- plan.TOTAL_LENGTH, Fields <- plan.Fields,
  DropConditions <- plan.DropConditions, RouteConditions <- plan.RouteConditions,
  DEFAULT_TDEST <- plan.DEFAULT_TDEST, ConfigValues <- {config_reset(plan.config_ports)},
  CONFIG_DEFAULT <- config_reset(plan.config_ports)
Splitter(plan) == INSTANCE MessagePlan WITH
  KEEP_WIDTH <- plan.KEEP_WIDTH, Frames <- {}, TOTAL_LENGTH <- plan.TOTAL_LENGTH, Fields <- plan.Fields,
  DropConditions <- plan.DropConditions, RouteConditions <- plan.RouteConditions,
  DEFAULT_TDEST <- plan.DEFAULT_TDEST, ConfigValues <- {config_reset(plan.config_ports)},
  CONFIG_DEFAULT <- config_reset(plan.config_ports), message_count_field <- plan.message_count_field,
  SUB_HEADER_BYTES <- plan.SUB_HEADER_BYTES, SubFields <- plan.SubFields, length_field <- plan.length_field
Reader(plan)   == INSTANCE VariantBeats WITH
  KEEP_WIDTH <- plan.KEEP_WIDTH, Frames <- {}, CommonFields <- plan.CommonFields,
  discriminator <- plan.discriminator, Variants <- plan.Variants, variant_length <- plan.variant_length

FrameOf(packet, kw, flagged) ==
  LET end == kw * ((Len(packet) + kw - 1) \div kw)
  IN  [len |-> Len(packet), end |-> end, user |-> flagged,
       data |-> [p \in 0 .. end - 1 |-> IF p < Len(packet) THEN packet[p + 1] ELSE 0]]
Cut(f, from, n)   == [i \in 1 .. n |-> f.data[from + i - 1]]
HeaderOf(plan, f) == [p \in Gen(plan)!HeaderBytes |-> f.data[p]]
Loaded(plan, config) ==
  [n \in DOMAIN plan.config_ports |->
     IF Has(config, n) THEN config[n] ELSE config_reset(plan.config_ports)[n]]

Long(plan, f)            == f.len >= plan.TOTAL_LENGTH
DropNames(plan, f, cfg)  == {c.name : c \in Gen(plan)!DropsOf(HeaderOf(plan, f), cfg)}
Passes(plan, f, cfg)     == Long(plan, f) /\ DropNames(plan, f, cfg) = {}
Shows(plan, f)           == [n \in DOMAIN plan.Fields |-> Cut(f, plan.Fields[n].offset, plan.Fields[n].length)]

NoOutcome == [drops |-> {}, malformed |-> 0, dest |-> 0, out |-> << >>, cut |-> {}, error |-> FALSE,
              published |-> << >>, values |-> << >>]
Filtered(plan, f, cfg) ==
  IF ~Long(plan, f) THEN NoOutcome
  ELSE [NoOutcome EXCEPT
         !.values = Shows(plan, f),
         !.drops  = DropNames(plan, f, cfg),
         !.dest   = Gen(plan)!RouteOf(HeaderOf(plan, f), cfg),
         !.out    = IF Passes(plan, f, cfg) /\ f.len > plan.TOTAL_LENGTH
                    THEN <<Cut(f, plan.TOTAL_LENGTH, f.len - plan.TOTAL_LENGTH)>> ELSE << >>,
         !.error  = f.user # {}]

------------------------------------------------------------------------------
(* A frame's messages, one after the other; at is where the next begins    *)
(* and left how many are to come.                                          *)

Fails(walk) == [walk EXCEPT !.left = 0, !.malformed = 1]
WalkOn(plan, f, walk) ==
  LET body   == walk.at + plan.SUB_HEADER_BYTES
      length == Splitter(plan)!MsgLen(Splitter(plan)!SubHeader(f, walk.at))
      went   == [walk EXCEPT !.at = body + length, !.left = @ - 1, !.bodies = Append(@, [from |-> body, length |-> length])]
  IN  CASE walk.left = 0          -> walk
        [] walk.left > 0 /\ (body > f.len \/ (body <= f.len /\ length = 0)) -> Fails(walk)
        [] walk.left > 0 /\ body + length > f.len /\ body <= f.len ->
             [Fails(walk) EXCEPT !.cut = {Cut(f, body, n) : n \in Max({1, f.len - body - plan.KEEP_WIDTH + 1}) .. f.len - body}]
        [] OTHER -> IF (went.left = 0) = (body + length = f.len) THEN went ELSE Fails(went)
Walk(plan, f) ==
  LET count == Splitter(plan)!MsgCount(HeaderOf(plan, f))
      walk[k \in 0 .. count] ==
        IF k = 0 THEN [at |-> plan.TOTAL_LENGTH, left |-> count, bodies |-> << >>, cut |-> {}, malformed |-> 0]
        ELSE IF walk[k - 1].left = 0 THEN walk[k - 1] ELSE WalkOn(plan, f, walk[k - 1])
  IN  walk[count]

MultiHeader(plan, f, cfg) ==
  IF Long(plan, f) THEN [Filtered(plan, f, cfg) EXCEPT !.out = << >>, !.error = FALSE]
                   ELSE [NoOutcome EXCEPT !.malformed = 1]
Flagged(f, body) == \E q \in f.user : q < body.from + body.length
Splits(plan, f, cfg) ==
  IF ~Passes(plan, f, cfg) THEN MultiHeader(plan, f, cfg)
  ELSE LET walk == Walk(plan, f)
       IN  [MultiHeader(plan, f, cfg) EXCEPT
              !.malformed = walk.malformed,
              !.cut   = walk.cut,
              !.out   = [i \in DOMAIN walk.bodies |-> Cut(f, walk.bodies[i].from, walk.bodies[i].length)],
              !.error = \E i \in DOMAIN walk.bodies : Flagged(f, walk.bodies[i])]

------------------------------------------------------------------------------
(* What the field registers hold after a message of this key: the fields   *)
(* with one place whether the message has them or not.                     *)
Captured(plan, f, from, length) ==
  LET key  == Reader(plan)!KeyAt(f, from)
      at(n) == CHOOSE place \in Reader(plan)!CaptureAt(n, key) : TRUE
      shown == {n \in Reader(plan)!FieldNames : Reader(plan)!CaptureAt(n, key) # {} /\ Reader(plan)!Ends(at(n)) <= length}
  IN  [n \in shown |-> Cut(f, from + at(n).offset, at(n).length)]

Reads(plan, f) ==
  IF f.len <= Reader(plan)!max_length /\ Reader(plan)!IsMessage(f, 0, f.len)
  THEN [NoOutcome EXCEPT !.published = <<Captured(plan, f, 0, f.len)>>]
  ELSE [NoOutcome EXCEPT !.malformed = 1]

(* A message of another kind counts too, and so does the frame's end. *)
SplitsAndReads(plan, f, cfg) ==
  IF ~Passes(plan, f, cfg) THEN MultiHeader(plan, f, cfg)
  ELSE LET walk    == Walk(plan, f)
           good(b) == Reader(plan)!IsMessage(f, b.from, b.length)
           known   == SelectSeq(walk.bodies, good)
           bad     == Len(walk.bodies) - Len(known)
       IN  [MultiHeader(plan, f, cfg) EXCEPT
              !.malformed = bad + (IF walk.malformed = 1 /\ (walk.bodies = << >> \/ walk.cut # {} \/ good(Last(walk.bodies)))
                                   THEN 1 ELSE 0),
              !.published = [i \in DOMAIN known |-> Captured(plan, f, known[i].from, known[i].length)]]

Judge(p, plan, f, config) ==
  CASE p.class = "Discriminated" -> Reads(plan, f)
    [] p.class = "Multi" /\ p.sub_protocol.class = "LengthPrefixed" -> Splits(plan, f, Loaded(plan, config))
    [] p.class = "Multi" /\ p.sub_protocol.class # "LengthPrefixed" -> SplitsAndReads(plan, f, Loaded(plan, config))
    [] OTHER -> Filtered(plan, f, Loaded(plan, config))
==============================================================================
