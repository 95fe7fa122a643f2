-------------------------------- MODULE CParser --------------------------------
(***************************************************************************)
(* The parser the C generator emits: one function that is given a buffer   *)
(* and a configuration and returns a result.  A step is a part of the      *)
(* function up to a return, or one turn of its loop over the messages.     *)
(***************************************************************************)
EXTENDS Planning

CONSTANT MAX_MESSAGES    \* messages a result has room for

ASSUME MaxMessagesAssumption == MAX_MESSAGES \in Nat \ {0}

------------------------------------------------------------------------------
(* Generation: what it raises an exception for, and the configuration.     *)

c_uint_type(width) == CHOOSE bits \in {8, 16, 32, 64} : bits >= width /\ (bits = 8 \/ bits \div 2 < width)
(* Of fields alike in name, place and width the first is kept. *)
Alike(f, g) == <<f.name, f.offset, f.width>> = <<g.name, g.offset, g.width>>
unique_fields(fields) ==
  LET kept[n \in 0 .. Len(fields)] ==
        IF n = 0 THEN << >>
        ELSE IF \E j \in 1 .. n - 1 : Alike(fields[j], fields[n]) THEN kept[n - 1]
        ELSE Append(kept[n - 1], fields[n])
  IN  kept[Len(fields)]

(* A literal is not cut to its field's width; a default is to its type's.  *)
config_fields(fields) ==
  LET uses == RegisterUses(fields)
  IN  [n \in {uses[i].name : i \in DOMAIN uses} |->
         LET bits == c_uint_type(LastUse(uses, n).width)
         IN  [bits |-> bits, default |-> sv_int(bits, LastUse(uses, n).default_value)]]
TooWide(fields) ==
  \E i \in DOMAIN RegisterUses(fields) : RegisterUses(fields)[i].width > 64

default_config(c) == [n \in DOMAIN c.config |-> c.config[n].default]

(* The fields whose actions the function runs, and others whose registers  *)
(* the configuration has room for.                                         *)
base_context(p, fields, others) ==
  LET acted == unique_fields(fields)
  IN  IF \/ TooWide(acted \o others)
         \/ \E k \in DOMAIN ActionsOf(acted) : ~Supported(ActionsOf(acted)[k].action)
      THEN NoPlan
      ELSE [ok |-> TRUE, config |-> config_fields(acted \o others), fields |-> acted,
            parse_length |-> parse_length(p)]

variant_config_fields(p) ==
  LET values == Sorted(DOMAIN p.variants)
  IN  FlattenSeq([k \in DOMAIN values |-> unique_fields(p.variants[values[k]])])

build_context(p) ==
  CASE p.class = "Multi" ->
         Extended(base_context(p, p.fields, unique_fields(p.sub_protocol.fields)), [kind |-> "multi"])
    [] p.class = "Discriminated" ->
         Extended(base_context(p, p.fields, variant_config_fields(p)),
                  [kind |-> "discriminated", forwards_payload |-> p.forward])
    [] p.class = "Variable" -> NoPlan
    [] OTHER ->
         Extended(base_context(p, p.fields, << >>), [kind |-> "fixed", forwards_payload |-> p.class = "Sideband"])

------------------------------------------------------------------------------
(* Expressions. *)

max_field_value(width) == AllBits(width)
(* The bits a number has in common with a mask. *)
BitAnd(v, mask) ==
  LET common[x \in 0 .. v, m \in 0 .. mask] ==
        IF x = 0 \/ m = 0 THEN 0 ELSE (x % 2) * (m % 2) + 2 * common[x \div 2, m \div 2]
  IN  common[v, mask]
Masked(a, v)           == IF Has(a, "mask") THEN BitAnd(v, a.mask) ELSE v

range_expression(v, width, min, max) ==
  (min > 0 => v >= min) /\ (max < max_field_value(width) => v <= max)
(* Fault: the bounds are outside too. *)
outside_inclusive(v, width, min, max) ==
  (min > 0 /\ v <= min) \/ (max < max_field_value(width) /\ v >= max)
outside_range_expression(v, width, min, max) ==
  (min > 0 /\ v < min) \/ (max < max_field_value(width) /\ v > max)

register_compare(a, v, cfg) == Masked(a, v) = Masked(a, cfg[a.register])

c_drop_expression(a, width, v, cfg) ==
  \/ a.kind = "DropOnMismatch" /\ Masked(a, v) # Masked(a, a.expected)
  \/ a.kind = "DropOnFlag" /\ BitAnd(v, a.mask) # 0
  \/ a.kind = "DropOnRange" /\ outside_range_expression(v, width, a.min_value, a.max_value)
  \/ a.kind = "DropOnRegisterMatch" /\ register_compare(a, v, cfg)
  \/ a.kind \in {"DropOnRegisterMismatch", "DropOnRegisterFlagMismatch"} /\ ~register_compare(a, v, cfg)
  \/ a.kind = "DropOnRegisterRange" /\ (v < cfg[a.min_register] \/ v > cfg[a.max_register])

(* The destinations an action sets, in order. *)
Matches(a, width, v, cfg) ==
  CASE a.kind = "RouteByValue" ->
         [i \in DOMAIN SelectSeq(a.table, LAMBDA e : e.value = v) |->
            SelectSeq(a.table, LAMBDA e : e.value = v)[i].dest]
    [] a.kind = "RouteByRange" ->
         LET in == SelectSeq(a.ranges, LAMBDA e : range_expression(v, width, e.min, e.max))
         IN  [i \in DOMAIN in |-> in[i].dest]
    [] a.kind = "RouteByRegister" -> IF register_compare(a, v, cfg) THEN <<a.destination>> ELSE << >>
    [] a.kind = "RouteByRegistersRange" ->
         IF v >= cfg[a.min_register] /\ v <= cfg[a.max_register] THEN <<a.destination>> ELSE << >>
    [] OTHER -> << >>

(* One action after the other: a match overrides, a default does not.      *)
default_route(a, dests) == IF dests = << >> /\ Has(a, "default") THEN <<a.default>> ELSE dests
routed(a, width, dests, v, cfg) ==
  default_route(a, IF Matches(a, width, v, cfg) # << >> THEN <<Last(Matches(a, width, v, cfg))>> ELSE dests)

action_lines(fields, values, cfg) ==
  LET uses  == ActionsOf(fields)
      value(use) == NumberOf(values[use.field.name])
  IN  [dropped |-> \E i \in DOMAIN uses :
                     IsDrop(uses[i].action)
                     /\ c_drop_expression(uses[i].action, uses[i].field.width, value(uses[i]), cfg),
       destination |-> FoldLeft(LAMBDA dests, use :
                         IF IsRoute(use.action)
                         THEN routed(use.action, use.field.width, dests, value(use), cfg) ELSE dests,
                         << >>, uses)]

------------------------------------------------------------------------------
VARIABLES
  pc,        \* "idle", "called", "loop" or "returned"
  data,      \* the buffer
  cfg,       \* the configuration it is called with
  i, offset, \* of the loop over the messages
  result

call == <<pc, data, cfg, i, offset, result>>

NoResult ==
  [flags |-> {}, values |-> << >>, variant |-> 0, data |-> << >>, destination |-> << >>, forwarded |-> << >>,
   message_count |-> 0, messages |-> << >>]
ok(r) == r.flags = {}

CInit ==
  pc = "idle" /\ data = << >> /\ cfg = << >> /\ i = 0 /\ offset = 0 /\ result = NoResult

Call(buffer, config) ==
  /\ pc = "idle" /\ pc' = "called"
  /\ data' = buffer /\ cfg' = config
  /\ UNCHANGED <<i, offset, result>>

Return(r) == pc' = "returned" /\ result' = r

(* A field that does not lie in the buffer reads as zero, and one of more  *)
(* than 64 bits is copied whole.                                           *)
read_be(from, f) ==
  IF f.offset + from + width_bytes(f) > Len(data) THEN [k \in 1 .. width_bytes(f) |-> 0]
  ELSE read_field(SubSeq(data, from + 1, Len(data)),
                  IF f.width > 64 THEN [offset |-> f.offset, width |-> 8 * width_bytes(f)] ELSE f)
read_fields(fields, from) ==
  [n \in {fields[k].name : k \in DOMAIN fields} |-> read_be(from, FieldNamed(fields, n))]

(* The part of a buffer a pointer and a length stand for. *)
Bytes_t(from, length) == [from |-> from, length |-> length]

ShortInput(c) ==
  /\ pc = "called"
  /\ Len(data) < c.parse_length
  /\ Return([result EXCEPT !.flags = {"SHORT_INPUT"}])
  /\ UNCHANGED <<data, cfg, i, offset>>

(* The header's fields and what their actions say of them. *)
Header(c) ==
  LET values  == read_fields(c.fields, 0)
      verdict == action_lines(c.fields, values, cfg)
  IN  [result EXCEPT !.values = values, !.destination = verdict.destination,
                     !.flags = IF verdict.dropped THEN {"DROPPED"} ELSE {}]

ParseFixed(c) ==
  /\ pc = "called" /\ c.kind = "fixed"
  /\ Len(data) >= c.parse_length
  /\ LET r == Header(c)
     IN  Return(IF c.forwards_payload /\ "DROPPED" \notin r.flags
                THEN [r EXCEPT !.forwarded = <<Bytes_t(c.parse_length, Len(data) - c.parse_length)>>] ELSE r)
  /\ UNCHANGED <<data, cfg, i, offset>>

(* Fault: the length is not compared. *)
AnyLength(p, key) == key \in DOMAIN p.variants
Enough(p, key)    == key \in DOMAIN p.variants /\ Len(data) >= p.variant_length[key]

ParseDiscriminated(p, c) ==
  /\ pc = "called" /\ c.kind = "discriminated"
  /\ Len(data) >= c.parse_length
  /\ LET r     == Header(c)
         key   == NumberOf(r.values[p.discriminator.name])
     IN  Return(
           IF Enough(p, key)
           THEN [r EXCEPT !.variant = key,
                          !.data = read_fields(unique_fields(p.variants[key]), 0),
                          !.forwarded = IF c.forwards_payload
                                        THEN <<Bytes_t(p.variant_length[key], Len(data) - p.variant_length[key])>>
                                        ELSE << >>]
           ELSE IF key \in DOMAIN p.variants
           THEN [r EXCEPT !.variant = key, !.flags = @ \cup {"SHORT_INPUT"}]
           ELSE [r EXCEPT !.flags = @ \cup {"UNKNOWN_VARIANT"}])
  /\ UNCHANGED <<data, cfg, i, offset>>

------------------------------------------------------------------------------
(* Messages. *)

ParseOuter(p, c) ==
  /\ pc = "called" /\ c.kind = "multi"
  /\ Len(data) >= c.parse_length
  /\ LET r == Header(c)
         n == NumberOf(r.values[p.message_count_field])
     IN  result' = [r EXCEPT !.message_count = n,
                             !.flags = @ \cup IF n > MAX_MESSAGES THEN {"TOO_MANY_MESSAGES"} ELSE {}]
  /\ pc' = "loop" /\ i' = 0 /\ offset' = c.parse_length
  /\ UNCHANGED <<data, cfg>>

parsed_message_count == Min({result.message_count, MAX_MESSAGES})
InLoop               == pc = "loop" /\ i < parsed_message_count

(* Whether this many bytes are left behind a place; no subtraction wraps.  *)
Room(from, n) == from <= Len(data) /\ n <= Len(data) - from

(* The whole input up to where the loop stopped is handed on. *)
Forwarded == <<Bytes_t(0, Min({offset, Len(data)}))>>

NoSubHeader(p) ==
  /\ InLoop
  /\ ~Room(offset, p.sub_protocol.total_length)
  /\ Return([result EXCEPT !.flags = @ \cup {"TRUNCATED_MESSAGE"}, !.forwarded = Forwarded,
                            !.messages = Append(@, [flags |-> {"SHORT_INPUT"}])])
  /\ UNCHANGED <<data, cfg, i, offset>>

SubFields(p)  == read_fields(unique_fields(p.sub_protocol.fields), offset)
SubLength(p)  == NumberOf(SubFields(p)[p.sub_protocol.length_field.name])
PayloadAt(p)  == offset + p.sub_protocol.total_length

Truncated(p) ==
  /\ InLoop
  /\ Room(offset, p.sub_protocol.total_length)
  /\ ~Room(PayloadAt(p), SubLength(p))
  /\ Return([result EXCEPT !.flags = @ \cup {"TRUNCATED_MESSAGE"}, !.forwarded = Forwarded,
                            !.messages = Append(@, [flags |-> {"TRUNCATED_MESSAGE"}, values |-> SubFields(p)])])
  /\ UNCHANGED <<data, cfg, i, offset>>

(* Faults: a body that does not fit; the sub-header is not skipped. *)
TakeAnyway(p)   == InLoop /\ Room(offset, p.sub_protocol.total_length)
WholeMessage(p) == InLoop /\ Room(offset, p.sub_protocol.total_length) /\ Room(PayloadAt(p), SubLength(p))
NextInPayload(p) == offset + SubLength(p)
NextOffset(p)    == PayloadAt(p) + SubLength(p)

TakeMessage(p) ==
  /\ WholeMessage(p)
  /\ result' = [result EXCEPT !.messages = Append(@, [flags   |-> {},
                                                      values  |-> SubFields(p),
                                                      payload |-> Bytes_t(PayloadAt(p), SubLength(p))])]
  /\ offset' = NextOffset(p)
  /\ i' = i + 1
  /\ UNCHANGED <<pc, data, cfg>>

LoopEnds ==
  /\ pc = "loop" /\ i >= parsed_message_count
  /\ Return([result EXCEPT !.forwarded = Forwarded])
  /\ UNCHANGED <<data, cfg, i, offset>>

Step(p, c) ==
  \/ ShortInput(c) \/ ParseFixed(c) \/ ParseDiscriminated(p, c) \/ ParseOuter(p, c)
  \/ NoSubHeader(p) \/ Truncated(p) \/ TakeMessage(p) \/ LoopEnds
==============================================================================
