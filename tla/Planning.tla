-------------------------------- MODULE Planning --------------------------------
(***************************************************************************)
(* What the SystemVerilog generator makes of a definition and a stream: a  *)
(* plan whose entries are the constants of GenerationPlan, MessagePlan and *)
(* VariantPlan, with what the rendered module declares; or no plan, where  *)
(* a constructor or the generator raises an exception.  Sets stand for the *)
(* lists whose order does not matter to the module.                        *)
(***************************************************************************)
EXTENDS Protocols

(***************************************************************************)
(* Where the fields of a definition lie on a bus of kw lanes, and which    *)
(* bits of the bus the emitted modules assign to which bits of a field's   *)
(* register.                                                               *)
(***************************************************************************)
beat(kw, byte) == byte \div kw
lane(kw, byte) == byte % kw

(* The fragments of a field, one per beat that has some byte of it.        *)
field_beats(f, kw) ==
  {[beat        |-> b,
    byte_lo     |-> lane(kw, Max({f.offset, b * kw})),
    byte_hi     |-> lane(kw, Min({end_offset(f), (b + 1) * kw}) - 1),
    field_shift |-> f.width - 8 * (Max({f.offset, b * kw}) - f.offset) - 8,
    is_first    |-> b = beat(kw, f.offset),
    is_last     |-> b = beat(kw, end_offset(f) - 1)]
     : b \in beat(kw, f.offset) .. beat(kw, end_offset(f) - 1)}

(* The mask of a fragment of several bytes shifts by field_shift - 8, and  *)
(* Python rejects a negative shift.                                        *)
field_beats_raises(f, kw) ==
  \E fragment \in field_beats(f, kw) : fragment.byte_hi > fragment.byte_lo /\ fragment.field_shift < 8

header_beats(fields, kw)        == beat(kw, required_length(fields) - 1) + 1
first_payload_beat(header, kw)  == beat(kw, header - 1) + 1
FieldsOnBeat(fields, b, kw) ==
  {fields[i].name : i \in {j \in DOMAIN fields : \E fragment \in field_beats(fields[j], kw) : fragment.beat = b}}

------------------------------------------------------------------------------
(***************************************************************************)
(* The assignments a field's bytes become: bits field_lo .. field_hi of    *)
(* its register from bits bit_lo .. bit_hi of tdata on one beat, or from   *)
(* the low bits of the byte at header_byte, one at a time.                 *)
(***************************************************************************)
(* Fault: the last byte of a field lends its high bits. *)
BitsOfByte(f, k) == Min({8, f.width - 8 * k})
field_hi(f, k)   == f.width - 8 * k - 1
field_lo(f, k)   == Max({0, f.width - 8 * k - BitsOfByte(f, k)})

(* Fault: the first byte of a beat is the most significant one of tdata, as *)
(* bit_slice and keep_for_n_bytes have it.                                  *)
MsbFirst(kw, byte) == 8 * (kw - 1 - lane(kw, byte))
LaneBit(kw, byte)  == 8 * lane(kw, byte)

byte_slices(f, kw) ==
  {[beat     |-> beat(kw, f.offset + k),
    bit_lo   |-> LaneBit(kw, f.offset + k),
    bit_hi   |-> LaneBit(kw, f.offset + k) + BitsOfByte(f, k) - 1,
    field_hi |-> field_hi(f, k), field_lo |-> field_lo(f, k)]
     : k \in 0 .. width_bytes(f) - 1}

field_byte_slices(f) ==
  {[header_byte |-> f.offset + k, source_hi |-> BitsOfByte(f, k) - 1,
    field_hi |-> field_hi(f, k), field_lo |-> field_lo(f, k)]
     : k \in 0 .. width_bytes(f) - 1}

(* The register after a header's beats, or its bytes, have been captured:  *)
(* a bit no slice reaches stays reset.                                     *)
BitOf(byte, i) == (byte \div 2 ^ i) % 2
FromBeats(f, kw, data) ==
  [i \in 0 .. f.width - 1 |->
     LET over == {s \in byte_slices(f, kw) : i \in s.field_lo .. s.field_hi}
     IN  IF over = {} THEN 0
         ELSE LET s == CHOOSE s \in over : TRUE
                  b == s.bit_lo + i - s.field_lo
              IN  BitOf(data[s.beat * kw + b \div 8 + 1], b % 8)]
FromBytes(f, data) ==
  [i \in 0 .. f.width - 1 |->
     LET over == {s \in field_byte_slices(f) : i \in s.field_lo .. s.field_hi}
     IN  IF over = {} THEN 0
         ELSE LET s == CHOOSE s \in over : TRUE IN BitOf(data[s.header_byte + 1], i - s.field_lo)]

(* The number a sequence of digits is, bit by bit. *)
BitsOf(digits, width) ==
  [i \in 0 .. width - 1 |-> BitOf(digits[Len(digits) - i \div 8], i % 8)]

------------------------------------------------------------------------------
(* Plans, and the literals in them. *)

TDEST_WIDTH == 4
NoPlan      == [ok |-> FALSE]

(* A literal is cut to the width it is written with.  TLC's numbers end at *)
(* 2^31 - 1, which stands for all the bits of wider fields.                *)
sv_int(width, value) == IF width >= 31 THEN value ELSE value % 2 ^ width
AllBits(width)       == IF width >= 31 THEN 2147483647 ELSE 2 ^ width - 1
mask_of(a, width)    == IF Has(a, "mask") THEN sv_int(width, a.mask) ELSE AllBits(width)

IsTdest(dest)      == Has(dest, "tdest") /\ dest.tdest >= 0
OptionalTdest(a)   == Has(a, "default") => IsTdest(a.default)
counter_width(n)   == Max({1} \cup {w \in 1 .. 31 : 2 ^ (w - 1) <= n})

(* A set as a list, in some order, and one of numbers in theirs. *)
Listed(S)          == FoldSet(LAMBDA x, list : Append(list, x), << >>, S)
Sorted(S)          == [k \in 1 .. Cardinality(S) |-> CHOOSE x \in S : Cardinality({y \in S : y < x}) = k - 1]

Bytes(f)           == [offset |-> f.offset, length |-> width_bytes(f)]
ByName(fields)     == [n \in {fields[i].name : i \in DOMAIN fields} |-> Bytes(FieldNamed(fields, n))]

(* The actions of a header with their fields, in the order of both. *)
ActionsOf(fields) ==
  FlattenSeq([i \in DOMAIN fields |-> [j \in DOMAIN fields[i].actions |->
                [field |-> fields[i], action |-> fields[i].actions[j]]]])

------------------------------------------------------------------------------
(* Configuration ports: the first action that names a register decides.    *)

Registers(use) ==
  LET a    == use.action
      port(register, default) ==
        [name |-> register, width |-> use.field.width, default_value |-> Get(a, default, 0)]
  IN  CASE a.kind \in {"DropOnRegisterMatch", "DropOnRegisterMismatch", "DropOnRegisterFlagMismatch",
                       "RouteByRegister"} -> <<port(a.register, "default_value")>>
        [] a.kind \in {"DropOnRegisterRange", "RouteByRegistersRange"} ->
             <<port(a.min_register, "min_default"), port(a.max_register, "max_default")>>
        [] OTHER -> << >>
RegisterUses(fields) ==
  FlattenSeq([i \in DOMAIN ActionsOf(fields) |-> Registers(ActionsOf(fields)[i])])

(* The C generator lets the last use decide. *)
LastUse(uses, n)  == uses[Max({i \in DOMAIN uses : uses[i].name = n})]
FirstUse(uses, n) == uses[Min({i \in DOMAIN uses : uses[i].name = n})]
config_ports(fields) ==
  [n \in {RegisterUses(fields)[i].name : i \in DOMAIN RegisterUses(fields)} |->
     FirstUse(RegisterUses(fields), n)]

(* A register holds its reset value until the ports are loaded. *)
(* Fault: the defaults are left out. *)
config_zero(ports)  == [n \in DOMAIN ports |-> 0]
config_reset(ports) == [n \in DOMAIN ports |-> sv_int(ports[n].width, ports[n].default_value)]

------------------------------------------------------------------------------
(* Conditions. *)

(* What is compared: the register, or the wire that bypasses it where the  *)
(* field is on the beat the conditions are judged on.                      *)
value_of(f, final) == IF f.name \in final THEN "comb" ELSE "reg"

drop_condition(use, final) ==
  LET f == use.field
      a == use.action
  IN  [name |-> counter_name(a, f.name), field |-> f.name, kind |-> a.kind, value |-> value_of(f, final)] @@
      CASE a.kind = "DropOnMismatch" -> [expected |-> sv_int(f.width, a.expected), mask |-> mask_of(a, f.width)]
        [] a.kind = "DropOnFlag"     -> [mask |-> mask_of(a, f.width)]
        [] a.kind = "DropOnRange"    -> [min |-> sv_int(f.width, a.min_value), max |-> sv_int(f.width, a.max_value)]
        [] a.kind = "DropOnRegisterRange" -> [min |-> a.min_register, max |-> a.max_register]
        [] OTHER -> [register |-> a.register, mask |-> mask_of(a, f.width)]

action_routes(use) ==
  LET f == use.field
      a == use.action
      to(dest) == [field |-> f.name, kind |-> a.kind, dest |-> dest.tdest]
  IN  CASE a.kind = "RouteByValue" ->
             [i \in DOMAIN a.table |-> [value |-> sv_int(f.width, a.table[i].value)] @@ to(a.table[i].dest)]
        [] a.kind = "RouteByRange" ->
             [i \in DOMAIN a.ranges |-> [min |-> sv_int(f.width, a.ranges[i].min),
                                         max |-> sv_int(f.width, a.ranges[i].max)] @@ to(a.ranges[i].dest)]
        [] a.kind = "RouteByRegister" ->
             <<[register |-> a.register, mask |-> mask_of(a, f.width)] @@ to(a.destination)>>
        [] a.kind = "RouteByRegistersRange" ->
             <<[min |-> a.min_register, max |-> a.max_register] @@ to(a.destination)>>

(* Actions with no counterpart in the module, and destinations that are    *)
(* no number.                                                              *)
Supported(a) ==
  \/ IsDrop(a)
  \/ a.kind = "RouteByValue" /\ OptionalTdest(a) /\ \A i \in DOMAIN a.table : IsTdest(a.table[i].dest)
  \/ a.kind = "RouteByRange" /\ OptionalTdest(a) /\ \A i \in DOMAIN a.ranges : IsTdest(a.ranges[i].dest)
  \/ /\ a.kind \in {"RouteByRegister", "RouteByRegistersRange"}
     /\ OptionalTdest(a) /\ IsTdest(a.destination)

------------------------------------------------------------------------------
(***************************************************************************)
(* build_plan: the header's actions as conditions.  total is the length    *)
(* its parser skips.  The last default wins; a drop counter has the name   *)
(* of the action or of the field and the reason.                           *)
(***************************************************************************)
Defaults(fields) == SelectSeq(ActionsOf(fields), LAMBDA use : IsRoute(use.action) /\ Has(use.action, "default"))
default_tdest(fields) ==
  IF Defaults(fields) = << >> THEN 0 ELSE Last(Defaults(fields)).action.default.tdest

Drops(fields)  == SelectSeq(ActionsOf(fields), LAMBDA use : IsDrop(use.action))
Routes(fields) == SelectSeq(ActionsOf(fields), LAMBDA use : IsRoute(use.action))

build_plan(fields, total, kw) ==
  LET uses   == ActionsOf(fields)
      final  == FieldsOnBeat(fields, header_beats(fields, kw) - 1, kw)
      drops  == Drops(fields)
      routes == Routes(fields)
      plan   == [ok              |-> TRUE,
                 KEEP_WIDTH      |-> kw,
                 TOTAL_LENGTH    |-> total,
                 Fields          |-> ByName(fields),
                 DropConditions  |-> {drop_condition(drops[i], final) : i \in DOMAIN drops},
                 RouteConditions |-> FlattenSeq([i \in DOMAIN routes |-> action_routes(routes[i])]),
                 DEFAULT_TDEST   |-> default_tdest(fields),
                 counters        |-> [i \in DOMAIN drops |-> counter_name(drops[i].action, drops[i].field.name)],
                 config_ports    |-> config_ports(fields),
                 comb            |-> final]
      dests  == {plan.RouteConditions[i].dest : i \in DOMAIN plan.RouteConditions} \cup {plan.DEFAULT_TDEST}
  IN  IF \/ fields = << >> \/ \E i \in DOMAIN fields : field_beats_raises(fields[i], kw)
         \/ \E i \in DOMAIN uses : ~Supported(uses[i].action)
      THEN NoPlan
      ELSE IF Max(dests) >= 2 ^ TDEST_WIDTH THEN NoPlan ELSE plan

(* What the wrapper declares besides the streams' own ports. *)
Ports(plan, parsed, extra) ==
  (IF DOMAIN plan.config_ports = {} THEN << >>
   ELSE <<"config_valid">> \o Listed({"cfg_" \o n : n \in DOMAIN plan.config_ports}))
  \o plan.counters \o parsed \o extra \o <<"fields_valid", "fields_fresh">>
Names(fields) == [i \in DOMAIN fields |-> fields[i].name]

sideband_plan(p, kw) ==
  LET plan == build_plan(p.fields, p.total_length, kw)
  IN  IF ~plan.ok THEN NoPlan ELSE Extended(plan, [ports |-> Ports(plan, Names(p.fields), << >>)])

------------------------------------------------------------------------------
(***************************************************************************)
(* Discriminated messages.  A field of a variant that has the name of a    *)
(* common one is left out; one with a single place in all the variants is  *)
(* captured always, one with several by the values of the discriminator.   *)
(***************************************************************************)
VariantFields(p)   == UNION {Range(p.variants[v]) : v \in DOMAIN p.variants}
CommonNames(p)     == Range(Names(p.fields))
OtherFields(p)     == {f \in VariantFields(p) : f.name \notin CommonNames(p)}
AllFields(p)       == Range(p.fields) \cup OtherFields(p)
MultipleWidths(p)  == \E f \in VariantFields(p), g \in AllFields(p) : f.name = g.name /\ f.width # g.width
FieldNames(p)      == Names(p.fields) \o Listed({f.name : f \in OtherFields(p)})
name_locations(p, n)  == {<<f.offset, f.width>> : f \in {g \in AllFields(p) : g.name = n}}
KeysOf(p, f) ==
  {v \in DOMAIN p.variants : \E g \in Range(p.variants[v]) :
     g.name = f.name /\ g.offset = f.offset /\ g.width = f.width}

(* Fault: a field with several places is captured at all of them. *)
AlwaysAll(p, f) == TRUE
Always(p, f)    == f \in Range(p.fields) \/ Cardinality(name_locations(p, f.name)) = 1

(* The assignments on a beat, or for a byte, and the discriminator values  *)
(* they depend on, if they do.                                             *)
Entry(p, f, slice) ==
  [register |-> f.name, slice |-> slice, always |-> Always(p, f),
   keys |-> IF Always(p, f) THEN {} ELSE KeysOf(p, f)]
beat_entries(p, kw) ==
  UNION {{Entry(p, f, s) : s \in byte_slices(f, kw)} : f \in AllFields(p)}
byte_entries(p) ==
  UNION {{Entry(p, f, s) : s \in field_byte_slices(f)} : f \in AllFields(p)}

variant_constants(p) ==
  [CommonFields   |-> ByName(p.fields),
   discriminator  |-> p.discriminator.name,
   Variants       |-> [v \in DOMAIN p.variants |->
                         LET own == ByName(p.variants[v]) IN Restrict(own, DOMAIN own \ CommonNames(p))],
   variant_length |-> p.variant_length]

discriminated_plan(p, kw) ==
  IF \/ MultipleWidths(p)
     \/ \E f \in AllFields(p) : field_beats_raises(f, kw)
     \/ Cardinality(field_beats(p.discriminator, kw)) # 1
     \/ \E v \in DOMAIN p.variants : v < 0
  THEN NoPlan
  ELSE Extended(variant_constants(p),
         [ok           |-> TRUE,
          KEEP_WIDTH   |-> kw,
          entries      |-> beat_entries(p, kw),
          config_ports |-> << >>,
          counters     |-> <<"malformed_count">>,
          keys         |-> {sv_int(p.discriminator.width, v) : v \in DOMAIN p.variants},
          length_count_width |-> counter_width(Max(Range(p.variant_length)) + kw + 1)])

------------------------------------------------------------------------------
(***************************************************************************)
(* Multi-message protocols.  The conditions come from build_plan, which    *)
(* counts the header's beats by its fields; the module counts them by its  *)
(* length, and declares the bypass wires of that last beat.  The routes    *)
(* are not passed on, and the actions of the messages' fields not looked   *)
(* at.                                                                     *)
(***************************************************************************)
outer_parse_beats(p, kw) == (p.total_length + kw - 1) \div kw
msg_len_width(sub)       == sub.length_field.width

outer_plan(p, kw) ==
  LET base == build_plan(p.fields, p.total_length, kw)
      sub  == p.sub_protocol
  IN  IF ~base.ok THEN NoPlan
      ELSE Extended(base,
             [RouteConditions     |-> << >>,
              DEFAULT_TDEST       |-> 0,
              comb                |-> FieldsOnBeat(p.fields, outer_parse_beats(p, kw) - 1, kw),
              message_count_field |-> p.message_count_field,
              SUB_HEADER_BYTES    |-> sub.total_length,
              SubFields           |-> ByName(sub.fields),
              length_field        |-> sub.length_field.name,
              counters            |-> base.counters \o <<"malformed_count">>,
              sub_slices          |-> UNION {field_byte_slices(f) : f \in Range(sub.fields)}])

multi_message_plan(p, kw) ==
  LET plan == outer_plan(p, kw)
      sub  == p.sub_protocol
      own  == [i \in DOMAIN sub.fields |-> sub.name \o "_" \o sub.fields[i].name]
  IN  IF ~plan.ok \/ sub.total_length <= 0 THEN NoPlan
      ELSE Extended(plan, [ports |-> Ports(plan, Names(p.fields) \o own,
                                           <<sub.name \o "_fields_valid", sub.name \o "_fields_fresh">>)])

multi_discriminated_plan(p, kw) ==
  LET plan  == outer_plan(p, kw)
      inner == p.sub_protocol.discriminated
  IN  IF ~plan.ok \/ MultipleWidths(inner) \/ \E v \in DOMAIN inner.variants : v < 0 THEN NoPlan
      ELSE Extended(Extended(plan, variant_constants(inner)),
             [ports   |-> Ports(plan, Names(p.fields) \o FieldNames(inner),
                                <<"itch_fields_valid", "itch_fields_fresh">>),
              entries |-> byte_entries(inner),
              keys    |-> {sv_int(inner.discriminator.width, v) : v \in DOMAIN inner.variants}])

(* The generator looks at the class; a fixed header and a variable         *)
(* protocol have no module.                                                *)
generate(p, kw) ==
  CASE p.class = "Sideband"      -> sideband_plan(p, kw)
    [] p.class = "Discriminated" ->
         LET plan == discriminated_plan(p, kw)
         IN  IF ~plan.ok THEN NoPlan ELSE Extended(plan, [ports |-> Ports(plan, FieldNames(p), << >>)])
    [] p.class = "Multi" ->
         IF p.sub_protocol.class = "LengthPrefixed" THEN multi_message_plan(p, kw)
                                                    ELSE multi_discriminated_plan(p, kw)
    [] OTHER -> NoPlan
==============================================================================
