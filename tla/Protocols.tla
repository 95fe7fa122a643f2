------------------------------- MODULE Protocols -------------------------------
(***************************************************************************)
(* Protocol definitions: what a definition is, which ones its constructors *)
(* reject, and how the software model reads a packet by them.              *)
(*                                                                         *)
(* A definition is a record; a parameter left at None is a key the record  *)
(* does not have.  class and kind name the Python class.  A destination is *)
(* [tdest |-> n] when it is an integer and [consumer |-> name] when it is  *)
(* text.  A number read from a packet is the sequence of its base-256      *)
(* digits, most significant first.                                         *)
(***************************************************************************)
EXTENDS Integers, SequencesExt, FiniteSetsExt, Functions

Has(r, key)         == key \in DOMAIN r
Get(r, key, other)  == IF Has(r, key) THEN r[key] ELSE other

(* A record with the entries of another, which count where both have one.  *)
Extended(r, by) == [key \in DOMAIN r \cup DOMAIN by |-> IF Has(by, key) THEN by[key] ELSE r[key]]

NonNegative(r, key) == Has(r, key) => r[key] >= 0
NonEmpty(r, key)    == Has(r, key) => r[key] # ""

------------------------------------------------------------------------------
(* Actions. *)

NoConsumer      == [consumer |-> ""]
IsDrop(a)       == a.kind \in {"DropOnMismatch", "DropOnFlag", "DropOnRange", "DropOnRegisterMatch",
                               "DropOnRegisterMismatch", "DropOnRegisterFlagMismatch", "DropOnRegisterRange"}
IsRoute(a)      == a.kind \in {"RouteByValue", "RouteByRange", "RouteToAll", "RouteByRegister",
                               "RouteByRegistersRange"}

drop_reason ==
  [DropOnMismatch |-> "mismatch", DropOnFlag |-> "flag", DropOnRange |-> "range",
   DropOnRegisterMatch |-> "register_match", DropOnRegisterMismatch |-> "register_mismatch",
   DropOnRegisterFlagMismatch |-> "register_flag_mismatch", DropOnRegisterRange |-> "register_range"]

counter_name(a, field_name) ==
  Get(a, "counter", field_name \o "_" \o drop_reason[a.kind] \o "_count")

ValidValueDrop(a) ==
  \/ a.kind = "DropOnMismatch" /\ a.expected >= 0 /\ NonNegative(a, "mask")
  \/ a.kind = "DropOnFlag" /\ a.mask > 0
  \/ a.kind = "DropOnRange" /\ a.min_value >= 0 /\ a.max_value >= a.min_value

ValidRegisterBounds(a) ==
  /\ a.min_register # "" /\ a.max_register # ""
  /\ NonNegative(a, "min_default") /\ NonNegative(a, "max_default")
  /\ Has(a, "min_default") /\ Has(a, "max_default") => a.max_default >= a.min_default

ValidRegisterDrop(a) ==
  \/ /\ a.kind \in {"DropOnRegisterMatch", "DropOnRegisterMismatch"}
     /\ a.register # "" /\ NonNegative(a, "default_value") /\ NonNegative(a, "mask")
  \/ /\ a.kind = "DropOnRegisterFlagMismatch"
     /\ a.register # "" /\ NonNegative(a, "default_value") /\ a.mask > 0
  \/ a.kind = "DropOnRegisterRange" /\ ValidRegisterBounds(a)

(* table is a sequence of [value, dest], in the order it is written. *)
ValidRoute(a) ==
  \/ /\ a.kind = "RouteByValue"
     /\ a.table # << >> \/ Has(a, "default")
     /\ \A i \in DOMAIN a.table : a.table[i].value >= 0 /\ a.table[i].dest # NoConsumer
     /\ Has(a, "default") => a.default # NoConsumer
  \/ /\ a.kind = "RouteByRange"
     /\ a.ranges # << >> \/ Has(a, "default")
     /\ \A i \in DOMAIN a.ranges :
          a.ranges[i].min >= 0 /\ a.ranges[i].max >= a.ranges[i].min /\ a.ranges[i].dest # NoConsumer
     /\ Has(a, "default") => a.default # NoConsumer
  \/ a.kind = "RouteToAll" /\ a.consumers # << >> /\ \A i \in DOMAIN a.consumers : a.consumers[i] # ""

ValidRegisterRoute(a) ==
  /\ a.destination # NoConsumer
  /\ Has(a, "default") => a.default # NoConsumer
  /\ \/ /\ a.kind = "RouteByRegister"
        /\ a.register # "" /\ NonNegative(a, "default_value") /\ NonNegative(a, "mask")
     \/ a.kind = "RouteByRegistersRange" /\ ValidRegisterBounds(a)

ValidCapture(a) ==
  \/ a.kind = "CaptureToMetadata" /\ NonEmpty(a, "name")
  \/ a.kind = "CaptureToRegister" /\ NonEmpty(a, "register")

ValidLength(a) ==
  \/ a.kind = "UseAsPayloadLength" /\ Get(a, "unit_bytes", 1) > 0
  \/ a.kind = "UseAsMessageCount"

ValidAction(a) ==
  CASE IsDrop(a) -> ValidValueDrop(a) \/ ValidRegisterDrop(a)
    [] a.kind \in {"RouteByRegister", "RouteByRegistersRange"} -> ValidRegisterRoute(a)
    [] IsRoute(a) -> ValidRoute(a)
    [] OTHER -> ValidCapture(a) \/ ValidLength(a)

------------------------------------------------------------------------------
(* Fields: [name, offset, width, actions], offset in bytes, width in bits. *)

width_bytes(f) == (f.width + 7) \div 8
end_offset(f)  == f.offset + width_bytes(f)
ValidField(f)  == f.offset >= 0 /\ f.width > 0 /\ \A i \in DOMAIN f.actions : ValidAction(f.actions[i])

drop_counter_names(f) ==
  [i \in DOMAIN SelectSeq(f.actions, IsDrop) |-> counter_name(SelectSeq(f.actions, IsDrop)[i], f.name)]

required_length(fields) == Max({0} \cup {end_offset(fields[i]) : i \in DOMAIN fields})
FieldNamed(fields, name) == fields[Max({i \in DOMAIN fields : fields[i].name = name})]

------------------------------------------------------------------------------
(* Streams and protocols. *)

ValidStream(data_width) == data_width % 8 = 0 /\ data_width >= 8
keep_width(data_width)  == data_width \div 8
keep_all(data_width)    == 0 .. keep_width(data_width) - 1

(***************************************************************************)
(* Definitions as their dataclasses declare them: numbers where numbers    *)
(* belong, the parameters that have no default, lengths only if given.     *)
(***************************************************************************)
IsFields(fields) ==
  /\ fields \in Seq(Range(fields))
  /\ \A f \in Range(fields) : f.offset \in Int /\ f.width \in Int
DeclaredLength(d) == "total_length" \in DOMAIN d => d.total_length \in Int
DeclaredVariants(d) ==
  /\ {"fields", "discriminator", "variants"} \subseteq DOMAIN d
  /\ IsFields(d.fields) /\ d.discriminator.offset \in Int /\ d.discriminator.width \in Int
  /\ IsFiniteSet(DOMAIN d.variants)
  /\ \A v \in DOMAIN d.variants :
       /\ IsFields(d.variants[v])
       /\ "variant_length" \in DOMAIN d => d.variant_length[v] \in Int
DeclaredSub(d) ==
  \/ /\ d.class = "LengthPrefixed" /\ {"class", "fields", "length_field"} \subseteq DOMAIN d
     /\ IsFields(d.fields) /\ DeclaredLength(d)
  \/ /\ d.class = "LengthPrefixedSub" /\ {"class", "length_field", "discriminated"} \subseteq DOMAIN d
     /\ d.length_field.offset \in Int /\ d.length_field.width \in Int
     /\ DeclaredVariants(d.discriminated)
DeclaredMulti(d) ==
  /\ d.class = "Multi" /\ {"class", "fields", "message_count_field", "sub_protocol"} \subseteq DOMAIN d
  /\ IsFields(d.fields) /\ DeclaredLength(d) /\ DeclaredSub(d.sub_protocol)
DeclaredFixed(d) ==
  /\ d.class \in {"Fixed", "Sideband", "LengthPrefixed"} /\ {"class", "fields"} \subseteq DOMAIN d
  /\ IsFields(d.fields) /\ DeclaredLength(d)
DeclaredDiscriminated(d) == d.class = "Discriminated" /\ "class" \in DOMAIN d /\ DeclaredVariants(d)
Declared(d) ==
  /\ "class" \in DOMAIN d
  /\ d.class = "Variable" \/ DeclaredFixed(d) \/ DeclaredMulti(d) \/ DeclaredDiscriminated(d)

(***************************************************************************)
(* What the constructors make of a protocol: a length it does not have is  *)
(* computed, a discriminator it does not list is put before its fields,    *)
(* and a discriminated protocol forwards unless it is told not to.         *)
(* class is "Fixed", "Sideband", "LengthPrefixed", "Multi",                *)
(* "Discriminated", "LengthPrefixedSub" or "Variable".                     *)
(***************************************************************************)
DiscriminatedFields(p) ==
  IF p.discriminator \in Range(p.fields) THEN p.fields ELSE <<p.discriminator>> \o p.fields
DiscriminatedLengths(p) ==
  IF Has(p, "variant_length") THEN p.variant_length
  ELSE [v \in DOMAIN p.variants |-> required_length(p.variants[v])]

WithLength(p) == Extended(p, [total_length |-> Get(p, "total_length", required_length(p.fields))])
WithVariants(p) ==
  Extended(p, [fields |-> DiscriminatedFields(p), variant_length |-> DiscriminatedLengths(p),
               forward |-> Get(p, "forward", TRUE)])

SubProtocol(p) ==
  IF p.class = "LengthPrefixed" THEN WithLength(p)
  ELSE Extended(p, [total_length |-> end_offset(p.length_field), fields |-> <<p.length_field>>,
                    discriminated |-> WithVariants(p.discriminated)])

Constructed(p) ==
  CASE p.class = "Variable"      -> Extended(p, [fields |-> << >>])
    [] p.class = "Discriminated" -> WithVariants(p)
    [] p.class = "Multi"         -> Extended(WithLength(p), [sub_protocol |-> SubProtocol(p.sub_protocol)])
    [] OTHER                     -> WithLength(p)

(* What the constructors accept, of a protocol so completed. *)
ValidFixed(p) == /\ \A i \in DOMAIN p.fields : ValidField(p.fields[i])
                 /\ p.total_length >= required_length(p.fields)
ValidLengthPrefixed(p) == ValidFixed(p) /\ p.length_field \in Range(p.fields)

ValidDiscriminated(p) ==
  /\ \A i \in DOMAIN p.fields : ValidField(p.fields[i])
  /\ \A v \in DOMAIN p.variants : \A i \in DOMAIN p.variants[v] : ValidField(p.variants[v][i])
  /\ DOMAIN p.variants # {} /\ DOMAIN p.variant_length = DOMAIN p.variants
  /\ \A v \in DOMAIN p.variants : p.variant_length[v] >= required_length(p.variants[v] \o p.fields)

ValidSubProtocol(p) ==
  \/ p.class = "LengthPrefixed" /\ ValidLengthPrefixed(p)
  \/ p.class = "LengthPrefixedSub" /\ ValidField(p.length_field) /\ ValidDiscriminated(p.discriminated)
ValidMulti(p) ==
  /\ ValidFixed(p)
  /\ \E i \in DOMAIN p.fields : p.fields[i].name = p.message_count_field
  /\ ValidSubProtocol(p.sub_protocol)

Accepted(p) ==
  CASE p.class = "Variable"       -> TRUE
    [] p.class = "Discriminated"  -> ValidDiscriminated(p)
    [] p.class = "Multi"          -> ValidMulti(p)
    [] p.class = "LengthPrefixed" -> ValidLengthPrefixed(p)
    [] OTHER                      -> ValidFixed(p)

parse_length(p) ==
  IF p.class \in {"Variable", "Discriminated"} THEN required_length(p.fields) ELSE p.total_length

------------------------------------------------------------------------------
(***************************************************************************)
(* The software model: the fields of a packet, a sequence of bytes, as its *)
(* protocol's eval reads them.  A width that is no multiple of 8 masks the *)
(* top of the number.                                                      *)
(***************************************************************************)
Readable(data, f)   == end_offset(f) <= Len(data)
read_field(data, f) ==
  [i \in 1 .. width_bytes(f) |->
     IF i = 1 /\ f.width % 8 # 0 THEN data[f.offset + 1] % 2 ^ (f.width % 8) ELSE data[f.offset + i]]
read_from(data, offset) == SubSeq(data, offset + 1, Len(data))

(* Digits as a number, for fields whose values a number of TLC's can hold. *)
NumberOf(digits) ==
  LET number[n \in 0 .. Len(digits)] == IF n = 0 THEN 0 ELSE 256 * number[n - 1] + digits[n]
  IN  number[Len(digits)]

ReadAll(data, fields) == [n \in {fields[i].name : i \in DOMAIN fields} |-> read_field(data, FieldNamed(fields, n))]
AllReadable(data, fields) == \A i \in DOMAIN fields : Readable(data, fields[i])

(* eval raises an exception or returns the fields, and what a sideband     *)
(* protocol's payload is.  Names are read in order and the last one wins.  *)
Raised == [raised |-> TRUE]
eval_fields(p, data) ==
  IF AllReadable(data, p.fields) THEN [raised |-> FALSE, values |-> ReadAll(data, p.fields)] ELSE Raised
eval_sideband(p, data) ==
  IF AllReadable(data, p.fields) /\ parse_length(p) <= Len(data)
  THEN Extended(eval_fields(p, data), [data |-> read_from(data, parse_length(p))])
  ELSE Raised
eval_discriminated(p, data) ==
  IF ~AllReadable(data, p.fields) THEN Raised
  ELSE LET key == NumberOf(read_field(data, p.discriminator))
       IN  IF key \in DOMAIN p.variants /\ AllReadable(data, p.variants[key])
           THEN [raised |-> FALSE, values |-> Extended(ReadAll(data, p.fields), ReadAll(data, p.variants[key]))]
           ELSE Raised
eval(p, data) ==
  CASE p.class = "Sideband"      -> eval_sideband(p, data)
    [] p.class = "Discriminated" -> eval_discriminated(p, data)
    [] OTHER                     -> eval_fields(p, data)
==============================================================================
