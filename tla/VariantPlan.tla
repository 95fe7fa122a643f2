------------------------------ MODULE VariantPlan ------------------------------
(***************************************************************************)
(* What the generators derive from a DiscriminatedProtocol: the value of   *)
(* one field says which other fields a message has, where they are, and    *)
(* how long it is.                                                         *)
(***************************************************************************)
EXTENDS AxiStream

CONSTANTS
  CommonFields,    \* name |-> [offset, length], both in bytes
  discriminator,   \* name of one of them
  Variants,        \* value |-> the other fields, name |-> [offset, length]
  variant_length   \* value |-> bytes of the message

FieldNames == DOMAIN CommonFields \cup UNION {DOMAIN Variants[k] : k \in DOMAIN Variants}

(* The places a field has in the variants; the common ones come first. *)
VariantsWith(f) == {k \in DOMAIN Variants : f \in DOMAIN Variants[k]}
Locations(f)    == IF f \in DOMAIN CommonFields THEN {CommonFields[f]}
                                                ELSE {Variants[k][f] : k \in VariantsWith(f)}
Size(f)         == (CHOOSE at \in Locations(f) : TRUE).length
Ends(at)        == at.offset + at.length

(* The fields of a message and their places in it. *)
MessageFields(k)   == DOMAIN CommonFields \cup DOMAIN Variants[k]
LocationIn(k, f)   == IF f \in DOMAIN CommonFields THEN CommonFields[f] ELSE Variants[k][f]

max_length         == Max({variant_length[k] : k \in DOMAIN variant_length})

(* The field registers, byte by byte: <<field, byte>> |-> byte. *)
RegBytes == UNION {{f} \X (0 .. Size(f) - 1) : f \in FieldNames}

(* A field is captured wherever it lies if it has one place in all the     *)
(* variants, and by the discriminator, here k, if it has several.          *)
CaptureAt(f, k) ==
  IF Cardinality(Locations(f)) = 1 THEN Locations(f)
  ELSE {Variants[v][f] : v \in {k} \cap VariantsWith(f)}

(* The discriminator in the field registers, and the field outputs it says *)
(* a message has.                                                          *)
KeyIn(reg) ==
  LET at == CommonFields[discriminator]
  IN  BigEndian([p \in at.offset .. Ends(at) - 1 |-> reg[<<discriminator, p - at.offset>>]], at)
OutputsOf(reg) ==
  [key    |-> KeyIn(reg),
   fields |-> [f \in MessageFields(KeyIn(reg)) |-> [i \in 1 .. Size(f) |-> reg[<<f, i - 1>>]]]]

(* The message that begins at a position of a frame, in the same form.     *)
NoMessage == [key |-> 0, fields |-> << >>]
KeyAt(f, from) ==
  LET at == CommonFields[discriminator]
  IN  BigEndian([p \in at.offset .. Ends(at) - 1 |-> f.data[from + p]], at)
MessageAt(f, from) ==
  LET key == KeyAt(f, from)
  IN  [key    |-> key,
       fields |-> [n \in MessageFields(key) |->
                     LET at == LocationIn(key, n)
                     IN  [i \in 1 .. at.length |-> f.data[from + at.offset + i - 1]]]]

(* Whether the len bytes of a frame from there on are a message. *)
IsMessage(f, from, len) ==
  /\ len >= Ends(CommonFields[discriminator])
  /\ KeyAt(f, from) \in DOMAIN Variants
  /\ len = variant_length[KeyAt(f, from)]

(* Of the n bytes of a message, registers hold those where the variant it  *)
(* is of has fields.                                                       *)
Hold(reg, f, from, n) ==
  \A name \in FieldNames : \A at \in Locations(name) : \A i \in 0 .. Size(name) - 1 :
    at.offset + i < n /\ at \in CaptureAt(name, KeyAt(f, from)) =>
      reg[<<name, i>>] = f.data[from + at.offset + i]

(* A field with several places lies behind the discriminator, and no       *)
(* message ends with it.                                                   *)
DiscriminatorFirst ==
  LET at == CommonFields[discriminator]
  IN  /\ \A k \in DOMAIN Variants : Ends(at) < variant_length[k]
      /\ \A f \in FieldNames : \A place \in Locations(f) :
           Cardinality(Locations(f)) > 1 => place.offset >= Ends(at)

(* What the protocol's definition rejects: a name has one width, a variant *)
(* covers its own fields and the common ones.  Places and lengths are      *)
(* numbers of bytes, and a definition lists its variants.                  *)
ASSUME VariantPlanAssumption ==
  /\ discriminator \in DOMAIN CommonFields
  /\ IsFiniteSet(DOMAIN Variants) /\ DOMAIN Variants # {} /\ DOMAIN variant_length = DOMAIN Variants
  /\ max_length \in Nat \ {0} /\ \A k \in DOMAIN Variants : variant_length[k] \in Nat
  /\ \A f \in FieldNames : \A at \in Locations(f) :
       at.offset \in Nat /\ at.length \in Nat \ {0} /\ at.length = Size(f)
  /\ \A k \in DOMAIN Variants : \A f \in MessageFields(k) :
       Ends(LocationIn(k, f)) <= variant_length[k]
==============================================================================
