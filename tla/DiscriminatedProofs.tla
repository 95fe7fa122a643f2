-------------------------- MODULE DiscriminatedProofs --------------------------
(***************************************************************************)
(* Proofs, for every bus width, definition of messages and set of frames   *)
(* that meets the assumptions, that IInv is an invariant of                *)
(* DiscriminatedParser, that its safety properties follow from it, and     *)
(* that parser and consumer refine VariantReader.                          *)
(***************************************************************************)
EXTENDS DiscriminatedFrames, StreamSourceProofs

(* The fields of a message and the registers that capture them. *)

(* The places a field is captured at by one discriminator: at most one,    *)
(* and the one of its variant.                                             *)
LEMMA Places ==
  ASSUME NEW f \in FieldNames
  PROVE  /\ Size(f) \in Nat \ {0}
         /\ \A at \in Locations(f) : at.offset \in Nat /\ at.length = Size(f)
         /\ Cardinality(Locations(f)) # 1 => Cardinality(Locations(f)) > 1
         /\ \A k : CaptureAt(f, k) \subseteq Locations(f)
         /\ \A k : \A a, b \in CaptureAt(f, k) : a = b
         /\ \A k \in DOMAIN Variants : f \in MessageFields(k) => LocationIn(k, f) \in CaptureAt(f, k)
         /\ \A i \in 0 .. Size(f) - 1 : <<f, i>> \in RegBytes
<1>1. Locations(f) # {}
  BY DEF FieldNames, Locations, VariantsWith
<1>2. \A at \in Locations(f) : at.offset \in Nat /\ at.length \in Nat \ {0} /\ at.length = Size(f)
  BY VariantPlanAssumption
<1>3. Size(f) \in Nat \ {0}
  BY <1>1, <1>2
<1>4. IsFiniteSet(Locations(f))
  <2>1. CASE f \in DOMAIN CommonFields
    BY <2>1, FS_Singleton DEF Locations
  <2>2. CASE f \notin DOMAIN CommonFields
    <3> DEFINE place == [k \in VariantsWith(f) |-> Variants[k][f]]
    <3>1. IsFiniteSet(VariantsWith(f))
      BY VariantPlanAssumption, FS_Subset DEF VariantsWith
    <3>2. Locations(f) = {Variants[k][f] : k \in VariantsWith(f)}
      BY <2>2 DEF Locations
    <3>3. place \in Surjection(VariantsWith(f), Locations(f))
      BY <3>2 DEF Surjection
    <3> QED
      BY <3>1, <3>3, FS_Surjection
  <2> QED
    BY <2>1, <2>2
<1>5. Cardinality(Locations(f)) \in Nat \ {0}
  BY <1>1, <1>4, FS_CardinalityType, FS_EmptySet
<1>6. Cardinality(Locations(f)) = 1 => \E at : Locations(f) = {at}
  BY <1>4, FS_Singleton
<1>7. ASSUME NEW k PROVE CaptureAt(f, k) \subseteq Locations(f) /\ \A a, b \in CaptureAt(f, k) : a = b
  <2>1. CASE Cardinality(Locations(f)) = 1
    BY <1>6, <2>1 DEF CaptureAt
  <2>2. CASE Cardinality(Locations(f)) # 1
    <3>1. f \notin DOMAIN CommonFields
      BY <2>2, FS_Singleton DEF Locations
    <3>2. Locations(f) = {Variants[v][f] : v \in VariantsWith(f)}
      BY <3>1 DEF Locations
    <3>3. CaptureAt(f, k) = {Variants[v][f] : v \in {k} \cap VariantsWith(f)}
      BY <2>2 DEF CaptureAt
    <3> QED
      BY <3>2, <3>3
  <2> QED
    BY <2>1, <2>2
<1>8. ASSUME NEW k \in DOMAIN Variants, f \in MessageFields(k)
      PROVE  LocationIn(k, f) \in CaptureAt(f, k)
  <2>1. CASE f \in DOMAIN CommonFields
    <3>1. Locations(f) = {CommonFields[f]} /\ LocationIn(k, f) = CommonFields[f]
      BY <2>1 DEF Locations, LocationIn
    <3>2. CaptureAt(f, k) = Locations(f)
      BY <3>1, FS_Singleton DEF CaptureAt
    <3> QED
      BY <3>1, <3>2
  <2>2. CASE f \notin DOMAIN CommonFields
    <3>1. k \in VariantsWith(f) /\ LocationIn(k, f) = Variants[k][f]
      BY <1>8, <2>2 DEF MessageFields, VariantsWith, LocationIn
    <3>2. Variants[k][f] \in Locations(f)
      BY <2>2, <3>1 DEF Locations
    <3> QED
      BY <3>1, <3>2 DEF CaptureAt
  <2> QED
    BY <2>1, <2>2
<1>9. \A i \in 0 .. Size(f) - 1 : <<f, i>> \in RegBytes
  BY DEF RegBytes
<1> QED
  BY <1>2, <1>3, <1>5, <1>7, <1>8, <1>9

(* The discriminator lies within every variant, and registers that hold    *)
(* its bytes hold its value.                                               *)
LEMMA Keyed ==
  LET at == CommonFields[discriminator]
  IN  /\ discriminator \in FieldNames /\ CaptureAt(discriminator, 0) = {at} /\ Locations(discriminator) = {at}
      /\ at.offset \in Nat /\ Ends(at) \in Nat /\ at.offset < Ends(at)
      /\ \A k \in DOMAIN Variants : Ends(at) <= variant_length[k]
      /\ \A reg, f : \A from, n \in Nat : Hold(reg, f, from, n) /\ Ends(at) <= n => KeyIn(reg) = KeyAt(f, from)
<1> DEFINE at == CommonFields[discriminator]
<1>1. discriminator \in FieldNames /\ Locations(discriminator) = {at}
  BY VariantPlanAssumption DEF FieldNames, Locations
<1>2. at.offset \in Nat /\ at.length = Size(discriminator) /\ Size(discriminator) \in Nat \ {0}
  BY <1>1, Places
<1>3. Ends(at) = at.offset + Size(discriminator) /\ Ends(at) \in Nat /\ at.offset < Ends(at)
  BY <1>2 DEF Ends
<1>4. \A k : CaptureAt(discriminator, k) = {at}
  BY <1>1, FS_Singleton DEF CaptureAt
<1>5. ASSUME NEW k \in DOMAIN Variants PROVE Ends(at) <= variant_length[k]
  <2>1. discriminator \in MessageFields(k) /\ LocationIn(k, discriminator) = at
    BY VariantPlanAssumption DEF MessageFields, LocationIn
  <2> QED
    BY <2>1, VariantPlanAssumption
<1>6. ASSUME NEW reg, NEW f, NEW from \in Nat, NEW n \in Nat, Hold(reg, f, from, n), Ends(at) <= n
      PROVE  KeyIn(reg) = KeyAt(f, from)
  <2>1. ASSUME NEW p \in at.offset .. Ends(at) - 1
        PROVE  reg[<<discriminator, p - at.offset>>] = f.data[from + p]
    <3>1. /\ p - at.offset \in 0 .. Size(discriminator) - 1
          /\ at.offset + (p - at.offset) = p /\ p < n /\ from + at.offset + (p - at.offset) = from + p
      <4> HIDE DEF at
      <4> QED
        BY <1>2, <1>3, <1>6
    <3> QED
      BY <1>1, <1>4, <1>6, <3>1 DEF Hold
  <2>2. [p \in at.offset .. Ends(at) - 1 |-> reg[<<discriminator, p - at.offset>>]]
          = [p \in at.offset .. Ends(at) - 1 |-> f.data[from + p]]
    BY <2>1
  <2> QED
    BY <2>2, Zenon DEF KeyIn, KeyAt
<1> QED
  BY <1>1, <1>2, <1>3, <1>4, <1>5, <1>6

(* Registers that hold all the bytes of a message announce that message.   *)
LEMMA Outputs ==
  ASSUME NEW reg, NEW f, NEW from \in Nat, NEW n \in Nat, Hold(reg, f, from, n),
         KeyAt(f, from) \in DOMAIN Variants, variant_length[KeyAt(f, from)] <= n
  PROVE  OutputsOf(reg) = MessageAt(f, from)
<1> DEFINE k == KeyAt(f, from)
<1>1. KeyIn(reg) = k
  <2>1. variant_length[k] \in Nat
    BY VariantPlanAssumption
  <2>2. Ends(CommonFields[discriminator]) <= n
    BY <2>1, Keyed
  <2> QED
    BY <2>2, Keyed
<1>2. ASSUME NEW name \in MessageFields(k)
      PROVE  [i \in 1 .. Size(name) |-> reg[<<name, i - 1>>]]
               = [i \in 1 .. LocationIn(k, name).length |-> f.data[from + LocationIn(k, name).offset + i - 1]]
  <2> DEFINE at == LocationIn(k, name)
  <2>1. name \in FieldNames
    BY DEF MessageFields, FieldNames
  <2>2. at \in CaptureAt(name, k) /\ at \in Locations(name) /\ at.offset \in Nat /\ at.length = Size(name)
        /\ Size(name) \in Nat
    BY <2>1, Places
  <2>3. at.offset + at.length <= variant_length[k] /\ variant_length[k] \in Nat
    BY VariantPlanAssumption DEF Ends
  <2>4. ASSUME NEW i \in 1 .. Size(name)
        PROVE  reg[<<name, i - 1>>] = f.data[from + at.offset + i - 1]
    <3> HIDE DEF at
    <3>1. /\ i - 1 \in 0 .. Size(name) - 1 /\ at.offset + (i - 1) < n
          /\ from + at.offset + i - 1 = from + at.offset + (i - 1)
      BY <2>2, <2>3
    <3> QED
      BY <2>1, <2>2, <3>1 DEF Hold
  <2> QED
    BY <2>2, <2>4
<1>3. MessageAt(f, from) =
        [key |-> k, fields |-> [name \in MessageFields(k) |->
           [i \in 1 .. LocationIn(k, name).length |-> f.data[from + LocationIn(k, name).offset + i - 1]]]]
  BY DEF MessageAt
<1>4. OutputsOf(reg) =
        [key |-> k, fields |-> [name \in MessageFields(k) |-> [i \in 1 .. Size(name) |-> reg[<<name, i - 1>>]]]]
  BY <1>1, Zenon DEF OutputsOf
<1> HIDE DEF k
<1> QED
  BY <1>2, <1>3, <1>4

(* Nothing is held of no bytes. *)
LEMMA HoldNothing == \A reg, f, from : Hold(reg, f, from, 0)
<1>1. SUFFICES ASSUME NEW name \in FieldNames, NEW at \in Locations(name), NEW i \in 0 .. Size(name) - 1
               PROVE  ~(at.offset + i < 0)
  BY DEF Hold
<1>2. at.offset \in Nat /\ Size(name) \in Nat
  BY Places
<1> QED
  BY <1>2


------------------------------------------------------------------------------

(* The discriminator's bytes lie on its beat. *)
LEMMA Keys ==
  LET at == CommonFields[discriminator]
  IN  /\ at.offset \in Nat /\ Ends(at) \in Nat /\ at.offset < Ends(at)
      /\ discriminator_beat \in Nat
      /\ \A p \in at.offset .. Ends(at) - 1 : p \in Nat /\ beat_of(p) = discriminator_beat
<1> DEFINE at == CommonFields[discriminator]
<1>1. at.offset \in Nat /\ Ends(at) \in Nat /\ at.offset < Ends(at)
  BY Keyed
<1>2. KEEP_WIDTH \in Nat \ {0}
  BY KeepWidthAssumption
<1>3. discriminator_beat \in Nat
  <2>1. \A p \in Nat : p \div KEEP_WIDTH \in Nat
    BY <1>2, Z3
  <2> QED
    BY <1>1, <2>1 DEF discriminator_beat, beat_of
<1>4. ASSUME NEW p \in at.offset .. Ends(at) - 1
      PROVE  p \in Nat /\ beat_of(p) = discriminator_beat
  <2> DEFINE b == discriminator_beat
  <2>1. p \in Nat /\ at.offset <= p /\ p <= Ends(at) - 1 /\ Ends(at) - 1 \in Nat
    BY <1>1
  <2>2. beat_of(at.offset) = b /\ beat_of(Ends(at) - 1) = b
    BY VariantBeatsAssumption DEF discriminator_beat
  <2>3. b * KEEP_WIDTH \in Nat
    BY <1>2, <1>3
  <2>4. at.offset >= b * KEEP_WIDTH
    BY <1>1, <1>3, <2>2, BeatOf
  <2>5. /\ b * KEEP_WIDTH + byte_in_beat(Ends(at) - 1) = Ends(at) - 1
        /\ byte_in_beat(Ends(at) - 1) \in Lanes
    BY <1>3, <2>1, <2>2, BeatOf
  <2>6. p >= b * KEEP_WIDTH /\ p < b * KEEP_WIDTH + KEEP_WIDTH
    <3> HIDE DEF at, b
    <3> QED
      BY <1>1, <1>2, <2>1, <2>3, <2>4, <2>5 DEF Lanes
  <2> QED
    BY <1>3, <2>1, <2>6, BeatOf
<1> QED
  BY <1>1, <1>3, <1>4
------------------------------------------------------------------------------
(* One beat. *)

(* The discriminator the parser goes by is the frame's, once its beat is   *)
(* there.                                                                  *)
LEMMA Known ==
  ASSUME IInv, state = "ST_PARSE", beat_count >= discriminator_beat
  PROVE  discriminator_value = KeyAt(src, 0)
<1> DEFINE at == CommonFields[discriminator]
<1>1. KEEP_WIDTH \in Nat \ {0}
  BY KeepWidthAssumption
<1>2. /\ pos = beat_count * KEEP_WIDTH /\ pos \in Nat /\ Hold(field_reg, src, 0, pos) /\ SourceInv
      /\ beat_count \in 0 .. PARSE_FINAL_BEAT
  BY DEF IInv, Framing, TypeOK, SourceTypeOK
<1>3. discriminator_beat \in Nat /\ beat_count \in Nat
  BY <1>2, Keys
<1>4. CASE beat_count = discriminator_beat
  <2>1. ASSUME NEW p \in at.offset .. Ends(at) - 1
        PROVE  s_axis_tdata[byte_in_beat(p)] = src.data[0 + p]
    <3>1. p \in Nat /\ beat_of(p) = beat_count
      BY <1>4, Keys
    <3>2. beat_count * KEEP_WIDTH + byte_in_beat(p) = p /\ byte_in_beat(p) \in Lanes
      BY <1>3, <3>1, BeatOf
    <3>3. s_axis_tdata[byte_in_beat(p)] = src.data[pos + byte_in_beat(p)]
      BY <1>2, <3>2, Beat
    <3>4. 0 + p = p
      BY <3>1
    <3> QED
      BY <1>2, <3>2, <3>3, <3>4
  <2>2. [p \in at.offset .. Ends(at) - 1 |-> s_axis_tdata[byte_in_beat(p)]]
          = [p \in at.offset .. Ends(at) - 1 |-> src.data[0 + p]]
    BY <2>1
  <2> QED
    BY <1>4, <2>2, Zenon DEF discriminator_value, KeyAt
<1>5. CASE beat_count # discriminator_beat
  <2>1. discriminator_beat + 1 <= beat_count
    BY <1>3, <1>5
  <2>2. PICK e \in Nat : beat_count = (discriminator_beat + 1) + e
    BY <1>3, <2>1
  <2>3. beat_count * KEEP_WIDTH = discriminator_beat * KEEP_WIDTH + KEEP_WIDTH + e * KEEP_WIDTH
    BY <1>1, <1>3, <2>2
  <2>4. discriminator_beat * KEEP_WIDTH \in Nat /\ e * KEEP_WIDTH \in Nat
    BY <1>1, <1>3
  <2>5. /\ Ends(at) - 1 \in Nat /\ Ends(at) \in Nat
        /\ discriminator_beat * KEEP_WIDTH + byte_in_beat(Ends(at) - 1) = Ends(at) - 1
        /\ byte_in_beat(Ends(at) - 1) \in Lanes
    <3>1. /\ at.offset \in Nat /\ Ends(at) \in Nat /\ at.offset < Ends(at)
      BY Keys
    <3>2. Ends(at) - 1 \in at.offset .. Ends(at) - 1
      BY <3>1
    <3>3. Ends(at) - 1 \in Nat /\ beat_of(Ends(at) - 1) = discriminator_beat
      BY <3>2, Keys
    <3> QED
      BY <1>3, <3>1, <3>3, BeatOf
  <2>6. Ends(at) <= pos
    <3> HIDE DEF at
    <3> QED
      BY <1>1, <1>2, <2>3, <2>4, <2>5 DEF Lanes
  <2>7. KeyIn(field_reg) = KeyAt(src, 0)
    BY <1>2, <2>6, Keyed
  <2> QED
    BY <1>5, <2>7, Zenon DEF discriminator_value, RegisteredValue
<1> QED
  BY <1>4, <1>5

(* A beat's bytes are captured where the frame's own variant has fields,   *)
(* and nowhere else is one of its bytes put that was there before.         *)
LEMMA Captures ==
  ASSUME IInv, state = "ST_PARSE"
  PROVE  Captured \in [RegBytes -> Byte] /\ Hold(Captured, src, 0, pos + KEEP_WIDTH)
<1> DEFINE key == KeyAt(src, 0)
           dv  == discriminator_value
           Here(f, i) == {p \in {at.offset + i : at \in CaptureAt(f, dv)} : beat_of(p) = beat_count}
<1>1. KEEP_WIDTH \in Nat \ {0}
  BY KeepWidthAssumption
<1>2. /\ pos = beat_count * KEEP_WIDTH /\ pos \in Nat /\ Hold(field_reg, src, 0, pos) /\ SourceInv
      /\ beat_count \in Nat /\ field_reg \in [RegBytes -> Byte]
  BY DEF IInv, Framing, TypeOK, SourceTypeOK
<1>3. \A i \in Lanes : s_axis_tdata[i] = src.data[pos + i] /\ s_axis_tdata[i] \in Byte
  BY <1>2, Beat DEF Data
<1>4. ASSUME NEW f \in FieldNames, NEW at \in Locations(f), NEW i \in 0 .. Size(f) - 1
      PROVE  at.offset + i \in Nat /\ i \in Nat /\ at.offset \in Nat
  <2>1. Size(f) \in Nat /\ at.offset \in Nat
    BY Places
  <2> QED
    BY <2>1
<1>5. ASSUME NEW f \in FieldNames, NEW at \in Locations(f), NEW i \in 0 .. Size(f) - 1,
             beat_of(at.offset + i) = beat_count
      PROVE  at \in CaptureAt(f, dv) <=> at \in CaptureAt(f, key)
  <2>1. CASE beat_count >= discriminator_beat
    BY <2>1, Known
  <2>2. CASE ~(beat_count >= discriminator_beat)
    <3>1. ASSUME Cardinality(Locations(f)) # 1 PROVE FALSE
      <4>1. beat_of(at.offset) >= discriminator_beat
        BY <3>1, Places, VariantBeatsAssumption
      <4>2. at.offset + i < beat_count * KEEP_WIDTH + KEEP_WIDTH
        <5>1. /\ beat_count * KEEP_WIDTH + byte_in_beat(at.offset + i) = at.offset + i
              /\ byte_in_beat(at.offset + i) \in Lanes
          BY <1>2, <1>4, <1>5, BeatOf
        <5> QED
          BY <1>1, <1>2, <5>1 DEF Lanes
      <4> DEFINE b == beat_of(at.offset)
      <4>3. b \in Nat /\ b > beat_count
        <5>1. at.offset \div KEEP_WIDTH \in Nat
          BY <1>1, <1>4, Z3
        <5>2. discriminator_beat \in Nat
          BY Keys
        <5> QED
          BY <1>2, <2>2, <4>1, <5>1, <5>2 DEF beat_of
      <4>4. at.offset >= b * KEEP_WIDTH
        BY <1>4, <4>3, BeatOf
      <4>5. PICK e \in Nat : b = (beat_count + 1) + e
        BY <1>2, <4>3
      <4>6. b * KEEP_WIDTH = beat_count * KEEP_WIDTH + KEEP_WIDTH + e * KEEP_WIDTH
        BY <1>1, <1>2, <4>5
      <4>7. e * KEEP_WIDTH \in Nat /\ beat_count * KEEP_WIDTH \in Nat
        BY <1>1, <1>2
      <4> HIDE DEF b
      <4> QED
        BY <1>1, <1>2, <1>4, <4>2, <4>4, <4>6, <4>7
    <3> QED
      BY <3>1 DEF CaptureAt
  <2> QED
    BY <2>1, <2>2
<1>6. ASSUME NEW f \in FieldNames, NEW i \in 0 .. Size(f) - 1
      PROVE  /\ <<f, i>> \in RegBytes
             /\ Captured[<<f, i>>] = IF Here(f, i) = {} THEN field_reg[<<f, i>>]
                                     ELSE s_axis_tdata[byte_in_beat(CHOOSE p \in Here(f, i) : TRUE)]
  BY Places DEF Captured
<1>7. Captured \in [RegBytes -> Byte]
  <2>1. ASSUME NEW r \in RegBytes PROVE Captured[r] \in Byte
    <3>0. PICK f \in FieldNames : r \in {f} \X (0 .. Size(f) - 1)
      BY DEF RegBytes
    <3>1. PICK i \in 0 .. Size(f) - 1 : r = <<f, i>>
      BY <3>0
    <3>2. CASE Here(f, i) = {}
      BY <1>2, <1>6, <3>1, <3>2
    <3>3. CASE Here(f, i) # {}
      <4> DEFINE p == CHOOSE x \in Here(f, i) : TRUE
      <4>1. p \in Here(f, i)
        BY <3>3
      <4>2. p \in Nat
        <5>1. PICK at \in CaptureAt(f, dv) : p = at.offset + i
          BY <4>1
        <5>2. at \in Locations(f)
          BY Places
        <5> QED
          BY <1>4, <5>1, <5>2
      <4> HIDE DEF p
      <4>3. byte_in_beat(p) \in Lanes
        BY <4>2, <1>2, BeatOf
      <4> QED
        BY <1>3, <1>6, <3>1, <3>3, <4>3 DEF p
    <3> QED
      BY <3>2, <3>3
  <2>2. Captured = [r \in RegBytes |-> Captured[r]]
    BY DEF Captured
  <2> QED
    BY <2>1, <2>2
<1>8. ASSUME NEW f \in FieldNames, NEW at \in Locations(f), NEW i \in 0 .. Size(f) - 1,
             at.offset + i < pos + KEEP_WIDTH, at \in CaptureAt(f, key)
      PROVE  Captured[<<f, i>>] = src.data[0 + at.offset + i]
  <2> DEFINE p == at.offset + i
  <2>1. p \in Nat /\ 0 + at.offset + i = p
    BY <1>4
  <2>2. \A x \in CaptureAt(f, dv) : x \in Locations(f) /\ (beat_of(x.offset + i) = beat_count => x = at)
    <3>1. ASSUME NEW x \in CaptureAt(f, dv), beat_of(x.offset + i) = beat_count PROVE x = at
      <4>1. x \in Locations(f)
        BY Places
      <4>2. x \in CaptureAt(f, key)
        BY <1>5, <3>1, <4>1
      <4> QED
        BY <1>8, <4>2, Places
    <3> QED
      BY <3>1, Places
  <2>3. CASE beat_of(p) = beat_count
    <3>1. at \in CaptureAt(f, dv)
      BY <1>5, <1>8, <2>3
    <3>2. Here(f, i) = {p}
      BY <2>2, <2>3, <3>1
    <3>3. (CHOOSE x \in Here(f, i) : TRUE) = p
      BY <3>2
    <3>4. Captured[<<f, i>>] = s_axis_tdata[byte_in_beat(p)]
      BY <1>6, <3>2, <3>3
    <3>5. beat_count * KEEP_WIDTH + byte_in_beat(p) = p /\ byte_in_beat(p) \in Lanes
      BY <1>2, <2>1, <2>3, BeatOf
    <3> HIDE DEF p
    <3>6. s_axis_tdata[byte_in_beat(p)] = src.data[p]
      BY <1>2, <1>3, <3>5
    <3> QED
      BY <2>1, <3>4, <3>6 DEF p
  <2>4. CASE beat_of(p) # beat_count
    <3>1. Here(f, i) = {}
      BY <2>2, <2>4
    <3>2. p < pos
      <4>1. ~(p >= beat_count * KEEP_WIDTH /\ p < beat_count * KEEP_WIDTH + KEEP_WIDTH)
        BY <1>2, <2>1, <2>4, BeatOf
      <4> HIDE DEF p
      <4> QED
        BY <1>1, <1>2, <1>8, <2>1, <4>1 DEF p
    <3>3. field_reg[<<f, i>>] = src.data[p]
      BY <1>2, <1>8, <2>1, <3>2 DEF Hold
    <3> QED
      BY <1>6, <2>1, <3>1, <3>3
  <2> QED
    BY <2>3, <2>4
<1> QED
  BY <1>7, <1>8 DEF Hold
------------------------------------------------------------------------------
(* A message has a last beat.                                              *)
LEMMA FinalBeatType == PARSE_FINAL_BEAT \in Nat
<1>0. KEEP_WIDTH \in Nat \ {0}
  BY KeepWidthAssumption
<1>1. max_length \in Nat \ {0}
  BY VariantPlanAssumption
<1> DEFINE m == max_length + KEEP_WIDTH - 1
           q == m \div KEEP_WIDTH
           r == m % KEEP_WIDTH
<1>2. m \in Nat /\ m >= KEEP_WIDTH
  BY <1>0, <1>1
<1> HIDE DEF m
<1>3. q \in Nat /\ r \in 0 .. KEEP_WIDTH - 1 /\ m = q * KEEP_WIDTH + r
  BY <1>0, <1>2, Z3
<1> HIDE DEF q, r
<1>4. q # 0
  <2>1. SUFFICES ASSUME q = 0 PROVE FALSE
    OBVIOUS
  <2>2. q * KEEP_WIDTH = 0
    BY <1>0, <2>1
  <2> QED
    BY <1>0, <1>2, <1>3, <2>2
<1>5. PARSE_FINAL_BEAT = q - 1
  BY DEF PARSE_FINAL_BEAT, PARSE_BEATS, q, m
<1> QED
  BY <1>3, <1>4, <1>5

(* The discriminator is known on the last beat of a frame that holds it.   *)
LEMMA DiscriminatorRead ==
  ASSUME IInv, state = "ST_PARSE", s_axis_tlast, src.len >= Ends(CommonFields[discriminator])
  PROVE  beat_count >= discriminator_beat
<1>1. /\ KEEP_WIDTH \in Nat \ {0} /\ beat_count \in Nat /\ pos \in Nat /\ pos = beat_count * KEEP_WIDTH
      /\ pos + Valid = src.len /\ Valid \in 0 .. KEEP_WIDTH /\ src.len \in Nat
  BY KeepWidthAssumption, FinalBeatType, Beat DEF IInv, Framing, TypeOK, SourceTypeOK
<1>2. SUFFICES ASSUME ~(beat_count >= discriminator_beat) PROVE FALSE
  OBVIOUS
<1> DEFINE at == CommonFields[discriminator]
<1>3. /\ at.offset \in Nat /\ Ends(at) \in Nat /\ at.offset < Ends(at) /\ discriminator_beat \in Nat
      /\ Ends(at) <= src.len
  BY <1>1, Keys
<1>4. at.offset >= discriminator_beat * KEEP_WIDTH
  <2>1. at.offset \in at.offset .. Ends(at) - 1
    BY <1>3
  <2>2. beat_of(at.offset) = discriminator_beat
    BY <2>1, Keys
  <2> QED
    BY <1>3, <2>2, BeatOf
<1> HIDE DEF at
<1>5. PICK e \in Nat : discriminator_beat = (beat_count + 1) + e
  <2> DEFINE d == discriminator_beat - (beat_count + 1)
  <2>1. d \in Nat /\ discriminator_beat = (beat_count + 1) + d
    BY <1>1, <1>2, <1>3
  <2> QED
    BY <2>1, Zenon
<1>6. discriminator_beat * KEEP_WIDTH = beat_count * KEEP_WIDTH + KEEP_WIDTH + e * KEEP_WIDTH
  BY <1>1, <1>5
<1>7. e * KEEP_WIDTH \in Nat
  BY <1>1
<1> QED
  BY <1>1, <1>3, <1>4, <1>6, <1>7

(* IInv holds initially and every step preserves it.  Between two frames   *)
(* the position is 0, and Hold says nothing of the next one.               *)
LEMMA Inductive == (Init => IInv) /\ (IInv /\ [Next]_vars => IInv')
<1>1. KEEP_WIDTH \in Nat \ {0} /\ COUNTER_MOD \in Nat \ {0} /\ 0 \in 0 .. COUNTER_MOD - 1
  BY KeepWidthAssumption, ReaderAssumption
<1>2. PARSE_FINAL_BEAT \in Nat
  BY FinalBeatType
<1>3. \A reg, f : Hold(reg, f, 0, 0)
  BY HoldNothing
<1>4. [r \in RegBytes |-> 0] \in [RegBytes -> Byte]
  BY DEF Byte
<1>5. Init => IInv
  <2>1. SUFFICES ASSUME Init PROVE IInv
    OBVIOUS
  <2>2. SourceInv
    <3>1. src \in Frames /\ pos = 0 /\ s_axis_tvalid = FALSE /\ cur = src
      BY <2>1 DEF Init, SourceInit
    <3>2. 0 < src.end
      BY <3>1, FramesAssumption DEF IsFrame
    <3>3. 0 \in 0 .. pos /\ pos = 0 * KEEP_WIDTH
      BY <1>1, <3>1
    <3>4. \E n \in 0 .. pos : pos = n * KEEP_WIDTH
      BY <3>3, Zenon
    <3> QED
      BY <3>1, <3>2, <3>4 DEF SourceInv, SourceTypeOK
  <2>3. Framing
    BY <1>1, <2>1 DEF Init, SourceInit, Framing
  <2>4. /\ state = "ST_PARSE" /\ beat_count = 0 /\ fields_valid_reg = FALSE /\ fields_fresh = FALSE
        /\ malformed_count = 0 /\ field_reg = [r \in RegBytes |-> 0] /\ pos = 0
    BY <2>1 DEF Init, SourceInit
  <2>5. TypeOK
    <3>1. beat_count \in 0 .. PARSE_FINAL_BEAT /\ malformed_count \in 0 .. COUNTER_MOD - 1
      BY <1>1, <1>2, <2>4
    <3>2. field_reg \in [RegBytes -> Byte]
      BY <1>4, <2>4
    <3> QED
      BY <2>2, <2>4, <3>1, <3>2 DEF TypeOK, SourceInv, State
  <2>6. Hold(field_reg, src, 0, pos)
    BY <1>3, <2>4
  <2> QED
    BY <2>2, <2>3, <2>4, <2>5, <2>6 DEF IInv, Published
<1>6. IInv /\ [Next]_vars => IInv'
  <2> SUFFICES ASSUME IInv, [Next]_vars PROVE IInv'
    OBVIOUS
  <2>1. /\ SourceInv /\ TypeOK /\ Framing /\ pos \in Nat /\ beat_count \in 0 .. PARSE_FINAL_BEAT /\ beat_count \in Nat
        /\ malformed_count \in 0 .. COUNTER_MOD - 1
    BY <1>2 DEF IInv, TypeOK, SourceTypeOK
  <2>2. ASSUME CountRefused \/ UNCHANGED malformed_count PROVE malformed_count' \in 0 .. COUNTER_MOD - 1
    <3>1. malformed_count + 1 \in Nat
      BY <1>1, <2>1
    <3>2. (malformed_count + 1) % COUNTER_MOD \in 0 .. COUNTER_MOD - 1
      BY <1>1, <3>1, Z3
    <3> QED
      BY <2>1, <2>2, <3>2 DEF CountRefused
  <2>3. CASE Present
    <3>1. SourceInv'
      BY <2>1, <2>3, OfferSource DEF Present
    <3>2. /\ UNCHANGED <<registers, fields_fresh, pos, cur>> /\ (pos # 0 => src' = src)
      BY <2>3 DEF Present, Offer
    <3>3. TypeOK' /\ Framing'
      BY <2>1, <3>1, <3>2 DEF TypeOK, SourceInv, registers, Framing
    <3>4. Published'
      BY <3>2 DEF IInv, Published, registers
    <3>5. state' = "ST_PARSE" => Hold(field_reg, src, 0, pos)'
      <4>1. CASE pos = 0
        BY <1>3, <3>2, <4>1
      <4>2. CASE pos # 0
        BY <3>2, <4>2 DEF IInv, registers, Hold
      <4> QED
        BY <4>1, <4>2
    <3> QED
      BY <3>1, <3>2, <3>3, <3>4, <3>5 DEF IInv, registers
  <2>4. CASE Parse
    <3>1. /\ state = "ST_PARSE" /\ Handshake /\ field_reg' = Captured
      BY <2>4 DEF Parse, Publish, Refuse, OverLong, ParseMore, ParseBeat
    <3>2. /\ SourceInv' /\ src' = src /\ cur' = src
          /\ pos' = IF s_axis_tlast THEN 0 ELSE pos + KEEP_WIDTH
      BY <2>1, <3>1, HandshakeSource
    <3>3. Captured \in [RegBytes -> Byte] /\ Hold(Captured, src, 0, pos + KEEP_WIDTH)
      BY <3>1, Captures
    <3>4. malformed_count' \in 0 .. COUNTER_MOD - 1
      BY <2>2, <2>4 DEF Parse, Publish, Refuse, OverLong, ParseMore
    <3>5. pos = beat_count * KEEP_WIDTH
      BY <2>1, <3>1 DEF Framing
    <3>6. beat_count' \in 0 .. PARSE_FINAL_BEAT
      BY <1>2, <2>1, <2>4 DEF Parse, Publish, Refuse, OverLong, ParseMore
    <3>7. TypeOK'
      <4>1. state' \in State /\ fields_valid_reg' \in BOOLEAN /\ fields_fresh' \in BOOLEAN
        BY <2>1, <2>4 DEF Parse, Publish, Refuse, OverLong, ParseMore, TypeOK, State
      <4> QED
        BY <3>1, <3>2, <3>3, <3>4, <3>6, <4>1 DEF TypeOK, SourceInv
    <3>8. CASE Publish
      <4>1. /\ s_axis_tlast /\ variant_known /\ frame_bytes = expected_length
            /\ fields_fresh' = TRUE /\ beat_count' = 0 /\ state' = "ST_PARSE"
        BY <3>1, <3>8 DEF Publish
      <4>2. /\ pos' = 0 /\ pos + Valid = src.len /\ pos + KEEP_WIDTH = src.end /\ src.len <= src.end
            /\ input_valid_bytes = Valid /\ Valid \in 0 .. KEEP_WIDTH /\ src.len \in Nat
        BY <2>1, <3>2, <4>1, Beat
      <4>3. discriminator_value \in DOMAIN Variants /\ src.len = variant_length[discriminator_value]
        <5>1. frame_bytes = src.len
          BY <3>5, <4>2 DEF frame_bytes
        <5> QED
          BY <4>1, <5>1, VariantPlanAssumption DEF variant_known, expected_length
      <4>4. beat_count >= discriminator_beat
        BY <3>1, <4>1, <4>3, DiscriminatorRead, Keyed
      <4>5. discriminator_value = KeyAt(src, 0)
        BY <3>1, <4>4, Known
      <4>6. IsMessage(src, 0, src.len)
        BY <4>3, <4>5, Keyed DEF IsMessage
      <4>7. OutputsOf(Captured) = MessageAt(src, 0)
        <5>1. pos + KEEP_WIDTH \in Nat /\ variant_length[KeyAt(src, 0)] <= pos + KEEP_WIDTH
          BY <1>1, <2>1, <4>2, <4>3, <4>5
        <5> QED
          BY <3>3, <4>3, <4>5, <5>1, Outputs
      <4>8. Published'
        <5>1. OutputsOf(field_reg)' = MessageAt(cur, 0)' /\ IsMessage(cur, 0, cur.len)'
          BY <3>1, <3>2, <4>6, <4>7
        <5> QED
          BY <4>2, <5>1 DEF Published
      <4>9. Framing' /\ Hold(field_reg, src, 0, pos)'
        BY <1>1, <1>3, <4>1, <4>2 DEF Framing
      <4> QED
        BY <3>2, <3>7, <4>1, <4>8, <4>9 DEF IInv
    <3>9. CASE Refuse
      <4>1. s_axis_tlast /\ beat_count' = 0 /\ state' = "ST_PARSE" /\ fields_fresh' = FALSE
        BY <3>1, <3>9 DEF Refuse
      <4>2. pos' = 0
        BY <3>2, <4>1
      <4>3. Framing' /\ Hold(field_reg, src, 0, pos)' /\ Published'
        BY <1>1, <1>3, <4>1, <4>2 DEF Framing, Published
      <4> QED
        BY <3>2, <3>7, <4>1, <4>3 DEF IInv
    <3>10. CASE OverLong
      <4>1. ~s_axis_tlast /\ beat_count' = 0 /\ state' = "ST_DRAIN" /\ fields_fresh' = FALSE
        BY <3>10 DEF OverLong
      <4>2. pos' > 0
        BY <1>1, <2>1, <3>2, <4>1
      <4> QED
        BY <3>2, <3>7, <4>1, <4>2 DEF IInv, Framing, Published
    <3>11. CASE ParseMore
      <4>1. ~s_axis_tlast /\ beat_count' = beat_count + 1 /\ state' = "ST_PARSE" /\ fields_fresh' = FALSE
        BY <3>1, <3>11 DEF ParseMore
      <4>2. pos' = pos + KEEP_WIDTH
        BY <3>2, <4>1
      <4>3. (beat_count + 1) * KEEP_WIDTH = beat_count * KEEP_WIDTH + KEEP_WIDTH
        BY <1>1, <2>1
      <4>4. Framing' /\ Published'
        BY <3>5, <4>1, <4>2, <4>3 DEF Framing, Published
      <4>5. Hold(field_reg, src, 0, pos)'
        BY <3>1, <3>2, <3>3, <4>2
      <4> QED
        BY <3>2, <3>7, <4>1, <4>4, <4>5 DEF IInv
    <3> QED
      BY <2>4, <3>8, <3>9, <3>10, <3>11 DEF Parse
  <2>5. CASE Drain
    <3>1. /\ state = "ST_DRAIN" /\ Handshake /\ DrainOn /\ fields_fresh' = FALSE
          /\ UNCHANGED <<beat_count, fields_valid_reg, malformed_count, field_reg>>
      BY <2>5 DEF Drain
    <3>2. /\ SourceInv' /\ src' = src
          /\ pos' = IF s_axis_tlast THEN 0 ELSE pos + KEEP_WIDTH
      BY <2>1, <3>1, HandshakeSource
    <3>3. beat_count = 0
      BY <3>1 DEF IInv
    <3>4. TypeOK'
      BY <2>1, <3>1, <3>2 DEF TypeOK, SourceInv, DrainOn, State
    <3>5. CASE s_axis_tlast
      BY <1>1, <1>3, <3>1, <3>2, <3>3, <3>4, <3>5 DEF IInv, Framing, Published, DrainOn
    <3>6. CASE ~s_axis_tlast
      <4>1. pos' > 0 /\ state' = "ST_DRAIN"
        BY <1>1, <2>1, <3>1, <3>2, <3>6 DEF DrainOn
      <4> QED
        BY <3>1, <3>2, <3>3, <3>4, <4>1 DEF IInv, Framing, Published
    <3> QED
      BY <3>5, <3>6
  <2>6. CASE IdleEdge
    <3>1. fields_fresh' = FALSE /\ UNCHANGED <<registers, source, cur>>
      BY <2>6 DEF IdleEdge
    <3> QED
      BY <3>1 DEF IInv, TypeOK, SourceInv, SourceTypeOK, Framing, Published, Hold, registers, source
  <2>7. CASE Reset
    <3>1. /\ SourceReset /\ state' = "ST_PARSE" /\ beat_count' = 0 /\ fields_valid_reg' = FALSE
          /\ fields_fresh' = FALSE /\ malformed_count' = 0 /\ field_reg' = [r \in RegBytes |-> 0]
      BY <2>7 DEF Reset
    <3>2. SourceInv' /\ pos' = 0
      BY <2>1, <3>1, OfferSource DEF SourceReset
    <3>3. TypeOK'
      <4>1. beat_count' \in 0 .. PARSE_FINAL_BEAT /\ malformed_count' \in 0 .. COUNTER_MOD - 1
        BY <1>1, <1>2, <3>1
      <4>2. field_reg' \in [RegBytes -> Byte]
        BY <1>4, <3>1
      <4> QED
        BY <3>1, <3>2, <4>1, <4>2 DEF TypeOK, SourceInv, State
    <3>4. Framing' /\ Published' /\ Hold(field_reg, src, 0, pos)'
      BY <1>1, <1>3, <3>1, <3>2 DEF Framing, Published
    <3> QED
      BY <3>1, <3>2, <3>3, <3>4 DEF IInv
  <2>8. CASE UNCHANGED vars
    BY <2>8 DEF vars, IInv, TypeOK, SourceInv, SourceTypeOK, Framing, Published, Hold, registers, source
  <2> QED
    BY <2>3, <2>4, <2>5, <2>6, <2>7, <2>8 DEF Next
<1> QED
  BY <1>5, <1>6

(* The invariant, for every definition and set of frames.                  *)
THEOREM Invariance == Spec => []IInv
<1>1. Init => IInv
  BY Inductive
<1>2. IInv /\ [Next]_vars => IInv'
  BY Inductive
<1> QED
  BY <1>1, <1>2, PTL DEF Spec

------------------------------------------------------------------------------
(* Every register keeps its type; the counters do not overflow.            *)
THEOREM TypeCorrect == Spec => []TypeOK
<1>1. IInv => TypeOK
  BY DEF IInv
<1> QED
  BY Invariance, <1>1, PTL

(* The parser is never out of step with the source, whatever the frames.   *)
THEOREM InStep == Spec => []Framing
<1>1. IInv => Framing
  BY DEF IInv
<1> QED
  BY Invariance, <1>1, PTL

(* What is announced as fresh is one message of a frame of its length,     *)
(* for any variants, overlapping fields and bus width.                     *)
THEOREM PublishedWhole == Spec => []Published
<1>1. IInv => Published
  BY DEF IInv
<1> QED
  BY Invariance, <1>1, PTL

------------------------------------------------------------------------------
(* The consumer, and VariantReader.                                        *)

(* What the instance says of a message is what the parser's plan says.     *)
LEMMA ReaderReads ==
  /\ Reader!NoMessage = NoMessage
  /\ Reader!PARSE_FINAL_BEAT = PARSE_FINAL_BEAT
  /\ \A f, from : Reader!MessageAt(f, from) = MessageAt(f, from)
  /\ \A f, from, len : Reader!IsMessage(f, from, len) = IsMessage(f, from, len)
<1>1. \A hdr, f : Reader!BigEndian(hdr, f) = BigEndian(hdr, f)
  BY DEF Reader!BigEndian, BigEndian
<1>2. \A S : Reader!Max(S) = Max(S)
  BY DEF Reader!Max, Max
<1>3. \A at : Reader!Ends(at) = Ends(at)
  BY DEF Reader!Ends, Ends
<1>4. \A f, from : Reader!KeyAt(f, from) = KeyAt(f, from)
  BY <1>1, <1>3, Zenon DEF Reader!KeyAt, KeyAt
<1>5. \A k : Reader!MessageFields(k) = MessageFields(k)
  BY DEF Reader!MessageFields, MessageFields
<1>6. \A k, f : Reader!LocationIn(k, f) = LocationIn(k, f)
  BY DEF Reader!LocationIn, LocationIn
<1>7. \A f, from : Reader!MessageAt(f, from) = MessageAt(f, from)
  BY <1>4, <1>5, <1>6, Zenon DEF Reader!MessageAt, MessageAt
<1>8. \A f, from, len : Reader!IsMessage(f, from, len) = IsMessage(f, from, len)
  BY <1>3, <1>4, Zenon DEF Reader!IsMessage, IsMessage
<1>9. Reader!PARSE_FINAL_BEAT = PARSE_FINAL_BEAT
  BY <1>2, Zenon DEF Reader!PARSE_FINAL_BEAT, PARSE_FINAL_BEAT, Reader!PARSE_BEATS, PARSE_BEATS,
                     Reader!max_length, max_length
<1>10. Reader!NoMessage = NoMessage
  BY DEF Reader!NoMessage, NoMessage
<1> QED
  BY <1>7, <1>8, <1>9, <1>10

(* The consumer takes a message once: on an edge that announces none the   *)
(* one published last stays.                                               *)
LEMMA Sampled ==
  ASSUME Sample, fields_fresh' = FALSE
  PROVE  Message' = Message
  BY DEF Sample, Message

(* A beat taken in ST_PARSE is one of a frame the reader may take in, or   *)
(* has in hand.                                                            *)
LEMMA ReadBeat ==
  ASSUME IInv, ParseBeat
  PROVE  /\ SourceInv /\ src \in Frames /\ cur' = src /\ (pos > 0 => cur = src)
         /\ pos \in Nat /\ beat_count \in Nat /\ beat_count \in 0 .. PARSE_FINAL_BEAT
         /\ pos = beat_count * KEEP_WIDTH
         /\ pos' = IF s_axis_tlast THEN 0 ELSE pos + KEEP_WIDTH
         /\ Phase = IF pos = 0 THEN "idle" ELSE "reading"
         /\ Reader!Candidate(src)
<1>1. /\ state = "ST_PARSE" /\ Handshake /\ SourceInv /\ TypeOK /\ Framing
  BY DEF IInv, ParseBeat
<1>2. /\ src \in Frames /\ cur' = src /\ (pos > 0 => cur = src) /\ pos \in Nat
      /\ pos' = IF s_axis_tlast THEN 0 ELSE pos + KEEP_WIDTH
      /\ beat_count \in Nat /\ pos = beat_count * KEEP_WIDTH
  BY <1>1, HandshakeSource DEF SourceInv, SourceTypeOK, TypeOK, Framing
<1>3. Phase = IF pos = 0 THEN "idle" ELSE "reading"
  BY <1>1 DEF Phase
<1>4. Reader!Candidate(src)
  BY <1>2, <1>3 DEF Reader!Candidate
<1> QED
  BY <1>1, <1>2, <1>3, <1>4 DEF TypeOK

(* A frame that ends on a beat of the message is one that fits.            *)
LEMMA ReadLast ==
  ASSUME IInv, ParseBeat, s_axis_tlast
  PROVE  /\ Reader!Fits(src)
         /\ Reader!Marked(src) = s_axis_tuser
         /\ frame_bytes = src.len
<1>1. /\ pos \in Nat /\ beat_count \in Nat /\ beat_count \in 0 .. PARSE_FINAL_BEAT
      /\ pos = beat_count * KEEP_WIDTH /\ KEEP_WIDTH \in Nat \ {0}
      /\ pos + KEEP_WIDTH = src.end /\ pos + Valid = src.len /\ input_valid_bytes = Valid
  BY ReadBeat, Beat, KeepWidthAssumption
<1>2. PICK d \in Nat : PARSE_FINAL_BEAT = beat_count + d
  <2>1. PARSE_FINAL_BEAT \in Int
    BY FinalBeatType
  <2>2. PARSE_FINAL_BEAT - beat_count \in Nat /\ PARSE_FINAL_BEAT = beat_count + (PARSE_FINAL_BEAT - beat_count)
    BY <1>1, <2>1
  <2> QED
    BY <2>2, Zenon
<1>3. PARSE_FINAL_BEAT * KEEP_WIDTH = beat_count * KEEP_WIDTH + d * KEEP_WIDTH /\ d * KEEP_WIDTH \in Nat
  BY <1>1, <1>2
<1>4. Reader!Fits(src)
  BY <1>1, <1>3, ReaderReads DEF Reader!Fits, Reader!LastPosition
<1>5. src.end - KEEP_WIDTH = pos
  BY <1>1
<1>6. Reader!Marked(src) = s_axis_tuser
  BY <1>4, <1>5 DEF Reader!Marked, s_axis_tuser
<1>7. frame_bytes = src.len
  BY <1>1 DEF frame_bytes
<1> QED
  BY <1>4, <1>6, <1>7

LEMMA ReadPublish ==
  ASSUME IInv, Publish, Sample
  PROVE  Reader!Publish(src)
<1>1. ParseBeat /\ s_axis_tlast /\ fields_fresh' = TRUE /\ state' = "ST_PARSE" /\ malformed_count' = malformed_count
  BY DEF Publish, ParseBeat
<1>2. IInv'
  BY Inductive DEF Next, Parse
<1>3. cur' = src /\ pos' = 0 /\ Reader!Candidate(src)
  BY <1>1, ReadBeat
<1>4. IsMessage(src, 0, src.len) /\ Message' = MessageAt(src, 0)
  BY <1>1, <1>2, <1>3 DEF IInv, Published, Message
<1>5. Phase' = "idle"
  BY <1>1, <1>3 DEF Phase
<1>6. Reader!Readable(src)
  BY <1>1, <1>4, ReadLast, ReaderReads DEF Reader!Readable
<1> QED
  BY <1>1, <1>3, <1>4, <1>5, <1>6, ReaderReads DEF Reader!Publish

(* The last beat of a message comes after that of its discriminator.       *)
LEMMA ReadRefuse ==
  ASSUME IInv, Refuse, Sample
  PROVE  Reader!Refuse(src)
<1>1. /\ ParseBeat /\ s_axis_tlast /\ fields_fresh' = FALSE /\ state' = "ST_PARSE"
      /\ CountRefused /\ ~(variant_known /\ frame_bytes = expected_length)
  BY DEF Refuse, ParseBeat
<1>2. cur' = src /\ pos' = 0 /\ Reader!Candidate(src)
  BY <1>1, ReadBeat
<1>3. Phase' = "idle" /\ Message' = Message
  BY <1>1, <1>2, Sampled DEF Phase
<1>4. ~IsMessage(src, 0, src.len)
  <2>1. SUFFICES ASSUME IsMessage(src, 0, src.len) PROVE FALSE
    OBVIOUS
  <2>2. beat_count >= discriminator_beat
    BY <1>1, <2>1, DiscriminatorRead DEF IsMessage, ParseBeat
  <2>3. discriminator_value = KeyAt(src, 0)
    BY <1>1, <2>2, Known DEF ParseBeat
  <2> QED
    BY <1>1, <2>1, <2>3, ReadLast, VariantPlanAssumption DEF IsMessage, variant_known, expected_length
<1>5. ~Reader!Readable(src) /\ Reader!Fits(src) /\ Reader!Marked(src) = s_axis_tuser
  BY <1>1, <1>4, ReadLast, ReaderReads DEF Reader!Readable
<1> QED
  BY <1>1, <1>2, <1>3, <1>5 DEF Reader!Refuse, CountRefused

LEMMA ReadOverLong ==
  ASSUME IInv, OverLong, Sample
  PROVE  Reader!Refuse(src)
<1>1. /\ ParseBeat /\ ~s_axis_tlast /\ fields_fresh' = FALSE /\ state' = "ST_DRAIN"
      /\ CountRefused /\ beat_count = PARSE_FINAL_BEAT
  BY DEF OverLong
<1>2. /\ cur' = src /\ Reader!Candidate(src) /\ SourceInv /\ pos = PARSE_FINAL_BEAT * KEEP_WIDTH
  BY <1>1, ReadBeat
<1>3. Phase' = "discard" /\ Message' = Message
  BY <1>1, Sampled DEF Phase
<1>4. ~Reader!Fits(src) /\ Reader!Marked(src) = s_axis_tuser
  <2>1. Reader!LastPosition = pos
    BY <1>2, ReaderReads DEF Reader!LastPosition
  <2>2. src.end \in Nat /\ pos \in Nat /\ pos + KEEP_WIDTH < src.end
    BY <1>1, <1>2, Beat
  <2>3. ~Reader!Fits(src)
    BY <2>1, <2>2, KeepWidthAssumption DEF Reader!Fits
  <2> QED
    BY <2>1, <2>3 DEF Reader!Marked, s_axis_tuser
<1> QED
  BY <1>1, <1>2, <1>3, <1>4 DEF Reader!Refuse, Reader!Readable, CountRefused

LEMMA ReadMore ==
  ASSUME IInv, ParseMore, Sample
  PROVE  Reader!Begin(src) \/ UNCHANGED Reader!vars
<1>1. /\ ParseBeat /\ ~s_axis_tlast /\ fields_fresh' = FALSE /\ state' = "ST_PARSE"
      /\ malformed_count' = malformed_count
  BY DEF ParseMore, ParseBeat
<1>2. /\ cur' = src /\ (pos > 0 => cur = src) /\ pos \in Nat /\ pos' = pos + KEEP_WIDTH
      /\ Phase = IF pos = 0 THEN "idle" ELSE "reading"
      /\ Reader!Candidate(src)
  BY <1>1, ReadBeat
<1>3. Phase' = "reading" /\ Message' = Message
  <2>1. pos' # 0
    BY <1>2, KeepWidthAssumption
  <2> QED
    BY <1>1, <2>1, Sampled DEF Phase
<1>4. CASE pos = 0
  BY <1>1, <1>2, <1>3, <1>4 DEF Reader!Begin
<1>5. CASE pos # 0
  BY <1>1, <1>2, <1>3, <1>5 DEF Reader!vars
<1> QED
  BY <1>4, <1>5

LEMMA ReadDrain ==
  ASSUME IInv, Drain, Sample
  PROVE  Reader!Discard \/ UNCHANGED Reader!vars
<1>1. /\ state = "ST_DRAIN" /\ Handshake /\ DrainOn /\ fields_fresh' = FALSE
      /\ malformed_count' = malformed_count /\ SourceInv /\ pos > 0
  BY DEF Drain, IInv, Framing
<1>2. cur' = cur /\ (s_axis_tlast => pos' = 0)
  BY <1>1 DEF Handshake, SourceInv
<1>3. Phase = "discard" /\ Phase' = (IF s_axis_tlast THEN "idle" ELSE "discard") /\ Message' = Message
  BY <1>1, <1>2, Sampled DEF Phase, DrainOn
<1> QED
  BY <1>1, <1>2, <1>3 DEF Reader!Discard, Reader!vars

(* Every step of the parser and its consumer is a step VariantReader       *)
(* allows, or changes nothing it speaks of.                                *)
LEMMA ReaderStep ==
  ASSUME IInv, [FramesNext]_framesVars
  PROVE  [Reader!Next]_(Reader!vars)
<1>1. CASE UNCHANGED framesVars
  BY <1>1 DEF framesVars, vars, registers, source, Reader!vars, Phase, Message
<1>2. CASE Present /\ UNCHANGED <<sampled, open>>
  BY <1>2 DEF Present, Offer, registers, Reader!vars, Phase, Message
<1>3. CASE Parse /\ Sample
  <2>1. src \in Frames
    BY <1>3, ReadBeat DEF Parse, Publish, Refuse, OverLong, ParseMore
  <2> QED
    BY <1>3, <2>1, ReadPublish, ReadRefuse, ReadOverLong, ReadMore DEF Parse, Reader!Next
<1>4. CASE Drain /\ Sample
  BY <1>4, ReadDrain DEF Reader!Next
<1>5. CASE IdleEdge /\ Sample
  BY <1>5, Sampled DEF IdleEdge, registers, source, Reader!vars, Phase
<1>6. CASE Reset /\ sampled' = NoMessage
  <2>1. Reader!Reset
    BY <1>6, ReaderReads DEF Reset, SourceReset, Reader!Reset, Phase, Message
  <2> QED
    BY <2>1 DEF Reader!Next
<1> QED
  BY <1>1, <1>2, <1>3, <1>4, <1>5, <1>6 DEF FramesNext

(* The parser and its consumer do what VariantReader allows and nothing    *)
(* else: for every definition of messages, bus width and set of frames,    *)
(* each frame is published once, or counted once unless it is marked, and  *)
(* never both.                                                             *)
THEOREM ReadsMessages == FramesSpec => Reader!Safety
<1>1. FramesInit => IInv /\ Reader!Init
  <2> SUFFICES ASSUME FramesInit PROVE IInv /\ Reader!Init
    OBVIOUS
  <2>1. Phase = "idle" /\ Message = NoMessage
    BY DEF FramesInit, Init, SourceInit, Phase, Message
  <2> QED
    BY <2>1, Inductive, ReaderReads DEF FramesInit, Init, SourceInit, Reader!Init
<1>2. IInv /\ [FramesNext]_framesVars => IInv'
  <2>1. [FramesNext]_framesVars => [Next]_vars
    BY DEF FramesNext, framesVars, Next
  <2> QED
    BY <2>1, Inductive
<1>3. IInv /\ [FramesNext]_framesVars => [Reader!Next]_(Reader!vars)
  BY ReaderStep
<1> QED
  BY <1>1, <1>2, <1>3, PTL DEF FramesSpec, Reader!Safety
==============================================================================
