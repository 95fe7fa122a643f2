---------------------------- MODULE ToolchainProofs ----------------------------
(***************************************************************************)
(* Proofs about what is generated from a definition, whatever it is: the   *)
(* bits of the bus a field's register takes, plans as the parsers' models  *)
(* assume them, and a C function that stays within its buffer and reads    *)
(* what the modules read.                                                  *)
(***************************************************************************)
EXTENDS Toolchain, SequenceTheorems, FiniteSetTheorems, WellFoundedInduction, TLAPS

(***************************************************************************)
(* The slices of a field, for every field, every header and every bus: the *)
(* bits of tdata the generators assign to the bits of its register.        *)
(***************************************************************************)
(* The k-th byte of a field has bit u of its register, and no other has. *)
Owns(f, k, u) ==
  /\ k \in 0 .. width_bytes(f) - 1
  /\ \A j \in 0 .. width_bytes(f) - 1 : u \in field_lo(f, j) .. field_hi(f, j) <=> j = k
  /\ u - field_lo(f, k) \in 0 .. 7
  /\ field_lo(f, k) = IF f.width >= 8 * k + 8 THEN f.width - 8 * k - 8 ELSE 0

(* Every bit of a field's register has one slice, that of its byte. *)
LEMMA OneSlice ==
  ASSUME NEW f, f.width \in Nat \ {0}, NEW u \in 0 .. f.width - 1
  PROVE  \E k : Owns(f, k, u)
<1>1. PICK w \in Nat \ {0} : w = f.width
  OBVIOUS
<1> DEFINE k == (w - 1 - u) \div 8
<1>2. k \in Nat /\ 8 * k <= w - 1 - u /\ w - 1 - u <= 8 * k + 7 /\ u \in 0 .. w - 1
  <2>1. w - 1 - u \in Nat /\ u \in 0 .. w - 1
    BY <1>1
  <2>2. \A x \in Nat : x \div 8 \in Nat /\ 8 * (x \div 8) <= x /\ x <= 8 * (x \div 8) + 7
    BY Z3
  <2> QED
    BY <2>1, <2>2
<1>3. PICK n \in Nat : n = (w + 7) \div 8 /\ 8 * n <= w + 7 /\ w <= 8 * n
  BY Z3
<1>4. width_bytes(f) = n
  BY <1>1, <1>3 DEF width_bytes
<1>5. \A x, y \in Int : Min({x, y}) = IF x <= y THEN x ELSE y
  BY DEF Min
<1>6. \A x, y \in Int : Max({x, y}) = IF x <= y THEN y ELSE x
  BY DEF Max
<1>7. ASSUME NEW j \in 0 .. n - 1
      PROVE  /\ field_hi(f, j) = w - 8 * j - 1
             /\ field_lo(f, j) = IF w >= 8 * j + 8 THEN w - 8 * j - 8 ELSE 0
  <2>1. w - 8 * j \in Int /\ w - 8 * j > 0
    BY <1>3
  <2>2. BitsOfByte(f, j) = IF 8 <= w - 8 * j THEN 8 ELSE w - 8 * j
    BY <1>1, <1>5, <2>1 DEF BitsOfByte
  <2>3. field_lo(f, j) = Max({0, w - 8 * j - BitsOfByte(f, j)})
    BY <1>1 DEF field_lo
  <2>4. field_lo(f, j) = IF w >= 8 * j + 8 THEN w - 8 * j - 8 ELSE 0
    <3>1. CASE 8 <= w - 8 * j
      BY <1>6, <2>1, <2>2, <2>3, <3>1
    <3>2. CASE ~(8 <= w - 8 * j)
      BY <1>6, <2>1, <2>2, <2>3, <3>2
    <3> QED
      BY <3>1, <3>2
  <2> QED
    BY <1>1, <2>4 DEF field_hi
<1> HIDE DEF k
<1>8. k \in 0 .. n - 1
  BY <1>2, <1>3
<1>9. ASSUME NEW j \in 0 .. n - 1
      PROVE  u \in field_lo(f, j) .. field_hi(f, j) <=> j = k
  BY <1>2, <1>7
<1>10. u - field_lo(f, k) \in 0 .. 7
  BY <1>2, <1>7, <1>8
<1>11. Owns(f, k, u)
  BY <1>1, <1>4, <1>7, <1>8, <1>9, <1>10 DEF Owns
<1> QED
  BY <1>11

(* The bit that lane by lane of the beats is bit r of byte p. *)
LEMMA SliceBit ==
  ASSUME NEW kw \in Nat \ {0}, NEW p \in Nat, NEW r \in 0 .. 7
  PROVE  LET b == LaneBit(kw, p) + r
         IN  beat(kw, p) * kw + b \div 8 = p /\ b % 8 = r
<1>1. beat(kw, p) = p \div kw /\ LaneBit(kw, p) = 8 * (p % kw)
  BY DEF beat, LaneBit, lane
<1>2. p % kw \in Nat /\ p \div kw \in Nat /\ ((p \div kw) * kw) + (p % kw) = p
  BY Z3
<1>3. \A l \in Nat : (8 * l + r) \div 8 = l /\ (8 * l + r) % 8 = r
  BY Z3
<1> QED
  BY <1>1, <1>2, <1>3

(* What either kind of module reads there is a bit of the field's byte.     *)
LEMMA ReadBit ==
  ASSUME NEW f, NEW kw \in Nat \ {0}, NEW buffer, NEW u \in 0 .. f.width - 1,
         f.offset \in Nat, f.width \in Nat \ {0}
  PROVE  \E k :
           /\ Owns(f, k, u)
           /\ FromBeats(f, kw, buffer)[u] = BitOf(buffer[f.offset + k + 1], u - field_lo(f, k))
           /\ FromBytes(f, buffer)[u] = BitOf(buffer[f.offset + k + 1], u - field_lo(f, k))
<1>0. PICK k : Owns(f, k, u)
  BY OneSlice
<1> DEFINE OnBeat == [beat     |-> beat(kw, f.offset + k),
                      bit_lo   |-> LaneBit(kw, f.offset + k),
                      bit_hi   |-> LaneBit(kw, f.offset + k) + BitsOfByte(f, k) - 1,
                      field_hi |-> field_hi(f, k), field_lo |-> field_lo(f, k)]
           OfByte == [header_byte |-> f.offset + k, source_hi |-> BitsOfByte(f, k) - 1,
                      field_hi |-> field_hi(f, k), field_lo |-> field_lo(f, k)]
           OnBeats == {s \in byte_slices(f, kw) : u \in s.field_lo .. s.field_hi}
           OnBytes == {s \in field_byte_slices(f) : u \in s.field_lo .. s.field_hi}
           BeatBit(s) == LET b == s.bit_lo + u - s.field_lo
                         IN  BitOf(buffer[s.beat * kw + b \div 8 + 1], b % 8)
           ByteBit(s) == BitOf(buffer[s.header_byte + 1], u - s.field_lo)
           r == u - field_lo(f, k)
           p == f.offset + k
           b == LaneBit(kw, p) + u - field_lo(f, k)
<1>1. OnBeats = {OnBeat} /\ OnBytes = {OfByte}
  BY <1>0 DEF Owns, byte_slices, field_byte_slices
<1>2. ByteBit(OfByte) = BitOf(buffer[p + 1], r)
  OBVIOUS
<1>3. BeatBit(OnBeat) = BitOf(buffer[beat(kw, p) * kw + b \div 8 + 1], b % 8)
  OBVIOUS
<1>4. beat(kw, p) * kw + b \div 8 = p /\ b % 8 = r
  <2>1. p \in Nat /\ r \in 0 .. 7 /\ b = LaneBit(kw, p) + r
    <3>1. width_bytes(f) \in Int
      BY DEF width_bytes
    <3>2. field_lo(f, k) \in Int /\ k \in Nat
      BY <1>0, <3>1 DEF Owns
    <3>3. LaneBit(kw, p) \in Int
      BY <3>2 DEF LaneBit, lane
    <3> QED
      BY <1>0, <3>2, <3>3 DEF Owns
  <2> HIDE DEF p, r, b
  <2> QED
    BY <2>1, SliceBit
<1>5. BeatBit(OnBeat) = BitOf(buffer[p + 1], r)
  <2> HIDE DEF p, r, b, OnBeat, BeatBit
  <2> QED
    BY <1>3, <1>4
<1>6. /\ FromBeats(f, kw, buffer)[u] = IF OnBeats = {} THEN 0 ELSE BeatBit(CHOOSE s \in OnBeats : TRUE)
      /\ FromBytes(f, buffer)[u] = IF OnBytes = {} THEN 0 ELSE ByteBit(CHOOSE s \in OnBytes : TRUE)
  BY DEF FromBeats, FromBytes
<1> HIDE DEF OnBeat, OfByte, BeatBit, ByteBit, OnBeats, OnBytes
<1>7. \A s : (CHOOSE x \in {s} : TRUE) = s
  OBVIOUS
<1>8. /\ FromBeats(f, kw, buffer)[u] = BeatBit(OnBeat)
      /\ FromBytes(f, buffer)[u] = ByteBit(OfByte)
  BY <1>1, <1>6, <1>7, Zenon
<1>9. /\ FromBeats(f, kw, buffer)[u] = BitOf(buffer[p + 1], r)
      /\ FromBytes(f, buffer)[u] = BitOf(buffer[p + 1], r)
  BY <1>2, <1>5, <1>8
<1> QED
  BY <1>0, <1>9 DEF p, r

(* The modules that capture a header beat by beat (_byte_slices_on_beat)   *)
(* and those that capture it byte by byte (_field_byte_slices) read the    *)
(* same bits of it, on a bus of any width, wherever the field begins and   *)
(* however wide it is.                                                     *)
THEOREM SlicesAgree ==
  ASSUME NEW f, NEW kw \in Nat \ {0}, NEW buffer,
         f.offset \in Nat, f.width \in Nat \ {0}
  PROVE  FromBeats(f, kw, buffer) = FromBytes(f, buffer)
<1>1. ASSUME NEW u \in 0 .. f.width - 1
      PROVE  FromBeats(f, kw, buffer)[u] = FromBytes(f, buffer)[u]
  BY ReadBit
<1> DEFINE BeatBit(u) == FromBeats(f, kw, buffer)[u]
           ByteBit(u) == FromBytes(f, buffer)[u]
<1>2. /\ FromBeats(f, kw, buffer) = [u \in 0 .. f.width - 1 |-> BeatBit(u)]
      /\ FromBytes(f, buffer) = [u \in 0 .. f.width - 1 |-> ByteBit(u)]
  BY DEF FromBeats, FromBytes
<1> HIDE DEF BeatBit, ByteBit
<1>3. \A u \in 0 .. f.width - 1 : BeatBit(u) = ByteBit(u)
  BY <1>1 DEF BeatBit, ByteBit
<1> QED
  BY <1>2, <1>3, Zenon

(* Every bit of a field is read there from one of its bytes. *)
LEMMA BytesRead ==
  ASSUME NEW f, NEW buffer, f.offset \in Nat, f.width \in Nat \ {0}
  PROVE  \A u \in 0 .. f.width - 1 :
           \E k : /\ Owns(f, k, u)
                  /\ FromBytes(f, buffer)[u] = BitOf(buffer[f.offset + k + 1], u - field_lo(f, k))
<1> PICK kw \in Nat \ {0} : kw = 1
  OBVIOUS
<1> SUFFICES ASSUME NEW u \in 0 .. f.width - 1
             PROVE  \E k : /\ Owns(f, k, u)
                           /\ FromBytes(f, buffer)[u] = BitOf(buffer[f.offset + k + 1], u - field_lo(f, k))
  OBVIOUS
<1> QED
  BY ReadBit

(* The low bits of a number are those of its remainder. *)
LEMMA LowBits ==
  ASSUME NEW w \in 1 .. 7, NEW u \in 0 .. w - 1, NEW x \in Nat
  PROVE  BitOf(x % 2 ^ w, u) = BitOf(x, u)
<1>1. /\ 2 ^ 0 = 1 /\ 2 ^ 1 = 2 /\ 2 ^ 2 = 4 /\ 2 ^ 3 = 8 /\ 2 ^ 4 = 16 /\ 2 ^ 5 = 32 /\ 2 ^ 6 = 64 /\ 2 ^ 7 = 128
  OBVIOUS
<1> DEFINE Same(m, d) == ((x % m) \div d) % 2 = (x \div d) % 2
<1>2. Same(2, 1)
  BY Z3
<1>3. Same(4, 1) /\ Same(4, 2)
  BY Z3
<1>4. Same(8, 1) /\ Same(8, 2) /\ Same(8, 4)
  BY Z3
<1>5. Same(16, 1) /\ Same(16, 2) /\ Same(16, 4) /\ Same(16, 8)
  BY Z3
<1>6. Same(32, 1) /\ Same(32, 2) /\ Same(32, 4) /\ Same(32, 8) /\ Same(32, 16)
  BY Z3
<1>7. Same(64, 1) /\ Same(64, 2) /\ Same(64, 4) /\ Same(64, 8) /\ Same(64, 16) /\ Same(64, 32)
  BY Z3
<1>8. Same(128, 1) /\ Same(128, 2) /\ Same(128, 4) /\ Same(128, 8) /\ Same(128, 16) /\ Same(128, 32) /\ Same(128, 64)
  BY Z3
<1> DEFINE P(j) == 2 ^ j
<1>9. /\ P(0) = 1 /\ P(1) = 2 /\ P(2) = 4 /\ P(3) = 8 /\ P(4) = 16 /\ P(5) = 32 /\ P(6) = 64 /\ P(7) = 128
  BY <1>1
<1>10. BitOf(x % 2 ^ w, u) = BitOf(x, u) <=> Same(P(w), P(u))
  BY DEF BitOf
<1> HIDE DEF Same, P
<1>11. Same(P(w), P(u))
  <2>1. w \in {1, 2, 3, 4, 5, 6, 7} /\ u \in {0, 1, 2, 3, 4, 5, 6} /\ u < w
    OBVIOUS
  <2> QED
    BY <2>1, <1>2, <1>3, <1>4, <1>5, <1>6, <1>7, <1>8, <1>9
<1> QED
  BY <1>10, <1>11

(* They read the number DataPacket.read_field returns, wherever the field  *)
(* lies, if it is of whole bytes or within one byte.  Others are out: the  *)
(* reader masks their first byte, the modules their last.                  *)
THEOREM SlicesRead ==
  ASSUME NEW f, NEW buffer \in Seq(Nat),
         f.offset \in Nat, f.width \in Nat \ {0}, f.width <= 8 \/ f.width % 8 = 0,
         Readable(buffer, f)
  PROVE  FromBytes(f, buffer) = BitsOf(read_field(buffer, f), f.width)
<1>1. \A u \in 0 .. f.width - 1 :
        \E k : /\ Owns(f, k, u)
               /\ FromBytes(f, buffer)[u] = BitOf(buffer[f.offset + k + 1], u - field_lo(f, k))
  BY BytesRead
<1>2. PICK w \in Nat \ {0}, n \in Nat, off \in Nat :
        w = f.width /\ off = f.offset /\ n = (w + 7) \div 8 /\ 8 * n <= w + 7 /\ w <= 8 * n
  <2>1. PICK w \in Nat \ {0}, off \in Nat : w = f.width /\ off = f.offset
    OBVIOUS
  <2>2. PICK n \in Nat : n = (w + 7) \div 8 /\ 8 * n <= w + 7 /\ w <= 8 * n
    BY Z3
  <2> QED
    BY <2>1, <2>2
<1>3. width_bytes(f) = n /\ n >= 1 /\ (w < 8 \/ w = 8 * n)
  <2>1. w % 8 = 0 => w = 8 * n
    <3>1. \A x \in Nat : x % 8 = 0 => x = 8 * (x \div 8) /\ (x + 7) \div 8 = x \div 8
      BY Z3
    <3> QED
      BY <1>2, <3>1
  <2> QED
    BY <1>2, <2>1 DEF width_bytes
<1>4. off + n <= Len(buffer)
  BY <1>2, <1>3 DEF Readable, end_offset
<1> DEFINE digits == read_field(buffer, f)
<1>5. digits = [j \in 1 .. n |-> IF j = 1 /\ w % 8 # 0 THEN buffer[off + 1] % 2 ^ (w % 8) ELSE buffer[off + j]]
  BY <1>2, <1>3 DEF read_field
<1>6. \A j \in 1 .. n : digits[j] = IF j = 1 /\ w % 8 # 0 THEN buffer[off + 1] % 2 ^ (w % 8) ELSE buffer[off + j]
  BY <1>5
<1>7. Len(digits) = n
  BY <1>5
<1>8. ASSUME NEW u \in 0 .. w - 1
      PROVE  FromBytes(f, buffer)[u] = BitOf(digits[n - u \div 8], u % 8)
  <2>1. u \in 0 .. f.width - 1
    BY <1>2
  <2>2. PICK k : /\ Owns(f, k, u)
                 /\ FromBytes(f, buffer)[u] = BitOf(buffer[f.offset + k + 1], u - field_lo(f, k))
    BY <1>1, <2>1
  <2>3. /\ k \in 0 .. width_bytes(f) - 1
        /\ u - field_lo(f, k) \in 0 .. 7
        /\ field_lo(f, k) = IF f.width >= 8 * k + 8 THEN f.width - 8 * k - 8 ELSE 0
    BY <2>2 DEF Owns
  <2>4. /\ k \in 0 .. n - 1
        /\ u - field_lo(f, k) \in 0 .. 7
        /\ w >= 8 * k + 8 => field_lo(f, k) = w - 8 * k - 8
        /\ w < 8 * k + 8 => field_lo(f, k) = 0
        /\ FromBytes(f, buffer)[u] = BitOf(buffer[off + k + 1], u - field_lo(f, k))
    <3>1. k \in 0 .. n - 1
      BY <1>3, <2>3
    <3>2. (w >= 8 * k + 8 => field_lo(f, k) = w - 8 * k - 8) /\ (w < 8 * k + 8 => field_lo(f, k) = 0)
      BY <1>2, <2>3, <3>1
    <3> QED
      BY <1>2, <2>2, <2>3, <3>1, <3>2
  <2>5. \A x \in 0 .. 7, y \in Nat : (8 * y + x) \div 8 = y /\ (8 * y + x) % 8 = x
    BY Z3
  <2>6. CASE w = 8 * n
    <3>1. w % 8 = 0
      BY <1>3, <2>5, <2>6
    <3>2. u - field_lo(f, k) \in 0 .. 7 /\ u = 8 * (n - 1 - k) + (u - field_lo(f, k)) /\ n - 1 - k \in Nat
      BY <2>4, <2>6
    <3>3. u \div 8 = n - 1 - k /\ u % 8 = u - field_lo(f, k)
      BY <2>5, <3>2
    <3>4. n - u \div 8 = k + 1 /\ k + 1 \in 1 .. n /\ off + (k + 1) = off + k + 1
      BY <2>4, <3>3
    <3>5. digits[k + 1] = buffer[off + k + 1]
      BY <1>5, <3>1, <3>4
    <3> HIDE DEF digits
    <3> QED
      BY <2>4, <3>3, <3>4, <3>5
  <2>7. CASE w < 8
    <3>1. n = 1 /\ k = 0 /\ w % 8 = w /\ w # 0 /\ u \div 8 = 0 /\ u % 8 = u /\ u \in 0 .. 7 /\ w \in 1 .. 7
      <4>1. \A x \in 0 .. 7 : x % 8 = x /\ x \div 8 = 0
        BY Z3
      <4>2. n = 1 /\ w \in 1 .. 7 /\ u \in 0 .. 7
        <5>1. w \in Nat /\ w # 0 /\ n \in Nat /\ 8 * n <= w + 7 /\ n >= 1 /\ w < 8 /\ u \in 0 .. w - 1
          BY <1>2, <1>3, <2>7
        <5> QED
          BY <5>1
      <4> QED
        <5>1. k = 0
          BY <2>4, <4>2
        <5>2. w \in 0 .. 7 /\ w # 0
          BY <4>2
        <5> QED
          BY <4>1, <4>2, <5>1, <5>2
    <3>2. field_lo(f, k) = 0 /\ u - 0 = u
      BY <2>4, <3>1
    <3>3. digits[1] = buffer[off + 1] % 2 ^ w
      <4>1. 1 \in 1 .. n /\ w % 8 = w /\ w % 8 # 0
        BY <3>1
      <4> HIDE DEF digits
      <4> QED
        BY <1>6, <4>1, Zenon
    <3>4. buffer[off + 1] \in Nat
      BY <1>4, <3>1
    <3>5. BitOf(buffer[off + 1] % 2 ^ w, u) = BitOf(buffer[off + 1], u)
      BY <1>8, <3>1, <3>4, LowBits
    <3>6. n - u \div 8 = 1 /\ off + k + 1 = off + 1
      BY <3>1
    <3> HIDE DEF digits
    <3> QED
      BY <2>4, <3>1, <3>2, <3>3, <3>5, <3>6
  <2> QED
    BY <1>3, <2>6, <2>7
<1> DEFINE Bit(u) == FromBytes(f, buffer)[u]
<1>9. FromBytes(f, buffer) = [u \in 0 .. w - 1 |-> Bit(u)]
  BY <1>2 DEF FromBytes
<1>10. BitsOf(digits, w) = [u \in 0 .. w - 1 |-> BitOf(digits[n - u \div 8], u % 8)]
  BY <1>7, Zenon DEF BitsOf
<1>11. \A u \in 0 .. w - 1 : Bit(u) = BitOf(digits[n - u \div 8], u % 8)
  BY <1>8
<1> HIDE DEF Bit, digits
<1>12. FromBytes(f, buffer) = BitsOf(digits, w)
  BY <1>9, <1>10, <1>11
<1> QED
  BY <1>2, <1>12 DEF digits

------------------------------------------------------------------------------
(* A set of natural numbers has a least one. *)
LEMMA Least ==
  ASSUME NEW S \in SUBSET Nat, S # {}
  PROVE  \E m \in S : \A n \in S : m <= n
<1> DEFINE R == OpToRel(<, Nat)
<1>1. IsWellFoundedOn(R, Nat)
  BY NatLessThanWellFounded
<1>2. R = {ss \in Nat \X Nat : ss[1] < ss[2]}
  BY DEF OpToRel
<1> HIDE DEF R
<1>3. PICK m \in S : \A n \in S : ~(<<n, m>> \in R)
  BY <1>1, WFMin
<1>4. ASSUME NEW n \in S PROVE m <= n
  <2>1. n < m => <<n, m>> \in R
    BY <1>2
  <2>2. n \in Nat /\ m \in Nat /\ ~(n < m)
    BY <1>3, <2>1
  <2> QED
    BY <2>2
<1> QED
  BY <1>4

(* A finite set of numbers has a greatest one. *)
LEMMA Greatest ==
  ASSUME NEW S \in SUBSET Int, S # {}, IsFiniteSet(S)
  PROVE  \E x \in S : \A y \in S : x >= y
<1> DEFINE HasOne(A) == \E x \in A : \A y \in A : x >= y
           Sets == {A \in SUBSET S : A # {} /\ ~HasOne(A)}
           T == {Cardinality(A) : A \in Sets}
<1>1. \A A \in SUBSET S : IsFiniteSet(A) /\ Cardinality(A) \in Nat
  BY FS_Subset, FS_CardinalityType
<1>2. SUFFICES ASSUME ~HasOne(S) PROVE FALSE
  OBVIOUS
<1>3. T \in SUBSET Nat /\ T # {}
  BY <1>1, <1>2
<1>4. PICK A \in Sets : \A B \in Sets : Cardinality(A) <= Cardinality(B)
  <2> HIDE DEF Sets, HasOne, T
  <2>1. PICK m \in T : \A n \in T : m <= n
    BY <1>3, Least
  <2> QED
    BY <2>1 DEF T
<1>5. PICK x \in A : TRUE
  BY <1>4
<1> DEFINE B == A \ {x}
<1>6. B \in SUBSET S /\ Cardinality(B) = Cardinality(A) - 1 /\ Cardinality(A) \in Nat /\ Cardinality(B) \in Nat
  BY <1>1, <1>5, FS_RemoveElement
<1>7. B \notin Sets
  <2> HIDE DEF Sets, B
  <2> QED
    BY <1>4, <1>6
<1>8. CASE B = {}
  BY <1>5, <1>8
<1>9. CASE B # {}
  <2>1. PICK m \in B : \A y \in B : m >= y
    BY <1>6, <1>7, <1>9
  <2>2. CASE x >= m
    BY <1>5, <2>1, <2>2
  <2>3. CASE ~(x >= m)
    BY <1>5, <2>1, <2>3
  <2> QED
    BY <2>2, <2>3
<1> QED
  BY <1>8, <1>9

(* So Max is what its name says. *)
LEMMA MaxIsGreatest ==
  ASSUME NEW S \in SUBSET Int, S # {}, IsFiniteSet(S)
  PROVE  Max(S) \in S /\ \A y \in S : y <= Max(S)
<1>1. PICK x \in S : \A y \in S : x >= y
  BY Greatest
<1>2. Max(S) \in S /\ \A y \in S : Max(S) >= y
  BY <1>1, Zenon DEF Max
<1>3. Max(S) \in Int
  BY <1>2
<1> QED
  BY <1>2, <1>3

------------------------------------------------------------------------------
(* A valid field has its bytes behind its offset. *)
LEMMA FieldPlace ==
  ASSUME NEW f, f.offset \in Int, f.width \in Int, ValidField(f)
  PROVE  /\ f.offset \in Nat /\ f.width \in Nat \ {0}
         /\ width_bytes(f) \in Nat \ {0}
         /\ end_offset(f) = f.offset + width_bytes(f)
<1>1. f.offset >= 0 /\ f.width > 0
  BY DEF ValidField
<1>2. \A w \in Nat \ {0} : (w + 7) \div 8 \in Nat \ {0}
  BY Z3
<1>3. f.offset \in Nat /\ f.width \in Nat \ {0}
  BY <1>1
<1> QED
  BY <1>2, <1>3 DEF width_bytes, end_offset

(* A field of a sequence has an index. *)
LEMMA Indices ==
  ASSUME NEW fields, IsFields(fields)
  PROVE  /\ Len(fields) \in Nat /\ DOMAIN fields = 1 .. Len(fields)
         /\ \A u \in DOMAIN fields : fields[u] \in Range(fields)
         /\ \A f \in Range(fields) : \E u \in DOMAIN fields : f = fields[u]
  BY DEF IsFields, Range

(* No field ends behind the length that is required for all. *)
LEMMA Required ==
  ASSUME NEW fields, IsFields(fields)
  PROVE  /\ required_length(fields) \in Nat
         /\ \A f \in Range(fields) : end_offset(f) <= required_length(fields)
<1> DEFINE E == {end_offset(fields[u]) : u \in DOMAIN fields}
           e == [u \in DOMAIN fields |-> end_offset(fields[u])]
<1>1. \A f \in Range(fields) : end_offset(f) \in Int
  <2>1. \A w \in Int : (w + 7) \div 8 \in Int
    BY Z3
  <2> QED
    BY <2>1 DEF IsFields, end_offset, width_bytes
<1>2. E \in SUBSET Int
  BY <1>1, Indices
<1>3. IsFiniteSet(DOMAIN fields)
  BY Indices, FS_Interval
<1>4. IsFiniteSet(E)
  <2>1. e \in Surjection(DOMAIN fields, E)
    BY DEF Surjection
  <2> QED
    BY <1>3, <2>1, FS_Surjection
<1>5. required_length(fields) = Max({0} \cup E)
  BY DEF required_length
<1>6. \A f \in Range(fields) : end_offset(f) \in E
  BY Indices
<1> HIDE DEF E, e
<1>7. IsFiniteSet({0} \cup E)
  <2>1. {0} \cup E = E \cup {0}
    OBVIOUS
  <2> QED
    BY <1>4, <2>1, FS_AddElement
<1>8. {0} \cup E \in SUBSET Int /\ {0} \cup E # {}
  BY <1>2
<1> DEFINE m == required_length(fields)
<1>9. m \in {0} \cup E /\ \A y \in {0} \cup E : y <= m
  BY <1>5, <1>7, <1>8, MaxIsGreatest
<1> HIDE DEF m
<1>10. m \in Int /\ 0 <= m /\ \A y \in E : y <= m
  BY <1>8, <1>9
<1> QED
  BY <1>6, <1>10 DEF m

(* A name stands for a field that has it. *)
LEMMA NamedField ==
  ASSUME NEW fields, IsFields(fields), NEW n \in {f.name : f \in Range(fields)}
  PROVE  FieldNamed(fields, n) \in Range(fields) /\ FieldNamed(fields, n).name = n
<1> DEFINE I == {u \in DOMAIN fields : fields[u].name = n}
<1>1. I # {} /\ I \in SUBSET (1 .. Len(fields)) /\ I \in SUBSET Int
  BY Indices
<1>2. IsFiniteSet(I)
  <2> HIDE DEF I
  <2>1. Len(fields) \in Int /\ 1 \in Int
    BY Indices
  <2>2. IsFiniteSet(1 .. Len(fields))
    BY <2>1, FS_Interval
  <2> QED
    BY <1>1, <2>2, FS_Subset
<1>3. Max(I) \in I
  <2> HIDE DEF I
  <2> QED
    BY <1>1, <1>2, MaxIsGreatest
<1>4. FieldNamed(fields, n) = fields[Max(I)]
  BY DEF FieldNamed
<1> QED
  BY <1>3, <1>4, Indices

(* In a plan it stands for the place of that field's bytes. *)
LEMMA Named ==
  ASSUME NEW fields, IsFields(fields)
  PROVE  /\ DOMAIN ByName(fields) = {f.name : f \in Range(fields)}
         /\ \A n \in DOMAIN ByName(fields) : \E f \in Range(fields) :
              /\ f.name = n
              /\ ByName(fields)[n] = Bytes(f)
<1>1. DOMAIN ByName(fields) = {fields[u].name : u \in DOMAIN fields}
  BY DEF ByName
<1>2. {fields[u].name : u \in DOMAIN fields} = {f.name : f \in Range(fields)}
  BY DEF Range
<1>3. ASSUME NEW n \in {fields[u].name : u \in DOMAIN fields}
      PROVE  \E f \in Range(fields) :
               /\ f.name = n
               /\ ByName(fields)[n] = Bytes(f)
  <2>1. FieldNamed(fields, n) \in Range(fields) /\ FieldNamed(fields, n).name = n
    BY <1>2, NamedField
  <2>2. ByName(fields)[n] = Bytes(FieldNamed(fields, n))
    BY <1>3 DEF ByName
  <2> QED
    BY <2>1, <2>2
<1> QED
  BY <1>1, <1>2, <1>3

(* The bytes of a header's fields lie within any length they require. *)
LEMMA FieldsFit ==
  ASSUME NEW fields, IsFields(fields), \A f \in Range(fields) : ValidField(f),
         NEW total \in Int, total >= required_length(fields)
  PROVE  LET place == ByName(fields)
         IN  /\ \A n \in DOMAIN place : /\ place[n].offset \in Nat /\ place[n].length \in Nat \ {0}
                                       /\ place[n].offset + place[n].length <= total
             /\ fields # << >> => DOMAIN place # {}
<1> DEFINE place == ByName(fields)
<1>a. /\ DOMAIN place = {f.name : f \in Range(fields)}
      /\ \A n \in DOMAIN place : \E f \in Range(fields) :
           f.name = n /\ place[n] = Bytes(f)
  BY Named
<1> HIDE DEF place
<1>1. ASSUME NEW n \in DOMAIN place
      PROVE  /\ place[n].offset \in Nat /\ place[n].length \in Nat \ {0}
             /\ place[n].offset + place[n].length <= total
  <2>1. PICK f \in Range(fields) : place[n] = Bytes(f)
    BY <1>a
  <2>2. f.offset \in Int /\ f.width \in Int /\ ValidField(f)
    BY DEF IsFields
  <2>3. /\ f.offset \in Nat /\ width_bytes(f) \in Nat \ {0}
        /\ end_offset(f) = f.offset + width_bytes(f)
    BY <2>2, FieldPlace
  <2>4. required_length(fields) \in Nat /\ end_offset(f) <= required_length(fields)
    BY Required
  <2> QED
    BY <2>1, <2>3, <2>4 DEF Bytes
<1>2. ASSUME fields # << >> PROVE DOMAIN place # {}
  <2>1. Range(fields) # {}
    BY <1>2, Indices DEF IsFields, Range
  <2> QED
    BY <1>a, <2>1
<1> QED
  BY <1>1, <1>2 DEF place

------------------------------------------------------------------------------
(* The records a plan is put together from. *)
LEMMA BothRecords ==
  ASSUME NEW r, NEW by
  PROVE  /\ DOMAIN Extended(r, by) = DOMAIN r \cup DOMAIN by
         /\ \A key \in DOMAIN by : Extended(r, by)[key] = by[key]
         /\ \A key \in DOMAIN r \ DOMAIN by : Extended(r, by)[key] = r[key]
  BY DEF Extended, Has

(* A header plan that is not rejected. *)
LEMMA HeaderPlan ==
  ASSUME NEW fields, NEW total, NEW kw, build_plan(fields, total, kw).ok
  PROVE  LET plan == build_plan(fields, total, kw)
         IN  /\ {"ok", "KEEP_WIDTH", "TOTAL_LENGTH", "Fields"} \subseteq DOMAIN plan
             /\ plan.KEEP_WIDTH = kw /\ plan.TOTAL_LENGTH = total /\ plan.Fields = ByName(fields)
             /\ fields # << >>
  BY DEF build_plan, NoPlan

(* What a plan takes over from a protocol of messages. *)
OuterOf(plan, p, kw) ==
  /\ {"KEEP_WIDTH", "TOTAL_LENGTH", "Fields", "RouteConditions", "DEFAULT_TDEST", "message_count_field",
      "SUB_HEADER_BYTES", "SubFields", "length_field", "ok"} \subseteq DOMAIN plan
  /\ plan.KEEP_WIDTH = kw /\ plan.TOTAL_LENGTH = p.total_length /\ plan.Fields = ByName(p.fields)
  /\ plan.RouteConditions = << >> /\ plan.DEFAULT_TDEST = 0
  /\ plan.message_count_field = p.message_count_field
  /\ plan.SUB_HEADER_BYTES = p.sub_protocol.total_length
  /\ plan.SubFields = ByName(p.sub_protocol.fields)
  /\ plan.length_field = p.sub_protocol.length_field.name
  /\ p.fields # << >>

(* outer_plan takes it over. *)
LEMMA OuterPlan ==
  ASSUME NEW p, NEW kw, outer_plan(p, kw).ok
  PROVE  OuterOf(outer_plan(p, kw), p, kw)
<1> DEFINE base == build_plan(p.fields, p.total_length, kw)
           by == [RouteConditions     |-> << >>,
                  DEFAULT_TDEST       |-> 0,
                  comb                |-> FieldsOnBeat(p.fields, outer_parse_beats(p, kw) - 1, kw),
                  message_count_field |-> p.message_count_field,
                  SUB_HEADER_BYTES    |-> p.sub_protocol.total_length,
                  SubFields           |-> ByName(p.sub_protocol.fields),
                  length_field        |-> p.sub_protocol.length_field.name,
                  counters            |-> base.counters \o <<"malformed_count">>,
                  sub_slices          |-> UNION {field_byte_slices(f) : f \in Range(p.sub_protocol.fields)}]
<1>1. outer_plan(p, kw) = IF ~base.ok THEN NoPlan ELSE Extended(base, by)
  BY Zenon DEF outer_plan
<1>2. base.ok /\ outer_plan(p, kw) = Extended(base, by)
  <2> HIDE DEF base, by
  <2> QED
    BY <1>1 DEF NoPlan
<1>3. /\ {"ok", "KEEP_WIDTH", "TOTAL_LENGTH", "Fields"} \subseteq DOMAIN base
      /\ base.KEEP_WIDTH = kw /\ base.TOTAL_LENGTH = p.total_length /\ base.Fields = ByName(p.fields)
      /\ p.fields # << >>
  BY <1>2, HeaderPlan
<1>4. /\ DOMAIN by = {"RouteConditions", "DEFAULT_TDEST", "comb", "message_count_field", "SUB_HEADER_BYTES",
                      "SubFields", "length_field", "counters", "sub_slices"}
      /\ by.RouteConditions = << >> /\ by.DEFAULT_TDEST = 0
      /\ by.message_count_field = p.message_count_field
      /\ by.SUB_HEADER_BYTES = p.sub_protocol.total_length
      /\ by.SubFields = ByName(p.sub_protocol.fields)
      /\ by.length_field = p.sub_protocol.length_field.name
  <2> HIDE DEF base
  <2> QED
    OBVIOUS
<1> HIDE DEF base, by
<1>5. /\ DOMAIN Extended(base, by) = DOMAIN base \cup DOMAIN by
      /\ \A key \in DOMAIN by : Extended(base, by)[key] = by[key]
      /\ \A key \in DOMAIN base \ DOMAIN by : Extended(base, by)[key] = base[key]
  BY BothRecords
<1> QED
  BY <1>2, <1>3, <1>4, <1>5 DEF OuterOf

(* Entries of other names leave it as it is. *)
LEMMA StillOuter ==
  ASSUME NEW plan, NEW by, NEW p, NEW kw, OuterOf(plan, p, kw),
         DOMAIN by \cap {"KEEP_WIDTH", "TOTAL_LENGTH", "Fields", "RouteConditions", "DEFAULT_TDEST",
                         "message_count_field", "SUB_HEADER_BYTES", "SubFields", "length_field", "ok"} = {}
  PROVE  OuterOf(Extended(plan, by), p, kw)
<1>1. /\ DOMAIN Extended(plan, by) = DOMAIN plan \cup DOMAIN by
      /\ \A key \in DOMAIN plan \ DOMAIN by : Extended(plan, by)[key] = plan[key]
  BY BothRecords
<1> QED
  BY <1>1 DEF OuterOf

(* What a plan takes over from a discriminated protocol. *)
VariantsOf(plan, p) ==
  /\ {"CommonFields", "discriminator", "Variants", "variant_length"} \subseteq DOMAIN plan
  /\ plan.CommonFields = ByName(p.fields) /\ plan.discriminator = p.discriminator.name
  /\ plan.variant_length = p.variant_length
  /\ plan.Variants = [v \in DOMAIN p.variants |->
                        LET own == ByName(p.variants[v])
                        IN  Restrict(own, DOMAIN own \ CommonNames(p))]

(* variant_constants takes it over. *)
LEMMA VariantConstants ==
  ASSUME NEW p
  PROVE  /\ VariantsOf(variant_constants(p), p)
         /\ DOMAIN variant_constants(p) = {"CommonFields", "discriminator", "Variants", "variant_length"}
  BY DEF variant_constants, VariantsOf

(* Entries of other names leave it as it is. *)
LEMMA StillVariants ==
  ASSUME NEW plan, NEW by, NEW p, VariantsOf(plan, p),
         DOMAIN by \cap {"CommonFields", "discriminator", "Variants", "variant_length"} = {}
  PROVE  VariantsOf(Extended(plan, by), p)
<1>1. /\ DOMAIN Extended(plan, by) = DOMAIN plan \cup DOMAIN by
      /\ \A key \in DOMAIN plan \ DOMAIN by : Extended(plan, by)[key] = plan[key]
  BY BothRecords
<1> QED
  BY <1>1 DEF VariantsOf

(* A plan that is accepted is put together from these. *)
LEMMA MessagePlans ==
  ASSUME NEW p, NEW kw, p.class = "Multi", generate(p, kw).ok
  PROVE  LET plan == generate(p, kw)
         IN  /\ OuterOf(plan, p, kw)
             /\ p.sub_protocol.class = "LengthPrefixed" => ~(p.sub_protocol.total_length <= 0)
             /\ p.sub_protocol.class # "LengthPrefixed" =>
                  /\ VariantsOf(plan, p.sub_protocol.discriminated)
                  /\ ~MultipleWidths(p.sub_protocol.discriminated)
                  /\ plan.entries = byte_entries(p.sub_protocol.discriminated)
<1> DEFINE outer == outer_plan(p, kw)
           sub == p.sub_protocol
           own == [u \in DOMAIN sub.fields |-> sub.name \o "_" \o sub.fields[u].name]
           ports == [ports |-> Ports(outer, Names(p.fields) \o own,
                                          <<sub.name \o "_fields_valid", sub.name \o "_fields_fresh">>)]
           inner == sub.discriminated
           extra == [ports   |-> Ports(outer, Names(p.fields) \o FieldNames(inner),
                                            <<"itch_fields_valid", "itch_fields_fresh">>),
                     entries |-> byte_entries(inner),
                     keys    |-> {sv_int(inner.discriminator.width, v) : v \in DOMAIN inner.variants}]
<1>1. CASE sub.class = "LengthPrefixed"
  <2>1. generate(p, kw) = multi_message_plan(p, kw)
    BY <1>1 DEF generate
  <2>2. multi_message_plan(p, kw) =
          IF ~outer.ok \/ sub.total_length <= 0 THEN NoPlan ELSE Extended(outer, ports)
    BY Zenon DEF multi_message_plan
  <2>3. DOMAIN ports = {"ports"}
    OBVIOUS
  <2> HIDE DEF outer, ports
  <2>4. outer.ok /\ ~(sub.total_length <= 0) /\ generate(p, kw) = Extended(outer, ports)
    BY <2>1, <2>2 DEF NoPlan
  <2>5. OuterOf(outer, p, kw)
    BY <2>4, OuterPlan DEF outer
  <2>6. OuterOf(Extended(outer, ports), p, kw)
    BY <2>3, <2>5, StillOuter
  <2> QED
    BY <1>1, <2>4, <2>6
<1>2. CASE sub.class # "LengthPrefixed"
  <2>1. generate(p, kw) = multi_discriminated_plan(p, kw)
    BY <1>2 DEF generate
  <2>2. multi_discriminated_plan(p, kw) =
          IF ~outer.ok \/ MultipleWidths(inner) \/ \E v \in DOMAIN inner.variants : v < 0 THEN NoPlan
          ELSE Extended(Extended(outer, variant_constants(inner)), extra)
    BY Zenon DEF multi_discriminated_plan
  <2>3. DOMAIN extra = {"ports", "entries", "keys"} /\ extra.entries = byte_entries(inner)
    <3> HIDE DEF outer, inner
    <3> QED
      OBVIOUS
  <2> HIDE DEF outer, extra, inner
  <2>4. /\ outer.ok /\ ~MultipleWidths(inner)
        /\ generate(p, kw) = Extended(Extended(outer, variant_constants(inner)), extra)
    BY <2>1, <2>2 DEF NoPlan
  <2>5. OuterOf(outer, p, kw)
    BY <2>4, OuterPlan DEF outer
  <2>6. OuterOf(Extended(outer, variant_constants(inner)), p, kw)
    BY <2>5, StillOuter, VariantConstants
  <2>7. VariantsOf(Extended(outer, variant_constants(inner)), inner)
    <3>1. /\ DOMAIN Extended(outer, variant_constants(inner))
               = DOMAIN outer \cup DOMAIN variant_constants(inner)
          /\ \A key \in DOMAIN variant_constants(inner) :
               Extended(outer, variant_constants(inner))[key] = variant_constants(inner)[key]
      BY BothRecords
    <3> QED
      BY <3>1, VariantConstants DEF VariantsOf
  <2>8. /\ OuterOf(generate(p, kw), p, kw)
        /\ VariantsOf(generate(p, kw), inner)
    BY <2>3, <2>4, <2>6, <2>7, StillOuter, StillVariants
  <2>9. generate(p, kw).entries = byte_entries(inner)
    <3>1. \A key \in DOMAIN extra :
            Extended(Extended(outer, variant_constants(inner)), extra)[key] = extra[key]
      BY BothRecords
    <3>2. "entries" \in DOMAIN extra
      BY <2>3
    <3>3. Extended(Extended(outer, variant_constants(inner)), extra)["entries"] = extra["entries"]
      BY <3>1, <3>2
    <3> QED
      BY <2>3, <2>4, <3>3
  <2> QED
    BY <1>2, <2>4, <2>8, <2>9 DEF inner
<1> QED
  BY <1>1, <1>2

(* Two sequences of fields, one behind the other. *)
LEMMA Joined ==
  ASSUME NEW a, NEW b, IsFields(a), IsFields(b)
  PROVE  IsFields(a \o b) /\ Range(a \o b) = Range(a) \cup Range(b)
<1> DEFINE S == Range(a) \cup Range(b)
<1>1. a \in Seq(S) /\ b \in Seq(S)
  BY DEF IsFields
<1>2. /\ a \o b \in Seq(S) /\ Len(a \o b) = Len(a) + Len(b)
      /\ \A u \in 1 .. Len(a) + Len(b) : (a \o b)[u] = IF u <= Len(a) THEN a[u] ELSE b[u - Len(a)]
  <2> HIDE DEF S
  <2> QED
    BY <1>1, ConcatProperties
<1>3. /\ Len(a) \in Nat /\ DOMAIN a = 1 .. Len(a) /\ Len(b) \in Nat /\ DOMAIN b = 1 .. Len(b)
      /\ DOMAIN (a \o b) = 1 .. Len(a) + Len(b)
  BY <1>1, <1>2
<1>4. Range(a \o b) \subseteq S
  BY <1>2, <1>3 DEF Range
<1>5. ASSUME NEW u \in 1 .. Len(a) PROVE a[u] \in Range(a \o b)
  <2>1. u \in 1 .. Len(a) + Len(b) /\ u <= Len(a)
    BY <1>3
  <2>2. (a \o b)[u] = a[u]
    BY <1>2, <2>1
  <2> QED
    BY <1>3, <2>1, <2>2 DEF Range
<1>6. ASSUME NEW u \in 1 .. Len(b) PROVE b[u] \in Range(a \o b)
  <2>1. Len(a) + u \in 1 .. Len(a) + Len(b) /\ ~(Len(a) + u <= Len(a)) /\ (Len(a) + u) - Len(a) = u
    BY <1>3
  <2>2. (a \o b)[Len(a) + u] = b[u]
    BY <1>2, <2>1
  <2> QED
    BY <1>3, <2>1, <2>2 DEF Range
<1>7. S \subseteq Range(a \o b)
  BY <1>3, <1>5, <1>6 DEF Range
<1>8. Range(a \o b) = S
  BY <1>4, <1>7
<1>9. \A f \in S : f.offset \in Int /\ f.width \in Int
  BY DEF IsFields
<1> QED
  BY <1>2, <1>8, <1>9 DEF IsFields

(* Fields by variant, as they are declared, the discriminator among the    *)
(* common ones, and a length for each variant.                             *)
IsVariants(p) ==
  /\ IsFields(p.fields) /\ p.discriminator \in Range(p.fields)
  /\ IsFiniteSet(DOMAIN p.variants)
  /\ \A v \in DOMAIN p.variants : IsFields(p.variants[v]) /\ p.variant_length[v] \in Int

(* A message has the bytes of its fields, the common ones and its own, for *)
(* a variant is not shorter than they require.                             *)
LEMMA CommonPlaces ==
  ASSUME NEW p, IsVariants(p), ValidDiscriminated(p), NEW v \in DOMAIN p.variants
  PROVE  /\ \A n \in DOMAIN ByName(p.fields) :
              LET at == ByName(p.fields)[n]
              IN  at.offset \in Nat /\ at.length \in Nat \ {0} /\ at.offset + at.length <= p.variant_length[v]
         /\ \A n \in DOMAIN ByName(p.variants[v]) :
              LET at == ByName(p.variants[v])[n]
              IN  at.offset \in Nat /\ at.length \in Nat \ {0} /\ at.offset + at.length <= p.variant_length[v]
         /\ p.variant_length[v] \in Nat \ {0}
<1> DEFINE len == p.variant_length[v]
           all == p.variants[v] \o p.fields
<1>1. IsFields(p.fields) /\ IsFields(p.variants[v]) /\ len \in Int
  BY DEF IsVariants
<1>2. IsFields(all) /\ Range(all) = Range(p.variants[v]) \cup Range(p.fields)
  BY <1>1, Joined
<1>3. len >= required_length(all)
  BY DEF ValidDiscriminated
<1>4. /\ \A f \in Range(p.fields) : ValidField(f)
      /\ \A f \in Range(p.variants[v]) : ValidField(f)
  BY <1>1, Indices DEF ValidDiscriminated
<1> HIDE DEF len, all
<1>5. required_length(all) \in Nat /\ \A f \in Range(all) : end_offset(f) <= required_length(all)
  BY <1>2, Required
<1>6. ASSUME NEW f \in Range(all)
      PROVE  /\ Bytes(f).offset \in Nat /\ Bytes(f).length \in Nat \ {0}
             /\ Bytes(f).offset + Bytes(f).length <= len
  <2>1. f.offset \in Int /\ f.width \in Int /\ ValidField(f)
    BY <1>2, <1>4 DEF IsFields
  <2>2. /\ f.offset \in Nat /\ width_bytes(f) \in Nat \ {0}
        /\ end_offset(f) = f.offset + width_bytes(f)
    BY <2>1, FieldPlace
  <2>3. f.offset + width_bytes(f) <= len
    BY <1>1, <1>3, <1>5, <2>2
  <2> QED
    BY <2>2, <2>3 DEF Bytes
<1>7. \A n \in DOMAIN ByName(p.fields) :
        \E f \in Range(all) : ByName(p.fields)[n] = Bytes(f)
  <2>1. \A n \in DOMAIN ByName(p.fields) :
          \E f \in Range(p.fields) : f.name = n /\ ByName(p.fields)[n] = Bytes(f)
    BY <1>1, Named
  <2> QED
    BY <1>2, <2>1
<1>8. \A n \in DOMAIN ByName(p.variants[v]) :
        \E f \in Range(all) : ByName(p.variants[v])[n] = Bytes(f)
  <2>1. \A n \in DOMAIN ByName(p.variants[v]) :
          \E f \in Range(p.variants[v]) : f.name = n /\ ByName(p.variants[v])[n] = Bytes(f)
    BY <1>1, Named
  <2> QED
    BY <1>2, <2>1
<1>9. len \in Nat \ {0}
  <2>1. p.discriminator \in Range(all)
    BY <1>2 DEF IsVariants
  <2>2. /\ Bytes(p.discriminator).offset \in Nat /\ Bytes(p.discriminator).length \in Nat \ {0}
        /\ Bytes(p.discriminator).offset + Bytes(p.discriminator).length <= len
    BY <1>6, <2>1
  <2> QED
    BY <1>1, <2>2
<1>10. \A n \in DOMAIN ByName(p.fields) :
         LET at == ByName(p.fields)[n]
         IN  at.offset \in Nat /\ at.length \in Nat \ {0} /\ at.offset + at.length <= len
  BY <1>6, <1>7
<1>11. \A n \in DOMAIN ByName(p.variants[v]) :
         LET at == ByName(p.variants[v])[n]
         IN  at.offset \in Nat /\ at.length \in Nat \ {0} /\ at.offset + at.length <= len
  BY <1>6, <1>8
<1> QED
  BY <1>9, <1>10, <1>11 DEF len

(* A variant's fields in the plan are those the common ones do not hide. *)
LEMMA OwnPlaces ==
  ASSUME NEW plan, NEW p, IsVariants(p), VariantsOf(plan, p)
  PROVE  /\ DOMAIN plan.Variants = DOMAIN p.variants
         /\ \A v \in DOMAIN p.variants :
              /\ DOMAIN plan.Variants[v] = DOMAIN ByName(p.variants[v]) \ DOMAIN ByName(p.fields)
              /\ \A n \in DOMAIN plan.Variants[v] : plan.Variants[v][n] = ByName(p.variants[v])[n]
<1>1. CommonNames(p) = DOMAIN ByName(p.fields)
  BY DEF CommonNames, Names, ByName, Range
<1>2. /\ DOMAIN plan.Variants = DOMAIN p.variants
      /\ \A v \in DOMAIN p.variants :
           plan.Variants[v] = Restrict(ByName(p.variants[v]),
                                            DOMAIN ByName(p.variants[v]) \ CommonNames(p))
  BY DEF VariantsOf
<1> QED
  BY <1>1, <1>2 DEF Restrict

(* A field of two variants has one width. *)
LEMMA OneWidth ==
  ASSUME NEW p, IsVariants(p), ~MultipleWidths(p),
         NEW v \in DOMAIN p.variants, NEW w \in DOMAIN p.variants,
         NEW n, n \notin DOMAIN ByName(p.fields),
         n \in DOMAIN ByName(p.variants[v]), n \in DOMAIN ByName(p.variants[w])
  PROVE  ByName(p.variants[v])[n].length = ByName(p.variants[w])[n].length
<1>1. IsFields(p.variants[v]) /\ IsFields(p.variants[w]) /\ IsFields(p.fields)
  BY DEF IsVariants
<1>2. PICK f \in Range(p.variants[v]) : f.name = n /\ ByName(p.variants[v])[n] = Bytes(f)
  BY <1>1, Named
<1>3. PICK g \in Range(p.variants[w]) : g.name = n /\ ByName(p.variants[w])[n] = Bytes(g)
  BY <1>1, Named
<1>4. f \in VariantFields(p) /\ g \in VariantFields(p)
  BY DEF VariantFields
<1>5. g \in AllFields(p)
  <2>1. CommonNames(p) = DOMAIN ByName(p.fields)
    BY DEF CommonNames, Names, ByName, Range
  <2> QED
    BY <1>3, <1>4, <2>1 DEF AllFields, OtherFields
<1>6. f.width = g.width
  BY <1>2, <1>3, <1>4, <1>5 DEF MultipleWidths
<1> QED
  BY <1>2, <1>3, <1>6 DEF Bytes, width_bytes

(* The plan of an accepted discriminated protocol is one VariantPlan       *)
(* assumes.                                                                *)
LEMMA VariantsFit ==
  ASSUME NEW plan, NEW p, IsVariants(p), ValidDiscriminated(p), ~MultipleWidths(p), VariantsOf(plan, p)
  PROVE  Reader(plan)!VariantPlanAssumption
<1> DEFINE C == ByName(p.fields)
           V == plan.Variants
           L == plan.variant_length
           NamesOf == Reader(plan)!FieldNames
           At(n) == Reader(plan)!Locations(n)
<1>1. plan.CommonFields = C /\ plan.discriminator = p.discriminator.name /\ L = p.variant_length
  BY DEF VariantsOf
<1>2. /\ DOMAIN V = DOMAIN p.variants
      /\ \A v \in DOMAIN V : \A n \in DOMAIN V[v] :
           /\ n \in DOMAIN ByName(p.variants[v]) /\ n \notin DOMAIN C
           /\ V[v][n] = ByName(p.variants[v])[n]
  BY OwnPlaces
<1>3. /\ IsFiniteSet(DOMAIN V) /\ DOMAIN V # {} /\ DOMAIN L = DOMAIN V
  BY <1>1, <1>2 DEF IsVariants, ValidDiscriminated
<1>4. p.discriminator.name \in DOMAIN C
  <2>1. DOMAIN ByName(p.fields) = {f.name : f \in Range(p.fields)}
    BY Named DEF IsVariants
  <2> QED
    BY <2>1 DEF IsVariants
<1>5. \A v \in DOMAIN V : L[v] \in Nat \ {0}
  BY <1>1, <1>2, CommonPlaces
<1>6. \A v \in DOMAIN V : \A n \in DOMAIN C :
        C[n].offset \in Nat /\ C[n].length \in Nat \ {0} /\ C[n].offset + C[n].length <= L[v]
  BY <1>1, <1>2, CommonPlaces
<1>7. \A v \in DOMAIN V : \A n \in DOMAIN V[v] :
        V[v][n].offset \in Nat /\ V[v][n].length \in Nat \ {0} /\ V[v][n].offset + V[v][n].length <= L[v]
  BY <1>1, <1>2, CommonPlaces
<1>8. \A v, w \in DOMAIN V : \A n \in DOMAIN V[v] \cap DOMAIN V[w] : V[v][n].length = V[w][n].length
  <2>1. SUFFICES ASSUME NEW v \in DOMAIN V, NEW w \in DOMAIN V, NEW n \in DOMAIN V[v] \cap DOMAIN V[w]
                 PROVE  V[v][n].length = V[w][n].length
    BY Zenon
  <2>2. /\ v \in DOMAIN p.variants /\ w \in DOMAIN p.variants /\ n \notin DOMAIN ByName(p.fields)
        /\ n \in DOMAIN ByName(p.variants[v]) /\ n \in DOMAIN ByName(p.variants[w])
        /\ V[v][n] = ByName(p.variants[v])[n] /\ V[w][n] = ByName(p.variants[w])[n]
    BY <1>2
  <2>3. ByName(p.variants[v])[n].length = ByName(p.variants[w])[n].length
    BY <2>2, OneWidth
  <2> QED
    BY <2>2, <2>3
<1> HIDE DEF C, V, L
<1>9. Reader(plan)!max_length \in Nat \ {0}
  <2> DEFINE S == {L[k] : k \in DOMAIN L}
  <2>1. Reader(plan)!max_length = Max(S)
    BY DEF Reader!max_length, Max, Reader!Max, L
  <2>2. S # {} /\ S \in SUBSET (Nat \ {0}) /\ S \in SUBSET Int
    BY <1>3, <1>5
  <2>3. IsFiniteSet(S)
    <3>1. [k \in DOMAIN L |-> L[k]] \in Surjection(DOMAIN L, S)
      BY DEF Surjection
    <3> QED
      BY <1>3, <3>1, FS_Surjection
  <2> HIDE DEF S
  <2> QED
    BY <2>1, <2>2, <2>3, MaxIsGreatest
<1>10. /\ NamesOf = DOMAIN C \cup UNION {DOMAIN V[k] : k \in DOMAIN V}
       /\ \A n \in DOMAIN C : At(n) = {C[n]}
       /\ \A n : n \notin DOMAIN C => At(n) = {V[k][n] : k \in {j \in DOMAIN V : n \in DOMAIN V[j]}}
  BY <1>1 DEF Reader!FieldNames, Reader!Locations, Reader!VariantsWith, V
<1>11. ASSUME NEW n \in NamesOf, NEW at \in At(n)
       PROVE  /\ at.offset \in Nat /\ at.length \in Nat \ {0}
              /\ at.length = Reader(plan)!Size(n)
  <2>1. Reader(plan)!Size(n) = (CHOOSE x \in At(n) : TRUE).length
    BY DEF Reader!Size
  <2> HIDE DEF NamesOf, At
  <2>2. (CHOOSE x \in At(n) : TRUE) \in At(n)
    OBVIOUS
  <2>3. \A x \in At(n) : x.length = at.length /\ x.offset \in Nat /\ x.length \in Nat \ {0}
    <3>1. CASE n \in DOMAIN C
      BY <1>3, <1>6, <1>10, <3>1
    <3>2. CASE n \notin DOMAIN C
      BY <1>7, <1>8, <1>10, <3>2
    <3> QED
      BY <3>1, <3>2
  <2> QED
    BY <2>1, <2>2, <2>3
<1>12. \A k \in DOMAIN V : \A n \in Reader(plan)!MessageFields(k) :
         Reader(plan)!Ends(Reader(plan)!LocationIn(k, n)) <= L[k]
  BY <1>1, <1>6, <1>7 DEF Reader!MessageFields, Reader!Ends, Reader!LocationIn, V
<1>13. /\ plan.discriminator \in DOMAIN plan.CommonFields
       /\ IsFiniteSet(DOMAIN plan.Variants) /\ DOMAIN plan.Variants # {}
       /\ DOMAIN plan.variant_length = DOMAIN plan.Variants
       /\ \A k \in DOMAIN plan.Variants : plan.variant_length[k] \in Nat
  BY <1>1, <1>3, <1>4, <1>5 DEF V, L
<1>14. /\ \A k \in DOMAIN plan.Variants : \A n \in Reader(plan)!MessageFields(k) :
            Reader(plan)!Ends(Reader(plan)!LocationIn(k, n)) <= plan.variant_length[k]
       /\ \A n \in Reader(plan)!FieldNames : \A at \in Reader(plan)!Locations(n) :
            at.offset \in Nat /\ at.length \in Nat \ {0} /\ at.length = Reader(plan)!Size(n)
  BY <1>11, <1>12 DEF V, L
<1>15. Reader(plan)!IsFiniteSet(DOMAIN plan.Variants)
  BY <1>13 DEF IsFiniteSet, Reader!IsFiniteSet
<1> QED
  BY <1>9, <1>13, <1>14, <1>15, Zenon DEF Reader!VariantPlanAssumption

(* The same of discriminated plans. *)
LEMMA VariantPlans ==
  ASSUME NEW p, NEW kw, p.class = "Discriminated", generate(p, kw).ok
  PROVE  LET plan == generate(p, kw)
         IN  /\ VariantsOf(plan, p) /\ ~MultipleWidths(p)
             /\ "KEEP_WIDTH" \in DOMAIN plan /\ plan.KEEP_WIDTH = kw
             /\ Cardinality(field_beats(p.discriminator, kw)) = 1
             /\ plan.entries = beat_entries(p, kw)
<1> DEFINE base == discriminated_plan(p, kw)
           ports == [ports |-> Ports(base, FieldNames(p), << >>)]
           by == [ok           |-> TRUE,
                  KEEP_WIDTH   |-> kw,
                  entries      |-> beat_entries(p, kw),
                  config_ports |-> << >>,
                  counters     |-> <<"malformed_count">>,
                  keys         |-> {sv_int(p.discriminator.width, v) : v \in DOMAIN p.variants},
                  length_count_width |-> counter_width(Max(Range(p.variant_length)) + kw + 1)]
           rejected == \/ MultipleWidths(p)
                       \/ \E f \in AllFields(p) : field_beats_raises(f, kw)
                       \/ Cardinality(field_beats(p.discriminator, kw)) # 1
                       \/ \E v \in DOMAIN p.variants : v < 0
<1>1. generate(p, kw) = IF ~base.ok THEN NoPlan ELSE Extended(base, ports)
  BY DEF generate
<1>2. base = IF rejected THEN NoPlan ELSE Extended(variant_constants(p), by)
  BY Zenon DEF discriminated_plan
<1>3. DOMAIN ports = {"ports"} /\ by.KEEP_WIDTH = kw /\ by.entries = beat_entries(p, kw)
      /\ DOMAIN by = {"ok", "KEEP_WIDTH", "entries", "config_ports", "counters", "keys", "length_count_width"}
  <2> HIDE DEF base
  <2> QED
    OBVIOUS
<1>4. /\ ~rejected /\ base = Extended(variant_constants(p), by)
      /\ generate(p, kw) = Extended(base, ports)
  <2> HIDE DEF base, by, ports, rejected
  <2> QED
    BY <1>1, <1>2 DEF NoPlan
<1>5. ~MultipleWidths(p) /\ Cardinality(field_beats(p.discriminator, kw)) = 1
  BY <1>4
<1> HIDE DEF base, by, ports, rejected
<1>6. VariantsOf(base, p)
  BY <1>3, <1>4, VariantConstants, StillVariants
<1>7. VariantsOf(Extended(base, ports), p)
  BY <1>3, <1>6, StillVariants
<1>8. /\ "KEEP_WIDTH" \in DOMAIN base /\ base.KEEP_WIDTH = kw
      /\ "entries" \in DOMAIN base /\ base.entries = beat_entries(p, kw)
  <2>1. /\ DOMAIN Extended(variant_constants(p), by) = DOMAIN variant_constants(p) \cup DOMAIN by
        /\ \A key \in DOMAIN by : Extended(variant_constants(p), by)[key] = by[key]
    BY BothRecords
  <2> QED
    BY <1>3, <1>4, <2>1
<1>9. /\ DOMAIN Extended(base, ports) = DOMAIN base \cup DOMAIN ports
      /\ \A key \in DOMAIN base \ DOMAIN ports : Extended(base, ports)[key] = base[key]
  BY BothRecords
<1> QED
  BY <1>3, <1>4, <1>5, <1>7, <1>8, <1>9

(* A field with one fragment lies in one beat. *)
LEMMA OneBeat ==
  ASSUME NEW f, NEW kw \in Nat \ {0}, f.offset \in Nat, width_bytes(f) \in Nat \ {0},
         end_offset(f) = f.offset + width_bytes(f),
         Cardinality(field_beats(f, kw)) = 1
  PROVE  (f.offset + width_bytes(f) - 1) \div kw = f.offset \div kw
<1> DEFINE first == f.offset \div kw
           final == (end_offset(f) - 1) \div kw
           fragment(b) == [beat |-> b,
                           byte_lo     |-> lane(kw, Max({f.offset, b * kw})),
                           byte_hi     |-> lane(kw, Min({end_offset(f), (b + 1) * kw}) - 1),
                           field_shift |-> f.width - 8 * (Max({f.offset, b * kw}) - f.offset) - 8,
                           is_first    |-> b = beat(kw, f.offset),
                           is_last     |-> b = beat(kw, end_offset(f) - 1)]
           all == [b \in first .. final |-> fragment(b)]
           set == field_beats(f, kw)
<1>1. first \in Int /\ final \in Int /\ first <= final
  <2>1. \A x, y \in Nat : x <= y => x \div kw \in Int /\ y \div kw \in Int /\ x \div kw <= y \div kw
    BY Z3
  <2>2. f.offset <= end_offset(f) - 1 /\ end_offset(f) - 1 \in Nat
    OBVIOUS
  <2> QED
    BY <2>1, <2>2
<1>2. set = {fragment(b) : b \in first .. final}
  BY DEF field_beats, beat
<1>3. \A b : fragment(b).beat = b
  OBVIOUS
<1> HIDE DEF fragment, first, final
<1>4. IsFiniteSet(set)
  <2>1. all \in Surjection(first .. final, set)
    BY <1>2 DEF Surjection
  <2> QED
    BY <1>1, <2>1, FS_Interval, FS_Surjection
<1>5. Cardinality(set) = 1
  BY DEF Cardinality, Cardinality, IsFiniteSet, IsFiniteSet
<1>6. PICK x : set = {x}
  BY <1>4, <1>5, FS_Singleton
<1>7. fragment(first) = fragment(final)
  <2>1. first \in first .. final /\ final \in first .. final
    BY <1>1
  <2>2. fragment(first) \in set /\ fragment(final) \in set
    BY <1>2, <2>1
  <2> HIDE DEF set
  <2> QED
    BY <1>6, <2>2
<1>8. first = final
  BY <1>3, <1>7
<1> QED
  BY <1>8 DEF first, final

------------------------------------------------------------------------------
(* One field is a sequence of fields. *)
LEMMA One ==
  ASSUME NEW f, f.offset \in Int, f.width \in Int
  PROVE  IsFields(<<f>>) /\ Range(<<f>>) = {f}
  BY DEF IsFields, Range

(* A length that is not declared is computed. *)
LEMMA Lengths ==
  ASSUME NEW d, "fields" \in DOMAIN d, IsFields(d.fields), DeclaredLength(d)
  PROVE  LET p == WithLength(d)
         IN  /\ DOMAIN p = DOMAIN d \cup {"total_length"}
             /\ p.total_length \in Int
             /\ \A key \in DOMAIN d \ {"total_length"} : p[key] = d[key]
<1> DEFINE by == [total_length |-> Get(d, "total_length", required_length(d.fields))]
<1>1. WithLength(d) = Extended(d, by)
  BY DEF WithLength
<1>2. DOMAIN by = {"total_length"} /\ by.total_length \in Int
  BY Required DEF Get, Has, DeclaredLength
<1> HIDE DEF by
<1>3. /\ DOMAIN Extended(d, by) = DOMAIN d \cup DOMAIN by
      /\ \A key \in DOMAIN by : Extended(d, by)[key] = by[key]
      /\ \A key \in DOMAIN d \ DOMAIN by : Extended(d, by)[key] = d[key]
  BY BothRecords
<1> QED
  BY <1>1, <1>2, <1>3

(* A discriminated definition, completed. *)
LEMMA WithVariantsIs ==
  ASSUME NEW d, DeclaredVariants(d)
  PROVE  LET p == WithVariants(d)
         IN  /\ IsVariants(p) /\ p.discriminator = d.discriminator
             /\ \A key \in DOMAIN d \ {"fields", "variant_length", "forward"} : p[key] = d[key]
<1> DEFINE by == [fields |-> DiscriminatedFields(d), variant_length |-> DiscriminatedLengths(d),
                  forward |-> Get(d, "forward", TRUE)]
           p == Extended(d, by)
<1>1. WithVariants(d) = p
  BY DEF WithVariants
<1>2. DOMAIN by = {"fields", "variant_length", "forward"} /\ by.fields = DiscriminatedFields(d)
      /\ by.variant_length = DiscriminatedLengths(d)
  OBVIOUS
<1>3. IsFields(DiscriminatedFields(d)) /\ d.discriminator \in Range(DiscriminatedFields(d))
  <2>1. CASE d.discriminator \in Range(d.fields)
    BY <2>1 DEF DeclaredVariants, DiscriminatedFields
  <2>2. CASE d.discriminator \notin Range(d.fields)
    <3>1. IsFields(<<d.discriminator>>) /\ Range(<<d.discriminator>>) = {d.discriminator}
      BY One DEF DeclaredVariants
    <3>2. IsFields(d.fields)
      BY DEF DeclaredVariants
    <3>3. /\ IsFields(<<d.discriminator>> \o d.fields)
          /\ Range(<<d.discriminator>> \o d.fields) = {d.discriminator} \cup Range(d.fields)
      BY <3>1, <3>2, Joined
    <3> QED
      BY <2>2, <3>3 DEF DiscriminatedFields
  <2> QED
    BY <2>1, <2>2
<1>4. \A v \in DOMAIN d.variants : DiscriminatedLengths(d)[v] \in Int
  <2>1. \A v \in DOMAIN d.variants : required_length(d.variants[v]) \in Int
    BY Required DEF DeclaredVariants
  <2> QED
    BY <2>1 DEF DeclaredVariants, DiscriminatedLengths, Has
<1> HIDE DEF by
<1>5. /\ DOMAIN p = DOMAIN d \cup DOMAIN by
      /\ \A key \in DOMAIN by : p[key] = by[key]
      /\ \A key \in DOMAIN d \ DOMAIN by : p[key] = d[key]
  BY BothRecords
<1> HIDE DEF p
<1>6. /\ p.fields = DiscriminatedFields(d) /\ p.variant_length = DiscriminatedLengths(d)
      /\ p.discriminator = d.discriminator /\ p.variants = d.variants
  BY <1>2, <1>5 DEF DeclaredVariants
<1>7. IsVariants(p)
  BY <1>3, <1>4, <1>6 DEF IsVariants, DeclaredVariants
<1> QED
  BY <1>1, <1>2, <1>5, <1>6, <1>7

(* A completed sub-protocol. *)
IsSub(sub) ==
  /\ IsFields(sub.fields) /\ sub.total_length \in Int
  /\ \/ sub.class = "LengthPrefixed"
     \/ /\ sub.class = "LengthPrefixedSub"
        /\ sub.fields = <<sub.length_field>> /\ sub.total_length = end_offset(sub.length_field)
        /\ IsVariants(sub.discriminated)

(* What the constructors make of a declared one. *)
LEMMA Subs ==
  ASSUME NEW d, DeclaredSub(d)
  PROVE  IsSub(SubProtocol(d))
<1>1. CASE d.class = "LengthPrefixed"
  <2>1. IsFields(d.fields) /\ DeclaredLength(d) /\ {"class", "fields"} \subseteq DOMAIN d
    BY <1>1 DEF DeclaredSub
  <2>2. SubProtocol(d) = WithLength(d)
    BY <1>1 DEF SubProtocol
  <2>3. /\ WithLength(d).total_length \in Int
        /\ \A key \in DOMAIN d \ {"total_length"} : WithLength(d)[key] = d[key]
    BY <2>1, Lengths
  <2> QED
    BY <1>1, <2>1, <2>2, <2>3 DEF IsSub
<1>2. CASE d.class = "LengthPrefixedSub"
  <2> DEFINE by == [total_length |-> end_offset(d.length_field), fields |-> <<d.length_field>>,
                    discriminated |-> WithVariants(d.discriminated)]
             sub == Extended(d, by)
  <2>1. /\ {"class", "length_field", "discriminated"} \subseteq DOMAIN d
        /\ d.length_field.offset \in Int /\ d.length_field.width \in Int /\ DeclaredVariants(d.discriminated)
    BY <1>2 DEF DeclaredSub
  <2>2. SubProtocol(d) = sub
    BY <1>2 DEF SubProtocol
  <2>3. /\ DOMAIN by = {"total_length", "fields", "discriminated"}
        /\ by.total_length = end_offset(d.length_field) /\ by.fields = <<d.length_field>>
        /\ by.discriminated = WithVariants(d.discriminated)
    OBVIOUS
  <2>4. end_offset(d.length_field) \in Int
    <3>1. \A w \in Int : (w + 7) \div 8 \in Int
      BY Z3
    <3> QED
      BY <2>1, <3>1 DEF end_offset, width_bytes
  <2> HIDE DEF by
  <2>5. /\ DOMAIN sub = DOMAIN d \cup DOMAIN by
        /\ \A key \in DOMAIN by : sub[key] = by[key]
        /\ \A key \in DOMAIN d \ DOMAIN by : sub[key] = d[key]
    BY BothRecords
  <2> HIDE DEF sub
  <2>6. /\ sub.class = "LengthPrefixedSub" /\ sub.length_field = d.length_field
        /\ sub.total_length = end_offset(d.length_field) /\ sub.fields = <<d.length_field>>
        /\ sub.discriminated = WithVariants(d.discriminated)
    BY <1>2, <2>1, <2>3, <2>5
  <2>7. IsVariants(WithVariants(d.discriminated))
    BY <2>1, WithVariantsIs
  <2>8. IsFields(<<d.length_field>>)
    BY <2>1, One
  <2> QED
    BY <2>2, <2>4, <2>6, <2>7, <2>8 DEF IsSub
<1> QED
  BY <1>1, <1>2 DEF DeclaredSub

(* No common field is added but the discriminator. *)
LEMMA CommonRange ==
  ASSUME NEW d, DeclaredVariants(d)
  PROVE  Range(WithVariants(d).fields) \subseteq Range(d.fields) \cup {d.discriminator}
<1> DEFINE by == [fields |-> DiscriminatedFields(d), variant_length |-> DiscriminatedLengths(d),
                  forward |-> Get(d, "forward", TRUE)]
<1>1. WithVariants(d) = Extended(d, by)
  BY DEF WithVariants
<1>2. "fields" \in DOMAIN by /\ by.fields = DiscriminatedFields(d)
  OBVIOUS
<1> HIDE DEF by
<1>3. \A key \in DOMAIN by : Extended(d, by)[key] = by[key]
  BY BothRecords
<1>4. WithVariants(d).fields = DiscriminatedFields(d)
  BY <1>1, <1>2, <1>3
<1>5. CASE d.discriminator \in Range(d.fields)
  BY <1>4, <1>5 DEF DiscriminatedFields
<1>6. CASE d.discriminator \notin Range(d.fields)
  <2>1. IsFields(<<d.discriminator>>) /\ Range(<<d.discriminator>>) = {d.discriminator}
    BY One DEF DeclaredVariants
  <2>2. IsFields(d.fields)
    BY DEF DeclaredVariants
  <2>3. Range(<<d.discriminator>> \o d.fields) = {d.discriminator} \cup Range(d.fields)
    BY <2>1, <2>2, Joined
  <2> QED
    BY <1>4, <1>6, <2>3 DEF DiscriminatedFields
<1> QED
  BY <1>5, <1>6

(* A sub-protocol keeps its class. *)
LEMMA SubClass ==
  ASSUME NEW d, DeclaredSub(d), d.class = "LengthPrefixedSub"
  PROVE  SubProtocol(d).class = "LengthPrefixedSub"
<1> DEFINE by == [total_length |-> end_offset(d.length_field), fields |-> <<d.length_field>>,
                  discriminated |-> WithVariants(d.discriminated)]
<1>1. SubProtocol(d) = Extended(d, by)
  BY DEF SubProtocol
<1>2. "class" \in DOMAIN d /\ "class" \notin DOMAIN by
  BY DEF DeclaredSub
<1> HIDE DEF by
<1>3. \A key \in DOMAIN d \ DOMAIN by : Extended(d, by)[key] = d[key]
  BY BothRecords
<1> QED
  BY <1>1, <1>2, <1>3

(* A definition of messages, completed. *)
LEMMA MultiIs ==
  ASSUME NEW d, DeclaredMulti(d)
  PROVE  LET p == Constructed(d)
         IN  /\ p.class = "Multi" /\ IsFields(p.fields) /\ p.total_length \in Int
             /\ p.sub_protocol = SubProtocol(d.sub_protocol)
             /\ IsSub(p.sub_protocol)
<1> DEFINE base == WithLength(d)
           by == [sub_protocol |-> SubProtocol(d.sub_protocol)]
           p == Extended(base, by)
<1>1. Constructed(d) = p
  BY DEF Constructed, DeclaredMulti
<1>2. /\ DOMAIN base = DOMAIN d \cup {"total_length"} /\ base.total_length \in Int
      /\ \A key \in DOMAIN d \ {"total_length"} : base[key] = d[key]
  BY Lengths DEF DeclaredMulti
<1>3. DOMAIN by = {"sub_protocol"} /\ by.sub_protocol = SubProtocol(d.sub_protocol)
  OBVIOUS
<1> HIDE DEF base, by
<1>4. /\ DOMAIN p = DOMAIN base \cup DOMAIN by
      /\ \A key \in DOMAIN by : p[key] = by[key]
      /\ \A key \in DOMAIN base \ DOMAIN by : p[key] = base[key]
  BY BothRecords
<1> HIDE DEF p
<1>5. p.class = d.class /\ p.fields = d.fields /\ p.total_length \in Int
      /\ p.sub_protocol = SubProtocol(d.sub_protocol)
  BY <1>2, <1>3, <1>4 DEF DeclaredMulti
<1>6. IsSub(SubProtocol(d.sub_protocol))
  BY Subs DEF DeclaredMulti
<1> QED
  BY <1>1, <1>5, <1>6 DEF DeclaredMulti


(* A header's plan: its fields' bytes lie within it. *)
LEMMA HeaderFits ==
  ASSUME NEW fields, IsFields(fields), fields # << >>, \A u \in DOMAIN fields : ValidField(fields[u]),
         NEW total \in Int, total >= required_length(fields)
  PROVE  LET place == ByName(fields)
             bytes == UNION {place[n].offset .. place[n].offset + place[n].length - 1 : n \in DOMAIN place}
         IN  /\ total \in Nat \ {0} /\ bytes # {} /\ bytes \subseteq 0 .. total - 1
             /\ \A n \in DOMAIN place : place[n].offset \in Nat /\ place[n].length \in Nat \ {0}
<1> DEFINE place == ByName(fields)
           bytes == UNION {place[n].offset .. place[n].offset + place[n].length - 1 : n \in DOMAIN place}
<1>1. \A f \in Range(fields) : ValidField(f)
  BY DEF Range
<1>2. /\ \A n \in DOMAIN place : /\ place[n].offset \in Nat /\ place[n].length \in Nat \ {0}
                                 /\ place[n].offset + place[n].length <= total
      /\ DOMAIN place # {}
  BY <1>1, FieldsFit
<1> HIDE DEF place
<1>3. PICK m \in DOMAIN place : place[m].offset \in place[m].offset .. place[m].offset + place[m].length - 1
  BY <1>2
<1>4. total \in Nat \ {0}
  BY <1>2, <1>3
<1>5. bytes # {}
  BY <1>3
<1>6. \A n \in DOMAIN place : place[n].offset .. place[n].offset + place[n].length - 1 \subseteq 0 .. total - 1
  BY <1>2, <1>4
<1>7. bytes \subseteq 0 .. total - 1
  BY <1>6
<1> QED
  BY <1>2, <1>4, <1>5, <1>7 DEF place

(* The plan of every sideband definition the constructors and the          *)
(* generator accept meets what GenerationPlan assumes of the header: it    *)
(* has bytes and they lie within TOTAL_LENGTH.                             *)
THEOREM FilterPlansFit ==
  ASSUME NEW d, DeclaredFixed(d), d.class = "Sideband", NEW kw, Accepted(Constructed(d)),
         generate(Constructed(d), kw).ok
  PROVE  LET plan == generate(Constructed(d), kw)
         IN  /\ plan.TOTAL_LENGTH \in Nat \ {0}
             /\ Gen(plan)!HeaderBytes # {} /\ Gen(plan)!HeaderBytes \subseteq 0 .. plan.TOTAL_LENGTH - 1
<1> DEFINE p == Constructed(d)
           plan == generate(p, kw)
           base == build_plan(p.fields, p.total_length, kw)
           by == [ports |-> Ports(base, Names(p.fields), << >>)]
           F == ByName(p.fields)
<1>1. p.class = "Sideband" /\ IsFields(p.fields) /\ p.total_length \in Int
  <2>1. Constructed(d) = WithLength(d)
    BY DEF Constructed, DeclaredFixed
  <2>2. /\ WithLength(d).total_length \in Int
        /\ \A key \in DOMAIN d \ {"total_length"} : WithLength(d)[key] = d[key]
    BY Lengths DEF DeclaredFixed
  <2> QED
    BY <2>1, <2>2 DEF DeclaredFixed
<1> HIDE DEF p
<1>2. ValidFixed(p) /\ plan.ok
  BY <1>1 DEF Accepted, p
<1>3. plan = IF ~base.ok THEN NoPlan ELSE Extended(base, by)
  BY <1>1 DEF generate, sideband_plan
<1>4. DOMAIN by = {"ports"}
  OBVIOUS
<1> HIDE DEF plan, base, by
<1>5. base.ok /\ plan = Extended(base, by)
  BY <1>2, <1>3 DEF NoPlan
<1>6. /\ {"TOTAL_LENGTH", "Fields"} \subseteq DOMAIN base /\ base.TOTAL_LENGTH = p.total_length /\ base.Fields = F
      /\ p.fields # << >>
  BY <1>5, HeaderPlan DEF base
<1>7. /\ DOMAIN Extended(base, by) = DOMAIN base \cup DOMAIN by
      /\ \A key \in DOMAIN base \ DOMAIN by : Extended(base, by)[key] = base[key]
  BY BothRecords
<1>8. plan.TOTAL_LENGTH = p.total_length /\ plan.Fields = F
  BY <1>4, <1>5, <1>6, <1>7
<1> DEFINE bytes == UNION {F[n].offset .. F[n].offset + F[n].length - 1 : n \in DOMAIN F}
<1>9. p.total_length \in Nat \ {0} /\ bytes # {} /\ bytes \subseteq 0 .. p.total_length - 1
  BY <1>1, <1>2, <1>6, HeaderFits DEF ValidFixed
<1>10. Gen(plan)!HeaderBytes = bytes
  BY <1>8 DEF Gen!HeaderBytes, Gen!FieldBytes
<1> HIDE DEF bytes
<1> QED
  BY <1>8, <1>9, <1>10 DEF plan, p

(* The plan of every multi-message definition they accept, whichever its   *)
(* sub-protocol, meets all that GenerationPlan and MessagePlan assume: the *)
(* fields of the header lie within it and those of a sub-header within     *)
(* SUB_HEADER_BYTES, which are some, the count and the length are fields.  *)
THEOREM SplitterPlansFit ==
  ASSUME NEW d, DeclaredMulti(d), NEW kw, Accepted(Constructed(d)),
         generate(Constructed(d), kw).ok
  PROVE  LET plan == generate(Constructed(d), kw)
         IN  Splitter(plan)!PlanAssumption /\ Splitter(plan)!MessagePlanAssumption
<1> DEFINE p == Constructed(d)
           sub == p.sub_protocol
           plan == generate(p, kw)
           F == ByName(p.fields)
           S == ByName(sub.fields)
           total == p.total_length
<1>1. p.class = "Multi" /\ IsFields(p.fields) /\ total \in Int /\ IsSub(sub)
  BY MultiIs
<1> HIDE DEF p
<1>2. ValidMulti(p) /\ plan.ok
  BY <1>1 DEF Accepted, p
<1>3. /\ OuterOf(plan, p, kw)
      /\ sub.class = "LengthPrefixed" => ~(sub.total_length <= 0)
  BY <1>1, <1>2, MessagePlans
<1>4. /\ plan.TOTAL_LENGTH = total /\ plan.Fields = F /\ plan.RouteConditions = << >> /\ plan.DEFAULT_TDEST = 0
      /\ plan.message_count_field = p.message_count_field /\ plan.SUB_HEADER_BYTES = sub.total_length
      /\ plan.SubFields = S /\ plan.length_field = sub.length_field.name /\ p.fields # << >>
  BY <1>3 DEF OuterOf
<1> HIDE DEF plan
<1>5. /\ \A u \in DOMAIN p.fields : ValidField(p.fields[u])
      /\ total >= required_length(p.fields)
      /\ \E u \in DOMAIN p.fields : p.fields[u].name = p.message_count_field
      /\ ValidSubProtocol(sub)
  BY <1>2 DEF ValidMulti, ValidFixed
<1> DEFINE bytes == UNION {F[n].offset .. F[n].offset + F[n].length - 1 : n \in DOMAIN F}
           subs  == UNION {S[n].offset .. S[n].offset + S[n].length - 1 : n \in DOMAIN S}
<1>6. /\ total \in Nat \ {0} /\ bytes # {} /\ bytes \subseteq 0 .. total - 1
      /\ \A n \in DOMAIN F : F[n].offset \in Nat /\ F[n].length \in Nat \ {0}
  BY <1>1, <1>4, <1>5, HeaderFits
<1>7. /\ sub.fields # << >> /\ \A u \in DOMAIN sub.fields : ValidField(sub.fields[u])
      /\ sub.total_length >= required_length(sub.fields)
      /\ sub.length_field \in Range(sub.fields)
  <2>1. CASE sub.class = "LengthPrefixed"
    <3>1. ValidLengthPrefixed(sub)
      BY <1>5, <2>1 DEF ValidSubProtocol
    <3>2. sub.fields # << >>
      BY <3>1 DEF ValidLengthPrefixed, Range
    <3> QED
      BY <3>1, <3>2 DEF ValidLengthPrefixed, ValidFixed
  <2>2. CASE sub.class = "LengthPrefixedSub"
    <3>1. ValidField(sub.length_field) /\ sub.fields = <<sub.length_field>>
          /\ sub.total_length = end_offset(sub.length_field)
      BY <1>1, <1>5, <2>2 DEF ValidSubProtocol, IsSub
    <3>2. IsFields(sub.fields) /\ sub.total_length \in Int
      BY <1>1 DEF IsSub
    <3> DEFINE f == sub.length_field
    <3>3. required_length(<<f>>) = Max({0} \cup {end_offset(f)})
      BY DEF required_length
    <3>4. end_offset(f) \in Nat
      <4>1. f.offset \in Int /\ f.width \in Int
        <5>1. f \in Range(sub.fields)
          BY <3>1 DEF Range
        <5> QED
          BY <3>2, <5>1 DEF IsFields
      <4>2. f.offset \in Nat /\ width_bytes(f) \in Nat \ {0} /\ end_offset(f) = f.offset + width_bytes(f)
        BY <3>1, <4>1, FieldPlace
      <4> QED
        BY <4>2
    <3>5. required_length(<<f>>) <= end_offset(f)
      <4> DEFINE T == {0} \cup {end_offset(f)}
      <4>1. T = {end_offset(f)} \cup {0}
        OBVIOUS
      <4>2. IsFiniteSet(T)
        BY <4>1, FS_Singleton, FS_AddElement
      <4>3. T \in SUBSET Int /\ T # {}
        BY <3>4
      <4>4. \A x \in T : x <= end_offset(f)
        BY <3>4
      <4> HIDE DEF T
      <4>5. Max(T) \in T
        BY <4>2, <4>3, MaxIsGreatest
      <4> QED
        BY <3>3, <4>4, <4>5 DEF T
    <3>6. sub.length_field \in Range(sub.fields) /\ sub.fields # << >>
          /\ \A u \in DOMAIN sub.fields : sub.fields[u] = sub.length_field
      BY <3>1 DEF Range
    <3> QED
      BY <3>1, <3>2, <3>4, <3>5, <3>6
  <2> QED
    BY <1>1, <2>1, <2>2 DEF IsSub
<1>8. IsFields(sub.fields) /\ sub.total_length \in Int
  BY <1>1 DEF IsSub
<1>9. /\ sub.total_length \in Nat \ {0} /\ subs \subseteq 0 .. sub.total_length - 1
      /\ \A n \in DOMAIN S : S[n].offset \in Nat /\ S[n].length \in Nat \ {0}
  BY <1>7, <1>8, HeaderFits
<1>10. DOMAIN F = {f.name : f \in Range(p.fields)} /\ DOMAIN S = {f.name : f \in Range(sub.fields)}
  BY <1>1, <1>8, Named
<1>11. p.message_count_field \in DOMAIN F /\ sub.length_field.name \in DOMAIN S
  <2>1. \E f \in Range(p.fields) : f.name = p.message_count_field
    BY <1>5 DEF Range
  <2> QED
    BY <1>7, <1>10, <2>1
<1>12. Splitter(plan)!HeaderBytes = bytes /\ Splitter(plan)!SubBytes = subs
  BY <1>4 DEF Splitter!HeaderBytes, Splitter!FieldBytes, Splitter!SubBytes
<1> HIDE DEF F, S, bytes, subs, total, sub
<1>13. Splitter(plan)!PlanAssumption
  BY <1>4, <1>6, <1>12 DEF Splitter!PlanAssumption
<1>14. Splitter(plan)!MessagePlanAssumption
  BY <1>4, <1>6, <1>9, <1>11, <1>12 DEF Splitter!MessagePlanAssumption, Splitter!SubOffsets
<1> QED
  BY <1>13, <1>14 DEF plan, p

(* And where the messages are discriminated it meets what VariantPlan      *)
(* assumes: a message has the bytes of all its fields, and a name has one  *)
(* width in all the variants.                                              *)
THEOREM ReaderPlansFit ==
  ASSUME NEW d, DeclaredMulti(d), d.sub_protocol.class # "LengthPrefixed", NEW kw,
         Accepted(Constructed(d)), generate(Constructed(d), kw).ok
  PROVE  Reader(generate(Constructed(d), kw))!VariantPlanAssumption
<1> DEFINE p == Constructed(d)
           inner == p.sub_protocol.discriminated
           plan == generate(p, kw)
<1>1. p.class = "Multi" /\ IsSub(p.sub_protocol) /\ p.sub_protocol = SubProtocol(d.sub_protocol)
  BY MultiIs
<1>2. p.sub_protocol.class = "LengthPrefixedSub"
  <2>1. d.sub_protocol.class = "LengthPrefixedSub" /\ DeclaredSub(d.sub_protocol)
    BY DEF DeclaredMulti, DeclaredSub
  <2>2. SubProtocol(d.sub_protocol).class = "LengthPrefixedSub"
    BY <2>1, SubClass
  <2> QED
    BY <1>1, <2>2
<1> HIDE DEF p
<1>3. ValidMulti(p) /\ plan.ok
  BY <1>1 DEF Accepted, p
<1>4. IsVariants(inner) /\ ValidDiscriminated(inner)
  BY <1>1, <1>2, <1>3 DEF IsSub, ValidMulti, ValidSubProtocol
<1>5. VariantsOf(plan, inner) /\ ~MultipleWidths(inner)
  BY <1>1, <1>2, <1>3, MessagePlans
<1> HIDE DEF plan, inner
<1>6. Reader(plan)!VariantPlanAssumption
  BY <1>4, <1>5, VariantsFit
<1> QED
  BY <1>6 DEF plan, p

(* The plan of every discriminated definition they accept meets what       *)
(* VariantPlan assumes, and the first of what VariantBeats assumes, that   *)
(* the discriminator lies in one beat: if no other of the common fields    *)
(* has its name, for plans know fields by their names.                     *)
THEOREM DiscriminatedPlansFit ==
  ASSUME NEW d, DeclaredDiscriminated(d), NEW kw \in Nat \ {0}, Accepted(Constructed(d)),
         generate(Constructed(d), kw).ok,
         \A f \in Range(d.fields) : f.name = d.discriminator.name => f = d.discriminator
  PROVE  LET plan == generate(Constructed(d), kw)
         IN  /\ Reader(plan)!VariantPlanAssumption
             /\ Reader(plan)!beat_of(Reader(plan)!Ends(plan.CommonFields[plan.discriminator]) - 1)
                  = Reader(plan)!discriminator_beat
<1> DEFINE p == Constructed(d)
           plan == generate(p, kw)
           f == p.discriminator
<1>1. Constructed(d) = WithVariants(d)
  BY DEF Constructed, DeclaredDiscriminated
<1>2. DeclaredVariants(d) /\ "class" \in DOMAIN d /\ d.class = "Discriminated"
  BY DEF DeclaredDiscriminated
<1>3. IsVariants(p) /\ p.class = "Discriminated" /\ f = d.discriminator
  BY <1>1, <1>2, WithVariantsIs
<1>4. \A g \in Range(p.fields) : g.name = f.name => g = f
  <2>1. Range(p.fields) \subseteq Range(d.fields) \cup {d.discriminator}
    BY <1>1, <1>2, CommonRange
  <2> QED
    BY <1>3, <2>1
<1> HIDE DEF p
<1>5. ValidDiscriminated(p) /\ plan.ok
  BY <1>3 DEF Accepted, p
<1>6. /\ VariantsOf(plan, p) /\ ~MultipleWidths(p) /\ plan.KEEP_WIDTH = kw
      /\ Cardinality(field_beats(f, kw)) = 1
  BY <1>3, <1>5, VariantPlans
<1> HIDE DEF plan, f
<1>7. Reader(plan)!VariantPlanAssumption
  BY <1>3, <1>5, <1>6, VariantsFit
<1>8. plan.CommonFields[plan.discriminator] = Bytes(f)
  <2>1. plan.CommonFields = ByName(p.fields) /\ plan.discriminator = f.name
    BY <1>6 DEF VariantsOf, f
  <2>2. IsFields(p.fields) /\ f \in Range(p.fields)
    BY <1>3 DEF IsVariants, f
  <2>3. /\ DOMAIN ByName(p.fields) = {g.name : g \in Range(p.fields)}
        /\ \A n \in DOMAIN ByName(p.fields) : \E g \in Range(p.fields) :
             g.name = n /\ ByName(p.fields)[n] = Bytes(g)
    BY <2>2, Named
  <2>4. PICK g \in Range(p.fields) : g.name = f.name /\ ByName(p.fields)[f.name] = Bytes(g)
    BY <2>2, <2>3
  <2> QED
    BY <1>4, <2>1, <2>4
<1>9. /\ f.offset \in Nat /\ width_bytes(f) \in Nat \ {0}
      /\ end_offset(f) = f.offset + width_bytes(f)
  <2>1. f \in Range(p.fields) /\ IsFields(p.fields)
    BY <1>3 DEF IsVariants, f
  <2>2. ValidField(f) /\ f.offset \in Int /\ f.width \in Int
    BY <1>5, <2>1, Indices DEF ValidDiscriminated, IsFields
  <2> QED
    BY <2>2, FieldPlace
<1>10. (f.offset + width_bytes(f) - 1) \div kw = f.offset \div kw
  BY <1>6, <1>9, OneBeat
<1>11. Bytes(f).offset = f.offset /\ Bytes(f).length = width_bytes(f)
  BY DEF Bytes
<1>12. Reader(plan)!beat_of(Reader(plan)!Ends(plan.CommonFields[plan.discriminator]) - 1)
         = Reader(plan)!discriminator_beat
  <2> DEFINE at == plan.CommonFields[plan.discriminator]
  <2>1. at.offset = f.offset /\ at.length = width_bytes(f) /\ plan.KEEP_WIDTH = kw
    BY <1>6, <1>8, <1>11
  <2> HIDE DEF at
  <2>2. ((at.offset + at.length) - 1) \div plan.KEEP_WIDTH = at.offset \div plan.KEEP_WIDTH
    BY <1>9, <1>10, <2>1
  <2>3. Reader(plan)!beat_of(Reader(plan)!Ends(at) - 1) = ((at.offset + at.length) - 1) \div plan.KEEP_WIDTH
    BY DEF Reader!beat_of, Reader!Ends
  <2>4. Reader(plan)!discriminator_beat = at.offset \div plan.KEEP_WIDTH
    BY DEF Reader!discriminator_beat, Reader!beat_of, at
  <2>5. Reader(plan)!beat_of(Reader(plan)!Ends(at) - 1) = Reader(plan)!discriminator_beat
    BY <2>2, <2>3, <2>4, Zenon
  <2> QED
    BY <2>5 DEF at
<1> QED
  BY <1>7, <1>12 DEF plan, p
------------------------------------------------------------------------------
(***************************************************************************)
(* The entries of a plan: which bytes of a message they capture, for a     *)
(* value of the discriminator.                                             *)
(***************************************************************************)
BytesOf(f)           == {f.offset + u : u \in 0 .. width_bytes(f) - 1}
Sliced(plan, slices) == {SliceByte(plan, s) : s \in slices}
Collected(plan, n, k) ==
  {SliceByte(plan, e.slice) : e \in {x \in plan.entries : x.register = n /\ (x.always \/ k \in x.keys)}}

(* The slices of a field on the beats are its bytes, one each. *)
LEMMA BeatBytes ==
  ASSUME NEW f, f.offset \in Nat, NEW kw \in Nat \ {0}, NEW plan, plan.KEEP_WIDTH = kw
  PROVE  Sliced(plan, byte_slices(f, kw)) = BytesOf(f)
<1> DEFINE slice(u) == [beat     |-> beat(kw, f.offset + u),
                        bit_lo   |-> LaneBit(kw, f.offset + u),
                        bit_hi   |-> LaneBit(kw, f.offset + u) + BitsOfByte(f, u) - 1,
                        field_hi |-> field_hi(f, u), field_lo |-> field_lo(f, u)]
           U == 0 .. width_bytes(f) - 1
<1>1. byte_slices(f, kw) = {slice(u) : u \in U}
  BY DEF byte_slices
<1>2. ASSUME NEW u \in U PROVE SliceByte(plan, slice(u)) = f.offset + u
  <2>1. u \in Nat
    <3>1. width_bytes(f) \in Int \/ width_bytes(f) \notin Int
      OBVIOUS
    <3> QED
      BY <1>2
  <2> DEFINE q == f.offset + u
  <2>2. q \in Nat
    BY <2>1
  <2>3. SliceByte(plan, slice(u)) = beat(kw, q) * kw + LaneBit(kw, q) \div 8
    BY DEF SliceByte, Has
  <2> HIDE DEF q
  <2>4. LaneBit(kw, q) \in Int
    BY <2>2 DEF LaneBit, lane
  <2>5. 0 \in 0 .. 7 /\ LaneBit(kw, q) + 0 = LaneBit(kw, q)
    BY <2>4
  <2>6. beat(kw, q) * kw + (LaneBit(kw, q) + 0) \div 8 = q
    BY <2>2, <2>5, SliceBit
  <2> QED
    BY <2>3, <2>5, <2>6 DEF q
<1> HIDE DEF slice, U
<1>3. {SliceByte(plan, s) : s \in {slice(u) : u \in U}} = {f.offset + u : u \in U}
  BY <1>2
<1> QED
  BY <1>1, <1>3 DEF U, Sliced, BytesOf

(* So are those of the byte-wise parsers. *)
LEMMA MessageBytes ==
  ASSUME NEW f, NEW plan
  PROVE  Sliced(plan, field_byte_slices(f)) = BytesOf(f)
<1> DEFINE slice(u) == [header_byte |-> f.offset + u, source_hi |-> BitsOfByte(f, u) - 1,
                        field_hi |-> field_hi(f, u), field_lo |-> field_lo(f, u)]
           U == 0 .. width_bytes(f) - 1
<1>1. field_byte_slices(f) = {slice(u) : u \in U}
  BY DEF field_byte_slices
<1>2. \A u : SliceByte(plan, slice(u)) = f.offset + u
  BY DEF SliceByte, Has
<1> HIDE DEF slice, U
<1>3. {SliceByte(plan, s) : s \in {slice(u) : u \in U}} = {f.offset + u : u \in U}
  BY <1>2
<1> QED
  BY <1>1, <1>3 DEF U, Sliced, BytesOf

(* The bytes from one on. *)
LEMMA BytesFrom ==
  ASSUME NEW f, f.offset \in Int, width_bytes(f) \in Int
  PROVE  BytesOf(f) = f.offset .. f.offset + width_bytes(f) - 1
<1> DEFINE m == f.offset
           n == width_bytes(f)
<1>0. m \in Int /\ n \in Int
  OBVIOUS
<1> HIDE DEF m, n
<1>1. ASSUME NEW x \in m .. m + n - 1 PROVE x - m \in 0 .. n - 1 /\ m + (x - m) = x
  BY <1>0
<1>2. ASSUME NEW u \in 0 .. n - 1 PROVE m + u \in m .. m + n - 1
  BY <1>0
<1>3. {m + u : u \in 0 .. n - 1} = m .. m + n - 1
  BY <1>1, <1>2
<1> QED
  BY <1>3 DEF m, n, BytesOf

(* What is captured for a value of the discriminator. *)
Taken(p, n, k) == {f \in AllFields(p) : f.name = n /\ (Always(p, f) \/ k \in KeysOf(p, f))}
LEMMA EntriesTaken ==
  ASSUME NEW p, NEW plan, NEW slices,
         plan.entries = UNION {{Entry(p, f, s) : s \in slices[f]} : f \in AllFields(p)},
         NEW n, NEW k
  PROVE  Collected(plan, n, k) = UNION {Sliced(plan, slices[f]) : f \in Taken(p, n, k)}
<1> DEFINE takes(x) == x.register = n /\ (x.always \/ k \in x.keys)
<1>1. ASSUME NEW f, NEW s
      PROVE  /\ Entry(p, f, s).slice = s
             /\ takes(Entry(p, f, s)) <=> f.name = n /\ (Always(p, f) \/ k \in KeysOf(p, f))
  <2>1. /\ Entry(p, f, s).slice = s /\ Entry(p, f, s).register = f.name
        /\ Entry(p, f, s).always = Always(p, f)
        /\ Entry(p, f, s).keys = IF Always(p, f) THEN {} ELSE KeysOf(p, f)
    BY DEF Entry
  <2>2. CASE Always(p, f)
    BY <2>1, <2>2, Zenon
  <2>3. CASE ~Always(p, f)
    BY <2>1, <2>3, Zenon
  <2> QED
    BY <2>2, <2>3
<1>2. ASSUME NEW e \in plan.entries, takes(e)
      PROVE  \E f \in Taken(p, n, k) : \E s \in slices[f] : SliceByte(plan, e.slice) = SliceByte(plan, s)
  <2>1. PICK f \in AllFields(p) : e \in {Entry(p, f, s) : s \in slices[f]}
    BY Zenon
  <2>2. PICK s \in slices[f] : e = Entry(p, f, s)
    BY <2>1, Zenon
  <2>3. f \in Taken(p, n, k)
    BY <1>1, <1>2, <2>2, Zenon DEF Taken
  <2>4. e.slice = s
    <3>1. Entry(p, f, s).slice = s
      BY <1>1, Zenon
    <3> QED
      BY <2>2, <3>1
  <2> QED
    BY <2>2, <2>3, <2>4, Zenon
<1>3. ASSUME NEW f \in Taken(p, n, k), NEW s \in slices[f]
      PROVE  \E e \in plan.entries : takes(e) /\ SliceByte(plan, s) = SliceByte(plan, e.slice)
  <2>1. f \in AllFields(p) /\ f.name = n /\ (Always(p, f) \/ k \in KeysOf(p, f))
    BY <1>3, Zenon DEF Taken
  <2>2. Entry(p, f, s) \in plan.entries
    <3>1. Entry(p, f, s) \in {Entry(p, f, x) : x \in slices[f]}
      OBVIOUS
    <3> QED
      BY <2>1, <3>1
  <2>3. takes(Entry(p, f, s)) /\ Entry(p, f, s).slice = s
    BY <1>1, <2>1, Zenon
  <2> HIDE DEF takes
  <2> QED
    BY <2>2, <2>3, Zenon
<1> HIDE DEF takes
<1>4. {SliceByte(plan, e.slice) : e \in {x \in plan.entries : takes(x)}}
        = UNION {{SliceByte(plan, s) : s \in slices[f]} : f \in Taken(p, n, k)}
  <2>1. ASSUME NEW y \in {SliceByte(plan, e.slice) : e \in {x \in plan.entries : takes(x)}}
        PROVE  y \in UNION {{SliceByte(plan, s) : s \in slices[f]} : f \in Taken(p, n, k)}
    <3>1. PICK e \in plan.entries : takes(e) /\ y = SliceByte(plan, e.slice)
      BY Zenon
    <3>2. PICK f \in Taken(p, n, k) : \E s \in slices[f] : SliceByte(plan, e.slice) = SliceByte(plan, s)
      BY <1>2, <3>1
    <3>3. y \in {SliceByte(plan, s) : s \in slices[f]}
      BY <3>1, <3>2, Zenon
    <3> QED
      BY <3>3
  <2>2. ASSUME NEW y \in UNION {{SliceByte(plan, s) : s \in slices[f]} : f \in Taken(p, n, k)}
        PROVE  y \in {SliceByte(plan, e.slice) : e \in {x \in plan.entries : takes(x)}}
    <3>1. PICK f \in Taken(p, n, k) : y \in {SliceByte(plan, s) : s \in slices[f]}
      BY Zenon
    <3>2. PICK s \in slices[f] : y = SliceByte(plan, s)
      BY <3>1
    <3>3. PICK e \in plan.entries : takes(e) /\ SliceByte(plan, s) = SliceByte(plan, e.slice)
      BY <1>3
    <3> QED
      BY <3>2, <3>3, Zenon
  <2> QED
    BY <2>1, <2>2, Zenon
<1> QED
  BY <1>4, Zenon DEF takes, Collected, Sliced

(* Where no two places have one name, that is what VariantPlan says. *)
LEMMA PlacesTaken ==
  ASSUME NEW p, IsVariants(p), ~MultipleWidths(p), Apart(p), NEW plan, VariantsOf(plan, p),
         NEW n \in Reader(plan)!FieldNames, NEW k
  PROVE  Reader(plan)!CaptureAt(n, k) = {Bytes(f) : f \in Taken(p, n, k)}
<1> DEFINE C == ByName(p.fields)
           V == plan.Variants
           At == Reader(plan)!Locations(n)
           With == {j \in DOMAIN V : n \in DOMAIN V[j]}
           F == {f \in AllFields(p) : f.name = n}
<1>1. /\ IsFields(p.fields) /\ plan.CommonFields = C
      /\ \A v \in DOMAIN p.variants : IsFields(p.variants[v])
  BY DEF IsVariants, VariantsOf
<1>2. /\ DOMAIN C = {f.name : f \in Range(p.fields)}
      /\ \A m \in DOMAIN C : \E f \in Range(p.fields) : f.name = m /\ C[m] = Bytes(f)
  BY <1>1, Named
<1>3. /\ DOMAIN V = DOMAIN p.variants
      /\ \A v \in DOMAIN p.variants :
           /\ DOMAIN V[v] = DOMAIN ByName(p.variants[v]) \ DOMAIN C
           /\ \A m \in DOMAIN V[v] : V[v][m] = ByName(p.variants[v])[m]
  BY <1>1, OwnPlaces
<1>4. ASSUME NEW v \in DOMAIN p.variants
      PROVE  /\ DOMAIN ByName(p.variants[v]) = {f.name : f \in Range(p.variants[v])}
             /\ \A m \in DOMAIN ByName(p.variants[v]) :
                  \E f \in Range(p.variants[v]) : f.name = m /\ ByName(p.variants[v])[m] = Bytes(f)
  BY <1>1, Named
<1>5. /\ Reader(plan)!FieldNames = DOMAIN C \cup UNION {DOMAIN V[j] : j \in DOMAIN V}
      /\ At = IF n \in DOMAIN C THEN {C[n]} ELSE {V[j][n] : j \in With}
  BY <1>1 DEF Reader!FieldNames, Reader!Locations, Reader!VariantsWith
<1>6. Reader(plan)!CaptureAt(n, k) =
        IF Cardinality(At) = 1 THEN At ELSE {V[v][n] : v \in {k} \cap With}
  <2>1. Reader(plan)!Cardinality(At) = Cardinality(At)
    BY DEF Cardinality, Reader!Cardinality, IsFiniteSet, Reader!IsFiniteSet
  <2>2. Reader(plan)!CaptureAt(n, k) =
          IF Reader(plan)!Cardinality(At) = 1 THEN At ELSE {V[v][n] : v \in {k} \cap With}
    BY DEF Reader!CaptureAt, Reader!VariantsWith
  <2> QED
    BY <2>1, <2>2
<1>7. CommonNames(p) = DOMAIN C
  BY DEF CommonNames, Names, ByName, Range
<1>8. ASSUME NEW f, NEW g, f.offset = g.offset, f.width = g.width PROVE Bytes(f) = Bytes(g)
  BY <1>8 DEF Bytes, width_bytes
<1>9. IsFiniteSet(DOMAIN V)
  BY <1>3 DEF IsVariants
<1> HIDE DEF C, V, At
<1>10. CASE n \in DOMAIN C
  <2>1. F \subseteq Range(p.fields)
    BY <1>7, <1>10 DEF AllFields, OtherFields
  <2>2. PICK h \in Range(p.fields) : h.name = n /\ C[n] = Bytes(h)
    BY <1>2, <1>10
  <2>3. \A f \in F : Bytes(f) = Bytes(h)
    BY <1>8, <2>1, <2>2 DEF Apart, OneName
  <2>4. h \in F
    BY <2>2 DEF AllFields
  <2>5. Taken(p, n, k) = F
    BY <2>1 DEF Taken, Always
  <2> HIDE DEF F
  <2>6. {Bytes(f) : f \in Taken(p, n, k)} = {Bytes(h)}
    BY <2>3, <2>4, <2>5
  <2>7. At = {Bytes(h)}
    BY <1>5, <1>10, <2>2
  <2>8. Cardinality(At) = 1
    BY <2>7, FS_Singleton
  <2> QED
    BY <1>6, <2>6, <2>7, <2>8
<1>11. CASE n \notin DOMAIN C
  <2>1. F = {f \in VariantFields(p) : f.name = n}
    BY <1>2, <1>7, <1>11 DEF AllFields, OtherFields
  <2>2. ASSUME NEW v \in DOMAIN p.variants, NEW f \in Range(p.variants[v]), f.name = n
        PROVE  v \in With /\ f \in F /\ V[v][n] = Bytes(f)
    <3>1. n \in DOMAIN ByName(p.variants[v])
      BY <1>4, <2>2
    <3>2. v \in With /\ V[v][n] = ByName(p.variants[v])[n]
      BY <1>3, <1>11, <3>1
    <3>3. PICK g \in Range(p.variants[v]) : g.name = n /\ ByName(p.variants[v])[n] = Bytes(g)
      BY <1>4, <3>1
    <3>4. Bytes(g) = Bytes(f)
      BY <1>8, <2>2, <3>3 DEF Apart, OneName
    <3>5. f \in VariantFields(p)
      BY DEF VariantFields
    <3> QED
      BY <2>1, <2>2, <3>2, <3>3, <3>4, <3>5
  <2>3. ASSUME NEW v \in With
        PROVE  v \in DOMAIN p.variants /\ \E f \in Range(p.variants[v]) : f.name = n /\ V[v][n] = Bytes(f)
    <3>1. v \in DOMAIN p.variants /\ n \in DOMAIN ByName(p.variants[v])
      BY <1>3
    <3>2. PICK f \in Range(p.variants[v]) : f.name = n
      BY <1>4, <3>1
    <3> QED
      BY <2>2, <3>1, <3>2
  <2>4. \A f \in F : \E v \in DOMAIN p.variants : f \in Range(p.variants[v]) /\ f.name = n
    BY <2>1 DEF VariantFields
  <2>5. At = {V[j][n] : j \in With}
    BY <1>5, <1>11
  <2>6. At = {Bytes(f) : f \in F}
    <3>1. ASSUME NEW at \in At PROVE \E f \in F : at = Bytes(f)
      <4>1. PICK v \in With : at = V[v][n]
        BY <2>5
      <4> QED
        BY <2>2, <2>3, <4>1
    <3>2. ASSUME NEW f \in F PROVE Bytes(f) \in At
      <4>1. PICK v \in DOMAIN p.variants : f \in Range(p.variants[v]) /\ f.name = n
        BY <2>4
      <4> QED
        BY <2>2, <2>5, <4>1
    <3> HIDE DEF F
    <3> QED
      BY <3>1, <3>2
  <2>7. \A f, g \in F : f.width = g.width
    BY <2>1 DEF MultipleWidths
  <2>8. IsFiniteSet(At)
    <3>1. With \in SUBSET DOMAIN V
      OBVIOUS
    <3>2. IsFiniteSet(With)
      BY <1>9, <3>1, FS_Subset
    <3>3. [j \in With |-> V[j][n]] \in Surjection(With, At)
      BY <2>5 DEF Surjection
    <3> QED
      BY <3>2, <3>3, FS_Surjection
  <2>9. name_locations(p, n) = {<<f.offset, f.width>> : f \in F}
    BY DEF name_locations
  <2>10. Cardinality(name_locations(p, n)) = Cardinality(At)
    <3> DEFINE w == (CHOOSE f \in F : TRUE).width
               to == [at \in At |-> <<at.offset, w>>]
    <3>1. \A f \in F : f.width = w
      <4>1. \A f \in F : (CHOOSE g \in F : TRUE) \in F
        OBVIOUS
      <4> QED
        BY <2>7, <4>1
    <3>2. \A f : Bytes(f).offset = f.offset /\ Bytes(f).length = width_bytes(f)
      BY DEF Bytes
    <3> HIDE DEF F, w
    <3>3. to \in Injection(At, name_locations(p, n))
      <4>1. ASSUME NEW f \in F PROVE to[Bytes(f)] = <<f.offset, f.width>>
        BY <2>6, <3>1, <3>2
      <4>2. ASSUME NEW f \in F, NEW g \in F, to[Bytes(f)] = to[Bytes(g)] PROVE Bytes(f) = Bytes(g)
        <5>1. f.offset = g.offset /\ f.width = g.width
          BY <4>1, <4>2
        <5> QED
          BY <1>8, <5>1
      <4>3. ASSUME NEW at \in At PROVE to[at] \in name_locations(p, n)
        <5>1. PICK f \in F : at = Bytes(f)
          BY <2>6
        <5>2. to[at] = <<f.offset, f.width>>
          BY <4>1, <5>1
        <5> HIDE DEF to
        <5> QED
          BY <2>9, <5>2
      <4>4. ASSUME NEW at \in At, NEW by \in At, to[at] = to[by] PROVE at = by
        <5>1. PICK f \in F : at = Bytes(f)
          BY <2>6
        <5>2. PICK g \in F : by = Bytes(g)
          BY <2>6
        <5> HIDE DEF to
        <5> QED
          BY <4>2, <4>4, <5>1, <5>2
      <4>5. to \in [At -> name_locations(p, n)]
        BY <4>3
      <4> HIDE DEF to
      <4> QED
        BY <4>4, <4>5 DEF Injection, IsInjective
    <3>4. ASSUME NEW y \in name_locations(p, n) PROVE \E at \in At : to[at] = y
      <4>1. PICK f \in F : y = <<f.offset, f.width>>
        BY <2>9
      <4>2. Bytes(f) \in At
        BY <2>6
      <4>3. to[Bytes(f)] = <<f.offset, f.width>>
        BY <3>1, <3>2, <4>2
      <4> HIDE DEF to
      <4> QED
        BY <4>1, <4>2, <4>3
    <3>5. to \in Bijection(At, name_locations(p, n))
      <4> HIDE DEF to
      <4> QED
        BY <3>3, <3>4 DEF Bijection, Surjection, Injection
    <3>6. ExistsBijection(At, name_locations(p, n))
      BY <3>5 DEF ExistsBijection
    <3> QED
      BY <2>8, <3>6, FS_Bijection
  <2>11. \A f \in F : Always(p, f) <=> Cardinality(At) = 1
    <3>1. ASSUME NEW f \in F PROVE f \notin Range(p.fields)
      BY <1>2, <1>11
    <3> QED
      BY <2>10, <3>1 DEF Always
  <2>12. Taken(p, n, k) = {f \in F : Always(p, f) \/ k \in KeysOf(p, f)}
    BY DEF Taken
  <2>13. ASSUME NEW f \in F
         PROVE  k \in KeysOf(p, f) <=> /\ k \in DOMAIN p.variants
                                       /\ \E g \in Range(p.variants[k]) :
                                            g.name = n /\ g.offset = f.offset /\ g.width = f.width
    BY DEF KeysOf
  <2>14. CASE Cardinality(At) = 1
    <3>1. Taken(p, n, k) = F
      BY <2>11, <2>12, <2>14
    <3> QED
      BY <1>6, <2>6, <2>14, <3>1
  <2>15. CASE Cardinality(At) # 1 /\ k \in With
    <3>1. Reader(plan)!CaptureAt(n, k) = {V[k][n]}
      <4>1. {k} \cap With = {k}
        BY <2>15
      <4> HIDE DEF With
      <4> QED
        BY <1>6, <2>15, <4>1
    <3>2. PICK h \in Range(p.variants[k]) : h.name = n /\ V[k][n] = Bytes(h)
      BY <2>3, <2>15
    <3>3. k \in DOMAIN p.variants
      BY <2>3, <2>15
    <3>4. h \in F
      BY <2>2, <3>2, <3>3
    <3>5. h \in Taken(p, n, k)
      BY <2>12, <2>13, <3>2, <3>3, <3>4
    <3>6. ASSUME NEW f \in Taken(p, n, k) PROVE Bytes(f) = Bytes(h)
      <4>1. f \in F /\ k \in KeysOf(p, f)
        BY <2>11, <2>12, <2>15
      <4>2. PICK g \in Range(p.variants[k]) : g.name = n /\ g.offset = f.offset /\ g.width = f.width
        BY <2>13, <4>1
      <4>3. V[k][n] = Bytes(g)
        BY <2>2, <3>3, <4>2
      <4> QED
        BY <1>8, <3>2, <4>2, <4>3
    <3>7. {Bytes(f) : f \in Taken(p, n, k)} = {Bytes(h)}
      BY <3>5, <3>6
    <3> QED
      BY <3>1, <3>2, <3>7
  <2>16. CASE Cardinality(At) # 1 /\ k \notin With
    <3>1. Reader(plan)!CaptureAt(n, k) = {}
      <4>1. {k} \cap With = {}
        BY <2>16
      <4> HIDE DEF With
      <4> QED
        BY <1>6, <2>16, <4>1
    <3>2. ASSUME NEW f \in Taken(p, n, k) PROVE FALSE
      <4>1. f \in F /\ k \in KeysOf(p, f)
        BY <2>11, <2>12, <2>16
      <4> QED
        BY <2>2, <2>13, <2>16, <4>1
    <3> QED
      BY <3>1, <3>2
  <2> QED
    BY <2>14, <2>15, <2>16
<1> QED
  BY <1>10, <1>11

(* A field of an accepted message has whole numbers for its place. *)
LEMMA PlacesCount ==
  ASSUME NEW p, IsVariants(p), ValidDiscriminated(p), NEW f \in AllFields(p)
  PROVE  f.offset \in Nat /\ width_bytes(f) \in Nat \ {0}
<1>1. /\ IsFields(p.fields) /\ \A g \in Range(p.fields) : ValidField(g)
      /\ \A v \in DOMAIN p.variants :
           IsFields(p.variants[v]) /\ \A g \in Range(p.variants[v]) : ValidField(g)
  BY Indices DEF IsVariants, ValidDiscriminated
<1>2. f \in Range(p.fields) \/ \E v \in DOMAIN p.variants : f \in Range(p.variants[v])
  BY DEF AllFields, OtherFields, VariantFields
<1>3. f.offset \in Int /\ f.width \in Int /\ ValidField(f)
  BY <1>1, <1>2 DEF IsFields
<1> QED
  BY <1>3, FieldPlace

(* So entries made of slices that are the fields' bytes capture them. *)
LEMMA EntriesCapture ==
  ASSUME NEW p, IsVariants(p), ValidDiscriminated(p), ~MultipleWidths(p), Apart(p),
         NEW plan, VariantsOf(plan, p), NEW slices,
         plan.entries = UNION {{Entry(p, f, s) : s \in slices[f]} : f \in AllFields(p)},
         \A f \in AllFields(p) : Sliced(plan, slices[f]) = BytesOf(f)
  PROVE  Captures(plan)
<1>1. SUFFICES ASSUME NEW n \in Reader(plan)!FieldNames, NEW k
               PROVE  Collected(plan, n, k)
                        = UNION {at.offset .. Reader(plan)!Ends(at) - 1 : at \in Reader(plan)!CaptureAt(n, k)}
  BY Zenon DEF Captures, Collected
<1> DEFINE T == Taken(p, n, k)
<1>2. Collected(plan, n, k) = UNION {Sliced(plan, slices[f]) : f \in T}
  BY EntriesTaken
<1>3. Reader(plan)!CaptureAt(n, k) = {Bytes(f) : f \in T}
  BY PlacesTaken
<1>4. ASSUME NEW f \in T
      PROVE  Sliced(plan, slices[f]) = Bytes(f).offset .. Reader(plan)!Ends(Bytes(f)) - 1
  <2>1. f \in AllFields(p)
    BY DEF Taken
  <2>2. f.offset \in Nat /\ width_bytes(f) \in Nat \ {0}
    BY <2>1, PlacesCount
  <2>3. BytesOf(f) = f.offset .. f.offset + width_bytes(f) - 1
    BY <2>2, BytesFrom
  <2>4. Bytes(f).offset = f.offset /\ Bytes(f).length = width_bytes(f)
    BY DEF Bytes
  <2>5. Sliced(plan, slices[f]) = BytesOf(f)
    BY <2>1
  <2>6. Reader(plan)!Ends(Bytes(f)) = Bytes(f).offset + Bytes(f).length
    BY DEF Reader!Ends
  <2>7. Reader(plan)!Ends(Bytes(f)) - 1 = f.offset + width_bytes(f) - 1
    BY <2>2, <2>4, <2>6
  <2> QED
    BY <2>3, <2>4, <2>5, <2>7
<1> HIDE DEF T
<1>5. UNION {Sliced(plan, slices[f]) : f \in T}
        = UNION {Bytes(f).offset .. Reader(plan)!Ends(Bytes(f)) - 1 : f \in T}
  <2>1. {Sliced(plan, slices[f]) : f \in T}
          = {Bytes(f).offset .. Reader(plan)!Ends(Bytes(f)) - 1 : f \in T}
    BY <1>4
  <2> QED
    BY <2>1
<1>6. {Bytes(f).offset .. Reader(plan)!Ends(Bytes(f)) - 1 : f \in T}
        = {at.offset .. Reader(plan)!Ends(at) - 1 : at \in {Bytes(f) : f \in T}}
  OBVIOUS
<1> QED
  BY <1>2, <1>3, <1>5, <1>6

(* The slices of a discriminated parser capture, for each value of the     *)
(* discriminator, the bytes where that variant has the field, whatever the *)
(* width of the bus: a field with one place in all the variants is         *)
(* captured always, one with several by the discriminator.  Two places     *)
(* with one name in a header, or in a variant, are excluded: the entries   *)
(* would take the bytes of both into one register.                         *)
THEOREM DiscriminatedPlansCapture ==
  ASSUME NEW d, DeclaredDiscriminated(d), NEW kw \in Nat \ {0}, Accepted(Constructed(d)),
         generate(Constructed(d), kw).ok, Apart(Constructed(d))
  PROVE  Captures(generate(Constructed(d), kw))
<1> DEFINE p == Constructed(d)
           plan == generate(p, kw)
           slices == [f \in AllFields(p) |-> byte_slices(f, kw)]
<1>1. IsVariants(p) /\ p.class = "Discriminated"
  BY WithVariantsIs DEF Constructed, DeclaredDiscriminated
<1> HIDE DEF p
<1>2. ValidDiscriminated(p) /\ plan.ok
  BY <1>1 DEF Accepted, p
<1>3. /\ VariantsOf(plan, p) /\ ~MultipleWidths(p) /\ plan.KEEP_WIDTH = kw
      /\ plan.entries = beat_entries(p, kw)
  BY <1>1, <1>2, VariantPlans
<1> HIDE DEF plan
<1>4. \A f \in AllFields(p) : slices[f] = byte_slices(f, kw)
  OBVIOUS
<1> HIDE DEF slices
<1>5. plan.entries = UNION {{Entry(p, f, s) : s \in slices[f]} : f \in AllFields(p)}
  <2>1. {{Entry(p, f, s) : s \in slices[f]} : f \in AllFields(p)}
          = {{Entry(p, f, s) : s \in byte_slices(f, kw)} : f \in AllFields(p)}
    BY <1>4
  <2> QED
    BY <1>3, <2>1 DEF beat_entries
<1>6. ASSUME NEW f \in AllFields(p)
      PROVE  Sliced(plan, slices[f]) = BytesOf(f)
  <2>1. f.offset \in Nat
    BY <1>1, <1>2, PlacesCount
  <2>2. Sliced(plan, byte_slices(f, kw)) = BytesOf(f)
    BY <1>3, <2>1, BeatBytes
  <2> QED
    BY <1>4, <2>2
<1>7. Apart(p)
  BY DEF p
<1>8. Captures(plan)
  BY <1>1, <1>2, <1>3, <1>5, <1>6, <1>7, EntriesCapture
<1> QED
  BY <1>8 DEF plan, p

(* Nor do those of the parser of many messages, which takes them byte by   *)
(* byte, capture anything else.                                            *)
THEOREM ReaderPlansCapture ==
  ASSUME NEW d, DeclaredMulti(d), d.sub_protocol.class # "LengthPrefixed", NEW kw,
         Accepted(Constructed(d)), generate(Constructed(d), kw).ok,
         Apart(Constructed(d).sub_protocol.discriminated)
  PROVE  Captures(generate(Constructed(d), kw))
<1> DEFINE p == Constructed(d)
           inner == p.sub_protocol.discriminated
           plan == generate(p, kw)
           slices == [f \in AllFields(inner) |-> field_byte_slices(f)]
<1>1. p.class = "Multi" /\ IsSub(p.sub_protocol) /\ p.sub_protocol = SubProtocol(d.sub_protocol)
  BY MultiIs
<1>2. p.sub_protocol.class = "LengthPrefixedSub"
  <2>1. d.sub_protocol.class = "LengthPrefixedSub" /\ DeclaredSub(d.sub_protocol)
    BY DEF DeclaredMulti, DeclaredSub
  <2>2. SubProtocol(d.sub_protocol).class = "LengthPrefixedSub"
    BY <2>1, SubClass
  <2> QED
    BY <1>1, <2>2
<1> HIDE DEF p
<1>3. ValidMulti(p) /\ plan.ok
  BY <1>1 DEF Accepted, p
<1>4. IsVariants(inner) /\ ValidDiscriminated(inner)
  BY <1>1, <1>2, <1>3 DEF IsSub, ValidMulti, ValidSubProtocol
<1>5. VariantsOf(plan, inner) /\ ~MultipleWidths(inner) /\ plan.entries = byte_entries(inner)
  BY <1>1, <1>2, <1>3, MessagePlans
<1>6. Apart(inner)
  BY DEF p
<1> HIDE DEF plan, inner
<1>7. \A f \in AllFields(inner) : slices[f] = field_byte_slices(f)
  OBVIOUS
<1> HIDE DEF slices
<1>8. plan.entries = UNION {{Entry(inner, f, s) : s \in slices[f]} : f \in AllFields(inner)}
  <2>1. {{Entry(inner, f, s) : s \in slices[f]} : f \in AllFields(inner)}
          = {{Entry(inner, f, s) : s \in field_byte_slices(f)} : f \in AllFields(inner)}
    BY <1>7
  <2> QED
    BY <1>5, <2>1 DEF byte_entries
<1>9. ASSUME NEW f \in AllFields(inner)
      PROVE  Sliced(plan, slices[f]) = BytesOf(f)
  <2>1. Sliced(plan, field_byte_slices(f)) = BytesOf(f)
    BY MessageBytes
  <2> QED
    BY <1>7, <2>1
<1>10. Captures(plan)
  BY <1>4, <1>5, <1>6, <1>8, <1>9, EntriesCapture
<1> QED
  BY <1>10 DEF plan, p

------------------------------------------------------------------------------
(* What holds at the beginning and is passed on holds all along.           *)
LEMMA PassedOn ==
  ASSUME NEW len \in Nat, NEW Good, 0 \in Good, \A n \in 1 .. len : n - 1 \in Good => n \in Good
  PROVE  \A n \in 0 .. len : n \in Good
<1> DEFINE Bad == {n \in 0 .. len : n \notin Good}
<1>1. SUFFICES ASSUME Bad # {} PROVE FALSE
  OBVIOUS
<1>2. Bad \in SUBSET Nat
  OBVIOUS
<1>3. PICK m \in Bad : \A n \in Bad : m <= n
  <2> HIDE DEF Bad
  <2> QED
    BY <1>1, <1>2, Least
<1>4. m \in 1 .. len /\ m - 1 \in 0 .. len /\ ~(m <= m - 1)
  BY <1>3
<1>5. m - 1 \notin Bad
  <2> HIDE DEF Bad
  <2> QED
    BY <1>3, <1>4
<1> QED
  BY <1>3, <1>4, <1>5

(* A function may be defined by its first value and a step from each value *)
(* to the next.                                                            *)
Recurs(S) ==
  \A len \in Nat : \A first \in S : \A step \in [1 .. len -> [S -> S]] :
    \E v \in [0 .. len -> S] :
      \A n \in 0 .. len : v[n] = IF n = 0 THEN first ELSE step[n][v[n - 1]]
LEMMA Recursion ==
  ASSUME NEW S
  PROVE  Recurs(S)
<1> SUFFICES ASSUME NEW len \in Nat, NEW first \in S, NEW step \in [1 .. len -> [S -> S]]
             PROVE  \E v \in [0 .. len -> S] :
                      \A n \in 0 .. len : v[n] = IF n = 0 THEN first ELSE step[n][v[n - 1]]
  BY Zenon DEF Recurs
<1> DEFINE Up(v, m) == \A n \in 0 .. m : v[n] = IF n = 0 THEN first ELSE step[n][v[n - 1]]
           Good == {m \in 0 .. len : \E v \in [0 .. m -> S] : Up(v, m)}
<1>1. 0 \in Good
  <2> DEFINE v == [n \in 0 .. 0 |-> first]
  <2>1. v \in [0 .. 0 -> S] /\ Up(v, 0)
    OBVIOUS
  <2> HIDE DEF v, Up
  <2> QED
    BY <2>1
<1>2. ASSUME NEW m \in 1 .. len, m - 1 \in Good
      PROVE  m \in Good
  <2> HIDE DEF Up
  <2>1. PICK v \in [0 .. m - 1 -> S] : Up(v, m - 1)
    BY <1>2
  <2> DEFINE last == step[m][v[m - 1]]
             w    == [n \in 0 .. m |-> IF n = m THEN last ELSE v[n]]
  <2>2. last \in S
    <3>1. m - 1 \in 0 .. m - 1
      OBVIOUS
    <3>2. v[m - 1] \in S /\ step[m] \in [S -> S]
      BY <3>1
    <3> QED
      BY <3>2
  <2>3. w \in [0 .. m -> S]
    <3> HIDE DEF last
    <3> QED
      BY <2>2
  <2>4. Up(w, m)
    <3> USE DEF Up
    <3>1. SUFFICES ASSUME NEW n \in 0 .. m PROVE w[n] = IF n = 0 THEN first ELSE step[n][w[n - 1]]
      OBVIOUS
    <3>2. CASE n = m
      BY <3>2
    <3>3. CASE n # m
      <4>1. n \in 0 .. m - 1 /\ (n # 0 => n - 1 \in 0 .. m - 1)
        BY <3>3
      <4>2. v[n] = IF n = 0 THEN first ELSE step[n][v[n - 1]]
        BY <2>1, <4>1
      <4>3. w[n] = v[n] /\ (n # 0 => w[n - 1] = v[n - 1])
        BY <3>3, <4>1
      <4> QED
        BY <4>2, <4>3
    <3> QED
      BY <3>2, <3>3
  <2> HIDE DEF w
  <2> QED
    BY <2>3, <2>4
<1>3. len \in Good
  <2>1. \A m \in 1 .. len : m - 1 \in Good => m \in Good
    BY <1>2
  <2> HIDE DEF Good
  <2>2. \A n \in 0 .. len : n \in Good
    BY <1>1, <2>1, PassedOn
  <2> QED
    BY <2>2
<1> HIDE DEF Up
<1>4. \E v \in [0 .. len -> S] : Up(v, len)
  BY <1>3
<1>5. PICK v \in [0 .. len -> S] : Up(v, len)
  BY <1>4
<1> QED
  BY <1>5, Zenon DEF Up

(* Digits that are numbers make a number. *)
LEMMA NumberType ==
  ASSUME NEW digits \in Seq(Nat)
  PROVE  NumberOf(digits) \in Nat
<1> DEFINE len == Len(digits)
           Solves(v) == v = [n \in 0 .. len |-> IF n = 0 THEN 0 ELSE 256 * v[n - 1] + digits[n]]
           value == CHOOSE v : Solves(v)
           step  == [n \in 1 .. len |-> [x \in Nat |-> 256 * x + digits[n]]]
<1>1. NumberOf(digits) = value[len]
  BY DEF NumberOf
<1>2. len \in Nat /\ \A n \in 1 .. len : digits[n] \in Nat
  OBVIOUS
<1>3. step \in [1 .. len -> [Nat -> Nat]]
  <2> HIDE DEF len
  <2> QED
    BY <1>2
<1>4. /\ \A n \in 1 .. len : step[n] = [x \in Nat |-> 256 * x + digits[n]]
  OBVIOUS
<1> HIDE DEF len, step
<1>5. PICK v \in [0 .. len -> Nat] :
        \A n \in 0 .. len : v[n] = IF n = 0 THEN 0 ELSE step[n][v[n - 1]]
  <2>1. Recurs(Nat)
    BY Recursion
  <2>2. \A first \in Nat : \A s \in [1 .. len -> [Nat -> Nat]] :
          \E v \in [0 .. len -> Nat] :
            \A n \in 0 .. len : v[n] = IF n = 0 THEN first ELSE s[n][v[n - 1]]
    BY <1>2, <2>1, Zenon DEF Recurs
  <2>3. \A s \in [1 .. len -> [Nat -> Nat]] :
          \E v \in [0 .. len -> Nat] :
            \A n \in 0 .. len : v[n] = IF n = 0 THEN 0 ELSE s[n][v[n - 1]]
    <3>1. 0 \in Nat
      OBVIOUS
    <3> QED
      BY <2>2, <3>1, Zenon
  <2> QED
    BY <1>3, <2>3, Zenon
<1>6. Solves(v)
  <2>1. ASSUME NEW n \in 0 .. len PROVE v[n] = IF n = 0 THEN 0 ELSE 256 * v[n - 1] + digits[n]
    <3>1. CASE n = 0
      BY <1>5, <3>1
    <3>2. CASE n # 0
      <4>1. n \in 1 .. len /\ n - 1 \in 0 .. len
        BY <1>2, <3>2
      <4>2. v[n - 1] \in Nat /\ v[n] = step[n][v[n - 1]]
        BY <1>5, <3>2, <4>1
      <4>3. step[n] = [x \in Nat |-> 256 * x + digits[n]]
        BY <1>4, <4>1
      <4> QED
        BY <3>2, <4>2, <4>3
    <3> QED
      BY <3>1, <3>2
  <2>2. v = [n \in 0 .. len |-> v[n]]
    OBVIOUS
  <2> QED
    BY <2>1, <2>2
<1>7. Solves(value)
  <2> HIDE DEF Solves
  <2> QED
    BY <1>6
<1> HIDE DEF value
<1> DEFINE Good == {n \in 0 .. len : value[n] \in Nat}
<1>8. 0 \in Good
  BY <1>2, <1>7
<1>9. \A n \in 1 .. len : n - 1 \in Good => n \in Good
  <2>1. SUFFICES ASSUME NEW n \in 1 .. len, value[n - 1] \in Nat PROVE value[n] \in Nat
    BY <1>2
  <2>2. \A m \in 0 .. len : value[m] = IF m = 0 THEN 0 ELSE 256 * value[m - 1] + digits[m]
    <3>1. value = [m \in 0 .. len |-> IF m = 0 THEN 0 ELSE 256 * value[m - 1] + digits[m]]
      BY <1>7
    <3> HIDE DEF Solves
    <3> QED
      BY <3>1
  <2>3. n \in 0 .. len /\ n # 0
    BY <1>2
  <2>4. value[n] = 256 * value[n - 1] + digits[n]
    BY <2>2, <2>3
  <2>5. digits[n] \in Nat
    BY <1>2
  <2> QED
    BY <2>1, <2>4, <2>5
<1>10. \A n \in 0 .. len : n \in Good
  <2> HIDE DEF Good
  <2> QED
    BY <1>2, <1>8, <1>9, PassedOn
<1> QED
  BY <1>1, <1>2, <1>10

(* A sequence is one over its range, whatever it was one over. *)
LEMMA OwnRange ==
  ASSUME NEW S, NEW s \in Seq(S)
  PROVE  s \in Seq(Range(s)) /\ Range(s) \subseteq S
<1>1. Len(s) \in Nat /\ s \in [1 .. Len(s) -> Range(s)]
  BY DEF Range
<1>2. Range(s) \subseteq S
  BY DEF Range
<1> QED
  BY <1>1, <1>2, SeqDef

(* An element more. *)
LEMMA Appended ==
  ASSUME NEW S, NEW s \in Seq(S), NEW x \in S
  PROVE  Append(s, x) \in Seq(S) /\ Range(Append(s, x)) = Range(s) \cup {x}
<1>1. /\ Append(s, x) \in Seq(S) /\ Len(Append(s, x)) = Len(s) + 1 /\ Append(s, x)[Len(s) + 1] = x
      /\ \A u \in 1 .. Len(s) : Append(s, x)[u] = s[u]
  BY AppendProperties
<1>2. DOMAIN Append(s, x) = (1 .. Len(s)) \cup {Len(s) + 1} /\ DOMAIN s = 1 .. Len(s)
  BY <1>1
<1> HIDE DEF Range
<1> QED
  BY <1>1, <1>2 DEF Range

(* Of fields that are alike one is kept: no name gets lost. *)
LEMMA UniqueFields ==
  ASSUME NEW fields, IsFields(fields)
  PROVE  /\ IsFields(unique_fields(fields)) /\ Range(unique_fields(fields)) \subseteq Range(fields)
         /\ {f.name : f \in Range(unique_fields(fields))} = {f.name : f \in Range(fields)}
<1> DEFINE len == Len(fields)
           S == Seq(Range(fields))
           Again(n) == \E j \in 1 .. n - 1 : Alike(fields[j], fields[n])
           Solves(v) == v = [n \in 0 .. len |-> IF n = 0 THEN << >> ELSE IF Again(n) THEN v[n - 1]
                                                ELSE Append(v[n - 1], fields[n])]
           kept == CHOOSE v : Solves(v)
           step == [n \in 1 .. len |-> [x \in S |-> IF Again(n) THEN x ELSE Append(x, fields[n])]]
<1>1. unique_fields(fields) = kept[len]
  BY DEF unique_fields
<1>2. len \in Nat /\ (\A n \in 1 .. len : fields[n] \in Range(fields))
      /\ \A f \in Range(fields) : \E u \in 1 .. len : f = fields[u]
  BY Indices
<1>3. step \in [1 .. len -> [S -> S]] /\ << >> \in S
  <2>1. \A n \in 1 .. len : \A x \in S : (IF Again(n) THEN x ELSE Append(x, fields[n])) \in S
    <3> HIDE DEF Again
    <3> QED
      BY <1>2
  <2> HIDE DEF len, Again, S
  <2>2. << >> \in S
    BY DEF S
  <2> QED
    BY <2>1, <2>2
<1>4. \A n \in 1 .. len : step[n] = [x \in S |-> IF Again(n) THEN x ELSE Append(x, fields[n])]
  OBVIOUS
<1> HIDE DEF len, step, Again, S
<1>5. PICK v \in [0 .. len -> S] :
        \A n \in 0 .. len : v[n] = IF n = 0 THEN << >> ELSE step[n][v[n - 1]]
  <2>1. Recurs(S)
    BY Recursion
  <2>2. \A first \in S : \A s \in [1 .. len -> [S -> S]] :
          \E v \in [0 .. len -> S] :
            \A n \in 0 .. len : v[n] = IF n = 0 THEN first ELSE s[n][v[n - 1]]
    BY <1>2, <2>1, Zenon DEF Recurs
  <2>3. \A s \in [1 .. len -> [S -> S]] :
          \E v \in [0 .. len -> S] :
            \A n \in 0 .. len : v[n] = IF n = 0 THEN << >> ELSE s[n][v[n - 1]]
    BY <1>3, <2>2, Zenon
  <2> QED
    BY <1>3, <2>3, Zenon
<1>6. Solves(v)
  <2>1. ASSUME NEW n \in 0 .. len
        PROVE  v[n] = IF n = 0 THEN << >> ELSE IF Again(n) THEN v[n - 1] ELSE Append(v[n - 1], fields[n])
    <3>1. CASE n = 0
      BY <1>5, <3>1
    <3>2. CASE n # 0
      <4>1. n \in 1 .. len /\ n - 1 \in 0 .. len
        BY <1>2, <3>2
      <4>2. v[n - 1] \in S /\ v[n] = step[n][v[n - 1]]
        BY <1>5, <3>2, <4>1
      <4>3. step[n] = [x \in S |-> IF Again(n) THEN x ELSE Append(x, fields[n])]
        BY <1>4, <4>1
      <4> QED
        BY <3>2, <4>2, <4>3
    <3> QED
      BY <3>1, <3>2
  <2>2. v = [n \in 0 .. len |-> v[n]]
    OBVIOUS
  <2> QED
    BY <2>1, <2>2
<1>7. Solves(kept)
  <2> HIDE DEF Solves
  <2> QED
    BY <1>6
<1> HIDE DEF kept
<1> DEFINE NamesUpTo(n) == {fields[u].name : u \in 1 .. n}
           Good == {n \in 0 .. len : kept[n] \in S /\ {f.name : f \in Range(kept[n])} = NamesUpTo(n)}
<1>8. 0 \in Good
  <2>1. kept[0] = << >>
    BY <1>2, <1>7
  <2>2. Range(<< >>) = {}
    BY DEF Range
  <2> QED
    BY <1>2, <1>3, <2>1, <2>2
<1>9. ASSUME NEW n \in 1 .. len, n - 1 \in Good PROVE n \in Good
  <2>1. /\ kept[n - 1] \in S /\ {f.name : f \in Range(kept[n - 1])} = NamesUpTo(n - 1)
        /\ kept[n] = IF Again(n) THEN kept[n - 1] ELSE Append(kept[n - 1], fields[n])
    <3>1. n \in 0 .. len /\ n # 0
      BY <1>2
    <3> HIDE DEF NamesUpTo
    <3> QED
      BY <1>7, <1>9, <3>1
  <2>2. NamesUpTo(n) = NamesUpTo(n - 1) \cup {fields[n].name}
    <3>1. 1 .. n = (1 .. n - 1) \cup {n}
      BY <1>2
    <3> QED
      BY <3>1
  <2>3. CASE Again(n)
    <3>1. fields[n].name \in NamesUpTo(n - 1)
      BY <2>3 DEF Again, Alike
    <3> HIDE DEF NamesUpTo
    <3> QED
      BY <1>2, <2>1, <2>2, <2>3, <3>1
  <2>4. CASE ~Again(n)
    <3>1. Range(kept[n]) = Range(kept[n - 1]) \cup {fields[n]} /\ kept[n] \in S
      BY <1>2, <2>1, <2>4, Appended DEF S
    <3> HIDE DEF NamesUpTo
    <3> QED
      BY <1>2, <2>1, <2>2, <3>1
  <2> QED
    BY <2>3, <2>4
<1>10. len \in Good
  <2>1. \A n \in 1 .. len : n - 1 \in Good => n \in Good
    BY <1>9
  <2> HIDE DEF Good
  <2>2. \A n \in 0 .. len : n \in Good
    BY <1>2, <1>8, <2>1, PassedOn
  <2> QED
    BY <1>2, <2>2
<1>11. NamesUpTo(len) = {f.name : f \in Range(fields)}
  BY <1>2
<1>12. /\ unique_fields(fields) \in Seq(Range(fields))
       /\ {f.name : f \in Range(unique_fields(fields))} = {f.name : f \in Range(fields)}
  BY <1>1, <1>10, <1>11 DEF S
<1>13. Range(unique_fields(fields)) \subseteq Range(fields)
  BY <1>12 DEF Range
<1>14. unique_fields(fields) \in Seq(Range(unique_fields(fields)))
  BY <1>12, OwnRange
<1> QED
  BY <1>12, <1>13, <1>14 DEF IsFields

------------------------------------------------------------------------------
(* The numbers a call reads from its buffer.                               *)
LEMMA Powers ==
  ASSUME NEW w \in Nat
  PROVE  2 ^ (w % 8) \in Nat \ {0}
<1>1. /\ 2 ^ 0 = 1 /\ 2 ^ 1 = 2 /\ 2 ^ 2 = 4 /\ 2 ^ 3 = 8 /\ 2 ^ 4 = 16 /\ 2 ^ 5 = 32 /\ 2 ^ 6 = 64 /\ 2 ^ 7 = 128
  OBVIOUS
<1>2. w % 8 \in {0, 1, 2, 3, 4, 5, 6, 7}
  BY Z3
<1> DEFINE P(j) == 2 ^ j
<1>3. P(0) = 1 /\ P(1) = 2 /\ P(2) = 4 /\ P(3) = 8 /\ P(4) = 16 /\ P(5) = 32 /\ P(6) = 64 /\ P(7) = 128
  BY <1>1
<1>4. ASSUME NEW r \in {0, 1, 2, 3, 4, 5, 6, 7} PROVE P(r) \in Nat \ {0}
  <2> HIDE DEF P
  <2> QED
    BY <1>3
<1> HIDE DEF P
<1>5. P(w % 8) \in Nat \ {0}
  BY <1>2, <1>4
<1> QED
  BY <1>5 DEF P

(* A field that lies in a buffer is read as digits. *)
LEMMA FieldDigits ==
  ASSUME NEW buffer \in Seq(Nat), NEW f, f.offset \in Nat, f.width \in Nat \ {0}, Readable(buffer, f)
  PROVE  read_field(buffer, f) \in Seq(Nat)
<1>1. PICK w \in Nat \ {0}, off \in Nat, n \in Nat \ {0} : w = f.width /\ off = f.offset /\ n = width_bytes(f)
  <2>1. width_bytes(f) \in Nat \ {0}
    <3>1. \A w \in Nat \ {0} : (w + 7) \div 8 \in Nat \ {0}
      BY Z3
    <3> QED
      BY <3>1 DEF width_bytes
  <2> QED
    BY <2>1
<1>2. off + n <= Len(buffer)
  BY <1>1 DEF Readable, end_offset
<1> DEFINE digit(u) == IF u = 1 /\ w % 8 # 0 THEN buffer[off + 1] % 2 ^ (w % 8) ELSE buffer[off + u]
<1>3. read_field(buffer, f) = [u \in 1 .. n |-> digit(u)]
  BY <1>1 DEF read_field
<1>4. ASSUME NEW u \in 1 .. n PROVE digit(u) \in Nat
  <2>1. buffer[off + u] \in Nat /\ buffer[off + 1] \in Nat
    <3>1. off + u \in 1 .. Len(buffer) /\ off + 1 \in 1 .. Len(buffer)
      BY <1>2
    <3> QED
      BY <3>1
  <2>2. PICK m \in Nat \ {0} : m = 2 ^ (w % 8)
    BY Powers
  <2>3. buffer[off + 1] % m \in Nat
    BY <2>1, <2>2
  <2> QED
    BY <2>1, <2>2, <2>3
<1> HIDE DEF digit
<1>5. [u \in 1 .. n |-> digit(u)] \in Seq(Nat)
  BY <1>4
<1> QED
  BY <1>3, <1>5

(* So is one a call reads, whether it lies there or not. *)
LEMMA ReadDigits ==
  ASSUME data \in Seq(Byte), NEW f, f.offset \in Nat, f.width \in Nat \ {0}, NEW from \in Nat
  PROVE  read_be(from, f) \in Seq(Nat)
<1> DEFINE n     == width_bytes(f)
           tail  == SubSeq(data, from + 1, Len(data))
           whole == [offset |-> f.offset, width |-> 8 * n]
<1>1. n \in Nat \ {0} /\ (8 * n + 7) \div 8 = n
  <2>1. \A w \in Nat \ {0} : (w + 7) \div 8 \in Nat \ {0}
    BY Z3
  <2>2. n \in Nat \ {0}
    BY <2>1 DEF width_bytes
  <2>3. \A x \in Nat : (8 * x + 7) \div 8 = x
    BY Z3
  <2> HIDE DEF n
  <2> QED
    BY <2>2, <2>3
<1>2. read_be(from, f) = IF f.offset + from + n > Len(data) THEN [k \in 1 .. n |-> 0]
                         ELSE read_field(tail, IF f.width > 64 THEN whole ELSE f)
  BY DEF read_be
<1>3. width_bytes(whole) = n /\ whole.offset = f.offset /\ whole.width = 8 * n
  BY <1>1 DEF width_bytes
<1>4. ASSUME ~(f.offset + from + n > Len(data))
      PROVE  tail \in Seq(Nat) /\ Len(tail) = Len(data) - from
  <2>1. Len(data) \in Nat /\ \A k \in 1 .. Len(data) : data[k] \in Nat
    <3>1. Byte \subseteq Nat
      BY DEF Byte
    <3>2. Len(data) \in Nat /\ \A k \in 1 .. Len(data) : data[k] \in Byte
      OBVIOUS
    <3> QED
      BY <3>1, <3>2
  <2>2. PICK first \in Nat \ {0}, last \in Nat :
          first = from + 1 /\ last = Len(data) /\ first <= last /\ last - first + 1 = Len(data) - from
    <3>1. from + 1 \in Nat \ {0} /\ from + 1 <= Len(data) /\ Len(data) - (from + 1) + 1 = Len(data) - from
      <4> HIDE DEF n
      <4> QED
        BY <1>1, <1>4, <2>1
    <3> QED
      BY <2>1, <3>1
  <2>3. \A k \in first .. last : data[k] \in Nat
    BY <2>1, <2>2
  <2>4. /\ SubSeq(data, first, last) \in Seq(Nat)
        /\ Len(SubSeq(data, first, last)) = IF first <= last THEN last - first + 1 ELSE 0
    BY <2>3, SubSeqProperties
  <2> QED
    BY <2>2, <2>4
<1>5. end_offset(f) = f.offset + n /\ end_offset(whole) = f.offset + n
  BY <1>3 DEF end_offset
<1> HIDE DEF n, tail, whole
<1>6. CASE f.offset + from + n > Len(data)
  BY <1>1, <1>2, <1>6
<1>7. CASE ~(f.offset + from + n > Len(data))
  <2>1. tail \in Seq(Nat) /\ Readable(tail, f) /\ Readable(tail, whole)
    BY <1>1, <1>4, <1>5, <1>7 DEF Readable
  <2>2. read_field(tail, f) \in Seq(Nat)
    BY <2>1, FieldDigits
  <2>3. read_field(tail, whole) \in Seq(Nat)
    <3>1. whole.offset \in Nat /\ whole.width \in Nat \ {0}
      BY <1>1, <1>3
    <3> QED
      BY <2>1, <3>1, FieldDigits
  <2> QED
    BY <1>2, <1>7, <2>2, <2>3
<1> QED
  BY <1>6, <1>7

(* A name the fields have stands for a number. *)
LEMMA FieldNumber ==
  ASSUME data \in Seq(Byte), NEW fields, IsFields(fields), \A f \in Range(fields) : ValidField(f),
         NEW from \in Nat, NEW n \in {f.name : f \in Range(fields)}
  PROVE  NumberOf(read_fields(unique_fields(fields), from)[n]) \in Nat
<1> DEFINE kept == unique_fields(fields)
           f    == FieldNamed(kept, n)
<1>1. IsFields(kept) /\ Range(kept) \subseteq Range(fields) /\ n \in {g.name : g \in Range(kept)}
  BY UniqueFields
<1> HIDE DEF kept
<1>2. f \in Range(kept)
  BY <1>1, NamedField
<1>3. read_fields(kept, from)[n] = read_be(from, f)
  <2>1. {kept[k].name : k \in DOMAIN kept} = {g.name : g \in Range(kept)}
    BY DEF Range
  <2> QED
    BY <1>1, <2>1 DEF read_fields
<1> HIDE DEF f
<1>4. f.offset \in Nat /\ f.width \in Nat \ {0}
  <2>1. f.offset \in Int /\ f.width \in Int /\ ValidField(f)
    BY <1>1, <1>2 DEF IsFields
  <2> QED
    BY <2>1, FieldPlace
<1>5. read_be(from, f) \in Seq(Nat)
  BY <1>4, ReadDigits
<1> QED
  BY <1>3, <1>5, NumberType DEF kept

------------------------------------------------------------------------------
(* What a call relies on of its definition and of the context built of it: *)
(* fields with a place, lengths that are numbers, the count and the length *)
(* among the fields they are looked up in, and whether variants forward.   *)
Placed(fields)   == IsFields(fields) /\ \A f \in Range(fields) : ValidField(f)
NamesIn(fields) == {f.name : f \in Range(fields)}
Callable(p, c) ==
  /\ c.kind \in {"fixed", "discriminated", "multi"} /\ c.parse_length \in Nat
  /\ Placed(p.fields) /\ c.fields = unique_fields(p.fields)
  /\ c.kind = "discriminated" =>
       /\ c.forwards_payload = p.forward
       /\ \A v \in DOMAIN p.variants : p.variant_length[v] \in Nat
  /\ c.kind = "multi" =>
       /\ p.message_count_field \in NamesIn(p.fields)
       /\ p.sub_protocol.total_length \in Nat /\ Placed(p.sub_protocol.fields)
       /\ p.sub_protocol.length_field.name \in NamesIn(p.sub_protocol.fields)

(* A context that is not rejected, and what its class adds to it. *)
LEMMA ContextOf ==
  ASSUME NEW p, NEW fields, NEW others, NEW own,
         DOMAIN own \cap {"ok", "config", "fields", "parse_length"} = {},
         Extended(base_context(p, fields, others), own).ok
  PROVE  LET c == Extended(base_context(p, fields, others), own)
         IN  /\ c.parse_length = parse_length(p) /\ c.fields = unique_fields(fields)
             /\ \A key \in DOMAIN own : c[key] = own[key]
<1> DEFINE acted  == unique_fields(fields)
           raises == \/ TooWide(acted \o others)
                     \/ \E k \in DOMAIN ActionsOf(acted) : ~Supported(ActionsOf(acted)[k].action)
           config == config_fields(acted \o others)
           record == [ok |-> TRUE, config |-> config, fields |-> acted, parse_length |-> parse_length(p)]
           base   == base_context(p, fields, others)
<1>1. base = IF raises THEN NoPlan ELSE record
  BY Zenon DEF base_context
<1>2. /\ DOMAIN record = {"ok", "config", "fields", "parse_length"}
      /\ record.fields = acted /\ record.parse_length = parse_length(p)
  <2> HIDE DEF acted, config
  <2> QED
    OBVIOUS
<1>3. DOMAIN NoPlan = {"ok"} /\ NoPlan.ok = FALSE
  BY DEF NoPlan
<1> HIDE DEF base, raises, record, acted
<1>4. /\ DOMAIN Extended(base, own) = DOMAIN base \cup DOMAIN own
      /\ \A key \in DOMAIN own : Extended(base, own)[key] = own[key]
      /\ \A key \in DOMAIN base \ DOMAIN own : Extended(base, own)[key] = base[key]
  BY BothRecords
<1>5. Extended(base, own).ok
  BY DEF base
<1>6. base = record
  BY <1>1, <1>3, <1>4, <1>5
<1> QED
  BY <1>2, <1>4, <1>6 DEF base, acted

(* The contexts of the three classes the C generator has. *)
ContextIs(p, c, kind) == c.kind = kind /\ c.parse_length = parse_length(p) /\ c.fields = unique_fields(p.fields)
LEMMA FixedContext ==
  ASSUME NEW p, p.class \notin {"Multi", "Discriminated", "Variable"}, build_context(p).ok
  PROVE  ContextIs(p, build_context(p), "fixed")
<1> DEFINE own == [kind |-> "fixed", forwards_payload |-> p.class = "Sideband"]
<1>1. build_context(p) = Extended(base_context(p, p.fields, << >>), own)
  BY DEF build_context
<1>2. DOMAIN own = {"kind", "forwards_payload"} /\ own.kind = "fixed"
  OBVIOUS
<1> HIDE DEF own
<1> QED
  BY <1>1, <1>2, ContextOf DEF ContextIs
LEMMA MultiContext ==
  ASSUME NEW p, p.class = "Multi", build_context(p).ok
  PROVE  ContextIs(p, build_context(p), "multi")
<1> DEFINE own == [kind |-> "multi"]
<1>1. build_context(p) = Extended(base_context(p, p.fields, unique_fields(p.sub_protocol.fields)), own)
  BY DEF build_context
<1>2. DOMAIN own = {"kind"} /\ own.kind = "multi"
  OBVIOUS
<1> HIDE DEF own
<1> QED
  BY <1>1, <1>2, ContextOf DEF ContextIs
LEMMA DiscriminatedContext ==
  ASSUME NEW p, p.class = "Discriminated", build_context(p).ok
  PROVE  ContextIs(p, build_context(p), "discriminated") /\ build_context(p).forwards_payload = p.forward
<1> DEFINE own == [kind |-> "discriminated", forwards_payload |-> p.forward]
<1>1. build_context(p) = Extended(base_context(p, p.fields, variant_config_fields(p)), own)
  BY DEF build_context
<1>2. /\ DOMAIN own = {"kind", "forwards_payload"}
      /\ own.kind = "discriminated" /\ own.forwards_payload = p.forward
  OBVIOUS
<1> HIDE DEF own
<1> QED
  BY <1>1, <1>2, ContextOf DEF ContextIs

(* A field of a valid sequence has its place. *)
LEMMA ValidFields ==
  ASSUME NEW fields, IsFields(fields), \A u \in DOMAIN fields : ValidField(fields[u])
  PROVE  Placed(fields)
  BY Indices DEF Placed

(* A name given to one of the fields. *)
LEMMA NameAmong ==
  ASSUME NEW fields, NEW f \in Range(fields)
  PROVE  f.name \in NamesIn(fields)
  BY DEF NamesIn

(* A length that covers the fields is a number. *)
LEMMA LengthType ==
  ASSUME NEW fields, IsFields(fields), NEW total \in Int, total >= required_length(fields)
  PROVE  total \in Nat
<1>1. required_length(fields) \in Nat
  BY Required
<1> QED
  BY <1>1

(* A sub-protocol that is accepted. *)
LEMMA SubCallable ==
  ASSUME NEW sub, IsSub(sub), ValidSubProtocol(sub)
  PROVE  sub.total_length \in Nat /\ Placed(sub.fields) /\ sub.length_field.name \in NamesIn(sub.fields)
<1>1. CASE sub.class = "LengthPrefixed"
  <2>1. /\ \A u \in DOMAIN sub.fields : ValidField(sub.fields[u])
        /\ sub.total_length >= required_length(sub.fields) /\ sub.length_field \in Range(sub.fields)
    BY <1>1 DEF ValidSubProtocol, ValidLengthPrefixed, ValidFixed
  <2>2. IsFields(sub.fields) /\ sub.total_length \in Int
    BY DEF IsSub
  <2> QED
    BY <2>1, <2>2, ValidFields, NameAmong, LengthType
<1>2. CASE sub.class = "LengthPrefixedSub"
  <2> DEFINE f == sub.length_field
  <2>1. /\ ValidField(f) /\ sub.fields = <<f>> /\ sub.total_length = end_offset(f) /\ IsFields(sub.fields)
    BY <1>2 DEF ValidSubProtocol, IsSub
  <2>2. f \in Range(sub.fields) /\ \A u \in DOMAIN sub.fields : sub.fields[u] = f
    BY <2>1 DEF Range
  <2> HIDE DEF f
  <2>3. Placed(sub.fields)
    BY <2>1, <2>2, ValidFields
  <2>4. end_offset(f) \in Nat
    <3>1. f.offset \in Int /\ f.width \in Int
      BY <2>1, <2>2 DEF IsFields
    <3>2. f.offset \in Nat /\ width_bytes(f) \in Nat \ {0} /\ end_offset(f) = f.offset + width_bytes(f)
      BY <2>1, <3>1, FieldPlace
    <3> QED
      BY <3>2
  <2> QED
    BY <2>1, <2>2, <2>3, <2>4, NameAmong DEF f
<1> QED
  BY <1>1, <1>2 DEF IsSub

(* The context of every definition the constructors and the C generator    *)
(* accept.                                                                 *)
LEMMA ContextFits ==
  ASSUME NEW d, Declared(d), Accepted(Constructed(d)), build_context(Constructed(d)).ok
  PROVE  Callable(Constructed(d), build_context(Constructed(d)))
<1> DEFINE p == Constructed(d)
           c == build_context(p)
<1>1. CASE d.class = "Variable"
  <2> DEFINE by == [fields |-> << >>]
  <2>1. p = Extended(d, by) /\ DOMAIN by = {"fields"}
    BY <1>1 DEF Constructed
  <2> HIDE DEF by, p
  <2>2. p.class = d.class
    <3>1. "class" \in DOMAIN d \ DOMAIN by
      BY <2>1 DEF Declared
    <3> QED
      BY <2>1, <3>1, BothRecords
  <2>3. c = NoPlan
    BY <1>1, <2>2 DEF build_context
  <2> QED
    BY <2>3 DEF NoPlan, p
<1>2. CASE DeclaredFixed(d)
  <2>1. p = WithLength(d)
    BY <1>2 DEF Constructed, DeclaredFixed
  <2>2. p.class = d.class /\ p.fields = d.fields /\ p.total_length \in Int
    BY <1>2, <2>1, Lengths DEF DeclaredFixed
  <2> HIDE DEF p
  <2>3. ValidFixed(p)
    BY <1>2, <2>2 DEF DeclaredFixed, Accepted, ValidLengthPrefixed, p
  <2>4. p.class \notin {"Multi", "Discriminated", "Variable"}
    BY <1>2, <2>2 DEF DeclaredFixed
  <2>5. c.kind = "fixed" /\ c.parse_length = parse_length(p) /\ c.fields = unique_fields(p.fields)
    BY <2>4, FixedContext DEF ContextIs, p
  <2>6. Placed(p.fields)
    BY <1>2, <2>2, <2>3, ValidFields DEF DeclaredFixed, ValidFixed
  <2>7. parse_length(p) \in Nat
    <3>1. parse_length(p) = p.total_length
      BY <1>2, <2>2 DEF DeclaredFixed, parse_length
    <3> QED
      BY <2>2, <2>3, <2>6, <3>1, LengthType DEF ValidFixed, Placed
  <2> HIDE DEF c
  <2>8. Callable(p, c)
    BY <2>5, <2>6, <2>7 DEF Callable
  <2> QED
    BY <2>8 DEF p, c
<1>3. CASE DeclaredMulti(d)
  <2>1. p.class = "Multi" /\ IsFields(p.fields) /\ p.total_length \in Int /\ IsSub(p.sub_protocol)
    BY <1>3, MultiIs
  <2> HIDE DEF p
  <2>2. ValidMulti(p)
    BY <2>1 DEF Accepted, p
  <2>4. c.kind = "multi" /\ c.parse_length = parse_length(p) /\ c.fields = unique_fields(p.fields)
    BY <2>1, MultiContext DEF ContextIs, p
  <2>5. Placed(p.fields)
    BY <2>1, <2>2, ValidFields DEF ValidMulti, ValidFixed
  <2>6. parse_length(p) \in Nat
    <3>1. parse_length(p) = p.total_length
      BY <2>1 DEF parse_length
    <3> QED
      BY <2>1, <2>2, <3>1, LengthType DEF ValidMulti, ValidFixed
  <2>7. p.message_count_field \in NamesIn(p.fields)
    <3>1. PICK u \in DOMAIN p.fields : p.fields[u].name = p.message_count_field
      BY <2>2 DEF ValidMulti
    <3> QED
      BY <2>1, <3>1, Indices, NameAmong
  <2>8. /\ p.sub_protocol.total_length \in Nat /\ Placed(p.sub_protocol.fields)
        /\ p.sub_protocol.length_field.name \in NamesIn(p.sub_protocol.fields)
    BY <2>1, <2>2, SubCallable DEF ValidMulti
  <2> HIDE DEF c
  <2>9. Callable(p, c)
    BY <2>4, <2>5, <2>6, <2>7, <2>8 DEF Callable
  <2> QED
    BY <2>9 DEF p, c
<1>4. CASE DeclaredDiscriminated(d)
  <2>1. p = WithVariants(d)
    BY <1>4 DEF Constructed, DeclaredDiscriminated
  <2>2. p.class = "Discriminated" /\ IsVariants(p)
    BY <1>4, <2>1, WithVariantsIs DEF DeclaredDiscriminated
  <2> HIDE DEF p
  <2>3. ValidDiscriminated(p)
    BY <2>2 DEF Accepted, p
  <2>4. c.forwards_payload = p.forward
    BY <2>2, DiscriminatedContext DEF p
  <2>5. c.kind = "discriminated" /\ c.parse_length = parse_length(p) /\ c.fields = unique_fields(p.fields)
    BY <2>2, DiscriminatedContext DEF ContextIs, p
  <2>6. Placed(p.fields)
    BY <2>2, <2>3, ValidFields DEF IsVariants, ValidDiscriminated
  <2>7. parse_length(p) \in Nat
    <3>1. parse_length(p) = required_length(p.fields)
      BY <2>2 DEF parse_length
    <3> QED
      BY <2>6, <3>1, Required DEF Placed
  <2>8. \A v \in DOMAIN p.variants : p.variant_length[v] \in Nat
    BY <2>2, <2>3, CommonPlaces
  <2> HIDE DEF c
  <2>9. Callable(p, c)
    BY <2>4, <2>5, <2>6, <2>7, <2>8 DEF Callable
  <2> QED
    BY <2>9 DEF p, c
<1> QED
  BY <1>1, <1>2, <1>3, <1>4 DEF Declared

------------------------------------------------------------------------------
(* Results.  One that differs in other entries is as sound.                *)
LEMMA SameSlots ==
  ASSUME NEW n \in Nat, NEW r, Sound(r, n), NEW r2, DOMAIN r2 = DOMAIN NoResult,
         r2.message_count \in Nat, r2.messages = r.messages, r2.forwarded = r.forwarded
  PROVE  Sound(r2, n)
  BY DEF Sound

(* So is one that forwards a part of the buffer. *)
LEMMA Forwards ==
  ASSUME NEW n \in Nat, NEW r, Sound(r, n), NEW r2, DOMAIN r2 = DOMAIN NoResult,
         r2.message_count = r.message_count, r2.messages = r.messages,
         NEW s, r2.forwarded = <<s>>, Within(s, n)
  PROVE  Sound(r2, n)
<1>1. <<s>> \in Seq(Range(<<s>>)) /\ \A k \in DOMAIN <<s>> : <<s>>[k] = s
  BY DEF Range
<1> QED
  BY <1>1 DEF Sound

(* So is one with a message more. *)
LEMMA MessageMore ==
  ASSUME NEW n \in Nat, NEW r, Sound(r, n), NEW m, SoundMessage(m, n), NEW r2, DOMAIN r2 = DOMAIN NoResult,
         r2.message_count = r.message_count, r2.messages = Append(r.messages, m),
         r2.forwarded = r.forwarded
  PROVE  Sound(r2, n)
<1> DEFINE S == Range(r.messages) \cup {m}
<1>1. r.messages \in Seq(S) /\ m \in S
  BY DEF Sound
<1> HIDE DEF S
<1>2. r2.messages \in Seq(S)
  BY <1>1, Appended
<1>3. r2.messages \in Seq(Range(r2.messages))
  BY <1>2, OwnRange
<1>4. /\ Len(r2.messages) = Len(r.messages) + 1 /\ r2.messages[Len(r.messages) + 1] = m
      /\ \A k \in 1 .. Len(r.messages) : r2.messages[k] = r.messages[k]
  BY <1>1, AppendProperties
<1>5. \A k \in DOMAIN r2.messages : SoundMessage(r2.messages[k], n)
  <2>1. DOMAIN r2.messages = (1 .. Len(r.messages)) \cup {Len(r.messages) + 1} /\ DOMAIN r.messages = 1 .. Len(r.messages)
    BY <1>1, <1>2, <1>4
  <2> QED
    BY <1>4, <2>1 DEF Sound
<1> QED
  BY <1>3, <1>5 DEF Sound

(* The empty result. *)
LEMMA NothingSaid ==
  ASSUME NEW n \in Nat
  PROVE  /\ Sound(NoResult, n)
         /\ DOMAIN NoResult = {"flags", "values", "variant", "data", "destination", "forwarded",
                               "message_count", "messages"}
         /\ NoResult.forwarded = << >> /\ NoResult.messages = << >> /\ NoResult.message_count = 0
<1>1. << >> \in Seq(Range(<< >>)) /\ DOMAIN << >> = {}
  BY DEF Range
<1>2. /\ DOMAIN NoResult = {"flags", "values", "variant", "data", "destination", "forwarded",
                            "message_count", "messages"}
      /\ NoResult.forwarded = << >> /\ NoResult.messages = << >> /\ NoResult.message_count = 0
  BY DEF NoResult
<1> QED
  BY <1>1, <1>2 DEF Sound

(* What the parts of the function start from. *)
Reading(p, c) ==
  /\ Callable(p, c) /\ data \in Seq(Byte) /\ Pointed
  /\ pc = "loop" => i \in Nat /\ offset \in Nat

(* What has been read of a header says nothing of the payload yet. *)
LEMMA HeaderSays ==
  ASSUME NEW p, NEW c, Reading(p, c), pc = "called"
  PROVE  /\ Sound(Header(c), Len(data)) /\ Header(c).message_count = 0 /\ DOMAIN Header(c) = DOMAIN NoResult
         /\ Header(c).values = read_fields(c.fields, 0) /\ Header(c).forwarded = << >>
         /\ Sound(result, Len(data)) /\ DOMAIN result = DOMAIN NoResult /\ Len(data) \in Nat
<1>1. result = NoResult /\ Len(data) \in Nat /\ Sound(result, Len(data))
  BY DEF Reading, Pointed
<1> DEFINE values == read_fields(c.fields, 0)
           verdict == action_lines(c.fields, values, cfg)
           flags == IF verdict.dropped THEN {"DROPPED"} ELSE {}
<1>2. Header(c) = [NoResult EXCEPT !.values = values, !.destination = verdict.destination, !.flags = flags]
  BY <1>1 DEF Header
<1> HIDE DEF values, verdict, flags
<1>3. /\ DOMAIN Header(c) = DOMAIN NoResult
      /\ Header(c).forwarded = NoResult.forwarded /\ Header(c).messages = NoResult.messages
      /\ Header(c).message_count = 0 /\ Header(c).values = values
  BY <1>1, <1>2, NothingSaid
<1>4. Sound(Header(c), Len(data))
  BY <1>1, <1>3, SameSlots
<1> QED
  BY <1>1, <1>3, <1>4, NothingSaid DEF values, Sound

(* A part of the function up to a return. *)
LEMMA ShortInputSound ==
  ASSUME NEW p, NEW c, Reading(p, c), ShortInput(c)
  PROVE  Sound(result', Len(data)) /\ pc' = "returned" /\ data' = data
<1>1. /\ result' = [result EXCEPT !.flags = {"SHORT_INPUT"}] /\ pc' = "returned" /\ data' = data
      /\ pc = "called"
  BY DEF ShortInput, Return
<1>2. Sound(result, Len(data)) /\ DOMAIN result = DOMAIN NoResult /\ Len(data) \in Nat
  BY <1>1, HeaderSays
<1>3. /\ DOMAIN result' = DOMAIN NoResult /\ result'.message_count = result.message_count
      /\ result'.messages = result.messages /\ result'.forwarded = result.forwarded
  BY <1>1, <1>2, NothingSaid
<1>4. result.message_count \in Nat
  BY <1>2 DEF Sound
<1> QED
  BY <1>1, <1>2, <1>3, <1>4, SameSlots

(* A header and what is behind it. *)
LEMMA FixedSound ==
  ASSUME NEW p, NEW c, Reading(p, c), ParseFixed(c)
  PROVE  Sound(result', Len(data)) /\ pc' = "returned" /\ data' = data
<1> DEFINE r == Header(c)
           s == Bytes_t(c.parse_length, Len(data) - c.parse_length)
<1>1. /\ pc' = "returned" /\ data' = data /\ pc = "called" /\ Len(data) >= c.parse_length
      /\ \/ result' = r
         \/ result' = [r EXCEPT !.forwarded = <<s>>]
  BY DEF ParseFixed, Return
<1>2. Sound(r, Len(data)) /\ DOMAIN r = DOMAIN NoResult /\ Len(data) \in Nat
  BY <1>1, HeaderSays
<1> HIDE DEF r
<1>3. Within(s, Len(data))
  BY <1>1, <1>2 DEF Reading, Callable, Bytes_t, Within
<1> HIDE DEF s
<1>4. CASE result' = r
  BY <1>1, <1>2, <1>4
<1>5. CASE result' = [r EXCEPT !.forwarded = <<s>>]
  <2>1. /\ DOMAIN result' = DOMAIN NoResult /\ result'.message_count = r.message_count
        /\ result'.messages = r.messages /\ result'.forwarded = <<s>>
    BY <1>2, <1>5, NothingSaid
  <2> QED
    BY <1>1, <1>2, <1>3, <2>1, Forwards
<1> QED
  BY <1>1, <1>4, <1>5

(* The common fields, and those of the variant if its bytes are there. *)
LEMMA DiscriminatedSound ==
  ASSUME NEW p, NEW c, Reading(p, c), ParseDiscriminated(p, c)
  PROVE  Sound(result', Len(data)) /\ pc' = "returned" /\ data' = data
<1> DEFINE r     == Header(c)
           key   == NumberOf(r.values[p.discriminator.name])
           s     == Bytes_t(p.variant_length[key], Len(data) - p.variant_length[key])
           own   == read_fields(unique_fields(p.variants[key]), 0)
           taken == [r EXCEPT !.variant = key, !.data = own,
                              !.forwarded = IF c.forwards_payload THEN <<s>> ELSE << >>]
           short == [r EXCEPT !.variant = key, !.flags = @ \cup {"SHORT_INPUT"}]
           other == [r EXCEPT !.flags = @ \cup {"UNKNOWN_VARIANT"}]
<1>1. /\ pc' = "returned" /\ data' = data /\ pc = "called" /\ c.kind = "discriminated"
      /\ result' = IF Enough(p, key) THEN taken ELSE IF key \in DOMAIN p.variants THEN short ELSE other
  BY DEF ParseDiscriminated, Return
<1>2. /\ Sound(r, Len(data)) /\ DOMAIN r = DOMAIN NoResult /\ Len(data) \in Nat /\ r.message_count \in Nat
  BY <1>1, HeaderSays
<1> HIDE DEF r, key, own
<1>3. ASSUME Enough(p, key) PROVE Within(s, Len(data))
  <2>1. /\ p.variant_length[key] \in Nat /\ Len(data) >= p.variant_length[key]
    BY <1>1, <1>3 DEF Enough, Reading, Callable
  <2> QED
    BY <1>2, <2>1 DEF Bytes_t, Within
<1> HIDE DEF s
<1>4. /\ DOMAIN taken = DOMAIN NoResult /\ taken.message_count = r.message_count /\ taken.messages = r.messages
      /\ taken.forwarded = IF c.forwards_payload THEN <<s>> ELSE << >>
  BY <1>2, NothingSaid
<1>5. /\ DOMAIN short = DOMAIN NoResult /\ short.message_count = r.message_count /\ short.messages = r.messages
      /\ short.forwarded = r.forwarded
  BY <1>2, NothingSaid
<1>6. /\ DOMAIN other = DOMAIN NoResult /\ other.message_count = r.message_count /\ other.messages = r.messages
      /\ other.forwarded = r.forwarded
  BY <1>2, NothingSaid
<1> HIDE DEF taken, short, other
<1>7. CASE Enough(p, key)
  <2>1. CASE c.forwards_payload
    BY <1>1, <1>2, <1>3, <1>4, <1>7, <2>1, Forwards
  <2>2. CASE ~c.forwards_payload
    <3>1. taken.forwarded = << >>
      BY <1>4, <2>2
    <3>2. << >> \in Seq(Range(<< >>)) /\ DOMAIN << >> = {}
      BY DEF Range
    <3>3. Sound(taken, Len(data))
      BY <1>2, <1>4, <3>1, <3>2 DEF Sound
    <3> QED
      BY <1>1, <1>7, <3>3
  <2> QED
    BY <2>1, <2>2
<1>8. CASE ~Enough(p, key) /\ key \in DOMAIN p.variants
  BY <1>1, <1>2, <1>5, <1>8, SameSlots
<1>9. CASE ~Enough(p, key) /\ key \notin DOMAIN p.variants
  BY <1>1, <1>2, <1>6, <1>9, SameSlots
<1> QED
  BY <1>7, <1>8, <1>9

(* The outer header, and the loop begins. *)
LEMMA OuterSound ==
  ASSUME NEW p, NEW c, Reading(p, c), ParseOuter(p, c)
  PROVE  /\ Sound(result', Len(data)) /\ pc' = "loop" /\ data' = data
         /\ c.kind = "multi" /\ i' \in Nat /\ offset' \in Nat
<1> DEFINE r     == Header(c)
           n     == NumberOf(r.values[p.message_count_field])
           over  == IF n > MAX_MESSAGES THEN {"TOO_MANY_MESSAGES"} ELSE {}
           said  == [r EXCEPT !.message_count = n, !.flags = @ \cup over]
<1>1. /\ pc' = "loop" /\ data' = data /\ pc = "called" /\ c.kind = "multi" /\ i' = 0 /\ offset' = c.parse_length
      /\ result' = said
  BY DEF ParseOuter
<1>2. /\ Sound(r, Len(data)) /\ DOMAIN r = DOMAIN NoResult /\ Len(data) \in Nat
      /\ r.values = read_fields(c.fields, 0)
  BY <1>1, HeaderSays
<1>3. /\ c.fields = unique_fields(p.fields) /\ Placed(p.fields) /\ p.message_count_field \in NamesIn(p.fields)
      /\ c.parse_length \in Nat /\ data \in Seq(Byte)
  BY <1>1 DEF Reading, Callable
<1>4. n \in Nat
  <2>1. NumberOf(read_fields(unique_fields(p.fields), 0)[p.message_count_field]) \in Nat
    <3>1. 0 \in Nat /\ IsFields(p.fields) /\ \A f \in Range(p.fields) : ValidField(f)
      BY <1>3 DEF Placed
    <3> QED
      BY <1>3, <3>1, FieldNumber DEF NamesIn
  <2> HIDE DEF r
  <2> QED
    BY <1>2, <1>3, <2>1
<1> HIDE DEF r, n, over
<1>5. /\ DOMAIN said = DOMAIN NoResult /\ said.message_count = n /\ said.messages = r.messages
      /\ said.forwarded = r.forwarded
  BY <1>2, NothingSaid
<1> HIDE DEF said
<1>6. Sound(said, Len(data))
  BY <1>2, <1>4, <1>5, SameSlots
<1> QED
  BY <1>1, <1>3, <1>6

(* What the loop starts from. *)
LEMMA LoopSays ==
  ASSUME NEW p, NEW c, Reading(p, c), pc = "loop"
  PROVE  /\ Sound(result, Len(data)) /\ DOMAIN result = DOMAIN NoResult /\ Len(data) \in Nat
         /\ i \in Nat /\ offset \in Nat
         /\ \E s : Forwarded = <<s>> /\ Within(s, Len(data))
<1>1. /\ Sound(result, Len(data)) /\ Len(data) \in Nat /\ i \in Nat /\ offset \in Nat
  BY DEF Reading, Pointed
<1> DEFINE s == Bytes_t(0, Min({offset, Len(data)}))
<1>2. Min({offset, Len(data)}) = IF offset <= Len(data) THEN offset ELSE Len(data)
  <2>1. \A x, y \in Int : Min({x, y}) = IF x <= y THEN x ELSE y
    BY DEF Min
  <2> QED
    BY <1>1, <2>1
<1>3. Within(s, Len(data))
  <2>1. s.from = 0 /\ s.length = IF offset <= Len(data) THEN offset ELSE Len(data)
    BY <1>2 DEF Bytes_t
  <2> HIDE DEF s
  <2> QED
    BY <1>1, <2>1 DEF Within
<1>4. Forwarded = <<s>>
  BY DEF Forwarded
<1> QED
  BY <1>1, <1>3, <1>4 DEF Sound

(* A message that is not accepted, with which the loop stops. *)
LEMMA StopsSound ==
  ASSUME NEW p, NEW c, Reading(p, c), pc = "loop",
         NEW m, SoundMessage(m, Len(data)), NEW flags,
         NEW r2, r2 = [result EXCEPT !.flags = flags, !.forwarded = Forwarded, !.messages = Append(@, m)]
  PROVE  Sound(r2, Len(data))
<1>1. /\ Sound(result, Len(data)) /\ DOMAIN result = DOMAIN NoResult /\ Len(data) \in Nat
      /\ \E s : Forwarded = <<s>> /\ Within(s, Len(data))
  BY LoopSays
<1>2. PICK s : Forwarded = <<s>> /\ Within(s, Len(data))
  BY <1>1
<1> DEFINE more == [result EXCEPT !.messages = Append(result.messages, m)]
<1>3. /\ DOMAIN more = DOMAIN NoResult /\ more.message_count = result.message_count
      /\ more.messages = Append(result.messages, m) /\ more.forwarded = result.forwarded
  BY <1>1, NothingSaid
<1>4. /\ DOMAIN r2 = DOMAIN NoResult /\ r2.message_count = result.message_count
      /\ r2.messages = Append(result.messages, m) /\ r2.forwarded = <<s>>
  BY <1>1, <1>2, NothingSaid
<1> HIDE DEF more
<1>5. Sound(more, Len(data))
  BY <1>1, <1>3, MessageMore
<1> QED
  BY <1>1, <1>2, <1>3, <1>4, <1>5, Forwards

(* No room for a sub-header. *)
LEMMA NoSubHeaderSound ==
  ASSUME NEW p, NEW c, Reading(p, c), NoSubHeader(p)
  PROVE  Sound(result', Len(data)) /\ pc' = "returned" /\ data' = data
<1> DEFINE m == [flags |-> {"SHORT_INPUT"}]
           flags == result.flags \cup {"TRUNCATED_MESSAGE"}
<1>1. /\ pc' = "returned" /\ data' = data /\ pc = "loop"
      /\ result' = [result EXCEPT !.flags = flags, !.forwarded = Forwarded, !.messages = Append(@, m)]
  BY DEF NoSubHeader, Return, InLoop
<1>2. SoundMessage(m, Len(data))
  BY DEF SoundMessage, ok, Has
<1> HIDE DEF m, flags
<1> QED
  BY <1>1, <1>2, StopsSound

(* No room for its payload. *)
LEMMA TruncatedSound ==
  ASSUME NEW p, NEW c, Reading(p, c), Truncated(p)
  PROVE  Sound(result', Len(data)) /\ pc' = "returned" /\ data' = data
<1> DEFINE fields == SubFields(p)
           m == [flags |-> {"TRUNCATED_MESSAGE"}, values |-> fields]
           flags == result.flags \cup {"TRUNCATED_MESSAGE"}
<1>1. /\ pc' = "returned" /\ data' = data /\ pc = "loop"
      /\ result' = [result EXCEPT !.flags = flags, !.forwarded = Forwarded, !.messages = Append(@, m)]
  BY DEF Truncated, Return, InLoop
<1> HIDE DEF fields
<1>2. SoundMessage(m, Len(data))
  BY DEF SoundMessage, ok, Has
<1> HIDE DEF m, flags
<1> QED
  BY <1>1, <1>2, StopsSound

(* A message that is there: its payload is in the buffer. *)
LEMMA TakeSound ==
  ASSUME NEW p, NEW c, Reading(p, c), c.kind = "multi", TakeMessage(p)
  PROVE  Sound(result', Len(data)) /\ pc = "loop" /\ pc' = "loop" /\ data' = data /\ i' \in Nat /\ offset' \in Nat
<1> DEFINE length == SubLength(p)
           start  == PayloadAt(p)
           s      == Bytes_t(start, length)
           fields == SubFields(p)
           m      == [flags |-> {}, values |-> fields, payload |-> s]
<1>1. /\ pc' = pc /\ data' = data /\ pc = "loop" /\ i' = i + 1 /\ offset' = start + length
      /\ Room(start, length)
      /\ result' = [result EXCEPT !.messages = Append(@, m)]
  BY DEF TakeMessage, WholeMessage, InLoop, NextOffset
<1>2. /\ Sound(result, Len(data)) /\ DOMAIN result = DOMAIN NoResult /\ Len(data) \in Nat
      /\ i \in Nat /\ offset \in Nat
  BY <1>1, LoopSays
<1>3. /\ p.sub_protocol.total_length \in Nat /\ Placed(p.sub_protocol.fields) /\ data \in Seq(Byte)
      /\ p.sub_protocol.length_field.name \in NamesIn(p.sub_protocol.fields)
  BY DEF Reading, Callable
<1>4. length \in Nat
  <2>1. IsFields(p.sub_protocol.fields) /\ \A f \in Range(p.sub_protocol.fields) : ValidField(f)
    BY <1>3 DEF Placed
  <2>2. NumberOf(read_fields(unique_fields(p.sub_protocol.fields), offset)[p.sub_protocol.length_field.name]) \in Nat
    BY <1>2, <1>3, <2>1, FieldNumber DEF NamesIn
  <2> QED
    BY <2>2 DEF SubLength, SubFields
<1>5. start \in Nat
  BY <1>2, <1>3 DEF PayloadAt
<1> HIDE DEF length, start, fields
<1>6. Within(s, Len(data))
  BY <1>1, <1>2, <1>4, <1>5 DEF Within, Room, Bytes_t
<1> HIDE DEF s
<1>7. SoundMessage(m, Len(data))
  BY <1>6 DEF SoundMessage, ok, Has
<1> HIDE DEF m
<1>8. /\ DOMAIN result' = DOMAIN NoResult /\ result'.message_count = result.message_count
      /\ result'.messages = Append(result.messages, m) /\ result'.forwarded = result.forwarded
  BY <1>1, <1>2, NothingSaid
<1>9. Sound(result', Len(data))
  BY <1>2, <1>7, <1>8, MessageMore
<1> QED
  BY <1>1, <1>2, <1>4, <1>5, <1>9

(* The loop has counted all messages. *)
LEMMA LoopEndsSound ==
  ASSUME NEW p, NEW c, Reading(p, c), LoopEnds
  PROVE  Sound(result', Len(data)) /\ pc' = "returned" /\ data' = data
<1>1. /\ pc' = "returned" /\ data' = data /\ pc = "loop"
      /\ result' = [result EXCEPT !.forwarded = Forwarded]
  BY DEF LoopEnds, Return
<1>2. /\ Sound(result, Len(data)) /\ DOMAIN result = DOMAIN NoResult /\ Len(data) \in Nat
      /\ \E s : Forwarded = <<s>> /\ Within(s, Len(data))
  BY <1>1, LoopSays
<1>3. PICK s : Forwarded = <<s>> /\ Within(s, Len(data))
  BY <1>2
<1>4. /\ DOMAIN result' = DOMAIN NoResult /\ result'.message_count = result.message_count
      /\ result'.messages = result.messages /\ result'.forwarded = <<s>>
  BY <1>1, <1>2, <1>3, NothingSaid
<1> QED
  BY <1>1, <1>2, <1>3, <1>4, Forwards

------------------------------------------------------------------------------
(* The tool chain.  A job's chain of definitions.                          *)
LEMMA Chain ==
  ASSUME job \in DOMAIN Jobs
  PROVE  /\ Len(Jobs[job].chain) \in Nat \ {0} /\ Links = 1 .. Len(Jobs[job].chain)
         /\ \A k \in Links : Declared(Jobs[job].chain[k])
         /\ \A t \in Jobs[job].tests : t.packet \in Seq(Byte)
<1>1. /\ Jobs[job].chain \in Seq(Range(Jobs[job].chain)) /\ Jobs[job].chain # << >>
      /\ \A d \in Range(Jobs[job].chain) : Declared(d)
      /\ \A t \in Jobs[job].tests : t.packet \in Seq(Byte)
  BY JobsAssumption
<1>2. Links = DOMAIN Jobs[job].chain
  BY DEF Links
<1> DEFINE chain == Jobs[job].chain
<1>3. chain \in Seq(Range(chain)) /\ chain # << >> /\ (\A k \in DOMAIN chain : chain[k] \in Range(chain))
  BY <1>1 DEF Range
<1> HIDE DEF chain
<1>4. Len(chain) \in Nat \ {0} /\ DOMAIN chain = 1 .. Len(chain)
  BY <1>3
<1> QED
  BY <1>1, <1>2, <1>3, <1>4 DEF chain

(* The call in hand is one of a link that was generated. *)
LEMMA Called ==
  ASSUME CallInv, InHand
  PROVE  /\ link \in Links /\ Reading(Protocol(link), contexts[link])
         /\ Head(queue).bytes \in Seq(Byte)
         /\ queue \in Seq([link : Links, bytes : Seq(Byte)]) /\ queue # << >>
         /\ job \in DOMAIN Jobs
<1>1. /\ stage = "running" /\ queue # << >> /\ queue \in Seq([link : Links, bytes : Seq(Byte)])
      /\ job \in DOMAIN Jobs /\ data \in Seq(Byte)
      /\ \A k \in Links : Accepted(Protocol(k))
      /\ contexts = [k \in Links |-> build_context(Protocol(k))] /\ \A k \in Links : contexts[k].ok
      /\ Pointed /\ (pc = "loop" => i \in Nat /\ offset \in Nat)
  BY DEF CallInv, InHand, Generated, Queued, Looping
<1>2. Head(queue) \in [link : Links, bytes : Seq(Byte)]
  BY <1>1, HeadTailProperties
<1>3. link \in Links /\ Head(queue).bytes \in Seq(Byte)
  BY <1>2 DEF link
<1>4. Declared(Jobs[job].chain[link])
  BY <1>1, <1>3, Chain
<1>5. Callable(Protocol(link), contexts[link])
  <2>1. contexts[link] = build_context(Protocol(link)) /\ contexts[link].ok /\ Accepted(Protocol(link))
    BY <1>1, <1>3
  <2>2. Protocol(link) = Constructed(Jobs[job].chain[link])
    BY DEF Protocol
  <2> QED
    BY <1>4, <2>1, <2>2, ContextFits
<1> QED
  BY <1>1, <1>3, <1>5 DEF Reading

(* What is generated and queued stays, as long as nothing is. *)
LEMMA Standing ==
  ASSUME CallInv, UNCHANGED <<script, queue>>
  PROVE  /\ Generated' /\ (stage' = "running" => queue' \in Seq([link : Links', bytes : Seq(Byte)]))
         /\ link' = link /\ contexts' = contexts /\ (InHand => InHand')
<1>1. stage' = stage /\ job' = job /\ contexts' = contexts /\ queue' = queue
  BY DEF script
<1>2. Links' = Links /\ \A k : Protocol(k)' = Protocol(k)
  BY <1>1 DEF Links, Protocol
<1>3. Generated'
  BY <1>1, <1>2 DEF CallInv, Generated
<1>4. link' = link
  BY <1>1 DEF link
<1> QED
  BY <1>1, <1>2, <1>3, <1>4 DEF CallInv, Queued, InHand

(* A step of the emitted function. *)
LEMMA ParseKeeps ==
  ASSUME CallInv, Parse
  PROVE  CallInv'
<1> DEFINE p == Protocol(link)
           c == contexts[link]
<1>1. InHand /\ Step(p, c) /\ UNCHANGED <<script, queue>>
  BY DEF Parse
<1>2. Reading(p, c)
  BY <1>1, Called
<1>3. /\ Generated' /\ (stage' = "running" => queue' \in Seq([link : Links', bytes : Seq(Byte)]))
      /\ link' = link /\ contexts' = contexts /\ InHand'
  BY <1>1, Standing
<1>4. pc = "loop" => c.kind = "multi"
  BY DEF CallInv, Looping
<1> HIDE DEF p
<1>5. /\ Sound(result', Len(data)) /\ data' = data
      /\ \/ pc' = "returned"
         \/ pc' = "loop" /\ c.kind = "multi" /\ i' \in Nat /\ offset' \in Nat
  <2> HIDE DEF c
  <2>1. CASE ShortInput(c)
    BY <1>2, <2>1, ShortInputSound
  <2>2. CASE ParseFixed(c)
    BY <1>2, <2>2, FixedSound
  <2>3. CASE ParseDiscriminated(p, c)
    BY <1>2, <2>3, DiscriminatedSound
  <2>4. CASE ParseOuter(p, c)
    BY <1>2, <2>4, OuterSound
  <2>5. CASE NoSubHeader(p)
    BY <1>2, <2>5, NoSubHeaderSound
  <2>6. CASE Truncated(p)
    BY <1>2, <2>6, TruncatedSound
  <2>7. CASE TakeMessage(p)
    <3>1. c.kind = "multi"
      BY <1>4, <2>7 DEF TakeMessage, WholeMessage, InLoop
    <3> QED
      BY <1>2, <2>7, <3>1, TakeSound
  <2>8. CASE LoopEnds
    BY <1>2, <2>8, LoopEndsSound
  <2> QED
    BY <1>1, <2>1, <2>2, <2>3, <2>4, <2>5, <2>6, <2>7, <2>8 DEF Step, c
<1>6. Queued'
  BY <1>3, <1>5 DEF CallInv, Queued
<1>7. Pointed'
  <2>1. Sound(result, Len(data))'
    BY <1>5
  <2> QED
    BY <1>5, <2>1 DEF Pointed
<1>8. Looping'
  BY <1>3, <1>5 DEF Looping
<1> QED
  BY <1>3, <1>6, <1>7, <1>8 DEF CallInv

(* A buffer is presented. *)
LEMMA PresentKeeps ==
  ASSUME CallInv, Present
  PROVE  CallInv'
<1>1. /\ InHand /\ UNCHANGED <<script, queue>> /\ pc = "idle" /\ pc' = "called"
      /\ data' = Head(queue).bytes /\ result' = result
  BY DEF Present, Call
<1>2. /\ Generated' /\ (stage' = "running" => queue' \in Seq([link : Links', bytes : Seq(Byte)])) /\ InHand'
  BY <1>1, Standing
<1>3. data' \in Seq(Byte) /\ result' = NoResult
  <2>1. Head(queue).bytes \in Seq(Byte)
    BY <1>1, Called
  <2> QED
    BY <1>1, <2>1 DEF CallInv, Pointed
<1>4. Queued'
  BY <1>2, <1>3 DEF Queued
<1>5. Pointed'
  <2>1. Len(data') \in Nat
    BY <1>3
  <2>2. Sound(result', Len(data'))
    BY <1>3, <2>1, NothingSaid
  <2> QED
    BY <1>3, <2>2 DEF Pointed
<1>6. Looping'
  BY <1>1 DEF Looping
<1> QED
  BY <1>2, <1>4, <1>5, <1>6 DEF CallInv

(* A slice within a buffer consists of bytes. *)
LEMMA SliceType ==
  ASSUME data \in Seq(Byte), NEW slice, Within(slice, Len(data))
  PROVE  SliceBytes(slice) \in Seq(Byte)
<1>1. PICK from \in Nat, length \in Nat :
        from = slice.from /\ length = slice.length /\ from + length <= Len(data)
  BY DEF Within
<1>2. \A k \in from + 1 .. from + length : data[k] \in Byte
  <2>1. Len(data) \in Nat /\ \A k \in 1 .. Len(data) : data[k] \in Byte
    OBVIOUS
  <2> QED
    BY <1>1, <2>1
<1>3. from + 1 \in Int /\ from + length \in Int
  BY <1>1
<1>4. SubSeq(data, from + 1, from + length) \in Seq(Byte)
  BY <1>2, <1>3, SubSeqProperties
<1> QED
  BY <1>1, <1>4 DEF SliceBytes

(* So the buffers that are handed on do. *)
LEMMA SlicesType ==
  ASSUME CallInv
  PROVE  Slices \in Seq(Seq(Byte))
<1>1. Sound(result, Len(data)) /\ data \in Seq(Byte) /\ << >> \in Seq(Byte)
  BY DEF CallInv, Pointed, Queued
<1>2. CASE contexts[link].kind # "multi"
  <2> DEFINE part == IF result.forwarded = << >> THEN << >> ELSE SliceBytes(result.forwarded[1])
  <2>1. part \in Seq(Byte)
    <3>1. CASE result.forwarded = << >>
      BY <1>1, <3>1
    <3>2. CASE result.forwarded # << >>
      <4>1. 1 \in DOMAIN result.forwarded
        BY <1>1, <3>2 DEF Sound
      <4>2. Within(result.forwarded[1], Len(data))
        BY <1>1, <4>1 DEF Sound
      <4>3. SliceBytes(result.forwarded[1]) \in Seq(Byte)
        BY <1>1, <4>2, SliceType
      <4> QED
        BY <3>2, <4>3
    <3> QED
      BY <3>1, <3>2
  <2>2. Slices = <<part>>
    BY <1>2 DEF Slices
  <2> HIDE DEF part
  <2> QED
    BY <2>1, <2>2
<1>3. CASE contexts[link].kind = "multi"
  <2> DEFINE part(k) == IF k \in DOMAIN result.messages /\ ok(result.messages[k])
                        THEN SliceBytes(result.messages[k].payload) ELSE << >>
  <2>1. parsed_message_count \in Nat
    <3>1. \A x, y \in Int : Min({x, y}) = IF x <= y THEN x ELSE y
      BY DEF Min
    <3>2. result.message_count \in Nat /\ MAX_MESSAGES \in Nat
      BY <1>1, MaxMessagesAssumption DEF Sound
    <3> QED
      BY <3>1, <3>2 DEF parsed_message_count
  <2>2. ASSUME NEW k PROVE part(k) \in Seq(Byte)
    <3>1. CASE k \in DOMAIN result.messages /\ ok(result.messages[k])
      <4>1. Within(result.messages[k].payload, Len(data))
        BY <1>1, <3>1 DEF Sound, SoundMessage
      <4>2. SliceBytes(result.messages[k].payload) \in Seq(Byte)
        BY <1>1, <4>1, SliceType
      <4> QED
        BY <3>1, <4>2
    <3>2. CASE ~(k \in DOMAIN result.messages /\ ok(result.messages[k]))
      BY <1>1, <3>2
    <3> QED
      BY <3>1, <3>2
  <2>3. Slices = [k \in 1 .. parsed_message_count |-> part(k)]
    BY <1>3 DEF Slices
  <2> HIDE DEF part
  <2>4. [k \in 1 .. parsed_message_count |-> part(k)] \in Seq(Seq(Byte))
    BY <2>1, <2>2
  <2> QED
    BY <2>3, <2>4
<1> QED
  BY <1>2, <1>3

(* The payloads go to the next link, behind the buffers that wait. *)
LEMMA HandOnKeeps ==
  ASSUME CallInv, HandOn
  PROVE  CallInv'
<1> DEFINE B    == [link : Links, bytes : Seq(Byte)]
           last == link = Len(Jobs[job].chain)
           next == [k \in DOMAIN Slices |-> [link |-> link + 1, bytes |-> Slices[k]]]
           more == IF last THEN << >> ELSE next
<1>1. /\ InHand /\ queue' = Tail(queue) \o more
      /\ pc' = "idle" /\ data' = << >> /\ i' = 0 /\ offset' = 0 /\ result' = NoResult
      /\ stage' = stage /\ job' = job /\ contexts' = contexts
  BY DEF HandOn, script
<1>2. Links' = Links /\ \A k : Protocol(k)' = Protocol(k)
  BY <1>1 DEF Links, Protocol
<1>3. Generated'
  BY <1>1, <1>2 DEF CallInv, Generated
<1>4. queue \in Seq(B) /\ queue # << >> /\ link \in Links /\ job \in DOMAIN Jobs
  BY <1>1, Called
<1>5. Tail(queue) \in Seq(B)
  <2> HIDE DEF B
  <2> QED
    BY <1>4, HeadTailProperties
<1>6. more \in Seq(B)
  <2>1. CASE last
    BY <2>1
  <2>2. CASE ~last
    <3>1. link + 1 \in Links
      BY <1>4, <2>2, Chain
    <3>2. Slices \in Seq(Seq(Byte))
      BY SlicesType
    <3>3. Len(Slices) \in Nat /\ DOMAIN Slices = 1 .. Len(Slices) /\ \A k \in DOMAIN Slices : Slices[k] \in Seq(Byte)
      BY <3>2
    <3>4. \A k \in DOMAIN Slices : [link |-> link + 1, bytes |-> Slices[k]] \in B
      BY <3>1, <3>3
    <3> HIDE DEF B
    <3>5. next \in Seq(B)
      BY <3>3, <3>4
    <3> HIDE DEF next
    <3> QED
      BY <2>2, <3>5
  <2> QED
    BY <2>1, <2>2
<1> HIDE DEF B, more, next, last
<1>7. queue' \in Seq(B)
  BY <1>1, <1>5, <1>6, ConcatProperties
<1>8. Queued'
  BY <1>1, <1>2, <1>7 DEF Queued, B
<1>9. Pointed'
  <2>1. 0 \in Nat /\ Len(<< >>) = 0
    OBVIOUS
  <2>2. Sound(NoResult, 0)
    BY <2>1, NothingSaid
  <2> QED
    BY <1>1, <2>1, <2>2 DEF Pointed
<1>10. Looping'
  BY <1>1 DEF Looping
<1> QED
  BY <1>3, <1>8, <1>9, <1>10 DEF CallInv

(* The actions before and after the calls leave the call alone. *)
LEMMA Idle ==
  ASSUME CallInv, ~InHand
  PROVE  pc = "idle" /\ data \in Seq(Byte) /\ Pointed /\ job \in DOMAIN Jobs
  BY DEF CallInv, Generated, Queued

(* So do they keep the invariant. *)
LEMMA CallAlone ==
  ASSUME CallInv, ~InHand, UNCHANGED call, Generated',
         stage' = "running" => queue' \in Seq([link : Links', bytes : Seq(Byte)])
  PROVE  CallInv'
<1>1. pc = "idle" /\ data \in Seq(Byte) /\ Pointed
  BY Idle
<1>2. pc' = pc /\ data' = data /\ result' = result
  BY DEF call
<1>3. Queued'
  BY <1>1, <1>2 DEF Queued
<1>4. Pointed'
  BY <1>1, <1>2 DEF Pointed
<1>5. Looping'
  BY <1>1, <1>2 DEF Looping
<1> QED
  BY <1>3, <1>4, <1>5 DEF CallInv

(* The constructors. *)
LEMMA ConstructKeeps ==
  ASSUME CallInv, Construct
  PROVE  CallInv'
<1>1. /\ stage = "define" /\ job' = job /\ UNCHANGED call /\ ~InHand
      /\ \/ stage' = "constructed" /\ \A k \in Links : Accepted(Protocol(k))
         \/ stage' = "rejected"
  BY DEF Construct, InHand
<1>2. Links' = Links /\ \A k : Protocol(k)' = Protocol(k)
  BY <1>1 DEF Links, Protocol
<1>3. Generated'
  BY <1>1, <1>2, Idle DEF Generated
<1> QED
  BY <1>1, <1>3, CallAlone

(* The SystemVerilog generator. *)
LEMMA GenerateSVKeeps ==
  ASSUME CallInv, GenerateSV
  PROVE  CallInv'
<1>1. /\ stage = "constructed" /\ stage' = "planned" /\ job' = job /\ UNCHANGED call /\ ~InHand
  BY DEF GenerateSV, InHand
<1>2. Links' = Links /\ \A k : Protocol(k)' = Protocol(k)
  BY <1>1 DEF Links, Protocol
<1>3. Generated'
  BY <1>1, <1>2 DEF CallInv, Generated
<1> QED
  BY <1>1, <1>3, CallAlone

(* The C generator. *)
LEMMA GenerateCKeeps ==
  ASSUME CallInv, GenerateC
  PROVE  CallInv'
<1>1. /\ stage = "planned" /\ job' = job /\ UNCHANGED call /\ ~InHand
      /\ contexts' = [k \in Links |-> build_context(Protocol(k))]
      /\ \/ stage' = "ready" /\ \A k \in Links : contexts'[k].ok
         \/ stage' = "rejected"
  BY DEF GenerateC, InHand
<1>2. Links' = Links /\ \A k : Protocol(k)' = Protocol(k)
  BY <1>1 DEF Links, Protocol
<1>3. job \in DOMAIN Jobs /\ \A k \in Links : Accepted(Protocol(k))
  BY <1>1 DEF CallInv, Generated
<1>4. Generated'
  BY <1>1, <1>2, <1>3 DEF Generated
<1> QED
  BY <1>1, <1>4, CallAlone

(* A packet of the job is sent. *)
LEMMA SendKeeps ==
  ASSUME CallInv, Send
  PROVE  CallInv'
<1>1. /\ stage = "ready" /\ stage' = "running" /\ job' = job /\ contexts' = contexts /\ UNCHANGED call /\ ~InHand
      /\ test' \in Jobs[job].tests /\ queue' = <<[link |-> 1, bytes |-> test'.packet]>>
  BY DEF Send, InHand
<1>2. Links' = Links /\ \A k : Protocol(k)' = Protocol(k)
  BY <1>1 DEF Links, Protocol
<1>3. Generated'
  BY <1>1, <1>2 DEF CallInv, Generated
<1>4. 1 \in Links /\ test'.packet \in Seq(Byte)
  BY <1>1, Chain, Idle
<1>5. queue' \in Seq([link : Links', bytes : Seq(Byte)])
  BY <1>1, <1>2, <1>4
<1> QED
  BY <1>1, <1>3, <1>5, CallAlone

(* Nothing is left to parse. *)
LEMMA FinishKeeps ==
  ASSUME CallInv, Finish
  PROVE  CallInv'
<1>1. /\ stage = "running" /\ stage' = "done" /\ job' = job /\ contexts' = contexts /\ UNCHANGED call /\ ~InHand
  BY DEF Finish, InHand
<1>2. Links' = Links /\ \A k : Protocol(k)' = Protocol(k)
  BY <1>1 DEF Links, Protocol
<1>3. Generated'
  BY <1>1, <1>2 DEF CallInv, Generated
<1> QED
  BY <1>1, <1>3, CallAlone

(* It holds at first. *)
LEMMA CallsBegin ==
  Init => CallInv
<1>1. SUFFICES ASSUME Init PROVE CallInv
  OBVIOUS
<1>2. /\ stage = "define" /\ job \in DOMAIN Jobs /\ pc = "idle" /\ data = << >> /\ result = NoResult
  BY <1>1 DEF Init, CInit
<1>3. Sound(NoResult, Len(data))
  <2>1. Len(data) \in Nat
    BY <1>2
  <2> QED
    BY <2>1, NothingSaid
<1> QED
  BY <1>2, <1>3 DEF CallInv, Generated, Queued, Pointed, Looping

(* Every step keeps it. *)
LEMMA CallsGoOn ==
  CallInv /\ [Next]_vars => CallInv'
<1>1. SUFFICES ASSUME CallInv, [Next]_vars PROVE CallInv'
  OBVIOUS
<1>2. CASE UNCHANGED vars
  <2>1. /\ stage' = stage /\ job' = job /\ contexts' = contexts /\ queue' = queue
        /\ pc' = pc /\ data' = data /\ result' = result /\ i' = i /\ offset' = offset
    BY <1>2 DEF vars, script, call
  <2>2. /\ Generated' /\ (stage' = "running" => queue' \in Seq([link : Links', bytes : Seq(Byte)]))
        /\ link' = link /\ (InHand => InHand')
    <3>1. UNCHANGED <<script, queue>>
      BY <1>2 DEF vars
    <3> QED
      BY <1>1, <3>1, Standing
  <2>3. Queued' /\ Pointed' /\ Looping'
    BY <1>1, <2>1, <2>2 DEF CallInv, Queued, Pointed, Looping
  <2> QED
    BY <2>2, <2>3 DEF CallInv
<1>3. CASE Next
  BY <1>1, <1>3, ConstructKeeps, GenerateSVKeeps, GenerateCKeeps, SendKeeps, PresentKeeps, ParseKeeps,
     HandOnKeeps, FinishKeeps DEF Next
<1> QED
  BY <1>1, <1>2, <1>3

(* The function is only called with a context of the definition it was     *)
(* built of, on bytes, and its loop stands at a place of the buffer.       *)
THEOREM CallsInvariant ==
  Spec => []CallInv
BY CallsBegin, CallsGoOn, PTL DEF Spec

(* Whatever the definition the constructors and the generator accept, and  *)
(* whatever the packet, no payload and no message a C function returns     *)
(* ends behind its input, in each parser of a chain.                       *)
THEOREM ResultsWithin ==
  Spec => []PayloadsWithin
<1>1. CallInv => PayloadsWithin
  <2>1. SUFFICES ASSUME CallInv PROVE PayloadsWithin
    OBVIOUS
  <2>2. Sound(result, Len(data))
    BY <2>1 DEF CallInv, Pointed
  <2> QED
    BY <2>2 DEF PayloadsWithin, Sound, SoundMessage, Within
<1> QED
  BY <1>1, CallsInvariant, PTL

------------------------------------------------------------------------------
(* The readers of a header.  A buffer is the part from its first byte on.  *)
LEMMA WholeBuffer ==
  ASSUME NEW S, NEW s \in Seq(S)
  PROVE  SubSeq(s, 1, Len(s)) = s
<1> DEFINE t == SubSeq(s, 1, Len(s))
<1>1. Len(s) \in Nat /\ 1 \in Int /\ Len(s) \in Int /\ \A k \in 1 .. Len(s) : s[k] \in S
  OBVIOUS
<1>2. /\ t \in Seq(S) /\ Len(t) = IF 1 <= Len(s) THEN Len(s) - 1 + 1 ELSE 0
      /\ \A k \in 1 .. Len(s) - 1 + 1 : t[k] = s[1 + k - 1]
  BY <1>1, SubSeqProperties
<1>3. Len(t) = Len(s) /\ \A k \in 1 .. Len(s) : t[k] = s[k]
  <2> HIDE DEF t
  <2> QED
    BY <1>1, <1>2
<1> HIDE DEF t
<1>4. t = s
  BY <1>2, <1>3, SeqEqual
<1> QED
  BY <1>4 DEF t

(* Fields of one place are read alike. *)
LEMMA SamePlace ==
  ASSUME NEW f, NEW g, f.offset = g.offset, f.width = g.width
  PROVE  /\ \A buffer : read_field(buffer, f) = read_field(buffer, g)
         /\ \A from : read_be(from, f) = read_be(from, g)
<1>1. width_bytes(f) = width_bytes(g)
  BY DEF width_bytes
<1>2. ASSUME NEW buffer PROVE read_field(buffer, f) = read_field(buffer, g)
  BY <1>1 DEF read_field
<1>3. ASSUME NEW from PROVE read_be(from, f) = read_be(from, g)
  BY <1>1, <1>2, Zenon DEF read_be
<1> QED
  BY <1>2, <1>3

(* C reads of a field in the buffer what the packet reader does.  It masks *)
(* no field of more than 64 bits.                                          *)
LEMMA FieldRead ==
  ASSUME data \in Seq(Byte), NEW f, f.offset \in Nat, f.width \in Nat \ {0}, end_offset(f) <= Len(data),
         f.width <= 64 \/ f.width % 8 = 0
  PROVE  read_be(0, f) = read_field(data, f)
<1> DEFINE n     == width_bytes(f)
           whole == [offset |-> f.offset, width |-> 8 * n]
<1>1. n \in Nat \ {0} /\ (f.width % 8 = 0 => 8 * n = f.width)
  <2>1. \A w \in Nat \ {0} : (w + 7) \div 8 \in Nat \ {0} /\ (w % 8 = 0 => 8 * ((w + 7) \div 8) = w)
    BY Z3
  <2> QED
    BY <2>1 DEF width_bytes
<1>2. ~(f.offset + 0 + n > Len(data))
  <2>1. f.offset + n <= Len(data) /\ Len(data) \in Nat
    BY DEF end_offset
  <2> HIDE DEF n
  <2> QED
    BY <1>1, <2>1
<1>3. SubSeq(data, 0 + 1, Len(data)) = data
  <2>1. SubSeq(data, 1, Len(data)) = data
    BY WholeBuffer
  <2>2. 0 + 1 = 1
    OBVIOUS
  <2> QED
    BY <2>1, <2>2, Zenon
<1>4. read_be(0, f) = read_field(data, IF f.width > 64 THEN whole ELSE f)
  <2>1. read_be(0, f) = IF f.offset + 0 + n > Len(data) THEN [k \in 1 .. n |-> 0]
                        ELSE read_field(SubSeq(data, 0 + 1, Len(data)), IF f.width > 64 THEN whole ELSE f)
    BY DEF read_be
  <2> HIDE DEF n, whole
  <2> QED
    BY <1>2, <1>3, <2>1, Zenon
<1>5. CASE f.width > 64
  <2>1. whole.offset = f.offset /\ whole.width = f.width
    BY <1>1, <1>5
  <2> HIDE DEF whole
  <2>2. read_field(data, whole) = read_field(data, f)
    BY <2>1, SamePlace
  <2> QED
    BY <1>4, <1>5, <2>2
<1>6. CASE ~(f.width > 64)
  BY <1>4, <1>6
<1> QED
  BY <1>5, <1>6

(* A name the fields of one place stands for them. *)
LEMMA NamedPlace ==
  ASSUME NEW fields, IsFields(fields), OneName(fields), NEW f \in Range(fields)
  PROVE  LET g == FieldNamed(fields, f.name)
         IN  g \in Range(fields) /\ g.offset = f.offset /\ g.width = f.width
<1>1. f.name \in {h.name : h \in Range(fields)}
  OBVIOUS
<1>2. FieldNamed(fields, f.name) \in Range(fields) /\ FieldNamed(fields, f.name).name = f.name
  BY <1>1, NamedField
<1> QED
  BY <1>2 DEF OneName

(* The packet reader looks the field up by its name, *)
LEMMA AllRead ==
  ASSUME NEW buffer, NEW fields, IsFields(fields), OneName(fields), NEW f \in Range(fields)
  PROVE  f.name \in DOMAIN ReadAll(buffer, fields) /\ ReadAll(buffer, fields)[f.name] = read_field(buffer, f)
<1> DEFINE g == FieldNamed(fields, f.name)
<1>1. g.offset = f.offset /\ g.width = f.width
  BY NamedPlace
<1>2. \E u \in DOMAIN fields : f = fields[u]
  BY DEF Range
<1>3. f.name \in DOMAIN ReadAll(buffer, fields) /\ ReadAll(buffer, fields)[f.name] = read_field(buffer, g)
  BY <1>2 DEF ReadAll
<1> HIDE DEF g
<1> QED
  BY <1>1, <1>3, SamePlace

(* and so does the C function, among the fields it has kept. *)
LEMMA HeaderField ==
  ASSUME data \in Seq(Byte), NEW fields, Placed(fields), OneName(fields),
         required_length(fields) <= Len(data), NEW f \in Range(fields), f.width <= 64 \/ f.width % 8 = 0
  PROVE  read_fields(unique_fields(fields), 0)[f.name] = read_field(data, f)
<1> DEFINE kept == unique_fields(fields)
           g    == FieldNamed(kept, f.name)
<1>1. /\ IsFields(kept) /\ Range(kept) \subseteq Range(fields)
      /\ {h.name : h \in Range(kept)} = {h.name : h \in Range(fields)}
  BY UniqueFields DEF Placed
<1> HIDE DEF kept
<1>2. f.name \in {h.name : h \in Range(kept)}
  BY <1>1
<1>3. g \in Range(kept) /\ g.name = f.name
  BY <1>1, <1>2, NamedField
<1>4. read_fields(kept, 0)[f.name] = read_be(0, g)
  <2>1. {kept[k].name : k \in DOMAIN kept} = {h.name : h \in Range(kept)}
    BY DEF Range
  <2> QED
    BY <1>2, <2>1 DEF read_fields
<1> HIDE DEF g
<1>5. g.offset = f.offset /\ g.width = f.width
  BY <1>1, <1>3 DEF OneName
<1>6. f.offset \in Nat /\ f.width \in Nat \ {0}
  <2>1. f.offset \in Int /\ f.width \in Int /\ ValidField(f)
    BY DEF Placed, IsFields
  <2> QED
    BY <2>1, FieldPlace
<1>7. end_offset(f) <= Len(data)
  <2>1. end_offset(f) <= required_length(fields) /\ required_length(fields) \in Nat
    BY Required DEF Placed
  <2>2. end_offset(f) \in Int /\ Len(data) \in Int
    <3>1. \A w \in Nat \ {0} : (w + 7) \div 8 \in Nat
      BY Z3
    <3> QED
      BY <1>6, <3>1 DEF end_offset, width_bytes
  <2> QED
    BY <2>1, <2>2
<1>8. read_be(0, f) = read_field(data, f)
  BY <1>6, <1>7, FieldRead
<1>9. read_be(0, g) = read_be(0, f)
  BY <1>5, SamePlace
<1> QED
  BY <1>4, <1>8, <1>9 DEF kept

(* The modules take the field's bits from the bus as the packet reader     *)
(* reads its bytes; what the bus carries behind the header is of no        *)
(* account.                                                                *)
LEMMA BitsRead ==
  ASSUME data \in Seq(Byte), NEW f, f.offset \in Nat, f.width \in Nat \ {0}, end_offset(f) <= Len(data),
         WholeBytes(f), NEW kw \in Nat \ {0}
  PROVE  /\ FromBytes(f, data) = BitsOf(read_field(data, f), f.width)
         /\ FromBeats(f, kw, data \o [x \in 1 .. kw |-> 0]) = BitsOf(read_field(data, f), f.width)
<1> DEFINE rest == [x \in 1 .. kw |-> 0]
           more == data \o rest
           n    == width_bytes(f)
<1>1. data \in Seq(Nat) /\ Len(data) \in Nat
  <2>1. Byte \subseteq Nat
    BY DEF Byte
  <2>2. Len(data) \in Nat /\ data \in [1 .. Len(data) -> Byte]
    OBVIOUS
  <2>3. data \in [1 .. Len(data) -> Nat]
    BY <2>1, <2>2
  <2> QED
    BY <2>2, <2>3, SeqDef
<1>2. more \in Seq(Nat) /\ Len(more) = Len(data) + kw /\ \A u \in 1 .. Len(data) : more[u] = data[u]
  <2>1. rest \in Seq(Nat) /\ Len(rest) = kw
    OBVIOUS
  <2> HIDE DEF rest
  <2>2. /\ data \o rest \in Seq(Nat) /\ Len(data \o rest) = Len(data) + Len(rest)
        /\ \A u \in 1 .. Len(data) + Len(rest) :
             (data \o rest)[u] = IF u <= Len(data) THEN data[u] ELSE rest[u - Len(data)]
    BY <1>1, <2>1, ConcatProperties
  <2>3. \A u \in 1 .. Len(data) : u \in 1 .. Len(data) + Len(rest) /\ u <= Len(data)
    BY <1>1, <2>1
  <2> HIDE DEF more
  <2> QED
    BY <2>1, <2>2, <2>3 DEF more
<1> HIDE DEF rest, more
<1>3. n \in Nat \ {0} /\ end_offset(f) = f.offset + n
  <2>1. \A w \in Nat \ {0} : (w + 7) \div 8 \in Nat \ {0}
    BY Z3
  <2> QED
    BY <2>1 DEF width_bytes, end_offset
<1>4. f.width <= 8 \/ f.width % 8 = 0
  BY DEF WholeBytes
<1>5. Readable(data, f) /\ Readable(more, f)
  <2> HIDE DEF n
  <2> QED
    BY <1>1, <1>2, <1>3 DEF Readable
<1>6. FromBytes(f, data) = BitsOf(read_field(data, f), f.width)
  BY <1>1, <1>4, <1>5, SlicesRead
<1>7. FromBytes(f, more) = BitsOf(read_field(more, f), f.width)
  BY <1>2, <1>4, <1>5, SlicesRead
<1>8. FromBeats(f, kw, more) = FromBytes(f, more)
  BY SlicesAgree
<1>9. read_field(more, f) = read_field(data, f)
  <2>1. \A u \in 1 .. n : more[f.offset + u] = data[f.offset + u]
    <3>1. f.offset + n <= Len(data)
      BY <1>3
    <3> HIDE DEF n
    <3>2. \A u \in 1 .. n : f.offset + u \in 1 .. Len(data)
      BY <1>1, <1>3, <3>1
    <3> QED
      BY <1>2, <3>2
  <2>2. more[f.offset + 1] = data[f.offset + 1]
    <3>1. 1 \in 1 .. n
      BY <1>3
    <3> QED
      BY <2>1, <3>1
  <2> QED
    BY <2>1, <2>2 DEF read_field
<1> QED
  BY <1>6, <1>7, <1>8, <1>9 DEF more, rest

(* What the readers rely on of a definition. *)
Legible(p) ==
  /\ Placed(p.fields) /\ OneName(p.fields)
  /\ p.class = "Discriminated" =>
       /\ IsVariants(p) /\ ValidDiscriminated(p) /\ p.discriminator.width <= 64
       /\ \A v \in DOMAIN p.variants : OneName(p.fields \o p.variants[v])

(* Variants' fields and common ones by one name are in one place. *)
LEMMA NamesMeet ==
  ASSUME NEW p, Legible(p), p.class = "Discriminated", NEW v \in DOMAIN p.variants
  PROVE  /\ OneName(p.variants[v]) /\ IsFields(p.variants[v])
         /\ \A f \in Range(p.fields), g \in Range(p.variants[v]) :
              f.name = g.name => f.offset = g.offset /\ f.width = g.width
<1>1. IsFields(p.fields) /\ IsFields(p.variants[v]) /\ OneName(p.fields \o p.variants[v])
  BY DEF Legible, IsVariants, Placed
<1>2. Range(p.fields \o p.variants[v]) = Range(p.fields) \cup Range(p.variants[v])
  BY <1>1, Joined
<1> QED
  BY <1>1, <1>2 DEF OneName

(* What eval returns of a field is what read_field does. *)
LEMMA EvalReads ==
  ASSUME NEW p, Legible(p), NEW buffer, NEW f \in Range(p.fields), ~eval(p, buffer).raised
  PROVE  eval(p, buffer).values[f.name] = read_field(buffer, f)
<1> DEFINE common == ReadAll(buffer, p.fields)
<1>1. f.name \in DOMAIN common /\ common[f.name] = read_field(buffer, f)
  BY AllRead DEF Legible, Placed
<1>2. Raised.raised = TRUE
  BY DEF Raised
<1>3. ASSUME ~eval_fields(p, buffer).raised
      PROVE  DOMAIN eval_fields(p, buffer) = {"raised", "values"} /\ eval_fields(p, buffer).values = common
  BY <1>2, <1>3 DEF eval_fields
<1>4. CASE p.class = "Sideband"
  <2> DEFINE by == [data |-> read_from(buffer, parse_length(p))]
             base == eval_fields(p, buffer)
  <2>1. eval(p, buffer) = Extended(base, by) /\ AllReadable(buffer, p.fields)
    <3>1. eval(p, buffer) = eval_sideband(p, buffer)
      BY <1>4 DEF eval
    <3> QED
      BY <1>2, <3>1 DEF eval_sideband
  <2>2. base = [raised |-> FALSE, values |-> common]
    BY <2>1 DEF eval_fields
  <2>3. DOMAIN by = {"data"}
    OBVIOUS
  <2>4. DOMAIN base = {"raised", "values"} /\ base.values = common
    BY <2>2
  <2> HIDE DEF by, base, common
  <2>5. \A key \in DOMAIN base \ DOMAIN by : Extended(base, by)[key] = base[key]
    BY BothRecords
  <2>6. eval(p, buffer).values = common
    BY <2>1, <2>3, <2>4, <2>5
  <2> QED
    BY <1>1, <2>6
<1>5. CASE p.class = "Discriminated"
  <2> DEFINE key == NumberOf(read_field(buffer, p.discriminator))
             own == ReadAll(buffer, p.variants[key])
  <2>1. eval(p, buffer) = eval_discriminated(p, buffer)
    BY <1>5 DEF eval
  <2>2. key \in DOMAIN p.variants /\ eval(p, buffer) = [raised |-> FALSE, values |-> Extended(common, own)]
    BY <1>2, <2>1 DEF eval_discriminated
  <2> HIDE DEF key
  <2>3. /\ OneName(p.variants[key]) /\ IsFields(p.variants[key])
        /\ \A g \in Range(p.variants[key]) : f.name = g.name => f.offset = g.offset /\ f.width = g.width
    BY <1>5, <2>2, NamesMeet
  <2>4. ASSUME f.name \in DOMAIN own PROVE own[f.name] = read_field(buffer, f)
    <3>1. PICK g \in Range(p.variants[key]) : g.name = f.name
      BY <2>4 DEF ReadAll, Range
    <3>2. own[g.name] = read_field(buffer, g)
      BY <2>3, <3>1, AllRead
    <3>3. f.offset = g.offset /\ f.width = g.width
      BY <2>3, <3>1
    <3>4. read_field(buffer, f) = read_field(buffer, g)
      BY <3>3, SamePlace
    <3> HIDE DEF own
    <3> QED
      BY <3>1, <3>2, <3>4
  <2> HIDE DEF own, common
  <2>5. /\ \A n \in DOMAIN own : Extended(common, own)[n] = own[n]
        /\ \A n \in DOMAIN common \ DOMAIN own : Extended(common, own)[n] = common[n]
    BY BothRecords
  <2> QED
    BY <1>1, <2>2, <2>4, <2>5
<1>6. CASE p.class \notin {"Sideband", "Discriminated"}
  <2>1. eval(p, buffer) = eval_fields(p, buffer)
    BY <1>6 DEF eval
  <2> QED
    BY <1>1, <1>3, <2>1
<1> QED
  BY <1>4, <1>5, <1>6

(* A buffer of the length they require has all the fields. *)
LEMMA AllThere ==
  ASSUME NEW S, NEW buffer \in Seq(S), NEW fields, Placed(fields), required_length(fields) <= Len(buffer)
  PROVE  AllReadable(buffer, fields) /\ \A f \in Range(fields) : end_offset(f) <= Len(buffer)
<1>1. ASSUME NEW f \in Range(fields) PROVE end_offset(f) <= Len(buffer)
  <2>1. f.offset \in Int /\ f.width \in Int /\ ValidField(f)
    BY DEF Placed, IsFields
  <2>2. f.offset \in Nat /\ width_bytes(f) \in Nat \ {0} /\ end_offset(f) = f.offset + width_bytes(f)
    BY <2>1, FieldPlace
  <2>3. end_offset(f) \in Nat
    BY <2>2
  <2>4. end_offset(f) <= required_length(fields) /\ required_length(fields) \in Nat
    BY Required DEF Placed
  <2>5. Len(buffer) \in Nat
    OBVIOUS
  <2> QED
    BY <2>3, <2>4, <2>5
<1> QED
  BY <1>1, Indices DEF AllReadable, Readable, Placed

(* Which definition a context is of, and that its function looks at no     *)
(* header it has not got.                                                  *)
LEMMA ContextCovers ==
  ASSUME NEW d, Declared(d), Accepted(Constructed(d)), build_context(Constructed(d)).ok
  PROVE  LET p == Constructed(d)
             c == build_context(p)
         IN  /\ c.parse_length = parse_length(p) /\ required_length(p.fields) <= parse_length(p)
             /\ p.class = "Discriminated" <=> c.kind = "discriminated"
             /\ p.class = "Discriminated" => IsVariants(p) /\ ValidDiscriminated(p)
<1> DEFINE p == Constructed(d)
           c == build_context(p)
<1>1. CASE d.class = "Variable"
  <2> DEFINE by == [fields |-> << >>]
  <2>1. p = Extended(d, by) /\ DOMAIN by = {"fields"}
    BY <1>1 DEF Constructed
  <2> HIDE DEF by, p
  <2>2. p.class = d.class
    <3>1. "class" \in DOMAIN d \ DOMAIN by
      BY <2>1 DEF Declared
    <3> QED
      BY <2>1, <3>1, BothRecords
  <2>3. c = NoPlan
    BY <1>1, <2>2 DEF build_context
  <2> QED
    BY <2>3 DEF NoPlan, p
<1>2. CASE DeclaredFixed(d)
  <2>1. p = WithLength(d)
    BY <1>2 DEF Constructed, DeclaredFixed
  <2>2. p.class = d.class /\ p.fields = d.fields
    BY <1>2, <2>1, Lengths DEF DeclaredFixed
  <2> HIDE DEF p
  <2>3. p.total_length >= required_length(p.fields)
    BY <1>2, <2>2 DEF DeclaredFixed, Accepted, ValidLengthPrefixed, ValidFixed, p
  <2>4. p.class \notin {"Multi", "Discriminated", "Variable"}
    BY <1>2, <2>2 DEF DeclaredFixed
  <2>5. c.kind = "fixed" /\ c.parse_length = parse_length(p)
    BY <2>4, FixedContext DEF ContextIs, p
  <2>6. parse_length(p) = p.total_length /\ p.class # "Discriminated"
    BY <1>2, <2>2 DEF DeclaredFixed, parse_length
  <2> HIDE DEF c
  <2> QED
    BY <2>3, <2>5, <2>6 DEF p, c
<1>3. CASE DeclaredMulti(d)
  <2>1. p.class = "Multi" /\ IsFields(p.fields) /\ p.total_length \in Int
    BY <1>3, MultiIs
  <2> HIDE DEF p
  <2>2. p.total_length >= required_length(p.fields)
    BY <2>1 DEF Accepted, ValidMulti, ValidFixed, p
  <2>4. c.kind = "multi" /\ c.parse_length = parse_length(p)
    BY <2>1, MultiContext DEF ContextIs, p
  <2>5. parse_length(p) = p.total_length
    BY <2>1 DEF parse_length
  <2> HIDE DEF c
  <2> QED
    BY <2>1, <2>2, <2>4, <2>5 DEF p, c
<1>4. CASE DeclaredDiscriminated(d)
  <2>1. p = WithVariants(d)
    BY <1>4 DEF Constructed, DeclaredDiscriminated
  <2>2. p.class = "Discriminated" /\ IsVariants(p)
    BY <1>4, <2>1, WithVariantsIs DEF DeclaredDiscriminated
  <2> HIDE DEF p
  <2>3. ValidDiscriminated(p)
    BY <2>2 DEF Accepted, p
  <2>5. c.kind = "discriminated" /\ c.parse_length = parse_length(p)
    BY <2>2, DiscriminatedContext DEF ContextIs, p
  <2>6. parse_length(p) = required_length(p.fields) /\ required_length(p.fields) \in Nat
    BY <2>2, Required DEF parse_length, IsVariants
  <2> HIDE DEF c
  <2> QED
    BY <2>2, <2>3, <2>5, <2>6 DEF p, c
<1> QED
  BY <1>1, <1>2, <1>3, <1>4 DEF Declared

(* A step of the function leaves the header read, or says that it is not. *)
LEMMA StepReads ==
  ASSUME NEW p, NEW c, Reading(p, c), Step(p, c),
         pc = "loop" => /\ Len(data) >= c.parse_length /\ c.kind = "multi"
                        /\ result.values = read_fields(c.fields, 0)
  PROVE  /\ data' = data /\ pc' \in {"loop", "returned"}
         /\ Len(data) < c.parse_length => pc' = "returned" /\ ~ok(result')
         /\ Len(data) >= c.parse_length => result'.values = read_fields(c.fields, 0)
         /\ c.kind = "discriminated" /\ Len(data) >= c.parse_length /\ ok(result') =>
              Enough(p, NumberOf(result'.values[p.discriminator.name]))
<1> DEFINE r == Header(c)
           Slots == {"flags", "values", "variant", "data", "destination", "forwarded", "message_count", "messages"}
<1>1. Len(data) \in Nat /\ c.parse_length \in Nat
  BY DEF Reading, Callable
<1>2. ASSUME pc = "called"
      PROVE  r.values = read_fields(c.fields, 0) /\ DOMAIN r = Slots /\ DOMAIN result = Slots
  BY <1>2, HeaderSays, NothingSaid
<1>3. ASSUME pc = "loop"
      PROVE  DOMAIN result = Slots
  BY NothingSaid DEF Reading, Pointed, Sound
<1> HIDE DEF r
<1>4. CASE ShortInput(c)
  <2>1. /\ result' = [result EXCEPT !.flags = {"SHORT_INPUT"}] /\ pc' = "returned" /\ data' = data
        /\ pc = "called" /\ Len(data) < c.parse_length
    BY <1>4 DEF ShortInput, Return
  <2>2. result'.flags = {"SHORT_INPUT"}
    BY <1>2, <2>1
  <2> QED
    BY <1>1, <2>1, <2>2 DEF ok
<1>5. CASE ParseFixed(c)
  <2> DEFINE s == Bytes_t(c.parse_length, Len(data) - c.parse_length)
  <2>1. /\ pc' = "returned" /\ data' = data /\ pc = "called" /\ Len(data) >= c.parse_length /\ c.kind = "fixed"
        /\ \/ result' = r
           \/ result' = [r EXCEPT !.forwarded = <<s>>]
    BY <1>5 DEF ParseFixed, Return, r
  <2> HIDE DEF s
  <2>2. result'.values = r.values
    BY <1>2, <2>1
  <2> QED
    BY <1>1, <1>2, <2>1, <2>2
<1>6. CASE ParseDiscriminated(p, c)
  <2> DEFINE key   == NumberOf(r.values[p.discriminator.name])
             s     == Bytes_t(p.variant_length[key], Len(data) - p.variant_length[key])
             own   == read_fields(unique_fields(p.variants[key]), 0)
             taken == [r EXCEPT !.variant = key, !.data = own,
                                !.forwarded = IF c.forwards_payload THEN <<s>> ELSE << >>]
             short == [r EXCEPT !.variant = key, !.flags = @ \cup {"SHORT_INPUT"}]
             other == [r EXCEPT !.flags = @ \cup {"UNKNOWN_VARIANT"}]
  <2>1. /\ pc' = "returned" /\ data' = data /\ pc = "called" /\ Len(data) >= c.parse_length
        /\ result' = IF Enough(p, key) THEN taken ELSE IF key \in DOMAIN p.variants THEN short ELSE other
    BY <1>6 DEF ParseDiscriminated, Return, r
  <2> HIDE DEF s, own
  <2>2. DOMAIN r = Slots
    BY <1>2, <2>1
  <2>3. taken.values = r.values /\ short.values = r.values /\ other.values = r.values
    <3> HIDE DEF key
    <3> QED
      BY <2>2
  <2>4. ~ok(short) /\ ~ok(other)
    <3> HIDE DEF key
    <3> QED
      BY <2>2 DEF ok
  <2> HIDE DEF taken, short, other
  <2>5. result'.values = r.values
    BY <2>1, <2>3
  <2>6. ok(result') => Enough(p, key)
    BY <2>1, <2>4
  <2> QED
    BY <1>1, <1>2, <2>1, <2>5, <2>6
<1>7. CASE ParseOuter(p, c)
  <2> DEFINE n == NumberOf(r.values[p.message_count_field])
             flags == r.flags \cup IF n > MAX_MESSAGES THEN {"TOO_MANY_MESSAGES"} ELSE {}
  <2>1. /\ pc' = "loop" /\ data' = data /\ pc = "called" /\ Len(data) >= c.parse_length /\ c.kind = "multi"
        /\ result' = [r EXCEPT !.message_count = n, !.flags = @ \cup IF n > MAX_MESSAGES THEN {"TOO_MANY_MESSAGES"} ELSE {}]
    BY <1>7 DEF ParseOuter, r
  <2> HIDE DEF n
  <2>2. result'.values = r.values
    BY <1>2, <2>1
  <2> QED
    BY <1>1, <1>2, <2>1, <2>2
<1>8. ASSUME pc = "loop", data' = data, pc' \in {"loop", "returned"}, result'.values = result.values
      PROVE  /\ data' = data /\ pc' \in {"loop", "returned"}
             /\ Len(data) < c.parse_length => pc' = "returned" /\ ~ok(result')
             /\ Len(data) >= c.parse_length => result'.values = read_fields(c.fields, 0)
             /\ c.kind = "discriminated" /\ Len(data) >= c.parse_length /\ ok(result') =>
                  Enough(p, NumberOf(result'.values[p.discriminator.name]))
  BY <1>1, <1>8
<1>9. CASE NoSubHeader(p)
  <2>1. pc = "loop" /\ data' = data /\ pc' = "returned" /\ result'.values = result.values
    BY <1>3, <1>9 DEF NoSubHeader, InLoop, Return
  <2> QED
    BY <1>8, <2>1
<1>10. CASE Truncated(p)
  <2>1. pc = "loop" /\ data' = data /\ pc' = "returned" /\ result'.values = result.values
    BY <1>3, <1>10 DEF Truncated, InLoop, Return
  <2> QED
    BY <1>8, <2>1
<1>11. CASE TakeMessage(p)
  <2>1. pc = "loop" /\ data' = data /\ pc' = "loop" /\ result'.values = result.values
    BY <1>3, <1>11 DEF TakeMessage, WholeMessage, InLoop
  <2> QED
    BY <1>8, <2>1
<1>12. CASE LoopEnds
  <2>1. pc = "loop" /\ data' = data /\ pc' = "returned" /\ result'.values = result.values
    BY <1>3, <1>12 DEF LoopEnds, Return
  <2> QED
    BY <1>8, <2>1
<1> QED
  BY <1>4, <1>5, <1>6, <1>7, <1>9, <1>10, <1>11, <1>12 DEF Step

(* What has been read stays read. *)
LEMMA ParseReads ==
  ASSUME CallInv, HeaderRead, Parse
  PROVE  HeaderRead'
<1> DEFINE p == Protocol(link)
           c == contexts[link]
           all == read_fields(c.fields, 0)
           key == NumberOf(result.values[p.discriminator.name])
<1>1. InHand /\ Step(p, c) /\ UNCHANGED <<script, queue>>
  BY DEF Parse
<1>2. Reading(p, c)
  BY <1>1, Called
<1>3. link' = link /\ contexts' = contexts
  BY <1>1, Standing
<1>4. p' = p /\ c' = c
  <2>1. \A k : Protocol(k)' = Protocol(k)
    BY <1>1 DEF script, Protocol
  <2> QED
    BY <1>3, <2>1
<1>5. pc = "loop" => Len(data) >= c.parse_length /\ c.kind = "multi" /\ result.values = all
  BY DEF CallInv, Looping, HeaderRead
<1> HIDE DEF p, c
<1>6. /\ data' = data /\ pc' \in {"loop", "returned"}
      /\ Len(data) < c.parse_length => pc' = "returned" /\ ~ok(result')
      /\ Len(data) >= c.parse_length => result'.values = all
      /\ c.kind = "discriminated" /\ Len(data) >= c.parse_length /\ ok(result') =>
           Enough(p, NumberOf(result'.values[p.discriminator.name]))
  BY <1>1, <1>2, <1>5, StepReads
<1>7. Len(data) \in Nat /\ c.parse_length \in Nat
  BY <1>2 DEF Reading, Callable
<1>8. all' = all
  BY <1>4, <1>6 DEF read_fields, read_be
<1>9. Enough(p, key)' <=> Enough(p, NumberOf(result'.values[p.discriminator.name]))
  BY <1>4, <1>6 DEF Enough
<1> HIDE DEF all, key
<1>10. HeaderRead <=>
         /\ pc = "loop" => Len(data) >= c.parse_length
         /\ pc \in {"loop", "returned"} /\ Len(data) >= c.parse_length => result.values = all
         /\ Returned /\ Len(data) < c.parse_length => ~ok(result)
         /\ Returned /\ Len(data) >= c.parse_length /\ c.kind = "discriminated" /\ ok(result) => Enough(p, key)
  BY DEF HeaderRead, p, c, all, key
<1>11. HeaderRead' <=>
         /\ pc' = "loop" => Len(data') >= c'.parse_length
         /\ pc' \in {"loop", "returned"} /\ Len(data') >= c'.parse_length => result'.values = all'
         /\ Returned' /\ Len(data') < c'.parse_length => ~ok(result')
         /\ Returned' /\ Len(data') >= c'.parse_length /\ c'.kind = "discriminated" /\ ok(result') => Enough(p, key)'
  BY DEF HeaderRead, p, c, all, key
<1> QED
  BY <1>4, <1>6, <1>7, <1>8, <1>9, <1>11

(* Where no call goes on there is nothing to say. *)
LEMMA NothingRead ==
  ASSUME pc' \in {"idle", "called"}
  PROVE  HeaderRead'
  BY DEF HeaderRead, Returned

(* Nothing is generated for a bus that is none. *)
LEMMA StreamsStay ==
  ASSUME Streams, Next
  PROVE  Streams'
<1>1. job' = job
  BY DEF Next, Construct, GenerateSV, GenerateC, Send, Present, Parse, HandOn, Finish, script
<1>2. DataWidths' = DataWidths
  BY <1>1 DEF DataWidths
<1>3. CASE Construct
  <2>1. \/ stage' = "constructed" /\ (\A w \in DataWidths : ValidStream(w))
        \/ stage' = "rejected"
    BY <1>3 DEF Construct
  <2> QED
    BY <1>2, <2>1 DEF Streams
<1>4. CASE ~Construct
  <2>1. stage' \notin {"define", "rejected"} => stage \notin {"define", "rejected"}
    BY <1>4 DEF Next, GenerateSV, GenerateC, Send, Present, Parse, HandOn, Finish, script
  <2> QED
    BY <1>2, <2>1 DEF Streams
<1> QED
  BY <1>3, <1>4

(* Every step keeps what is known of the header. *)
LEMMA ReadGoesOn ==
  ASSUME CallInv, ReadInv, [Next]_vars
  PROVE  ReadInv'
<1>1. CASE UNCHANGED vars
  <2>1. /\ stage' = stage /\ job' = job /\ contexts' = contexts /\ queue' = queue
        /\ pc' = pc /\ data' = data /\ result' = result
    BY <1>1 DEF vars, script, call
  <2>2. Streams'
    BY <2>1 DEF ReadInv, Streams, DataWidths
  <2>3. HeaderRead'
    <3> DEFINE p == Protocol(link)
               c == contexts[link]
               all == read_fields(c.fields, 0)
               enough == Enough(p, NumberOf(result.values[p.discriminator.name]))
    <3>1. p' = p /\ c' = c
      BY <2>1 DEF Protocol, link
    <3> HIDE DEF p, c
    <3>2. all' = all
      BY <2>1, <3>1 DEF read_fields, read_be
    <3>3. enough' <=> enough
      BY <2>1, <3>1 DEF Enough
    <3> HIDE DEF all, enough
    <3>4. HeaderRead <=>
            /\ pc = "loop" => Len(data) >= c.parse_length
            /\ pc \in {"loop", "returned"} /\ Len(data) >= c.parse_length => result.values = all
            /\ pc = "returned" /\ Len(data) < c.parse_length => ~ok(result)
            /\ pc = "returned" /\ Len(data) >= c.parse_length /\ c.kind = "discriminated" /\ ok(result) => enough
      BY DEF HeaderRead, Returned, p, c, all, enough
    <3>5. HeaderRead' <=>
            /\ pc' = "loop" => Len(data') >= c'.parse_length
            /\ pc' \in {"loop", "returned"} /\ Len(data') >= c'.parse_length => result'.values = all'
            /\ pc' = "returned" /\ Len(data') < c'.parse_length => ~ok(result')
            /\ pc' = "returned" /\ Len(data') >= c'.parse_length /\ c'.kind = "discriminated" /\ ok(result') => enough'
      BY DEF HeaderRead, Returned, p, c, all, enough
    <3>6. HeaderRead
      BY DEF ReadInv
    <3> QED
      BY <2>1, <3>1, <3>2, <3>3, <3>4, <3>5, <3>6
  <2> QED
    BY <2>2, <2>3 DEF ReadInv
<1>2. CASE Next
  <2>1. Streams'
    BY <1>2, StreamsStay DEF ReadInv
  <2>2. CASE Parse
    BY <2>1, <2>2, ParseReads DEF ReadInv
  <2>3. CASE Present \/ HandOn
    <3>1. pc' \in {"idle", "called"}
      BY <2>3 DEF Present, HandOn, Call
    <3> QED
      BY <2>1, <3>1, NothingRead DEF ReadInv
  <2>4. CASE Construct \/ GenerateSV \/ GenerateC \/ Send \/ Finish
    <3>1. ~InHand /\ UNCHANGED call
      BY <2>4 DEF Construct, GenerateSV, GenerateC, Send, Finish, InHand
    <3>2. pc' \in {"idle", "called"}
      BY <3>1, Idle DEF call
    <3> QED
      BY <2>1, <3>2, NothingRead DEF ReadInv
  <2> QED
    BY <1>2, <2>2, <2>3, <2>4 DEF Next
<1> QED
  BY <1>1, <1>2

(* A result has the fields of every header the function did not find too   *)
(* short, and says of a header that it did.                                *)
THEOREM ReadInvariant ==
  Spec => []ReadInv
<1>1. Init => ReadInv
  BY DEF Init, CInit, ReadInv, Streams, HeaderRead, Returned
<1>2. CallInv /\ ReadInv /\ [Next]_vars => ReadInv'
  BY ReadGoesOn
<1> QED
  BY <1>1, <1>2, CallsInvariant, PTL DEF Spec

(* eval raises no exception on a packet that the function accepts. *)
LEMMA EvalRaises ==
  ASSUME NEW p, Legible(p), p.class \in {"Sideband", "Discriminated"}, data \in Seq(Byte),
         required_length(p.fields) <= parse_length(p), parse_length(p) \in Nat, parse_length(p) <= Len(data),
         \A f \in Range(p.fields) : f.width <= 64 \/ f.width % 8 = 0 => result.values[f.name] = read_field(data, f),
         p.class = "Discriminated" => Enough(p, NumberOf(result.values[p.discriminator.name]))
  PROVE  ~eval(p, data).raised
<1>1. Placed(p.fields) /\ Len(data) \in Nat
  BY DEF Legible
<1>2. required_length(p.fields) \in Nat
  BY <1>1, Required DEF Placed
<1>3. AllReadable(data, p.fields)
  BY <1>1, <1>2, AllThere
<1>4. CASE p.class = "Sideband"
  <2> DEFINE by == [data |-> read_from(data, parse_length(p))]
             base == eval_fields(p, data)
  <2>1. eval(p, data) = Extended(base, by)
    BY <1>3, <1>4 DEF eval, eval_sideband
  <2>2. "raised" \in DOMAIN base /\ base.raised = FALSE
    BY <1>3 DEF eval_fields
  <2>3. "raised" \notin DOMAIN by
    OBVIOUS
  <2> HIDE DEF by, base
  <2>4. \A k \in DOMAIN base \ DOMAIN by : Extended(base, by)[k] = base[k]
    BY BothRecords
  <2> QED
    BY <2>1, <2>2, <2>3, <2>4
<1>5. CASE p.class = "Discriminated"
  <2> DEFINE key == NumberOf(read_field(data, p.discriminator))
  <2>1. /\ IsVariants(p) /\ ValidDiscriminated(p) /\ p.discriminator.width <= 64
    BY <1>5 DEF Legible
  <2>2. p.discriminator \in Range(p.fields)
    BY <2>1 DEF IsVariants
  <2>3. Enough(p, key)
    BY <1>5, <2>1, <2>2
  <2> HIDE DEF key
  <2>4. key \in DOMAIN p.variants /\ Len(data) >= p.variant_length[key]
    BY <2>3 DEF Enough
  <2> DEFINE own == p.variants[key]
             all == own \o p.fields
  <2>5. IsFields(own) /\ IsFields(p.fields) /\ p.variant_length[key] \in Int
    BY <2>1, <2>4 DEF IsVariants
  <2>6. \A u \in DOMAIN own : ValidField(own[u])
    BY <2>1, <2>4 DEF ValidDiscriminated
  <2>7. p.variant_length[key] >= required_length(all)
    BY <2>1, <2>4 DEF ValidDiscriminated
  <2> HIDE DEF own
  <2>8. IsFields(all) /\ Range(all) = Range(own) \cup Range(p.fields)
    BY <2>5, Joined
  <2>9. Placed(own)
    BY <2>5, <2>6, ValidFields
  <2> HIDE DEF all
  <2>10. Placed(all)
    BY <1>1, <2>8, <2>9 DEF Placed
  <2>11. required_length(all) <= Len(data)
    <3>1. required_length(all) \in Nat
      BY <2>8, Required
    <3> QED
      BY <1>1, <2>4, <2>5, <2>7, <3>1
  <2>12. \A f \in Range(all) : end_offset(f) <= Len(data)
    BY <2>10, <2>11, AllThere
  <2>13. AllReadable(data, own)
    BY <2>5, <2>8, <2>12, Indices DEF AllReadable, Readable
  <2>14. eval(p, data) = [raised |-> FALSE, values |-> Extended(ReadAll(data, p.fields), ReadAll(data, own))]
    <3>1. eval(p, data) = eval_discriminated(p, data)
      BY <1>5 DEF eval
    <3> QED
      BY <1>3, <2>4, <2>13, <3>1 DEF eval_discriminated, key, own
  <2> QED
    BY <2>14
<1> QED
  BY <1>4, <1>5

(* The definition whose parser has returned, and what it says.             *)
LEMMA DefinitionRead ==
  ASSUME CallInv, ReadInv, NamesApart, Returned
  PROVE  LET p == Protocol(link)
             n == parse_length(p)
         IN  /\ Legible(p) /\ required_length(p.fields) <= n /\ n \in Nat /\ n = contexts[link].parse_length
             /\ data \in Seq(Byte)
             /\ ok(result) => n <= Len(data)
             /\ n <= Len(data) => result.values = read_fields(unique_fields(p.fields), 0)
             /\ n <= Len(data) /\ p.class = "Discriminated" /\ ok(result) =>
                  Enough(p, NumberOf(result.values[p.discriminator.name]))
             /\ \A w \in Modules(link) : keep_width(w) \in Nat \ {0}
<1> DEFINE d == Jobs[job].chain[link]
           p == Protocol(link)
           c == contexts[link]
<1>1. pc = "returned" /\ InHand /\ data \in Seq(Byte)
  BY DEF Returned, CallInv, Queued
<1>2. link \in Links /\ Reading(p, c) /\ job \in DOMAIN Jobs
  BY <1>1, Called
<1>3. /\ stage = "running" /\ Accepted(p) /\ c = build_context(p) /\ c.ok
  BY <1>1, <1>2 DEF CallInv, Generated, InHand
<1>4. Declared(d) /\ p = Constructed(d) /\ d \in Range(Jobs[job].chain)
  BY <1>2, Chain DEF Protocol, Links, Range
<1>5. /\ c.parse_length = parse_length(p) /\ required_length(p.fields) <= parse_length(p)
      /\ p.class = "Discriminated" <=> c.kind = "discriminated"
      /\ p.class = "Discriminated" => IsVariants(p) /\ ValidDiscriminated(p)
  BY <1>3, <1>4, ContextCovers
<1>6. Placed(p.fields) /\ c.fields = unique_fields(p.fields) /\ c.parse_length \in Nat
  BY <1>2 DEF Reading, Callable
<1>7. /\ OneName(p.fields)
      /\ p.class = "Discriminated" =>
           p.discriminator.width <= 64 /\ \A v \in DOMAIN p.variants : OneName(p.fields \o p.variants[v])
  BY <1>2, <1>3, <1>4 DEF NamesApart
<1>8. Legible(p)
  BY <1>5, <1>6, <1>7 DEF Legible
<1>9. ASSUME NEW w \in Modules(link) PROVE keep_width(w) \in Nat \ {0}
  <2>1. w \in DataWidths /\ DataWidths \subseteq Int
    BY <1>2, JobsAssumption DEF Modules, DataWidths
  <2>2. w \in Int /\ w >= 8
    BY <1>3, <2>1 DEF ReadInv, Streams, ValidStream
  <2>3. \A x \in Int : x >= 8 => x \div 8 \in Nat \ {0}
    BY Z3
  <2> QED
    BY <2>2, <2>3 DEF keep_width
<1>10. /\ pc \in {"loop", "returned"} /\ Len(data) >= c.parse_length => result.values = read_fields(c.fields, 0)
       /\ Returned /\ Len(data) < c.parse_length => ~ok(result)
       /\ Returned /\ Len(data) >= c.parse_length /\ c.kind = "discriminated" /\ ok(result) =>
            Enough(p, NumberOf(result.values[p.discriminator.name]))
  BY DEF ReadInv, HeaderRead
<1>11. Len(data) \in Nat
  BY <1>1
<1> HIDE DEF p, c, d
<1>12. ok(result) => parse_length(p) <= Len(data)
  BY <1>5, <1>6, <1>10, <1>11
<1>13. parse_length(p) <= Len(data) => result.values = read_fields(unique_fields(p.fields), 0)
  BY <1>1, <1>5, <1>6, <1>10, <1>11
<1>14. parse_length(p) <= Len(data) /\ p.class = "Discriminated" /\ ok(result) =>
         Enough(p, NumberOf(result.values[p.discriminator.name]))
  BY <1>5, <1>6, <1>10, <1>11
<1> QED
  BY <1>1, <1>5, <1>6, <1>8, <1>9, <1>12, <1>13, <1>14 DEF p, c

(* All of them read the field that stands there. *)
LEMMA Agreement ==
  ASSUME CallInv, ReadInv, NamesApart
  PROVE  ReadersAgree
<1> SUFFICES ASSUME Returned PROVE ReadersAgree
  BY DEF ReadersAgree
<1> DEFINE p == Protocol(link)
           n == parse_length(p)
<1>1. /\ Legible(p) /\ required_length(p.fields) <= n /\ n \in Nat /\ n = contexts[link].parse_length
      /\ data \in Seq(Byte)
      /\ ok(result) => n <= Len(data)
      /\ n <= Len(data) => result.values = read_fields(unique_fields(p.fields), 0)
      /\ n <= Len(data) /\ p.class = "Discriminated" /\ ok(result) =>
           Enough(p, NumberOf(result.values[p.discriminator.name]))
      /\ \A w \in Modules(link) : keep_width(w) \in Nat \ {0}
  BY DefinitionRead
<1>2. Placed(p.fields) /\ OneName(p.fields) /\ Len(data) \in Nat
  BY <1>1 DEF Legible
<1> HIDE DEF p
<1>3. required_length(p.fields) \in Nat
  BY <1>2, Required DEF Placed
<1>4. n <= Len(data) => required_length(p.fields) <= Len(data)
  <2> HIDE DEF n
  <2> QED
    BY <1>1, <1>2, <1>3
<1>5. ASSUME n <= Len(data), NEW f \in Range(p.fields), f.width <= 64 \/ f.width % 8 = 0
      PROVE  result.values[f.name] = read_field(data, f)
  BY <1>1, <1>2, <1>4, <1>5, HeaderField
<1>6. ASSUME p.class \in {"Sideband", "Discriminated"}, ok(result)
      PROVE  ~eval(p, data).raised
  <2>1. /\ n <= Len(data)
        /\ \A f \in Range(p.fields) : f.width <= 64 \/ f.width % 8 = 0 => result.values[f.name] = read_field(data, f)
        /\ p.class = "Discriminated" => Enough(p, NumberOf(result.values[p.discriminator.name]))
    BY <1>1, <1>5, <1>6
  <2> QED
    BY <1>1, <1>6, <2>1, EvalRaises
<1>7. ASSUME ReadHeader, NEW f \in Range(p.fields), WholeBytes(f)
      PROVE  LET bits == BitsOf(result.values[f.name], f.width)
             IN  /\ ~eval(p, data).raised => BitsOf(eval(p, data).values[f.name], f.width) = bits
                 /\ FromBytes(f, data) = bits
                 /\ \A w \in Modules(link) :
                      FromBeats(f, keep_width(w), data \o [x \in 1 .. keep_width(w) |-> 0]) = bits
  <2>1. n <= Len(data)
    BY <1>1, <1>2, <1>7 DEF ReadHeader
  <2>2. f.offset \in Nat /\ f.width \in Nat \ {0}
    <3>1. f.offset \in Int /\ f.width \in Int /\ ValidField(f)
      BY <1>2 DEF Placed, IsFields
    <3> QED
      BY <3>1, FieldPlace
  <2>3. f.width <= 64 \/ f.width % 8 = 0
    BY <1>7, <2>2 DEF WholeBytes
  <2>4. result.values[f.name] = read_field(data, f)
    BY <1>5, <2>1, <2>3
  <2>5. end_offset(f) <= Len(data)
    BY <1>1, <1>2, <1>4, <2>1, AllThere
  <2>6. ~eval(p, data).raised => eval(p, data).values[f.name] = read_field(data, f)
    BY <1>1, EvalReads
  <2>7. FromBytes(f, data) = BitsOf(read_field(data, f), f.width)
    <3>1. 1 \in Nat \ {0}
      OBVIOUS
    <3> QED
      BY <1>1, <1>7, <2>2, <2>5, <3>1, BitsRead
  <2>8. ASSUME NEW w \in Modules(link)
        PROVE  FromBeats(f, keep_width(w), data \o [x \in 1 .. keep_width(w) |-> 0]) = BitsOf(read_field(data, f), f.width)
    <3>1. keep_width(w) \in Nat \ {0}
      BY <1>1
    <3> QED
      BY <1>1, <1>7, <2>2, <2>5, <3>1, BitsRead
  <2> QED
    BY <2>4, <2>6, <2>7, <2>8
<1>8. ReadersAgree <=>
        /\ p.class \in {"Sideband", "Discriminated"} => (eval(p, data).raised => ~ok(result))
        /\ ReadHeader => \A f \in {g \in Range(p.fields) : WholeBytes(g)} :
             LET bits == BitsOf(result.values[f.name], f.width)
             IN  /\ ~eval(p, data).raised => BitsOf(eval(p, data).values[f.name], f.width) = bits
                 /\ FromBytes(f, data) = bits
                 /\ \A w \in Modules(link) :
                      FromBeats(f, keep_width(w), data \o [x \in 1 .. keep_width(w) |-> 0]) = bits
  BY Zenon DEF ReadersAgree, p
<1> QED
  BY <1>6, <1>7, <1>8, Zenon

(* From every field of whole bytes, or of no more than one, the emitted    *)
(* modules, the emitted function and eval read the same number, and the    *)
(* function accepts no packet that eval raises its exception on: for every *)
(* definition in which no name stands for two places.                      *)
THEOREM FieldsReadAlike ==
  NamesApart => (Spec => []ReadersAgree)
<1>1. SUFFICES ASSUME NamesApart PROVE Spec => []ReadersAgree
  OBVIOUS
<1>2. CallInv /\ ReadInv => ReadersAgree
  BY <1>1, Agreement
<1> QED
  BY <1>2, CallsInvariant, ReadInvariant, PTL

------------------------------------------------------------------------------
(***************************************************************************)
(* A message of several variants, which the C function finds where the     *)
(* module publishes one: the key is the same number on the bus and in the  *)
(* buffer, each field of the message has one place it is captured at, and  *)
(* all of them lie within the length the variant has.                      *)
(***************************************************************************)
(* The number of a field's bytes is the same on the bus and in the buffer. *)
LEMMA SameNumber ==
  ASSUME NEW plan, NEW digits \in Seq(Nat), NEW hdr, NEW at, at.length = Len(digits),
         \A n \in 1 .. Len(digits) : hdr[at.offset + n - 1] = digits[n]
  PROVE  Reader(plan)!BigEndian(hdr, at) = NumberOf(digits)
<1> DEFINE F(v) == [n \in 0 .. Len(digits) |-> IF n = 0 THEN 0 ELSE 256 * v[n - 1] + digits[n]]
           G(v) == [n \in 0 .. at.length |-> IF n = 0 THEN 0 ELSE 256 * v[n - 1] + hdr[at.offset + n - 1]]
<1>1. \A v : v = F(v) <=> v = G(v)
  <2>1. ASSUME NEW v PROVE F(v) = G(v)
    <3>1. \A n \in 0 .. Len(digits) : n # 0 => hdr[at.offset + n - 1] = digits[n]
      OBVIOUS
    <3> QED
      BY <3>1
  <2> HIDE DEF F, G
  <2> QED
    BY <2>1
<1>2. NumberOf(digits) = (CHOOSE v : v = F(v))[Len(digits)]
  BY DEF NumberOf
<1>3. Reader(plan)!BigEndian(hdr, at) = (CHOOSE v : v = G(v))[at.length]
  BY DEF Reader!BigEndian
<1> HIDE DEF F, G
<1>4. (CHOOSE v : v = F(v)) = (CHOOSE v : v = G(v))
  BY <1>1
<1> QED
  BY <1>2, <1>3, <1>4

(* The first bytes of the buffer as a frame of their own. *)
LEMMA FirstBytes ==
  ASSUME data \in Seq(Byte), NEW n \in 1 .. Len(data), NEW kw \in Nat \ {0}
  PROVE  LET f == FrameOf(SubSeq(data, 1, n), kw, {})
         IN  f.len = n /\ \A u \in 0 .. n - 1 : f.data[u] = data[u + 1]
<1> DEFINE packet == SubSeq(data, 1, n)
           end    == kw * ((Len(packet) + kw - 1) \div kw)
           bytes  == [q \in 0 .. end - 1 |-> IF q < Len(packet) THEN packet[q + 1] ELSE 0]
<1>1. /\ Len(data) \in Nat /\ n \in Nat \ {0} /\ n <= Len(data)
      /\ Len(packet) = n /\ \A u \in 1 .. n : packet[u] = data[u]
  <2>1. Len(data) \in Nat /\ n \in Nat \ {0} /\ n <= Len(data)
    OBVIOUS
  <2>2. \A u \in 1 .. n : data[u] \in Byte
    BY <2>1
  <2>3. /\ Len(packet) = IF 1 <= n THEN n - 1 + 1 ELSE 0
        /\ \A u \in 1 .. n - 1 + 1 : packet[u] = data[1 + u - 1]
    BY <2>1, <2>2, SubSeqProperties
  <2> HIDE DEF packet
  <2> QED
    BY <2>1, <2>3
<1> HIDE DEF packet
<1>2. end \in Int /\ n <= end
  <2>1. PICK q \in Int : q = (n + kw - 1) \div kw
    BY <1>1, Z3
  <2>2. n <= kw * q
    BY <1>1, <2>1, Z3
  <2>3. end = kw * q
    BY <1>1, <2>1
  <2> QED
    BY <2>2, <2>3
<1>3. /\ FrameOf(packet, kw, {}).len = Len(packet)
      /\ FrameOf(packet, kw, {}).data = bytes
  BY DEF FrameOf
<1> HIDE DEF end
<1>4. ASSUME NEW u \in 0 .. n - 1 PROVE bytes[u] = data[u + 1]
  <2>1. u \in 0 .. end - 1 /\ u < Len(packet) /\ u + 1 \in 1 .. n
    BY <1>1, <1>2
  <2> QED
    BY <1>1, <2>1
<1> QED
  BY <1>1, <1>3, <1>4 DEF packet

(* A field of whole bytes that lies in it is cut out as it is read. *)
LEMMA CutAsRead ==
  ASSUME data \in Seq(Byte), NEW n \in 1 .. Len(data), NEW kw \in Nat \ {0},
         NEW f, f.offset \in Nat, f.width \in Nat \ {0}, f.width % 8 = 0, end_offset(f) <= n
  PROVE  LET frame == FrameOf(SubSeq(data, 1, n), kw, {})
         IN  /\ Cut(frame, 0 + Bytes(f).offset, Bytes(f).length) = read_field(data, f)
             /\ \A u \in 1 .. width_bytes(f) : frame.data[0 + (f.offset + u - 1)] = read_field(data, f)[u]
             /\ Len(read_field(data, f)) = width_bytes(f) /\ read_field(data, f) \in Seq(Nat)
<1> DEFINE frame == FrameOf(SubSeq(data, 1, n), kw, {})
           len   == width_bytes(f)
<1>1. \A u \in 0 .. n - 1 : frame.data[u] = data[u + 1]
  BY FirstBytes
<1> HIDE DEF frame
<1>2. len \in Nat \ {0} /\ end_offset(f) = f.offset + len /\ n \in Nat /\ n <= Len(data) /\ Len(data) \in Nat
  <2>1. \A w \in Nat \ {0} : (w + 7) \div 8 \in Nat \ {0}
    BY Z3
  <2> QED
    BY <2>1 DEF width_bytes, end_offset
<1>3. read_field(data, f) = [u \in 1 .. len |-> data[f.offset + u]]
  BY DEF read_field
<1>4. Bytes(f).offset = f.offset /\ Bytes(f).length = len
  BY DEF Bytes
<1> HIDE DEF len
<1>5. ASSUME NEW u \in 1 .. len PROVE frame.data[f.offset + u - 1] = data[f.offset + u]
  <2>1. f.offset + u - 1 \in 0 .. n - 1 /\ (f.offset + u - 1) + 1 = f.offset + u
    BY <1>2
  <2> QED
    BY <1>1, <2>1
<1>6. Cut(frame, 0 + Bytes(f).offset, Bytes(f).length) = [u \in 1 .. len |-> frame.data[f.offset + u - 1]]
  BY <1>4 DEF Cut
<1>7. \A u \in 1 .. len : frame.data[0 + (f.offset + u - 1)] = read_field(data, f)[u]
  <2>1. \A u \in 1 .. len : 0 + (f.offset + u - 1) = f.offset + u - 1
    BY <1>2
  <2> QED
    BY <1>3, <1>5, <2>1
<1>8. read_field(data, f) \in Seq(Nat)
  <2>1. data \in Seq(Nat)
    <3>1. Byte \subseteq Nat
      BY DEF Byte
    <3>2. Len(data) \in Nat /\ data \in [1 .. Len(data) -> Byte]
      OBVIOUS
    <3>3. data \in [1 .. Len(data) -> Nat]
      BY <3>1, <3>2
    <3> QED
      BY <3>2, <3>3, SeqDef
  <2>2. Readable(data, f)
    BY <1>2 DEF Readable
  <2> QED
    BY <2>1, <2>2, FieldDigits
<1>9. Len(read_field(data, f)) = len
  BY <1>2, <1>3, <1>8
<1> QED
  BY <1>3, <1>5, <1>6, <1>7, <1>8, <1>9 DEF frame, len

(* A plan knows the discriminator's place. *)
LEMMA KeyPlace ==
  ASSUME NEW p, Legible(p), p.class = "Discriminated", NEW plan, VariantsOf(plan, p)
  PROVE  plan.CommonFields[plan.discriminator] = Bytes(p.discriminator)
<1>1. IsFields(p.fields) /\ OneName(p.fields) /\ p.discriminator \in Range(p.fields)
  BY DEF Legible, Placed, IsVariants
<1>2. plan.CommonFields = ByName(p.fields) /\ plan.discriminator = p.discriminator.name
  BY DEF VariantsOf
<1>3. PICK g \in Range(p.fields) : g.name = p.discriminator.name /\ ByName(p.fields)[p.discriminator.name] = Bytes(g)
  <2>1. /\ DOMAIN ByName(p.fields) = {f.name : f \in Range(p.fields)}
        /\ \A m \in DOMAIN ByName(p.fields) : \E f \in Range(p.fields) : f.name = m /\ ByName(p.fields)[m] = Bytes(f)
    BY <1>1, Named
  <2> QED
    BY <1>1, <2>1
<1>4. g.offset = p.discriminator.offset /\ g.width = p.discriminator.width
  BY <1>1, <1>3 DEF OneName
<1> QED
  BY <1>2, <1>3, <1>4 DEF Bytes, width_bytes

(* The key a module finds in the first bytes is the one that is read. *)
LEMMA KeyRead ==
  ASSUME data \in Seq(Byte), NEW p, Legible(p), p.class = "Discriminated", p.discriminator.width % 8 = 0,
         NEW plan, VariantsOf(plan, p), NEW n \in 1 .. Len(data), NEW kw \in Nat \ {0},
         end_offset(p.discriminator) <= n
  PROVE  Reader(plan)!KeyAt(FrameOf(SubSeq(data, 1, n), kw, {}), 0) = NumberOf(read_field(data, p.discriminator))
<1> DEFINE f      == p.discriminator
           frame  == FrameOf(SubSeq(data, 1, n), kw, {})
           digits == read_field(data, f)
           at     == plan.CommonFields[plan.discriminator]
           hdr    == [q \in at.offset .. (at.offset + at.length) - 1 |-> frame.data[0 + q]]
<1>1. at.offset = f.offset /\ at.length = width_bytes(f)
  <2>1. at = Bytes(f)
    BY KeyPlace
  <2> HIDE DEF at, f
  <2> QED
    BY <2>1 DEF Bytes
<1>2. f.offset \in Nat /\ f.width \in Nat \ {0} /\ width_bytes(f) \in Nat
  <2>1. f \in Range(p.fields) /\ Placed(p.fields)
    BY DEF Legible, IsVariants
  <2>2. f.offset \in Int /\ f.width \in Int /\ ValidField(f)
    BY <2>1 DEF Placed, IsFields
  <2> QED
    BY <2>2, FieldPlace
<1>3. /\ \A u \in 1 .. width_bytes(f) : frame.data[0 + (f.offset + u - 1)] = digits[u]
      /\ Len(digits) = width_bytes(f) /\ digits \in Seq(Nat)
  BY <1>2, CutAsRead
<1>4. Reader(plan)!KeyAt(frame, 0) = Reader(plan)!BigEndian(hdr, at)
  <2>1. Reader(plan)!Ends(at) = at.offset + at.length
    BY DEF Reader!Ends
  <2>2. Reader(plan)!KeyAt(frame, 0) =
          Reader(plan)!BigEndian([q \in at.offset .. Reader(plan)!Ends(at) - 1 |-> frame.data[0 + q]], at)
    BY Zenon DEF Reader!KeyAt
  <2> HIDE DEF at, frame
  <2> QED
    BY <2>1, <2>2, Zenon
<1> HIDE DEF at, f, frame, digits
<1>5. \A u \in 1 .. Len(digits) : hdr[at.offset + u - 1] = digits[u]
  <2>1. \A u \in 1 .. width_bytes(f) : at.offset + u - 1 \in at.offset .. (at.offset + at.length) - 1
    BY <1>1, <1>2
  <2> QED
    BY <1>1, <1>3, <2>1
<1> HIDE DEF hdr
<1>6. Reader(plan)!BigEndian(hdr, at) = NumberOf(digits)
  BY <1>1, <1>3, <1>5, SameNumber
<1> QED
  BY <1>4, <1>6 DEF frame, digits, f

(* A field of a message has one place that it is captured at. *)
Holds(plan, k, g) ==
  g.name \in Reader(plan)!FieldNames /\ Reader(plan)!CaptureAt(g.name, k) = {Bytes(g)}
LEMMA OnePlace ==
  ASSUME NEW p, Legible(p), p.class = "Discriminated", NEW plan, VariantsOf(plan, p),
         NEW k \in DOMAIN p.variants, NEW g \in Range(p.fields) \cup Range(p.variants[k])
  PROVE  Holds(plan, k, g)
<1> SUFFICES g.name \in Reader(plan)!FieldNames /\ Reader(plan)!CaptureAt(g.name, k) = {Bytes(g)}
  BY DEF Holds
<1> DEFINE C == ByName(p.fields)
           V == plan.Variants
           At == Reader(plan)!Locations(g.name)
           With == {j \in DOMAIN V : g.name \in DOMAIN V[j]}
<1>1. IsVariants(p) /\ IsFields(p.fields) /\ IsFields(p.variants[k]) /\ plan.CommonFields = C
  BY DEF Legible, IsVariants, VariantsOf
<1>2. ASSUME NEW h \in Range(p.fields) \cup Range(p.variants[k]), h.name = g.name
      PROVE  Bytes(h) = Bytes(g)
  <2>1. Range(p.fields \o p.variants[k]) = Range(p.fields) \cup Range(p.variants[k])
    BY <1>1, Joined
  <2>2. OneName(p.fields \o p.variants[k])
    BY DEF Legible
  <2>3. h.offset = g.offset /\ h.width = g.width
    BY <1>2, <2>1, <2>2 DEF OneName
  <2> QED
    BY <2>3 DEF Bytes, width_bytes
<1>3. /\ DOMAIN C = {f.name : f \in Range(p.fields)}
      /\ \A m \in DOMAIN C : \E f \in Range(p.fields) : f.name = m /\ C[m] = Bytes(f)
  BY <1>1, Named
<1>4. /\ DOMAIN V = DOMAIN p.variants
      /\ DOMAIN V[k] = DOMAIN ByName(p.variants[k]) \ DOMAIN C
      /\ \A m \in DOMAIN V[k] : V[k][m] = ByName(p.variants[k])[m]
  BY <1>1, OwnPlaces
<1>5. /\ DOMAIN ByName(p.variants[k]) = {f.name : f \in Range(p.variants[k])}
      /\ \A m \in DOMAIN ByName(p.variants[k]) :
           \E f \in Range(p.variants[k]) : f.name = m /\ ByName(p.variants[k])[m] = Bytes(f)
  BY <1>1, Named
<1>6. /\ Reader(plan)!FieldNames = DOMAIN C \cup UNION {DOMAIN V[j] : j \in DOMAIN V}
      /\ At = IF g.name \in DOMAIN C THEN {C[g.name]} ELSE {V[j][g.name] : j \in With}
  BY <1>1 DEF Reader!FieldNames, Reader!Locations, Reader!VariantsWith
<1>7. Reader(plan)!CaptureAt(g.name, k) =
        IF Cardinality(At) = 1 THEN At ELSE {V[v][g.name] : v \in {k} \cap With}
  <2>1. Reader(plan)!Cardinality(At) = Cardinality(At)
    BY DEF Cardinality, Reader!Cardinality, IsFiniteSet, Reader!IsFiniteSet
  <2>2. Reader(plan)!CaptureAt(g.name, k) =
          IF Reader(plan)!Cardinality(At) = 1 THEN At ELSE {V[v][g.name] : v \in {k} \cap With}
    BY DEF Reader!CaptureAt, Reader!VariantsWith
  <2> QED
    BY <2>1, <2>2
<1>8. IsFiniteSet(DOMAIN V)
  BY <1>1, <1>4 DEF IsVariants
<1> HIDE DEF C, V, At
<1>9. CASE g.name \in DOMAIN C
  <2>1. C[g.name] = Bytes(g)
    BY <1>2, <1>3, <1>9
  <2>2. At = {Bytes(g)}
    BY <1>6, <1>9, <2>1
  <2>3. Cardinality(At) = 1
    BY <2>2, FS_Singleton
  <2> QED
    BY <1>6, <1>7, <1>9, <2>2, <2>3
<1>10. CASE g.name \notin DOMAIN C
  <2>1. g \in Range(p.variants[k])
    BY <1>3, <1>10
  <2>2. g.name \in DOMAIN V[k] /\ k \in DOMAIN V /\ V[k][g.name] = Bytes(g)
    BY <1>2, <1>4, <1>5, <1>10, <2>1
  <2>3. k \in With /\ Bytes(g) \in At
    BY <1>6, <1>10, <2>2
  <2>4. IsFiniteSet(At)
    <3>1. IsFiniteSet(With)
      <4>1. With \in SUBSET DOMAIN V
        OBVIOUS
      <4> QED
        BY <1>8, <4>1, FS_Subset
    <3>2. [j \in With |-> V[j][g.name]] \in Surjection(With, At)
      BY <1>6, <1>10 DEF Surjection
    <3> QED
      BY <3>1, <3>2, FS_Surjection
  <2>5. CASE Cardinality(At) = 1
    <3>1. PICK x : At = {x}
      BY <2>4, <2>5, FS_Singleton
    <3> QED
      BY <1>6, <1>7, <2>2, <2>3, <2>5, <3>1
  <2>6. CASE Cardinality(At) # 1
    <3>1. {k} \cap With = {k}
      BY <2>3
    <3> HIDE DEF With
    <3> QED
      BY <1>6, <1>7, <2>2, <2>6, <3>1
  <2> QED
    BY <2>5, <2>6
<1> QED
  BY <1>9, <1>10

(* What of the plan says whether a frame is a message. *)
LEMMA MessageIs ==
  ASSUME NEW p, Legible(p), p.class = "Discriminated", NEW plan, VariantsOf(plan, p), NEW f, NEW n
  PROVE  LET key == Reader(plan)!KeyAt(f, 0)
         IN  Reader(plan)!IsMessage(f, 0, n) <=>
               n >= end_offset(p.discriminator) /\ key \in DOMAIN p.variants /\ n = p.variant_length[key]
<1> DEFINE at == plan.CommonFields[plan.discriminator]
<1>1. plan.variant_length = p.variant_length /\ DOMAIN plan.Variants = DOMAIN p.variants
  BY OwnPlaces DEF VariantsOf, Legible
<1>2. Reader(plan)!Ends(at) = end_offset(p.discriminator)
  <2>1. at = Bytes(p.discriminator)
    BY KeyPlace
  <2> HIDE DEF at
  <2> QED
    BY <2>1 DEF Reader!Ends, Bytes, end_offset
<1>3. Reader(plan)!IsMessage(f, 0, n) <=>
        /\ n >= Reader(plan)!Ends(at)
        /\ Reader(plan)!KeyAt(f, 0) \in DOMAIN plan.Variants
        /\ n = plan.variant_length[Reader(plan)!KeyAt(f, 0)]
  BY Zenon DEF Reader!IsMessage
<1> HIDE DEF at
<1> QED
  BY <1>1, <1>2, <1>3

(* A module publishes nothing else. *)
LEMMA ReadsWhat ==
  ASSUME NEW plan, NEW f
  PROVE  LET message == f.len <= Reader(plan)!max_length /\ Reader(plan)!IsMessage(f, 0, f.len)
         IN  Reads(plan, f).published = IF message THEN <<Captured(plan, f, 0, f.len)>> ELSE << >>
<1> DEFINE message == f.len <= Reader(plan)!max_length /\ Reader(plan)!IsMessage(f, 0, f.len)
           shown   == Captured(plan, f, 0, f.len)
<1>1. Reads(plan, f) = IF message THEN [NoOutcome EXCEPT !.published = <<shown>>] ELSE [NoOutcome EXCEPT !.malformed = 1]
  BY Zenon DEF Reads
<1>2. "published" \in DOMAIN NoOutcome /\ NoOutcome.published = << >>
  BY DEF NoOutcome
<1> HIDE DEF message, shown
<1>3. Reads(plan, f).published = IF message THEN <<shown>> ELSE << >>
  BY <1>1, <1>2
<1> QED
  BY <1>3 DEF message, shown

(* What it publishes begins the buffer, and is long enough for C. *)
LEMMA ShownVariant ==
  ASSUME data \in Seq(Byte), NEW p, Legible(p), p.class = "Discriminated", p.discriminator.width % 8 = 0,
         NEW plan, VariantsOf(plan, p), NEW n \in 1 .. Len(data), NEW kw \in Nat \ {0},
         Reads(plan, FrameOf(SubSeq(data, 1, n), kw, {})).published # << >>
  PROVE  Enough(p, NumberOf(read_field(data, p.discriminator)))
<1> DEFINE frame == FrameOf(SubSeq(data, 1, n), kw, {})
           key   == Reader(plan)!KeyAt(frame, 0)
<1>1. frame.len = n
  BY FirstBytes
<1>2. Reader(plan)!IsMessage(frame, 0, n)
  BY <1>1, ReadsWhat
<1> HIDE DEF frame
<1>3. n >= end_offset(p.discriminator) /\ key \in DOMAIN p.variants /\ n = p.variant_length[key]
  BY <1>2, MessageIs
<1>4. end_offset(p.discriminator) <= n
  <2>1. p.discriminator \in Range(p.fields) /\ Placed(p.fields)
    BY DEF Legible, IsVariants
  <2>2. p.discriminator.offset \in Int /\ p.discriminator.width \in Int /\ ValidField(p.discriminator)
    BY <2>1 DEF Placed, IsFields
  <2>3. end_offset(p.discriminator) \in Int
    BY <2>2, FieldPlace
  <2> QED
    BY <1>3, <2>3
<1>5. key = NumberOf(read_field(data, p.discriminator))
  BY <1>4, KeyRead DEF frame
<1> HIDE DEF key
<1>6. Len(data) >= n
  OBVIOUS
<1> QED
  BY <1>3, <1>5, <1>6 DEF Enough

(* Every field of a message of a known variant lies in it, in whole bytes. *)
WholeFields(p) == \A f \in AllFields(p) : f.width % 8 = 0
LEMMA MessageHolds ==
  ASSUME NEW p, Legible(p), p.class = "Discriminated", WholeFields(p), NEW k \in DOMAIN p.variants,
         NEW g \in Range(p.fields) \cup Range(p.variants[k])
  PROVE  /\ g.offset \in Nat /\ g.width \in Nat \ {0} /\ g.width % 8 = 0
         /\ end_offset(g) \in Nat /\ end_offset(g) <= p.variant_length[k]
         /\ p.variant_length[k] \in Nat \ {0} /\ Placed(p.variants[k])
         /\ required_length(p.variants[k]) <= p.variant_length[k]
<1> DEFINE own == p.variants[k]
           all == own \o p.fields
           len == p.variant_length[k]
<1>1. /\ IsVariants(p) /\ ValidDiscriminated(p) /\ Placed(p.fields)
      /\ OneName(p.fields \o own) /\ IsFields(own) /\ IsFields(p.fields) /\ len \in Int
  BY DEF Legible, IsVariants
<1>2. Placed(own)
  BY <1>1, ValidFields DEF ValidDiscriminated
<1>3. len >= required_length(all)
  BY <1>1 DEF ValidDiscriminated
<1>4. len \in Nat \ {0}
  BY <1>1, CommonPlaces
<1>5. /\ IsFields(all) /\ Range(all) = Range(own) \cup Range(p.fields)
      /\ Range(p.fields \o own) = Range(p.fields) \cup Range(own)
  BY <1>1, Joined
<1> HIDE DEF own, all, len
<1>6. Placed(all)
  BY <1>1, <1>2, <1>5 DEF Placed
<1>7. \A h \in Range(all) : h.offset \in Nat /\ h.width \in Nat \ {0} /\ end_offset(h) \in Nat
  <2>1. SUFFICES ASSUME NEW h \in Range(all) PROVE h.offset \in Nat /\ h.width \in Nat \ {0} /\ end_offset(h) \in Nat
    OBVIOUS
  <2>2. h.offset \in Int /\ h.width \in Int /\ ValidField(h)
    BY <1>6 DEF Placed, IsFields
  <2>3. h.offset \in Nat /\ h.width \in Nat \ {0} /\ width_bytes(h) \in Nat \ {0}
        /\ end_offset(h) = h.offset + width_bytes(h)
    BY <2>2, FieldPlace
  <2> QED
    BY <2>3
<1>8. required_length(all) \in Nat /\ \A h \in Range(all) : end_offset(h) <= required_length(all)
  BY <1>5, Required
<1>9. \A h \in Range(all) : end_offset(h) <= len
  BY <1>3, <1>4, <1>7, <1>8
<1>10. required_length(own) <= len
  <2> DEFINE E == {end_offset(own[u]) : u \in DOMAIN own}
  <2>1. required_length(own) \in {0} \cup E
    <3>1. required_length(own) = Max({0} \cup E)
      BY DEF required_length
    <3>2. IsFiniteSet(E) /\ E \in SUBSET Int
      <4>1. DOMAIN own = 1 .. Len(own) /\ Len(own) \in Nat /\ \A u \in DOMAIN own : own[u] \in Range(own)
        BY <1>1, Indices
      <4>2. IsFiniteSet(DOMAIN own)
        BY <4>1, FS_Interval
      <4>3. [u \in DOMAIN own |-> end_offset(own[u])] \in Surjection(DOMAIN own, E)
        BY DEF Surjection
      <4>4. IsFiniteSet(E)
        BY <4>2, <4>3, FS_Surjection
      <4>5. \A h \in Range(own) : end_offset(h) \in Int
        BY <1>5, <1>7
      <4> QED
        BY <4>1, <4>4, <4>5
    <3> HIDE DEF E
    <3>3. IsFiniteSet({0} \cup E)
      <4>1. {0} \cup E = E \cup {0}
        OBVIOUS
      <4> QED
        BY <3>2, <4>1, FS_AddElement
    <3>4. {0} \cup E \in SUBSET Int /\ {0} \cup E # {}
      BY <3>2
    <3>5. Max({0} \cup E) \in {0} \cup E
      BY <3>3, <3>4, MaxIsGreatest
    <3> QED
      BY <3>1, <3>5
  <2>2. \A e \in E : e <= len
    BY <1>1, <1>5, <1>9, Indices
  <2> HIDE DEF E
  <2> QED
    BY <1>4, <2>1, <2>2
<1>11. g \in Range(all)
  BY <1>5 DEF own
<1>12. g.width % 8 = 0
  <2>1. CASE g.name \in CommonNames(p)
    <3>1. PICK h \in Range(p.fields) : h.name = g.name
      BY <2>1 DEF CommonNames, Names, Range
    <3>2. h.width = g.width
      BY <1>1, <1>5, <1>11, <3>1 DEF OneName
    <3>3. h.width % 8 = 0
      BY <3>1 DEF WholeFields, AllFields
    <3> QED
      BY <3>2, <3>3
  <2>2. CASE g.name \notin CommonNames(p)
    <3>1. g \in AllFields(p)
      BY <1>5, <1>11, <2>2 DEF AllFields, OtherFields, VariantFields, own
    <3> QED
      BY <3>1 DEF WholeFields
  <2> QED
    BY <2>1, <2>2
<1> QED
  BY <1>2, <1>4, <1>7, <1>9, <1>10, <1>11, <1>12 DEF own, len

(* No message is longer than the longest. *)
LEMMA LongEnough ==
  ASSUME NEW p, IsVariants(p), ValidDiscriminated(p), NEW plan, VariantsOf(plan, p), NEW k \in DOMAIN p.variants
  PROVE  p.variant_length[k] <= Reader(plan)!max_length
<1> DEFINE L == plan.variant_length
           S == {L[v] : v \in DOMAIN L}
<1>1. L = p.variant_length /\ DOMAIN L = DOMAIN p.variants /\ IsFiniteSet(DOMAIN L)
  BY DEF VariantsOf, ValidDiscriminated, IsVariants
<1>2. \A v \in DOMAIN L : L[v] \in Int
  BY <1>1 DEF IsVariants
<1>3. Reader(plan)!max_length = Max(S)
  BY DEF Reader!max_length, Max, Reader!Max
<1> HIDE DEF L
<1>4. IsFiniteSet(S)
  <2>1. [v \in DOMAIN L |-> L[v]] \in Surjection(DOMAIN L, S)
    BY DEF Surjection
  <2> QED
    BY <1>1, <2>1, FS_Surjection
<1>5. S \in SUBSET Int /\ L[k] \in S
  BY <1>1, <1>2
<1> HIDE DEF S
<1>6. L[k] <= Max(S)
  BY <1>4, <1>5, MaxIsGreatest
<1> QED
  BY <1>1, <1>3, <1>6

(* A field captured at one place is shown if the message reaches it. *)
LEMMA ShownField ==
  ASSUME NEW plan, NEW f, NEW key, key = Reader(plan)!KeyAt(f, 0), NEW n, NEW name, NEW at,
         name \in Reader(plan)!FieldNames, Reader(plan)!CaptureAt(name, key) = {at}, Reader(plan)!Ends(at) <= n
  PROVE  LET shown == Captured(plan, f, 0, n)
         IN  name \in DOMAIN shown /\ shown[name] = Cut(f, 0 + at.offset, at.length)
<1> DEFINE k        == Reader(plan)!KeyAt(f, 0)
           place(m) == CHOOSE x \in Reader(plan)!CaptureAt(m, k) : TRUE
           names    == {m \in Reader(plan)!FieldNames :
                          Reader(plan)!CaptureAt(m, k) # {} /\ Reader(plan)!Ends(place(m)) <= n}
<1>1. Captured(plan, f, 0, n) = [m \in names |-> Cut(f, 0 + place(m).offset, place(m).length)]
  BY Zenon DEF Captured
<1>2. place(name) = at
  OBVIOUS
<1> HIDE DEF place
<1>3. name \in names
  BY <1>2
<1> HIDE DEF names
<1> QED
  BY <1>1, <1>2, <1>3

(* What C finds to be a message the module publishes, field by field. *)
LEMMA VariantShown ==
  ASSUME data \in Seq(Byte), NEW p, Legible(p), p.class = "Discriminated", WholeFields(p),
         NEW plan, VariantsOf(plan, p), NEW kw \in Nat \ {0},
         NEW key, key = NumberOf(read_field(data, p.discriminator)), Enough(p, key)
  PROVE  LET n   == p.variant_length[key]
             out == Reads(plan, FrameOf(SubSeq(data, 1, n), kw, {})).published
         IN  /\ n \in 1 .. Len(data) /\ out # << >>
             /\ \A g \in Range(p.fields) \cup Range(p.variants[key]) :
                  g.name \in DOMAIN out[1] /\ out[1][g.name] = read_field(data, g)
<1> DEFINE n     == p.variant_length[key]
           frame == FrameOf(SubSeq(data, 1, n), kw, {})
           out   == Reads(plan, frame).published
           shown == Captured(plan, frame, 0, n)
           disc  == p.discriminator
<1>1. key \in DOMAIN p.variants /\ Len(data) >= n /\ Len(data) \in Nat
  BY DEF Enough
<1>2. IsVariants(p) /\ ValidDiscriminated(p) /\ disc \in Range(p.fields)
  BY DEF Legible, IsVariants
<1>3. \A g \in Range(p.fields) \cup Range(p.variants[key]) :
        /\ g.offset \in Nat /\ g.width \in Nat \ {0} /\ g.width % 8 = 0 /\ end_offset(g) <= n
        /\ end_offset(g) \in Nat /\ n \in Nat \ {0}
  BY <1>1, MessageHolds
<1>4. n \in 1 .. Len(data)
  <2> HIDE DEF n
  <2> QED
    BY <1>1, <1>2, <1>3
<1>5. frame.len = n
  <2> HIDE DEF n
  <2> QED
    BY <1>4, FirstBytes
<1>6. Reader(plan)!KeyAt(frame, 0) = key
  <2>1. disc.width % 8 = 0 /\ end_offset(disc) <= n
    BY <1>2, <1>3
  <2> HIDE DEF n
  <2> QED
    BY <1>4, <2>1, KeyRead
<1>7. Reader(plan)!IsMessage(frame, 0, n)
  <2>1. n >= end_offset(disc)
    <3>1. end_offset(disc) <= n /\ end_offset(disc) \in Nat /\ n \in Nat
      BY <1>2, <1>3
    <3> QED
      BY <3>1
  <2> HIDE DEF frame
  <2>2. Reader(plan)!IsMessage(frame, 0, n) <=>
          /\ n >= end_offset(disc) /\ Reader(plan)!KeyAt(frame, 0) \in DOMAIN p.variants
          /\ n = p.variant_length[Reader(plan)!KeyAt(frame, 0)]
    BY MessageIs
  <2> QED
    BY <1>1, <1>6, <2>1, <2>2
<1>8. n <= Reader(plan)!max_length
  BY <1>1, <1>2, LongEnough
<1>9. out = <<shown>>
  <2>1. out = IF frame.len <= Reader(plan)!max_length /\ Reader(plan)!IsMessage(frame, 0, frame.len)
              THEN <<Captured(plan, frame, 0, frame.len)>> ELSE << >>
    BY ReadsWhat
  <2> HIDE DEF out, frame, n
  <2> QED
    BY <1>5, <1>7, <1>8, <2>1
<1>10. ASSUME NEW g \in Range(p.fields) \cup Range(p.variants[key])
       PROVE  g.name \in DOMAIN shown /\ shown[g.name] = read_field(data, g)
  <2>1. g.name \in Reader(plan)!FieldNames /\ Reader(plan)!CaptureAt(g.name, key) = {Bytes(g)}
    <3>1. Holds(plan, key, g)
      BY <1>1, OnePlace
    <3> QED
      BY <3>1 DEF Holds
  <2>2. Reader(plan)!Ends(Bytes(g)) <= n
    <3>1. Reader(plan)!Ends(Bytes(g)) = end_offset(g)
      BY DEF Reader!Ends, Bytes, end_offset
    <3> QED
      BY <1>3, <3>1
  <2>3. /\ g.name \in DOMAIN shown
        /\ shown[g.name] = Cut(frame, 0 + Bytes(g).offset, Bytes(g).length)
    <3> HIDE DEF frame, n
    <3> QED
      BY <1>6, <2>1, <2>2, ShownField
  <2>4. Cut(frame, 0 + Bytes(g).offset, Bytes(g).length) = read_field(data, g)
    <3>1. g.offset \in Nat /\ g.width \in Nat \ {0} /\ g.width % 8 = 0 /\ end_offset(g) <= n
      BY <1>3
    <3> HIDE DEF n
    <3> QED
      BY <1>4, <3>1, CutAsRead
  <2> QED
    BY <2>3, <2>4
<1>11. out # << >> /\ out[1] = shown
  <2> HIDE DEF out, shown
  <2> QED
    BY <1>9
<1> HIDE DEF out, shown
<1>12. \A g \in Range(p.fields) \cup Range(p.variants[key]) :
         g.name \in DOMAIN out[1] /\ out[1][g.name] = read_field(data, g)
  BY <1>10, <1>11
<1> QED
  BY <1>4, <1>11, <1>12 DEF out, frame, n

(* A read of fields has their names. *)
LEMMA ReadNames ==
  ASSUME NEW fields, IsFields(fields)
  PROVE  DOMAIN read_fields(unique_fields(fields), 0) = NamesIn(fields)
<1> DEFINE kept == unique_fields(fields)
<1>1. {f.name : f \in Range(kept)} = {f.name : f \in Range(fields)}
  BY UniqueFields
<1> HIDE DEF kept
<1>2. {kept[k].name : k \in DOMAIN kept} = {f.name : f \in Range(kept)}
  BY DEF Range
<1>3. DOMAIN read_fields(kept, 0) = {kept[k].name : k \in DOMAIN kept}
  BY DEF read_fields
<1> QED
  BY <1>1, <1>2, <1>3 DEF NamesIn, kept

(* A step that returns from a discriminated parser says what it found. *)
LEMMA StepFinds ==
  ASSUME NEW p, NEW c, Reading(p, c), Step(p, c), pc = "loop" => c.kind = "multi",
         c.kind = "discriminated", Len(data) >= c.parse_length
  PROVE  LET key == NumberOf(result'.values[p.discriminator.name])
         IN  IF Enough(p, key) THEN /\ Found(result') /\ result'.forwarded = Behind(p, p.variant_length[key])
                                    /\ result'.data = read_fields(unique_fields(p.variants[key]), 0)
                               ELSE ~Found(result') /\ result'.forwarded = << >>
<1> DEFINE r == Header(c)
           Slots == {"flags", "values", "variant", "data", "destination", "forwarded", "message_count", "messages"}
           key   == NumberOf(r.values[p.discriminator.name])
           s     == Bytes_t(p.variant_length[key], Len(data) - p.variant_length[key])
           own   == read_fields(unique_fields(p.variants[key]), 0)
           taken == [r EXCEPT !.variant = key, !.data = own,
                              !.forwarded = IF c.forwards_payload THEN <<s>> ELSE << >>]
           short == [r EXCEPT !.variant = key, !.flags = @ \cup {"SHORT_INPUT"}]
           other == [r EXCEPT !.flags = @ \cup {"UNKNOWN_VARIANT"}]
<1>1. Len(data) \in Nat /\ c.parse_length \in Nat
  BY DEF Reading, Callable
<1>2. pc = "called" /\ ParseDiscriminated(p, c)
  <2>1. ~ShortInput(c)
    BY <1>1 DEF ShortInput
  <2>2. ~ParseFixed(c) /\ ~ParseOuter(p, c)
    BY DEF ParseFixed, ParseOuter
  <2>3. pc # "loop"
    OBVIOUS
  <2>4. ~NoSubHeader(p) /\ ~Truncated(p) /\ ~TakeMessage(p) /\ ~LoopEnds
    BY <2>3 DEF NoSubHeader, Truncated, TakeMessage, WholeMessage, LoopEnds, InLoop
  <2>5. ParseDiscriminated(p, c)
    BY <2>1, <2>2, <2>4 DEF Step
  <2> QED
    BY <2>5 DEF ParseDiscriminated
<1>3. r.values = read_fields(c.fields, 0) /\ DOMAIN r = Slots /\ r.forwarded = << >>
  BY <1>2, HeaderSays, NothingSaid
<1>4. r.flags \subseteq {"DROPPED"}
  <2>1. DOMAIN result = Slots
    BY <1>2, HeaderSays, NothingSaid
  <2> DEFINE verdict == action_lines(c.fields, read_fields(c.fields, 0), cfg)
  <2>2. r = [result EXCEPT !.values = read_fields(c.fields, 0), !.destination = verdict.destination,
                           !.flags = IF verdict.dropped THEN {"DROPPED"} ELSE {}]
    BY Zenon DEF Header
  <2> HIDE DEF verdict, r
  <2> QED
    BY <2>1, <2>2
<1>5. result' = IF Enough(p, key) THEN taken ELSE IF key \in DOMAIN p.variants THEN short ELSE other
  BY <1>2 DEF ParseDiscriminated, Return
<1> HIDE DEF r, s, own
<1>6. /\ taken.values = r.values /\ taken.data = own /\ taken.flags = r.flags
      /\ taken.forwarded = IF c.forwards_payload THEN <<s>> ELSE << >>
      /\ short.values = r.values /\ "SHORT_INPUT" \in short.flags /\ short.forwarded = << >>
      /\ other.values = r.values /\ "UNKNOWN_VARIANT" \in other.flags /\ other.forwarded = << >>
  <2> HIDE DEF key
  <2> QED
    BY <1>3
<1> HIDE DEF taken, short, other
<1>7. result'.values = r.values
  BY <1>5, <1>6
<1>8. Found(taken) /\ ~Found(short) /\ ~Found(other)
  BY <1>4, <1>6 DEF Found
<1>9. taken.forwarded = Behind(p, p.variant_length[key])
  <2>1. c.forwards_payload = p.forward
    BY DEF Reading, Callable
  <2> QED
    BY <1>6, <2>1 DEF Behind, s
<1>10. IF Enough(p, key) THEN /\ Found(result') /\ result'.forwarded = Behind(p, p.variant_length[key])
                              /\ result'.data = own
                         ELSE ~Found(result') /\ result'.forwarded = << >>
  BY <1>5, <1>6, <1>8, <1>9
<1> QED
  BY <1>7, <1>10 DEF own

(* What was found stays so while the call goes on. *)
LEMMA ParseFinds ==
  ASSUME CallInv, Parse
  PROVE  VariantRead'
<1> DEFINE p == Protocol(link)
           c == contexts[link]
           found(key) == IF Enough(p, key) THEN /\ Found(result') /\ result'.forwarded = Behind(p, p.variant_length[key])
                                                /\ result'.data = read_fields(unique_fields(p.variants[key]), 0)
                                           ELSE ~Found(result') /\ result'.forwarded = << >>
           key == NumberOf(result.values[p.discriminator.name])
<1>1. InHand /\ Step(p, c) /\ UNCHANGED <<script, queue>>
  BY DEF Parse
<1>2. Reading(p, c)
  BY <1>1, Called
<1>3. link' = link /\ contexts' = contexts
  BY <1>1, Standing
<1>4. p' = p /\ c' = c
  <2>1. \A k : Protocol(k)' = Protocol(k)
    BY <1>1 DEF script, Protocol
  <2> QED
    BY <1>3, <2>1
<1>5. pc = "loop" => c.kind = "multi"
  BY DEF CallInv, Looping
<1>6. data' = data
  <2> HIDE DEF p, c
  <2> QED
    BY <1>1 DEF Step, ShortInput, ParseFixed, ParseDiscriminated, ParseOuter, NoSubHeader, Truncated, TakeMessage, LoopEnds
<1>7. ASSUME NEW k PROVE /\ Enough(p, k)' <=> Enough(p, k)
                         /\ Behind(p, p.variant_length[k])' = Behind(p, p.variant_length[k])
                         /\ read_fields(unique_fields(p.variants[k]), 0)' = read_fields(unique_fields(p.variants[k]), 0)
  <2> HIDE DEF p, c
  <2> QED
    BY <1>4, <1>6 DEF Enough, Behind, Bytes_t, read_fields, read_be
<1> HIDE DEF p, c
<1>8. c.kind = "discriminated" /\ Len(data) >= c.parse_length => found(key')
  <2> SUFFICES ASSUME c.kind = "discriminated", Len(data) >= c.parse_length PROVE found(key')
    OBVIOUS
  <2>1. key' = NumberOf(result'.values[p.discriminator.name])
    BY <1>4
  <2> QED
    BY <1>1, <1>2, <1>5, <2>1, StepFinds
<1>9. VariantRead' <=>
        (Returned' /\ Len(data') >= c'.parse_length /\ c'.kind = "discriminated" =>
           IF Enough(p, key)' THEN /\ Found(result') /\ result'.forwarded = Behind(p, p.variant_length[key])'
                                   /\ result'.data = read_fields(unique_fields(p.variants[key]), 0)'
                              ELSE ~Found(result') /\ result'.forwarded = << >>)
  BY DEF VariantRead, p, c, key
<1> QED
  BY <1>4, <1>6, <1>7, <1>8, <1>9

(* The plans are made once. *)
LEMMA PlansStay ==
  ASSUME Made, [Next]_vars
  PROVE  Made'
<1> DEFINE Early == {"define", "constructed", "rejected"}
<1>1. job' = job
  BY DEF Next, Construct, GenerateSV, GenerateC, Send, Present, Parse, HandOn, Finish, script, vars
<1>2. Links' = Links /\ DataWidths' = DataWidths /\ \A k : Protocol(k)' = Protocol(k)
  BY <1>1 DEF Links, DataWidths, Protocol
<1>3. CASE Construct
  <2>1. stage' \in Early
    BY <1>3 DEF Construct
  <2> QED
    BY <2>1 DEF Made
<1>4. CASE GenerateSV
  <2>1. plans' = [k \in Links |-> [w \in DataWidths |-> generate(Protocol(k), keep_width(w))]]
    BY <1>4 DEF GenerateSV
  <2> QED
    BY <1>2, <2>1 DEF Made
<1>5. CASE ~Construct /\ ~GenerateSV
  <2>1. plans' = plans /\ (stage' \notin Early => stage \notin Early)
    BY <1>5 DEF Next, GenerateC, Send, Present, Parse, HandOn, Finish, script, vars
  <2> QED
    BY <1>2, <2>1 DEF Made
<1> QED
  BY <1>3, <1>4, <1>5

(* Each module judges the packet of a call. *)
LEMMA JudgesStay ==
  ASSUME CallInv, Judged, [Next]_vars
  PROVE  Judged'
<1>1. CASE Construct \/ GenerateSV \/ GenerateC \/ Send \/ Finish
  <2>1. ~InHand /\ UNCHANGED call
    BY <1>1 DEF Construct, GenerateSV, GenerateC, Send, Finish, InHand
  <2>2. pc' = "idle"
    BY <2>1, Idle DEF call
  <2> QED
    BY <2>2 DEF Judged
<1>2. CASE HandOn
  BY <1>2 DEF HandOn, Judged
<1>3. CASE Present \/ Parse \/ UNCHANGED vars
  <2>1. UNCHANGED <<script, queue>>
    BY <1>3 DEF Present, Parse, vars
  <2>2. Modules(link)' = Modules(link)
    BY <2>1 DEF script, Modules, link, DataWidths
  <2>3. CASE Present
    <3>1. DOMAIN verdicts' = Modules(link)
      BY <2>3 DEF Present
    <3> QED
      BY <2>2, <3>1 DEF Judged
  <2>4. CASE Parse \/ UNCHANGED vars
    <3>1. verdicts' = verdicts /\ (pc' # "idle" => pc # "idle")
      BY <2>4 DEF Parse, Step, ShortInput, ParseFixed, ParseDiscriminated, ParseOuter, NoSubHeader, Truncated,
                  TakeMessage, WholeMessage, LoopEnds, InLoop, vars, call
    <3> QED
      BY <2>2, <3>1 DEF Judged
  <2> QED
    BY <1>3, <2>3, <2>4
<1> QED
  BY <1>1, <1>2, <1>3 DEF Next

(* What was found of a variant stays, and is said of the call in hand. *)
LEMMA FindsStay ==
  ASSUME CallInv, VariantRead, [Next]_vars
  PROVE  VariantRead'
<1>1. ASSUME pc' \in {"idle", "called"} PROVE VariantRead'
  BY <1>1 DEF VariantRead, Returned
<1>2. CASE Construct \/ GenerateSV \/ GenerateC \/ Send \/ Finish
  <2>1. ~InHand /\ UNCHANGED call
    BY <1>2 DEF Construct, GenerateSV, GenerateC, Send, Finish, InHand
  <2>2. pc' \in {"idle", "called"}
    BY <2>1, Idle DEF call
  <2> QED
    BY <1>1, <2>2
<1>3. CASE Present \/ HandOn
  <2>1. pc' \in {"idle", "called"}
    BY <1>3 DEF Present, HandOn, Call
  <2> QED
    BY <1>1, <2>1
<1>4. CASE UNCHANGED vars
  <2>1. /\ stage' = stage /\ job' = job /\ contexts' = contexts /\ queue' = queue
        /\ pc' = pc /\ data' = data /\ result' = result
    BY <1>4 DEF vars, script, call
  <2> DEFINE p == Protocol(link)
             c == contexts[link]
             key == NumberOf(result.values[p.discriminator.name])
             enough == Enough(p, key)
             own == read_fields(unique_fields(p.variants[key]), 0)
             rest == Behind(p, p.variant_length[key])
  <2>2. p' = p /\ c' = c
    BY <2>1 DEF Protocol, link
  <2> HIDE DEF p, c
  <2>3. key' = key
    BY <2>1, <2>2
  <2> HIDE DEF key
  <2>4. (enough' <=> enough) /\ own' = own /\ rest' = rest
    BY <2>1, <2>2, <2>3 DEF Enough, Behind, Bytes_t, read_fields, read_be
  <2> HIDE DEF enough, own, rest
  <2>5. VariantRead <=>
          (pc = "returned" /\ Len(data) >= c.parse_length /\ c.kind = "discriminated" =>
             IF enough THEN Found(result) /\ result.forwarded = rest /\ result.data = own
                       ELSE ~Found(result) /\ result.forwarded = << >>)
    BY DEF VariantRead, Returned, p, c, key, enough, own, rest
  <2>6. VariantRead' <=>
          (pc' = "returned" /\ Len(data') >= c'.parse_length /\ c'.kind = "discriminated" =>
             IF enough' THEN Found(result') /\ result'.forwarded = rest' /\ result'.data = own'
                       ELSE ~Found(result') /\ result'.forwarded = << >>)
    BY DEF VariantRead, Returned, p, c, key, enough, own, rest
  <2> QED
    BY <2>1, <2>2, <2>4, <2>5, <2>6
<1>5. CASE Parse
  BY <1>5, ParseFinds
<1> QED
  BY <1>2, <1>3, <1>4, <1>5 DEF Next

(* The modules judge by what was generated, and a result of a message of   *)
(* several variants tells which of them it is, or that it is none.         *)
THEOREM VariantInvariant ==
  Spec => []VariantInv
<1>1. Init => VariantInv
  BY DEF Init, CInit, VariantInv, Made, Judged, VariantRead, Returned
<1>2. CallInv /\ VariantInv /\ [Next]_vars => VariantInv'
  BY PlansStay, JudgesStay, FindsStay DEF VariantInv
<1> QED
  BY <1>1, <1>2, CallsInvariant, PTL DEF Spec

(* A record with the entries of another. *)
Merged(r, by) ==
  /\ DOMAIN Extended(r, by) = DOMAIN r \cup DOMAIN by
  /\ \A key \in DOMAIN by : Extended(r, by)[key] = by[key]
  /\ \A key \in DOMAIN r \ DOMAIN by : Extended(r, by)[key] = r[key]
LEMMA MergedRecords ==
  ASSUME NEW r, NEW by
  PROVE  Merged(r, by)
  BY BothRecords DEF Merged

(* A field the function has read is that of its name in the message. *)
ReadIn(p, key, name, value) ==
  \E g \in Range(p.fields) \cup Range(p.variants[key]) : g.name = name /\ value = read_field(data, g)
LEMMA FieldFound ==
  ASSUME data \in Seq(Byte), NEW p, Legible(p), p.class = "Discriminated", WholeFields(p), NEW key,
         Enough(p, key), required_length(p.fields) <= Len(data),
         NEW values, values = read_fields(unique_fields(p.fields), 0),
         NEW own, own = read_fields(unique_fields(p.variants[key]), 0),
         NEW name \in DOMAIN Extended(values, own)
  PROVE  ReadIn(p, key, name, Extended(values, own)[name])
<1>1. key \in DOMAIN p.variants /\ Len(data) >= p.variant_length[key] /\ Len(data) \in Nat
  BY DEF Enough
<1>2. Merged(values, own)
  BY MergedRecords
<1>3. CASE name \in DOMAIN own
  <2>1. OneName(p.variants[key]) /\ IsFields(p.variants[key])
    BY <1>1, NamesMeet
  <2>2. PICK g \in Range(p.variants[key]) : g.name = name
    <3>1. DOMAIN own = NamesIn(p.variants[key])
      BY <2>1, ReadNames
    <3> QED
      BY <1>3, <3>1 DEF NamesIn
  <2>3. /\ g.width % 8 = 0 /\ Placed(p.variants[key])
        /\ required_length(p.variants[key]) <= p.variant_length[key]
        /\ p.variant_length[key] \in Nat \ {0}
    BY <1>1, <2>2, MessageHolds
  <2>4. required_length(p.variants[key]) <= Len(data)
    <3>1. required_length(p.variants[key]) \in Nat
      BY <2>1, Required
    <3> QED
      BY <1>1, <2>3, <3>1
  <2>5. own[g.name] = read_field(data, g)
    BY <2>1, <2>2, <2>3, <2>4, HeaderField
  <2> QED
    BY <1>2, <1>3, <2>2, <2>5 DEF Merged, ReadIn
<1>4. CASE name \notin DOMAIN own
  <2>1. OneName(p.fields) /\ Placed(p.fields) /\ IsFields(p.fields) /\ name \in DOMAIN values
    BY <1>2, <1>4 DEF Legible, Placed, Merged
  <2>2. PICK g \in Range(p.fields) : g.name = name
    <3>1. DOMAIN values = NamesIn(p.fields)
      BY <2>1, ReadNames
    <3> QED
      BY <2>1, <3>1 DEF NamesIn
  <2>3. g.width % 8 = 0
    BY <1>1, <2>2, MessageHolds
  <2>4. values[g.name] = read_field(data, g)
    BY <2>1, <2>2, <2>3, HeaderField
  <2> QED
    BY <1>2, <1>4, <2>1, <2>2, <2>4 DEF Merged, ReadIn
<1> QED
  BY <1>3, <1>4

(* The message is shown whole. *)
ShownWhole(p, plan, kw, key) ==
  LET n   == p.variant_length[key]
      out == Reads(plan, FrameOf(SubSeq(data, 1, n), kw, {})).published
  IN  /\ n \in 1 .. Len(data) /\ out # << >>
      /\ \A g \in Range(p.fields) \cup Range(p.variants[key]) :
           g.name \in DOMAIN out[1] /\ out[1][g.name] = read_field(data, g)
LEMMA VariantShows ==
  ASSUME data \in Seq(Byte), NEW p, Legible(p), p.class = "Discriminated", WholeFields(p),
         NEW plan, VariantsOf(plan, p), NEW kw \in Nat \ {0},
         NEW key, key = NumberOf(read_field(data, p.discriminator)), Enough(p, key)
  PROVE  ShownWhole(p, plan, kw, key)
  BY VariantShown DEF ShownWhole

(* A frame's first bytes are a message the module publishes with the same  *)
(* fields, if and only if the function finds one, and what it forwards is  *)
(* what is behind it.                                                      *)
Tells(p, r, plan, kw) ==
  LET read(n) == Reads(plan, FrameOf(SubSeq(data, 1, n), kw, {})).published
      fields  == Extended(r.values, r.data)
  IN  /\ Found(r) <=> \E n \in 1 .. Len(data) :
           /\ read(n) # << >> /\ r.forwarded = Behind(p, n)
           /\ \A name \in DOMAIN fields : name \in DOMAIN read(n)[1] /\ read(n)[1][name] = fields[name]
      /\ ~Found(r) => r.forwarded = << >>
LEMMA SameVariant ==
  ASSUME data \in Seq(Byte), NEW p, Legible(p), p.class = "Discriminated", WholeFields(p),
         NEW plan, VariantsOf(plan, p), NEW kw \in Nat \ {0},
         NEW values, values = read_fields(unique_fields(p.fields), 0), NEW r, r.values = values,
         required_length(p.fields) <= Len(data),
         NEW key, key = NumberOf(values[p.discriminator.name]),
         IF Enough(p, key) THEN /\ Found(r) /\ r.forwarded = Behind(p, p.variant_length[key])
                                /\ r.data = read_fields(unique_fields(p.variants[key]), 0)
                           ELSE ~Found(r) /\ r.forwarded = << >>
  PROVE  Tells(p, r, plan, kw)
<1> DEFINE read(n) == Reads(plan, FrameOf(SubSeq(data, 1, n), kw, {})).published
           fields  == Extended(r.values, r.data)
           disc    == p.discriminator
           alike(n) == /\ read(n) # << >> /\ r.forwarded = Behind(p, n)
                       /\ \A name \in DOMAIN fields : name \in DOMAIN read(n)[1] /\ read(n)[1][name] = fields[name]
<1>1. Placed(p.fields) /\ OneName(p.fields) /\ disc \in Range(p.fields) /\ disc.width % 8 = 0
  <2>1. disc \in Range(p.fields)
    BY DEF Legible, IsVariants
  <2>2. disc.width % 8 = 0
    BY <2>1 DEF WholeFields, AllFields
  <2> QED
    BY <2>1, <2>2 DEF Legible
<1>2. key = NumberOf(read_field(data, disc))
  <2>1. values[disc.name] = read_field(data, disc)
    BY <1>1, HeaderField
  <2> QED
    BY <2>1
<1>3. ASSUME Enough(p, key) PROVE \E n \in 1 .. Len(data) : alike(n)
  <2> DEFINE n == p.variant_length[key]
  <2>1. /\ n \in 1 .. Len(data) /\ read(n) # << >>
        /\ \A g \in Range(p.fields) \cup Range(p.variants[key]) :
             g.name \in DOMAIN read(n)[1] /\ read(n)[1][g.name] = read_field(data, g)
    <3>1. ShownWhole(p, plan, kw, key)
      BY <1>2, <1>3, VariantShows
    <3> QED
      BY <3>1, Zenon DEF ShownWhole
  <2>2. r.data = read_fields(unique_fields(p.variants[key]), 0) /\ r.forwarded = Behind(p, n)
    BY <1>3
  <2>3. ASSUME NEW name \in DOMAIN fields
        PROVE  ReadIn(p, key, name, fields[name])
    BY <1>3, <2>2, <2>3, FieldFound
  <2> HIDE DEF n, read, fields
  <2>4. \A name \in DOMAIN fields : name \in DOMAIN read(n)[1] /\ read(n)[1][name] = fields[name]
    BY <2>1, <2>3 DEF ReadIn
  <2> QED
    BY <2>1, <2>2, <2>4
<1>4. ASSUME NEW n \in 1 .. Len(data), read(n) # << >> PROVE Enough(p, key)
  BY <1>1, <1>2, <1>4, ShownVariant
<1> HIDE DEF read, fields
<1>5. /\ Found(r) <=> \E n \in 1 .. Len(data) : alike(n)
      /\ ~Found(r) => r.forwarded = << >>
  BY <1>3, <1>4
<1> QED
  BY <1>5 DEF read, fields, Tells

(* The plan a module was rendered from has the variants of the definition. *)
LEMMA RenderedVariants ==
  ASSUME Made, InHand, link \in Links, Protocol(link).class = "Discriminated", NEW w \in Modules(link)
  PROVE  VariantsOf(plans[link][w], Protocol(link))
<1>1. plans[link][w] = generate(Protocol(link), keep_width(w)) /\ plans[link][w].ok
  BY DEF Made, InHand, Modules
<1> QED
  BY <1>1, VariantPlans

(* Both find the message that is there. *)
LEMMA SameMessage ==
  ASSUME CallInv, ReadInv, VariantInv, NamesApart, WholeVariants
  PROVE  VariantsAgree
<1> SUFFICES ASSUME ReadHeader, Protocol(link).class = "Discriminated" PROVE VariantsAgree
  BY DEF VariantsAgree
<1> DEFINE p == Protocol(link)
           c == contexts[link]
           d == Jobs[job].chain[link]
           key == NumberOf(result.values[p.discriminator.name])
<1>1. Returned /\ Len(data) >= c.parse_length /\ InHand
  BY DEF ReadHeader, Returned, CallInv, Queued
<1>2. /\ Legible(p) /\ required_length(p.fields) <= parse_length(p) /\ parse_length(p) \in Nat
      /\ parse_length(p) = c.parse_length /\ data \in Seq(Byte)
      /\ parse_length(p) <= Len(data) => result.values = read_fields(unique_fields(p.fields), 0)
      /\ \A w \in Modules(link) : keep_width(w) \in Nat \ {0}
  BY <1>1, DefinitionRead
<1>3. link \in Links /\ job \in DOMAIN Jobs /\ stage = "running"
  BY <1>1, Called DEF InHand
<1>4. Accepted(p) /\ c = build_context(p) /\ c.ok
  BY <1>3 DEF CallInv, Generated
<1>5. Declared(d) /\ p = Constructed(d) /\ d \in Range(Jobs[job].chain)
  BY <1>3, Chain DEF Protocol, Links, Range
<1>6. c.kind = "discriminated"
  BY <1>4, <1>5, ContextCovers
<1>7. WholeFields(p)
  BY <1>3, <1>4, <1>5 DEF WholeVariants, WholeFields
<1>8. IF Enough(p, key) THEN /\ Found(result) /\ result.forwarded = Behind(p, p.variant_length[key])
                             /\ result.data = read_fields(unique_fields(p.variants[key]), 0)
                        ELSE ~Found(result) /\ result.forwarded = << >>
  BY <1>1, <1>6 DEF VariantInv, VariantRead
<1>9. DOMAIN verdicts = Modules(link)
  BY <1>1 DEF VariantInv, Judged, Returned
<1>10. \A w \in Modules(link) : VariantsOf(plans[link][w], p)
  BY <1>1, <1>3, RenderedVariants DEF VariantInv
<1> HIDE DEF p, c
<1>11. required_length(p.fields) <= Len(data) /\ result.values = read_fields(unique_fields(p.fields), 0)
  <2>1. IsFields(p.fields) /\ Len(data) \in Nat
    BY <1>2 DEF Legible, Placed
  <2>2. required_length(p.fields) \in Nat
    BY <2>1, Required
  <2> QED
    BY <1>1, <1>2, <2>1, <2>2
<1>12. p.class = "Discriminated"
  BY DEF p
<1>13. ASSUME NEW w \in DOMAIN verdicts
       PROVE  Tells(p, result, plans[link][w], keep_width(w))
  <2>1. VariantsOf(plans[link][w], p) /\ keep_width(w) \in Nat \ {0}
    BY <1>2, <1>9, <1>10
  <2> HIDE DEF key
  <2>2. key = NumberOf(result.values[p.discriminator.name])
    BY DEF key
  <2> QED
    BY <1>2, <1>7, <1>8, <1>11, <1>12, <2>1, <2>2, SameVariant
<1> QED
  BY <1>13, Zenon DEF VariantsAgree, Tells, p

(* Whatever the definition of a message of several variants, of whole      *)
(* bytes and with one place for a name, and whatever the packet: the C     *)
(* function finds a message where the module publishes one, in the same    *)
(* bytes, finds in it the fields that the module's registers show, and     *)
(* points at what is left of the packet behind it, or at nothing, as the   *)
(* definition says.                                                        *)
THEOREM VariantsReadAlike ==
  NamesApart /\ WholeVariants => (Spec => []VariantsAgree)
<1>1. SUFFICES ASSUME NamesApart, WholeVariants PROVE Spec => []VariantsAgree
  OBVIOUS
<1>2. CallInv /\ ReadInv /\ VariantInv => VariantsAgree
  BY <1>1, SameMessage
<1> QED
  BY <1>2, CallsInvariant, ReadInvariant, VariantInvariant, PTL
==================================================================================
