--------------------------- MODULE MessageHeadersProofs ---------------------------
(***************************************************************************)
(* Proofs, for every bus width, definition of messages and set of frames   *)
(* that meets the assumptions, that the steps the two multi-message        *)
(* parsers have in common keep HeadersInv, what it says of the frame, the  *)
(* message in hand and the byte that is next, and that they are steps of   *)
(* MessageWalk.                                                            *)
(***************************************************************************)
EXTENDS MessageHeaders, StreamSourceProofs, SequenceTheorems, WellFoundedInduction

(* The n bytes of a frame from position a on. *)
Slice(f, a, n) == [i \in 1 .. n |-> f.data[a + i - 1]]

LEMMA SliceType ==
  ASSUME NEW f, NEW a \in Nat, NEW n \in Nat,
         \A p \in a .. a + n - 1 : f.data[p] \in Byte
  PROVE  /\ Slice(f, a, n) \in Seq(Byte) /\ Len(Slice(f, a, n)) = n
         /\ (Slice(f, a, n) = << >>) <=> n = 0
<1> DEFINE s == Slice(f, a, n)
<1>1. \A i \in 1 .. n : f.data[a + i - 1] \in Byte
  OBVIOUS
<1>2. s \in Seq(Byte)
  BY <1>1, IsASeq DEF Slice
<1>3. Len(s) = n
  BY <1>2, LenProperties DEF Slice
<1>4. s = << >> <=> n = 0
  BY <1>2, <1>3, EmptySeq
<1> QED
  BY <1>2, <1>3, <1>4

LEMMA SliceTail ==
  ASSUME NEW f, NEW a \in Nat, NEW n \in Nat, n > 0,
         \A p \in a .. a + n - 1 : f.data[p] \in Byte
  PROVE  Head(Slice(f, a, n)) = f.data[a] /\ Tail(Slice(f, a, n)) = Slice(f, a + 1, n - 1)
<1> DEFINE s == Slice(f, a, n)
           t == Slice(f, a + 1, n - 1)
<1>1. \A i \in 1 .. n : f.data[a + i - 1] \in Byte
  OBVIOUS
<1>2. s \in Seq(Byte) /\ Len(s) = n /\ s # << >>
  <2>1. s \in Seq(Byte) /\ Len(s) = n /\ (s = << >> <=> n = 0)
    BY SliceType
  <2>2. n # 0
    OBVIOUS
  <2> HIDE DEF s
  <2> QED
    BY <2>1, <2>2
<1>3. \A i \in 1 .. n : s[i] = f.data[a + i - 1]
  BY DEF Slice
<1>4. Head(s) = f.data[a]
  BY <1>2, <1>3
<1>5. /\ Tail(s) \in Seq(Byte) /\ Len(Tail(s)) = n - 1
      /\ \A i \in 1 .. n - 1 : Tail(s)[i] = s[i + 1]
  <2> HIDE DEF s
  <2> QED
    BY <1>2, HeadTailProperties
<1>6. ASSUME NEW i \in 1 .. n - 1 PROVE t[i] = s[i + 1] /\ t[i] \in Byte
  <2>1. i + 1 \in 1 .. n /\ a + (i + 1) - 1 = (a + 1) + i - 1
    OBVIOUS
  <2>2. t[i] = f.data[(a + 1) + i - 1]
    BY DEF Slice
  <2> HIDE DEF s, t
  <2> QED
    BY <1>1, <1>3, <2>1, <2>2
<1>7. t \in Seq(Byte) /\ Len(t) = n - 1
  <2>1. n - 1 \in Nat
    OBVIOUS
  <2>2. \A i \in 1 .. n - 1 : f.data[(a + 1) + i - 1] \in Byte
    BY <1>6 DEF Slice
  <2>3. t \in Seq(Byte)
    BY <2>1, <2>2, IsASeq DEF Slice
  <2> QED
    BY <2>1, <2>3, LenProperties DEF Slice
<1>8. Tail(s) = t
  <2> HIDE DEF s, t
  <2> QED
    BY <1>5, <1>6, <1>7, SeqEqual
<1> QED
  BY <1>4, <1>8

LEMMA SliceRest ==
  ASSUME NEW f, NEW a \in Nat, NEW n \in Nat, NEW k \in 0 .. n,
         \A p \in a .. a + n - 1 : f.data[p] \in Byte
  PROVE  SubSeq(Slice(f, a, n), k + 1, n) = Slice(f, a + k, n - k)
<1> DEFINE s == Slice(f, a, n)
<1>1. s \in Seq(Byte) /\ Len(s) = n
  BY SliceType
<1>2. SubSeq(s, k + 1, n) = [i \in 1 .. (1 + n - (k + 1)) |-> s[i + (k + 1) - 1]]
  BY <1>1
<1>3. 1 + n - (k + 1) = n - k
  OBVIOUS
<1>4. ASSUME NEW i \in 1 .. n - k PROVE s[i + (k + 1) - 1] = f.data[(a + k) + i - 1]
  <2>1. i + (k + 1) - 1 \in 1 .. n /\ a + (i + (k + 1) - 1) - 1 = (a + k) + i - 1
    OBVIOUS
  <2> QED
    BY <2>1 DEF Slice
<1> QED
  BY <1>2, <1>3, <1>4 DEF Slice

LEMMA SlicesJoin ==
  ASSUME NEW f, NEW a \in Nat, NEW n \in Nat, NEW m \in Nat,
         \A p \in a .. a + n + m - 1 : f.data[p] \in Byte
  PROVE  Slice(f, a, n) \o Slice(f, a + n, m) = Slice(f, a, n + m)
<1>1. /\ Slice(f, a, n) \in Seq(Byte) /\ Len(Slice(f, a, n)) = n
      /\ Slice(f, a + n, m) \in Seq(Byte) /\ Len(Slice(f, a + n, m)) = m
  <2>1. \A p \in a .. a + n - 1 : f.data[p] \in Byte
    OBVIOUS
  <2>2. Slice(f, a, n) \in Seq(Byte) /\ Len(Slice(f, a, n)) = n
    BY <2>1, SliceType
  <2>3. PICK b \in Nat : b = a + n
    OBVIOUS
  <2>4. \A p \in b .. b + m - 1 : f.data[p] \in Byte
    BY <2>3
  <2>5. Slice(f, b, m) \in Seq(Byte) /\ Len(Slice(f, b, m)) = m
    BY <2>4, SliceType
  <2> QED
    BY <2>2, <2>3, <2>5
<1> DEFINE s == Slice(f, a, n)
           t == Slice(f, a + n, m)
           u == Slice(f, a, n + m)
<1>2. /\ s \o t \in Seq(Byte) /\ Len(s \o t) = n + m
      /\ \A i \in 1 .. n + m : (s \o t)[i] = IF i <= n THEN s[i] ELSE t[i - n]
  <2>1. s \in Seq(Byte) /\ t \in Seq(Byte) /\ Len(s) = n /\ Len(t) = m
    BY <1>1
  <2> HIDE DEF s, t
  <2> QED
    BY <2>1, ConcatProperties
<1>3. u \in Seq(Byte) /\ Len(u) = n + m
  <2>1. PICK k \in Nat : k = n + m
    OBVIOUS
  <2>2. \A p \in a .. a + k - 1 : f.data[p] \in Byte
    BY <2>1
  <2>3. Slice(f, a, k) \in Seq(Byte) /\ Len(Slice(f, a, k)) = k
    BY <2>2, SliceType
  <2> QED
    BY <2>1, <2>3
<1>4. ASSUME NEW i \in 1 .. n + m PROVE (s \o t)[i] = u[i]
  <2>1. u[i] = f.data[a + i - 1]
    BY DEF Slice
  <2>2. CASE i <= n
    <3>1. s[i] = f.data[a + i - 1]
      BY <2>2 DEF Slice
    <3> QED
      BY <1>2, <2>1, <2>2, <3>1
  <2>3. CASE ~(i <= n)
    <3>1. i - n \in 1 .. m /\ (a + n) + (i - n) - 1 = a + i - 1
      BY <2>3
    <3>2. t[i - n] = f.data[(a + n) + (i - n) - 1]
      BY <3>1 DEF Slice
    <3> HIDE DEF s, t, u
    <3> QED
      BY <1>2, <2>1, <2>3, <3>1, <3>2
  <2> QED
    BY <2>2, <2>3
<1> HIDE DEF s, t, u
<1>5. s \o t = u
  BY <1>2, <1>3, <1>4, SeqEqual
<1> QED
  BY <1>5 DEF s, t, u
------------------------------------------------------------------------------
(* Numbers. *)

(* A set of numbers has a least one. *)
LEMMA Least ==
  ASSUME NEW T \in SUBSET Nat, T # {}
  PROVE  \E m \in T : \A n \in T : m <= n
<1> DEFINE R == OpToRel(<, Nat)
<1>1. IsWellFoundedOn(R, Nat)
  BY NatLessThanWellFounded
<1>2. R = {ss \in Nat \X Nat : ss[1] < ss[2]}
  BY DEF OpToRel
<1> HIDE DEF R
<1>3. PICK m \in T : \A n \in T : ~(<<n, m>> \in R)
  BY <1>1, WFMin
<1>4. \A n \in T : n < m => <<n, m>> \in R
  BY <1>2
<1>5. m \in Nat /\ \A n \in T : n \in Nat
  OBVIOUS
<1>6. ASSUME NEW n \in T PROVE m <= n
  <2>1. n \in Nat /\ ~(n < m)
    BY <1>3, <1>4, <1>5
  <2> QED
    BY <1>5, <2>1
<1> QED
  BY <1>6

(* The recursion that defines a number by its digits has a solution, and   *)
(* only one.                                                               *)
LEMMA Digits ==
  \A len \in Nat : \A d \in [0 .. len - 1 -> Nat] :
         \E v \in [0 .. len -> Nat] :
           \A n \in 0 .. len : v[n] = IF n = 0 THEN 0 ELSE 256 * v[n - 1] + d[n - 1]
<1> SUFFICES ASSUME NEW len \in Nat, NEW d \in [0 .. len - 1 -> Nat]
             PROVE  \E v \in [0 .. len -> Nat] :
                      \A n \in 0 .. len : v[n] = IF n = 0 THEN 0 ELSE 256 * v[n - 1] + d[n - 1]
  OBVIOUS
<1> DEFINE Up(v, m) == \A n \in 0 .. m : v[n] = IF n = 0 THEN 0 ELSE 256 * v[n - 1] + d[n - 1]
           Bad == {m \in 0 .. len : ~\E v \in [0 .. m -> Nat] : Up(v, m)}
<1>1. SUFFICES Bad = {}
  <2>1. len \in 0 .. len
    OBVIOUS
  <2>2. \E v \in [0 .. len -> Nat] : Up(v, len)
    <3> HIDE DEF Up
    <3> QED
      BY <1>1, <2>1
  <2> QED
    BY <2>2, Zenon
<1>2. SUFFICES ASSUME Bad # {} PROVE FALSE
  OBVIOUS
<1>3. PICK m \in Bad : \A n \in Bad : m <= n
  <2>1. Bad \in SUBSET Nat
    OBVIOUS
  <2> HIDE DEF Bad
  <2> QED
    BY <1>2, <2>1, Least
<1>4. m \in 0 .. len /\ ~\E v \in [0 .. m -> Nat] : Up(v, m)
  OBVIOUS
<1> HIDE DEF Up
<1>5. CASE m = 0
  <2> DEFINE v == [n \in 0 .. 0 |-> 0]
  <2>1. v \in [0 .. 0 -> Nat] /\ Up(v, 0)
    BY DEF Up
  <2> QED
    BY <1>4, <1>5, <2>1
<1>6. CASE m # 0
  <2>1. m - 1 \in 0 .. len /\ m \in Nat
    BY <1>4, <1>6
  <2>10. m - 1 \notin Bad
    <3>1. ~(m <= m - 1)
      BY <2>1
    <3> HIDE DEF Bad
    <3> QED
      BY <1>3, <3>1
  <2>2. \E v \in [0 .. m - 1 -> Nat] : Up(v, m - 1)
    BY <2>1, <2>10
  <2> HIDE DEF Bad
  <2>3. PICK v \in [0 .. m - 1 -> Nat] : Up(v, m - 1)
    BY <2>2
  <2> DEFINE last == 256 * v[m - 1] + d[m - 1]
             w    == [n \in 0 .. m |-> IF n = m THEN last ELSE v[n]]
  <2>4. last \in Nat
    <3>1. m - 1 \in 0 .. m - 1 /\ m - 1 \in 0 .. len - 1
      BY <1>4, <1>6
    <3>2. v[m - 1] \in Nat /\ d[m - 1] \in Nat
      BY <3>1
    <3> QED
      BY <3>2
  <2>5. w \in [0 .. m -> Nat]
    <3> HIDE DEF last
    <3> QED
      BY <2>1, <2>3, <2>4
  <2>6. Up(w, m)
    <3> USE DEF Up
    <3>1. SUFFICES ASSUME NEW n \in 0 .. m PROVE w[n] = IF n = 0 THEN 0 ELSE 256 * w[n - 1] + d[n - 1]
      OBVIOUS
    <3>2. CASE n = m
      BY <1>6, <2>1, <3>2
    <3>3. CASE n # m
      <4>1. n \in 0 .. m - 1 /\ (n # 0 => n - 1 \in 0 .. m - 1)
        BY <2>1, <3>3
      <4>2. v[n] = IF n = 0 THEN 0 ELSE 256 * v[n - 1] + d[n - 1]
        BY <2>3, <4>1
      <4>3. w[n] = v[n] /\ (n # 0 => w[n - 1] = v[n - 1])
        BY <2>1, <3>3, <4>1
      <4> QED
        BY <4>2, <4>3
    <3> QED
      BY <3>2, <3>3
  <2> QED
    BY <1>4, <2>5, <2>6
<1> QED
  BY <1>5, <1>6

(* So the number in a field whose bytes are there is a number.             *)
LEMMA BigEndianType ==
  ASSUME NEW hdr, NEW field, field.length \in Nat, field.offset \in Int,
         \A i \in field.offset .. field.offset + field.length - 1 : hdr[i] \in Byte
  PROVE  BigEndian(hdr, field) \in Nat
<1> DEFINE len == field.length
           off == field.offset
           d == [n \in 0 .. len - 1 |-> hdr[off + n]]
           Solves(v) == v = [n \in 0 .. len |-> IF n = 0 THEN 0 ELSE 256 * v[n - 1] + hdr[off + n - 1]]
           value == CHOOSE g : Solves(g)
<1>1. d \in [0 .. len - 1 -> Nat]
  <2>1. ASSUME NEW n \in 0 .. len - 1 PROVE hdr[off + n] \in Nat
    <3>1. off + n \in off .. off + len - 1
      OBVIOUS
    <3>2. hdr[off + n] \in Byte
      BY <3>1, Zenon
    <3>3. Byte \subseteq Nat
      BY DEF Byte
    <3> HIDE DEF off
    <3> QED
      BY <3>2, <3>3
  <2> HIDE DEF len, off
  <2> QED
    BY <2>1
<1>2. \A n \in 1 .. len : d[n - 1] = hdr[off + n - 1]
  OBVIOUS
<1>3. BigEndian(hdr, field) = value[len]
  BY DEF BigEndian
<1>4. len \in Nat /\ off \in Int
  OBVIOUS
<1> HIDE DEF d, len, off
<1>5. PICK v \in [0 .. len -> Nat] :
        \A n \in 0 .. len : v[n] = IF n = 0 THEN 0 ELSE 256 * v[n - 1] + d[n - 1]
  <2> HIDE DEF Solves, value
  <2>1. \A e \in [0 .. len - 1 -> Nat] :
          \E v \in [0 .. len -> Nat] :
            \A n \in 0 .. len : v[n] = IF n = 0 THEN 0 ELSE 256 * v[n - 1] + e[n - 1]
    BY <1>4, Digits, ZenonT(40)
  <2> QED
    BY <1>1, <2>1
<1>6. Solves(v)
  <2>1. \A n \in 0 .. len : v[n] = IF n = 0 THEN 0 ELSE 256 * v[n - 1] + hdr[off + n - 1]
    <3>1. SUFFICES ASSUME NEW n \in 0 .. len
                   PROVE  v[n] = IF n = 0 THEN 0 ELSE 256 * v[n - 1] + hdr[off + n - 1]
      OBVIOUS
    <3>2. n # 0 => n \in 1 .. len
      BY <1>4
    <3> QED
      BY <1>2, <1>5, <3>2
  <2>2. v = [n \in 0 .. len |-> v[n]]
    OBVIOUS
  <2> QED
    BY <2>1, <2>2
<1>7. Solves(value)
  <2> HIDE DEF Solves
  <2> QED
    BY <1>6
<1> HIDE DEF value
<1>8. \A n \in 0 .. len : value[n] = v[n]
  <2> DEFINE Differ == {n \in 0 .. len : value[n] # v[n]}
  <2>1. SUFFICES ASSUME Differ # {} PROVE FALSE
    OBVIOUS
  <2>2. Differ \in SUBSET Nat
    BY <1>4
  <2>3. PICK m \in Differ : \A n \in Differ : m <= n
    <3> HIDE DEF Differ
    <3> QED
      BY <2>1, <2>2, Least
  <2>4. m \in 0 .. len /\ value[m] # v[m] /\ m \in Nat
    BY <1>4, <2>3
  <2>5. \A g : Solves(g) => g[m] = IF m = 0 THEN 0 ELSE 256 * g[m - 1] + hdr[off + m - 1]
    BY <2>4
  <2>6. /\ value[m] = IF m = 0 THEN 0 ELSE 256 * value[m - 1] + hdr[off + m - 1]
        /\ v[m] = IF m = 0 THEN 0 ELSE 256 * v[m - 1] + hdr[off + m - 1]
    <3> HIDE DEF Solves
    <3> QED
      BY <1>6, <1>7, <2>5, Zenon
  <2> HIDE DEF Solves
  <2>7. m # 0
    BY <2>4, <2>6
  <2>8. m - 1 \in 0 .. len /\ m - 1 \notin Differ
    BY <1>4, <2>3, <2>4, <2>7
  <2>9. value[m - 1] = v[m - 1]
    BY <2>8
  <2> QED
    BY <2>4, <2>6, <2>7, <2>9
<1> QED
  BY <1>3, <1>4, <1>5, <1>8
------------------------------------------------------------------------------
(* What the plan says of headers. *)

(* Every field byte lies before the header's end, which is on the beat     *)
(* PARSE_FINAL_BEAT.                                                       *)
LEMMA Layout ==
  /\ KEEP_WIDTH \in Nat \ {0} /\ PARSE_FINAL_BEAT \in Nat /\ TOTAL_LENGTH \in Nat \ {0}
  /\ OUTER_TAIL_START \in 1 .. KEEP_WIDTH
  /\ PARSE_FINAL_BEAT * KEEP_WIDTH + OUTER_TAIL_START = TOTAL_LENGTH
  /\ \A p \in HeaderBytes : p \in Nat /\ p < TOTAL_LENGTH
<1>1. KEEP_WIDTH \in Nat \ {0} /\ TOTAL_LENGTH \in Nat \ {0}
  BY KeepWidthAssumption, PlanAssumption
<1>2. \A p \in HeaderBytes : p \in Nat /\ p < TOTAL_LENGTH
  BY <1>1, PlanAssumption
<1> DEFINE q == (TOTAL_LENGTH - 1) \div KEEP_WIDTH
           r == (TOTAL_LENGTH - 1) % KEEP_WIDTH
           m == TOTAL_LENGTH + KEEP_WIDTH - 1
<1>3. q \in Nat /\ r \in 0 .. KEEP_WIDTH - 1 /\ TOTAL_LENGTH - 1 = q * KEEP_WIDTH + r
  <2>1. TOTAL_LENGTH - 1 \in Nat
    BY <1>1
  <2> QED
    BY <1>1, <2>1, Z3
<1>4. OUTER_TAIL_START = r + 1
  BY DEF OUTER_TAIL_START
<1> HIDE DEF q, r
<1>5. m \in Nat /\ m = (q + 1) * KEEP_WIDTH + r
  <2>1. (q + 1) * KEEP_WIDTH = q * KEEP_WIDTH + KEEP_WIDTH
    BY <1>1, <1>3
  <2>2. q * KEEP_WIDTH \in Nat
    BY <1>1, <1>3
  <2> QED
    BY <1>1, <1>3, <2>1, <2>2
<1>6. beat_of(m) = q + 1
  <2>1. q + 1 \in Nat /\ (q + 1) * KEEP_WIDTH \in Nat
    BY <1>1, <1>3
  <2>2. m >= (q + 1) * KEEP_WIDTH /\ m < (q + 1) * KEEP_WIDTH + KEEP_WIDTH
    <3> HIDE DEF m
    <3> QED
      BY <1>1, <1>3, <1>5, <2>1
  <2> HIDE DEF m
  <2> QED
    BY <1>5, <2>1, <2>2, BeatOf
<1>7. PARSE_FINAL_BEAT = q
  <2>1. PARSE_BEATS = beat_of(m)
    BY OuterAssumption DEF beat_of
  <2> QED
    BY <1>3, <1>6, <2>1 DEF PARSE_FINAL_BEAT
<1>8. q * KEEP_WIDTH \in Nat
  BY <1>1, <1>3
<1> QED
  BY <1>1, <1>2, <1>3, <1>4, <1>7, <1>8

(* The counts in headers and the lengths in sub-headers are numbers. *)
LEMMA Numbers ==
  /\ \A hdr \in [HeaderBytes -> Byte] : MsgCount(hdr) \in Nat
  /\ \A sub \in [SubBytes -> Byte] : MsgLen(sub) \in Nat
<1>1. ASSUME NEW hdr \in [HeaderBytes -> Byte] PROVE MsgCount(hdr) \in Nat
  <2> DEFINE field == Fields[message_count_field]
  <2>1. field.length \in Nat /\ field.offset \in Nat /\ message_count_field \in DOMAIN Fields
    BY MessagePlanAssumption
  <2>2. \A i \in field.offset .. field.offset + field.length - 1 : hdr[i] \in Byte
    <3>1. ASSUME NEW i \in field.offset .. field.offset + field.length - 1 PROVE i \in HeaderBytes
      BY <2>1 DEF HeaderBytes, FieldBytes
    <3> QED
      BY <3>1
  <2>3. MsgCount(hdr) = BigEndian(hdr, field)
    BY DEF MsgCount, FieldValue
  <2> HIDE DEF field
  <2> QED
    BY <2>1, <2>2, <2>3, BigEndianType
<1>2. ASSUME NEW sub \in [SubBytes -> Byte] PROVE MsgLen(sub) \in Nat
  <2> DEFINE field == SubFields[length_field]
  <2>1. field.length \in Nat /\ field.offset \in Nat /\ length_field \in DOMAIN SubFields
    BY MessagePlanAssumption
  <2>2. \A i \in field.offset .. field.offset + field.length - 1 : sub[i] \in Byte
    <3>1. ASSUME NEW i \in field.offset .. field.offset + field.length - 1 PROVE i \in SubBytes
      BY <2>1 DEF SubBytes
    <3> QED
      BY <3>1
  <2>3. MsgLen(sub) = BigEndian(sub, field)
    BY DEF MsgLen
  <2> HIDE DEF field
  <2> QED
    BY <2>1, <2>2, <2>3, BigEndianType
<1> QED
  BY <1>1, <1>2
------------------------------------------------------------------------------
(* The beat on the bus. *)

(* What an input handshake adds to the bytes accepted. *)
LEMMA Taken ==
  ASSUME SourceInv, Handshake
  PROVE  /\ SourceInv' /\ src' = src /\ cur' = src /\ src \in Frames
         /\ pos' \in Nat /\ (pos' = 0 <=> s_axis_tlast) /\ (~s_axis_tlast => pos' = pos + KEEP_WIDTH)
         /\ input_valid_bytes = Valid /\ Valid \in 0 .. KEEP_WIDTH
         /\ Accepted' = pos + Valid /\ pos + Valid <= src.len
         /\ s_axis_tlast /\ Valid # 0 => src.len + KEEP_WIDTH # src.end
         /\ ~s_axis_tlast => Valid = KEEP_WIDTH
<1>1. KEEP_WIDTH \in Nat \ {0}
  BY KeepWidthAssumption
<1>2. /\ SourceInv' /\ src' = src /\ cur' = src /\ src \in Frames
      /\ pos' \in Nat /\ pos' = IF s_axis_tlast THEN 0 ELSE pos + KEEP_WIDTH
  BY HandshakeSource
<1>3. /\ pos \in Nat /\ src.len \in Nat /\ src.end \in Nat /\ src.len <= src.end
      /\ Valid \in 0 .. KEEP_WIDTH /\ input_valid_bytes = Valid
      /\ ~s_axis_tlast => Valid = KEEP_WIDTH /\ pos + KEEP_WIDTH < src.end
      /\ s_axis_tlast => pos + KEEP_WIDTH = src.end /\ pos + Valid = src.len
  BY Beat
<1>4. Accepted' = IF pos' > 0 THEN pos' ELSE src.len
  BY <1>2 DEF Accepted
<1>5. ~s_axis_tlast => pos + KEEP_WIDTH <= src.len
  <2>1. SUFFICES ASSUME ~s_axis_tlast PROVE pos + KEEP_WIDTH <= src.len
    OBVIOUS
  <2>2. Valid = KEEP_WIDTH
    BY <1>3, <2>1
  <2> QED
    BY <1>1, <1>3, <2>2 DEF Valid
<1>6. CASE s_axis_tlast
  BY <1>1, <1>2, <1>3, <1>4, <1>6
<1>7. CASE ~s_axis_tlast
  BY <1>1, <1>2, <1>3, <1>4, <1>5, <1>7
<1> QED
  BY <1>6, <1>7

(* The bytes of a frame. *)
LEMMA Bytes ==
  ASSUME NEW f \in Frames
  PROVE  f.len \in Nat /\ \A p \in 0 .. f.len - 1 : f.data[p] \in Byte
<1>1. KEEP_WIDTH \in Nat /\ IsFrame(f)
  BY KeepWidthAssumption, FramesAssumption
<1>2. f.len \in Nat /\ f.end \in Nat /\ f.len <= f.end /\ f.data \in [0 .. f.end - 1 -> Byte]
  BY <1>1 DEF IsFrame
<1> QED
  BY <1>2

(* The bytes on the bus are the frame's next ones. *)
LEMMA Inputs ==
  ASSUME SourceInv
  PROVE  InputBytes = Slice(src, pos, Valid)
<1>1. /\ pos \in Nat /\ Valid \in 0 .. KEEP_WIDTH /\ input_valid_bytes = Valid
      /\ \A i \in Lanes : s_axis_tdata[i] = src.data[pos + i]
  BY Beat
<1>2. ASSUME NEW i \in 1 .. Valid PROVE s_axis_tdata[i - 1] = src.data[pos + i - 1]
  <2>1. i - 1 \in Lanes /\ pos + (i - 1) = pos + i - 1
    BY <1>1, KeepWidthAssumption DEF Lanes
  <2> QED
    BY <1>1, <2>1
<1> QED
  BY <1>1, <1>2 DEF InputBytes, Slice

------------------------------------------------------------------------------
LEMMA Held ==
  ASSUME HeadersInv
  PROVE  /\ SourceInv /\ pos \in Nat /\ KEEP_WIDTH \in Nat \ {0}
         /\ cur \in Frames /\ cur.len \in Nat /\ \A p \in 0 .. cur.len - 1 : cur.data[p] \in Byte
         /\ Accepted \in Nat /\ Accepted <= cur.len
         /\ scratch \in Seq(Byte) /\ Len(scratch) \in Nat /\ (Empty <=> Len(scratch) = 0)
         /\ InMessages => /\ Consumed \in Nat /\ Consumed >= TOTAL_LENGTH /\ Accepted = Consumed + Len(scratch)
                          /\ scratch = Slice(cur, Consumed, Len(scratch))
                          /\ scratch_last = (pos = 0)
         /\ InMessages /\ Empty => pos > 0 /\ cur = src /\ Accepted = pos /\ Consumed = pos
<1>1. /\ SourceInv /\ CommonTypeOK /\ Framing /\ ScratchIntact
  BY DEF HeadersInv
<1>2. KEEP_WIDTH \in Nat \ {0} /\ TOTAL_LENGTH \in Nat
  BY KeepWidthAssumption, PlanAssumption
<1>3. /\ pos \in Nat /\ cur \in Frames /\ (pos > 0 => cur = src)
      /\ scratch \in Seq(Byte)
  BY <1>1 DEF SourceInv, SourceTypeOK, CommonTypeOK
<1>4. cur.len \in Nat /\ \A p \in 0 .. cur.len - 1 : cur.data[p] \in Byte
  BY <1>3, Bytes
<1>5. Len(scratch) \in Nat /\ (Empty <=> Len(scratch) = 0)
  BY <1>3, EmptySeq, LenProperties DEF Empty
<1>6. pos > 0 => pos <= cur.len
  <2>1. SUFFICES ASSUME pos > 0 PROVE pos <= src.len
    BY <1>3
  <2>2. IsFrame(src) /\ pos + KEEP_WIDTH <= src.end
    BY <1>1, Beat, FramesAssumption
  <2>3. src.end \in Nat /\ src.len \in Nat /\ src.end - KEEP_WIDTH <= src.len
    BY <1>2, <2>2 DEF IsFrame
  <2> QED
    BY <1>2, <1>3, <2>2, <2>3
<1>7. Accepted \in Nat /\ Accepted <= cur.len /\ (pos > 0 => Accepted = pos)
  BY <1>3, <1>4, <1>6 DEF Accepted
<1>8. ASSUME InMessages
      PROVE  /\ Consumed \in Nat /\ Consumed >= TOTAL_LENGTH /\ Accepted = Consumed + Len(scratch)
             /\ scratch = Slice(cur, Consumed, Len(scratch))
             /\ scratch_last = (pos = 0)
  <2>1. /\ Consumed >= TOTAL_LENGTH /\ scratch_last = (pos = 0)
        /\ scratch = [i \in 1 .. Len(scratch) |-> cur.data[Consumed + i - 1]]
    BY <1>1, <1>8, Zenon DEF ScratchIntact
  <2>2. Consumed \in Nat /\ Accepted = Consumed + Len(scratch)
    BY <1>2, <1>5, <1>7, <2>1 DEF Consumed
  <2>4. scratch = Slice(cur, Consumed, Len(scratch))
    BY <2>1, Zenon DEF Slice
  <2> QED
    BY <2>1, <2>2, <2>4
<1>9. ASSUME InMessages, Empty
      PROVE  pos > 0 /\ cur = src /\ Accepted = pos /\ Consumed = pos
  <2>1. pos > 0
    BY <1>1, <1>9 DEF Framing
  <2> QED
    BY <1>3, <1>5, <1>7, <1>9, <2>1 DEF Consumed
<1> QED
  BY <1>1, <1>2, <1>3, <1>4, <1>5, <1>7, <1>8, <1>9
------------------------------------------------------------------------------
(* The invariant, put together where a step may lead. *)

RegistersOK ==
  /\ field_reg \in [HeaderBytes -> Byte] /\ cfg_reg \in ConfigValues \cup {CONFIG_DEFAULT}
  /\ drop_count \in [DropConditions -> 0 .. COUNTER_MOD - 1]
  /\ sub_header_offset \in SubOffsets /\ msg_remaining \in Nat /\ msg_bytes_remaining \in Nat
  /\ sticky_tuser \in BOOLEAN /\ malformed_count \in 0 .. COUNTER_MOD - 1
  /\ sub_reg \in [SubBytes -> Byte]
  /\ fields_fresh \in BOOLEAN

ScratchOK == scratch \in Seq(Byte) /\ Len(scratch) <= 2 * KEEP_WIDTH - 1 /\ scratch_last \in BOOLEAN
HeaderHeld == \A p \in HeaderBytes : field_reg[p] = cur.data[p]

LEMMA IsTyped == HeadersInv => RegistersOK /\ ScratchOK
  BY DEF HeadersInv, CommonTypeOK, HeaderTypeOK, RegistersOK, ScratchOK

(* Between two frames. *)
LEMMA BetweenFrames ==
  ASSUME SourceInv', RegistersOK', ScratchOK',
         state' = "ST_PARSE", pos' = 0, beat_count' = 0, fields_fresh' => HeaderHeld'
  PROVE  HeadersInv'
<1>1. CommonTypeOK'
  <2>1. beat_count' \in 0 .. PARSE_FINAL_BEAT
    BY Layout
  <2> QED
    BY <2>1 DEF CommonTypeOK, HeaderTypeOK, RegistersOK, ScratchOK, State, SourceInv
<1>2. ~InMessages'
  BY DEF InMessages
<1>3. Framing' /\ ScratchIntact' /\ FieldsCoherent'
  <2>1. 0 = 0 * KEEP_WIDTH
    BY Layout
  <2> QED
    BY <1>2, <2>1 DEF Framing, ScratchIntact, FieldsCoherent, fields_valid, HeaderHeld
<1>4. ParseInv' /\ WalkInv' /\ SubHeaderInv' /\ BodyInv'
  <2>1. \A p \in HeaderBytes : ~(p < pos')
    BY Layout
  <2>2. ParseInv'
    BY <2>1 DEF ParseInv
  <2>3. SubHeaderInv' /\ BodyInv'
    BY DEF SubHeaderInv, BodyInv
  <2>4. WalkInv'
    BY <1>2, Zenon DEF WalkInv
  <2> QED
    BY <2>2, <2>3, <2>4
<1> QED
  BY <1>1, <1>3, <1>4 DEF HeadersInv

(* The rest of a frame is drained. *)
LEMMA RestDrained ==
  ASSUME SourceInv', RegistersOK', ScratchOK',
         state' = "ST_DRAIN", pos' # 0, beat_count' = 0, HeaderHeld'
  PROVE  HeadersInv'
<1>1. CommonTypeOK'
  <2>1. beat_count' \in 0 .. PARSE_FINAL_BEAT
    BY Layout
  <2> QED
    BY <2>1 DEF CommonTypeOK, HeaderTypeOK, RegistersOK, ScratchOK, State, SourceInv
<1>2. ~InMessages'
  BY DEF InMessages
<1>3. Framing' /\ ScratchIntact' /\ FieldsCoherent'
  <2>1. pos' > 0
    BY DEF SourceInv, SourceTypeOK
  <2> QED
    BY <1>2, <2>1 DEF Framing, ScratchIntact, FieldsCoherent, HeaderHeld
<1>4. ParseInv' /\ WalkInv' /\ SubHeaderInv' /\ BodyInv'
  BY <1>2 DEF ParseInv, WalkInv, SubHeaderInv, BodyInv
<1> QED
  BY <1>1, <1>3, <1>4 DEF HeadersInv

(* Among the messages of a frame, c of whose bytes are consumed. *)
InFrame(c) ==
  /\ Consumed = c /\ c \in Nat /\ c >= TOTAL_LENGTH
  /\ scratch = Slice(cur, c, Len(scratch))
  /\ scratch_last = (pos = 0)
  /\ Len(scratch) = 0 => pos # 0
  /\ pos = 0 => cur.len + KEEP_WIDTH # cur.end
OnMessage(start) ==
  Start = start /\ \E n \in 1 .. Count : msg_remaining = Count - n + 1 /\ \E at \in Starts(cur, n) : at[n] = start

LEMMA AmongMessages ==
  ASSUME SourceInv', RegistersOK', ScratchOK',
         state' \in {"ST_MSG_HDR", "ST_MSG_BODY"}, beat_count' = 0, HeaderHeld',
         NEW c, InFrame(c)', NEW start, OnMessage(start)', SubHeaderInv', BodyInv'
  PROVE  HeadersInv'
<1>1. CommonTypeOK'
  <2>1. beat_count' \in 0 .. PARSE_FINAL_BEAT
    BY Layout
  <2> QED
    BY <2>1 DEF CommonTypeOK, HeaderTypeOK, RegistersOK, ScratchOK, State, SourceInv
<1>2. InMessages' /\ (Empty' => Len(scratch') = 0)
  BY DEF InMessages, Empty
<1>3. Framing'
  <2>1. pos' \in Nat
    BY DEF SourceInv, SourceTypeOK
  <2> QED
    BY <1>2, <2>1 DEF Framing, InFrame
<1>4. ScratchIntact'
  <2>1. Consumed' >= TOTAL_LENGTH /\ scratch_last' = (pos' = 0)
    BY DEF InFrame
  <2>2. scratch' = [i \in 1 .. Len(scratch') |-> cur'.data[Consumed' + i - 1]]
    BY Zenon DEF InFrame, Slice
  <2> QED
    BY <2>1, <2>2, Zenon DEF ScratchIntact
<1>5. FieldsCoherent' /\ ParseInv' /\ WalkInv'
  BY DEF FieldsCoherent, HeaderHeld, ParseInv, WalkInv, OnMessage, InFrame
<1> QED
  BY <1>1, <1>3, <1>4, <1>5 DEF HeadersInv
------------------------------------------------------------------------------
(* ST_PARSE. *)

(* Counting keeps a counter in its range. *)
LEMMA Counters ==
  ASSUME RegistersOK
  PROVE  /\ (malformed_count + 1) % COUNTER_MOD \in 0 .. COUNTER_MOD - 1
         /\ CountDrops => drop_count' \in [DropConditions -> 0 .. COUNTER_MOD - 1]
<1>1. COUNTER_MOD \in Nat \ {0}
  BY CounterAssumption
<1>2. \A n \in 0 .. COUNTER_MOD - 1 : (n + 1) % COUNTER_MOD \in 0 .. COUNTER_MOD - 1
  <2>1. SUFFICES ASSUME NEW n \in 0 .. COUNTER_MOD - 1 PROVE (n + 1) % COUNTER_MOD \in 0 .. COUNTER_MOD - 1
    OBVIOUS
  <2>2. n + 1 \in Nat
    BY <1>1
  <2> QED
    BY <1>1, <2>2, Z3
<1>3. ASSUME CountDrops
      PROVE  drop_count' \in [DropConditions -> 0 .. COUNTER_MOD - 1]
  <2>1. \A c \in DropConditions : drop_count[c] \in 0 .. COUNTER_MOD - 1
    BY DEF RegistersOK
  <2> QED
    BY <1>2, <1>3, <2>1 DEF CountDrops
<1> QED
  BY <1>2, <1>3 DEF RegistersOK

(* A beat of the outer header: the bytes up to its end are captured. *)
LEMMA Capture ==
  ASSUME HeadersInv, ParseBeat
  PROVE  /\ SourceInv /\ Handshake /\ state = "ST_PARSE" /\ pos = beat_count * KEEP_WIDTH
         /\ beat_count \in 0 .. PARSE_FINAL_BEAT
         /\ field_reg' \in [HeaderBytes -> Byte] /\ cfg_reg' \in ConfigValues \cup {CONFIG_DEFAULT}
         /\ \A p \in HeaderBytes : p < pos + KEEP_WIDTH => field_reg'[p] = src.data[p]
         /\ beat_count = PARSE_FINAL_BEAT => Bypassed = field_reg'
<1>1. /\ SourceInv /\ Handshake /\ state = "ST_PARSE" /\ pos = beat_count * KEEP_WIDTH
      /\ beat_count \in 0 .. PARSE_FINAL_BEAT /\ field_reg' = Captured
      /\ \A p \in HeaderBytes : p < pos => field_reg[p] = src.data[p]
  BY DEF HeadersInv, CommonTypeOK, HeaderTypeOK, Framing, ParseInv, ParseBeat, Accept
<1>2. cfg_reg' \in ConfigValues \cup {CONFIG_DEFAULT}
  BY IsTyped DEF ParseBeat, ConfigEdge, RegistersOK
<1>3. KEEP_WIDTH \in Nat \ {0} /\ PARSE_FINAL_BEAT \in Nat /\ beat_count \in Nat /\ pos \in Nat
  BY <1>1, Layout
<1>4. /\ \A i \in Lanes : s_axis_tdata[i] = src.data[pos + i] /\ s_axis_tdata[i] \in Byte
      /\ field_reg \in [HeaderBytes -> Byte]
  BY <1>1, Beat, IsTyped DEF Data, RegistersOK
<1>5. ASSUME NEW p \in HeaderBytes
      PROVE  p \in Nat /\ byte_in_beat(p) \in Lanes
  BY <1>3, BeatOf, Layout
<1>6. field_reg' \in [HeaderBytes -> Byte]
  <2>1. \A p \in HeaderBytes : s_axis_tdata[byte_in_beat(p)] \in Byte /\ field_reg[p] \in Byte
    BY <1>4, <1>5
  <2> QED
    BY <1>1, <2>1 DEF Captured
<1>7. ASSUME NEW p \in HeaderBytes, p < pos + KEEP_WIDTH
      PROVE  field_reg'[p] = src.data[p]
  <2>1. p \in Nat /\ byte_in_beat(p) \in Lanes
    BY <1>5
  <2>2. CASE beat_of(p) = beat_count
    <3>1. pos + byte_in_beat(p) = p
      BY <1>1, <1>3, <2>1, <2>2, BeatOf
    <3> QED
      BY <1>1, <1>4, <2>1, <2>2, <3>1 DEF Captured
  <2>3. CASE beat_of(p) # beat_count
    <3>1. ~(p >= pos /\ p < pos + KEEP_WIDTH)
      BY <1>1, <1>3, <2>1, <2>3, BeatOf
    <3>2. p < pos
      BY <1>3, <1>7, <2>1, <3>1
    <3> QED
      BY <1>1, <2>3, <3>2 DEF Captured
  <2> QED
    BY <2>2, <2>3
<1>8. beat_count = PARSE_FINAL_BEAT => Bypassed = field_reg'
  BY <1>1 DEF Bypassed, Captured
<1> QED
  BY <1>1, <1>2, <1>6, <1>7, <1>8

LEMMA KeepsParseMore ==
  ASSUME HeadersInv, ParseMore
  PROVE  HeadersInv'
<1>1. /\ ParseBeat /\ ParseMark /\ ~s_axis_tlast /\ beat_count # PARSE_FINAL_BEAT
      /\ beat_count' = beat_count + 1 /\ fields_fresh' = FALSE
      /\ UNCHANGED <<state, messages, scratches, drop_count>>
  BY DEF ParseMore
<1>2. /\ SourceInv /\ Handshake /\ state = "ST_PARSE" /\ pos = beat_count * KEEP_WIDTH
      /\ beat_count \in 0 .. PARSE_FINAL_BEAT
      /\ field_reg' \in [HeaderBytes -> Byte] /\ cfg_reg' \in ConfigValues \cup {CONFIG_DEFAULT}
      /\ \A p \in HeaderBytes : p < pos + KEEP_WIDTH => field_reg'[p] = src.data[p]
  BY <1>1, Capture
<1>3. /\ SourceInv' /\ src' = src /\ cur' = src /\ pos' = pos + KEEP_WIDTH /\ Valid = KEEP_WIDTH
  BY <1>1, <1>2, Taken
<1>4. sticky_tuser' \in BOOLEAN
  BY <1>1 DEF ParseMark, s_axis_tuser
<1>5. RegistersOK' /\ ScratchOK'
  BY <1>1, <1>2, <1>4, IsTyped DEF RegistersOK, ScratchOK, messages, scratches, ParseMark, ParseBeat
<1>6. state' = "ST_PARSE" /\ beat_count' \in 0 .. PARSE_FINAL_BEAT /\ pos' = beat_count' * KEEP_WIDTH
  <2>1. (beat_count + 1) * KEEP_WIDTH = beat_count * KEEP_WIDTH + KEEP_WIDTH
    BY <1>2, Layout
  <2> QED
    BY <1>1, <1>2, <1>3, <2>1, Layout
<1>7. CommonTypeOK'
  BY <1>3, <1>5, <1>6 DEF CommonTypeOK, HeaderTypeOK, RegistersOK, ScratchOK, State, SourceInv
<1>8. ~InMessages'
  BY <1>6 DEF InMessages
<1>9. Framing' /\ ScratchIntact' /\ FieldsCoherent'
  BY <1>1, <1>6, <1>8 DEF Framing, ScratchIntact, FieldsCoherent, fields_valid
<1>10. ParseInv'
  BY <1>2, <1>3, <1>6 DEF ParseInv
<1>11. SubHeaderInv' /\ BodyInv'
  BY <1>6 DEF SubHeaderInv, BodyInv
<1>12. WalkInv'
  BY <1>8, Zenon DEF WalkInv
<1> QED
  BY <1>3, <1>7, <1>9, <1>10, <1>11, <1>12 DEF HeadersInv

(* The header, or the frame, ends with this beat and nothing is kept of it *)
(* but the rest of the frame, if there is one.                             *)
LEMMA KeepsParseEnds ==
  ASSUME HeadersInv, ParseShort \/ FinalShort \/ FinalDrop
  PROVE  HeadersInv'
<1>1. ParseBeat /\ beat_count' = 0 /\ UNCHANGED messages
  BY DEF ParseShort, FinalShort, FinalDrop, HeaderComplete, FinalBeat
<1>2. /\ SourceInv /\ Handshake /\ state = "ST_PARSE" /\ pos = beat_count * KEEP_WIDTH
      /\ beat_count \in 0 .. PARSE_FINAL_BEAT
      /\ field_reg' \in [HeaderBytes -> Byte] /\ cfg_reg' \in ConfigValues \cup {CONFIG_DEFAULT}
      /\ \A p \in HeaderBytes : p < pos + KEEP_WIDTH => field_reg'[p] = src.data[p]
  BY <1>1, Capture
<1>3. /\ SourceInv' /\ src' = src /\ cur' = src /\ (pos' = 0 <=> s_axis_tlast)
      /\ input_valid_bytes = Valid /\ Valid \in 0 .. KEEP_WIDTH /\ (~s_axis_tlast => Valid = KEEP_WIDTH)
  BY <1>2, Taken
<1>4. ScratchOK'
  <2>1. << >> \in Seq(Byte) /\ Len(<< >>) <= 2 * KEEP_WIDTH - 1
    BY Layout
  <2>2. UNCHANGED scratches \/ (scratch' = << >> /\ scratch_last' = FALSE)
    BY DEF ParseShort, FinalShort, FinalDrop, scratches
  <2> QED
    BY <2>1, <2>2, IsTyped DEF ScratchOK, scratches
<1>5. RegistersOK'
  <2>1. /\ sticky_tuser' \in BOOLEAN /\ malformed_count' \in 0 .. COUNTER_MOD - 1
        /\ drop_count' \in [DropConditions -> 0 .. COUNTER_MOD - 1] /\ fields_fresh' \in BOOLEAN
    <3>1. CASE ParseShort \/ FinalShort
      BY <3>1, Counters, IsTyped DEF ParseShort, FinalShort, Malformed, RegistersOK
    <3>2. CASE FinalDrop
      <4>1. sticky_tuser' \in BOOLEAN
        BY <3>2 DEF FinalDrop, HeaderComplete, ParseMark, s_axis_tuser
      <4> QED
        BY <3>2, <4>1, Counters, IsTyped DEF FinalDrop, HeaderComplete, ParseMark, RegistersOK
    <3> QED
      BY <3>1, <3>2
  <2> QED
    BY <1>1, <1>2, <2>1, IsTyped DEF RegistersOK, messages, ParseBeat
<1>6. CASE ParseShort
  BY <1>1, <1>2, <1>3, <1>4, <1>5, <1>6, BetweenFrames DEF ParseShort
<1>7. CASE FinalShort
  <2>1. s_axis_tlast
    BY <1>3, <1>7, Layout DEF FinalShort
  <2> QED
    BY <1>1, <1>2, <1>3, <1>4, <1>5, <1>7, <2>1, BetweenFrames DEF FinalShort
<1>8. CASE FinalDrop
  <2>1. beat_count = PARSE_FINAL_BEAT /\ ParseOrDrain(s_axis_tlast)
    BY <1>8 DEF FinalDrop, HeaderComplete, FinalBeat
  <2>2. HeaderHeld'
    <3>1. TOTAL_LENGTH <= pos + KEEP_WIDTH
      BY <1>2, <2>1, Layout
    <3>2. \A p \in HeaderBytes : p < pos + KEEP_WIDTH
      BY <1>2, <3>1, Layout
    <3> QED
      BY <1>2, <1>3, <3>2 DEF HeaderHeld
  <2>3. CASE s_axis_tlast
    BY <1>1, <1>3, <1>4, <1>5, <2>1, <2>2, <2>3, BetweenFrames DEF ParseOrDrain
  <2>4. CASE ~s_axis_tlast
    BY <1>1, <1>3, <1>4, <1>5, <2>1, <2>2, <2>4, RestDrained DEF ParseOrDrain
  <2> QED
    BY <2>3, <2>4
<1> QED
  BY <1>6, <1>7, <1>8

(* The first message starts behind the header. *)
LEMMA FirstMessage ==
  ASSUME NEW f \in Frames, f.len >= TOTAL_LENGTH
  PROVE  [i \in 1 .. 1 |-> TOTAL_LENGTH] \in Starts(f, 1)
<1> DEFINE at == [i \in 1 .. 1 |-> TOTAL_LENGTH]
<1>1. TOTAL_LENGTH \in TOTAL_LENGTH .. f.len
  BY Bytes, Layout
<1>2. at \in [1 .. 1 -> TOTAL_LENGTH .. f.len] /\ at[1] = TOTAL_LENGTH
  BY <1>1
<1>3. 2 .. 1 = {}
  OBVIOUS
<1> HIDE DEF at
<1>4. at \in Starts(f, 1)
  BY <1>2, <1>3 DEF Starts
<1> QED
  BY <1>4 DEF at

(* The bytes behind the header on its last beat are kept. *)
LEMMA BehindHeader ==
  ASSUME HeadersInv, FinalAccept
  PROVE  /\ scratch' = Slice(src, TOTAL_LENGTH, Valid - OUTER_TAIL_START)
         /\ Len(scratch') = Valid - OUTER_TAIL_START /\ scratch' \in Seq(Byte)
         /\ pos + OUTER_TAIL_START = TOTAL_LENGTH /\ Consumed' = TOTAL_LENGTH
<1>1. /\ ParseBeat /\ beat_count = PARSE_FINAL_BEAT
      /\ input_valid_bytes >= OUTER_TAIL_START
      /\ scratch' = SubSeq(InputBytes, OUTER_TAIL_START + 1, input_valid_bytes)
  BY DEF FinalAccept, HeaderComplete, FinalBeat
<1>2. SourceInv /\ Handshake /\ pos = beat_count * KEEP_WIDTH
  BY <1>1, Capture
<1>3. /\ src \in Frames /\ input_valid_bytes = Valid /\ Valid \in 0 .. KEEP_WIDTH
      /\ Accepted' = pos + Valid /\ pos + Valid <= src.len
  BY <1>2, Taken
<1>4. /\ OUTER_TAIL_START \in 1 .. KEEP_WIDTH /\ pos \in Nat /\ pos + OUTER_TAIL_START = TOTAL_LENGTH
      /\ KEEP_WIDTH \in Nat /\ TOTAL_LENGTH \in Nat
      /\ Valid \in Nat /\ Valid >= OUTER_TAIL_START /\ OUTER_TAIL_START \in 0 .. Valid
  <2>1. /\ OUTER_TAIL_START \in 1 .. KEEP_WIDTH /\ pos + OUTER_TAIL_START = TOTAL_LENGTH
        /\ KEEP_WIDTH \in Nat /\ TOTAL_LENGTH \in Nat
    BY <1>1, <1>2, Layout
  <2>2. pos \in Nat
    BY <1>2, Beat
  <2> QED
    BY <1>1, <1>3, <2>1, <2>2
<1>5. /\ scratch' = Slice(src, TOTAL_LENGTH, Valid - OUTER_TAIL_START)
      /\ Len(scratch') = Valid - OUTER_TAIL_START /\ scratch' \in Seq(Byte)
  <2>1. \A p \in 0 .. src.len - 1 : src.data[p] \in Byte
    BY <1>3, Bytes
  <2>2. src.len \in Nat
    BY <1>3, Bytes
  <2>3. \A p \in pos .. pos + Valid - 1 : src.data[p] \in Byte
    BY <1>3, <1>4, <2>1, <2>2
  <2>4. scratch' = SubSeq(Slice(src, pos, Valid), OUTER_TAIL_START + 1, Valid)
    BY <1>1, <1>2, <1>3, Inputs
  <2>5. scratch' = Slice(src, pos + OUTER_TAIL_START, Valid - OUTER_TAIL_START)
    <3>1. /\ pos \in Nat /\ Valid \in Nat /\ OUTER_TAIL_START \in 0 .. Valid
          /\ \A p \in pos .. pos + Valid - 1 : src.data[p] \in Byte
      BY <1>4, <2>3
    <3>2. SubSeq(Slice(src, pos, Valid), OUTER_TAIL_START + 1, Valid)
            = Slice(src, pos + OUTER_TAIL_START, Valid - OUTER_TAIL_START)
      BY <3>1, SliceRest
    <3> QED
      BY <2>4, <3>2
  <2>6. \A p \in TOTAL_LENGTH .. TOTAL_LENGTH + (Valid - OUTER_TAIL_START) - 1 : src.data[p] \in Byte
    BY <1>4, <2>3
  <2>7. Valid - OUTER_TAIL_START \in Nat
    BY <1>4
  <2>8. /\ Slice(src, TOTAL_LENGTH, Valid - OUTER_TAIL_START) \in Seq(Byte)
        /\ Len(Slice(src, TOTAL_LENGTH, Valid - OUTER_TAIL_START)) = Valid - OUTER_TAIL_START
    <3>1. PICK n \in Nat : n = Valid - OUTER_TAIL_START
      BY <2>7
    <3>2. TOTAL_LENGTH \in Nat /\ \A p \in TOTAL_LENGTH .. TOTAL_LENGTH + n - 1 : src.data[p] \in Byte
      BY <2>6, <3>1, Layout
    <3>3. Slice(src, TOTAL_LENGTH, n) \in Seq(Byte) /\ Len(Slice(src, TOTAL_LENGTH, n)) = n
      BY <3>2, SliceType
    <3> QED
      BY <3>1, <3>3
  <2> QED
    BY <1>4, <2>5, <2>8
<1>6. Consumed' = TOTAL_LENGTH
  <2>1. Consumed' = Accepted' - Len(scratch')
    BY DEF Consumed
  <2> QED
    BY <1>3, <1>4, <1>5, <2>1
<1> QED
  BY <1>4, <1>5, <1>6

LEMMA KeepsFinalAccept ==
  ASSUME FramesEnd, HeadersInv, FinalAccept
  PROVE  HeadersInv'
<1>1. /\ ParseBeat /\ ParseMark /\ beat_count = PARSE_FINAL_BEAT /\ beat_count' = 0
      /\ input_valid_bytes >= OUTER_TAIL_START /\ fields_fresh' = TRUE
      /\ msg_remaining' = MsgCount(Bypassed) /\ sub_header_offset' = 0
      /\ scratch' = SubSeq(InputBytes, OUTER_TAIL_START + 1, input_valid_bytes)
      /\ scratch_last' = s_axis_tlast
      /\ IF MsgCount(Bypassed) = 0 THEN ParseOrDrain(s_axis_tlast) ELSE state' = "ST_MSG_HDR"
      /\ UNCHANGED <<msg_bytes_remaining, drop_count>>
  BY DEF FinalAccept, HeaderComplete, FinalBeat
<1>2. /\ SourceInv /\ Handshake /\ state = "ST_PARSE" /\ pos = beat_count * KEEP_WIDTH
      /\ field_reg' \in [HeaderBytes -> Byte] /\ cfg_reg' \in ConfigValues \cup {CONFIG_DEFAULT}
      /\ \A p \in HeaderBytes : p < pos + KEEP_WIDTH => field_reg'[p] = src.data[p]
      /\ Bypassed = field_reg'
  BY <1>1, Capture
<1>3. /\ SourceInv' /\ src' = src /\ cur' = src /\ (pos' = 0 <=> s_axis_tlast)
      /\ input_valid_bytes = Valid /\ Valid \in 0 .. KEEP_WIDTH /\ (~s_axis_tlast => Valid = KEEP_WIDTH)
      /\ Accepted' = pos + Valid /\ pos + Valid <= src.len /\ src \in Frames
      /\ (s_axis_tlast /\ Valid # 0 => src.len + KEEP_WIDTH # src.end)
  BY <1>2, Taken
<1>4. /\ OUTER_TAIL_START \in 1 .. KEEP_WIDTH /\ pos \in Nat /\ pos + OUTER_TAIL_START = TOTAL_LENGTH
      /\ KEEP_WIDTH \in Nat /\ TOTAL_LENGTH \in Nat
      /\ Valid \in Nat /\ Valid >= OUTER_TAIL_START /\ OUTER_TAIL_START \in 0 .. Valid
  <2>1. /\ OUTER_TAIL_START \in 1 .. KEEP_WIDTH /\ pos + OUTER_TAIL_START = TOTAL_LENGTH
        /\ KEEP_WIDTH \in Nat /\ TOTAL_LENGTH \in Nat
    BY <1>1, <1>2, Layout
  <2>2. pos \in Nat
    BY <1>2, Beat
  <2> QED
    BY <1>1, <1>3, <2>1, <2>2
<1>5. HeaderHeld' /\ field_reg' = HeaderOf(src)
  <2>1. \A p \in HeaderBytes : p < pos + KEEP_WIDTH
    BY <1>4, Layout
  <2>2. \A p \in HeaderBytes : field_reg'[p] = src.data[p]
    BY <1>2, <2>1
  <2> QED
    BY <1>2, <1>3, <2>2 DEF HeaderHeld, HeaderOf
<1>6. sticky_tuser' \in BOOLEAN
  BY <1>1 DEF ParseMark, s_axis_tuser
<1>7. /\ scratch' = Slice(src, TOTAL_LENGTH, Valid - OUTER_TAIL_START)
      /\ Len(scratch') = Valid - OUTER_TAIL_START /\ scratch' \in Seq(Byte)
  BY BehindHeader
<1>8. ScratchOK'
  BY <1>1, <1>3, <1>4, <1>7 DEF ScratchOK, s_axis_tlast
<1>9. RegistersOK'
  <2>1. MsgCount(Bypassed) \in Nat
    BY <1>2, Numbers
  <2>2. 0 \in SubOffsets
    BY MessagePlanAssumption DEF SubOffsets
  <2> QED
    BY <1>1, <1>2, <1>6, <2>1, <2>2, IsTyped DEF RegistersOK, ParseMark, ParseBeat
<1>10. CASE MsgCount(Bypassed) = 0
  <2>1. CASE s_axis_tlast
    BY <1>1, <1>3, <1>5, <1>8, <1>9, <1>10, <2>1, BetweenFrames DEF ParseOrDrain
  <2>2. CASE ~s_axis_tlast
    BY <1>1, <1>3, <1>5, <1>8, <1>9, <1>10, <2>2, RestDrained DEF ParseOrDrain
  <2> QED
    BY <2>1, <2>2
<1>11. CASE MsgCount(Bypassed) # 0
  <2> DEFINE n0 == MsgCount(HeaderOf(src))
             at0 == [i \in 1 .. 1 |-> TOTAL_LENGTH]
  <2>1. n0 \in Nat /\ n0 # 0 /\ 1 \in 1 .. n0 /\ msg_remaining' = n0 /\ Count' = n0
    <3>1. msg_remaining' = n0 /\ n0 \in Nat /\ n0 # 0
      BY <1>1, <1>2, <1>5, <1>11, Numbers
    <3>2. Count' = n0
      BY <1>3 DEF Count
    <3> HIDE DEF n0
    <3> QED
      BY <3>1, <3>2
  <2>2. at0 \in Starts(src, 1) /\ at0[1] = TOTAL_LENGTH
    <3>1. src.len >= TOTAL_LENGTH
      BY <1>3, <1>4, Bytes
    <3> QED
      BY <1>3, <3>1, FirstMessage
  <2>3. state' = "ST_MSG_HDR"
    BY <1>1, <1>11
  <2>4. Consumed' = TOTAL_LENGTH
    BY BehindHeader
  <2>5. Len(scratch') = 0 => pos' # 0
    <3>1. SUFFICES ASSUME Len(scratch') = 0, pos' = 0 PROVE FALSE
      OBVIOUS
    <3>2. s_axis_tlast /\ Valid = OUTER_TAIL_START
      BY <1>3, <1>4, <1>7, <3>1
    <3>3. src.len = pos + Valid
      BY <1>2, <3>2, Beat
    <3>4. src.len = TOTAL_LENGTH /\ src.len + KEEP_WIDTH # src.end
      BY <1>3, <1>4, <3>2, <3>3
    <3>5. StopsAt(src, TOTAL_LENGTH) /\ src.len >= TOTAL_LENGTH
      BY <1>4, <3>4 DEF StopsAt
    <3>6. EndsUnnoticed(src)
      <4> HIDE DEF at0, n0
      <4>1. \E n \in 1 .. n0 : \E at \in Starts(src, n) : StopsAt(src, TOTAL_LENGTH)
        BY <2>1, <2>2, <3>5
      <4> QED
        BY <3>5, <4>1 DEF EndsUnnoticed, n0
    <3> QED
      BY <1>3, <3>6 DEF FramesEnd
  <2>6. InFrame(TOTAL_LENGTH)'
    <3>1. scratch' = Slice(cur', TOTAL_LENGTH, Len(scratch'))
      BY <1>3, <1>7
    <3>2. TOTAL_LENGTH \in Nat /\ TOTAL_LENGTH >= TOTAL_LENGTH /\ Valid # 0
      BY <1>4
    <3>3. scratch_last' = (pos' = 0)
      BY <1>1, <1>3 DEF s_axis_tlast
    <3> QED
      BY <1>3, <2>4, <2>5, <3>1, <3>2, <3>3 DEF InFrame
  <2>7. OnMessage(TOTAL_LENGTH)'
    <3>1. Start' = TOTAL_LENGTH
      BY <1>1, <1>4, <2>3, <2>4 DEF Start
    <3>2. msg_remaining' = Count' - 1 + 1
      BY <2>1
    <3>3. \E n \in 1 .. n0 : msg_remaining' = n0 - n + 1 /\ \E at \in Starts(src, n) : at[n] = TOTAL_LENGTH
      <4> HIDE DEF n0, at0
      <4> QED
        BY <2>1, <2>2, <3>2
    <3> HIDE DEF n0
    <3> QED
      BY <1>3, <2>1, <3>1, <3>3 DEF OnMessage
  <2>8. SubHeaderInv' /\ BodyInv'
    <3>1. \A o \in SubBytes : ~(o < sub_header_offset')
      BY <1>1, MessagePlanAssumption DEF SubOffsets
    <3> QED
      BY <2>3, <3>1 DEF SubHeaderInv, BodyInv
  <2> QED
    BY <1>1, <1>3, <1>5, <1>8, <1>9, <2>3, <2>6, <2>7, <2>8, AmongMessages
<1> QED
  BY <1>10, <1>11

(* An edge of ST_PARSE. *)
LEMMA KeepsParseEdge ==
  ASSUME FramesEnd, HeadersInv, ParseEdge
  PROVE  HeadersInv'
  BY KeepsParseMore, KeepsParseEnds, KeepsFinalAccept DEF ParseEdge

------------------------------------------------------------------------------
(* ST_MSG_HDR. *)

(* The frame's count of messages is a number, and its header is held. *)
LEMMA Counted ==
  ASSUME HeadersInv, state # "ST_PARSE"
  PROVE  beat_count = 0 /\ HeaderHeld /\ Count \in Nat
<1>1. beat_count = 0 /\ \A p \in HeaderBytes : field_reg[p] = cur.data[p]
  BY DEF HeadersInv, ParseInv, FieldsCoherent, fields_valid
<1>2. RegistersOK
  BY IsTyped
<1>3. HeaderOf(cur) = field_reg
  BY <1>1, <1>2 DEF HeaderOf, RegistersOK
<1>4. Count \in Nat
  BY <1>2, <1>3, Numbers DEF Count, RegistersOK
<1> QED
  BY <1>1, <1>4 DEF HeaderHeld

(* What the invariant says outside ST_PARSE of the registers no edge there *)
(* touches.                                                                *)
LEMMA Stays ==
  ASSUME HeadersInv, state # "ST_PARSE", Later, cur' = cur
  PROVE  /\ beat_count' = 0 /\ HeaderHeld' /\ fields_fresh' = FALSE
         /\ field_reg' \in [HeaderBytes -> Byte] /\ cfg_reg' \in ConfigValues \cup {CONFIG_DEFAULT}
         /\ drop_count' \in [DropConditions -> 0 .. COUNTER_MOD - 1]
         /\ Count \in Nat /\ Count' = Count
<1>1. beat_count = 0 /\ HeaderHeld /\ Count \in Nat
  BY Counted
<1>2. RegistersOK
  BY IsTyped
<1>3. UNCHANGED outer /\ fields_fresh' = FALSE /\ ConfigEdge
  BY DEF Later
<1>4. Count' = Count
  BY DEF Count
<1> QED
  BY <1>1, <1>2, <1>3, <1>4 DEF outer, HeaderHeld, RegistersOK, ConfigEdge

(* The bytes one is taken from, and what is left of them. *)
LEMMA Taking ==
  ASSUME HeadersInv, InMessages, TakeByte
  PROVE  /\ SourceInv' /\ cur' = cur /\ cur \in Frames /\ cur.len \in Nat
         /\ Consumed \in Nat /\ Consumed >= TOTAL_LENGTH
         /\ Len(Pad) \in Nat \ {0} /\ Len(Pad) <= 2 * KEEP_WIDTH - 1
         /\ Head(Pad) = cur.data[Consumed] /\ Head(Pad) \in Byte
         /\ Tail(Pad) = Slice(cur, Consumed + 1, Len(Pad) - 1)
         /\ Tail(Pad) \in Seq(Byte) /\ Len(Tail(Pad)) = Len(Pad) - 1
         /\ Accepted' = Consumed + Len(Pad) /\ Consumed + Len(Pad) <= cur.len
         /\ pos' \in Nat /\ is_last_beat = (pos' = 0)
         /\ pos' = 0 => cur.len + KEEP_WIDTH # cur.end /\ cur.len = Consumed + Len(Pad)
         /\ MarkByte => sticky_tuser' \in BOOLEAN
<1>1. /\ SourceInv /\ pos \in Nat /\ KEEP_WIDTH \in Nat \ {0}
      /\ cur \in Frames /\ cur.len \in Nat /\ \A p \in 0 .. cur.len - 1 : cur.data[p] \in Byte
      /\ Accepted \in Nat /\ Accepted <= cur.len
      /\ scratch \in Seq(Byte) /\ Len(scratch) \in Nat /\ (Empty <=> Len(scratch) = 0)
      /\ Consumed \in Nat /\ Consumed >= TOTAL_LENGTH /\ Accepted = Consumed + Len(scratch)
      /\ scratch = Slice(cur, Consumed, Len(scratch))
      /\ scratch_last = (pos = 0)
      /\ Empty => pos > 0 /\ cur = src /\ Accepted = pos /\ Consumed = pos
  BY Held
<1>2. /\ Len(scratch) <= 2 * KEEP_WIDTH - 1 /\ sticky_tuser \in BOOLEAN
      /\ (pos = 0 => cur.len + KEEP_WIDTH # cur.end)
  BY IsTyped DEF ScratchOK, RegistersOK, HeadersInv, WalkInv, InMessages
<1>3. /\ SourceInv' /\ cur' = cur
      /\ Len(Pad) \in Nat \ {0} /\ Len(Pad) <= 2 * KEEP_WIDTH - 1
      /\ Pad = Slice(cur, Consumed, Len(Pad))
      /\ Accepted' = Consumed + Len(Pad) /\ Consumed + Len(Pad) <= cur.len
      /\ pos' \in Nat /\ is_last_beat = (pos' = 0)
      /\ pos' = 0 => cur.len + KEEP_WIDTH # cur.end /\ cur.len = Consumed + Len(Pad)
      /\ MarkByte => sticky_tuser' \in BOOLEAN
  <2>1. CASE Empty
    <3>1. ~NoInput /\ Handshake
      BY <2>1 DEF TakeByte
    <3>2. /\ SourceInv' /\ src' = src /\ cur' = src
          /\ pos' \in Nat /\ (pos' = 0 <=> s_axis_tlast)
          /\ input_valid_bytes = Valid /\ Valid \in 0 .. KEEP_WIDTH
          /\ Accepted' = pos + Valid /\ pos + Valid <= src.len
          /\ (s_axis_tlast /\ Valid # 0 => src.len + KEEP_WIDTH # src.end)
          /\ (~s_axis_tlast => Valid = KEEP_WIDTH)
      BY <1>1, <3>1, Taken
    <3>3. Valid # 0 /\ Valid \in Nat
      BY <1>1, <3>1, <3>2 DEF NoInput
    <3>4. Pad = Slice(src, pos, Valid)
      BY <1>1, <2>1, Inputs DEF Pad
    <3>5. Len(Pad) = Valid
      <4>1. \A p \in pos .. pos + Valid - 1 : src.data[p] \in Byte
        BY <1>1, <2>1, <3>2, <3>3
      <4>2. pos \in Nat /\ Valid \in Nat
        BY <1>1, <3>3
      <4>3. Len(Slice(src, pos, Valid)) = Valid
        BY <4>1, <4>2, SliceType
      <4> QED
        BY <3>4, <4>3, Zenon
    <3>6. is_last_beat = (pos' = 0)
      BY <2>1, <3>2 DEF is_last_beat, s_axis_tlast
    <3>7. MarkByte => sticky_tuser' \in BOOLEAN
      BY <2>1 DEF MarkByte, Mark
    <3>8. pos' = 0 => src.len = pos + Valid
      BY <1>1, <3>2, Beat
    <3>9. Pad = Slice(cur, Consumed, Len(Pad))
      BY <1>1, <2>1, <3>4, <3>5
    <3>10. Len(Pad) \in Nat \ {0} /\ Len(Pad) <= 2 * KEEP_WIDTH - 1
      BY <1>1, <3>2, <3>3, <3>5
    <3>11. /\ SourceInv' /\ cur' = cur /\ pos' \in Nat
           /\ Accepted' = Consumed + Len(Pad) /\ Consumed + Len(Pad) <= cur.len
      BY <1>1, <2>1, <3>2, <3>5
    <3>12. pos' = 0 => cur.len + KEEP_WIDTH # cur.end /\ cur.len = Consumed + Len(Pad)
      BY <1>1, <2>1, <3>2, <3>3, <3>5, <3>8
    <3> QED
      BY <3>6, <3>7, <3>9, <3>10, <3>11, <3>12
  <2>2. CASE ~Empty
    <3>1. UNCHANGED <<source, cur>> /\ Pad = scratch /\ is_last_beat = scratch_last
      BY <2>2 DEF TakeByte, Pad, is_last_beat
    <3>2. SourceInv' /\ pos' = pos /\ cur' = cur /\ Accepted' = Accepted
      BY <1>1, <3>1 DEF SourceInv, SourceTypeOK, source, Accepted
    <3>3. MarkByte => sticky_tuser' = sticky_tuser
      BY <2>2 DEF MarkByte
    <3>4. pos = 0 => cur.len = Accepted
      BY <1>1 DEF Accepted
    <3> QED
      BY <1>1, <1>2, <2>2, <3>1, <3>2, <3>3, <3>4
  <2> QED
    BY <2>1, <2>2
<1>4. /\ Head(Pad) = cur.data[Consumed] /\ Head(Pad) \in Byte
      /\ Tail(Pad) = Slice(cur, Consumed + 1, Len(Pad) - 1)
      /\ Tail(Pad) \in Seq(Byte) /\ Len(Tail(Pad)) = Len(Pad) - 1
  <2>0. /\ Consumed \in Nat /\ Len(Pad) \in Nat \ {0} /\ cur.len \in Nat
        /\ Consumed + Len(Pad) <= cur.len
    BY <1>1, <1>3
  <2>1. \A p \in Consumed .. Consumed + Len(Pad) - 1 : cur.data[p] \in Byte
    <3>1. ASSUME NEW p \in Consumed .. Consumed + Len(Pad) - 1
          PROVE  p \in 0 .. cur.len - 1
      BY <2>0
    <3>2. \A p \in 0 .. cur.len - 1 : cur.data[p] \in Byte
      BY <1>1
    <3> QED
      BY <3>1, <3>2
  <2>2. Consumed \in Nat /\ Len(Pad) \in Nat /\ Len(Pad) > 0
    BY <2>0
  <2>3. /\ Head(Pad) = cur.data[Consumed]
        /\ Tail(Pad) = Slice(cur, Consumed + 1, Len(Pad) - 1)
    <3>1. PICK n \in Nat : n = Len(Pad)
      BY <2>2
    <3>2. PICK c \in Nat : c = Consumed
      BY <2>2
    <3>3. PICK f : f = cur
      OBVIOUS
    <3>4. Pad = Slice(f, c, n)
      BY <1>3, <3>1, <3>2, <3>3, Zenon
    <3>5. n > 0 /\ \A p \in c .. c + n - 1 : f.data[p] \in Byte
      BY <2>1, <2>2, <3>1, <3>2, <3>3
    <3>6. Head(Slice(f, c, n)) = f.data[c] /\ Tail(Slice(f, c, n)) = Slice(f, c + 1, n - 1)
      BY <3>5, SliceTail
    <3> QED
      BY <3>1, <3>2, <3>3, <3>4, <3>6
  <2>4. cur.data[Consumed] \in Byte
    BY <2>1, <2>2
  <2>5. \A p \in Consumed + 1 .. (Consumed + 1) + (Len(Pad) - 1) - 1 : cur.data[p] \in Byte
    BY <2>1, <2>2
  <2>6. Consumed + 1 \in Nat /\ Len(Pad) - 1 \in Nat
    BY <2>2
  <2>7. /\ Slice(cur, Consumed + 1, Len(Pad) - 1) \in Seq(Byte)
        /\ Len(Slice(cur, Consumed + 1, Len(Pad) - 1)) = Len(Pad) - 1
    BY <2>5, <2>6, SliceType
  <2> QED
    BY <2>3, <2>4, <2>7
<1> QED
  BY <1>1, <1>3, <1>4

(* The message in hand is one of the frame's. *)
LEMMA OnIt ==
  ASSUME HeadersInv, InMessages
  PROVE  /\ Start \in TOTAL_LENGTH .. cur.len /\ Start \in Nat
         /\ \E n \in 1 .. Count : msg_remaining = Count - n + 1 /\ \E at \in Starts(cur, n) : at[n] = Start
<1>1. PICK n \in 1 .. Count : msg_remaining = Count - n + 1 /\ \E at \in Starts(cur, n) : at[n] = Start
  BY DEF HeadersInv, WalkInv
<1>2. PICK at \in Starts(cur, n) : at[n] = Start
  BY <1>1
<1>3. at \in [1 .. n -> TOTAL_LENGTH .. cur.len]
  BY DEF Starts
<1>4. RegistersOK /\ cur \in Frames
  BY IsTyped, Held
<1>5. n \in 1 .. n
  OBVIOUS
<1>6. Start \in TOTAL_LENGTH .. cur.len
  BY <1>2, <1>3, <1>5
<1>7. TOTAL_LENGTH \in Nat
  BY Layout
<1> QED
  BY <1>1, <1>6, <1>7

(* A byte goes to its place in the sub-header. *)
LEMMA SubByte ==
  ASSUME HeadersInv, SubHeaderByte
  PROVE  /\ state = "ST_MSG_HDR" /\ TakeByte /\ Later /\ sub_reg' = SubBypassed /\ scratch_last' = is_last_beat
         /\ SubBypassed \in [SubBytes -> Byte] /\ msg_len \in Nat
         /\ sub_header_offset \in 0 .. SUB_HEADER_BYTES - 1
         /\ SUB_HEADER_BYTES \in Nat \ {0} /\ \A o \in SubBytes : o \in 0 .. SUB_HEADER_BYTES - 1
         /\ Start = Consumed - sub_header_offset /\ Start \in TOTAL_LENGTH .. cur.len /\ Start \in Nat
         /\ \A o \in SubBytes : o <= sub_header_offset => SubBypassed[o] = cur.data[Start + o]
<1>1. state = "ST_MSG_HDR" /\ TakeByte /\ Later /\ sub_reg' = SubBypassed /\ scratch_last' = is_last_beat
  BY DEF SubHeaderByte, TakeByte
<1>2. Head(Pad) = cur.data[Consumed] /\ Head(Pad) \in Byte /\ Consumed \in Nat
  BY <1>1, Taking DEF InMessages
<1>3. sub_header_offset \in 0 .. SUB_HEADER_BYTES - 1 /\ sub_reg \in [SubBytes -> Byte]
  BY IsTyped DEF RegistersOK, SubOffsets
<1>4. SUB_HEADER_BYTES \in Nat \ {0} /\ \A o \in SubBytes : o \in 0 .. SUB_HEADER_BYTES - 1
  BY MessagePlanAssumption DEF SubOffsets
<1>5. SubBypassed \in [SubBytes -> Byte]
  BY <1>2, <1>3 DEF SubBypassed
<1>6. msg_len \in Nat
  BY <1>5, Numbers DEF msg_len
<1>7. Start = Consumed - sub_header_offset
  BY <1>1 DEF Start
<1>8. Start \in TOTAL_LENGTH .. cur.len /\ Start \in Nat
  BY <1>1, OnIt DEF InMessages
<1>9. ASSUME NEW o \in SubBytes, o <= sub_header_offset
      PROVE  SubBypassed[o] = cur.data[Start + o]
  <2>1. CASE o = sub_header_offset
    <3>1. Start + o = Consumed
      BY <1>2, <1>3, <1>4, <1>7, <2>1
    <3> QED
      BY <1>2, <2>1, <3>1 DEF SubBypassed
  <2>2. CASE o # sub_header_offset
    <3>1. o < sub_header_offset
      BY <1>3, <1>4, <1>9, <2>2
    <3>2. sub_reg[o] = cur.data[Start + o]
      BY <1>1, <3>1 DEF HeadersInv, SubHeaderInv
    <3> QED
      BY <2>2, <3>2 DEF SubBypassed
  <2> QED
    BY <2>1, <2>2
<1> QED
  BY <1>1, <1>3, <1>4, <1>5, <1>6, <1>7, <1>8, <1>9

LEMMA KeepsSubHeaderMore ==
  ASSUME HeadersInv, SubHeaderMore
  PROVE  HeadersInv'
<1>1. /\ SubHeaderByte /\ sub_header_offset # SUB_HEADER_BYTES - 1 /\ ~is_last_byte
      /\ sub_header_offset' = sub_header_offset + 1 /\ scratch' = Tail(Pad) /\ MarkByte
      /\ UNCHANGED <<state, msg_remaining, msg_bytes_remaining, malformed_count>>
  BY DEF SubHeaderMore
<1>2. /\ state = "ST_MSG_HDR" /\ TakeByte /\ Later /\ sub_reg' = SubBypassed /\ scratch_last' = is_last_beat
      /\ SubBypassed \in [SubBytes -> Byte]
      /\ sub_header_offset \in 0 .. SUB_HEADER_BYTES - 1
      /\ SUB_HEADER_BYTES \in Nat \ {0} /\ \A o \in SubBytes : o \in 0 .. SUB_HEADER_BYTES - 1
      /\ Start = Consumed - sub_header_offset /\ Start \in TOTAL_LENGTH .. cur.len /\ Start \in Nat
      /\ \A o \in SubBytes : o <= sub_header_offset => SubBypassed[o] = cur.data[Start + o]
  BY <1>1, SubByte
<1>3. /\ SourceInv' /\ cur' = cur
      /\ Consumed \in Nat /\ Consumed >= TOTAL_LENGTH /\ KEEP_WIDTH \in Nat /\ TOTAL_LENGTH \in Nat
      /\ Len(Pad) \in Nat \ {0} /\ Len(Pad) <= 2 * KEEP_WIDTH - 1
      /\ Tail(Pad) = Slice(cur, Consumed + 1, Len(Pad) - 1)
      /\ Tail(Pad) \in Seq(Byte) /\ Len(Tail(Pad)) = Len(Pad) - 1
      /\ Accepted' = Consumed + Len(Pad) /\ Consumed + Len(Pad) <= cur.len
      /\ pos' \in Nat /\ is_last_beat = (pos' = 0)
      /\ (pos' = 0 => cur.len + KEEP_WIDTH # cur.end)
      /\ sticky_tuser' \in BOOLEAN
  BY <1>1, <1>2, Taking, Layout DEF InMessages
<1>4. /\ beat_count' = 0 /\ HeaderHeld' /\ fields_fresh' = FALSE
      /\ field_reg' \in [HeaderBytes -> Byte] /\ cfg_reg' \in ConfigValues \cup {CONFIG_DEFAULT}
      /\ drop_count' \in [DropConditions -> 0 .. COUNTER_MOD - 1]
      /\ Count' = Count
  BY <1>2, <1>3, Stays
<1>5. RegistersOK'
  <2>1. sub_header_offset' \in SubOffsets
    BY <1>1, <1>2 DEF SubOffsets
  <2> QED
    BY <1>1, <1>2, <1>3, <1>4, <2>1, IsTyped DEF RegistersOK
<1>6. ScratchOK' /\ state' = "ST_MSG_HDR"
  BY <1>1, <1>2, <1>3 DEF ScratchOK
<1>7. Len(scratch') = Len(Pad) - 1 /\ Consumed' = Consumed + 1
  BY <1>1, <1>3 DEF Consumed
<1>8. PICK c : c = Consumed + 1
  OBVIOUS
<1>9. InFrame(c)'
  <2>1. Len(scratch') = 0 => pos' # 0
    <3>1. Len(scratch') = 0 => Len(Pad) = 1
      BY <1>3, <1>7
    <3>2. ~(Len(Pad) = 1 /\ is_last_beat) /\ (pos' = 0 => is_last_beat)
      BY <1>1, <1>3, Zenon DEF is_last_byte
    <3> QED
      BY <3>1, <3>2
  <2>2. c \in Nat /\ c >= TOTAL_LENGTH /\ scratch' = Slice(cur', c, Len(scratch')) /\ Consumed' = c
    BY <1>1, <1>3, <1>7, <1>8
  <2> QED
    BY <1>2, <1>3, <2>1, <2>2 DEF InFrame
<1>10. PICK start : start = Start
  OBVIOUS
<1>11. Start' = start
  BY <1>1, <1>2, <1>3, <1>6, <1>7, <1>10 DEF Start
<1>12. OnMessage(start)'
  <2>1. \E n \in 1 .. Count : msg_remaining = Count - n + 1 /\ \E at \in Starts(cur, n) : at[n] = start
    BY <1>2, <1>10, OnIt DEF InMessages
  <2> QED
    BY <1>1, <1>3, <1>4, <1>11, <2>1 DEF OnMessage
<1>13. SubHeaderInv' /\ BodyInv'
  <2>1. \A o \in SubBytes : o < sub_header_offset' => o <= sub_header_offset
    BY <1>1, <1>2
  <2> QED
    BY <1>2, <1>3, <1>6, <1>10, <1>11, <2>1 DEF SubHeaderInv, BodyInv
<1> QED
  BY <1>3, <1>4, <1>5, <1>6, <1>9, <1>12, <1>13, AmongMessages

(* The frame ends in a sub-header, or the message is of length zero.       *)
LEMMA KeepsSubHeaderEnds ==
  ASSUME HeadersInv, SubHeaderShort \/ ZeroLength
  PROVE  HeadersInv'
<1>1. /\ SubHeaderByte /\ Malformed /\ sub_header_offset' = 0 /\ scratch' = << >>
      /\ UNCHANGED <<msg_remaining, msg_bytes_remaining>>
  BY DEF SubHeaderShort, ZeroLength, SubHeaderComplete
<1>2. /\ state = "ST_MSG_HDR" /\ TakeByte /\ Later /\ sub_reg' = SubBypassed /\ scratch_last' = is_last_beat
      /\ SubBypassed \in [SubBytes -> Byte]
  BY <1>1, SubByte
<1>3. SourceInv' /\ cur' = cur /\ is_last_beat = (pos' = 0)
  BY <1>2, Taking DEF InMessages
<1>4. /\ beat_count' = 0 /\ HeaderHeld' /\ fields_fresh' = FALSE
      /\ field_reg' \in [HeaderBytes -> Byte] /\ cfg_reg' \in ConfigValues \cup {CONFIG_DEFAULT}
      /\ drop_count' \in [DropConditions -> 0 .. COUNTER_MOD - 1]
  BY <1>2, <1>3, Stays
<1>5. RegistersOK'
  <2>1. 0 \in SubOffsets
    BY MessagePlanAssumption DEF SubOffsets
  <2>2. malformed_count' \in 0 .. COUNTER_MOD - 1 /\ sticky_tuser' = TRUE
    BY <1>1, Counters, IsTyped DEF Malformed
  <2> QED
    BY <1>1, <1>2, <1>4, <2>1, <2>2, IsTyped DEF RegistersOK
<1>6. ScratchOK'
  <2>1. << >> \in Seq(Byte) /\ Len(<< >>) <= 2 * KEEP_WIDTH - 1
    BY Layout
  <2> QED
    BY <1>1, <1>2, <1>3, <2>1 DEF ScratchOK
<1>7. CASE SubHeaderShort
  <2>1. is_last_beat /\ state' = "ST_PARSE"
    BY <1>7 DEF SubHeaderShort, is_last_byte
  <2> QED
    BY <1>3, <1>4, <1>5, <1>6, <2>1, BetweenFrames
<1>8. CASE ZeroLength
  <2>1. ParseOrDrain(is_last_beat)
    BY <1>8 DEF ZeroLength
  <2>2. CASE is_last_beat
    BY <1>3, <1>4, <1>5, <1>6, <2>1, <2>2, BetweenFrames DEF ParseOrDrain
  <2>3. CASE ~is_last_beat
    BY <1>3, <1>4, <1>5, <1>6, <2>1, <2>3, RestDrained DEF ParseOrDrain
  <2> QED
    BY <2>2, <2>3
<1> QED
  BY <1>7, <1>8

(* An empty beat where a sub-header byte should be, or the end of a frame  *)
(* that is drained.                                                        *)
LEMMA KeepsTerminator ==
  ASSUME HeadersInv, Terminator
  PROVE  HeadersInv'
<1>1. /\ state = "ST_MSG_HDR" /\ Empty /\ NoInput /\ Handshake /\ Later /\ Malformed /\ state' = "ST_PARSE"
      /\ UNCHANGED <<messages, scratches>>
  BY DEF Terminator, Accept
<1>2. SourceInv /\ cur = src
  BY <1>1, Held DEF InMessages
<1>3. SourceInv' /\ cur' = cur /\ pos' = 0
  BY <1>1, <1>2, Taken DEF NoInput
<1>4. /\ beat_count' = 0 /\ HeaderHeld' /\ fields_fresh' = FALSE
      /\ field_reg' \in [HeaderBytes -> Byte] /\ cfg_reg' \in ConfigValues \cup {CONFIG_DEFAULT}
      /\ drop_count' \in [DropConditions -> 0 .. COUNTER_MOD - 1]
  BY <1>1, <1>3, Stays
<1>5. malformed_count' \in 0 .. COUNTER_MOD - 1 /\ sticky_tuser' = TRUE
  BY <1>1, Counters, IsTyped DEF Malformed
<1>6. RegistersOK' /\ ScratchOK'
  BY <1>1, <1>4, <1>5, IsTyped DEF RegistersOK, ScratchOK, messages, scratches
<1> QED
  BY <1>1, <1>3, <1>4, <1>6, BetweenFrames

LEMMA KeepsDrain ==
  ASSUME HeadersInv, Drain
  PROVE  HeadersInv'
<1>1. /\ state = "ST_DRAIN" /\ Handshake /\ Later /\ Mark
      /\ UNCHANGED <<malformed_count, sub_reg>>
      /\ IF s_axis_tlast
         THEN /\ state' = "ST_PARSE"
              /\ scratch' = << >> /\ scratch_last' = FALSE
              /\ sub_header_offset' = 0 /\ msg_remaining' = 0 /\ msg_bytes_remaining' = 0
         ELSE UNCHANGED <<state, scratches, sub_header_offset, msg_remaining, msg_bytes_remaining>>
  BY DEF Drain, Accept
<1>2. SourceInv /\ cur = src
  BY <1>1 DEF HeadersInv, Framing, SourceInv
<1>3. SourceInv' /\ cur' = cur /\ (pos' = 0 <=> s_axis_tlast)
  BY <1>1, <1>2, Taken
<1>4. /\ beat_count' = 0 /\ HeaderHeld' /\ fields_fresh' = FALSE
      /\ field_reg' \in [HeaderBytes -> Byte] /\ cfg_reg' \in ConfigValues \cup {CONFIG_DEFAULT}
      /\ drop_count' \in [DropConditions -> 0 .. COUNTER_MOD - 1]
  BY <1>1, <1>3, Stays
<1>5. sticky_tuser' \in BOOLEAN
  BY <1>1 DEF Mark
<1>6. CASE s_axis_tlast
  <2>1. 0 \in SubOffsets /\ << >> \in Seq(Byte) /\ Len(<< >>) <= 2 * KEEP_WIDTH - 1
    BY MessagePlanAssumption, Layout DEF SubOffsets
  <2>2. RegistersOK'
    <3>1. sub_header_offset' = 0 /\ msg_remaining' = 0 /\ msg_bytes_remaining' = 0
      BY <1>1, <1>6
    <3>2. UNCHANGED malformed_count /\ UNCHANGED sub_reg
      BY <1>1
    <3> QED
      BY <1>4, <1>5, <2>1, <3>1, <3>2, IsTyped DEF RegistersOK
  <2>3. ScratchOK'
    BY <1>1, <1>6, <2>1 DEF ScratchOK
  <2> QED
    BY <1>1, <1>3, <1>4, <1>6, <2>2, <2>3, BetweenFrames
<1>7. CASE ~s_axis_tlast
  <2>1. UNCHANGED <<state, scratch, scratch_last, sub_header_offset, msg_remaining, msg_bytes_remaining>>
    BY <1>1, <1>7 DEF scratches
  <2>2. RegistersOK'
    BY <1>1, <1>4, <1>5, <2>1, IsTyped DEF RegistersOK
  <2>3. ScratchOK'
    BY <2>1, IsTyped DEF ScratchOK
  <2> QED
    BY <1>1, <1>3, <1>4, <1>7, <2>1, <2>2, <2>3, RestDrained
<1> QED
  BY <1>6, <1>7

LEMMA KeepsBeginBody ==
  ASSUME FramesEnd, HeadersInv, BeginBody
  PROVE  HeadersInv'
<1>1. /\ SubHeaderByte /\ sub_header_offset = SUB_HEADER_BYTES - 1 /\ msg_len # 0
      /\ sub_header_offset' = 0 /\ scratch' = Tail(Pad) /\ MarkByte
      /\ msg_bytes_remaining' = msg_len /\ state' = "ST_MSG_BODY"
      /\ UNCHANGED <<msg_remaining, malformed_count>>
  BY DEF BeginBody, SubHeaderComplete
<1>2. /\ state = "ST_MSG_HDR" /\ TakeByte /\ Later /\ sub_reg' = SubBypassed /\ scratch_last' = is_last_beat
      /\ SubBypassed \in [SubBytes -> Byte] /\ msg_len \in Nat
      /\ SUB_HEADER_BYTES \in Nat \ {0} /\ \A o \in SubBytes : o \in 0 .. SUB_HEADER_BYTES - 1
      /\ Start = Consumed - sub_header_offset /\ Start \in TOTAL_LENGTH .. cur.len /\ Start \in Nat
      /\ \A o \in SubBytes : o <= sub_header_offset => SubBypassed[o] = cur.data[Start + o]
  BY <1>1, SubByte
<1>3. /\ SourceInv' /\ cur' = cur /\ cur \in Frames /\ cur.len \in Nat
      /\ Consumed \in Nat /\ Consumed >= TOTAL_LENGTH /\ KEEP_WIDTH \in Nat /\ TOTAL_LENGTH \in Nat
      /\ Len(Pad) \in Nat \ {0} /\ Len(Pad) <= 2 * KEEP_WIDTH - 1
      /\ Tail(Pad) = Slice(cur, Consumed + 1, Len(Pad) - 1)
      /\ Tail(Pad) \in Seq(Byte) /\ Len(Tail(Pad)) = Len(Pad) - 1
      /\ Accepted' = Consumed + Len(Pad) /\ Consumed + Len(Pad) <= cur.len
      /\ pos' \in Nat /\ is_last_beat = (pos' = 0)
      /\ (pos' = 0 => cur.len + KEEP_WIDTH # cur.end /\ cur.len = Consumed + Len(Pad))
      /\ sticky_tuser' \in BOOLEAN
  BY <1>1, <1>2, Taking, Layout DEF InMessages
<1>4. /\ beat_count' = 0 /\ HeaderHeld' /\ fields_fresh' = FALSE
      /\ field_reg' \in [HeaderBytes -> Byte] /\ cfg_reg' \in ConfigValues \cup {CONFIG_DEFAULT}
      /\ drop_count' \in [DropConditions -> 0 .. COUNTER_MOD - 1]
      /\ Count' = Count
  BY <1>2, <1>3, Stays
<1>5. RegistersOK'
  <2>1. 0 \in SubOffsets
    BY MessagePlanAssumption DEF SubOffsets
  <2> QED
    BY <1>1, <1>2, <1>3, <1>4, <2>1, IsTyped DEF RegistersOK
<1>6. ScratchOK'
  BY <1>1, <1>2, <1>3 DEF ScratchOK
<1>7. Len(scratch') = Len(Pad) - 1 /\ Consumed' = Consumed + 1
  BY <1>1, <1>3 DEF Consumed
<1>8. PICK c : c = Consumed + 1
  OBVIOUS
<1>9. PICK start : start = Start
  OBVIOUS
<1>10. c = start + SUB_HEADER_BYTES /\ c \in Nat /\ c >= TOTAL_LENGTH /\ start \in Nat
  BY <1>1, <1>2, <1>3, <1>8, <1>9
<1>11. sub_reg' = SubHeader(cur, start)
  <2>1. \A o \in SubBytes : o <= sub_header_offset
    BY <1>1, <1>2
  <2>2. \A o \in SubBytes : SubBypassed[o] = cur.data[start + o]
    BY <1>2, <1>9, <2>1
  <2> QED
    BY <1>2, <2>2 DEF SubHeader
<1>12. \E n \in 1 .. Count : msg_remaining = Count - n + 1 /\ \E at \in Starts(cur, n) : at[n] = start
  BY <1>2, <1>9, OnIt DEF InMessages
<1>13. msg_len = MsgLen(SubHeader(cur, start))
  BY <1>2, <1>11 DEF msg_len
<1>14. Len(scratch') = 0 => pos' # 0
  <2>1. SUFFICES ASSUME Len(scratch') = 0, pos' = 0 PROVE FALSE
    OBVIOUS
  <2>2. cur.len = BodyOf(cur, start) /\ cur.len + KEEP_WIDTH # cur.end /\ cur.len >= TOTAL_LENGTH
    <3>1. cur.len = c
      BY <1>3, <1>7, <1>8, <2>1
    <3> QED
      BY <1>3, <1>10, <2>1, <3>1 DEF BodyOf
  <2>3. StopsAt(cur, BodyOf(cur, start)) /\ MsgLen(SubHeader(cur, start)) # 0
    BY <1>1, <1>13, <2>2 DEF StopsAt
  <2>4. EndsUnnoticed(cur)
    <3>1. \E n \in 1 .. Count : \E at \in Starts(cur, n) :
            StopsAt(cur, BodyOf(cur, at[n])) /\ MsgLen(SubHeader(cur, at[n])) # 0
      BY <1>12, <2>3
    <3> QED
      BY <2>2, <3>1 DEF EndsUnnoticed, Count
  <2> QED
    BY <1>3, <2>4 DEF FramesEnd
<1>15. InFrame(c)'
  <2>1. scratch' = Slice(cur', c, Len(scratch')) /\ Consumed' = c
    BY <1>1, <1>3, <1>7, <1>8
  <2> QED
    BY <1>2, <1>3, <1>10, <1>14, <2>1 DEF InFrame
<1>16. Start' = start
  <2>1. MsgLen(sub_reg)' = msg_len
    BY <1>2 DEF msg_len, MsgLen
  <2>2. Start' = (Consumed' + msg_bytes_remaining') - MsgLen(sub_reg)' - SUB_HEADER_BYTES
    <3>1. Start' = MessageFrom'
      BY <1>1 DEF Start
    <3>2. MessageFrom' = (Consumed' + msg_bytes_remaining') - MsgLen(sub_reg)' - SUB_HEADER_BYTES
      BY DEF MessageFrom, BodyEnd
    <3> QED
      BY <3>1, <3>2
  <2>3. Start' = (c + msg_len) - msg_len - SUB_HEADER_BYTES
    BY <1>1, <1>7, <1>8, <2>1, <2>2
  <2> QED
    BY <1>2, <1>10, <2>3
<1>17. OnMessage(start)'
  BY <1>1, <1>3, <1>4, <1>12, <1>16 DEF OnMessage
<1>18. SubHeaderInv' /\ BodyInv'
  <2>1. msg_bytes_remaining' \in 1 .. MsgLen(sub_reg')
    BY <1>1, <1>2 DEF msg_len
  <2> QED
    BY <1>1, <1>3, <1>11, <1>16, <2>1 DEF SubHeaderInv, BodyInv
<1> QED
  BY <1>1, <1>3, <1>4, <1>5, <1>6, <1>15, <1>17, <1>18, AmongMessages

------------------------------------------------------------------------------
(* ST_MSG_BODY. *)

LEMMA InBody ==
  ASSUME HeadersInv, state = "ST_MSG_BODY"
  PROVE  /\ InMessages /\ SUB_HEADER_BYTES \in Nat \ {0} /\ sub_header_offset = 0
         /\ MsgLen(sub_reg) \in Nat /\ msg_bytes_remaining \in 1 .. MsgLen(sub_reg) /\ msg_bytes_remaining \in Nat
         /\ sub_reg = SubHeader(cur, Start)
         /\ Start \in TOTAL_LENGTH .. cur.len /\ Start \in Nat
         /\ Start = (Consumed + msg_bytes_remaining) - MsgLen(sub_reg) - SUB_HEADER_BYTES
<1>1. InMessages
  BY DEF InMessages
<1>2. MsgLen(sub_reg) \in Nat
  BY IsTyped, Numbers DEF RegistersOK
<1>3. /\ sub_header_offset = 0 /\ sub_reg = SubHeader(cur, Start)
      /\ msg_bytes_remaining \in 1 .. MsgLen(sub_reg)
  BY DEF HeadersInv, BodyInv
<1>4. Start \in TOTAL_LENGTH .. cur.len /\ Start \in Nat
  BY <1>1, OnIt
<1>5. Start = (Consumed + msg_bytes_remaining) - MsgLen(sub_reg) - SUB_HEADER_BYTES
  BY DEF Start, MessageFrom, BodyEnd
<1>6. msg_bytes_remaining \in Nat
  BY <1>2, <1>3
<1> QED
  BY <1>1, <1>2, <1>3, <1>4, <1>5, <1>6, MessagePlanAssumption

(* The next message starts where the body of this one ends. *)
LEMMA Further ==
  ASSUME HeadersInv, state = "ST_MSG_BODY", msg_remaining > 1,
         NEW c \in TOTAL_LENGTH .. cur.len, c = BodyEnd
  PROVE  \E n \in 1 .. Count : msg_remaining - 1 = Count - n + 1 /\ \E at \in Starts(cur, n) : at[n] = c
<1>1. /\ InMessages /\ SUB_HEADER_BYTES \in Nat \ {0}
      /\ MsgLen(sub_reg) \in Nat /\ msg_bytes_remaining \in Nat
      /\ sub_reg = SubHeader(cur, Start) /\ Start \in Nat
      /\ Start = (Consumed + msg_bytes_remaining) - MsgLen(sub_reg) - SUB_HEADER_BYTES
  BY InBody
<1>2. c \in Nat /\ c <= cur.len /\ c >= TOTAL_LENGTH /\ cur.len \in Nat /\ Consumed \in Nat
      /\ c = Consumed + msg_bytes_remaining
  <2>1. TOTAL_LENGTH \in Nat /\ cur.len \in Nat /\ Consumed \in Nat
    BY <1>1, Held, Layout
  <2>2. c = Consumed + msg_bytes_remaining
    BY DEF BodyEnd
  <2> QED
    BY <2>1, <2>2
<1>3. PICK start \in Nat : start = Start
  BY <1>1
<1>4. /\ BodyOf(cur, start) \in Nat /\ BodyOf(cur, start) <= cur.len /\ c = NextStart(cur, start)
  <2>1. BodyOf(cur, start) = start + SUB_HEADER_BYTES
    BY DEF BodyOf
  <2>2. NextStart(cur, start) = BodyOf(cur, start) + MsgLen(sub_reg)
    BY <1>1, <1>3 DEF NextStart
  <2> QED
    BY <1>1, <1>2, <1>3, <2>1, <2>2
<1>5. PICK n \in 1 .. Count : msg_remaining = Count - n + 1 /\ \E at \in Starts(cur, n) : at[n] = start
  BY <1>1, <1>3, OnIt
<1>6. PICK at \in Starts(cur, n) : at[n] = start
  BY <1>5
<1>7. Count \in Nat /\ n + 1 \in 1 .. Count /\ msg_remaining - 1 = Count - (n + 1) + 1 /\ n \in Nat
  <2>1. Count \in Nat
    BY Counted
  <2> QED
    BY <1>5, <2>1
<1>8. \E further \in Starts(cur, n + 1) : further[n + 1] = c
  <2> DEFINE further == [i \in 1 .. n + 1 |-> IF i = n + 1 THEN c ELSE at[i]]
  <2>1. /\ at \in [1 .. n -> TOTAL_LENGTH .. cur.len] /\ at[1] = TOTAL_LENGTH
        /\ \A i \in 2 .. n : BodyOf(cur, at[i - 1]) <= cur.len /\ at[i] = NextStart(cur, at[i - 1])
    BY DEF Starts
  <2>2. further \in [1 .. n + 1 -> TOTAL_LENGTH .. cur.len]
    <3>1. c \in TOTAL_LENGTH .. cur.len
      BY <1>2, Layout
    <3>2. \A i \in 1 .. n + 1 : i # n + 1 => i \in 1 .. n
      BY <1>7
    <3> QED
      BY <2>1, <3>1, <3>2
  <2>3. further[1] = TOTAL_LENGTH
    BY <1>5, <1>7, <2>1
  <2>4. ASSUME NEW i \in 2 .. n + 1
        PROVE  BodyOf(cur, further[i - 1]) <= cur.len /\ further[i] = NextStart(cur, further[i - 1])
    <3>1. i - 1 \in 1 .. n /\ i - 1 # n + 1 /\ i \in 1 .. n + 1
      BY <1>7
    <3>2. further[i - 1] = at[i - 1]
      BY <1>7, <3>1
    <3>3. CASE i = n + 1
      <4>1. i - 1 = n /\ further[i] = c
        BY <1>7, <3>1, <3>3
      <4> QED
        BY <1>4, <1>6, <3>2, <4>1
    <3>4. CASE i # n + 1
      <4>1. i \in 2 .. n /\ further[i] = at[i]
        BY <1>7, <3>1, <3>4
      <4> QED
        BY <2>1, <3>2, <4>1
    <3> QED
      BY <3>3, <3>4
  <2>5. further[n + 1] = c
    BY <1>7
  <2> HIDE DEF further
  <2>6. further \in Starts(cur, n + 1)
    BY <2>2, <2>3, <2>4 DEF Starts
  <2> QED
    BY <2>5, <2>6
<1> QED
  BY <1>7, <1>8
------------------------------------------------------------------------------
(* Steps that change nothing of this. *)

(* What the invariant says of the parser it says whatever frame the source *)
(* sends next, and a step that only changes that, the configuration or the *)
(* announcements keeps it.                                                 *)
LEMMA KeepsStill ==
  ASSUME HeadersInv, SourceInv', pos' = pos, cur' = cur, pos > 0 => src' = src,
         UNCHANGED <<state, messages, scratches, outer, sticky_tuser, malformed_count>>,
         cfg_reg' \in ConfigValues \cup {CONFIG_DEFAULT}, fields_fresh' \in {FALSE, fields_fresh}
  PROVE  HeadersInv'
<1>1. /\ UNCHANGED <<state, msg_remaining, msg_bytes_remaining, sub_header_offset, sub_reg>>
      /\ UNCHANGED <<scratch, scratch_last, beat_count, field_reg, drop_count>>
      /\ UNCHANGED <<sticky_tuser, malformed_count, pos, cur>>
  BY DEF messages, scratches, outer
<1>2. CommonTypeOK'
  BY <1>1, Held DEF HeadersInv, CommonTypeOK, HeaderTypeOK, SourceInv
<1>3. /\ Accepted' = Accepted /\ Consumed' = Consumed /\ MessageFrom' = MessageFrom
      /\ Start' = Start /\ Count' = Count /\ InMessages' = InMessages /\ Empty' = Empty
  BY <1>1 DEF Accepted, Consumed, BodyEnd, MessageFrom, Start, Count, InMessages, Empty
<1>4. Framing' /\ ScratchIntact'
  BY <1>1, <1>3 DEF HeadersInv, Framing, ScratchIntact
<1>5. FieldsCoherent'
  BY <1>1 DEF HeadersInv, FieldsCoherent, fields_valid
<1>6. ParseInv'
  <2>1. CASE state = "ST_PARSE"
    <3>1. SUFFICES ASSUME NEW p \in HeaderBytes, p < pos PROVE field_reg[p] = src'.data[p]
      BY <1>1, <2>1 DEF ParseInv
    <3>2. pos > 0
      BY <3>1, Layout, Held
    <3>3. field_reg[p] = src.data[p]
      BY <2>1, <3>1 DEF HeadersInv, ParseInv
    <3> QED
      BY <3>2, <3>3
  <2>2. CASE state # "ST_PARSE"
    BY <1>1, <2>2 DEF HeadersInv, ParseInv
  <2> QED
    BY <2>1, <2>2
<1>7. WalkInv' /\ SubHeaderInv' /\ BodyInv'
  BY <1>1, <1>3 DEF HeadersInv, WalkInv, SubHeaderInv, BodyInv
<1> QED
  BY <1>2, <1>4, <1>5, <1>6, <1>7 DEF HeadersInv

(* The source sends, or nothing is handed over. *)
LEMMA KeepsWaiting ==
  ASSUME HeadersInv, \/ Offer /\ UNCHANGED common
                     \/ CommonIdle
                     \/ UNCHANGED <<common, source, cur>>
  PROVE  HeadersInv'
<1>1. SourceInv' /\ pos' = pos /\ cur' = cur /\ (pos > 0 => src' = src)
  <2>1. CASE Offer
    <3>1. SourceInv'
      BY <2>1, OfferSource DEF HeadersInv
    <3>2. pos > 0 => src' = src
      BY <2>1 DEF Offer
    <3> QED
      BY <2>1, <3>1, <3>2 DEF Offer
  <2>2. CASE UNCHANGED <<source, cur>>
    BY <2>2 DEF HeadersInv, SourceInv, SourceTypeOK, source
  <2> QED
    BY <2>1, <2>2 DEF CommonIdle
<1>2. UNCHANGED <<state, messages, scratches, outer, sticky_tuser, malformed_count>>
  BY DEF common, CommonIdle, Later
<1>3. cfg_reg \in ConfigValues \cup {CONFIG_DEFAULT} /\ fields_fresh \in BOOLEAN
  BY IsTyped DEF RegistersOK
<1>4. cfg_reg' \in ConfigValues \cup {CONFIG_DEFAULT} /\ fields_fresh' \in {FALSE, fields_fresh}
  BY <1>3 DEF common, CommonIdle, Later, ConfigEdge
<1> QED
  BY <1>1, <1>2, <1>4, KeepsStill

LEMMA KeepsReset ==
  ASSUME HeadersInv, CommonReset
  PROVE  HeadersInv'
<1>1. SourceInv' /\ pos' = 0
  <2>1. SourceInv /\ SourceReset
    BY DEF HeadersInv, CommonReset
  <2>2. SourceInv'
    BY <2>1, OfferSource
  <2> QED
    BY <2>1, <2>2 DEF SourceReset
<1>2. 0 \in SubOffsets /\ << >> \in Seq(Byte) /\ Len(<< >>) <= 2 * KEEP_WIDTH - 1 /\ 0 \in Byte
      /\ 0 \in 0 .. COUNTER_MOD - 1
  BY MessagePlanAssumption, CounterAssumption, Layout DEF SubOffsets, Byte
<1>3. RegistersOK'
  BY <1>2 DEF CommonReset, HeaderReset, RegistersOK
<1>4. ScratchOK'
  BY <1>2 DEF CommonReset, ScratchOK
<1> QED
  BY <1>1, <1>3, <1>4, BetweenFrames DEF CommonReset, HeaderReset

(* The initial states are those a reset leads to. *)
LEMMA InitHeaders == CommonInit => HeadersInv
<1> SUFFICES ASSUME CommonInit PROVE HeadersInv
  OBVIOUS
<1>1. /\ src \in Frames /\ pos = 0 /\ s_axis_tvalid = FALSE /\ cur = src
      /\ state = "ST_PARSE" /\ beat_count = 0 /\ fields_fresh = FALSE
      /\ field_reg = [p \in HeaderBytes |-> 0] /\ cfg_reg = CONFIG_DEFAULT
      /\ drop_count = [c \in DropConditions |-> 0]
      /\ sub_header_offset = 0 /\ msg_remaining = 0 /\ msg_bytes_remaining = 0
      /\ scratch = << >> /\ scratch_last = FALSE /\ sticky_tuser = FALSE /\ malformed_count = 0
      /\ sub_reg = [o \in SubBytes |-> 0]
  BY DEF CommonInit, SourceInit, HeaderInit
<1>2. 0 \in SubOffsets /\ << >> \in Seq(Byte) /\ Len(<< >>) <= 2 * KEEP_WIDTH - 1 /\ 0 \in Byte
      /\ 0 \in 0 .. COUNTER_MOD - 1 /\ 0 = 0 * KEEP_WIDTH /\ 0 \in 0 .. PARSE_FINAL_BEAT
  BY MessagePlanAssumption, CounterAssumption, Layout DEF SubOffsets, Byte
<1>3. SourceInv
  <2>1. src.end \in Nat \ {0}
    BY <1>1, FramesAssumption DEF IsFrame
  <2>2. SourceTypeOK /\ pos < src.end /\ ~(pos > 0)
    <3>1. src \in Frames /\ cur \in Frames
      BY <1>1
    <3>2. pos \in Nat /\ pos < src.end /\ ~(pos > 0)
      BY <1>1, <2>1
    <3>3. s_axis_tvalid \in BOOLEAN
      BY <1>1
    <3> QED
      BY <3>1, <3>2, <3>3 DEF SourceTypeOK
  <2>3. 0 \in 0 .. pos /\ pos = 0 * KEEP_WIDTH
    BY <1>1, <1>2
  <2>4. \E n \in 0 .. pos : pos = n * KEEP_WIDTH
    BY <2>3, Zenon
  <2> QED
    BY <2>2, <2>4, Zenon DEF SourceInv
<1>4. CommonTypeOK
  <2>1. HeaderTypeOK
    BY <1>1, <1>2 DEF HeaderTypeOK
  <2> QED
    BY <1>1, <1>2, <1>3, <2>1 DEF CommonTypeOK, SourceInv, State
<1>5. ~InMessages
  BY <1>1 DEF InMessages
<1>6. Framing /\ ScratchIntact /\ FieldsCoherent
  BY <1>1, <1>2, <1>5 DEF Framing, ScratchIntact, FieldsCoherent, fields_valid
<1>7. ParseInv /\ SubHeaderInv /\ BodyInv
  BY <1>1, Layout DEF ParseInv, SubHeaderInv, BodyInv
<1>8. WalkInv
  <2>1. ~(pos > 0)
    BY <1>1
  <2> QED
    BY <1>5, <2>1, Zenon DEF WalkInv
<1> QED
  BY <1>1, <1>3, <1>4, <1>6, <1>7, <1>8 DEF HeadersInv

------------------------------------------------------------------------------
(* The walk over the messages of a frame: MessageWalk.                     *)

(* The instance's operators on frames are the parser's. *)
LEMMA WalkReads ==
  /\ \A hdr, cfg : Walk!DropsOf(hdr, cfg) = DropsOf(hdr, cfg)
  /\ \A hdr : Walk!MsgCount(hdr) = MsgCount(hdr)
  /\ \A sub : Walk!MsgLen(sub) = MsgLen(sub)
  /\ \A f : Walk!Header(f) = HeaderOf(f)
  /\ \A f, at : Walk!SubHeader(f, at) = SubHeader(f, at)
<1>1. \A x, y : Walk!BitAnd(x, y) = BitAnd(x, y)
  BY DEF Walk!BitAnd, BitAnd
<1>2. \A hdr, f : Walk!BigEndian(hdr, f) = BigEndian(hdr, f)
  BY DEF Walk!BigEndian, BigEndian
<1>3. \A hdr, f : Walk!FieldValue(hdr, f) = FieldValue(hdr, f)
  BY <1>2 DEF Walk!FieldValue, FieldValue
<1>4. \A hdr, cfg : Walk!DropsOf(hdr, cfg) = DropsOf(hdr, cfg)
  BY <1>1, <1>3 DEF Walk!DropsOf, DropsOf, Walk!drop_expression, drop_expression
<1>5. \A hdr : Walk!MsgCount(hdr) = MsgCount(hdr)
  BY <1>3 DEF Walk!MsgCount, MsgCount
<1>6. \A sub : Walk!MsgLen(sub) = MsgLen(sub)
  BY <1>2 DEF Walk!MsgLen, MsgLen
<1>7. \A f : Walk!Header(f) = HeaderOf(f)
  BY DEF Walk!Header, HeaderOf, Walk!HeaderBytes, HeaderBytes, Walk!FieldBytes, FieldBytes
<1>8. \A f, at : Walk!SubHeader(f, at) = SubHeader(f, at)
  BY DEF Walk!SubHeader, SubHeader, Walk!SubBytes, SubBytes
<1> QED
  BY <1>4, <1>5, <1>6, <1>7, <1>8

(* A beat of the header is one of a frame whose header is not complete.    *)
LEMMA WalkCandidate ==
  ASSUME HeadersInv, ParseBeat
  PROVE  /\ src \in Frames /\ cur' = src /\ pos \in Nat /\ (pos > 0 => cur = src)
         /\ Phase = IF pos = 0 THEN "idle" ELSE "header"
         /\ pos' = IF s_axis_tlast THEN 0 ELSE pos + KEEP_WIDTH
         /\ Walk!Candidate(src) /\ WalkStart = 0 /\ WalkLeft = 0
<1>1. SourceInv /\ Handshake /\ state = "ST_PARSE" /\ ConfigEdge
  BY Capture DEF ParseBeat
<1>2. /\ src \in Frames /\ cur' = src /\ pos \in Nat /\ (pos > 0 => cur = src)
      /\ pos' = IF s_axis_tlast THEN 0 ELSE pos + KEEP_WIDTH
      /\ Walk!Configure
  BY <1>1 DEF SourceInv, SourceTypeOK, Handshake, ConfigEdge, Walk!Configure
<1>3. Phase = (IF pos = 0 THEN "idle" ELSE "header") /\ WalkStart = 0 /\ WalkLeft = 0
  BY <1>1 DEF Phase, WalkStart, WalkLeft, InMessages
<1>4. Walk!Candidate(src)
  BY <1>2, <1>3 DEF Walk!Candidate
<1> QED
  BY <1>1, <1>2, <1>3, <1>4

(* On its last beat the header is the frame's, and the frame goes on for   *)
(* as long as the header does.                                             *)
LEMMA WalkHeader ==
  ASSUME HeadersInv, HeaderComplete
  PROVE  Bypassed = HeaderOf(src) /\ src.len >= TOTAL_LENGTH
<1>1. /\ ParseBeat /\ beat_count = PARSE_FINAL_BEAT /\ input_valid_bytes >= OUTER_TAIL_START
  BY DEF HeaderComplete, FinalBeat
<1>2. /\ SourceInv /\ Handshake /\ pos = PARSE_FINAL_BEAT * KEEP_WIDTH
      /\ field_reg' \in [HeaderBytes -> Byte] /\ Bypassed = field_reg'
      /\ \A p \in HeaderBytes : p < pos + KEEP_WIDTH => field_reg'[p] = src.data[p]
  BY <1>1, Capture
<1>3. /\ input_valid_bytes = Valid /\ Valid \in 0 .. KEEP_WIDTH /\ pos + Valid <= src.len /\ src \in Frames
  BY <1>2, Taken
<1>4. /\ KEEP_WIDTH \in Nat /\ pos + OUTER_TAIL_START = TOTAL_LENGTH /\ OUTER_TAIL_START \in 1 .. KEEP_WIDTH
      /\ \A p \in HeaderBytes : p \in Nat /\ p < TOTAL_LENGTH /\ TOTAL_LENGTH \in Nat
  BY <1>2, Layout
<1>5. pos \in Nat /\ src.len \in Nat
  BY <1>2, <1>3, Bytes DEF SourceInv, SourceTypeOK
<1>6. src.len >= TOTAL_LENGTH
  BY <1>1, <1>3, <1>4, <1>5, Layout
<1>7. \A p \in HeaderBytes : field_reg'[p] = src.data[p]
  <2>1. \A p \in HeaderBytes : p < pos + KEEP_WIDTH
    BY <1>4, <1>5
  <2> QED
    BY <1>2, <2>1
<1> QED
  BY <1>2, <1>6, <1>7 DEF HeaderOf

LEMMA WalkMore ==
  ASSUME HeadersInv, ParseMore
  PROVE  Walk!Elsewhere
<1>1. ParseBeat /\ ~s_axis_tlast /\ UNCHANGED <<state, drop_count, malformed_count>> /\ state = "ST_PARSE"
  BY DEF ParseMore, ParseBeat, ParseMark
<1>2. /\ Walk!Candidate(src) /\ src \in Frames /\ cur' = src
      /\ pos \in Nat /\ (pos > 0 => cur = src) /\ Phase = IF pos = 0 THEN "idle" ELSE "header"
      /\ WalkStart = 0 /\ WalkLeft = 0 /\ pos' # 0
  BY <1>1, WalkCandidate, Layout
<1>3. Phase' = "header" /\ WalkStart' = 0 /\ WalkLeft' = 0
  BY <1>1, <1>2 DEF Phase, WalkStart, WalkLeft, InMessages
<1>4. Walk!Begin(src) \/ Walk!Reconfigure
  BY <1>1, <1>2, <1>3 DEF Walk!Begin, Walk!Reconfigure, Walk!Candidate
<1> QED
  BY <1>1, <1>2, <1>3, <1>4 DEF Walk!Elsewhere

LEMMA WalkShort ==
  ASSUME HeadersInv, ParseShort \/ FinalShort
  PROVE  Walk!Elsewhere
<1>1. /\ ParseBeat /\ Malformed /\ UNCHANGED <<state, drop_count>> /\ state = "ST_PARSE"
      /\ \/ beat_count # PARSE_FINAL_BEAT /\ s_axis_tlast
         \/ beat_count = PARSE_FINAL_BEAT /\ input_valid_bytes < OUTER_TAIL_START
  BY DEF ParseShort, FinalShort, FinalBeat, ParseBeat
<1>2. /\ Walk!Candidate(src) /\ src \in Frames /\ WalkStart = 0 /\ WalkLeft = 0
      /\ pos' = IF s_axis_tlast THEN 0 ELSE pos + KEEP_WIDTH
  BY <1>1, WalkCandidate
<1>3. /\ SourceInv /\ Handshake /\ pos = beat_count * KEEP_WIDTH /\ beat_count \in 0 .. PARSE_FINAL_BEAT
  BY <1>1, Capture
<1>4. /\ KEEP_WIDTH \in Nat \ {0} /\ PARSE_FINAL_BEAT \in Nat /\ OUTER_TAIL_START \in 1 .. KEEP_WIDTH
      /\ PARSE_FINAL_BEAT * KEEP_WIDTH + OUTER_TAIL_START = TOTAL_LENGTH
  BY Layout
<1>5. /\ input_valid_bytes = Valid /\ Valid \in 0 .. KEEP_WIDTH /\ (~s_axis_tlast => Valid = KEEP_WIDTH)
      /\ pos' = 0 <=> s_axis_tlast
      /\ s_axis_tlast => src.len = pos + Valid
  BY <1>3, Taken DEF Accepted
<1>6. s_axis_tlast
  BY <1>1, <1>4, <1>5
<1>7. src.len < TOTAL_LENGTH
  <2>1. src.len = beat_count * KEEP_WIDTH + Valid
    BY <1>3, <1>5, <1>6
  <2>2. CASE beat_count # PARSE_FINAL_BEAT
    <3>1. PICK d \in Nat : PARSE_FINAL_BEAT = beat_count + 1 + d
      BY <1>3, <1>4, <2>2
    <3>2. PARSE_FINAL_BEAT * KEEP_WIDTH = beat_count * KEEP_WIDTH + KEEP_WIDTH + d * KEEP_WIDTH
      BY <1>3, <1>4, <3>1
    <3>3. d * KEEP_WIDTH \in Nat /\ beat_count * KEEP_WIDTH \in Nat
      BY <1>3, <1>4
    <3> QED
      BY <1>4, <1>5, <2>1, <3>2, <3>3
  <2>3. CASE beat_count = PARSE_FINAL_BEAT
    <3>1. Valid < OUTER_TAIL_START /\ PARSE_FINAL_BEAT * KEEP_WIDTH \in Nat
      BY <1>1, <1>4, <1>5, <2>3
    <3> QED
      BY <1>4, <1>5, <2>1, <2>3, <3>1
  <2> QED
    BY <2>2, <2>3
<1>8. Phase' = "idle" /\ WalkStart' = 0 /\ WalkLeft' = 0
  BY <1>1, <1>2, <1>6 DEF Phase, WalkStart, WalkLeft, InMessages
<1>9. Walk!Short(src)
  BY <1>1, <1>2, <1>7, <1>8 DEF Walk!Short, Walk!TooShort, Walk!CountMalformed, Malformed
<1> QED
  BY <1>2, <1>9 DEF Walk!Elsewhere

LEMMA WalkDrop ==
  ASSUME HeadersInv, FinalDrop
  PROVE  Walk!Elsewhere
<1>1. HeaderComplete /\ ParseBeat /\ drops_now # {} /\ CountDrops /\ ParseOrDrain(s_axis_tlast)
      /\ UNCHANGED malformed_count
  BY DEF FinalDrop, HeaderComplete, FinalBeat, ParseMark
<1>2. /\ Walk!Candidate(src) /\ src \in Frames /\ WalkStart = 0 /\ WalkLeft = 0
      /\ pos' = IF s_axis_tlast THEN 0 ELSE pos + KEEP_WIDTH
  BY <1>1, WalkCandidate
<1>3. Walk!DropsOf(Walk!Header(src), cfg_reg) = drops_now /\ src.len >= TOTAL_LENGTH
  BY <1>1, WalkHeader, WalkReads DEF drops_now
<1>4. Phase' \in {"idle", "discard"} /\ WalkStart' = 0 /\ WalkLeft' = 0
  BY <1>1, <1>2 DEF Phase, WalkStart, WalkLeft, InMessages, ParseOrDrain
<1>5. Walk!Reject(src)
  BY <1>1, <1>2, <1>3, <1>4 DEF Walk!Reject, CountDrops
<1> QED
  BY <1>1, <1>2, <1>4, <1>5 DEF Walk!Elsewhere

LEMMA WalkAccept ==
  ASSUME HeadersInv, FinalAccept
  PROVE  Walk!Elsewhere
<1>1. /\ HeaderComplete /\ ParseBeat /\ drops_now = {} /\ UNCHANGED <<drop_count, malformed_count>>
      /\ msg_remaining' = MsgCount(Bypassed) /\ sub_header_offset' = 0
      /\ IF MsgCount(Bypassed) = 0 THEN ParseOrDrain(s_axis_tlast) ELSE state' = "ST_MSG_HDR"
  BY DEF FinalAccept, HeaderComplete, FinalBeat, ParseMark
<1>2. /\ Walk!Candidate(src) /\ src \in Frames /\ WalkStart = 0 /\ WalkLeft = 0
      /\ pos' = IF s_axis_tlast THEN 0 ELSE pos + KEEP_WIDTH
  BY <1>1, WalkCandidate
<1>3. /\ Walk!Pass(src) /\ Walk!MsgCount(Walk!Header(src)) = MsgCount(Bypassed)
  BY <1>1, <1>2, WalkHeader, WalkReads DEF drops_now, Walk!Pass
<1>4. CASE MsgCount(Bypassed) = 0
  <2>1. Phase' \in {"idle", "discard"} /\ WalkStart' = 0 /\ WalkLeft' = 0
    BY <1>1, <1>2, <1>4 DEF Phase, WalkStart, WalkLeft, InMessages, ParseOrDrain
  <2>2. Walk!NoMessages(src)
    BY <1>1, <1>2, <1>3, <1>4, <2>1 DEF Walk!NoMessages
  <2> QED
    BY <1>2, <2>2 DEF Walk!Elsewhere
<1>5. CASE MsgCount(Bypassed) # 0
  <2>1. state' = "ST_MSG_HDR"
    BY <1>1, <1>5
  <2>2. Phase' = "messages" /\ WalkLeft' = MsgCount(Bypassed) /\ WalkStart' = Consumed' - sub_header_offset'
    BY <1>1, <2>1 DEF Phase, WalkStart, WalkLeft, InMessages, Start
  <2>3. Consumed' = TOTAL_LENGTH
    <3>1. /\ SourceInv /\ Handshake /\ pos = PARSE_FINAL_BEAT * KEEP_WIDTH
          /\ input_valid_bytes >= OUTER_TAIL_START
          /\ scratch' = SubSeq(InputBytes, OUTER_TAIL_START + 1, input_valid_bytes)
      BY <1>1, Capture DEF FinalAccept, HeaderComplete, FinalBeat
    <3>2. /\ input_valid_bytes = Valid /\ Valid \in 0 .. KEEP_WIDTH /\ Accepted' = pos + Valid
          /\ pos + Valid <= src.len /\ pos \in Nat
      BY <3>1, Taken DEF SourceInv, SourceTypeOK
    <3>3. OUTER_TAIL_START \in 1 .. KEEP_WIDTH /\ pos + OUTER_TAIL_START = TOTAL_LENGTH /\ KEEP_WIDTH \in Nat
      BY <3>1, Layout
    <3>4. PICK v \in Nat : v = Valid
      BY <3>2, <3>3
    <3>5. PICK t \in 1 .. v : t = OUTER_TAIL_START
      BY <3>1, <3>2, <3>3, <3>4
    <3>6. \A p \in pos .. pos + v - 1 : src.data[p] \in Byte
      BY <1>2, <3>2, <3>4, Bytes
    <3>7. SubSeq(Slice(src, pos, v), t + 1, v) = Slice(src, pos + t, v - t)
      <4>1. pos \in Nat /\ t \in 0 .. v
        BY <3>2
      <4> QED
        BY <3>6, <4>1, SliceRest
    <3>8. Len(Slice(src, pos + t, v - t)) = v - t
      <4>1. pos + t \in Nat /\ v - t \in Nat /\ \A p \in pos + t .. (pos + t) + (v - t) - 1 : src.data[p] \in Byte
        BY <3>2, <3>6
      <4> QED
        BY <4>1, SliceType
    <3>9. Len(scratch') = v - t
      BY <3>1, <3>2, <3>4, <3>5, <3>7, <3>8, Inputs
    <3>10. Consumed' = Accepted' - Len(scratch')
      BY DEF Consumed
    <3> QED
      BY <3>2, <3>3, <3>4, <3>5, <3>9, <3>10
  <2>4. WalkStart' = TOTAL_LENGTH
    BY <1>1, <2>2, <2>3, Layout
  <2>5. Walk!Admit(src)
    BY <1>1, <1>3, <1>5, <2>2, <2>4 DEF Walk!Admit
  <2> QED
    BY <1>2, <2>5 DEF Walk!Elsewhere
<1> QED
  BY <1>4, <1>5

(* What becomes of a frame while its header is read. *)
LEMMA WalkParse ==
  ASSUME HeadersInv, ParseEdge
  PROVE  Walk!Elsewhere
BY WalkMore, WalkShort, WalkDrop, WalkAccept DEF ParseEdge

(* What the edges that take a byte of a sub-header have in common. *)
LEMMA WalkByte ==
  ASSUME HeadersInv, SubHeaderByte
  PROVE  /\ Walk!InMessage
         /\ Walk!Body = Start + SUB_HEADER_BYTES /\ WalkStart = Start /\ WalkLeft = msg_remaining
         /\ Start = Consumed - sub_header_offset /\ Start \in Nat /\ sub_header_offset \in 0 .. SUB_HEADER_BYTES - 1
         /\ Consumed \in Nat /\ SUB_HEADER_BYTES \in Nat \ {0} /\ cur.len \in Nat
         /\ Consumed + 1 <= cur.len /\ pos' \in Nat /\ is_last_beat = (pos' = 0)
         /\ is_last_byte => pos' = 0 /\ cur.len = Consumed + 1
<1>1. /\ state = "ST_MSG_HDR" /\ TakeByte /\ Later /\ InMessages
  BY SubByte DEF InMessages
<1>2. /\ cur' = cur /\ cur.len \in Nat /\ Consumed \in Nat
      /\ Len(Pad) \in Nat \ {0} /\ Consumed + Len(Pad) <= cur.len
      /\ pos' \in Nat /\ is_last_beat = (pos' = 0)
      /\ pos' = 0 => cur.len = Consumed + Len(Pad)
  BY <1>1, Taking
<1>3. Start = Consumed - sub_header_offset /\ Start \in Nat
  BY SubByte
<1>4. sub_header_offset \in 0 .. SUB_HEADER_BYTES - 1 /\ SUB_HEADER_BYTES \in Nat \ {0}
  BY IsTyped, MessagePlanAssumption DEF RegistersOK, SubOffsets
<1>5. Phase = "messages" /\ WalkStart = Start /\ WalkLeft = msg_remaining
  BY <1>1 DEF Phase, WalkStart, WalkLeft
<1>6. Walk!InMessage
  BY <1>1, <1>2, <1>5 DEF Walk!InMessage, Walk!Configure, Later, ConfigEdge, outer
<1>7. Consumed + 1 <= cur.len /\ (is_last_byte => pos' = 0 /\ cur.len = Consumed + 1)
  <2>1. PICK n \in Nat \ {0} : n = Len(Pad)
    BY <1>2
  <2>2. Consumed + 1 <= cur.len
    BY <1>2, <2>1
  <2>3. is_last_byte => n = 1 /\ is_last_beat
    BY <2>1 DEF is_last_byte
  <2> QED
    BY <1>2, <2>1, <2>2, <2>3
<1>8. Walk!Body = Start + SUB_HEADER_BYTES
  BY <1>5 DEF Walk!Body
<1> QED
  BY <1>2, <1>3, <1>4, <1>5, <1>6, <1>7, <1>8

(* The frame ends where a byte of a sub-header should be, or with one that *)
(* is not the last.                                                        *)
LEMMA WalkNoHeader ==
  ASSUME HeadersInv, Terminator \/ SubHeaderShort
  PROVE  Walk!NoHeader
<1>1. CASE Terminator
  <2>1. /\ state = "ST_MSG_HDR" /\ Empty /\ NoInput /\ Handshake /\ Later /\ Malformed /\ state' = "ST_PARSE"
    BY <1>1 DEF Terminator, Accept
  <2>2. InMessages /\ Phase = "messages" /\ WalkStart = Start /\ Start = Consumed - sub_header_offset
    BY <2>1 DEF InMessages, Phase, WalkStart, Start
  <2>3. /\ SourceInv /\ cur = src /\ Accepted = pos /\ Consumed = pos /\ cur.len \in Nat /\ pos \in Nat
    BY <2>1, <2>2, Held
  <2>4. /\ cur' = src /\ (pos' = 0 <=> s_axis_tlast) /\ input_valid_bytes = Valid /\ Accepted' = pos + Valid
    BY <2>1, <2>3, Taken
  <2>5. s_axis_tlast /\ Valid = 0
    BY <2>1, <2>4 DEF NoInput
  <2>6. pos' = 0 /\ cur.len = Consumed
    BY <2>3, <2>4, <2>5 DEF Accepted
  <2>7. sub_header_offset \in 0 .. SUB_HEADER_BYTES - 1 /\ SUB_HEADER_BYTES \in Nat \ {0}
    BY IsTyped, MessagePlanAssumption DEF RegistersOK, SubOffsets
  <2>8. Walk!Body > cur.len
    BY <2>2, <2>3, <2>6, <2>7 DEF Walk!Body
  <2>9. Phase' = "idle" /\ WalkStart' = 0 /\ WalkLeft' = 0
    BY <2>1, <2>6 DEF Phase, WalkStart, WalkLeft, InMessages
  <2>10. Walk!InMessage
    BY <2>1, <2>2, <2>3, <2>4 DEF Walk!InMessage, Walk!Configure, Later, ConfigEdge, outer
  <2> QED
    BY <2>1, <2>8, <2>9, <2>10 DEF Walk!NoHeader, Walk!Finish, Walk!CountMalformed, Malformed
<1>2. CASE SubHeaderShort
  <2>1. /\ SubHeaderByte /\ sub_header_offset # SUB_HEADER_BYTES - 1 /\ is_last_byte
        /\ Malformed /\ state' = "ST_PARSE"
    BY <1>2 DEF SubHeaderShort
  <2>2. /\ Walk!InMessage /\ pos' = 0 /\ cur.len = Consumed + 1 /\ Consumed \in Nat
        /\ Walk!Body = Start + SUB_HEADER_BYTES /\ Start = Consumed - sub_header_offset
        /\ sub_header_offset \in 0 .. SUB_HEADER_BYTES - 1 /\ SUB_HEADER_BYTES \in Nat \ {0}
    BY <2>1, WalkByte
  <2>3. Walk!Body > cur.len
    BY <2>1, <2>2
  <2>4. Phase' = "idle" /\ WalkStart' = 0 /\ WalkLeft' = 0
    BY <2>1, <2>2 DEF Phase, WalkStart, WalkLeft, InMessages
  <2> QED
    BY <2>1, <2>2, <2>3, <2>4 DEF Walk!NoHeader, Walk!Finish, Walk!CountMalformed, Malformed
<1> QED
  BY <1>1, <1>2

LEMMA WalkZeroLength ==
  ASSUME HeadersInv, ZeroLength
  PROVE  Walk!ZeroLength
<1>1. /\ SubHeaderByte /\ sub_header_offset = SUB_HEADER_BYTES - 1 /\ msg_len = 0
      /\ Malformed /\ ParseOrDrain(is_last_beat)
  BY DEF ZeroLength, SubHeaderComplete
<1>2. /\ Walk!InMessage /\ is_last_beat = (pos' = 0) /\ Consumed \in Nat
      /\ Walk!Body = Start + SUB_HEADER_BYTES /\ WalkStart = Start /\ Start = Consumed - sub_header_offset
      /\ Consumed + 1 <= cur.len /\ SUB_HEADER_BYTES \in Nat \ {0}
  BY <1>1, WalkByte
<1>3. Walk!Body <= cur.len
  BY <1>1, <1>2
<1>4. SubBypassed = SubHeader(cur, Start)
  <2>1. /\ SubBypassed \in [SubBytes -> Byte]
        /\ \A o \in SubBytes : o <= sub_header_offset => SubBypassed[o] = cur.data[Start + o]
    BY <1>1, SubByte
  <2>2. \A o \in SubBytes : o <= sub_header_offset
    BY <1>1, MessagePlanAssumption DEF SubOffsets
  <2> QED
    BY <2>1, <2>2 DEF SubHeader
<1>5. Walk!Length = 0
  BY <1>1, <1>2, <1>4, WalkReads DEF Walk!Length, msg_len
<1>6. Phase' \in {"idle", "discard"} /\ WalkStart' = 0 /\ WalkLeft' = 0
  BY <1>1, <1>2 DEF Phase, WalkStart, WalkLeft, InMessages, ParseOrDrain
<1> QED
  BY <1>1, <1>2, <1>3, <1>5, <1>6 DEF Walk!ZeroLength, Walk!Finish, Walk!CountMalformed, Malformed

(* A byte of a sub-header leaves the walk where it is, the last one too. *)
LEMMA WalkSubHeader ==
  ASSUME HeadersInv, SubHeaderMore \/ BeginBody
  PROVE  Walk!Elsewhere /\ WalkStart' = Start
<1>1. /\ SubHeaderByte /\ UNCHANGED <<msg_remaining, malformed_count>> /\ state = "ST_MSG_HDR"
  BY DEF SubHeaderMore, BeginBody, SubHeaderComplete, SubHeaderByte
<1>2. /\ WalkStart = Start /\ WalkLeft = msg_remaining
      /\ Start = Consumed - sub_header_offset /\ sub_header_offset \in 0 .. SUB_HEADER_BYTES - 1
      /\ Consumed \in Nat /\ SUB_HEADER_BYTES \in Nat \ {0}
  BY <1>1, WalkByte
<1>3. /\ Later /\ cur' = cur /\ Consumed' = Consumed + 1 /\ sub_reg' = SubBypassed
      /\ msg_len \in Nat
  <2>1. TakeByte /\ Later /\ InMessages /\ sub_reg' = SubBypassed /\ msg_len \in Nat
    BY <1>1, SubByte DEF InMessages
  <2>2. /\ cur' = cur /\ Accepted' = Consumed + Len(Pad) /\ Len(Tail(Pad)) = Len(Pad) - 1
        /\ Len(Pad) \in Nat
    BY <2>1, Taking
  <2>3. scratch' = Tail(Pad)
    BY DEF SubHeaderMore, BeginBody
  <2>4. Consumed' = Accepted' - Len(scratch')
    BY DEF Consumed
  <2>5. PICK n \in Nat : n = Len(Pad)
    BY <2>2
  <2>6. Len(scratch') = n - 1 /\ Accepted' = Consumed + n
    BY <2>2, <2>3, <2>5
  <2>7. Consumed' = Consumed + 1
    BY <1>2, <2>4, <2>6
  <2> QED
    BY <2>1, <2>2, <2>7
<1>4. ASSUME SubHeaderMore PROVE WalkStart' = Start /\ state' = "ST_MSG_HDR"
  <2>1. state' = "ST_MSG_HDR" /\ sub_header_offset' = sub_header_offset + 1
    BY <1>1, <1>4 DEF SubHeaderMore
  <2>2. WalkStart' = Consumed' - sub_header_offset'
    BY <2>1 DEF WalkStart, InMessages, Start
  <2>3. WalkStart' = Start
    BY <1>2, <1>3, <2>1, <2>2
  <2> QED
    BY <2>1, <2>3
<1>5. ASSUME BeginBody PROVE WalkStart' = Start /\ state' = "ST_MSG_BODY"
  <2>1. state' = "ST_MSG_BODY" /\ sub_header_offset = SUB_HEADER_BYTES - 1 /\ msg_bytes_remaining' = msg_len
    BY <1>5 DEF BeginBody, SubHeaderComplete
  <2>2. WalkStart' = (Consumed' + msg_bytes_remaining') - MsgLen(sub_reg)' - SUB_HEADER_BYTES
    BY <2>1 DEF WalkStart, InMessages, Start, MessageFrom, BodyEnd
  <2>3. MsgLen(sub_reg)' = msg_len
    BY <1>3 DEF msg_len
  <2>4. WalkStart' = Start
    BY <1>2, <1>3, <2>1, <2>2, <2>3
  <2> QED
    BY <2>1, <2>4
<1>6. WalkStart' = Start /\ state' \in {"ST_MSG_HDR", "ST_MSG_BODY"}
  BY <1>4, <1>5
<1>7. Phase = "messages" /\ Phase' = "messages" /\ WalkLeft' = WalkLeft
  BY <1>1, <1>2, <1>6 DEF Phase, WalkLeft, InMessages
<1>8. Walk!Reconfigure
  BY <1>3, <1>7 DEF Walk!Reconfigure, Walk!Configure, Later, ConfigEdge, outer
<1>9. UNCHANGED <<WalkStart, WalkLeft, malformed_count>>
  BY <1>1, <1>2, <1>6, <1>7
<1> QED
  BY <1>6, <1>8, <1>9 DEF Walk!Elsewhere

(* A frame is drained to its end. *)
LEMMA WalkDrain ==
  ASSUME HeadersInv, Drain
  PROVE  Walk!Elsewhere \/ Walk!Discard
<1>1. /\ state = "ST_DRAIN" /\ Handshake /\ Later /\ UNCHANGED malformed_count
      /\ IF s_axis_tlast THEN state' = "ST_PARSE" ELSE state' = state
  BY DEF Drain, Accept
<1>2. SourceInv /\ pos > 0 /\ cur = src
  BY <1>1, Held DEF HeadersInv, Framing, SourceInv
<1>3. cur' = cur /\ (s_axis_tlast => pos' = 0)
  BY <1>1, <1>2 DEF Handshake
<1>4. /\ Phase = "discard" /\ Phase' = IF s_axis_tlast THEN "idle" ELSE "discard"
      /\ WalkStart = 0 /\ WalkLeft = 0 /\ WalkStart' = 0 /\ WalkLeft' = 0
  BY <1>1, <1>3 DEF Phase, WalkStart, WalkLeft, InMessages
<1>5. Walk!Configure /\ UNCHANGED drop_count
  BY <1>1 DEF Walk!Configure, Later, ConfigEdge, outer
<1>6. CASE s_axis_tlast
  BY <1>1, <1>3, <1>4, <1>5, <1>6 DEF Walk!Discard, Walk!Discarded
<1>7. CASE ~s_axis_tlast
  BY <1>1, <1>3, <1>4, <1>5, <1>7 DEF Walk!Elsewhere, Walk!Reconfigure
<1> QED
  BY <1>6, <1>7

(* A step that moves neither the parser nor the source, but perhaps the    *)
(* configuration.                                                          *)
LEMMA WalkStill ==
  ASSUME UNCHANGED <<state, messages, scratches, pos, cur, drop_count, malformed_count>>
  PROVE  /\ UNCHANGED <<Phase, cur, drop_count, WalkStart, WalkLeft, malformed_count>>
         /\ ConfigEdge => Walk!Elsewhere
         /\ cfg_reg' = cfg_reg => UNCHANGED Walk!walk
<1>1. UNCHANGED <<Phase, WalkStart, WalkLeft>>
  BY DEF Phase, WalkStart, WalkLeft, InMessages, Start, MessageFrom, BodyEnd, Consumed, Accepted,
         messages, scratches
<1>2. ConfigEdge => Walk!Configure
  BY DEF ConfigEdge, Walk!Configure
<1> QED
  BY <1>1, <1>2 DEF Walk!Elsewhere, Walk!Reconfigure, Walk!walk, Walk!intake

LEMMA WalkWaiting ==
  ASSUME \/ Offer /\ UNCHANGED common
         \/ CommonIdle
         \/ UNCHANGED <<common, source, cur>>
  PROVE  Walk!Elsewhere \/ UNCHANGED Walk!walk
<1>1. UNCHANGED <<state, messages, scratches, pos, cur, drop_count, malformed_count>>
  BY DEF Offer, CommonIdle, Later, common, source, outer
<1>2. ConfigEdge \/ cfg_reg' = cfg_reg
  BY DEF Offer, CommonIdle, Later, common
<1> QED
  BY <1>1, <1>2, WalkStill

LEMMA WalkResets ==
  ASSUME CommonReset
  PROVE  Walk!WalkReset
<1>1. Phase' = "idle" /\ WalkStart' = 0 /\ WalkLeft' = 0
  BY DEF CommonReset, SourceReset, Phase, WalkStart, WalkLeft, InMessages
<1> QED
  BY <1>1 DEF CommonReset, SourceReset, HeaderReset, Walk!WalkReset, Walk!IntakeReset

LEMMA WalkBegins ==
  ASSUME CommonInit
  PROVE  Walk!WalkInit
<1>1. Phase = "idle" /\ WalkStart = 0 /\ WalkLeft = 0
  BY DEF CommonInit, SourceInit, Phase, WalkStart, WalkLeft, InMessages
<1> QED
  BY <1>1 DEF CommonInit, SourceInit, HeaderInit, Walk!WalkInit, Walk!IntakeInit

(* The message whose body is read. *)
LEMMA WalkBody ==
  ASSUME HeadersInv, state = "ST_MSG_BODY"
  PROVE  /\ Phase = "messages" /\ WalkStart = Start /\ WalkLeft = msg_remaining
         /\ Walk!Body \in Nat /\ Walk!BodyEnd \in Nat /\ Walk!Length \in Nat \ {0}
         /\ Walk!Length = MsgLen(sub_reg) /\ Walk!BodyEnd = Walk!Body + Walk!Length
         /\ Walk!BodyEnd = Consumed + msg_bytes_remaining
         /\ Consumed \in Nat /\ Walk!Body <= Consumed
         /\ Walk!Body = Start + SUB_HEADER_BYTES
<1>1. /\ InMessages /\ SUB_HEADER_BYTES \in Nat \ {0}
      /\ MsgLen(sub_reg) \in Nat /\ msg_bytes_remaining \in 1 .. MsgLen(sub_reg)
      /\ sub_reg = SubHeader(cur, Start) /\ Start \in Nat
      /\ Start = (Consumed + msg_bytes_remaining) - MsgLen(sub_reg) - SUB_HEADER_BYTES
  BY InBody
<1>2. Consumed \in Nat
  BY <1>1, Held
<1>3. Phase = "messages" /\ WalkStart = Start /\ WalkLeft = msg_remaining
  BY <1>1 DEF Phase, WalkStart, WalkLeft
<1>4. Walk!Body = Start + SUB_HEADER_BYTES
  BY <1>3 DEF Walk!Body
<1>5. Walk!Length = MsgLen(sub_reg)
  BY <1>1, <1>3, WalkReads DEF Walk!Length
<1>6. Walk!BodyEnd = Walk!Body + Walk!Length
  BY DEF Walk!BodyEnd
<1>7. Start + SUB_HEADER_BYTES \in Nat /\ MsgLen(sub_reg) \in Nat \ {0}
  BY <1>1
<1>8. Start + SUB_HEADER_BYTES <= Consumed
  BY <1>1, <1>2
<1>9. (Start + SUB_HEADER_BYTES) + MsgLen(sub_reg) = Consumed + msg_bytes_remaining
  BY <1>1, <1>2
<1> QED
  BY <1>2, <1>3, <1>4, <1>5, <1>6, <1>7, <1>8, <1>9

(* After the body, or where it is given up. *)
LEMMA WalkFinish ==
  ASSUME pos' \in Nat, (pos' = 0 /\ state' = "ST_PARSE") \/ state' = "ST_DRAIN"
  PROVE  Walk!Finish
BY DEF Walk!Finish, Phase, WalkStart, WalkLeft, InMessages

(* A message that is all there, by the last byte the step reads. *)
LEMMA WalkWhole ==
  ASSUME HeadersInv, SourceInv', state = "ST_MSG_BODY", Later, cur' = cur,
         Walk!BodyEnd <= Accepted', pos' = 0 => cur.len + KEEP_WIDTH # cur.end
  PROVE  /\ Walk!Whole /\ Walk!InMessage /\ WalkStart = Start /\ WalkLeft = msg_remaining
         /\ Walk!BodyEnd \in Nat /\ msg_remaining \in Nat \ {0}
         /\ pos' = 0 /\ Accepted' = Walk!BodyEnd => Walk!BodyEnd = cur.len /\ ~Walk!Padded
         /\ ~(pos' = 0 /\ Accepted' = Walk!BodyEnd) => Walk!BodyEnd < cur.len \/ Walk!Padded
<1>1. /\ Phase = "messages" /\ WalkStart = Start /\ WalkLeft = msg_remaining
      /\ Walk!Body \in Nat /\ Walk!BodyEnd \in Nat /\ Walk!Length \in Nat \ {0}
      /\ Walk!BodyEnd = Walk!Body + Walk!Length
  BY WalkBody
<1>2. /\ cur \in Frames /\ cur.len \in Nat /\ cur.end \in Nat /\ KEEP_WIDTH \in Nat \ {0}
      /\ cur.end <= cur.len + KEEP_WIDTH
  <2>1. cur \in Frames /\ IsFrame(cur) /\ KEEP_WIDTH \in Nat \ {0}
    BY Held, FramesAssumption
  <2> QED
    BY <2>1 DEF IsFrame
<1>3. /\ pos' \in Nat
      /\ pos' > 0 => Accepted' = pos' /\ pos' + KEEP_WIDTH <= cur.end
      /\ pos' = 0 => Accepted' = cur.len
  <2>1. SourceTypeOK' /\ pos' < src'.end /\ (pos' > 0 => cur = src')
    BY DEF SourceInv
  <2>2. pos' \in Nat
    BY <2>1 DEF SourceTypeOK
  <2>3. pos' > 0 => pos' + KEEP_WIDTH <= cur.end
    <3>1. SourceInv' => pos' + KEEP_WIDTH <= (src').end
      <4>1. (SourceInv => pos + KEEP_WIDTH <= src.end)'
        BY Beat, PTL
      <4> QED
        BY <4>1
    <3> QED
      BY <2>1, <3>1
  <2> QED
    BY <2>2, <2>3 DEF Accepted
<1>4. /\ pos' = 0 /\ Accepted' = Walk!BodyEnd => Walk!BodyEnd = cur.len /\ ~Walk!Padded
      /\ ~(pos' = 0 /\ Accepted' = Walk!BodyEnd) => Walk!BodyEnd < cur.len \/ Walk!Padded
      /\ Walk!BodyEnd <= cur.len
  <2>1. PICK e \in Nat : e = Walk!BodyEnd
    BY <1>1
  <2>2. CASE pos' = 0
    BY <1>2, <1>3, <2>1, <2>2 DEF Walk!Padded
  <2>3. CASE pos' > 0
    <3>1. e <= pos' /\ pos' + KEEP_WIDTH <= cur.end
      BY <1>3, <2>1, <2>3
    <3>2. e <= cur.len
      BY <1>2, <1>3, <3>1
    <3>3. e < cur.len \/ cur.len + KEEP_WIDTH = cur.end
      BY <1>2, <1>3, <3>1
    <3> QED
      BY <2>1, <2>3, <3>2, <3>3 DEF Walk!Padded
  <2> QED
    BY <1>3, <2>2, <2>3
<1>5. Walk!Whole
  BY <1>1, <1>2, <1>4 DEF Walk!Whole
<1>6. Walk!InMessage
  BY <1>1 DEF Walk!InMessage, Walk!Configure, Later, ConfigEdge, outer
<1>7. msg_remaining \in Nat \ {0}
  <2>1. Count \in Nat
    BY Counted
  <2>2. PICK n \in 1 .. Count : msg_remaining = Count - n + 1
    BY OnIt DEF InMessages
  <2> QED
    BY <2>1, <2>2
<1> QED
  BY <1>1, <1>4, <1>5, <1>6, <1>7

(* The next message is read. *)
LEMMA WalkNext ==
  ASSUME HeadersInv, SourceInv', state = "ST_MSG_BODY", Later, cur' = cur,
         Walk!BodyEnd <= Accepted', pos' = 0 => cur.len + KEEP_WIDTH # cur.end,
         ~(pos' = 0 /\ Accepted' = Walk!BodyEnd),
         state' = "ST_MSG_HDR", msg_remaining > 1, msg_remaining' = msg_remaining - 1,
         sub_header_offset' = 0, Consumed' = Walk!BodyEnd
  PROVE  Walk!More
<1>1. /\ Walk!Whole /\ Walk!InMessage /\ WalkLeft = msg_remaining /\ Walk!BodyEnd \in Nat
      /\ Walk!BodyEnd < cur.len \/ Walk!Padded
  BY WalkWhole
<1>2. Start' = Walk!BodyEnd
  <2>1. Start' = Consumed' - 0
    BY DEF Start
  <2> QED
    BY <1>1, <2>1
<1>3. WalkStart' = Walk!BodyEnd /\ WalkLeft' = msg_remaining - 1 /\ Phase' = Phase
  BY <1>2 DEF WalkStart, WalkLeft, Phase, InMessages
<1> QED
  BY <1>1, <1>3 DEF Walk!More

(* The parser is done with the frame. *)
LEMMA WalkLast ==
  ASSUME HeadersInv, SourceInv', state = "ST_MSG_BODY", Later, cur' = cur,
         Walk!BodyEnd <= Accepted', pos' = 0 => cur.len + KEEP_WIDTH # cur.end,
         (pos' = 0 /\ state' = "ST_PARSE") \/ state' = "ST_DRAIN",
         msg_remaining > 1 => pos' = 0 /\ Accepted' = Walk!BodyEnd
  PROVE  /\ Walk!Last
         /\ Walk!AsAnnounced <=> msg_remaining = 1 /\ pos' = 0 /\ Accepted' = Walk!BodyEnd
<1>1. /\ Walk!Whole /\ Walk!InMessage /\ WalkLeft = msg_remaining /\ msg_remaining \in Nat \ {0}
      /\ Walk!BodyEnd \in Nat
      /\ pos' = 0 /\ Accepted' = Walk!BodyEnd => Walk!BodyEnd = cur.len /\ ~Walk!Padded
      /\ ~(pos' = 0 /\ Accepted' = Walk!BodyEnd) => Walk!BodyEnd < cur.len \/ Walk!Padded
  BY WalkWhole
<1>2. Walk!Finish
  <2>1. pos' \in Nat
    BY DEF SourceInv, SourceTypeOK
  <2> QED
    BY <2>1, WalkFinish
<1>3. cur.len \in Nat
  BY Held
<1> QED
  BY <1>1, <1>2, <1>3 DEF Walk!Last, Walk!AsAnnounced
==============================================================================
