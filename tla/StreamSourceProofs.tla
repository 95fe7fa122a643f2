-------------------------- MODULE StreamSourceProofs --------------------------
(***************************************************************************)
(* Facts about the source, the beat on the bus and the bytes a sink puts   *)
(* together, for every bus width and every set of frames.                  *)
(***************************************************************************)
EXTENDS StreamSource, FiniteSetTheorems, SequenceTheorems, TLAPS

(* Multiples of the bus width: the next one after pos is not past a later  *)
(* one.                                                                    *)
LEMMA MultipleStep ==
  ASSUME NEW k \in Nat \ {0}, NEW m \in Nat, NEW n \in Nat, m * k < n * k
  PROVE  (m + 1) * k <= n * k
<1>1. m < n
  <2>1. SUFFICES ASSUME n <= m PROVE FALSE
    OBVIOUS
  <2>2. PICK d \in Nat : m = n + d
    BY <2>1
  <2>3. m * k = n * k + d * k
    BY <2>2
  <2>4. d * k \in Nat /\ n * k \in Nat
    OBVIOUS
  <2> QED
    BY <2>3, <2>4
<1>2. PICK e \in Nat : n = (m + 1) + e
  BY <1>1
<1>3. n * k = (m + 1) * k + e * k
  BY <1>2
<1>4. e * k \in Nat /\ (m + 1) * k \in Nat
  OBVIOUS
<1> QED
  BY <1>3, <1>4

(* Dense masks have as many lanes as they say, and all masks are finite. *)
LEMMA Masks ==
  /\ \A n \in Nat : keep_count(keep_for_count(n)) = n
  /\ \A m, n \in Nat : m <= n => keep_count(m .. n - 1) = n - m
  /\ keep_count({}) = 0
  /\ \A S \in SUBSET Lanes : keep_count(S) \in Nat /\ (keep_count(S) = 0 <=> S = {})
<1>1. ASSUME NEW m \in Nat, NEW n \in Nat, m <= n
      PROVE  Cardinality(m .. n - 1) = n - m
  <2>1. m \in Int /\ n - 1 \in Int
    OBVIOUS
  <2>2. Cardinality(m .. n - 1) = IF m > n - 1 THEN 0 ELSE (n - 1) - m + 1
    BY <2>1, FS_Interval, Zenon
  <2> QED
    BY <1>1, <2>2
<1>2. ASSUME NEW S \in SUBSET Lanes
      PROVE  Cardinality(S) \in Nat /\ (Cardinality(S) = 0 <=> S = {})
  <2>1. IsFiniteSet(Lanes)
    BY FS_Interval, KeepWidthAssumption DEF Lanes
  <2> QED
    BY <2>1, FS_Subset, FS_CardinalityType, FS_EmptySet
<1> QED
  BY <1>1, <1>2, FS_EmptySet DEF keep_count, keep_for_count

(* A byte of the beat at position b * KEEP_WIDTH, and one before it. *)
LEMMA BeatOf ==
  ASSUME NEW b \in Nat, NEW p \in Nat
  PROVE  /\ beat_of(p) = b => p >= b * KEEP_WIDTH /\ b * KEEP_WIDTH + byte_in_beat(p) = p
         /\ p >= b * KEEP_WIDTH /\ p < b * KEEP_WIDTH + KEEP_WIDTH => beat_of(p) = b
         /\ byte_in_beat(p) \in Lanes
<1>1. KEEP_WIDTH \in Nat \ {0}
  BY KeepWidthAssumption
<1> DEFINE q == p \div KEEP_WIDTH
           r == p % KEEP_WIDTH
<1>2. q \in Nat /\ r \in 0 .. KEEP_WIDTH - 1 /\ p = q * KEEP_WIDTH + r
  BY <1>1, Z3
<1> HIDE DEF q, r
<1>3. ASSUME p >= b * KEEP_WIDTH, p < b * KEEP_WIDTH + KEEP_WIDTH
      PROVE  q = b
  <2>1. CASE q < b
    <3>1. (q + 1) * KEEP_WIDTH <= b * KEEP_WIDTH
      <4>1. PICK e \in Nat : b = (q + 1) + e
        BY <2>1, <1>2
      <4>2. b * KEEP_WIDTH = (q + 1) * KEEP_WIDTH + e * KEEP_WIDTH
        BY <4>1, <1>1, <1>2
      <4> QED BY <4>2, <1>1, <1>2
    <3> QED BY <3>1, <1>1, <1>2, <1>3
  <2>2. CASE b < q
    <3>1. (b + 1) * KEEP_WIDTH <= q * KEEP_WIDTH
      <4>1. PICK e \in Nat : q = (b + 1) + e
        BY <2>2, <1>2
      <4>2. q * KEEP_WIDTH = (b + 1) * KEEP_WIDTH + e * KEEP_WIDTH
        BY <4>1, <1>1, <1>2
      <4> QED BY <4>2, <1>1, <1>2
    <3> QED BY <3>1, <1>1, <1>2, <1>3
  <2> QED BY <2>1, <2>2, <1>2
<1>4. beat_of(p) = q /\ byte_in_beat(p) = r
  BY DEF beat_of, byte_in_beat, q, r
<1>5. ASSUME q = b PROVE p >= b * KEEP_WIDTH /\ b * KEEP_WIDTH + r = p
  BY <1>1, <1>2, <1>5
<1> QED
  BY <1>1, <1>2, <1>3, <1>4, <1>5 DEF Lanes

(* The lanes of the beat on the bus that are valid. *)
Valid == IF pos + KEEP_WIDTH <= src.len THEN KEEP_WIDTH ELSE src.len - pos

(* What the source keeps true of the beat on the bus. *)
LEMMA Beat ==
  ASSUME SourceInv
  PROVE  /\ src \in Frames /\ pos \in Nat
         /\ src.len \in Nat /\ src.end \in Nat /\ src.len <= src.end
         /\ src.user \subseteq 0 .. src.end - 1
         /\ pos + KEEP_WIDTH <= src.end
         /\ Valid \in 0 .. KEEP_WIDTH
         /\ s_axis_tdata \in Data
         /\ \A i \in Lanes : s_axis_tdata[i] = src.data[pos + i]
         /\ s_axis_tlast \/ KEEP_ALWAYS => s_axis_tkeep = keep_for_count(Valid) /\ keep_count(s_axis_tkeep) = Valid
         /\ input_valid_bytes = Valid
         /\ ~s_axis_tlast => Valid = KEEP_WIDTH /\ pos + KEEP_WIDTH < src.end
         /\ s_axis_tlast => pos + KEEP_WIDTH = src.end /\ pos + Valid = src.len
<1>1. KEEP_WIDTH \in Nat \ {0}
  BY KeepWidthAssumption
<1>2. src \in Frames /\ pos \in Nat /\ IsFrame(src)
  BY FramesAssumption DEF SourceInv, SourceTypeOK
<1>3. /\ src.end \in Nat \ {0}
      /\ src.len \in Nat /\ src.len \in (src.end - KEEP_WIDTH) .. src.end
      /\ src.data \in [0 .. src.end - 1 -> Byte]
      /\ src.user \subseteq 0 .. src.end - 1
  BY <1>2 DEF IsFrame
<1>4. pos + KEEP_WIDTH <= src.end
  <2>1. PICK m \in Nat : pos = m * KEEP_WIDTH
    BY <1>2 DEF SourceInv
  <2>2. PICK n \in Nat : src.end = n * KEEP_WIDTH
    BY <1>2, <1>3 DEF IsFrame
  <2>3. (m + 1) * KEEP_WIDTH <= n * KEEP_WIDTH
    BY <1>1, <2>1, <2>2, MultipleStep DEF SourceInv
  <2>4. (m + 1) * KEEP_WIDTH = pos + KEEP_WIDTH
    BY <1>1, <2>1
  <2> QED
    BY <2>2, <2>3, <2>4
<1>5. Valid \in 0 .. KEEP_WIDTH
  BY <1>1, <1>2, <1>3, <1>4 DEF Valid
<1>6. /\ ~s_axis_tlast => Valid = KEEP_WIDTH /\ pos + KEEP_WIDTH < src.end
      /\ s_axis_tlast => pos + KEEP_WIDTH = src.end /\ pos + Valid = src.len
  <2>1. ASSUME ~s_axis_tlast
        PROVE  Valid = KEEP_WIDTH /\ pos + KEEP_WIDTH < src.end
    <3>1. pos + KEEP_WIDTH < src.end
      BY <1>1, <1>2, <1>3, <1>4, <2>1 DEF s_axis_tlast
    <3>2. pos + KEEP_WIDTH + KEEP_WIDTH <= src.end
      <4>1. PICK m \in Nat : pos = m * KEEP_WIDTH
        BY <1>2 DEF SourceInv
      <4>2. PICK n \in Nat : src.end = n * KEEP_WIDTH
        BY <1>2, <1>3 DEF IsFrame
      <4>3. pos + KEEP_WIDTH = (m + 1) * KEEP_WIDTH
        BY <1>1, <4>1
      <4>4. ((m + 1) + 1) * KEEP_WIDTH <= n * KEEP_WIDTH
        BY <1>1, <3>1, <4>2, <4>3, MultipleStep
      <4>5. ((m + 1) + 1) * KEEP_WIDTH = (m + 1) * KEEP_WIDTH + KEEP_WIDTH
        BY <1>1
      <4> QED
        BY <4>2, <4>3, <4>4, <4>5
    <3> QED
      BY <1>1, <1>2, <1>3, <3>1, <3>2 DEF Valid
  <2>2. ASSUME s_axis_tlast
        PROVE  pos + KEEP_WIDTH = src.end /\ pos + Valid = src.len
    BY <1>1, <1>2, <1>3, <2>2 DEF s_axis_tlast, Valid
  <2> QED
    BY <2>1, <2>2
<1>7. \A i \in Lanes : s_axis_tdata[i] = src.data[pos + i] /\ src.data[pos + i] \in Byte
  BY <1>1, <1>2, <1>3, <1>4 DEF s_axis_tdata, Lanes
<1>8. s_axis_tdata \in Data
  BY <1>7 DEF s_axis_tdata, Data
<1>9. ASSUME s_axis_tlast \/ KEEP_ALWAYS
      PROVE  s_axis_tkeep = keep_for_count(Valid) /\ keep_count(s_axis_tkeep) = Valid
  <2>1. s_axis_tkeep = {i \in Lanes : pos + i < src.len}
    BY <1>9, Zenon DEF s_axis_tkeep
  <2>2. {i \in Lanes : pos + i < src.len} = keep_for_count(Valid)
    <3>1. \A i \in Lanes : pos + i < src.len <=> i < Valid
      BY <1>1, <1>2, <1>3, <1>4 DEF Lanes, Valid
    <3>2. keep_for_count(Valid) \subseteq Lanes
      BY <1>1, <1>5 DEF keep_for_count, Lanes
    <3>3. \A i \in Lanes : i \in keep_for_count(Valid) <=> i < Valid
      BY <1>1, <1>5 DEF keep_for_count, Lanes
    <3> QED
      BY <3>1, <3>2, <3>3, Zenon
  <2>3. Valid \in Nat
    BY <1>1, <1>5
  <2>4. keep_count(keep_for_count(Valid)) = Valid
    BY <2>3, Masks, Zenon
  <2>5. s_axis_tkeep = keep_for_count(Valid)
    BY <2>1, <2>2, Zenon
  <2> QED
    BY <2>4, <2>5, Zenon
<1>10. input_valid_bytes = Valid
  BY <1>6, <1>9 DEF input_valid_bytes
<1> QED
  BY <1>2, <1>3, <1>4, <1>5, <1>6, <1>7, <1>8, <1>9, <1>10

(* No beat lies strictly between two neighbouring multiples. *)
LEMMA BeatStart ==
  ASSUME SourceInv, NEW q \in src.user, q < pos + KEEP_WIDTH
  PROVE  q < pos \/ q = pos
<1>1. KEEP_WIDTH \in Nat \ {0} /\ pos \in Nat /\ IsFrame(src)
  BY KeepWidthAssumption, FramesAssumption DEF SourceInv, SourceTypeOK
<1>2. q \in Nat
  BY <1>1 DEF IsFrame
<1>3. PICK m \in Nat : pos = m * KEEP_WIDTH
  BY <1>1 DEF SourceInv
<1>4. PICK n \in Nat : q = n * KEEP_WIDTH
  <2>1. \A x \in src.user : \E n \in 0 .. x : x = n * KEEP_WIDTH
    BY <1>1, Zenon DEF IsFrame
  <2> QED
    BY <1>2, <2>1
<1>5. SUFFICES ASSUME pos < q PROVE FALSE
  BY <1>1, <1>2
<1>6. (m + 1) * KEEP_WIDTH <= n * KEEP_WIDTH
  BY <1>1, <1>3, <1>4, <1>5, MultipleStep
<1>7. (m + 1) * KEEP_WIDTH = pos + KEEP_WIDTH
  BY <1>1, <1>3
<1> QED
  BY <1>1, <1>2, <1>4, <1>6, <1>7

(* The input handshake leaves the source at the next beat, or between two  *)
(* frames.                                                                 *)
LEMMA HandshakeSource ==
  ASSUME SourceInv, Handshake
  PROVE  /\ SourceInv'
         /\ src' = src /\ cur' = src /\ src \in Frames
         /\ pos' \in Nat /\ s_axis_tvalid' \in BOOLEAN
         /\ pos' = IF s_axis_tlast THEN 0 ELSE pos + KEEP_WIDTH
<1>1. KEEP_WIDTH \in Nat \ {0}
  BY KeepWidthAssumption
<1>2. /\ src' = src /\ cur' = src /\ src \in Frames
      /\ pos' = IF s_axis_tlast THEN 0 ELSE pos + KEEP_WIDTH
      /\ s_axis_tvalid' \in BOOLEAN
  BY DEF Handshake, SourceInv, SourceTypeOK
<1>3. CASE s_axis_tlast
  <2>1. pos' = 0 /\ 0 < src.end
    BY <1>1, <1>2, <1>3, Beat
  <2>2. 0 \in 0 .. pos' /\ pos' = 0 * KEEP_WIDTH
    BY <1>1, <2>1
  <2>3. \E n \in 0 .. pos' : pos' = n * KEEP_WIDTH
    BY <2>2, Zenon
  <2>4. SourceTypeOK' /\ pos' < src'.end /\ ~(pos' > 0)
    BY <1>2, <2>1 DEF SourceTypeOK
  <2>5. SourceInv'
    BY <2>3, <2>4, Zenon DEF SourceInv
  <2> QED
    BY <1>2, <1>3, <2>1, <2>5
<1>4. CASE ~s_axis_tlast
  <2>1. pos' = pos + KEEP_WIDTH /\ pos \in Nat /\ pos' < src.end
    BY <1>1, <1>2, <1>4, Beat
  <2>2. PICK m \in Nat : pos = m * KEEP_WIDTH
    BY <2>1 DEF SourceInv
  <2>3. pos' = (m + 1) * KEEP_WIDTH /\ m + 1 <= pos'
    BY <1>1, <2>1, <2>2
  <2>4. m + 1 \in 0 .. pos'
    BY <1>1, <2>1, <2>3
  <2>5. \E n \in 0 .. pos' : pos' = n * KEEP_WIDTH
    BY <2>3, <2>4, Zenon
  <2>6. SourceTypeOK' /\ pos' < src'.end /\ cur' = src'
    BY <1>1, <1>2, <2>1 DEF SourceTypeOK
  <2>7. SourceInv'
    BY <2>5, <2>6, Zenon DEF SourceInv
  <2> QED
    BY <1>1, <1>2, <1>4, <2>1, <2>7
<1> QED
  BY <1>2, <1>3, <1>4

(* So does a beat that comes on the bus, and the reset. *)
LEMMA OfferSource ==
  ASSUME SourceInv, Offer \/ SourceReset
  PROVE  SourceInv'
<1>1. KEEP_WIDTH \in Nat /\ \A f \in Frames : f.end \in Nat \ {0}
  BY KeepWidthAssumption, FramesAssumption DEF IsFrame
<1>2. CASE Offer
  <2>1. /\ src' \in Frames /\ (pos > 0 => src' = src) /\ s_axis_tvalid' = TRUE
        /\ pos' = pos /\ cur' = cur /\ pos \in Nat /\ cur \in Frames
    BY <1>2 DEF Offer, SourceInv, SourceTypeOK
  <2>2. pos < src'.end
    BY <1>1, <2>1 DEF SourceInv
  <2>3. (pos > 0 => cur = src') /\ \E n \in 0 .. pos : pos = n * KEEP_WIDTH
    BY <2>1 DEF SourceInv
  <2> QED
    BY <2>1, <2>2, <2>3, Zenon DEF SourceInv, SourceTypeOK
<1>3. CASE SourceReset
  <2>1. 0 \in 0 .. 0 /\ 0 = 0 * KEEP_WIDTH
    BY <1>1
  <2>2. /\ src \in Frames /\ cur \in Frames /\ src' = src /\ cur' = cur /\ pos' = 0
        /\ s_axis_tvalid' \in BOOLEAN
    BY <1>3 DEF SourceReset, SourceInv, SourceTypeOK
  <2>3. 0 < src.end
    BY <1>1, <2>2
  <2>4. \E n \in 0 .. pos' : pos' = n * KEEP_WIDTH
    BY <2>1, <2>2, Zenon
  <2>5. SourceTypeOK' /\ pos' < src'.end /\ ~(pos' > 0)
    BY <2>2, <2>3 DEF SourceTypeOK
  <2> QED
    BY <2>4, <2>5, Zenon DEF SourceInv
<1> QED
  BY <1>2, <1>3

------------------------------------------------------------------------------
(* What a sink puts together: n bytes from position from on of what f      *)
(* holds, after the m bytes before them.                                   *)
LEMMA SliceMore ==
  ASSUME NEW f, NEW g, NEW from \in Nat, NEW m \in Nat, NEW n \in Nat,
         \A i \in 0 .. n - 1 : g[i] = f[from + m + i]
  PROVE  [i \in 1 .. m |-> f[from + i - 1]] \o [i \in 1 .. n |-> g[i - 1]]
           = [i \in 1 .. m + n |-> f[from + i - 1]]
<1> DEFINE s == [i \in 1 .. m |-> f[from + i - 1]]
           t == [i \in 1 .. n |-> g[i - 1]]
           u == [i \in 1 .. m + n |-> f[from + i - 1]]
           S == {f[from + i - 1] : i \in 1 .. m + n}
<1>1. \A i \in 1 .. m : i \in 1 .. m + n
  OBVIOUS
<1>2. \A i \in 1 .. n : m + i \in 1 .. m + n /\ g[i - 1] = f[from + (m + i) - 1]
  <2> TAKE i \in 1 .. n
  <2>1. i - 1 \in 0 .. n - 1 /\ from + m + (i - 1) = from + (m + i) - 1
    OBVIOUS
  <2> QED
    BY <2>1
<1>3. s \in [1 .. m -> S] /\ t \in [1 .. n -> S] /\ u \in [1 .. m + n -> S]
  BY <1>1, <1>2
<1>4. s \in Seq(S) /\ t \in Seq(S) /\ u \in Seq(S) /\ Len(s) = m /\ Len(t) = n /\ Len(u) = m + n
  <2>1. \A k \in Nat : \A h \in [1 .. k -> S] : h \in Seq(S) /\ Len(h) = k
    <3> HIDE DEF S
    <3> QED
      OBVIOUS
  <2>2. m + n \in Nat
    OBVIOUS
  <2> HIDE DEF s, t, u, S
  <2> QED
    BY <1>3, <2>1, <2>2
<1>5. \A i \in 1 .. m : s[i] = u[i]
  OBVIOUS
<1>6. \A i \in 1 .. m + n : i > m => t[i - m] = u[i]
  <2> TAKE i \in 1 .. m + n
  <2> SUFFICES ASSUME i > m PROVE t[i - m] = u[i]
    OBVIOUS
  <2>1. i - m \in 1 .. n /\ m + (i - m) = i
    OBVIOUS
  <2> QED
    BY <1>2, <2>1
<1> HIDE DEF s, t, u, S
<1>7. /\ s \o t \in Seq(S) /\ Len(s \o t) = m + n
      /\ \A i \in 1 .. m + n : (s \o t)[i] = IF i <= m THEN s[i] ELSE t[i - m]
  <2>1. /\ s \o t \in Seq(S) /\ Len(s \o t) = Len(s) + Len(t)
        /\ \A i \in 1 .. Len(s) + Len(t) :
             (s \o t)[i] = IF i <= Len(s) THEN s[i] ELSE t[i - Len(s)]
    BY <1>4, ConcatProperties, Zenon
  <2> QED
    BY <1>4, <2>1
<1>8. \A i \in 1 .. m + n : (s \o t)[i] = u[i]
  <2> TAKE i \in 1 .. m + n
  <2>1. CASE i <= m
    BY <1>5, <1>7, <2>1
  <2>2. CASE ~(i <= m)
    BY <1>6, <1>7, <2>2
  <2> QED
    BY <2>1, <2>2
<1>9. s \o t = u
  BY <1>4, <1>7, <1>8, SeqEqual
<1> QED
  BY <1>9 DEF s, t, u

(* No bytes are the empty sequence.                                        *)
LEMMA SliceNone ==
  ASSUME NEW f, NEW from \in Nat
  PROVE  [i \in 1 .. 0 |-> f[from + i - 1]] = << >>
<1> DEFINE s == [i \in 1 .. 0 |-> f[from + i - 1]]
<1>1. s \in [1 .. 0 -> {}]
  OBVIOUS
<1>2. s \in Seq({}) /\ Len(s) = 0
  <2> HIDE DEF s
  <2> QED
    BY <1>1
<1> QED
  BY <1>2, EmptySeq
==============================================================================
