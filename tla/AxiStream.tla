------------------------------ MODULE AxiStream ------------------------------
(***************************************************************************)
(* The bus.  A beat carries KEEP_WIDTH byte lanes: tdata is a function     *)
(* from lanes to bytes, tkeep the set of its valid lanes, tlast and tuser  *)
(* are Booleans.  Lane 0 carries the first byte of the beat.               *)
(*                                                                         *)
(* A frame is what one tlast delimits: the contents of all its lanes       *)
(* (data, which goes past the frame's length up to the end of its last     *)
(* beat: the lanes tkeep does not select carry something too), its length, *)
(* the position just after its last beat, and the beats, named by the      *)
(* position of their first byte, on which the source raises tuser.  Its    *)
(* last beat may carry no byte at all: len = end - KEEP_WIDTH.             *)
(***************************************************************************)
EXTENDS Integers, FiniteSetsExt

CONSTANTS
  KEEP_WIDTH,   \* byte lanes of the bus: data_width / 8
  Frames        \* the frames the source may send

Byte  == 0 .. 255
Lanes == 0 .. KEEP_WIDTH - 1
Data  == [Lanes -> Byte]

IsFrame(f) ==
  /\ f.len \in Nat
  /\ f.end \in Nat \ {0} /\ \E n \in 0 .. f.end : f.end = n * KEEP_WIDTH
  /\ f.len \in (f.end - KEEP_WIDTH) .. f.end
  /\ f.data \in [0 .. f.end - 1 -> Byte]
  /\ f.user \subseteq 0 .. f.end - 1
  /\ \A q \in f.user : \E n \in 0 .. q : q = n * KEEP_WIDTH

ASSUME KeepWidthAssumption == KEEP_WIDTH \in Nat \ {0}
ASSUME FramesAssumption == Frames # {} /\ \A f \in Frames : IsFrame(f)

(* The number of valid lanes, and the dense mask of the first n lanes. *)
keep_count(keep)  == Cardinality(keep)
keep_for_count(n) == 0 .. n - 1

(* Byte-wise shifts of a beat: zero bytes come in at the open end. *)
ShiftRight(data, n) == [i \in Lanes |-> IF i + n \in Lanes THEN data[i + n] ELSE 0]
ShiftLeft(data, n)  == [i \in Lanes |-> IF i >= n THEN data[i - n] ELSE 0]
ShiftLeftKeep(keep, n) == {i \in Lanes : i - n \in keep}

(***************************************************************************)
(* The bitwise or of two beats whose set lanes are expected to be          *)
(* disjoint.  Where they are not the result is no byte of any frame, which *)
(* 256, a value that is no byte at all, stands for.                        *)
(***************************************************************************)
Or(a, b) == [i \in Lanes |-> IF a[i] = 0 THEN b[i] ELSE IF b[i] = 0 THEN a[i] ELSE 256]
NoData   == [i \in Lanes |-> 0]

------------------------------------------------------------------------------
(* Where the bytes of a header lie on the bus, and the numbers they hold. *)

beat_of(byte)      == byte \div KEEP_WIDTH
byte_in_beat(byte) == byte % KEEP_WIDTH

(* The number a field's register holds: the field's bytes among those of a *)
(* header, most significant first.                                         *)
BigEndian(hdr, field) ==
  LET value[n \in 0 .. field.length] ==
        IF n = 0 THEN 0 ELSE 256 * value[n - 1] + hdr[field.offset + n - 1]
  IN  value[field.length]
==============================================================================
