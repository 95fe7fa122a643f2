------------------------------ MODULE MessagePlan ------------------------------
(***************************************************************************)
(* What the generator derives from a MultiMessageProtocol: the header of a *)
(* frame says how many messages follow it, and each message is a           *)
(* sub-header, one field of which is the length of the body behind it.     *)
(***************************************************************************)
EXTENDS GenerationPlan

CONSTANTS
  message_count_field,  \* name of a field of the header
  SUB_HEADER_BYTES,     \* total_length of the sub-protocol
  SubFields,            \* name |-> [offset, length], both in bytes
  length_field          \* name of a field of the sub-header

SubOffsets == 0 .. SUB_HEADER_BYTES - 1
SubBytes   == UNION {SubFields[f].offset .. SubFields[f].offset + SubFields[f].length - 1 :
                       f \in DOMAIN SubFields}

MsgCount(hdr) == FieldValue(hdr, message_count_field)
MsgLen(sub)   == BigEndian(sub, SubFields[length_field])

HeaderOf(f)         == [p \in HeaderBytes |-> f.data[p]]
SubHeader(f, start) == [o \in SubBytes |-> f.data[start + o]]
BodyOf(f, start)    == start + SUB_HEADER_BYTES
NextStart(f, start) == BodyOf(f, start) + MsgLen(SubHeader(f, start))

(* Where the first n messages of a frame start, each behind the one before *)
(* it, if the frame has so many.                                           *)
Starts(f, n) ==
  {at \in [1 .. n -> TOTAL_LENGTH .. f.len] :
     /\ at[1] = TOTAL_LENGTH
     /\ \A i \in 2 .. n : BodyOf(f, at[i - 1]) <= f.len /\ at[i] = NextStart(f, at[i - 1])}

(* A frame that ends, with a beat that has bytes in it, where its first    *)
(* message should begin or right behind a sub-header that announces a      *)
(* body.  The parsers do not look whether the frame ends there.            *)
StopsAt(f, p) == f.len = p /\ f.len + KEEP_WIDTH # f.end
EndsUnnoticed(f) ==
  f.len >= TOTAL_LENGTH /\
    \E n \in 1 .. MsgCount(HeaderOf(f)) : \E at \in Starts(f, n) :
      \/ StopsAt(f, TOTAL_LENGTH)
      \/ StopsAt(f, BodyOf(f, at[n])) /\ MsgLen(SubHeader(f, at[n])) # 0
FramesEnd == \A f \in Frames : ~EndsUnnoticed(f)

ASSUME MessagePlanAssumption ==
  /\ SUB_HEADER_BYTES \in Nat \ {0}
  /\ message_count_field \in DOMAIN Fields
  /\ \A f \in DOMAIN Fields : Fields[f].offset \in Nat /\ Fields[f].length \in Nat
  /\ \A f \in DOMAIN SubFields : SubFields[f].offset \in Nat /\ SubFields[f].length \in Nat
  /\ length_field \in DOMAIN SubFields
  /\ SubBytes \subseteq SubOffsets
==============================================================================
