---------------------------- MODULE GenerationPlan ----------------------------
(***************************************************************************)
(* What the generator derives from a protocol before it renders a module:  *)
(* where its fields lie on the bus and the drop and route conditions their *)
(* actions become.                                                         *)
(*                                                                         *)
(* Field registers are modelled byte by byte: a register bank is a         *)
(* function from the header offsets some field covers to bytes.            *)
(***************************************************************************)
EXTENDS AxiStream

CONSTANTS
  TOTAL_LENGTH,     \* header bytes: total_length of the protocol
  Fields,           \* name |-> [offset, length], both in bytes
  DropConditions,   \* records [name, field, kind, ...], one per Drop action
  RouteConditions,  \* sequence of records [field, kind, dest, ...]
  DEFAULT_TDEST,
  ConfigValues,     \* values the configuration ports may carry
  CONFIG_DEFAULT    \* register values after reset

FieldBytes(f) == Fields[f].offset .. Fields[f].offset + Fields[f].length - 1
HeaderBytes   == UNION {FieldBytes(f) : f \in DOMAIN Fields}

(* Fault: a header that ends with a beat leaves its payload at lane 0. *)
StartModulo        == TOTAL_LENGTH % KEEP_WIDTH

PARSE_BEATS        == beat_of(Max(HeaderBytes)) + 1
PARSE_FINAL_BEAT   == PARSE_BEATS - 1
PAYLOAD_START_BYTE == ((TOTAL_LENGTH - 1) % KEEP_WIDTH) + 1
TAIL_BYTES         == KEEP_WIDTH - PAYLOAD_START_BYTE

(* The bits two numbers have in common. *)
BitAnd(x, y) ==
  LET and[a \in 0 .. x, b \in 0 .. y] ==
        IF a = 0 \/ b = 0 THEN 0
        ELSE (a % 2) * (b % 2) + 2 * and[a \div 2, b \div 2]
  IN  and[x, y]

(* The number in a field of a header. *)
FieldValue(hdr, f) == BigEndian(hdr, Fields[f])

(* A missing mask is the mask of all the field's bits. *)
drop_expression(c, hdr, cfg) ==
  LET v == FieldValue(hdr, c.field)
  IN  \/ c.kind = "DropOnMismatch" /\ BitAnd(v, c.mask) # BitAnd(c.expected, c.mask)
      \/ c.kind = "DropOnFlag" /\ BitAnd(v, c.mask) # 0
      \/ c.kind = "DropOnRange" /\ (v < c.min \/ v > c.max)
      \/ c.kind = "DropOnRegisterMatch" /\ BitAnd(v, c.mask) = BitAnd(cfg[c.register], c.mask)
      \/ /\ c.kind \in {"DropOnRegisterMismatch", "DropOnRegisterFlagMismatch"}
         /\ BitAnd(v, c.mask) # BitAnd(cfg[c.register], c.mask)
      \/ c.kind = "DropOnRegisterRange" /\ (v < cfg[c.min] \/ v > cfg[c.max])

route_condition(c, hdr, cfg) ==
  LET v == FieldValue(hdr, c.field)
  IN  \/ c.kind = "RouteByValue" /\ v = c.value
      \/ c.kind = "RouteByRange" /\ v \in c.min .. c.max
      \/ c.kind = "RouteByRegister" /\ BitAnd(v, c.mask) = BitAnd(cfg[c.register], c.mask)
      \/ c.kind = "RouteByRegistersRange" /\ v \in cfg[c.min] .. cfg[c.max]

(* The conditions that hold, and the last route that matches. *)
DropsOf(hdr, cfg) == {c \in DropConditions : drop_expression(c, hdr, cfg)}
RouteOf(hdr, cfg) ==
  LET matches == {i \in DOMAIN RouteConditions : route_condition(RouteConditions[i], hdr, cfg)}
  IN  IF matches = {} THEN DEFAULT_TDEST ELSE RouteConditions[Max(matches)].dest

ASSUME PlanAssumption ==
  /\ TOTAL_LENGTH \in Nat \ {0}
  /\ HeaderBytes # {} /\ HeaderBytes \subseteq 0 .. TOTAL_LENGTH - 1
  /\ DEFAULT_TDEST \in Nat
  /\ \A i \in DOMAIN RouteConditions : RouteConditions[i].dest \in Nat
==============================================================================
