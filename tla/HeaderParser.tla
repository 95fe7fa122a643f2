----------------------------- MODULE HeaderParser -----------------------------
(***************************************************************************)
(* What the emitted parsers with a fixed header have in common: the        *)
(* registers that capture its fields, the checks made on its last beat,    *)
(* the configuration registers and the drop counters.                      *)
(***************************************************************************)
EXTENDS GenerationPlan, StreamSource

CONSTANT COUNTER_MOD    \* counters wrap here: 2^32 in the emitted modules

ASSUME CounterAssumption == COUNTER_MOD \in Nat \ {0}

VARIABLES
  beat_count,
  field_reg,      \* the field registers, byte by byte
  cfg_reg,
  drop_count      \* one counter per drop condition

(* Fault: the bytes on the bus are not captured, or not bypassed. *)
StaleFields == field_reg

(* The registers with the bytes of this beat captured: all of them at the  *)
(* edge, and those the final beat bypasses for the checks made on it.      *)
Captured ==
  [p \in HeaderBytes |-> IF beat_of(p) = beat_count THEN s_axis_tdata[byte_in_beat(p)]
                                                    ELSE field_reg[p]]
Bypassed ==
  [p \in HeaderBytes |-> IF beat_of(p) = PARSE_FINAL_BEAT THEN s_axis_tdata[byte_in_beat(p)]
                                                          ELSE field_reg[p]]
drops_now == DropsOf(Bypassed, cfg_reg)

(* Fault: a counter is wider than its port. *)
CountUnbounded ==
  drop_count' = [c \in DropConditions |->
                   IF c \in drops_now THEN drop_count[c] + 1 ELSE drop_count[c]]

CountDrops ==
  drop_count' = [c \in DropConditions |->
                   IF c \in drops_now THEN (drop_count[c] + 1) % COUNTER_MOD ELSE drop_count[c]]

(* The configuration ports are loaded while config_valid is high. *)
ConfigEdge == cfg_reg' \in {cfg_reg} \cup ConfigValues

HeaderInit ==
  /\ beat_count = 0
  /\ field_reg = [p \in HeaderBytes |-> 0]
  /\ cfg_reg = CONFIG_DEFAULT
  /\ drop_count = [c \in DropConditions |-> 0]

HeaderReset ==
  /\ beat_count' = 0
  /\ field_reg' = [p \in HeaderBytes |-> 0]
  /\ cfg_reg' = CONFIG_DEFAULT
  /\ drop_count' = [c \in DropConditions |-> 0]

HeaderTypeOK ==
  /\ beat_count \in 0 .. PARSE_FINAL_BEAT
  /\ field_reg \in [HeaderBytes -> Byte]
  /\ cfg_reg \in ConfigValues \cup {CONFIG_DEFAULT}
  /\ drop_count \in [DropConditions -> 0 .. COUNTER_MOD - 1]
==============================================================================
