----------------------------- MODULE MCSideband ------------------------------
(***************************************************************************)
(* The sideband parser with its sink, for a small plan and the frames sent *)
(* to it.  The header has a one-byte field at offset 0, captured in a      *)
(* register (unless the header is one beat), and one on its last byte,     *)
(* which the final beat bypasses.  It ends inside a beat or with one.      *)
(***************************************************************************)
EXTENDS SidebandFrames

CONSTANTS
  LENGTHS,      \* lengths of the frames whose header is acceptable
  BAD_LENGTHS   \* lengths of those that have something else about them

MCFields ==
  [kind |-> [offset |-> 0, length |-> 1],
   port |-> [offset |-> TOTAL_LENGTH - 1, length |-> 1]]

MCDropConditions ==
  {[name |-> "kind_mismatch", field |-> "kind", kind |-> "DropOnMismatch",
    expected |-> 8, mask |-> 255],
   [name |-> "port_register_match", field |-> "port", kind |-> "DropOnRegisterMatch",
    register |-> "cfg_port", mask |-> 255]}

MCRouteConditions ==
  << [field |-> "port", kind |-> "RouteByRange", min |-> 1, max |-> 2, dest |-> 1],
     [field |-> "port", kind |-> "RouteByValue", value |-> 2, dest |-> 2] >>

MCConfigDefault == [cfg_port |-> 0]
MCConfigValues  == {[cfg_port |-> 1]}

(* A frame of n bytes: kind and port in its header, bytes told apart by    *)
(* their position and by port elsewhere, 255 on the lanes past its end.    *)
EndOf(n, null) == (((n + KEEP_WIDTH - 1) \div KEEP_WIDTH) + (IF null THEN 1 ELSE 0)) * KEEP_WIDTH
MCFrame(n, kind, port, users, null) ==
  [len  |-> n,
   end  |-> EndOf(n, null),
   user |-> users,
   data |-> [p \in 0 .. EndOf(n, null) - 1 |->
               CASE p >= n               -> 255
                 [] p = 0                -> kind
                 [] p = TOTAL_LENGTH - 1 -> port
                 [] OTHER                -> 100 * port + p + 1]]

AllFrames ==
       {MCFrame(n, 8, 2, {}, FALSE) : n \in LENGTHS}
  \cup {MCFrame(n, 8, 1, {EndOf(n, FALSE) - KEEP_WIDTH}, FALSE) : n \in BAD_LENGTHS}
  \cup {MCFrame(n, 8, 2, {0}, FALSE) : n \in BAD_LENGTHS}
  \cup {MCFrame(n, 9, 0, {}, FALSE) : n \in BAD_LENGTHS}
  \cup {MCFrame(n, 8, 2, {}, TRUE) : n \in {m \in LENGTHS : m % KEEP_WIDTH = 0}}

(* TLC evaluates AllFrames once, MCFrames whenever it takes Frames.        *)
MCFrames == AllFrames

------------------------------------------------------------------------------
(* The quick-start protocol of README.md: on a 32-bit stream, the two      *)
(* bytes of ethertype at offset 12 are the only field of a header of 34    *)
(* bytes.  One acceptable frame with six bytes of payload.                 *)

ReadmeFields == [ethertype |-> [offset |-> 12, length |-> 2]]

ReadmeDropConditions ==
  {[name |-> "non_ipv4_drop_count", field |-> "ethertype", kind |-> "DropOnMismatch",
    expected |-> 2048, mask |-> 65535]}

ReadmeFrames ==
  {[len  |-> 40,
    end  |-> 40,
    user |-> {},
    data |-> [p \in 0 .. 39 |-> IF p = 12 THEN 8 ELSE IF p = 13 THEN 0 ELSE p + 1]]}

NoRoutes == << >>
NoConfig == [cfg |-> 0]
==============================================================================
