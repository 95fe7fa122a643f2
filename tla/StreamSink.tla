------------------------------ MODULE StreamSink ------------------------------
(***************************************************************************)
(* What takes the beats of an output port: a sink that puts the bytes on   *)
(* their valid lanes together, and has a frame when it sees tlast.         *)
(***************************************************************************)
EXTENDS AxiStream, Sequences

VARIABLES
  received,    \* bytes of the output frame that is still open
  delivered    \* the output frame completed last

sink == <<received, delivered>>

Nothing == [payload |-> << >>, error |-> FALSE, tdest |-> 0]

SinkInit == received = << >> /\ delivered = Nothing

(* A beat: its valid lanes, lowest first, end the bytes received so far. *)
Take(tdata, tkeep, tlast, tuser, tdest) ==
  LET bytes == received \o [i \in 1 .. keep_count(tkeep) |-> tdata[i - 1]]
  IN  IF tlast
      THEN /\ received' = << >>
           /\ delivered' = [payload |-> bytes, error |-> tuser, tdest |-> tdest]
      ELSE /\ received' = bytes
           /\ UNCHANGED delivered

(* A reset loses an output frame that is open. *)
SinkReset == received' = << >> /\ UNCHANGED delivered
==============================================================================
