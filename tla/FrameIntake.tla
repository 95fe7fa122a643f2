------------------------------ MODULE FrameIntake ------------------------------
(***************************************************************************)
(* What every emitted parser promises of the frames it takes in, without a *)
(* bus.  Frames come one at a time.  When its header is complete a frame   *)
(* is judged, once, by the configuration of that moment: it is counted     *)
(* under every drop condition it meets, and discarded if it meets one.     *)
(***************************************************************************)
EXTENDS GenerationPlan, Sequences

CONSTANT COUNTER_MOD

VARIABLES
  phase,        \* of the frame in hand
  frame,        \* the frame in hand, or the last one
  cfg, counts

intake == <<phase, frame, cfg, counts>>

Header(f)         == [p \in HeaderBytes |-> f.data[p]]
Slice(f, from, n) == [i \in 1 .. n |-> f.data[from + i - 1]]
Nothing           == [payload |-> << >>, error |-> FALSE, tdest |-> 0]

IntakeInit ==
  /\ phase = "idle"
  /\ frame \in Frames
  /\ cfg = CONFIG_DEFAULT
  /\ counts = [c \in DropConditions |-> 0]

Configure == cfg' \in {cfg} \cup ConfigValues

(* A frame in hand whose header is not complete yet, or a new one that     *)
(* arrives with its whole header.                                          *)
Candidate(f) ==
  /\ (phase = "idle" /\ f \in Frames) \/ (phase = "header" /\ f = frame)
  /\ frame' = f
  /\ Configure

Begin(f) ==
  /\ Candidate(f)
  /\ phase = "idle"
  /\ phase' = "header"
  /\ UNCHANGED counts

TooShort(f) ==
  /\ Candidate(f)
  /\ f.len < TOTAL_LENGTH
  /\ phase' = "idle"
  /\ UNCHANGED counts

Reject(f) ==
  /\ Candidate(f)
  /\ f.len >= TOTAL_LENGTH
  /\ DropsOf(Header(f), cfg) # {}
  /\ counts' = [c \in DropConditions |->
                  IF c \in DropsOf(Header(f), cfg) THEN (counts[c] + 1) % COUNTER_MOD ELSE counts[c]]
  /\ phase' \in {"idle", "discard"}

Pass(f) ==
  /\ Candidate(f)
  /\ f.len >= TOTAL_LENGTH
  /\ DropsOf(Header(f), cfg) = {}
  /\ UNCHANGED counts

Discarded ==
  /\ phase = "discard"
  /\ phase' = "idle"
  /\ Configure
  /\ UNCHANGED <<frame, counts>>

(* An edge that moves no frame on. *)
Reconfigure ==
  /\ Configure
  /\ UNCHANGED <<phase, frame, counts>>

IntakeReset ==
  /\ phase' = "idle"
  /\ cfg' = CONFIG_DEFAULT
  /\ counts' = [c \in DropConditions |-> 0]
  /\ UNCHANGED frame
==============================================================================
