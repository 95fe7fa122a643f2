------------------------------ MODULE FrameFilter ------------------------------
(***************************************************************************)
(* What a sideband parser promises: a frame that passes is delivered, once *)
(* and whole: the bytes after the header, an error mark if the source      *)
(* flagged any beat of it, and the destination its header asks for.  A     *)
(* frame shorter than the header leaves no trace.  A frame that is all     *)
(* header is delivered, empty, only if an empty beat follows the header.   *)
(***************************************************************************)
EXTENDS FrameIntake

VARIABLES
  tdest,        \* the destination of a frame being delivered, 0 otherwise
  delivered     \* the frame delivered last

vars == <<intake, tdest, delivered>>

Init ==
  /\ IntakeInit
  /\ tdest = 0
  /\ delivered = Nothing

Admit(f) ==
  /\ Pass(f)
  /\ phase' = "payload"
  /\ tdest' = RouteOf(Header(f), cfg)
  /\ UNCHANGED delivered

HeaderOnly(f) ==
  /\ Pass(f)
  /\ f.len = TOTAL_LENGTH
  /\ phase' = "idle"
  /\ UNCHANGED <<tdest, delivered>>

Deliver ==
  /\ phase = "payload"
  /\ phase' = "idle"
  /\ tdest' = 0
  /\ delivered' = [payload |-> Slice(frame, TOTAL_LENGTH, frame.len - TOTAL_LENGTH),
                   error |-> frame.user # {}, tdest |-> tdest]
  /\ Configure
  /\ UNCHANGED <<frame, counts>>

Discard == Discarded /\ UNCHANGED <<tdest, delivered>>

Next ==
  \/ Reconfigure /\ UNCHANGED <<tdest, delivered>>
  \/ Deliver \/ Discard
  \/ \E f \in Frames :
       \/ (Begin(f) \/ TooShort(f) \/ Reject(f)) /\ UNCHANGED <<tdest, delivered>>
       \/ Admit(f) \/ HeaderOnly(f)
  \/ IntakeReset /\ tdest' = 0 /\ UNCHANGED delivered

(* A frame admitted is delivered and one rejected is got rid of. *)
Fairness == WF_vars(Deliver) /\ WF_vars(Discard)

Safety == Init /\ [][Next]_vars
Spec   == Safety /\ Fairness
==============================================================================
