------------------------------ MODULE VariantBeats -----------------------------
(***************************************************************************)
(* The beats of a message that fills a frame, as the discriminated parser  *)
(* counts them.                                                            *)
(***************************************************************************)
EXTENDS VariantPlan

discriminator_beat == beat_of(CommonFields[discriminator].offset)
PARSE_BEATS        == (max_length + KEEP_WIDTH - 1) \div KEEP_WIDTH
PARSE_FINAL_BEAT   == PARSE_BEATS - 1

(***************************************************************************)
(* The generator rejects a discriminator that does not lie in one beat.    *)
(* The second line it does not check: bytes on beats before the            *)
(* discriminator's are captured by the register, which then holds the      *)
(* discriminator of an earlier message, so a field with several places     *)
(* must not lie there.                                                     *)
(***************************************************************************)
ASSUME VariantBeatsAssumption ==
  /\ beat_of(Ends(CommonFields[discriminator]) - 1) = discriminator_beat
  /\ \A f \in FieldNames : \A at \in Locations(f) :
       Cardinality(Locations(f)) > 1 => beat_of(at.offset) >= discriminator_beat
==============================================================================
