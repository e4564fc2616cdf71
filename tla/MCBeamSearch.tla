---------------------------- MODULE MCBeamSearch ----------------------------
(* The beam search by itself, on plans that are all right and on others. *)
EXTENDS CTCBeamSearch, BeamPlans
=============================================================================
