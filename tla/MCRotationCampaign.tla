------------------------- MODULE MCRotationCampaign -------------------------
(***************************************************************************)
(* Instances of RotationCampaign for TLC.                                  *)
(***************************************************************************)
EXTENDS RotationCampaign

CONSTANTS e1, e2
=============================================================================
