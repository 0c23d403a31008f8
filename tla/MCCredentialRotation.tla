----------------------- MODULE MCCredentialRotation -----------------------
(***************************************************************************)
(* An instance of CredentialRotation for TLC.                              *)
(***************************************************************************)
EXTENDS CredentialRotation

CONSTANTS e1, e2
=============================================================================
