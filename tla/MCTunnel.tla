------------------------------ MODULE MCTunnel ------------------------------
(***************************************************************************)
(* Instances of Tunnel for TLC.                                            *)
(***************************************************************************)
EXTENDS Tunnel

CONSTANTS c1, c2, d1, d2, x1, x2, x3
=============================================================================
