--------------------------- MODULE MCApprovalFlow ---------------------------
(***************************************************************************)
(* Instances of ApprovalFlow for TLC: an approver, an admin and a security *)
(* operator, who is the requester.                                         *)
(***************************************************************************)
EXTENDS ApprovalFlow, TLC

CONSTANTS ann, bob, eve, h1, h2

Roles == [u \in Users |-> CASE u = ann -> "approver"
                            [] u = bob -> "admin"
                            [] u = eve -> "security_operator"]

\* Slots are alike.
Slots == Permutations(Handlers)
=============================================================================
