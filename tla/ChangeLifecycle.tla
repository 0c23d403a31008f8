--------------------------- MODULE ChangeLifecycle ---------------------------
(***************************************************************************)
(* What the rest of the system may rely on about a change request that has *)
(* been approved: the promise of the execution component, without its      *)
(* coroutines, runs and processes.                                         *)
(*                                                                         *)
(* An approved CR is either begun or rejected, and never becomes approved  *)
(* again; a CR in flight does not stay there: it is settled, or abandoned  *)
(* by an exception that no workflow handles.  The row of an abandoned CR   *)
(* still shows executing or verifying.  Nothing is promised about when an  *)
(* approved CR is begun, when an abandoned one is scrubbed, nor that a     *)
(* settled one is left alone: it may be rolled back, or started again.     *)
(*                                                                         *)
(* ChangeExecution implements this specification; RunbookExecution is      *)
(* built on it.                                                            *)
(***************************************************************************)
CONSTANT CRs

VARIABLE status   \* status[c]: change_requests.status, or "abandoned"

InFlight == {"executing", "verifying"}
Settled  == {"completed", "failed", "paused", "rejected", "rolled_back",
             "rollback_partial", "rollback_failed"}
Status   == {"approved", "abandoned"} \cup InFlight \cup Settled

Init == status = [c \in CRs |-> "approved"]

\* What may happen to the status of one CR.
MayBecome(from, to) ==
  /\ to \in Status \ {"approved"}
  /\ from = "approved" => to \in {"executing", "rejected"}

\* A step changes the status of any number of CRs (the scrub of a restarting
\* process takes all that are in flight).
Next ==
  /\ status' \in [CRs -> Status]
  /\ \A c \in CRs : status'[c] # status[c] => MayBecome(status[c], status'[c])

Spec == Init /\ [][Next]_status

Settle(c) == Next /\ status[c] \in InFlight /\ status'[c] \notin InFlight

FairSpec == Spec /\ \A c \in CRs : WF_status(Settle(c))
=============================================================================
