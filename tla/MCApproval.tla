----------------------------- MODULE MCApproval -----------------------------
(* Instances of Approval for TLC: the constants are given in the .cfg.     *)
EXTENDS Approval

CONSTANT Other   (* one of the workflows, of which fewer cases are seen    *)

(* The other workflow plans one task or none; a second fault comes when it *)
(* was answered without a plan, and has no part in the conversation.       *)
MCBound ==
  /\ tasks[Other] <= 1
  /\ faults > 1 => /\ Other \notin linked
                   /\ planRows[Other] = {}
                   /\ respondState[Other] = "completed"
=============================================================================
