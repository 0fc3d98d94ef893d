--------------------------- MODULE MCActionLifecycle ---------------------------
(* Instances of ActionLifecycle: what the device may submit, and symmetry. *)
EXTENDS ActionLifecycle, TLC

CONSTANTS r1

ResultSet == {r1}

(* A receipt that proves every step, as a current Helper returns it.       *)
Proof == [id |-> r1, ok |-> TRUE, error |-> "none", matches |-> TRUE, success |-> TRUE,
          unknown |-> FALSE, steps |-> "complete", pending |-> "absent",
          deadline |-> "none", state |-> "valid", binds |-> "match"]
Refusal == [Proof EXCEPT !.ok = FALSE, !.error = "other", !.matches = FALSE,
            !.success = FALSE, !.steps = "invalid", !.state = "none", !.binds = "none"]

Executed   == Proof
SSHChanged == [Proof EXCEPT !.pending = "yes", !.deadline = "ahead"]
Undone     == [Proof EXCEPT !.state = "none", !.binds = "none"]
NoAnswer   == [Refusal EXCEPT !.error = "indeterminate"]
Recovered  == [SSHChanged EXCEPT !.ok = FALSE, !.error = "persistence"]
UndoFailed == [Proof EXCEPT !.ok = FALSE, !.error = "other", !.success = FALSE,
               !.unknown = TRUE, !.steps = "undo_failed"]
OpFailed   == [UndoFailed EXCEPT !.steps = "op_failed", !.state = "none", !.binds = "none"]
(* A Helper of a version without the hold on a suspension it reports.        *)
OldHelper  == [Proof EXCEPT !.deadline = "past"]

AdminResults  == {Executed, SSHChanged, Undone, NoAnswer, Refusal, UndoFailed}
BanResults    == {Executed, Undone, NoAnswer, Refusal, OpFailed}
MixedResults  == {Executed, Recovered, OldHelper, Undone, NoAnswer, Refusal}

AdminKinds == {"ssh_hardening"}
BanKinds   == {"ip_ban"}
AllKinds   == {"ssh_hardening", "ip_ban", "process_suspend"}

Symmetry == Permutations(Actions) \cup Permutations(Cmds)
=============================================================================
