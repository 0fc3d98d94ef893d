---------------------------- MODULE HelperReplies ----------------------------
(***************************************************************************)
(* What the privileged Helper answers to an action request: the responses  *)
(* of cmd/witshield-helper/main.go with the receipts of the engine         *)
(* (internal/action/engine.go), as the submissions the Agent makes of them.*)
(* One attempt is one device command; its job never changes.               *)
(***************************************************************************)
EXTENDS ReceiptValidation

CONSTANT Attempts   \* command identities

ASSUME BytesAssumption == ResultIds # {}

Operations == CommandTypes \ {"scan"}
Job        == [attempt : Attempts, op : Operations, kind : ActionKinds]

(* How an engine run ends.                                                 *)
Endings == {"proved", "refused", "undone", "undo_failed", "apply_failed", "op_failed"}

Bytes == CHOOSE r \in ResultIds : TRUE

(* A response without a receipt: nothing reached the engine ...            *)
Refused ==
  [id |-> Bytes, ok |-> FALSE, error |-> "other", matches |-> FALSE, success |-> FALSE,
   unknown |-> FALSE, steps |-> "invalid", pending |-> "absent", deadline |-> "none",
   state |-> "none", binds |-> "none"]
(* ... or an earlier run of the attempt did and never finished.            *)
Interrupted == [Refused EXCEPT !.error = "indeterminate"]

(* The receipt of a run.  An SSH change reports whether its confirmation   *)
(* window is open.  State survives only a proven or an unfinished change.  *)
Receipt(job, ending, pending) ==
  LET proved == ending = "proved"
      keeps  == job.op = "execute" /\ ending \in {"proved", "undo_failed"}
      ssh    == keeps /\ job.kind = "ssh_hardening"
  IN [ id       |-> Bytes,
       ok       |-> proved,
       error    |-> IF proved THEN "none" ELSE "other",
       matches  |-> TRUE,
       success  |-> proved,
       unknown  |-> ending \in {"undo_failed", "apply_failed", "op_failed"},
       steps    |-> IF proved THEN "complete"
                    ELSE IF ending \in StepShapes THEN ending ELSE "invalid",
       pending  |-> IF ~ssh THEN "absent" ELSE IF pending THEN "yes" ELSE "no",
       deadline |-> IF ssh /\ pending THEN "ahead" ELSE "none",
       state    |-> IF keeps THEN "valid" ELSE "none",
       binds    |-> IF keeps THEN "match" ELSE "none" ]

(* The response when the receipt could not be saved.                       *)
\* Fault: what could not be saved is answered without the receipt.
UnsavedRefused(r) == Refused
Unsaved(r) == [r EXCEPT !.ok = FALSE, !.error = IF r.success THEN "persistence" ELSE "other"]

EndingsOf(op) ==
  {"proved", "refused"} \cup
    (IF op = "execute" THEN {"undone", "undo_failed", "apply_failed"} ELSE {"op_failed"})

Receipts(job) ==
  {Receipt(job, ending, pending) : ending \in EndingsOf(job.op),
                                   pending \in {p \in BOOLEAN : p => job.kind = "ssh_hardening"}}

Replies(job) ==
  {Refused, Interrupted} \cup Receipts(job) \cup {Unsaved(r) : r \in Receipts(job)}

=============================================================================
