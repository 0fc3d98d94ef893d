-------------------------- MODULE ReceiptValidation --------------------------
(***************************************************************************)
(* How the Controller turns the signed result an Agent submits for an      *)
(* action command into the outcome it records: the pure part of            *)
(* CompleteCommandAndActionWithOutcome (internal/store/action_results.go). *)
(*                                                                         *)
(* A submission keeps only what the validation tells apart.  Times are     *)
(* classified against the Controller's clock at the moment of arrival,     *)
(* digests by whether they bind the bytes submitted with them, and the     *)
(* list of Helper steps by the shapes the validators accept.               *)
(*                                                                         *)
(* A definition marked "Fault" is a plausible mistake in the code modelled *)
(* by the definition after it; no specification uses it.                   *)
(***************************************************************************)

CONSTANT
  ResultIds     \* payload bytes no rule reads (details, step times, report id)

CommandTypes == {"scan", "execute", "rollback", "confirm"}

(* "other" stands for package_security_upgrade and file_permission_repair, *)
(* which no branch of the Controller distinguishes.                        *)
ActionKinds == {"ssh_hardening", "ip_ban", "process_suspend", "other"}

(* The step lists of a receipt.  "complete": every step the command type   *)
(* requires, all successful.  "undo_failed": Apply happened, then Verify   *)
(* (or Apply) and the automatic Rollback failed.  "apply_failed": Apply    *)
(* failed and nothing could be undone.  "op_failed": the single rollback   *)
(* or confirm step failed.                                                 *)
StepShapes == {"complete", "undo_failed", "apply_failed", "op_failed", "invalid"}

Submission ==
  [ id       : ResultIds,
    ok       : BOOLEAN,        \* what the Agent claims
    error    : {"none", "indeterminate", "persistence", "other"},
    matches  : BOOLEAN,        \* a receipt for this action, type, operation, parameters
    success  : BOOLEAN,
    unknown  : BOOLEAN,        \* receipt.indeterminate
    steps    : StepShapes,
    pending  : {"absent", "yes", "no"},             \* confirmationPending
    deadline : {"none", "past", "ahead", "beyond"}, \* receipt.confirmBy
    state    : {"none", "valid", "malformed"},      \* rollbackPayload
    binds    : {"none", "match", "other"} ]         \* receipt.rollbackStateDigest

(* The completion digest binds every signed field.  A deadline is an       *)
(* absolute time: its class changes while a copy waits in the Agent's      *)
(* queue, its bytes do not.                                                *)
Digest(s) == [s EXCEPT !.deadline = IF s.deadline = "none" THEN "none" ELSE "ahead"]

(* A receipt that proves every step of the command for this very action.   *)
ProvesSuccess(s) == s.matches /\ s.success /\ ~s.unknown /\ s.steps = "complete"

BoundState(s) == s.state = "valid" /\ s.binds = "match"

(* A deadline must accompany a pending SSH change, and only that.          *)
SSHDeadlineAgrees(s)  == s.pending # "absent" /\ (s.pending = "yes" <=> s.deadline # "none")

(* The deadline lies between now and now + 15 minutes.                     *)
\* Fault: the comparison is the wrong way round.
DeadlinePassed(s) == s.deadline = "past"
DeadlineOpen(s)   == s.deadline = "ahead"

(* Old Helpers suspended a process without a local resume journal and sent *)
(* a Controller-side deadline instead.                                     *)
LegacySuspend(ctype, kind, s) ==
  ctype = "execute" /\ kind = "process_suspend" /\ s.deadline # "none"

(* The rules an ok submission passes through, in the order of the code.    *)
Accepted(ctype, kind, s) ==
  /\ s.ok
  /\ ProvesSuccess(s)
  /\ IF ctype = "execute" THEN BoundState(s) ELSE s.state = "none"
  /\ s.deadline # "none" =>
       \/ LegacySuspend(ctype, kind, s) /\ s.deadline # "beyond"
       \/ kind = "ssh_hardening" /\ ctype = "execute" /\ DeadlineOpen(s)
  /\ kind = "ssh_hardening" /\ ctype = "execute" => SSHDeadlineAgrees(s)

(* The Helper finished but could not persist its replay cache: the outer   *)
(* result is a failure, the embedded receipt still proves success.         *)
\* Fault: the success-side checks are not repeated.
RecoveredUnchecked(ctype, kind, s) ==
  ~s.ok /\ s.error = "persistence" /\ ProvesSuccess(s)

RecoveredSuccess(ctype, kind, s) ==
  /\ ~s.ok /\ s.error = "persistence"
  /\ ProvesSuccess(s)
  /\ IF ctype = "execute"
       THEN /\ BoundState(s)
            /\ s.deadline # "none" => kind = "ssh_hardening"
            /\ kind = "ssh_hardening" => SSHDeadlineAgrees(s)
            /\ s.deadline = "none" \/ DeadlineOpen(s)
       ELSE s.state = "none" /\ s.deadline = "none"

(* The Agent signed that bytes reached the Helper and no answer came back. *)
ReportedUnknown(s) == ~s.ok /\ s.error = "indeterminate"

UnknownReceipt(s) ==
  ~s.ok /\ s.error # "indeterminate" /\ s.matches /\ ~s.success /\ s.unknown

UnknownWithState(ctype, s) ==
  UnknownReceipt(s) /\ ctype = "execute" /\ BoundState(s) /\ s.steps = "undo_failed"

UnknownWithoutState(ctype, s) ==
  /\ UnknownReceipt(s) /\ s.state = "none" /\ s.binds = "none"
  /\ s.steps = IF ctype = "execute" THEN "apply_failed" ELSE "op_failed"

(* The outcome the transaction projects onto the action and its ban.       *)
Outcome(ctype, kind, s) ==
  LET ok      == Accepted(ctype, kind, s) \/ RecoveredSuccess(ctype, kind, s)
      legacy  == Accepted(ctype, kind, s) /\ LegacySuspend(ctype, kind, s)
      unknown == \/ ReportedUnknown(s)
                 \/ UnknownWithState(ctype, s)
                 \/ UnknownWithoutState(ctype, s)
  IN [ ok        |-> ok,
       unknown   |-> unknown,
       keepState |-> ctype = "execute" /\ (ok \/ UnknownWithState(ctype, s)),
       awaiting  |-> ctype = "execute" /\ ok /\ s.deadline # "none" /\ ~legacy,
       legacy    |-> legacy ]

=============================================================================
