----------------------------- MODULE ReceiptCheck -----------------------------
(***************************************************************************)
(* One submission of one command, and the time it spends in the Agent's    *)
(* queue before the Controller judges it.  Every combination of what the   *)
(* validation reads is an initial state: the Agent is not trusted to send  *)
(* anything in particular.                                                 *)
(***************************************************************************)
EXTENDS ReceiptValidation

VARIABLES
  ctype,  \* the command's type
  kind,   \* the action's type
  sub     \* the submission, classified against the Controller's clock

vars == <<ctype, kind, sub>>

Init ==
  /\ ctype \in CommandTypes \ {"scan"}
  /\ kind \in ActionKinds
  /\ sub \in Submission

(* The deadline is an absolute time: only the clock it is compared to moves.*)
Aged(d) == IF d = "beyond" THEN "ahead" ELSE IF d = "ahead" THEN "past" ELSE d

Wait ==
  /\ sub.deadline \in {"beyond", "ahead"}
  /\ sub' = [sub EXCEPT !.deadline = Aged(@)]
  /\ UNCHANGED <<ctype, kind>>

Next == Wait

Spec == Init /\ [][Next]_vars

-----------------------------------------------------------------------------

Judged(s) == Outcome(ctype, kind, s)

(* The rules for an ok result and the rules for a success recovered from a *)
(* failed cache write are two pieces of code.  They agree: whether the     *)
(* Helper could save its replay cache never changes what is recorded.  (An *)
(* old Helper's suspension is the exception the code makes on purpose.)    *)
CacheFailureIrrelevant ==
  LET saved == Judged([sub EXCEPT !.ok = TRUE,  !.error = "none"])
      lost  == Judged([sub EXCEPT !.ok = FALSE, !.error = "persistence"])
  IN ~LegacySuspend(ctype, kind, sub) =>
       (saved.ok <=> lost.ok) /\ (saved.ok => saved = lost)

(* Rollback state is stored only when a receipt for this very action binds *)
(* its bytes; every other payload a failing Agent attaches is discarded.   *)
StateIsBound ==
  Judged(sub).keepState => ctype = "execute" /\ sub.matches /\ BoundState(sub)

(* No result is both a proven success and an unknown outcome.              *)
VerdictExclusive == ~(Judged(sub).ok /\ Judged(sub).unknown)

(* The confirmation window opens exactly for a proven SSH change that is   *)
(* still pending.                                                          *)
WindowOpensWhenPending ==
  Judged(sub).awaiting <=>
    Judged(sub).ok /\ ctype = "execute" /\ kind = "ssh_hardening" /\ sub.pending = "yes"

(* A submission, however old, is judged safely: the four rules above.      *)
ReceiptSafety == CacheFailureIrrelevant /\ StateIsBound /\ VerdictExclusive
                   /\ WindowOpensWhenPending

(* Waiting in the queue may cost a result its success but never gives it   *)
(* one, unless its deadline was too far in the future to be believed.      *)
DelayNeverProves ==
  [][Judged(sub)'.ok => Judged(sub).ok \/ sub.deadline = "beyond"]_vars

=============================================================================
