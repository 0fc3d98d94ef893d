---------------------------- MODULE ReceiptProofs ----------------------------
(***************************************************************************)
(* What the judgement of a result guarantees, for every submission.        *)
(***************************************************************************)
EXTENDS ReceiptCheck, TLAPS

(* What every state of ReceiptCheck holds.                                 *)
Judging == ctype \in CommandTypes \ {"scan"} /\ kind \in ActionKinds /\ sub \in Submission

(* Time changes no field but the deadline's class.                         *)
LEMMA WaitJudges ==
  ASSUME Judging, [Next]_vars
  PROVE  Judging'
<1>1. CASE Wait
  <2>1. sub' \in Submission
    BY <1>1 DEF Wait, Judging, Submission, Aged
  <2> QED
    BY <1>1, <2>1 DEF Wait, Judging
<1> QED
  BY <1>1 DEF Next, vars, Judging

(* The same fields, submitted as a success and as a failed cache write.    *)
LEMMA SameFields ==
  ASSUME NEW s \in Submission, NEW ok \in BOOLEAN,
         NEW e \in {"none", "indeterminate", "persistence", "other"}
  PROVE  LET t == [s EXCEPT !.ok = ok, !.error = e]
         IN  /\ t.ok = ok /\ t.error = e
             /\ t.matches = s.matches /\ t.success = s.success /\ t.unknown = s.unknown
             /\ t.steps = s.steps /\ t.pending = s.pending /\ t.deadline = s.deadline
             /\ t.state = s.state /\ t.binds = s.binds
BY DEF Submission

(* A receipt that proves success is never also an unknown one.             *)
LEMMA ProofIsNotUnknown ==
  ASSUME NEW s, NEW t, ProvesSuccess(s)
  PROVE  ~UnknownWithState(t, s) /\ ~UnknownWithoutState(t, s)
BY DEF ProvesSuccess, UnknownWithState, UnknownWithoutState, UnknownReceipt

(* Whether the Helper could save its replay cache never changes what the   *)
(* Controller records, for any receipt.                                    *)
LEMMA CacheFailure ==
  ASSUME Judging
  PROVE  CacheFailureIrrelevant
<1> DEFINE saved == [sub EXCEPT !.ok = TRUE,  !.error = "none"]
           lost  == [sub EXCEPT !.ok = FALSE, !.error = "persistence"]
<1> SUFFICES ASSUME ~LegacySuspend(ctype, kind, sub)
             PROVE  /\ Judged(saved).ok <=> Judged(lost).ok
                    /\ Judged(saved).ok => Judged(saved) = Judged(lost)
  BY DEF CacheFailureIrrelevant
<1>1. /\ saved.ok = TRUE /\ saved.error = "none"
      /\ saved.matches = sub.matches /\ saved.success = sub.success
      /\ saved.unknown = sub.unknown /\ saved.steps = sub.steps
      /\ saved.pending = sub.pending /\ saved.deadline = sub.deadline
      /\ saved.state = sub.state /\ saved.binds = sub.binds
  BY SameFields DEF Judging
<1>2. /\ lost.ok = FALSE /\ lost.error = "persistence"
      /\ lost.matches = sub.matches /\ lost.success = sub.success
      /\ lost.unknown = sub.unknown /\ lost.steps = sub.steps
      /\ lost.pending = sub.pending /\ lost.deadline = sub.deadline
      /\ lost.state = sub.state /\ lost.binds = sub.binds
  BY SameFields DEF Judging
<1> HIDE DEF saved, lost
<1>3. /\ LegacySuspend(ctype, kind, saved) = FALSE /\ LegacySuspend(ctype, kind, lost) = FALSE
      /\ ProvesSuccess(saved) <=> ProvesSuccess(lost)
  BY <1>1, <1>2 DEF LegacySuspend, ProvesSuccess
<1>4. Accepted(ctype, kind, saved) <=> RecoveredSuccess(ctype, kind, lost)
  BY <1>1, <1>2, <1>3 DEF Accepted, RecoveredSuccess, BoundState, SSHDeadlineAgrees, DeadlineOpen
<1>5. ~RecoveredSuccess(ctype, kind, saved) /\ ~Accepted(ctype, kind, lost)
  BY <1>1, <1>2 DEF RecoveredSuccess, Accepted
<1>6. Judged(saved).ok <=> Judged(lost).ok
  BY <1>4, <1>5 DEF Judged, Outcome
<1>7. ASSUME Judged(saved).ok
      PROVE  Judged(saved) = Judged(lost)
  <2>1. Accepted(ctype, kind, saved) /\ RecoveredSuccess(ctype, kind, lost)
    BY <1>4, <1>5, <1>7 DEF Judged, Outcome
  <2>2. ProvesSuccess(saved) /\ ProvesSuccess(lost)
    BY <2>1 DEF Accepted, RecoveredSuccess
  <2>3. /\ ~UnknownWithState(ctype, saved) /\ ~UnknownWithoutState(ctype, saved)
        /\ ~UnknownWithState(ctype, lost) /\ ~UnknownWithoutState(ctype, lost)
    BY <2>2, ProofIsNotUnknown
  <2>4. ~ReportedUnknown(saved) /\ ~ReportedUnknown(lost)
    BY <1>1, <1>2 DEF ReportedUnknown
  <2> QED
    BY <1>1, <1>2, <1>3, <1>5, <2>1, <2>3, <2>4 DEF Judged, Outcome
<1> QED
  BY <1>6, <1>7

(* The other rules the runs check, for any receipt.                        *)
LEMMA JudgedSafely ==
  ASSUME Judging
  PROVE  StateIsBound /\ VerdictExclusive /\ WindowOpensWhenPending
<1>1. StateIsBound
  BY DEF StateIsBound, Judged, Outcome, Accepted, RecoveredSuccess, UnknownWithState,
         UnknownReceipt, ProvesSuccess
<1>2. VerdictExclusive
  BY DEF VerdictExclusive, Judged, Outcome, Accepted, RecoveredSuccess, ReportedUnknown,
         UnknownWithState, UnknownWithoutState, UnknownReceipt, ProvesSuccess
<1>3. WindowOpensWhenPending
  BY DEF WindowOpensWhenPending, Judged, Outcome, Accepted, RecoveredSuccess, LegacySuspend,
         SSHDeadlineAgrees, DeadlineOpen, Judging, CommandTypes
<1> QED
  BY <1>1, <1>2, <1>3

(* The Controller's judgement of a result is safe for every submission and *)
(* every delay: cache failures change nothing, state is stored only when a *)
(* receipt binds it, success and unknown exclude each other, and only a    *)
(* proven, pending SSH change waits for confirmation.                      *)
THEOREM ReceiptsJudgedSafely == Spec => []ReceiptSafety
<1>1. Init => Judging
  BY DEF Init, Judging
<1>2. Judging /\ [Next]_vars => Judging'
  BY WaitJudges
<1>3. Judging => ReceiptSafety
  BY CacheFailure, JudgedSafely DEF ReceiptSafety
<1> QED
  BY <1>1, <1>2, <1>3, PTL DEF Spec


(* Time only shortens what is left: a result that is a success after it    *)
(* waited was one before, or had a deadline nobody would believe.          *)
LEMMA WaitNeverProves ==
  ASSUME Judging, Wait, Judged(sub)'.ok
  PROVE  Judged(sub).ok \/ sub.deadline = "beyond"
<1> SUFFICES ASSUME sub.deadline # "beyond"
             PROVE  Judged(sub).ok
  OBVIOUS
<1>1. ctype' = ctype /\ kind' = kind
  BY DEF Wait
<1>2. /\ sub.deadline = "ahead" /\ sub'.deadline = "past"
      /\ sub'.ok = sub.ok /\ sub'.error = sub.error
      /\ sub'.matches = sub.matches /\ sub'.success = sub.success
      /\ sub'.unknown = sub.unknown /\ sub'.steps = sub.steps
      /\ sub'.pending = sub.pending /\ sub'.state = sub.state /\ sub'.binds = sub.binds
  BY DEF Wait, Aged, Judging, Submission
<1>3. Accepted(ctype, kind, sub') \/ RecoveredSuccess(ctype, kind, sub')
  BY <1>1 DEF Judged, Outcome
<1>4. Accepted(ctype, kind, sub') => Accepted(ctype, kind, sub)
  BY <1>2 DEF Accepted, ProvesSuccess, BoundState, LegacySuspend, SSHDeadlineAgrees, DeadlineOpen
<1>5. ~RecoveredSuccess(ctype, kind, sub')
  BY <1>2 DEF RecoveredSuccess, ProvesSuccess, BoundState, SSHDeadlineAgrees, DeadlineOpen
<1> QED
  BY <1>3, <1>4, <1>5 DEF Judged, Outcome

(* A result that waits in the Agent's queue can lose its success to its    *)
(* deadline, and gains one only if the deadline was too far in the future  *)
(* to be believed (internal/store/action_results.go).                      *)
THEOREM DelayIsHarmless == Spec => DelayNeverProves
<1>1. Init => Judging
  BY DEF Init, Judging
<1>2. Judging /\ [Next]_vars => Judging'
  BY WaitJudges
<1>3. Judging /\ [Next]_vars => [Judged(sub)'.ok => Judged(sub).ok \/ sub.deadline = "beyond"]_vars
  BY WaitNeverProves DEF Next
<1> QED
  BY <1>1, <1>2, <1>3, PTL DEF Spec, DelayNeverProves

=============================================================================
