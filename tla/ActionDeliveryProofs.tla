------------------------- MODULE ActionDeliveryProofs -------------------------
(***************************************************************************)
(* Across every loss, restart and redelivery between the Controller, the   *)
(* Agent and the Helper: what is shown as done was done, what was ended    *)
(* before it began never runs, and no queued result is forgotten; for any  *)
(* number of actions and commands and any length of the queue.             *)
(***************************************************************************)
EXTENDS ActionDelivery, ActionSafetyProofs, SequenceTheorems

-----------------------------------------------------------------------------
(* The inductive invariant.                                                *)

(* A command that passed the gate, and what it was started for, stay as    *)
(* they are: whatever speaks of it further on speaks of this.              *)
Known(c) ==
  /\ ForAction(c) /\ cmd[c].phase \in {"started", "result", "timeout"}
  /\ cmd[c].action \in Actions
  /\ act[cmd[c].action].status \notin {"absent", "draft"}

(* What the Controller will make of a reply to a command is true of the    *)
(* host, where it says that something was done.                            *)
Earned(c, reply) ==
  Outcome(cmd[c].type, act[cmd[c].action].kind, reply).ok => host[c].effect = "done"

(* The host is touched only for commands that passed the gate.             *)
TouchedAreKnown ==
  \A c \in Cmds : /\ host[c].runs = 0 => host[c].effect = "none"
                  /\ host[c].runs > 0 => Known(c)

(* The Agent calls the Helper for such a command, hears of it or of        *)
(* nothing, and leaves nothing else behind when it hangs up.               *)
CallIsKnown ==
  /\ \A c \in inbox : ~Unused(c)
  /\ calling # NoCall => Known(calling.cmd)
  /\ listener # X!None => /\ calling # NoCall /\ calling.asked /\ answer = X!None
                          /\ listener = Job(calling.cmd)
  /\ answer # X!None =>
       /\ calling # NoCall /\ calling.asked
       /\ answer.reply \in Submission /\ Earned(calling.cmd, answer.reply)
  /\ \A job \in orphans : job.attempt \in Cmds /\ Known(job.attempt) /\ job = Job(job.attempt)

(* The results it queues are about such commands or scans, and earned.     *)
QueueIsEarned ==
  /\ fifo \in Seq([cmd : Cmds, reply : Submission])
  /\ \A i \in DOMAIN fifo :
       LET c == fifo[i].cmd IN
       /\ ~Unused(c)
       /\ ForAction(c) => Known(c) /\ Earned(c, fifo[i].reply)

DeliveryInv ==
  /\ SafetyInv /\ DeliveryTypeOK
  /\ TouchedAreKnown /\ CallIsKnown /\ QueueIsEarned
  /\ SuccessIsReal

-----------------------------------------------------------------------------
(* What the Helper says, in the Controller's words.                        *)

(* The Executor judges a reply as the Controller does.                     *)
LEMMA OutcomeAgrees ==
  ASSUME NEW op, NEW kind, NEW s
  PROVE  X!Outcome(op, kind, s) = Outcome(op, kind, s)
BY DEF X!Outcome, X!Accepted, X!RecoveredSuccess, X!ReportedUnknown, X!UnknownWithState,
       X!UnknownWithoutState, X!UnknownReceipt, X!ProvesSuccess, X!BoundState, X!LegacySuspend,
       X!SSHDeadlineAgrees, X!DeadlineOpen,
       Outcome, Accepted, RecoveredSuccess, ReportedUnknown, UnknownWithState,
       UnknownWithoutState, UnknownReceipt, ProvesSuccess, BoundState, LegacySuspend,
       SSHDeadlineAgrees, DeadlineOpen

(* A refusal and an unfinished attempt are well-formed and claim nothing;  *)
(* the report of a scan is well-formed too.                                *)
LEMMA PlainResults ==
  /\ X!Refused \in Submission /\ X!Interrupted \in Submission
  /\ \A op, kind : ~Outcome(op, kind, X!Refused).ok /\ ~Outcome(op, kind, X!Interrupted).ok
  /\ \A id \in ResultIds :
       [X!Refused EXCEPT !.id = id, !.ok = TRUE, !.error = "none"] \in Submission
<1>1. X!Bytes \in ResultIds
  BY MarksAssumption DEF X!Bytes
<1>2. X!Refused \in Submission /\ X!Interrupted \in Submission
  BY <1>1 DEF X!Refused, X!Interrupted, Submission, StepShapes
<1>3. /\ X!Refused.ok = FALSE /\ X!Refused.error = "other"
      /\ X!Interrupted.ok = FALSE /\ X!Interrupted.error = "indeterminate"
  BY DEF X!Refused, X!Interrupted
<1>4. ASSUME NEW op, NEW kind
      PROVE  ~Outcome(op, kind, X!Refused).ok /\ ~Outcome(op, kind, X!Interrupted).ok
  BY <1>3 DEF Outcome, Accepted, RecoveredSuccess
<1>5. ASSUME NEW id \in ResultIds
      PROVE  [X!Refused EXCEPT !.id = id, !.ok = TRUE, !.error = "none"] \in Submission
  BY <1>2, <1>5 DEF Submission
<1> QED
  BY <1>2, <1>4, <1>5

(* Every reply of the Helper is a well-formed result.                      *)
LEMMA RepliesAreResults ==
  ASSUME NEW job
  PROVE  X!Replies(job) \subseteq Submission
<1>1. X!Bytes \in ResultIds
  BY MarksAssumption DEF X!Bytes
<1>2. ASSUME NEW ending \in X!EndingsOf(job.op), NEW pending \in BOOLEAN
      PROVE  X!Receipt(job, ending, pending) \in Submission
  <2>1. \/ ending \in {"proved", "refused", "undone"}
        \/ ending \in {"undo_failed", "apply_failed", "op_failed"}
    BY <1>2 DEF X!EndingsOf
  <2> QED
    BY <1>1, <2>1 DEF X!Receipt, X!StepShapes, Submission, StepShapes
<1>3. ASSUME NEW r \in Submission
      PROVE  X!Unsaved(r) \in Submission
  BY <1>3 DEF X!Unsaved, Submission
<1>4. X!Receipts(job) \subseteq Submission
  BY <1>2 DEF X!Receipts
<1>5. {X!Unsaved(r) : r \in X!Receipts(job)} \subseteq Submission
  BY <1>3, <1>4
<1> QED
  BY <1>4, <1>5, PlainResults DEF X!Replies

(* A job of a started command is one of the Executor's, and not the mark   *)
(* of none.                                                                *)
LEMMA JobOfKnown ==
  ASSUME TypeOK, NEW c \in Cmds, Known(c)
  PROVE  Job(c) \in X!Job /\ Job(c).attempt = c /\ Job(c) # X!None
<1>1. cmd[c] \in CommandRow /\ act[cmd[c].action] \in ActionRow
  BY DEF TypeOK, Known
<1>2. cmd[c].type \in X!Operations /\ act[cmd[c].action].kind \in X!ActionKinds
  BY <1>1 DEF Known, ForAction, CommandRow, ActionRow, X!Operations, X!CommandTypes,
     CommandTypes, X!ActionKinds, ActionKinds
<1>3. Job(c).attempt = c /\ X!None.attempt = "none"
  BY DEF Job, X!None
<1> QED
  BY <1>2, <1>3, MarksAssumption DEF Job, X!Job


-----------------------------------------------------------------------------
(* What the store keeps for those who speak of its commands.               *)

SameTarget(c) == cmd'[c].type = cmd[c].type /\ cmd'[c].action = cmd[c].action
SameKind(c)   == SameTarget(c) /\ act'[cmd[c].action].kind = act[cmd[c].action].kind

(* Rows once used keep what they are; what a started command is about      *)
(* stays as it was when it started.                                        *)
StoreKeeps ==
  /\ \A c \in Cmds : ~Unused(c) => ~Unused(c)' /\ SameTarget(c)
  /\ \A c \in Cmds : Known(c) => Known(c)' /\ SameKind(c)

(* The store of a safe step keeps them.                                    *)
LEMMA StepsKeep ==
  ASSUME Steps
  PROVE  StoreKeeps
<1>1. ASSUME NEW c \in Cmds, ~Unused(c)
      PROVE  ~Unused(c)' /\ SameTarget(c)
  BY <1>1 DEF Steps, CmdStep, SameCmd, Queued, Moved, Unused, SameTarget
<1>2. ASSUME NEW c \in Cmds, Known(c)
      PROVE  Known(c)' /\ SameKind(c)
  <2> DEFINE a == cmd[c].action
  <2>1. ~Unused(c) /\ a \in Actions /\ act[a].status \notin {"absent", "draft"}
    BY <1>2 DEF Known, Unused
  <2>2. cmd'[c].type = cmd[c].type /\ cmd'[c].action = a
    BY <1>1, <2>1 DEF SameTarget
  <2>3. cmd'[c].phase \in {"started", "result", "timeout"}
    <3>1. CmdStep(c) /\ ~Queued(c)
      BY <2>1 DEF Steps, Queued
    <3> QED
      BY <1>2, <3>1 DEF CmdStep, SameCmd, Moved, Known, Open, OpenPhases
  <2>4. RowStep(a)
    BY <2>1 DEF Steps
  <2>5. act'[a].status \notin {"absent", "draft"}
    BY <2>1, <2>4, NoWayBack
  <2>6. act'[a].kind = act[a].kind
    BY <2>1, <2>4 DEF RowStep, Still, Drafted, Ordered, Requested, Begun, Executed, Undone,
       Confirmed, NotDone, Lost, GivenUp, Same
  <2> QED
    BY <1>2, <2>2, <2>3, <2>5, <2>6 DEF Known, ForAction, SameKind, SameTarget
<1> QED
  BY <1>1, <1>2 DEF StoreKeeps

(* A started command is known: its action is in flight.                    *)
LEMMA StartedIsKnown ==
  ASSUME InFlightInv, NEW c \in Cmds, ForAction(c), cmd[c].phase = "started"
  PROVE  Known(c)
<1>1. cmd[c].action \in Actions /\ Carries(c, cmd[c].action)
  BY DEF InFlightInv, Addressed, ForAction, Carries, Open, OpenPhases
<1>2. act[cmd[c].action].status \in {"executing", "rolling_back", "confirming"}
  BY <1>1 DEF InFlightInv, Backed, Expecting
<1> QED
  BY <1>1, <1>2 DEF Known


(* Only a result makes an action one that was done, or was undone.         *)
Claimed == {"succeeded", "awaiting_confirmation", "confirming"}
NothingClaimed(a) ==
  /\ act'[a].status \in Claimed => act[a].status \in Claimed
  /\ act'[a].status = "rolled_back" => act[a].status = "rolled_back"

(* A row that is left alone or ended otherwise claims nothing.             *)
LEMMA EndedClaimsNothing ==
  ASSUME TypeOK, NEW a \in Actions,
         \/ act'[a] = act[a]
         \/ act'[a] = SweptDrafts[a]
         \/ \E st \in {"approved", "rolling_back", "failed", "indeterminate", "cancelled"} :
              act'[a] = Settled(act[a], st)
  PROVE  NothingClaimed(a)
<1>0. act[a] \in ActionRow
  BY DEF TypeOK
<1>1. ASSUME NEW st \in {"approved", "rolling_back", "failed", "indeterminate", "cancelled"},
             act'[a] = Settled(act[a], st)
      PROVE  NothingClaimed(a)
  <2>1. act'[a].status = st
    BY <1>0, <1>1, SettledRow DEF Statuses, Unfinished, Finished
  <2> QED
    BY <2>1 DEF NothingClaimed, Claimed
<1>2. CASE act'[a] = act[a]
  BY <1>2 DEF NothingClaimed
<1>3. CASE act'[a] = SweptDrafts[a]
  BY <1>1, <1>2, <1>3 DEF SweptDrafts
<1> QED
  BY <1>1, <1>2, <1>3

(* The Controller's own steps.                                             *)
LEMMA ControllerClaimsNothing ==
  ASSUME TypeOK, AdminRequest \/ PolicyChange \/ ProcessSecurityEvent \/ Maintain \/ Tick,
         NEW b \in Actions
  PROVE  NothingClaimed(b)
<1>0. /\ act[b] \in ActionRow /\ DOMAIN act = Actions
      /\ SweptDrafts \in [Actions -> ActionRow]
  BY SweptDraftsRows DEF TypeOK
<1>1. ASSUME NEW a \in Actions, NEW st \in {"draft", "approved"}, NEW k, NEW p, NEW ttl,
             act' = [SweptDrafts EXCEPT ![a] = NewAction(st, k, p, ttl)]
      PROVE  NothingClaimed(b)
  <2>1. act'[b] = SweptDrafts[b] \/ act'[b] = NewAction(st, k, p, ttl)
    BY <1>0, <1>1
  <2>2. ASSUME act'[b] = NewAction(st, k, p, ttl)
        PROVE  NothingClaimed(b)
    <3>1. act'[b].status = st
      BY <2>2 DEF NewAction
    <3> QED
      BY <3>1 DEF NothingClaimed, Claimed
  <2> QED
    BY <2>1, <2>2, EndedClaimsNothing
<1>2. ASSUME NEW a \in Actions, NEW st \in {"approved", "rolling_back"},
             act' = [act EXCEPT ![a] = Settled(@, st)]
      PROVE  NothingClaimed(b)
  <2>1. act'[b] = act[b] \/ act'[b] = Settled(act[b], st)
    BY <1>0, <1>2
  <2> QED
    BY <2>1, EndedClaimsNothing
<1>3. ASSUME NEW a \in Actions, NEW c \in Cmds, RequestConfirmationAndEnqueue(a, c)
      PROVE  NothingClaimed(b)
  <2>1. act[a].status = "awaiting_confirmation" /\ act' = [act EXCEPT ![a] = Settled(@, "confirming")]
    BY <1>3 DEF RequestConfirmationAndEnqueue
  <2>2. CASE a = b
    <3>1. act'[b].status = "confirming"
      BY <1>0, <2>1, <2>2, SettledRow DEF Statuses, Unfinished
    <3> QED
      BY <2>1, <2>2, <3>1 DEF NothingClaimed, Claimed
  <2>3. CASE a # b
    <3>1. act'[b] = act[b]
      BY <1>0, <2>1, <2>3
    <3> QED
      BY <3>1, EndedClaimsNothing
  <2> QED
    BY <2>2, <2>3
<1>4. CASE AdminRequest
  <2>1. ASSUME NEW a \in Actions, NEW k \in Kinds, CreateAction(a, k)
        PROVE  NothingClaimed(b)
    BY <1>1, <2>1 DEF CreateAction
  <2>2. ASSUME NEW a \in Actions, NEW c \in Cmds,
               ApproveActionAndEnqueue(a, c) \/ RequestRollbackAndEnqueue(a, c)
        PROVE  NothingClaimed(b)
    BY <1>2, <2>2 DEF ApproveActionAndEnqueue, RequestRollbackAndEnqueue, QueueRollback
  <2>3. CASE \E c \in Cmds : EnqueueScan(c)
    BY <2>3, EndedClaimsNothing DEF EnqueueScan
  <2>4. CASE RevokeDevice
    <3>1. \E st \in {"indeterminate", "cancelled"} : act'[b] \in {act[b], Settled(act[b], st)}
      BY <2>4 DEF RevokeDevice
    <3> QED
      BY <3>1, EndedClaimsNothing
  <2> QED
    BY <1>3, <1>4, <2>1, <2>2, <2>3, <2>4 DEF AdminRequest
<1>5. CASE PolicyChange
  <2>1. act'[b] \in {act[b], Settled(act[b], "cancelled")}
    BY <1>5 DEF PolicyChange, PutDefensePolicyAndCancelQueued, PutPolicyGrant
  <2> QED
    BY <2>1, EndedClaimsNothing
<1>6. CASE ProcessSecurityEvent
  <2>1. PICK a \in Actions, k \in {"ip_ban", "process_suspend"} :
          act' = [SweptDrafts EXCEPT ![a] = NewAction("approved", k, TRUE, 0)]
    BY <1>6 DEF ProcessSecurityEvent, PolicyBan, PolicySuspend
  <2> QED
    BY <1>1, <2>1
<1>7. CASE Maintain
  <2>1. \/ act'[b] = act[b] \/ act'[b] = SweptDrafts[b]
        \/ \E st \in {"failed", "indeterminate", "cancelled"} : act'[b] = Settled(act[b], st)
    BY <1>7 DEF Maintain, ExpireStaleActionCommands, SweptActs, ExpireActionConfirmations,
       ExpireDraftActions, ExpireBanHorizon
  <2> QED
    BY <2>1, EndedClaimsNothing
<1>8. CASE Tick
  <2>1. act'[b] = [act[b] EXCEPT !.left = Down(act[b].left)]
    BY <1>8 DEF Tick
  <2>2. act'[b].status = act[b].status
    BY <1>0, <2>1 DEF ActionRow
  <2> QED
    BY <2>2 DEF NothingClaimed
<1> QED
  BY <1>4, <1>5, <1>6, <1>7, <1>8

(* A claim and the gate.                                                   *)
LEMMA GateClaimsNothing ==
  ASSUME TypeOK, ClaimCommands \/ \E c \in Cmds : StartActionCommand(c), NEW b \in Actions
  PROVE  NothingClaimed(b)
<1>0. act[b] \in ActionRow /\ DOMAIN act = Actions
  BY DEF TypeOK
<1>1. CASE ClaimCommands
  <2>1. act'[b] = act[b] \/ \E st \in {"failed", "indeterminate"} : act'[b] = Settled(act[b], st)
    BY <1>1 DEF ClaimCommands, SweptActs
  <2> QED
    BY <2>1, EndedClaimsNothing
<1>2. ASSUME NEW c \in Cmds, StartExpired(c) \/ StartDenied(c)
      PROVE  NothingClaimed(b)
  <2>1. act'[b] = act[b] \/ act'[b] = Settled(act[b], "cancelled")
    BY <1>0, <1>2 DEF StartExpired, StartDenied, Withdraw
  <2> QED
    BY <2>1, EndedClaimsNothing
<1>3. ASSUME NEW c \in Cmds, StartAuthorized(c)
      PROVE  NothingClaimed(b)
  <2>1. \/ act' = act
        \/ act' = [act EXCEPT ![cmd[c].action].status = "executing"]
    BY <1>3 DEF StartAuthorized
  <2>2. act'[b].status \in {act[b].status, "executing"}
    BY <1>0, <2>1 DEF ActionRow
  <2> QED
    BY <2>2 DEF NothingClaimed, Claimed
<1> QED
  BY <1>1, <1>2, <1>3 DEF StartActionCommand


(* A recorded result completes its command.                                *)
LEMMA ResultCompletes ==
  ASSUME TypeOK, NEW c \in Cmds, NEW reply, Complete(c, reply)
  PROVE  ~Open(c)'
<1>0. cmd[c] \in CommandRow /\ DOMAIN cmd = Cmds /\ "result" \in Phases
  BY DEF TypeOK, Phases
<1>1. cmd'[c] = Completed(cmd[c], "result")
  <2>1. ASSUME NEW undo \in Cmds, CompleteLegacySuspend(c, reply, undo)
        PROVE  cmd'[c] = Completed(cmd[c], "result")
    <3>1. undo # c
      BY <2>1 DEF CompleteLegacySuspend, Accepting, Unused
    <3> QED
      BY <1>0, <2>1, <3>1 DEF CompleteLegacySuspend
  <2> QED
    BY <1>0, <2>1 DEF Complete, CompleteExecute, CompleteRollback, CompleteConfirm, CompleteScan
<1>2. cmd'[c].phase = "result"
  BY <1>0, <1>1, CompletedRow
<1> QED
  BY <1>2 DEF Open, OpenPhases

(* What a result claims, its command has earned.                           *)
ClaimEarned(b) ==
  \E c \in Cmds :
    /\ ~Unused(c) /\ cmd[c].action = b /\ host[c].effect = "done"
    /\ \/ cmd[c].type = "execute" /\ act'[b].status \in Claimed
       \/ cmd[c].type = "rollback" /\ act'[b].status = "rolled_back"

(* A recorded result claims nothing, or what was earned.                   *)
LEMMA ResultClaims ==
  ASSUME InFlightInv, NEW c \in Cmds, NEW reply, Complete(c, reply),
         ForAction(c) => Earned(c, reply), NEW b \in Actions
  PROVE  NothingClaimed(b) \/ ClaimEarned(b)
<1>0. act[b] \in ActionRow /\ DOMAIN act = Actions
  BY DEF InFlightInv, TypeOK
<1> DEFINE a == cmd[c].action
           o == Outcome(cmd[c].type, act[a].kind, reply)
<1>1. ASSUME act'[b] = act[b]
      PROVE  NothingClaimed(b)
  BY <1>1 DEF NothingClaimed
<1>2. CASE a # b \/ CompleteScan(c)
  <2>1. act'[b] = act[b]
    BY <1>0, <1>2 DEF Complete, CompleteExecute, CompleteRollback, CompleteConfirm,
       CompleteLegacySuspend, CompleteScan
  <2> QED
    BY <1>1, <2>1
<1>3. ASSUME a = b, ForAction(c), o.ok
      PROVE  host[c].effect = "done"
  BY <1>3 DEF Earned
<1>4. CASE a = b /\ CompleteExecute(c, reply)
  <2>1. cmd[c].type = "execute" /\ ~Unused(c) /\ ForAction(c)
    BY <1>4 DEF CompleteExecute, Accepting, Unused, ForAction
  <2> DEFINE good == IF o.awaiting THEN "awaiting_confirmation" ELSE "succeeded"
  <2>2. PICK window :
          act' = [act EXCEPT ![a].status = Verdict(o, good),
                             ![a].state = o.keepState, ![a].left = window]
    BY <1>4, <2>1 DEF CompleteExecute
  <2> HIDE DEF o
  <2>3. act'[b].status = Verdict(o, good)
    BY <1>0, <1>4, <2>2 DEF ActionRow
  <2>4. CASE o.ok /\ ~o.unknown
    <3>1. host[c].effect = "done" /\ act'[b].status \in Claimed
      BY <1>3, <1>4, <2>1, <2>3, <2>4 DEF Verdict, Claimed
    <3> QED
      BY <1>4, <2>1, <3>1 DEF ClaimEarned
  <2>5. CASE o.unknown \/ ~o.ok
    <3>1. act'[b].status \in {"indeterminate", "failed"}
      BY <2>3, <2>5 DEF Verdict
    <3> QED
      BY <3>1 DEF NothingClaimed, Claimed
  <2> QED
    BY <2>4, <2>5
<1>5. CASE a = b /\ \E undo \in Cmds : CompleteLegacySuspend(c, reply, undo)
  <2>1. act'[b].status = "rolling_back"
    BY <1>0, <1>5 DEF CompleteLegacySuspend, ActionRow
  <2> QED
    BY <2>1 DEF NothingClaimed, Claimed
<1>6. CASE a = b /\ CompleteRollback(c, reply)
  <2>1. cmd[c].type = "rollback" /\ ~Unused(c) /\ ForAction(c)
    BY <1>6 DEF CompleteRollback, Accepting, Unused, ForAction
  <2>2. act'[b] = Settled(act[b], Verdict(o, "rolled_back"))
    BY <1>0, <1>6, <2>1 DEF CompleteRollback
  <2> HIDE DEF o
  <2>3. act'[b].status = Verdict(o, "rolled_back")
    BY <1>0, <2>2, VerdictEnds, SettledRow
  <2>4. CASE o.ok /\ ~o.unknown
    <3>1. host[c].effect = "done" /\ act'[b].status = "rolled_back"
      BY <1>3, <1>6, <2>1, <2>3, <2>4 DEF Verdict
    <3> QED
      BY <1>6, <2>1, <3>1 DEF ClaimEarned
  <2>5. CASE o.unknown \/ ~o.ok
    <3>1. act'[b].status \in {"indeterminate", "failed"}
      BY <2>3, <2>5 DEF Verdict
    <3> QED
      BY <3>1 DEF NothingClaimed, Claimed
  <2> QED
    BY <2>4, <2>5
<1>7. CASE a = b /\ CompleteConfirm(c, reply)
  <2>1. act[b].status = "confirming"
    BY <1>7 DEF CompleteConfirm, Accepting, Expecting
  <2>2. PICK v : act'[b] = Settled(act[b], Verdict(v, "succeeded"))
    BY <1>0, <1>7 DEF CompleteConfirm
  <2>3. act'[b].status = Verdict(v, "succeeded")
    BY <1>0, <2>2, VerdictEnds, SettledRow
  <2> QED
    BY <2>1, <2>3 DEF NothingClaimed, Claimed, Verdict
<1> QED
  BY <1>2, <1>4, <1>5, <1>6, <1>7 DEF Complete


-----------------------------------------------------------------------------
(* How each part of the invariant survives.                                *)

HostKeeps == \A c \in Cmds : host[c].effect = "done" => host'[c].effect = "done"

(* What was earned stays earned.                                           *)
LEMMA EarnedStays ==
  ASSUME StoreKeeps, HostKeeps, NEW c \in Cmds, Known(c), NEW reply, Earned(c, reply)
  PROVE  Known(c)' /\ (Outcome(cmd'[c].type, act'[cmd'[c].action].kind, reply).ok
                         => host'[c].effect = "done")
BY DEF StoreKeeps, HostKeeps, SameKind, SameTarget, Earned

(* What was changed on the host was changed for a started command.         *)
LEMMA DoneIsKnown ==
  ASSUME TouchedAreKnown, DeliveryTypeOK, NEW c \in Cmds, host[c].effect = "done"
  PROVE  Known(c) /\ ~Unused(c)
<1>1. host[c].runs \in 0..1 /\ host[c].runs # 0
  BY DEF TouchedAreKnown, DeliveryTypeOK
<1>2. host[c].runs > 0
  BY <1>1
<1> QED
  BY <1>2 DEF TouchedAreKnown, Known, Unused

(* What is shown as done stays real while only what was earned is claimed. *)
LEMMA SuccessStays ==
  ASSUME SuccessIsReal, TouchedAreKnown, DeliveryTypeOK, StoreKeeps, HostKeeps,
         \A b \in Actions : NothingClaimed(b) \/ ClaimEarned(b)
  PROVE  SuccessIsReal'
<1>1. ASSUME NEW c \in Cmds, host[c].effect = "done"
      PROVE  SameTarget(c) /\ host'[c].effect = "done"
  BY <1>1, DoneIsKnown DEF StoreKeeps, HostKeeps
<1>2. ASSUME NEW b \in Actions, Done(ExecutionOf(b))
      PROVE  Done(ExecutionOf(b))'
  BY <1>1, <1>2 DEF Done, ExecutionOf, SameTarget
<1>3. ASSUME NEW b \in Actions, Done(RollbacksOf(b))
      PROVE  Done(RollbacksOf(b))'
  BY <1>1, <1>3 DEF Done, RollbacksOf, SameTarget
<1>4. ASSUME NEW b \in Actions, act'[b].status \in Claimed
      PROVE  Done(ExecutionOf(b))'
  <2>1. CASE act[b].status \in Claimed
    BY <1>2, <2>1 DEF SuccessIsReal, Claimed
  <2>2. CASE act[b].status \notin Claimed
    <3>1. ClaimEarned(b)
      BY <1>4, <2>2 DEF NothingClaimed
    <3>2. Done(ExecutionOf(b))
      BY <1>4, <3>1 DEF ClaimEarned, Done, ExecutionOf, Claimed
    <3> QED
      BY <1>2, <3>2
  <2> QED
    BY <2>1, <2>2
<1>5. ASSUME NEW b \in Actions, act'[b].status = "rolled_back"
      PROVE  Done(RollbacksOf(b))'
  <2>1. CASE act[b].status = "rolled_back"
    BY <1>3, <2>1 DEF SuccessIsReal
  <2>2. CASE act[b].status # "rolled_back"
    <3>1. ClaimEarned(b)
      BY <1>5, <2>2 DEF NothingClaimed
    <3>2. Done(RollbacksOf(b))
      BY <1>5, <3>1 DEF ClaimEarned, Done, RollbacksOf, Claimed
    <3> QED
      BY <1>3, <3>2
  <2> QED
    BY <2>1, <2>2
<1> QED
  BY <1>4, <1>5 DEF SuccessIsReal, Claimed

(* A queue that loses its head, or gains an earned result, stays earned.   *)
LEMMA QueueStays ==
  ASSUME QueueIsEarned, StoreKeeps, HostKeeps,
         \/ fifo' = fifo
         \/ fifo # <<>> /\ fifo' = Tail(fifo)
         \/ \E c \in Cmds, reply \in Submission :
              /\ ~Unused(c) /\ (ForAction(c) => Known(c) /\ Earned(c, reply))
              /\ fifo' = Append(fifo, [cmd |-> c, reply |-> reply])
  PROVE  QueueIsEarned'
<1> DEFINE Entry == [cmd : Cmds, reply : Submission]
           Fits(e) == ~Unused(e.cmd) /\ (ForAction(e.cmd) => Known(e.cmd) /\ Earned(e.cmd, e.reply))
           FitsNext(e) ==
             /\ cmd'[e.cmd].phase # "absent"
             /\ cmd'[e.cmd].type # "scan" =>
                  /\ cmd'[e.cmd].phase \in {"started", "result", "timeout"}
                  /\ cmd'[e.cmd].action \in Actions
                  /\ act'[cmd'[e.cmd].action].status \notin {"absent", "draft"}
                  /\ Outcome(cmd'[e.cmd].type, act'[cmd'[e.cmd].action].kind, e.reply).ok
                       => host'[e.cmd].effect = "done"
<1>1. fifo \in Seq(Entry) /\ \A i \in DOMAIN fifo : Fits(fifo[i])
  BY DEF QueueIsEarned
<1>2. ASSUME NEW e \in Entry, Fits(e)
      PROVE  FitsNext(e)
  <2>1. e.cmd \in Cmds /\ ~Unused(e.cmd)
    BY <1>2
  <2>2. ~Unused(e.cmd)' /\ cmd'[e.cmd].type = cmd[e.cmd].type
    BY <2>1 DEF StoreKeeps, SameTarget
  <2>3. ForAction(e.cmd) =>
          /\ Known(e.cmd)'
          /\ Outcome(cmd'[e.cmd].type, act'[cmd'[e.cmd].action].kind, e.reply).ok
               => host'[e.cmd].effect = "done"
    BY <1>2, <2>1, EarnedStays
  <2> QED
    BY <2>1, <2>2, <2>3 DEF ForAction, Known, Unused
<1>3. ASSUME fifo' \in Seq(Entry), \A i \in DOMAIN fifo' : FitsNext(fifo'[i])
      PROVE  QueueIsEarned'
  BY <1>3 DEF QueueIsEarned, Earned, ForAction, Known, Unused
<1> HIDE DEF Entry, Fits, FitsNext
<1>4. CASE fifo' = fifo
  <2>1. \A i \in DOMAIN fifo' : fifo'[i] \in Entry /\ Fits(fifo'[i])
    BY <1>1, <1>4
  <2> QED
    BY <1>1, <1>2, <1>3, <1>4, <2>1
<1>5. CASE fifo # <<>> /\ fifo' = Tail(fifo)
  <2>1. fifo' \in Seq(Entry)
    BY <1>1, <1>5
  <2>2. ASSUME NEW i \in DOMAIN fifo'
        PROVE  fifo'[i] \in Entry /\ Fits(fifo'[i])
    <3>1. i \in 1..Len(Tail(fifo)) /\ Len(Tail(fifo)) = Len(fifo) - 1 /\ Len(fifo) \in Nat
      BY <1>1, <1>5, <2>2
    <3>2. i + 1 \in 1..Len(fifo) /\ DOMAIN fifo = 1..Len(fifo)
      BY <1>1, <3>1
    <3>3. fifo'[i] = fifo[i + 1]
      BY <1>1, <1>5, <3>1, HeadTailProperties
    <3> QED
      BY <1>1, <3>2, <3>3
  <2> QED
    BY <1>2, <1>3, <2>1, <2>2
<1>6. ASSUME NEW c \in Cmds, NEW reply \in Submission,
             ~Unused(c), ForAction(c) => Known(c) /\ Earned(c, reply),
             fifo' = Append(fifo, [cmd |-> c, reply |-> reply])
      PROVE  QueueIsEarned'
  <2> DEFINE e == [cmd |-> c, reply |-> reply]
  <2>1. e \in Entry /\ Fits(e)
    BY <1>6 DEF Entry, Fits
  <2> HIDE DEF e
  <2>2. fifo' = Append(fifo, e)
    BY <1>6 DEF e
  <2>3. fifo' \in Seq(Entry)
    BY <1>1, <2>1, <2>2
  <2>4. ASSUME NEW i \in DOMAIN fifo'
        PROVE  fifo'[i] \in Entry /\ Fits(fifo'[i])
    <3>1. i \in 1..(Len(fifo) + 1) /\ Len(fifo) \in Nat
      BY <1>1, <2>1, <2>2, <2>4
    <3>2. fifo'[i] = IF i = Len(fifo) + 1 THEN e ELSE fifo[i]
      BY <1>1, <2>1, <2>2, <3>1
    <3>3. i # Len(fifo) + 1 => i \in DOMAIN fifo
      BY <1>1, <3>1
    <3> QED
      BY <1>1, <2>1, <3>2, <3>3
  <2> QED
    BY <1>2, <1>3, <2>3, <2>4
<1> QED
  BY <1>4, <1>5, <1>6


(* The call and what is left of it survive while the Agent goes on or      *)
(* hangs up; hanging up may leave its request behind.                      *)
LEMMA CallStays ==
  ASSUME DeliveryTypeOK, CallIsKnown, StoreKeeps, HostKeeps,
         \A c \in inbox' : c \in Cmds /\ (c \in inbox \/ cmd'[c].phase # "absent"),
         orphans' \subseteq orphans \cup ({listener} \ {X!None}),
         \/ UNCHANGED <<calling, listener, answer>>
         \/ UNCHANGED <<calling, answer>> /\ listener' = X!None
         \/ calling' = NoCall /\ listener' = X!None /\ answer' = X!None
  PROVE  CallIsKnown'
<1>1. \A c \in inbox' : ~Unused(c)'
  BY DEF StoreKeeps, CallIsKnown, Unused
<1>2. ASSUME NEW c \in Cmds, Known(c)
      PROVE  Known(c)' /\ Job(c)' = Job(c)
  BY <1>2 DEF StoreKeeps, SameKind, SameTarget, Job
<1>3. calling # NoCall => calling.cmd \in Cmds /\ Known(calling.cmd)
  BY DEF DeliveryTypeOK, CallIsKnown
<1>4. calling' # NoCall => calling' = calling /\ calling # NoCall
  OBVIOUS
<1>5. calling' # NoCall => Known(calling.cmd)'
  BY <1>2, <1>3, <1>4 DEF Known
<1>6. listener' # X!None =>
         /\ calling' = calling /\ calling # NoCall /\ calling.asked /\ answer' = X!None
         /\ listener' = Job(calling.cmd)
  BY DEF CallIsKnown
<1>7. calling # NoCall /\ calling' = calling => Job(calling.cmd)' = Job(calling.cmd)
  BY <1>2, <1>3 DEF Job
<1>8. answer' # X!None =>
         /\ calling' = calling /\ calling # NoCall /\ calling.asked /\ answer' = answer
         /\ answer.reply \in Submission /\ Earned(calling.cmd, answer.reply)
  BY DEF CallIsKnown
<1>9. answer' # X!None => Earned(calling.cmd, answer.reply)'
  <2> SUFFICES ASSUME answer' # X!None
               PROVE  Earned(calling.cmd, answer.reply)'
    OBVIOUS
  <2> DEFINE c == calling.cmd
             reply == answer.reply
  <2>1. Outcome(cmd'[c].type, act'[cmd'[c].action].kind, reply).ok => host'[c].effect = "done"
    BY <1>3, <1>8, EarnedStays
  <2> QED
    BY <1>8, <2>1 DEF Earned
<1>10. ASSUME NEW job \in orphans'
       PROVE  job.attempt \in Cmds /\ Known(job.attempt)' /\ job = Job(job.attempt)'
  <2>1. CASE job \in orphans
    BY <1>2, <2>1 DEF CallIsKnown
  <2>2. CASE job = listener /\ listener # X!None
    <3>1. calling # NoCall /\ job = Job(calling.cmd)
      BY <2>2 DEF CallIsKnown
    <3>2. job.attempt = calling.cmd
      BY <3>1 DEF Job
    <3> QED
      BY <1>2, <1>3, <3>1, <3>2
  <2> QED
    BY <1>10, <2>1, <2>2
<1> QED
  BY <1>1, <1>4, <1>5, <1>6, <1>7, <1>8, <1>9, <1>10 DEF CallIsKnown

(* What may be left behind are jobs.                                       *)
LEMMA OrphansStay ==
  ASSUME TypeOK, DeliveryTypeOK, CallIsKnown,
         orphans' \subseteq orphans \cup ({listener} \ {X!None})
  PROVE  orphans' \subseteq X!Job
<1>1. listener # X!None => listener \in X!Job
  BY JobOfKnown DEF CallIsKnown, DeliveryTypeOK
<1> QED
  BY <1>1 DEF DeliveryTypeOK

(* Hanging up is that.                                                     *)
LEMMA HangUpLeaves ==
  ASSUME CallIsKnown, IF Waiting THEN X!HangUp ELSE UNCHANGED helper
  PROVE  /\ listener' = X!None /\ answer' = X!None /\ UNCHANGED host
         /\ orphans' \subseteq orphans \cup ({listener} \ {X!None})
BY DEF Waiting, X!HangUp, helper

(* A step of the store keeps the store's part, and what it keeps for us.   *)
LEMMA StoreStays ==
  ASSUME SafetyInv, [AnyNext]_vars
  PROVE  SafetyInv' /\ StoreKeeps /\ TypeOK /\ TypeOK'
BY StepSafe, StepsKeep

(* A store that is left alone claims nothing.                              *)
LEMMA QuietStore ==
  ASSUME UNCHANGED store
  PROVE  [AnyNext]_vars /\ \A b \in Actions : NothingClaimed(b)
BY DEF store, vars, NothingClaimed

(* A queue of well-formed entries that fits is typed.                      *)
LEMMA QueueTyped ==
  ASSUME NEW q \in Seq([cmd : Cmds, reply : Submission])
  PROVE  \A i \in DOMAIN q : q[i].cmd \in Cmds /\ q[i].reply \in Submission
<1>1. \A i \in 1..Len(q) : q[i] \in [cmd : Cmds, reply : Submission]
  BY ElementOfSeq
<1>2. DOMAIN q = 1..Len(q)
  OBVIOUS
<1> QED
  BY <1>1, <1>2


(* The invariant after a step, part by part.                               *)
LEMMA Together ==
  ASSUME SafetyInv', TouchedAreKnown', CallIsKnown', QueueIsEarned', SuccessIsReal',
         inbox' \subseteq Cmds,
         calling' = NoCall \/ calling' \in [cmd : Cmds, asked : BOOLEAN],
         Len(fifo') <= MaxQueue,
         orphans' \subseteq X!Job,
         host' \in [Cmds -> [runs : 0..1, effect : X!Effects]]
  PROVE  DeliveryInv'
<1>1. fifo' \in Seq([cmd : Cmds, reply : Submission])
  BY DEF QueueIsEarned
<1>2. \A i \in DOMAIN fifo' : fifo'[i].cmd \in Cmds /\ fifo'[i].reply \in Submission
  BY <1>1, QueueTyped
<1> QED
  BY <1>2 DEF DeliveryInv, DeliveryTypeOK

(* What the host went through stays known while the host is left alone.    *)
LEMMA TouchedStays ==
  ASSUME TouchedAreKnown, StoreKeeps, UNCHANGED host
  PROVE  TouchedAreKnown' /\ HostKeeps
BY DEF TouchedAreKnown, StoreKeeps, HostKeeps, Known

-----------------------------------------------------------------------------
(* Every step.                                                             *)

(* The Controller's own steps.                                             *)
LEMMA ControllerDelivers ==
  ASSUME DeliveryInv, ControllerStep
  PROVE  DeliveryInv'
<1>1. [AnyNext]_vars /\ UNCHANGED <<digest, inbox, calling, fifo, listener, orphans, host, answer>>
  BY DEF ControllerStep, AnyNext, helper
<1>2. SafetyInv' /\ StoreKeeps /\ TypeOK
  BY <1>1, StoreStays DEF DeliveryInv
<1>3. TouchedAreKnown' /\ HostKeeps
  BY <1>1, <1>2, TouchedStays DEF DeliveryInv
<1>4. CallIsKnown'
  BY <1>1, <1>2, <1>3, CallStays DEF DeliveryInv, DeliveryTypeOK
<1>5. QueueIsEarned'
  BY <1>1, <1>2, <1>3, QueueStays DEF DeliveryInv
<1>6. SuccessIsReal'
  BY <1>2, <1>3, ControllerClaimsNothing, SuccessStays DEF DeliveryInv, ControllerStep
<1> QED
  BY <1>1, <1>2, <1>3, <1>4, <1>5, <1>6, Together DEF DeliveryInv, DeliveryTypeOK

(* A sync.                                                                 *)
LEMMA SyncDelivers ==
  ASSUME DeliveryInv, Sync
  PROVE  DeliveryInv'
<1>1. /\ ClaimCommands /\ UNCHANGED <<digest, calling, fifo, listener, orphans, host, answer>>
      /\ [AnyNext]_vars
  BY DEF Sync, AnyNext, AnyAgentRequest, helper
<1>2. SafetyInv' /\ StoreKeeps /\ TypeOK
  BY <1>1, StoreStays DEF DeliveryInv
<1>3. TouchedAreKnown' /\ HostKeeps
  BY <1>1, <1>2, TouchedStays DEF DeliveryInv
<1>4. ASSUME NEW c \in inbox'
      PROVE  c \in Cmds /\ cmd'[c].phase # "absent"
  <2>1. c \in ClaimableIn(SweptCmds)
    BY <1>4 DEF Sync
  <2>2. c \in Cmds /\ SweptCmds[c].phase \in OpenPhases /\ SweptCmds[c] \in CommandRow
    BY <1>2, <2>1, SweptRows DEF ClaimableIn
  <2>3. cmd'[c] = [SweptCmds[c] EXCEPT !.lease = ClaimLease]
    BY <1>1, <2>1, <2>2 DEF ClaimCommands
  <2> QED
    BY <2>2, <2>3 DEF CommandRow, OpenPhases
<1>5. CallIsKnown'
  BY <1>1, <1>2, <1>3, <1>4, CallStays DEF DeliveryInv
<1>6. QueueIsEarned'
  BY <1>1, <1>2, <1>3, QueueStays DEF DeliveryInv
<1>7. SuccessIsReal'
  BY <1>1, <1>2, <1>3, GateClaimsNothing, SuccessStays DEF DeliveryInv
<1> QED
  BY <1>1, <1>2, <1>3, <1>4, <1>5, <1>6, <1>7, Together DEF DeliveryInv, DeliveryTypeOK

(* A command the gate keeps back.                                          *)
LEMMA GateClosedDelivers ==
  ASSUME DeliveryInv, NEW c \in Cmds, GateClosed(c)
  PROVE  DeliveryInv'
<1>1. /\ UNCHANGED <<digest, calling, fifo, listener, orphans, host, answer>>
      /\ inbox' \subseteq inbox /\ inbox \subseteq Cmds
      /\ StartActionCommand(c) \/ UNCHANGED store
  BY DEF GateClosed, helper, DeliveryInv, DeliveryTypeOK
<1>2. [AnyNext]_vars
  BY <1>1, QuietStore DEF AnyNext, AnyAgentRequest
<1>3. SafetyInv' /\ StoreKeeps /\ TypeOK
  BY <1>2, StoreStays DEF DeliveryInv
<1>4. TouchedAreKnown' /\ HostKeeps
  BY <1>1, <1>3, TouchedStays DEF DeliveryInv
<1>5. CallIsKnown'
  BY <1>1, <1>3, <1>4, CallStays DEF DeliveryInv
<1>6. QueueIsEarned'
  BY <1>1, <1>3, <1>4, QueueStays DEF DeliveryInv
<1>7. \A b \in Actions : NothingClaimed(b)
  BY <1>1, <1>3, GateClaimsNothing, QuietStore
<1>8. SuccessIsReal'
  BY <1>3, <1>4, <1>7, SuccessStays DEF DeliveryInv
<1> QED
  BY <1>1, <1>3, <1>4, <1>5, <1>6, <1>8, Together DEF DeliveryInv, DeliveryTypeOK


(* What may still begin stays known.                                       *)
LEMMA OrphansKept ==
  ASSUME CallIsKnown, StoreKeeps, orphans' \subseteq orphans
  PROVE  \A job \in orphans' :
           job.attempt \in Cmds /\ Known(job.attempt)' /\ job = Job(job.attempt)'
<1>1. ASSUME NEW c \in Cmds, Known(c)
      PROVE  Known(c)' /\ Job(c)' = Job(c)
  BY <1>1 DEF StoreKeeps, SameKind, SameTarget, Job
<1> QED
  BY <1>1 DEF CallIsKnown

(* A command that passed the gate.                                         *)
LEMMA GatePassedDelivers ==
  ASSUME DeliveryInv, NEW c \in Cmds, GatePassed(c)
  PROVE  DeliveryInv'
<1>1. /\ UNCHANGED <<digest, fifo, listener, orphans, host, answer>>
      /\ inbox' \subseteq inbox /\ inbox \subseteq Cmds
      /\ calling = NoCall /\ calling' = [cmd |-> c, asked |-> FALSE] /\ ForAction(c)
      /\ \/ StartAuthorized(c)
         \/ cmd[c].phase = "started" /\ UNCHANGED store
  BY DEF GatePassed, Ready, ForAction, helper, DeliveryInv, DeliveryTypeOK
<1>2. [AnyNext]_vars
  BY <1>1, QuietStore DEF AnyNext, AnyAgentRequest, StartActionCommand
<1>3. SafetyInv' /\ StoreKeeps /\ TypeOK /\ InFlightInv
  BY <1>2, StoreStays DEF DeliveryInv, SafetyInv
<1>4. TouchedAreKnown' /\ HostKeeps
  BY <1>1, <1>3, TouchedStays DEF DeliveryInv
<1>5. Known(c)'
  <2>1. CASE StartAuthorized(c)
    <3> DEFINE a == cmd[c].action
    <3>1. /\ a \in Actions /\ act[a] \in ActionRow /\ DOMAIN act = Actions
          /\ cmd[c] \in CommandRow /\ DOMAIN cmd = Cmds
      BY <1>1, <1>3 DEF InFlightInv, Addressed, ForAction, TypeOK
    <3>2. cmd'[c].phase = "started" /\ cmd'[c].type = cmd[c].type /\ cmd'[c].action = a
      BY <2>1, <3>1 DEF StartAuthorized, CommandRow
    <3>3. act'[a].status \in {"executing", "rolling_back", "confirming"}
      BY <2>1, <3>1 DEF StartAuthorized, ActionRow, Expecting
    <3> QED
      BY <1>1, <3>1, <3>2, <3>3 DEF Known, ForAction
  <2>2. CASE cmd[c].phase = "started" /\ UNCHANGED store
    BY <1>1, <1>3, <2>2, StartedIsKnown DEF StoreKeeps
  <2> QED
    BY <1>1, <2>1, <2>2
<1>6. CallIsKnown'
  <2>1. listener' = X!None /\ answer' = X!None /\ calling'.cmd = c
    BY <1>1 DEF DeliveryInv, CallIsKnown
  <2>2. Known(calling.cmd)'
    BY <1>5, <2>1 DEF Known
  <2>3. \A d \in inbox' : ~Unused(d)'
    BY <1>1, <1>3 DEF StoreKeeps, DeliveryInv, CallIsKnown
  <2>4. \A job \in orphans' :
          job.attempt \in Cmds /\ Known(job.attempt)' /\ job = Job(job.attempt)'
    BY <1>1, <1>3, OrphansKept DEF DeliveryInv
  <2> QED
    BY <2>1, <2>2, <2>3, <2>4 DEF CallIsKnown
<1>7. QueueIsEarned'
  BY <1>1, <1>3, <1>4, QueueStays DEF DeliveryInv
<1>8. \A b \in Actions : NothingClaimed(b)
  BY <1>1, <1>3, GateClaimsNothing, QuietStore DEF StartActionCommand
<1>9. SuccessIsReal'
  BY <1>3, <1>4, <1>8, SuccessStays DEF DeliveryInv
<1> QED
  BY <1>1, <1>3, <1>4, <1>6, <1>7, <1>9, Together DEF DeliveryInv, DeliveryTypeOK

(* The Agent asks the Helper.                                              *)
LEMMA CallDelivers ==
  ASSUME DeliveryInv, CallHelper
  PROVE  DeliveryInv'
<1>1. /\ UNCHANGED store /\ UNCHANGED <<digest, inbox, fifo, orphans, host, answer>>
      /\ calling # NoCall /\ calling \in [cmd : Cmds, asked : BOOLEAN]
      /\ calling' = [calling EXCEPT !.asked = TRUE]
      /\ answer = X!None /\ listener' = Job(calling.cmd)
  BY DEF CallHelper, X!Ask, DeliveryInv, DeliveryTypeOK
<1>2. [AnyNext]_vars /\ \A b \in Actions : NothingClaimed(b)
  BY <1>1, QuietStore
<1>3. SafetyInv' /\ StoreKeeps
  BY <1>2, StoreStays DEF DeliveryInv
<1>4. TouchedAreKnown' /\ HostKeeps
  BY <1>1, <1>3, TouchedStays DEF DeliveryInv
<1>5. calling' \in [cmd : Cmds, asked : BOOLEAN] /\ calling'.cmd = calling.cmd /\ calling'.asked
  BY <1>1
<1>6. CallIsKnown'
  <2>1. Known(calling.cmd) /\ calling.cmd \in Cmds
    BY <1>1 DEF DeliveryInv, CallIsKnown
  <2>2. Known(calling.cmd)'
    BY <1>1, <1>5, <2>1 DEF Known, ForAction, store
  <2>3. calling' # NoCall
    BY <1>5 DEF NoCall
  <2>4. listener' = Job(calling.cmd)'
    BY <1>1, <1>5 DEF Job, store
  <2>5. \A d \in inbox' : ~Unused(d)'
    BY <1>1 DEF DeliveryInv, CallIsKnown, Unused, store
  <2>6. \A job \in orphans' :
          job.attempt \in Cmds /\ Known(job.attempt)' /\ job = Job(job.attempt)'
    BY <1>1, <1>3, OrphansKept DEF DeliveryInv
  <2> QED
    BY <1>1, <1>5, <2>2, <2>3, <2>4, <2>5, <2>6 DEF CallIsKnown
<1>7. QueueIsEarned'
  BY <1>1, <1>3, <1>4, QueueStays DEF DeliveryInv
<1>8. SuccessIsReal'
  BY <1>2, <1>3, <1>4, SuccessStays DEF DeliveryInv
<1> QED
  BY <1>1, <1>3, <1>4, <1>5, <1>6, <1>7, <1>8, Together DEF DeliveryInv, DeliveryTypeOK

(* The call ends, whether an answer was heard or not, and its result is    *)
(* queued; or the Agent stops and starts again, and nothing is.            *)
LEMMA CallEnds ==
  ASSUME DeliveryInv, UNCHANGED store, inbox' \in {inbox, {}}, calling' = NoCall,
         listener' = X!None, answer' = X!None, UNCHANGED host,
         orphans' \subseteq orphans \cup ({listener} \ {X!None}),
         \/ UNCHANGED fifo
         \/ \E reply \in Submission : /\ calling # NoCall /\ Earned(calling.cmd, reply)
                                      /\ Enqueue(calling.cmd, reply)
  PROVE  DeliveryInv'
<1>1. [AnyNext]_vars /\ \A b \in Actions : NothingClaimed(b)
  BY QuietStore
<1>2. SafetyInv' /\ StoreKeeps /\ TypeOK
  BY <1>1, StoreStays DEF DeliveryInv
<1>3. TouchedAreKnown' /\ HostKeeps
  BY <1>2, TouchedStays DEF DeliveryInv
<1>4. \A c \in inbox' : c \in Cmds /\ c \in inbox
  BY DEF DeliveryInv, DeliveryTypeOK
<1>5. CallIsKnown' /\ orphans' \subseteq X!Job
  BY <1>2, <1>3, <1>4, CallStays, OrphansStay DEF DeliveryInv
<1>6. QueueIsEarned' /\ Len(fifo') <= MaxQueue
  <2>1. CASE UNCHANGED fifo
    BY <1>2, <1>3, <2>1, QueueStays DEF DeliveryInv, DeliveryTypeOK
  <2>2. CASE ~UNCHANGED fifo
    <3>1. PICK reply \in Submission :
            /\ calling # NoCall /\ Earned(calling.cmd, reply)
            /\ Len(fifo) < MaxQueue
            /\ fifo' = Append(fifo, [cmd |-> calling.cmd, reply |-> reply])
      BY <2>2 DEF Enqueue
    <3>2. calling.cmd \in Cmds /\ Known(calling.cmd)
      BY <3>1 DEF DeliveryInv, DeliveryTypeOK, CallIsKnown
    <3>3. ~Unused(calling.cmd)
      BY <3>2 DEF Known, Unused
    <3>4. QueueIsEarned'
      BY <1>2, <1>3, <3>1, <3>2, <3>3, QueueStays DEF DeliveryInv
    <3>5. Len(fifo') = Len(fifo) + 1 /\ Len(fifo) \in Nat
      BY <3>1 DEF DeliveryInv, QueueIsEarned
    <3> QED
      BY <3>1, <3>4, <3>5, QueueAssumption
  <2> QED
    BY <2>1, <2>2
<1>7. SuccessIsReal'
  BY <1>1, <1>2, <1>3, SuccessStays DEF DeliveryInv
<1> QED
  BY <1>2, <1>3, <1>4, <1>5, <1>6, <1>7, Together DEF DeliveryInv, DeliveryTypeOK


(* An answer is heard.                                                     *)
LEMMA HearDelivers ==
  ASSUME DeliveryInv, HearReply
  PROVE  DeliveryInv'
<1>1. /\ UNCHANGED store /\ UNCHANGED <<inbox, orphans, host, listener>>
      /\ calling # NoCall /\ calling' = NoCall /\ answer # X!None /\ answer' = X!None
      /\ Enqueue(calling.cmd, answer.reply)
  BY DEF HearReply, Sign, X!Hear
<1>2. listener' = X!None /\ answer.reply \in Submission /\ Earned(calling.cmd, answer.reply)
  BY <1>1 DEF DeliveryInv, CallIsKnown
<1> QED
  BY <1>1, <1>2, CallEnds

(* No answer is heard, or the Agent stops.                                 *)
LEMMA SilenceDelivers ==
  ASSUME DeliveryInv, HelperUnavailable \/ HelperSilent \/ AgentRestart
  PROVE  DeliveryInv'
<1>1. ASSUME NEW reply \in {X!Refused, X!Interrupted}
      PROVE  reply \in Submission /\ Earned(calling.cmd, reply)
  BY PlainResults DEF Earned
<1>2. CASE HelperUnavailable
  <2>1. listener = X!None /\ answer = X!None
    BY <1>2 DEF HelperUnavailable, DeliveryInv, CallIsKnown
  <2> QED
    BY <1>1, <1>2, <2>1, CallEnds DEF HelperUnavailable, Sign, helper
<1>3. CASE HelperSilent
  <2>1. /\ listener' = X!None /\ answer' = X!None /\ UNCHANGED host
        /\ orphans' \subseteq orphans \cup ({listener} \ {X!None})
    BY <1>3, HangUpLeaves DEF HelperSilent, DeliveryInv
  <2> QED
    BY <1>1, <1>3, <2>1, CallEnds DEF HelperSilent, Sign
<1>4. CASE AgentRestart
  <2>1. /\ listener' = X!None /\ answer' = X!None /\ UNCHANGED host
        /\ orphans' \subseteq orphans \cup ({listener} \ {X!None})
    BY <1>4, HangUpLeaves DEF AgentRestart, DeliveryInv
  <2> QED
    BY <1>4, <2>1, CallEnds DEF AgentRestart
<1> QED
  BY <1>2, <1>3, <1>4

(* A scan is done and its report queued.                                   *)
LEMMA ScanDelivers ==
  ASSUME DeliveryInv, NEW c \in Cmds, HandleScan(c)
  PROVE  DeliveryInv'
<1>1. /\ UNCHANGED store /\ UNCHANGED <<calling, listener, orphans, host, answer>>
      /\ c \in inbox /\ ~ForAction(c) /\ inbox' = inbox \ {c}
      /\ \E id \in ResultIds :
           Enqueue(c, [X!Refused EXCEPT !.id = id, !.ok = TRUE, !.error = "none"])
  BY DEF HandleScan, ForAction, helper
<1>2. [AnyNext]_vars /\ \A b \in Actions : NothingClaimed(b)
  BY <1>1, QuietStore
<1>3. SafetyInv' /\ StoreKeeps
  BY <1>2, StoreStays DEF DeliveryInv
<1>4. TouchedAreKnown' /\ HostKeeps
  BY <1>1, <1>3, TouchedStays DEF DeliveryInv
<1>5. CallIsKnown'
  BY <1>1, <1>3, <1>4, CallStays DEF DeliveryInv, DeliveryTypeOK
<1>6. QueueIsEarned' /\ Len(fifo') <= MaxQueue
  <2>1. PICK reply \in Submission : Enqueue(c, reply)
    BY <1>1, PlainResults
  <2>2. CASE UNCHANGED fifo
    BY <1>3, <1>4, <2>2, QueueStays DEF DeliveryInv, DeliveryTypeOK
  <2>3. CASE ~UNCHANGED fifo
    <3>1. Len(fifo) < MaxQueue /\ fifo' = Append(fifo, [cmd |-> c, reply |-> reply])
      BY <2>1, <2>3 DEF Enqueue
    <3>2. ~Unused(c)
      BY <1>1 DEF DeliveryInv, CallIsKnown
    <3>3. QueueIsEarned'
      BY <1>1, <1>3, <1>4, <3>1, <3>2, QueueStays DEF DeliveryInv
    <3>4. Len(fifo') = Len(fifo) + 1 /\ Len(fifo) \in Nat
      BY <3>1 DEF DeliveryInv, QueueIsEarned
    <3> QED
      BY <3>1, <3>3, <3>4, QueueAssumption
  <2> QED
    BY <2>2, <2>3
<1>7. SuccessIsReal'
  BY <1>2, <1>3, <1>4, SuccessStays DEF DeliveryInv
<1> QED
  BY <1>1, <1>3, <1>4, <1>5, <1>6, <1>7, Together DEF DeliveryInv, DeliveryTypeOK

(* The oldest result is posted.                                            *)
LEMMA FlushDelivers ==
  ASSUME DeliveryInv, Flush
  PROVE  DeliveryInv'
<1> DEFINE c == Head(fifo).cmd
           reply == Head(fifo).reply
<1>1. /\ fifo # <<>> /\ fifo' \in {fifo, Tail(fifo)}
      /\ UNCHANGED <<inbox, calling, listener, orphans, host, answer>>
      /\ Complete(c, reply) \/ UNCHANGED store
  BY DEF Flush, FirstResult, helper
<1>2. fifo \in Seq([cmd : Cmds, reply : Submission]) /\ Len(fifo) \in Nat
  BY DEF DeliveryInv, QueueIsEarned
<1>3. Head(fifo) = fifo[1] /\ 1 \in DOMAIN fifo
  BY <1>1, <1>2
<1>4. /\ c \in Cmds /\ reply \in Submission
      /\ ForAction(c) => Earned(c, reply)
  BY <1>2, <1>3, QueueTyped DEF DeliveryInv, QueueIsEarned
<1> HIDE DEF c, reply
<1>5. [AnyNext]_vars
  BY <1>1, <1>4, QuietStore DEF AnyNext, AnyAgentRequest, AnyResult, Complete
<1>6. SafetyInv' /\ StoreKeeps /\ InFlightInv
  BY <1>5, StoreStays DEF DeliveryInv, SafetyInv
<1>7. TouchedAreKnown' /\ HostKeeps
  BY <1>1, <1>6, TouchedStays DEF DeliveryInv
<1>8. CallIsKnown'
  BY <1>1, <1>6, <1>7, CallStays DEF DeliveryInv, DeliveryTypeOK
<1>9. QueueIsEarned'
  BY <1>1, <1>6, <1>7, QueueStays DEF DeliveryInv
<1>10. \A b \in Actions : NothingClaimed(b) \/ ClaimEarned(b)
  BY <1>1, <1>4, <1>6, ResultClaims, QuietStore
<1>11. SuccessIsReal'
  BY <1>6, <1>7, <1>10, SuccessStays DEF DeliveryInv
<1>12. Len(fifo') <= MaxQueue
  <2>1. Len(Tail(fifo)) = Len(fifo) - 1 /\ Len(fifo) <= MaxQueue
    BY <1>1, <1>2, HeadTailProperties DEF DeliveryInv, DeliveryTypeOK
  <2> QED
    BY <1>1, <1>2, <2>1, QueueAssumption
<1> QED
  BY <1>1, <1>6, <1>7, <1>8, <1>9, <1>11, <1>12, Together DEF DeliveryInv, DeliveryTypeOK


(* A step of the Helper leaves the host ready to be spoken of.             *)
LEMMA HelperChanges ==
  ASSUME DeliveryInv, HelperStep
  PROVE  /\ UNCHANGED store /\ UNCHANGED <<inbox, calling, fifo>>
         /\ host' \in [Cmds -> [runs : 0..1, effect : X!Effects]]
         /\ \A c \in Cmds : /\ host[c].effect = "done" => host'[c].effect = "done"
                            /\ host'[c].runs = 0 => host'[c].effect = "none"
                            /\ host'[c].runs > 0 => Known(c)
         /\ orphans' \subseteq orphans
         /\ listener' \in {listener, X!None}
         /\ \/ answer' = answer
            \/ /\ listener # X!None /\ listener' = X!None
               /\ \E reply \in X!Replies(listener) :
                    X!Truthful(listener, reply) /\ answer' = X!Answered(listener, reply)
<1>0. UNCHANGED store /\ UNCHANGED <<inbox, calling, fifo>> /\ X!Work
  BY DEF HelperStep
<1>1. /\ host \in [Cmds -> [runs : 0..1, effect : X!Effects]]
      /\ \A c \in Cmds : /\ host[c].runs = 0 => host[c].effect = "none"
                         /\ host[c].runs > 0 => Known(c)
  BY DEF DeliveryInv, DeliveryTypeOK, TouchedAreKnown
<1>2. ASSUME NEW job \in orphans \cup ({listener} \ {X!None})
      PROVE  job.attempt \in Cmds /\ Known(job.attempt)
  BY <1>2 DEF DeliveryInv, CallIsKnown, DeliveryTypeOK, Job
<1>3. ASSUME NEW job \in orphans \cup ({listener} \ {X!None}), X!Start(job)
      PROVE  /\ host' \in [Cmds -> [runs : 0..1, effect : X!Effects]]
             /\ \A c \in Cmds : /\ host[c].effect = "done" => host'[c].effect = "done"
                                /\ host'[c].runs = 0 => host'[c].effect = "none"
                                /\ host'[c].runs > 0 => Known(c)
             /\ orphans' \subseteq orphans /\ UNCHANGED <<listener, answer>>
  <2>1. /\ host[job.attempt].runs = 0
        /\ host' = [host EXCEPT ![job.attempt] = [runs |-> 1, effect |-> "unsure"]]
        /\ orphans' \subseteq orphans /\ UNCHANGED <<listener, answer>>
    BY <1>3 DEF X!Start
  <2>2. [runs |-> 1, effect |-> "unsure"] \in [runs : 0..1, effect : X!Effects]
    BY DEF X!Effects
  <2>3. host' \in [Cmds -> [runs : 0..1, effect : X!Effects]]
    BY <1>1, <2>1, <2>2
  <2>4. ASSUME NEW c \in Cmds
        PROVE  host'[c] = IF c = job.attempt THEN [runs |-> 1, effect |-> "unsure"] ELSE host[c]
    BY <1>1, <2>1
  <2> QED
    BY <1>1, <1>2, <2>1, <2>3, <2>4
<1>4. ASSUME NEW a \in Cmds, X!Settle(a)
      PROVE  /\ host' \in [Cmds -> [runs : 0..1, effect : X!Effects]]
             /\ \A c \in Cmds : /\ host[c].effect = "done" => host'[c].effect = "done"
                                /\ host'[c].runs = 0 => host'[c].effect = "none"
                                /\ host'[c].runs > 0 => Known(c)
             /\ UNCHANGED <<orphans, listener, answer>>
  <2>1. PICK e \in {"none", "done"} : host' = [host EXCEPT ![a].effect = e]
    BY <1>4 DEF X!Settle
  <2>2. host[a].effect = "unsure" /\ UNCHANGED <<orphans, listener, answer>>
    BY <1>4 DEF X!Settle
  <2>3. host'[a] = [host[a] EXCEPT !.effect = e] /\ \A c \in Cmds \ {a} : host'[c] = host[c]
    BY <1>1, <2>1
  <2>4. host[a] \in [runs : 0..1, effect : X!Effects]
    BY <1>1
  <2>5. /\ host'[a] \in [runs : 0..1, effect : X!Effects]
        /\ host'[a].runs = host[a].runs /\ host'[a].effect = e
    BY <2>3, <2>4 DEF X!Effects
  <2>6. host' \in [Cmds -> [runs : 0..1, effect : X!Effects]]
    BY <1>1, <2>1, <2>3, <2>5
  <2> QED
    BY <1>1, <2>2, <2>3, <2>5, <2>6
<1>5. ASSUME NEW job \in orphans, X!Leave(job)
      PROVE  UNCHANGED <<host, listener, answer>> /\ orphans' \subseteq orphans
  BY <1>5 DEF X!Leave
<1>6. ASSUME NEW reply \in X!Replies(listener), X!Reply(reply)
      PROVE  /\ UNCHANGED <<host, orphans>> /\ listener' = X!None
             /\ X!Truthful(listener, reply) /\ answer' = X!Answered(listener, reply)
  BY <1>6 DEF X!Reply
<1>7. X!Break => /\ UNCHANGED <<host, answer>> /\ listener' = X!None /\ orphans' \subseteq orphans
  BY DEF X!Break
<1> QED
  BY <1>0, <1>1, <1>3, <1>4, <1>5, <1>6, <1>7 DEF X!Work

(* A step of the Helper.                                                   *)
LEMMA HelperDelivers ==
  ASSUME DeliveryInv, HelperStep
  PROVE  DeliveryInv'
<1>1. /\ UNCHANGED store /\ UNCHANGED <<inbox, calling, fifo>>
      /\ host' \in [Cmds -> [runs : 0..1, effect : X!Effects]]
      /\ orphans' \subseteq orphans /\ listener' \in {listener, X!None}
  BY HelperChanges
<1>2. [AnyNext]_vars /\ \A b \in Actions : NothingClaimed(b)
  BY <1>1, QuietStore
<1>3. SafetyInv' /\ StoreKeeps
  BY <1>2, StoreStays DEF DeliveryInv
<1>4. TouchedAreKnown' /\ HostKeeps
  BY <1>3, HelperChanges DEF TouchedAreKnown, HostKeeps, StoreKeeps
<1>5. CallIsKnown'
  <2>1. CASE answer' = answer
    <3>1. \/ UNCHANGED <<calling, listener, answer>>
          \/ UNCHANGED <<calling, answer>> /\ listener' = X!None
      BY <1>1, <2>1
    <3> QED
      BY <1>1, <1>3, <1>4, <3>1, CallStays DEF DeliveryInv, DeliveryTypeOK
  <2>2. CASE answer' # answer
    <3>1. PICK reply \in X!Replies(listener) :
            X!Truthful(listener, reply) /\ answer' = X!Answered(listener, reply)
      BY <2>2, HelperChanges
    <3>2. PICK c \in Cmds :
            /\ c = calling.cmd /\ Known(c)
            /\ listener = Job(c) /\ listener' = X!None
            /\ calling # NoCall /\ calling.asked
      BY <2>2, HelperChanges DEF DeliveryInv, CallIsKnown, DeliveryTypeOK
    <3>3. reply \in Submission /\ Earned(c, reply)
      BY <3>1, <3>2, RepliesAreResults, OutcomeAgrees DEF X!Truthful, Job, Earned
    <3>4. answer'.reply = reply
      BY <3>1 DEF X!Answered
    <3>5. /\ Known(c)'
          /\ Outcome(cmd'[c].type, act'[cmd'[c].action].kind, reply).ok => host'[c].effect = "done"
      BY <1>3, <1>4, <3>2, <3>3, EarnedStays
    <3>6. Known(calling.cmd)' /\ Earned(calling.cmd, answer.reply)'
      BY <1>1, <3>2, <3>4, <3>5 DEF Known, ForAction, Earned
    <3>7. \A d \in inbox' : ~Unused(d)'
      BY <1>1 DEF DeliveryInv, CallIsKnown, Unused, store
    <3>8. \A job \in orphans' :
            job.attempt \in Cmds /\ Known(job.attempt)' /\ job = Job(job.attempt)'
      BY <1>1, <1>3, OrphansKept DEF DeliveryInv
    <3> QED
      BY <1>1, <3>2, <3>3, <3>4, <3>6, <3>7, <3>8 DEF CallIsKnown
  <2> QED
    BY <2>1, <2>2
<1>6. QueueIsEarned'
  BY <1>1, <1>3, <1>4, QueueStays DEF DeliveryInv
<1>7. SuccessIsReal'
  BY <1>2, <1>3, <1>4, SuccessStays DEF DeliveryInv
<1> QED
  BY <1>1, <1>3, <1>4, <1>5, <1>6, <1>7, Together DEF DeliveryInv, DeliveryTypeOK


(* Every step of the whole keeps the invariant.                            *)
LEMMA StepDelivers ==
  ASSUME DeliveryInv, [DeliveryNext]_delivery
  PROVE  DeliveryInv'
<1>1. CASE AgentStep
  BY <1>1, SyncDelivers, CallDelivers, HearDelivers, SilenceDelivers, FlushDelivers,
     ScanDelivers, GateClosedDelivers, GatePassedDelivers DEF AgentStep
<1>2. CASE UNCHANGED delivery
  <2>1. /\ UNCHANGED store /\ UNCHANGED <<inbox, calling, fifo, listener, orphans, host, answer>>
    BY <1>2 DEF delivery, store
  <2>2. [AnyNext]_vars /\ \A b \in Actions : NothingClaimed(b)
    BY <2>1, QuietStore
  <2>3. SafetyInv' /\ StoreKeeps
    BY <2>2, StoreStays DEF DeliveryInv
  <2>4. TouchedAreKnown' /\ HostKeeps
    BY <2>1, <2>3, TouchedStays DEF DeliveryInv
  <2>5. CallIsKnown'
    BY <2>1, <2>3, <2>4, CallStays DEF DeliveryInv, DeliveryTypeOK
  <2>6. QueueIsEarned'
    BY <2>1, <2>3, <2>4, QueueStays DEF DeliveryInv
  <2>7. SuccessIsReal'
    BY <2>2, <2>3, <2>4, SuccessStays DEF DeliveryInv
  <2> QED
    BY <2>1, <2>3, <2>4, <2>5, <2>6, <2>7, Together DEF DeliveryInv, DeliveryTypeOK
<1> QED
  BY <1>1, <1>2, ControllerDelivers, HelperDelivers DEF DeliveryNext

(* Nothing is under way at the start.                                      *)
LEMMA InitDelivers ==
  ASSUME DeliveryInit
  PROVE  DeliveryInv
<1>1. SafetyInv
  BY InitSafe DEF DeliveryInit
<1>2. /\ listener = X!None /\ orphans = {} /\ answer = X!None
      /\ host = [a \in Cmds |-> [runs |-> 0, effect |-> "none"]]
      /\ inbox = {} /\ calling = NoCall /\ fifo = <<>>
      /\ \A a \in Actions : act[a].status = "absent"
  BY DEF DeliveryInit, Init, X!Init
<1>3. DeliveryTypeOK
  BY <1>2, QueueAssumption DEF DeliveryTypeOK, X!Effects
<1>4. TouchedAreKnown
  BY <1>2 DEF TouchedAreKnown
<1>5. CallIsKnown
  BY <1>2 DEF CallIsKnown
<1>6. QueueIsEarned
  BY <1>2 DEF QueueIsEarned
<1>7. SuccessIsReal
  BY <1>2 DEF SuccessIsReal
<1> QED
  BY <1>1, <1>3, <1>4, <1>5, <1>6, <1>7 DEF DeliveryInv

(* The whole is never outside of it.                                       *)
LEMMA DeliveryIsSafe == DeliverySpec => []DeliveryInv
<1>1. DeliveryInv /\ [DeliveryNext]_delivery => DeliveryInv'
  BY StepDelivers
<1> QED
  BY <1>1, InitDelivers, PTL DEF DeliverySpec

-----------------------------------------------------------------------------
(* What the invariant is for.                                              *)

(* Across every loss, restart and redelivery, an action the Controller     *)
(* shows as done was done on the host, and one shown as rolled back was    *)
(* restored by one of its rollbacks.                                       *)
THEOREM SuccessReal == DeliverySpec => []SuccessIsReal
<1>1. DeliveryInv => SuccessIsReal
  BY DEF DeliveryInv
<1> QED
  BY <1>1, DeliveryIsSafe, PTL

(* A command that was ended before it began never reaches the host, and    *)
(* the host is changed at most once for an action's execution.             *)
THEOREM HostSafe == DeliverySpec => []HostIsSafe
<1>1. ASSUME DeliveryInv
      PROVE  WithdrawnNeverRuns
  <2> SUFFICES ASSUME NEW c \in Cmds,
                      cmd[c].phase \in {"absent", "queued", "withdrawn", "superseded"}
               PROVE  /\ host[c].runs = 0
                      /\ calling.cmd # c
                      /\ \A job \in orphans : job.attempt # c
    BY DEF WithdrawnNeverRuns
  <2>1. ~Known(c)
    BY DEF Known
  <2>2. host[c].runs \in 0..1 /\ ~(host[c].runs > 0)
    BY <1>1, <2>1 DEF DeliveryInv, DeliveryTypeOK, TouchedAreKnown
  <2>3. calling.cmd # c
    <3>1. CASE calling = NoCall
      BY <3>1, MarksAssumption DEF NoCall
    <3>2. CASE calling # NoCall
      BY <1>1, <2>1, <3>2 DEF DeliveryInv, CallIsKnown
    <3> QED
      BY <3>1, <3>2
  <2>4. \A job \in orphans : job.attempt # c
    BY <1>1, <2>1 DEF DeliveryInv, CallIsKnown
  <2> QED
    BY <2>2, <2>3, <2>4
<1>2. ASSUME DeliveryInv
      PROVE  HostChangedOnce
  BY <1>2 DEF DeliveryInv, SafetyInv, TouchedAreKnown, Known, ExecutedOnce, HostChangedOnce, Unused
<1>3. DeliveryInv => HostIsSafe
  BY <1>1, <1>2 DEF HostIsSafe, DeliveryInv
<1> QED
  BY <1>3, DeliveryIsSafe, PTL

(* A queued result leaves the queue only when its command is completed.    *)
THEOREM NoResultLost == DeliverySpec => NoQueuedResultLost
<1> DEFINE Leaves(c)  == Len(fifo') < Len(fifo) /\ Head(fifo).cmd = c
           Settles(c) == Leaves(c) => ~Open(c)'
<1>1. ASSUME DeliveryInv, DeliveryNext, NEW c \in Cmds, Leaves(c)
      PROVE  ~Open(c)'
  <2>0. fifo \in Seq([cmd : Cmds, reply : Submission]) /\ Len(fifo) \in Nat /\ TypeOK
    BY <1>1 DEF DeliveryInv, QueueIsEarned, SafetyInv, InFlightInv
  <2>1. ~UNCHANGED fifo
    BY <1>1, <2>0
  <2>2. ASSUME NEW d \in Cmds, NEW reply, Enqueue(d, reply)
        PROVE  FALSE
    <3>1. fifo' = Append(fifo, [cmd |-> d, reply |-> reply])
      BY <2>1, <2>2 DEF Enqueue
    <3>2. Len(fifo') = Len(fifo) + 1
      BY <2>0, <3>1
    <3> QED
      BY <1>1, <2>0, <3>2
  <2>3. CASE Flush
    <3>1. \/ Complete(c, Head(fifo).reply)
          \/ UNCHANGED store /\ Acknowledged(c, Head(fifo).reply)
      BY <1>1, <2>3 DEF Flush, FirstResult
    <3>2. ASSUME UNCHANGED store, Acknowledged(c, Head(fifo).reply)
          PROVE  ~Open(c)'
      BY <3>2 DEF Acknowledged, Open, OpenPhases, store
    <3> QED
      BY <2>0, <3>1, <3>2, ResultCompletes
  <2>4. CASE HearReply \/ HelperUnavailable \/ HelperSilent
    <3>1. calling # NoCall /\ \E reply : Enqueue(calling.cmd, reply)
      BY <2>4 DEF HearReply, HelperUnavailable, HelperSilent, Sign
    <3>2. calling.cmd \in Cmds
      BY <1>1, <3>1 DEF DeliveryInv, DeliveryTypeOK
    <3> QED
      BY <2>2, <3>1, <3>2
  <2>5. ASSUME NEW d \in Cmds, HandleScan(d)
        PROVE  FALSE
    BY <2>2, <2>5 DEF HandleScan
  <2>6. ASSUME NEW d \in Cmds, GateClosed(d) \/ GatePassed(d)
        PROVE  FALSE
    BY <2>1, <2>6 DEF GateClosed, GatePassed
  <2>7. CASE ControllerStep \/ HelperStep \/ Sync \/ CallHelper \/ AgentRestart
    BY <2>1, <2>7 DEF ControllerStep, HelperStep, Sync, CallHelper, AgentRestart
  <2> QED
    BY <1>1, <2>3, <2>4, <2>5, <2>6, <2>7 DEF DeliveryNext, AgentStep
<1>2. DeliveryInv /\ [DeliveryNext]_delivery => [\A c \in Cmds : Settles(c)]_delivery
  BY <1>1
<1> QED
  BY <1>2, DeliveryIsSafe, PTL DEF DeliverySpec, NoQueuedResultLost

=============================================================================
