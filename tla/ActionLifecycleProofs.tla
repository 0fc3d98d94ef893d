------------------------ MODULE ActionLifecycleProofs ------------------------
(***************************************************************************)
(* Proofs, for any number of actions, commands and sources, of facts that  *)
(* the runs of MCActionLifecycle check on small instances.                 *)
(***************************************************************************)
EXTENDS ActionLifecycle, TLAPS

-----------------------------------------------------------------------------
(* The store accepts every well-formed result, not only those an instance  *)
(* submits; the step lemmas below are about all of them, so that they also *)
(* hold for the results that the Agent of ActionDelivery sends.            *)

AnyResult ==
  \E c \in Cmds :
    \/ \E s \in Submission : \/ CompleteExecute(c, s)
                            \/ CompleteRollback(c, s)
                            \/ CompleteConfirm(c, s)
                            \/ \E undo \in Cmds : CompleteLegacySuspend(c, s, undo)
    \/ CompleteScan(c)

AnyAgentRequest ==
  \/ ClaimCommands
  \/ \E c \in Cmds : StartActionCommand(c)
  \/ AnyResult

AnyNext == AdminRequest \/ PolicyChange \/ ProcessSecurityEvent \/ AnyAgentRequest
             \/ Maintain \/ Tick

(* A step of the specification is such a step.                             *)
LEMMA NextIsAny ==
  ASSUME [Next]_vars
  PROVE  [AnyNext]_vars
<1>1. ASSUME SubmitResult
      PROVE  AnyResult
  BY <1>1, ResultsAssumption DEF SubmitResult, AnyResult
<1> QED
  BY <1>1 DEF Next, AnyNext, AgentRequest, AnyAgentRequest

-----------------------------------------------------------------------------
(* What the helpers of the model return.                                   *)

(* Cancelling, failing or otherwise moving a row keeps it a row.           *)
LEMMA SettledRow ==
  ASSUME NEW row \in ActionRow, NEW st \in Statuses
  PROVE  /\ Settled(row, st) \in ActionRow
         /\ Settled(row, st).status = st
         /\ Settled(row, st).state = row.state
BY DEF Settled, ActionRow

(* Completing a command row keeps it a row of the same type and action.    *)
LEMMA CompletedRow ==
  ASSUME NEW row \in CommandRow, NEW end \in Phases
  PROVE  /\ Completed(row, end) \in CommandRow
         /\ Completed(row, end).phase = end
         /\ Completed(row, end).type = row.type
         /\ Completed(row, end).action = row.action
BY DEF Completed, CommandRow

(* A freshly queued command is a row.                                      *)
LEMMA NewCommandRow ==
  ASSUME NEW t \in CommandTypes, NEW a \in Actions \cup {NoAction}
  PROVE  NewCommand(t, a) \in CommandRow
BY TimesAssumption DEF NewCommand, CommandRow, Phases, OpenPhases

(* A new action is a row.                                                  *)
LEMMA NewActionRow ==
  ASSUME NEW st \in Statuses, NEW k \in ActionKinds, NEW p \in BOOLEAN, NEW ttl \in Nat
  PROVE  NewAction(st, k, p, ttl) \in ActionRow
BY DEF NewAction, ActionRow

(* Expiring drafts keeps the table of actions well formed.                 *)
LEMMA SweptDraftsRows ==
  ASSUME TypeOK
  PROVE  SweptDrafts \in [Actions -> ActionRow]
<1>1. "cancelled" \in Statuses
  BY DEF Statuses, Finished
<1>2. ASSUME NEW a \in Actions
      PROVE (IF act[a].status = "draft" /\ act[a].left = 0
               THEN Settled(act[a], "cancelled") ELSE act[a]) \in ActionRow
  <2>1. act[a] \in ActionRow
    BY DEF TypeOK
  <2> QED
    BY <1>1, <2>1, SettledRow
<1> QED
  BY <1>2 DEF SweptDrafts

(* A conditional change of a ban's status keeps the table well formed.     *)
LEMMA BanBecomesRows ==
  ASSUME TypeOK, NEW a, NEW from, NEW st \in BanStatuses
  PROVE  BanBecomes(a, from, st) \in [Actions -> BanRow]
<1>1. ban \in [Actions -> BanRow]
  BY DEF TypeOK
<1>2. ASSUME NEW row \in BanRow
      PROVE [row EXCEPT !.status = st] \in BanRow
  BY DEF BanRow
<1>3. [ban EXCEPT ![a].status = st] \in [Actions -> BanRow]
  BY <1>1, <1>2
<1> QED
  BY <1>1, <1>3 DEF BanBecomes

(* The sweep keeps every table well formed.                                *)
LEMMA SweptRows ==
  ASSUME TypeOK
  PROVE  /\ SweptCmds \in [Cmds -> CommandRow]
         /\ SweptActs \in [Actions -> ActionRow]
         /\ SweptBans \in [Actions -> BanRow]
<1>1. SweptCmds \in [Cmds -> CommandRow]
  <2>1. {"withdrawn", "timeout"} \subseteq Phases
    BY DEF Phases
  <2>2. ASSUME NEW c \in Cmds
        PROVE SweptCmds[c] \in CommandRow
    <3>1. cmd[c] \in CommandRow
      BY DEF TypeOK
    <3>2. SweptCmds[c] \in {Completed(cmd[c], "withdrawn"), Completed(cmd[c], "timeout"), cmd[c]}
      BY DEF SweptCmds
    <3> QED
      BY <2>1, <3>1, <3>2, CompletedRow
  <2> QED
    BY <2>2 DEF SweptCmds
<1>2. SweptActs \in [Actions -> ActionRow]
  <2>1. {"failed", "indeterminate"} \subseteq Statuses
    BY DEF Statuses, Finished
  <2>2. ASSUME NEW a \in Actions
        PROVE SweptActs[a] \in ActionRow
    <3>1. act[a] \in ActionRow
      BY DEF TypeOK
    <3>2. SweptActs[a] \in {Settled(act[a], "failed"), Settled(act[a], "indeterminate"), act[a]}
      BY DEF SweptActs
    <3> QED
      BY <2>1, <3>1, <3>2, SettledRow
  <2> QED
    BY <2>2 DEF SweptActs
<1>3. SweptBans \in [Actions -> BanRow]
  <2>1. ASSUME NEW a \in Actions
        PROVE SweptBans[a] \in BanRow
    <3>1. ban[a] \in BanRow
      BY DEF TypeOK
    <3>2. SweptBans[a] \in {[ban[a] EXCEPT !.status = "failed"],
                            [ban[a] EXCEPT !.status = "indeterminate"], ban[a]}
      BY DEF SweptBans, MaybeApplied
    <3> QED
      BY <3>1, <3>2 DEF BanRow, BanStatuses
  <2> QED
    BY <2>1 DEF SweptBans
<1> QED
  BY <1>1, <1>2, <1>3

(* What a result leaves on an action is well formed.                       *)
LEMMA OutcomeRows ==
  ASSUME NEW ctype, NEW kind, NEW s, NEW good \in Statuses
  PROVE  /\ Outcome(ctype, kind, s).keepState \in BOOLEAN
         /\ Verdict(Outcome(ctype, kind, s), good) \in Statuses
BY DEF Outcome, Verdict, Statuses, Finished

(* What a result leaves on a ban is well formed.                           *)
LEMMA BanAfterExecutionRows ==
  ASSUME TypeOK, NEW a \in Actions, NEW o
  PROVE  BanAfterExecution(a, o) \in [Actions -> BanRow]
<1> DEFINE st == Verdict(o, IF ban[a].left > 0 THEN "active" ELSE "indeterminate")
<1>1. st \in BanStatuses
  BY DEF Verdict, BanStatuses
<1>2. BanBecomes(a, {"pending"}, st) \in [Actions -> BanRow]
  BY <1>1, BanBecomesRows
<1> QED
  BY <1>2 DEF BanAfterExecution

(* A result that changes one action keeps the table well formed.           *)
LEMMA AnsweredRows ==
  ASSUME act \in [Actions -> ActionRow], NEW a,
         NEW st \in Statuses, NEW kept \in BOOLEAN, NEW window \in Nat
  PROVE  [act EXCEPT ![a].status = st, ![a].state = kept, ![a].left = window]
           \in [Actions -> ActionRow]
<1> DEFINE row == [act[a] EXCEPT !.status = st, !.state = kept, !.left = window]
<1>1. a \in Actions => row \in ActionRow
  BY DEF ActionRow
<1>2. [act EXCEPT ![a] = row] \in [Actions -> ActionRow]
  <2> HIDE DEF row
  <2> QED
    BY <1>1
<1>3. [act EXCEPT ![a].status = st, ![a].state = kept, ![a].left = window]
        = [act EXCEPT ![a] = row]
  OBVIOUS
<1> QED
  BY <1>2, <1>3

-----------------------------------------------------------------------------
(* Type correctness.  One step per action of the specification.            *)

(* The administrator's requests keep every table well formed.              *)
LEMMA AdminTypes ==
  ASSUME TypeOK, AdminRequest
  PROVE  TypeOK'
<1>1. ASSUME NEW a \in Actions, NEW k \in Kinds, CreateAction(a, k)
      PROVE TypeOK'
  <2>1. NewAction("draft", k, FALSE, DraftTTL) \in ActionRow
    BY NewActionRow, KindsAssumption, TimesAssumption DEF Statuses, Unfinished
  <2>2. act' \in [Actions -> ActionRow]
    BY <1>1, <2>1, SweptDraftsRows DEF CreateAction
  <2> QED
    BY <1>1, <2>2 DEF CreateAction, TypeOK
<1>2. ASSUME NEW a \in Actions, NEW c \in Cmds, NEW st \in Statuses,
             NEW t \in CommandTypes,
             act' = [act EXCEPT ![a] = Settled(@, st)],
             cmd' = [cmd EXCEPT ![c] = NewCommand(t, a)],
             UNCHANGED <<ban, policy, grant, revoked>>
      PROVE TypeOK'
  <2>1. Settled(act[a], st) \in ActionRow
    BY SettledRow DEF TypeOK
  <2>2. NewCommand(t, a) \in CommandRow
    BY NewCommandRow
  <2> QED
    BY <1>2, <2>1, <2>2 DEF TypeOK
<1>3. ASSUME NEW a \in Actions, NEW c \in Cmds,
             \/ ApproveActionAndEnqueue(a, c)
             \/ RequestRollbackAndEnqueue(a, c)
             \/ RequestConfirmationAndEnqueue(a, c)
      PROVE TypeOK'
  <2>1. {"approved", "rolling_back", "confirming"} \subseteq Statuses
    BY DEF Statuses, Unfinished
  <2>2. {"execute", "rollback", "confirm"} \subseteq CommandTypes
    BY DEF CommandTypes
  <2> QED
    BY <1>2, <1>3, <2>1, <2>2 DEF ApproveActionAndEnqueue, RequestRollbackAndEnqueue,
                                  QueueRollback, RequestConfirmationAndEnqueue
<1>4. ASSUME NEW c \in Cmds, EnqueueScan(c)
      PROVE TypeOK'
  <2>1. NewCommand("scan", NoAction) \in CommandRow
    BY NewCommandRow DEF CommandTypes
  <2>2. ASSUME NEW d \in Cmds
        PROVE cmd'[d] \in CommandRow
    <3>1. cmd[d] \in CommandRow
      BY DEF TypeOK
    <3>2. cmd'[d] \in {NewCommand("scan", NoAction), Completed(cmd[d], "superseded"), cmd[d]}
      BY <1>4 DEF EnqueueScan
    <3>3. "superseded" \in Phases
      BY DEF Phases
    <3> QED
      BY <2>1, <3>1, <3>2, <3>3, CompletedRow
  <2>3. cmd' \in [Cmds -> CommandRow]
    BY <1>4, <2>2 DEF EnqueueScan
  <2> QED
    BY <1>4, <2>3 DEF EnqueueScan, TypeOK
<1>5. CASE RevokeDevice
  <2>1. {"cancelled", "indeterminate"} \subseteq Statuses \cap BanStatuses
    BY DEF Statuses, Finished, BanStatuses
  <2>2. {"timeout", "withdrawn"} \subseteq Phases
    BY DEF Phases
  <2>3. ASSUME NEW c \in Cmds
        PROVE cmd'[c] \in CommandRow
    <3>1. cmd[c] \in CommandRow
      BY DEF TypeOK
    <3>2. cmd'[c] \in {Completed(cmd[c], "timeout"), Completed(cmd[c], "withdrawn"), cmd[c]}
      BY <1>5 DEF RevokeDevice
    <3> QED
      BY <2>2, <3>1, <3>2, CompletedRow
  <2>4. ASSUME NEW a \in Actions
        PROVE act'[a] \in ActionRow
    <3>1. act[a] \in ActionRow
      BY DEF TypeOK
    <3>2. act'[a] \in {Settled(act[a], "indeterminate"), Settled(act[a], "cancelled"), act[a]}
      BY <1>5 DEF RevokeDevice
    <3> QED
      BY <2>1, <3>1, <3>2, SettledRow
  <2>5. ASSUME NEW a \in Actions
        PROVE ban'[a] \in BanRow
    <3>1. ban[a] \in BanRow
      BY DEF TypeOK
    <3>2. ban'[a] \in {[ban[a] EXCEPT !.status = "indeterminate"],
                       [ban[a] EXCEPT !.status = "cancelled"], ban[a]}
      BY <1>5 DEF RevokeDevice, MaybeApplied
    <3> QED
      BY <2>1, <3>1, <3>2 DEF BanRow
  <2>6. /\ cmd' = [c \in Cmds |-> cmd'[c]]
        /\ act' = [a \in Actions |-> act'[a]]
        /\ ban' = [a \in Actions |-> ban'[a]]
    BY <1>5 DEF RevokeDevice
  <2>7. revoked' \in BOOLEAN /\ UNCHANGED <<policy, grant>>
    BY <1>5 DEF RevokeDevice
  <2> QED
    BY <2>3, <2>4, <2>5, <2>6, <2>7 DEF TypeOK
<1> QED
  BY <1>1, <1>3, <1>4, <1>5 DEF AdminRequest

(* Changes of the policies keep every table well formed.                   *)
LEMMA PolicyTypes ==
  ASSUME TypeOK, PolicyChange
  PROVE  TypeOK'
<1>1. ASSUME NEW p \in [armed : BOOLEAN, stop : BOOLEAN],
             PutDefensePolicyAndCancelQueued(p)
      PROVE TypeOK'
  <2>1. ASSUME NEW c \in Cmds
        PROVE cmd'[c] \in CommandRow
    <3>1. cmd[c] \in CommandRow
      BY DEF TypeOK
    <3>2. cmd'[c] \in {Completed(cmd[c], "withdrawn"), cmd[c]}
      BY <1>1 DEF PutDefensePolicyAndCancelQueued
    <3>3. "withdrawn" \in Phases
      BY DEF Phases
    <3> QED
      BY <3>1, <3>2, <3>3, CompletedRow
  <2>2. ASSUME NEW a \in Actions
        PROVE act'[a] \in ActionRow
    <3>1. act[a] \in ActionRow
      BY DEF TypeOK
    <3>2. act'[a] \in {Settled(act[a], "cancelled"), act[a]}
      BY <1>1 DEF PutDefensePolicyAndCancelQueued
    <3>3. "cancelled" \in Statuses
      BY DEF Statuses, Finished
    <3> QED
      BY <3>1, <3>2, <3>3, SettledRow
  <2>3. ASSUME NEW a \in Actions
        PROVE ban'[a] \in BanRow
    <3>1. ban[a] \in BanRow
      BY DEF TypeOK
    <3>2. ban'[a] \in {[ban[a] EXCEPT !.status = "cancelled"], ban[a]}
      BY <1>1 DEF PutDefensePolicyAndCancelQueued
    <3> QED
      BY <3>1, <3>2 DEF BanRow, BanStatuses
  <2>4. /\ cmd' = [c \in Cmds |-> cmd'[c]]
        /\ act' = [a \in Actions |-> act'[a]]
        /\ ban' = [a \in Actions |-> ban'[a]]
    BY <1>1 DEF PutDefensePolicyAndCancelQueued
  <2>5. policy' = p /\ UNCHANGED revoked
    BY <1>1 DEF PutDefensePolicyAndCancelQueued
  <2>6. grant' \in [stored : BOOLEAN, armed : BOOLEAN, stop : BOOLEAN]
    BY <1>1 DEF PutDefensePolicyAndCancelQueued, TypeOK
  <2> QED
    BY <2>1, <2>2, <2>3, <2>4, <2>5, <2>6 DEF TypeOK
<1>2. ASSUME NEW g \in [stored : {TRUE}, armed : BOOLEAN, stop : BOOLEAN], PutPolicyGrant(g)
      PROVE TypeOK'
  BY <1>2 DEF PutPolicyGrant, TypeOK
<1> QED
  BY <1>1, <1>2 DEF PolicyChange

(* Security events keep every table well formed.                           *)
LEMMA EventTypes ==
  ASSUME TypeOK, ProcessSecurityEvent
  PROVE  TypeOK'
<1>1. ASSUME NEW a \in Actions, NEW c \in Cmds, NEW k \in ActionKinds,
             act' = [SweptDrafts EXCEPT ![a] = NewAction("approved", k, TRUE, 0)],
             cmd' = [cmd EXCEPT ![c] = NewCommand("execute", a)],
             ban' \in [Actions -> BanRow],
             UNCHANGED <<policy, grant, revoked>>
      PROVE TypeOK'
  <2>1. NewAction("approved", k, TRUE, 0) \in ActionRow
    BY NewActionRow DEF Statuses, Unfinished
  <2>2. NewCommand("execute", a) \in CommandRow
    BY NewCommandRow DEF CommandTypes
  <2>3. act' \in [Actions -> ActionRow]
    BY <1>1, <2>1, SweptDraftsRows
  <2>4. cmd' \in [Cmds -> CommandRow]
    BY <1>1, <2>2 DEF TypeOK
  <2> QED
    BY <1>1, <2>3, <2>4 DEF TypeOK
<1>2. ASSUME NEW a \in Actions, NEW c \in Cmds, NEW source \in Sources, PolicyBan(a, c, source)
      PROVE TypeOK'
  <2>1. [status |-> "pending", source |-> source, left |-> BanTTL] \in BanRow
    BY TimesAssumption DEF BanRow, BanStatuses
  <2>2. ban' \in [Actions -> BanRow]
    BY <1>2, <2>1 DEF PolicyBan, TypeOK
  <2>3. "ip_ban" \in ActionKinds
    BY DEF ActionKinds
  <2> QED
    BY <1>1, <1>2, <2>2, <2>3 DEF PolicyBan
<1>3. ASSUME NEW a \in Actions, NEW c \in Cmds, PolicySuspend(a, c)
      PROVE TypeOK'
  <2>1. "process_suspend" \in ActionKinds
    BY DEF ActionKinds
  <2>2. ban' \in [Actions -> BanRow]
    BY <1>3 DEF PolicySuspend, TypeOK
  <2> QED
    BY <1>1, <1>3, <2>1, <2>2 DEF PolicySuspend
<1> QED
  BY <1>2, <1>3 DEF ProcessSecurityEvent

(* A claim keeps every table well formed.                                  *)
LEMMA ClaimTypes ==
  ASSUME TypeOK, ClaimCommands
  PROVE  TypeOK'
<1>1. ASSUME NEW c \in Cmds
      PROVE cmd'[c] \in CommandRow
  <2>1. SweptCmds[c] \in CommandRow
    BY SweptRows
  <2>2. cmd'[c] \in {[SweptCmds[c] EXCEPT !.lease = ClaimLease], SweptCmds[c]}
    BY DEF ClaimCommands
  <2> QED
    BY <2>1, <2>2, TimesAssumption DEF CommandRow
<1>2. cmd' \in [Cmds -> CommandRow]
  BY <1>1 DEF ClaimCommands
<1> QED
  BY <1>2, SweptRows DEF ClaimCommands, TypeOK

(* The authorisation gate keeps every table well formed.  A command of no  *)
(* action changes no row of an action: the EXCEPT is outside the domain.   *)
LEMMA StartTypes ==
  ASSUME TypeOK, NEW c \in Cmds, StartActionCommand(c)
  PROVE  TypeOK'
<1> DEFINE a == cmd[c].action
<1>1. ASSUME NEW from, Withdraw(c, from), UNCHANGED <<policy, grant, revoked>>
      PROVE TypeOK'
  <2>1. Completed(cmd[c], "withdrawn") \in CommandRow
    BY CompletedRow DEF TypeOK, Phases
  <2>2. cmd' \in [Cmds -> CommandRow]
    BY <1>1, <2>1 DEF Withdraw, TypeOK
  <2>3. act' \in [Actions -> ActionRow]
    <3>1. CASE act' = act
      BY <3>1 DEF TypeOK
    <3>2. CASE act' = [act EXCEPT ![a] = Settled(@, "cancelled")]
      <4>1. a \in Actions => Settled(act[a], "cancelled") \in ActionRow
        BY SettledRow DEF TypeOK, Statuses, Finished
      <4> QED
        BY <3>2, <4>1 DEF TypeOK
    <3> QED
      BY <1>1, <3>1, <3>2 DEF Withdraw
  <2>4. ban' \in [Actions -> BanRow]
    BY <1>1, BanBecomesRows DEF Withdraw, BanStatuses
  <2> QED
    BY <1>1, <2>2, <2>3, <2>4 DEF TypeOK
<1>2. CASE StartAuthorized(c)
  <2>1. [cmd[c] EXCEPT !.phase = "started", !.left = ExecutionTimeout] \in CommandRow
    <3>1. cmd[c] \in CommandRow
      BY DEF TypeOK
    <3>2. "started" \in Phases /\ ExecutionTimeout \in Nat
      BY TimesAssumption DEF Phases, OpenPhases
    <3> QED
      BY <3>1, <3>2 DEF CommandRow
  <2>2. cmd' \in [Cmds -> CommandRow]
    <3>1. cmd' = [cmd EXCEPT ![c].phase = "started", ![c].left = ExecutionTimeout]
      BY <1>2 DEF StartAuthorized
    <3> QED
      BY <2>1, <3>1 DEF TypeOK
  <2>3. act' \in [Actions -> ActionRow]
    <3>1. ASSUME NEW row \in ActionRow
          PROVE  [row EXCEPT !.status = "executing"] \in ActionRow
      BY DEF ActionRow, Statuses, Unfinished
    <3>2. [act EXCEPT ![a].status = "executing"] \in [Actions -> ActionRow]
      BY <3>1 DEF TypeOK
    <3>3. act' \in {act, [act EXCEPT ![a].status = "executing"]}
      BY <1>2 DEF StartAuthorized
    <3> QED
      BY <3>2, <3>3 DEF TypeOK
  <2>4. ban' \in [Actions -> BanRow]
    <3>1. ASSUME NEW row \in BanRow
          PROVE  [row EXCEPT !.left = BanTTL] \in BanRow
      BY TimesAssumption DEF BanRow
    <3>2. [ban EXCEPT ![a].left = BanTTL] \in [Actions -> BanRow]
      BY <3>1 DEF TypeOK
    <3>3. ban' \in {ban, [ban EXCEPT ![a].left = BanTTL]}
      BY <1>2 DEF StartAuthorized
    <3> QED
      BY <3>2, <3>3 DEF TypeOK
  <2> QED
    BY <1>2, <2>2, <2>3, <2>4 DEF StartAuthorized, TypeOK
<1> QED
  BY <1>1, <1>2 DEF StartActionCommand, StartExpired, StartDenied

(* Results keep every table well formed.                                   *)
LEMMA ResultTypes ==
  ASSUME TypeOK, AnyResult
  PROVE  TypeOK'
<1>0. {"result"} \subseteq Phases
  BY DEF Phases
<1>1. ASSUME NEW c \in Cmds, NEW s \in Submission, CompleteExecute(c, s)
      PROVE TypeOK'
  <2> DEFINE a == cmd[c].action
             o == Outcome("execute", act[a].kind, s)
             good == IF o.awaiting THEN "awaiting_confirmation" ELSE "succeeded"
  <2>1. cmd' \in [Cmds -> CommandRow]
    BY <1>0, <1>1, CompletedRow DEF CompleteExecute, TypeOK
  <2>2. good \in Statuses
    BY DEF Statuses, Unfinished, Finished
  <2>3. o.keepState \in BOOLEAN /\ Verdict(o, good) \in Statuses
    BY <2>2, OutcomeRows
  <2>4. PICK window \in IF o.awaiting THEN 1..ConfirmMax ELSE {0} :
          act' = [act EXCEPT ![a].status = Verdict(o, good),
                             ![a].state = o.keepState, ![a].left = window]
    BY <1>1 DEF CompleteExecute
  <2>5. window \in Nat
    BY TimesAssumption
  <2>6. act' \in [Actions -> ActionRow]
    <3> HIDE DEF a, o, good
    <3> QED
      BY <2>3, <2>4, <2>5, AnsweredRows DEF TypeOK
  <2>7. ban' \in [Actions -> BanRow]
    <3>1. a \in Actions => ban' \in [Actions -> BanRow]
      BY <1>1, BanAfterExecutionRows DEF CompleteExecute
    <3>2. a \notin Actions => ban' = ban
      BY <1>1 DEF CompleteExecute, BanAfterExecution, BanBecomes, TypeOK
    <3> QED
      BY <3>1, <3>2 DEF TypeOK
  <2> QED
    BY <1>1, <2>1, <2>6, <2>7 DEF CompleteExecute, TypeOK
<1>2. ASSUME NEW c \in Cmds, NEW s \in Submission, NEW undo \in Cmds,
             CompleteLegacySuspend(c, s, undo)
      PROVE TypeOK'
  <2> DEFINE a == cmd[c].action
             o == Outcome("execute", act[a].kind, s)
  <2>1. NewCommand("rollback", a) \in CommandRow
    BY NewCommandRow DEF TypeOK, CommandRow, CommandTypes
  <2>2. Completed(cmd[c], "result") \in CommandRow
    BY <1>0, CompletedRow DEF TypeOK
  <2>3. cmd' \in [Cmds -> CommandRow]
    BY <1>2, <2>1, <2>2 DEF CompleteLegacySuspend, TypeOK
  <2>4. o.keepState \in BOOLEAN
    BY OutcomeRows DEF Statuses
  <2>5. act' \in [Actions -> ActionRow]
    BY <1>2, <2>4, AnsweredRows DEF CompleteLegacySuspend, TypeOK, Statuses, Unfinished
  <2>6. ban' \in [Actions -> BanRow]
    <3>1. a \in Actions => ban' \in [Actions -> BanRow]
      BY <1>2, BanAfterExecutionRows DEF CompleteLegacySuspend
    <3>2. a \notin Actions => ban' = ban
      BY <1>2 DEF CompleteLegacySuspend, BanAfterExecution, BanBecomes, TypeOK
    <3> QED
      BY <3>1, <3>2 DEF TypeOK
  <2> QED
    BY <1>2, <2>3, <2>5, <2>6 DEF CompleteLegacySuspend, TypeOK
<1>3. ASSUME NEW c \in Cmds, NEW o, NEW good \in {"rolled_back", "succeeded"},
             cmd' = [cmd EXCEPT ![c] = Completed(@, "result")],
             act' = [act EXCEPT ![cmd[c].action] = Settled(@, Verdict(o, good))],
             ban' \in [Actions -> BanRow],
             UNCHANGED <<policy, grant, revoked>>
      PROVE TypeOK'
  <2>1. cmd' \in [Cmds -> CommandRow]
    BY <1>0, <1>3, CompletedRow DEF TypeOK
  <2>2. Verdict(o, good) \in Statuses
    BY DEF Verdict, Statuses, Finished
  <2>3. cmd[c].action \in Actions => Settled(act[cmd[c].action], Verdict(o, good)) \in ActionRow
    BY <2>2, SettledRow DEF TypeOK
  <2>4. act' \in [Actions -> ActionRow]
    BY <1>3, <2>3 DEF TypeOK
  <2> QED
    BY <1>3, <2>1, <2>4 DEF TypeOK
<1>4. ASSUME NEW c \in Cmds, NEW s \in Submission, CompleteRollback(c, s)
      PROVE TypeOK'
  <2> DEFINE a == cmd[c].action
             o == Outcome("rollback", act[a].kind, s)
  <2>1. ban' \in {BanBecomes(a, {"active", "indeterminate"}, "rolled_back"),
                  [ban EXCEPT ![a] = MaybeApplied(a)], ban}
    BY <1>4 DEF CompleteRollback
  <2>2. a \in Actions => MaybeApplied(a) \in BanRow
    BY DEF MaybeApplied, TypeOK, BanRow, BanStatuses
  <2>3. [ban EXCEPT ![a] = MaybeApplied(a)] \in [Actions -> BanRow]
    BY <2>2 DEF TypeOK
  <2>4. BanBecomes(a, {"active", "indeterminate"}, "rolled_back") \in [Actions -> BanRow]
    BY BanBecomesRows DEF BanStatuses
  <2>5. ban' \in [Actions -> BanRow]
    BY <2>1, <2>3, <2>4 DEF TypeOK
  <2> QED
    BY <1>3, <1>4, <2>5 DEF CompleteRollback
<1>5. ASSUME NEW c \in Cmds, NEW s \in Submission, CompleteConfirm(c, s)
      PROVE TypeOK'
  <2>1. ban' \in [Actions -> BanRow]
    BY <1>5 DEF CompleteConfirm, TypeOK
  <2> QED
    BY <1>3, <1>5, <2>1 DEF CompleteConfirm
<1>6. ASSUME NEW c \in Cmds, CompleteScan(c)
      PROVE TypeOK'
  <2>1. cmd' \in [Cmds -> CommandRow]
    BY <1>0, <1>6, CompletedRow DEF CompleteScan, TypeOK
  <2> QED
    BY <1>6, <2>1 DEF CompleteScan, TypeOK
<1> QED
  BY <1>1, <1>2, <1>4, <1>5, <1>6 DEF AnyResult

(* The maintenance loop keeps every table well formed.                     *)
LEMMA MaintainTypes ==
  ASSUME TypeOK, Maintain
  PROVE  TypeOK'
<1>1. CASE ExpireStaleActionCommands
  BY <1>1, SweptRows DEF ExpireStaleActionCommands, TypeOK
<1>2. CASE ExpireActionConfirmations
  <2>1. ASSUME NEW a \in Actions
        PROVE act'[a] \in ActionRow
    <3>1. act[a] \in ActionRow
      BY DEF TypeOK
    <3>2. act'[a] \in {Settled(act[a], "cancelled"), act[a]}
      BY <1>2 DEF ExpireActionConfirmations
    <3>3. "cancelled" \in Statuses
      BY DEF Statuses, Finished
    <3> QED
      BY <3>1, <3>2, <3>3, SettledRow
  <2>2. act' = [a \in Actions |-> act'[a]]
    BY <1>2 DEF ExpireActionConfirmations
  <2>3. UNCHANGED <<cmd, ban, policy, grant, revoked>>
    BY <1>2 DEF ExpireActionConfirmations
  <2> QED
    BY <2>1, <2>2, <2>3 DEF TypeOK
<1>3. CASE ExpireDraftActions
  BY <1>3, SweptDraftsRows DEF ExpireDraftActions, TypeOK
<1>4. CASE ExpireBanHorizon
  <2>1. ASSUME NEW a \in Actions
        PROVE ban'[a] \in BanRow
    <3>1. ban[a] \in BanRow
      BY DEF TypeOK
    <3>2. ban'[a] \in {[ban[a] EXCEPT !.status = "indeterminate"], ban[a]}
      BY <1>4 DEF ExpireBanHorizon
    <3> QED
      BY <3>1, <3>2 DEF BanRow, BanStatuses
  <2>2. ban' = [a \in Actions |-> ban'[a]]
    BY <1>4 DEF ExpireBanHorizon
  <2>3. UNCHANGED <<act, cmd, policy, grant, revoked>>
    BY <1>4 DEF ExpireBanHorizon
  <2> QED
    BY <2>1, <2>2, <2>3 DEF TypeOK
<1> QED
  BY <1>1, <1>2, <1>3, <1>4 DEF Maintain

(* The passage of time keeps every table well formed.                      *)
LEMMA TickTypes ==
  ASSUME TypeOK, Tick
  PROVE  TypeOK'
<1>1. \A n \in Nat : Down(n) \in Nat
  BY DEF Down
<1>2. ASSUME NEW a \in Actions
      PROVE act'[a] \in ActionRow /\ ban'[a] \in BanRow
  <2>1. act'[a] = [act[a] EXCEPT !.left = Down(act[a].left)]
    BY DEF Tick
  <2>2. ban'[a] = [ban[a] EXCEPT !.left = Down(ban[a].left)]
    BY DEF Tick
  <2>3. act[a] \in ActionRow /\ ban[a] \in BanRow
    BY DEF TypeOK
  <2>4. Down(act[a].left) \in Nat /\ Down(ban[a].left) \in Nat
    BY <1>1, <2>3 DEF ActionRow, BanRow
  <2> QED
    BY <2>1, <2>2, <2>3, <2>4 DEF ActionRow, BanRow
<1>3. ASSUME NEW c \in Cmds
      PROVE cmd'[c] \in CommandRow
  <2>1. cmd'[c] = [cmd[c] EXCEPT !.left = Down(cmd[c].left), !.lease = Down(cmd[c].lease)]
    BY DEF Tick
  <2>2. cmd[c] \in CommandRow
    BY DEF TypeOK
  <2>3. Down(cmd[c].left) \in Nat /\ Down(cmd[c].lease) \in Nat
    BY <1>1, <2>2 DEF CommandRow
  <2> QED
    BY <2>1, <2>2, <2>3 DEF CommandRow
<1>4. /\ act' = [a \in Actions |-> act'[a]]
      /\ cmd' = [c \in Cmds |-> cmd'[c]]
      /\ ban' = [a \in Actions |-> ban'[a]]
  BY DEF Tick
<1>5. UNCHANGED <<policy, grant, revoked>>
  BY DEF Tick
<1> QED
  BY <1>2, <1>3, <1>4, <1>5 DEF TypeOK

(* Every step keeps every table well formed.                               *)
LEMMA StepTypes ==
  ASSUME TypeOK, [AnyNext]_vars
  PROVE  TypeOK'
<1>1. CASE AnyAgentRequest
  BY <1>1, ClaimTypes, StartTypes, ResultTypes DEF AnyAgentRequest
<1>2. CASE UNCHANGED vars
  BY <1>2 DEF vars, TypeOK
<1> QED
  BY <1>1, <1>2, AdminTypes, PolicyTypes, EventTypes, MaintainTypes, TickTypes DEF AnyNext

(* An empty store is well formed.                                          *)
LEMMA InitTypes ==
  ASSUME Init
  PROVE  TypeOK
BY DEF Init, TypeOK, ActionRow, CommandRow, BanRow, Statuses, Phases, CommandTypes,
       ActionKinds, BanStatuses

(* Type correctness: whatever the administrators, Agents, attackers and    *)
(* timers do, every row of the store holds values of its columns.          *)
THEOREM TypeCorrect == Spec => []TypeOK
<1>1. TypeOK /\ [Next]_vars => TypeOK'
  BY StepTypes, NextIsAny
<1> QED
  BY <1>1, InitTypes, PTL DEF Spec

-----------------------------------------------------------------------------
(* Actions in flight and their commands.                                   *)
(*                                                                         *)
(* InFlightBacked is not inductive by itself: it says nothing of the       *)
(* action a scan command names, and revocation and the policy's stop look  *)
(* commands up by action whatever their type.  The invariant adds where    *)
(* commands are addressed and is stated action by action, because every    *)
(* handler moves one action, or ends each of several on its own.           *)

InFlight == {"approved", "executing", "confirming", "rolling_back"}

Carries(c, a) == Open(c) /\ ForAction(c) /\ cmd[c].action = a

Backed(a) ==
  /\ \A c \in Cmds : Carries(c, a) =>
       act[a].status = Expecting(cmd[c].type, cmd[c].phase = "started")
  /\ act[a].status \in InFlight => \E c \in Cmds : Carries(c, a)
  /\ \A c, d \in Cmds : Carries(c, a) /\ Carries(d, a) => c = d

Addressed(row) == IF row.type = "scan" THEN row.action = NoAction ELSE row.action \in Actions

InFlightInv ==
  /\ TypeOK
  /\ \A c \in Cmds : Addressed(cmd[c])
  /\ \A a \in Actions : Backed(a)

(* The inductive invariant is at least what is claimed.                    *)
LEMMA InvImpliesBacked ==
  ASSUME InFlightInv
  PROVE  InFlightBacked
<1>1. OpenCommandExpected
  BY DEF InFlightInv, Addressed, Backed, Carries, OpenCommandExpected, ForAction
<1>2. InFlightCarried
  BY DEF InFlightInv, Backed, Carries, InFlightCarried, InFlight
<1>3. OneOpenCommand
  <2> SUFFICES ASSUME NEW c \in Cmds, NEW d \in Cmds, Open(c), Open(d), ForAction(c),
                      cmd[c].action = cmd[d].action
               PROVE  c = d
    BY DEF OneOpenCommand
  <2>1. cmd[c].action \in Actions
    BY DEF InFlightInv, Addressed, ForAction
  <2>2. ForAction(d)
    BY <2>1, NamesAssumption DEF InFlightInv, Addressed, ForAction
  <2> QED
    BY <2>1, <2>2 DEF InFlightInv, Backed, Carries
<1> QED
  BY <1>1, <1>2, <1>3 DEF InFlightBacked

(* What a command expects is always a status in flight.                    *)
LEMMA CarriedInFlight ==
  ASSUME InFlightInv, NEW a \in Actions, NEW c \in Cmds, Carries(c, a)
  PROVE  act[a].status \in InFlight
BY DEF InFlightInv, Backed, InFlight, Expecting

(* An action that keeps its status and its open commands stays backed.     *)
LEMMA StaysBacked ==
  ASSUME NEW a \in Actions, Backed(a), act'[a].status = act[a].status,
         \A c \in Cmds : /\ Carries(c, a)' <=> Carries(c, a)
                         /\ Carries(c, a) => /\ cmd'[c].type = cmd[c].type
                                             /\ cmd'[c].phase = cmd[c].phase
  PROVE  Backed(a)'
<1> DEFINE before(c) == Carries(c, a)
           after(c)  == Carries(c, a)'
<1> HIDE DEF before, after
<1>1. \A c \in Cmds : before(c) => act[a].status = Expecting(cmd[c].type, cmd[c].phase = "started")
  BY DEF Backed, before
<1>2. \A c \in Cmds : after(c) <=> before(c)
  BY DEF before, after
<1>3. \A c \in Cmds : before(c) => cmd'[c].type = cmd[c].type /\ cmd'[c].phase = cmd[c].phase
  BY DEF before
<1>4. \A c \in Cmds : after(c) => act'[a].status = Expecting(cmd'[c].type, cmd'[c].phase = "started")
  BY <1>1, <1>2, <1>3
<1>5. act'[a].status \in InFlight => \E c \in Cmds : after(c)
  BY <1>2 DEF Backed, before
<1>6. \A c, d \in Cmds : after(c) /\ after(d) => c = d
  BY <1>2 DEF Backed, before
<1> QED
  BY <1>4, <1>5, <1>6 DEF Backed, after, Expecting

(* An action out of flight that no open command names is backed.           *)
LEMMA IdleBacked ==
  ASSUME NEW a \in Actions, act'[a].status \notin InFlight,
         \A c \in Cmds : ~Carries(c, a)'
  PROVE  Backed(a)'
BY DEF Backed

(* An action whose only open command expects its status is backed.         *)
LEMMA CarriedBacked ==
  ASSUME NEW a \in Actions, NEW c \in Cmds, Carries(c, a)',
         \A d \in Cmds : Carries(d, a)' => d = c,
         act'[a].status = Expecting(cmd'[c].type, cmd'[c].phase = "started")
  PROVE  Backed(a)'
BY DEF Backed, Expecting

(* The three shapes of step.  First: a command is queued for an action     *)
(* that was out of flight.                                                 *)
LEMMA QueueStep ==
  ASSUME InFlightInv, TypeOK',
         NEW a \in Actions, NEW c \in Cmds, NEW t \in {"execute", "rollback", "confirm"},
         act[a].status \notin InFlight, Unused(c),
         cmd' = [cmd EXCEPT ![c] = NewCommand(t, a)],
         act'[a].status = Expecting(t, FALSE),
         \A b \in Actions \ {a} :
            \/ act'[b].status = act[b].status
            \/ act[b].status \notin InFlight /\ act'[b].status \notin InFlight
  PROVE  InFlightInv'
<1>1. cmd'[c] = NewCommand(t, a) /\ \A d \in Cmds \ {c} : cmd'[d] = cmd[d]
  BY DEF InFlightInv, TypeOK
<1>2. ASSUME NEW d \in Cmds
      PROVE Addressed(cmd'[d])
  BY <1>1 DEF Addressed, NewCommand, InFlightInv
<1>3. \A b \in Actions : ~Carries(c, b)
  BY DEF Carries, Open, Unused, OpenPhases
<1>4. /\ cmd'[c].phase = "queued" /\ cmd'[c].type = t /\ cmd'[c].action = a
  BY <1>1 DEF NewCommand
<1>5. Carries(c, a)' /\ \A b \in Actions \ {a} : ~Carries(c, b)'
  BY <1>4 DEF Carries, Open, OpenPhases, ForAction
<1>6. \A d \in Cmds \ {c}, b \in Actions : Carries(d, b)' <=> Carries(d, b)
  BY <1>1 DEF Carries, Open, ForAction
<1>7. \A d \in Cmds : ~Carries(d, a)
  BY CarriedInFlight
<1>8. Backed(a)'
  <2>1. \A d \in Cmds : Carries(d, a)' => d = c
    BY <1>6, <1>7
  <2>2. act'[a].status = Expecting(cmd'[c].type, cmd'[c].phase = "started")
    BY <1>4 DEF Expecting
  <2> QED
    BY <1>5, <2>1, <2>2, CarriedBacked
<1>9. ASSUME NEW b \in Actions, b # a
      PROVE Backed(b)'
  <2>1. \A d \in Cmds : Carries(d, b)' <=> Carries(d, b)
    BY <1>3, <1>5, <1>6, <1>9
  <2>2. CASE act'[b].status = act[b].status
    <3>1. \A d \in Cmds : Carries(d, b) => cmd'[d].type = cmd[d].type /\ cmd'[d].phase = cmd[d].phase
      BY <1>1, <1>3
    <3> QED
      BY <2>1, <2>2, <3>1, StaysBacked DEF InFlightInv
  <2>3. CASE act[b].status \notin InFlight /\ act'[b].status \notin InFlight
    BY <2>1, <2>3, CarriedInFlight, IdleBacked
  <2> QED
    BY <1>9, <2>2, <2>3
<1> QED
  BY <1>2, <1>8, <1>9 DEF InFlightInv

(* Second: some commands end, and with each of them the flight of its      *)
(* action.  A step that ends none is the special case.                     *)
LEMMA EndStep ==
  ASSUME InFlightInv, TypeOK',
         \A c \in Cmds : /\ cmd'[c].type = cmd[c].type
                         /\ cmd'[c].action = cmd[c].action
                         /\ cmd'[c].phase = cmd[c].phase \/ cmd'[c].phase \notin OpenPhases,
         \A a \in Actions :
            \/ /\ act'[a].status = act[a].status
               /\ \A c \in Cmds : Carries(c, a) => cmd'[c].phase = cmd[c].phase
            \/ /\ act'[a].status \notin InFlight
               /\ \A c \in Cmds : Carries(c, a) => cmd'[c].phase \notin OpenPhases
  PROVE  InFlightInv'
<1>1. \A c \in Cmds : Addressed(cmd'[c])
  BY DEF InFlightInv, Addressed
<1>2. ASSUME NEW a \in Actions
      PROVE Backed(a)'
  <2>1. \A c \in Cmds : Carries(c, a)' <=> Carries(c, a) /\ cmd'[c].phase \in OpenPhases
    BY DEF Carries, Open, ForAction
  <2>2. CASE /\ act'[a].status = act[a].status
             /\ \A c \in Cmds : Carries(c, a) => cmd'[c].phase = cmd[c].phase
    <3>1. \A c \in Cmds : Carries(c, a)' <=> Carries(c, a)
      BY <2>1, <2>2 DEF Carries, Open
    <3> QED
      BY <2>2, <3>1, StaysBacked DEF InFlightInv
  <2>3. CASE /\ act'[a].status \notin InFlight
             /\ \A c \in Cmds : Carries(c, a) => cmd'[c].phase \notin OpenPhases
    BY <2>1, <2>3, IdleBacked
  <2> QED
    BY <2>2, <2>3
<1> QED
  BY <1>1, <1>2 DEF InFlightInv

(* Third: one command ends and its action leaves flight, or ends it.       *)
LEMMA EndOneStep ==
  ASSUME InFlightInv, TypeOK', NEW c \in Cmds, Carries(c, cmd[c].action),
         NEW end \in Phases \ OpenPhases,
         cmd' = [cmd EXCEPT ![c] = Completed(@, end)],
         act'[cmd[c].action].status \notin InFlight,
         \A b \in Actions \ {cmd[c].action} : act'[b] = act[b]
  PROVE  InFlightInv'
<1>1. cmd[c] \in CommandRow
  BY DEF InFlightInv, TypeOK
<1>2. \A d \in Cmds : cmd'[d] = IF d = c THEN Completed(cmd[c], end) ELSE cmd[d]
  BY DEF InFlightInv, TypeOK
<1>3. \A d \in Cmds : /\ cmd'[d].type = cmd[d].type
                      /\ cmd'[d].action = cmd[d].action
                      /\ cmd'[d].phase = IF d = c THEN end ELSE cmd[d].phase
  BY <1>1, <1>2, CompletedRow
<1>4. ASSUME NEW a \in Actions
      PROVE \/ /\ act'[a].status = act[a].status
               /\ \A d \in Cmds : Carries(d, a) => cmd'[d].phase = cmd[d].phase
            \/ /\ act'[a].status \notin InFlight
               /\ \A d \in Cmds : Carries(d, a) => cmd'[d].phase \notin OpenPhases
  <2>1. CASE a = cmd[c].action
    <3>1. \A d \in Cmds : Carries(d, a) => d = c
      BY <2>1 DEF InFlightInv, Backed
    <3> QED
      BY <1>3, <2>1, <3>1
  <2>2. CASE a # cmd[c].action
    <3>1. ~Carries(c, a)
      BY <2>2 DEF Carries
    <3> QED
      BY <1>3, <2>2, <3>1
  <2> QED
    BY <2>1, <2>2
<1> QED
  BY <1>3, <1>4, EndStep

(* A step that leaves commands alone but for their timers, and moves       *)
(* actions only among statuses out of flight.                              *)
LEMMA QuietStep ==
  ASSUME InFlightInv, TypeOK',
         \A c \in Cmds : /\ cmd'[c].type = cmd[c].type
                         /\ cmd'[c].action = cmd[c].action
                         /\ cmd'[c].phase = cmd[c].phase,
         \A a \in Actions :
            \/ act'[a].status = act[a].status
            \/ act[a].status \notin InFlight /\ act'[a].status \notin InFlight
  PROVE  InFlightInv'
<1>1. ASSUME NEW a \in Actions, act[a].status \notin InFlight
      PROVE \A c \in Cmds : ~Carries(c, a)
  BY <1>1, CarriedInFlight
<1> QED
  BY <1>1, EndStep

(* Expiring drafts moves actions only out of flight.                       *)
LEMMA SweptDraftsQuiet ==
  ASSUME TypeOK, NEW a \in Actions
  PROVE  \/ SweptDrafts[a].status = act[a].status
         \/ act[a].status \notin InFlight /\ SweptDrafts[a].status \notin InFlight
<1>1. act[a] \in ActionRow /\ "cancelled" \in Statuses
  BY DEF TypeOK, Statuses, Finished
<1>2. CASE act[a].status = "draft" /\ act[a].left = 0
  <2>1. SweptDrafts[a] = Settled(act[a], "cancelled")
    BY <1>2 DEF SweptDrafts
  <2> QED
    BY <1>1, <1>2, <2>1, SettledRow DEF InFlight
<1>3. CASE ~(act[a].status = "draft" /\ act[a].left = 0)
  BY <1>3 DEF SweptDrafts
<1> QED
  BY <1>2, <1>3

(* The administrator's requests keep every action in flight backed.        *)
LEMMA AdminInFlight ==
  ASSUME InFlightInv, TypeOK', AdminRequest
  PROVE  InFlightInv'
<1>0. TypeOK
  BY DEF InFlightInv
<1>1. ASSUME NEW a \in Actions, NEW k \in Kinds, CreateAction(a, k)
      PROVE InFlightInv'
  <2>1. SweptDrafts \in [Actions -> ActionRow]
    BY <1>0, SweptDraftsRows
  <2>2. act'[a].status = "draft" /\ act[a].status = "absent"
    BY <1>1, <2>1 DEF CreateAction, NewAction
  <2>3. \A b \in Actions \ {a} : act'[b] = SweptDrafts[b]
    BY <1>1, <2>1 DEF CreateAction
  <2>4. \A b \in Actions : \/ act'[b].status = act[b].status
                           \/ act[b].status \notin InFlight /\ act'[b].status \notin InFlight
    BY <1>0, <2>2, <2>3, SweptDraftsQuiet DEF InFlight
  <2>5. cmd' = cmd
    BY <1>1 DEF CreateAction
  <2> QED
    BY <2>4, <2>5, QuietStep
<1>2. ASSUME NEW a \in Actions, NEW c \in Cmds, NEW t \in {"execute", "rollback", "confirm"},
             NEW st \in Statuses, st = Expecting(t, FALSE),
             act[a].status \notin InFlight, Unused(c),
             act' = [act EXCEPT ![a] = Settled(@, st)],
             cmd' = [cmd EXCEPT ![c] = NewCommand(t, a)]
      PROVE InFlightInv'
  <2>1. act[a] \in ActionRow
    BY <1>0 DEF TypeOK
  <2>2. act'[a].status = st
    BY <1>0, <1>2, <2>1, SettledRow DEF TypeOK
  <2>3. \A b \in Actions \ {a} : act'[b] = act[b]
    BY <1>0, <1>2 DEF TypeOK
  <2> QED
    BY <1>2, <2>2, <2>3, QueueStep
<1>3. ASSUME NEW a \in Actions, NEW c \in Cmds, ApproveActionAndEnqueue(a, c)
      PROVE InFlightInv'
  <2>1. "approved" \in Statuses /\ "approved" = Expecting("execute", FALSE)
    BY DEF Statuses, Unfinished, Expecting
  <2>2. act[a].status \notin InFlight
    BY <1>3 DEF ApproveActionAndEnqueue, InFlight
  <2> QED
    BY <1>2, <1>3, <2>1, <2>2 DEF ApproveActionAndEnqueue
<1>4. ASSUME NEW a \in Actions, NEW c \in Cmds, RequestRollbackAndEnqueue(a, c)
      PROVE InFlightInv'
  <2>1. "rolling_back" \in Statuses /\ "rolling_back" = Expecting("rollback", FALSE)
    BY DEF Statuses, Unfinished, Expecting
  <2>2. act[a].status \notin InFlight
    BY <1>4 DEF RequestRollbackAndEnqueue, Rollbackable, InFlight
  <2> QED
    BY <1>2, <1>4, <2>1, <2>2 DEF RequestRollbackAndEnqueue, QueueRollback
<1>5. ASSUME NEW a \in Actions, NEW c \in Cmds, RequestConfirmationAndEnqueue(a, c)
      PROVE InFlightInv'
  <2>1. "confirming" \in Statuses /\ "confirming" = Expecting("confirm", FALSE)
    BY DEF Statuses, Unfinished, Expecting
  <2>2. act[a].status \notin InFlight
    BY <1>5 DEF RequestConfirmationAndEnqueue, InFlight
  <2> QED
    BY <1>2, <1>5, <2>1, <2>2 DEF RequestConfirmationAndEnqueue
<1>6. ASSUME NEW c \in Cmds, EnqueueScan(c)
      PROVE InFlightInv'
  <2>1. ASSUME NEW d \in Cmds
        PROVE /\ Addressed(cmd'[d])
              /\ \A a \in Actions : Carries(d, a)' <=> Carries(d, a)
              /\ \A a \in Actions : Carries(d, a) => cmd'[d] = cmd[d]
    <3>1. CASE d = c
      <4>1. cmd'[d] = NewCommand("scan", NoAction)
        BY <1>6, <3>1 DEF EnqueueScan
      <4> QED
        BY <1>6, <3>1, <4>1 DEF NewCommand, Addressed, Carries, Open, ForAction, EnqueueScan,
                                Unused, OpenPhases
    <3>2. CASE d # c /\ Open(d) /\ ~ForAction(d)
      <4>1. cmd'[d] = Completed(cmd[d], "superseded")
        BY <1>6, <3>2 DEF EnqueueScan
      <4>2. cmd[d] \in CommandRow /\ "superseded" \in Phases
        BY <1>0 DEF TypeOK, Phases
      <4>3. cmd'[d].type = cmd[d].type /\ cmd'[d].action = cmd[d].action
        BY <4>1, <4>2, CompletedRow
      <4> QED
        BY <3>2, <4>3 DEF Addressed, Carries, ForAction, InFlightInv
    <3>3. CASE d # c /\ ~(Open(d) /\ ~ForAction(d))
      <4>1. cmd'[d] = cmd[d]
        BY <1>6, <3>3 DEF EnqueueScan
      <4> QED
        BY <4>1 DEF InFlightInv, Carries, Open, ForAction
    <3> QED
      BY <3>1, <3>2, <3>3
  <2>2. act' = act
    BY <1>6 DEF EnqueueScan
  <2>3. ASSUME NEW a \in Actions
        PROVE Backed(a)'
    BY <2>1, <2>2, StaysBacked DEF InFlightInv
  <2> QED
    BY <2>1, <2>3 DEF InFlightInv
<1>7. CASE RevokeDevice
  <2>1. ASSUME NEW c \in Cmds
        PROVE /\ cmd'[c].type = cmd[c].type
              /\ cmd'[c].action = cmd[c].action
              /\ cmd'[c].phase \notin OpenPhases
    <3>1. cmd[c] \in CommandRow /\ {"timeout", "withdrawn"} \subseteq Phases
      BY <1>0 DEF TypeOK, Phases
    <3>2. \/ cmd'[c] = Completed(cmd[c], "timeout")
          \/ cmd'[c] = Completed(cmd[c], "withdrawn")
          \/ cmd[c].phase \notin OpenPhases /\ cmd'[c] = cmd[c]
      BY <1>7 DEF RevokeDevice, OpenPhases
    <3> QED
      BY <3>1, <3>2, CompletedRow DEF OpenPhases
  <2>2. ASSUME NEW a \in Actions
        PROVE act'[a].status \notin InFlight
    <3> DEFINE sent == \E c \in Cmds : cmd[c].phase = "started" /\ cmd[c].action = a
               unsent == \E c \in Cmds : cmd[c].phase = "queued" /\ cmd[c].action = a
               lost == sent /\ act[a].status \in {"executing", "rolling_back", "confirming"}
               cut == unsent /\ act[a].status \in
                        {"approved", "executing", "rolling_back", "confirming",
                         "awaiting_confirmation"}
    <3>1. act'[a] = IF lost THEN Settled(act[a], "indeterminate")
                    ELSE IF cut THEN Settled(act[a], "cancelled") ELSE act[a]
      BY <1>7 DEF RevokeDevice
    <3>2. act[a] \in ActionRow /\ {"indeterminate", "cancelled"} \subseteq Statuses
      BY <1>0 DEF TypeOK, Statuses, Finished
    <3>3. act[a].status \in InFlight => lost \/ cut
      <4>1. HAVE act[a].status \in InFlight
      <4>2. PICK c \in Cmds : Carries(c, a)
        BY <4>1 DEF InFlightInv, Backed
      <4>3. act[a].status = Expecting(cmd[c].type, cmd[c].phase = "started")
        BY <4>2 DEF InFlightInv, Backed
      <4>4. CASE cmd[c].phase = "started"
        BY <4>2, <4>3, <4>4 DEF Carries, Expecting
      <4>5. CASE cmd[c].phase = "queued"
        BY <4>2, <4>3, <4>5 DEF Carries, Expecting
      <4> QED
        BY <4>2, <4>4, <4>5 DEF Carries, Open, OpenPhases
    <3> HIDE DEF lost, cut
    <3>4. CASE lost
      BY <3>1, <3>2, <3>4, SettledRow DEF InFlight
    <3>5. CASE ~lost /\ cut
      BY <3>1, <3>2, <3>5, SettledRow DEF InFlight
    <3>6. CASE ~lost /\ ~cut
      BY <3>1, <3>3, <3>6
    <3> QED
      BY <3>4, <3>5, <3>6
  <2> QED
    BY <2>1, <2>2, EndStep
<1> QED
  BY <1>1, <1>3, <1>4, <1>5, <1>6, <1>7 DEF AdminRequest

(* Changes of the policies keep every action in flight backed.             *)
LEMMA PolicyInFlight ==
  ASSUME InFlightInv, TypeOK', PolicyChange
  PROVE  InFlightInv'
<1>0. TypeOK
  BY DEF InFlightInv
<1>1. ASSUME NEW p \in [armed : BOOLEAN, stop : BOOLEAN],
             PutDefensePolicyAndCancelQueued(p)
      PROVE InFlightInv'
  <2> DEFINE hit(c) == p.stop /\ Open(c) /\ cmd[c].type = "execute"
                  /\ act[cmd[c].action].policy
                  /\ act[cmd[c].action].status = "approved"
             cut(a) == \E c \in Cmds : hit(c) /\ cmd[c].action = a
  <2>1. /\ \A c \in Cmds : cmd'[c] = IF hit(c) THEN Completed(cmd[c], "withdrawn") ELSE cmd[c]
        /\ \A a \in Actions : act'[a] = IF cut(a) THEN Settled(act[a], "cancelled") ELSE act[a]
    BY <1>1 DEF PutDefensePolicyAndCancelQueued
  <2>2. \A c \in Cmds : hit(c) => Carries(c, cmd[c].action)
    BY DEF Carries, ForAction
  <2> HIDE DEF hit
  <2>3. ASSUME NEW c \in Cmds
        PROVE /\ cmd'[c].type = cmd[c].type
              /\ cmd'[c].action = cmd[c].action
              /\ IF hit(c) THEN cmd'[c].phase = "withdrawn" ELSE cmd'[c].phase = cmd[c].phase
    <3>1. cmd[c] \in CommandRow /\ "withdrawn" \in Phases
      BY <1>0 DEF TypeOK, Phases
    <3> QED
      BY <2>1, <3>1, CompletedRow
  <2>4. ASSUME NEW a \in Actions
        PROVE \/ /\ act'[a].status = act[a].status
                 /\ \A c \in Cmds : Carries(c, a) => cmd'[c].phase = cmd[c].phase
              \/ /\ act'[a].status \notin InFlight
                 /\ \A c \in Cmds : Carries(c, a) => cmd'[c].phase \notin OpenPhases
    <3>1. CASE cut(a)
      <4>1. PICK c \in Cmds : hit(c) /\ cmd[c].action = a
        BY <3>1
      <4>2. \A d \in Cmds : Carries(d, a) => d = c
        BY <2>2, <4>1 DEF InFlightInv, Backed
      <4>3. "withdrawn" \notin OpenPhases
        BY DEF OpenPhases
      <4>4. act'[a] = Settled(act[a], "cancelled")
        BY <2>1, <3>1
      <4>5. act[a] \in ActionRow /\ "cancelled" \in Statuses
        BY <1>0 DEF TypeOK, Statuses, Finished
      <4>6. act'[a].status \notin InFlight
        BY <4>4, <4>5, SettledRow DEF InFlight
      <4> QED
        BY <2>3, <4>1, <4>2, <4>3, <4>6
    <3>2. CASE ~cut(a)
      <4>1. act'[a] = act[a]
        BY <2>1, <3>2
      <4>2. \A c \in Cmds : Carries(c, a) => ~hit(c)
        BY <3>2 DEF Carries
      <4> QED
        BY <2>3, <4>1, <4>2
    <3> QED
      BY <3>1, <3>2
  <2>5. "withdrawn" \notin OpenPhases
    BY DEF OpenPhases
  <2> QED
    BY <2>3, <2>4, <2>5, EndStep
<1>2. ASSUME NEW g \in [stored : {TRUE}, armed : BOOLEAN, stop : BOOLEAN], PutPolicyGrant(g)
      PROVE InFlightInv'
  BY <1>2, QuietStep DEF PutPolicyGrant
<1> QED
  BY <1>1, <1>2 DEF PolicyChange

(* Security events keep every action in flight backed.                     *)
LEMMA EventInFlight ==
  ASSUME InFlightInv, TypeOK', ProcessSecurityEvent
  PROVE  InFlightInv'
<1>0. TypeOK
  BY DEF InFlightInv
<1>1. ASSUME NEW a \in Actions, NEW c \in Cmds, NEW k,
             act[a].status = "absent", Unused(c),
             act' = [SweptDrafts EXCEPT ![a] = NewAction("approved", k, TRUE, 0)],
             cmd' = [cmd EXCEPT ![c] = NewCommand("execute", a)]
      PROVE InFlightInv'
  <2>1. SweptDrafts \in [Actions -> ActionRow]
    BY <1>0, SweptDraftsRows
  <2>2. act'[a].status = Expecting("execute", FALSE)
    BY <1>1, <2>1 DEF NewAction, Expecting
  <2>3. \A b \in Actions \ {a} : act'[b] = SweptDrafts[b]
    BY <1>1, <2>1
  <2>4. act[a].status \notin InFlight
    BY <1>1 DEF InFlight
  <2> QED
    BY <1>0, <1>1, <2>2, <2>3, <2>4, SweptDraftsQuiet, QueueStep
<1>2. ASSUME NEW a \in Actions, NEW c \in Cmds, NEW source \in Sources, PolicyBan(a, c, source)
      PROVE InFlightInv'
  BY <1>1, <1>2 DEF PolicyBan
<1>3. ASSUME NEW a \in Actions, NEW c \in Cmds, PolicySuspend(a, c)
      PROVE InFlightInv'
  BY <1>1, <1>3 DEF PolicySuspend
<1> QED
  BY <1>2, <1>3 DEF ProcessSecurityEvent

(* The sweep ends a command exactly when it ends its action's flight.      *)
LEMMA SweepInFlight ==
  ASSUME InFlightInv, TypeOK', act' = SweptActs,
         \A c \in Cmds : /\ cmd'[c].type = SweptCmds[c].type
                         /\ cmd'[c].action = SweptCmds[c].action
                         /\ cmd'[c].phase = SweptCmds[c].phase
  PROVE  InFlightInv'
<1>0. TypeOK
  BY DEF InFlightInv
<1> DEFINE swept(c) == Expired(c) \/ Overdue(c)
<1>1. ASSUME NEW c \in Cmds
      PROVE /\ cmd'[c].type = cmd[c].type
            /\ cmd'[c].action = cmd[c].action
            /\ swept(c) => cmd'[c].phase \notin OpenPhases
            /\ ~swept(c) => cmd'[c].phase = cmd[c].phase
  <2>1. cmd[c] \in CommandRow /\ {"withdrawn", "timeout"} \subseteq Phases
    BY <1>0 DEF TypeOK, Phases
  <2>2. SweptCmds[c] = IF Expired(c) THEN Completed(cmd[c], "withdrawn")
                       ELSE IF Overdue(c) THEN Completed(cmd[c], "timeout")
                       ELSE cmd[c]
    BY DEF SweptCmds
  <2> QED
    BY <2>1, <2>2, CompletedRow DEF OpenPhases
<1>2. ASSUME NEW c \in Cmds, swept(c)
      PROVE /\ Carries(c, cmd[c].action) /\ cmd[c].action \in Actions
            /\ ExpiredAction(cmd[c].action) \/ OverdueAction(cmd[c].action)
  <2>1. Open(c) /\ ForAction(c)
    BY <1>2 DEF Expired, Overdue, Open, OpenPhases
  <2>2. Carries(c, cmd[c].action) /\ cmd[c].action \in Actions
    BY <2>1 DEF Carries, InFlightInv, Addressed, ForAction
  <2>3. act[cmd[c].action].status = Expecting(cmd[c].type, cmd[c].phase = "started")
    BY <2>2 DEF InFlightInv, Backed
  <2>4. CASE Expired(c)
    <3>1. cmd[c].phase = "queued"
      BY <2>4 DEF Expired
    <3>2. act[cmd[c].action].status \in {"approved", "rolling_back", "confirming"}
      BY <2>3, <3>1 DEF Expecting
    <3> QED
      BY <2>2, <2>4, <3>2 DEF ExpiredAction
  <2>5. CASE Overdue(c)
    <3>1. cmd[c].phase = "started"
      BY <2>5 DEF Overdue
    <3>2. act[cmd[c].action].status \in {"executing", "rolling_back", "confirming"}
      BY <2>3, <3>1 DEF Expecting
    <3> QED
      BY <2>2, <2>5, <3>2 DEF OverdueAction
  <2> QED
    BY <1>2, <2>2, <2>4, <2>5
<1>3. ASSUME NEW a \in Actions
      PROVE \/ /\ act'[a].status = act[a].status
               /\ \A c \in Cmds : Carries(c, a) => cmd'[c].phase = cmd[c].phase
            \/ /\ act'[a].status \notin InFlight
               /\ \A c \in Cmds : Carries(c, a) => cmd'[c].phase \notin OpenPhases
  <2>1. CASE \E c \in Cmds : Carries(c, a) /\ swept(c)
    <3>1. PICK c \in Cmds : Carries(c, a) /\ swept(c)
      BY <2>1
    <3>2. \A d \in Cmds : Carries(d, a) => d = c
      BY <3>1 DEF InFlightInv, Backed
    <3>3. ExpiredAction(a) \/ OverdueAction(a)
      BY <1>2, <3>1 DEF Carries
    <3>4. act[a] \in ActionRow /\ {"failed", "indeterminate"} \subseteq Statuses
      BY <1>0 DEF TypeOK, Statuses, Finished
    <3>5. act'[a] = Settled(act[a], "failed") \/ act'[a] = Settled(act[a], "indeterminate")
      BY <3>3 DEF SweptActs
    <3>6. act'[a].status \notin InFlight
      BY <3>4, <3>5, SettledRow DEF InFlight
    <3> QED
      BY <1>1, <3>1, <3>2, <3>6
  <2>2. CASE ~ \E c \in Cmds : Carries(c, a) /\ swept(c)
    <3>1. ~ExpiredAction(a) /\ ~OverdueAction(a)
      BY <1>2, <2>2 DEF ExpiredAction, OverdueAction, Carries
    <3>2. act'[a] = act[a]
      BY <3>1 DEF SweptActs
    <3> QED
      BY <1>1, <2>2, <3>2
  <2> QED
    BY <2>1, <2>2
<1> HIDE DEF swept
<1>4. \A c \in Cmds : /\ cmd'[c].type = cmd[c].type
                      /\ cmd'[c].action = cmd[c].action
                      /\ cmd'[c].phase = cmd[c].phase \/ cmd'[c].phase \notin OpenPhases
  BY <1>1
<1> QED
  BY <1>3, <1>4, EndStep

(* The gate keeps every action in flight backed.                           *)
LEMMA StartInFlight ==
  ASSUME InFlightInv, TypeOK', NEW c \in Cmds, StartActionCommand(c)
  PROVE  InFlightInv'
<1>0. TypeOK
  BY DEF InFlightInv
<1> DEFINE a == cmd[c].action
<1>1. cmd[c].phase = "queued" /\ ForAction(c)
  BY DEF StartActionCommand, StartExpired, StartDenied, StartAuthorized, Expired, ForAction
<1>2. Carries(c, a) /\ a \in Actions
  BY <1>1 DEF Carries, Open, OpenPhases, InFlightInv, Addressed, ForAction
<1>3. act[a].status = Expecting(cmd[c].type, FALSE)
  BY <1>1, <1>2 DEF InFlightInv, Backed
<1>4. act[a] \in ActionRow /\ cmd[c] \in CommandRow
  BY <1>0, <1>2 DEF TypeOK
<1>5. ASSUME NEW from, Withdraw(c, from), act[a].status \in from
      PROVE InFlightInv'
  <2>1. act' = [act EXCEPT ![a] = Settled(@, "cancelled")]
    BY <1>5 DEF Withdraw
  <2>2. act'[a] = Settled(act[a], "cancelled") /\ \A b \in Actions \ {a} : act'[b] = act[b]
    BY <1>0, <1>2, <2>1 DEF TypeOK
  <2>3. act'[a].status \notin InFlight
    BY <1>4, <2>2, SettledRow DEF InFlight, Statuses, Finished
  <2>4. "withdrawn" \in Phases \ OpenPhases
    BY DEF Phases, OpenPhases
  <2>5. cmd' = [cmd EXCEPT ![c] = Completed(@, "withdrawn")]
    BY <1>5 DEF Withdraw
  <2> QED
    BY <1>2, <2>2, <2>3, <2>4, <2>5, EndOneStep
<1>6. CASE StartExpired(c)
  <2>1. act[a].status \in {"approved", "rolling_back", "confirming"}
    BY <1>3 DEF Expecting
  <2> QED
    BY <1>5, <1>6, <2>1 DEF StartExpired
<1>7. CASE StartDenied(c)
  <2>1. act[a].status \in {"approved"}
    BY <1>3, <1>7 DEF Expecting, StartDenied
  <2> QED
    BY <1>5, <1>7, <2>1 DEF StartDenied
<1>8. CASE StartAuthorized(c)
  <2>1. cmd' = [cmd EXCEPT ![c].phase = "started", ![c].left = ExecutionTimeout]
    BY <1>8 DEF StartAuthorized
  <2>2. /\ cmd'[c].phase = "started" /\ cmd'[c].type = cmd[c].type /\ cmd'[c].action = a
        /\ \A d \in Cmds \ {c} : cmd'[d] = cmd[d]
    BY <1>0, <1>4, <2>1 DEF TypeOK, CommandRow
  <2>3. act'[a].status = Expecting(cmd[c].type, TRUE)
    <3>1. CASE cmd[c].type = "execute"
      <4>1. act' = [act EXCEPT ![a].status = "executing"]
        BY <1>8, <3>1 DEF StartAuthorized
      <4>2. act'[a].status = "executing"
        BY <1>0, <1>2, <1>4, <4>1 DEF TypeOK, ActionRow
      <4> QED
        BY <3>1, <4>2 DEF Expecting
    <3>2. CASE cmd[c].type # "execute"
      <4>1. act' = act
        BY <1>8, <3>2 DEF StartAuthorized
      <4> QED
        BY <1>3, <3>2, <4>1 DEF Expecting
    <3> QED
      BY <3>1, <3>2
  <2>4. \A b \in Actions \ {a} : act'[b] = act[b]
    BY <1>0, <1>8 DEF StartAuthorized, TypeOK
  <2>5. \A d \in Cmds, b \in Actions : Carries(d, b)' <=> Carries(d, b)
    BY <1>1, <2>2 DEF Carries, Open, OpenPhases, ForAction
  <2>6. ASSUME NEW b \in Actions, b = a
        PROVE Backed(b)'
    <3>1. Carries(c, b)' /\ \A d \in Cmds : Carries(d, b)' => d = c
      BY <1>2, <2>5, <2>6 DEF InFlightInv, Backed
    <3>2. act'[b].status = Expecting(cmd'[c].type, cmd'[c].phase = "started")
      BY <2>2, <2>3, <2>6 DEF Expecting
    <3> QED
      BY <3>1, <3>2, CarriedBacked
  <2>7. ASSUME NEW b \in Actions, b # a
        PROVE Backed(b)'
    <3>1. \A d \in Cmds : Carries(d, b) => cmd'[d] = cmd[d]
      BY <2>2, <2>7 DEF Carries
    <3> QED
      BY <2>4, <2>5, <2>7, <3>1, StaysBacked DEF InFlightInv
  <2>8. \A d \in Cmds : Addressed(cmd'[d])
    BY <2>2 DEF InFlightInv, Addressed
  <2> QED
    BY <2>6, <2>7, <2>8 DEF InFlightInv
<1> QED
  BY <1>6, <1>7, <1>8 DEF StartActionCommand

(* A result is accepted only for the command that carries its action.      *)
LEMMA AcceptingCarries ==
  ASSUME InFlightInv, NEW c \in Cmds, NEW t \in {"execute", "rollback", "confirm"},
         Accepting(c, t)
  PROVE  /\ Carries(c, cmd[c].action)
         /\ cmd[c].action \in Actions
         /\ act[cmd[c].action] \in ActionRow
BY DEF Accepting, Carries, Open, OpenPhases, ForAction, InFlightInv, Addressed, TypeOK

(* A verdict on a result ends the flight of the action.                    *)
LEMMA VerdictEnds ==
  ASSUME NEW o, NEW good \in {"awaiting_confirmation", "succeeded", "rolled_back"}
  PROVE  Verdict(o, good) \in Statuses \ InFlight
BY DEF Verdict, Statuses, Finished, Unfinished, InFlight

(* Results keep every action in flight backed.                             *)
LEMMA ResultInFlight ==
  ASSUME InFlightInv, TypeOK', AnyResult
  PROVE  InFlightInv'
<1>0. TypeOK
  BY DEF InFlightInv
<1>1. "result" \in Phases \ OpenPhases
  BY DEF Phases, OpenPhases
<1>2. ASSUME NEW c \in Cmds, NEW s \in Submission, CompleteExecute(c, s)
      PROVE InFlightInv'
  <2> DEFINE a == cmd[c].action
             o == Outcome("execute", act[a].kind, s)
             good == IF o.awaiting THEN "awaiting_confirmation" ELSE "succeeded"
  <2>1. Carries(c, a) /\ a \in Actions /\ act[a] \in ActionRow
    BY <1>2, AcceptingCarries DEF CompleteExecute
  <2>2. PICK window \in IF o.awaiting THEN 1..ConfirmMax ELSE {0} :
          act' = [act EXCEPT ![a].status = Verdict(o, good),
                             ![a].state = o.keepState, ![a].left = window]
    BY <1>2 DEF CompleteExecute
  <2>3. Verdict(o, good) \notin InFlight
    BY VerdictEnds
  <2>4. cmd' = [cmd EXCEPT ![c] = Completed(@, "result")]
    BY <1>2 DEF CompleteExecute
  <2> HIDE DEF o, good
  <2>5. /\ act'[a].status = Verdict(o, good)
        /\ \A b \in Actions \ {a} : act'[b] = act[b]
    BY <1>0, <2>1, <2>2 DEF TypeOK, ActionRow
  <2> QED
    BY <1>1, <2>1, <2>3, <2>4, <2>5, EndOneStep
<1>3. ASSUME NEW c \in Cmds, NEW s \in Submission, NEW undo \in Cmds,
             CompleteLegacySuspend(c, s, undo)
      PROVE InFlightInv'
  <2> DEFINE a == cmd[c].action
             o == Outcome("execute", act[a].kind, s)
  <2>1. Carries(c, a) /\ a \in Actions /\ act[a] \in ActionRow
    BY <1>3, AcceptingCarries DEF CompleteLegacySuspend
  <2>2. c # undo
    BY <1>3 DEF CompleteLegacySuspend, Accepting, Unused
  <2>3. cmd' = [cmd EXCEPT ![c] = Completed(@, "result"), ![undo] = NewCommand("rollback", a)]
    BY <1>3 DEF CompleteLegacySuspend
  <2>4. /\ cmd'[c] = Completed(cmd[c], "result")
        /\ cmd'[undo] = NewCommand("rollback", a)
        /\ \A d \in Cmds \ {c, undo} : cmd'[d] = cmd[d]
    BY <1>0, <2>2, <2>3 DEF TypeOK
  <2>5. /\ cmd'[c].phase = "result" /\ cmd'[c].type = cmd[c].type /\ cmd'[c].action = a
        /\ cmd'[undo].phase = "queued" /\ cmd'[undo].type = "rollback" /\ cmd'[undo].action = a
    <3>1. cmd[c] \in CommandRow
      BY <1>0 DEF TypeOK
    <3> QED
      BY <1>1, <2>4, <3>1, CompletedRow DEF NewCommand
  <2>6. /\ act'[a].status = "rolling_back"
        /\ \A b \in Actions \ {a} : act'[b] = act[b]
    <3>1. act' = [act EXCEPT ![a].status = "rolling_back",
                             ![a].state = o.keepState, ![a].left = 0]
      BY <1>3 DEF CompleteLegacySuspend
    <3> HIDE DEF o
    <3> QED
      BY <1>0, <2>1, <3>1 DEF TypeOK, ActionRow
  <2>7. \A d \in Cmds : Addressed(cmd'[d])
    BY <2>1, <2>4, <2>5 DEF InFlightInv, Addressed
  <2>8. ASSUME NEW b \in Actions, b = a
        PROVE Backed(b)'
    <3>1. \A d \in Cmds : Carries(d, b) => d = c
      BY <2>1, <2>8 DEF InFlightInv, Backed
    <3>2. \A d \in Cmds : Carries(d, b)' => d = undo
      BY <1>1, <2>4, <2>5, <3>1 DEF Carries, Open, ForAction
    <3>3. Carries(undo, b)'
      BY <2>5, <2>8 DEF Carries, Open, OpenPhases, ForAction
    <3>4. act'[b].status = Expecting(cmd'[undo].type, cmd'[undo].phase = "started")
      BY <2>5, <2>6, <2>8 DEF Expecting
    <3> QED
      BY <3>2, <3>3, <3>4, CarriedBacked
  <2>9. ASSUME NEW b \in Actions, b # a
        PROVE Backed(b)'
    <3>1. ~Carries(undo, b)
      BY <1>3 DEF CompleteLegacySuspend, Unused, Carries, Open, OpenPhases
    <3>2. ~Carries(c, b) /\ ~Carries(c, b)' /\ ~Carries(undo, b)'
      BY <2>5, <2>9 DEF Carries
    <3>3. \A d \in Cmds \ {c, undo} : Carries(d, b)' <=> Carries(d, b)
      BY <2>4 DEF Carries, Open, ForAction
    <3>4. \A d \in Cmds : /\ Carries(d, b)' <=> Carries(d, b)
                          /\ Carries(d, b) => cmd'[d] = cmd[d]
      BY <2>4, <3>1, <3>2, <3>3
    <3> QED
      BY <2>6, <2>9, <3>4, StaysBacked DEF InFlightInv
  <2> QED
    BY <2>7, <2>8, <2>9 DEF InFlightInv
<1>4. ASSUME NEW c \in Cmds, NEW t \in {"rollback", "confirm"}, Accepting(c, t),
             NEW o, NEW good \in {"rolled_back", "succeeded"},
             cmd' = [cmd EXCEPT ![c] = Completed(@, "result")],
             act' = [act EXCEPT ![cmd[c].action] = Settled(@, Verdict(o, good))]
      PROVE InFlightInv'
  <2> DEFINE a == cmd[c].action
  <2>1. Carries(c, a) /\ a \in Actions /\ act[a] \in ActionRow
    BY <1>4, AcceptingCarries
  <2>2. Verdict(o, good) \in Statuses \ InFlight
    BY VerdictEnds
  <2>3. /\ act'[a] = Settled(act[a], Verdict(o, good))
        /\ \A b \in Actions \ {a} : act'[b] = act[b]
    BY <1>0, <1>4, <2>1 DEF TypeOK
  <2>4. act'[a].status \notin InFlight
    BY <2>1, <2>2, <2>3, SettledRow
  <2> QED
    BY <1>1, <1>4, <2>1, <2>3, <2>4, EndOneStep
<1>5. ASSUME NEW c \in Cmds, NEW s \in Submission, CompleteRollback(c, s)
      PROVE InFlightInv'
  BY <1>4, <1>5 DEF CompleteRollback
<1>6. ASSUME NEW c \in Cmds, NEW s \in Submission, CompleteConfirm(c, s)
      PROVE InFlightInv'
  BY <1>4, <1>6 DEF CompleteConfirm
<1>7. ASSUME NEW c \in Cmds, CompleteScan(c)
      PROVE InFlightInv'
  <2>1. \A d \in Cmds : cmd'[d] = IF d = c THEN Completed(cmd[c], "result") ELSE cmd[d]
    BY <1>0, <1>7 DEF CompleteScan, TypeOK
  <2>2. \A d \in Cmds : /\ cmd'[d].type = cmd[d].type
                        /\ cmd'[d].action = cmd[d].action
                        /\ cmd'[d].phase = IF d = c THEN "result" ELSE cmd[d].phase
    BY <1>0, <1>1, <2>1, CompletedRow DEF TypeOK
  <2>3. act' = act /\ \A a \in Actions : ~Carries(c, a)
    BY <1>7 DEF CompleteScan, Carries
  <2> QED
    BY <1>1, <2>2, <2>3, EndStep
<1> QED
  BY <1>2, <1>3, <1>5, <1>6, <1>7 DEF AnyResult

(* Claims and the maintenance loop keep every action in flight backed.     *)
LEMMA ClaimInFlight ==
  ASSUME InFlightInv, TypeOK', ClaimCommands
  PROVE  InFlightInv'
<1>1. ASSUME NEW c \in Cmds
      PROVE /\ cmd'[c].type = SweptCmds[c].type
            /\ cmd'[c].action = SweptCmds[c].action
            /\ cmd'[c].phase = SweptCmds[c].phase
  <2>1. SweptCmds[c] \in CommandRow
    BY SweptRows DEF InFlightInv
  <2>2. cmd'[c] \in {[SweptCmds[c] EXCEPT !.lease = ClaimLease], SweptCmds[c]}
    BY DEF ClaimCommands
  <2> QED
    BY <2>1, <2>2 DEF CommandRow
<1> QED
  BY <1>1, SweepInFlight DEF ClaimCommands

(* So does the maintenance loop.                                           *)
LEMMA MaintainInFlight ==
  ASSUME InFlightInv, TypeOK', Maintain
  PROVE  InFlightInv'
<1>0. TypeOK
  BY DEF InFlightInv
<1>1. CASE ExpireStaleActionCommands
  BY <1>1, SweepInFlight DEF ExpireStaleActionCommands
<1>2. CASE ExpireActionConfirmations
  <2>1. ASSUME NEW a \in Actions
        PROVE \/ act'[a].status = act[a].status
              \/ act[a].status \notin InFlight /\ act'[a].status \notin InFlight
    <3>1. act[a] \in ActionRow /\ "cancelled" \in Statuses
      BY <1>0 DEF TypeOK, Statuses, Finished
    <3>2. act'[a] = IF act[a].status = "awaiting_confirmation" /\ act[a].left = 0
                      THEN Settled(act[a], "cancelled") ELSE act[a]
      BY <1>2 DEF ExpireActionConfirmations
    <3> QED
      BY <3>1, <3>2, SettledRow DEF InFlight
  <2>2. cmd' = cmd
    BY <1>2 DEF ExpireActionConfirmations
  <2> QED
    BY <2>1, <2>2, QuietStep
<1>3. CASE ExpireDraftActions
  BY <1>0, <1>3, SweptDraftsQuiet, QuietStep DEF ExpireDraftActions
<1>4. CASE ExpireBanHorizon
  BY <1>4, QuietStep DEF ExpireBanHorizon
<1> QED
  BY <1>1, <1>2, <1>3, <1>4 DEF Maintain

(* So does the passage of time.                                            *)
LEMMA TickInFlight ==
  ASSUME InFlightInv, TypeOK', Tick
  PROVE  InFlightInv'
<1>1. ASSUME NEW a \in Actions
      PROVE act'[a].status = act[a].status
  <2>1. act'[a] = [act[a] EXCEPT !.left = Down(act[a].left)] /\ act[a] \in ActionRow
    BY DEF Tick, InFlightInv, TypeOK
  <2> QED
    BY <2>1 DEF ActionRow
<1>2. ASSUME NEW c \in Cmds
      PROVE /\ cmd'[c].type = cmd[c].type
            /\ cmd'[c].action = cmd[c].action
            /\ cmd'[c].phase = cmd[c].phase
  <2>1. cmd'[c] = [cmd[c] EXCEPT !.left = Down(cmd[c].left), !.lease = Down(cmd[c].lease)]
    BY DEF Tick
  <2>2. cmd[c] \in CommandRow
    BY DEF InFlightInv, TypeOK
  <2> QED
    BY <2>1, <2>2 DEF CommandRow
<1> QED
  BY <1>1, <1>2, QuietStep

(* Every step keeps every action in flight backed.                         *)
LEMMA StepInFlight ==
  ASSUME InFlightInv, [AnyNext]_vars
  PROVE  InFlightInv'
<1>1. TypeOK'
  BY StepTypes DEF InFlightInv
<1>2. CASE AnyAgentRequest
  BY <1>1, <1>2, ClaimInFlight, StartInFlight, ResultInFlight DEF AnyAgentRequest
<1>3. CASE UNCHANGED vars
  <2>1. act' = act /\ cmd' = cmd
    BY <1>3 DEF vars
  <2> QED
    BY <1>1, <2>1, QuietStep
<1> QED
  BY <1>1, <1>2, <1>3, AdminInFlight, PolicyInFlight, EventInFlight,
     MaintainInFlight, TickInFlight DEF AnyNext

(* In an empty store nothing is in flight.                                 *)
LEMMA InitInFlight ==
  ASSUME Init
  PROVE  InFlightInv
<1>1. \A c \in Cmds, a \in Actions : ~Carries(c, a)
  BY DEF Init, Carries, Open, OpenPhases
<1>2. \A a \in Actions : Backed(a)
  BY <1>1 DEF Init, Backed, InFlight
<1> QED
  BY <1>2, InitTypes DEF Init, InFlightInv, Addressed

(* An action in flight always has exactly one open command, which expects  *)
(* exactly the status the action is in; no open command is left without    *)
(* its action.  The two tables never drift apart, whatever the order of    *)
(* requests, results, stops, revocations and timeouts.                     *)
THEOREM InFlightAlwaysBacked == Spec => []InFlightBacked
<1>1. Init => InFlightInv
  BY InitInFlight
<1>2. InFlightInv /\ [Next]_vars => InFlightInv'
  BY StepInFlight, NextIsAny
<1>3. InFlightInv => InFlightBacked
  BY InvImpliesBacked
<1> QED
  BY <1>1, <1>2, <1>3, PTL DEF Spec

=============================================================================
