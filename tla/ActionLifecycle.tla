--------------------------- MODULE ActionLifecycle ---------------------------
(***************************************************************************)
(* The Controller's store of one device: remediation actions, the durable  *)
(* commands that carry them to the Agent, the temporary bans projected     *)
(* from them, the defence policy and the runtime grant that authorise      *)
(* automatic actions, and the device's revocation.                         *)
(*                                                                         *)
(* Every action below is one SQLite transaction (one writer at a time), so *)
(* the interleavings are those of the transactions: administrator          *)
(* requests, Agent requests, events, and the maintenance loop.             *)
(*                                                                         *)
(* Time.  Deadlines are counters "left" that Tick decreases; 0 means that  *)
(* the limit has passed.  Every pair of comparisons in the code that looks *)
(* at the same limit (created_at >= x / created_at < x, confirm_by > now / *)
(* confirm_by <= now) is exhaustive and exclusive, so left > 0 and left = 0*)
(* are the two sides.  The Controller's clock never steps back.            *)
(*                                                                         *)
(* A definition marked "Fault" is a plausible mistake in the code modelled *)
(* by the definition after it.  The specification does not use it; it is   *)
(* there to show that a property notices the mistake.                      *)
(***************************************************************************)
EXTENDS ReceiptValidation, Integers, FiniteSets

CONSTANTS
  Actions,          \* identities of action rows
  Cmds,             \* identities of command rows
  Sources,          \* attacking source addresses
  NoAction,         \* the action of a scan command
  NoSource,         \* the source of a row that is not there
  Kinds,            \* the kinds of action the instance creates
  Submissions,      \* the results the device may submit
  DraftTTL,         \* ticks until actionApprovalTTL (10 min) has passed
  CommandTTL,       \* ticks until ActionCommandTTL (10 min) has passed
  ExecutionTimeout, \* ticks until ActionExecutionTimeout (2 h) has passed
  ConfirmMax,       \* the longest confirmation window accepted (15 min)
  BanTTL,           \* ticks a temporary ban lasts
  ClaimLease,       \* ticks a claim keeps a command from being redelivered
  MaxUnfinished     \* maxUnfinishedActionsPerDevice (200)

ASSUME NamesAssumption   == NoAction \notin Actions /\ NoSource \notin Sources
ASSUME KindsAssumption   == Kinds \subseteq ActionKinds
ASSUME ResultsAssumption == Submissions \subseteq Submission
ASSUME TimesAssumption   ==
  /\ DraftTTL \in Nat \ {0} /\ CommandTTL \in Nat \ {0}
  /\ ExecutionTimeout \in Nat \ {0} /\ ConfirmMax \in Nat \ {0}
  /\ BanTTL \in Nat \ {0} /\ ClaimLease \in Nat \ {0}
ASSUME CapacityAssumption == MaxUnfinished \in Nat \ {0}

VARIABLES
  act,      \* act[a]: status, kind, authorised by policy, holds rollback state, time left
  cmd,      \* cmd[c]: phase, type, action, time left, claim lease left
  ban,      \* ban[a]: the temporary_bans row of a policy ban action
  policy,   \* the device's defense_policies row
  grant,    \* the device's policy_grants row for workload.runtime
  revoked

vars == <<act, cmd, ban, policy, grant, revoked>>

-----------------------------------------------------------------------------

Unfinished == {"draft", "approved", "executing", "awaiting_confirmation",
               "confirming", "rolling_back"}
Finished   == {"succeeded", "failed", "rolled_back", "cancelled", "indeterminate"}
Statuses   == Unfinished \cup Finished \cup {"absent"}

(* A completed command keeps how it ended: "result" with the digest of a   *)
(* result, "superseded" and "timeout" with the two messages the completion *)
(* handler recognises, "withdrawn" with any other message and no digest.   *)
OpenPhases == {"queued", "started"}
Phases     == OpenPhases \cup {"absent", "result", "superseded", "timeout", "withdrawn"}

BanStatuses == {"none", "pending", "active", "indeterminate", "failed",
                "cancelled", "rolled_back"}

ActionRow  == [status : Statuses, kind : ActionKinds, policy : BOOLEAN,
               state : BOOLEAN, left : Nat]
CommandRow == [phase : Phases, type : CommandTypes, action : Actions \cup {NoAction},
               left : Nat, lease : Nat]
BanRow     == [status : BanStatuses, source : Sources \cup {NoSource}, left : Nat]

NewAction(st, k, byPolicy, ttl) ==
  [status |-> st, kind |-> k, policy |-> byPolicy, state |-> FALSE, left |-> ttl]
NewCommand(t, a) ==
  [phase |-> "queued", type |-> t, action |-> a, left |-> CommandTTL, lease |-> 0]

Settled(row, st)    == [row EXCEPT !.status = st, !.left = 0]
Completed(row, end) == [row EXCEPT !.phase = end, !.left = 0, !.lease = 0]

Open(c)        == cmd[c].phase \in OpenPhases
ForAction(c)   == cmd[c].type # "scan"
Unused(c)      == cmd[c].phase = "absent"
UnfinishedIn(rows) == {a \in Actions : rows[a].status \in Unfinished}

(* Drafts whose approval time has passed are cancelled first.              *)
SweptDrafts ==
  [a \in Actions |->
     IF act[a].status = "draft" /\ act[a].left = 0
       THEN Settled(act[a], "cancelled") ELSE act[a]]

(* Only a pending ban, or one inside its guaranteed horizon, suppresses    *)
(* another ban of the same source.                                         *)
Live(a) ==
  \/ ban[a].status = "pending"
  \/ ban[a].status \in {"active", "indeterminate"} /\ ban[a].left > 0

BanBecomes(a, from, st) ==
  IF ban[a].status \in from THEN [ban EXCEPT ![a].status = st] ELSE ban

\* Fault: a queued ban does not suppress another.
DedupeActiveOnly(source) == \E b \in Actions : ban[b].source = source /\ ban[b].status = "active"
ActiveBan(source) == \E b \in Actions : ban[b].source = source /\ Live(b)

(* The ban of a command whose effect on the host nobody knows.             *)
MaybeApplied(a) ==
  IF ban[a].status \in {"pending", "active", "indeterminate"}
    THEN [ban[a] EXCEPT !.status = "indeterminate"] ELSE ban[a]

-----------------------------------------------------------------------------
(* Administrator requests and scheduled scans.                             *)

CreateAction(a, k) ==
  /\ act[a].status = "absent"
  /\ Cardinality(UnfinishedIn(SweptDrafts)) < MaxUnfinished
  /\ act' = [SweptDrafts EXCEPT ![a] = NewAction("draft", k, FALSE, DraftTTL)]
  /\ UNCHANGED <<cmd, ban, policy, grant, revoked>>

\* Fault: a failed action can be approved again.
ApproveAgain(a, c) ==
  /\ act[a].status \in {"draft", "failed"}
  /\ Unused(c)
  /\ act' = [act EXCEPT ![a] = Settled(@, "approved")]
  /\ cmd' = [cmd EXCEPT ![c] = NewCommand("execute", a)]
  /\ UNCHANGED <<ban, policy, grant, revoked>>

ApproveActionAndEnqueue(a, c) ==
  /\ act[a].status = "draft" /\ act[a].left > 0
  /\ Unused(c)
  /\ act' = [act EXCEPT ![a] = Settled(@, "approved")]
  /\ cmd' = [cmd EXCEPT ![c] = NewCommand("execute", a)]
  /\ UNCHANGED <<ban, policy, grant, revoked>>

Rollbackable(a) ==
  act[a].status \in {"succeeded", "awaiting_confirmation", "failed", "indeterminate"}
QueueRollback(a, c) ==
  /\ act' = [act EXCEPT ![a] = Settled(@, "rolling_back")]
  /\ cmd' = [cmd EXCEPT ![c] = NewCommand("rollback", a)]
  /\ UNCHANGED <<ban, policy, grant, revoked>>

\* Fault: the limit is not checked.
RollbackOverLimit(a, c) ==
  Rollbackable(a) /\ act[a].state /\ Unused(c) /\ QueueRollback(a, c)

RequestRollbackAndEnqueue(a, c) ==
  /\ Rollbackable(a) /\ act[a].state
  /\ Cardinality(UnfinishedIn(act)) < MaxUnfinished
  /\ Unused(c)
  /\ QueueRollback(a, c)

RequestConfirmationAndEnqueue(a, c) ==
  /\ act[a].status = "awaiting_confirmation" /\ act[a].left > 0
  /\ act[a].state
  /\ Unused(c)
  /\ act' = [act EXCEPT ![a] = Settled(@, "confirming")]
  /\ cmd' = [cmd EXCEPT ![c] = NewCommand("confirm", a)]
  /\ UNCHANGED <<ban, policy, grant, revoked>>

(* A scan request supersedes the one still pending.                        *)
EnqueueScan(c) ==
  /\ Unused(c)
  /\ cmd' = [d \in Cmds |->
               IF d = c THEN NewCommand("scan", NoAction)
               ELSE IF Open(d) /\ ~ForAction(d) THEN Completed(cmd[d], "superseded")
               ELSE cmd[d]]
  /\ UNCHANGED <<act, ban, policy, grant, revoked>>

(* Saving the defence policy overwrites the stop of every stored grant     *)
(* and, when it stops the device, withdraws the policy actions that have   *)
(* not crossed the authorisation gate.  The emergency-stop handler reads   *)
(* the policy and calls the same transaction, so p is any policy.          *)
\* Fault: the stop leaves queued actions alone.
SavePolicyOnly(p) ==
  /\ policy' = p
  /\ grant'  = IF grant.stored THEN [grant EXCEPT !.stop = p.stop] ELSE grant
  /\ UNCHANGED <<act, cmd, ban, revoked>>
PutDefensePolicyAndCancelQueued(p) ==
  LET hit(c) == p.stop /\ Open(c) /\ cmd[c].type = "execute"
                  /\ act[cmd[c].action].policy
                  /\ act[cmd[c].action].status = "approved"
      cut(a) == \E c \in Cmds : hit(c) /\ cmd[c].action = a
  IN /\ policy' = p
     /\ grant'  = IF grant.stored THEN [grant EXCEPT !.stop = p.stop] ELSE grant
     /\ cmd' = [c \in Cmds |-> IF hit(c) THEN Completed(cmd[c], "withdrawn") ELSE cmd[c]]
     /\ act' = [a \in Actions |-> IF cut(a) THEN Settled(act[a], "cancelled") ELSE act[a]]
     /\ ban' = [a \in Actions |->
                  IF cut(a) /\ ban[a].status = "pending"
                    THEN [ban[a] EXCEPT !.status = "cancelled"] ELSE ban[a]]
     /\ UNCHANGED revoked

PutPolicyGrant(g) ==
  /\ grant' = [g EXCEPT !.stored = TRUE]
  /\ UNCHANGED <<act, cmd, ban, policy, revoked>>

RevokeDevice ==
  LET sent(a)   == \E c \in Cmds : cmd[c].phase = "started" /\ cmd[c].action = a
      unsent(a) == \E c \in Cmds : cmd[c].phase = "queued" /\ cmd[c].action = a
      lost(a) == sent(a) /\ act[a].status \in {"executing", "rolling_back", "confirming"}
      cut(a)  == unsent(a) /\ act[a].status \in
                   {"approved", "executing", "rolling_back", "confirming",
                    "awaiting_confirmation"}
  IN /\ ~revoked /\ revoked' = TRUE
     /\ cmd' = [c \in Cmds |->
                  IF cmd[c].phase = "started" THEN Completed(cmd[c], "timeout")
                  ELSE IF cmd[c].phase = "queued" THEN Completed(cmd[c], "withdrawn")
                  ELSE cmd[c]]
     /\ act' = [a \in Actions |->
                  IF lost(a) THEN Settled(act[a], "indeterminate")
                  ELSE IF cut(a) THEN Settled(act[a], "cancelled")
                  ELSE act[a]]
     /\ ban' = [a \in Actions |->
                  IF lost(a) THEN MaybeApplied(a)
                  ELSE IF cut(a) /\ ban[a].status = "pending"
                         THEN [ban[a] EXCEPT !.status = "cancelled"]
                  ELSE ban[a]]
     /\ UNCHANGED <<policy, grant>>

-----------------------------------------------------------------------------
(* Security events that the policies turn into actions.  Whether an event  *)
(* reaches its threshold, hourly budget or cooldown is left to the         *)
(* environment.                                                            *)

PolicyBan(a, c, source) ==
  /\ ~revoked
  /\ policy.armed /\ ~policy.stop
  /\ ~ActiveBan(source)
  /\ act[a].status = "absent" /\ Unused(c)
  /\ Cardinality(UnfinishedIn(SweptDrafts)) < MaxUnfinished
  /\ act' = [SweptDrafts EXCEPT ![a] = NewAction("approved", "ip_ban", TRUE, 0)]
  /\ cmd' = [cmd EXCEPT ![c] = NewCommand("execute", a)]
  /\ ban' = [ban EXCEPT ![a] = [status |-> "pending", source |-> source, left |-> BanTTL]]
  /\ UNCHANGED <<policy, grant, revoked>>

GrantAllows == grant.stored /\ grant.armed /\ ~grant.stop

PolicySuspend(a, c) ==
  /\ ~revoked
  /\ GrantAllows
  /\ act[a].status = "absent" /\ Unused(c)
  /\ Cardinality(UnfinishedIn(SweptDrafts)) < MaxUnfinished
  /\ act' = [SweptDrafts EXCEPT ![a] = NewAction("approved", "process_suspend", TRUE, 0)]
  /\ cmd' = [cmd EXCEPT ![c] = NewCommand("execute", a)]
  /\ UNCHANGED <<ban, policy, grant, revoked>>

-----------------------------------------------------------------------------
(* The maintenance sweep.  It also runs inside ClaimCommands.  A command   *)
(* never started was never applied; one started and never answered may     *)
(* have been.                                                              *)

Expired(c) == cmd[c].phase = "queued"  /\ ForAction(c) /\ cmd[c].left = 0
\* Fault: only executions are overdue.
OverdueExecution(c) == cmd[c].phase = "started" /\ cmd[c].type = "execute" /\ cmd[c].left = 0
Overdue(c) == cmd[c].phase = "started" /\ ForAction(c) /\ cmd[c].left = 0

\* Fault: only executions expire.
ExpiredExecution(a) ==
  act[a].status = "approved" /\ \E c \in Cmds : Expired(c) /\ cmd[c].action = a
ExpiredAction(a) ==
  /\ act[a].status \in {"approved", "executing", "rolling_back",
                         "awaiting_confirmation", "confirming"}
  /\ \E c \in Cmds : Expired(c) /\ cmd[c].action = a
OverdueAction(a) ==
  /\ act[a].status \in {"executing", "rolling_back", "confirming"}
  /\ \E c \in Cmds : Overdue(c) /\ cmd[c].action = a

SweptCmds ==
  [c \in Cmds |-> IF Expired(c) THEN Completed(cmd[c], "withdrawn")
                  ELSE IF Overdue(c) THEN Completed(cmd[c], "timeout")
                  ELSE cmd[c]]
\* Fault: an unanswered command failed.
SweptAllFailed ==
  [a \in Actions |-> IF ExpiredAction(a) \/ OverdueAction(a) THEN Settled(act[a], "failed")
                     ELSE act[a]]
SweptActs ==
  [a \in Actions |-> IF ExpiredAction(a) THEN Settled(act[a], "failed")
                     ELSE IF OverdueAction(a) THEN Settled(act[a], "indeterminate")
                     ELSE act[a]]
SweptBans ==
  [a \in Actions |->
     IF ExpiredAction(a)
       THEN IF ban[a].status = "pending" THEN [ban[a] EXCEPT !.status = "failed"] ELSE ban[a]
     ELSE IF OverdueAction(a) THEN MaybeApplied(a)
     ELSE ban[a]]

ExpireStaleActionCommands ==
  /\ \E c \in Cmds : Expired(c) \/ Overdue(c)
  /\ cmd' = SweptCmds /\ act' = SweptActs /\ ban' = SweptBans
  /\ UNCHANGED <<policy, grant, revoked>>

ExpireActionConfirmations ==
  LET due(a) == act[a].status = "awaiting_confirmation" /\ act[a].left = 0
  IN /\ \E a \in Actions : due(a)
     /\ act' = [a \in Actions |-> IF due(a) THEN Settled(act[a], "cancelled") ELSE act[a]]
     /\ UNCHANGED <<cmd, ban, policy, grant, revoked>>

ExpireDraftActions ==
  /\ SweptDrafts # act
  /\ act' = SweptDrafts
  /\ UNCHANGED <<cmd, ban, policy, grant, revoked>>

(* Past its guaranteed horizon an active ban is an unknown, not an absence.*)
ExpireBanHorizon ==
  LET due(a) == ban[a].status = "active" /\ ban[a].left = 0
  IN /\ \E a \in Actions : due(a)
     /\ ban' = [a \in Actions |->
                  IF due(a) THEN [ban[a] EXCEPT !.status = "indeterminate"] ELSE ban[a]]
     /\ UNCHANGED <<act, cmd, policy, grant, revoked>>

-----------------------------------------------------------------------------
(* Agent requests.  The credential of a revoked device is refused before   *)
(* any of them reaches the store.                                          *)

(* A claim sweeps first, then leases every open command whose previous     *)
(* lease has run out, started or not: this is how a command reaches an     *)
(* Agent that crashed while handling it.                                   *)
ClaimableIn(rows) == {c \in Cmds : rows[c].phase \in OpenPhases /\ rows[c].lease = 0}

ClaimCommands ==
  /\ ~revoked
  /\ cmd' = [c \in Cmds |-> IF c \in ClaimableIn(SweptCmds)
                              THEN [SweptCmds[c] EXCEPT !.lease = ClaimLease]
                              ELSE SweptCmds[c]]
  /\ act' = SweptActs /\ ban' = SweptBans
  /\ UNCHANGED <<policy, grant, revoked>>

(* The final authorisation gate.  A command that is already started is     *)
(* authorised again and a completed one refused, neither with any effect.  *)
GateOpen(a) ==
  \/ ~act[a].policy
  \/ act[a].kind = "ip_ban" /\ policy.armed /\ ~policy.stop
  \/ act[a].kind = "process_suspend" /\ GrantAllows

Expecting(t, started) ==
  IF t = "execute" THEN IF started THEN "executing" ELSE "approved"
  ELSE IF t = "rollback" THEN "rolling_back"
  ELSE "confirming"

Withdraw(c, from) ==
  LET a == cmd[c].action
  IN /\ cmd' = [cmd EXCEPT ![c] = Completed(@, "withdrawn")]
     /\ act' = IF act[a].status \in from
                 THEN [act EXCEPT ![a] = Settled(@, "cancelled")] ELSE act
     /\ ban' = BanBecomes(a, {"pending"}, "cancelled")

StartExpired(c) ==
  /\ ~revoked
  /\ Expired(c)
  /\ Withdraw(c, {"approved", "rolling_back", "confirming"})
  /\ UNCHANGED <<policy, grant, revoked>>

StartDenied(c) ==
  /\ ~revoked
  /\ cmd[c].phase = "queued" /\ cmd[c].left > 0
  /\ cmd[c].type = "execute" /\ ~GateOpen(cmd[c].action)
  /\ Withdraw(c, {"approved"})
  /\ UNCHANGED <<policy, grant, revoked>>

StartAuthorized(c) ==
  LET a == cmd[c].action IN
  /\ ~revoked
  /\ cmd[c].phase = "queued" /\ ForAction(c) /\ cmd[c].left > 0
  /\ cmd[c].type = "execute" => GateOpen(a)
  /\ act[a].status = Expecting(cmd[c].type, FALSE)
  /\ cmd' = [cmd EXCEPT ![c].phase = "started", ![c].left = ExecutionTimeout]
  /\ IF cmd[c].type = "execute"
       THEN /\ act' = [act EXCEPT ![a].status = "executing"]
            /\ ban' = IF ban[a].status = "pending" /\ ban[a].left < BanTTL
                        THEN [ban EXCEPT ![a].left = BanTTL] ELSE ban
       ELSE UNCHANGED <<act, ban>>
  /\ UNCHANGED <<policy, grant, revoked>>

StartActionCommand(c) == StartExpired(c) \/ StartDenied(c) \/ StartAuthorized(c)

-----------------------------------------------------------------------------
(* Results.  Only the first result of an open command changes anything; a  *)
(* result for a completed command is answered without an effect here.      *)

Verdict(o, good) == IF o.unknown THEN "indeterminate" ELSE IF o.ok THEN good ELSE "failed"

Accepting(c, t) ==
  /\ ~revoked
  /\ cmd[c].phase = "started" /\ cmd[c].type = t
  /\ act[cmd[c].action].status = Expecting(t, TRUE)

(* The ban of an answered execution.  Its horizon counts from the start of *)
(* the command; a result that arrives after it proves nothing about now.   *)
\* Fault: the result restarts the ban's time.
BanRestarted(a, o) ==
  IF ban[a].status = "pending"
    THEN [ban EXCEPT ![a].status = Verdict(o, "active"), ![a].left = BanTTL] ELSE ban
BanAfterExecution(a, o) ==
  LET st == Verdict(o, IF ban[a].left > 0 THEN "active" ELSE "indeterminate")
  IN BanBecomes(a, {"pending"}, st)

CompleteExecute(c, s) ==
  LET a == cmd[c].action
      o == Outcome("execute", act[a].kind, s)
  IN /\ Accepting(c, "execute")
     /\ ~o.legacy
     /\ cmd' = [cmd EXCEPT ![c] = Completed(@, "result")]
     /\ \E window \in IF o.awaiting THEN 1..ConfirmMax ELSE {0} :
          act' = [act EXCEPT ![a].status =
                    Verdict(o, IF o.awaiting THEN "awaiting_confirmation" ELSE "succeeded"),
                             ![a].state = o.keepState,
                             ![a].left  = window]
     /\ ban' = BanAfterExecution(a, o)
     /\ UNCHANGED <<policy, grant, revoked>>

(* An old Helper's suspension is undone at once by a command of its own.   *)
CompleteLegacySuspend(c, s, undo) ==
  LET a == cmd[c].action
      o == Outcome("execute", act[a].kind, s)
  IN /\ Accepting(c, "execute")
     /\ o.legacy
     /\ Unused(undo)
     /\ cmd' = [cmd EXCEPT ![c] = Completed(@, "result"),
                           ![undo] = NewCommand("rollback", a)]
     /\ act' = [act EXCEPT ![a].status = "rolling_back",
                           ![a].state = o.keepState, ![a].left = 0]
     /\ ban' = BanAfterExecution(a, o)
     /\ UNCHANGED <<policy, grant, revoked>>

CompleteRollback(c, s) ==
  LET a == cmd[c].action
      o == Outcome("rollback", act[a].kind, s)
  IN /\ Accepting(c, "rollback")
     /\ cmd' = [cmd EXCEPT ![c] = Completed(@, "result")]
     /\ act' = [act EXCEPT ![a] = Settled(@, Verdict(o, "rolled_back"))]
     /\ ban' = IF o.ok THEN BanBecomes(a, {"active", "indeterminate"}, "rolled_back")
                ELSE IF o.unknown THEN [ban EXCEPT ![a] = MaybeApplied(a)]
                ELSE ban
     /\ UNCHANGED <<policy, grant, revoked>>

CompleteConfirm(c, s) ==
  LET a == cmd[c].action
      o == Outcome("confirm", act[a].kind, s)
  IN /\ Accepting(c, "confirm")
     /\ cmd' = [cmd EXCEPT ![c] = Completed(@, "result")]
     /\ act' = [act EXCEPT ![a] = Settled(@, Verdict(o, "succeeded"))]
     /\ UNCHANGED <<ban, policy, grant, revoked>>

CompleteScan(c) ==
  /\ ~revoked
  /\ cmd[c].phase = "queued" /\ ~ForAction(c)
  /\ cmd' = [cmd EXCEPT ![c] = Completed(@, "result")]
  /\ UNCHANGED <<act, ban, policy, grant, revoked>>

-----------------------------------------------------------------------------

Down(n) == IF n > 0 THEN n - 1 ELSE 0

Tick ==
  /\ act' = [a \in Actions |-> [act[a] EXCEPT !.left = Down(@)]]
  /\ cmd' = [c \in Cmds |-> [cmd[c] EXCEPT !.left = Down(@), !.lease = Down(@)]]
  /\ ban' = [a \in Actions |-> [ban[a] EXCEPT !.left = Down(@)]]
  /\ <<act, cmd, ban>>' # <<act, cmd, ban>>
  /\ UNCHANGED <<policy, grant, revoked>>

Init ==
  /\ act = [a \in Actions |-> [status |-> "absent", kind |-> "other", policy |-> FALSE,
                               state |-> FALSE, left |-> 0]]
  /\ cmd = [c \in Cmds |-> [phase |-> "absent", type |-> "scan", action |-> NoAction,
                            left |-> 0, lease |-> 0]]
  /\ ban = [a \in Actions |-> [status |-> "none", source |-> NoSource, left |-> 0]]
  /\ policy = [armed |-> FALSE, stop |-> FALSE]
  /\ grant = [stored |-> FALSE, armed |-> FALSE, stop |-> FALSE]
  /\ revoked = FALSE

AdminRequest ==
  \/ \E a \in Actions, k \in Kinds : CreateAction(a, k)
  \/ \E a \in Actions, c \in Cmds : \/ ApproveActionAndEnqueue(a, c)
                                   \/ RequestRollbackAndEnqueue(a, c)
                                   \/ RequestConfirmationAndEnqueue(a, c)
  \/ \E c \in Cmds : EnqueueScan(c)
  \/ RevokeDevice

PolicyChange ==
  \/ \E p \in [armed : BOOLEAN, stop : BOOLEAN] : PutDefensePolicyAndCancelQueued(p)
  \/ \E g \in [stored : {TRUE}, armed : BOOLEAN, stop : BOOLEAN] : PutPolicyGrant(g)

ProcessSecurityEvent ==
  \E a \in Actions, c \in Cmds :
    \/ "ip_ban" \in Kinds /\ \E source \in Sources : PolicyBan(a, c, source)
    \/ "process_suspend" \in Kinds /\ PolicySuspend(a, c)

SubmitResult ==
  \E c \in Cmds :
    \/ \E s \in Submissions : \/ CompleteExecute(c, s)
                             \/ CompleteRollback(c, s)
                             \/ CompleteConfirm(c, s)
                             \/ \E undo \in Cmds : CompleteLegacySuspend(c, s, undo)
    \/ CompleteScan(c)

AgentRequest ==
  \/ ClaimCommands
  \/ \E c \in Cmds : StartActionCommand(c)
  \/ SubmitResult

Maintain ==
  \/ ExpireStaleActionCommands
  \/ ExpireActionConfirmations
  \/ ExpireDraftActions
  \/ ExpireBanHorizon

Next == AdminRequest \/ PolicyChange \/ ProcessSecurityEvent \/ AgentRequest
          \/ Maintain \/ Tick

Spec == Init /\ [][Next]_vars

(* Time passes and the Controller runs Maintain once a minute, whatever    *)
(* the administrator, the Agent and the attackers do or do not do.         *)
Fairness == /\ WF_vars(Tick)
            /\ WF_vars(ExpireStaleActionCommands)
            /\ WF_vars(ExpireActionConfirmations)
            /\ WF_vars(ExpireDraftActions)
            /\ WF_vars(ExpireBanHorizon)

FairSpec == Spec /\ Fairness

-----------------------------------------------------------------------------
(* Properties.                                                             *)

(* Every row of the tables holds values of its columns.                    *)
TypeOK ==
  /\ act \in [Actions -> ActionRow]
  /\ cmd \in [Cmds -> CommandRow]
  /\ ban \in [Actions -> BanRow]
  /\ policy \in [armed : BOOLEAN, stop : BOOLEAN]
  /\ grant \in [stored : BOOLEAN, armed : BOOLEAN, stop : BOOLEAN]
  /\ revoked \in BOOLEAN

(* Commands and actions are two tables linked only by a JSON field, and    *)
(* eleven handlers write both.  An open command's action is in exactly the *)
(* status that command will complete from ...                              *)
OpenCommandExpected ==
  \A c \in Cmds : Open(c) /\ ForAction(c) =>
    /\ cmd[c].action \in Actions
    /\ act[cmd[c].action].status = Expecting(cmd[c].type, cmd[c].phase = "started")

(* ... an action in flight has a command that will end it (or nothing      *)
(* would ever move it again) ...                                           *)
InFlightCarried ==
  \A a \in Actions :
    act[a].status \in {"approved", "executing", "confirming", "rolling_back"} =>
      \E c \in Cmds : Open(c) /\ ForAction(c) /\ cmd[c].action = a

(* ... and only one, so a result is never applied to the wrong operation.  *)
OneOpenCommand ==
  \A c, d \in Cmds : Open(c) /\ Open(d) /\ ForAction(c) /\ cmd[c].action = cmd[d].action
                       => c = d

InFlightBacked == OpenCommandExpected /\ InFlightCarried /\ OneOpenCommand

(* An action is executed by one command in its whole life: approvals,      *)
(* policies, timeouts and failures never queue a second execution.         *)
ExecutedOnce ==
  \A c, d \in Cmds :
    /\ ~Unused(c) /\ cmd[c].type = "execute"
    /\ ~Unused(d) /\ cmd[d].type = "execute"
    /\ cmd[c].action = cmd[d].action
    => c = d

(* The ban projection follows its action through every path: it is pending *)
(* exactly while the action may still be answered, claimed active only     *)
(* after a proven execution, and closed by a proven rollback or by a       *)
(* failure.                                                                *)
BanFollowsAction ==
  \A a \in Actions :
    LET b == ban[a].status  s == act[a].status IN
    /\ b = "pending" <=> b # "none" /\ s \in {"approved", "executing"}
    /\ b = "active" => s \in {"succeeded", "rolling_back", "failed", "cancelled"}
    /\ b = "active" => act[a].state
    /\ b \in {"failed", "cancelled"} => s \in {"failed", "cancelled"}
    /\ b # "none" => (b = "rolled_back" <=> s = "rolled_back")

(* One source is never under two pending or guaranteed bans.               *)
OneLiveBanPerSource ==
  \A a, b \in Actions :
    Live(a) /\ Live(b) /\ ban[a].source = ban[b].source => a = b

(* While the device is stopped no automatic ban waits for the Agent: the   *)
(* stop withdrew the queued ones and no event queues another.              *)
StopWithdrawsBans ==
  policy.stop =>
    \A a \in Actions : act[a].policy /\ act[a].kind = "ip_ban" => act[a].status # "approved"

(* An action that claims to have changed the host keeps what undoes it.    *)
ReversibleKeepsState ==
  \A a \in Actions :
    act[a].status \in {"succeeded", "awaiting_confirmation", "confirming",
                       "rolling_back", "rolled_back"} => act[a].state

(* A rollback of a finished action counts against the device's limit too.  *)
CapacityKept == Cardinality(UnfinishedIn(act)) <= MaxUnfinished

(* An execution that started and was never answered stays unknown: no      *)
(* later handler turns it into a failure, a success or a retry.            *)
LostExecutionStaysUnknown ==
  \A c \in Cmds : cmd[c].type = "execute" /\ cmd[c].phase = "timeout" =>
                    act[cmd[c].action].status = "indeterminate"

(* An execution happens once and its loss is never forgotten; a rollback   *)
(* has something to restore and room in the queue.                         *)
ExecutionsAreSound == ExecutedOnce /\ LostExecutionStaysUnknown
RollbacksAreSound  == ReversibleKeepsState /\ CapacityKept

(* The ban rows say of the actions what is true, and never two of them of  *)
(* one source.                                                             *)
BansFollowActions == BanFollowsAction /\ OneLiveBanPerSource

(* A ban's guarantee is never extended by a late answer: only the gate,    *)
(* before the Helper runs, may push the horizon out.                       *)
HorizonOnlyExtendedByStart ==
  [][\A a \in Actions :
       ban[a].status # "none" /\ ban'[a].left > ban[a].left =>
         /\ act[a].status = "approved" /\ act'[a].status = "executing"
         /\ ban[a].status = "pending"]_vars

(* Every action the administrator or a policy opens comes to an end, even  *)
(* if the device never calls again.                                        *)
EveryActionEnds ==
  \A a \in Actions : act[a].status \in Unfinished ~> act[a].status \in Finished

(* No ban suppresses its source for ever.                                  *)
SourceReleased == \A a \in Actions : Live(a) ~> ~Live(a)

(* So nothing the Controller began waits for a device that is gone.        *)
NothingIsStuck == EveryActionEnds /\ SourceReleased

(* docs/architecture.md: a rollback ends rolled back or failed (or, the    *)
(* diagram's third outcome of an execution, indeterminate).                *)
RollbackEndsAsDocumented ==
  [][\A a \in Actions :
       act[a].status = "rolling_back" /\ act'[a].status # "rolling_back" =>
         act'[a].status \in {"rolled_back", "failed", "indeterminate"}]_vars

(* "The device emergency stop is intentionally global": while the device   *)
(* is stopped no automatic action crosses the gate.                        *)
StopIsGlobal ==
  [][\A a \in Actions :
       policy.stop /\ act[a].policy /\ act[a].status = "approved" =>
         act'[a].status # "executing"]_vars

(* Seen from the incidents, only the status of an action matters: every    *)
(* transaction moves statuses along the arrows of ActionStatus, so that    *)
(* IncidentResponse may stand on that module instead of this one.          *)
Status == INSTANCE ActionStatus WITH st <- [a \in Actions |-> act[a].status]
ImplementsStatus == Status!StatusSpec
=============================================================================
