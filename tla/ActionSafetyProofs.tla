-------------------------- MODULE ActionSafetyProofs --------------------------
(***************************************************************************)
(* What every transaction of the store can do to one action and its ban,   *)
(* and to one command, whatever its handler; and the safety properties     *)
(* that follow for any number of rows.                                     *)
(***************************************************************************)
EXTENDS ActionLifecycleProofs, FiniteSetTheorems

-----------------------------------------------------------------------------
(* The steps of one row of actions, with the row of bans that belongs to   *)
(* it.  Each is what some handlers do to it, stated without the tables.    *)

Same(a) == /\ act'[a].kind = act[a].kind
           /\ act'[a].policy = act[a].policy
           /\ act'[a].state = act[a].state

To(a, st)    == act'[a].status = st
BanTo(a, st) == ban'[a] = [ban[a] EXCEPT !.status = st]
BanSame(a)   == ban'[a] = ban[a]

(* Nothing but time touches it; a ban past its horizon is an unknown.      *)
Still(a) ==
  /\ Same(a) /\ To(a, act[a].status)
  /\ ban'[a].source = ban[a].source /\ ban'[a].left <= ban[a].left
  /\ \/ ban'[a].status = ban[a].status
     \/ ban[a].status = "active" /\ ban'[a].status = "indeterminate"

(* An administrator writes a draft, or a policy an approved action.        *)
Drafted(a) ==
  /\ act[a].status = "absent" /\ To(a, "draft")
  /\ ~act'[a].state /\ ~act'[a].policy
  /\ BanSame(a)
Ordered(a) ==
  /\ act[a].status = "absent" /\ To(a, "approved")
  /\ ~act'[a].state /\ act'[a].policy
  /\ \/ /\ act'[a].kind = "process_suspend" /\ BanSame(a)
     \/ /\ act'[a].kind = "ip_ban" /\ ~policy'.stop
        /\ ban'[a].status = "pending" /\ ~ActiveBan(ban'[a].source)
        /\ \A b \in Actions \ {a} : BanSame(b)

(* The administrator approves, confirms or asks for the rollback.          *)
Requested(a) ==
  /\ Same(a) /\ BanSame(a)
  /\ \/ act[a].status = "draft" /\ To(a, "approved")
     \/ act[a].status = "awaiting_confirmation" /\ To(a, "confirming")
     \/ Rollbackable(a) /\ act[a].state /\ To(a, "rolling_back")

(* The gate lets the execution begin, and counts the ban's time from now.  *)
Begun(a) ==
  /\ act[a].status = "approved" /\ To(a, "executing") /\ Same(a)
  /\ ban'[a].status = ban[a].status /\ ban'[a].source = ban[a].source
  /\ ban[a].status # "pending" => ban'[a].left = ban[a].left

(* A result is recorded.                                                   *)
Executed(a) ==
  /\ act[a].status = "executing"
  /\ act'[a].kind = act[a].kind /\ act'[a].policy = act[a].policy
  /\ \/ /\ To(a, "succeeded") /\ act'[a].state
        /\ IF ban[a].status = "pending"
             THEN \/ BanTo(a, "active")
                  \/ BanTo(a, "indeterminate")
             ELSE BanSame(a)
     \/ /\ act'[a].status \in {"awaiting_confirmation", "rolling_back"}
        /\ act[a].kind # "ip_ban" /\ act'[a].state
        /\ ban[a].status # "pending" => BanSame(a)
     \/ /\ To(a, "failed") /\ ~act'[a].state
        /\ IF ban[a].status = "pending" THEN BanTo(a, "failed") ELSE BanSame(a)
     \/ /\ To(a, "indeterminate")
        /\ IF ban[a].status = "pending" THEN BanTo(a, "indeterminate") ELSE BanSame(a)
Undone(a) ==
  /\ act[a].status = "rolling_back" /\ To(a, "rolled_back") /\ Same(a)
  /\ IF ban[a].status \in {"active", "indeterminate"} THEN BanTo(a, "rolled_back")
     ELSE BanSame(a)
Confirmed(a) ==
  /\ act[a].status = "confirming" /\ To(a, "succeeded") /\ Same(a) /\ BanSame(a)
NotDone(a) ==
  /\ act[a].status \in {"rolling_back", "confirming"} /\ To(a, "failed")
  /\ Same(a) /\ BanSame(a)

(* Nobody will ever know: an unknown result, no result, a revoked device.  *)
Lost(a) ==
  /\ act[a].status \in {"executing", "rolling_back", "confirming"}
  /\ To(a, "indeterminate") /\ Same(a)
  /\ \/ ban'[a] = MaybeApplied(a)
     \/ act[a].status = "confirming" /\ BanSame(a)

(* What was never begun is given up: a draft or a window that expired, a   *)
(* command that was withdrawn or expired.                                  *)
GivenUp(a) ==
  /\ act[a].status \in {"draft", "awaiting_confirmation", "approved", "rolling_back", "confirming"}
  /\ \/ To(a, "cancelled")
     \/ To(a, "failed") /\ act[a].status \notin {"draft", "awaiting_confirmation"}
  /\ Same(a)
  /\ \/ IF ban[a].status = "pending" THEN BanTo(a, act'[a].status) ELSE BanSame(a)
     \/ act[a].status # "approved" /\ BanSame(a)

RowStep(a) ==
  \/ Still(a)
  \/ Drafted(a) \/ Ordered(a) \/ Requested(a) \/ Begun(a)
  \/ Executed(a) \/ Undone(a) \/ Confirmed(a) \/ NotDone(a)
  \/ Lost(a) \/ GivenUp(a)

-----------------------------------------------------------------------------
(* The steps of one command.                                               *)

SameCmd(c) == /\ cmd'[c].phase = cmd[c].phase
              /\ cmd'[c].type = cmd[c].type
              /\ cmd'[c].action = cmd[c].action

(* An execution is queued only for an action that had none, by a step that *)
(* queues nothing else.                                                    *)
Queued(c) ==
  /\ Unused(c) /\ cmd'[c].phase = "queued"
  /\ cmd'[c].type = "execute" =>
       /\ cmd'[c].action \in Actions
       /\ act[cmd'[c].action].status \in {"absent", "draft"}
       /\ To(cmd'[c].action, "approved")
       /\ \A d \in Cmds \ {c} : SameCmd(d)

(* A command begins, or ends; one that had begun is answered or given up,  *)
(* and an execution that ends without an answer leaves its action unknown, *)
(* with nothing to roll back.                                              *)
Moved(c) ==
  /\ Open(c) /\ ~Unused(c)'
  /\ ForAction(c) /\ cmd[c].phase = "started" => cmd'[c].phase \in {"result", "timeout"}
  /\ cmd'[c].type = cmd[c].type /\ cmd'[c].action = cmd[c].action
  /\ cmd[c].type = "execute" /\ cmd'[c].phase = "timeout" =>
       Lost(cmd[c].action) /\ act[cmd[c].action].status = "executing"

CmdStep(c) == SameCmd(c) \/ Queued(c) \/ Moved(c)

(* Every transaction of the store, row by row.                             *)
Steps == (\A a \in Actions : RowStep(a)) /\ (\A c \in Cmds : CmdStep(c))

-----------------------------------------------------------------------------
(* What the usual updates of a row amount to.                              *)

(* A row that is not written stays as it is.                               *)
LEMMA UntouchedRow ==
  ASSUME TypeOK, NEW a \in Actions, act'[a] = act[a], ban'[a] = ban[a]
  PROVE  Still(a)
BY DEF TypeOK, BanRow, Still, Same, To

(* Settling a row changes its status and nothing the relations look at.    *)
LEMMA SettledStep ==
  ASSUME TypeOK, NEW a \in Actions, NEW st \in Statuses, act'[a] = Settled(act[a], st)
  PROVE  Same(a) /\ To(a, st)
<1>1. act[a] \in ActionRow
  BY DEF TypeOK
<1> QED
  BY <1>1 DEF Settled, ActionRow, Same, To

(* Beside its own rows, a request expires the drafts that are due.         *)
LEMMA SweptDraftStep ==
  ASSUME TypeOK, NEW a \in Actions, act'[a] = SweptDrafts[a], ban'[a] = ban[a]
  PROVE  Still(a) \/ GivenUp(a)
<1>1. CASE act[a].status = "draft" /\ act[a].left = 0
  <2>1. act'[a] = Settled(act[a], "cancelled") /\ "cancelled" \in Statuses
    BY <1>1 DEF SweptDrafts, Statuses, Finished
  <2> QED
    BY <1>1, <2>1, SettledStep DEF GivenUp, BanSame
<1>2. CASE ~(act[a].status = "draft" /\ act[a].left = 0)
  BY <1>2, UntouchedRow DEF SweptDrafts
<1> QED
  BY <1>1, <1>2

(* A command that ends, unless it is an execution that was never answered. *)
LEMMA CompletedStep ==
  ASSUME TypeOK, NEW c \in Cmds, Open(c), NEW end \in Phases \ {"absent"},
         cmd'[c] = Completed(cmd[c], end),
         ForAction(c) /\ cmd[c].phase = "started" => end \in {"result", "timeout"},
         cmd[c].type = "execute" /\ end = "timeout" =>
           Lost(cmd[c].action) /\ act[cmd[c].action].status = "executing"
  PROVE  Moved(c)
<1>1. cmd[c] \in CommandRow
  BY DEF TypeOK
<1> QED
  BY <1>1, CompletedRow DEF Moved, Unused

(* One action is requested or ordered by a new command; the others stay as *)
(* they are, or are drafts that expire.                                    *)
LEMMA QueuedStep ==
  ASSUME TypeOK, NEW a \in Actions, NEW c \in Cmds, NEW t \in CommandTypes,
         Unused(c), cmd' = [cmd EXCEPT ![c] = NewCommand(t, a)],
         t = "execute" => act[a].status \in {"absent", "draft"} /\ To(a, "approved"),
         RowStep(a),
         \A b \in Actions \ {a} : act'[b] \in {act[b], SweptDrafts[b]} /\ ban'[b] = ban[b]
  PROVE  Steps
<1>1. ASSUME NEW b \in Actions
      PROVE RowStep(b)
  BY UntouchedRow, SweptDraftStep DEF RowStep
<1>2. /\ \A d \in Cmds \ {c} : SameCmd(d)
      /\ cmd'[c] = NewCommand(t, a)
  BY DEF TypeOK, SameCmd
<1>3. Queued(c)
  BY <1>2 DEF Queued, NewCommand
<1> QED
  BY <1>1, <1>2, <1>3 DEF Steps, CmdStep

-----------------------------------------------------------------------------
(* Every handler takes such steps.                                         *)

(* The administrator's requests.                                           *)
LEMMA AdminSteps ==
  ASSUME InFlightInv, AdminRequest
  PROVE  Steps
<1>0. TypeOK
  BY DEF InFlightInv
<1>1. ASSUME NEW a \in Actions, NEW k \in Kinds, CreateAction(a, k)
      PROVE Steps
  <2>1. SweptDrafts \in [Actions -> ActionRow]
    BY <1>0, SweptDraftsRows
  <2>2. act'[a] = NewAction("draft", k, FALSE, DraftTTL) /\ act[a].status = "absent"
    BY <1>1, <2>1 DEF CreateAction
  <2>3. UNCHANGED <<cmd, ban>> /\ \A b \in Actions \ {a} : act'[b] = SweptDrafts[b]
    BY <1>1, <2>1 DEF CreateAction
  <2>4. Drafted(a)
    BY <2>2, <2>3 DEF Drafted, To, NewAction, BanSame
  <2> QED
    BY <1>0, <2>3, <2>4, SweptDraftStep DEF Steps, RowStep, CmdStep, SameCmd
<1>2. ASSUME NEW a \in Actions, NEW c \in Cmds, NEW t \in CommandTypes, NEW st \in Statuses,
             act' = [act EXCEPT ![a] = Settled(@, st)],
             cmd' = [cmd EXCEPT ![c] = NewCommand(t, a)], ban' = ban,
             Unused(c),
             \/ t = "execute" /\ act[a].status = "draft" /\ st = "approved"
             \/ t = "confirm" /\ act[a].status = "awaiting_confirmation" /\ st = "confirming"
             \/ t = "rollback" /\ Rollbackable(a) /\ act[a].state /\ st = "rolling_back"
      PROVE Steps
  <2>1. /\ act'[a] = Settled(act[a], st)
        /\ \A b \in Actions \ {a} : act'[b] = act[b]
    BY <1>0, <1>2 DEF TypeOK
  <2>2. Requested(a)
    BY <1>0, <1>2, <2>1, SettledStep DEF Requested, BanSame
  <2>3. t = "execute" => act[a].status \in {"absent", "draft"} /\ To(a, "approved")
    BY <1>0, <1>2, <2>1, SettledStep
  <2>4. RowStep(a)
    BY <2>2 DEF RowStep
  <2> QED
    BY <1>0, <1>2, <2>1, <2>3, <2>4, QueuedStep
<1>3. ASSUME NEW a \in Actions, NEW c \in Cmds,
             \/ ApproveActionAndEnqueue(a, c)
             \/ RequestRollbackAndEnqueue(a, c)
             \/ RequestConfirmationAndEnqueue(a, c)
      PROVE Steps
  <2>1. {"approved", "rolling_back", "confirming"} \subseteq Statuses
    BY DEF Statuses, Unfinished
  <2>2. {"execute", "rollback", "confirm"} \subseteq CommandTypes
    BY DEF CommandTypes
  <2>3. CASE ApproveActionAndEnqueue(a, c)
    BY <1>2, <2>1, <2>2, <2>3 DEF ApproveActionAndEnqueue
  <2>4. CASE RequestRollbackAndEnqueue(a, c)
    BY <1>2, <2>1, <2>2, <2>4 DEF RequestRollbackAndEnqueue, QueueRollback
  <2>5. CASE RequestConfirmationAndEnqueue(a, c)
    BY <1>2, <2>1, <2>2, <2>5 DEF RequestConfirmationAndEnqueue
  <2> QED
    BY <1>3, <2>3, <2>4, <2>5
<1>4. ASSUME NEW c \in Cmds, EnqueueScan(c)
      PROVE Steps
  <2>1. UNCHANGED <<act, ban>>
    BY <1>4 DEF EnqueueScan
  <2>2. ASSUME NEW d \in Cmds
        PROVE CmdStep(d)
    <3>1. CASE d = c
      <4>1. cmd'[d] = NewCommand("scan", NoAction) /\ Unused(d)
        BY <1>4, <3>1 DEF EnqueueScan
      <4> QED
        BY <4>1 DEF CmdStep, Queued, NewCommand
    <3>2. CASE d # c /\ Open(d) /\ ~ForAction(d)
      <4>1. cmd'[d] = Completed(cmd[d], "superseded") /\ "superseded" \in Phases \ {"absent"}
        BY <1>4, <3>2 DEF EnqueueScan, Phases
      <4> QED
        BY <1>0, <3>2, <4>1, CompletedStep DEF CmdStep
    <3>3. CASE d # c /\ ~(Open(d) /\ ~ForAction(d))
      <4>1. cmd'[d] = cmd[d]
        BY <1>4, <3>3 DEF EnqueueScan
      <4> QED
        BY <4>1 DEF CmdStep, SameCmd
    <3> QED
      BY <3>1, <3>2, <3>3
  <2> QED
    BY <1>0, <2>1, <2>2, UntouchedRow DEF Steps, RowStep
<1>5. CASE RevokeDevice
  <2> DEFINE sent(a)   == \E c \in Cmds : cmd[c].phase = "started" /\ cmd[c].action = a
             unsent(a) == \E c \in Cmds : cmd[c].phase = "queued" /\ cmd[c].action = a
             lost(a) == sent(a) /\ act[a].status \in {"executing", "rolling_back", "confirming"}
             cut(a)  == unsent(a) /\ act[a].status \in
                          {"approved", "executing", "rolling_back", "confirming",
                           "awaiting_confirmation"}
  <2>1. /\ \A c \in Cmds : cmd'[c] = IF cmd[c].phase = "started" THEN Completed(cmd[c], "timeout")
                                    ELSE IF cmd[c].phase = "queued" THEN Completed(cmd[c], "withdrawn")
                                    ELSE cmd[c]
        /\ \A a \in Actions : act'[a] = IF lost(a) THEN Settled(act[a], "indeterminate")
                                        ELSE IF cut(a) THEN Settled(act[a], "cancelled")
                                        ELSE act[a]
        /\ \A a \in Actions : ban'[a] = IF lost(a) THEN MaybeApplied(a)
                                        ELSE IF cut(a) /\ ban[a].status = "pending"
                                               THEN [ban[a] EXCEPT !.status = "cancelled"]
                                        ELSE ban[a]
    BY <1>5 DEF RevokeDevice
  <2>2. ASSUME NEW a \in Actions, unsent(a)
        PROVE act[a].status \in {"approved", "rolling_back", "confirming"}
    <3>1. PICK c \in Cmds : cmd[c].phase = "queued" /\ cmd[c].action = a
      BY <2>2
    <3>2. Carries(c, a)
      BY <3>1, NamesAssumption DEF Carries, Open, OpenPhases, ForAction, InFlightInv, Addressed
    <3> QED
      BY <3>1, <3>2 DEF InFlightInv, Backed, Expecting
  <2>3. {"indeterminate", "cancelled"} \subseteq Statuses
    BY DEF Statuses, Finished
  <2>4. ASSUME NEW a \in Actions, lost(a)
        PROVE Lost(a)
    <3>1. act'[a] = Settled(act[a], "indeterminate") /\ ban'[a] = MaybeApplied(a)
      BY <2>1, <2>4
    <3> QED
      BY <1>0, <2>3, <2>4, <3>1, SettledStep DEF Lost
  <2>5. ASSUME NEW a \in Actions
        PROVE RowStep(a)
    <3>1. CASE lost(a)
      BY <2>4, <3>1 DEF RowStep
    <3>2. CASE ~lost(a) /\ cut(a)
      <4>1. act'[a] = Settled(act[a], "cancelled")
        BY <2>1, <3>2
      <4>2. IF ban[a].status = "pending" THEN BanTo(a, "cancelled") ELSE BanSame(a)
        BY <2>1, <3>2 DEF BanTo, BanSame
      <4>3. act[a].status \in {"approved", "rolling_back", "confirming"}
        BY <2>2, <3>2
      <4> HIDE DEF lost, cut
      <4> QED
        BY <1>0, <2>3, <4>1, <4>2, <4>3, SettledStep DEF RowStep, GivenUp, To
    <3>3. CASE ~lost(a) /\ ~cut(a)
      <4>1. act'[a] = act[a] /\ ban'[a] = ban[a]
        BY <2>1, <3>3
      <4> QED
        BY <1>0, <4>1, UntouchedRow DEF RowStep
    <3> QED
      BY <3>1, <3>2, <3>3
  <2>6. ASSUME NEW c \in Cmds
        PROVE CmdStep(c)
    <3>1. CASE cmd[c].phase = "started"
      <4>1. cmd'[c] = Completed(cmd[c], "timeout") /\ "timeout" \in Phases \ {"absent"}
        BY <2>1, <3>1 DEF Phases
      <4>2. Open(c)
        BY <3>1 DEF Open, OpenPhases
      <4>3. ASSUME cmd[c].type = "execute"
            PROVE Lost(cmd[c].action) /\ act[cmd[c].action].status = "executing"
        <5>1. cmd[c].action \in Actions /\ Carries(c, cmd[c].action)
          BY <4>2, <4>3 DEF Carries, ForAction, InFlightInv, Addressed
        <5>2. act[cmd[c].action].status = "executing"
          BY <3>1, <4>3, <5>1 DEF InFlightInv, Backed, Expecting
        <5>3. lost(cmd[c].action)
          BY <3>1, <5>2
        <5> QED
          BY <2>4, <5>1, <5>2, <5>3
      <4> QED
        BY <1>0, <4>1, <4>2, <4>3, CompletedStep DEF CmdStep
    <3>2. CASE cmd[c].phase = "queued"
      <4>1. cmd'[c] = Completed(cmd[c], "withdrawn") /\ "withdrawn" \in Phases \ {"absent"}
        BY <2>1, <3>2 DEF Phases
      <4>2. Open(c)
        BY <3>2 DEF Open, OpenPhases
      <4> QED
        BY <1>0, <3>2, <4>1, <4>2, CompletedStep DEF CmdStep
    <3>3. CASE cmd[c].phase \notin {"started", "queued"}
      <4>1. cmd'[c] = cmd[c]
        BY <2>1, <3>3
      <4> QED
        BY <4>1 DEF CmdStep, SameCmd
    <3> QED
      BY <3>1, <3>2, <3>3
  <2> QED
    BY <2>5, <2>6 DEF Steps
<1> QED
  BY <1>1, <1>3, <1>4, <1>5 DEF AdminRequest

(* Changes of the policies.                                                *)
LEMMA PolicySteps ==
  ASSUME InFlightInv, PolicyChange
  PROVE  Steps
<1>0. TypeOK
  BY DEF InFlightInv
<1>1. ASSUME NEW p \in [armed : BOOLEAN, stop : BOOLEAN],
             PutDefensePolicyAndCancelQueued(p)
      PROVE Steps
  <2> DEFINE hit(c) == p.stop /\ Open(c) /\ cmd[c].type = "execute"
                  /\ act[cmd[c].action].policy
                  /\ act[cmd[c].action].status = "approved"
             cut(a) == \E c \in Cmds : hit(c) /\ cmd[c].action = a
  <2>1. /\ \A c \in Cmds : cmd'[c] = IF hit(c) THEN Completed(cmd[c], "withdrawn") ELSE cmd[c]
        /\ \A a \in Actions : act'[a] = IF cut(a) THEN Settled(act[a], "cancelled") ELSE act[a]
        /\ \A a \in Actions : ban'[a] = IF cut(a) /\ ban[a].status = "pending"
                                          THEN [ban[a] EXCEPT !.status = "cancelled"] ELSE ban[a]
    BY <1>1 DEF PutDefensePolicyAndCancelQueued
  <2>2. ASSUME NEW a \in Actions
        PROVE RowStep(a)
    <3>1. CASE cut(a)
      <4>1. act'[a] = Settled(act[a], "cancelled") /\ act[a].status = "approved"
        BY <2>1, <3>1
      <4>2. IF ban[a].status = "pending" THEN BanTo(a, "cancelled") ELSE BanSame(a)
        BY <2>1, <3>1 DEF BanTo, BanSame
      <4>3. "cancelled" \in Statuses
        BY DEF Statuses, Finished
      <4> QED
        BY <1>0, <4>1, <4>2, <4>3, SettledStep DEF RowStep, GivenUp, To
    <3>2. CASE ~cut(a)
      <4>1. act'[a] = act[a] /\ ban'[a] = ban[a]
        BY <2>1, <3>2
      <4> QED
        BY <1>0, <4>1, UntouchedRow DEF RowStep
    <3> QED
      BY <3>1, <3>2
  <2>3. ASSUME NEW c \in Cmds
        PROVE CmdStep(c)
    <3>1. CASE hit(c)
      <4>1. cmd'[c] = Completed(cmd[c], "withdrawn") /\ "withdrawn" \in Phases \ {"absent"}
        BY <2>1, <3>1 DEF Phases
      <4>2. cmd[c].action \in Actions /\ Carries(c, cmd[c].action)
        BY <3>1 DEF Carries, ForAction, InFlightInv, Addressed
      <4>3. cmd[c].phase # "started"
        BY <3>1, <4>2 DEF InFlightInv, Backed, Expecting
      <4> QED
        BY <1>0, <3>1, <4>1, <4>3, CompletedStep DEF CmdStep
    <3>2. CASE ~hit(c)
      BY <2>1, <3>2 DEF CmdStep, SameCmd
    <3> QED
      BY <3>1, <3>2
  <2> QED
    BY <2>2, <2>3 DEF Steps
<1>2. ASSUME NEW g \in [stored : {TRUE}, armed : BOOLEAN, stop : BOOLEAN], PutPolicyGrant(g)
      PROVE Steps
  <2>1. UNCHANGED <<act, cmd, ban>>
    BY <1>2 DEF PutPolicyGrant
  <2> QED
    BY <1>0, <2>1, UntouchedRow DEF Steps, RowStep, CmdStep, SameCmd
<1> QED
  BY <1>1, <1>2 DEF PolicyChange

(* Security events that the policies turn into actions.                    *)
LEMMA EventSteps ==
  ASSUME InFlightInv, ProcessSecurityEvent
  PROVE  Steps
<1>0. TypeOK /\ SweptDrafts \in [Actions -> ActionRow]
  BY SweptDraftsRows DEF InFlightInv
<1>1. ASSUME NEW a \in Actions, NEW c \in Cmds, NEW k,
             act' = [SweptDrafts EXCEPT ![a] = NewAction("approved", k, TRUE, 0)],
             cmd' = [cmd EXCEPT ![c] = NewCommand("execute", a)],
             act[a].status = "absent", Unused(c), Ordered(a),
             \A b \in Actions \ {a} : ban'[b] = ban[b]
      PROVE Steps
  <2>1. \A b \in Actions \ {a} : act'[b] = SweptDrafts[b]
    BY <1>0, <1>1
  <2>2. To(a, "approved") /\ RowStep(a) /\ "execute" \in CommandTypes
    BY <1>1 DEF Ordered, RowStep, CommandTypes
  <2> QED
    BY <1>0, <1>1, <2>1, <2>2, QueuedStep
<1>2. ASSUME NEW a \in Actions, NEW c \in Cmds, NEW source \in Sources, PolicyBan(a, c, source)
      PROVE Steps
  <2>1. /\ ban' = [ban EXCEPT ![a] = [status |-> "pending", source |-> source, left |-> BanTTL]]
        /\ policy' = policy /\ ~policy.stop /\ act[a].status = "absent"
        /\ act' = [SweptDrafts EXCEPT ![a] = NewAction("approved", "ip_ban", TRUE, 0)]
        /\ ~ActiveBan(source)
    BY <1>2 DEF PolicyBan
  <2>2. /\ ban'[a] = [status |-> "pending", source |-> source, left |-> BanTTL]
        /\ \A b \in Actions \ {a} : ban'[b] = ban[b]
    BY <1>0, <2>1 DEF TypeOK
  <2>3. act'[a] = NewAction("approved", "ip_ban", TRUE, 0)
    BY <1>0, <2>1
  <2>4. Ordered(a)
    BY <2>1, <2>2, <2>3 DEF Ordered, To, NewAction, BanSame
  <2> QED
    BY <1>1, <1>2, <2>2, <2>4 DEF PolicyBan
<1>3. ASSUME NEW a \in Actions, NEW c \in Cmds, PolicySuspend(a, c)
      PROVE Steps
  <2>1. act'[a] = NewAction("approved", "process_suspend", TRUE, 0)
    BY <1>0, <1>3 DEF PolicySuspend
  <2>2. ban' = ban /\ act[a].status = "absent"
    BY <1>3 DEF PolicySuspend
  <2>3. Ordered(a)
    BY <2>1, <2>2 DEF Ordered, To, NewAction, BanSame
  <2> QED
    BY <1>1, <1>3, <2>2, <2>3 DEF PolicySuspend
<1> QED
  BY <1>2, <1>3 DEF ProcessSecurityEvent

(* The sweep, alone or inside a claim, which also writes leases.           *)
LEMMA SweepSteps ==
  ASSUME InFlightInv, act' = SweptActs, ban' = SweptBans,
         \A c \in Cmds : /\ cmd'[c].phase = SweptCmds[c].phase
                         /\ cmd'[c].type = SweptCmds[c].type
                         /\ cmd'[c].action = SweptCmds[c].action
  PROVE  Steps
<1>0. TypeOK
  BY DEF InFlightInv
<1>1. {"failed", "indeterminate"} \subseteq Statuses
  BY DEF Statuses, Finished
<1>2. ASSUME NEW a \in Actions, ExpiredAction(a)
      PROVE act[a].status \in {"approved", "rolling_back", "confirming"}
  <2>1. PICK c \in Cmds : Expired(c) /\ cmd[c].action = a
    BY <1>2 DEF ExpiredAction
  <2>2. Carries(c, a)
    BY <2>1 DEF Expired, Carries, Open, OpenPhases
  <2> QED
    BY <2>1, <2>2 DEF InFlightInv, Backed, Expecting, Expired
<1>3. ASSUME NEW a \in Actions, ~ExpiredAction(a), OverdueAction(a)
      PROVE Lost(a)
  <2>1. act'[a] = Settled(act[a], "indeterminate") /\ ban'[a] = MaybeApplied(a)
    BY <1>3 DEF SweptActs, SweptBans
  <2> QED
    BY <1>0, <1>1, <1>3, <2>1, SettledStep DEF Lost, OverdueAction
<1>4. ASSUME NEW a \in Actions
      PROVE RowStep(a)
  <2>1. CASE ExpiredAction(a)
    <3>1. act'[a] = Settled(act[a], "failed")
      BY <2>1 DEF SweptActs
    <3>2. IF ban[a].status = "pending" THEN BanTo(a, "failed") ELSE BanSame(a)
      BY <2>1 DEF SweptBans, BanTo, BanSame
    <3> QED
      BY <1>0, <1>1, <1>2, <2>1, <3>1, <3>2, SettledStep DEF RowStep, GivenUp, To
  <2>2. CASE ~ExpiredAction(a) /\ OverdueAction(a)
    BY <1>3, <2>2 DEF RowStep
  <2>3. CASE ~ExpiredAction(a) /\ ~OverdueAction(a)
    <3>1. act'[a] = act[a] /\ ban'[a] = ban[a]
      BY <2>3 DEF SweptActs, SweptBans
    <3> QED
      BY <1>0, <3>1, UntouchedRow DEF RowStep
  <2> QED
    BY <2>1, <2>2, <2>3
<1>5. ASSUME NEW c \in Cmds
      PROVE CmdStep(c)
  <2>1. cmd[c] \in CommandRow /\ {"withdrawn", "timeout"} \subseteq Phases
    BY <1>0 DEF TypeOK, Phases
  <2>2. CASE Expired(c)
    <3>1. SweptCmds[c] = Completed(cmd[c], "withdrawn")
      BY <2>2 DEF SweptCmds
    <3>2. cmd'[c].phase = "withdrawn" /\ cmd'[c].type = cmd[c].type /\ cmd'[c].action = cmd[c].action
      BY <2>1, <3>1, CompletedRow
    <3> QED
      BY <2>2, <3>2 DEF CmdStep, Moved, Expired, Open, OpenPhases, Unused
  <2>3. CASE ~Expired(c) /\ Overdue(c)
    <3>1. SweptCmds[c] = Completed(cmd[c], "timeout")
      BY <2>3 DEF SweptCmds
    <3>2. cmd'[c].phase = "timeout" /\ cmd'[c].type = cmd[c].type /\ cmd'[c].action = cmd[c].action
      BY <2>1, <3>1, CompletedRow
    <3>3. ASSUME cmd[c].type = "execute"
          PROVE Lost(cmd[c].action) /\ act[cmd[c].action].status = "executing"
      <4>1. cmd[c].action \in Actions /\ Carries(c, cmd[c].action)
        BY <2>3, <3>3 DEF Carries, Open, OpenPhases, ForAction, Overdue, InFlightInv, Addressed
      <4>2. act[cmd[c].action].status = "executing"
        BY <2>3, <3>3, <4>1 DEF InFlightInv, Backed, Expecting, Overdue
      <4>3. ~ExpiredAction(cmd[c].action) /\ OverdueAction(cmd[c].action)
        BY <1>2, <2>3, <4>1, <4>2 DEF OverdueAction
      <4> QED
        BY <1>3, <4>1, <4>2, <4>3
    <3> QED
      BY <2>3, <3>2, <3>3 DEF CmdStep, Moved, Overdue, Open, OpenPhases, Unused
  <2>4. CASE ~Expired(c) /\ ~Overdue(c)
    <3>1. SweptCmds[c] = cmd[c]
      BY <2>4 DEF SweptCmds
    <3> QED
      BY <3>1 DEF CmdStep, SameCmd
  <2> QED
    BY <2>2, <2>3, <2>4
<1> QED
  BY <1>4, <1>5 DEF Steps

(* A claim.                                                                *)
LEMMA ClaimSteps ==
  ASSUME InFlightInv, ClaimCommands
  PROVE  Steps
<1>1. ASSUME NEW c \in Cmds
      PROVE /\ cmd'[c].type = SweptCmds[c].type
            /\ cmd'[c].action = SweptCmds[c].action
            /\ cmd'[c].phase = SweptCmds[c].phase
  <2>1. SweptCmds[c] \in CommandRow
    BY SweptRows DEF InFlightInv
  <2>2. cmd'[c] \in {[SweptCmds[c] EXCEPT !.lease = ClaimLease], SweptCmds[c]}
    BY DEF ClaimCommands
  <2> QED
    BY <2>1, <2>2 DEF CommandRow
<1> QED
  BY <1>1, SweepSteps DEF ClaimCommands

(* The maintenance loop.                                                   *)
LEMMA MaintainSteps ==
  ASSUME InFlightInv, Maintain
  PROVE  Steps
<1>0. TypeOK
  BY DEF InFlightInv
<1>1. CASE ExpireStaleActionCommands
  BY <1>1, SweepSteps DEF ExpireStaleActionCommands
<1>2. CASE ExpireActionConfirmations
  <2>1. UNCHANGED <<cmd, ban>>
    BY <1>2 DEF ExpireActionConfirmations
  <2>2. ASSUME NEW a \in Actions
        PROVE RowStep(a)
    <3>1. act'[a] = IF act[a].status = "awaiting_confirmation" /\ act[a].left = 0
                      THEN Settled(act[a], "cancelled") ELSE act[a]
      BY <1>2 DEF ExpireActionConfirmations
    <3>2. "cancelled" \in Statuses
      BY DEF Statuses, Finished
    <3>3. CASE act[a].status = "awaiting_confirmation" /\ act[a].left = 0
      BY <1>0, <2>1, <3>1, <3>2, <3>3, SettledStep DEF RowStep, GivenUp, BanSame
    <3>4. CASE ~(act[a].status = "awaiting_confirmation" /\ act[a].left = 0)
      BY <1>0, <2>1, <3>1, <3>4, UntouchedRow DEF RowStep
    <3> QED
      BY <3>3, <3>4
  <2> QED
    BY <2>1, <2>2 DEF Steps, CmdStep, SameCmd
<1>3. CASE ExpireDraftActions
  <2>1. UNCHANGED <<cmd, ban>> /\ act' = SweptDrafts
    BY <1>3 DEF ExpireDraftActions
  <2> QED
    BY <1>0, <2>1, SweptDraftStep DEF Steps, RowStep, CmdStep, SameCmd
<1>4. CASE ExpireBanHorizon
  <2>1. UNCHANGED <<act, cmd>>
    BY <1>4 DEF ExpireBanHorizon
  <2>2. ASSUME NEW a \in Actions
        PROVE Still(a)
    <3>1. ban[a] \in BanRow
      BY <1>0 DEF TypeOK
    <3>2. ban'[a] = IF ban[a].status = "active" /\ ban[a].left = 0
                      THEN [ban[a] EXCEPT !.status = "indeterminate"] ELSE ban[a]
      BY <1>4 DEF ExpireBanHorizon
    <3> QED
      BY <2>1, <3>1, <3>2 DEF Still, Same, To, BanRow
  <2> QED
    BY <2>1, <2>2 DEF Steps, RowStep, CmdStep, SameCmd
<1> QED
  BY <1>1, <1>2, <1>3, <1>4 DEF Maintain

(* The passage of time.                                                    *)
LEMMA TickSteps ==
  ASSUME InFlightInv, Tick
  PROVE  Steps
<1>0. TypeOK
  BY DEF InFlightInv
<1>1. ASSUME NEW a \in Actions
      PROVE Still(a)
  <2>1. /\ act'[a] = [act[a] EXCEPT !.left = Down(act[a].left)]
        /\ ban'[a] = [ban[a] EXCEPT !.left = Down(ban[a].left)]
    BY DEF Tick
  <2>2. act[a] \in ActionRow /\ ban[a] \in BanRow
    BY <1>0 DEF TypeOK
  <2>3. Down(ban[a].left) <= ban[a].left
    BY <2>2 DEF Down, BanRow
  <2> QED
    BY <2>1, <2>2, <2>3 DEF Still, Same, To, ActionRow, BanRow
<1>2. ASSUME NEW c \in Cmds
      PROVE SameCmd(c)
  <2>1. cmd'[c] = [cmd[c] EXCEPT !.left = Down(cmd[c].left), !.lease = Down(cmd[c].lease)]
    BY DEF Tick
  <2>2. cmd[c] \in CommandRow
    BY <1>0 DEF TypeOK
  <2> QED
    BY <2>1, <2>2 DEF SameCmd, CommandRow
<1> QED
  BY <1>1, <1>2 DEF Steps, RowStep, CmdStep

(* One command moves, and with it at most its action.                      *)
LEMMA OneCommandStep ==
  ASSUME TypeOK, NEW c \in Cmds, RowStep(cmd[c].action), Moved(c),
         \A d \in Cmds \ {c} : CmdStep(d),
         \A b \in Actions \ {cmd[c].action} : act'[b] = act[b] /\ ban'[b] = ban[b]
  PROVE  Steps
<1>1. ASSUME NEW b \in Actions
      PROVE RowStep(b)
  BY UntouchedRow DEF RowStep
<1> QED
  BY <1>1 DEF Steps, CmdStep

(* The authorisation gate.                                                 *)
LEMMA StartSteps ==
  ASSUME InFlightInv, NEW c \in Cmds, StartActionCommand(c)
  PROVE  Steps
<1>0. TypeOK
  BY DEF InFlightInv
<1> DEFINE a == cmd[c].action
<1>1. cmd[c].phase = "queued" /\ ForAction(c)
  BY DEF StartActionCommand, StartExpired, StartDenied, StartAuthorized, Expired, ForAction
<1>2. Carries(c, a) /\ a \in Actions /\ Open(c) /\ ~Unused(c)
  BY <1>1 DEF Carries, Open, OpenPhases, InFlightInv, Addressed, ForAction, Unused
<1>3. act[a].status = Expecting(cmd[c].type, FALSE)
  BY <1>1, <1>2 DEF InFlightInv, Backed
<1>4. /\ act[a] \in ActionRow /\ cmd[c] \in CommandRow /\ ban[a] \in BanRow
      /\ DOMAIN act = Actions /\ DOMAIN ban = Actions /\ DOMAIN cmd = Cmds
  BY <1>0, <1>2 DEF TypeOK
<1>5. ASSUME NEW from, Withdraw(c, from), act[a].status \in from
      PROVE Steps
  <2>1. /\ act' = [act EXCEPT ![a] = Settled(@, "cancelled")]
        /\ ban' = BanBecomes(a, {"pending"}, "cancelled")
        /\ cmd' = [cmd EXCEPT ![c] = Completed(@, "withdrawn")]
    BY <1>5 DEF Withdraw
  <2>2. act'[a] = Settled(act[a], "cancelled") /\ \A b \in Actions \ {a} : act'[b] = act[b]
    BY <1>2, <1>4, <2>1
  <2>3. /\ IF ban[a].status = "pending" THEN BanTo(a, "cancelled") ELSE BanSame(a)
        /\ \A b \in Actions \ {a} : ban'[b] = ban[b]
    BY <1>2, <1>4, <2>1 DEF BanBecomes, BanTo, BanSame
  <2>4. cmd'[c] = Completed(cmd[c], "withdrawn") /\ \A d \in Cmds \ {c} : cmd'[d] = cmd[d]
    BY <1>4, <2>1
  <2>5. Moved(c)
    BY <1>0, <1>1, <1>2, <2>4, CompletedStep DEF Phases
  <2>6. Same(a) /\ To(a, "cancelled")
    BY <1>0, <1>2, <2>2, SettledStep DEF Statuses, Finished
  <2>7. GivenUp(a)
    BY <1>1, <1>3, <2>3, <2>6 DEF GivenUp, To, Expecting
  <2> QED
    BY <1>0, <2>2, <2>3, <2>4, <2>5, <2>7, OneCommandStep DEF RowStep, CmdStep, SameCmd
<1>6. CASE StartExpired(c)
  <2>1. act[a].status \in {"approved", "rolling_back", "confirming"}
    BY <1>3 DEF Expecting
  <2> QED
    BY <1>5, <1>6, <2>1 DEF StartExpired
<1>7. CASE StartDenied(c)
  <2>1. act[a].status \in {"approved"}
    BY <1>3, <1>7 DEF Expecting, StartDenied
  <2> QED
    BY <1>5, <1>7, <2>1 DEF StartDenied
<1>8. CASE StartAuthorized(c)
  <2>1. cmd' = [cmd EXCEPT ![c].phase = "started", ![c].left = ExecutionTimeout]
    BY <1>8 DEF StartAuthorized
  <2>2. /\ cmd'[c].phase = "started" /\ cmd'[c].type = cmd[c].type /\ cmd'[c].action = a
        /\ \A d \in Cmds \ {c} : cmd'[d] = cmd[d]
    BY <1>4, <2>1 DEF CommandRow
  <2>3. Moved(c) /\ \A d \in Cmds \ {c} : CmdStep(d)
    BY <1>1, <1>2, <2>2 DEF Moved, Unused, CmdStep, SameCmd
  <2>4. CASE cmd[c].type = "execute"
    <3>1. /\ act' = [act EXCEPT ![a].status = "executing"]
          /\ ban' = IF ban[a].status = "pending" /\ ban[a].left < BanTTL
                      THEN [ban EXCEPT ![a].left = BanTTL] ELSE ban
      BY <1>8, <2>4 DEF StartAuthorized
    <3>2. Same(a) /\ To(a, "executing") /\ \A b \in Actions \ {a} : act'[b] = act[b]
      BY <1>2, <1>4, <3>1 DEF ActionRow, Same, To
    <3>3. /\ ban'[a].status = ban[a].status /\ ban'[a].source = ban[a].source
          /\ ban[a].status # "pending" => ban'[a].left = ban[a].left
          /\ \A b \in Actions \ {a} : ban'[b] = ban[b]
      BY <1>2, <1>4, <3>1 DEF BanRow
    <3>4. Begun(a)
      BY <1>3, <2>4, <3>2, <3>3 DEF Begun, Expecting
    <3> QED
      BY <1>0, <2>3, <3>2, <3>3, <3>4, OneCommandStep DEF RowStep
  <2>5. CASE cmd[c].type # "execute"
    <3>1. UNCHANGED <<act, ban>>
      BY <1>8, <2>5 DEF StartAuthorized
    <3> QED
      BY <1>0, <1>2, <2>3, <3>1, UntouchedRow, OneCommandStep DEF RowStep
  <2> QED
    BY <2>4, <2>5
<1> QED
  BY <1>6, <1>7, <1>8 DEF StartActionCommand

(* What a result is judged to be decides the row: only a success or a      *)
(* rollback that failed keeps state, and only a change of SSH waits.       *)
LEMMA OutcomeFacts ==
  ASSUME NEW kind \in ActionKinds, NEW s \in Submission
  PROVE  LET o == Outcome("execute", kind, s)
         IN  /\ o.ok \in BOOLEAN /\ o.unknown \in BOOLEAN
             /\ o.ok => o.keepState
             /\ ~o.ok /\ ~o.unknown => ~o.keepState
             /\ o.awaiting => o.ok /\ kind # "ip_ban"
             /\ o.legacy => o.ok /\ kind # "ip_ban"
BY DEF Outcome, Accepted, RecoveredSuccess, LegacySuspend

(* Results.                                                                *)
LEMMA ResultSteps ==
  ASSUME InFlightInv, AnyResult
  PROVE  Steps
<1>0. TypeOK
  BY DEF InFlightInv
<1>1. "result" \in Phases \ {"absent", "timeout"}
  BY DEF Phases
<1>2. ASSUME NEW c \in Cmds, NEW s \in Submission, CompleteExecute(c, s)
      PROVE Steps
  <2> DEFINE a == cmd[c].action
             o == Outcome("execute", act[a].kind, s)
             good == IF o.awaiting THEN "awaiting_confirmation" ELSE "succeeded"
             st == Verdict(o, IF ban[a].left > 0 THEN "active" ELSE "indeterminate")
  <2>1. Carries(c, a) /\ a \in Actions /\ act[a] \in ActionRow /\ Accepting(c, "execute")
    BY <1>2, AcceptingCarries DEF CompleteExecute
  <2>2. PICK window \in IF o.awaiting THEN 1..ConfirmMax ELSE {0} :
          act' = [act EXCEPT ![a].status = Verdict(o, good),
                             ![a].state = o.keepState, ![a].left = window]
    BY <1>2 DEF CompleteExecute
  <2>3. /\ cmd' = [cmd EXCEPT ![c] = Completed(@, "result")]
        /\ ban' = BanBecomes(a, {"pending"}, st)
    BY <1>2 DEF CompleteExecute, BanAfterExecution
  <2>4. act[a].status = "executing"
    BY <2>1 DEF Accepting, Expecting
  <2>5. /\ o.ok \in BOOLEAN /\ o.unknown \in BOOLEAN
        /\ o.ok => o.keepState
        /\ ~o.ok /\ ~o.unknown => ~o.keepState
        /\ o.awaiting => o.ok /\ act[a].kind # "ip_ban"
    BY <2>1, OutcomeFacts DEF ActionRow
  <2> HIDE DEF o
  <2>6. /\ To(a, Verdict(o, good)) /\ act'[a].state = o.keepState
        /\ act'[a].kind = act[a].kind /\ act'[a].policy = act[a].policy
        /\ \A b \in Actions \ {a} : act'[b] = act[b]
    <3> HIDE DEF good
    <3> QED
      BY <1>0, <2>1, <2>2 DEF TypeOK, ActionRow, To
  <2>7. /\ IF ban[a].status = "pending" THEN BanTo(a, st) ELSE BanSame(a)
        /\ \A b \in Actions \ {a} : ban'[b] = ban[b]
    BY <1>0, <2>1, <2>3 DEF TypeOK, BanBecomes, BanTo, BanSame
  <2>8. Moved(c) /\ \A d \in Cmds \ {c} : CmdStep(d)
    <3>1. cmd'[c] = Completed(cmd[c], "result") /\ \A d \in Cmds \ {c} : cmd'[d] = cmd[d]
      BY <1>0, <2>3 DEF TypeOK
    <3> QED
      BY <1>0, <1>1, <2>1, <3>1, CompletedStep DEF Carries, CmdStep, SameCmd
  <2>9. Executed(a)
    <3>1. CASE o.unknown
      <4>1. Verdict(o, good) = "indeterminate" /\ st = "indeterminate"
        BY <3>1 DEF Verdict
      <4> QED
        BY <2>4, <2>6, <2>7, <4>1 DEF Executed
    <3>2. CASE ~o.unknown /\ ~o.ok
      <4>1. Verdict(o, good) = "failed" /\ st = "failed"
        BY <3>2 DEF Verdict
      <4> QED
        BY <2>4, <2>5, <2>6, <2>7, <3>2, <4>1 DEF Executed
    <3>3. CASE ~o.unknown /\ o.ok
      <4>1. Verdict(o, good) = good /\ st \in {"active", "indeterminate"}
        BY <3>3 DEF Verdict
      <4>2. CASE o.awaiting
        <5>1. To(a, "awaiting_confirmation")
          BY <2>6, <4>1, <4>2
        <5> QED
          BY <2>4, <2>5, <2>6, <2>7, <3>3, <4>2, <5>1 DEF Executed, To
      <4>3. CASE ~o.awaiting
        <5>1. To(a, "succeeded")
          BY <2>6, <4>1, <4>3
        <5> QED
          BY <2>4, <2>5, <2>6, <2>7, <3>3, <4>1, <5>1 DEF Executed
      <4> QED
        BY <4>2, <4>3
    <3> QED
      BY <2>5, <3>1, <3>2, <3>3
  <2> QED
    BY <1>0, <2>6, <2>7, <2>8, <2>9, OneCommandStep DEF RowStep
<1>3. ASSUME NEW c \in Cmds, NEW s \in Submission, NEW undo \in Cmds,
             CompleteLegacySuspend(c, s, undo)
      PROVE Steps
  <2> DEFINE a == cmd[c].action
             o == Outcome("execute", act[a].kind, s)
             st == Verdict(o, IF ban[a].left > 0 THEN "active" ELSE "indeterminate")
  <2>1. Carries(c, a) /\ a \in Actions /\ act[a] \in ActionRow /\ Accepting(c, "execute")
    BY <1>3, AcceptingCarries DEF CompleteLegacySuspend
  <2>2. /\ act' = [act EXCEPT ![a].status = "rolling_back", ![a].state = o.keepState, ![a].left = 0]
        /\ ban' = BanBecomes(a, {"pending"}, st)
        /\ cmd' = [cmd EXCEPT ![c] = Completed(@, "result"), ![undo] = NewCommand("rollback", a)]
        /\ o.legacy /\ Unused(undo) /\ c # undo
    BY <1>3 DEF CompleteLegacySuspend, BanAfterExecution, Accepting, Unused
  <2>3. act[a].status = "executing"
    BY <2>1 DEF Accepting, Expecting
  <2>4. o.keepState /\ act[a].kind # "ip_ban"
    BY <2>1, <2>2, OutcomeFacts DEF ActionRow
  <2> HIDE DEF o, st
  <2>5. /\ To(a, "rolling_back") /\ act'[a].state = o.keepState
        /\ act'[a].kind = act[a].kind /\ act'[a].policy = act[a].policy
        /\ \A b \in Actions \ {a} : act'[b] = act[b]
    BY <1>0, <2>1, <2>2 DEF TypeOK, ActionRow, To
  <2>6. /\ ban[a].status # "pending" => BanSame(a)
        /\ \A b \in Actions \ {a} : ban'[b] = ban[b]
    BY <1>0, <2>1, <2>2 DEF TypeOK, BanBecomes, BanSame
  <2>7. Executed(a)
    BY <2>3, <2>4, <2>5, <2>6 DEF Executed, To
  <2>8. /\ cmd'[c] = Completed(cmd[c], "result")
        /\ cmd'[undo] = NewCommand("rollback", a)
        /\ \A d \in Cmds \ {c, undo} : cmd'[d] = cmd[d]
    BY <1>0, <2>2 DEF TypeOK
  <2>9. Moved(c) /\ \A d \in Cmds \ {c} : CmdStep(d)
    <3>1. Moved(c)
      BY <1>0, <1>1, <2>1, <2>8, CompletedStep DEF Carries
    <3>2. Queued(undo)
      BY <2>2, <2>8 DEF Queued, NewCommand
    <3> QED
      BY <2>8, <3>1, <3>2 DEF CmdStep, SameCmd
  <2> QED
    BY <1>0, <2>5, <2>6, <2>7, <2>9, OneCommandStep DEF RowStep
<1>4. ASSUME NEW c \in Cmds, NEW t \in {"rollback", "confirm"}, Accepting(c, t), NEW o,
             NEW good \in {"rolled_back", "succeeded"},
             cmd' = [cmd EXCEPT ![c] = Completed(@, "result")],
             act' = [act EXCEPT ![cmd[c].action] = Settled(@, Verdict(o, good))],
             RowStep(cmd[c].action),
             \A b \in Actions \ {cmd[c].action} : ban'[b] = ban[b]
      PROVE Steps
  <2>1. cmd[c].action \in Actions /\ Open(c)
    BY <1>4, AcceptingCarries DEF Carries
  <2>2. \A b \in Actions \ {cmd[c].action} : act'[b] = act[b]
    BY <1>0, <1>4 DEF TypeOK
  <2>3. cmd'[c] = Completed(cmd[c], "result") /\ \A d \in Cmds \ {c} : cmd'[d] = cmd[d]
    BY <1>0, <1>4 DEF TypeOK
  <2>4. Moved(c) /\ \A d \in Cmds \ {c} : CmdStep(d)
    BY <1>0, <1>1, <2>1, <2>3, CompletedStep DEF CmdStep, SameCmd
  <2> QED
    BY <1>0, <1>4, <2>2, <2>4, OneCommandStep
<1>5. ASSUME NEW c \in Cmds, NEW s \in Submission, CompleteRollback(c, s)
      PROVE Steps
  <2> DEFINE a == cmd[c].action
             o == Outcome("rollback", act[a].kind, s)
  <2>1. a \in Actions /\ act[a] \in ActionRow /\ Accepting(c, "rollback")
    BY <1>5, AcceptingCarries DEF CompleteRollback
  <2>2. act[a].status = "rolling_back"
    BY <2>1 DEF Accepting, Expecting
  <2>3. /\ cmd' = [cmd EXCEPT ![c] = Completed(@, "result")]
        /\ act' = [act EXCEPT ![a] = Settled(@, Verdict(o, "rolled_back"))]
        /\ ban' = IF o.ok THEN BanBecomes(a, {"active", "indeterminate"}, "rolled_back")
                  ELSE IF o.unknown THEN [ban EXCEPT ![a] = MaybeApplied(a)]
                  ELSE ban
    BY <1>5 DEF CompleteRollback
  <2>4. o.ok => ~o.unknown
    BY DEF Outcome, Accepted, RecoveredSuccess, ReportedUnknown, UnknownWithState,
           UnknownWithoutState, UnknownReceipt, ProvesSuccess
  <2> HIDE DEF o
  <2>5. Verdict(o, "rolled_back") \in Statuses
    BY DEF Verdict, Statuses, Finished
  <2>6. act'[a] = Settled(act[a], Verdict(o, "rolled_back"))
    BY <1>0, <2>1, <2>3 DEF TypeOK
  <2>7. Same(a) /\ To(a, Verdict(o, "rolled_back"))
    BY <1>0, <2>1, <2>5, <2>6, SettledStep
  <2>8. \A b \in Actions \ {a} : ban'[b] = ban[b]
    BY <1>0, <2>3 DEF BanBecomes, TypeOK
  <2>9. RowStep(a)
    <3>1. CASE o.ok
      <4>1. To(a, "rolled_back")
        BY <2>4, <2>7, <3>1 DEF Verdict
      <4>2. IF ban[a].status \in {"active", "indeterminate"} THEN BanTo(a, "rolled_back")
            ELSE BanSame(a)
        BY <1>0, <2>1, <2>3, <3>1 DEF BanBecomes, TypeOK, BanTo, BanSame
      <4> QED
        BY <2>2, <2>7, <4>1, <4>2 DEF RowStep, Undone
    <3>2. CASE ~o.ok /\ o.unknown
      <4>1. To(a, "indeterminate")
        BY <2>7, <3>2 DEF Verdict
      <4>2. ban'[a] = MaybeApplied(a)
        BY <1>0, <2>1, <2>3, <3>2 DEF TypeOK
      <4> QED
        BY <2>2, <2>7, <4>1, <4>2 DEF RowStep, Lost
    <3>3. CASE ~o.ok /\ ~o.unknown
      <4>1. To(a, "failed") /\ BanSame(a)
        BY <2>3, <2>7, <3>3 DEF Verdict, BanSame
      <4> QED
        BY <2>2, <2>7, <4>1 DEF RowStep, NotDone
    <3> QED
      BY <3>1, <3>2, <3>3
  <2> QED
    BY <1>4, <2>1, <2>3, <2>8, <2>9
<1>6. ASSUME NEW c \in Cmds, NEW s \in Submission, CompleteConfirm(c, s)
      PROVE Steps
  <2> DEFINE a == cmd[c].action
             o == Outcome("confirm", act[a].kind, s)
  <2>1. a \in Actions /\ act[a] \in ActionRow /\ Accepting(c, "confirm")
    BY <1>6, AcceptingCarries DEF CompleteConfirm
  <2>2. act[a].status = "confirming"
    BY <2>1 DEF Accepting, Expecting
  <2>3. /\ cmd' = [cmd EXCEPT ![c] = Completed(@, "result")]
        /\ act' = [act EXCEPT ![a] = Settled(@, Verdict(o, "succeeded"))]
        /\ ban' = ban
    BY <1>6 DEF CompleteConfirm
  <2> HIDE DEF o
  <2>4. Verdict(o, "succeeded") \in {"succeeded", "failed", "indeterminate"}
    BY DEF Verdict
  <2>5. act'[a] = Settled(act[a], Verdict(o, "succeeded"))
    BY <1>0, <2>1, <2>3 DEF TypeOK
  <2>6. Same(a) /\ To(a, Verdict(o, "succeeded"))
    BY <1>0, <2>1, <2>4, <2>5, SettledStep DEF Statuses, Finished
  <2>7. BanSame(a)
    BY <2>3 DEF BanSame
  <2>8. RowStep(a)
    BY <2>2, <2>4, <2>6, <2>7 DEF RowStep, Confirmed, NotDone, Lost, To
  <2> QED
    BY <1>4, <2>1, <2>3, <2>8
<1>7. ASSUME NEW c \in Cmds, CompleteScan(c)
      PROVE Steps
  <2>1. cmd'[c] = Completed(cmd[c], "result") /\ \A d \in Cmds \ {c} : cmd'[d] = cmd[d]
    BY <1>0, <1>7 DEF CompleteScan, TypeOK
  <2>2. UNCHANGED <<act, ban>> /\ Open(c)
    BY <1>7 DEF CompleteScan, Open, OpenPhases
  <2>3. Moved(c)
    BY <1>0, <1>1, <2>1, <2>2, CompletedStep
  <2> QED
    BY <1>0, <2>1, <2>2, <2>3, UntouchedRow DEF Steps, RowStep, CmdStep, SameCmd
<1> QED
  BY <1>2, <1>3, <1>5, <1>6, <1>7 DEF AnyResult

(* Every transaction of the store.                                         *)
LEMMA EveryStep ==
  ASSUME InFlightInv, [AnyNext]_vars
  PROVE  Steps
<1>0. TypeOK
  BY DEF InFlightInv
<1>1. CASE AnyAgentRequest
  BY <1>1, ClaimSteps, StartSteps, ResultSteps DEF AnyAgentRequest
<1>2. CASE UNCHANGED vars
  <2>1. UNCHANGED <<act, cmd, ban>>
    BY <1>2 DEF vars
  <2> QED
    BY <1>0, <2>1, UntouchedRow DEF Steps, RowStep, CmdStep, SameCmd
<1> QED
  BY <1>1, <1>2, AdminSteps, PolicySteps, EventSteps, MaintainSteps, TickSteps DEF AnyNext

-----------------------------------------------------------------------------
(* What an action and its ban row say of each other.                       *)

(* Nothing can be rolled back before something was executed, and what      *)
(* changed the host keeps what undoes it.                                  *)
StateFollowsExecution(a) ==
  /\ act[a].status \in {"absent", "draft", "approved", "executing"} => ~act[a].state
  /\ act[a].status \in {"succeeded", "awaiting_confirmation", "confirming",
                        "rolling_back", "rolled_back"} => act[a].state

(* What BanFollowsAction says of one row, and what keeps it so: the row of *)
(* a ban appears with its action, belongs to a ban and has nothing to undo *)
(* when the ban never took place.                                          *)
BanRowFollows(a) ==
  LET b == ban[a].status  s == act[a].status IN
  /\ b = "pending" <=> b # "none" /\ s \in {"approved", "executing"}
  /\ b = "active" => s \in {"succeeded", "rolling_back", "failed", "cancelled"}
  /\ b = "active" => act[a].state
  /\ b \in {"failed", "cancelled"} => s \in {"failed", "cancelled"}
  /\ b # "none" => (b = "rolled_back" <=> s = "rolled_back")
  /\ b # "none" => act[a].kind = "ip_ban"
  /\ s \in {"absent", "draft"} => b = "none"
  /\ b \in {"failed", "cancelled"} => ~act[a].state

(* A draft is an administrator's.                                          *)
DraftIsAsked(a) == act[a].status = "draft" => ~act[a].policy

RowInv(a) == StateFollowsExecution(a) /\ BanRowFollows(a) /\ DraftIsAsked(a)

(* The facts of a row survive every step of the row.                       *)
LEMMA RowKept ==
  ASSUME NEW a \in Actions, RowInv(a), RowStep(a), TypeOK, TypeOK'
  PROVE  RowInv(a)'
<1>0. /\ act[a] \in ActionRow /\ ban[a] \in BanRow
      /\ act'[a] \in ActionRow /\ ban'[a] \in BanRow
  BY DEF TypeOK
<1> USE DEF RowInv, StateFollowsExecution, BanRowFollows, DraftIsAsked, To, Same, BanSame, BanTo
<1>1. CASE Still(a)
  BY <1>0, <1>1 DEF Still
<1>2. CASE Drafted(a)
  BY <1>0, <1>2 DEF Drafted
<1>3. CASE Ordered(a)
  BY <1>0, <1>3 DEF Ordered
<1>4. CASE Requested(a)
  BY <1>0, <1>4 DEF Requested, Rollbackable
<1>5. CASE Begun(a)
  BY <1>0, <1>5 DEF Begun
<1>6. CASE Executed(a)
  <2>1. CASE ban[a].status = "pending"
    <3>1. \A st \in BanStatuses : BanTo(a, st) => ban'[a].status = st
      BY <1>0 DEF BanRow
    <3> QED
      BY <1>0, <1>6, <2>1, <3>1 DEF Executed, BanStatuses
  <2>2. CASE ban[a].status # "pending"
    <3>1. ban[a].status = "none" /\ ban'[a].status = "none"
      BY <1>0, <1>6, <2>2 DEF Executed, BanRow, BanStatuses
    <3>2. \/ act'[a].status \in {"succeeded", "awaiting_confirmation", "rolling_back"} /\ act'[a].state
          \/ act'[a].status = "failed" \/ act'[a].status = "indeterminate"
      BY <1>6 DEF Executed
    <3> QED
      BY <3>1, <3>2
  <2> QED
    BY <2>1, <2>2
<1>7. CASE Undone(a)
  BY <1>0, <1>7 DEF Undone, BanRow, BanStatuses
<1>8. CASE Confirmed(a)
  BY <1>0, <1>8 DEF Confirmed
<1>9. CASE NotDone(a)
  BY <1>0, <1>9 DEF NotDone
<1>10. CASE Lost(a)
  BY <1>0, <1>10 DEF Lost, MaybeApplied, BanRow
<1>11. CASE GivenUp(a)
  BY <1>0, <1>11 DEF GivenUp, BanRow
<1> QED
  BY <1>1, <1>2, <1>3, <1>4, <1>5, <1>6, <1>7, <1>8, <1>9, <1>10, <1>11 DEF RowStep

(* So a ban row is always what BanFollowsAction says, and an action that   *)
(* claims to have changed the host can be undone.                          *)
LEMMA RowsFollow ==
  ASSUME \A a \in Actions : RowInv(a)
  PROVE  BanFollowsAction /\ ReversibleKeepsState
BY DEF RowInv, StateFollowsExecution, BanRowFollows, BanFollowsAction, ReversibleKeepsState

-----------------------------------------------------------------------------
(* One live ban for one source.                                            *)

(* Except by an order, a ban never becomes live, nor of another source.    *)
LEMMA LiveWasLive ==
  ASSUME NEW a \in Actions, RowInv(a), RowStep(a), TypeOK, TypeOK', Live(a)'
  PROVE  \/ Live(a) /\ ban'[a].source = ban[a].source
         \/ /\ Ordered(a) /\ ~ActiveBan(ban'[a].source)
            /\ \A b \in Actions \ {a} : BanSame(b)
<1>0. /\ ban[a] \in BanRow /\ ban'[a] \in BanRow
  BY DEF TypeOK
<1> USE DEF Live, To, Same, BanSame, BanTo
<1>1. CASE Still(a)
  BY <1>0, <1>1 DEF Still, BanRow
<1>2. CASE Drafted(a) \/ Requested(a) \/ Confirmed(a) \/ NotDone(a)
  BY <1>2 DEF Drafted, Requested, Confirmed, NotDone
<1>3. CASE Ordered(a)
  BY <1>3 DEF Ordered
<1>4. CASE Begun(a)
  BY <1>0, <1>4 DEF Begun, BanRow
<1>5. CASE Executed(a)
  <2>1. CASE ban[a].status # "pending"
    BY <1>5, <2>1 DEF Executed
  <2>2. CASE ban[a].status = "pending"
    <3>1. ban[a].status # "none" => act[a].kind = "ip_ban"
      BY DEF RowInv, BanRowFollows
    <3>2. \E st \in BanStatuses : ban'[a] = [ban[a] EXCEPT !.status = st]
      BY <1>5, <2>2, <3>1 DEF Executed, BanStatuses
    <3> QED
      BY <1>0, <2>2, <3>2 DEF BanRow
  <2> QED
    BY <2>1, <2>2
<1>6. CASE Undone(a)
  BY <1>0, <1>6 DEF Undone, BanRow
<1>7. CASE Lost(a)
  BY <1>0, <1>7 DEF Lost, MaybeApplied, BanRow
<1>8. CASE GivenUp(a)
  BY <1>0, <1>8 DEF GivenUp, BanRow
<1> QED
  BY <1>1, <1>2, <1>3, <1>4, <1>5, <1>6, <1>7, <1>8 DEF RowStep

(* So two bans of one source are never live together.                      *)
LEMMA OneLiveKept ==
  ASSUME \A a \in Actions : RowInv(a) /\ RowStep(a), TypeOK, TypeOK', OneLiveBanPerSource
  PROVE  OneLiveBanPerSource'
<1> SUFFICES ASSUME NEW a \in Actions, NEW b \in Actions, Live(a)', Live(b)',
                    ban'[a].source = ban'[b].source, a # b
             PROVE  FALSE
  BY DEF OneLiveBanPerSource
<1>1. ASSUME NEW x \in Actions, NEW y \in Actions, x # y, Live(y)',
             ban'[x].source = ban'[y].source,
             ~ActiveBan(ban'[x].source), \A z \in Actions \ {x} : BanSame(z)
      PROVE  FALSE
  <2>1. ban'[y] = ban[y] /\ y \in Actions
    BY <1>1 DEF BanSame
  <2>2. Live(y)
    BY <1>1, <2>1 DEF Live
  <2> QED
    BY <1>1, <2>1, <2>2 DEF ActiveBan
<1>2. Live(a) /\ ban'[a].source = ban[a].source
  BY <1>1, LiveWasLive
<1>3. Live(b) /\ ban'[b].source = ban[b].source
  BY <1>1, LiveWasLive
<1> QED
  BY <1>2, <1>3 DEF OneLiveBanPerSource

-----------------------------------------------------------------------------
(* Executions.                                                             *)

(* An execution is queued by approval, and an unanswered one left nothing  *)
(* to roll back, so that it stays unknown.                                 *)
ExecutionsAreApproved ==
  \A c \in Cmds :
    ~Unused(c) /\ cmd[c].type = "execute" =>
      /\ cmd[c].action \in Actions
      /\ act[cmd[c].action].status \notin {"absent", "draft"}
      /\ cmd[c].phase = "timeout" =>
           act[cmd[c].action].status = "indeterminate" /\ ~act[cmd[c].action].state

(* An action leaves its first two statuses once, and an unknown one with   *)
(* nothing to roll back stays as it is.                                    *)
LEMMA NoWayBack ==
  ASSUME NEW a \in Actions, RowStep(a)
  PROVE  /\ act[a].status \notin {"absent", "draft"} => act'[a].status \notin {"absent", "draft"}
         /\ act[a].status = "indeterminate" /\ ~act[a].state =>
              act'[a].status = "indeterminate" /\ ~act'[a].state
BY DEF RowStep, Still, Drafted, Ordered, Requested, Begun, Executed, Undone, Confirmed,
       NotDone, Lost, GivenUp, Same, To, Rollbackable

(* Executions stay approved, single, and unknown once they are lost.       *)
LEMMA ExecutionsKept ==
  ASSUME Steps, \A a \in Actions : RowInv(a), ExecutionsAreApproved, ExecutedOnce,
         InFlightInv, TypeOK'
  PROVE  ExecutionsAreApproved' /\ ExecutedOnce'
<1>0. \A c \in Cmds : CmdStep(c)
  BY DEF Steps
<1>1. ASSUME NEW c \in Cmds, ~Unused(c)', cmd'[c].type = "execute"
      PROVE /\ cmd'[c].action \in Actions
            /\ act'[cmd'[c].action].status \notin {"absent", "draft"}
            /\ cmd'[c].phase = "timeout" =>
                 act'[cmd'[c].action].status = "indeterminate" /\ ~act'[cmd'[c].action].state
  <2>1. CASE Queued(c)
    BY <1>1, <2>1 DEF Queued, To
  <2>2. CASE SameCmd(c) \/ Moved(c)
    <3> DEFINE a == cmd[c].action
    <3>1. ~Unused(c) /\ cmd[c].type = "execute" /\ cmd'[c].action = a
      BY <1>1, <2>2 DEF SameCmd, Moved, Unused, Open, OpenPhases
    <3>2. a \in Actions /\ act[a].status \notin {"absent", "draft"}
      BY <3>1 DEF ExecutionsAreApproved
    <3>3. RowStep(a) /\ RowInv(a)
      BY <3>2 DEF Steps
    <3>4. act'[a].status \notin {"absent", "draft"}
      BY <3>2, <3>3, NoWayBack
    <3>5. ASSUME cmd'[c].phase = "timeout"
          PROVE act'[a].status = "indeterminate" /\ ~act'[a].state
      <4>1. CASE SameCmd(c)
        <5>1. act[a].status = "indeterminate" /\ ~act[a].state
          BY <3>1, <3>5, <4>1 DEF SameCmd, ExecutionsAreApproved
        <5> QED
          BY <3>2, <3>3, <5>1, NoWayBack
      <4>2. CASE Moved(c)
        <5>1. Lost(a) /\ act[a].status = "executing"
          BY <3>1, <3>5, <4>2 DEF Moved
        <5> QED
          BY <3>3, <5>1 DEF Lost, Same, To, RowInv, StateFollowsExecution
      <4> QED
        BY <2>2, <4>1, <4>2
    <3> QED
      BY <3>1, <3>2, <3>4, <3>5
  <2> QED
    BY <1>0, <2>1, <2>2 DEF CmdStep
<1>2. ASSUME NEW c \in Cmds, NEW d \in Cmds, Queued(c), c # d,
             ~Unused(c)', cmd'[c].type = "execute", ~Unused(d)', cmd'[d].type = "execute",
             cmd'[c].action = cmd'[d].action
      PROVE FALSE
  <2>1. SameCmd(d) /\ act[cmd'[c].action].status \in {"absent", "draft"}
    BY <1>2 DEF Queued
  <2> QED
    BY <1>2, <2>1 DEF SameCmd, Unused, ExecutionsAreApproved
<1>3. ASSUME NEW c \in Cmds, NEW d \in Cmds, c # d,
             ~Unused(c)', cmd'[c].type = "execute", ~Unused(d)', cmd'[d].type = "execute",
             cmd'[c].action = cmd'[d].action
      PROVE FALSE
  <2>1. /\ SameCmd(c) \/ Moved(c)
        /\ SameCmd(d) \/ Moved(d)
    BY <1>0, <1>2, <1>3 DEF CmdStep
  <2>2. /\ ~Unused(c) /\ cmd[c].type = "execute" /\ cmd'[c].action = cmd[c].action
        /\ ~Unused(d) /\ cmd[d].type = "execute" /\ cmd'[d].action = cmd[d].action
    BY <1>3, <2>1 DEF SameCmd, Moved, Unused, Open, OpenPhases
  <2> QED
    BY <1>3, <2>2 DEF ExecutedOnce
<1> QED
  BY <1>1, <1>3 DEF ExecutionsAreApproved, ExecutedOnce

-----------------------------------------------------------------------------
(* The emergency stop.                                                     *)

(* Only saving the policy changes it.                                      *)
LEMMA PolicyStays ==
  ASSUME [AnyNext]_vars
  PROVE  \/ policy' = policy
         \/ \E p \in [armed : BOOLEAN, stop : BOOLEAN] : PutDefensePolicyAndCancelQueued(p)
<1>1. CASE AdminRequest
  BY <1>1 DEF AdminRequest, CreateAction, ApproveActionAndEnqueue, RequestRollbackAndEnqueue,
     QueueRollback, RequestConfirmationAndEnqueue, EnqueueScan, RevokeDevice
<1>2. CASE PolicyChange
  BY <1>2 DEF PolicyChange, PutPolicyGrant
<1>3. CASE ProcessSecurityEvent
  BY <1>3 DEF ProcessSecurityEvent, PolicyBan, PolicySuspend
<1>4. CASE AnyAgentRequest
  <2>1. CASE AnyResult
    <3>1. \A c \in Cmds, s \in Submission :
            CompleteExecute(c, s) \/ CompleteRollback(c, s) \/ CompleteConfirm(c, s)
              => policy' = policy
      BY DEF CompleteExecute, CompleteRollback, CompleteConfirm
    <3>2. \A c, undo \in Cmds, s \in Submission :
            CompleteLegacySuspend(c, s, undo) => policy' = policy
      BY DEF CompleteLegacySuspend
    <3>3. \A c \in Cmds : CompleteScan(c) => policy' = policy
      BY DEF CompleteScan
    <3> QED
      BY <2>1, <3>1, <3>2, <3>3 DEF AnyResult
  <2>2. CASE ClaimCommands \/ \E c \in Cmds : StartActionCommand(c)
    BY <2>2 DEF ClaimCommands, StartActionCommand, StartExpired, StartDenied, StartAuthorized
  <2> QED
    BY <1>4, <2>1, <2>2 DEF AnyAgentRequest
<1>5. CASE Maintain
  BY <1>5 DEF Maintain, ExpireStaleActionCommands, ExpireActionConfirmations,
     ExpireDraftActions, ExpireBanHorizon
<1>6. CASE Tick \/ UNCHANGED vars
  BY <1>6 DEF Tick, vars
<1> QED
  BY <1>1, <1>2, <1>3, <1>4, <1>5, <1>6 DEF AnyNext

(* A stop withdraws the bans that wait, because each of them has a command *)
(* to withdraw it by; afterwards none is ordered until the stop is lifted. *)
LEMMA StopKept ==
  ASSUME InFlightInv, TypeOK', [AnyNext]_vars, Steps, \A a \in Actions : RowInv(a),
         StopWithdrawsBans
  PROVE  StopWithdrawsBans'
<1> SUFFICES ASSUME policy'.stop, NEW a \in Actions, act'[a].policy, act'[a].kind = "ip_ban",
                    act'[a].status = "approved"
             PROVE  FALSE
  BY DEF StopWithdrawsBans
<1>1. ASSUME NEW p \in [armed : BOOLEAN, stop : BOOLEAN], PutDefensePolicyAndCancelQueued(p)
      PROVE FALSE
  <2> DEFINE hit(c) == p.stop /\ Open(c) /\ cmd[c].type = "execute"
                  /\ act[cmd[c].action].policy
                  /\ act[cmd[c].action].status = "approved"
             cut(b) == \E c \in Cmds : hit(c) /\ cmd[c].action = b
  <2>1. /\ p.stop
        /\ act'[a] = IF cut(a) THEN Settled(act[a], "cancelled") ELSE act[a]
    BY <1>1 DEF PutDefensePolicyAndCancelQueued
  <2>2. Settled(act[a], "cancelled").status = "cancelled"
    BY SettledRow DEF InFlightInv, TypeOK, Statuses, Finished
  <2>3. ~cut(a) /\ act[a].policy /\ act[a].status = "approved"
    BY <2>1, <2>2
  <2>4. PICK c \in Cmds : Carries(c, a)
    BY <2>3 DEF InFlightInv, Backed, InFlight
  <2>5. cmd[c].type = "execute"
    BY <2>3, <2>4 DEF InFlightInv, Backed, Expecting
  <2>6. hit(c) /\ cmd[c].action = a
    BY <2>1, <2>3, <2>4, <2>5 DEF Carries
  <2> QED
    BY <2>3, <2>6
<1>2. policy' = policy
  BY <1>1, PolicyStays
<1>3. RowStep(a) /\ RowInv(a)
  BY DEF Steps
<1>4. Still(a) \/ Ordered(a) \/ Requested(a)
  BY <1>3 DEF RowStep, Drafted, Begun, Executed, Undone, Confirmed, NotDone, Lost, GivenUp, To
<1>5. CASE Still(a)
  BY <1>2, <1>5 DEF Still, Same, To, StopWithdrawsBans
<1>6. CASE Ordered(a)
  BY <1>6 DEF Ordered
<1>7. CASE Requested(a)
  BY <1>3, <1>7 DEF Requested, Same, To, RowInv, DraftIsAsked
<1> QED
  BY <1>4, <1>5, <1>6, <1>7

-----------------------------------------------------------------------------
(* The limit of unfinished actions.                                        *)

RoomInv == IsFiniteSet(UnfinishedIn(act)) /\ CapacityKept

(* When no action becomes unfinished, the limit is still kept.             *)
Shrinks == \A a \in Actions : act'[a].status \in Unfinished => act[a].status \in Unfinished

(* Then there is still room.                                               *)
LEMMA ShrinkingKeepsRoom ==
  ASSUME RoomInv, Shrinks
  PROVE  RoomInv'
<1>1. UnfinishedIn(act') \in SUBSET UnfinishedIn(act)
  BY DEF UnfinishedIn, Shrinks
<1>2. /\ IsFiniteSet(UnfinishedIn(act'))
      /\ Cardinality(UnfinishedIn(act')) <= Cardinality(UnfinishedIn(act))
  BY <1>1, FS_Subset DEF RoomInv
<1>3. Cardinality(UnfinishedIn(act)) \in Nat /\ Cardinality(UnfinishedIn(act')) \in Nat
  BY <1>2, FS_CardinalityType DEF RoomInv
<1> QED
  BY <1>2, <1>3, CapacityAssumption DEF RoomInv, CapacityKept

(* One more is let in where there was room.                                *)
LEMMA OneMoreKeepsRoom ==
  ASSUME NEW rows, IsFiniteSet(UnfinishedIn(rows)),
         Cardinality(UnfinishedIn(rows)) < MaxUnfinished,
         NEW a, \A b \in Actions \ {a} : act'[b] = rows[b]
  PROVE  RoomInv'
<1>1. UnfinishedIn(act') \in SUBSET (UnfinishedIn(rows) \cup {a})
  BY DEF UnfinishedIn
<1>2. /\ IsFiniteSet(UnfinishedIn(rows) \cup {a})
      /\ Cardinality(UnfinishedIn(rows) \cup {a}) <= Cardinality(UnfinishedIn(rows)) + 1
  <2>1. Cardinality(UnfinishedIn(rows)) \in Nat
    BY FS_CardinalityType
  <2>2. /\ IsFiniteSet(UnfinishedIn(rows) \cup {a})
        /\ Cardinality(UnfinishedIn(rows) \cup {a}) =
             IF a \in UnfinishedIn(rows) THEN Cardinality(UnfinishedIn(rows))
             ELSE Cardinality(UnfinishedIn(rows)) + 1
    BY FS_AddElement
  <2> QED
    BY <2>1, <2>2
<1>3. /\ IsFiniteSet(UnfinishedIn(act'))
      /\ Cardinality(UnfinishedIn(act')) <= Cardinality(UnfinishedIn(rows) \cup {a})
  BY <1>1, <1>2, FS_Subset
<1>4. /\ Cardinality(UnfinishedIn(rows)) \in Nat /\ Cardinality(UnfinishedIn(act')) \in Nat
      /\ Cardinality(UnfinishedIn(rows) \cup {a}) \in Nat
  BY <1>2, <1>3, FS_CardinalityType
<1> QED
  BY <1>2, <1>3, <1>4, CapacityAssumption DEF RoomInv, CapacityKept

(* Expired drafts make room.                                               *)
LEMMA SweptDraftsFinite ==
  ASSUME TypeOK, RoomInv
  PROVE  IsFiniteSet(UnfinishedIn(SweptDrafts))
<1>1. ASSUME NEW a \in Actions
      PROVE SweptDrafts[a].status \in Unfinished => act[a].status \in Unfinished
  <2>1. Settled(act[a], "cancelled").status = "cancelled"
    BY SettledRow DEF TypeOK, Statuses, Finished
  <2> QED
    BY <2>1 DEF SweptDrafts, Unfinished
<1>2. UnfinishedIn(SweptDrafts) \in SUBSET UnfinishedIn(act)
  BY <1>1 DEF UnfinishedIn
<1> QED
  BY <1>2, FS_Subset DEF RoomInv

(* A row that is settled for good, or left alone, does not become          *)
(* unfinished.                                                             *)
LEMMA SettledShrinks ==
  ASSUME TypeOK,
         \A a \in Actions : \/ act'[a].status = act[a].status
                            \/ act[a].status \in Unfinished
                            \/ \E st \in Finished : act'[a] = Settled(act[a], st)
  PROVE  Shrinks
<1> SUFFICES ASSUME NEW a \in Actions, act'[a].status \in Unfinished
             PROVE  act[a].status \in Unfinished
  BY DEF Shrinks
<1>1. ASSUME NEW st \in Finished, act'[a] = Settled(act[a], st)
      PROVE FALSE
  <2>1. act'[a].status = st
    BY <1>1, SettledRow DEF TypeOK, Statuses
  <2> QED
    BY <1>1, <2>1 DEF Finished, Unfinished
<1> QED
  BY <1>1

(* The administrator's requests and the events: every door looks at the    *)
(* room there is.                                                          *)
LEMMA RequestsKeepRoom ==
  ASSUME TypeOK, RoomInv, AdminRequest \/ ProcessSecurityEvent
  PROVE  RoomInv'
<1>0. SweptDrafts \in [Actions -> ActionRow] /\ IsFiniteSet(UnfinishedIn(SweptDrafts))
  BY SweptDraftsRows, SweptDraftsFinite
<1>1. ASSUME NEW a \in Actions, NEW row, act' = [SweptDrafts EXCEPT ![a] = row],
             Cardinality(UnfinishedIn(SweptDrafts)) < MaxUnfinished
      PROVE RoomInv'
  <2>1. \A b \in Actions \ {a} : act'[b] = SweptDrafts[b]
    BY <1>0, <1>1
  <2> QED
    BY <1>0, <1>1, <2>1, OneMoreKeepsRoom
<1>2. ASSUME NEW a \in Actions, NEW c \in Cmds, RequestRollbackAndEnqueue(a, c)
      PROVE RoomInv'
  <2>1. \A b \in Actions \ {a} : act'[b] = act[b]
    BY <1>2 DEF RequestRollbackAndEnqueue, QueueRollback, TypeOK
  <2>2. Cardinality(UnfinishedIn(act)) < MaxUnfinished
    BY <1>2 DEF RequestRollbackAndEnqueue
  <2> QED
    BY <2>1, <2>2, OneMoreKeepsRoom DEF RoomInv
<1>3. ASSUME NEW a \in Actions, NEW c \in Cmds,
             ApproveActionAndEnqueue(a, c) \/ RequestConfirmationAndEnqueue(a, c)
      PROVE RoomInv'
  <2>1. act[a].status \in Unfinished /\ \A b \in Actions \ {a} : act'[b] = act[b]
    BY <1>3 DEF ApproveActionAndEnqueue, RequestConfirmationAndEnqueue, TypeOK, Unfinished
  <2> QED
    BY <2>1, ShrinkingKeepsRoom DEF Shrinks
<1>4. CASE \E c \in Cmds : EnqueueScan(c)
  BY <1>4, ShrinkingKeepsRoom DEF EnqueueScan, Shrinks
<1>5. CASE RevokeDevice
  <2>1. ASSUME NEW a \in Actions
        PROVE act'[a] \in {act[a], Settled(act[a], "indeterminate"), Settled(act[a], "cancelled")}
    BY <1>5 DEF RevokeDevice
  <2>2. {"indeterminate", "cancelled"} \subseteq Finished
    BY DEF Finished
  <2> QED
    BY <2>1, <2>2, SettledShrinks, ShrinkingKeepsRoom
<1>6. CASE AdminRequest
  BY <1>1, <1>2, <1>3, <1>4, <1>5, <1>6 DEF AdminRequest, CreateAction
<1>7. CASE ProcessSecurityEvent
  BY <1>1, <1>7 DEF ProcessSecurityEvent, PolicyBan, PolicySuspend
<1> QED
  BY <1>6, <1>7

(* The device only moves actions that count already.                       *)
LEMMA AgentKeepsRoom ==
  ASSUME InFlightInv, RoomInv, AnyAgentRequest
  PROVE  RoomInv'
<1>0. TypeOK
  BY DEF InFlightInv
<1>1. ASSUME NEW a \in Actions, act[a].status \in InFlight,
             \A b \in Actions \ {a} : act'[b] = act[b]
      PROVE RoomInv'
  BY <1>1, ShrinkingKeepsRoom DEF Shrinks, InFlight, Unfinished
<1>2. CASE ClaimCommands
  <2>1. ASSUME NEW a \in Actions
        PROVE act'[a] \in {act[a], Settled(act[a], "failed"), Settled(act[a], "indeterminate")}
    BY <1>2 DEF ClaimCommands, SweptActs
  <2> QED
    BY <1>0, <2>1, SettledShrinks, ShrinkingKeepsRoom DEF Finished
<1>3. ASSUME NEW c \in Cmds, StartActionCommand(c)
      PROVE RoomInv'
  <2>1. ForAction(c) /\ Open(c)
    BY <1>3 DEF StartActionCommand, StartExpired, StartDenied, StartAuthorized, Expired,
       ForAction, Open, OpenPhases
  <2>2. cmd[c].action \in Actions /\ Carries(c, cmd[c].action)
    BY <2>1 DEF InFlightInv, Addressed, ForAction, Carries
  <2>3. act[cmd[c].action].status \in InFlight
    BY <2>2, CarriedInFlight
  <2>4. \A b \in Actions \ {cmd[c].action} : act'[b] = act[b]
    BY <1>0, <1>3 DEF StartActionCommand, StartExpired, StartDenied, StartAuthorized, Withdraw,
       TypeOK
  <2> QED
    BY <1>1, <2>2, <2>3, <2>4
<1>4. ASSUME NEW c \in Cmds, NEW t \in {"execute", "rollback", "confirm"}, Accepting(c, t),
             \A b \in Actions \ {cmd[c].action} : act'[b] = act[b]
      PROVE RoomInv'
  BY <1>1, <1>4, AcceptingCarries, CarriedInFlight
<1>5. CASE AnyResult
  <2>1. ASSUME NEW c \in Cmds, NEW s \in Submission,
               CompleteExecute(c, s) \/ \E undo \in Cmds : CompleteLegacySuspend(c, s, undo)
        PROVE RoomInv'
    <3>1. Accepting(c, "execute") /\ \A b \in Actions \ {cmd[c].action} : act'[b] = act[b]
      BY <1>0, <2>1 DEF CompleteExecute, CompleteLegacySuspend, TypeOK
    <3> QED
      BY <1>4, <3>1
  <2>2. ASSUME NEW c \in Cmds, NEW s \in Submission, CompleteRollback(c, s)
        PROVE RoomInv'
    <3>1. Accepting(c, "rollback") /\ \A b \in Actions \ {cmd[c].action} : act'[b] = act[b]
      BY <1>0, <2>2 DEF CompleteRollback, TypeOK
    <3> QED
      BY <1>4, <3>1
  <2>3. ASSUME NEW c \in Cmds, NEW s \in Submission, CompleteConfirm(c, s)
        PROVE RoomInv'
    <3>1. Accepting(c, "confirm") /\ \A b \in Actions \ {cmd[c].action} : act'[b] = act[b]
      BY <1>0, <2>3 DEF CompleteConfirm, TypeOK
    <3> QED
      BY <1>4, <3>1
  <2>4. ASSUME NEW c \in Cmds, CompleteScan(c)
        PROVE RoomInv'
    BY <2>4, ShrinkingKeepsRoom DEF CompleteScan, Shrinks
  <2> QED
    BY <1>5, <2>1, <2>2, <2>3, <2>4 DEF AnyResult
<1> QED
  BY <1>2, <1>3, <1>5 DEF AnyAgentRequest

(* So the limit holds after every step.                                    *)
LEMMA RoomKept ==
  ASSUME InFlightInv, RoomInv, [AnyNext]_vars
  PROVE  RoomInv'
<1>0. TypeOK
  BY DEF InFlightInv
<1>1. ASSUME \A a \in Actions : \/ act'[a].status = act[a].status
                                \/ \E st \in Finished : act'[a] = Settled(act[a], st)
      PROVE RoomInv'
  BY <1>0, <1>1, SettledShrinks, ShrinkingKeepsRoom
<1>2. CASE PolicyChange
  <2>1. ASSUME NEW a \in Actions
        PROVE act'[a] \in {act[a], Settled(act[a], "cancelled")}
    BY <1>2 DEF PolicyChange, PutDefensePolicyAndCancelQueued, PutPolicyGrant
  <2> QED
    BY <1>1, <2>1 DEF Finished
<1>3. CASE Maintain
  <2>1. ASSUME NEW a \in Actions
        PROVE act'[a] \in {act[a], Settled(act[a], "cancelled"), Settled(act[a], "failed"),
                           Settled(act[a], "indeterminate")}
    BY <1>3 DEF Maintain, ExpireStaleActionCommands, SweptActs, ExpireActionConfirmations,
       ExpireDraftActions, SweptDrafts, ExpireBanHorizon
  <2> QED
    BY <1>1, <2>1 DEF Finished
<1>4. CASE Tick
  <2>1. ASSUME NEW a \in Actions
        PROVE act'[a].status = act[a].status
    BY <1>0, <1>4 DEF Tick, TypeOK, ActionRow
  <2> QED
    BY <1>1, <2>1
<1>5. CASE UNCHANGED vars
  BY <1>1, <1>5 DEF vars
<1> QED
  BY <1>0, <1>2, <1>3, <1>4, <1>5, RequestsKeepRoom, AgentKeepsRoom DEF AnyNext

-----------------------------------------------------------------------------
(* The inductive invariant of the store, and what follows from it.         *)

SafetyInv ==
  /\ InFlightInv
  /\ \A a \in Actions : RowInv(a)
  /\ ExecutionsAreApproved /\ ExecutedOnce
  /\ OneLiveBanPerSource
  /\ StopWithdrawsBans
  /\ RoomInv

(* An empty store has nothing to contradict it.                            *)
LEMMA InitSafe ==
  ASSUME Init
  PROVE  SafetyInv
<1>1. \A a \in Actions : RowInv(a)
  BY DEF Init, RowInv, StateFollowsExecution, BanRowFollows, DraftIsAsked
<1>2. ExecutionsAreApproved /\ ExecutedOnce
  BY DEF Init, ExecutionsAreApproved, ExecutedOnce, Unused
<1>3. OneLiveBanPerSource /\ StopWithdrawsBans
  BY DEF Init, OneLiveBanPerSource, Live, StopWithdrawsBans
<1>4. RoomInv
  <2>1. UnfinishedIn(act) = {}
    BY DEF Init, UnfinishedIn, Unfinished
  <2> QED
    BY <2>1, FS_EmptySet, CapacityAssumption DEF RoomInv, CapacityKept
<1> QED
  BY <1>1, <1>2, <1>3, <1>4, InitInFlight DEF SafetyInv

(* Every transaction keeps it.                                             *)
LEMMA StepSafe ==
  ASSUME SafetyInv, [AnyNext]_vars
  PROVE  SafetyInv' /\ Steps /\ TypeOK /\ TypeOK'
<1>1. InFlightInv /\ InFlightInv' /\ TypeOK /\ TypeOK'
  BY StepInFlight DEF SafetyInv, InFlightInv
<1>2. Steps /\ \A a \in Actions : RowInv(a)
  BY <1>1, EveryStep DEF SafetyInv
<1>3. \A a \in Actions : RowInv(a)'
  BY <1>1, <1>2, RowKept DEF Steps
<1>4. ExecutionsAreApproved' /\ ExecutedOnce'
  BY <1>1, <1>2, ExecutionsKept DEF SafetyInv
<1>5. OneLiveBanPerSource'
  BY <1>1, <1>2, OneLiveKept DEF SafetyInv, Steps
<1>6. StopWithdrawsBans'
  BY <1>1, <1>2, StopKept DEF SafetyInv
<1>7. RoomInv'
  BY <1>1, RoomKept DEF SafetyInv
<1> QED
  BY <1>1, <1>2, <1>3, <1>4, <1>5, <1>6, <1>7 DEF SafetyInv

(* The store is never outside of it.                                       *)
LEMMA StoreIsSafe == Spec => []SafetyInv
<1>1. SafetyInv /\ [Next]_vars => SafetyInv'
  BY StepSafe, NextIsAny
<1> QED
  BY <1>1, InitSafe, PTL DEF Spec

(* However requests, events, answers, sweeps and revocations interleave,   *)
(* an action is executed by one command in its life, and an execution that *)
(* began and was never answered stays unknown for good.                    *)
THEOREM ExecutionsSound == Spec => []ExecutionsAreSound
<1>1. SafetyInv => ExecutionsAreSound
  BY DEF SafetyInv, ExecutionsAreSound, ExecutionsAreApproved, LostExecutionStaysUnknown, Unused
<1> QED
  BY <1>1, StoreIsSafe, PTL

(* Whatever claims to have changed the host holds what undoes it, and no   *)
(* request, event or rollback takes the device over its limit.             *)
THEOREM RollbacksSound == Spec => []RollbacksAreSound
<1>1. SafetyInv => RollbacksAreSound
  BY RowsFollow DEF SafetyInv, RollbacksAreSound, RoomInv
<1> QED
  BY <1>1, StoreIsSafe, PTL

(* The ban rows say of their actions what is true, and two bans of one     *)
(* source are never live together.                                         *)
THEOREM BansTruthful == Spec => []BansFollowActions
<1>1. SafetyInv => BansFollowActions
  BY RowsFollow DEF SafetyInv, BansFollowActions
<1> QED
  BY <1>1, StoreIsSafe, PTL

(* While the device is stopped no automatic ban waits for the Agent.       *)
THEOREM StopHolds == Spec => []StopWithdrawsBans
<1>1. SafetyInv => StopWithdrawsBans
  BY DEF SafetyInv
<1> QED
  BY <1>1, StoreIsSafe, PTL

(* Only the gate, before the Helper runs, pushes a ban's horizon out.      *)
THEOREM HorizonKept == Spec => HorizonOnlyExtendedByStart
<1> DEFINE Extends(a) == ban[a].status # "none" /\ ban'[a].left > ban[a].left
           ByStart(a) == /\ act[a].status = "approved" /\ act'[a].status = "executing"
                         /\ ban[a].status = "pending"
<1>1. ASSUME SafetyInv, [AnyNext]_vars, NEW a \in Actions, Extends(a)
      PROVE  ByStart(a)
  <2>1. Steps /\ TypeOK /\ TypeOK'
    BY <1>1, StepSafe
  <2>2. ban[a] \in BanRow /\ ban'[a] \in BanRow
    BY <2>1 DEF TypeOK
  <2>3. RowStep(a) /\ RowInv(a)
    BY <1>1, <2>1 DEF Steps, SafetyInv
  <2>4. ASSUME ban'[a].left <= ban[a].left
        PROVE FALSE
    BY <1>1, <2>2, <2>4 DEF BanRow
  <2>5. ASSUME NEW st, BanTo(a, st)
        PROVE FALSE
    <3>1. ban'[a].left = ban[a].left
      BY <2>2, <2>5 DEF BanTo, BanRow
    <3> QED
      BY <2>2, <2>4, <3>1 DEF BanRow
  <2>6. ASSUME BanSame(a)
        PROVE FALSE
    BY <2>2, <2>4, <2>6 DEF BanSame, BanRow
  <2>7. ASSUME ban'[a] = MaybeApplied(a)
        PROVE FALSE
    BY <2>5, <2>6, <2>7 DEF MaybeApplied, BanTo, BanSame
  <2>8. CASE Begun(a)
    BY <1>1, <2>2, <2>4, <2>8 DEF Begun, To, BanRow
  <2>9. CASE Still(a)
    BY <2>4, <2>9 DEF Still
  <2>10. CASE Drafted(a) \/ Requested(a) \/ Confirmed(a) \/ NotDone(a)
    BY <2>6, <2>10 DEF Drafted, Requested, Confirmed, NotDone
  <2>11. CASE Ordered(a)
    BY <1>1, <2>3, <2>11 DEF Ordered, RowInv, BanRowFollows
  <2>12. CASE Executed(a)
    <3>1. ban[a].status # "none" /\ act[a].kind = "ip_ban"
      BY <1>1, <2>3 DEF RowInv, BanRowFollows
    <3> QED
      BY <2>5, <2>6, <2>12, <3>1 DEF Executed
  <2>13. CASE Undone(a)
    BY <2>5, <2>6, <2>13 DEF Undone
  <2>14. CASE Lost(a)
    BY <2>6, <2>7, <2>14 DEF Lost
  <2>15. CASE GivenUp(a)
    BY <2>5, <2>6, <2>15 DEF GivenUp
  <2> QED
    BY <2>3, <2>8, <2>9, <2>10, <2>11, <2>12, <2>13, <2>14, <2>15 DEF RowStep
<1>2. SafetyInv /\ [Next]_vars => [\A a \in Actions : Extends(a) => ByStart(a)]_vars
  BY <1>1, NextIsAny
<1> QED
  BY <1>2, StoreIsSafe, PTL DEF Spec, HorizonOnlyExtendedByStart

(* Seen by its statuses alone, the store does what ActionStatus says an    *)
(* action can do, so that what is proved of IncidentResponse over that     *)
(* module holds over this one.                                             *)
THEOREM StatusImplemented == Spec => ImplementsStatus
<1>1. Init => Status!AllAbsent
  BY DEF Init, Status!AllAbsent
<1>2. ASSUME SafetyInv, [AnyNext]_vars
      PROVE  Status!MoveSome
  <2> SUFFICES ASSUME NEW a \in Actions
               PROVE \/ act'[a].status = act[a].status
                     \/ <<act[a].status, act'[a].status>> \in Status!Moves
    BY DEF Status!MoveSome
  <2>1. RowStep(a)
    BY <1>2, StepSafe DEF Steps
  <2> USE DEF Status!Moves, To
  <2>2. CASE Still(a)
    BY <2>2 DEF Still
  <2>3. CASE Drafted(a) \/ Ordered(a) \/ Requested(a)
    BY <2>3 DEF Drafted, Ordered, Requested, Rollbackable, Status!Requested
  <2>4. CASE Begun(a)
    BY <2>4 DEF Begun, Status!Begun
  <2>5. CASE Executed(a)
    BY <2>5 DEF Executed, Status!Answered
  <2>6. CASE Undone(a) \/ Confirmed(a) \/ NotDone(a)
    BY <2>6 DEF Undone, Confirmed, NotDone, Status!Answered
  <2>7. CASE Lost(a)
    BY <2>7 DEF Lost, Status!GivenUp
  <2>8. CASE GivenUp(a)
    BY <2>8 DEF GivenUp, Status!GivenUp
  <2> QED
    BY <2>1, <2>2, <2>3, <2>4, <2>5, <2>6, <2>7, <2>8 DEF RowStep
<1>3. SafetyInv /\ [Next]_vars => [Status!MoveSome]_([a \in Actions |-> act[a].status])
  BY <1>2, NextIsAny
<1> QED
  BY <1>1, <1>3, StoreIsSafe, PTL DEF Spec, ImplementsStatus, Status!StatusSpec

=============================================================================
