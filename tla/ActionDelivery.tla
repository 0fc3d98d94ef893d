---------------------------- MODULE ActionDelivery ----------------------------
(***************************************************************************)
(* The way of a command from the Controller to the host and of its result  *)
(* back: the store (ActionLifecycle), the Agent's command loop and durable *)
(* queue (internal/agent/runner.go, helper.go, queue.go), and the Helper,  *)
(* of which only the promise is used (Executor, implemented by             *)
(* HelperReceipts).                                                        *)
(*                                                                         *)
(* Requests and answers may be lost in either direction.  The Agent may    *)
(* stop at any step and starts again at once: it forgets what it claimed   *)
(* and was waiting for, and keeps its queue.  Its clock need not agree     *)
(* with the Controller's.                                                  *)
(*                                                                         *)
(* A definition marked "Fault" is a plausible mistake in the code modelled *)
(* by the definition after it; the specification does not use it.          *)
(***************************************************************************)
EXTENDS ActionLifecycle, Sequences

CONSTANT MaxQueue   \* Queue.maxItems (5000)

ASSUME QueueAssumption == MaxQueue \in Nat \ {0}

(* No command is called like the mark of no command, and a result has      *)
(* bytes.                                                                  *)
ASSUME MarksAssumption == "none" \notin Cmds /\ ResultIds # {}

VARIABLES
  digest,    \* digest[c]: the result that completed c, for phase "result"
  inbox,     \* commands of the last sync, not handled yet
  calling,   \* the authorised command and whether the Helper was asked, or NoCall
  fifo,      \* the Agent's durable queue of [cmd, reply]
  listener, orphans, host, answer   \* the Helper, as Executor describes it

store    == <<act, cmd, ban, policy, grant, revoked>>
helper   == <<listener, orphans, host, answer>>
delivery == <<act, cmd, ban, policy, grant, revoked, digest, inbox, calling, fifo,
              listener, orphans, host, answer>>

X == INSTANCE Executor WITH Attempts <- Cmds

NoCall == [cmd |-> "none", asked |-> FALSE]
NoDigest == [id |-> "none"]

Job(c) == [attempt |-> c, op |-> cmd[c].type, kind |-> act[cmd[c].action].kind]

-----------------------------------------------------------------------------
(* The Controller's side of a result: CompleteCommandAndActionWithOutcome  *)
(* compares it with the one that completed the command before.             *)

Complete(c, reply) ==
  \/ CompleteExecute(c, reply)
  \/ CompleteRollback(c, reply)
  \/ CompleteConfirm(c, reply)
  \/ \E undo \in Cmds : CompleteLegacySuspend(c, reply, undo)
  \/ CompleteScan(c)

FirstResult(c, reply) ==
  /\ Complete(c, reply)
  /\ digest' = [digest EXCEPT ![c] = Digest(reply)]

(* The same result again, any result after the execution was given up, and *)
(* the result of a superseded scan are acknowledged and change nothing.    *)
Acknowledged(c, reply) ==
  \/ cmd[c].phase = "result" /\ digest[c] = Digest(reply)
  \/ cmd[c].phase = "timeout"
  \/ cmd[c].phase = "superseded"

(* Every other result of a completed command is answered 409 Conflict.     *)
Conflicting(c, reply) == cmd[c].phase = "result" /\ digest[c] # Digest(reply)

-----------------------------------------------------------------------------
(* The Agent.  Run is one serial loop: sync, then handle each command.     *)

Ready == calling = NoCall

(* The answer to a sync may be lost after the Controller has leased.       *)
Sync ==
  /\ Ready /\ inbox = {}
  /\ ClaimCommands
  /\ inbox' \in {{}, ClaimableIn(SweptCmds)}
  /\ UNCHANGED <<digest, calling, fifo, helper>>

(* A result that cannot be queued is lost: the queue is full or the disk   *)
(* refuses.                                                                *)
Enqueue(c, reply) ==
  \/ Len(fifo) < MaxQueue /\ fifo' = Append(fifo, [cmd |-> c, reply |-> reply])
  \/ fifo' = fifo

(* Each scan writes a new report, so its result differs from the last one. *)
HandleScan(c) ==
  /\ Ready /\ c \in inbox /\ cmd[c].type = "scan"
  /\ inbox' = inbox \ {c}
  /\ \E id \in ResultIds : Enqueue(c, [X!Refused EXCEPT !.id = id, !.ok = TRUE, !.error = "none"])
  /\ UNCHANGED <<store, digest, calling, helper>>

(* The gate was not passed: refused, its answer lost, or the command is    *)
(* too old by the Agent's clock, when any answer ends the handling.        *)
GateClosed(c) ==
  /\ Ready /\ c \in inbox /\ cmd[c].type # "scan"
  /\ inbox' = inbox \ {c}
  /\ StartActionCommand(c) \/ UNCHANGED store
  /\ UNCHANGED <<digest, calling, fifo, helper>>

(* The Controller authorised the command, or had done so before: this is   *)
(* how a redelivered command reaches the Helper again.                     *)
\* Fault: the Agent goes on without the Controller's answer.
GateAssumed(c) ==
  /\ Ready /\ c \in inbox /\ cmd[c].type # "scan"
  /\ inbox' = inbox \ {c} /\ calling' = [cmd |-> c, asked |-> FALSE]
  /\ StartAuthorized(c) \/ UNCHANGED store
  /\ UNCHANGED <<digest, fifo, helper>>
GatePassed(c) ==
  /\ Ready /\ c \in inbox /\ cmd[c].type # "scan"
  /\ inbox' = inbox \ {c} /\ calling' = [cmd |-> c, asked |-> FALSE]
  /\ \/ StartAuthorized(c)
     \/ ~revoked /\ cmd[c].phase = "started" /\ UNCHANGED store
  /\ UNCHANGED <<digest, fifo, helper>>

(* HelperClient.Run.                                                       *)
Waiting == listener # X!None \/ answer # X!None

CallHelper ==
  /\ calling # NoCall /\ ~calling.asked
  /\ X!Ask(Job(calling.cmd))
  /\ calling' = [calling EXCEPT !.asked = TRUE]
  /\ UNCHANGED <<store, digest, inbox, fifo>>

(* The result of the call is signed and queued.                            *)
Sign(reply) ==
  /\ Enqueue(calling.cmd, reply)
  /\ calling' = NoCall
  /\ UNCHANGED <<store, digest, inbox>>

HearReply ==
  /\ calling # NoCall /\ X!Hear
  /\ Sign(answer.reply)

(* No connection, "helper is busy", or no intent on disk: an ordinary      *)
(* failure.                                                                *)
HelperUnavailable ==
  /\ calling # NoCall /\ ~calling.asked
  /\ Sign(X!Refused)
  /\ UNCHANGED helper

(* The request was sent, or part of it, and no answer came back.           *)
HelperSilent ==
  /\ calling # NoCall
  /\ IF Waiting THEN X!HangUp ELSE UNCHANGED helper
  /\ Sign(X!Interrupted)

AgentRestart ==
  /\ calling # NoCall \/ inbox # {}
  /\ inbox' = {} /\ calling' = NoCall
  /\ IF Waiting THEN X!HangUp ELSE UNCHANGED helper
  /\ UNCHANGED <<store, digest, fifo>>

(* Flush posts the oldest entry, and removes it only when the Controller   *)
(* said 2xx; that answer may be lost after the transaction.                *)
\* Fault: a refused result is dropped.
FlushDropping ==
  /\ fifo # <<>> /\ ~revoked
  /\ LET c == Head(fifo).cmd  reply == Head(fifo).reply IN
       \/ FirstResult(c, reply)
       \/ UNCHANGED <<store, digest>>
  /\ fifo' \in {fifo, Tail(fifo)}
  /\ UNCHANGED <<inbox, calling, helper>>
Flush ==
  /\ fifo # <<>> /\ ~revoked
  /\ LET c == Head(fifo).cmd  reply == Head(fifo).reply IN
       \/ FirstResult(c, reply)
       \/ Acknowledged(c, reply) /\ UNCHANGED <<store, digest>>
  /\ fifo' \in {fifo, Tail(fifo)}
  /\ UNCHANGED <<inbox, calling, helper>>

AgentStep ==
  \/ Sync \/ CallHelper \/ HearReply \/ HelperUnavailable \/ HelperSilent
  \/ AgentRestart \/ Flush
  \/ \E c \in Cmds : HandleScan(c) \/ GateClosed(c) \/ GatePassed(c)

-----------------------------------------------------------------------------

ControllerStep ==
  /\ AdminRequest \/ PolicyChange \/ ProcessSecurityEvent \/ Maintain \/ Tick
  /\ UNCHANGED <<digest, inbox, calling, fifo, helper>>

HelperStep == X!Work /\ UNCHANGED <<store, digest, inbox, calling, fifo>>

DeliveryInit ==
  /\ Init /\ X!Init
  /\ digest = [c \in Cmds |-> NoDigest]
  /\ inbox = {} /\ calling = NoCall /\ fifo = <<>>

DeliveryNext == ControllerStep \/ AgentStep \/ HelperStep

DeliverySpec == DeliveryInit /\ [][DeliveryNext]_delivery

-----------------------------------------------------------------------------
(* Properties.                                                             *)

ExecutionOf(a) == {c \in Cmds : cmd[c].type = "execute" /\ cmd[c].action = a}
RollbacksOf(a) == {c \in Cmds : cmd[c].type = "rollback" /\ cmd[c].action = a}
Done(cs) == \E c \in cs : host[c].effect = "done"

(* What the Agent and the Helper hold is about commands that exist.        *)
DeliveryTypeOK ==
  /\ inbox \subseteq Cmds
  /\ calling = NoCall \/ calling \in [cmd : Cmds, asked : BOOLEAN]
  /\ Len(fifo) <= MaxQueue
  /\ \A i \in DOMAIN fifo : fifo[i].cmd \in Cmds /\ fifo[i].reply \in Submission
  /\ orphans \subseteq X!Job
  /\ host \in [Cmds -> [runs : 0..1, effect : X!Effects]]

(* Across every loss, restart and redelivery, an action the Controller     *)
(* shows as done was done on the host, and one shown as rolled back was    *)
(* restored by one of its rollbacks.                                       *)
SuccessIsReal ==
  \A a \in Actions :
    /\ act[a].status \in {"succeeded", "awaiting_confirmation", "confirming"} =>
         Done(ExecutionOf(a))
    /\ act[a].status = "rolled_back" => Done(RollbacksOf(a))

(* A command that the Controller ended before it was started (expired,     *)
(* stopped, denied at the gate, revoked) never reaches the host, however   *)
(* far its copies have travelled.                                          *)
WithdrawnNeverRuns ==
  \A c \in Cmds :
    cmd[c].phase \in {"absent", "queued", "withdrawn", "superseded"} =>
      /\ host[c].runs = 0
      /\ calling.cmd # c
      /\ \A job \in orphans : job.attempt # c

(* The host is changed at most once on behalf of an action's execution.    *)
HostChangedOnce ==
  \A c, d \in Cmds :
    /\ host[c].runs > 0 /\ host[d].runs > 0
    /\ cmd[c].type = "execute" /\ cmd[d].type = "execute"
    /\ cmd[c].action = cmd[d].action
    => c = d

(* What reaches the host is what the Controller started, and once.         *)
HostIsSafe == DeliveryTypeOK /\ WithdrawnNeverRuns /\ HostChangedOnce

(* A queued result leaves the queue only when its command is completed:    *)
(* the Controller never waits for a result that the Agent has discarded.   *)
NoQueuedResultLost ==
  [][\A c \in Cmds :
       Len(fifo') < Len(fifo) /\ Head(fifo).cmd = c => ~Open(c)']_delivery

(* domain/models.go: indeterminate "means the privileged operation started *)
(* but no verified safe terminal state reached the Controller".  So an     *)
(* execution recorded as failed has left the host as it was.               *)
FailedMeansUntouched ==
  \A a \in Actions :
    act[a].status = "failed" /\ RollbacksOf(a) = {} =>
      \A c \in ExecutionOf(a) : host[c].effect = "none"

(* action_results.go accepts late scan receipts so that they "cannot       *)
(* permanently block the Agent's durable outbound queue".                  *)
HeadCanLeave == fifo # <<>> => ~Conflicting(Head(fifo).cmd, Head(fifo).reply)

=============================================================================
