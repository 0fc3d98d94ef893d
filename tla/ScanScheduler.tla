----------------------------- MODULE ScanScheduler -----------------------------
(***************************************************************************)
(* Recurring scans of a device: the Controller's scheduler reads what is   *)
(* due, enqueues a scan command and marks the schedule, in three steps,    *)
(* while administrators edit schedules and ask for scans; the Agent claims *)
(* a command under a lease, scans, and puts the result in its durable      *)
(* FIFO, whose head it sends until the Controller takes it.  Pending scans *)
(* of a device are coalesced into the newest.  Controller and Agent may    *)
(* restart at any step and answers may be lost.                            *)
(* Definitions marked "Fault" are plausible mistakes.                      *)
(***************************************************************************)
EXTENDS Integers, FiniteSets, Sequences

CONSTANTS
  Schedules,  \* identities of schedules
  Nobody,     \* the scheduler works on no schedule
  Intervals,  \* permitted intervals, in ticks
  Lease,      \* ticks until a claimed command is handed out again (2 min)
  MaxResults, \* results for which the Agent's FIFO has room (5000)
  MaxTime,    \* bound: ticks
  MaxCmds     \* bound: scan commands

VARIABLES
  now,
  sched,  \* sched[s]: status, enabled, interval, next_run_at
  due,    \* the rows DueSchedules returned and not yet handled: s, interval, next
  mark,   \* the row whose command is enqueued and which is to be marked
  cmds,   \* cmds[i]: "none", "pending", "done", "failed", "superseded", "gone"
  lease,  \* lease[i]: ticks until i may be claimed (again)
  agent,  \* the command the Agent executes, 0 if none
  results,  \* the Agent's FIFO: results of scans, cmd and ok, on disk
  recorded, \* the head is the result that is stored; the answer was lost
  edits   \* (history) edits[s]: an edit that was stored and is in force

schedVars == <<now, sched, due, mark, cmds, lease, agent, results, recorded, edits>>
agentVars == <<agent, results, recorded>>

Ids == 1..MaxCmds
Pending == {i \in Ids : cmds[i] = "pending"}
Used == {i \in Ids : cmds[i] # "none"}
NoRow == [s |-> Nobody, every |-> 0, next |-> 0]

-----------------------------------------------------------------------------
(* The queue.                                                              *)

(* EnqueueCommand supersedes every pending scan, claimed or not.           *)
EnqueueScan ==
  LET i == Cardinality(Used) + 1
  IN /\ i <= MaxCmds
     /\ cmds' = [j \in Ids |-> IF j = i THEN "pending"
                               ELSE IF j \in Pending THEN "superseded" ELSE cmds[j]]
     /\ lease' = [lease EXCEPT ![i] = 0]

(* ClaimCommands keeps the newest pending scan; the answer may be lost.    *)
ClaimCommands(arrives) ==
  /\ agent = 0 /\ Pending # {}
  /\ LET i == CHOOSE i \in Pending : \A j \in Pending : j <= i
     IN /\ cmds' = [j \in Ids |-> IF j \in Pending \ {i} THEN "superseded" ELSE cmds[j]]
        /\ IF lease[i] = 0
             THEN /\ lease' = [lease EXCEPT ![i] = Lease]
                  /\ agent' = IF arrives THEN i ELSE 0
             ELSE UNCHANGED <<lease, agent>>
  /\ UNCHANGED <<now, sched, due, mark, results, recorded, edits>>

(* A result that finds no room is dropped; the scan stays claimed.         *)
ScanEnds(ok) ==
  /\ agent # 0 /\ agent' = 0
  /\ results' = IF Len(results) < MaxResults
                  THEN Append(results, [cmd |-> agent, ok |-> ok]) ELSE results
  /\ UNCHANGED <<now, sched, due, mark, cmds, lease, recorded, edits>>

(* CompleteCommandAndActionWithOutcome takes the first result, the same    *)
(* one again (a scan that succeeded names its own report, so no other is   *)
(* the same), and any result of a superseded scan; a row that is gone is   *)
(* 410, which the Agent takes for an answer.  Another result of a scan     *)
(* that has one is 409, and stays the head.                                *)
Same(r) == recorded \/ (cmds[r.cmd] = "failed" /\ ~r.ok)
\* Fault: a superseded scan's late result is a conflict like any other.
AcceptsOpen(r) == Same(r) \/ cmds[r.cmd] \in {"pending", "gone"}
Accepts(r) == Same(r) \/ cmds[r.cmd] \in {"pending", "superseded", "gone"}

Flush(arrives) ==
  /\ results # <<>> /\ Accepts(Head(results))
  /\ LET r == Head(results)
     IN cmds' = IF cmds[r.cmd] # "pending" THEN cmds
                ELSE [cmds EXCEPT ![r.cmd] = IF r.ok THEN "done" ELSE "failed"]
  /\ results' = IF arrives THEN Tail(results) ELSE results
  /\ recorded' = ~arrives
  /\ UNCHANGED <<now, sched, due, mark, lease, agent, edits>>

AgentRestarts ==
  /\ agent # 0 /\ agent' = 0
  /\ UNCHANGED <<now, sched, due, mark, cmds, lease, results, recorded, edits>>

(* The oldest completed row is deleted once enough newer ones are there,   *)
(* those of the device's other commands included.                          *)
Completed == {i \in Ids : cmds[i] \in {"done", "failed", "superseded"}}
CompactCommands(i) ==
  /\ i \in Completed /\ \A j \in Completed : i <= j
  /\ cmds' = [cmds EXCEPT ![i] = "gone"]
  /\ UNCHANGED <<now, sched, due, mark, lease, agent, results, recorded, edits>>

-----------------------------------------------------------------------------
(* The scheduler.                                                          *)

IsDue(s) == sched[s].status = "live" /\ sched[s].on /\ sched[s].next <= now

DueSchedules ==
  /\ due = {} /\ mark = NoRow
  /\ due' = {[s |-> s, every |-> sched[s].every, next |-> sched[s].next] :
               s \in {s \in Schedules : IsDue(s)}}
  /\ due' # {}
  /\ UNCHANGED <<now, sched, mark, cmds, lease, agentVars, edits>>

(* An enqueue that fails leaves the schedule due.                          *)
Enqueue(row, ok) ==
  /\ mark = NoRow /\ row \in due
  /\ due' = due \ {row}
  /\ IF ok THEN EnqueueScan /\ mark' = row ELSE UNCHANGED <<cmds, lease, mark>>
  /\ UNCHANGED <<now, sched, agentVars, edits>>

(* The runs that were missed are made up for by one.                       *)
NextAfter(next, every) ==
  CHOOSE t \in (now + 1)..(now + every) : \E k \in 1..(MaxTime + 1) : t = next + k * every

(* The row is still as it was read.                                        *)
\* Fault: the schedule is marked whatever was done to it.
Unconditionally(row) == sched[row.s].status = "live"
Unchanged(row) == sched[row.s].status = "live" /\ sched[row.s].next = row.next

MarkScheduleRun ==
  /\ mark # NoRow
  /\ IF Unchanged(mark)
       THEN /\ sched' = [sched EXCEPT ![mark.s].next = NextAfter(mark.next, mark.every)]
            /\ edits' = [edits EXCEPT ![mark.s] = FALSE]
       ELSE UNCHANGED <<sched, edits>>
  /\ mark' = NoRow
  /\ UNCHANGED <<now, due, cmds, lease, agentVars>>

ControllerRestarts ==
  /\ due # {} \/ mark # NoRow
  /\ due' = {} /\ mark' = NoRow
  /\ UNCHANGED <<now, sched, cmds, lease, agentVars, edits>>

-----------------------------------------------------------------------------
(* Administrators.                                                         *)

PutSchedule(s, every, on) ==
  /\ sched' = [sched EXCEPT ![s] = [status |-> "live", on |-> on, every |-> every, next |-> now + every]]
  /\ edits' = [edits EXCEPT ![s] = TRUE]
  /\ UNCHANGED <<now, due, mark, cmds, lease, agentVars>>
CreateSchedule(s, every, on) == sched[s].status = "none" /\ PutSchedule(s, every, on)
UpdateSchedule(s, every, on) == sched[s].status = "live" /\ PutSchedule(s, every, on)

DeleteSchedule(s) ==
  /\ sched[s].status = "live"
  /\ sched' = [sched EXCEPT ![s].status = "deleted"]
  /\ edits' = [edits EXCEPT ![s] = FALSE]
  /\ UNCHANGED <<now, due, mark, cmds, lease, agentVars>>

TriggerScan == EnqueueScan /\ UNCHANGED <<now, sched, due, mark, agentVars, edits>>

(* claimed_at lies two minutes back.                                       *)
Lapses(n) == IF n > 0 THEN n - 1 ELSE 0

Tick ==
  /\ now < MaxTime \/ \E i \in Ids : lease[i] > 0
  /\ now' = IF now < MaxTime THEN now + 1 ELSE now
  /\ lease' = [i \in Ids |-> Lapses(lease[i])]
  /\ UNCHANGED <<sched, due, mark, cmds, agentVars, edits>>

-----------------------------------------------------------------------------

(* An older version may have left two scans pending.                       *)
Left == {0, 2}
Init ==
  /\ now = 0 /\ due = {} /\ mark = NoRow
  /\ agent = 0 /\ results = <<>> /\ recorded = FALSE
  /\ sched = [s \in Schedules |-> [status |-> "none", on |-> FALSE, every |-> 0, next |-> 0]]
  /\ \E left \in Left : cmds = [i \in Ids |-> IF i <= left THEN "pending" ELSE "none"]
  /\ lease = [i \in Ids |-> 0]
  /\ edits = [s \in Schedules |-> FALSE]

Scheduler ==
  \/ DueSchedules \/ MarkScheduleRun
  \/ \E row \in due, ok \in BOOLEAN : Enqueue(row, ok)

Next ==
  \/ Scheduler \/ ControllerRestarts
  \/ \E arrives \in BOOLEAN : ClaimCommands(arrives) \/ Flush(arrives)
  \/ \E ok \in BOOLEAN : ScanEnds(ok)
  \/ AgentRestarts
  \/ \E i \in Ids : CompactCommands(i)
  \/ \E s \in Schedules, every \in Intervals, on \in BOOLEAN :
       CreateSchedule(s, every, on) \/ UpdateSchedule(s, every, on)
  \/ \E s \in Schedules : DeleteSchedule(s)
  \/ TriggerScan \/ Tick

Spec == Init /\ [][Next]_schedVars

(* The Agent polls, scans and sends what it has; no answer gets lost for   *)
(* ever, no scan is interrupted for ever, time passes.  That the head is   *)
(* accepted is not assumed, nor that maintenance reaches any row.          *)
ScanReturns == \E ok \in BOOLEAN : ScanEnds(ok)
Fairness ==
  /\ WF_schedVars(Tick)
  /\ SF_schedVars(ClaimCommands(TRUE)) /\ SF_schedVars(ScanReturns) /\ SF_schedVars(Flush(TRUE))
FairSpec == Spec /\ Fairness

-----------------------------------------------------------------------------
(* Properties.                                                             *)

(* What an administrator set is not overwritten by a pass that read the    *)
(* schedule before: it runs next when the edit says, not when the old row  *)
(* would have.                                                             *)
EditsHold ==
  [][\A s \in Schedules :
       edits[s] /\ sched'[s].next # sched[s].next /\ ~edits'[s] => sched[s].next <= now]_schedVars

(* The head of the FIFO is a second result of a scan that was handed out   *)
(* twice, which is answered 409 as long as the command's row is there.     *)
Repeated ==
  /\ results # <<>> /\ ~recorded
  /\ cmds[Head(results).cmd] \in {"done", "failed"}

(* A requested scan is carried out, or a newer request takes its place,    *)
(* although requests supersede what the Agent scans, answers are lost and  *)
(* both ends restart.  The exception: a second result that is refused      *)
(* stays the head of the Agent's FIFO, and nothing behind it gets through. *)
ScansRun ==
  \/ \A i \in Ids : cmds[i] = "pending" ~> cmds[i] # "pending"
  \/ <>[]Repeated
=============================================================================
