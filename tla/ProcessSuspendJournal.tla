------------------------- MODULE ProcessSuspendJournal -------------------------
(***************************************************************************)
(* The temporary suspension of a process by the Helper: SIGSTOP, and       *)
(* SIGCONT when the time is up or an administrator asks.  A journal per    *)
(* action on disk says whom to resume; a timer per action, armed again     *)
(* from the journals at every start, does it.                              *)
(*                                                                         *)
(* The Engine runs one operation at a time; Apply and Rollback exclude the *)
(* timers by a mutex (lifecycle), Verify does not.  The actions of this    *)
(* model are about one process identifier, which processes of the host     *)
(* take one after the other: they start, exit, are killed, and their       *)
(* executable may be unlinked at any step.  The clock runs evenly.         *)
(* Definitions marked "Fault" are plausible mistakes.                      *)
(***************************************************************************)
EXTENDS Integers

CONSTANTS
  SuspendActions, \* identities of suspensions, each executed once
  Procs,          \* processes that take the identifier, told apart by start time
  NoProc,         \* the identifier is free
  NoAction,       \* no operation runs
  TTL             \* ticks until resumeAt

VARIABLES
  pid,      \* the process: proc, whether stopped, whether its executable is unlinked
  started,  \* the processes that have been started
  journal,  \* journal[a] in the directory: recorded proc, unlinked, time left; None
  disk,     \* what survives a crash of the host
  timer,    \* timer[a]: ticks until expire runs, Off
  acts,     \* acts[a]: status, recorded proc, unlinked (the rollback state)
  eng,      \* the Engine's operation: action, stage
  exp,      \* the timer's operation: action, stage
  held      \* (history) held[a]: a stopped the process it recorded, nobody resumed it

procVars == <<pid, started, journal, disk, timer, acts, eng, exp, held>>

Off  == -1
None == [proc |-> NoProc, unlinked |-> FALSE, left |-> 0]
Rest == [act |-> NoAction, at |-> "idle"]
Free == [proc |-> NoProc, stopped |-> FALSE, unlinked |-> FALSE]

Unlocked == exp = Rest /\ eng.at \in {"idle", "verify", "undo"}
Goes(at) == eng' = [eng EXCEPT !.at = at]
Ends(a, status) == eng' = Rest /\ acts' = [acts EXCEPT ![a].status = status]

(* Inspect against a recorded identity, the executable as /proc shows it:  *)
(* an unlinked one has a suffix.                                           *)
Same(r) == pid.proc = r.proc /\ pid.unlinked = r.unlinked
Exited == pid.proc = NoProc

-----------------------------------------------------------------------------
(* Apply and Verify.                                                       *)

(* Precheck and Apply's inspection, which ignores the suffix.  The process *)
(* named by the parameters is this one, or the action is refused.          *)
ApplyInspect(a, named) ==
  /\ Unlocked /\ eng = Rest /\ acts[a].status = "new"
  /\ IF Exited \/ pid.stopped \/ ~named
       THEN Ends(a, "failed")
       ELSE /\ eng' = [act |-> a, at |-> "journal"]
            /\ acts' = [acts EXCEPT ![a].proc = pid.proc, ![a].unlinked = pid.unlinked]
  /\ UNCHANGED <<pid, started, journal, disk, timer, exp, held>>

(* A write that failed may have left the journal, with no timer.           *)
ApplyJournal(how) ==
  LET a == eng.act
      entry == [proc |-> acts[a].proc, unlinked |-> acts[a].unlinked, left |-> TTL]
  IN /\ eng.at = "journal"
     /\ journal' = IF how = "failed" THEN journal ELSE [journal EXCEPT ![a] = entry]
     /\ disk' = IF how = "done" THEN [disk EXCEPT ![a] = entry] ELSE disk
     /\ IF how = "done" THEN Goes("stop") /\ UNCHANGED acts ELSE Ends(a, "failed")
     /\ UNCHANGED <<pid, started, timer, exp, held>>

(* The timer is armed, then whatever has the identifier is stopped.  The   *)
(* call may report an error after the signal was accepted.                 *)
\* Fault: the timer is armed only when the signal is reported sent.
ApplyStopFirst(sent, ok) ==
  LET a == eng.act
  IN /\ eng.at = "stop"
     /\ timer' = IF ok THEN [timer EXCEPT ![a] = journal[a].left] ELSE timer
     /\ pid' = IF sent /\ ~Exited THEN [pid EXCEPT !.stopped = TRUE] ELSE pid
     /\ held' = [held EXCEPT ![a] = sent /\ pid.proc = acts[a].proc]
     /\ IF ok THEN Goes("verify") /\ UNCHANGED acts ELSE Ends(a, "failed")
     /\ UNCHANGED <<started, journal, disk, exp>>
ApplyStop(sent, ok) ==
  LET a == eng.act
  IN /\ eng.at = "stop"
     /\ timer' = [timer EXCEPT ![a] = journal[a].left]
     /\ pid' = IF sent /\ ~Exited THEN [pid EXCEPT !.stopped = TRUE] ELSE pid
     /\ held' = [held EXCEPT ![a] = sent /\ pid.proc = acts[a].proc]
     /\ Goes(IF ok THEN "verify" ELSE "undo")
     /\ UNCHANGED <<started, journal, disk, acts, exp>>

(* Without the lock: the timer may have run since.                         *)
Verify ==
  /\ eng.at = "verify"
  /\ \/ Same(acts[eng.act]) /\ pid.stopped /\ Ends(eng.act, "applied")
     \/ ~(Same(acts[eng.act]) /\ pid.stopped) /\ Goes("undo") /\ UNCHANGED acts
  /\ UNCHANGED <<pid, started, journal, disk, timer, exp, held>>

-----------------------------------------------------------------------------
(* resumeExact: "error", "resume" (the same process, stopped) or "nothing" *)
(* (it exited, was replaced, or runs).                                     *)
Finds(r) == IF Same(r) /\ pid.stopped THEN "resume" ELSE "nothing"

(* SIGCONT to whatever has the identifier by then.                         *)
Continues ==
  /\ pid' = [pid EXCEPT !.stopped = FALSE]
  /\ held' = [a \in SuspendActions |-> held[a] /\ acts[a].proc # pid.proc]

Removes(a, how) ==
  /\ journal' = IF how = "failed" THEN journal ELSE [journal EXCEPT ![a] = None]
  /\ disk'    = IF how = "done" THEN [disk EXCEPT ![a] = None] ELSE disk
Removal == {"done", "unsynced", "failed"}

(* Of what was applied, or failed with its state returned ("stuck").       *)
AskRollback(a) ==
  /\ eng = Rest /\ acts[a].status \in {"applied", "stuck"}
  /\ eng' = [act |-> a, at |-> "undo"]
  /\ UNCHANGED <<pid, started, journal, disk, timer, acts, exp, held>>

(* Rollback works from the state it is given, not from the journal.        *)
RollbackInspect(ok) ==
  LET a == eng.act
  IN /\ Unlocked /\ eng.at = "undo"
     /\ IF ok THEN Goes(IF Finds(acts[a]) = "resume" THEN "cont" ELSE "clean") /\ UNCHANGED acts
        ELSE Ends(a, "stuck")
     /\ UNCHANGED <<pid, started, journal, disk, timer, exp, held>>

RollbackContinue(ok) ==
  LET a == eng.act
  IN /\ eng.at = "cont"
     /\ IF ok THEN Continues /\ Goes("clean") /\ UNCHANGED acts
        ELSE /\ Ends(a, "stuck")
             /\ UNCHANGED <<pid, held>>
     /\ UNCHANGED <<started, journal, disk, timer, exp>>

RollbackClean(how) ==
  LET a == eng.act
  IN /\ eng.at = "clean"
     /\ Removes(a, how)
     /\ Ends(a, IF how # "done" THEN "stuck"
                ELSE IF acts[a].status = "new" THEN "failed" ELSE "rolled_back")
     /\ timer' = IF how = "done" THEN [timer EXCEPT ![a] = Off] ELSE timer
     /\ UNCHANGED <<pid, started, exp, held>>

(* expire: an error is tried again after a minute, here the next tick.     *)
Expire(a, ok) ==
  /\ Unlocked /\ timer[a] = 0
  /\ IF journal[a] = None THEN timer' = [timer EXCEPT ![a] = Off] /\ UNCHANGED exp
     ELSE IF ~ok THEN timer' = [timer EXCEPT ![a] = 1] /\ UNCHANGED exp
     ELSE /\ exp' = [act |-> a, at |-> IF Finds(journal[a]) = "resume" THEN "cont" ELSE "clean"]
          /\ UNCHANGED timer
  /\ UNCHANGED <<pid, started, journal, disk, acts, eng, held>>

\* Fault: a resume that failed is given up.
ExpireGivesUp(ok) ==
  /\ exp.at = "cont"
  /\ exp' = [exp EXCEPT !.at = "clean"]
  /\ IF ok THEN Continues ELSE UNCHANGED <<pid, held>>
  /\ UNCHANGED <<started, journal, disk, timer, acts, eng>>
ExpireContinue(ok) ==
  /\ exp.at = "cont"
  /\ IF ok THEN Continues /\ exp' = [exp EXCEPT !.at = "clean"] /\ UNCHANGED timer
     ELSE exp' = Rest /\ timer' = [timer EXCEPT ![exp.act] = 1] /\ UNCHANGED <<pid, held>>
  /\ UNCHANGED <<started, journal, disk, acts, eng>>

(* A journal that cannot be removed is left behind.                        *)
ExpireClean(how) ==
  /\ exp.at = "clean"
  /\ Removes(exp.act, how)
  /\ exp' = Rest /\ timer' = [timer EXCEPT ![exp.act] = Off]
  /\ UNCHANGED <<pid, started, acts, eng, held>>

-----------------------------------------------------------------------------
(* The host.                                                               *)

Takes(p) == pid' = [proc |-> p, stopped |-> FALSE, unlinked |-> FALSE]
Nothing == <<journal, disk, timer, acts, eng, exp>>

Starts(p) ==
  /\ Exited /\ p \notin started
  /\ Takes(p) /\ started' = started \cup {p}
  /\ UNCHANGED held /\ UNCHANGED Nothing

Exits ==
  /\ ~Exited /\ pid' = Free
  /\ held' = [a \in SuspendActions |-> FALSE]
  /\ UNCHANGED started /\ UNCHANGED Nothing

Unlink ==
  /\ ~Exited /\ ~pid.unlinked
  /\ pid' = [pid EXCEPT !.unlinked = TRUE]
  /\ UNCHANGED <<started, held>> /\ UNCHANGED Nothing

(* resumeJournals.                                                         *)
Resumes == [a \in SuspendActions |-> IF journal'[a] = None THEN Off ELSE journal'[a].left]
Restarts ==
  /\ eng' = Rest /\ exp' = Rest /\ timer' = Resumes
  /\ acts' = [a \in SuspendActions |->
                IF a = eng.act /\ acts[a].status = "new"
                THEN [acts[a] EXCEPT !.status = "failed"] ELSE acts[a]]
  /\ UNCHANGED started

HelperRestarts == UNCHANGED <<journal, disk, pid, held>> /\ Restarts

(* Changes of the directory that were not synced may be lost; no process   *)
(* survives.                                                               *)
HostRestarts(kept) ==
  /\ journal' = kept /\ disk' = kept
  /\ pid' = Free /\ held' = [a \in SuspendActions |-> FALSE]
  /\ Restarts

Ages(j) == [a \in SuspendActions |-> IF j[a].left = 0 THEN j[a] ELSE [j[a] EXCEPT !.left = @ - 1]]
Tick ==
  /\ journal' = Ages(journal) /\ disk' = Ages(disk)
  /\ timer' = [a \in SuspendActions |-> IF timer[a] > 0 THEN timer[a] - 1 ELSE timer[a]]
  /\ UNCHANGED <<pid, started, acts, eng, exp, held>>

-----------------------------------------------------------------------------

Init ==
  /\ pid = Free /\ started = {}
  /\ journal = [a \in SuspendActions |-> None] /\ disk = journal
  /\ timer = [a \in SuspendActions |-> Off]
  /\ acts = [a \in SuspendActions |-> [status |-> "new", proc |-> NoProc, unlinked |-> FALSE]]
  /\ eng = Rest /\ exp = Rest
  /\ held = [a \in SuspendActions |-> FALSE]

EngineSteps ==
  \/ \E sent, ok \in BOOLEAN : ApplyStop(sent, ok)
  \/ \E ok \in BOOLEAN : RollbackInspect(ok) \/ RollbackContinue(ok)
  \/ \E how \in Removal : ApplyJournal(how) \/ RollbackClean(how)
  \/ Verify

TimerSteps ==
  \/ \E ok \in BOOLEAN : ExpireContinue(ok) \/ (\E a \in SuspendActions : Expire(a, ok))
  \/ \E how \in Removal : ExpireClean(how)

HostSteps ==
  \/ \E p \in Procs : Starts(p)
  \/ Exits \/ Unlink \/ HelperRestarts \/ Tick
  \/ \E kept \in {journal, disk} : HostRestarts(kept)

Next ==
  \/ \E a \in SuspendActions, named \in BOOLEAN : ApplyInspect(a, named) \/ AskRollback(a)
  \/ EngineSteps \/ TimerSteps \/ HostSteps

Spec == Init /\ [][Next]_procVars

(* Time passes, operations end, a due timer runs, and reading /proc and    *)
(* signalling do not fail for ever.                                        *)
Fairness ==
  /\ WF_procVars(Tick) /\ WF_procVars(EngineSteps) /\ WF_procVars(TimerSteps)
  /\ SF_procVars(ExpireContinue(TRUE))
  /\ \A a \in SuspendActions : SF_procVars(Expire(a, TRUE))

FairSpec == Spec /\ Fairness

-----------------------------------------------------------------------------
(* Properties.                                                             *)

(* While a process that an action stopped is stopped, and looks the way it *)
(* was recorded, what says to resume it is on disk, and a timer is armed   *)
(* or about to resume it.                                                  *)
ResumeArmed ==
  \A a \in SuspendActions :
    held[a] /\ Same(acts[a]) =>
      /\ journal[a].proc = acts[a].proc /\ disk[a].proc = acts[a].proc
      /\ timer[a] # Off \/ exp.act = a

(* Every process that an action stopped is resumed in the end, or exits,   *)
(* or its executable is unlinked.                                          *)
ReleasedUnlessUnlinked ==
  \A a \in SuspendActions : held[a] ~> ~(held[a] /\ Same(acts[a]))

(* Every process that an action stopped is resumed in the end, or exits:   *)
(* "must not convert a bounded containment into a permanent outage".       *)
Released == \A a \in SuspendActions : held[a] ~> ~held[a]

(* No signal reaches a process the action did not record.                  *)
ExactTarget ==
  [][\A sent, ok \in BOOLEAN :
       ApplyStop(sent, ok) /\ pid' # pid => pid.proc = acts[eng.act].proc]_procVars
=============================================================================
