------------------------------ MODULE SSHJournal ------------------------------
(***************************************************************************)
(* The SSH hardening playbook of the Helper: sshd_config is rewritten, and *)
(* unless an administrator confirms in time that he can still log in, it   *)
(* is put back.  A journal on disk holds what to put back; a timer per     *)
(* action, armed again from the journal at every start, does it.           *)
(*                                                                         *)
(* Apply, Rollback, Confirm and the timer exclude each other by a mutex    *)
(* (lifecycleMu), Verify takes no lock.  Every write, check or reload may  *)
(* fail, with or without having had its effect; the Helper and the host    *)
(* may stop at any step; the administrator may edit the file, change its   *)
(* mode or owner, and reload sshd or not.                                  *)
(* Definitions marked "Fault" are plausible mistakes.                      *)
(***************************************************************************)
EXTENDS Integers

CONSTANTS
  SSHActions, \* identities of hardening actions, each executed once
  Lines,      \* contents of sshd_config, apart from the managed lines
  Modes,      \* its mode, owner and group
  Nobody,     \* no action
  Window,     \* ticks until confirmBy
  MaxDelay,   \* MaxRollbackDelay
  Retry,      \* ticks until an undo that failed is tried again (1 min)
  Jump        \* ticks by which the wall clock is set, once

VARIABLES
  file,     \* sshd_config: text, whether hardened
  journal,  \* the journal in the directory: action, snapshot, wall time left
  disk,     \* the journal that survives a crash of the host
  timer,    \* timer[a]: ticks until expire runs, Off
  acts,     \* acts[a]: status, whether its rollback state was returned
  eng,      \* the Engine's operation: action, stage
  exp,      \* the timer's operation: action, stage
  owner,    \* (history) the unconfirmed action whose managed lines the file has
  loaded,   \* (history) the unconfirmed action whose managed lines sshd runs
  yielded,  \* (history) the action whose timer met an edit and gave up
  clock     \* whether the wall clock was set

sshVars == <<file, journal, disk, timer, acts, eng, exp, owner, loaded, yielded, clock>>

(* What a snapshot keeps.                                                  *)
Texts == [lines : Lines, mode : Modes]

Off       == -1
NoJournal == [act |-> Nobody, snap |-> CHOOSE t \in Texts : TRUE, left |-> 0]
Quiet     == [act |-> Nobody, at |-> "idle"]
Hardened(t)  == [text |-> t, hard |-> TRUE]
Plain(t)     == [text |-> t, hard |-> FALSE]

(* lifecycleMu is free.                                                    *)
Unlocked == exp = Quiet /\ eng.at \in {"idle", "verify", "undo"}

(* A deadline in the past is due now, one far ahead is not believed.       *)
Due(left) == IF left < 0 THEN 0 ELSE IF left > MaxDelay THEN MaxDelay ELSE left
Schedule(a) == timer' = [timer EXCEPT ![a] = Due(journal'.left)]
(* A timer that has fired and waits for the lock is not stopped.           *)
Cancels(a) ==
  timer' \in {[timer EXCEPT ![a] = Off]} \cup (IF timer[a] = 0 THEN {timer} ELSE {})

(* The Engine's operation ends, and the device answers.                    *)
Answer(a, status, state) ==
  /\ eng'  = Quiet
  /\ acts' = [acts EXCEPT ![a] = [status |-> status, state |-> state]]
EngineGoes(at) == eng' = [eng EXCEPT !.at = at] /\ UNCHANGED acts

(* A failure whose state is returned: the Engine rolls back at once.       *)
Recoverable(a) ==
  /\ eng'  = [act |-> a, at |-> "undo"]
  /\ acts' = [acts EXCEPT ![a].state = TRUE]

Loads(by) == loaded' = by
Writes(f, by) == file' = f /\ owner' = by
FileKept == UNCHANGED <<file, owner>>
DaemonKept == UNCHANGED loaded
JournalKept == UNCHANGED <<journal, disk>>

(* Remove and sync of the directory: "done", "unsynced" or "failed".       *)
Removes(how) ==
  /\ journal' = IF how = "failed" THEN journal ELSE NoJournal
  /\ disk'    = IF how = "done" THEN NoJournal ELSE disk
Removal == {"done", "unsynced", "failed"}

-----------------------------------------------------------------------------
(* Apply.                                                                  *)

(* Refused while another action's journal is there, or if a check fails;   *)
(* nothing to do if the file is hardened.                                  *)

ApplyStart(a, valid) ==
  /\ Unlocked /\ eng = Quiet /\ acts[a].status = "new"
  /\ IF journal.act # Nobody \/ ~valid THEN Answer(a, "failed", FALSE)
     ELSE IF file.hard THEN Answer(a, "unchanged", FALSE)
     ELSE eng' = [act |-> a, at |-> "journal"] /\ UNCHANGED acts
  /\ FileKept /\ DaemonKept /\ JournalKept
  /\ UNCHANGED <<timer, exp, yielded, clock>>

(* The snapshot goes to the journal before the file is touched.  A write   *)
(* that failed may be there, and readable, or not.                         *)
ApplyJournal(how) ==
  LET a == eng.act
      entry == [act |-> a, snap |-> file.text, left |-> Window]
  IN /\ eng.at = "journal" /\ exp = Quiet
     /\ journal' = IF how = "failed" THEN journal ELSE entry
     /\ disk'    = IF how = "done" THEN entry ELSE disk
     /\ CASE how = "done"       -> EngineGoes("write") /\ UNCHANGED timer
          [] how = "unsynced"   -> Recoverable(a) /\ Schedule(a)
          [] how = "unreadable" -> Recoverable(a) /\ UNCHANGED timer
          [] how = "failed"     -> Answer(a, "failed", FALSE) /\ UNCHANGED timer
     /\ FileKept /\ DaemonKept /\ UNCHANGED <<exp, yielded, clock>>

(* The file written, validated; a failure is repaired on the spot.         *)
ApplyWrite(ok, repaired) ==
  LET a == eng.act
  IN /\ eng.at = "write" /\ JournalKept
     /\ IF ok THEN /\ Writes(Hardened(journal.snap), a)
                   /\ EngineGoes("reload") /\ UNCHANGED timer
        ELSE IF repaired THEN /\ Writes(Plain(journal.snap), Nobody)
                              /\ EngineGoes("cleanup") /\ UNCHANGED timer
        ELSE /\ FileKept \/ Writes(Hardened(journal.snap), a)
             /\ Recoverable(a) /\ Schedule(a)
     /\ DaemonKept /\ UNCHANGED <<exp, yielded, clock>>

(* sshd reloaded; a failed reload may have loaded the file.                *)
\* Fault: a failed reload of the snapshot is not left to the timer.
ApplyReloadForgets(ok, repaired) ==
  LET a == eng.act
  IN /\ eng.at = "reload" /\ JournalKept
     /\ IF ok THEN /\ Loads(owner) /\ FileKept
                   /\ EngineGoes("verify") /\ Schedule(a)
        ELSE /\ Writes(Plain(journal.snap), Nobody) /\ UNCHANGED timer
             /\ IF repaired THEN Loads(Nobody)
                ELSE DaemonKept \/ Loads(owner)
             /\ EngineGoes("cleanup")
     /\ UNCHANGED <<exp, yielded, clock>>
ApplyReload(ok, repaired) ==
  LET a == eng.act
  IN /\ eng.at = "reload" /\ JournalKept
     /\ IF ok THEN /\ Loads(owner) /\ FileKept
                   /\ EngineGoes("verify") /\ Schedule(a)
        ELSE IF repaired THEN /\ Writes(Plain(journal.snap), Nobody)
                              /\ Loads(Nobody)
                              /\ EngineGoes("cleanup") /\ UNCHANGED timer
        ELSE /\ FileKept \/ Writes(Plain(journal.snap), Nobody)
             /\ DaemonKept \/ Loads(owner)
             /\ Recoverable(a) /\ Schedule(a)
     /\ UNCHANGED <<exp, yielded, clock>>

ApplyCleanup(how) ==
  LET a == eng.act
  IN /\ eng.at = "cleanup"
     /\ Removes(how)
     /\ IF how = "done" THEN Answer(a, "failed", FALSE) /\ UNCHANGED timer
        ELSE Recoverable(a) /\ timer' = [timer EXCEPT ![a] = Due(journal.left)]
     /\ FileKept /\ DaemonKept /\ UNCHANGED <<exp, yielded, clock>>

(* The content is as it was applied; mode and owner are not looked at.     *)
AsApplied == file.hard /\ file.text.lines = journal.snap.lines

(* Without the lock: the timer may have run since.                         *)
Verify(ok) ==
  /\ eng.at = "verify"
  /\ IF ok /\ IF journal.act = eng.act THEN AsApplied ELSE file.hard
       THEN Answer(eng.act, "pending", TRUE)
       ELSE Recoverable(eng.act)
  /\ FileKept /\ DaemonKept /\ JournalKept
  /\ UNCHANGED <<timer, exp, yielded, clock>>

-----------------------------------------------------------------------------
(* Rollback, Confirm and the timer.                                        *)

(* restoreSnapshotIfApplied up to its reload: fails, finds another content *)
(* or another mode or owner, or leaves the snapshot in place.              *)
Foreign(a) == file \notin {Plain(journal.snap), Hardened(journal.snap)}

RestoreWrites(ok) ==
  IF ok /\ ~Foreign(journal.act) THEN Writes(Plain(journal.snap), Nobody) ELSE FileKept
RestoreReloads(ok) ==
  IF ok THEN Loads(owner) ELSE DaemonKept \/ Loads(owner)

AskRollback(a) ==
  /\ eng = Quiet /\ acts[a].state
  /\ acts[a].status \in {"pending", "confirmed", "failed"}
  /\ eng' = [act |-> a, at |-> "undo"]
  /\ FileKept /\ DaemonKept /\ JournalKept
  /\ UNCHANGED <<timer, acts, exp, yielded, clock>>

(* The journal must be there and be the action's own.                      *)
RollbackWrite(ok) ==
  LET a == eng.act
  IN /\ Unlocked /\ eng.at = "undo"
     /\ IF journal.act # a THEN Answer(a, "failed", TRUE) /\ FileKept
        ELSE /\ RestoreWrites(ok)
             /\ IF ok /\ ~Foreign(a) THEN EngineGoes("undo_reload")
                ELSE Answer(a, "failed", TRUE)
     /\ DaemonKept /\ JournalKept
     /\ UNCHANGED <<timer, exp, yielded, clock>>

RollbackReload(ok) ==
  /\ eng.at = "undo_reload"
  /\ RestoreReloads(ok)
  /\ IF ok THEN EngineGoes("undo_clean") ELSE Answer(eng.act, "failed", TRUE)
  /\ FileKept /\ JournalKept /\ UNCHANGED <<timer, exp, yielded, clock>>

RollbackClean(how) ==
  LET a == eng.act
  IN /\ eng.at = "undo_clean"
     /\ Cancels(a)
     /\ Removes(how)
     /\ Answer(a, IF how = "done" THEN "rolled_back" ELSE "failed", how # "done")
     /\ FileKept /\ DaemonKept /\ UNCHANGED <<exp, yielded, clock>>

(* The deadline is checked before and after the verification; the journal  *)
(* is removed before the timer.                                            *)
Confirmable(a) == journal.act = a /\ journal.left > 0

ConfirmStart(a, ok) ==
  /\ Unlocked /\ eng = Quiet /\ acts[a].status = "pending"
  /\ IF Confirmable(a) /\ ok /\ AsApplied
       THEN eng' = [act |-> a, at |-> "confirm"] /\ UNCHANGED acts
       ELSE Answer(a, "failed", TRUE)
  /\ FileKept /\ DaemonKept /\ JournalKept
  /\ UNCHANGED <<timer, exp, yielded, clock>>

\* Fault: the confirmation does not wait for the directory.
ConfirmUnsynced(how) ==
  LET a == eng.act
  IN /\ eng.at = "confirm"
     /\ Removes(how) /\ Answer(a, "confirmed", TRUE) /\ Cancels(a)
     /\ owner' = Nobody /\ loaded' = Nobody
     /\ UNCHANGED <<file, exp, yielded, clock>>
Confirm(how) ==
  LET a == eng.act
  IN /\ eng.at = "confirm"
     /\ IF ~Confirmable(a)
          THEN Answer(a, "failed", TRUE) /\ JournalKept /\ UNCHANGED <<timer, owner, loaded>>
          ELSE /\ Removes(how)
               /\ Answer(a, IF how = "done" THEN "confirmed" ELSE "failed", TRUE)
               /\ IF how = "done" THEN Cancels(a) ELSE UNCHANGED timer
               /\ owner'  = IF how = "failed" THEN owner ELSE Nobody
               /\ loaded' = IF how = "failed" THEN loaded ELSE Nobody
     /\ UNCHANGED <<file, exp, yielded, clock>>

(* expire.  It does not try again against a file that an administrator has *)
(* changed; the journal stays.                                             *)
ExpireEnds(a, when) == exp' = Quiet /\ timer' = [timer EXCEPT ![a] = when]

Expire(a, ok) ==
  /\ Unlocked /\ timer[a] = 0
  /\ IF journal.act # a THEN ExpireEnds(a, Off) /\ FileKept
     ELSE /\ RestoreWrites(ok)
          /\ IF ok /\ Foreign(a) THEN ExpireEnds(a, Off)
             ELSE IF ok THEN exp' = [act |-> a, at |-> "reload"] /\ timer' = [timer EXCEPT ![a] = Off]
             ELSE ExpireEnds(a, Retry)
  /\ yielded' = IF journal.act = a /\ ok /\ Foreign(a) THEN a ELSE yielded
  /\ DaemonKept /\ JournalKept
  /\ UNCHANGED <<acts, eng, clock>>

ExpireReload(ok) ==
  /\ exp.at = "reload"
  /\ RestoreReloads(ok)
  /\ IF ok THEN exp' = [exp EXCEPT !.at = "clean"] /\ UNCHANGED timer
     ELSE ExpireEnds(exp.act, Retry)
  /\ FileKept /\ JournalKept /\ UNCHANGED <<acts, eng, yielded, clock>>

(* A journal that cannot be removed is left behind.                        *)
ExpireClean(how) ==
  /\ exp.at = "clean"
  /\ Removes(how)
  /\ ExpireEnds(exp.act, Off)
  /\ FileKept /\ DaemonKept /\ UNCHANGED <<acts, eng, yielded, clock>>

-----------------------------------------------------------------------------
(* The host.                                                               *)

(* The administrator changes the file's content, mode or owner; with the   *)
(* managed lines he removes what the action did.                           *)
Edit(f) ==
  /\ f # file
  /\ Writes(f, IF f.hard THEN owner ELSE Nobody)
  /\ DaemonKept /\ JournalKept /\ UNCHANGED <<timer, acts, eng, exp, yielded, clock>>

(* He reloads sshd, then or later or never.                                *)
AdminReloads ==
  /\ loaded # owner /\ Loads(owner)
  /\ FileKept /\ JournalKept /\ UNCHANGED <<timer, acts, eng, exp, yielded, clock>>

(* resumeJournals.                                                         *)
\* Fault: journals are not read at start.
ResumesNever == timer' = [a \in SSHActions |-> Off]
Resumes ==
  timer' = [a \in SSHActions |-> IF a = journal'.act THEN Due(journal'.left) ELSE Off]

(* What ran is gone; an attempt that was interrupted returned no state.    *)
Restarts ==
  /\ eng' = Quiet /\ exp' = Quiet
  /\ acts' = [a \in SSHActions |->
                IF a # eng.act THEN acts[a]
                ELSE [status |-> "failed", state |-> acts[a].state /\ acts[a].status # "new"]]
  /\ Resumes /\ yielded' = Nobody
  /\ UNCHANGED <<file, owner, clock>>

HelperRestarts == JournalKept /\ DaemonKept /\ Restarts

(* Changes of the directory that were not synced may be lost.              *)
HostRestarts(kept) ==
  /\ kept \in {journal, disk}
  /\ journal' = kept /\ disk' = kept
  /\ Restarts
  /\ Loads(owner)

Lower(n) == IF n > -Jump THEN n - 1 ELSE n
Ages(j) == IF j.act = Nobody THEN j ELSE [j EXCEPT !.left = Lower(@)]
Tick ==
  /\ journal' = Ages(journal) /\ disk' = Ages(disk)
  /\ timer' = [a \in SSHActions |-> IF timer[a] > 0 THEN timer[a] - 1 ELSE timer[a]]
  /\ FileKept /\ DaemonKept /\ UNCHANGED <<acts, eng, exp, yielded, clock>>

Shifted(j, by) == IF j.act = Nobody THEN j ELSE [j EXCEPT !.left = @ + by]
ClockSet(by) ==
  /\ ~clock /\ clock' = TRUE
  /\ journal' = Shifted(journal, by) /\ disk' = Shifted(disk, by)
  /\ FileKept /\ DaemonKept /\ UNCHANGED <<timer, acts, eng, exp, yielded>>

-----------------------------------------------------------------------------

Init ==
  LET t == CHOOSE t \in Texts : TRUE
  IN /\ file = Plain(t)
     /\ journal = NoJournal /\ disk = NoJournal
     /\ timer = [a \in SSHActions |-> Off]
     /\ acts = [a \in SSHActions |-> [status |-> "new", state |-> FALSE]]
     /\ eng = Quiet /\ exp = Quiet
     /\ owner = Nobody /\ loaded = Nobody /\ yielded = Nobody
     /\ clock = FALSE

Engine ==
  \/ \E a \in SSHActions :
       \/ AskRollback(a)
       \/ \E ok \in BOOLEAN : ApplyStart(a, ok) \/ ConfirmStart(a, ok)
  \/ \E how \in Removal \cup {"unreadable"} : ApplyJournal(how)
  \/ \E ok, repaired \in BOOLEAN : ApplyWrite(ok, repaired) \/ ApplyReload(ok, repaired)
  \/ \E ok \in BOOLEAN : Verify(ok) \/ RollbackWrite(ok) \/ RollbackReload(ok)
  \/ \E how \in Removal : ApplyCleanup(how) \/ RollbackClean(how) \/ Confirm(how)

Timer ==
  \/ \E ok \in BOOLEAN : ExpireReload(ok) \/ (\E a \in SSHActions : Expire(a, ok))
  \/ \E how \in Removal : ExpireClean(how)

Host ==
  \/ \E t \in Texts : Edit(Plain(t)) \/ Edit(Hardened(t))
  \/ AdminReloads
  \/ HelperRestarts
  \/ \E kept \in {journal, disk} : HostRestarts(kept)
  \/ Tick
  \/ \E by \in {-Jump, Jump} : ClockSet(by)

Next == Engine \/ Timer \/ Host

Spec == Init /\ [][Next]_sshVars

(* Time passes; the Engine's calls return (they have timeouts); a timer    *)
(* that is due runs, and its checks and reloads do not fail for ever.      *)
EngineReturns == Engine /\ eng # Quiet
Fairness ==
  /\ WF_sshVars(Tick) /\ WF_sshVars(EngineReturns)
  /\ WF_sshVars(Timer)
  /\ SF_sshVars(ExpireReload(TRUE))
  /\ \A a \in SSHActions : SF_sshVars(Expire(a, TRUE))

FairSpec == Spec /\ Fairness

-----------------------------------------------------------------------------
(* Properties.                                                             *)

(* As long as what the playbook wrote is in the file or in sshd and is not *)
(* confirmed, the snapshot is on disk, and somebody is about to put it     *)
(* back: a timer, the running operation, or (after a stop) the next start, *)
(* which arms the timer again.  Only a timer that has met an edit of the   *)
(* administrator's gives up, until the next start.                         *)
UndoArmed ==
  \A a \in SSHActions :
    (owner = a \/ loaded = a) =>
      /\ journal.act = a /\ disk.act = a
      /\ \/ timer[a] # Off \/ exp.act = a \/ yielded = a
         \/ /\ eng.act = a
            /\ eng.at \in {"write", "reload", "cleanup", "undo_reload", "undo_clean"}

Edits == \E t \in Texts : Edit(Plain(t)) \/ Edit(Hardened(t))

(* A hardening is undone by the administrator's own edit or by the journal *)
(* of an action that was not confirmed: neither a timer that was already   *)
(* due nor a journal that comes back with the host undoes a confirmed one. *)
ConfirmedStays ==
  [][file.hard /\ ~file'.hard =>
       \/ Edits
       \/ journal.act # Nobody /\ acts[journal.act].status # "confirmed"]_sshVars

(* What the administrator wrote, or the mode or owner he chose, is never   *)
(* overwritten by the timer or a rollback: they replace nothing but the    *)
(* very file the playbook wrote over the snapshot they hold.  An Apply     *)
(* that is still running does not look.                                    *)
EditsSurvive ==
  [][file' # file =>
       Edits \/ eng.at \in {"write", "reload"} \/ file = Hardened(journal.snap)]_sshVars

(* The undo touches neither a confirmed hardening nor a foreign edit.      *)
UndoIsExact == ConfirmedStays /\ EditsSurvive

(* Whoever is locked out gets back in: an unconfirmed hardening that sshd  *)
(* runs is undone in the end, unless its timer meets an edit of the file   *)
(* and leaves the rest to whoever made it.                                 *)
LockoutEnds == \A a \in SSHActions : loaded = a ~> loaded # a \/ yielded = a
=============================================================================
