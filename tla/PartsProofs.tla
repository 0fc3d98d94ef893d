------------------------------ MODULE PartsProofs ------------------------------
(***************************************************************************)
(* Process suspension: a process is stopped only while its resumption is   *)
(* on disk.  SSH hardening: what puts sshd_config back is armed while the  *)
(* change is unconfirmed, and puts back nothing else, whatever the delays  *)
(* and however the wall clock is set.  The sensors, the outbox, the        *)
(* projection of findings, the enrolment and the windows of failed logins  *)
(* keep their promises for any number of items, events, reports, devices,  *)
(* processes and sources.                                                  *)
(***************************************************************************)
EXTENDS Parts, Integers, Sequences, FiniteSets, FiniteSetTheorems, TLAPS

-----------------------------------------------------------------------------
(* Process suspension: what is true of every state.                        *)

SomeProc == Procs \cup {NoProc}
Entries  == [proc : SomeProc, unlinked : BOOLEAN, left : Nat]
Process  == [proc : SomeProc, stopped : BOOLEAN, unlinked : BOOLEAN]

Suspended == {"new", "failed", "applied", "stuck", "rolled_back"}
SuspensionRow == [status : Suspended, proc : SomeProc, unlinked : BOOLEAN]

SuspendStages == {"journal", "stop", "verify", "undo", "cont", "clean"}
Suspending    == [act : SuspendActions, at : SuspendStages]
Resuming      == [act : SuspendActions, at : {"cont", "clean"}]

SuspendType ==
  /\ pid \in Process /\ started \subseteq Procs
  /\ resume \in [SuspendActions -> Entries] /\ resumeDisk \in [SuspendActions -> Entries]
  /\ resumeTimer \in [SuspendActions -> Nat \cup {P!Off}]
  /\ suspensions \in [SuspendActions -> SuspensionRow]
  /\ suspending \in Suspending \cup {P!Rest} /\ resuming \in Resuming \cup {P!Rest}
  /\ held \in [SuspendActions -> BOOLEAN]

(* A record knows only processes that started, and an executable once      *)
(* unlinked stays so.                                                      *)
RecordsAreOld ==
  /\ pid.proc \in started \cup {NoProc}
  /\ \A a \in SuspendActions :
       /\ suspensions[a].proc \in started \cup {NoProc}
       /\ suspensions[a].proc = pid.proc /\ pid.proc # NoProc /\ suspensions[a].unlinked =>
            pid.unlinked

(* The process an action holds is the one it recorded, and it is stopped.  *)
HeldIsStopped ==
  \A a \in SuspendActions :
    held[a] => pid.proc = suspensions[a].proc /\ pid.proc # NoProc /\ pid.stopped

(* The one the timers would take for it.                                   *)
Watched(a) == held[a] /\ P!Same(suspensions[a])

(* An entry of a journal is what an action recorded.                       *)
Records(a, entry) ==
  entry.proc = suspensions[a].proc /\ entry.unlinked = suspensions[a].unlinked

(* Who is watched is in both journals as it was recorded, with a timer.    *)
WatchedIsArmed ==
  \A a \in SuspendActions :
    Watched(a) =>
      /\ Records(a, resume[a]) /\ Records(a, resumeDisk[a])
      /\ resumeTimer[a] # P!Off \/ resuming.act = a

(* The signal follows the journal; what cleans has nobody left to resume.  *)
StagesAreReached ==
  /\ suspending.at \in {"journal", "stop", "cont", "clean"} => resuming = P!Rest
  /\ suspending.at \in {"journal", "stop"} => suspensions[suspending.act].proc # NoProc
  /\ suspending.at = "stop" =>
       /\ Records(suspending.act, resume[suspending.act])
       /\ Records(suspending.act, resumeDisk[suspending.act])
  /\ suspending.at = "clean" => ~Watched(suspending.act)
  /\ resuming.at = "clean" => ~Watched(resuming.act)

(* The inductive invariant.                                                *)
SuspendInv ==
  SuspendType /\ RecordsAreOld /\ HeldIsStopped /\ WatchedIsArmed /\ StagesAreReached

-----------------------------------------------------------------------------
(* What the helpers of the model do.                                       *)

(* What the actions recorded of their processes stays.                     *)
RecordsKept ==
  \A a \in SuspendActions : suspensions'[a].proc = suspensions[a].proc
                            /\ suspensions'[a].unlinked = suspensions[a].unlinked

(* The engine goes on to another stage.                                    *)
LEMMA EngineGoes ==
  ASSUME NEW at \in SuspendStages, suspending \in Suspending, P!Goes(at)
  PROVE  suspending' \in Suspending /\ suspending'.act = suspending.act /\ suspending'.at = at
BY DEF P!Goes, Suspending

(* An action ends with a status and keeps its record.                      *)
LEMMA EngineEnds ==
  ASSUME suspensions \in [SuspendActions -> SuspensionRow],
         NEW a \in SuspendActions, NEW status \in Suspended, P!Ends(a, status)
  PROVE  /\ suspending' = P!Rest
         /\ suspensions' \in [SuspendActions -> SuspensionRow] /\ RecordsKept
<1>1. ASSUME NEW r \in SuspensionRow
      PROVE  /\ [r EXCEPT !.status = status] \in SuspensionRow
             /\ [r EXCEPT !.status = status].proc = r.proc
             /\ [r EXCEPT !.status = status].unlinked = r.unlinked
  BY <1>1 DEF SuspensionRow
<1>2. suspensions' = [suspensions EXCEPT ![a].status = status]
  BY DEF P!Ends
<1>3. \A b \in SuspendActions :
        suspensions'[b] \in {suspensions[b], [suspensions[b] EXCEPT !.status = status]}
  BY <1>2
<1>4. suspensions' \in [SuspendActions -> SuspensionRow]
  BY <1>1, <1>2
<1>5. RecordsKept
  BY <1>1, <1>3 DEF RecordsKept
<1> QED
  BY <1>4, <1>5 DEF P!Ends

(* The resumption's journal is removed, or not, and no other.              *)
LEMMA JournalRemoved ==
  ASSUME SuspendType, NEW a \in SuspendActions, NEW how \in P!Removal, P!Removes(a, how)
  PROVE  /\ resume' \in [SuspendActions -> Entries] /\ resumeDisk' \in [SuspendActions -> Entries]
         /\ \A b \in SuspendActions \ {a} : resume'[b] = resume[b] /\ resumeDisk'[b] = resumeDisk[b]
<1>1. P!None \in Entries
  BY DEF P!None, Entries, SomeProc
<1> QED
  BY <1>1 DEF SuspendType, P!Removes

(* SIGCONT releases whoever held the process.                              *)
LEMMA ProcessContinued ==
  ASSUME SuspendType, HeldIsStopped, P!Continues
  PROVE  /\ pid' \in Process /\ ~pid'.stopped
         /\ pid'.proc = pid.proc /\ pid'.unlinked = pid.unlinked
         /\ held' \in [SuspendActions -> BOOLEAN]
         /\ \A a \in SuspendActions : ~held'[a]
<1>1. pid \in Process
  BY DEF SuspendType
<1>2. /\ pid' \in Process /\ ~pid'.stopped
      /\ pid'.proc = pid.proc /\ pid'.unlinked = pid.unlinked
  BY <1>1 DEF P!Continues, Process
<1>3. held' \in [SuspendActions -> BOOLEAN] /\ \A a \in SuspendActions : ~held'[a]
  BY DEF SuspendType, HeldIsStopped, P!Continues
<1> QED
  BY <1>2, <1>3

(* Time passes for a journal.                                              *)
LEMMA JournalAges ==
  ASSUME NEW j \in [SuspendActions -> Entries]
  PROVE  /\ P!Ages(j) \in [SuspendActions -> Entries]
         /\ \A a \in SuspendActions : P!Ages(j)[a].proc = j[a].proc
                                      /\ P!Ages(j)[a].unlinked = j[a].unlinked
<1>1. ASSUME NEW r \in Entries, r.left # 0
      PROVE  /\ [r EXCEPT !.left = r.left - 1] \in Entries
             /\ [r EXCEPT !.left = r.left - 1].proc = r.proc
             /\ [r EXCEPT !.left = r.left - 1].unlinked = r.unlinked
  BY <1>1 DEF Entries
<1>2. ASSUME NEW a \in SuspendActions
      PROVE  /\ P!Ages(j)[a] \in Entries
             /\ P!Ages(j)[a].proc = j[a].proc /\ P!Ages(j)[a].unlinked = j[a].unlinked
  BY <1>1 DEF P!Ages
<1> QED
  BY <1>2 DEF P!Ages

-----------------------------------------------------------------------------
(* The steps of Apply.                                                     *)

(* A process that runs is inspected: nobody holds it.                      *)
LEMMA InspectKeeps ==
  ASSUME SuspendInv, NEW a \in SuspendActions, NEW named \in BOOLEAN, P!ApplyInspect(a, named)
  PROVE  SuspendInv'
<1>1. /\ SuspendType /\ suspending = P!Rest /\ resuming = P!Rest
      /\ UNCHANGED <<pid, started, resume, resumeDisk, resumeTimer, resuming, held>>
  BY DEF SuspendInv, P!ApplyInspect, P!Unlocked
<1>2. CASE P!Ends(a, "failed")
  <2>1. /\ suspending' = P!Rest /\ RecordsKept
        /\ suspensions' \in [SuspendActions -> SuspensionRow]
    BY <1>1, <1>2, EngineEnds DEF SuspendType, Suspended
  <2> QED
    BY <1>1, <2>1 DEF SuspendInv, SuspendType, RecordsAreOld, HeldIsStopped, WatchedIsArmed,
       StagesAreReached, Watched, Records, RecordsKept, P!Same, P!Rest
<1>3. CASE ~P!Ends(a, "failed")
  <2>1. /\ pid.proc # NoProc /\ ~pid.stopped
        /\ suspending' = [act |-> a, at |-> "journal"]
        /\ suspensions' = [suspensions EXCEPT ![a].proc = pid.proc, ![a].unlinked = pid.unlinked]
    BY <1>3 DEF P!ApplyInspect, P!Exited
  <2>2. \A b \in SuspendActions : ~held[b]
    BY <2>1 DEF SuspendInv, HeldIsStopped
  <2>3. ASSUME NEW r \in SuspensionRow
        PROVE  LET s == [r EXCEPT !.proc = pid.proc, !.unlinked = pid.unlinked]
               IN s \in SuspensionRow /\ s.proc = pid.proc /\ s.unlinked = pid.unlinked
    BY <1>1, <2>3 DEF SuspensionRow, SuspendType, Process
  <2>4. /\ suspensions' \in [SuspendActions -> SuspensionRow]
        /\ suspensions'[a].proc = pid.proc /\ suspensions'[a].unlinked = pid.unlinked
        /\ \A b \in SuspendActions \ {a} : suspensions'[b] = suspensions[b]
    <3>1. /\ DOMAIN suspensions' = SuspendActions
          /\ suspensions'[a] = [suspensions[a] EXCEPT !.proc = pid.proc, !.unlinked = pid.unlinked]
          /\ \A b \in SuspendActions \ {a} : suspensions'[b] = suspensions[b]
      BY <1>1, <2>1 DEF SuspendType
    <3>2. suspensions[a] \in SuspensionRow
      BY <1>1 DEF SuspendType
    <3>3. /\ suspensions'[a] \in SuspensionRow
          /\ suspensions'[a].proc = pid.proc /\ suspensions'[a].unlinked = pid.unlinked
      BY <2>3, <3>1, <3>2
    <3>4. suspensions' = [b \in SuspendActions |-> suspensions'[b]]
      BY <1>1, <2>1 DEF SuspendType
    <3>5. \A b \in SuspendActions : suspensions'[b] \in SuspensionRow
      BY <1>1, <3>1, <3>3 DEF SuspendType
    <3> QED
      BY <3>1, <3>3, <3>4, <3>5
  <2>5. SuspendType'
    BY <1>1, <2>1, <2>4 DEF SuspendType, Suspending, SuspendStages
  <2>6. RecordsAreOld'
    BY <1>1, <2>4 DEF SuspendInv, RecordsAreOld
  <2>7. HeldIsStopped' /\ WatchedIsArmed'
    BY <1>1, <2>2 DEF HeldIsStopped, WatchedIsArmed, Watched
  <2>8. StagesAreReached'
    BY <1>1, <2>1, <2>4 DEF StagesAreReached, P!Rest
  <2> QED
    BY <2>5, <2>6, <2>7, <2>8 DEF SuspendInv
<1> QED
  BY <1>2, <1>3

(* The journal says what the action recorded.                              *)
LEMMA JournalKeeps ==
  ASSUME SuspendInv, NEW how \in P!Removal, P!ApplyJournal(how)
  PROVE  SuspendInv'
<1> DEFINE a == suspending.act
           entry == [proc |-> suspensions[a].proc, unlinked |-> suspensions[a].unlinked, left |-> TTL]
<1>1. /\ SuspendType /\ suspending \in Suspending /\ a \in SuspendActions
      /\ suspending.at = "journal" /\ resuming = P!Rest /\ suspensions[a].proc # NoProc
      /\ UNCHANGED <<pid, started, resumeTimer, resuming, held>>
  BY DEF SuspendInv, SuspendType, StagesAreReached, Suspending, P!ApplyJournal, P!Rest
<1>2. /\ entry \in Entries /\ entry.proc = suspensions[a].proc
      /\ entry.unlinked = suspensions[a].unlinked
  BY <1>1, SuspendAssumption DEF SuspendType, SuspensionRow, Entries
<1>3. /\ resume' = IF how = "failed" THEN resume ELSE [resume EXCEPT ![a] = entry]
      /\ resumeDisk' = IF how = "done" THEN [resumeDisk EXCEPT ![a] = entry] ELSE resumeDisk
  BY DEF P!ApplyJournal
<1> HIDE DEF entry
<1>4. /\ resume' \in [SuspendActions -> Entries] /\ resumeDisk' \in [SuspendActions -> Entries]
      /\ \A b \in SuspendActions : /\ Records(b, resume[b]) => Records(b, resume'[b])
                                   /\ Records(b, resumeDisk[b]) => Records(b, resumeDisk'[b])
      /\ how = "done" => Records(a, resume'[a]) /\ Records(a, resumeDisk'[a])
  BY <1>1, <1>2, <1>3 DEF SuspendType, Records
<1>5. CASE how = "done"
  <2>1. /\ suspending' \in Suspending /\ suspending'.act = a /\ suspending'.at = "stop"
        /\ suspensions' = suspensions
    BY <1>1, <1>5, EngineGoes DEF P!ApplyJournal, SuspendStages
  <2>2. SuspendType'
    BY <1>1, <1>4, <2>1 DEF SuspendType
  <2>3. RecordsAreOld' /\ HeldIsStopped'
    BY <1>1, <2>1 DEF SuspendInv, RecordsAreOld, HeldIsStopped
  <2>4. WatchedIsArmed'
    BY <1>1, <1>4, <2>1 DEF SuspendInv, WatchedIsArmed, Watched, Records, P!Same
  <2>5. StagesAreReached'
    BY <1>1, <1>4, <1>5, <2>1 DEF StagesAreReached, Records, P!Rest
  <2> QED
    BY <2>2, <2>3, <2>4, <2>5 DEF SuspendInv
<1>6. CASE how # "done"
  <2>1. /\ suspending' = P!Rest /\ RecordsKept
        /\ suspensions' \in [SuspendActions -> SuspensionRow]
    BY <1>1, <1>6, EngineEnds DEF P!ApplyJournal, SuspendType, Suspended
  <2>2. SuspendType'
    BY <1>1, <1>4, <2>1 DEF SuspendType
  <2>3. RecordsAreOld' /\ HeldIsStopped'
    BY <1>1, <2>1 DEF SuspendInv, RecordsAreOld, HeldIsStopped, RecordsKept
  <2>4. WatchedIsArmed'
    BY <1>1, <1>4, <2>1 DEF SuspendInv, WatchedIsArmed, Watched, Records, P!Same, RecordsKept
  <2>5. StagesAreReached'
    BY <1>1, <2>1 DEF StagesAreReached, P!Rest
  <2> QED
    BY <2>2, <2>3, <2>4, <2>5 DEF SuspendInv
<1> QED
  BY <1>5, <1>6

(* The timer is armed before the signal.                                   *)
LEMMA StopKeeps ==
  ASSUME SuspendInv, NEW sent \in BOOLEAN, NEW ok \in BOOLEAN, P!ApplyStop(sent, ok)
  PROVE  SuspendInv'
<1> DEFINE a == suspending.act
<1>1. /\ SuspendType /\ suspending \in Suspending /\ a \in SuspendActions
      /\ suspending.at = "stop" /\ resuming = P!Rest /\ suspensions[a].proc # NoProc
      /\ Records(a, resume[a]) /\ Records(a, resumeDisk[a])
      /\ UNCHANGED <<started, resume, resumeDisk, suspensions, resuming>>
  BY DEF SuspendInv, SuspendType, StagesAreReached, Suspending, P!ApplyStop, P!Rest
<1>2. /\ resumeTimer' \in [SuspendActions -> Nat \cup {P!Off}]
      /\ resumeTimer'[a] # P!Off
      /\ \A b \in SuspendActions \ {a} : resumeTimer'[b] = resumeTimer[b]
  <2>1. resume[a].left \in Nat
    BY <1>1 DEF SuspendType, Entries
  <2> QED
    BY <1>1, <2>1 DEF SuspendType, P!ApplyStop, P!Off
<1>3. /\ pid' \in Process /\ pid'.proc = pid.proc /\ pid'.unlinked = pid.unlinked
      /\ pid.stopped \/ (sent /\ pid.proc # NoProc) => pid'.stopped
  <2>1. pid \in Process
    BY <1>1 DEF SuspendType
  <2> QED
    BY <2>1 DEF P!ApplyStop, P!Exited, Process
<1>4. /\ held' \in [SuspendActions -> BOOLEAN]
      /\ held'[a] = (sent /\ pid.proc = suspensions[a].proc)
      /\ \A b \in SuspendActions \ {a} : held'[b] = held[b]
  BY <1>1 DEF SuspendType, P!ApplyStop
<1>5. suspending' \in Suspending /\ suspending'.act = a /\ suspending'.at \in {"verify", "undo"}
  BY <1>1, EngineGoes DEF P!ApplyStop, SuspendStages
<1> HIDE DEF a
<1>6. SuspendType'
  BY <1>1, <1>2, <1>3, <1>4, <1>5 DEF SuspendType
<1>7. RecordsAreOld'
  BY <1>1, <1>3 DEF SuspendInv, RecordsAreOld
<1>8. HeldIsStopped'
  BY <1>1, <1>3, <1>4 DEF SuspendInv, HeldIsStopped
<1>9. WatchedIsArmed'
  BY <1>1, <1>2, <1>3, <1>4 DEF SuspendInv, WatchedIsArmed, Watched, Records, P!Same
<1>10. StagesAreReached'
  BY <1>1, <1>5 DEF StagesAreReached, P!Rest
<1> QED
  BY <1>6, <1>7, <1>8, <1>9, <1>10 DEF SuspendInv

(* What is applied stays as it is, what is not will be undone.             *)
LEMMA VerifyKeeps ==
  ASSUME SuspendInv, P!Verify
  PROVE  SuspendInv'
<1>1. /\ SuspendType /\ suspending \in Suspending /\ suspending.act \in SuspendActions
      /\ suspending.at = "verify"
      /\ UNCHANGED <<pid, started, resume, resumeDisk, resumeTimer, resuming, held>>
  BY DEF SuspendInv, SuspendType, Suspending, P!Verify, P!Rest
<1>2. /\ suspensions' \in [SuspendActions -> SuspensionRow] /\ RecordsKept
      /\ suspending' \in Suspending \cup {P!Rest} /\ suspending'.at \in {"idle", "undo"}
  <2>1. CASE P!Ends(suspending.act, "applied")
    BY <1>1, <2>1, EngineEnds DEF SuspendType, Suspended, P!Rest
  <2>2. CASE P!Goes("undo") /\ UNCHANGED suspensions
    BY <1>1, <2>2, EngineGoes DEF SuspendType, SuspendStages, RecordsKept
  <2> QED
    BY <2>1, <2>2 DEF P!Verify
<1>3. SuspendType'
  BY <1>1, <1>2 DEF SuspendType
<1>4. RecordsAreOld' /\ HeldIsStopped' /\ WatchedIsArmed'
  BY <1>1, <1>2 DEF SuspendInv, RecordsAreOld, HeldIsStopped, WatchedIsArmed, Watched, Records,
     RecordsKept, P!Same
<1>5. resuming.at = "clean" => resuming.act \in SuspendActions
  BY <1>1 DEF SuspendType, Resuming, P!Rest
<1>6. StagesAreReached'
  BY <1>1, <1>2, <1>5 DEF SuspendInv, StagesAreReached, Watched, RecordsKept, P!Same
<1> QED
  BY <1>3, <1>4, <1>6 DEF SuspendInv

-----------------------------------------------------------------------------
(* The steps of Rollback.                                                  *)

(* A rollback is asked for.                                                *)
LEMMA AskKeeps ==
  ASSUME SuspendInv, NEW a \in SuspendActions, P!AskRollback(a)
  PROVE  SuspendInv'
<1>1. /\ suspending' = [act |-> a, at |-> "undo"]
      /\ UNCHANGED <<pid, started, resume, resumeDisk, resumeTimer, suspensions, resuming, held>>
  BY DEF P!AskRollback
<1>2. suspending' \in Suspending
  BY <1>1 DEF Suspending, SuspendStages
<1> QED
  BY <1>1, <1>2 DEF SuspendInv, SuspendType, RecordsAreOld, HeldIsStopped, WatchedIsArmed,
     StagesAreReached, Watched, Records, P!Same

(* What an inspection does not find to be resumed is not watched.          *)
LEMMA NothingToResume ==
  ASSUME SuspendInv, NEW a \in SuspendActions, NEW entry, Records(a, entry),
         P!Finds(entry) # "resume"
  PROVE  ~Watched(a)
BY DEF SuspendInv, HeldIsStopped, Watched, Records, P!Finds, P!Same

(* The rollback looks at the process, from the record it was given.        *)
LEMMA RollbackInspectKeeps ==
  ASSUME SuspendInv, NEW ok \in BOOLEAN, P!RollbackInspect(ok)
  PROVE  SuspendInv'
<1> DEFINE a == suspending.act
<1>1. /\ SuspendType /\ suspending \in Suspending /\ a \in SuspendActions
      /\ resuming = P!Rest
      /\ UNCHANGED <<pid, started, resume, resumeDisk, resumeTimer, resuming, held>>
  BY DEF SuspendInv, SuspendType, Suspending, P!RollbackInspect, P!Unlocked, P!Rest
<1>2. /\ suspensions' \in [SuspendActions -> SuspensionRow] /\ RecordsKept
      /\ \/ suspending' = P!Rest
         \/ /\ suspending' \in Suspending /\ suspending'.act = a
            /\ suspending'.at \in {"cont", "clean"}
            /\ suspending'.at = "clean" => ~Watched(a)
  <2>1. CASE ok
    <3> DEFINE at == IF P!Finds(suspensions[a]) = "resume" THEN "cont" ELSE "clean"
    <3>1. P!Goes(at) /\ UNCHANGED suspensions
      BY <2>1 DEF P!RollbackInspect
    <3>2. suspending' \in Suspending /\ suspending'.act = a /\ suspending'.at = at
      BY <1>1, <3>1, EngineGoes DEF SuspendStages
    <3>3. at = "clean" => ~Watched(a)
      BY <1>1, NothingToResume DEF Records
    <3> QED
      BY <1>1, <3>1, <3>2, <3>3 DEF SuspendType, RecordsKept
  <2>2. CASE ~ok
    BY <1>1, <2>2, EngineEnds DEF P!RollbackInspect, SuspendType, Suspended
  <2> QED
    BY <2>1, <2>2
<1> HIDE DEF a
<1>3. SuspendType'
  BY <1>1, <1>2 DEF SuspendType
<1>4. RecordsAreOld' /\ HeldIsStopped' /\ WatchedIsArmed'
  BY <1>1, <1>2 DEF SuspendInv, RecordsAreOld, HeldIsStopped, WatchedIsArmed, Watched, Records,
     RecordsKept, P!Same
<1>5. StagesAreReached'
  BY <1>1, <1>2 DEF SuspendInv, StagesAreReached, Watched, RecordsKept, P!Same, P!Rest
<1> QED
  BY <1>3, <1>4, <1>5 DEF SuspendInv

(* It resumes the process, or gives up.                                    *)
LEMMA RollbackContinueKeeps ==
  ASSUME SuspendInv, NEW ok \in BOOLEAN, P!RollbackContinue(ok)
  PROVE  SuspendInv'
<1> DEFINE a == suspending.act
<1>1. /\ SuspendType /\ suspending \in Suspending /\ a \in SuspendActions
      /\ suspending.at = "cont" /\ resuming = P!Rest
      /\ UNCHANGED <<started, resume, resumeDisk, resumeTimer, resuming>>
  BY DEF SuspendInv, SuspendType, Suspending, StagesAreReached, P!RollbackContinue, P!Rest
<1>2. CASE ok
  <2>1. /\ pid' \in Process /\ pid'.proc = pid.proc /\ pid'.unlinked = pid.unlinked
        /\ held' \in [SuspendActions -> BOOLEAN] /\ \A b \in SuspendActions : ~held'[b]
    BY <1>2, ProcessContinued DEF P!RollbackContinue, SuspendInv
  <2>2. /\ suspending' \in Suspending /\ suspending'.act = a /\ suspending'.at = "clean"
        /\ suspensions' = suspensions
    BY <1>1, <1>2, EngineGoes DEF P!RollbackContinue, SuspendStages
  <2>3. SuspendType'
    BY <1>1, <2>1, <2>2 DEF SuspendType
  <2>4. RecordsAreOld' /\ HeldIsStopped' /\ WatchedIsArmed'
    BY <1>1, <2>1, <2>2 DEF SuspendInv, RecordsAreOld, HeldIsStopped, WatchedIsArmed, Watched
  <2>5. StagesAreReached'
    BY <1>1, <2>1, <2>2 DEF StagesAreReached, Watched, P!Rest
  <2> QED
    BY <2>3, <2>4, <2>5 DEF SuspendInv
<1>3. CASE ~ok
  <2>1. /\ suspending' = P!Rest /\ RecordsKept /\ UNCHANGED <<pid, held>>
        /\ suspensions' \in [SuspendActions -> SuspensionRow]
    BY <1>1, <1>3, EngineEnds DEF P!RollbackContinue, SuspendType, Suspended
  <2>2. SuspendType'
    BY <1>1, <2>1 DEF SuspendType
  <2>3. RecordsAreOld' /\ HeldIsStopped' /\ WatchedIsArmed'
    BY <1>1, <2>1 DEF SuspendInv, RecordsAreOld, HeldIsStopped, WatchedIsArmed, Watched, Records,
       RecordsKept, P!Same
  <2>4. StagesAreReached'
    BY <1>1, <2>1 DEF StagesAreReached, P!Rest
  <2> QED
    BY <2>2, <2>3, <2>4 DEF SuspendInv
<1> QED
  BY <1>2, <1>3

(* It removes the journal of an action that holds nobody.                  *)
LEMMA RollbackCleanKeeps ==
  ASSUME SuspendInv, NEW how \in P!Removal, P!RollbackClean(how)
  PROVE  SuspendInv'
<1> DEFINE a == suspending.act
<1>1. /\ SuspendType /\ suspending \in Suspending /\ a \in SuspendActions
      /\ suspending.at = "clean" /\ resuming = P!Rest /\ ~Watched(a)
      /\ UNCHANGED <<pid, started, resuming, held>>
  BY DEF SuspendInv, SuspendType, Suspending, StagesAreReached, P!RollbackClean, P!Rest
<1>2. /\ resume' \in [SuspendActions -> Entries] /\ resumeDisk' \in [SuspendActions -> Entries]
      /\ \A b \in SuspendActions \ {a} : resume'[b] = resume[b] /\ resumeDisk'[b] = resumeDisk[b]
  BY <1>1, JournalRemoved DEF P!RollbackClean
<1>3. /\ suspending' = P!Rest /\ RecordsKept
      /\ suspensions' \in [SuspendActions -> SuspensionRow]
  <2>1. PICK status \in Suspended : P!Ends(a, status)
    BY DEF P!RollbackClean, Suspended
  <2> QED
    BY <1>1, <2>1, EngineEnds DEF SuspendType
<1>4. /\ resumeTimer' \in [SuspendActions -> Nat \cup {P!Off}]
      /\ \A b \in SuspendActions \ {a} : resumeTimer'[b] = resumeTimer[b]
  BY <1>1 DEF SuspendType, P!RollbackClean
<1> HIDE DEF a
<1>5. SuspendType'
  BY <1>1, <1>2, <1>3, <1>4 DEF SuspendType
<1>6. RecordsAreOld' /\ HeldIsStopped'
  BY <1>1, <1>3 DEF SuspendInv, RecordsAreOld, HeldIsStopped, RecordsKept
<1>7. WatchedIsArmed'
  BY <1>1, <1>2, <1>3, <1>4 DEF SuspendInv, WatchedIsArmed, Watched, Records, RecordsKept, P!Same
<1>8. StagesAreReached'
  BY <1>1, <1>3 DEF StagesAreReached, P!Rest
<1> QED
  BY <1>5, <1>6, <1>7, <1>8 DEF SuspendInv

-----------------------------------------------------------------------------
(* The timers.                                                             *)

(* A due timer finds the process to resume, or has nothing to do.          *)
LEMMA ExpireKeeps ==
  ASSUME SuspendInv, NEW a \in SuspendActions, NEW ok \in BOOLEAN, P!Expire(a, ok)
  PROVE  SuspendInv'
<1>1. /\ SuspendType /\ resuming = P!Rest
      /\ suspending.at \in {"idle", "verify", "undo"}
      /\ UNCHANGED <<pid, started, resume, resumeDisk, suspensions, suspending, held>>
  BY DEF SuspendInv, P!Expire, P!Unlocked
<1>2. RecordsAreOld' /\ HeldIsStopped'
  BY <1>1 DEF SuspendInv, RecordsAreOld, HeldIsStopped
<1>3. CASE UNCHANGED resuming
  <2>1. PICK when \in {1, P!Off} :
          /\ resumeTimer' = [resumeTimer EXCEPT ![a] = when]
          /\ when = P!Off => resume[a] = P!None
    <3>1. resume[a] = P!None \/ ~ok
      BY <1>1, <1>3, SuspendAssumption DEF P!Expire, P!Rest
    <3>2. CASE resume[a] = P!None
      BY <3>2 DEF P!Expire
    <3>3. CASE resume[a] # P!None
      <4>1. resumeTimer' = [resumeTimer EXCEPT ![a] = 1]
        BY <3>1, <3>3 DEF P!Expire
      <4> QED
        BY <4>1 DEF P!Off
    <3> QED
      BY <3>2, <3>3
  <2>2. ~Watched(a) \/ when # P!Off
    <3>1. Watched(a) /\ resume[a] = P!None => suspensions[a].proc = NoProc /\ pid.proc # NoProc
      BY DEF SuspendInv, WatchedIsArmed, HeldIsStopped, Watched, Records, P!None
    <3> QED
      BY <2>1, <3>1 DEF Watched, P!Same
  <2>3. SuspendType'
    BY <1>1, <1>3, <2>1 DEF SuspendType, P!Off
  <2>4. WatchedIsArmed'
    BY <1>1, <1>3, <2>1, <2>2 DEF SuspendInv, SuspendType, WatchedIsArmed, Watched, Records, P!Same
  <2>5. StagesAreReached'
    BY <1>1, <1>3 DEF StagesAreReached, P!Rest
  <2> QED
    BY <1>2, <2>3, <2>4, <2>5 DEF SuspendInv
<1>4. CASE ~UNCHANGED resuming
  <2> DEFINE at == IF P!Finds(resume[a]) = "resume" THEN "cont" ELSE "clean"
  <2>1. resuming' = [act |-> a, at |-> at] /\ UNCHANGED resumeTimer
    BY <1>4 DEF P!Expire
  <2>2. at = "clean" => ~Watched(a)
    BY NothingToResume DEF SuspendInv, WatchedIsArmed
  <2>3. SuspendType'
    BY <1>1, <2>1 DEF SuspendType, Resuming
  <2>4. WatchedIsArmed'
    BY <1>1, <2>1, SuspendAssumption DEF SuspendInv, WatchedIsArmed, Watched, Records, P!Same, P!Rest
  <2>5. StagesAreReached'
    BY <1>1, <2>1, <2>2 DEF StagesAreReached, Watched, P!Same
  <2> QED
    BY <1>2, <2>3, <2>4, <2>5 DEF SuspendInv
<1> QED
  BY <1>3, <1>4

(* It resumes the process, or is set again.                                *)
LEMMA ExpireContinueKeeps ==
  ASSUME SuspendInv, NEW ok \in BOOLEAN, P!ExpireContinue(ok)
  PROVE  SuspendInv'
<1> DEFINE a == resuming.act
<1>1. /\ SuspendType /\ resuming \in Resuming /\ a \in SuspendActions
      /\ suspending.at \notin {"journal", "stop", "cont", "clean"}
      /\ UNCHANGED <<started, resume, resumeDisk, suspensions, suspending>>
  BY DEF SuspendInv, SuspendType, StagesAreReached, Resuming, P!ExpireContinue, P!Rest
<1>2. CASE ok
  <2>1. /\ pid' \in Process /\ pid'.proc = pid.proc /\ pid'.unlinked = pid.unlinked
        /\ held' \in [SuspendActions -> BOOLEAN] /\ \A b \in SuspendActions : ~held'[b]
    BY <1>2, ProcessContinued DEF P!ExpireContinue, SuspendInv
  <2>2. /\ resuming' \in Resuming /\ resuming'.act = a /\ UNCHANGED resumeTimer
    BY <1>1, <1>2 DEF P!ExpireContinue, Resuming
  <2>3. SuspendType'
    BY <1>1, <2>1, <2>2 DEF SuspendType
  <2>4. RecordsAreOld' /\ HeldIsStopped' /\ WatchedIsArmed'
    BY <1>1, <2>1, <2>2 DEF SuspendInv, RecordsAreOld, HeldIsStopped, WatchedIsArmed, Watched
  <2>5. StagesAreReached'
    BY <1>1, <2>1, <2>2 DEF StagesAreReached, Watched
  <2> QED
    BY <2>3, <2>4, <2>5 DEF SuspendInv
<1>3. CASE ~ok
  <2>1. /\ resuming' = P!Rest /\ resumeTimer' = [resumeTimer EXCEPT ![a] = 1]
        /\ UNCHANGED <<pid, held>>
    BY <1>3 DEF P!ExpireContinue
  <2>2. SuspendType'
    BY <1>1, <2>1 DEF SuspendType, P!Off
  <2>3. RecordsAreOld' /\ HeldIsStopped'
    BY <1>1, <2>1 DEF SuspendInv, RecordsAreOld, HeldIsStopped
  <2>4. WatchedIsArmed'
    BY <1>1, <2>1 DEF SuspendInv, SuspendType, WatchedIsArmed, Watched, Records, P!Same, P!Off
  <2>5. StagesAreReached'
    BY <1>1, <2>1 DEF StagesAreReached, P!Rest
  <2> QED
    BY <2>2, <2>3, <2>4, <2>5 DEF SuspendInv
<1> QED
  BY <1>2, <1>3

(* It removes the journal of an action that holds nobody.                  *)
LEMMA ExpireCleanKeeps ==
  ASSUME SuspendInv, NEW how \in P!Removal, P!ExpireClean(how)
  PROVE  SuspendInv'
<1> DEFINE a == resuming.act
<1>1. /\ SuspendType /\ resuming \in Resuming /\ a \in SuspendActions /\ ~Watched(a)
      /\ suspending.at \notin {"journal", "stop", "cont", "clean"}
      /\ resuming' = P!Rest /\ resumeTimer' = [resumeTimer EXCEPT ![a] = P!Off]
      /\ UNCHANGED <<pid, started, suspensions, suspending, held>>
  BY DEF SuspendInv, SuspendType, StagesAreReached, Resuming, P!ExpireClean, P!Rest
<1>2. /\ resume' \in [SuspendActions -> Entries] /\ resumeDisk' \in [SuspendActions -> Entries]
      /\ \A b \in SuspendActions \ {a} : resume'[b] = resume[b] /\ resumeDisk'[b] = resumeDisk[b]
  BY <1>1, JournalRemoved DEF P!ExpireClean
<1> HIDE DEF a
<1>3. SuspendType'
  BY <1>1, <1>2 DEF SuspendType
<1>4. RecordsAreOld' /\ HeldIsStopped'
  BY <1>1 DEF SuspendInv, RecordsAreOld, HeldIsStopped
<1>5. WatchedIsArmed'
  BY <1>1, <1>2 DEF SuspendInv, SuspendType, WatchedIsArmed, Watched, Records, P!Same, a
<1>6. StagesAreReached'
  BY <1>1 DEF StagesAreReached, P!Rest
<1> QED
  BY <1>3, <1>4, <1>5, <1>6 DEF SuspendInv

-----------------------------------------------------------------------------
(* The host.                                                               *)

(* The identifier passes to another process only when nobody holds it.     *)
LEMMA ProcessesKeep ==
  ASSUME SuspendInv, (\E p \in Procs : P!Starts(p)) \/ P!Exits \/ P!Unlink
  PROVE  SuspendInv'
<1>1. /\ SuspendType
      /\ UNCHANGED <<resume, resumeDisk, resumeTimer, suspensions, suspending, resuming>>
  BY DEF SuspendInv, P!Starts, P!Exits, P!Unlink, P!Nothing
<1>2. /\ resuming.at = "clean" => resuming.act \in SuspendActions
      /\ suspending.at = "clean" => suspending.act \in SuspendActions
  BY <1>1 DEF SuspendType, Resuming, Suspending, P!Rest
<1>3. ASSUME NEW p \in Procs, P!Starts(p)
      PROVE  SuspendInv'
  <2>1. /\ pid.proc = NoProc /\ p \notin started /\ p # NoProc
        /\ pid' = [proc |-> p, stopped |-> FALSE, unlinked |-> FALSE]
        /\ started' = started \cup {p} /\ held' = held
    BY <1>3, SuspendAssumption DEF P!Starts, P!Exited, P!Takes
  <2>2. \A b \in SuspendActions : ~held[b]
    BY <2>1 DEF SuspendInv, HeldIsStopped
  <2>3. SuspendType'
    BY <1>1, <2>1 DEF SuspendType, Process, SomeProc
  <2>4. RecordsAreOld'
    BY <1>1, <2>1 DEF SuspendInv, RecordsAreOld
  <2>5. HeldIsStopped' /\ WatchedIsArmed'
    BY <1>1, <2>1, <2>2 DEF HeldIsStopped, WatchedIsArmed, Watched
  <2>6. StagesAreReached'
    BY <1>1, <1>2, <2>1, <2>2 DEF SuspendInv, StagesAreReached, Watched, Records
  <2> QED
    BY <2>3, <2>4, <2>5, <2>6 DEF SuspendInv
<1>4. CASE P!Exits
  <2>1. /\ pid' = [proc |-> NoProc, stopped |-> FALSE, unlinked |-> FALSE]
        /\ started' = started /\ held' = [a \in SuspendActions |-> FALSE]
    BY <1>4 DEF P!Exits, P!Free
  <2>2. SuspendType'
    BY <1>1, <2>1 DEF SuspendType, Process, SomeProc
  <2>3. RecordsAreOld'
    BY <1>1, <2>1 DEF SuspendInv, RecordsAreOld
  <2>4. HeldIsStopped' /\ WatchedIsArmed'
    BY <1>1, <2>1 DEF HeldIsStopped, WatchedIsArmed, Watched
  <2>5. StagesAreReached'
    BY <1>1, <1>2, <2>1 DEF SuspendInv, StagesAreReached, Watched, Records
  <2> QED
    BY <2>2, <2>3, <2>4, <2>5 DEF SuspendInv
<1>5. CASE P!Unlink
  <2>1. /\ ~pid.unlinked /\ pid.proc # NoProc /\ UNCHANGED <<started, held>>
        /\ pid' \in Process /\ pid'.proc = pid.proc /\ pid'.unlinked
        /\ pid'.stopped = pid.stopped
    <3>1. pid \in Process
      BY <1>1 DEF SuspendType
    <3> QED
      BY <1>5, <3>1 DEF P!Unlink, P!Exited, Process
  <2>2. \A b \in SuspendActions : ~Watched(b)'
    <3> SUFFICES ASSUME NEW b \in SuspendActions, Watched(b)'
                 PROVE  FALSE
      OBVIOUS
    <3>1. suspensions[b].proc = pid.proc /\ suspensions[b].unlinked = TRUE
      <4>1. suspensions[b].unlinked \in BOOLEAN /\ pid'.unlinked \in BOOLEAN
        BY <1>1, <2>1 DEF SuspendType, SuspensionRow, Process
      <4> QED
        BY <1>1, <2>1, <4>1 DEF Watched, P!Same
    <3> QED
      BY <2>1, <3>1 DEF SuspendInv, RecordsAreOld
  <2>3. SuspendType'
    BY <1>1, <2>1 DEF SuspendType
  <2>4. RecordsAreOld' /\ HeldIsStopped'
    BY <1>1, <2>1 DEF SuspendInv, RecordsAreOld, HeldIsStopped
  <2>5. WatchedIsArmed'
    BY <2>2 DEF WatchedIsArmed
  <2>6. StagesAreReached'
    BY <1>1, <1>2, <2>2 DEF SuspendInv, StagesAreReached, Records
  <2> QED
    BY <2>3, <2>4, <2>5, <2>6 DEF SuspendInv
<1> QED
  BY <1>3, <1>4, <1>5

(* At every start the timers are armed from the journals.                  *)
LEMMA RestartsKeep ==
  ASSUME SuspendInv, P!Restarts, NEW entries \in {resume, resumeDisk},
         \/ UNCHANGED <<resume, resumeDisk, pid, held>>
         \/ /\ resume' = entries /\ resumeDisk' = entries
            /\ pid' = P!Free /\ held' = [a \in SuspendActions |-> FALSE]
  PROVE  SuspendInv'
<1>1. /\ SuspendType /\ suspending' = P!Rest /\ resuming' = P!Rest /\ started' = started
      /\ resumeTimer' = [a \in SuspendActions |-> IF resume'[a] = P!None THEN P!Off ELSE resume'[a].left]
  BY DEF SuspendInv, P!Restarts, P!Resumes
<1>2. resume' \in [SuspendActions -> Entries] /\ resumeDisk' \in [SuspendActions -> Entries]
  BY <1>1 DEF SuspendType
<1>3. /\ suspensions' \in [SuspendActions -> SuspensionRow] /\ RecordsKept
  <2>1. ASSUME NEW r \in SuspensionRow
        PROVE  /\ [r EXCEPT !.status = "failed"] \in SuspensionRow
               /\ [r EXCEPT !.status = "failed"].proc = r.proc
               /\ [r EXCEPT !.status = "failed"].unlinked = r.unlinked
    BY <2>1 DEF SuspensionRow, Suspended
  <2>2. suspensions' = [a \in SuspendActions |->
                          IF a = suspending.act /\ suspensions[a].status = "new"
                          THEN [suspensions[a] EXCEPT !.status = "failed"] ELSE suspensions[a]]
    BY DEF P!Restarts
  <2>3. ASSUME NEW a \in SuspendActions
        PROVE  suspensions'[a] \in {suspensions[a], [suspensions[a] EXCEPT !.status = "failed"]}
    BY <2>2
  <2>4. suspensions' \in [SuspendActions -> SuspensionRow]
    BY <1>1, <2>1, <2>2 DEF SuspendType
  <2>5. RecordsKept
    BY <1>1, <2>1, <2>3 DEF SuspendType, RecordsKept
  <2> QED
    BY <2>4, <2>5
<1>4. resumeTimer' \in [SuspendActions -> Nat \cup {P!Off}]
  <2>1. \A a \in SuspendActions : resume'[a].left \in Nat
    BY <1>2 DEF Entries
  <2>2. \A a \in SuspendActions :
          (IF resume'[a] = P!None THEN P!Off ELSE resume'[a].left) \in Nat \cup {P!Off}
    BY <2>1
  <2> QED
    BY <1>1, <2>2
<1>5. pid' \in Process /\ held' \in [SuspendActions -> BOOLEAN]
  <2>1. P!Free \in Process
    BY DEF P!Free, Process, SomeProc
  <2> QED
    BY <1>1, <2>1 DEF SuspendType
<1>6. SuspendType'
  BY <1>1, <1>2, <1>3, <1>4, <1>5 DEF SuspendType
<1>7. StagesAreReached'
  BY <1>1 DEF StagesAreReached, P!Rest
<1>8. CASE UNCHANGED <<resume, resumeDisk, pid, held>>
  <2>1. RecordsAreOld' /\ HeldIsStopped'
    BY <1>1, <1>3, <1>8 DEF SuspendInv, RecordsAreOld, HeldIsStopped, RecordsKept
  <2>2. ASSUME NEW a \in SuspendActions, Watched(a)'
        PROVE  /\ Records(a, resume[a])' /\ Records(a, resumeDisk[a])'
               /\ resumeTimer'[a] # P!Off
    <3>1. Watched(a)
      BY <1>3, <1>8, <2>2 DEF Watched, P!Same, RecordsKept
    <3>2. /\ Records(a, resume[a]) /\ Records(a, resumeDisk[a])
          /\ resume[a].proc # NoProc
      BY <3>1 DEF SuspendInv, WatchedIsArmed, HeldIsStopped, Watched, Records
    <3>3. resume'[a] # P!None /\ resume'[a].left \in Nat
      BY <1>2, <1>8, <3>2 DEF P!None, Entries
    <3> QED
      BY <1>1, <1>3, <1>8, <3>2, <3>3 DEF Records, RecordsKept, P!Off
  <2> QED
    BY <1>6, <1>7, <2>1, <2>2 DEF SuspendInv, WatchedIsArmed
<1>9. CASE pid' = P!Free /\ held' = [a \in SuspendActions |-> FALSE]
  <2>1. RecordsAreOld'
    BY <1>1, <1>3, <1>9 DEF SuspendInv, RecordsAreOld, RecordsKept, P!Free
  <2>2. HeldIsStopped' /\ WatchedIsArmed'
    BY <1>9 DEF HeldIsStopped, WatchedIsArmed, Watched
  <2> QED
    BY <1>6, <1>7, <2>1, <2>2 DEF SuspendInv
<1> QED
  BY <1>8, <1>9

(* Time passes.                                                            *)
LEMMA SuspendTickKeeps ==
  ASSUME SuspendInv, P!Tick
  PROVE  SuspendInv'
<1>1. /\ SuspendType
      /\ resume' = P!Ages(resume) /\ resumeDisk' = P!Ages(resumeDisk)
      /\ resumeTimer' = [a \in SuspendActions |->
                           IF resumeTimer[a] > 0 THEN resumeTimer[a] - 1 ELSE resumeTimer[a]]
      /\ UNCHANGED <<pid, started, suspensions, suspending, resuming, held>>
  BY DEF SuspendInv, P!Tick
<1>2. /\ resume' \in [SuspendActions -> Entries] /\ resumeDisk' \in [SuspendActions -> Entries]
      /\ \A a \in SuspendActions : /\ Records(a, resume[a]) => Records(a, resume'[a])
                                   /\ Records(a, resumeDisk[a]) => Records(a, resumeDisk'[a])
  BY <1>1, JournalAges DEF SuspendType, Records
<1>3. /\ resumeTimer' \in [SuspendActions -> Nat \cup {P!Off}]
      /\ \A a \in SuspendActions : resumeTimer[a] # P!Off => resumeTimer'[a] # P!Off
  BY <1>1 DEF SuspendType, P!Off
<1>4. suspending.at = "stop" => suspending.act \in SuspendActions
  BY <1>1 DEF SuspendType, Suspending, P!Rest
<1>5. SuspendType'
  BY <1>1, <1>2, <1>3 DEF SuspendType
<1>6. RecordsAreOld' /\ HeldIsStopped'
  BY <1>1 DEF SuspendInv, RecordsAreOld, HeldIsStopped
<1>7. WatchedIsArmed'
  BY <1>1, <1>2, <1>3 DEF SuspendInv, WatchedIsArmed, Watched, Records, P!Same
<1>8. StagesAreReached'
  BY <1>1, <1>2, <1>4 DEF SuspendInv, StagesAreReached, Watched, Records, P!Same
<1> QED
  BY <1>5, <1>6, <1>7, <1>8 DEF SuspendInv

-----------------------------------------------------------------------------
(* Every step.                                                             *)

(* What the playbook's part of the system does keeps the invariant.        *)
LEMMA SuspendStepKeeps ==
  ASSUME SuspendInv, [P!Next]_suspendVars
  PROVE  SuspendInv'
<1>1. CASE P!Next
  <2>1. ASSUME NEW a \in SuspendActions, NEW named \in BOOLEAN,
               P!ApplyInspect(a, named) \/ P!AskRollback(a)
        PROVE  SuspendInv'
    BY <2>1, InspectKeeps, AskKeeps
  <2>2. CASE P!EngineSteps
    BY <2>2, StopKeeps, RollbackInspectKeeps, RollbackContinueKeeps, JournalKeeps,
       RollbackCleanKeeps, VerifyKeeps DEF P!EngineSteps
  <2>3. CASE P!TimerSteps
    BY <2>3, ExpireKeeps, ExpireContinueKeeps, ExpireCleanKeeps DEF P!TimerSteps
  <2>4. CASE P!HelperRestarts \/ \E kept \in {resume, resumeDisk} : P!HostRestarts(kept)
    BY <2>4, RestartsKeep DEF P!HelperRestarts, P!HostRestarts
  <2>5. CASE P!HostSteps
    BY <2>4, <2>5, ProcessesKeep, SuspendTickKeeps DEF P!HostSteps
  <2> QED
    BY <1>1, <2>1, <2>2, <2>3, <2>5 DEF P!Next
<1>2. CASE UNCHANGED suspendVars
  <2>1. UNCHANGED <<pid, started, resume, resumeDisk, resumeTimer, suspensions, suspending,
                    resuming, held>>
    BY <1>2 DEF suspendVars
  <2> QED
    BY <2>1 DEF SuspendInv, SuspendType, RecordsAreOld, HeldIsStopped, WatchedIsArmed,
       StagesAreReached, Watched, Records, P!Same
<1> QED
  BY <1>1, <1>2

(* It holds when the playbook begins.                                      *)
LEMMA SuspendBegins ==
  ASSUME P!Init
  PROVE  SuspendInv
<1>1. /\ pid = [proc |-> NoProc, stopped |-> FALSE, unlinked |-> FALSE] /\ started = {}
      /\ resume = [a \in SuspendActions |-> P!None] /\ resumeDisk = resume
      /\ resumeTimer = [a \in SuspendActions |-> P!Off]
      /\ suspensions = [a \in SuspendActions |->
                          [status |-> "new", proc |-> NoProc, unlinked |-> FALSE]]
      /\ suspending = P!Rest /\ resuming = P!Rest
      /\ held = [a \in SuspendActions |-> FALSE]
  BY DEF P!Init, P!Free
<1>2. P!None \in Entries
  BY DEF P!None, Entries, SomeProc
<1>3. SuspendType
  BY <1>1, <1>2 DEF SuspendType, Process, SomeProc, SuspensionRow, Suspended
<1>4. RecordsAreOld /\ HeldIsStopped /\ WatchedIsArmed
  BY <1>1 DEF RecordsAreOld, HeldIsStopped, WatchedIsArmed, Watched
<1>5. StagesAreReached
  BY <1>1 DEF StagesAreReached, P!Rest
<1> QED
  BY <1>3, <1>4, <1>5 DEF SuspendInv

(* The other parts leave this one alone.                                   *)
LEMMA SuspendAlone ==
  ASSUME Next
  PROVE  [P!Next]_suspendVars
BY DEF Next, Only

(* For every set of processes and suspensions, and any time to live: while *)
(* a process that an action stopped is stopped and looks the way it was    *)
(* recorded, its resumption is on disk and somebody is about to do it      *)
(* (internal/action/process_suspend.go).                                   *)
THEOREM ResumptionArmed == Spec => []ResumeArmed
<1>1. Init => SuspendInv
  BY SuspendBegins DEF Init
<1>2. SuspendInv /\ [Next]_<<part, elementVars, hardenVars, suspendVars, notifyVars, reportVars,
                             enrolVars, baselineVars, windowVars>> => SuspendInv'
  BY SuspendStepKeeps, SuspendAlone
<1>3. SuspendInv => ResumeArmed
  BY DEF SuspendInv, WatchedIsArmed, Watched, Records, ResumeArmed, P!ResumeArmed
<1> QED
  BY <1>1, <1>2, <1>3, PTL DEF Spec

-----------------------------------------------------------------------------
(* SSH hardening: what is true of every state.                             *)

SomeAction == SSHActions \cup {Nobody}
Configs    == [text : H!Texts, hard : BOOLEAN]
Snapshots  == [act : SomeAction, snap : H!Texts, left : Int]

HardenStatus == {"new", "unchanged", "failed", "pending", "confirmed", "rolled_back"}
HardenRow    == [status : HardenStatus, state : BOOLEAN]

(* The stages in which the engine holds the mutex.                         *)
LockedStages == {"journal", "write", "reload", "cleanup", "undo_reload", "undo_clean", "confirm"}
Hardening    == [act : SSHActions, at : LockedStages \cup {"verify", "undo"}]
Expiring     == [act : SSHActions, at : {"reload", "clean"}]

HardenType ==
  /\ file \in Configs
  /\ journal \in Snapshots /\ disk \in Snapshots
  /\ timer \in [SSHActions -> Nat \cup {H!Off}]
  /\ acts \in [SSHActions -> HardenRow]
  /\ eng \in Hardening \cup {H!Quiet} /\ exp \in Expiring \cup {H!Quiet}
  /\ owner \in SomeAction /\ loaded \in SomeAction /\ yielded \in SomeAction

(* What an action wrote is in the file, or in what sshd runs.              *)
InForce(a) == owner = a \/ loaded = a

(* The same snapshot is in both journals, as the action's own.             *)
Snapshotted(a) == journal.act = a /\ disk.act = a /\ disk.snap = journal.snap

(* The undo of what is in force is on disk, and a timer or a running       *)
(* operation comes to it, unless the timer has come and met an edit.       *)
InForceIsArmed ==
  \A a \in SSHActions :
    InForce(a) =>
      /\ Snapshotted(a)
      /\ \/ timer[a] # H!Off \/ exp.act = a \/ yielded = a
         \/ eng.act = a /\ eng.at = "reload"

(* What the engine and the timer have made true on their way.              *)
EngineIsHonest ==
  /\ eng.at \in LockedStages => exp = H!Quiet
  /\ eng.at = "journal" => journal.act = Nobody
  /\ eng.at \in {"write", "reload"} => Snapshotted(eng.act)
  /\ eng.at \in {"write", "cleanup", "undo_reload", "undo_clean"} => owner = Nobody
  /\ eng.at \in {"write", "cleanup", "undo_clean"} => loaded = Nobody
  /\ exp.at \in {"reload", "clean"} => owner = Nobody
  /\ exp.at = "clean" => loaded = Nobody

(* A confirmed hardening has no journal left, here or on disk.             *)
ConfirmedIsDone ==
  /\ \A a \in SSHActions :
       acts[a].status = "confirmed" => journal.act # a /\ disk.act # a
  /\ eng.at \in {"journal", "write", "reload", "cleanup"} => acts[eng.act].status = "new"

(* The inductive invariant.                                                *)
HardenInv == HardenType /\ InForceIsArmed /\ EngineIsHonest /\ ConfirmedIsDone

-----------------------------------------------------------------------------
(* What the helpers of the model do.                                       *)

(* There is a text.                                                        *)
LEMMA SomeText == (CHOOSE t \in H!Texts : TRUE) \in H!Texts
<1>1. PICK lines \in Lines, mode \in Modes : TRUE
  BY SSHAssumption
<1>2. [lines |-> lines, mode |-> mode] \in H!Texts
  BY DEF H!Texts
<1> QED
  BY <1>2

(* What is written to the file is a content of it.                         *)
LEMMA ConfigsWritten ==
  ASSUME NEW t \in H!Texts
  PROVE  H!Plain(t) \in Configs /\ H!Hardened(t) \in Configs
BY DEF H!Plain, H!Hardened, Configs

(* An empty journal is one.                                                *)
LEMMA NoSnapshot == H!NoJournal \in Snapshots /\ H!NoJournal.act = Nobody
BY SomeText DEF H!NoJournal, Snapshots, SomeAction

(* The engine goes on to another stage.                                    *)
LEMMA HardeningGoes ==
  ASSUME NEW at \in LockedStages \cup {"verify", "undo"}, eng \in Hardening, H!EngineGoes(at)
  PROVE  /\ eng' \in Hardening /\ eng'.act = eng.act /\ eng'.at = at
         /\ acts' = acts
BY DEF H!EngineGoes, Hardening

(* The operation ends.                                                     *)
LEMMA HardeningAnswers ==
  ASSUME acts \in [SSHActions -> HardenRow], NEW a \in SSHActions,
         NEW status \in HardenStatus, NEW state \in BOOLEAN, H!Answer(a, status, state)
  PROVE  /\ eng' = H!Quiet /\ eng'.at = "idle"
         /\ acts' \in [SSHActions -> HardenRow]
         /\ acts'[a].status = status
         /\ \A b \in SSHActions \ {a} : acts'[b] = acts[b]
<1>1. [status |-> status, state |-> state] \in HardenRow
  BY DEF HardenRow
<1> QED
  BY <1>1 DEF H!Answer, H!Quiet

(* It failed, and what it returned will be rolled back.                    *)
LEMMA HardeningRecovers ==
  ASSUME acts \in [SSHActions -> HardenRow], NEW a \in SSHActions, H!Recoverable(a)
  PROVE  /\ eng' \in Hardening /\ eng'.act = a /\ eng'.at = "undo"
         /\ acts' \in [SSHActions -> HardenRow]
         /\ \A b \in SSHActions : acts'[b].status = acts[b].status
<1>1. ASSUME NEW r \in HardenRow
      PROVE  /\ [r EXCEPT !.state = TRUE] \in HardenRow
             /\ [r EXCEPT !.state = TRUE].status = r.status
  BY <1>1 DEF HardenRow
<1>2. acts' = [acts EXCEPT ![a].state = TRUE]
  BY DEF H!Recoverable
<1>3. \A b \in SSHActions : acts'[b] \in {acts[b], [acts[b] EXCEPT !.state = TRUE]}
  BY <1>2
<1>4. eng' = [act |-> a, at |-> "undo"]
  BY DEF H!Recoverable
<1> QED
  BY <1>1, <1>2, <1>3, <1>4 DEF Hardening

(* The journal is removed: here, on disk too, or not at all.               *)
LEMMA SnapshotRemoved ==
  ASSUME journal \in Snapshots, disk \in Snapshots, NEW how \in H!Removal, H!Removes(how)
  PROVE  /\ journal' \in Snapshots /\ disk' \in Snapshots
         /\ journal' = journal \/ journal'.act = Nobody
         /\ disk' = disk \/ disk'.act = Nobody
         /\ how = "done" => journal'.act = Nobody /\ disk'.act = Nobody
         /\ how = "failed" => journal' = journal /\ disk' = disk
         /\ how = "unsynced" => journal'.act = Nobody
BY NoSnapshot DEF H!Removes, H!Removal

(* A timer that is set is set.                                             *)
LEMMA TimerSet ==
  ASSUME timer \in [SSHActions -> Nat \cup {H!Off}], NEW a \in SSHActions,
         NEW left \in Int, timer' = [timer EXCEPT ![a] = H!Due(left)]
  PROVE  /\ timer' \in [SSHActions -> Nat \cup {H!Off}]
         /\ \A b \in SSHActions : timer[b] # H!Off => timer'[b] # H!Off
         /\ timer'[a] # H!Off
<1>1. H!Due(left) \in Nat
  BY SSHAssumption DEF H!Due
<1> QED
  BY <1>1 DEF H!Off

(* Nothing is in force: nothing has to be armed.                           *)
LEMMA NothingInForce ==
  ASSUME owner' = Nobody, loaded' = Nobody
  PROVE  InForceIsArmed'
BY SSHAssumption DEF InForceIsArmed, InForce

(* The type invariant says where the engine and the timers are.            *)
LEMMA EngineAt ==
  ASSUME HardenType
  PROVE  /\ eng.at \in LockedStages \cup {"verify", "undo"} =>
              eng \in Hardening /\ eng.act \in SSHActions
         /\ exp.at \in {"reload", "clean"} => exp \in Expiring /\ exp.act \in SSHActions
         /\ exp = H!Quiet => exp.at = "idle"
         /\ eng = H!Quiet => eng.at = "idle"
BY DEF HardenType, Hardening, Expiring, LockedStages, H!Quiet

(* An operation that only answers, or only begins, disturbs nothing.       *)
LEMMA OnlyAnswers ==
  ASSUME HardenInv, UNCHANGED <<file, journal, disk, timer, exp, owner, loaded, yielded>>,
         eng.at # "reload", eng' \in Hardening \cup {H!Quiet},
         eng'.at \in {"idle", "undo"} \/ (eng'.at = "confirm" /\ exp = H!Quiet),
         acts' \in [SSHActions -> HardenRow],
         \A b \in SSHActions : acts'[b].status \in {acts[b].status, "failed", "unchanged", "pending"}
  PROVE  HardenInv'
<1>1. HardenType'
  BY DEF HardenInv, HardenType
<1>2. InForceIsArmed'
  BY DEF HardenInv, InForceIsArmed, InForce, Snapshotted
<1>3. EngineIsHonest'
  BY DEF HardenInv, EngineIsHonest, LockedStages
<1>4. ConfirmedIsDone'
  BY DEF HardenInv, ConfirmedIsDone
<1> QED
  BY <1>1, <1>2, <1>3, <1>4 DEF HardenInv

-----------------------------------------------------------------------------
(* The steps of Apply.                                                     *)

(* An action begins when there is no journal, or ends at once.             *)
LEMMA ApplyStartKeeps ==
  ASSUME HardenInv, NEW a \in SSHActions, NEW valid \in BOOLEAN, H!ApplyStart(a, valid)
  PROVE  HardenInv'
<1>1. /\ HardenType /\ eng = H!Quiet /\ exp = H!Quiet /\ acts[a].status = "new"
      /\ eng.at = "idle" /\ exp.at = "idle"
      /\ UNCHANGED <<file, journal, disk, timer, exp, owner, loaded, yielded>>
  BY EngineAt DEF HardenInv, H!ApplyStart, H!Unlocked, H!FileKept, H!DaemonKept, H!JournalKept
<1>2. CASE \E status \in {"failed", "unchanged"} : H!Answer(a, status, FALSE)
  <2>1. /\ eng' = H!Quiet /\ eng'.at = "idle" /\ acts' \in [SSHActions -> HardenRow]
        /\ acts'[a].status \in {"failed", "unchanged"}
        /\ \A b \in SSHActions \ {a} : acts'[b] = acts[b]
    BY <1>1, <1>2, HardeningAnswers DEF HardenType, HardenStatus
  <2>2. \A b \in SSHActions : acts'[b].status \in {acts[b].status, "failed", "unchanged"}
    BY <2>1
  <2> QED
    BY <1>1, <2>1, <2>2, OnlyAnswers
<1>3. CASE ~\E status \in {"failed", "unchanged"} : H!Answer(a, status, FALSE)
  <2>1. journal.act = Nobody /\ eng' = [act |-> a, at |-> "journal"] /\ acts' = acts
    BY <1>3 DEF H!ApplyStart
  <2>2. HardenType'
    BY <1>1, <2>1 DEF HardenType, Hardening, LockedStages
  <2>3. InForceIsArmed'
    BY <1>1, <2>1 DEF HardenInv, InForceIsArmed, InForce, Snapshotted
  <2>4. EngineIsHonest'
    BY <1>1, <2>1 DEF EngineIsHonest
  <2>5. ConfirmedIsDone'
    BY <1>1, <2>1 DEF HardenInv, ConfirmedIsDone
  <2> QED
    BY <2>2, <2>3, <2>4, <2>5 DEF HardenInv
<1> QED
  BY <1>2, <1>3

(* The snapshot is written, or not, while nothing is in force.             *)
LEMMA ApplyJournalKeeps ==
  ASSUME HardenInv, NEW how \in H!Removal \cup {"unreadable"}, H!ApplyJournal(how)
  PROVE  HardenInv'
<1> DEFINE a == eng.act
           entry == [act |-> a, snap |-> file.text, left |-> Window]
<1>1. /\ HardenType /\ eng \in Hardening /\ a \in SSHActions
      /\ eng.at = "journal" /\ journal.act = Nobody /\ exp = H!Quiet /\ exp.at = "idle"
      /\ acts[a].status = "new"
      /\ UNCHANGED <<file, exp, owner, loaded, yielded>>
  BY EngineAt DEF HardenInv, EngineIsHonest, ConfirmedIsDone, LockedStages, H!ApplyJournal,
     H!FileKept, H!DaemonKept
<1>2. owner = Nobody /\ loaded = Nobody
  BY <1>1, SSHAssumption DEF HardenInv, HardenType, InForceIsArmed, InForce, Snapshotted, SomeAction
<1>3. entry \in Snapshots /\ entry.act = a /\ entry.snap = file.text
  BY <1>1, SSHAssumption DEF HardenType, Configs, Snapshots, SomeAction
<1>4. /\ journal' = IF how = "failed" THEN journal ELSE entry
      /\ disk' = IF how = "done" THEN entry ELSE disk
  BY DEF H!ApplyJournal
<1> HIDE DEF entry
<1>5. /\ journal' \in Snapshots /\ disk' \in Snapshots
      /\ journal'.act \in {Nobody, a} /\ disk'.act \in {disk.act, a}
      /\ how = "done" => journal'.act = a /\ disk'.act = a /\ disk'.snap = journal'.snap
  <2>1. journal' \in {journal, entry} /\ disk' \in {disk, entry}
    BY <1>4
  <2>2. how = "done" => journal' = entry /\ disk' = entry
    BY <1>4
  <2>3. journal \in Snapshots /\ disk \in Snapshots
    BY <1>1 DEF HardenType
  <2>4. journal' \in Snapshots /\ disk' \in Snapshots
    BY <1>3, <2>1, <2>3
  <2>5. journal'.act \in {Nobody, a} /\ disk'.act \in {disk.act, a}
    BY <1>1, <1>3, <2>1
  <2>6. how = "done" => journal'.act = a /\ disk'.act = a /\ disk'.snap = journal'.snap
    BY <1>3, <2>2
  <2> QED
    BY <2>4, <2>5, <2>6
<1>6. /\ eng' \in Hardening \cup {H!Quiet} /\ eng'.at \in {"idle", "write", "undo"}
      /\ eng'.at = "write" => how = "done" /\ eng'.act = a
      /\ acts' \in [SSHActions -> HardenRow]
      /\ acts'[a].status \in {"new", "failed"}
      /\ eng'.at = "write" => acts' = acts
      /\ \A b \in SSHActions \ {a} : acts'[b].status = acts[b].status
      /\ timer' \in [SSHActions -> Nat \cup {H!Off}]
  <2>1. CASE how = "done"
    <3>1. H!EngineGoes("write") /\ UNCHANGED timer
      BY <2>1 DEF H!ApplyJournal
    <3> QED
      BY <1>1, <2>1, <3>1, HardeningGoes DEF HardenType, LockedStages
  <2>2. CASE how = "unsynced"
    <3>1. H!Recoverable(a) /\ timer' = [timer EXCEPT ![a] = H!Due(journal'.left)]
      BY <2>2 DEF H!ApplyJournal, H!Schedule
    <3>2. journal'.left \in Int
      BY <1>5 DEF Snapshots
    <3> QED
      BY <1>1, <3>1, <3>2, HardeningRecovers, TimerSet DEF HardenType
  <2>3. CASE how = "unreadable"
    <3>1. H!Recoverable(a) /\ UNCHANGED timer
      BY <2>3 DEF H!ApplyJournal
    <3> QED
      BY <1>1, <3>1, HardeningRecovers DEF HardenType
  <2>4. CASE how = "failed"
    <3>1. H!Answer(a, "failed", FALSE) /\ UNCHANGED timer
      BY <2>4 DEF H!ApplyJournal
    <3> QED
      BY <1>1, <3>1, HardeningAnswers DEF HardenType, HardenStatus
  <2> QED
    BY <2>1, <2>2, <2>3, <2>4 DEF H!Removal
<1> HIDE DEF a
<1>7. HardenType'
  BY <1>1, <1>5, <1>6 DEF HardenType
<1>8. InForceIsArmed'
  BY <1>1, <1>2, NothingInForce
<1>9. EngineIsHonest'
  <2>1. eng'.at = "write" =>
          journal'.act = eng'.act /\ disk'.act = eng'.act /\ disk'.snap = journal'.snap
    BY <1>5, <1>6
  <2>2. /\ exp' = H!Quiet /\ exp'.at = "idle" /\ owner' = Nobody /\ loaded' = Nobody
        /\ eng'.at \in {"idle", "write", "undo"}
    BY <1>1, <1>2, <1>6
  <2> QED
    BY <2>1, <2>2 DEF EngineIsHonest, Snapshotted, LockedStages
<1>10. ConfirmedIsDone'
  BY <1>1, <1>5, <1>6, SSHAssumption DEF HardenInv, ConfirmedIsDone
<1> QED
  BY <1>7, <1>8, <1>9, <1>10 DEF HardenInv

(* The file written is in force, and its undo armed, from this step on.    *)
LEMMA ApplyWriteKeeps ==
  ASSUME HardenInv, NEW ok \in BOOLEAN, NEW repaired \in BOOLEAN, H!ApplyWrite(ok, repaired)
  PROVE  HardenInv'
<1> DEFINE a == eng.act
<1>1. /\ HardenType /\ eng \in Hardening /\ a \in SSHActions
      /\ eng.at = "write" /\ exp = H!Quiet /\ exp.at = "idle"
      /\ owner = Nobody /\ loaded = Nobody /\ Snapshotted(a)
      /\ acts[a].status = "new" /\ journal.snap \in H!Texts /\ journal.left \in Int
      /\ yielded \in SomeAction
      /\ UNCHANGED <<journal, disk, exp, loaded, yielded>>
  BY EngineAt DEF HardenInv, HardenType, Snapshots, EngineIsHonest, ConfirmedIsDone, LockedStages,
     H!ApplyWrite, H!JournalKept, H!DaemonKept
<1>2. /\ file' \in Configs /\ owner' \in {Nobody, a}
      /\ eng' \in Hardening /\ eng'.act = a /\ eng'.at \in {"reload", "cleanup", "undo"}
      /\ eng'.at = "cleanup" => owner' = Nobody
      /\ eng'.at = "undo" => timer'[a] # H!Off
      /\ acts' \in [SSHActions -> HardenRow]
      /\ \A b \in SSHActions : acts'[b].status = acts[b].status
      /\ timer' \in [SSHActions -> Nat \cup {H!Off}]
  <2>1. CASE ok
    <3>1. /\ file' = H!Hardened(journal.snap) /\ owner' = a
          /\ H!EngineGoes("reload") /\ UNCHANGED timer
      BY <2>1 DEF H!ApplyWrite, H!Writes
    <3> QED
      BY <1>1, <3>1, HardeningGoes, ConfigsWritten DEF HardenType, LockedStages
  <2>2. CASE ~ok /\ repaired
    <3>1. /\ file' = H!Plain(journal.snap) /\ owner' = Nobody
          /\ H!EngineGoes("cleanup") /\ UNCHANGED timer
      BY <2>2 DEF H!ApplyWrite, H!Writes
    <3> QED
      BY <1>1, <3>1, HardeningGoes, ConfigsWritten, SSHAssumption DEF HardenType, LockedStages
  <2>3. CASE ~ok /\ ~repaired
    <3>1. /\ (file' = file /\ owner' = owner) \/ (file' = H!Hardened(journal.snap) /\ owner' = a)
          /\ H!Recoverable(a) /\ timer' = [timer EXCEPT ![a] = H!Due(journal'.left)]
      BY <2>3 DEF H!ApplyWrite, H!Writes, H!FileKept, H!Schedule
    <3>2. file \in Configs /\ H!Hardened(journal.snap) \in Configs
      BY <1>1, ConfigsWritten DEF HardenType
    <3>3. file' \in Configs /\ owner' \in {Nobody, a}
      BY <1>1, <3>1, <3>2
    <3>4. journal'.left \in Int
      BY <1>1
    <3> QED
      BY <1>1, <3>1, <3>3, <3>4, HardeningRecovers, TimerSet DEF HardenType
  <2> QED
    BY <2>1, <2>2, <2>3
<1> HIDE DEF a
<1>3. HardenType'
  BY <1>1, <1>2 DEF HardenType, SomeAction
<1>4. InForceIsArmed'
  <2>1. SUFFICES ASSUME NEW b \in SSHActions, InForce(b)'
                 PROVE  Snapshotted(b)'
                        /\ (timer'[b] # H!Off \/ (eng'.act = b /\ eng'.at = "reload"))
    BY DEF InForceIsArmed
  <2>2. b = a /\ owner' = a
    BY <1>1, <1>2, <2>1, SSHAssumption DEF InForce
  <2> QED
    BY <1>1, <1>2, <2>2, SSHAssumption DEF Snapshotted
<1>5. EngineIsHonest'
  <2>1. eng'.at = "reload" => Snapshotted(eng.act)'
    BY <1>1, <1>2 DEF Snapshotted
  <2>2. exp' = H!Quiet /\ exp'.at = "idle" /\ loaded' = Nobody
    BY <1>1
  <2> QED
    BY <1>2, <2>1, <2>2 DEF EngineIsHonest, LockedStages
<1>6. ConfirmedIsDone'
  BY <1>1, <1>2 DEF HardenInv, ConfirmedIsDone
<1> QED
  BY <1>3, <1>4, <1>5, <1>6 DEF HardenInv

(* Once sshd runs the file, or may, a timer is set.                        *)
LEMMA ApplyReloadKeeps ==
  ASSUME HardenInv, NEW ok \in BOOLEAN, NEW repaired \in BOOLEAN, H!ApplyReload(ok, repaired)
  PROVE  HardenInv'
<1> DEFINE a == eng.act
<1>1. /\ HardenType /\ eng \in Hardening /\ a \in SSHActions
      /\ eng.at = "reload" /\ exp = H!Quiet /\ exp.at = "idle"
      /\ Snapshotted(a) /\ owner \in SomeAction /\ loaded \in SomeAction
      /\ acts[a].status = "new" /\ journal.snap \in H!Texts /\ journal.left \in Int
      /\ UNCHANGED <<journal, disk, exp, yielded>>
  BY EngineAt DEF HardenInv, HardenType, Snapshots, EngineIsHonest, ConfirmedIsDone, LockedStages,
     H!ApplyReload, H!JournalKept
<1>2. owner \in {Nobody, a} /\ loaded \in {Nobody, a}
  BY <1>1, SSHAssumption DEF HardenInv, InForceIsArmed, InForce, Snapshotted, SomeAction
<1>3. /\ file' \in Configs /\ owner' \in {Nobody, a} /\ loaded' \in {Nobody, a}
      /\ eng' \in Hardening /\ eng'.act = a /\ eng'.at \in {"verify", "cleanup", "undo"}
      /\ eng'.at = "cleanup" => owner' = Nobody /\ loaded' = Nobody
      /\ eng'.at # "cleanup" => timer'[a] # H!Off
      /\ acts' \in [SSHActions -> HardenRow]
      /\ \A b \in SSHActions : acts'[b].status = acts[b].status
      /\ timer' \in [SSHActions -> Nat \cup {H!Off}]
  <2> DEFINE plain == H!Plain(journal.snap)
  <2>0. file \in Configs /\ plain \in Configs
    BY <1>1, ConfigsWritten DEF HardenType
  <2> HIDE DEF plain
  <2>1. CASE ok
    <3>1. /\ loaded' = owner /\ file' = file /\ owner' = owner
          /\ H!EngineGoes("verify") /\ timer' = [timer EXCEPT ![a] = H!Due(journal'.left)]
      BY <2>1 DEF H!ApplyReload, H!Loads, H!FileKept, H!Schedule
    <3>2. journal'.left \in Int
      BY <1>1
    <3>3. timer' \in [SSHActions -> Nat \cup {H!Off}] /\ timer'[a] # H!Off
      BY <1>1, <3>1, <3>2, TimerSet DEF HardenType
    <3>4. eng' \in Hardening /\ eng'.act = a /\ eng'.at = "verify" /\ acts' = acts
      BY <1>1, <3>1, HardeningGoes
    <3> QED
      BY <1>1, <1>2, <2>0, <3>1, <3>3, <3>4 DEF HardenType
  <2>2. CASE ~ok /\ repaired
    <3>1. /\ file' = plain /\ owner' = Nobody /\ loaded' = Nobody
          /\ H!EngineGoes("cleanup") /\ UNCHANGED timer
      BY <2>2 DEF H!ApplyReload, H!Writes, H!Loads, plain
    <3>2. eng' \in Hardening /\ eng'.act = a /\ eng'.at = "cleanup" /\ acts' = acts
      BY <1>1, <3>1, HardeningGoes DEF LockedStages
    <3> QED
      BY <1>1, <2>0, <3>1, <3>2 DEF HardenType
  <2>3. CASE ~ok /\ ~repaired
    <3>1. /\ (file' = file /\ owner' = owner) \/ (file' = plain /\ owner' = Nobody)
          /\ loaded' \in {loaded, owner}
          /\ H!Recoverable(a) /\ timer' = [timer EXCEPT ![a] = H!Due(journal'.left)]
      BY <2>3 DEF H!ApplyReload, H!Writes, H!Loads, H!FileKept, H!DaemonKept, H!Schedule, plain
    <3>2. journal'.left \in Int
      BY <1>1
    <3>3. timer' \in [SSHActions -> Nat \cup {H!Off}] /\ timer'[a] # H!Off
      BY <1>1, <3>1, <3>2, TimerSet DEF HardenType
    <3>4. /\ eng' \in Hardening /\ eng'.act = a /\ eng'.at = "undo"
          /\ acts' \in [SSHActions -> HardenRow]
          /\ \A b \in SSHActions : acts'[b].status = acts[b].status
      BY <1>1, <3>1, HardeningRecovers DEF HardenType
    <3>5. file' \in Configs /\ owner' \in {Nobody, a} /\ loaded' \in {Nobody, a}
      BY <1>2, <2>0, <3>1
    <3> QED
      BY <3>3, <3>4, <3>5
  <2> QED
    BY <2>1, <2>2, <2>3
<1> HIDE DEF a
<1>4. HardenType'
  BY <1>1, <1>3, SSHAssumption DEF HardenType, SomeAction
<1>5. InForceIsArmed'
  <2>1. SUFFICES ASSUME NEW b \in SSHActions, InForce(b)'
                 PROVE  Snapshotted(b)' /\ timer'[b] # H!Off
    BY DEF InForceIsArmed
  <2>2. b = a /\ eng'.at # "cleanup"
    BY <1>1, <1>3, <2>1, SSHAssumption DEF InForce
  <2> QED
    BY <1>1, <1>3, <2>2 DEF Snapshotted
<1>6. EngineIsHonest'
  <2>2. exp' = H!Quiet /\ exp'.at = "idle"
    BY <1>1
  <2> QED
    BY <1>3, <2>2 DEF EngineIsHonest, LockedStages
<1>7. ConfirmedIsDone'
  BY <1>1, <1>3 DEF HardenInv, ConfirmedIsDone
<1> QED
  BY <1>4, <1>5, <1>6, <1>7 DEF HardenInv

(* The journal goes when nothing is in force any more.                     *)
LEMMA ApplyCleanupKeeps ==
  ASSUME HardenInv, NEW how \in H!Removal, H!ApplyCleanup(how)
  PROVE  HardenInv'
<1> DEFINE a == eng.act
<1>1. /\ HardenType /\ eng \in Hardening /\ a \in SSHActions
      /\ eng.at = "cleanup" /\ exp = H!Quiet /\ exp.at = "idle"
      /\ owner = Nobody /\ loaded = Nobody /\ journal.left \in Int
      /\ H!Removes(how)
      /\ UNCHANGED <<file, owner, loaded, yielded, exp>>
  BY EngineAt DEF HardenInv, HardenType, Snapshots, EngineIsHonest, LockedStages,
     H!ApplyCleanup, H!FileKept, H!DaemonKept
<1>2. /\ journal' \in Snapshots /\ disk' \in Snapshots
      /\ journal' = journal \/ journal'.act = Nobody
      /\ disk' = disk \/ disk'.act = Nobody
  BY <1>1, SnapshotRemoved DEF HardenType
<1>3. /\ eng' \in Hardening \cup {H!Quiet} /\ eng'.at \in {"idle", "undo"}
      /\ acts' \in [SSHActions -> HardenRow]
      /\ \A b \in SSHActions : acts'[b].status = acts[b].status \/ acts'[b].status = "failed"
      /\ timer' \in [SSHActions -> Nat \cup {H!Off}]
  <2>1. CASE how = "done"
    <3>1. H!Answer(a, "failed", FALSE) /\ UNCHANGED timer
      BY <2>1 DEF H!ApplyCleanup
    <3> QED
      BY <1>1, <3>1, HardeningAnswers DEF HardenType, HardenStatus
  <2>2. CASE how # "done"
    <3>1. H!Recoverable(a) /\ timer' = [timer EXCEPT ![a] = H!Due(journal.left)]
      BY <2>2 DEF H!ApplyCleanup
    <3> QED
      BY <1>1, <3>1, HardeningRecovers, TimerSet DEF HardenType
  <2> QED
    BY <2>1, <2>2
<1> HIDE DEF a
<1>4. HardenType'
  BY <1>1, <1>2, <1>3 DEF HardenType
<1>5. InForceIsArmed'
  BY <1>1, NothingInForce
<1>6. EngineIsHonest'
  BY <1>1, <1>3 DEF EngineIsHonest, LockedStages
<1>7. ConfirmedIsDone'
  BY <1>1, <1>2, <1>3, SSHAssumption DEF HardenInv, ConfirmedIsDone
<1> QED
  BY <1>4, <1>5, <1>6, <1>7 DEF HardenInv

(* The verification disturbs nothing.                                      *)
LEMMA HardenVerifyKeeps ==
  ASSUME HardenInv, NEW ok \in BOOLEAN, H!Verify(ok)
  PROVE  HardenInv'
<1>1. /\ HardenType /\ eng.act \in SSHActions /\ eng.at = "verify"
      /\ UNCHANGED <<file, journal, disk, timer, exp, owner, loaded, yielded>>
  BY EngineAt DEF HardenInv, H!Verify, H!FileKept, H!DaemonKept, H!JournalKept
<1>2. /\ eng' \in Hardening \cup {H!Quiet} /\ eng'.at \in {"idle", "undo"}
      /\ acts' \in [SSHActions -> HardenRow]
      /\ \A b \in SSHActions : acts'[b].status \in {acts[b].status, "pending"}
  <2>1. CASE H!Answer(eng.act, "pending", TRUE)
    BY <1>1, <2>1, HardeningAnswers DEF HardenType, HardenStatus
  <2>2. CASE H!Recoverable(eng.act)
    BY <1>1, <2>2, HardeningRecovers DEF HardenType
  <2> QED
    BY <2>1, <2>2 DEF H!Verify
<1> QED
  BY <1>1, <1>2, OnlyAnswers

-----------------------------------------------------------------------------
(* Rollback and Confirm.                                                   *)

(* A rollback that is asked for has not begun yet.                         *)
LEMMA AskRollbackKeeps ==
  ASSUME HardenInv, NEW a \in SSHActions, H!AskRollback(a)
  PROVE  HardenInv'
<1>1. /\ eng = H!Quiet /\ eng.at = "idle" /\ eng' = [act |-> a, at |-> "undo"] /\ acts' = acts
      /\ UNCHANGED <<file, journal, disk, timer, exp, owner, loaded, yielded>>
  BY DEF H!AskRollback, H!FileKept, H!DaemonKept, H!JournalKept, H!Quiet
<1>2. eng' \in Hardening /\ eng'.at = "undo" /\ acts' \in [SSHActions -> HardenRow]
  BY <1>1 DEF HardenInv, HardenType, Hardening
<1> QED
  BY <1>1, <1>2, OnlyAnswers

(* The snapshot is put back; sshd may still run what was in force.         *)
LEMMA RollbackWriteKeeps ==
  ASSUME HardenInv, NEW ok \in BOOLEAN, H!RollbackWrite(ok)
  PROVE  HardenInv'
<1> DEFINE a == eng.act
<1>1. /\ HardenType /\ eng \in Hardening /\ a \in SSHActions /\ eng.at = "undo"
      /\ exp = H!Quiet /\ exp.at = "idle" /\ journal.snap \in H!Texts
      /\ UNCHANGED <<journal, disk, timer, exp, loaded, yielded>>
  BY EngineAt DEF HardenInv, HardenType, Snapshots, H!RollbackWrite, H!Unlocked, H!DaemonKept,
     H!JournalKept
<1>2. CASE H!Answer(a, "failed", TRUE) /\ H!FileKept
  BY <1>1, <1>2, HardeningAnswers, OnlyAnswers DEF HardenType, HardenStatus, H!FileKept
<1>3. CASE ~(H!Answer(a, "failed", TRUE) /\ H!FileKept)
  <2>1. file' = H!Plain(journal.snap) /\ owner' = Nobody /\ H!EngineGoes("undo_reload")
    BY <1>3 DEF H!RollbackWrite, H!RestoreWrites, H!Writes, H!Foreign
  <2>2. eng' \in Hardening /\ eng'.at = "undo_reload" /\ acts' = acts
    BY <1>1, <2>1, HardeningGoes DEF LockedStages
  <2>3. HardenType'
    BY <1>1, <2>1, <2>2, ConfigsWritten DEF HardenType, SomeAction
  <2>4. InForceIsArmed'
    <3>1. SUFFICES ASSUME NEW b \in SSHActions, InForce(b)'
                   PROVE  Snapshotted(b)' /\ (timer'[b] # H!Off \/ yielded' = b)
      BY DEF InForceIsArmed
    <3>2. InForce(b)
      BY <1>1, <2>1, <3>1, SSHAssumption DEF InForce
    <3>3. exp.act # b
      BY <1>1, SSHAssumption DEF H!Quiet
    <3>4. Snapshotted(b) /\ (timer[b] # H!Off \/ yielded = b)
      BY <1>1, <3>2, <3>3 DEF HardenInv, InForceIsArmed
    <3> QED
      BY <1>1, <3>4 DEF Snapshotted
  <2>5. EngineIsHonest'
    BY <1>1, <2>1, <2>2 DEF EngineIsHonest
  <2>6. ConfirmedIsDone'
    BY <1>1, <2>2 DEF HardenInv, ConfirmedIsDone
  <2> QED
    BY <2>3, <2>4, <2>5, <2>6 DEF HardenInv
<1> QED
  BY <1>2, <1>3

(* A reload of what nobody wrote leaves less in force than before.         *)
LEMMA RollbackReloadKeeps ==
  ASSUME HardenInv, NEW ok \in BOOLEAN, H!RollbackReload(ok)
  PROVE  HardenInv'
<1> DEFINE a == eng.act
<1>1. /\ HardenType /\ eng \in Hardening /\ a \in SSHActions /\ eng.at = "undo_reload"
      /\ exp = H!Quiet /\ exp.at = "idle" /\ owner = Nobody
      /\ UNCHANGED <<file, owner, journal, disk, timer, exp, yielded>>
  BY EngineAt DEF HardenInv, EngineIsHonest, LockedStages, H!RollbackReload, H!FileKept,
     H!JournalKept
<1>2. loaded' \in {loaded, Nobody} /\ (ok => loaded' = Nobody)
  BY <1>1 DEF H!RollbackReload, H!RestoreReloads, H!Loads, H!DaemonKept
<1>3. /\ eng' \in Hardening \cup {H!Quiet} /\ eng'.at \in {"idle", "undo_clean"}
      /\ eng'.at = "undo_clean" => loaded' = Nobody
      /\ acts' \in [SSHActions -> HardenRow]
      /\ \A b \in SSHActions : acts'[b].status \in {acts[b].status, "failed"}
  <2>1. CASE ok
    BY <1>1, <1>2, <2>1, HardeningGoes DEF HardenType, LockedStages, H!RollbackReload
  <2>2. CASE ~ok
    BY <1>1, <2>2, HardeningAnswers DEF HardenType, HardenStatus, H!RollbackReload
  <2> QED
    BY <2>1, <2>2
<1> HIDE DEF a
<1>4. HardenType'
  BY <1>1, <1>2, <1>3 DEF HardenType, SomeAction
<1>5. InForceIsArmed'
  BY <1>1, <1>2, SSHAssumption DEF HardenInv, InForceIsArmed, InForce, Snapshotted
<1>6. EngineIsHonest'
  BY <1>1, <1>3 DEF EngineIsHonest, LockedStages
<1>7. ConfirmedIsDone'
  BY <1>1, <1>3 DEF HardenInv, ConfirmedIsDone
<1> QED
  BY <1>4, <1>5, <1>6, <1>7 DEF HardenInv

(* A cancelled timer is off, or has fired and stays so.                    *)
LEMMA TimerCancelled ==
  ASSUME timer \in [SSHActions -> Nat \cup {H!Off}], NEW a \in SSHActions, H!Cancels(a)
  PROVE  timer' \in [SSHActions -> Nat \cup {H!Off}]
BY DEF H!Cancels

(* The journal of a rollback that is over goes.                            *)
LEMMA RollbackEndKeeps ==
  ASSUME HardenInv, NEW how \in H!Removal, H!RollbackClean(how)
  PROVE  HardenInv'
<1> DEFINE a == eng.act
<1>1. /\ HardenType /\ a \in SSHActions /\ eng.at = "undo_clean"
      /\ exp = H!Quiet /\ exp.at = "idle" /\ owner = Nobody /\ loaded = Nobody
      /\ H!Removes(how)
      /\ UNCHANGED <<file, owner, loaded, yielded, exp>>
  BY EngineAt DEF HardenInv, EngineIsHonest, LockedStages, H!RollbackClean, H!FileKept,
     H!DaemonKept
<1>2. /\ journal' \in Snapshots /\ disk' \in Snapshots
      /\ journal' = journal \/ journal'.act = Nobody
      /\ disk' = disk \/ disk'.act = Nobody
  BY <1>1, SnapshotRemoved DEF HardenType
<1>3. /\ eng' = H!Quiet /\ eng'.at = "idle" /\ acts' \in [SSHActions -> HardenRow]
      /\ acts'[a].status \in {"rolled_back", "failed"}
      /\ \A b \in SSHActions \ {a} : acts'[b] = acts[b]
  <2>1. CASE how = "done"
    BY <1>1, <2>1, HardeningAnswers DEF HardenType, HardenStatus, H!RollbackClean
  <2>2. CASE how # "done"
    BY <1>1, <2>2, HardeningAnswers DEF HardenType, HardenStatus, H!RollbackClean
  <2> QED
    BY <2>1, <2>2
<1>4. timer' \in [SSHActions -> Nat \cup {H!Off}]
  BY <1>1, TimerCancelled DEF HardenType, H!RollbackClean
<1> HIDE DEF a
<1>5. HardenType'
  BY <1>1, <1>2, <1>3, <1>4 DEF HardenType
<1>6. InForceIsArmed'
  BY <1>1, NothingInForce
<1>7. EngineIsHonest'
  BY <1>1, <1>3 DEF EngineIsHonest, LockedStages
<1>8. ConfirmedIsDone'
  BY <1>1, <1>2, <1>3, SSHAssumption DEF HardenInv, ConfirmedIsDone
<1> QED
  BY <1>5, <1>6, <1>7, <1>8 DEF HardenInv

(* A confirmation begins under the lock, or fails.                         *)
LEMMA ConfirmStartKeeps ==
  ASSUME HardenInv, NEW a \in SSHActions, NEW ok \in BOOLEAN, H!ConfirmStart(a, ok)
  PROVE  HardenInv'
<1>1. /\ HardenType /\ eng = H!Quiet /\ eng.at = "idle" /\ exp = H!Quiet
      /\ UNCHANGED <<file, journal, disk, timer, exp, owner, loaded, yielded>>
  BY EngineAt DEF HardenInv, H!ConfirmStart, H!Unlocked, H!FileKept, H!DaemonKept, H!JournalKept
<1>2. CASE H!Answer(a, "failed", TRUE)
  BY <1>1, <1>2, HardeningAnswers, OnlyAnswers DEF HardenType, HardenStatus
<1>3. CASE ~H!Answer(a, "failed", TRUE)
  <2>1. eng' = [act |-> a, at |-> "confirm"] /\ acts' = acts
    BY <1>3 DEF H!ConfirmStart
  <2>2. eng' \in Hardening /\ eng'.at = "confirm" /\ acts' \in [SSHActions -> HardenRow]
    BY <1>1, <2>1 DEF HardenType, Hardening, LockedStages
  <2> QED
    BY <1>1, <2>1, <2>2, OnlyAnswers
<1> QED
  BY <1>2, <1>3

(* A hardening is confirmed when both journals are gone, and not before.   *)
LEMMA ConfirmKeeps ==
  ASSUME HardenInv, NEW how \in H!Removal, H!Confirm(how)
  PROVE  HardenInv'
<1> DEFINE a == eng.act
<1>1. /\ HardenType /\ a \in SSHActions /\ eng.at = "confirm"
      /\ exp = H!Quiet /\ exp.at = "idle"
      /\ UNCHANGED <<file, exp, yielded>>
  BY EngineAt DEF HardenInv, EngineIsHonest, LockedStages, H!Confirm
<1>2. CASE ~H!Confirmable(a)
  <2>1. /\ H!Answer(a, "failed", TRUE)
        /\ UNCHANGED <<journal, disk, timer, owner, loaded>>
    BY <1>2 DEF H!Confirm, H!JournalKept
  <2> QED
    BY <1>1, <2>1, HardeningAnswers, OnlyAnswers DEF HardenType, HardenStatus
<1>3. CASE H!Confirmable(a) /\ how = "failed"
  <2>1. /\ H!Answer(a, "failed", TRUE) /\ H!Removes(how)
        /\ UNCHANGED <<timer, owner, loaded>>
    BY <1>3 DEF H!Confirm
  <2>2. UNCHANGED <<journal, disk>>
    BY <1>1, <1>3, <2>1, SnapshotRemoved DEF HardenType
  <2> QED
    BY <1>1, <2>1, <2>2, HardeningAnswers, OnlyAnswers DEF HardenType, HardenStatus
<1>4. CASE H!Confirmable(a) /\ how # "failed"
  <2>1. /\ H!Removes(how) /\ owner' = Nobody /\ loaded' = Nobody
    BY <1>4 DEF H!Confirm
  <2>2. /\ journal' \in Snapshots /\ disk' \in Snapshots
        /\ journal' = journal \/ journal'.act = Nobody
        /\ disk' = disk \/ disk'.act = Nobody
        /\ how = "done" => journal'.act = Nobody /\ disk'.act = Nobody
    BY <1>1, <2>1, SnapshotRemoved DEF HardenType
  <2>3. /\ eng' = H!Quiet /\ eng'.at = "idle" /\ acts' \in [SSHActions -> HardenRow]
        /\ acts'[a].status = (IF how = "done" THEN "confirmed" ELSE "failed")
        /\ \A b \in SSHActions \ {a} : acts'[b] = acts[b]
    BY <1>1, <1>4, HardeningAnswers DEF HardenType, HardenStatus, H!Confirm
  <2>4. timer' \in [SSHActions -> Nat \cup {H!Off}]
    BY <1>1, <1>4, TimerCancelled DEF HardenType, H!Confirm
  <2> HIDE DEF a
  <2>5. HardenType'
    BY <1>1, <2>1, <2>2, <2>3, <2>4 DEF HardenType, SomeAction
  <2>6. InForceIsArmed'
    BY <2>1, NothingInForce
  <2>7. EngineIsHonest'
    BY <1>1, <2>3 DEF EngineIsHonest, LockedStages
  <2>8. ConfirmedIsDone'
    BY <2>2, <2>3, SSHAssumption DEF HardenInv, ConfirmedIsDone
  <2> QED
    BY <2>5, <2>6, <2>7, <2>8 DEF HardenInv
<1> QED
  BY <1>2, <1>3, <1>4

-----------------------------------------------------------------------------
(* The timer.                                                              *)

(* A timer that has run is off, or set again.                              *)
LEMMA TimerRan ==
  ASSUME timer \in [SSHActions -> Nat \cup {H!Off}], NEW a \in SSHActions,
         NEW when \in {H!Off, Retry}, H!ExpireEnds(a, when)
  PROVE  /\ exp' = H!Quiet /\ exp'.at = "idle"
         /\ timer' \in [SSHActions -> Nat \cup {H!Off}]
         /\ timer'[a] = when
         /\ \A b \in SSHActions \ {a} : timer'[b] = timer[b]
BY SSHAssumption DEF H!ExpireEnds, H!Quiet, H!Off

(* The timer finds nothing to do, or puts the snapshot back and goes on,   *)
(* or fails and is set again.                                              *)
LEMMA HardenExpireKeeps ==
  ASSUME HardenInv, NEW a \in SSHActions, NEW ok \in BOOLEAN, H!Expire(a, ok)
  PROVE  HardenInv'
<1>1. /\ HardenType /\ exp = H!Quiet /\ exp.at = "idle" /\ exp.act = Nobody
      /\ eng.at \in {"idle", "verify", "undo"} /\ timer[a] = 0
      /\ journal.snap \in H!Texts
      /\ yielded \in SomeAction /\ yielded' \in {yielded, a}
      /\ journal.act # a => yielded' = yielded
      /\ UNCHANGED <<loaded, journal, disk, acts, eng>>
  BY EngineAt DEF HardenInv, HardenType, Snapshots, H!Expire, H!Unlocked, H!Quiet, H!DaemonKept,
     H!JournalKept
<1>2. \A b \in SSHActions :
        InForce(b) => Snapshotted(b) /\ (timer[b] # H!Off \/ yielded = b)
  BY <1>1, SSHAssumption DEF HardenInv, InForceIsArmed
<1>3. ConfirmedIsDone'
  BY <1>1 DEF HardenInv, ConfirmedIsDone
<1>4. ASSUME H!FileKept, NEW when \in {H!Off, Retry}, H!ExpireEnds(a, when),
             when = H!Off => journal.act # a \/ yielded' = a
      PROVE  HardenInv'
  <2>1. /\ file' = file /\ owner' = owner /\ exp' = H!Quiet /\ exp'.at = "idle"
        /\ timer' \in [SSHActions -> Nat \cup {H!Off}] /\ timer'[a] = when
        /\ \A b \in SSHActions \ {a} : timer'[b] = timer[b]
    BY <1>1, <1>4, TimerRan DEF HardenType, H!FileKept
  <2>2. HardenType'
    BY <1>1, <2>1 DEF HardenType, SomeAction
  <2>3. InForceIsArmed'
    <3>1. SUFFICES ASSUME NEW b \in SSHActions, InForce(b)'
                   PROVE  Snapshotted(b)' /\ (timer'[b] # H!Off \/ yielded' = b)
      BY DEF InForceIsArmed
    <3>2. Snapshotted(b) /\ (timer[b] # H!Off \/ yielded = b)
      BY <1>1, <1>2, <2>1, <3>1 DEF InForce
    <3>3. timer'[b] # H!Off \/ yielded' = b
      <4>1. CASE b # a
        BY <1>1, <2>1, <3>2, <4>1 DEF Snapshotted
      <4>2. CASE b = a
        BY <1>4, <2>1, <3>2, <4>2 DEF Snapshotted
      <4> QED
        BY <4>1, <4>2
    <3> QED
      BY <1>1, <3>2, <3>3 DEF Snapshotted
  <2>4. EngineIsHonest'
    BY <1>1, <2>1 DEF EngineIsHonest, LockedStages
  <2> QED
    BY <1>3, <2>2, <2>3, <2>4 DEF HardenInv
<1>5. CASE journal.act # a
  <2>1. H!FileKept /\ H!ExpireEnds(a, H!Off)
    BY <1>5 DEF H!Expire
  <2> QED
    BY <1>4, <1>5, <2>1
<1>6. CASE journal.act = a /\ ok /\ H!Foreign(a)
  <2>1. H!FileKept /\ H!ExpireEnds(a, H!Off)
    BY <1>6 DEF H!Expire, H!RestoreWrites, H!Foreign
  <2>2. yielded' = a
    BY <1>6 DEF H!Expire
  <2> QED
    BY <1>4, <2>1, <2>2
<1>7. CASE journal.act = a /\ ~ok
  <2>1. H!FileKept /\ H!ExpireEnds(a, Retry)
    BY <1>7 DEF H!Expire, H!RestoreWrites
  <2>2. Retry # H!Off
    BY SSHAssumption DEF H!Off
  <2> QED
    BY <1>4, <2>1, <2>2
<1>8. CASE journal.act = a /\ ok /\ ~H!Foreign(a)
  <2>1. /\ file' = H!Plain(journal.snap) /\ owner' = Nobody
        /\ exp' = [act |-> a, at |-> "reload"] /\ timer' = [timer EXCEPT ![a] = H!Off]
    BY <1>8 DEF H!Expire, H!RestoreWrites, H!Writes, H!Foreign
  <2>2. HardenType'
    BY <1>1, <2>1, ConfigsWritten DEF HardenType, Expiring, SomeAction
  <2>3. InForceIsArmed'
    <3>1. SUFFICES ASSUME NEW b \in SSHActions, InForce(b)'
                   PROVE  Snapshotted(b)' /\ exp'.act = b
      BY DEF InForceIsArmed
    <3>2. Snapshotted(b)
      BY <1>1, <1>2, <2>1, <3>1, SSHAssumption DEF InForce
    <3> QED
      BY <1>1, <1>8, <2>1, <3>2 DEF Snapshotted
  <2>4. EngineIsHonest'
    BY <1>1, <2>1 DEF EngineIsHonest, LockedStages
  <2> QED
    BY <1>3, <2>2, <2>3, <2>4 DEF HardenInv
<1> QED
  BY <1>5, <1>6, <1>7, <1>8

(* While the timer holds the lock, the engine does not.                    *)
LEMMA ExpiringAlone ==
  ASSUME HardenInv, exp.at \in {"reload", "clean"}
  PROVE  /\ HardenType /\ exp \in Expiring /\ exp.act \in SSHActions
         /\ eng.at \notin LockedStages /\ owner = Nobody
         /\ exp.at = "clean" => loaded = Nobody
BY EngineAt DEF HardenInv, EngineIsHonest, H!Quiet

(* The reload ends what is in force, or the timer is set again.            *)
LEMMA HardenExpireReloadKeeps ==
  ASSUME HardenInv, NEW ok \in BOOLEAN, H!ExpireReload(ok)
  PROVE  HardenInv'
<1> DEFINE a == exp.act
<1>1. /\ HardenType /\ exp \in Expiring /\ a \in SSHActions /\ exp.at = "reload"
      /\ eng.at \notin LockedStages /\ owner = Nobody
      /\ UNCHANGED <<file, owner, journal, disk, acts, eng, yielded>>
  BY ExpiringAlone DEF H!ExpireReload, H!FileKept, H!JournalKept
<1>2. loaded' \in {loaded, Nobody} /\ (ok => loaded' = Nobody)
  BY <1>1 DEF H!ExpireReload, H!RestoreReloads, H!Loads, H!DaemonKept
<1>3. /\ exp' \in Expiring \cup {H!Quiet} /\ exp'.at \in {"idle", "clean"}
      /\ exp'.at = "clean" => loaded' = Nobody
      /\ timer' \in [SSHActions -> Nat \cup {H!Off}]
      /\ loaded' # Nobody => /\ timer'[a] # H!Off
                             /\ \A b \in SSHActions : timer[b] # H!Off => timer'[b] # H!Off
  <2>1. CASE ok
    <3>1. exp' = [exp EXCEPT !.at = "clean"] /\ timer' = timer
      BY <2>1 DEF H!ExpireReload
    <3> QED
      BY <1>1, <1>2, <2>1, <3>1 DEF HardenType, Expiring
  <2>2. CASE ~ok
    <3>1. H!ExpireEnds(a, Retry)
      BY <2>2 DEF H!ExpireReload
    <3>2. /\ exp' = H!Quiet /\ exp'.at = "idle"
          /\ timer' \in [SSHActions -> Nat \cup {H!Off}] /\ timer'[a] = Retry
          /\ \A b \in SSHActions \ {a} : timer'[b] = timer[b]
      BY <1>1, <3>1, TimerRan DEF HardenType
    <3>3. Retry # H!Off
      BY SSHAssumption DEF H!Off
    <3> QED
      BY <3>2, <3>3
  <2> QED
    BY <2>1, <2>2
<1>4. HardenType'
  BY <1>1, <1>2, <1>3 DEF HardenType, SomeAction
<1>5. InForceIsArmed'
  <2>1. SUFFICES ASSUME NEW b \in SSHActions, InForce(b)'
                 PROVE  Snapshotted(b)' /\ (timer'[b] # H!Off \/ yielded' = b)
    BY DEF InForceIsArmed
  <2>2. InForce(b) /\ loaded' # Nobody
    BY <1>1, <1>2, <2>1, SSHAssumption DEF InForce
  <2>3. Snapshotted(b) /\ (timer[b] # H!Off \/ a = b \/ yielded = b)
    BY <1>1, <2>2 DEF HardenInv, InForceIsArmed, LockedStages
  <2> QED
    BY <1>1, <1>3, <2>2, <2>3 DEF Snapshotted
<1>6. EngineIsHonest'
  BY <1>1, <1>3 DEF EngineIsHonest, LockedStages
<1>7. ConfirmedIsDone'
  BY <1>1 DEF HardenInv, ConfirmedIsDone
<1> QED
  BY <1>4, <1>5, <1>6, <1>7 DEF HardenInv

(* The journal goes last.                                                  *)
LEMMA HardenExpireCleanKeeps ==
  ASSUME HardenInv, NEW how \in H!Removal, H!ExpireClean(how)
  PROVE  HardenInv'
<1> DEFINE a == exp.act
<1>1. /\ HardenType /\ a \in SSHActions /\ eng.at \notin LockedStages
      /\ owner = Nobody /\ loaded = Nobody
      /\ H!Removes(how) /\ H!ExpireEnds(a, H!Off)
      /\ UNCHANGED <<file, owner, loaded, yielded, acts, eng>>
  BY ExpiringAlone DEF H!ExpireClean, H!FileKept, H!DaemonKept
<1>2. /\ journal' \in Snapshots /\ disk' \in Snapshots
      /\ journal' = journal \/ journal'.act = Nobody
      /\ disk' = disk \/ disk'.act = Nobody
  BY <1>1, SnapshotRemoved DEF HardenType
<1>3. exp' = H!Quiet /\ exp'.at = "idle" /\ timer' \in [SSHActions -> Nat \cup {H!Off}]
  BY <1>1, TimerRan DEF HardenType
<1>4. HardenType'
  BY <1>1, <1>2, <1>3 DEF HardenType
<1>5. InForceIsArmed'
  BY <1>1, NothingInForce
<1>6. EngineIsHonest'
  BY <1>1, <1>3 DEF EngineIsHonest, LockedStages
<1>7. ConfirmedIsDone'
  BY <1>1, <1>2, SSHAssumption DEF HardenInv, ConfirmedIsDone
<1> QED
  BY <1>4, <1>5, <1>6, <1>7 DEF HardenInv

-----------------------------------------------------------------------------
(* The host.                                                               *)

(* An edit puts nothing in force, and disarms nothing.                     *)
LEMMA EditKeeps ==
  ASSUME HardenInv, NEW f \in Configs, H!Edit(f)
  PROVE  HardenInv'
<1>1. /\ HardenType /\ file' = f /\ owner' \in {owner, Nobody}
      /\ UNCHANGED <<loaded, journal, disk, timer, acts, eng, exp, yielded>>
  BY DEF HardenInv, H!Edit, H!Writes, H!DaemonKept, H!JournalKept
<1>2. HardenType'
  BY <1>1 DEF HardenType, SomeAction
<1>3. InForceIsArmed'
  BY <1>1, SSHAssumption DEF HardenInv, InForceIsArmed, InForce, Snapshotted
<1>4. EngineIsHonest'
  BY <1>1 DEF HardenInv, EngineIsHonest, Snapshotted
<1>5. ConfirmedIsDone'
  BY <1>1 DEF HardenInv, ConfirmedIsDone
<1> QED
  BY <1>2, <1>3, <1>4, <1>5 DEF HardenInv

(* A reload of sshd puts in force what the file has already.               *)
LEMMA AdminReloadsKeeps ==
  ASSUME HardenInv, H!AdminReloads
  PROVE  HardenInv'
<1>1. /\ HardenType /\ loaded' = owner
      /\ UNCHANGED <<file, owner, journal, disk, timer, acts, eng, exp, yielded>>
  BY DEF HardenInv, H!AdminReloads, H!Loads, H!FileKept, H!JournalKept
<1>2. HardenType'
  BY <1>1 DEF HardenType
<1>3. InForceIsArmed'
  BY <1>1 DEF HardenInv, InForceIsArmed, InForce, Snapshotted
<1>4. EngineIsHonest'
  BY <1>1 DEF HardenInv, EngineIsHonest, Snapshotted
<1>5. ConfirmedIsDone'
  BY <1>1 DEF HardenInv, ConfirmedIsDone
<1> QED
  BY <1>2, <1>3, <1>4, <1>5 DEF HardenInv

(* A start arms what the journal that is there says.                       *)
LEMMA HardenRestartsKeep ==
  ASSUME HardenInv, H!HelperRestarts \/ \E kept \in {journal, disk} : H!HostRestarts(kept)
  PROVE  HardenInv'
<1>1. PICK kept \in {journal, disk} :
        /\ journal'.act = kept.act /\ journal'.snap = kept.snap
        /\ journal' \in Snapshots /\ disk' \in Snapshots
        /\ (journal' = journal /\ disk' = disk) \/ (journal' = kept /\ disk' = kept)
        /\ loaded' \in {loaded, owner}
  BY DEF HardenInv, HardenType, H!HelperRestarts, H!HostRestarts, H!JournalKept, H!DaemonKept,
     H!Loads
<1>2. H!Restarts
  BY DEF H!HelperRestarts, H!HostRestarts
<1>3. /\ file' = file /\ owner' = owner /\ eng' = H!Quiet /\ exp' = H!Quiet
      /\ yielded' = Nobody
      /\ eng'.at = "idle" /\ exp'.at = "idle"
      /\ timer' = [a \in SSHActions |->
                     IF a = journal'.act THEN H!Due(journal'.left) ELSE H!Off]
  BY <1>2 DEF H!Restarts, H!Resumes, H!Quiet
<1>4. /\ acts' \in [SSHActions -> HardenRow]
      /\ \A b \in SSHActions : acts'[b].status \in {acts[b].status, "failed"}
  <2>1. acts \in [SSHActions -> HardenRow]
    BY DEF HardenInv, HardenType
  <2>2. acts' = [a \in SSHActions |->
                   IF a # eng.act THEN acts[a]
                   ELSE [status |-> "failed", state |-> acts[a].state /\ acts[a].status # "new"]]
    BY <1>2 DEF H!Restarts
  <2>3. ASSUME NEW b \in SSHActions
        PROVE  acts'[b] \in HardenRow /\ acts'[b].status \in {acts[b].status, "failed"}
    <3>1. CASE b # eng.act
      BY <2>1, <2>2, <3>1
    <3>2. CASE b = eng.act
      <4> DEFINE s == acts[b].state /\ acts[b].status # "new"
      <4>1. acts'[b] = [status |-> "failed", state |-> s]
        BY <2>2, <3>2
      <4>2. s \in BOOLEAN
        OBVIOUS
      <4> HIDE DEF s
      <4> QED
        BY <4>1, <4>2 DEF HardenRow, HardenStatus
    <3> QED
      BY <3>1, <3>2
  <2>4. acts' = [a \in SSHActions |-> acts'[a]]
    BY <2>2
  <2> QED
    BY <2>3, <2>4
<1>5. ASSUME NEW a \in SSHActions
      PROVE  timer'[a] \in Nat \cup {H!Off} /\ (a = journal'.act => timer'[a] # H!Off)
  <2>1. journal'.left \in Int
    BY <1>1 DEF Snapshots
  <2>2. H!Due(journal'.left) \in Nat
    BY <2>1, SSHAssumption DEF H!Due
  <2> QED
    BY <1>3, <2>2 DEF H!Off
<1>6. timer' \in [SSHActions -> Nat \cup {H!Off}]
  BY <1>3, <1>5
<1>7. HardenType'
  BY <1>1, <1>3, <1>4, <1>6 DEF HardenInv, HardenType, SomeAction
<1>8. InForceIsArmed'
  <2>1. SUFFICES ASSUME NEW b \in SSHActions, InForce(b)'
                 PROVE  Snapshotted(b)' /\ timer'[b] # H!Off
    BY DEF InForceIsArmed
  <2>2. InForce(b)
    BY <1>1, <1>3, <2>1 DEF InForce
  <2>3. Snapshotted(b)
    BY <2>2 DEF HardenInv, InForceIsArmed
  <2>4. Snapshotted(b)' /\ journal'.act = b
    BY <1>1, <2>3 DEF Snapshotted
  <2> QED
    BY <1>5, <2>4
<1>9. EngineIsHonest'
  BY <1>3 DEF EngineIsHonest, LockedStages
<1>10. ConfirmedIsDone'
  BY <1>1, <1>3, <1>4 DEF HardenInv, ConfirmedIsDone
<1> QED
  BY <1>7, <1>8, <1>9, <1>10 DEF HardenInv

(* What the clock does to a journal's deadline changes nothing else of it. *)
LEMMA DeadlineMoves ==
  ASSUME NEW j \in Snapshots, NEW n \in Int
  PROVE  /\ [j EXCEPT !.left = n] \in Snapshots
         /\ [j EXCEPT !.left = n].act = j.act
         /\ [j EXCEPT !.left = n].snap = j.snap
BY DEF Snapshots

(* Neither the passing of time nor the clock disarms a timer.              *)
LEMMA OnlyTime ==
  ASSUME HardenInv, UNCHANGED <<file, acts, eng, exp, owner, loaded, yielded>>,
         timer' \in [SSHActions -> Nat \cup {H!Off}],
         \A a \in SSHActions : timer[a] # H!Off => timer'[a] # H!Off,
         journal' \in Snapshots, journal'.act = journal.act, journal'.snap = journal.snap,
         disk' \in Snapshots, disk'.act = disk.act, disk'.snap = disk.snap
  PROVE  HardenInv'
<1>1. HardenType'
  BY DEF HardenInv, HardenType
<1>2. InForceIsArmed'
  BY DEF HardenInv, InForceIsArmed, InForce, Snapshotted
<1>3. EngineIsHonest'
  BY DEF HardenInv, EngineIsHonest, Snapshotted
<1>4. ConfirmedIsDone'
  BY DEF HardenInv, ConfirmedIsDone
<1> QED
  BY <1>1, <1>2, <1>3, <1>4 DEF HardenInv

(* A tick.                                                                 *)
LEMMA HardenTickKeeps ==
  ASSUME HardenInv, H!Tick
  PROVE  HardenInv'
<1>1. ASSUME NEW j \in Snapshots
      PROVE  H!Ages(j) \in Snapshots /\ H!Ages(j).act = j.act /\ H!Ages(j).snap = j.snap
  <2>1. j.left \in Int
    BY DEF Snapshots
  <2>2. H!Lower(j.left) \in Int
    BY <2>1 DEF H!Lower
  <2>3. H!Ages(j) = j \/ H!Ages(j) = [j EXCEPT !.left = H!Lower(j.left)]
    BY DEF H!Ages
  <2> QED
    BY <2>2, <2>3, DeadlineMoves
<1>2. /\ journal' \in Snapshots /\ journal'.act = journal.act /\ journal'.snap = journal.snap
      /\ disk' \in Snapshots /\ disk'.act = disk.act /\ disk'.snap = disk.snap
  BY <1>1 DEF HardenInv, HardenType, H!Tick
<1>3. ASSUME NEW a \in SSHActions
      PROVE  timer'[a] \in Nat \cup {H!Off} /\ (timer[a] # H!Off => timer'[a] # H!Off)
  BY DEF HardenInv, HardenType, H!Tick, H!Off
<1>4. timer' = [a \in SSHActions |-> timer'[a]]
  BY DEF H!Tick
<1>5. timer' \in [SSHActions -> Nat \cup {H!Off}]
  BY <1>3, <1>4
<1> QED
  BY <1>2, <1>3, <1>5, OnlyTime DEF H!Tick, H!FileKept, H!DaemonKept

(* The wall clock is set.                                                  *)
LEMMA ClockSetKeeps ==
  ASSUME HardenInv, NEW by \in {-Jump, Jump}, H!ClockSet(by)
  PROVE  HardenInv'
<1>1. ASSUME NEW j \in Snapshots
      PROVE  /\ H!Shifted(j, by) \in Snapshots
             /\ H!Shifted(j, by).act = j.act /\ H!Shifted(j, by).snap = j.snap
  <2>1. j.left \in Int /\ by \in Int
    BY SSHAssumption DEF Snapshots
  <2>2. j.left + by \in Int
    BY <2>1
  <2>3. H!Shifted(j, by) = j \/ H!Shifted(j, by) = [j EXCEPT !.left = j.left + by]
    BY DEF H!Shifted
  <2> QED
    BY <2>2, <2>3, DeadlineMoves
<1>2. /\ journal' \in Snapshots /\ journal'.act = journal.act /\ journal'.snap = journal.snap
      /\ disk' \in Snapshots /\ disk'.act = disk.act /\ disk'.snap = disk.snap
  BY <1>1 DEF HardenInv, HardenType, H!ClockSet
<1>3. timer' = timer /\ timer \in [SSHActions -> Nat \cup {H!Off}]
  BY DEF HardenInv, HardenType, H!ClockSet
<1> QED
  BY <1>2, <1>3, OnlyTime DEF H!ClockSet, H!FileKept, H!DaemonKept

-----------------------------------------------------------------------------
(* Every step.                                                             *)

(* What the playbook's part of the system does keeps the invariant.        *)
LEMMA HardenStepKeeps ==
  ASSUME HardenInv, [H!Next]_hardenVars
  PROVE  HardenInv'
<1>1. CASE H!Engine
  <2>1. ASSUME NEW a \in SSHActions, NEW ok \in BOOLEAN,
               H!AskRollback(a) \/ H!ApplyStart(a, ok) \/ H!ConfirmStart(a, ok)
        PROVE  HardenInv'
    BY <2>1, AskRollbackKeeps, ApplyStartKeeps, ConfirmStartKeeps
  <2>2. ASSUME NEW how \in H!Removal \cup {"unreadable"}, H!ApplyJournal(how)
        PROVE  HardenInv'
    BY <2>2, ApplyJournalKeeps
  <2>3. ASSUME NEW ok \in BOOLEAN, NEW repaired \in BOOLEAN,
               H!ApplyWrite(ok, repaired) \/ H!ApplyReload(ok, repaired)
        PROVE  HardenInv'
    BY <2>3, ApplyWriteKeeps, ApplyReloadKeeps
  <2>4. ASSUME NEW ok \in BOOLEAN, H!Verify(ok) \/ H!RollbackWrite(ok) \/ H!RollbackReload(ok)
        PROVE  HardenInv'
    BY <2>4, HardenVerifyKeeps, RollbackWriteKeeps, RollbackReloadKeeps
  <2>5. ASSUME NEW how \in H!Removal, H!ApplyCleanup(how) \/ H!RollbackClean(how) \/ H!Confirm(how)
        PROVE  HardenInv'
    BY <2>5, ApplyCleanupKeeps, RollbackEndKeeps, ConfirmKeeps
  <2> QED
    BY <1>1, <2>1, <2>2, <2>3, <2>4, <2>5 DEF H!Engine
<1>2. CASE H!Timer
  BY <1>2, HardenExpireKeeps, HardenExpireReloadKeeps, HardenExpireCleanKeeps DEF H!Timer
<1>3. CASE H!Host
  BY <1>3, EditKeeps, AdminReloadsKeeps, HardenRestartsKeep, HardenTickKeeps, ClockSetKeeps,
     ConfigsWritten DEF H!Host
<1>4. CASE UNCHANGED hardenVars
  BY <1>4 DEF hardenVars, HardenInv, HardenType, InForceIsArmed, InForce, Snapshotted,
     EngineIsHonest, ConfirmedIsDone
<1> QED
  BY <1>1, <1>2, <1>3, <1>4 DEF H!Next

(* It holds when the playbook begins.                                      *)
LEMMA HardenBegins ==
  ASSUME H!Init
  PROVE  HardenInv
<1> DEFINE t == CHOOSE t \in H!Texts : TRUE
<1>1. t \in H!Texts
  BY SomeText
<1>2. /\ file = H!Plain(t) /\ yielded = Nobody
      /\ journal = H!NoJournal /\ disk = H!NoJournal
      /\ timer = [a \in SSHActions |-> H!Off]
      /\ acts = [a \in SSHActions |-> [status |-> "new", state |-> FALSE]]
      /\ eng = H!Quiet /\ exp = H!Quiet /\ owner = Nobody /\ loaded = Nobody
  BY DEF H!Init
<1> HIDE DEF t
<1>3. HardenType
  BY <1>1, <1>2, ConfigsWritten, NoSnapshot DEF HardenType, HardenRow, HardenStatus, SomeAction
<1>4. InForceIsArmed
  BY <1>2, SSHAssumption DEF InForceIsArmed, InForce
<1>5. EngineIsHonest /\ ConfirmedIsDone
  BY <1>2 DEF EngineIsHonest, ConfirmedIsDone, LockedStages, H!Quiet
<1> QED
  BY <1>3, <1>4, <1>5 DEF HardenInv

(* The other parts leave this one alone.                                   *)
LEMMA HardenAlone ==
  ASSUME Next
  PROVE  [H!Next]_hardenVars
BY DEF Next, Only

(* Every reachable state of the hardening playbook.                        *)
LEMMA HardenInvariant == Spec => []HardenInv
<1>1. Init => HardenInv
  BY HardenBegins DEF Init
<1>2. HardenInv /\ [Next]_<<part, elementVars, hardenVars, suspendVars, notifyVars, reportVars,
                            enrolVars, baselineVars, windowVars>> => HardenInv'
  BY HardenStepKeeps, HardenAlone
<1> QED
  BY <1>1, <1>2, PTL DEF Spec

(* For every set of hardenings, contents and modes, any delays and any     *)
(* setting of the clock: as long as what the playbook wrote is in the file *)
(* or in sshd and unconfirmed, the snapshot is on disk and somebody comes  *)
(* to it, unless the timer has met an edit of the administrator's and the  *)
(* Helper has not started since (internal/action/ssh_hardening.go).        *)
THEOREM UndoIsArmed == Spec => []UndoArmed
<1>1. HardenInv => UndoArmed
  BY DEF HardenInv, InForceIsArmed, InForce, Snapshotted, UndoArmed, H!UndoArmed
<1> QED
  BY <1>1, HardenInvariant, PTL

(* Who changes sshd_config: the administrator, an Apply that is running,   *)
(* or an undo, and the undo only what its action left.                     *)
LEMMA FileWritten ==
  ASSUME HardenInv, H!Next, file' # file
  PROVE  \/ H!Edits
         \/ /\ journal.act \in SSHActions
            /\ \/ eng.at \in {"write", "reload"}
               \/ file' = H!Plain(journal.snap) /\ ~H!Foreign(journal.act)
<1>1. CASE \E ok, repaired \in BOOLEAN : H!ApplyWrite(ok, repaired) \/ H!ApplyReload(ok, repaired)
  <2>1. eng.at \in {"write", "reload"}
    BY <1>1 DEF H!ApplyWrite, H!ApplyReload
  <2> QED
    BY <2>1, EngineAt DEF HardenInv, EngineIsHonest, Snapshotted, LockedStages
<1>2. CASE \E ok \in BOOLEAN : H!RollbackWrite(ok)
  <2>1. PICK ok \in BOOLEAN : H!RollbackWrite(ok)
    BY <1>2
  <2>2. eng.act \in SSHActions /\ journal.act = eng.act /\ H!RestoreWrites(ok)
    BY <2>1, EngineAt DEF HardenInv, H!RollbackWrite, H!FileKept
  <2> QED
    BY <2>2 DEF H!RestoreWrites, H!FileKept, H!Writes
<1>3. CASE \E a \in SSHActions, ok \in BOOLEAN : H!Expire(a, ok)
  <2>1. PICK a \in SSHActions, ok \in BOOLEAN : H!Expire(a, ok)
    BY <1>3
  <2>2. journal.act = a /\ H!RestoreWrites(ok)
    BY <2>1 DEF H!Expire, H!FileKept
  <2> QED
    BY <2>2 DEF H!RestoreWrites, H!FileKept, H!Writes
<1>4. CASE ~(\E ok, repaired \in BOOLEAN : H!ApplyWrite(ok, repaired) \/ H!ApplyReload(ok, repaired))
           /\ ~(\E ok \in BOOLEAN : H!RollbackWrite(ok))
           /\ ~(\E a \in SSHActions, ok \in BOOLEAN : H!Expire(a, ok))
  <2>1. CASE H!Engine
    BY <1>4, <2>1 DEF H!Engine, H!AskRollback, H!ApplyStart, H!ConfirmStart, H!ApplyJournal, H!Verify,
       H!RollbackReload, H!ApplyCleanup, H!RollbackClean, H!Confirm, H!FileKept
  <2>2. CASE H!Timer
    BY <1>4, <2>2 DEF H!Timer, H!ExpireReload, H!ExpireClean, H!FileKept
  <2>3. CASE H!Host
    BY <2>3 DEF H!Host, H!Edits, H!AdminReloads, H!HelperRestarts, H!HostRestarts, H!Restarts,
       H!Tick, H!ClockSet, H!FileKept
  <2> QED
    BY <2>1, <2>2, <2>3 DEF H!Next
<1> QED
  BY <1>1, <1>2, <1>3, <1>4

(* For every set of hardenings, contents and modes, any delays and any     *)
(* setting of the clock: a hardening that was confirmed is undone by       *)
(* nothing but an edit of the administrator, and the file is overwritten   *)
(* by nothing but an Apply that is running, unless it is, content, mode    *)
(* and owner, what the snapshot's own action made of it                    *)
(* (internal/action/ssh_hardening.go).                                     *)
THEOREM UndoTouchesNothingElse == Spec => UndoIsExact
<1>1. ASSUME HardenInv, H!Next, file.hard, ~file'.hard
      PROVE  \/ H!Edits
             \/ journal.act # Nobody /\ acts[journal.act].status # "confirmed"
  <2>1. file' # file
    BY <1>1
  <2> QED
    BY <1>1, <2>1, FileWritten, SSHAssumption DEF HardenInv, ConfirmedIsDone
<1>2. ASSUME HardenInv, H!Next, file' # file
      PROVE  H!Edits \/ eng.at \in {"write", "reload"} \/ file = H!Hardened(journal.snap)
  <2>1. CASE file' = H!Plain(journal.snap) /\ ~H!Foreign(journal.act)
    <3>1. file = H!Plain(journal.snap) \/ file = H!Hardened(journal.snap)
      BY <2>1 DEF H!Foreign
    <3> QED
      BY <1>2, <2>1, <3>1
  <2> QED
    BY <1>2, <2>1, FileWritten
<1>3. HardenInv /\ [Next]_<<part, elementVars, hardenVars, suspendVars, notifyVars, reportVars,
                            enrolVars, baselineVars, windowVars>>
        => [file.hard /\ ~file'.hard =>
              \/ H!Edits
              \/ journal.act # Nobody /\ acts[journal.act].status # "confirmed"]_(H!sshVars)
  BY <1>1, HardenAlone DEF hardenVars, H!sshVars
<1>4. HardenInv /\ [Next]_<<part, elementVars, hardenVars, suspendVars, notifyVars, reportVars,
                            enrolVars, baselineVars, windowVars>>
        => [file' # file =>
              H!Edits \/ eng.at \in {"write", "reload"} \/ file = H!Hardened(journal.snap)]_(H!sshVars)
  BY <1>2, HardenAlone DEF hardenVars, H!sshVars
<1> QED
  BY <1>3, <1>4, HardenInvariant, PTL
     DEF Spec, UndoIsExact, H!UndoIsExact, H!ConfirmedStays, H!EditsSurvive

-----------------------------------------------------------------------------
(* The sensors with a baseline: what is true of every state.               *)

Baselines == [there : BOOLEAN, generation : Nat, items : SUBSET Items, full : BOOLEAN]

SensorType ==
  /\ kind \in Kinds /\ host \in SUBSET Items
  /\ saved \in Baselines /\ pending \in Baselines
  /\ poll.at \in {"idle", "queue", "commit"} /\ refused \in BOOLEAN
  /\ poll.at # "queue" => poll.events = {}
  /\ news \subseteq known
  /\ saved.there \/ saved = S!Blank
  /\ pending.there \/ pending = S!Blank

(* No event of X has a generation later than g.                            *)
UpTo(X, g) ==
  \A later \in Nat : later > g =>
    /\ \A i \in Items, there \in BOOLEAN : <<"item", i, there, later>> \notin X
    /\ \A items \in SUBSET Items : <<"capacity", items, later>> \notin X

(* What the last Commit knew is of its generation or of an earlier one,    *)
(* and what came since is of the next, or of the snapshot that waits.      *)
IdsAreNew ==
  kind # "processes" =>
    /\ UpTo(known \ news, saved.generation)
    /\ UpTo(known \cup poll.events, saved.generation + 1)
    /\ pending # S!Blank => UpTo(known \cup poll.events, pending.generation)
    /\ poll.events # {} => pending.generation = saved.generation + 1

(* The events that tell of the snapshot that waits.                        *)
Telling == (IF kind = "processes" THEN known ELSE news) \cup poll.events

(* What the snapshot that waits would pass over is queued, or about to be. *)
PendingIsTold ==
  /\ kind = "files" /\ pending # S!Blank => saved.there
  /\ kind = "processes" /\ pending # S!Blank => pending.generation = 0
  /\ pending # S!Blank /\ ~refused =>
       \/ S!Whole(pending.items, pending.generation) \in Telling
       \/ /\ saved.there \/ kind = "processes"
          /\ \A i \in S!Differ(saved.items, pending.items) :
               \/ kind = "processes" /\ i \notin pending.items
               \/ S!Change(pending.items, i, pending.generation) \in Telling

SensorInv == SensorType /\ IdsAreNew /\ PendingIsTold

(* A sensor begins with nothing read and nothing to tell.                   *)
LEMMA SensorBegins ==
  ASSUME S!Init
  PROVE  SensorInv
<1>1. S!Blank \in Baselines
  BY DEF S!Blank, Baselines
<1> QED
  BY <1>1 DEF S!Init, S!Idle, SensorInv, SensorType, IdsAreNew, UpTo, PendingIsTold, Telling

(* A poll under way queues nothing until it has ended.                     *)
LEMMA PollRests ==
  ASSUME SensorInv, S!Poll
  PROVE  /\ poll = S!Idle /\ UNCHANGED <<kind, host, known, news, refused>>
         /\ known \cup poll.events = known
         /\ Telling = IF kind = "processes" THEN known ELSE news
BY DEF S!Poll, S!Idle, Telling

(* A poll of files or listeners that found something.                      *)
LEMMA ChangeFound ==
  ASSUME SensorInv, S!Poll, kind # "processes", NEW full \in BOOLEAN, NEW events,
         \/ kind = "listeners" /\ events = {S!Whole(host, saved.generation + 1)}
         \/ /\ saved.there
            /\ events = {S!Change(host, i, saved.generation + 1) :
                           i \in S!Differ(saved.items, host)},
         S!Finds(events, S!Snapshot(saved.generation + 1, host, full)), UNCHANGED saved
  PROVE  SensorInv'
<1> DEFINE g == saved.generation + 1
<1>1. /\ poll = S!Idle /\ UNCHANGED <<kind, host, known, news, refused>>
      /\ known \cup poll.events = known
  BY PollRests
<1>2. /\ pending' = [there |-> TRUE, generation |-> g, items |-> host, full |-> full]
      /\ poll' = [at |-> "queue", events |-> events]
  BY DEF S!Finds, S!Snapshot
<1>3. saved.generation \in Nat /\ host \in SUBSET Items /\ saved.items \subseteq Items
  BY DEF SensorInv, SensorType, Baselines
<1>4. SensorType'
  BY <1>1, <1>2, <1>3 DEF SensorInv, SensorType, Baselines
<1>5. UpTo(events, g)
  BY <1>3 DEF UpTo, S!Whole, S!Change, S!Differ
<1>6. UpTo(known, g)
  BY <1>1 DEF SensorInv, IdsAreNew
<1>7. IdsAreNew'
  BY <1>1, <1>2, <1>3, <1>5, <1>6 DEF SensorInv, IdsAreNew, UpTo
<1>8. PendingIsTold'
  <2>1. events \subseteq Telling'
    BY <1>1, <1>2 DEF Telling
  <2>2. CASE kind = "listeners" /\ events = {S!Whole(host, g)}
    <3>1. S!Whole(host, g) \in Telling'
      BY <2>1, <2>2
    <3>2. kind # "files" \/ saved.there
      BY <2>2
    <3> QED
      BY <1>1, <1>2, <3>1, <3>2 DEF PendingIsTold, SensorInv
  <2> QED
    BY <1>1, <1>2, <2>1, <2>2 DEF PendingIsTold
<1> QED
  BY <1>4, <1>7, <1>8 DEF SensorInv

(* A poll that found nothing, and the very first one.                      *)
LEMMA NothingFound ==
  ASSUME SensorInv, S!Poll, poll'.at = "queue", poll'.events = {}, pending' = pending,
         \/ UNCHANGED saved
         \/ S!FirstBaseline /\ ~saved.there /\ kind # "processes"
  PROVE  SensorInv'
<1>1. /\ poll = S!Idle /\ UNCHANGED <<kind, host, known, news, refused>>
      /\ known \cup poll.events = known
      /\ Telling = IF kind = "processes" THEN known ELSE news
  BY PollRests
<1>2. Telling' = Telling /\ (known \cup poll.events)' = known
  BY <1>1 DEF Telling
<1>3. CASE UNCHANGED saved
  <2>1. SensorType'
    BY <1>1, <1>3 DEF SensorInv, SensorType
  <2>2. IdsAreNew'
    BY <1>1, <1>2, <1>3 DEF SensorInv, IdsAreNew
  <2>3. PendingIsTold'
    BY <1>1, <1>2, <1>3 DEF SensorInv, PendingIsTold
  <2> QED
    BY <2>1, <2>2, <2>3 DEF SensorInv
<1>4. CASE S!FirstBaseline /\ ~saved.there /\ kind # "processes"
  <2>1. saved' = [there |-> TRUE, generation |-> 1, items |-> host, full |-> FALSE]
    BY <1>4 DEF S!FirstBaseline, S!Snapshot
  <2>2. saved.generation = 0
    BY <1>4 DEF SensorInv, SensorType, S!Blank
  <2>3. SensorType'
    BY <1>1, <2>1 DEF SensorInv, SensorType, Baselines
  <2>4. IdsAreNew'
    BY <1>1, <1>2, <2>1, <2>2 DEF SensorInv, IdsAreNew, UpTo
  <2>5. PendingIsTold'
    BY <1>1, <1>2, <1>4, <2>1 DEF SensorInv, PendingIsTold
  <2> QED
    BY <2>3, <2>4, <2>5 DEF SensorInv
<1> QED
  BY <1>3, <1>4

(* A poll of processes.                                                    *)
LEMMA ProcessesFound ==
  ASSUME SensorInv, S!Poll, kind = "processes", S!PollProcesses
  PROVE  SensorInv'
<1>1. /\ poll = S!Idle /\ UNCHANGED <<kind, host, known, news, refused>>
      /\ known \cup poll.events = known
  BY PollRests
<1>2. PICK seen \in SUBSET host : \E told \in SUBSET (seen \ saved.items) :
        LET full == S!Cardinality(host) > Capacity
            new == seen \ saved.items
            news0 == {S!Change(seen, i, 0) : i \in told}
            degraded == \/ full /\ (~saved.full \/ seen # saved.items)
                        \/ told # new
                        \/ saved.full /\ ~full
            events == news0 \cup (IF degraded THEN {S!Whole(seen, 0)} ELSE {})
        IN /\ IF full THEN S!Cardinality(seen) = Capacity ELSE seen = host
           /\ IF S!Cardinality(new) > Batch THEN S!Cardinality(told) = Batch
              ELSE told = new
           /\ S!Finds(events,
                      IF events # {} \/ ~saved.there
                         \/ S!Cardinality(seen) # S!Cardinality(saved.items)
                      THEN S!Snapshot(0, seen, full) ELSE pending)
           /\ UNCHANGED saved
  BY DEF S!PollProcesses
<1>3. PICK told \in SUBSET (seen \ saved.items) :
        LET full == S!Cardinality(host) > Capacity
            new == seen \ saved.items
            news0 == {S!Change(seen, i, 0) : i \in told}
            degraded == \/ full /\ (~saved.full \/ seen # saved.items)
                        \/ told # new
                        \/ saved.full /\ ~full
            events == news0 \cup (IF degraded THEN {S!Whole(seen, 0)} ELSE {})
        IN /\ IF full THEN S!Cardinality(seen) = Capacity ELSE seen = host
           /\ IF S!Cardinality(new) > Batch THEN S!Cardinality(told) = Batch
              ELSE told = new
           /\ S!Finds(events,
                      IF events # {} \/ ~saved.there
                         \/ S!Cardinality(seen) # S!Cardinality(saved.items)
                      THEN S!Snapshot(0, seen, full) ELSE pending)
           /\ UNCHANGED saved
  BY <1>2
<1> DEFINE full == S!Cardinality(host) > Capacity
           degraded == \/ full /\ (~saved.full \/ seen # saved.items)
                       \/ told # seen \ saved.items
                       \/ saved.full /\ ~full
           events == {S!Change(seen, i, 0) : i \in told}
                     \cup (IF degraded THEN {S!Whole(seen, 0)} ELSE {})
<1>4. /\ saved' = saved
      /\ S!Finds(events, IF events # {} \/ ~saved.there
                            \/ S!Cardinality(seen) # S!Cardinality(saved.items)
                          THEN S!Snapshot(0, seen, full) ELSE pending)
  BY <1>3
<1>5. told # seen \ saved.items => S!Whole(seen, 0) \in events
  OBVIOUS
<1>6. \A i \in told : S!Change(seen, i, 0) \in events
  OBVIOUS
<1>7. full \in BOOLEAN /\ seen \subseteq Items
  BY DEF SensorInv, SensorType
<1> HIDE DEF full, degraded, events
<1>8. /\ poll' = [at |-> "queue", events |-> events]
      /\ \/ pending' = S!Snapshot(0, seen, full)
         \/ events = {} /\ pending' = pending
  BY <1>4 DEF S!Finds
<1>9. CASE pending' = S!Snapshot(0, seen, full)
  <2>1. pending' = [there |-> TRUE, generation |-> 0, items |-> seen, full |-> full]
    BY <1>9 DEF S!Snapshot
  <2>2. SensorType'
    BY <1>1, <1>4, <1>8, <1>7, <2>1 DEF SensorInv, SensorType, Baselines
  <2>3. Telling' = known \cup events
    BY <1>1, <1>8 DEF Telling
  <2>4. ASSUME told # seen \ saved.items PROVE PendingIsTold'
    <3>1. S!Whole(seen, 0) \in Telling'
      BY <1>5, <2>3, <2>4
    <3> QED
      BY <1>1, <2>1, <3>1 DEF PendingIsTold
  <2>5. ASSUME told = seen \ saved.items PROVE PendingIsTold'
    <3>1. \A i \in S!Differ(saved.items, seen) : i \in seen => S!Change(seen, i, 0) \in Telling'
      BY <1>6, <2>3, <2>5 DEF S!Differ
    <3> QED
      BY <1>1, <1>4, <2>1, <3>1 DEF PendingIsTold
  <2> QED
    BY <1>1, <2>2, <2>4, <2>5 DEF SensorInv, IdsAreNew
<1>10. CASE events = {} /\ pending' = pending
  BY <1>4, <1>8, <1>10, NothingFound
<1> QED
  BY <1>8, <1>9, <1>10

(* A poll of files or of listeners.                                        *)
LEMMA FilesFound ==
  ASSUME SensorInv, S!Poll, kind = "files", S!PollFiles
  PROVE  SensorInv'
<1>1. CASE ~saved.there
  <2>1. S!FirstBaseline
    BY <1>1 DEF S!PollFiles
  <2>2. poll'.at = "queue" /\ poll'.events = {} /\ pending' = pending
    BY <2>1 DEF S!FirstBaseline
  <2> QED
    BY <1>1, <2>1, <2>2, NothingFound
<1>2. CASE saved.there /\ S!Differ(saved.items, host) = {}
  <2>1. S!Finds({}, pending) /\ UNCHANGED saved
    BY <1>2 DEF S!PollFiles
  <2> QED
    BY <2>1, NothingFound DEF S!Finds
<1>3. CASE saved.there /\ S!Differ(saved.items, host) # {}
  <2> DEFINE events == {S!Change(host, i, saved.generation + 1) :
                          i \in S!Differ(saved.items, host)}
  <2>1. /\ S!Finds(events, S!Snapshot(saved.generation + 1, host, FALSE))
        /\ UNCHANGED saved
    BY <1>3 DEF S!PollFiles, S!Later
  <2> QED
    BY <1>3, <2>1, ChangeFound
<1> QED
  BY <1>1, <1>2, <1>3

(* A poll of listeners that found a change, or its first snapshot.          *)
LEMMA ListenersFound ==
  ASSUME SensorInv, S!Poll, kind = "listeners", S!PollListeners
  PROVE  SensorInv'
<1> DEFINE full == S!Cardinality(host) > Capacity
           g == saved.generation + 1
           changed == S!Differ(saved.items, host)
           events == {S!Change(host, i, g) : i \in changed}
<1>1. (IF saved.there THEN S!Later(saved.generation) ELSE 1) = g
  BY DEF SensorInv, SensorType, S!Blank, S!Later
<1>2. \/ ~saved.there /\ S!FirstBaseline
      \/ S!Finds({}, pending) /\ UNCHANGED saved
      \/ S!Finds({S!Whole(host, g)}, S!Snapshot(g, host, full)) /\ UNCHANGED saved
      \/ /\ saved.there /\ S!Finds(events, S!Snapshot(g, host, full)) /\ UNCHANGED saved
  <2>1. CASE ~saved.there /\ ~full
    BY <2>1 DEF S!PollListeners
  <2>2. CASE saved.there \/ full
    BY <1>1, <2>2 DEF S!PollListeners
  <2> QED
    BY <2>1, <2>2
<1>3. full \in BOOLEAN
  OBVIOUS
<1> HIDE DEF full
<1>4. CASE ~saved.there /\ S!FirstBaseline
  <2>1. poll'.at = "queue" /\ poll'.events = {} /\ pending' = pending
    BY <1>4 DEF S!FirstBaseline
  <2> QED
    BY <1>4, <2>1, NothingFound
<1>5. CASE S!Finds({}, pending) /\ UNCHANGED saved
  BY <1>5, NothingFound DEF S!Finds
<1>6. CASE S!Finds({S!Whole(host, g)}, S!Snapshot(g, host, full)) /\ UNCHANGED saved
  BY <1>3, <1>6, ChangeFound
<1>7. CASE saved.there /\ S!Finds(events, S!Snapshot(g, host, full)) /\ UNCHANGED saved
  BY <1>3, <1>7, ChangeFound
<1> QED
  BY <1>2, <1>4, <1>5, <1>6, <1>7

(* The invariant holds after every step of a sensor.                       *)
LEMMA SensorStepKeeps ==
  ASSUME SensorInv, [S!Next]_baselineVars
  PROVE  SensorInv'
<1>1. CASE S!Poll
  BY <1>1, FilesFound, ListenersFound, ProcessesFound DEF S!Poll
<1>2. CASE S!Enqueue
  <2>1. /\ UNCHANGED <<kind, host, saved, pending, refused>>
        /\ poll'.at = "commit" /\ poll'.events = {} /\ known' = known \cup poll.events
        /\ news' = news \cup (poll.events \ known)
    BY <1>2 DEF S!Enqueue
  <2>2. SensorType'
    BY <2>1 DEF SensorInv, SensorType
  <2>3. known' \ news' \subseteq known \ news /\ (known \cup poll.events)' = known \cup poll.events
    BY <2>1
  <2>4. IdsAreNew'
    BY <2>1, <2>3 DEF SensorInv, IdsAreNew, UpTo
  <2>5. kind = "processes" => Telling' = Telling
    BY <2>1 DEF Telling
  <2>6. ASSUME kind # "processes", NEW e \in Telling,
               poll.events # {} => e \notin known \ news
        PROVE  e \in Telling'
    BY <2>1, <2>6 DEF Telling
  <2>7. CASE kind # "processes"
    <3>1. pending \in Baselines /\ saved.generation \in Nat /\ saved.items \subseteq Items
      BY DEF SensorInv, SensorType, Baselines
    <3>2. ASSUME poll.events # {}
          PROVE  S!Whole(pending.items, pending.generation) \notin known \ news
      <4>1. UpTo(known \ news, saved.generation) /\ pending.generation = saved.generation + 1
        BY <2>7, <3>2 DEF SensorInv, IdsAreNew
      <4> QED
        BY <3>1, <4>1 DEF S!Whole, UpTo, Baselines
    <3>3. ASSUME poll.events # {}, NEW i \in S!Differ(saved.items, pending.items)
          PROVE  S!Change(pending.items, i, pending.generation) \notin known \ news
      <4>1. UpTo(known \ news, saved.generation) /\ pending.generation = saved.generation + 1
        BY <2>7, <3>3 DEF SensorInv, IdsAreNew
      <4>2. i \in Items
        BY <3>1, <3>3 DEF S!Differ, Baselines
      <4>3. \A there \in BOOLEAN : <<"item", i, there, pending.generation>> \notin known \ news
        BY <3>1, <4>1, <4>2 DEF UpTo, Baselines
      <4>4. CASE i \in pending.items
        <5>1. S!Change(pending.items, i, pending.generation) =
                <<"item", i, TRUE, pending.generation>>
          BY <4>4 DEF S!Change
        <5> QED
          BY <4>3, <5>1
      <4>5. CASE i \notin pending.items
        <5>1. S!Change(pending.items, i, pending.generation) =
                <<"item", i, FALSE, pending.generation>>
          <6>1. (i \in pending.items) = FALSE
            BY <4>5
          <6> QED
            BY <6>1, Zenon DEF S!Change
        <5> QED
          BY <4>3, <5>1
      <4> QED
        BY <4>4, <4>5
    <3>4. PendingIsTold'
      BY <2>1, <2>6, <2>7, <3>2, <3>3 DEF SensorInv, PendingIsTold
    <3> QED
      BY <2>2, <2>4, <3>4 DEF SensorInv
  <2>8. ASSUME kind = "processes" PROVE PendingIsTold'
    BY <2>1, <2>5, <2>8 DEF SensorInv, PendingIsTold
  <2> QED
    BY <2>2, <2>4, <2>7, <2>8 DEF SensorInv
<1>3. CASE S!QueueRefuses
  <2>1. /\ UNCHANGED <<kind, host, saved, pending, known, news>>
        /\ poll' = [at |-> "idle", events |-> {}] /\ refused'
    BY <1>3 DEF S!QueueRefuses, S!Idle
  <2> QED
    BY <2>1 DEF SensorInv, SensorType, IdsAreNew, UpTo, PendingIsTold
<1>4. CASE S!Commit
  <2>1. /\ UNCHANGED <<kind, host, known, refused>> /\ poll.events = {}
        /\ poll' = [at |-> "idle", events |-> {}]
    BY <1>4 DEF S!Commit, S!Idle, SensorInv, SensorType
  <2>2. CASE UNCHANGED <<saved, pending, news>>
    <3>1. Telling' = Telling /\ (known \cup poll.events)' = known \cup poll.events
      BY <2>1, <2>2 DEF Telling
    <3> QED
      BY <2>1, <2>2, <3>1 DEF SensorInv, SensorType, IdsAreNew, PendingIsTold
  <2>3. CASE pending # S!Blank /\ saved' = pending /\ pending' = S!Blank /\ news' = {}
    <3>1. S!Blank \in Baselines
      BY DEF S!Blank, Baselines
    <3>2. SensorType'
      BY <2>1, <2>3, <3>1 DEF SensorInv, SensorType
    <3>3. IdsAreNew'
      BY <2>1, <2>3 DEF SensorInv, SensorType, IdsAreNew, UpTo, Baselines
    <3> QED
      BY <2>1, <2>3, <3>2, <3>3 DEF SensorInv, PendingIsTold
  <2> QED
    BY <1>4, <2>2, <2>3 DEF S!Commit
<1>5. CASE S!Dies
  <2>1. /\ UNCHANGED <<kind, host, saved, known, news>> /\ pending' = S!Blank
        /\ poll' = [at |-> "idle", events |-> {}] /\ refused' = FALSE
    BY <1>5 DEF S!Dies, S!Idle
  <2>2. S!Blank \in Baselines
    BY DEF S!Blank, Baselines
  <2> QED
    BY <2>1, <2>2 DEF SensorInv, SensorType, IdsAreNew, UpTo, PendingIsTold
<1>6. CASE S!HostChanges
  <2>1. UNCHANGED <<kind, saved, pending, poll, known, news, refused>> /\ host' \in SUBSET Items
    BY <1>6 DEF S!HostChanges
  <2>2. Telling' = Telling
    BY <2>1 DEF Telling
  <2> QED
    BY <2>1, <2>2 DEF SensorInv, SensorType, IdsAreNew, PendingIsTold
<1>7. CASE UNCHANGED baselineVars
  BY <1>7 DEF baselineVars, SensorInv, SensorType, IdsAreNew, UpTo, PendingIsTold, Telling
<1> QED
  BY <1>1, <1>2, <1>3, <1>4, <1>5, <1>6, <1>7 DEF S!Next

(* The other parts leave this one alone.                                   *)
LEMMA SensorAlone ==
  ASSUME Next
  PROVE  [S!Next]_baselineVars
BY DEF Next, Only

(* For every set of items and any capacity and batch: the baseline on disk *)
(* never moves past a change whose event is not durable, or whose id is an *)
(* old one, unless the queue refused an entry since the Agent's start      *)
(* (agent/baselinewatch.go, networkwatch.go, processwatch.go).             *)
THEOREM ChangesReachTheQueue == Spec => ChangesAreTold
<1>1. Init => SensorInv
  BY SensorBegins DEF Init
<1>2. SensorInv /\ [Next]_<<part, elementVars, hardenVars, suspendVars, notifyVars, reportVars,
                            enrolVars, baselineVars, windowVars>> => SensorInv'
  BY SensorStepKeeps, SensorAlone
<1>3. ASSUME SensorInv, S!Next, saved' # saved, saved.there, ~refused
      PROVE  S!Told(saved, saved')
  <2>1. CASE S!Commit
    <3>1. saved' = pending /\ pending # S!Blank /\ poll.events = {}
      BY <1>3, <2>1 DEF S!Commit, SensorInv, SensorType
    <3>2. Telling = IF kind = "processes" THEN known ELSE news
      BY <3>1 DEF Telling
    <3>3. S!Told(saved, pending)
      BY <1>3, <3>1, <3>2 DEF S!Told, SensorInv, PendingIsTold
    <3> QED
      BY <3>1, <3>3
  <2> QED
    BY <1>3, <2>1 DEF S!Next, S!Poll, S!PollFiles, S!PollListeners, S!PollProcesses,
       S!Enqueue, S!QueueRefuses, S!Dies, S!HostChanges
<1>4. SensorInv /\ [Next]_<<part, elementVars, hardenVars, suspendVars, notifyVars, reportVars,
                            enrolVars, baselineVars, windowVars>>
        => [saved' # saved /\ saved.there /\ ~refused => S!Told(saved, saved')]_(S!vars)
  BY <1>3, SensorAlone DEF baselineVars, S!vars
<1> QED
  BY <1>1, <1>2, <1>4, PTL DEF Spec, ChangesAreTold, S!ChangesAreTold

-----------------------------------------------------------------------------
(* The outbox: what is true of every state.                                *)

OutboxRow == [status : {"new", "gone"} \cup N!Live \cup N!Terminal, version : Nat,
              attempts : Int, wait : Int, by : Workers \cup {"none"}]

OutboxType == row \in [Events -> OutboxRow] /\ settings.version \in Nat

(* The module's own sets are the sets of this one.                         *)
LEMMA SameCardinality ==
  ASSUME NEW T
  PROVE  N!Cardinality(T) = Cardinality(T)
BY DEF N!Cardinality, Cardinality

(* Whatever makes no row live leaves the backlog within its bound.         *)
LEMMA NoNewRow ==
  ASSUME N!BacklogBounded, (N!Having(N!Live))' \subseteq N!Having(N!Live)
  PROVE  N!BacklogBounded'
<1>1. IsFiniteSet(N!Having(N!Live))
  BY OutboxAssumption, FS_Subset DEF N!Having
<1>2. /\ IsFiniteSet((N!Having(N!Live))')
      /\ Cardinality((N!Having(N!Live))') <= Cardinality(N!Having(N!Live))
  BY <1>1, FS_Subset
<1>3. Cardinality((N!Having(N!Live))') \in Nat /\ Cardinality(N!Having(N!Live)) \in Nat
  BY <1>1, <1>2, FS_CardinalityType
<1>4. Cardinality(N!Having(N!Live)) <= MaxLive
  BY SameCardinality DEF N!BacklogBounded
<1> QED
  BY <1>2, <1>3, <1>4, SameCardinality, OutboxAssumption DEF N!BacklogBounded

(* A new row is counted against the bound, less the reports given for it.  *)
LEMMA RaiseKeepsBound ==
  ASSUME OutboxType, N!BacklogBounded, NEW e \in Events, N!Raise(e)
  PROVE  OutboxType' /\ N!BacklogBounded'
<1> DEFINE live == N!Having(N!Live)
<1>1. IsFiniteSet(live) /\ Cardinality(live) \in Nat
  BY OutboxAssumption, FS_Subset, FS_CardinalityType DEF N!Having
<1>2. row[e].status = "new" /\ e \notin live
  BY DEF N!Raise, N!Having, N!Live
<1>3. \A status \in {"gone", "failed", "pending"} : N!Absent(status) \in OutboxRow
  BY DEF N!Absent, N!Untried, OutboxRow, N!Live, N!Terminal
<1>4. CASE row' = [row EXCEPT ![e] = N!Absent("gone")] /\ UNCHANGED settings
  <2>1. OutboxType'
    BY <1>3, <1>4 DEF OutboxType
  <2>2. live' \subseteq live
    BY <1>4 DEF OutboxType, N!Having, N!Live, N!Absent, N!Untried
  <2> QED
    BY <2>1, <2>2, NoNewRow
<1>5. ASSUME NEW old \in SUBSET N!Having(N!Terminal),
             NEW given \in SUBSET (N!Having({"pending"}) \cap Reports), NEW full \in BOOLEAN,
             full = (N!Backlog - N!Cardinality(given) >= MaxLive), UNCHANGED settings,
             row' = [x \in Events |->
                       IF x = e THEN N!Untried(IF full THEN "failed" ELSE "pending", settings.version)
                       ELSE IF x \in old \cup given THEN N!Absent("gone")
                       ELSE row[x]]
      PROVE  OutboxType' /\ N!BacklogBounded'
  <2>1. given \subseteq live
    BY DEF N!Having, N!Live
  <2>2. OutboxType'
    <3>1. N!Untried(IF full THEN "failed" ELSE "pending", settings.version) \in OutboxRow
      BY DEF OutboxType, OutboxRow, N!Untried, N!Live, N!Terminal
    <3> QED
      BY <1>3, <1>5, <3>1 DEF OutboxType
  <2>3. \A x \in Events \ {e} : x \in live' => x \in live \ given
    BY <1>5 DEF OutboxType, N!Having, N!Live, N!Absent, N!Untried
  <2>4. CASE full
    <3>1. e \notin live'
      BY <1>5, <2>4 DEF N!Having, N!Live, N!Absent, N!Untried
    <3>2. live' \subseteq Events
      BY DEF N!Having
    <3> QED
      BY <2>2, <2>3, <3>1, <3>2, NoNewRow
  <2>5. CASE ~full
    <3>1. live' \subseteq (live \ given) \cup {e}
      BY <2>3 DEF N!Having
    <3>0. live \cap given = given
      BY <2>1
    <3>2. /\ IsFiniteSet(given) /\ IsFiniteSet(live \ given)
          /\ Cardinality(live \ given) = Cardinality(live) - Cardinality(given)
          /\ Cardinality(given) \in Nat
      <4> HIDE DEF live
      <4>1. IsFiniteSet(given) /\ IsFiniteSet(live \ given)
        BY <1>1, <2>1, FS_Subset, FS_Difference
      <4>2. Cardinality(live \ given) = Cardinality(live) - Cardinality(live \cap given)
        BY <1>1, FS_Difference
      <4> QED
        BY <3>0, <4>1, <4>2, FS_CardinalityType
    <3>3. Cardinality(live) - Cardinality(given) < MaxLive
      <4>1. ~(N!Backlog - N!Cardinality(given) >= MaxLive)
        BY <1>5, <2>5
      <4>2. N!Backlog = Cardinality(live) /\ N!Cardinality(given) = Cardinality(given)
        BY SameCardinality DEF N!Backlog
      <4> HIDE DEF live
      <4> QED
        BY <1>1, <3>2, <4>1, <4>2, OutboxAssumption
    <3>4. /\ IsFiniteSet((live \ given) \cup {e})
          /\ Cardinality((live \ given) \cup {e}) = Cardinality(live \ given) + 1
      BY <1>2, <3>2, FS_AddElement
    <3>5. IsFiniteSet(live') /\ Cardinality(live') <= Cardinality(live \ given) + 1
      BY <3>1, <3>4, FS_Subset
    <3>6. Cardinality(live') \in Nat /\ Cardinality(live \ given) \in Nat
      BY <3>2, <3>5, FS_CardinalityType
    <3>7. Cardinality(live') <= MaxLive
      BY <3>2, <3>3, <3>5, <3>6, OutboxAssumption
    <3> QED
      BY <2>2, <3>7, SameCardinality DEF N!BacklogBounded
  <2> QED
    BY <2>4, <2>5
<1>6. ASSUME ~(settings.version = 0 \/ ~settings.on)
      PROVE  OutboxType' /\ N!BacklogBounded'
  <2>1. PICK old \in SUBSET N!Having(N!Terminal),
             given \in SUBSET (N!Having({"pending"}) \cap Reports) :
           row' = [x \in Events |->
                     IF x = e
                       THEN N!Untried(IF N!Backlog - N!Cardinality(given) >= MaxLive
                                        THEN "failed" ELSE "pending", settings.version)
                     ELSE IF x \in old \cup given THEN N!Absent("gone")
                     ELSE row[x]]
    BY <1>6 DEF N!Raise
  <2> DEFINE full == N!Backlog - N!Cardinality(given) >= MaxLive
  <2>2. full \in BOOLEAN
    OBVIOUS
  <2>3. UNCHANGED settings
    BY DEF N!Raise
  <2> QED
    BY <1>5, <2>1, <2>2, <2>3
<1>7. ASSUME settings.version = 0 \/ ~settings.on
      PROVE  OutboxType' /\ N!BacklogBounded'
  BY <1>4, <1>7 DEF N!Raise
<1> QED
  BY <1>6, <1>7

(* Every step but Raise only moves rows that are live already.             *)
LEMMA OthersKeepBound ==
  ASSUME OutboxType, N!BacklogBounded, N!Next, ~\E e \in Events : N!Raise(e)
  PROVE  OutboxType' /\ N!BacklogBounded'
<1> DEFINE live == N!Having(N!Live)
<1>0. SUFFICES OutboxType' /\ live' \subseteq live
  BY NoNewRow
<1>1. CASE UNCHANGED <<row, settings>>
  BY <1>1 DEF OutboxType, N!Having
<1>2. ASSUME NEW w \in Workers, NEW e \in Events, N!ClaimNotificationDelivery(w, e)
      PROVE  OutboxType' /\ live' \subseteq live
  <2> DEFINE claimed == [status |-> "inflight", version |-> row[e].version,
                         attempts |-> row[e].attempts + 1, wait |-> Lease, by |-> w]
  <2>1. row' = [row EXCEPT ![e] = claimed] /\ UNCHANGED settings
    BY <1>2 DEF N!ClaimNotificationDelivery
  <2>2. claimed \in OutboxRow
    BY OutboxAssumption DEF OutboxType, OutboxRow, N!Live
  <2>3. e \in live
    BY <1>2 DEF N!ClaimNotificationDelivery, N!Claimable, N!Having
  <2> HIDE DEF claimed
  <2>4. OutboxType'
    BY <2>1, <2>2 DEF OutboxType
  <2>5. live' \subseteq live
    BY <2>1, <2>3 DEF OutboxType, N!Having
  <2> QED
    BY <2>4, <2>5
<1>3. ASSUME NEW w \in Workers, N!Record(w)
      PROVE  OutboxType' /\ live' \subseteq live
  <2> DEFINE e == job[w].event
  <2>1. ASSUME NEW status \in {"pending", "canceled", "delivered", "failed"}, NEW n \in Int,
               NEW wait \in Int, row[e].status = "inflight", UNCHANGED settings,
               row' = [row EXCEPT ![e] =
                         N!Settled(row[e], status, n, wait)]
        PROVE  OutboxType' /\ live' \subseteq live
    <3>1. CASE e \in Events
      <4>1. e \in live
        BY <2>1, <3>1 DEF N!Having, N!Live
      <4>2. N!Settled(row[e], status, n, wait) \in OutboxRow
        BY <2>1, <3>1 DEF N!Settled, OutboxType, OutboxRow, N!Live, N!Terminal
      <4>3. OutboxType'
        BY <2>1, <3>1, <4>2 DEF OutboxType
      <4>4. live' \subseteq live
        BY <2>1, <3>1, <4>1 DEF OutboxType, N!Having
      <4> QED
        BY <4>3, <4>4
    <3>2. CASE e \notin Events
      <4>1. row' = row
        BY <2>1, <3>2 DEF OutboxType
      <4> QED
        BY <1>1, <2>1, <4>1
    <3> QED
      BY <3>1, <3>2
  <2>2. CASE ~N!Holds(w)
    <3>1. UNCHANGED <<row, settings>>
      BY <1>3, <2>2 DEF N!Record
    <3> QED
      BY <1>1, <3>1
  <2>3. CASE N!Holds(w) /\ e \in Events
    <3>1. row[e].status = "inflight" /\ row[e].attempts \in Int /\ UNCHANGED settings
      BY <1>3, <2>3 DEF N!Holds, N!Record, OutboxType, OutboxRow
    <3>2. \/ N!Settles(e, "pending", row[e].attempts - 1, 0)
          \/ N!Settles(e, "canceled", row[e].attempts, 0)
          \/ N!Settles(e, "delivered", row[e].attempts, 0)
          \/ N!Settles(e, "failed", row[e].attempts, 0)
          \/ N!Settles(e, "pending", row[e].attempts, SendRetry)
      BY <1>3, <2>3 DEF N!Record
    <3>3. ASSUME NEW status \in {"pending", "canceled", "delivered", "failed"}, NEW n \in Int,
                 NEW wait \in Int, N!Settles(e, status, n, wait)
          PROVE  OutboxType' /\ live' \subseteq live
      BY <2>1, <3>1, <3>3 DEF N!Settles
    <3>4. row[e].attempts - 1 \in Int /\ 0 \in Int /\ SendRetry \in Int
      BY <3>1, OutboxAssumption
    <3> HIDE DEF e, live
    <3> QED
      BY <3>1, <3>2, <3>3, <3>4
  <2>4. CASE N!Holds(w) /\ e \notin Events
    <3>1. row' = row /\ UNCHANGED settings
      BY <1>3, <2>4 DEF N!Record, N!Settles, OutboxType
    <3> QED
      BY <1>1, <3>1
  <2> QED
    BY <2>2, <2>3, <2>4
<1>4. ASSUME NEW on \in BOOLEAN, N!PutNotificationSettings(on)
      PROVE  OutboxType' /\ live' \subseteq live
  <2>1. \A e \in Events : row[e].status = "pending" =>
           /\ N!Settled(row[e], "canceled", 0, 0) \in OutboxRow
           /\ N!Settled(row[e], "canceled", 0, 0).status = "canceled"
    BY DEF N!Settled, OutboxType, OutboxRow, N!Terminal, N!Live
  <2>2. OutboxType'
    <3>1. settings'.version \in Nat
      BY <1>4 DEF N!PutNotificationSettings, OutboxType
    <3>2. row' = [e \in Events |->
                    IF row[e].status = "pending"
                    THEN N!Settled(row[e], "canceled", 0, 0)
                    ELSE row[e]]
      BY <1>4 DEF N!PutNotificationSettings
    <3>3. row' \in [Events -> OutboxRow]
      BY <2>1, <3>2 DEF OutboxType
    <3> QED
      BY <3>1, <3>3 DEF OutboxType
  <2>3. live' \subseteq live
    BY <1>4, <2>1 DEF N!PutNotificationSettings, N!Having, N!Live
  <2> QED
    BY <2>2, <2>3
<1>5. ASSUME NEW T \in SUBSET N!Having(N!Terminal), N!PruneNotificationOutbox(T)
      PROVE  OutboxType' /\ live' \subseteq live
  <2>1. N!Absent("gone") \in OutboxRow /\ N!Absent("gone").status = "gone"
    BY DEF N!Absent, N!Untried, OutboxRow
  <2>2. OutboxType'
    BY <1>5, <2>1 DEF N!PruneNotificationOutbox, OutboxType
  <2>3. live' \subseteq live
    BY <1>5, <2>1 DEF N!PruneNotificationOutbox, N!Having, N!Live
  <2> QED
    BY <2>2, <2>3
<1>6. ASSUME N!Tick
      PROVE  OutboxType' /\ live' \subseteq live
  <2>1. \A e \in Events : /\ [row[e] EXCEPT !.wait = @ - 1] \in OutboxRow
                          /\ [row[e] EXCEPT !.wait = @ - 1].status = row[e].status
    BY DEF OutboxType, OutboxRow
  <2>2. OutboxType'
    BY <1>6, <2>1 DEF N!Tick, OutboxType
  <2>3. live' \subseteq live
    BY <1>6, <2>1 DEF N!Tick, N!Having
  <2> QED
    BY <2>2, <2>3
<1>7. ASSUME NEW w \in Workers, N!ReadSettings(w) \/ N!Lost(w) \/ N!Shutdown(w)
                                  \/ \E found \in {"ok", "retryable", "permanent"} : N!Send(w, found)
      PROVE  UNCHANGED <<row, settings>>
  BY <1>7 DEF N!ReadSettings, N!Lost, N!Shutdown, N!Send
<1> QED
  BY <1>1, <1>2, <1>3, <1>4, <1>5, <1>6, <1>7 DEF N!Next, N!Worker

(* Only a worker that found the settings of its event unchanged sends.     *)
LEMMA SendersReadSettings ==
  ASSUME N!OwnSettings, N!Next
  PROVE  N!OwnSettings'
<1>1. CASE UNCHANGED sends
  BY <1>1 DEF N!OwnSettings
<1>2. CASE \E w \in Workers : N!ReadSettings(w)
  <2>1. PICK w \in Workers : N!ReadSettings(w)
    BY <1>2
  <2>2. \/ sends' = sends
        \/ /\ sends' = sends \cup {<<job[w].version, settings.version>>}
           /\ job[w].version = settings.version
    BY <2>1 DEF N!ReadSettings, N!Refuses
  <2> QED
    BY <2>2 DEF N!OwnSettings
<1> QED
  BY <1>1, <1>2 DEF N!Next, N!Worker, N!Raise, N!ClaimNotificationDelivery, N!Send, N!Record,
     N!Lost, N!Shutdown, N!PutNotificationSettings, N!PruneNotificationOutbox, N!Tick

(* The other parts leave this one alone.                                   *)
LEMMA OutboxAlone ==
  ASSUME Next
  PROVE  [N!Next]_notifyVars
BY DEF Next, Only

(* For every set of events and of workers and any limits: neither raised   *)
(* events nor claims, failures, lapsed leases and shutdowns make more rows *)
(* live than the channel may have, and nothing is sent under settings that *)
(* are not its own (store/notification_outbox.go, the notification         *)
(* worker).                                                                *)
THEOREM OutboxIsSafe == Spec => []OutboxSafe
<1>1. Init => OutboxType /\ OutboxSafe
  <2>1. SUFFICES ASSUME N!Init PROVE OutboxType /\ OutboxSafe
    BY Zenon DEF Init
  <2>2. /\ row = [e \in Events |-> [status |-> "new", version |-> 0, attempts |-> 0,
                                   wait |-> 0, by |-> "none"]]
        /\ settings.version = 0 /\ sends = {}
    <3>1. /\ row = [e \in Events |-> N!Absent("new")] /\ sends = {}
          /\ settings = [version |-> 0, on |-> FALSE]
      BY <2>1 DEF N!Init
    <3> QED
      BY <3>1 DEF N!Absent, N!Untried
  <2>3. OutboxType
    BY <2>2 DEF OutboxType, OutboxRow
  <2>4. N!Having(N!Live) = {}
    BY <2>2 DEF N!Having, N!Live
  <2>5. N!BacklogBounded
    BY <2>4, SameCardinality, FS_EmptySet, OutboxAssumption DEF N!BacklogBounded
  <2> QED
    BY <2>2, <2>3, <2>5 DEF OutboxSafe, N!OutboxSafe, N!OwnSettings
<1>2. OutboxType /\ OutboxSafe
        /\ [Next]_<<part, elementVars, hardenVars, suspendVars, notifyVars, reportVars,
                    enrolVars, baselineVars, windowVars>> => (OutboxType /\ OutboxSafe)'
  <2>1. ASSUME OutboxType, OutboxSafe, N!Next
        PROVE  OutboxType' /\ OutboxSafe'
    <3>1. OutboxType' /\ N!BacklogBounded'
      BY <2>1, RaiseKeepsBound, OthersKeepBound DEF OutboxSafe, N!OutboxSafe
    <3> QED
      BY <2>1, <3>1, SendersReadSettings DEF OutboxSafe, N!OutboxSafe
  <2>2. ASSUME OutboxType, OutboxSafe, UNCHANGED notifyVars
        PROVE  OutboxType' /\ OutboxSafe'
    BY <2>2 DEF notifyVars, OutboxType, OutboxSafe, N!OutboxSafe, N!BacklogBounded,
       N!Having, N!OwnSettings
  <2> QED
    BY <2>1, <2>2, OutboxAlone
<1> QED
  BY <1>1, <1>2, PTL DEF Spec

-----------------------------------------------------------------------------
(* The projection of findings: what is true of every state.                *)

(* Only reports that were made have been applied, none of them newer than  *)
(* the last.                                                               *)
ProjectionType ==
  /\ made \in Seq([found : SUBSET F!Findings, unchecked : SUBSET Categories])
  /\ projected \in Nat
  /\ applied \subseteq 1..Len(made) /\ \A i \in applied : i <= projected

(* The applied reports that said something of a finding.                   *)
Said(f) == {i \in applied : f \in made[i].found \/ f[1] \notin made[i].unchecked}

(* One of them is the newest, and what it said is the last word.           *)
NewestSaid ==
  \A f \in F!Findings : Said(f) # {} => \E i \in Said(f) : \A j \in Said(f) : j <= i

ProjectionInv == ProjectionType /\ NewestSaid /\ ProjectionIsLastWord

(* The newest of a set is its largest member.                              *)
LEMMA NewestIsLargest ==
  ASSUME NEW R \in SUBSET Nat, NEW i \in R, \A j \in R : j <= i
  PROVE  F!Newest(R) = i
<1>1. \A k \in R : (\A j \in R : j <= k) => k = i
  OBVIOUS
<1> QED
  BY <1>1 DEF F!Newest

(* Applied reports are numbers, of which one may be the newest.             *)
LEMMA AppliedAreNumbers ==
  ASSUME ProjectionType
  PROVE  applied \in SUBSET Nat
<1>1. Len(made) \in Nat
  BY DEF ProjectionType
<1> QED
  BY <1>1 DEF ProjectionType

(* Another report changes no word before it is applied.                    *)
LEMMA ScanSaysNothing ==
  ASSUME ProjectionInv, NEW found \in SUBSET F!Findings, NEW unchecked \in SUBSET Categories,
         F!Scan(found, unchecked)
  PROVE  ProjectionInv'
<1>1. /\ made' = Append(made, [found |-> found, unchecked |-> unchecked])
      /\ UNCHANGED <<stored, snaps, projected, current, omitted, applied>>
  BY DEF F!Scan
<1>2. ProjectionType'
  BY <1>1 DEF ProjectionInv, ProjectionType
<1>3. \A i \in applied : made'[i] = made[i]
  BY <1>1 DEF ProjectionInv, ProjectionType
<1>4. ASSUME NEW f \in F!Findings
      PROVE  Said(f)' = Said(f)
  BY <1>1, <1>3 DEF Said
<1>5. NewestSaid'
  BY <1>4 DEF ProjectionInv, NewestSaid
<1>6. ASSUME NEW f \in F!Findings
      PROVE  F!LastWord(f)' <=> F!LastWord(f)
  <2>1. PICK R : R = Said(f)
    OBVIOUS
  <2>2. R = Said(f)'
    BY <1>4, <2>1
  <2>3. F!LastWord(f) <=> R # {} /\ f \in made[F!Newest(R)].found
    BY <2>1 DEF F!LastWord, Said
  <2>4. F!LastWord(f)' <=> R # {} /\ f \in made'[F!Newest(R)].found
    BY <2>2 DEF F!LastWord, Said
  <2>5. R # {} => F!Newest(R) \in applied
    <3>1. ASSUME R # {} PROVE \E i \in R : \A j \in R : j <= i
      BY <2>1, <3>1 DEF ProjectionInv, NewestSaid
    <3>2. R \subseteq applied /\ applied \in SUBSET Nat
      BY <2>1, AppliedAreNumbers DEF Said, ProjectionInv
    <3> QED
      BY <3>1, <3>2, NewestIsLargest
  <2> QED
    BY <1>3, <2>3, <2>4, <2>5
<1>7. ProjectionIsLastWord'
  BY <1>1, <1>6 DEF ProjectionInv, ProjectionIsLastWord, F!ProjectionIsLastWord
<1> QED
  BY <1>2, <1>5, <1>7 DEF ProjectionInv

(* What is kept of the rows, and when an omission is on record.            *)
LEMMA CappedKeeps ==
  ASSUME NEW rws, NEW unchecked, F!Capped(rws, unchecked)
  PROVE  \E active \in SUBSET {f \in F!Findings : rws[f].status = "open"} :
           /\ \A f \in F!Findings : current'[f].status = "open" <=> f \in active
           /\ \A f \in F!Findings : rws[f].status = "open" => f \in active \/ omitted'
           /\ omitted /\ unchecked # {} => omitted'
<1>1. \A T, n, p : \A K \in F!Kept(T, n, p) : K \subseteq T
  BY DEF F!Kept
<1> DEFINE pairs  == F!Findings \X F!Findings
           newer  == {p \in pairs : rws[p[1]].last > rws[p[2]].last}
           graver == {p \in pairs : p[1][1] \in Grave /\ p[2][1] \notin Grave}
                     \cup {p \in newer : p[1][1] \in Grave <=> p[2][1] \in Grave}
<1>2. PICK resolved \in F!Kept(F!Having(rws, "resolved"), MaxResolved, newer),
           active \in F!Kept(F!Having(rws, "open"), MaxActive, graver) :
        /\ current' = [f \in F!Findings |->
                         IF f \in resolved \cup active THEN rws[f] ELSE F!Gone]
        /\ omitted' = IF active # F!Having(rws, "open") THEN TRUE
                      ELSE IF unchecked = {} THEN FALSE ELSE omitted
  BY DEF F!Capped
<1> HIDE DEF pairs, newer, graver
<1>0. /\ resolved \in SUBSET F!Having(rws, "resolved")
      /\ active \in SUBSET F!Having(rws, "open")
  BY <1>1
<1>3. \A f \in F!Findings : current'[f].status = "open" <=> f \in active
  BY <1>0, <1>2 DEF F!Having, F!Gone
<1>4. active = F!Having(rws, "open") \/ omitted'
  BY <1>2
<1>5. omitted /\ unchecked # {} => omitted'
  BY <1>2
<1> QED
  BY <1>0, <1>3, <1>4, <1>5 DEF F!Having

(* A report is the last word on what it checked, and leaves the rest.      *)
LEMMA SaveKeepsWords ==
  ASSUME ProjectionInv, NEW i \in 1..MaxScans, F!SaveReport(i)
  PROVE  ProjectionInv'
<1>1. made' = made /\ i \in 1..Len(made)
  BY DEF F!SaveReport
<1>2. CASE ~F!Advances(i)
  <2>1. UNCHANGED <<made, current, omitted, projected, applied>>
    BY <1>2 DEF F!SaveReport
  <2> QED
    BY <2>1 DEF ProjectionInv, ProjectionType, NewestSaid, Said, ProjectionIsLastWord,
       F!ProjectionIsLastWord, F!LastWord
<1>3. CASE F!Advances(i)
  <2>1. /\ F!Capped(F!Upserted(i), made[i].unchecked)
        /\ projected' = i /\ applied' = applied \cup {i}
    BY <1>3 DEF F!SaveReport
  <2>2. \A j \in applied : j < i
    BY <1>3 DEF F!Advances, ProjectionInv, ProjectionType
  <2>3. applied \in SUBSET Nat /\ i \in Nat
    BY <1>1, AppliedAreNumbers DEF ProjectionInv, ProjectionType
  <2>4. \A j \in applied \cup {i} : j <= i
    BY <2>2, <2>3
  <2>5. ProjectionType'
    BY <1>1, <2>1, <2>2 DEF ProjectionInv, ProjectionType
  <2> DEFINE says(f) == f \in made[i].found \/ f[1] \notin made[i].unchecked
  <2>6. ASSUME NEW f \in F!Findings
        PROVE  Said(f)' = IF says(f) THEN Said(f) \cup {i} ELSE Said(f)
    BY <1>1, <2>1 DEF Said
  <2>7. NewestSaid'
    <3>1. ASSUME NEW f \in F!Findings, says(f)
          PROVE  i \in Said(f)' /\ \A j \in Said(f)' : j <= i
      <4>1. Said(f)' = Said(f) \cup {i} /\ Said(f) \subseteq applied
        BY <2>6, <3>1 DEF Said
      <4> QED
        BY <2>4, <4>1
    <3>2. ASSUME NEW f \in F!Findings, ~says(f), Said(f)' # {}
          PROVE  \E k \in Said(f)' : \A j \in Said(f)' : j <= k
      BY <2>6, <3>2 DEF ProjectionInv, NewestSaid
    <3> HIDE DEF says
    <3> QED
      BY <3>1, <3>2 DEF NewestSaid
  <2>8. ASSUME NEW f \in F!Findings, says(f)
        PROVE  F!LastWord(f)' <=> f \in made[i].found
    <3>1. PICK R : R = Said(f)'
      OBVIOUS
    <3>2. i \in R /\ \A j \in R : j <= i
      <4>1. R = Said(f) \cup {i} /\ Said(f) \subseteq applied
        BY <2>6, <2>8, <3>1 DEF Said
      <4> QED
        BY <2>4, <4>1
    <3>3. R \in SUBSET Nat
      <4>1. R \subseteq applied'
        BY <3>1 DEF Said
      <4> QED
        BY <2>1, <2>3, <4>1
    <3>4. F!Newest(R) = i
      BY <3>2, <3>3, NewestIsLargest
    <3>5. F!LastWord(f)' <=> R # {} /\ f \in made'[F!Newest(R)].found
      BY <3>1 DEF F!LastWord, Said
    <3> QED
      BY <1>1, <3>2, <3>4, <3>5
  <2>9. ASSUME NEW f \in F!Findings, ~says(f)
        PROVE  F!LastWord(f)' <=> F!LastWord(f)
    <3>1. PICK R : R = Said(f)
      OBVIOUS
    <3>2. R = Said(f)'
      BY <2>6, <2>9, <3>1
    <3>3. F!LastWord(f) <=> R # {} /\ f \in made[F!Newest(R)].found
      BY <3>1 DEF F!LastWord, Said
    <3>4. F!LastWord(f)' <=> R # {} /\ f \in made'[F!Newest(R)].found
      BY <3>2 DEF F!LastWord, Said
    <3> QED
      BY <1>1, <3>3, <3>4
  <2>10. PICK rws : rws = F!Upserted(i)
    OBVIOUS
  <2>11. ASSUME NEW f \in F!Findings
        PROVE  rws[f].status = "open" <=>
                 IF says(f) THEN f \in made[i].found ELSE current[f].status = "open"
    BY <2>10 DEF F!Upserted, F!Resolvable
  <2>12. PICK active \in SUBSET {f \in F!Findings : rws[f].status = "open"} :
           /\ \A f \in F!Findings : current'[f].status = "open" <=> f \in active
           /\ \A f \in F!Findings : rws[f].status = "open" => f \in active \/ omitted'
           /\ omitted /\ made[i].unchecked # {} => omitted'
    BY <2>1, <2>10, CappedKeeps
  <2>13. \A f \in F!Findings : ~says(f) => made[i].unchecked # {}
    OBVIOUS
  <2>14. \A f \in F!Findings : /\ F!LastWord(f) => current[f].status = "open" \/ omitted
                               /\ current[f].status = "open" => F!LastWord(f)
    BY DEF ProjectionInv, ProjectionIsLastWord, F!ProjectionIsLastWord
  <2> HIDE DEF says
  <2>15. ASSUME NEW f \in F!Findings
         PROVE  /\ F!LastWord(f)' => current'[f].status = "open" \/ omitted'
                /\ current'[f].status = "open" => F!LastWord(f)'
    BY <2>8, <2>9, <2>11, <2>12, <2>13, <2>14
  <2> QED
    BY <2>5, <2>7, <2>15 DEF ProjectionInv, ProjectionIsLastWord, F!ProjectionIsLastWord
<1> QED
  BY <1>2, <1>3

(* The other parts leave this one alone.                                   *)
LEMMA ProjectionAlone ==
  ASSUME Next
  PROVE  [F!Next]_reportVars
BY DEF Next, Only

(* For every set of findings and any capacities, whatever arrives late or  *)
(* is dropped: a finding is shown, or the record that findings were        *)
(* omitted, where the newest projected report that says something of it    *)
(* found it, and nowhere else (store/store.go saveReport).                 *)
THEOREM RisksAreTheLastWord == Spec => []ProjectionIsLastWord
<1>1. Init => ProjectionInv
  <2>1. ASSUME F!Init PROVE ProjectionInv
    <3>1. /\ made = <<>> /\ projected = 0 /\ applied = {}
          /\ \A f \in F!Findings : current[f].status = "absent"
      BY <2>1 DEF F!Init, F!Gone
    <3> QED
      BY <3>1 DEF ProjectionInv, ProjectionType, NewestSaid, Said, ProjectionIsLastWord,
         F!ProjectionIsLastWord, F!LastWord
  <2> QED
    BY <2>1, Zenon DEF Init
<1>2. ProjectionInv /\ [Next]_<<part, elementVars, hardenVars, suspendVars, notifyVars, reportVars,
                                enrolVars, baselineVars, windowVars>> => ProjectionInv'
  <2>1. ASSUME ProjectionInv, UNCHANGED reportVars
        PROVE  ProjectionInv'
    BY <2>1 DEF reportVars, ProjectionInv, ProjectionType, NewestSaid, Said, ProjectionIsLastWord,
       F!ProjectionIsLastWord, F!LastWord
  <2>2. ASSUME ProjectionInv, F!Next
        PROVE  ProjectionInv'
    BY <2>2, ScanSaysNothing, SaveKeepsWords DEF F!Next
  <2> QED
    BY <2>1, <2>2, ProjectionAlone
<1>3. ProjectionInv => ProjectionIsLastWord
  BY DEF ProjectionInv
<1> QED
  BY <1>1, <1>2, <1>3, PTL DEF Spec

-----------------------------------------------------------------------------
(* Enrolment: what is true of every state.                                 *)

Installation == [at : D!Phases, key : Keys \cup {NoOne}, token : Tokens \cup {NoOne},
                 challenge : Challenges \cup {NoOne}, cred : Creds \cup {NoOne}]
EnrolToken == [status : {"absent", "issued", "revoked"}, uses : Nat, valid : BOOLEAN]
StateFile == [key : Keys, cred : Creds, observer : BOOLEAN]
DataDir == [state : StateFile \cup {D!NoState}, pending : Keys \cup {NoOne},
            token : Tokens \cup {NoOne}]
DeviceRow == [cred : Creds \cup {NoOne}, token : Tokens \cup {NoOne},
              status : {"absent", "online", "revoked"}, observer : BOOLEAN,
              action : {"none", "draft", "queued", "started"}]

EnrolType ==
  /\ proc \in [Installers -> Installation] /\ observer \in BOOLEAN
  /\ dataDir \in DataDir
  /\ token \in [Tokens -> EnrolToken] /\ device \in [Keys -> DeviceRow]
  /\ \A k \in Keys : device[k] = D!NoDevice \/ device[k].cred \in Creds

(* What a process holds at each of its stages.                             *)
StageHolds ==
  \A p \in Installers :
    /\ proc[p].at \in {"pending", "generate", "ask", "prove", "save", "clean"} =>
         proc[p].token \in Tokens
    /\ proc[p].at \in {"ask", "prove", "save", "clean"} => proc[p].key \in Keys
    /\ proc[p].at \in {"save", "clean"} => proc[p].cred \in Creds

EnrolInv == EnrolType /\ StageHolds /\ EnrolmentIsSound

(* Devices are counted as sets are counted here.                            *)
LEMMA EnrolCardinality ==
  ASSUME NEW T
  PROVE  D!Cardinality(T) = Cardinality(T)
BY DEF D!Cardinality, Cardinality

(* Uses are counted right as long as nobody is enrolled.                   *)
LEMMA NobodyEnrolled ==
  ASSUME D!UsesAreDevices,
         \A k \in Keys : device'[k].token = device[k].token,
         \A t \in Tokens : token'[t].uses = token[t].uses
  PROVE  D!UsesAreDevices'
<1>1. ASSUME NEW t \in Tokens
      PROVE  {k \in Keys : device'[k].token = t} = {k \in Keys : device[k].token = t}
  OBVIOUS
<1> QED
  BY <1>1 DEF D!UsesAreDevices

(* A step of a process that changes no row of the Controller.              *)
LEMMA ProcessMoves ==
  ASSUME EnrolInv, NEW p \in Installers, NEW q \in Installation,
         proc' = [proc EXCEPT ![p] = q], UNCHANGED <<observer, token, device>>,
         dataDir' \in DataDir,
         \/ dataDir'.state = dataDir.state
         \/ device[dataDir'.state.key].cred = dataDir'.state.cred,
         q.at \in {"pending", "generate", "ask", "prove", "save", "clean"} => q.token \in Tokens,
         q.at \in {"ask", "prove", "save", "clean"} => q.key \in Keys,
         q.at \in {"save", "clean"} => q.cred \in Creds /\ device[q.key].cred = q.cred
  PROVE  EnrolInv'
<1>1. EnrolType'
  BY DEF EnrolInv, EnrolType
<1>2. \A r \in Installers : proc'[r] = IF r = p THEN q ELSE proc[r]
  BY DEF EnrolInv, EnrolType
<1>3. StageHolds'
  BY <1>2 DEF EnrolInv, StageHolds
<1>4. D!UsesAreDevices' /\ D!ObserverNeverActs'
  BY NobodyEnrolled DEF EnrolInv, EnrolmentIsSound, D!EnrolmentIsSound, D!ObserverNeverActs
<1>5. D!CredentialWorks'
  BY <1>2 DEF EnrolInv, EnrolmentIsSound, D!EnrolmentIsSound, D!CredentialWorks
<1> QED
  BY <1>1, <1>3, <1>4, <1>5 DEF EnrolInv, EnrolmentIsSound, D!EnrolmentIsSound

(* A step that hands out no credential and moves no process.               *)
LEMMA RowsChange ==
  ASSUME EnrolInv, UNCHANGED proc, observer' \in BOOLEAN,
         token' \in [Tokens -> EnrolToken], device' \in [Keys -> DeviceRow],
         \A k \in Keys :
           /\ device'[k].cred = device[k].cred /\ device'[k].token = device[k].token
           /\ device[k] = D!NoDevice => device'[k] = D!NoDevice
           /\ device'[k].observer => device'[k].action # "started",
         \A t \in Tokens : token'[t].uses = token[t].uses,
         dataDir' \in DataDir,
         dataDir'.state \in {dataDir.state, D!NoState}
  PROVE  EnrolInv'
<1>1. EnrolType'
  BY DEF EnrolInv, EnrolType
<1>2. StageHolds'
  BY DEF EnrolInv, StageHolds
<1>3. D!UsesAreDevices' /\ D!ObserverNeverActs'
  BY NobodyEnrolled DEF EnrolInv, EnrolmentIsSound, D!EnrolmentIsSound, D!ObserverNeverActs
<1>4. dataDir'.state # D!NoState => dataDir'.state \in StateFile /\ dataDir'.state = dataDir.state
  BY DEF DataDir
<1>5. D!CredentialWorks'
  <2>1. dataDir'.state # D!NoState => device'[dataDir'.state.key].cred = dataDir'.state.cred
    BY <1>4 DEF EnrolInv, EnrolmentIsSound, D!EnrolmentIsSound, D!CredentialWorks, StateFile
  <2>2. \A p \in Installers : proc[p].at \in {"save", "clean"} =>
                                 device'[proc[p].key].cred = proc[p].cred
    BY DEF EnrolInv, StageHolds, EnrolmentIsSound, D!EnrolmentIsSound, D!CredentialWorks
  <2> QED
    BY <2>1, <2>2 DEF D!CredentialWorks
<1> QED
  BY <1>1, <1>2, <1>3, <1>5 DEF EnrolInv, EnrolmentIsSound, D!EnrolmentIsSound

(* A row of a process with one field set.                                  *)
LEMMA AtSet ==
  ASSUME NEW r \in Installation, NEW x \in D!Phases
  PROVE  LET q == [r EXCEPT !.at = x]
         IN  /\ q \in Installation /\ q.at = x /\ q.key = r.key
             /\ q.token = r.token /\ q.cred = r.cred
BY DEF Installation

(* The same for the identity it enrols,                                     *)
LEMMA KeySet ==
  ASSUME NEW r \in Installation, NEW k \in Keys \cup {NoOne}
  PROVE  LET q == [r EXCEPT !.key = k]
         IN  /\ q \in Installation /\ q.at = r.at /\ q.key = k
             /\ q.token = r.token /\ q.cred = r.cred
BY DEF Installation

(* for the token it holds,                                                  *)
LEMMA TokenSet ==
  ASSUME NEW r \in Installation, NEW t \in Tokens \cup {NoOne}
  PROVE  LET q == [r EXCEPT !.token = t]
         IN  /\ q \in Installation /\ q.at = r.at /\ q.key = r.key
             /\ q.token = t /\ q.cred = r.cred
BY DEF Installation

(* for the challenge it was given,                                          *)
LEMMA ChallengeSet ==
  ASSUME NEW r \in Installation, NEW c \in Challenges \cup {NoOne}
  PROVE  LET q == [r EXCEPT !.challenge = c]
         IN  /\ q \in Installation /\ q.at = r.at /\ q.key = r.key
             /\ q.token = r.token /\ q.cred = r.cred
BY DEF Installation

(* and for the credential it was answered.                                  *)
LEMMA CredSet ==
  ASSUME NEW r \in Installation, NEW d \in Creds \cup {NoOne}
  PROVE  LET q == [r EXCEPT !.cred = d]
         IN  /\ q \in Installation /\ q.at = r.at /\ q.key = r.key
             /\ q.token = r.token /\ q.cred = d
BY DEF Installation

(* The data directory with one file replaced.                              *)
LEMMA FileSet ==
  ASSUME NEW dir \in DataDir
  PROVE  /\ \A f \in StateFile \cup {D!NoState} :
              [dir EXCEPT !.state = f] \in DataDir /\ [dir EXCEPT !.state = f].state = f
         /\ \A k \in Keys \cup {NoOne} :
              /\ [dir EXCEPT !.pending = k] \in DataDir
              /\ [dir EXCEPT !.pending = k].state = dir.state
         /\ \A t \in Tokens \cup {NoOne} :
              /\ [dir EXCEPT !.token = t] \in DataDir
              /\ [dir EXCEPT !.token = t].state = dir.state
<1>1. ASSUME NEW f \in StateFile \cup {D!NoState}
      PROVE  [dir EXCEPT !.state = f] \in DataDir /\ [dir EXCEPT !.state = f].state = f
  BY DEF DataDir
<1>2. ASSUME NEW k \in Keys \cup {NoOne}
      PROVE  /\ [dir EXCEPT !.pending = k] \in DataDir
             /\ [dir EXCEPT !.pending = k].state = dir.state
  BY DEF DataDir
<1>3. ASSUME NEW t \in Tokens \cup {NoOne}
      PROVE  /\ [dir EXCEPT !.token = t] \in DataDir
             /\ [dir EXCEPT !.token = t].state = dir.state
  BY DEF DataDir
<1> QED
  BY <1>1, <1>2, <1>3, Zenon

(* A process that rests is one that may start.                              *)
LEMMA RestingRow ==
  D!Resting \in Installation /\ D!Resting.at = "idle"
BY DEF D!Resting, Installation, D!Phases

(* A process that ends holds nothing.                                      *)
LEMMA EndsKeeps ==
  ASSUME EnrolInv, NEW p \in Installers, D!Ends(p),
         UNCHANGED <<dataDir, observer, token, device>>
  PROVE  EnrolInv'
<1>1. proc' = [proc EXCEPT ![p] = D!Resting]
  BY DEF D!Ends, D!Moves
<1>2. dataDir' \in DataDir
  BY DEF EnrolInv, EnrolType
<1> QED
  BY <1>1, <1>2, RestingRow, ProcessMoves

(* The steps of a process but the one that the Controller decides.         *)
LEMMA AgentKeeps ==
  ASSUME EnrolInv, NEW p \in Installers,
         \/ D!Start(p) \/ D!LoadPending(p) \/ D!GenerateIdentity(p)
         \/ D!Ask(p, TRUE) \/ D!Ask(p, FALSE) \/ D!AskRefused(p) \/ D!ProveRefused(p)
         \/ D!Save(p, TRUE) \/ D!Save(p, FALSE) \/ D!Clean(p) \/ D!Dies(p)
  PROVE  EnrolInv'
<1> DEFINE r == proc[p]
<1>0. /\ r \in Installation
      /\ dataDir \in DataDir
      /\ UNCHANGED <<token, device, observer>>
  BY DEF EnrolInv, EnrolType, D!Start, D!LoadPending, D!GenerateIdentity, D!Ask, D!AskRefused,
     D!ProveRefused, D!Save, D!Clean, D!Dies
<1>1. /\ r.at \in {"pending", "generate", "ask", "prove", "save", "clean"} => r.token \in Tokens
      /\ r.at \in {"ask", "prove", "save", "clean"} => r.key \in Keys
      /\ r.at \in {"save", "clean"} => r.cred \in Creds /\ device[r.key].cred = r.cred
  BY DEF EnrolInv, StageHolds, EnrolmentIsSound, D!EnrolmentIsSound, D!CredentialWorks
<1>2. {"idle", "run", "pending", "generate", "ask", "prove", "save", "clean"} \subseteq D!Phases
  BY DEF D!Phases
<1> HIDE DEF r
<1>3. CASE D!Start(p)
  <2>1. dataDir' = dataDir
    BY <1>3 DEF D!Start
  <2>2. CASE proc' = [proc EXCEPT ![p] = [D!Resting EXCEPT !.at = "run"]]
    <3> DEFINE q == [D!Resting EXCEPT !.at = "run"]
    <3>0. "run" \in D!Phases
      BY <1>2
    <3>1. q \in Installation /\ q.at = "run"
      BY <3>0, RestingRow, AtSet, Zenon
    <3>2. proc' = [proc EXCEPT ![p] = q]
      BY <2>2, Zenon
    <3> HIDE DEF q
    <3> QED
      BY <1>0, <2>1, <3>1, <3>2, ProcessMoves
  <2>3. CASE /\ dataDir.token # NoOne
             /\ proc' = [proc EXCEPT ![p] =
                           [D!Resting EXCEPT !.at = "pending", !.token = dataDir.token]]
    <3> DEFINE z == [D!Resting EXCEPT !.at = "pending"]
               q == [z EXCEPT !.token = dataDir.token]
    <3>1. dataDir.token \in Tokens \cup {NoOne}
      BY <1>0 DEF DataDir
    <3>2. "pending" \in D!Phases
      BY <1>2
    <3>3. z \in Installation /\ z.at = "pending"
      BY <3>2, RestingRow, AtSet, Zenon
    <3>4. q \in Installation /\ q.at = "pending" /\ q.token = dataDir.token
      BY <3>1, <3>3, TokenSet, Zenon
    <3>5. proc' = [proc EXCEPT ![p] = q]
      BY <2>3, Zenon
    <3> HIDE DEF q, z
    <3> QED
      BY <1>0, <2>1, <2>3, <3>1, <3>4, <3>5, ProcessMoves
  <2> QED
    BY <1>3, <2>2, <2>3 DEF D!Start, D!Moves
<1>4. CASE D!LoadPending(p)
  <2>1. dataDir' = dataDir /\ r.at = "pending" /\ r.token \in Tokens
    BY <1>1, <1>4 DEF D!LoadPending, r
  <2>2. CASE proc' = [proc EXCEPT ![p] = [r EXCEPT !.at = "generate"]]
    <3> DEFINE q == [r EXCEPT !.at = "generate"]
    <3>1. "generate" \in D!Phases
      BY <1>2
    <3>2. q \in Installation /\ q.at = "generate" /\ q.token = r.token
      BY <1>0, <3>1, AtSet, Zenon
    <3>3. proc' = [proc EXCEPT ![p] = q]
      BY <2>2, Zenon
    <3> HIDE DEF q
    <3> QED
      BY <1>0, <2>1, <3>2, <3>3, ProcessMoves
  <2>3. CASE /\ dataDir.pending # NoOne
             /\ proc' = [proc EXCEPT ![p] = [r EXCEPT !.at = "ask", !.key = dataDir.pending]]
    <3> DEFINE z == [r EXCEPT !.at = "ask"]
               q == [z EXCEPT !.key = dataDir.pending]
    <3>1. dataDir.pending \in Keys \cup {NoOne}
      BY <1>0 DEF DataDir
    <3>2. "ask" \in D!Phases
      BY <1>2
    <3>3. z \in Installation /\ z.at = "ask" /\ z.token = r.token
      BY <1>0, <3>2, AtSet, Zenon
    <3>4. q \in Installation /\ q.at = "ask" /\ q.key = dataDir.pending /\ q.token = r.token
      BY <3>1, <3>3, KeySet, Zenon
    <3>5. proc' = [proc EXCEPT ![p] = q]
      BY <2>3, Zenon
    <3> HIDE DEF q, z
    <3> QED
      BY <1>0, <2>1, <2>3, <3>1, <3>4, <3>5, ProcessMoves
  <2> QED
    BY <1>4, <2>2, <2>3 DEF D!LoadPending, D!Moves, r
<1>5. CASE D!GenerateIdentity(p)
  <2>1. PICK k \in Keys : /\ dataDir' = [dataDir EXCEPT !.pending = k]
                          /\ proc' = [proc EXCEPT ![p] = [r EXCEPT !.at = "ask", !.key = k]]
    BY <1>5 DEF D!GenerateIdentity, D!Moves, r
  <2>2. r.at = "generate" /\ r.token \in Tokens
    BY <1>1, <1>5 DEF D!GenerateIdentity, r
  <2> DEFINE z == [r EXCEPT !.at = "ask"]
             q == [z EXCEPT !.key = k]
  <2>3. "ask" \in D!Phases /\ k \in Keys \cup {NoOne}
    BY <1>2
  <2>4. z \in Installation /\ z.at = "ask" /\ z.token = r.token
    BY <1>0, <2>3, AtSet, Zenon
  <2>5. q \in Installation /\ q.at = "ask" /\ q.key = k /\ q.token = r.token
    BY <2>3, <2>4, KeySet, Zenon
  <2>6. proc' = [proc EXCEPT ![p] = q]
    BY <2>1, Zenon
  <2>7. dataDir' \in DataDir /\ dataDir'.state = dataDir.state
    BY <1>0, <2>1, <2>3, FileSet, Zenon
  <2> HIDE DEF q, z
  <2> QED
    BY <1>0, <2>2, <2>5, <2>7, <2>6, ProcessMoves
<1>6. CASE D!Ask(p, TRUE) \/ D!Ask(p, FALSE)
  <2>1. CASE D!Ends(p)
    BY <1>0, <1>6, <2>1, EndsKeeps DEF D!Ask
  <2>2. CASE ~D!Ends(p)
    <3>1. PICK c \in Challenges :
            proc' = [proc EXCEPT ![p] = [r EXCEPT !.at = "prove", !.challenge = c]]
      BY <1>6, <2>2 DEF D!Ask, D!Moves, r
    <3>2. dataDir' = dataDir /\ r.key \in Keys /\ r.token \in Tokens
      BY <1>1, <1>6 DEF D!Ask, r
    <3> DEFINE z == [r EXCEPT !.at = "prove"]
               q == [z EXCEPT !.challenge = c]
    <3>3. "prove" \in D!Phases /\ c \in Challenges \cup {NoOne}
      BY <1>2
    <3>4. z \in Installation /\ z.at = "prove" /\ z.key = r.key /\ z.token = r.token
      BY <1>0, <3>3, AtSet, Zenon
    <3>5. q \in Installation /\ q.at = "prove" /\ q.key = r.key /\ q.token = r.token
      BY <3>3, <3>4, ChallengeSet, Zenon
    <3>6. proc' = [proc EXCEPT ![p] = q]
      BY <3>1, Zenon
    <3> HIDE DEF q, z
    <3> QED
      BY <1>0, <3>2, <3>5, <3>6, ProcessMoves
  <2> QED
    BY <2>1, <2>2
<1>7. CASE D!AskRefused(p) \/ D!ProveRefused(p) \/ D!Dies(p)
  BY <1>7, <1>0, EndsKeeps DEF D!AskRefused, D!ProveRefused, D!Dies
<1>8. CASE D!Save(p, TRUE) \/ D!Save(p, FALSE)
  <2> DEFINE file2 == [key |-> r.key, cred |-> r.cred, observer |-> observer]
  <2>1. /\ dataDir' = [dataDir EXCEPT !.state = file2] /\ r.at = "save"
        /\ \/ proc' = [proc EXCEPT ![p] = [r EXCEPT !.at = "clean"]]
           \/ proc' = [proc EXCEPT ![p] = D!Resting]
    BY <1>8 DEF D!Save, D!Ends, D!Moves, r
  <2>2. /\ file2 \in StateFile \cup {D!NoState}
        /\ device[file2.key].cred = file2.cred
    BY <1>1, <2>1 DEF StateFile, EnrolInv, EnrolType
  <2> HIDE DEF file2
  <2>3. dataDir' \in DataDir /\ dataDir'.state = file2
    BY <1>0, <2>1, <2>2, FileSet, Zenon
  <2>4. CASE proc' = [proc EXCEPT ![p] = [r EXCEPT !.at = "clean"]]
    <3> DEFINE q == [r EXCEPT !.at = "clean"]
    <3>1. "clean" \in D!Phases
      BY <1>2
    <3>2. /\ q \in Installation /\ q.at = "clean" /\ q.key = r.key /\ q.token = r.token
          /\ q.cred = r.cred
      BY <1>0, <3>1, AtSet, Zenon
    <3>3. proc' = [proc EXCEPT ![p] = q]
      BY <2>4, Zenon
    <3> HIDE DEF q
    <3>4. q.key \in Keys /\ q.token \in Tokens /\ q.cred \in Creds /\ device[q.key].cred = q.cred
      BY <1>1, <2>1, <3>2
    <3> QED
      BY <1>0, <2>2, <2>3, <3>2, <3>3, <3>4, ProcessMoves
  <2>5. CASE proc' = [proc EXCEPT ![p] = D!Resting]
    BY <1>0, <2>2, <2>3, <2>5, RestingRow, ProcessMoves
  <2> QED
    BY <2>1, <2>4, <2>5
<1>9. CASE D!Clean(p)
  <2>1. PICK consumed \in {dataDir.token, NoOne} :
          dataDir' = [dataDir EXCEPT !.pending = NoOne, !.token = consumed]
    BY <1>9 DEF D!Clean
  <2>2. proc' = [proc EXCEPT ![p] = [D!Resting EXCEPT !.at = "run"]]
    BY <1>9 DEF D!Clean, D!Moves
  <2> DEFINE q == [D!Resting EXCEPT !.at = "run"]
             cleared == [dataDir EXCEPT !.pending = NoOne]
  <2>3. q \in Installation /\ q.at = "run"
    BY <1>2, RestingRow, AtSet, Zenon
  <2>4. consumed \in Tokens \cup {NoOne} /\ NoOne \in Keys \cup {NoOne}
    BY <1>0 DEF DataDir
  <2>5. cleared \in DataDir /\ cleared.state = dataDir.state
    BY <1>0, <2>4, FileSet, Zenon
  <2>6. dataDir' \in DataDir /\ dataDir'.state = dataDir.state
    BY <2>1, <2>4, <2>5, FileSet, Zenon
  <2>7. proc' = [proc EXCEPT ![p] = q]
    BY <2>2, Zenon
  <2> HIDE DEF q, cleared
  <2> QED
    BY <1>0, <2>3, <2>6, <2>7, ProcessMoves
<1> QED
  BY <1>3, <1>4, <1>5, <1>6, <1>7, <1>8, <1>9

(* A row of the Controller with one field set.                             *)
LEMMA StatusSet ==
  ASSUME NEW r \in DeviceRow, NEW x \in {"online", "revoked"}
  PROVE  LET q == [r EXCEPT !.status = x]
         IN  /\ q \in DeviceRow /\ q.cred = r.cred /\ q.token = r.token
             /\ q.observer = r.observer /\ q.action = r.action /\ q.status = x
BY DEF DeviceRow

(* The same for its mode,                                                   *)
LEMMA ObserverSet ==
  ASSUME NEW r \in DeviceRow, NEW x \in BOOLEAN
  PROVE  LET q == [r EXCEPT !.observer = x]
         IN  /\ q \in DeviceRow /\ q.cred = r.cred /\ q.token = r.token
             /\ q.observer = x /\ q.action = r.action /\ q.status = r.status
BY DEF DeviceRow

(* and for the action it works on.                                          *)
LEMMA ActionSet ==
  ASSUME NEW r \in DeviceRow, NEW x \in {"none", "draft", "queued", "started"}
  PROVE  LET q == [r EXCEPT !.action = x]
         IN  /\ q \in DeviceRow /\ q.cred = r.cred /\ q.token = r.token
             /\ q.observer = r.observer /\ q.action = x /\ q.status = r.status
BY DEF DeviceRow


(* An identity that comes back keeps its credential and its token.         *)
LEMMA RelinkKeeps ==
  ASSUME EnrolInv, NEW k \in Keys, D!Linked(k), D!Relink(k), UNCHANGED observer
  PROVE  /\ device' \in [Keys -> DeviceRow] /\ token' = token
         /\ \A j \in Keys :
              /\ device'[j].cred = device[j].cred /\ device'[j].token = device[j].token
              /\ device[j] = D!NoDevice => device'[j] = D!NoDevice
              /\ device'[j].observer => device'[j].action # "started"
<1>1. /\ device \in [Keys -> DeviceRow] /\ device[k] \in DeviceRow /\ observer \in BOOLEAN
      /\ token' = token /\ device[k] # D!NoDevice
      /\ device' = [device EXCEPT ![k].status = "online", ![k].observer = observer]
  BY DEF EnrolInv, EnrolType, D!Relink, D!Linked
<1> DEFINE z == [device[k] EXCEPT !.status = "online"]
           q == [z EXCEPT !.observer = observer]
<1>2. /\ z \in DeviceRow /\ z.cred = device[k].cred /\ z.token = device[k].token
      /\ z.action = device[k].action
  BY <1>1, StatusSet
<1>3. /\ q \in DeviceRow /\ q.cred = device[k].cred /\ q.token = device[k].token
      /\ q.action = device[k].action /\ q.observer = observer
  BY <1>1, <1>2, ObserverSet, Zenon
<1>4. device' = [device EXCEPT ![k] = q]
  BY <1>1
<1> HIDE DEF q
<1>5. q.observer => q.action # "started"
  BY <1>1, <1>3 DEF EnrolInv, EnrolmentIsSound, D!EnrolmentIsSound, D!ObserverNeverActs,
     D!Relink, D!MayChangeMode, D!Unfinished, DeviceRow
<1> QED
  BY <1>1, <1>3, <1>4, <1>5 DEF EnrolInv, EnrolmentIsSound, D!EnrolmentIsSound,
     D!ObserverNeverActs

(* A new identity takes one use of its token.                              *)
LEMMA LinkKeeps ==
  ASSUME EnrolInv, NEW k \in Keys, NEW t \in Tokens, NEW minted \in Creds,
         ~D!Linked(k), D!Link(k, t, minted), UNCHANGED observer
  PROVE  /\ device' \in [Keys -> DeviceRow] /\ token' \in [Tokens -> EnrolToken]
         /\ device'[k].cred = minted /\ device'[k].action = "none"
         /\ \A j \in Keys \ {k} : device'[j] = device[j]
         /\ D!UsesAreDevices'
<1> DEFINE q == [cred |-> minted, token |-> t, status |-> "online",
                 observer |-> observer, action |-> "none"]
           use == [token[t] EXCEPT !.uses = token[t].uses + 1]
           Of(u) == {j \in Keys : device[j].token = u}
<1>1. /\ device \in [Keys -> DeviceRow] /\ observer \in BOOLEAN
      /\ token \in [Tokens -> EnrolToken]
      /\ device[k].token = NoOne /\ NoOne \notin Tokens
      /\ token[t].uses < MaxUses
      /\ D!UsesAreDevices
  BY EnrolAssumption DEF EnrolInv, EnrolType, D!Link, D!Linked, D!NoDevice, D!Admits,
     EnrolmentIsSound, D!EnrolmentIsSound
<1>2. device' = [device EXCEPT ![k] = q] /\ token' = [token EXCEPT ![t] = use]
  BY DEF D!Link
<1>3. q \in DeviceRow /\ q.cred = minted /\ q.token = t /\ q.action = "none"
  BY <1>1 DEF DeviceRow
<1>4. use \in EnrolToken /\ use.uses = token[t].uses + 1
  <2>1. token[t] \in EnrolToken
    BY <1>1
  <2> QED
    BY <2>1 DEF EnrolToken
<1> HIDE DEF q, use
<1>5. /\ device' \in [Keys -> DeviceRow] /\ token' \in [Tokens -> EnrolToken]
      /\ device'[k] = q /\ \A j \in Keys \ {k} : device'[j] = device[j]
  BY <1>1, <1>2, <1>3, <1>4
<1>6. ASSUME NEW u \in Tokens
      PROVE  /\ token'[u].uses = Cardinality({j \in Keys : device'[j].token = u})
             /\ token'[u].uses <= MaxUses
  <2>1. token[u].uses = Cardinality(Of(u)) /\ token[u].uses <= MaxUses /\ token[u].uses \in Nat
    BY <1>1, EnrolCardinality DEF D!UsesAreDevices, EnrolToken
  <2>2. CASE u # t
    <3>1. {j \in Keys : device'[j].token = u} = Of(u)
      BY <1>1, <1>3, <1>5, <2>2
    <3>2. token'[u] = token[u]
      BY <1>1, <1>2, <2>2
    <3> QED
      BY <2>1, <3>1, <3>2
  <2>3. CASE u = t
    <3>1. {j \in Keys : device'[j].token = u} = Of(u) \cup {k}
      BY <1>1, <1>3, <1>5, <2>3
    <3>2. IsFiniteSet(Of(u)) /\ k \notin Of(u)
      BY <1>1, <2>3, EnrolAssumption, FS_Subset
    <3>3. Cardinality(Of(u) \cup {k}) = Cardinality(Of(u)) + 1
      BY <3>2, FS_AddElement
    <3>4. token'[u].uses = token[u].uses + 1 /\ token[u].uses < MaxUses
      BY <1>1, <1>2, <1>4, <2>3
    <3>5. token'[u].uses = Cardinality({j \in Keys : device'[j].token = u})
      BY <2>1, <3>1, <3>3, <3>4
    <3>6. token'[u].uses <= MaxUses
      BY <2>1, <3>4, EnrolAssumption
    <3> QED
      BY <3>5, <3>6
  <2> QED
    BY <2>2, <2>3
<1>7. D!UsesAreDevices'
  BY <1>6, EnrolCardinality DEF D!UsesAreDevices
<1> QED
  BY <1>3, <1>5, <1>7

(* What the answer to a proof leaves in the process that gets it.          *)
LEMMA ProofMoves ==
  ASSUME EnrolInv, NEW p \in Installers, NEW x \in Creds,
         \/ D!Ends(p)
         \/ D!Moves(p, [proc[p] EXCEPT !.at = "save", !.challenge = NoOne, !.cred = x]),
         proc[p].at = "prove"
  PROVE  \E q \in Installation :
           /\ proc' = [proc EXCEPT ![p] = q]
           /\ \/ q.at = "idle"
              \/ /\ q.at = "save" /\ q.key = proc[p].key /\ q.token = proc[p].token
                 /\ q.cred = x
<1>1. CASE D!Ends(p)
  BY <1>1, RestingRow DEF D!Ends, D!Moves
<1>2. CASE D!Moves(p, [proc[p] EXCEPT !.at = "save", !.challenge = NoOne, !.cred = x])
  <2> DEFINE r == proc[p]
             s == [r EXCEPT !.at = "save"]
             z == [s EXCEPT !.challenge = NoOne]
             q == [z EXCEPT !.cred = x]
  <2>1. /\ r \in Installation /\ "save" \in D!Phases
        /\ x \in Creds \cup {NoOne} /\ NoOne \in Challenges \cup {NoOne}
    BY DEF EnrolInv, EnrolType, D!Phases
  <2>2. s \in Installation /\ s.at = "save" /\ s.key = r.key /\ s.token = r.token
    BY <2>1, AtSet, Zenon
  <2>3. z \in Installation /\ z.at = "save" /\ z.key = r.key /\ z.token = r.token
    BY <2>1, <2>2, ChallengeSet, Zenon
  <2>4. /\ q \in Installation /\ q.at = "save" /\ q.key = r.key /\ q.token = r.token
        /\ q.cred = x
    BY <2>1, <2>3, CredSet, Zenon
  <2>5. proc' = [proc EXCEPT ![p] = q]
    BY <1>2, Zenon DEF D!Moves
  <2> HIDE DEF q, z, s
  <2> QED
    BY <2>4, <2>5
<1> QED
  BY <1>1, <1>2

(* The Controller's decision keeps every credential that was handed out.   *)
LEMMA ProveKeeps ==
  ASSUME EnrolInv, NEW p \in Installers, D!Prove(p, TRUE) \/ D!Prove(p, FALSE)
  PROVE  EnrolInv'
<1> DEFINE k == proc[p].key
           t == proc[p].token
<1>1. /\ k \in Keys /\ t \in Tokens /\ proc[p].at = "prove"
      /\ UNCHANGED <<dataDir, observer>>
  BY DEF EnrolInv, StageHolds, D!Prove
<1>2. PICK minted \in Creds :
        /\ D!FinalizeEnrollment(proc[p].challenge, k, t, minted)
        /\ \/ D!Ends(p)
           \/ D!Moves(p, [proc[p] EXCEPT !.at = "save", !.challenge = NoOne,
                                         !.cred = D!Answer(k, minted)])
  BY DEF D!Prove
<1>3. /\ device \in [Keys -> DeviceRow]
      /\ \A j \in Keys : device[j] = D!NoDevice \/ device[j].cred \in Creds
      /\ proc \in [Installers -> Installation] /\ dataDir \in DataDir
  BY DEF EnrolInv, EnrolType
<1>4. /\ D!Answer(k, minted) \in Creds
      /\ device' \in [Keys -> DeviceRow] /\ token' \in [Tokens -> EnrolToken]
      /\ device'[k].cred = D!Answer(k, minted)
      /\ \A j \in Keys : device[j] # D!NoDevice => device'[j].cred = device[j].cred
      /\ \A j \in Keys : device'[j] = D!NoDevice \/ device'[j].cred \in Creds
      /\ D!UsesAreDevices' /\ D!ObserverNeverActs'
  <2>1. CASE D!Linked(k) /\ D!Relink(k)
    <3>1. /\ device' \in [Keys -> DeviceRow] /\ token' = token
          /\ \A j \in Keys :
               /\ device'[j].cred = device[j].cred /\ device'[j].token = device[j].token
               /\ device[j] = D!NoDevice => device'[j] = D!NoDevice
               /\ device'[j].observer => device'[j].action # "started"
      BY <1>1, <2>1, RelinkKeeps
    <3>2. D!Answer(k, minted) = device[k].cred /\ device[k].cred \in Creds
      BY <1>1, <1>3, <2>1 DEF D!Answer, D!Linked
    <3>3. D!UsesAreDevices'
      BY <3>1, NobodyEnrolled DEF EnrolInv, EnrolmentIsSound, D!EnrolmentIsSound
    <3>4. token' \in [Tokens -> EnrolToken]
      BY <3>1 DEF EnrolInv, EnrolType
    <3> QED
      BY <1>1, <1>3, <3>1, <3>2, <3>3, <3>4 DEF D!ObserverNeverActs
  <2>2. CASE ~D!Linked(k) /\ D!Link(k, t, minted)
    <3>1. /\ device' \in [Keys -> DeviceRow] /\ token' \in [Tokens -> EnrolToken]
          /\ device'[k].cred = minted /\ device'[k].action = "none"
          /\ \A j \in Keys \ {k} : device'[j] = device[j]
          /\ D!UsesAreDevices'
      BY <1>1, <2>2, LinkKeeps
    <3>2. D!Answer(k, minted) = minted /\ device[k] = D!NoDevice
      BY <2>2 DEF D!Answer, D!Linked
    <3> QED
      BY <1>1, <1>3, <3>1, <3>2 DEF D!ObserverNeverActs, EnrolInv, EnrolmentIsSound,
         D!EnrolmentIsSound
  <2> QED
    BY <1>2, <2>1, <2>2 DEF D!FinalizeEnrollment
<1>5. PICK q \in Installation :
        /\ proc' = [proc EXCEPT ![p] = q]
        /\ \/ q.at = "idle"
           \/ q.at = "save" /\ q.key = k /\ q.token = t /\ q.cred = D!Answer(k, minted)
  BY <1>1, <1>2, <1>4, ProofMoves
<1> HIDE DEF k, t
<1>6. \A r \in Installers : proc'[r] = IF r = p THEN q ELSE proc[r]
  BY <1>3, <1>5
<1>7. EnrolType'
  BY <1>1, <1>3, <1>4, <1>5 DEF EnrolInv, EnrolType
<1>8. StageHolds'
  BY <1>1, <1>4, <1>5, <1>6 DEF EnrolInv, StageHolds
<1>9. D!CredentialWorks'
  <2>1. \A j \in Keys : device[j].cred \in Creds => device'[j].cred = device[j].cred
    BY <1>4, EnrolAssumption DEF D!NoDevice
  <2>2. dataDir.state # D!NoState => /\ dataDir.state.key \in Keys /\ dataDir.state.cred \in Creds
                                     /\ device[dataDir.state.key].cred = dataDir.state.cred
    BY <1>3 DEF EnrolInv, EnrolmentIsSound, D!EnrolmentIsSound, D!CredentialWorks, DataDir,
       StateFile
  <2>3. ASSUME NEW r \in Installers, proc'[r].at \in {"save", "clean"}
        PROVE  device'[proc'[r].key].cred = proc'[r].cred
    <3>1. CASE r = p
      BY <1>4, <1>5, <1>6, <2>3, <3>1
    <3>2. CASE r # p
      BY <1>6, <2>1, <2>3, <3>2 DEF EnrolInv, StageHolds, EnrolmentIsSound,
         D!EnrolmentIsSound, D!CredentialWorks
    <3> QED
      BY <3>1, <3>2
  <2> QED
    BY <1>1, <2>1, <2>2, <2>3 DEF D!CredentialWorks
<1> QED
  BY <1>4, <1>7, <1>8, <1>9 DEF EnrolInv, EnrolmentIsSound, D!EnrolmentIsSound

(* A token's validity is no part of its uses.                              *)
LEMMA TokenValidSet ==
  ASSUME NEW r \in EnrolToken, NEW x \in BOOLEAN
  PROVE  LET q == [r EXCEPT !.valid = x] IN q \in EnrolToken /\ q.uses = r.uses
BY DEF EnrolToken

(* The operator's steps on the files and on the tokens.                    *)
LEMMA FilesAndTokensKeep ==
  ASSUME EnrolInv,
         \/ D!Reconfigure
         \/ \E t \in Tokens : D!CreateToken(t) \/ D!RevokeToken(t) \/ D!TokenLapses(t)
                              \/ D!Provide(t)
  PROVE  EnrolInv'
<1>1. /\ dataDir \in DataDir /\ observer \in BOOLEAN
      /\ token \in [Tokens -> EnrolToken] /\ device \in [Keys -> DeviceRow]
      /\ \A k \in Keys : device[k].observer => device[k].action # "started"
  BY DEF EnrolInv, EnrolType, EnrolmentIsSound, D!EnrolmentIsSound, D!ObserverNeverActs
<1>2. CASE D!Reconfigure
  <2>1. PICK left \in {dataDir.pending, NoOne} :
          dataDir' = [dataDir EXCEPT !.state = D!NoState, !.pending = left]
    BY <1>2 DEF D!Reconfigure
  <2> DEFINE z == [dataDir EXCEPT !.state = D!NoState]
  <2>2. left \in Keys \cup {NoOne} /\ D!NoState \in StateFile \cup {D!NoState}
    BY <1>1 DEF DataDir
  <2>3. z \in DataDir /\ z.state = D!NoState
    BY <1>1, <2>2, FileSet, Zenon
  <2>4. dataDir' \in DataDir /\ dataDir'.state = D!NoState
    BY <2>1, <2>2, <2>3, FileSet, Zenon
  <2>5. UNCHANGED <<proc, token, challenge, device>> /\ observer' \in BOOLEAN
    BY <1>2 DEF D!Reconfigure
  <2> HIDE DEF z
  <2> QED
    BY <1>1, <2>4, <2>5, RowsChange
<1>3. ASSUME NEW t \in Tokens, D!CreateToken(t) \/ D!RevokeToken(t) \/ D!TokenLapses(t)
      PROVE  EnrolInv'
  <2>1. token[t] \in EnrolToken /\ UNCHANGED <<proc, dataDir, observer, device>>
    BY <1>1, <1>3 DEF D!CreateToken, D!RevokeToken, D!TokenLapses
  <2>2. PICK q \in EnrolToken : q.uses = token[t].uses /\ token' = [token EXCEPT ![t] = q]
    <3>1. CASE D!CreateToken(t)
      <4> DEFINE z == [token[t] EXCEPT !.status = "issued"]
                 q == [z EXCEPT !.valid = TRUE]
      <4>1. z \in EnrolToken /\ z.uses = token[t].uses
        BY <2>1 DEF EnrolToken
      <4>2. q \in EnrolToken /\ q.uses = z.uses
        BY <4>1, TokenValidSet, Zenon
      <4>3. token' = [token EXCEPT ![t] = q]
        BY <1>1, <3>1 DEF D!CreateToken
      <4> HIDE DEF q, z
      <4> QED
        BY <4>1, <4>2, <4>3
    <3>2. CASE D!RevokeToken(t)
      BY <2>1, <3>2 DEF D!RevokeToken, EnrolToken
    <3>3. CASE D!TokenLapses(t)
      BY <2>1, <3>3 DEF D!TokenLapses, EnrolToken
    <3> QED
      BY <1>3, <3>1, <3>2, <3>3
  <2>3. /\ token' \in [Tokens -> EnrolToken]
        /\ \A u \in Tokens : token'[u].uses = token[u].uses
    BY <1>1, <2>2
  <2> QED
    BY <1>1, <2>1, <2>3, RowsChange
<1>4. ASSUME NEW t \in Tokens, D!Provide(t)
      PROVE  EnrolInv'
  <2>1. dataDir' = [dataDir EXCEPT !.token = t] /\ t \in Tokens \cup {NoOne}
    BY <1>4 DEF D!Provide
  <2>2. dataDir' \in DataDir /\ dataDir'.state = dataDir.state
    BY <1>1, <2>1, FileSet, Zenon
  <2>3. UNCHANGED <<proc, observer, token, device>>
    BY <1>4 DEF D!Provide
  <2> QED
    BY <1>1, <2>2, <2>3, RowsChange
<1> QED
  BY <1>2, <1>3, <1>4

(* The administrator's and the queue's steps on a device.                  *)
LEMMA DevicesKeep ==
  ASSUME EnrolInv, NEW k \in Keys,
         \/ D!RevokeDevice(k) \/ D!CreateAction(k) \/ D!ApproveActionAndEnqueue(k)
         \/ D!StartActionCommand(k) \/ D!ActionEnds(k)
  PROVE  EnrolInv'
<1>1. /\ dataDir \in DataDir /\ observer \in BOOLEAN
      /\ token \in [Tokens -> EnrolToken] /\ device \in [Keys -> DeviceRow]
      /\ device[k] \in DeviceRow
      /\ \A j \in Keys : device[j].observer => device[j].action # "started"
      /\ UNCHANGED <<proc, dataDir, observer, token>>
  BY DEF EnrolInv, EnrolType, EnrolmentIsSound, D!EnrolmentIsSound, D!ObserverNeverActs,
     D!RevokeDevice, D!CreateAction, D!ApproveActionAndEnqueue, D!StartActionCommand,
     D!ActionEnds
<1>2. ASSUME NEW q \in DeviceRow, device' = [device EXCEPT ![k] = q], device[k] # D!NoDevice,
             q.cred = device[k].cred, q.token = device[k].token,
             q.observer => q.action # "started"
      PROVE  EnrolInv'
  <2>1. /\ device' \in [Keys -> DeviceRow]
        /\ \A j \in Keys :
             /\ device'[j].cred = device[j].cred /\ device'[j].token = device[j].token
             /\ device[j] = D!NoDevice => device'[j] = D!NoDevice
             /\ device'[j].observer => device'[j].action # "started"
    BY <1>1, <1>2
  <2> QED
    BY <1>1, <2>1, RowsChange
<1>3. ASSUME NEW a \in {"none", "draft", "queued", "started"}, device[k].action # a,
             device' = [device EXCEPT ![k].action = a], device[k] # D!NoDevice,
             device[k].observer => a # "started"
      PROVE  EnrolInv'
  <2> DEFINE q == [device[k] EXCEPT !.action = a]
  <2>1. /\ q \in DeviceRow /\ q.cred = device[k].cred /\ q.token = device[k].token
        /\ q.observer = device[k].observer /\ q.action = a
    BY <1>1, ActionSet, Zenon
  <2>2. device' = [device EXCEPT ![k] = q]
    BY <1>3, Zenon
  <2> HIDE DEF q
  <2> QED
    BY <1>2, <1>3, <2>1, <2>2
<1>4. CASE D!CreateAction(k)
  <2>1. device' = [device EXCEPT ![k].action = "draft"]
    BY <1>4 DEF D!CreateAction
  <2>2. /\ device[k] # D!NoDevice /\ device[k].action # "draft"
    BY <1>4 DEF D!CreateAction, D!Linked
  <2> QED
    BY <1>3, <2>1, <2>2
<1>5. CASE D!ApproveActionAndEnqueue(k)
  <2>1. device' = [device EXCEPT ![k].action = "queued"]
    BY <1>5 DEF D!ApproveActionAndEnqueue
  <2>2. /\ device[k] # D!NoDevice /\ device[k].action # "queued"
    BY <1>5 DEF D!ApproveActionAndEnqueue, D!NoDevice
  <2> QED
    BY <1>3, <2>1, <2>2
<1>6. CASE D!StartActionCommand(k)
  <2>1. PICK a \in {"none", "started"} :
          /\ device' = [device EXCEPT ![k].action = a]
          /\ device[k].observer => a # "started"
    BY <1>6 DEF D!StartActionCommand, D!Gated
  <2>2. device[k] # D!NoDevice /\ device[k].action # a
    BY <1>6 DEF D!StartActionCommand, D!NoDevice
  <2> QED
    BY <1>3, <2>1, <2>2
<1>7. CASE D!ActionEnds(k)
  <2>1. device' = [device EXCEPT ![k].action = "none"]
    BY <1>7 DEF D!ActionEnds
  <2>2. device[k] # D!NoDevice /\ device[k].action # "none"
    BY <1>7 DEF D!ActionEnds, D!NoDevice
  <2> QED
    BY <1>3, <2>1, <2>2
<1>8. CASE D!RevokeDevice(k)
  <2> DEFINE z == [device[k] EXCEPT !.status = "revoked"]
             a == IF device[k].action \in D!Unfinished THEN "none" ELSE device[k].action
             q == [z EXCEPT !.action = a]
  <2>1. device' = [device EXCEPT ![k].status = "revoked",
                                 ![k].action = IF @ \in D!Unfinished THEN "none" ELSE @]
        /\ device[k] # D!NoDevice
    BY <1>8 DEF D!RevokeDevice, D!Linked
  <2>2. a \in {"none", "draft", "queued", "started"} /\ a # "started"
    BY <1>1 DEF DeviceRow, D!Unfinished
  <2>3. /\ z \in DeviceRow /\ z.cred = device[k].cred /\ z.token = device[k].token
        /\ z.action = device[k].action
    BY <1>1, StatusSet
  <2>4. device' = [device EXCEPT ![k] = q]
    BY <1>1, <2>1, <2>3
  <2> HIDE DEF a
  <2>5. /\ q \in DeviceRow /\ q.cred = device[k].cred /\ q.token = device[k].token
        /\ q.action = a
    BY <2>2, <2>3, ActionSet, Zenon
  <2> HIDE DEF q
  <2> QED
    BY <1>2, <2>1, <2>2, <2>4, <2>5
<1> QED
  BY <1>4, <1>5, <1>6, <1>7, <1>8

(* No step of the enrolment part breaks the invariant.                     *)
LEMMA EnrolStepKeeps ==
  ASSUME EnrolInv, D!Next
  PROVE  EnrolInv'
<1>1. CASE \E p \in Installers : D!Agent(p) \/ D!Faulty(p)
  BY <1>1, AgentKeeps, ProveKeeps DEF D!Agent, D!Faulty
<1>2. ASSUME NEW c \in Challenges, D!ChallengeLapses(c)
      PROVE  EnrolInv'
  BY <1>2 DEF D!ChallengeLapses, EnrolInv, EnrolType, StageHolds, EnrolmentIsSound,
     D!EnrolmentIsSound, D!UsesAreDevices, D!CredentialWorks, D!ObserverNeverActs
<1>3. CASE D!Operator
  BY <1>3, FilesAndTokensKeep, DevicesKeep DEF D!Operator
<1> QED
  BY <1>1, <1>2, <1>3 DEF D!Next

(* A step is the enrolment part's own, or leaves it alone.                 *)
LEMMA EnrolAlone ==
  ASSUME Next
  PROVE  D!Next \/ UNCHANGED enrolVars
BY DEF Next, Only

(* Every state: a use of a token is an identity it enrolled, the limit     *)
(* holds, a credential the host saved or is about to save is the one the   *)
(* Controller knows, and no command starts on an observer                  *)
(* (store/auth_devices.go, agent/runner.go, agent/client.go).              *)
THEOREM EnrolmentHolds == Spec => []EnrolmentIsSound
<1>1. Init => EnrolInv
  <2> SUFFICES ASSUME Init PROVE EnrolInv
    OBVIOUS
  <2>1. EnrolType
    BY EnrolAssumption DEF Init, D!Init, EnrolType, D!Resting, D!NoDevice, D!NoState,
       Installation, D!Phases, DataDir, EnrolToken, DeviceRow
  <2>2. StageHolds
    BY DEF Init, D!Init, StageHolds, D!Resting
  <2>3. D!UsesAreDevices
    <3>1. ASSUME NEW t \in Tokens
          PROVE  token[t].uses = Cardinality({k \in Keys : device[k].token = t})
      <4>1. {k \in Keys : device[k].token = t} = {}
        BY EnrolAssumption DEF Init, D!Init, D!NoDevice
      <4> QED
        BY <4>1, FS_EmptySet DEF Init, D!Init
    <3>2. \A t \in Tokens : token[t].uses <= MaxUses
      BY EnrolAssumption DEF Init, D!Init
    <3> QED
      BY <3>1, <3>2, EnrolCardinality DEF D!UsesAreDevices
  <2>4. D!CredentialWorks /\ D!ObserverNeverActs
    BY DEF Init, D!Init, D!CredentialWorks, D!ObserverNeverActs, D!Resting, D!NoDevice
  <2> QED
    BY <2>1, <2>2, <2>3, <2>4 DEF EnrolInv, EnrolmentIsSound, D!EnrolmentIsSound
<1>2. EnrolInv /\ UNCHANGED enrolVars => EnrolInv'
  BY DEF enrolVars, EnrolInv, EnrolType, StageHolds, EnrolmentIsSound,
     D!EnrolmentIsSound, D!UsesAreDevices, D!CredentialWorks, D!ObserverNeverActs
<1>3. EnrolInv /\ [Next]_<<part, elementVars, hardenVars, suspendVars, notifyVars, reportVars,
                          enrolVars, baselineVars, windowVars>> => EnrolInv'
  BY <1>2, EnrolStepKeeps, EnrolAlone
<1>4. EnrolInv => EnrolmentIsSound
  BY DEF EnrolInv
<1> QED
  BY <1>1, <1>3, <1>4, PTL DEF Spec

-----------------------------------------------------------------------------
(* Failed logins and bans: what is true of every state.                    *)

Policy  == [on : BOOLEAN, auto : BOOLEAN, window : Windows, saves : Nat]
Failure == [source : Sources, at : Nat]
Blocked == [id : Nat, source : Sources, at : Nat, until : Nat, simulated : BOOLEAN,
            pending : BOOLEAN]

WindowType ==
  /\ now \in Nat \ {0} /\ policy \in Policy /\ heard \in Seq(Failure)
  /\ cached \in Int /\ DOMAIN rows \subseteq Sources /\ IsFiniteSet(DOMAIN rows)

(* Bans are recorded in the order of the failures that led to them.        *)
BansType ==
  /\ blocked \in SUBSET Blocked /\ IsFiniteSet(blocked)
  /\ \A b \in blocked : b.id <= Len(heard) /\ b.at <= now

(* The bans that the limits speak of.                                      *)
RealIn(t)      == {b \in W!Real : b.at \in (t - Hour)..t}
SimulatedIn(t) == {b \in W!Simulated : b.at \in (t - Hour)..t}
SimulatedAt(t) == {b \in W!Simulated : b.at <= t /\ t < b.until}

(* The library's count of a set is the count the theorems speak of.        *)
LEMMA WindowCardinality ==
  ASSUME NEW T
  PROVE  W!Cardinality(T) = Cardinality(T)
BY DEF W!Cardinality, Cardinality

(* What shrinks stays within a limit,                                      *)
LEMMA FewerFit ==
  ASSUME NEW A, IsFiniteSet(A), NEW Z \in SUBSET A, NEW m \in Nat, Cardinality(A) <= m
  PROVE  IsFiniteSet(Z) /\ Cardinality(Z) <= m
<1>1. IsFiniteSet(Z) /\ Cardinality(Z) <= Cardinality(A)
  BY FS_Subset
<1> QED
  BY <1>1, FS_CardinalityType

(* what gains one does where there was room for it,                        *)
LEMMA OneMoreFits ==
  ASSUME NEW A, IsFiniteSet(A), NEW x, NEW Z \in SUBSET (A \cup {x}), NEW m \in Nat,
         Cardinality(A) < m
  PROVE  IsFiniteSet(Z) /\ Cardinality(Z) <= m
<1>1. /\ IsFiniteSet(A \cup {x}) /\ Cardinality(A) \in Nat
      /\ Cardinality(A \cup {x}) <= Cardinality(A) + 1
  BY FS_AddElement, FS_CardinalityType
<1>2. Cardinality(A \cup {x}) <= m
  BY <1>1, FS_CardinalityType
<1> QED
  BY <1>1, <1>2, FewerFit

(* and so does what exchanges one member for another.                      *)
LEMMA ExchangeFits ==
  ASSUME NEW A, IsFiniteSet(A), NEW x, NEW y, NEW Z \in SUBSET ((A \ {x}) \cup {y}),
         y \in Z => x \in A, NEW m \in Nat, Cardinality(A) <= m
  PROVE  IsFiniteSet(Z) /\ Cardinality(Z) <= m
<1>1. CASE x \notin A
  <2>1. Z \subseteq A
    BY <1>1
  <2> QED
    BY <2>1, FewerFit
<1>2. CASE x \in A
  <2>1. /\ IsFiniteSet(A \ {x}) /\ Cardinality(A \ {x}) = Cardinality(A) - 1
        /\ Cardinality(A) \in Nat
    BY <1>2, FS_RemoveElement, FS_CardinalityType
  <2>2. Cardinality(A \ {x}) < m
    BY <2>1
  <2> QED
    BY <2>1, <2>2, OneMoreFits
<1> QED
  BY <1>1, <1>2

(* A finite set has a member of the lowest rank.                           *)
LEMMA LowestRank ==
  ASSUME NEW K, IsFiniteSet(K), K # {}, NEW f \in [K -> Int]
  PROVE  \E k \in K : \A j \in K : f[k] <= f[j]
<1> DEFINE Below(k) == {j \in K : f[j] < f[k]}
           T == {Below(k) : k \in K}
<1>1. T # {} /\ T \subseteq FiniteSubsetsOf(K)
  <2>1. T # {} /\ T \subseteq SUBSET K
    OBVIOUS
  <2> QED
    BY <2>1, FS_FiniteSubsetsOfFinite
<1>2. PICK X \in T : \A Y \in T : <<Y, X>> \notin StrictSubsetOrdering(K)
  <2>1. IsWellFoundedOn(StrictSubsetOrdering(K), FiniteSubsetsOf(K))
    BY FS_StrictSubsetOrderingWellFounded
  <2> HIDE DEF T
  <2> QED
    BY <1>1, <2>1, WFMin
<1>3. PICK k \in K : X = Below(k)
  OBVIOUS
<1>4. ASSUME NEW j \in K, f[j] < f[k]
      PROVE  FALSE
  <2>1. Below(j) \subseteq Below(k) /\ j \in Below(k) \ Below(j) /\ Below(j) \in T
    BY <1>4
  <2>2. <<Below(j), X>> \in StrictSubsetOrdering(K)
    BY <1>3, <2>1 DEF StrictSubsetOrdering
  <2> QED
    BY <1>2, <2>1, <2>2
<1> QED
  BY <1>4

(* The least cooldown is one of those there are.                           *)
LEMMA LeastCooldown ==
  /\ W!Min(Windows \cup {CoolMax}) \in Nat
  /\ \A w \in Windows \cup {CoolMax} : W!Min(Windows \cup {CoolMax}) <= w
<1> DEFINE K == Windows \cup {CoolMax}
           f == [w \in K |-> w]
<1>1. IsFiniteSet(K) /\ K # {} /\ f \in [K -> Int] /\ K \subseteq Nat
  BY WindowAssumption, FS_AddElement
<1>2. \E k \in K : \A j \in K : f[k] <= f[j]
  <2> HIDE DEF K, f
  <2> QED
    BY <1>1, LowestRank
<1>3. \E k \in K : \A j \in K : k <= j
  BY <1>2
<1>4. W!Min(K) \in K /\ \A j \in K : W!Min(K) <= j
  BY <1>3 DEF W!Min
<1> QED
  BY <1>1, <1>4

(* The limits, of every moment so far.                                     *)
LimitsHeld ==
  \A t \in 1..now :
    /\ Cardinality(RealIn(t)) <= MaxBans
    /\ Cardinality(SimulatedIn(t)) <= MaxSims
    /\ Cardinality(SimulatedAt(t)) <= MaxLiveSims

(* One source is not blocked twice at once.                                *)
ApartHeld ==
  /\ \A b, c \in W!Real : b.source = c.source /\ b.id < c.id =>
       c.at > b.at + W!Min(Windows \cup {CoolMax})
  /\ \A b, c \in W!Simulated : b.source = c.source /\ b.id < c.id => c.at >= b.until

(* The rate of bans is kept when the limits are and bans stay apart.       *)
LEMMA RateIsBoth ==
  /\ W!BanRateHeld <=> LimitsHeld /\ ApartHeld
  /\ W!BanRateHeld' <=> LimitsHeld' /\ ApartHeld'
<1>1. ASSUME NEW t
      PROVE  /\ W!Cardinality({b \in W!Real : b.at \in (t - Hour)..t}) = Cardinality(RealIn(t))
             /\ W!Cardinality({b \in W!Simulated : b.at \in (t - Hour)..t}) =
                  Cardinality(SimulatedIn(t))
             /\ W!Cardinality({b \in W!Simulated : b.at <= t /\ t < b.until}) =
                  Cardinality(SimulatedAt(t))
  BY WindowCardinality DEF RealIn, SimulatedIn, SimulatedAt
<1>2. ASSUME NEW t
      PROVE  /\ W!Cardinality({b \in W!Real' : b.at \in (t - Hour)..t}) =
                  Cardinality(RealIn(t)')
             /\ W!Cardinality({b \in W!Simulated' : b.at \in (t - Hour)..t}) =
                  Cardinality(SimulatedIn(t)')
             /\ W!Cardinality({b \in W!Simulated' : b.at <= t /\ t < b.until}) =
                  Cardinality(SimulatedAt(t)')
  BY WindowCardinality DEF RealIn, SimulatedIn, SimulatedAt
<1> QED
  BY <1>1, <1>2 DEF W!BanRateHeld, LimitsHeld, ApartHeld

(* Each limit speaks of finitely many bans.                                *)
LEMMA WindowsAreFinite ==
  ASSUME BansType, NEW t
  PROVE  IsFiniteSet(RealIn(t)) /\ IsFiniteSet(SimulatedIn(t)) /\ IsFiniteSet(SimulatedAt(t))
<1>1. /\ RealIn(t) \subseteq blocked /\ SimulatedIn(t) \subseteq blocked
      /\ SimulatedAt(t) \subseteq blocked
  BY DEF RealIn, SimulatedIn, SimulatedAt, W!Real, W!Simulated
<1> QED
  BY <1>1, FS_Subset DEF BansType

(* What a decision records.                                                *)
LEMMA BanRecorded ==
  ASSUME WindowType, NEW s \in Sources, NEW i \in Nat, NEW count, W!Decide(i, s, count),
         blocked' # blocked
  PROVE  \E ban \in Blocked :
           /\ blocked' = blocked \cup {ban}
           /\ ban.id = i /\ ban.source = s /\ ban.at = now
           /\ W!Expires(s, count)
           /\ ban.simulated => W!MaySimulate(s)
           /\ ~ban.simulated => W!MayBan(s)
<1> DEFINE simulate == ~policy.auto \/ s \in Protected
           ban == [id |-> i, source |-> s, at |-> now, until |-> now + BanTime,
                   simulated |-> simulate, pending |-> ~simulate]
<1>1. /\ W!Expires(s, count) /\ (IF simulate THEN W!MaySimulate(s) ELSE W!MayBan(s))
      /\ blocked' = blocked \cup {ban}
  BY DEF W!Decide
<1>2. now \in Nat /\ simulate \in BOOLEAN
  BY DEF WindowType
<1> HIDE DEF simulate
<1>3. /\ ban \in Blocked /\ ban.id = i /\ ban.source = s /\ ban.at = now
      /\ ban.simulated = simulate
  BY <1>2, WindowAssumption DEF Blocked
<1> QED
  BY <1>1, <1>3

(* A ban recorded where the hour, the audit limit and the cooldown leave   *)
(* room for it.                                                            *)
LEMMA DecisionKeepsLimits ==
  ASSUME WindowType, BansType, LimitsHeld, NEW s \in Sources, NEW i \in Nat, NEW count,
         W!Decide(i, s, count), UNCHANGED now
  PROVE  LimitsHeld'
<1>1. CASE blocked' = blocked
  BY <1>1 DEF LimitsHeld, RealIn, SimulatedIn, SimulatedAt, W!Real, W!Simulated
<1>2. ASSUME blocked' # blocked PROVE LimitsHeld'
  <2>1. PICK ban \in Blocked :
          /\ blocked' = blocked \cup {ban} /\ ban.at = now
          /\ W!Expires(s, count)
          /\ ban.simulated => W!MaySimulate(s)
    BY <1>2, BanRecorded
  <2>2. /\ \A b \in blocked : b.at \in Nat /\ b.at <= now /\ b.until \in Nat
        /\ now \in Nat \ {0}
    BY DEF BansType, Blocked, WindowType
  <2>3. ASSUME NEW t \in 1..now, t # now
        PROVE  /\ RealIn(t)' = RealIn(t) /\ SimulatedIn(t)' = SimulatedIn(t)
               /\ SimulatedAt(t)' = SimulatedAt(t)
    BY <2>1, <2>2, <2>3, WindowAssumption DEF RealIn, SimulatedIn, SimulatedAt, W!Real,
       W!Simulated
  <2>4. CASE ban.simulated
    <3>1. /\ Cardinality(SimulatedIn(now)) < MaxSims
          /\ Cardinality(SimulatedAt(now)) < MaxLiveSims
      <4>1. /\ W!Since(W!Simulated, now - Hour) = SimulatedIn(now)
            /\ {b \in W!Simulated : W!Live(b)} = SimulatedAt(now)
        BY <2>2, WindowAssumption DEF W!Since, SimulatedIn, SimulatedAt, W!Simulated, W!Live
      <4> QED
        BY <2>1, <2>4, <4>1, WindowCardinality DEF W!MaySimulate
    <3>2. /\ RealIn(now)' = RealIn(now)
          /\ SimulatedIn(now)' \subseteq SimulatedIn(now) \cup {ban}
          /\ SimulatedAt(now)' \subseteq SimulatedAt(now) \cup {ban}
      BY <2>1, <2>4 DEF RealIn, SimulatedIn, SimulatedAt, W!Real, W!Simulated
    <3>3. /\ Cardinality(SimulatedIn(now)') <= MaxSims
          /\ Cardinality(SimulatedAt(now)') <= MaxLiveSims
      BY <3>1, <3>2, OneMoreFits, WindowsAreFinite, WindowAssumption
    <3> QED
      BY <2>2, <2>3, <3>2, <3>3 DEF LimitsHeld
  <2>5. CASE ~ban.simulated
    <3>1. Cardinality(RealIn(now)) < MaxBans
      <4>1. W!Since(W!Real, now - Hour) = RealIn(now)
        BY <2>2, WindowAssumption DEF W!Since, RealIn, W!Real
      <4> QED
        BY <2>1, <4>1, WindowCardinality DEF W!Expires
    <3>2. /\ RealIn(now)' \subseteq RealIn(now) \cup {ban}
          /\ SimulatedIn(now)' = SimulatedIn(now) /\ SimulatedAt(now)' = SimulatedAt(now)
      BY <2>1, <2>5 DEF RealIn, SimulatedIn, SimulatedAt, W!Real, W!Simulated
    <3>3. Cardinality(RealIn(now)') <= MaxBans
      BY <3>1, <3>2, OneMoreFits, WindowsAreFinite, WindowAssumption
    <3> QED
      BY <2>2, <2>3, <3>2, <3>3 DEF LimitsHeld
  <2> QED
    BY <2>4, <2>5
<1> QED
  BY <1>1, <1>2

(* A ban is recorded after the bans before it are over or cooled down.     *)
LEMMA DecisionKeepsApart ==
  ASSUME WindowType, BansType, ApartHeld, NEW s \in Sources, NEW count,
         W!Decide(Len(heard) + 1, s, count), UNCHANGED <<now, policy>>,
         Len(heard') = Len(heard) + 1
  PROVE  BansType' /\ ApartHeld'
<1>1. Len(heard) \in Nat /\ now \in Nat
  BY DEF WindowType
<1>2. CASE blocked' = blocked
  <2>1. BansType'
    BY <1>1, <1>2 DEF BansType, Blocked
  <2>2. W!Real' = W!Real /\ W!Simulated' = W!Simulated
    BY <1>2 DEF W!Real, W!Simulated
  <2> QED
    BY <2>1, <2>2 DEF ApartHeld
<1>3. ASSUME blocked' # blocked PROVE BansType' /\ ApartHeld'
  <2>1. PICK ban \in Blocked :
          /\ blocked' = blocked \cup {ban}
          /\ ban.id = Len(heard) + 1 /\ ban.source = s /\ ban.at = now
          /\ ban.simulated => W!MaySimulate(s)
          /\ ~ban.simulated => W!MayBan(s)
    <3>1. Len(heard) + 1 \in Nat
      BY <1>1
    <3> QED
      BY <1>3, <3>1, BanRecorded
  <2>2. \A b \in blocked : /\ b \in Blocked /\ b.id \in Nat /\ b.id <= Len(heard)
                           /\ b.at \in Nat /\ b.at <= now /\ b.until \in Nat
    BY DEF BansType, Blocked
  <2>3. BansType'
    <3>1. IsFiniteSet(blocked')
      BY <2>1, FS_AddElement DEF BansType
    <3>2. blocked' \in SUBSET Blocked
      BY <2>1, <2>2
    <3>3. \A b \in blocked' : b.id <= Len(heard') /\ b.at <= now'
      BY <1>1, <2>1, <2>2
    <3> QED
      BY <3>1, <3>2, <3>3 DEF BansType
  <2>4. W!Min(Windows \cup {CoolMax}) <= W!Cooldown /\ W!Cooldown \in Nat
    <3>1. policy.window \in Windows
      BY DEF WindowType, Policy
    <3>2. W!Cooldown \in Windows \cup {CoolMax} /\ W!Cooldown \in Nat
      BY <3>1, WindowAssumption DEF W!Cooldown
    <3> QED
      BY <3>2, LeastCooldown
  <2>5. ASSUME NEW b \in W!Real, b.source = s, ~ban.simulated
        PROVE  now > b.at + W!Min(Windows \cup {CoolMax})
    <3>1. b \in blocked /\ ~(b.at >= now - W!Cooldown)
      BY <2>1, <2>5 DEF W!MayBan, W!Since, W!Of, W!Real
    <3>2. b.at \in Nat /\ W!Min(Windows \cup {CoolMax}) \in Nat
      BY <2>2, <3>1, LeastCooldown
    <3> QED
      BY <1>1, <2>4, <3>1, <3>2
  <2>6. ASSUME NEW b \in W!Simulated, b.source = s, ban.simulated
        PROVE  now >= b.until
    <3>1. b \in blocked /\ b.simulated /\ ~W!Live(b)
      BY <2>1, <2>6 DEF W!MaySimulate, W!Of, W!Simulated
    <3> QED
      BY <1>1, <2>2, <3>1 DEF W!Live
  <2>7. ASSUME NEW b \in W!Real', NEW c \in W!Real', b.source = c.source, b.id < c.id
        PROVE  c.at > b.at + W!Min(Windows \cup {CoolMax})
    <3>1. b \in blocked
      BY <1>1, <2>1, <2>2, <2>7 DEF W!Real
    <3>2. CASE c \in blocked
      BY <2>7, <3>1, <3>2 DEF ApartHeld, W!Real
    <3>3. CASE c = ban
      BY <2>1, <2>5, <2>7, <3>1, <3>3 DEF W!Real
    <3> QED
      BY <2>1, <3>2, <3>3 DEF W!Real
  <2>8. ASSUME NEW b \in W!Simulated', NEW c \in W!Simulated', b.source = c.source, b.id < c.id
        PROVE  c.at >= b.until
    <3>1. b \in blocked
      BY <1>1, <2>1, <2>2, <2>8 DEF W!Simulated
    <3>2. CASE c \in blocked
      BY <2>8, <3>1, <3>2 DEF ApartHeld, W!Simulated
    <3>3. CASE c = ban
      BY <2>1, <2>6, <2>8, <3>1, <3>3 DEF W!Simulated
    <3> QED
      BY <2>1, <3>2, <3>3 DEF W!Simulated
  <2> QED
    BY <2>3, <2>7, <2>8 DEF ApartHeld
<1> QED
  BY <1>2, <1>3

(* A ban that is over keeps its place in every count.                      *)
LEMMA BanOverKeepsLimits ==
  ASSUME WindowType, BansType, LimitsHeld, ApartHeld, W!BanOver
  PROVE  BansType' /\ LimitsHeld' /\ ApartHeld'
<1>1. PICK b \in W!Real : blocked' = (blocked \ {b}) \cup {[b EXCEPT !.pending = FALSE]}
  BY DEF W!BanOver
<1>2. UNCHANGED <<now, policy, heard>>
  BY DEF W!BanOver
<1> DEFINE over == [b EXCEPT !.pending = FALSE]
<1>3. b \in blocked /\ b \in Blocked /\ ~b.simulated
  BY DEF W!Real, BansType
<1>4. /\ over \in Blocked /\ over.id = b.id /\ over.source = b.source /\ over.at = b.at
      /\ over.until = b.until /\ over.simulated = b.simulated
  BY <1>3 DEF Blocked
<1>5. blocked' = (blocked \ {b}) \cup {over}
  BY <1>1, Zenon
<1> HIDE DEF over
<1>6. BansType'
  <2>1. IsFiniteSet(blocked')
    BY <1>5, FS_RemoveElement, FS_AddElement DEF BansType
  <2> QED
    BY <1>2, <1>3, <1>4, <1>5, <2>1 DEF BansType
<1>7. ASSUME NEW t \in 1..now
      PROVE  /\ Cardinality(RealIn(t)') <= MaxBans
             /\ Cardinality(SimulatedIn(t)') <= MaxSims
             /\ Cardinality(SimulatedAt(t)') <= MaxLiveSims
  <2>1. /\ SimulatedIn(t)' = SimulatedIn(t) /\ SimulatedAt(t)' = SimulatedAt(t)
    BY <1>3, <1>4, <1>5 DEF SimulatedIn, SimulatedAt, W!Simulated
  <2>2. /\ RealIn(t)' \subseteq (RealIn(t) \ {b}) \cup {over}
        /\ over \in RealIn(t)' => b \in RealIn(t)
    BY <1>3, <1>4, <1>5 DEF RealIn, W!Real
  <2>3. Cardinality(RealIn(t)') <= MaxBans
    BY <2>2, ExchangeFits, WindowsAreFinite, WindowAssumption DEF LimitsHeld
  <2> QED
    BY <2>1, <2>3 DEF LimitsHeld
<1>8. LimitsHeld'
  BY <1>2, <1>7 DEF LimitsHeld
<1>9. ApartHeld'
  <2>1. W!Simulated' = W!Simulated
    BY <1>3, <1>4, <1>5 DEF W!Simulated
  <2>2. ASSUME NEW x \in W!Real'
        PROVE  \E y \in W!Real : y.id = x.id /\ y.source = x.source /\ y.at = x.at
    BY <1>3, <1>4, <1>5 DEF W!Real
  <2>3. ASSUME NEW x \in W!Real', NEW z \in W!Real', x.source = z.source, x.id < z.id
        PROVE  z.at > x.at + W!Min(Windows \cup {CoolMax})
    <3>1. PICK y \in W!Real : y.id = x.id /\ y.source = x.source /\ y.at = x.at
      BY <2>2
    <3>2. PICK u \in W!Real : u.id = z.id /\ u.source = z.source /\ u.at = z.at
      BY <2>2
    <3> QED
      BY <2>3, <3>1, <3>2 DEF ApartHeld
  <2> QED
    BY <2>1, <2>3 DEF ApartHeld
<1> QED
  BY <1>6, <1>8, <1>9

(* Another hour is a part of the last one, as long as nothing is recorded. *)
LEMMA TickKeepsLimits ==
  ASSUME WindowType, BansType, LimitsHeld, now' = now + 1, UNCHANGED <<blocked, heard>>
  PROVE  BansType' /\ LimitsHeld'
<1>1. \A b \in blocked : b.at \in Nat /\ b.at <= now /\ b.until \in Nat
  BY DEF BansType, Blocked
<1>2. now \in Nat \ {0}
  BY DEF WindowType
<1>3. BansType'
  BY <1>1, <1>2 DEF BansType
<1>4. \A t \in 1..now : /\ RealIn(t)' = RealIn(t) /\ SimulatedIn(t)' = SimulatedIn(t)
                        /\ SimulatedAt(t)' = SimulatedAt(t)
  BY DEF RealIn, SimulatedIn, SimulatedAt, W!Real, W!Simulated
<1>5. ASSUME NEW t \in Nat, t = now + 1
      PROVE  /\ Cardinality(RealIn(t)') <= MaxBans
             /\ Cardinality(SimulatedIn(t)') <= MaxSims
             /\ Cardinality(SimulatedAt(t)') <= MaxLiveSims
  <2>1. /\ RealIn(t)' \subseteq RealIn(now)
        /\ SimulatedIn(t)' \subseteq SimulatedIn(now)
        /\ SimulatedAt(t)' \subseteq SimulatedAt(now)
    BY <1>1, <1>2, <1>5, WindowAssumption DEF RealIn, SimulatedIn, SimulatedAt, W!Real,
       W!Simulated
  <2>2. now \in 1..now
    BY <1>2
  <2> QED
    BY <2>1, <2>2, FewerFit, WindowsAreFinite, WindowAssumption DEF LimitsHeld
<1>6. ASSUME NEW t \in 1..now'
      PROVE  /\ Cardinality(RealIn(t)') <= MaxBans
             /\ Cardinality(SimulatedIn(t)') <= MaxSims
             /\ Cardinality(SimulatedAt(t)') <= MaxLiveSims
  <2>1. t \in Nat /\ (t \in 1..now \/ t = now + 1)
    <3>1. now' = now + 1
      OBVIOUS
    <3>2. t \in 1..(now + 1)
      BY <1>6, <3>1
    <3> QED
      BY <1>2, <3>2
  <2>2. CASE t \in 1..now
    <3>1. /\ RealIn(t)' = RealIn(t) /\ SimulatedIn(t)' = SimulatedIn(t)
          /\ SimulatedAt(t)' = SimulatedAt(t)
      BY <1>4, <2>2
    <3> QED
      BY <2>2, <3>1 DEF LimitsHeld
  <2>3. CASE t = now + 1
    BY <1>5, <2>1, <2>3
  <2> QED
    BY <2>1, <2>2, <2>3
<1> QED
  BY <1>3, <1>6 DEF LimitsHeld

(* The rows that are still open, and the row a failure is counted in.      *)
Open == DOMAIN rows \ W!Expired
Before(s) == IF s \in Open THEN rows[s]
             ELSE [window |-> policy.window, samples |-> {}, seen |-> now]
Count(s) ==
  W!Counted(IF cached < 0 THEN cached ELSE W!AtLeast0(cached - W!Cardinality(W!Expired)),
            [x \in Open \cup {s} |-> x], s \notin Open)

(* What a failure does to the table: it opens a row or goes into the one   *)
(* there is, and rows that do not fit go.                                  *)
LEMMA IncrementDoes ==
  ASSUME NEW i, NEW s, NEW at, W!Increment(i, s, at)
  PROVE  \E K \in SUBSET (Open \cup {s}) :
           /\ IF Count(s) <= MaxRows \/ Cardinality(Open \ {s}) <= MaxRows - 1
              THEN K = Open \cup {s}
              ELSE s \in K /\ Cardinality(K \ {s}) = MaxRows - 1
           /\ rows' = [x \in K |-> IF x = s THEN [window |-> policy.window,
                                                  samples |-> W!Samples(Before(s), i, at),
                                                  seen |-> now]
                                   ELSE rows[x]]
           /\ cached' = IF Count(s) > MaxRows
                          THEN W!AtLeast0(Count(s) - Cardinality((Open \cup {s}) \ K))
                          ELSE Count(s)
           /\ lost' = [x \in Sources |-> IF x \in (Open \cup {s}) \ K THEN 1..i ELSE lost[x]]
           /\ last'.source = s /\ last'.count = Cardinality(W!Samples(Before(s), i, at))
<1> DEFINE fresh == W!Without(rows, W!Expired)
           base  == IF cached < 0 THEN cached
                    ELSE W!AtLeast0(cached - W!Cardinality(W!Expired))
           new   == s \notin DOMAIN fresh
           old   == IF new THEN [window |-> policy.window, samples |-> {}, seen |-> now]
                    ELSE fresh[s]
           kept  == W!Samples(old, i, at)
           line  == [window |-> policy.window, samples |-> kept, seen |-> now]
           table == [x \in DOMAIN fresh \cup {s} |-> IF x = s THEN line ELSE fresh[x]]
           count == W!Counted(base, table, new)
<1>1. PICK K \in W!Survivors(table, s, count) :
        /\ rows' = [x \in K |-> table[x]]
        /\ cached' = IF count > MaxRows
                       THEN W!AtLeast0(count - W!Cardinality(DOMAIN table \ K)) ELSE count
        /\ lost' = [x \in Sources |-> IF x \in DOMAIN table \ K THEN 1..i ELSE lost[x]]
        /\ last' = [source |-> s, count |-> W!Cardinality(kept), alarm |-> count >= MaxRows,
                    present |-> W!Cardinality(DOMAIN table)]
  BY Zenon DEF W!Increment
<1>2. DOMAIN fresh = Open /\ \A x \in Open : fresh[x] = rows[x]
  BY DEF W!Without, Open
<1>3. DOMAIN table = Open \cup {s} /\ old = Before(s) /\ count = Count(s)
  BY <1>2, WindowCardinality DEF Before, Count, W!Counted
<1>4. /\ K \in SUBSET (Open \cup {s})
      /\ IF Count(s) <= MaxRows \/ Cardinality(Open \ {s}) <= MaxRows - 1
         THEN K = Open \cup {s}
         ELSE s \in K /\ Cardinality(K \ {s}) = MaxRows - 1
  <2> DEFINE others == DOMAIN table \ {s}
  <2>1. others = Open \ {s}
    BY <1>3
  <2> HIDE DEF table, count
  <2>2. K \in IF count <= MaxRows \/ Cardinality(others) <= MaxRows - 1 THEN {DOMAIN table}
             ELSE {X \cup {s} : X \in {X \in W!kSubset(MaxRows - 1, others) :
                     \A k \in X, o \in others \ X : W!Outranks(table[k], table[o])}}
    BY <1>1, WindowCardinality, Zenon DEF W!Survivors
  <2>3. CASE count <= MaxRows \/ Cardinality(others) <= MaxRows - 1
    BY <1>3, <2>2, <2>3
  <2>4. CASE ~(count <= MaxRows \/ Cardinality(others) <= MaxRows - 1)
    <3>1. PICK X \in W!kSubset(MaxRows - 1, others) : K = X \cup {s}
      BY <2>2, <2>4
    <3>2. X \subseteq others /\ Cardinality(X) = MaxRows - 1
      BY WindowCardinality DEF W!kSubset
    <3>3. K \ {s} = X
      BY <3>1, <3>2
    <3> QED
      BY <1>3, <2>1, <2>4, <3>1, <3>2, <3>3
  <2> QED
    BY <2>3, <2>4
<1>5. \A x \in K : table[x] = IF x = s THEN line ELSE rows[x]
  BY <1>2, <1>4
<1> QED
  BY <1>1, <1>3, <1>4, <1>5, WindowCardinality

(* The bound of the table in terms of the theorems about finite sets.      *)
LEMMA TableIsBoth ==
  W!TableIsBounded <=> /\ Cardinality(DOMAIN rows) <= MaxRows
                       /\ cached >= 0 => Cardinality(DOMAIN rows) <= cached
                       /\ last.source \in Sources => last.source \in DOMAIN rows
BY WindowCardinality DEF W!TableIsBounded

(* The count that is kept is never below the rows there are.               *)
LEMMA CountIsEnough ==
  ASSUME WindowType, W!TableIsBounded, NEW s \in Sources
  PROVE  /\ IsFiniteSet(Open \cup {s}) /\ Cardinality(Open \cup {s}) \in Nat
         /\ IsFiniteSet(Open \ {s}) /\ Cardinality(Open \ {s}) \in Nat
         /\ Cardinality(Open \cup {s}) = Cardinality(Open \ {s}) + 1
         /\ Count(s) \in Int /\ Count(s) >= Cardinality(Open \cup {s})
<1>1. /\ IsFiniteSet(DOMAIN rows) /\ W!Expired \subseteq DOMAIN rows /\ cached \in Int
      /\ Open \subseteq DOMAIN rows
  BY DEF WindowType, W!Expired, Open
<1>2. /\ IsFiniteSet(W!Expired) /\ IsFiniteSet(Open)
      /\ Cardinality(Open) \in Nat /\ Cardinality(W!Expired) \in Nat
      /\ Cardinality(DOMAIN rows) \in Nat
  BY <1>1, FS_Subset, FS_CardinalityType
<1>3. Cardinality(Open) = Cardinality(DOMAIN rows) - Cardinality(W!Expired)
  <2>1. DOMAIN rows \cap W!Expired = W!Expired
    BY <1>1
  <2> QED
    BY <1>1, <2>1, FS_Difference DEF Open
<1>4. /\ IsFiniteSet(Open \ {s}) /\ Cardinality(Open \ {s}) \in Nat
      /\ IsFiniteSet(Open \cup {s})
      /\ Cardinality(Open \cup {s}) = Cardinality(Open) + (IF s \in Open THEN 0 ELSE 1)
      /\ Cardinality(Open \cup {s}) = Cardinality(Open \ {s}) + 1
  <2>1. (Open \ {s}) \cup {s} = Open \cup {s} /\ s \notin Open \ {s}
    OBVIOUS
  <2>2. IsFiniteSet(Open \ {s}) /\ Cardinality(Open \ {s}) \in Nat
    BY <1>2, FS_RemoveElement, FS_CardinalityType
  <2>3. /\ IsFiniteSet((Open \ {s}) \cup {s})
        /\ Cardinality((Open \ {s}) \cup {s}) = Cardinality(Open \ {s}) + 1
    BY <2>1, <2>2, FS_AddElement
  <2>4. Cardinality(Open \cup {s}) = IF s \in Open THEN Cardinality(Open)
                                   ELSE Cardinality(Open) + 1
    BY <1>2, FS_AddElement
  <2> QED
    BY <1>2, <2>1, <2>2, <2>3, <2>4
<1>5. /\ Count(s) \in Int /\ Count(s) >= Cardinality(Open \cup {s})
  <2> DEFINE base == IF cached < 0 THEN cached
                     ELSE W!AtLeast0(cached - W!Cardinality(W!Expired))
             table == [x \in Open \cup {s} |-> x]
  <2>1. base \in Int /\ (base < 0 \/ base >= Cardinality(Open))
    BY <1>1, <1>2, <1>3, WindowCardinality, TableIsBoth DEF W!AtLeast0
  <2>2. Count(s) = IF base < 0 THEN Cardinality(Open \cup {s})
                   ELSE IF s \notin Open THEN base + 1 ELSE base
    BY WindowCardinality DEF Count, W!Counted
  <2> HIDE DEF base
  <2> QED
    BY <1>2, <1>4, <2>1, <2>2
<1> QED
  BY <1>2, <1>4, <1>5

(* A failure leaves the table within its limit, with its own source in it. *)
LEMMA IncrementKeepsTable ==
  ASSUME WindowType, W!TableIsBounded, NEW i, NEW s \in Sources, NEW at, W!Increment(i, s, at)
  PROVE  /\ W!TableIsBounded'
         /\ cached' \in Int /\ DOMAIN rows' \subseteq Sources /\ IsFiniteSet(DOMAIN rows')
<1> DEFINE all == Open \cup {s}
<1>1. PICK K \in SUBSET all :
        /\ IF Count(s) <= MaxRows \/ Cardinality(Open \ {s}) <= MaxRows - 1
           THEN K = all
           ELSE s \in K /\ Cardinality(K \ {s}) = MaxRows - 1
        /\ DOMAIN rows' = K
        /\ cached' = IF Count(s) > MaxRows THEN W!AtLeast0(Count(s) - Cardinality(all \ K))
                     ELSE Count(s)
        /\ last'.source = s
  BY IncrementDoes
<1>2. /\ IsFiniteSet(all) /\ Cardinality(all) \in Nat
      /\ Cardinality(Open \ {s}) \in Nat
      /\ Cardinality(all) = Cardinality(Open \ {s}) + 1
      /\ Count(s) \in Int /\ Count(s) >= Cardinality(all)
  BY CountIsEnough
<1>3. /\ IsFiniteSet(K) /\ Cardinality(K) \in Nat
      /\ Cardinality(all \ K) = Cardinality(all) - Cardinality(K)
      /\ Cardinality(all \ K) \in Nat
  <2>1. all \cap K = K
    OBVIOUS
  <2>2. IsFiniteSet(K) /\ IsFiniteSet(all \ K)
    BY <1>2, FS_Subset
  <2>3. Cardinality(all \ K) = Cardinality(all) - Cardinality(all \cap K)
    BY <1>2, FS_Difference
  <2>4. Cardinality(K) \in Nat /\ Cardinality(all \ K) \in Nat
    BY <2>2, FS_CardinalityType
  <2> QED
    BY <2>1, <2>2, <2>3, <2>4
<1>4. K # all => Cardinality(K) = MaxRows
  <2>1. ASSUME s \in K, Cardinality(K \ {s}) = MaxRows - 1 PROVE Cardinality(K) = MaxRows
    <3>1. Cardinality(K \ {s}) = Cardinality(K) - 1
      BY <1>3, <2>1, FS_RemoveElement
    <3> QED
      BY <1>3, <2>1, <3>1, WindowAssumption
  <2> QED
    BY <1>1, <2>1
<1>5. s \in K /\ K \subseteq Sources
  <2>1. Open \subseteq Sources
    BY DEF Open, WindowType
  <2> QED
    BY <1>1, <2>1
<1> HIDE DEF all
<1>6. cached' \in Int /\ Cardinality(K) <= cached'
  <2>1. CASE Count(s) <= MaxRows
    <3>1. K = all /\ cached' = Count(s)
      BY <1>1, <1>2, <2>1, WindowAssumption
    <3> QED
      BY <1>2, <3>1
  <2>2. CASE Count(s) > MaxRows
    <3>1. cached' = W!AtLeast0(Count(s) - Cardinality(all \ K))
      BY <1>1, <2>2
    <3> QED
      BY <1>2, <1>3, <3>1 DEF W!AtLeast0
  <2> QED
    BY <1>2, <2>1, <2>2, WindowAssumption
<1>7. Cardinality(K) <= MaxRows
  <2>1. CASE K # all
    BY <1>4, <2>1, WindowAssumption
  <2>2. CASE K = all
    <3>1. Count(s) <= MaxRows \/ Cardinality(Open \ {s}) <= MaxRows - 1
      <4>1. ASSUME s \in K, Cardinality(K \ {s}) = MaxRows - 1
            PROVE  Cardinality(Open \ {s}) <= MaxRows - 1
        <5>1. K \ {s} = Open \ {s}
          BY <2>2 DEF all
        <5> QED
          BY <1>2, <4>1, <5>1
      <4> QED
        BY <1>1, <4>1
    <3> QED
      BY <1>2, <2>2, <3>1, WindowAssumption
  <2> QED
    BY <2>1, <2>2
<1> QED
  BY <1>1, <1>3, <1>5, <1>6, <1>7, WindowCardinality DEF W!TableIsBounded

(* The policy with one part of it changed.                                 *)
LEMMA PolicySet ==
  ASSUME NEW r \in Policy
  PROVE  /\ \A x \in BOOLEAN : LET q == [r EXCEPT !.on = x]
                               IN  q \in Policy /\ q.window = r.window /\ q.saves = r.saves
         /\ \A x \in BOOLEAN : LET q == [r EXCEPT !.auto = x]
                               IN  q \in Policy /\ q.window = r.window /\ q.saves = r.saves
         /\ \A w \in Windows : LET q == [r EXCEPT !.window = w]
                               IN  q \in Policy /\ q.window = w /\ q.saves = r.saves
         /\ \A n \in Nat : LET q == [r EXCEPT !.saves = n]
                           IN  q \in Policy /\ q.window = r.window
<1>1. ASSUME NEW x \in BOOLEAN
      PROVE  LET q == [r EXCEPT !.on = x]
             IN  q \in Policy /\ q.window = r.window /\ q.saves = r.saves
  BY DEF Policy
<1>2. ASSUME NEW x \in BOOLEAN
      PROVE  LET q == [r EXCEPT !.auto = x]
             IN  q \in Policy /\ q.window = r.window /\ q.saves = r.saves
  BY DEF Policy
<1>3. ASSUME NEW w \in Windows
      PROVE  LET q == [r EXCEPT !.window = w]
             IN  q \in Policy /\ q.window = w /\ q.saves = r.saves
  BY DEF Policy
<1>4. ASSUME NEW n \in Nat
      PROVE  LET q == [r EXCEPT !.saves = n]
             IN  q \in Policy /\ q.window = r.window
  BY DEF Policy
<1> QED
  BY <1>1, <1>2, <1>3, <1>4, Zenon

(* Another policy is saved, or it is stopped or started.                   *)
LEMMA PolicyChanges ==
  ASSUME WindowType, W!SavePolicy \/ W!EmergencyStop
  PROVE  policy' \in Policy
<1>1. policy \in Policy /\ policy.saves \in Nat /\ policy.saves + 1 \in Nat
  BY DEF WindowType, Policy
<1>2. CASE W!SavePolicy
  <2>1. PICK auto \in BOOLEAN : \E w \in Windows :
          policy' = [policy EXCEPT !.auto = auto, !.window = w, !.saves = @ + 1]
    BY <1>2 DEF W!SavePolicy
  <2>2. PICK w \in Windows :
          policy' = [policy EXCEPT !.auto = auto, !.window = w, !.saves = @ + 1]
    BY <2>1
  <2> DEFINE a == [policy EXCEPT !.auto = auto]
             b == [a EXCEPT !.window = w]
             n == policy.saves + 1
  <2>3. a \in Policy /\ a.saves = policy.saves
    BY <1>1, PolicySet, Zenon
  <2>4. b \in Policy
    BY <2>3, PolicySet, Zenon
  <2>5. n \in Nat
    BY <1>1
  <2>6. policy' = [b EXCEPT !.saves = n]
    BY <1>1, <2>2, <2>3
  <2> HIDE DEF n, b
  <2> QED
    BY <2>4, <2>5, <2>6, PolicySet, Zenon
<1>3. CASE W!EmergencyStop
  <2> DEFINE x == ~policy.on
             a == [policy EXCEPT !.on = x]
             n == policy.saves + 1
  <2>1. x \in BOOLEAN /\ n \in Nat
    BY <1>1
  <2>2. policy' = [a EXCEPT !.saves = n]
    BY <1>1, <1>3 DEF W!EmergencyStop
  <2> HIDE DEF x, n
  <2>3. a \in Policy
    BY <1>1, <2>1, PolicySet, Zenon
  <2> HIDE DEF a
  <2> QED
    BY <2>1, <2>2, <2>3, PolicySet, Zenon
<1> QED
  BY <1>2, <1>3

(* A failure that is delivered, counted and judged.                        *)
LEMMA FailKeepsLimits ==
  ASSUME WindowType, BansType, LimitsAreKept, NEW s \in Sources, NEW t \in 0..(now + Ahead),
         W!Fail(s, t)
  PROVE  WindowType' /\ BansType' /\ LimitsAreKept'
<1>1. /\ now \in Nat \ {0} /\ heard \in Seq(Failure) /\ Len(heard) \in Nat
      /\ heard' = Append(heard, [source |-> s, at |-> t]) /\ UNCHANGED <<now, policy>>
      /\ W!Decide(Len(heard) + 1, s, last'.count)
  BY DEF WindowType, W!Fail
<1>2. heard' \in Seq(Failure) /\ Len(heard') = Len(heard) + 1
  <2>1. [source |-> s, at |-> t] \in Failure
    BY <1>1, WindowAssumption DEF Failure
  <2> QED
    BY <1>1, <2>1
<1>3. W!TableIsBounded /\ LimitsHeld /\ ApartHeld
  BY RateIsBoth DEF LimitsAreKept, W!LimitsAreKept
<1>4. /\ W!TableIsBounded'
      /\ cached' \in Int /\ DOMAIN rows' \subseteq Sources /\ IsFiniteSet(DOMAIN rows')
  <2>1. CASE t >= now - policy.window
    <3>1. PICK at : W!Increment(Len(heard) + 1, s, at)
      BY <2>1 DEF W!Fail
    <3> QED
      BY <1>3, <3>1, IncrementKeepsTable
  <2>2. CASE ~(t >= now - policy.window)
    <3>1. last' = W!Nothing /\ UNCHANGED <<rows, cached>>
      BY <2>2 DEF W!Fail
    <3> QED
      BY <1>3, <3>1, WindowAssumption DEF WindowType, W!TableIsBounded, W!Nothing
  <2> QED
    BY <2>1, <2>2
<1>5. LimitsHeld'
  <2>1. Len(heard) + 1 \in Nat
    BY <1>1
  <2> QED
    BY <1>1, <1>3, <2>1, DecisionKeepsLimits
<1>6. BansType' /\ ApartHeld'
  BY <1>1, <1>2, <1>3, DecisionKeepsApart
<1>7. WindowType'
  <2>1. policy \in Policy
    BY DEF WindowType
  <2> QED
    BY <1>1, <1>2, <1>4, <2>1 DEF WindowType
<1>8. W!BanRateHeld'
  BY <1>5, <1>6, RateIsBoth
<1> QED
  BY <1>4, <1>6, <1>7, <1>8 DEF LimitsAreKept, W!LimitsAreKept

(* No step of this part exceeds a limit.                                   *)
LEMMA WindowStepKeeps ==
  ASSUME WindowType, BansType, LimitsAreKept, W!Next
  PROVE  WindowType' /\ BansType' /\ LimitsAreKept'
<1>1. W!TableIsBounded /\ LimitsHeld /\ ApartHeld
  BY RateIsBoth DEF LimitsAreKept, W!LimitsAreKept
<1>2. ASSUME last' = W!Nothing, UNCHANGED <<rows, cached>>
      PROVE  W!TableIsBounded'
  BY <1>1, <1>2, WindowAssumption DEF W!TableIsBounded, W!Nothing
<1>3. CASE \E s \in Sources, t \in 0..(now + Ahead) : W!Fail(s, t)
  BY <1>3, FailKeepsLimits
<1>4. CASE W!Maintain
  <2>1. /\ last' = W!Nothing /\ UNCHANGED <<now, policy, cached, heard, blocked, lost>>
        /\ DOMAIN rows' = Open
    BY <1>4 DEF W!Maintain, W!Without, Open
  <2>2. IsFiniteSet(DOMAIN rows) /\ Open \subseteq DOMAIN rows
    BY DEF WindowType, Open
  <2>3. /\ IsFiniteSet(Open) /\ Cardinality(Open) <= Cardinality(DOMAIN rows)
        /\ Cardinality(Open) \in Nat /\ Cardinality(DOMAIN rows) \in Nat
    BY <2>2, FS_Subset, FS_CardinalityType
  <2>4. W!TableIsBounded'
    <3>1. /\ Cardinality(DOMAIN rows) <= MaxRows
          /\ cached >= 0 => Cardinality(DOMAIN rows) <= cached
      BY <1>1, TableIsBoth
    <3>2. last'.source \notin Sources
      BY <2>1, WindowAssumption DEF W!Nothing
    <3>3. /\ Cardinality(DOMAIN rows') <= MaxRows
          /\ cached' >= 0 => Cardinality(DOMAIN rows') <= cached'
      BY <2>1, <2>3, <3>1, WindowAssumption DEF WindowType
    <3> QED
      BY <3>2, <3>3, WindowCardinality DEF W!TableIsBounded
  <2>5. WindowType' /\ BansType'
    BY <2>1, <2>2, <2>3 DEF WindowType, BansType
  <2>6. LimitsHeld' /\ ApartHeld'
    BY <1>1, <2>1 DEF LimitsHeld, ApartHeld, RealIn, SimulatedIn, SimulatedAt, W!Real,
       W!Simulated
  <2> QED
    BY <2>4, <2>5, <2>6, RateIsBoth DEF LimitsAreKept, W!LimitsAreKept
<1>5. CASE W!SavePolicy \/ W!EmergencyStop
  <2>1. last' = W!Nothing /\ UNCHANGED <<now, rows, cached, heard, blocked>>
    BY <1>5 DEF W!SavePolicy, W!EmergencyStop
  <2>2. WindowType' /\ BansType'
    BY <1>5, <2>1, PolicyChanges DEF WindowType, BansType
  <2>3. LimitsHeld' /\ ApartHeld'
    BY <1>1, <2>1 DEF LimitsHeld, ApartHeld, RealIn, SimulatedIn, SimulatedAt, W!Real,
       W!Simulated
  <2> QED
    BY <1>2, <2>1, <2>2, <2>3, RateIsBoth DEF LimitsAreKept, W!LimitsAreKept
<1>6. CASE W!BanOver
  <2>1. UNCHANGED <<now, policy, rows, cached, heard, last>>
    BY <1>6 DEF W!BanOver
  <2>2. WindowType' /\ W!TableIsBounded'
    BY <1>1, <2>1 DEF WindowType, W!TableIsBounded
  <2>3. BansType' /\ LimitsHeld' /\ ApartHeld'
    BY <1>1, <1>6, BanOverKeepsLimits
  <2> QED
    BY <2>2, <2>3, RateIsBoth DEF LimitsAreKept, W!LimitsAreKept
<1>7. CASE W!Tick
  <2>1. /\ now' = now + 1 /\ last' = W!Nothing
        /\ UNCHANGED <<policy, rows, cached, heard, blocked>>
    BY <1>7 DEF W!Tick
  <2>2. WindowType'
    BY <2>1 DEF WindowType
  <2>3. BansType' /\ LimitsHeld'
    BY <1>1, <2>1, TickKeepsLimits
  <2>4. ApartHeld'
    BY <1>1, <2>1 DEF ApartHeld, W!Real, W!Simulated
  <2> QED
    BY <1>2, <2>1, <2>2, <2>3, <2>4, RateIsBoth DEF LimitsAreKept, W!LimitsAreKept
<1> QED
  BY <1>3, <1>4, <1>5, <1>6, <1>7 DEF W!Next

(* The other parts leave this one alone.                                   *)
LEMMA WindowAlone ==
  ASSUME Next
  PROVE  W!Next \/ UNCHANGED windowVars
BY DEF Next, Only

(* At first there is no row, no failure and no ban.                        *)
LEMMA WindowBegins ==
  ASSUME Init
  PROVE  WindowType /\ BansType /\ LimitsAreKept
<1>1. W!Init
  BY DEF Init
<1>2. /\ now = 1 /\ rows = <<>> /\ cached = -1 /\ heard = <<>> /\ blocked = {}
      /\ last = W!Nothing
      /\ \E auto \in BOOLEAN, w \in Windows :
           policy = [on |-> TRUE, auto |-> auto, window |-> w, saves |-> 0]
  BY <1>1 DEF W!Init
<1>3. DOMAIN rows = {} /\ Len(heard) = 0
  BY <1>2
<1>4. WindowType
  BY <1>2, <1>3, FS_EmptySet DEF WindowType, Policy
<1>5. BansType
  BY <1>2, FS_EmptySet DEF BansType
<1>6. W!TableIsBounded
  BY <1>2, <1>3, FS_EmptySet, WindowCardinality, WindowAssumption DEF W!TableIsBounded,
     W!Nothing
<1>7. LimitsHeld /\ ApartHeld
  <2>1. \A t : RealIn(t) = {} /\ SimulatedIn(t) = {} /\ SimulatedAt(t) = {}
    BY <1>2 DEF RealIn, SimulatedIn, SimulatedAt, W!Real, W!Simulated
  <2>2. ApartHeld
    BY <1>2 DEF ApartHeld, W!Real, W!Simulated
  <2> QED
    BY <2>1, <2>2, FS_EmptySet, WindowAssumption DEF LimitsHeld
<1> QED
  BY <1>4, <1>5, <1>6, <1>7, RateIsBoth DEF LimitsAreKept, W!LimitsAreKept

(* For any sources, windows and limits, whatever fails, in whatever order  *)
(* and however often the policy is changed: the table of windows stays     *)
(* within its limit with the source just judged in it, no hour sees more   *)
(* bans or simulated ones than it may, and no source is banned again       *)
(* within the cooldown (store/security_events.go, defense/correlator.go).  *)
THEOREM LimitsHold == Spec => []LimitsAreKept
<1>1. Init => WindowType /\ BansType /\ LimitsAreKept
  BY WindowBegins
<1>2. WindowType /\ BansType /\ LimitsAreKept
        /\ [Next]_<<part, elementVars, hardenVars, suspendVars, notifyVars, reportVars,
                    enrolVars, baselineVars, windowVars>>
      => (WindowType /\ BansType /\ LimitsAreKept)'
  <2>1. ASSUME WindowType, BansType, LimitsAreKept, UNCHANGED windowVars
        PROVE  WindowType' /\ BansType' /\ LimitsAreKept'
    BY <2>1 DEF windowVars, WindowType, BansType, LimitsAreKept, W!LimitsAreKept,
       W!TableIsBounded, W!BanRateHeld, W!Real, W!Simulated
  <2> QED
    BY <2>1, WindowStepKeeps, WindowAlone
<1> QED
  BY <1>1, <1>2, PTL DEF Spec

(* What a row remembers.                                                   *)

MadeBy(s) == {j \in 1..Len(heard) : heard[j].source = s}

SamplesType ==
  /\ DOMAIN lost = Sources /\ \A s \in Sources : lost[s] \subseteq 1..Len(heard)
  /\ \A s \in DOMAIN rows :
       /\ rows[s].samples \subseteq MadeBy(s) /\ rows[s].samples # {}
       /\ Cardinality(rows[s].samples) <= MaxSamples

(* A failure is among a row's samples, or they are all later ones.         *)
Kept(r, j) ==
  \/ j \in r.samples
  \/ /\ Cardinality(r.samples) = MaxSamples
     /\ \A k \in r.samples : heard[k].at >= heard[j].at

(* A failure still in the window, not known to be forgotten, has left its  *)
(* mark.                                                                   *)
Remembered ==
  \A s \in Sources : \A j \in MadeBy(s) :
    j \notin lost[s] /\ heard[j].at > now - policy.window =>
      s \in DOMAIN rows /\ rows[s].window = policy.window /\ Kept(rows[s], j)

(* A failure is judged by its source's row, which it has brought up to     *)
(* date.                                                                   *)
Judged ==
  last.source \in Sources =>
    /\ last.source \in DOMAIN rows
    /\ last.count = Cardinality(rows[last.source].samples)
    /\ \A k \in rows[last.source].samples : heard[k].at >= now - policy.window

(* What was heard has a source and a time.                                 *)
LEMMA HeardAreFailures ==
  ASSUME WindowType, NEW j \in 1..Len(heard)
  PROVE  heard[j] \in Failure /\ heard[j].source \in Sources /\ heard[j].at \in Nat
<1>1. heard[j] \in Failure
  BY DEF WindowType
<1> QED
  BY <1>1 DEF Failure

(* The samples of a row are finitely many failures that were heard.        *)
LEMMA SamplesAreHeard ==
  ASSUME WindowType, SamplesType, NEW s \in DOMAIN rows
  PROVE  /\ s \in Sources /\ IsFiniteSet(rows[s].samples)
         /\ Cardinality(rows[s].samples) \in Nat
         /\ rows[s].samples \subseteq 1..Len(heard)
         /\ \A k \in rows[s].samples : heard[k].source = s /\ heard[k].at \in Nat
<1>1. Len(heard) \in Nat /\ rows[s].samples \subseteq MadeBy(s) /\ s \in Sources
  BY DEF WindowType, SamplesType
<1>2. MadeBy(s) \subseteq 1..Len(heard)
  BY DEF MadeBy
<1>3. IsFiniteSet(1..Len(heard))
  BY <1>1, FS_Interval
<1>4. IsFiniteSet(rows[s].samples) /\ Cardinality(rows[s].samples) \in Nat
  <2>1. rows[s].samples \subseteq 1..Len(heard)
    BY <1>1, <1>2
  <2> QED
    BY <1>3, <2>1, FS_Subset, FS_CardinalityType
<1>5. \A k \in MadeBy(s) : heard[k].source = s /\ heard[k].at \in Nat
  BY HeardAreFailures DEF MadeBy
<1> QED
  BY <1>1, <1>2, <1>4, <1>5

(* The latest of finitely many times.                                      *)
LEMMA LatestSample ==
  ASSUME NEW K, IsFiniteSet(K), NEW k \in K, NEW f, \A j \in K : f[j] \in Nat,
         NEW T, \A j \in K : f[j] \in T, \A y \in T : \E j \in K : y = f[j]
  PROVE  W!Max(T) \in Nat /\ W!Max(T) >= f[k]
<1> DEFINE g == [j \in K |-> -f[j]]
<1>1. g \in [K -> Int]
  OBVIOUS
<1>2. \E m \in K : \A j \in K : g[m] <= g[j]
  <2> HIDE DEF g
  <2> QED
    BY <1>1, LowestRank
<1>3. \E x \in T : \A y \in T : x >= y
  BY <1>2
<1>4. W!Max(T) \in T /\ \A y \in T : W!Max(T) >= y
  BY <1>3 DEF W!Max
<1> QED
  BY <1>4

(* A row that holds a trace of a failure in the window is still open.      *)
LEMMA RememberedIsOpen ==
  ASSUME WindowType, SamplesType, NEW s \in DOMAIN rows, rows[s].window = policy.window,
         NEW j \in 1..Len(heard), heard[j].at > now - policy.window, Kept(rows[s], j)
  PROVE  s \in Open
<1> DEFINE f == [k \in 1..Len(heard) |-> heard[k].at]
           K == rows[s].samples
<1>1. /\ K # {} /\ IsFiniteSet(K) /\ K \subseteq 1..Len(heard)
      /\ \A k \in K : heard[k].at \in Nat
  BY SamplesAreHeard DEF SamplesType
<1>2. now \in Nat /\ policy.window \in Nat /\ heard[j].at \in Nat
  BY HeardAreFailures, WindowAssumption DEF WindowType, Policy
<1>3. PICK k \in K : heard[k].at >= heard[j].at
  BY <1>1, <1>2 DEF Kept
<1> DEFINE T == {W!At(i) : i \in K}
<1>4. /\ f[k] = heard[k].at /\ \A i \in K : f[i] \in Nat /\ f[i] \in T
      /\ \A y \in T : \E i \in K : y = f[i]
  BY <1>1 DEF W!At
<1>5. W!Ends(rows[s]) = W!Max(T) + policy.window
  BY DEF W!Ends
<1>6. W!Max(T) \in Nat /\ W!Max(T) >= f[k]
  <2> HIDE DEF f, K, T
  <2> QED
    BY <1>1, <1>4, LatestSample
<1>7. ~(W!Ends(rows[s]) <= now)
  <2> HIDE DEF f, T
  <2> QED
    BY <1>1, <1>2, <1>3, <1>4, <1>5, <1>6
<1> QED
  BY <1>7 DEF Open, W!Expired

(* Of one failure too many, the newest are kept.                           *)
LEMMA NewestKeeps ==
  ASSUME NEW X, IsFiniteSet(X), NEW at, \A j \in X : at[j] \in Nat,
         NEW n \in Nat, Cardinality(X) <= n + 1
  PROVE  /\ W!Newest(X, at, n) \subseteq X
         /\ Cardinality(X) <= n => W!Newest(X, at, n) = X
         /\ Cardinality(X) > n =>
              /\ Cardinality(W!Newest(X, at, n)) = n
              /\ \A i \in W!Newest(X, at, n), j \in X \ W!Newest(X, at, n) : at[i] >= at[j]
<1> DEFINE Best(Left) == \A i \in Left, j \in X \ Left : at[i] >= at[j]
<1>1. Cardinality(X) \in Nat
  BY FS_CardinalityType
<1>2. CASE Cardinality(X) <= n
  BY <1>1, <1>2, WindowCardinality DEF W!Newest
<1>3. CASE Cardinality(X) > n
  <2>1. Cardinality(X) = n + 1 /\ X # {}
    BY <1>1, <1>3, FS_EmptySet
  <2>2. PICK k \in X : \A j \in X : at[k] <= at[j]
    <3> DEFINE f == [j \in X |-> at[j]]
    <3>1. f \in [X -> Int]
      OBVIOUS
    <3>2. \E k \in X : \A j \in X : f[k] <= f[j]
      <4> HIDE DEF f
      <4> QED
        BY <2>1, <3>1, LowestRank
    <3> QED
      BY <3>2
  <2>3. X \ {k} \in W!kSubset(n, X) /\ Best(X \ {k})
    <3>1. Cardinality(X \ {k}) = Cardinality(X) - 1
      BY FS_RemoveElement
    <3>2. Cardinality(X \ {k}) = n
      BY <2>1, <3>1
    <3> QED
      BY <2>2, <3>2, WindowCardinality DEF W!kSubset
  <2>4. /\ W!Newest(X, at, n) \in W!kSubset(n, X) /\ Best(W!Newest(X, at, n))
    <3>1. W!Newest(X, at, n) = CHOOSE Left \in W!kSubset(n, X) : Best(Left)
      <4>1. ~(W!Cardinality(X) <= n)
        BY <1>1, <1>3, WindowCardinality
      <4> QED
        BY <4>1, Zenon DEF W!Newest
    <3> HIDE DEF Best
    <3> QED
      BY <2>3, <3>1
  <2> QED
    BY <1>1, <1>3, <2>4, WindowCardinality DEF W!kSubset
<1> QED
  BY <1>1, <1>2, <1>3

(* The samples of the source's row that a failure is added to.             *)
Samples(s) ==
  {j \in (IF s \in Open /\ rows[s].window = policy.window THEN rows[s].samples ELSE {}) :
     heard[j].at >= now - policy.window}

(* What a failure leaves in its row: itself and the samples that are still *)
(* in the window, the newest of them where there is one too many.          *)
LEMMA SamplesLeft ==
  ASSUME WindowType, SamplesType, NEW s \in Sources, NEW i, i = Len(heard) + 1,
         NEW at, NEW t \in Nat, at = [j \in 1..i |-> IF j = i THEN t ELSE W!At(j)]
  PROVE  LET X    == Samples(s) \cup {i}
             Left == W!Samples(Before(s), i, at)
         IN  /\ IsFiniteSet(X) /\ Cardinality(X) \in Nat
             /\ Left \subseteq X
             /\ Cardinality(X) <= MaxSamples => Left = X
             /\ Cardinality(X) > MaxSamples =>
                  /\ Cardinality(Left) = MaxSamples
                  /\ \A k \in Left, j \in X \ Left : at[k] >= at[j]
<1> DEFINE old  == IF s \in Open /\ rows[s].window = policy.window THEN rows[s].samples ELSE {}
           X    == Samples(s) \cup {i}
           Left == W!Samples(Before(s), i, at)
<1>1. /\ IsFiniteSet(old) /\ old \subseteq 1..Len(heard) /\ Len(heard) \in Nat
      /\ Cardinality(old) \in Nat /\ Cardinality(old) <= MaxSamples
      /\ \A j \in old : heard[j].at \in Nat
  <2>1. Len(heard) \in Nat
    BY DEF WindowType
  <2>2. CASE s \in Open /\ rows[s].window = policy.window
    <3>1. s \in DOMAIN rows
      BY <2>2 DEF Open
    <3> QED
      BY <2>1, <2>2, <3>1, SamplesAreHeard DEF SamplesType
  <2>3. CASE ~(s \in Open /\ rows[s].window = policy.window)
    <3>1. old = {}
      BY <2>3
    <3> HIDE DEF old
    <3> QED
      BY <2>1, <3>1, FS_EmptySet, WindowAssumption
  <2> QED
    BY <2>2, <2>3
<1>2. \A j \in old : at[j] = heard[j].at
  BY <1>1 DEF W!At
<1>3. at[i] = t
  BY <1>1
<1>4. Samples(s) = {j \in old : at[j] >= now - policy.window} /\ Samples(s) \subseteq old
  BY <1>2 DEF Samples
<1>5. Left = W!Newest(X, at, MaxSamples)
  <2>1. (IF Before(s).window = policy.window THEN Before(s).samples ELSE {}) = old
    BY DEF Before
  <2> HIDE DEF old
  <2> QED
    BY <1>4, <2>1 DEF W!Samples
<1>6. /\ IsFiniteSet(X) /\ Cardinality(X) \in Nat /\ Cardinality(X) <= MaxSamples + 1
  <2>1. /\ IsFiniteSet(Samples(s)) /\ Cardinality(Samples(s)) \in Nat
        /\ Cardinality(Samples(s)) <= Cardinality(old)
    <3> HIDE DEF old
    <3> QED
      BY <1>1, <1>4, FS_Subset, FS_CardinalityType
  <2>2. /\ IsFiniteSet(X)
        /\ Cardinality(X) = IF i \in Samples(s) THEN Cardinality(Samples(s))
                            ELSE Cardinality(Samples(s)) + 1
    BY <2>1, FS_AddElement
  <2> HIDE DEF old, X
  <2> QED
    BY <1>1, <2>1, <2>2, FS_CardinalityType, WindowAssumption
<1>7. \A j \in X : at[j] \in Nat
  BY <1>1, <1>2, <1>3, <1>4
<1> HIDE DEF X
<1>8. /\ W!Newest(X, at, MaxSamples) \subseteq X
      /\ Cardinality(X) <= MaxSamples => W!Newest(X, at, MaxSamples) = X
      /\ Cardinality(X) > MaxSamples =>
           /\ Cardinality(W!Newest(X, at, MaxSamples)) = MaxSamples
           /\ \A k \in W!Newest(X, at, MaxSamples), j \in X \ W!Newest(X, at, MaxSamples) :
                at[k] >= at[j]
  BY <1>6, <1>7, NewestKeeps, WindowAssumption
<1> QED
  BY <1>5, <1>6, <1>8 DEF X

(* What was heard stays as it was, and the failure is heard after it.      *)
LEMMA FailIsHeard ==
  ASSUME WindowType, NEW s \in Sources, NEW t \in 0..(now + Ahead), W!Fail(s, t)
  PROVE  /\ t \in Nat /\ Len(heard) \in Nat /\ Len(heard') = Len(heard) + 1
         /\ heard'[Len(heard) + 1] = [source |-> s, at |-> t]
         /\ \A j \in 1..Len(heard) : heard'[j] = heard[j]
         /\ UNCHANGED <<now, policy>>
<1>1. heard \in Seq(Failure) /\ now \in Nat
  BY DEF WindowType
<1>2. t \in Nat
  BY <1>1, WindowAssumption
<1>3. [source |-> s, at |-> t] \in Failure
  BY <1>2 DEF Failure
<1>4. heard' = Append(heard, [source |-> s, at |-> t]) /\ UNCHANGED <<now, policy>>
  BY DEF W!Fail
<1> QED
  BY <1>1, <1>2, <1>3, <1>4

(* A failure that is recent enough goes into its source's row: a row holds *)
(* no others than its source's, those of the window among them.            *)
LEMMA FailureIsCounted ==
  ASSUME WindowType, SamplesType, NEW s \in Sources, NEW t \in 0..(now + Ahead),
         W!Fail(s, t), t >= now - policy.window
  PROVE  \E K \in SUBSET (Open \cup {s}), Left \in SUBSET (Samples(s) \cup {Len(heard) + 1}) :
           /\ s \in K /\ DOMAIN rows' = K
           /\ rows'[s].window = policy.window /\ rows'[s].samples = Left
           /\ \A x \in K \ {s} : rows'[x] = rows[x]
           /\ lost' = [x \in Sources |-> IF x \in (Open \cup {s}) \ K
                                         THEN 1..(Len(heard) + 1) ELSE lost[x]]
           /\ last'.source = s /\ last'.count = Cardinality(Left)
           /\ Left # {} /\ Cardinality(Left) <= MaxSamples
           /\ \/ Left = Samples(s) \cup {Len(heard) + 1}
              \/ /\ Cardinality(Left) = MaxSamples
                 /\ \A k \in Left, j \in (Samples(s) \cup {Len(heard) + 1}) \ Left :
                      heard'[k].at >= heard'[j].at
<1> DEFINE i    == Len(heard) + 1
           at   == [j \in 1..i |-> IF j = i THEN t ELSE W!At(j)]
           X    == Samples(s) \cup {i}
           Left == W!Samples(Before(s), i, at)
<1>1. W!Increment(i, s, at)
  BY Zenon DEF W!Fail
<1>2. PICK K \in SUBSET (Open \cup {s}) :
        /\ s \in K
        /\ rows' = [x \in K |-> IF x = s THEN [window |-> policy.window, samples |-> Left,
                                               seen |-> now]
                                ELSE rows[x]]
        /\ lost' = [x \in Sources |-> IF x \in (Open \cup {s}) \ K THEN 1..i ELSE lost[x]]
        /\ last'.source = s /\ last'.count = Cardinality(Left)
  <2> HIDE DEF i, at
  <2>1. PICK K \in SUBSET (Open \cup {s}) :
          /\ IF Count(s) <= MaxRows \/ Cardinality(Open \ {s}) <= MaxRows - 1
             THEN K = Open \cup {s}
             ELSE s \in K /\ Cardinality(K \ {s}) = MaxRows - 1
          /\ rows' = [x \in K |-> IF x = s THEN [window |-> policy.window, samples |-> Left,
                                                 seen |-> now]
                                  ELSE rows[x]]
          /\ lost' = [x \in Sources |-> IF x \in (Open \cup {s}) \ K THEN 1..i ELSE lost[x]]
          /\ last'.source = s /\ last'.count = Cardinality(Left)
    BY <1>1, IncrementDoes, Zenon
  <2>2. s \in K
    BY <2>1
  <2> QED
    BY <2>1, <2>2, Zenon
<1>3. /\ IsFiniteSet(X) /\ Cardinality(X) \in Nat /\ Left \subseteq X
      /\ Cardinality(X) <= MaxSamples => Left = X
      /\ Cardinality(X) > MaxSamples =>
           /\ Cardinality(Left) = MaxSamples
           /\ \A k \in Left, j \in X \ Left : at[k] >= at[j]
  <2>1. t \in Nat
    BY FailIsHeard
  <2> QED
    BY <2>1, SamplesLeft
<1>4. X \subseteq 1..i /\ \A k \in 1..i : at[k] = heard'[k].at
  <2>1. Samples(s) \subseteq 1..Len(heard)
    <3>1. CASE s \in Open /\ rows[s].window = policy.window
      <4>1. s \in DOMAIN rows
        BY <3>1 DEF Open
      <4> QED
        BY <4>1, SamplesAreHeard DEF Samples
    <3>2. CASE ~(s \in Open /\ rows[s].window = policy.window)
      BY <3>2 DEF Samples
    <3> QED
      BY <3>1, <3>2
  <2>2. Len(heard) \in Nat
    BY FailIsHeard
  <2>3. X \subseteq 1..i
    BY <2>1, <2>2
  <2>4. heard'[i].at = t /\ \A j \in 1..Len(heard) : heard'[j].at = heard[j].at
    <3>1. /\ heard'[Len(heard) + 1] = [source |-> s, at |-> t]
          /\ \A j \in 1..Len(heard) : heard'[j] = heard[j]
      BY FailIsHeard
    <3> QED
      BY <3>1
  <2>5. ASSUME NEW k \in 1..i
        PROVE  at[k] = heard'[k].at
    BY <2>2, <2>4 DEF W!At
  <2> QED
    BY <2>3, <2>5
<1> HIDE DEF Left, at
<1>5. /\ \/ Left = X
         \/ Cardinality(Left) = MaxSamples /\ \A k \in Left, j \in X \ Left : heard'[k].at >= heard'[j].at
      /\ Left # {} /\ Cardinality(Left) <= MaxSamples
  <2>1. i \in X
    OBVIOUS
  <2> HIDE DEF X
  <2>2. CASE Cardinality(X) <= MaxSamples
    BY <1>3, <2>1, <2>2, WindowAssumption
  <2>3. CASE Cardinality(X) > MaxSamples
    <3>1. Cardinality(Left) = MaxSamples /\ Left # {}
      BY <1>3, <2>3, FS_EmptySet, WindowAssumption
    <3>2. \A k \in Left, j \in X \ Left : heard'[k].at >= heard'[j].at
      BY <1>3, <1>4, <2>3
    <3> QED
      BY <3>1, <3>2, WindowAssumption
  <2> QED
    BY <1>3, <2>2, <2>3, WindowAssumption
<1>6. /\ DOMAIN rows' = K /\ rows'[s].window = policy.window /\ rows'[s].samples = Left
      /\ \A x \in K \ {s} : rows'[x] = rows[x]
  BY <1>2
<1>7. Left \in SUBSET X
  BY <1>3
<1> QED
  BY <1>2, <1>5, <1>6, <1>7

(* A failure that is recent enough leaves its mark, and takes away no      *)
(* other's but those it counts as forgotten.                               *)
LEMMA CountingRemembers ==
  ASSUME WindowType, SamplesType, Remembered, NEW s \in Sources, NEW t \in 0..(now + Ahead),
         W!Fail(s, t), t >= now - policy.window
  PROVE  SamplesType' /\ Remembered' /\ Judged'
<1> DEFINE i == Len(heard) + 1
           X == Samples(s) \cup {i}
<1>1. PICK K \in SUBSET (Open \cup {s}), Left \in SUBSET X :
        /\ s \in K /\ DOMAIN rows' = K
        /\ rows'[s].window = policy.window /\ rows'[s].samples = Left
        /\ \A x \in K \ {s} : rows'[x] = rows[x]
        /\ lost' = [x \in Sources |-> IF x \in (Open \cup {s}) \ K THEN 1..i ELSE lost[x]]
        /\ last'.source = s /\ last'.count = Cardinality(Left)
        /\ Left # {} /\ Cardinality(Left) <= MaxSamples
        /\ \/ Left = X
           \/ /\ Cardinality(Left) = MaxSamples
              /\ \A k \in Left, j \in X \ Left : heard'[k].at >= heard'[j].at
  BY FailureIsCounted
<1>2. /\ t \in Nat /\ Len(heard) \in Nat /\ Len(heard') = i /\ UNCHANGED <<now, policy>>
      /\ heard'[i].source = s /\ heard'[i].at = t
      /\ \A j \in 1..Len(heard) : heard'[j] = heard[j]
  <2>1. /\ heard'[Len(heard) + 1] = [source |-> s, at |-> t]
        /\ t \in Nat /\ Len(heard) \in Nat /\ Len(heard') = Len(heard) + 1
        /\ UNCHANGED <<now, policy>> /\ \A j \in 1..Len(heard) : heard'[j] = heard[j]
    BY FailIsHeard
  <2> QED
    BY <2>1
<1>3. /\ now \in Nat /\ policy.window \in Nat
      /\ \A j \in 1..Len(heard) : heard[j].at \in Nat
      /\ \A j \in 1..i : heard'[j].at \in Nat
  <2>1. now \in Nat /\ policy.window \in Nat
    BY WindowAssumption DEF WindowType, Policy
  <2>2. \A j \in 1..Len(heard) : heard[j].at \in Nat
    BY HeardAreFailures
  <2> QED
    BY <1>2, <2>1, <2>2
<1>4. \A k \in X : k \in MadeBy(s)' /\ heard'[k].at >= now - policy.window
  <2>1. ASSUME NEW k \in Samples(s)
        PROVE  k \in MadeBy(s)' /\ heard'[k].at >= now - policy.window
    <3>1. s \in DOMAIN rows /\ k \in rows[s].samples /\ heard[k].at >= now - policy.window
      BY DEF Samples, Open
    <3>2. k \in 1..Len(heard) /\ heard[k].source = s
      BY <3>1, SamplesAreHeard
    <3> QED
      BY <1>2, <3>1, <3>2 DEF MadeBy
  <2>2. i \in MadeBy(s)' /\ heard'[i].at >= now - policy.window
    BY <1>2 DEF MadeBy
  <2> QED
    BY <2>1, <2>2
<1>5. ASSUME NEW x \in K, x # s
      PROVE  /\ x \in DOMAIN rows /\ x \in Open /\ rows'[x] = rows[x]
             /\ rows[x].samples \subseteq MadeBy(x) /\ rows[x].samples # {}
             /\ Cardinality(rows[x].samples) <= MaxSamples
  BY <1>1, <1>5 DEF Open, SamplesType
<1>6. \A x \in Sources : MadeBy(x) \subseteq 1..Len(heard) /\ MadeBy(x) \subseteq MadeBy(x)'
  BY <1>2 DEF MadeBy
<1>7. SamplesType'
  <2>1. \A x \in Sources : lost'[x] \subseteq 1..i
    <3>1. \A x \in Sources : lost[x] \subseteq 1..Len(heard)
      BY DEF SamplesType
    <3> QED
      BY <1>1, <1>2, <3>1
  <2>2. K \subseteq Sources
    BY DEF Open, WindowType
  <2>3. ASSUME NEW x \in K
        PROVE  /\ rows'[x].samples \subseteq MadeBy(x)' /\ rows'[x].samples # {}
               /\ Cardinality(rows'[x].samples) <= MaxSamples
    <3>1. CASE x = s
      BY <1>1, <1>4, <3>1
    <3>2. CASE x # s
      BY <1>5, <1>6, <2>2, <3>2
    <3> QED
      BY <3>1, <3>2
  <2>4. DOMAIN lost' = Sources /\ DOMAIN rows' = K
    BY <1>1
  <2> QED
    BY <1>2, <2>1, <2>3, <2>4 DEF SamplesType
<1>8. Judged'
  BY <1>1, <1>2, <1>4 DEF Judged
<1>9. ASSUME NEW x \in Sources, NEW j \in MadeBy(x)', j \notin lost'[x],
             heard'[j].at > now - policy.window, x # s
      PROVE  x \in K /\ rows'[x].window = policy.window /\ Kept(rows[x], j)'
  <2>1. /\ j \in MadeBy(x) /\ j \in 1..Len(heard) /\ heard'[j] = heard[j]
    BY <1>2, <1>9 DEF MadeBy
  <2>2. j \notin lost[x] /\ x \notin (Open \cup {s}) \ K
    BY <1>1, <1>2, <1>9, <2>1
  <2>3. x \in DOMAIN rows /\ rows[x].window = policy.window /\ Kept(rows[x], j)
    BY <1>9, <2>1, <2>2 DEF Remembered
  <2>4. x \in Open
    BY <1>9, <2>1, <2>3, RememberedIsOpen
  <2>5. x \in K /\ rows'[x] = rows[x]
    BY <1>1, <1>9, <2>2, <2>4
  <2>6. \A k \in rows[x].samples : heard'[k] = heard[k]
    BY <1>2, <2>3, SamplesAreHeard
  <2> QED
    BY <2>1, <2>3, <2>5, <2>6 DEF Kept
<1>10. ASSUME NEW j \in MadeBy(s)', j \notin lost'[s], heard'[j].at > now - policy.window
       PROVE  j \in Left \/ (Cardinality(Left) = MaxSamples /\ \A k \in Left : heard'[k].at >= heard'[j].at)
  <2>1. j \in 1..i
    BY <1>2 DEF MadeBy
  <2>2. CASE j \in X
    BY <1>1, <2>2
  <2>3. CASE j \notin X
    <3>1. /\ j \in MadeBy(s) /\ j \in 1..Len(heard) /\ heard'[j] = heard[j] /\ j \notin lost[s]
      BY <1>1, <1>2, <1>10, <2>1, <2>3 DEF MadeBy
    <3>2. s \in DOMAIN rows /\ rows[s].window = policy.window /\ Kept(rows[s], j)
      BY <1>2, <1>10, <3>1 DEF Remembered
    <3>3. s \in Open
      BY <1>10, <3>1, <3>2, RememberedIsOpen
    <3>4. /\ rows[s].samples \subseteq 1..Len(heard) /\ IsFiniteSet(rows[s].samples)
      BY <3>2, SamplesAreHeard
    <3>5. j \notin rows[s].samples
      BY <1>3, <1>10, <2>3, <3>1, <3>2, <3>3 DEF Samples
    <3>6. /\ Cardinality(rows[s].samples) = MaxSamples
          /\ \A k \in rows[s].samples : heard[k].at >= heard[j].at
      BY <3>2, <3>5 DEF Kept
    <3>7. X = rows[s].samples \cup {i}
      <4>1. Samples(s) = rows[s].samples
        BY <1>3, <1>10, <3>1, <3>2, <3>3, <3>4, <3>6 DEF Samples
      <4> QED
        BY <4>1
    <3>8. i \notin rows[s].samples /\ Cardinality(X) = MaxSamples + 1
      <4>1. i \notin rows[s].samples
        BY <1>2, <3>4
      <4> QED
        BY <3>4, <3>6, <3>7, <4>1, FS_AddElement
    <3>9. /\ Cardinality(Left) = MaxSamples /\ Left # X
          /\ \A k \in Left, m \in X \ Left : heard'[k].at >= heard'[m].at
      <4> HIDE DEF X
      <4>1. Left # X
        BY <1>1, <3>8, WindowAssumption
      <4> QED
        BY <1>1, <4>1
    <3>10. \A k \in rows[s].samples : heard'[k].at >= heard'[j].at
      BY <1>2, <3>1, <3>4, <3>6
    <3>11. i \in Left => heard'[i].at >= heard'[j].at
      <4>1. ASSUME i \in Left PROVE heard'[i].at >= heard'[j].at
        <5>1. PICK m \in X : m \notin Left
          BY <3>9
        <5>2. m \in rows[s].samples /\ m \in 1..i
          BY <1>2, <3>4, <3>7, <4>1, <5>1
        <5>3. heard'[i].at >= heard'[m].at /\ heard'[m].at >= heard'[j].at
          BY <3>9, <3>10, <4>1, <5>1, <5>2
        <5>4. i \in 1..i
          BY <1>2
        <5> QED
          BY <1>3, <2>1, <5>2, <5>3, <5>4
      <4> QED
        BY <4>1
    <3> QED
      BY <3>7, <3>9, <3>10, <3>11
  <2> QED
    BY <2>2, <2>3
<1>11. Remembered'
  <2>1. ASSUME NEW x \in Sources, NEW j \in MadeBy(x)', j \notin lost'[x],
               heard'[j].at > now - policy.window
        PROVE  x \in DOMAIN rows' /\ rows'[x].window = policy.window /\ Kept(rows[x], j)'
    <3>1. CASE x = s
      BY <1>1, <1>10, <2>1, <3>1 DEF Kept
    <3>2. CASE x # s
      BY <1>1, <1>9, <2>1, <3>2
    <3> QED
      BY <3>1, <3>2
  <2> QED
    BY <1>2, <2>1 DEF Remembered
<1> QED
  BY <1>7, <1>8, <1>11

(* Where the rows and what was heard stay, so does what is remembered, as  *)
(* long as no window grows and nothing forgotten comes back.               *)
LEMMA MemoryStays ==
  ASSUME WindowType, SamplesType, Remembered, UNCHANGED heard,
         DOMAIN rows' \subseteq DOMAIN rows, Open \subseteq DOMAIN rows',
         \A x \in DOMAIN rows' : rows'[x] = rows[x],
         DOMAIN lost' = Sources, \A x \in Sources : lost'[x] \subseteq 1..Len(heard),
         \A x \in Sources : MadeBy(x) \ lost'[x] # {} =>
           lost'[x] = lost[x] /\ policy'.window = policy.window,
         now' \in Nat, now' >= now, last' = W!Nothing
  PROVE  SamplesType' /\ Remembered' /\ Judged'
<1>1. \A x : MadeBy(x)' = MadeBy(x)
  BY DEF MadeBy
<1>2. SamplesType'
  BY <1>1 DEF SamplesType
<1>3. Judged'
  BY WindowAssumption DEF Judged, W!Nothing
<1>4. now \in Nat /\ policy.window \in Nat
  BY WindowAssumption DEF WindowType, Policy
<1>5. ASSUME NEW x \in Sources, NEW j \in MadeBy(x), j \notin lost'[x],
             heard[j].at > now' - policy'.window
      PROVE  /\ x \in DOMAIN rows' /\ rows'[x].window = policy'.window
             /\ Kept(rows[x], j)'
  <2>1. lost'[x] = lost[x] /\ policy'.window = policy.window
    BY <1>5
  <2>2. j \in 1..Len(heard) /\ heard[j].at \in Nat
    BY HeardAreFailures DEF MadeBy
  <2>3. heard[j].at > now - policy.window
    BY <1>4, <1>5, <2>1, <2>2
  <2>4. x \in DOMAIN rows /\ rows[x].window = policy.window /\ Kept(rows[x], j)
    BY <1>5, <2>1, <2>3 DEF Remembered
  <2>5. x \in Open
    BY <2>2, <2>3, <2>4, RememberedIsOpen
  <2>6. x \in DOMAIN rows' /\ rows'[x] = rows[x]
    BY <2>5
  <2> QED
    BY <2>1, <2>4, <2>6 DEF Kept
<1>6. Remembered'
  BY <1>1, <1>5 DEF Remembered
<1> QED
  BY <1>2, <1>3, <1>6

(* A failure too old to count is only heard.                               *)
LEMMA OldFailureIsHeard ==
  ASSUME WindowType, SamplesType, Remembered, NEW s \in Sources, NEW t \in 0..(now + Ahead),
         W!Fail(s, t), ~(t >= now - policy.window)
  PROVE  SamplesType' /\ Remembered' /\ Judged'
<1>1. UNCHANGED <<rows, lost>> /\ last' = W!Nothing
  BY DEF W!Fail
<1>2. /\ t \in Nat /\ Len(heard) \in Nat /\ Len(heard') = Len(heard) + 1
      /\ heard'[Len(heard) + 1] = [source |-> s, at |-> t]
      /\ \A j \in 1..Len(heard) : heard'[j] = heard[j]
      /\ UNCHANGED <<now, policy>>
  BY FailIsHeard
<1>3. \A x : MadeBy(x) \subseteq MadeBy(x)' /\ MadeBy(x) \subseteq 1..Len(heard)
  BY <1>2 DEF MadeBy
<1>4. SamplesType'
  <2>1. \A x \in Sources : lost'[x] \subseteq 1..Len(heard')
    BY <1>1, <1>2 DEF SamplesType
  <2>2. DOMAIN lost' = Sources
    BY <1>1 DEF SamplesType
  <2>3. \A x \in DOMAIN rows' :
          /\ rows'[x].samples \subseteq MadeBy(x)' /\ rows'[x].samples # {}
          /\ Cardinality(rows'[x].samples) <= MaxSamples
    BY <1>1, <1>3 DEF SamplesType
  <2> QED
    BY <2>1, <2>2, <2>3 DEF SamplesType
<1>5. Judged'
  BY <1>1, WindowAssumption DEF Judged, W!Nothing
<1>6. ASSUME NEW x \in Sources, NEW j \in MadeBy(x)', j \notin lost'[x],
             heard'[j].at > now - policy.window
      PROVE  x \in DOMAIN rows' /\ rows'[x].window = policy.window /\ Kept(rows[x], j)'
  <2>1. j \in 1..(Len(heard) + 1)
    BY <1>2 DEF MadeBy
  <2>2. j # Len(heard) + 1
    <3>1. now \in Nat /\ policy.window \in Nat
      BY WindowAssumption DEF WindowType, Policy
    <3>2. heard'[Len(heard) + 1].at = t
      BY <1>2
    <3> QED
      BY <1>2, <1>6, <3>1, <3>2
  <2>3. j \in MadeBy(x) /\ j \in 1..Len(heard) /\ heard'[j] = heard[j]
    BY <1>2, <1>6, <2>1, <2>2 DEF MadeBy
  <2>4. x \in DOMAIN rows /\ rows[x].window = policy.window /\ Kept(rows[x], j)
    BY <1>1, <1>6, <2>3 DEF Remembered
  <2>5. \A k \in rows[x].samples : heard'[k] = heard[k]
    BY <1>2, <2>4, SamplesAreHeard
  <2> QED
    BY <1>1, <2>3, <2>4, <2>5 DEF Kept
<1>7. Remembered'
  BY <1>2, <1>6 DEF Remembered
<1> QED
  BY <1>4, <1>5, <1>7

(* No step of this part forgets more than it says.                         *)
LEMMA StepRemembers ==
  ASSUME WindowType, SamplesType, Remembered, Judged, W!Next
  PROVE  SamplesType' /\ Remembered' /\ Judged'
<1>1. now \in Nat /\ policy \in Policy
  BY DEF WindowType
<1>2. /\ DOMAIN lost = Sources /\ \A x \in Sources : lost[x] \subseteq 1..Len(heard)
      /\ Open \subseteq DOMAIN rows
  BY DEF SamplesType, Open
<1>3. CASE \E s \in Sources, t \in 0..(now + Ahead) : W!Fail(s, t)
  BY <1>3, CountingRemembers, OldFailureIsHeard
<1>4. CASE W!Maintain
  <2>1. /\ last' = W!Nothing /\ UNCHANGED <<now, policy, heard, lost>>
        /\ rows' = W!Without(rows, W!Expired)
    BY <1>4 DEF W!Maintain
  <2>2. DOMAIN rows' = Open /\ \A x \in Open : rows'[x] = rows[x]
    BY <2>1 DEF W!Without, Open
  <2> QED
    BY <1>1, <1>2, <2>1, <2>2, MemoryStays
<1>5. CASE W!SavePolicy
  <2>1. /\ last' = W!Nothing /\ UNCHANGED <<now, heard, rows>>
        /\ lost' = [s \in Sources |-> IF policy'.window = policy.window THEN lost[s]
                                      ELSE 1..Len(heard)]
    BY <1>5 DEF W!SavePolicy
  <2>2. \A x \in Sources : MadeBy(x) \subseteq 1..Len(heard)
    BY DEF MadeBy
  <2>3. /\ DOMAIN lost' = Sources /\ \A x \in Sources : lost'[x] \subseteq 1..Len(heard)
        /\ \A x \in Sources : MadeBy(x) \ lost'[x] # {} =>
             lost'[x] = lost[x] /\ policy'.window = policy.window
    BY <1>2, <2>1, <2>2
  <2> QED
    BY <1>1, <1>2, <2>1, <2>3, MemoryStays
<1>6. CASE W!EmergencyStop
  <2>1. /\ last' = W!Nothing /\ UNCHANGED <<now, heard, rows, lost>>
        /\ policy' = [policy EXCEPT !.on = ~@, !.saves = @ + 1]
    BY <1>6 DEF W!EmergencyStop
  <2>2. policy'.window = policy.window
    BY <1>1, <2>1 DEF Policy
  <2> QED
    BY <1>1, <1>2, <2>1, <2>2, MemoryStays
<1>7. CASE W!BanOver
  BY <1>7 DEF W!BanOver, SamplesType, Remembered, Judged, MadeBy, Kept
<1>8. CASE W!Tick
  <2>1. /\ now' = now + 1 /\ last' = W!Nothing /\ UNCHANGED <<policy, rows, heard, lost>>
    BY <1>8 DEF W!Tick
  <2> QED
    BY <1>1, <1>2, <2>1, MemoryStays
<1> QED
  BY <1>3, <1>4, <1>5, <1>6, <1>7, <1>8 DEF W!Next

(* The lesser of two numbers.                                              *)
LEMMA LesserOfTwo ==
  ASSUME NEW a \in Nat, NEW b \in Nat
  PROVE  W!Min({a, b}) = IF a <= b THEN a ELSE b
<1>1. \E x \in {a, b} : \A y \in {a, b} : x <= y
  OBVIOUS
<1>2. W!Min({a, b}) \in {a, b} /\ \A y \in {a, b} : W!Min({a, b}) <= y
  BY <1>1 DEF W!Min
<1> QED
  BY <1>2

(* What a row remembers is what the count must be.                         *)
LEMMA CountFollows ==
  ASSUME WindowType, SamplesType, Remembered, Judged
  PROVE  CountIsOfTheWindow
<1> DEFINE s     == last.source
           Upper == {i \in MadeBy(s) : heard[i].at >= now - policy.window}
           Lower == {i \in MadeBy(s) \ lost[s] : heard[i].at > now - policy.window}
           Left  == rows[s].samples
<1>1. ASSUME s \in Sources
      PROVE  /\ last.count <= Cardinality(Upper)
             /\ last.count >= W!Min({MaxSamples, Cardinality(Lower)})
  <2>1. /\ s \in DOMAIN rows /\ last.count = Cardinality(Left)
        /\ \A k \in Left : heard[k].at >= now - policy.window
    BY <1>1 DEF Judged
  <2>2. /\ Left \subseteq MadeBy(s) /\ IsFiniteSet(Left) /\ Cardinality(Left) \in Nat
        /\ Cardinality(Left) <= MaxSamples
    BY <2>1, SamplesAreHeard DEF SamplesType
  <2>3. /\ IsFiniteSet(Upper) /\ IsFiniteSet(Lower) /\ Cardinality(Lower) \in Nat
    <3>1. IsFiniteSet(1..Len(heard))
      BY FS_Interval DEF WindowType
    <3>2. Upper \subseteq 1..Len(heard) /\ Lower \subseteq 1..Len(heard)
      BY DEF MadeBy
    <3> HIDE DEF Upper, Lower
    <3> QED
      BY <3>1, <3>2, FS_Subset, FS_CardinalityType
  <2>4. last.count <= Cardinality(Upper)
    <3>1. Left \subseteq Upper
      BY <2>1, <2>2
    <3> HIDE DEF Upper, Left
    <3> QED
      BY <2>1, <2>3, <3>1, FS_Subset
  <2>5. Cardinality(Left) = MaxSamples \/ Cardinality(Lower) <= Cardinality(Left)
    <3>1. ASSUME Cardinality(Left) # MaxSamples PROVE Lower \subseteq Left
      BY <1>1, <3>1 DEF Remembered, Kept
    <3> HIDE DEF Lower, Left
    <3> QED
      BY <2>2, <3>1, FS_Subset
  <2>6. last.count >= W!Min({MaxSamples, Cardinality(Lower)})
    <3> HIDE DEF Lower, Left
    <3> QED
      BY <2>1, <2>2, <2>3, <2>5, LesserOfTwo, WindowAssumption
  <2> QED
    BY <2>4, <2>6
<1> QED
  BY <1>1, WindowCardinality DEF CountIsOfTheWindow, W!CountIsOfTheWindow, MadeBy, W!At

(* Nothing was heard, so nothing is to be remembered.                      *)
LEMMA MemoryBegins ==
  ASSUME Init
  PROVE  SamplesType /\ Remembered /\ Judged
<1>1. /\ heard = <<>> /\ rows = <<>> /\ lost = [s \in Sources |-> {}] /\ last = W!Nothing
  BY DEF Init, W!Init
<1>2. DOMAIN rows = {} /\ Len(heard) = 0
  BY <1>1
<1>3. \A s : MadeBy(s) = {}
  BY <1>2 DEF MadeBy
<1> QED
  BY <1>1, <1>2, <1>3, WindowAssumption DEF SamplesType, Remembered, Judged, W!Nothing

(* For any sources, windows and limits: a failure is judged by the number  *)
(* of its source's failures in the window, as far as a row can hold them   *)
(* and no eviction or change of the window made them be forgotten; an old  *)
(* one, or one of another source, never counts, however late or out of     *)
(* order it arrives (store/security_events.go).                            *)
THEOREM CountHolds == Spec => []CountIsOfTheWindow
<1> DEFINE Inv == /\ WindowType /\ BansType /\ LimitsAreKept
                  /\ SamplesType /\ Remembered /\ Judged
<1>1. Init => Inv
  BY WindowBegins, MemoryBegins
<1>2. Inv /\ [Next]_<<part, elementVars, hardenVars, suspendVars, notifyVars, reportVars,
                      enrolVars, baselineVars, windowVars>>
      => Inv'
  <2>1. ASSUME Inv, UNCHANGED windowVars
        PROVE  Inv'
    BY <2>1 DEF windowVars, WindowType, BansType, LimitsAreKept, W!LimitsAreKept,
       W!TableIsBounded, W!BanRateHeld, W!Real, W!Simulated, SamplesType, Remembered,
       Judged, MadeBy, Kept
  <2>2. ASSUME Inv, W!Next
        PROVE  Inv'
    BY <2>2, WindowStepKeeps, StepRemembers
  <2> QED
    BY <2>1, <2>2, WindowAlone
<1>3. Inv => CountIsOfTheWindow
  BY CountFollows
<1> HIDE DEF Inv
<1> QED
  BY <1>1, <1>2, <1>3, PTL DEF Spec

=============================================================================
