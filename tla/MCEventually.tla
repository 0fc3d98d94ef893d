------------------------------ MODULE MCEventually ------------------------------
(***************************************************************************)
(* What must happen in the end, in the parts of the system that keep       *)
(* trying.  The parts share no state, so one is checked at a time: a       *)
(* behaviour is a behaviour of the part it starts as, and leaves the       *)
(* others where they began.                                                *)
(***************************************************************************)
EXTENDS Naturals

VARIABLE part

(* SSH hardening on the host *)
VARIABLES file, journal, disk, timer, acts, eng, exp, owner, loaded, yielded, clock
hardenVars == <<file, journal, disk, timer, acts, eng, exp, owner, loaded, yielded, clock>>
H == INSTANCE SSHJournal WITH
       SSHActions <- {"h1"}, Lines <- {"t1", "t2"}, Modes <- {"m1"}, Nobody <- "nobody",
       Window <- 1, MaxDelay <- 1, Retry <- 1, Jump <- 1

(* process suspension on the host *)
VARIABLES pid, started, resume, resumeDisk, resumeTimer, suspensions, suspending, resuming, held
suspendVars == <<pid, started, resume, resumeDisk, resumeTimer, suspensions, suspending,
                 resuming, held>>
P == INSTANCE ProcessSuspendJournal WITH
       SuspendActions <- {"z1"}, Procs <- {"p1", "p2"}, NoProc <- "free",
       NoAction <- "nobody", TTL <- 1,
       journal <- resume, disk <- resumeDisk, timer <- resumeTimer, acts <- suspensions,
       eng <- suspending, exp <- resuming

(* notifications *)
VARIABLES row, settings, job, sends, faults
notifyVars == <<row, settings, job, sends, faults>>
N == INSTANCE NotificationOutbox WITH
       Events <- {"e1"}, Reports <- {"e1"}, Workers <- {"w1", "w2"},
       NoEvent <- "none", MaxLive <- 1, MaxDone <- 1, MaxAttempts <- 2, Lease <- 1,
       Retry <- 1, MaxVersion <- 2, MaxFaults <- 1

(* schedules of a device that does not call, and scans of one that does *)
VARIABLES now, sched, due, mark, cmds, lease, agent, results, recorded, edits
scanVars == <<now, sched, due, mark, cmds, lease, agent, results, recorded, edits>>
S == INSTANCE ScanScheduler WITH
       Schedules <- {"d1"}, Nobody <- "nobody", Intervals <- {1, 2}, Lease <- 1,
       MaxResults <- 0, MaxTime <- 3, MaxCmds <- 3
R == INSTANCE ScanScheduler WITH
       Schedules <- {"d1"}, Nobody <- "nobody", Intervals <- {}, Lease <- 1,
       MaxResults <- 2, MaxTime <- 0, MaxCmds <- 3

(* enrolment *)
VARIABLES proc, dataDir, observer, token, challenge, device
enrolVars == <<proc, dataDir, observer, token, challenge, device>>
D == INSTANCE Enrollment WITH
       Procs <- {"g1"}, Keys <- {"k1"}, Tokens <- {"t1"}, Challenges <- {"c1", "c2"},
       Creds <- {"x1", "x2"}, None <- "none", MaxUses <- 1, PerKey <- 1, PerToken <- 2,
       disk <- dataDir

(* the sensors that follow a log *)
VARIABLES source, log, written, saved, poll, queued
tailVars == <<source, log, written, saved, poll, queued>>
T == INSTANCE SensorTail WITH
       Sources <- {"auth", "runtime"}, MaxLines <- 2, MaxLength <- 4, MaxRead <- 2,
       MaxEvents <- 1, MaxInode <- 2, known <- queued

-----------------------------------------------------------------------------

allVars == <<part, hardenVars, suspendVars, notifyVars, scanVars, enrolVars, tailVars>>

InHardening  == part = "hardening" /\ UNCHANGED <<part, suspendVars, notifyVars, scanVars,
                                                   enrolVars, tailVars>>
InSuspension == part = "suspension" /\ UNCHANGED <<part, hardenVars, notifyVars, scanVars,
                                                   enrolVars, tailVars>>
InOutbox     == part = "outbox" /\ UNCHANGED <<part, hardenVars, suspendVars, scanVars,
                                              enrolVars, tailVars>>
InSchedules  == part = "schedules" /\ UNCHANGED <<part, hardenVars, suspendVars, notifyVars,
                                                 enrolVars, tailVars>>
InScans      == part = "scans" /\ UNCHANGED <<part, hardenVars, suspendVars, notifyVars,
                                             enrolVars, tailVars>>
InEnrolment  == part = "enrolment" /\ UNCHANGED <<part, hardenVars, suspendVars, notifyVars,
                                                 scanVars, tailVars>>
InSensors    == part = "sensors" /\ UNCHANGED <<part, hardenVars, suspendVars, notifyVars,
                                               scanVars, enrolVars>>

PartsInit ==
  /\ part \in {"hardening", "suspension", "outbox", "schedules", "scans", "enrolment", "sensors"}
  /\ H!Init /\ P!Init /\ N!Init /\ R!Init /\ D!Init /\ T!Init
  /\ part # "scans" => S!Pending = {}
  /\ part # "sensors" => source = "auth"

PartsNext ==
  \/ InHardening  /\ H!Next
  \/ InSuspension /\ P!Next
  \/ InOutbox     /\ N!Next
  \/ InSchedules  /\ S!Next /\ UNCHANGED agent
  \/ InScans      /\ R!Next
  \/ InEnrolment  /\ D!Next
  \/ InSensors    /\ T!Next

(* The fairness is that of the parts.  Only one of them is there, so their *)
(* nth weakly fair steps, and their nth strongly fair steps, are told to   *)
(* be fair together.                                                       *)
WeakStep(n) ==
  \/ InHardening /\ \/ n = 1 /\ H!Tick
                    \/ n = 2 /\ H!EngineReturns
                    \/ n = 3 /\ H!Timer
  \/ InSuspension /\ \/ n = 1 /\ P!Tick
                     \/ n = 2 /\ P!EngineSteps
                     \/ n = 3 /\ P!TimerSteps
  \/ InOutbox    /\ \/ n = 1 /\ N!Tick
                    \/ n = 2 /\ N!Worker("w1")
                    \/ n = 3 /\ N!Worker("w2")
  \/ InScans     /\ n = 1 /\ R!Tick
  \/ InEnrolment /\ \/ n = 1 /\ D!Agent("g1")
                    \/ n = 2 /\ D!ChallengeLapses("c1")
                    \/ n = 3 /\ D!ChallengeLapses("c2")
                    \/ n = 4 /\ D!ActionEnds("k1")

StrongStep(n) ==
  \/ InHardening /\ \/ n = 1 /\ H!ExpireReload(TRUE)
                    \/ n = 2 /\ H!Expire("h1", TRUE)
  \/ InSuspension /\ \/ n = 1 /\ P!ExpireContinue(TRUE)
                     \/ n = 2 /\ P!Expire("z1", TRUE)
  \/ InScans     /\ \/ n = 1 /\ R!ClaimCommands(TRUE)
                    \/ n = 2 /\ R!ScanReturns
                    \/ n = 3 /\ R!Flush(TRUE)
  \/ InEnrolment /\ \/ n = 1 /\ D!Start("g1")
                    \/ n = 2 /\ D!LoadPending("g1")
                    \/ n = 3 /\ D!Ask("g1", TRUE)
                    \/ n = 4 /\ D!Prove("g1", TRUE)
                    \/ n = 5 /\ D!Save("g1", TRUE)
  \/ InSensors   /\ \/ n = 1 /\ T!Poll
                    \/ n = 2 /\ T!Enqueue
                    \/ n = 3 /\ T!Commit

PartsSpec ==
  /\ PartsInit /\ [][PartsNext]_allVars
  /\ \A n \in 1..4 : WF_allVars(WeakStep(n))
  /\ \A n \in 1..5 : SF_allVars(StrongStep(n))

-----------------------------------------------------------------------------
(* The parts' properties, each as its module states it.                    *)

(* An unconfirmed hardening is undone, so that a lockout ends, unless the  *)
(* undo meets an edit of the administrator's.                              *)
LockoutEnds == H!LockoutEnds

(* A suspended process is resumed, exits, or has lost its executable.      *)
ReleasedUnlessUnlinked == P!ReleasedUnlessUnlinked

(* A notification is delivered or given up, by the worker that holds it.   *)
DeliveriesSettle == N!DeliveriesSettle

(* An edit of a schedule is kept although passes race with it.             *)
SchedulesAreKept == S!EditsHold

(* A requested scan is carried out, unless a refused second result blocks  *)
(* the Agent's FIFO for ever.                                              *)
ScansRun == part = "scans" => R!ScansRun

(* A committed enrolment reaches the host.                                 *)
EnrolmentIsNotLost == D!EnrolmentIsNotLost

(* A suspicious line is reported, and counts once.                         *)
LinesAreReportedOnce == T!LinesAreReportedOnce
=============================================================================
