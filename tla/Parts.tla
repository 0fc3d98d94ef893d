--------------------------------- MODULE Parts ---------------------------------
(***************************************************************************)
(* The parts around the life cycle of an action: the host side of three    *)
(* playbooks, and the Controller's and the Agent's side services.  They    *)
(* share no state, so one is checked at a time: a behaviour is a behaviour *)
(* of the part it starts as, and leaves the others where they began.       *)
(***************************************************************************)
EXTENDS Naturals, FiniteSets

VARIABLE part

(* temporary bans in nftables *)
CONSTANTS BanActions, Legacy, Unnamed, NoBan, TTLs, Lag, BanJump
ASSUME BanAssumption ==
  /\ Legacy \subseteq BanActions /\ \A a, b \in Legacy : a = b
  /\ NoBan \notin BanActions /\ Unnamed \notin BanActions /\ Unnamed # NoBan
  /\ TTLs \subseteq Nat \ {0} /\ Lag \in Nat /\ BanJump \in Nat
VARIABLES el, bans, running, wall, was, flushed
elementVars == <<el, bans, running, wall, was, flushed>>
B == INSTANCE BanGenerations WITH
       Jump <- BanJump, job <- running, clock <- wall

(* SSH hardening on the host *)
CONSTANTS SSHActions, Lines, Modes, Nobody, Window, MaxDelay, Retry, Jump
ASSUME SSHAssumption ==
  /\ Nobody \notin SSHActions /\ Lines # {} /\ Modes # {}
  /\ Window \in Nat /\ MaxDelay \in Nat /\ Retry \in Nat /\ Jump \in Nat
VARIABLES file, journal, disk, timer, acts, eng, exp, owner, loaded, yielded, clock
hardenVars == <<file, journal, disk, timer, acts, eng, exp, owner, loaded, yielded, clock>>
H == INSTANCE SSHJournal

(* process suspension on the host *)
CONSTANTS SuspendActions, Procs, NoProc, NoAction, TTL
ASSUME SuspendAssumption ==
  NoProc \notin Procs /\ NoAction \notin SuspendActions /\ TTL \in Nat
VARIABLES pid, started, resume, resumeDisk, resumeTimer, suspensions, suspending, resuming, held
suspendVars == <<pid, started, resume, resumeDisk, resumeTimer, suspensions, suspending,
                 resuming, held>>
P == INSTANCE ProcessSuspendJournal WITH
       journal <- resume, disk <- resumeDisk, timer <- resumeTimer, acts <- suspensions,
       eng <- suspending, exp <- resuming

(* notifications *)
CONSTANTS Events, Reports, Workers, NoEvent, MaxLive, MaxDone, MaxAttempts, Lease, SendRetry,
          MaxVersion, MaxFaults
ASSUME OutboxAssumption ==
  IsFiniteSet(Events) /\ MaxLive \in Nat /\ Lease \in Nat /\ SendRetry \in Nat
VARIABLES row, settings, job, sends, faults
notifyVars == <<row, settings, job, sends, faults>>
N == INSTANCE NotificationOutbox WITH Retry <- SendRetry

(* reports and the projection of their findings *)
CONSTANTS Categories, Grave, Names, MaxReports, MaxActive, MaxResolved, MaxScans
VARIABLES made, stored, snaps, projected, current, omitted, applied
reportVars == <<made, stored, snaps, projected, current, omitted, applied>>
F == INSTANCE FindingProjection

(* enrolment *)
CONSTANTS Installers, Keys, Tokens, Challenges, Creds, NoOne, MaxUses, PerKey, PerToken
ASSUME EnrolAssumption ==
  /\ NoOne \notin Keys \cup Tokens \cup Challenges \cup Creds
  /\ IsFiniteSet(Keys) /\ MaxUses \in Nat
VARIABLES proc, dataDir, observer, token, challenge, device
enrolVars == <<proc, dataDir, observer, token, challenge, device>>
D == INSTANCE Enrollment WITH
       Procs <- Installers, None <- NoOne, disk <- dataDir

(* the sensors that compare the host with a baseline *)
CONSTANTS Items, Kinds, Capacity, Batch, MaxGeneration
ASSUME SensorAssumption == Kinds \subseteq {"files", "listeners", "processes"}
VARIABLES kind, host, saved, pending, poll, known, news, refused
baselineVars == <<kind, host, saved, pending, poll, known, news, refused>>
S == INSTANCE SensorBaseline

(* the windows in which failed logins are counted *)
CONSTANTS Sources, Allowed, Protected, Windows, Threshold, MaxSamples, MaxRows, BanTime, Hour,
          CoolMax, MaxBans, MaxSims, MaxLiveSims, Ahead, MaxEvents, MaxTime, MaxSaves
ASSUME WindowAssumption ==
  /\ "none" \notin Sources /\ Windows \subseteq Nat /\ IsFiniteSet(Windows)
  /\ MaxSamples \in Nat \ {0} /\ MaxRows \in Nat \ {0}
  /\ BanTime \in Nat /\ Hour \in Nat /\ CoolMax \in Nat /\ Ahead \in Nat
  /\ MaxBans \in Nat /\ MaxSims \in Nat /\ MaxLiveSims \in Nat
VARIABLES now, policy, rows, cached, heard, blocked, lost, last
windowVars == <<now, policy, rows, cached, heard, blocked, lost, last>>
W == INSTANCE DefenseWindow WITH bans <- blocked

-----------------------------------------------------------------------------

Only(p) ==
  /\ part = p
  /\ UNCHANGED part
  /\ p # "ban"        => UNCHANGED elementVars
  /\ p # "hardening"  => UNCHANGED hardenVars
  /\ p # "suspension" => UNCHANGED suspendVars
  /\ p # "outbox"     => UNCHANGED notifyVars
  /\ p # "projection" => UNCHANGED reportVars
  /\ p # "enrolment"  => UNCHANGED enrolVars
  /\ p # "baseline"   => UNCHANGED baselineVars
  /\ p # "window"     => UNCHANGED windowVars

(* Where a part may begin in several ways, it does so when it runs.        *)
Init ==
  /\ part \in {"ban", "hardening", "suspension", "outbox", "projection", "enrolment",
               "baseline", "window"}
  /\ B!Init /\ H!Init /\ P!Init /\ N!Init /\ F!Init /\ D!Init /\ S!Init /\ W!Init
  /\ part # "baseline" => kind = (CHOOSE k \in Kinds : TRUE) /\ host = {}
  /\ part # "window"   => policy.auto /\ policy.window = (CHOOSE w \in Windows : TRUE)

Next ==
  \/ Only("ban")        /\ B!Next
  \/ Only("hardening")  /\ H!Next
  \/ Only("suspension") /\ P!Next
  \/ Only("outbox")     /\ N!Next
  \/ Only("projection") /\ F!Next
  \/ Only("enrolment")  /\ D!Next
  \/ Only("baseline")   /\ S!Next
  \/ Only("window")     /\ W!Next

Spec == Init /\ [][Next]_<<part, elementVars, hardenVars, suspendVars, notifyVars, reportVars,
                           enrolVars, baselineVars, windowVars>>

-----------------------------------------------------------------------------
(* The parts' properties, each as its module states it.                    *)

(* A live ban holds its address, and an address held has a live ban.       *)
BansAreExact == B!BansAreExact

(* The rollback of a ban leaves the address as the ban found it.           *)
RollbackRestores == B!RollbackRestores

(* While a hardening is unconfirmed, its undo is on disk, and under way    *)
(* unless its timer has met an edit of the administrator's.                *)
UndoArmed == H!UndoArmed

(* The undo touches neither a confirmed hardening nor a foreign edit.      *)
UndoIsExact == H!UndoIsExact

(* A process is stopped only while a resumption is on disk.                *)
ResumeArmed == P!ResumeArmed

(* The backlog is bounded and a channel gets what was raised for it.       *)
OutboxSafe == N!OutboxSafe

(* A finding is shown as the newest projected report left it.              *)
ProjectionIsLastWord == F!ProjectionIsLastWord

(* The tables and the host's files agree on who is enrolled and how.       *)
EnrolmentIsSound == D!EnrolmentIsSound

(* A baseline moves past no change that has not been queued.               *)
ChangesAreTold == S!ChangesAreTold

(* The count that is judged is the count of the window.                    *)
CountIsOfTheWindow == W!CountIsOfTheWindow

(* The table and the bans of an hour stay within their limits.             *)
LimitsAreKept == W!LimitsAreKept
=============================================================================
