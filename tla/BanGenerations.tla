---------------------------- MODULE BanGenerations ----------------------------
(***************************************************************************)
(* The temporary ban playbook of the Helper and the one nftables element   *)
(* of an address.  Every ban bears the generation of its action; a refresh *)
(* replaces the element in one transaction and remembers what it replaced, *)
(* and a rollback may only undo its own generation.                        *)
(*                                                                         *)
(* The Helper runs one action at a time, in the steps at which it calls    *)
(* nft.  In between the kernel counts down, commands fail before or after  *)
(* they took effect, the wall clock is set, the set is flushed, and the    *)
(* Helper stops.  Time is counted in ticks (of a second, the resolution of *)
(* a timeout in nft).  Definitions marked "Fault" are plausible mistakes.  *)
(***************************************************************************)
EXTENDS Integers, FiniteSets

CONSTANTS
  BanActions,  \* identities of ban actions of one address
  Legacy,      \* those an older Helper applied, whose element has no comment
  Unnamed,     \* the generation of an element without a comment
  NoBan,       \* no element, no action
  TTLs,        \* the lifetimes asked for
  Lag,         \* ticks a sequence of nft commands may take (45 s)
  Jump         \* ticks by which the wall clock is set, once

VARIABLES
  el,     \* the element: generation and remaining time
  bans,   \* bans[a]: status and saved rollback state
  job,    \* what the Helper is doing
  clock,  \* whether the wall clock was set
  was,    \* was[g]: (history) what generation g would have left, had it not been replaced
  flushed \* (history) the generations lost when the set was emptied

banVars == <<el, bans, job, clock, was, flushed>>

Generation(a) == IF a \in Legacy THEN Unnamed ELSE a
Generations == (BanActions \ Legacy) \cup {Unnamed}

Absent  == [gen |-> NoBan, left |-> 0]
NoState == [ttl |-> 0, prev |-> NoBan, left |-> 0, wall |-> 0]
Idle    == [act |-> NoBan, pc |-> "idle", ok |-> TRUE, spent |-> 0, left |-> 0]

Missing == el = Absent

(* installOrRefreshElement: add, delete, add in one transaction.           *)
Install(g, left) ==
  /\ el'  = [gen |-> g, left |-> left]
  /\ was' = [h \in Generations |-> IF h = g THEN 0 ELSE IF h = el.gen THEN el.left ELSE was[h]]
  /\ flushed' = flushed \ {g}

Keep == UNCHANGED <<el, was, flushed>>

End(a, status, saved) ==
  /\ bans' = [bans EXCEPT ![a] =
               [status |-> status, saved |-> IF status = "rolled_back" THEN NoState ELSE saved]]
  /\ job'  = Idle

Goto(pc) == job' = [Idle EXCEPT !.act = job.act, !.pc = pc]

-----------------------------------------------------------------------------
(* Apply.                                                                  *)

(* Precheck and Apply look for an element to refresh; its remaining time   *)
(* must be covered by the new one.                                         *)
ApplyRead(a, ttl) ==
  /\ job = Idle /\ bans[a].status = "new"
  /\ IF el.left > ttl
       THEN End(a, "failed", NoState)
       ELSE /\ job'  = [Idle EXCEPT !.act = a, !.pc = "install"]
            /\ bans' = [bans EXCEPT ![a] = [status |-> "applying",
                          saved |-> [ttl |-> ttl, prev |-> el.gen,
                                     left |-> el.left, wall |-> el.left]]]
  /\ UNCHANGED <<clock>> /\ Keep

(* nft is not there, its answer is not understood, or the table is not     *)
(* set up.                                                                 *)
ApplyRefused(a) ==
  /\ job = Idle /\ bans[a].status = "new"
  /\ End(a, "failed", NoState)
  /\ UNCHANGED <<clock>> /\ Keep

(* The command may be reported failed, or time out, although it committed. *)
ApplyInstall(done, ok) ==
  /\ job.pc = "install" /\ (ok => done)
  /\ IF done THEN Install(job.act, bans[job.act].saved.ttl) ELSE Keep
  /\ job' = [job EXCEPT !.pc = "observe", !.ok = ok]
  /\ UNCHANGED <<bans, clock>>

(* What the predecessor had left at the commit: the time since it was read *)
(* less the age of the new element.                                        *)
Exact(s, spent) ==
  LET age    == s.ttl - el.left
      before == IF spent > age THEN spent - age ELSE 0
  IN IF s.left > before THEN [s EXCEPT !.left = @ - before]
     ELSE [s EXCEPT !.prev = NoBan, !.left = 0, !.wall = 0]

(* After the command the element is read back, whatever it reported.       *)
Observe(readable) ==
  LET a == job.act  s == bans[a].saved
      own == readable /\ el.gen = a
      untouched == \/ Missing /\ s.prev \in {NoBan, Unnamed}
                   \/ ~Missing /\ el.gen = s.prev
  IN /\ job.pc = "observe"
     /\ IF own THEN /\ bans' = [bans EXCEPT ![a].saved = Exact(s, job.spent)]
                    /\ Goto(IF job.ok THEN "verify" ELSE "undo")
        ELSE IF readable /\ ~job.ok /\ untouched THEN End(a, "failed", NoState)
        ELSE Goto("undo") /\ UNCHANGED bans
     /\ UNCHANGED <<clock>> /\ Keep

Verify(readable) ==
  LET a == job.act
  IN /\ job.pc = "verify"
     /\ IF readable /\ el.gen = a THEN End(a, "applied", bans[a].saved)
        ELSE Goto("undo") /\ UNCHANGED bans
     /\ UNCHANGED <<clock>> /\ Keep

-----------------------------------------------------------------------------
(* Rollback, asked for by an administrator or automatic.                   *)

RollbackAsked(a) ==
  /\ job = Idle
  /\ bans[a].status \in {"applied", "failed"}
  /\ bans[a].saved # NoState
  /\ job' = [Idle EXCEPT !.act = a, !.pc = "undo"]
  /\ UNCHANGED <<bans, clock>> /\ Keep

(* An error before anything was changed leaves an applied ban applied.     *)
Refused(a) ==
  End(a, IF bans[a].status = "applied" THEN "applied" ELSE "failed", bans[a].saved)

(* What is left of the predecessor, by the kernel's clock and, if that is  *)
(* less, by the wall clock.                                                *)
\* Fault: the time the ban was in force is not counted.
RestorableAtRead(s) == s.left
Restorable(s) ==
  LET byKernel == s.left - (s.ttl - el.left)
  IN IF s.wall < byKernel THEN s.wall ELSE byKernel

\* Fault: the generation of the element is not looked at.
OwnsAny(a) == TRUE
Owns(a) == /\ el.gen = Generation(a)
           /\ a \in Legacy => bans[a].saved.wall > 0

RollbackRead(readable) ==
  LET a == job.act  s == bans[a].saved
      had == s.prev # NoBan
  IN /\ job.pc = "undo"
     /\ CASE ~readable -> Refused(a)
          [] readable /\ Missing ->
               IF had THEN Refused(a) ELSE End(a, "rolled_back", s)
          [] readable /\ ~Missing /\ had /\ el.gen = s.prev -> End(a, "rolled_back", s)
          [] readable /\ ~Missing /\ ~(had /\ el.gen = s.prev) ->
               IF ~Owns(a) THEN Refused(a)
               ELSE /\ UNCHANGED bans
                    /\ IF had /\ Restorable(s) > 0
                         THEN job' = [job EXCEPT !.pc = "restore", !.left = Restorable(s), !.spent = 0]
                         ELSE Goto("delete")
     /\ UNCHANGED <<clock>> /\ Keep

Restore(done, ok) ==
  LET a == job.act  s == bans[a].saved
  IN /\ job.pc = "restore" /\ (ok => done)
     /\ IF done THEN Install(s.prev, job.left) ELSE Keep
     /\ End(a, IF ok THEN "rolled_back" ELSE "failed", s)
     /\ UNCHANGED clock

(* A failed delete is a success only if a fresh read proves the element    *)
(* absent.                                                                 *)
Gone(ok, readable) == ok \/ (readable /\ el' = Absent)

Delete(done, ok, readable) ==
  LET a == job.act
  IN /\ job.pc = "delete"
     /\ (ok => done) /\ (done => ~Missing)
     /\ el'  = IF done THEN Absent ELSE el
     /\ was' = IF ~done THEN was
               ELSE [was EXCEPT ![el.gen] = IF el.gen = Generation(a) THEN 0 ELSE el.left]
     /\ End(a, IF Gone(ok, readable) THEN "rolled_back" ELSE "failed", bans[a].saved)
     /\ UNCHANGED <<clock, flushed>>

-----------------------------------------------------------------------------
(* The host.                                                               *)

Less(n, floor) == IF n > floor THEN n - 1 ELSE floor
HasWall(a) == bans[a].saved.prev # NoBan \/ (a \in Legacy /\ bans[a].saved # NoState)
OnWall(left) ==
  bans' = [a \in BanActions |->
             IF HasWall(a) THEN [bans[a] EXCEPT !.saved.wall = left[a]] ELSE bans[a]]

Tick ==
  /\ job # Idle => job.spent < Lag
  /\ job' = IF job = Idle THEN Idle ELSE [job EXCEPT !.spent = @ + 1]
  /\ el'  = IF el.left <= 1 THEN Absent ELSE [el EXCEPT !.left = @ - 1]
  /\ was' = [g \in Generations |-> Less(was[g], 0)]
  /\ LET floor == IF clock = "true" THEN -Jump ELSE 0
     IN OnWall([a \in BanActions |-> Less(bans[a].saved.wall, floor)])
  /\ UNCHANGED <<clock, flushed>>

ClockSet(to) ==
  /\ clock = "true"
  /\ clock' = to
  /\ LET by == IF to = "ahead" THEN -Jump ELSE Jump
     IN OnWall([a \in BanActions |-> bans[a].saved.wall + by])
  /\ UNCHANGED job /\ Keep

(* Somebody else empties the set, or the host starts anew.                 *)
Flush ==
  /\ ~Missing
  /\ el' = Absent
  /\ was' = [was EXCEPT ![el.gen] = el.left]
  /\ flushed' = Generations
  /\ UNCHANGED <<bans, job, clock>>

(* The receipt of an attempt that was interrupted has no rollback state; a *)
(* rollback that was may be asked for again.                               *)
HelperStops ==
  /\ job # Idle
  /\ IF bans[job.act].status = "applying"
       THEN End(job.act, "interrupted", NoState)
       ELSE End(job.act, "failed", bans[job.act].saved)
  /\ UNCHANGED clock /\ Keep

Next ==
  \/ \E a \in BanActions : \/ \E ttl \in TTLs : ApplyRead(a, ttl)
                           \/ ApplyRefused(a)
                           \/ RollbackAsked(a)
  \/ \E done, ok \in BOOLEAN :
       \/ ApplyInstall(done, ok) \/ Restore(done, ok)
       \/ \E readable \in BOOLEAN : Delete(done, ok, readable)
  \/ \E readable \in BOOLEAN : Observe(readable) \/ Verify(readable) \/ RollbackRead(readable)
  \/ Tick
  \/ \E to \in {"ahead", "behind"} : ClockSet(to)
  \/ Flush \/ HelperStops

Init ==
  \E ttl \in TTLs :
    /\ el = IF Legacy = {} THEN Absent ELSE [gen |-> Unnamed, left |-> ttl]
    /\ bans = [a \in BanActions |->
                 IF a \in Legacy
                   THEN [status |-> "applied", saved |-> [NoState EXCEPT !.ttl = ttl, !.wall = ttl]]
                   ELSE [status |-> "new", saved |-> NoState]]
    /\ job = Idle
    /\ clock = "true"
    /\ was = [g \in Generations |-> 0]
    /\ flushed = {}

Spec == Init /\ [][Next]_banVars

-----------------------------------------------------------------------------
(* Properties.                                                             *)

(* Whatever is refreshed, rolled back, interrupted or answered wrongly:    *)
(* as long as a ban that was applied and not rolled back would last, the   *)
(* address is blocked at least that long.  (Unless the wall clock was set  *)
(* ahead: then a restored ban is cut short.)                               *)
BanHeld ==
  \A a \in BanActions :
    bans[a].status = "applied" /\ el.gen # Generation(a) /\ clock # "ahead"
      /\ Generation(a) \notin flushed =>
      el.left >= was[Generation(a)]

(* A ban that was rolled back is off for good, also through the rollback   *)
(* of a later one; and an attempt that failed without leaving rollback     *)
(* state has left nothing in the kernel.                                   *)
NoGhostBan ==
  \A a \in BanActions :
    \/ bans[a].status = "rolled_back"
    \/ bans[a].status = "failed" /\ bans[a].saved = NoState
    => el.gen # Generation(a)

(* The rollback of a ban never touches a newer one, and puts back what it  *)
(* had replaced for the time that one had left: not less (unless the clock *)
(* was set ahead), and not more than its own commands took (and the clock  *)
(* was set back).                                                          *)
RollbackRestores ==
  [][job.pc \in {"restore", "delete"} /\ el' # el /\ job' = Idle =>
       /\ el.gen \in {Generation(job.act), NoBan}
       /\ job.pc = "restore" =>
            /\ clock # "ahead" => el'.left >= was[el'.gen]
            /\ el'.left <= was[el'.gen] + Lag + (IF clock = "behind" THEN Jump ELSE 0)]_banVars

(* The address is blocked for as long as a ban in force says, and by no    *)
(* ban that is over.                                                       *)
BansAreExact == BanHeld /\ NoGhostBan
=============================================================================
