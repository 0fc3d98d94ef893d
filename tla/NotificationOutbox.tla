-------------------------- MODULE NotificationOutbox ---------------------------
(***************************************************************************)
(* The notification outbox of one channel: events become rows in the       *)
(* transaction that raises them, workers claim the due rows under a lease, *)
(* send, and record what came of it.  Webhook and SMTP have rows and       *)
(* workers of their own and differ in nothing modelled here.               *)
(*                                                                         *)
(* A worker reads the settings, sends and records in three steps; it may   *)
(* stop between any two, be shut down, or fail to record.  Two workers     *)
(* stand for a Controller and one that is still stopping.  Which of        *)
(* several rows is the oldest is left open.                                *)
(* Definitions marked "Fault" are plausible mistakes.                      *)
(***************************************************************************)
EXTENDS Integers, FiniteSets

CONSTANTS
  Events,      \* identities of notification events, each raised once
  Reports,     \* those of type report_completed, of one device
  Workers,
  NoEvent,     \* a worker has claimed nothing
  MaxLive,     \* maxPendingNotificationsPerChannel
  MaxDone,     \* maxTerminalNotificationsPerChannel
  MaxAttempts, \* notificationMaxAttempts
  Lease,       \* ticks until another worker may claim the row
  Retry,       \* ticks until a failed attempt is repeated
  MaxVersion,  \* bound: how often the settings are saved
  MaxFaults    \* bound: crashes, shutdowns, stalls, records that fail

VARIABLES
  row,      \* row[e]: status, settings_version, attempts, ticks until due or lapsed, claimant
  settings, \* version (0: never saved), whether the channel is enabled
  job,      \* job[w]: the claimed delivery, stage, outcome, whether it shuts down
  sends,    \* (history) pairs of an event's settings and the settings it was sent under
  faults    \* faults so far

outboxVars == <<row, settings, job, sends, faults>>

Untried(status, version) ==
  [status |-> status, version |-> version, attempts |-> 0, wait |-> 0, by |-> "none"]
Absent(status) == Untried(status, 0)
Settled(r, status, attempts, wait) ==
  [status |-> status, version |-> r.version, attempts |-> attempts, wait |-> wait, by |-> r.by]
NoJob == [event |-> NoEvent, version |-> 0, attempts |-> 0, at |-> "idle", found |-> "", stops |-> FALSE]

Having(statuses) == {e \in Events : row[e].status \in statuses}
Live     == {"pending", "inflight"}
Terminal == {"delivered", "failed", "canceled"}

-----------------------------------------------------------------------------
(* enqueueNotificationTx: old terminal rows go, a full backlog gives up    *)
(* older reports of the device for a newer one, and otherwise only records *)
(* that this delivery was dropped.                                         *)

Backlog == Cardinality(Having(Live))

Excess(S, most) == IF Cardinality(S) > most THEN Cardinality(S) - most ELSE 0
Lesser(m, n) == IF m < n THEN m ELSE n

Raise(e) ==
  /\ row[e].status = "new"
  /\ IF settings.version = 0 \/ ~settings.on
     THEN row' = [row EXCEPT ![e] = Absent("gone")]
     ELSE \E old \in SUBSET Having(Terminal), given \in SUBSET (Having({"pending"}) \cap Reports) :
            /\ Cardinality(old) = Excess(Having(Terminal), MaxDone)
            /\ Cardinality(given) =
                 IF e \in Reports /\ Backlog >= MaxLive
                   THEN Lesser(Backlog - MaxLive + 1, Cardinality(Having({"pending"}) \cap Reports))
                   ELSE 0
            /\ LET full == Backlog - Cardinality(given) >= MaxLive
               IN row' = [x \in Events |->
                    IF x = e THEN Untried(IF full THEN "failed" ELSE "pending", settings.version)
                    ELSE IF x \in old \cup given THEN Absent("gone")
                    ELSE row[x]]
  /\ UNCHANGED <<settings, job, sends, faults>>

-----------------------------------------------------------------------------
(* A worker.                                                               *)

\* Fault: a lapsed lease is not noticed.
ClaimablePending(e) == row[e].status = "pending" /\ row[e].wait = 0
Claimable(e) == row[e].status \in Live /\ row[e].wait = 0

ClaimNotificationDelivery(w, e) ==
  /\ job[w] = NoJob /\ Claimable(e)
  /\ row' = [row EXCEPT ![e] = [status |-> "inflight", version |-> row[e].version,
                                attempts |-> row[e].attempts + 1, wait |-> Lease, by |-> w]]
  /\ job' = [job EXCEPT ![w] = [NoJob EXCEPT !.event = e, !.at = "claimed",
                                  !.version = row[e].version, !.attempts = row[e].attempts + 1]]
  /\ UNCHANGED <<settings, sends, faults>>

(* notificationSender: an event of other settings is not sent.             *)
\* Fault: only a disabled channel is refused.
RefusesDisabled(w) == ~settings.on
Refuses(w) == settings.version # job[w].version

ReadSettings(w) ==
  /\ job[w].at = "claimed"
  /\ job' = [job EXCEPT ![w].at = IF Refuses(w) THEN "record" ELSE "send",
                        ![w].found = IF Refuses(w) THEN "disabled" ELSE ""]
  /\ sends' = IF Refuses(w) THEN sends ELSE sends \cup {<<job[w].version, settings.version>>}
  /\ UNCHANGED <<row, settings, faults>>

Send(w, found) ==
  /\ job[w].at = "send"
  /\ job' = [job EXCEPT ![w].at = "record", ![w].found = found]
  /\ UNCHANGED <<row, settings, sends, faults>>

(* The row is still this claim's.                                          *)
Holds(w) == row[job[w].event].status = "inflight" /\ row[job[w].event].attempts = job[w].attempts

Settles(e, status, attempts, wait) ==
  row' = [row EXCEPT ![e] = Settled(row[e], status, attempts, wait)]

(* Release when shutting down, cancel, or complete; ErrConflict is final.  *)
Record(w) ==
  LET e == job[w].event
      n == row[e].attempts
  IN /\ job[w].at = "record"
     /\ IF ~Holds(w) THEN UNCHANGED row
        ELSE IF job[w].stops THEN Settles(e, "pending", n - 1, 0)
        ELSE IF job[w].found = "disabled" THEN Settles(e, "canceled", n, 0)
        ELSE IF job[w].found = "ok" THEN Settles(e, "delivered", n, 0)
        ELSE IF job[w].found = "permanent" \/ job[w].attempts >= MaxAttempts
          THEN Settles(e, "failed", n, 0)
        ELSE Settles(e, "pending", n, Retry)
     /\ job' = [job EXCEPT ![w] = NoJob]
     /\ UNCHANGED <<settings, sends, faults>>

-----------------------------------------------------------------------------
(* Faults, settings, time.                                                 *)

Fails == faults < MaxFaults /\ faults' = faults + 1

(* A crash, or a record the database refused.                              *)
Lost(w) ==
  /\ Fails /\ job[w].at # "idle"
  /\ job' = [job EXCEPT ![w] = NoJob]
  /\ UNCHANGED <<row, settings, sends>>

(* A shutdown ends the attempt, whatever it was doing.                     *)
Shutdown(w) ==
  /\ Fails /\ job[w].at \in {"claimed", "send", "record"}
  /\ job' = [job EXCEPT ![w].stops = TRUE, ![w].at = "record"]
  /\ UNCHANGED <<row, settings, sends>>

(* PutNotificationSettings gives the pending rows up.                      *)
PutNotificationSettings(on) ==
  /\ settings.version < MaxVersion
  /\ settings' = [version |-> settings.version + 1, on |-> on]
  /\ row' = [e \in Events |-> IF row[e].status = "pending"
                              THEN Settled(row[e], "canceled", 0, 0) ELSE row[e]]
  /\ UNCHANGED <<job, sends, faults>>

PruneNotificationOutbox(S) ==
  /\ S # {} /\ row' = [e \in Events |-> IF e \in S THEN Absent("gone") ELSE row[e]]
  /\ UNCHANGED <<settings, job, sends, faults>>

(* An attempt ends, by its timeouts, before its lease does; a worker that  *)
(* stalls for longer is a fault.                                           *)
Outlived(w) == job[w] # NoJob /\ Holds(w) /\ row[job[w].event].wait = 1
Tick ==
  /\ \E e \in Events : row[e].wait > 0
  /\ IF \E w \in Workers : Outlived(w) THEN Fails ELSE UNCHANGED faults
  /\ row' = [e \in Events |-> IF row[e].wait > 0 THEN [row[e] EXCEPT !.wait = @ - 1] ELSE row[e]]
  /\ UNCHANGED <<settings, job, sends>>

-----------------------------------------------------------------------------

Init ==
  /\ row = [e \in Events |-> Absent("new")]
  /\ settings = [version |-> 0, on |-> FALSE]
  /\ job = [w \in Workers |-> NoJob]
  /\ sends = {} /\ faults = 0

Worker(w) ==
  \/ \E e \in Events : ClaimNotificationDelivery(w, e)
  \/ ReadSettings(w) \/ Record(w)
  \/ \E found \in {"ok", "retryable", "permanent"} : Send(w, found)

Next ==
  \/ \E e \in Events : Raise(e)
  \/ \E w \in Workers : Worker(w) \/ Lost(w) \/ Shutdown(w)
  \/ \E on \in BOOLEAN : PutNotificationSettings(on)
  \/ \E S \in SUBSET Having(Terminal) : PruneNotificationOutbox(S)
  \/ Tick

Spec == Init /\ [][Next]_outboxVars

(* Workers run until they are stopped, and time passes.                    *)
Fairness == WF_outboxVars(Tick) /\ \A w \in Workers : WF_outboxVars(Worker(w))
FairSpec == Spec /\ Fairness

-----------------------------------------------------------------------------
(* Properties.                                                             *)

(* A failed channel cannot fill the database: no order of claims, failed   *)
(* attempts, lapsed leases and releases makes more rows live than allowed. *)
BacklogBounded == Cardinality(Having(Live)) <= MaxLive

(* What an administrator's new settings reach was raised under them: a     *)
(* channel disabled and enabled again replays nothing.                     *)
OwnSettings == \A s \in sends : s[1] = s[2]

(* "A worker whose lease has expired cannot overwrite a newer worker's     *)
(* result": a row in flight is settled by its newest claim alone.          *)
NewestClaimSettles ==
  [][\A e \in Events :
       row[e].status = "inflight" /\ row'[e].status # "inflight" =>
         \E w \in Workers : row[e].by = w /\ job[w].event = e /\ job'[w] = NoJob]_outboxVars

(* Every row that waits for its delivery is delivered, failed or given up  *)
(* in the end.                                                             *)
RowsSettle == \A e \in Events : row[e].status \in Live ~> row[e].status \notin Live

(* The backlog is bounded and a channel gets what was raised for it.       *)
OutboxSafe == BacklogBounded /\ OwnSettings

(* A delivery is settled in the end, by the worker that holds it.          *)
DeliveriesSettle == NewestClaimSettles /\ RowsSettle
=============================================================================
