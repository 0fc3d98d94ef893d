# WitShield: a TLA+ model

WitShield watches Linux servers and repairs them. A **Controller** (Go, one
SQLite database) stores devices, findings, policies and remediation *actions*;
an unprivileged **Agent** on every device polls it for *commands*; a root
**Helper** behind a Unix socket executes a fixed set of typed playbooks. This
directory models the part of that system in which something happens to a host:
how an action is approved or triggered, delivered, authorised, executed,
answered, rolled back, lost and given up; what the three playbooks with state of
their own do on the host; and the services around them that keep trying or keep
books: enrolment, sensors, event windows, incidents, notifications, schedules and
the projection of findings.

All paths below are relative to `src/`.

## Inventory

| Component | State it keeps | Operations | Talks to |
|---|---|---|---|
| Action and command store (`internal/store/settings_actions_defense.go`, `action_results.go`, `reports_commands.go`) | `actions`, `device_commands`, `action_audit` | create, approve, rollback, confirm, claim, start (the gate), complete, expire | every HTTP handler; policy and ban rows in the same transactions |
| Result validation (`action_results.go`) | none | receipt, digest, state and deadline rules | called by the completion transaction |
| Temporary bans, Controller side | `temporary_bans` | insert, dedupe, project, expire the horizon | action store, event processing |
| Defence policy, grants, stop (`defense.go`, `security_engineer.go`) | `defense_policies`, `policy_grants` | save, emergency stop | gate, event processing |
| Security events (`security_events.go`, `internal/defense`) | `security_events`, event windows, cached count | ingest, correlate, decide, simulate, queue an automatic action | policies, bans, incidents |
| Devices, enrolment, sessions (`auth_devices.go`, `httpapi/admin_devices.go`, `internal/identity`) | devices, tokens, challenges, nonces | enrol, authenticate, revoke | all Agent requests |
| Maintenance (`maintenance.go`, `controllercmd/run.go`) | none | `Maintain` every minute, `Compact` every 6 h | all of the above |
| Agent runner, queue, client (`internal/agent`) | enrolment state, durable FIFO of outgoing requests | enrol, sync, handle a command, flush | Controller, Helper |
| Agent sensors (`internal/agent/*watch.go`) | log offsets, baselines | poll, enqueue, commit | queue |
| Helper and receipt cache (`cmd/witshield-helper`) | receipt files | authenticate, begin, run, save, replay | engine |
| Action engine and playbooks (`internal/action`) | sealed rollback state, SSH and process journals, nftables elements | precheck, preview, apply, verify, rollback, confirm | host |
| Incidents, investigations, response plans (`store/security_engineer.go`, `httpapi/investigator.go`, `security_engineer_worker.go`) | incidents, investigations, plans, timeline | correlate, investigate, plan, act | action store, AI |
| Notifications (`store/notification_outbox.go`, `httpapi/notification_worker.go`) | outbox | enqueue, claim, deliver, retry | SMTP, webhooks |
| Schedules (`internal/scheduler`) | `schedules` | run due schedules | command store |
| Reports and findings (`reports_commands.go`) | reports, findings, current projection | ingest, project, cap | incidents, notifications |
| AI clients, scanner, check CLI, web console, packaging | – | external protocols, read-only I/O, presentation | – |

What is hard to test here: two tables linked by an id inside a JSON payload and
written by eleven handlers; an emergency stop that races the gate; results that
arrive late, twice, in another form or never; two clocks and several deadlines;
rollback timers that race confirmations across restarts; leases that lapse while
their holder is still at work; a crash anywhere between Controller, Agent, Helper
and host. `PROJECT.json` lists each hazard at its line with the properties aimed
at it.

### What makes each part correct

- **Action and command store.** Two tables must stay in step: an action in
  flight has exactly one open command, the one that can end it, and that command
  finds the action in the status it completes from. An action is executed by one
  command in its whole life; what claims to have changed the host keeps what
  undoes it; an execution nobody answered stays unknown; a rollback counts
  against the device's limit; everything ends even if the device never calls.
- **Result validation.** Success is recorded only from a receipt that proves it;
  the two pieces of code that recognise a success agree; waiting in a queue never
  turns a refusal into a success.
- **Bans, policy, stop.** One source is under one live ban; the ban row follows
  its action; a stop withdraws what has not crossed the gate; the limits of an
  hour hold over every hour.
- **Helper.** An attempt changes the host at most once, over crashes, lost
  answers, a bounded cache and concurrent requests; an answer that will be read
  as success or as failure agrees with the host.
- **Playbooks.** An address is blocked as long as a ban in force says and by no
  ban that is over; an unconfirmed SSH hardening that sshd runs is undone in the
  end, and whoever it locked out gets back in, unless its timer met a change that
  an administrator made to the file; a process that was stopped is resumed.
- **Agent.** A queued result is not dropped before the Controller has it; a
  withdrawn command does not reach the Helper; a sensor's checkpoint moves past
  nothing that is not queued; the host's credential is the one the Controller
  knows.
- **Everything together.** What the Controller shows as done was done, what it
  shows as rolled back was restored, and the host is changed once per action.
- **Incidents.** An incident under investigation has somebody to release it; a
  plan rests on a conclusion; one step has one action at work.
- **Notifications, schedules, findings.** Bounded, settled by the newest claim,
  sent under the settings they were raised under; an edit is not overwritten by
  a pass that read the row before; what is shown is the newest word.

## Modules

A definition preceded by a comment that begins with "Fault" is not part of any
specification. It is a plausible mistake in the code modelled by the definition
after it; replacing the one by the other must break the property that
`PROJECT.json` pairs with it under "mutants".

| Module | Models | State |
|---|---|---|
| `ReceiptValidation` | `CompleteCommandAndActionWithOutcome`'s rules on a submission, as the operator `Outcome` | – |
| `ReceiptCheck` | one submission and the time it waits before it is judged | the submission |
| `ActionStatus` | what the rest of the Controller may rely on: the arrows between the statuses of an action (abstract) | `st` |
| `ActionLifecycle` | actions, commands, bans, policy, grant, revocation of one device | `act`, `cmd`, `ban`, `policy`, `grant`, `revoked` |
| `HelperReplies` | what the Helper can answer (the engine's receipts in the Helper's envelope) | – |
| `Executor` | the Helper's promise (abstract) | `listener`, `orphans`, `host`, `answer` |
| `HelperReceipts` | handlers, `actionMu`, receipt cache, engine, crash and restart | `up`, `file`, `finals`, `since`, `waiting`, `work`, `host`, `answer` |
| `ActionDelivery` | the store, the Agent and `Executor` composed | those of `ActionLifecycle` and `Executor`, and `digest`, `inbox`, `calling`, `fifo` |
| `BanGenerations` | the temporary ban playbook and one nftables element | `el`, `bans`, `job`, `clock`, `was`, `flushed` |
| `SSHJournal` | the SSH hardening playbook: `sshd_config`, sshd, journal, timer | `file`, `journal`, `disk`, `timer`, `acts`, `eng`, `exp`, `owner`, `loaded`, `yielded`, `clock` |
| `ProcessSuspendJournal` | the process suspension playbook: one PID, journals, timers | `pid`, `started`, `journal`, `disk`, `timer`, `acts`, `eng`, `exp`, `held` |
| `NotificationOutbox` | the outbox of one channel and its workers | `row`, `settings`, `job`, `sends`, `faults` |
| `FindingProjection` | reports and the projection of current findings | `made`, `stored`, `snaps`, `projected`, `current`, `omitted`, `applied` |
| `ScanScheduler` | schedules, scan commands, the scheduler's pass | `now`, `sched`, `due`, `mark`, `cmds`, `lease`, `agent`, `results`, `recorded`, `edits` |
| `Enrollment` | the Agent's start, the signed handshake, tokens, identities, modes | `proc`, `disk`, `observer`, `token`, `challenge`, `device` |
| `SensorBaseline` | the file, listener and process sensors | `kind`, `host`, `saved`, `pending`, `poll`, `known`, `news`, `refused` |
| `SensorTail` | the authentication log and runtime sensors | `source`, `log`, `written`, `saved`, `poll`, `known` |
| `DefenseWindow` | sliding windows of failures, the decision, limits | `now`, `policy`, `rows`, `cached`, `heard`, `bans`, `lost`, `last` |
| `IncidentResponse` | incidents, investigations, plans, the resident worker, over `ActionStatus` | `inc`, `known`, `inv`, `plan`, `of`, `ran`, `mode`, `worker`, `st` |
| `Parts`, `MCEventually` | the modules from `BanGenerations` to `DefenseWindow` side by side | `part` and theirs |
| `MC…` | instances for TLC | – |
| `ActionLifecycleProofs`, `ActionSafetyProofs`, `HelperReceiptsProofs`, `ActionDeliveryProofs`, `IncidentResponseProofs`, `BanProofs`, `PartsProofs`, `ReceiptProofs` | proofs | – |

Variables marked *history* in the modules are not in the code; they remember
what a property compares with.

### ReceiptValidation

A `Submission` is the record of what the rules read: whether it claims success,
the class of its error text, whether its receipt belongs to the action, what
the receipt says, the shape of its steps, the SSH confirmation flag, the class of
its deadline against the Controller's clock, and whether the rollback state is
well formed and bound by the receipt's digest. `Outcome` is the verdict in the
order in which the code reaches it: accepted success, success recovered from a
failed cache write, an unknown reported by the Agent, an unknown proved by a
receipt, failure. `id` stands for all other bytes; it matters only to the digest.

### ActionLifecycle

One action of the specification is one SQLite transaction. Times are counters of
ticks left (`left`, `lease`), set from a constant when the code writes
`now + d`, so that "expired" is `left = 0`. `cmd[c].phase` combines
`started_at`, `completed_at` and the three kinds of `error` that later code
tells apart. Creation, approval and events first sweep the drafts as
`expireDraftActionsTx` does; `ClaimCommands` first runs the sweep of
`expireStaleActionCommands`; the gate first looks at the command's age.

Choices a reader should know:

- A revoked device cannot authenticate, so Agent actions are guarded by
  `~revoked`; an administrator may still create and approve for it, as in the
  code. A request authenticated just before the revocation commits is left out.
- The gate and the completion handler do not require that the Agent claimed the
  command before: the model allows a little more than an honest Agent does.
- `EnqueueCommand` keeps at most one open scan, so `ClaimCommands`' superseding
  of scans never finds a second one; the phase is still modelled because the
  completion handler reads it. (`ScanScheduler` starts from two, as an older
  version may have left them.)
- Budgets, cooldowns, thresholds, allowlists and modes are the environment's
  choice to let an event through or not (`DefenseWindow` models them); `armed`
  and `stop` are explicit.
- Left out: the read-only observer branch of each handler (`Enrollment` has the
  mode), limits on batch sizes, deletion by age, rows of old versions without a
  digest, audit rows, notifications and response plans written in the same
  transactions (`IncidentResponse` has the plans), and the branch for a command
  dated more than five minutes ahead (clocks are monotone).

`ActionStatus` is its abstraction: the statuses and the arrows between them,
grouped by who sets them off. `ActionLifecycle` implements it with `st[a]` as
`act[a].status`; the refinement is checked in the run `admin` and proved.

### HelperReplies, Executor, HelperReceipts

`HelperReceipts` follows a request through `handle`: `Ask` (the request is read
and waits for `actionMu`), `Replay` (the cache has a file: its response is
returned), `Begin` or `BeginFails` (eviction, then the intent), the calls of
`Engine.Run` (`Check`, `Apply`, `Verify`, `Undo`, `Operate`), and `Save` with the
three ways it can end. `Crash` may happen between any two; `CrashInBegin` is the
crash inside the one file write that is not atomic. Handlers go on when their
connection is gone (`heard` becomes FALSE), because the engine's context belongs
to the server and not to the connection.

`host[a]` is the net effect of attempt `a`: how often a call that may change the
host began, and whether it is known to be "none" or "done" or still "unsure".
`Verify`'s success establishes "done"; a successful automatic rollback, or an
`Apply` that returned an error and no state (the contract stated in
`engine.go:155-157`), establishes "none".

`Recent` is an assumption on the environment: an attempt is offered only while
its command is open (at most two hours, at most 200 per device), and the cache
holds 10,000 receipts, so fewer attempts begin meanwhile than the cache holds.
With `MaxItems = 2` the assumption is tight: the cache evicts as early as it may.
Not modelled: `maxBytes`, read errors of intact files, a confirmation deadline
that passes while the response travels (it is judged in `ReceiptCheck`).

`Executor` says the same without cache, lock, engine and crashes: an attempt
starts at most once; a reply is truthful about the host in the reading of
`Outcome`; a request may be served after the one who made it is gone
(`orphans`). `KeepsPromise` is the refinement, with `listener` mapped to the
handler whose connection is still open and `orphans` to the handlers without one
that have not begun.

### ActionDelivery

The Agent's command loop is serial: `Sync` fills `inbox`, then every command is
handled (`HandleScan`, `GateClosed`, `GatePassed`, `CallHelper`, and one of
`HearReply`, `HelperUnavailable`, `HelperSilent`). `Flush` runs beside it, posts
the oldest result and removes it when the Controller acknowledges. Every exchange
can lose its request or its answer: a sync that leased and was not heard, a gate
that authorised and was not heard, a result that was stored and not
acknowledged. `AgentRestart` forgets everything but the queue. The Agent's own
age check of a command uses another clock, so `GateClosed` may end a handling at
any time. `digest` is the completion digest, which decides between an
acknowledged repetition and a conflict. Reports and security events, which share
the queue, are not in this module (`FindingProjection` and the sensor modules
have them).

### BanGenerations, SSHJournal, ProcessSuspendJournal

The playbooks take their steps at the calls that leave the process: an nft
command, a write of the file or the journal, a reload, a signal. Every such call
may fail before or after its effect, and the Helper or the host may stop between
any two. The engine around them runs one operation at a time; timers run beside
it, under the playbook's mutex (`Unlocked`), which `Verify` does not take.

- `BanGenerations` follows one address. `Apply` reads the element, replaces it in
  one nft transaction and reads it back; what the predecessor had left is
  worked out from the age of the new element (`Exact`); `Rollback` undoes
  only its own generation, and restores the predecessor for `Restorable`, the
  smaller of what the kernel's and the wall clock leave it. `Lag` bounds the ticks
  a sequence of commands may take. `was[g]` counts what generation `g` would have
  left had it not been replaced.
- `SSHJournal` has the file (content apart from the managed lines, whether these
  are there, and mode, owner and group as one value), whose managed lines sshd
  runs, the journal in the directory and the one that survives a crash of the
  host, the timer, the engine's and the timer's operation. At any step the
  administrator may change content, mode or owner (`Edit`), with the managed lines
  kept or removed, and may reload sshd, at once, later or never (`AdminReloads`).
  `Foreign` is the conflict of `restoreSnapshotIfApplied`, which looks at content,
  mode and owner; `Verify` looks at the content (`AsApplied`). A timer that meets
  a conflict gives up until the next start (`yielded`), even if sshd still runs
  the hardening, as it does when nobody reloaded it.
- `ProcessSuspendJournal` has one process identifier that processes take one after
  the other, and the executable that may be unlinked under a running process.

### NotificationOutbox, ScanScheduler, FindingProjection

The Controller's services that work in several transactions. A worker of the
outbox claims, reads the settings, sends and records; it may stop, be shut down
or fail to record between any two (`MaxFaults` bounds how often). The scheduler
reads what is due, enqueues and marks in three steps, with edits in between. The
Agent scans what it claimed and puts the result in its FIFO (`ScanEnds`), whose
head is sent until it is taken (`Flush`, `Accepts`): the first result of a scan,
the same one again, a late one of a superseded scan and one whose row maintenance
has deleted are; a second, different result is 409 and stays the head. A
report may arrive late, out of order and repeatedly; `SaveReport` is the whole
transaction, with the capacities of `enforceCurrentFindingCapacityTx`, in which
ties are left open.

### Enrollment

Agent processes on one host (two installers may run at once), the files they
persist, the two requests and the two transactions of the handshake. `Prove` is
`FinalizeEnrollment` in one transaction: the challenge, the identity's link, the
token's use and the stored credential. Expiry has no clock: what is valid may
lapse at any moment. The mode of a device (`observer`) changes only without
unfinished commands; a device row carries the stage of one action, because a draft
made before the change can still be approved after it and is stopped only at the
gate.

### SensorBaseline, SensorTail

The runner drives every sensor as poll, one durable queue entry, commit; the
Agent may die between, the queue may refuse. A baseline sensor's `pending`
snapshot stays in memory when a poll ends early: a later commit writes it, which
is the reason for `refused` in `ChangesAreTold`. A log is a sequence of pieces of
one length, with oversized lines; checkpoints carry inode, generation and offset.
The queue delivers every entry at last and the Controller ignores an event it
knows, so `known` stands for both.

### DefenseWindow

`Fail` is one failure as `ProcessSecurityEvent` handles it: the window's samples
(`incrementSecurityEventWindowTx` with its cached count and eviction), then the
decision (`Evaluate`, cooldown, hourly limits, simulation). What becomes of a ban
is `ActionLifecycle`'s matter; here it is pending until it is over.

### IncidentResponse

Every step is one transaction, except that an investigation is several: it is
claimed, its context is read, the model is called for up to 90 seconds, and its
conclusion is stored. The actions that a plan prepares are those of
`ActionStatus`, so that everything `ActionLifecycle` can do to an action can
happen to them, and nothing else. `Upsert`, `CompleteInvestigation` and
`SyncResponsePlan` are whole transactions, with the partial unique index over
active incidents (`Fits`) that can refuse them. `IncidentResponseProofs` holds the
proofs about it.

### Parts and MCEventually

Eight, respectively six, of these modules share no state. They are instantiated
side by side; `part` chooses one, and a behaviour is a behaviour of that one while
the others stay at their initial states (`Parts` has the constants and variables of
all of them, and the proofs are about it). So one run checks all of them, each at
the bounds of its configuration, and its states are the sum of theirs, not the
product. In `MCEventually` the fairness conditions of the parts are taken
together: only one part is present, so the conjunction over the parts of
WF(their nth step) is WF of "the nth step of whichever part it is".

## Runs

| Run | Instance | Distinct states | Question |
|---|---|---|---|
| `receipt` | every submission, command type and kind | 414,720 | are the rules consistent with each other? |
| `admin` | 2 actions, 4 commands, limit 1 | 273,540 | administrator's actions, through every end |
| `ban` | 2 actions, 3 commands, 1 source | 261,640 | automatic bans against stop, gate, lateness |
| `live` | 1 action, 3 commands, all kinds, fair clock and maintenance | 379,172 | does everything end? |
| `helper` | 3 attempts, 2 receipts | 81,296 | does the Helper keep its promise? |
| `delivery` | 1 action, 2 commands, queue of 1 | 1,272,560 | is what the Controller shows true? |
| `incident_cases` | 2 incidents, 2 signals, 2 investigations, limit 1 | 663,435 | incidents against overflow, leases, late answers, edits |
| `incident_plan` | 1 plan of 2 steps, 3 actions | 242,454 | plans against everything an action can do |
| `incident_live` | 1 incident, 2 investigations, fair worker | 176,451 | is an incident ever stuck or overlooked? |
| `parts` | eight modules side by side | 2,573,203 | are the playbooks and services safe? |
| `eventually` | six modules side by side, one of them twice, fair | 50,057 | does what keeps trying succeed? |
| `window_doc` | 3 sources, 2 windows | ends in a violation | is the capacity alarm true? |

What the properties say:

- `receipt`: `ReceiptSafety` (a success has a proof, a proof excludes a doubt, a
  failed cache write changes no verdict, the state is bound by the receipt),
  `DelayNeverProves`.
- `admin`: `InFlightBacked` (the two tables agree);
  `ExecutionsAreSound` (one execution per action, a lost one stays unknown);
  `RollbacksAreSound` (state kept, capacity kept); `ImplementsStatus`.
- `ban`: `BansFollowActions`, `StopWithdrawsBans`, `HorizonOnlyExtendedByStart`.
- `live`: `NothingIsStuck` (every action ends, every source is released).
- `helper`: `ReplayIsSafe` (an attempt runs once, what touched the host is
  recorded, the cache keeps its limit), `AnswersAreTruthful`, `KeepsPromise`.
- `delivery`: `SuccessIsReal`, `HostIsSafe` (a withdrawn command never runs, the
  host is changed once), `NoQueuedResultLost`.
- `incident_…`: `InvestigatingHasLease`, `OpenedWithinLimit`, `ClosedReopens`,
  `PlansAreTrue`, `OneActionAtWork`, `IncidentsMove`.
- `parts`: `BansAreExact`, `RollbackRestores` (bans); `UndoArmed`, `UndoIsExact`
  (SSH); `ResumeArmed` (suspension); `OutboxSafe`; `ProjectionIsLastWord`;
  `EnrolmentIsSound`; `ChangesAreTold` (baselines); `CountIsOfTheWindow`,
  `LimitsAreKept` (windows).
- `eventually`: `LockoutEnds`, `ReleasedUnlessUnlinked`, `DeliveriesSettle`,
  `SchedulesAreKept` (an edit outlives the pass that read the row before),
  `ScansRun` (a requested scan is carried out or superseded, unless a refused
  second result is the head of the Agent's FIFO for ever), `EnrolmentIsNotLost`,
  `LinesAreReportedOnce`.

Why these bounds. Two actions are needed for the capacity, for one source under
two bans and for a command applied to the wrong action; a third and fourth
command give an action its execution, a confirmation or a rollback, and a second
rollback after a failed one. One tick per deadline already lets every deadline
fall on either side of every event, since `Tick` interleaves freely; a ban lives
two ticks so that it can outlive its command, and in `delivery` the execution
timeout is two ticks and the lease one, so that a started command is redelivered
before it is given up. Three attempts against two receipts force an eviction
while another attempt is unresolved. Two investigations let a late answer meet
the lease of another; three actions for two steps let one step be prepared again;
a limit of one incident makes the second one overflow. `live` and `incident_live`
need one actor of each kind, because what they promise is promised to each row
separately.

In `parts` a legacy ban and two bans with generations make a chain of refreshes
and an element without a comment; two hardenings make the second find the first's
journal; two suspensions of one process make two resume journals for it; two
notifications with a limit of one make the capacity bite; three reports with two
kept make one arrive after it was dropped; two processes of the Agent share one
host's files with two identities and one token use; two items with a capacity and
a batch of one make every capacity branch happen; two sources with room for one
make every eviction. An edit that keeps mode and owner and one that changes only
these are the same conflict to the code; `parts` has one content, with or without
the managed lines, under two modes, `eventually` two contents under one mode. In
`eventually` a reuse of the PID needs two processes, and an oversized line
followed by a suspicious one needs two lines. Schedules are edited while the
device does not call (three commands, three ticks), and scans run and are answered
on a device without schedules (three commands, a FIFO of two), since a scan that a
schedule enqueued is a scan like any other.

`helper`, `incident_…`, `parts` have deadlocks disabled. With a torn file the
Helper really stops for good, and that is a finding; in the others the rows,
reports, keys or events of the instance run out. Rows are interchangeable in the
safety runs, so those use symmetry; the liveness runs do not.

`window_doc` ends in a violation on purpose. `Maintain` deletes expired windows
(`maintenance.go:46`) and leaves the cached count, which every other writer
adjusts; the alarm "SSH source-correlation capacity was reached"
(`security_events.go:525`) is then raised by a table that has room.

## Divergences reproducible by hand

Each of these states what a document, a comment or a test says, and TLC shows
what the code does (`tlc -config <cfg> <module>`; `PROJECT.json` quotes the lines
under "findings"):

- `MCActionLifecycle_rollback_doc`: a rollback whose expiry the gate notices, or
  whose device is revoked, is *cancelled*, which no diagram shows and which cannot
  be repeated, while the same expiry noticed by the sweep is a failure that can.
- `MCActionLifecycle_stop_doc`: a `workload.runtime` grant stored after the
  emergency stop carries its own flag, and an automatic suspension crosses the
  gate of a stopped device.
- `MCHelperReceipts_restart_doc`: the intent is written in place; a stop inside
  the write leaves a file that every later start refuses.
- `MCActionDelivery_failed_doc`: an unreachable Helper is signed as an ordinary
  failure, although the command, authorised before, can be or has been executed;
  the action reads "failed" and the host is changed.
- `MCActionDelivery_queue_doc`: two different results of one command can be
  queued; the second is refused with 409 and blocks the queue.
- `MCIncidentResponse_step_doc`: a step whose action was rolled back and the
  rollback withdrawn reads *cancelled*, and can be prepared and executed again.
- `MCIncidentResponse_plan_doc`: an action that ends without a result leaves its
  plan executing and its incident responding.
- `MCIncidentResponse_result_doc`: a result whose plan would reopen a closed
  incident beside a newer one of the same key is refused for ever.
- `MCIncidentResponse_read_doc`: evidence that arrives while the model is called
  is closed into *monitoring* unread.
- `MCIncidentResponse_stop_doc`: a grant disabled between the worker's check and
  its claim does not stop the claim.
- `MCIncidentResponse_retry_doc`: a failed investigation is not tried again
  without new evidence.
- `ProcessSuspendJournal_unlinked_doc`: a process whose executable was unlinked
  (an upgrade) is taken for another and never resumed.
- the same configuration with `ExactTarget` for `Released`: between the inspection and SIGSTOP the
  identifier can pass to another process, which is then stopped.
- `SensorBaseline_commit_doc`: a change whose event the queue refused is
  committed by the next poll that finds nothing.

Seen while reading, without a run: an `Apply` of the SSH playbook that is still
running overwrites an edit made since its snapshot; a change of nothing but the
mode or owner of `sshd_config` ends the automatic restoration of an unconfirmed
hardening until the Helper's next start (`ssh_hardening.go:412`, `699`), where
`docs/operations.md:154` says that an unconfirmed change triggers it; `Confirm` reports an error
when only the sync of the directory failed, though the journal is gone;
`putDefensePolicy` racing a re-enrolment as observer leaves `auto_ban` set; a
pending identity linked to one token cannot enrol with another; two first starts
in parallel overwrite each other's pending identity; the runtime sensor is stuck
for ever at a line above 256 KiB (`runtimewatch.go:97`), the journal sensor
likewise (`journalwatch.go:37`); a truncated log that has grown past the offset
loses the lines below it; `Compact` fails when a plan still links an action it
would delete (`store.go:288`, `maintenance.go:79`); saving any policy without the
stop clears a stop of `workload.runtime`; an action cancelled from
*awaiting_confirmation* keeps its state but cannot be rolled back; the capacity
check of a confirmation counts the action itself; a comment says 35 seconds where
the call is bounded by 90; the outbox's attempts may exceed their maximum through
lapsed leases; `EnqueueCommand` supersedes a scan the Agent is executing; a
security event delivered again after its row was pruned counts twice.

## Fairness

- `live`: weak fairness of `Tick` (time passes) and of the four parts of
  `Maintain`, which `controllercmd/run.go:274` runs every minute in one goroutine
  whatever anyone else does. Nothing is assumed of the administrator, the Agent,
  the Helper or the attacker: actions end because they are given up.
- `incident_live`: the resident worker's cycle every five seconds. Leases end and
  a call ends by its timeout (weak); the recovery at the start of a cycle, the
  choice of an incident and its claim happen if they are possible again and again
  (strong), because neither restarts nor errors always fall in the same gap.
- `eventually`, the playbooks: time passes, the engine's operations end, a due
  timer runs (weak); a timer's inspection, reload or signal does not fail for ever
  (strong): it is armed again a minute after every failure, and at every start.
- `eventually`, outbox: time passes and the workers go on, faults being bounded
  by `MaxFaults`. Scans: the Agent polls, scans and sends, no answer is lost and
  no scan interrupted for ever; nothing says that the Controller accepts what is
  at the head, or that maintenance ever deletes the row that refuses it.
  Enrolment: a service manager starts the Agent again whenever it has ended, and
  no step fails for ever at the same place; challenges expire. Sensors: a poll
  every five seconds, of which not every one dies or is refused.

## What is proved

For every set of actions, commands and sources, every set of kinds and
submissions within the declared types, every positive time limit and capacity
(`NamesAssumption`, `KindsAssumption`, `ResultsAssumption`, `TimesAssumption`,
`CapacityAssumption`), with the TLA+ proof system:

- `TypeCorrect` (`ActionLifecycleProofs`): `Spec => []TypeOK`, one lemma per
  group of handlers.
- `InFlightAlwaysBacked` (`ActionLifecycleProofs`): `Spec => []InFlightBacked`.
  `InFlightBacked` is not inductive as it stands: it says nothing about whose
  action a completed or a scan command names. The invariant proved is
  `InFlightInv`: `TypeOK`, every command is *addressed* (a scan to `NoAction`,
  any other to an action), and every action is *backed* (its status agrees with
  its open commands, of which there is at most one). Every handler does one of
  four things to an action: it queues a command for it (`QueueStep`), ends the
  command and moves the action (`EndStep`, `EndOneStep`), or leaves both alone
  (`QuietStep`, `StaysBacked`); each handler's lemma picks the case.
- `ReceiptsJudgedSafely` (`ReceiptProofs`): the four state properties of result
  validation, from `CacheFailure` (a lost cache write changes no verdict) and the
  exclusiveness of proof and doubt.
- `DelayIsHarmless` (`ReceiptProofs`): `Spec => DelayNeverProves`.

The proofs are about `AnyNext`, the same next-state relation with any well-formed
submission in place of those of the instance (`NextIsAny`), because in
`ActionDelivery` a submission is whatever the Helper answered.

The other properties of `ActionLifecycle` are theorems of `ActionSafetyProofs`:

- `ExecutionsSound` (`ExecutionsAreSound`), `RollbacksSound`
  (`RollbacksAreSound`), `BansTruthful` (`BansFollowActions`), `StopHolds`
  (`StopWithdrawsBans`), from one inductive invariant, `SafetyInv`. Eleven things
  can happen to one action and its ban in one transaction (`RowStep`: nothing,
  drafted, ordered by a policy, requested, begun, executed, undone, confirmed, not
  done, lost, given up) and a few to a command (`CmdStep`); each handler's lemma
  shows that it does one of them to every row (`EveryStep`), and everything
  else is proved of these steps and no longer of the handlers. The strengthening:
  the stored state and the ban row of an action follow its status in every
  status, not only in those the properties name (`RowInv`); an execution
  command's action was approved, and is unknown if its answer never came
  (`ExecutionsAreApproved`, with `NoWayBack`: no step leads back to a draft, and
  none leads out of an unknown without state); the unfinished actions are finite
  in number (`RoomInv`; every creation counts them).
- `HorizonKept` (`HorizonOnlyExtendedByStart`), the action property, from the
  same steps.
- `StatusImplemented` (`ImplementsStatus`): every step of `ActionLifecycle` is a
  step of `ActionStatus` or a stutter. What `IncidentResponse` assumes of actions
  is therefore what the store does.

About `HelperReceipts` (`HelperReceiptsProofs`), for every set of attempts and
every size of the cache, under the same assumption `Recent` as in the run:

- `ReplaySafe` (`ReplayIsSafe`). That an attempt runs once rests on the file that
  the cache may have evicted, so the invariant has to count. `since[a]` is the
  set of attempts begun since `a` last began. The final files lie in the order in
  which their attempts began (`InOrder`), so the file that is evicted is older
  than all that stay; an attempt that ran either has its file or has been followed
  by as many others as the cache holds (`Touched`); the requests that wait leave
  room for each other (`Queueing`), so an attempt that may still be asked for
  has its file. `HelperInv` adds what the handler at work knows (`AtWork`), what
  the files say (`Honest`) and that one connection is open (`OneListener`).
- `AnswersTruthful` (`AnswersAreTruthful`) and `PromiseKept` (`KeepsPromise`): the
  refinement of `Executor`, action by action. Reading the request, replying,
  starting and hanging up are steps of the promise; waiting for the lock, the
  engine's calls and the cache are stutters or settle what is known of the host;
  a crash is the loss of every connection.

About `ActionDelivery` (`ActionDeliveryProofs`), from the assumptions of
`ActionLifecycle` and `MarksAssumption` (the empty place of the Agent's call is no
command; a result has an identity):

- `SuccessReal` (`SuccessIsReal`), `HostSafe` (`HostIsSafe`), `NoResultLost`
  (`NoQueuedResultLost`), of `DeliverySpec`. Every step of the composition is a
  step of the store, of the host or of the Agent, so `SafetyInv` holds here as it
  stands. Added to it: a command that passed the gate (`Known`) stays one for
  good, and only such commands are called for, orphaned or run
  (`TouchedAreKnown`, `CallIsKnown`); every answer on its way and every result in
  the queue is *earned* (`Earned`, `QueueIsEarned`): if the Controller will read
  it as a success, the host has the change. A change that is done stays done, so
  what was earned when the Helper answered is earned when the Controller judges
  it, however late and in whatever order.

  Together with `PromiseKept` this says of the whole chain, from the
  administrator's request to the engine's calls, that what is shown as done was
  done.

About `IncidentResponse`, for every finite set of incidents (`RowsAssumption`),
every set of investigations, steps and actions of which none is `Nobody`
(`NamesAssumption`), every limit and list length (`CapacityAssumptions`), in
`IncidentResponseProofs`:

- `TypesCorrect`: `Spec => []TypeOK`, one lemma per group of handlers.
- `LeasesHeld`: `Spec => []InvestigatingHasLease`. It is inductive together with
  `TypeOK`: whatever ends an investigation moves its incident in the same
  transaction, or finds it moved already.
- `PlansTruthful` (`PlansAreTrue`) and `StepsActOnce` (`OneActionAtWork`). That a
  step has one action at work says nothing of the draft that expires unnoticed, of
  the link that stays with a cancelled action, or of a plan whose investigation is
  gone. The invariant proved is `PlanInv`: only a proposed plan has links
  (`LinkedIsProposed`); an action under way was approved, and the other way round
  (`ApprovedIsRan`, `RanIsApproved`); an action of a step that was not cancelled is
  the one its plan links to (`KeptIsLinked`), and there is one such action per
  step (`OneKept`); with `PlanHasConclusion` and `CompletedPlanRan`. TLC checked
  it on the instances of `incident_plan` and `incident_cases` before it was
  proved.
- `ClosedStaysClosed` (`ClosedReopens`), from `TypeOK` and `PlanInv`, and
  `LimitRespected` (`OpenedWithinLimit`), from `TypeOK`: the action properties,
  action by action. The limit needs the incidents to be finitely many, because
  the code counts them.

About the playbooks, as they stand in `Parts`; the other parts leave their
variables alone:

- `BansHoldAndEnd` (`BansAreExact`) and `RollbackPutsBack` (`RollbackRestores`),
  in `BanProofs`, for every set of bans of an address, all positive lifetimes, any
  `Lag` and any `Jump` of the wall clock, under `BanAssumption` (at most one ban
  is a legacy one: an address has one element, and only one without a comment
  needs no name of its own). Neither property says what a rollback may find under
  the ban it takes away, or under that. The inductive invariant, `BanInv`, says
  it: the generations that may still come back form a stack with the element on
  top (`Stack`, over some set `C` and some ranks `r`: the one the action saved is
  the next below it); what was saved of a predecessor is what it would have left,
  by the kernel's clock and by the wall clock, whichever of them is right
  (`SavedIsExact`); who is covered has no more left than who covers it, and what
  is not in the stack has nothing (`CoveredIsShorter`); between two commands the
  element is what was read or has expired or been flushed (`FoundIsThere`), and
  what was read has aged by no more than the time spent (`ReadHasAged`). `Apply`
  pushes, `Restore` pops, everything else leaves the stack or empties it. TLC
  checked `BanInv` on the instance of `parts` and on one with two lifetimes and a
  larger jump of the clock before it was proved.
- `UndoIsArmed` (`UndoArmed`) and `UndoTouchesNothingElse` (`UndoIsExact`), in
  `PartsProofs`, for every set of actions and non-empty sets of contents and modes
  and any delays (`SSHAssumption`). `UndoArmed` follows what an action left in the file
  *or in sshd*; the invariant `HardenInv` adds that the snapshot in memory and on
  disk is that action's and that a timer is set or has given up (`InForceIsArmed`),
  what each stage of the engine and of the timer has made true, and that the two
  do not work at once (`EngineIsHonest`), and that a confirmed action has no
  snapshot left anywhere (`ConfirmedIsDone`).
- `ResumptionArmed` (`ResumeArmed`), in `PartsProofs`, for every set of
  suspensions and processes and any `TTL` (`SuspendAssumption`). `SuspendInv`
  follows the process an action *recorded*, which may be gone and its identifier
  taken (`RecordsAreOld`, `HeldIsStopped`); as long as it is there and its
  executable is not unlinked, both journals say what was recorded and a timer is
  set (`WatchedIsArmed`).

About the Controller's and the Agent's services, also in `PartsProofs`:

- `ChangesReachTheQueue` (`ChangesAreTold`, an action property), for every set of
  files, listeners and processes, every capacity and batch (`SensorAssumption`:
  the sensors are the three there are). `SensorInv` says of the snapshot that
  waits that everything it would pass over is queued or in the poll's hands, or
  that the queue refused something (`PendingIsTold`); and, because an event is
  known by its generation and the queue ignores what it knows, that no event of a
  later generation than the baseline's next has ever been queued (`IdsAreNew`).
- `OutboxIsSafe` (`OutboxSafe`), for every finite set of events, any workers and
  any limits (`OutboxAssumption`). It is inductive with the rows' type: a new row
  is counted against what is live less the reports that are given up for it, and
  nothing else makes a row live.
- `RisksAreTheLastWord` (`ProjectionIsLastWord`), for any sets of categories and
  names, any number of reports and any limits. A report that is applied is newer
  than all that were (`ProjectionType`), and among those that said something of a
  finding there is a newest (`NewestSaid`); the limit drops a finding only with a
  record that some are omitted, which stays until a complete scan.
- `EnrolmentHolds` (`EnrolmentIsSound`), for any installers, tokens, challenges and
  credentials and any finite set of identities (`EnrolAssumption`). `EnrolInv`
  adds what a process holds at each stage (`StageHolds`) and that an enrolled
  identity has a credential: the one decision that hands out a credential leaves
  those of all others alone.

- `LimitsHold` (`LimitsAreKept`), for any sources, a finite set of windows, any
  durations and any limits, of samples and rows at least one
  (`WindowAssumption`; `"none"`, which `last` holds when nothing was judged, is
  no source). The table: the cached count is never below the rows there are
  (`CountIsEnough`), so an increment that needs an eviction makes one
  (`IncrementKeepsTable`). The bans: the decision looks at the hour that ends now,
  the property at every hour so far (`LimitsHeld`); a ban recorded now is in no
  earlier hour, and the next hour that ends without one is a part of the last
  (`DecisionKeepsLimits`, `TickKeepsLimits`). A ban that is over keeps its place in
  the count. Bans are in the order of their failures (`BansType`), so the cooldown
  need only hold of the newest (`ApartHeld`).
- `CountHolds` (`CountIsOfTheWindow`), under the same assumption. The property
  speaks of the moment of a judgement; the invariant, `Remembered`, speaks of
  every failure in the window that no eviction or change of the window has
  forgotten: its source has a row, of the window in force, and the failure is
  among the row's samples or these are as many as a row holds and none is earlier
  (`Kept`). Such a row has not closed (`RememberedIsOpen`), so neither `Maintain`
  nor the next increment drops it; keeping the newest of one sample too many
  keeps every mark (`NewestKeeps`, `CountingRemembers`), however late the failure
  arrives. The count follows from `Remembered` and from what the row of the
  source just judged holds (`Judged`). The proofs choose by rank among finitely
  many (`LowestRank`), which is got from the well-foundedness of the strict
  subsets of a finite set and not by induction.

TLC checked each of these invariants on the instance of `parts` before it was
proved.

So every safety invariant, action property and refinement that a passing run
checks is a theorem. Out of reach of the prover and left to TLC: the liveness
properties (`NothingIsStuck`, `IncidentsMove`, the run `eventually`).

## Plan

1. *(done)* `ReceiptValidation`, `ReceiptCheck`, `ActionLifecycle` and their runs.
2. *(done)* Proofs of `TypeCorrect`, `InFlightAlwaysBacked`,
   `ReceiptsJudgedSafely`.
3. *(done)* `HelperReplies`, `Executor`, `HelperReceipts` and the refinement;
   `ActionDelivery`, which composes `ActionLifecycle` and `Executor`.
4. *(done)* The playbooks with state of their own: `BanGenerations`, `SSHJournal`,
   `ProcessSuspendJournal`.
5. *(done)* `ActionStatus`, `IncidentResponse`, `DefenseWindow`.
6. *(done)* `NotificationOutbox`, `ScanScheduler`, `FindingProjection`,
   `Enrollment`, `SensorBaseline`, `SensorTail`.
7. *(done)* Proofs about `IncidentResponse`: leases, plans, steps, closed
   incidents, the limit.
8. *(done)* Proofs of the remaining safety properties of `ActionLifecycle` and of
   its refinement of `ActionStatus`; of `HelperReceipts` and its refinement of
   `Executor`; of `ActionDelivery`.
9. *(done)* Proofs about the three playbooks.
10. *(done)* Proofs about the services: `ChangesAreTold`, `OutboxSafe`,
   `ProjectionIsLastWord`, `EnrolmentIsSound`.
11. *(done)* Proofs about `DefenseWindow`: `LimitsAreKept`, `CountIsOfTheWindow`.
12. Models: the AI budget's reservations, `Compact`'s ranked retention, the CLI's
   fix and recovery.

## Not modelled

Pure I/O and presentation: the scanner, log parsing of the sensors, the AI
protocol adapters, the web console, packaging. The journald sensor, whose cursor
is journald's own. Cryptography and encodings (`internal/secret`, `auth`, `ids`):
proofs of identity are taken as sound, request nonces as unique. Sequential host
changes whose correctness lies in apt, dpkg and the file system: package upgrade
and file permission playbooks. The check CLI: one user, no concurrency. HTTP
decoding, sessions and rate limits. Byte budgets (of reports, queues and caches),
which act as the row limits that are modelled do. The deletion of rows by age and
`Compact`.

## Running

```
tlc -config MCActionLifecycle_admin.cfg MCActionLifecycle
tlc -config Parts.cfg Parts
tlapm ActionLifecycleProofs.tla
tlapm BanProofs.tla
```
