--------------------------- MODULE SensorBaseline ---------------------------
(* The Agent's three polling sensors that compare the host with a baseline  *)
(* on disk: files (agent/baselinewatch.go), listeners (networkwatch.go) and *)
(* processes (processwatch.go), as agent/runner.go drives them: Poll, then  *)
(* one durable entry in the queue, then Commit.  The process may die        *)
(* between two of these steps and the queue may refuse the entry.           *)
(*                                                                           *)
(* The host is the set of items that are there (a file in its changed form, *)
(* an open listener, a suspicious process).  The queue delivers every entry *)
(* at last and the Controller ignores an event id it knows, so `known' is    *)
(* both what was queued and what the Controller has accepted.               *)
EXTENDS FiniteSets, Integers

CONSTANTS
    Items,          \* things a sensor looks at
    Kinds,          \* sensors
    Capacity,       \* listeners or candidates a snapshot can hold
    Batch,          \* events of one poll
    MaxGeneration   \* generations explored

VARIABLES
    kind,           \* the sensor of this behaviour
    host,           \* the items that are there
    saved,          \* the baseline on disk
    pending,        \* the snapshot Commit would write, in memory
    poll,           \* a poll under way: what it measured and will queue
    known,          \* event ids queued
    news,           \* of these, the ones queued since the last Commit
    refused         \* the queue has refused an entry since the last start

vars == <<kind, host, saved, pending, poll, known, news, refused>>

Blank == [there |-> FALSE, generation |-> 0, items |-> {}, full |-> FALSE]
Idle == [at |-> "idle", events |-> {}]

(* An id names an item, which way it changed, and the generation; the       *)
(* capacity events of the sensors name the snapshot as a whole.             *)
Change(items, i, g) == <<"item", i, i \in items, g>>
Whole(items, g) == <<"capacity", items, g>>

Differ(s, t) == (s \ t) \cup (t \ s)

\* Fault: the generation stays, so that a change repeats an old id.
SameGeneration(g) == g
Later(g) == g + 1

Snapshot(g, items, full) ==
    [there |-> TRUE, generation |-> g, items |-> items, full |-> full]

(***************************************************************************)
(* What one poll finds: the events, and the snapshot left pending.  A poll *)
(* that finds nothing leaves the snapshot of an earlier one where it is.    *)
(***************************************************************************)
Finds(events, left) ==
    /\ pending' = left
    /\ poll' = [at |-> "queue", events |-> events]

(* Files: the first poll writes the baseline itself, without an event. *)
FirstBaseline ==
    /\ saved' = Snapshot(1, host, FALSE)
    /\ poll' = [at |-> "queue", events |-> {}]
    /\ UNCHANGED pending

PollFiles ==
    IF ~saved.there THEN FirstBaseline
    ELSE LET g == Later(saved.generation)
             changed == Differ(saved.items, host)
         IN /\ Finds({Change(host, i, g) : i \in changed},
                     IF changed = {} THEN pending ELSE Snapshot(g, host, FALSE))
            /\ UNCHANGED saved

(* Listeners: a table that is too long, or a change too large, is one event *)
(* about the capacity.                                                       *)
PollListeners ==
    LET full == Cardinality(host) > Capacity
        g == IF saved.there THEN Later(saved.generation) ELSE 1
        changed == Differ(saved.items, host)
        now == Snapshot(g, host, full)
    IN IF ~saved.there /\ ~full THEN FirstBaseline
       ELSE /\ IF saved.there /\ changed = {} /\ full = saved.full
               THEN Finds({}, pending)
               ELSE IF ~saved.there \/ full \/ saved.full
                       \/ Cardinality(changed) > Batch
               THEN Finds({Whole(host, g)}, now)
               ELSE Finds({Change(host, i, g) : i \in changed}, now)
            /\ UNCHANGED saved

(* Processes: candidates not seen before are events, up to the limit; the   *)
(* rest, and a snapshot cut short, are announced by one event.               *)
PollProcesses ==
    \E seen \in SUBSET host :
    \E told \in SUBSET (seen \ saved.items) :
        LET full == Cardinality(host) > Capacity
            new == seen \ saved.items
            news0 == {Change(seen, i, 0) : i \in told}
            degraded == \/ full /\ (~saved.full \/ seen # saved.items)
                        \/ told # new
                        \/ saved.full /\ ~full
            events == news0 \cup (IF degraded THEN {Whole(seen, 0)} ELSE {})
        IN /\ IF full THEN Cardinality(seen) = Capacity ELSE seen = host
           /\ IF Cardinality(new) > Batch THEN Cardinality(told) = Batch
              ELSE told = new
           /\ Finds(events,
                    IF events # {} \/ ~saved.there
                       \/ Cardinality(seen) # Cardinality(saved.items)
                    THEN Snapshot(0, seen, full) ELSE pending)
           /\ UNCHANGED saved

Poll ==
    /\ poll = Idle /\ saved.generation < MaxGeneration
    /\ \/ kind = "files" /\ PollFiles
       \/ kind = "listeners" /\ PollListeners
       \/ kind = "processes" /\ PollProcesses
    /\ UNCHANGED <<kind, host, known, news, refused>>

(* One durable entry holds the events of the poll; none is made for none. *)
Enqueue ==
    /\ poll.at = "queue"
    /\ known' = known \cup poll.events
    /\ news' = news \cup (poll.events \ known)
    /\ poll' = [at |-> "commit", events |-> {}]
    /\ UNCHANGED <<kind, host, saved, pending, refused>>

(* The queue is full, or the disk is: the poll ends with an error. *)
QueueRefuses ==
    /\ poll.at = "queue" /\ poll.events # {}
    /\ poll' = Idle /\ refused' = TRUE
    /\ UNCHANGED <<kind, host, saved, pending, known, news>>

(* Commit writes the pending snapshot, if there is one, and may fail. *)
Commit ==
    /\ poll.at = "commit"
    /\ poll' = Idle
    /\ \/ /\ pending # Blank
          /\ saved' = pending /\ pending' = Blank /\ news' = {}
       \/ UNCHANGED <<saved, pending, news>>
    /\ UNCHANGED <<kind, host, known, refused>>

(* A snapshot that could not be written is written by a later Commit. *)
Dies ==
    /\ pending # Blank \/ poll # Idle
    /\ poll' = Idle /\ pending' = Blank /\ refused' = FALSE
    /\ UNCHANGED <<kind, host, saved, known, news>>

(* The host changes, alone or in several places at once. *)
HostChanges ==
    /\ host' \in SUBSET Items /\ host' # host
    /\ UNCHANGED <<kind, saved, pending, poll, known, news, refused>>

Init ==
    /\ kind \in Kinds /\ host \in SUBSET Items
    /\ saved = Blank /\ pending = Blank /\ poll = Idle
    /\ known = {} /\ news = {} /\ refused = FALSE

Next == Poll \/ Enqueue \/ QueueRefuses \/ Commit \/ Dies \/ HostChanges

Spec == Init /\ [][Next]_vars

(***************************************************************************)
(* What the baseline passes over has been told.  Of files and listeners     *)
(* with an id the Controller had not seen before the last Commit; a process *)
(* keeps its id for life.                                                    *)
Told(old, new) ==
    \A i \in Differ(old.items, new.items) :
        IF kind = "processes"
        THEN i \in new.items =>
                 {Change(new.items, i, 0), Whole(new.items, 0)} \cap known # {}
        ELSE {Change(new.items, i, new.generation),
              Whole(new.items, new.generation)} \cap news # {}

(* The baseline on disk never moves past a change whose event is not        *)
(* durable, and never under an id that an earlier change has used, wherever *)
(* the Agent died in between; as long as the queue took every entry.         *)
ChangesAreTold ==
    [][saved' # saved /\ saved.there /\ ~refused => Told(saved, saved')]_vars

(* baselinewatch.go:145: "Commit advances the local baseline only after the *)
(* caller has durably queued every event."                                   *)
CommitFollowsQueue ==
    [][saved' # saved /\ saved.there => Told(saved, saved')]_vars
=============================================================================
