--------------------------- MODULE IncidentResponse ---------------------------
(***************************************************************************)
(* The Controller's incidents of one device: signals correlated into       *)
(* incidents, the investigations an administrator or the resident worker   *)
(* runs with an AI model, the response plans they conclude with, and the   *)
(* remediation actions prepared from the steps of a plan.                  *)
(*                                                                         *)
(* Every action is one SQLite transaction, except that an investigation is *)
(* several: it is claimed, its context is read, the model is called for up *)
(* to 90 seconds, and its conclusion is stored.  Signals, administrators,  *)
(* results of actions and a restart of the Controller come in between.     *)
(* The actions are those of ActionStatus.                                  *)
(*                                                                         *)
(* A plan bears the name of the investigation that proposed it: each       *)
(* proposes at most one.  Definitions marked "Fault" are plausible         *)
(* mistakes, never used by the specification.                              *)
(***************************************************************************)
EXTENDS ActionStatus

CONSTANTS
  Incidents,      \* identities of incident rows
  Signals,        \* identities of signals
  Keys,           \* correlation keys of ordinary signals
  SensorKey,      \* "sensor-health:<device>:<sensor>", one sensor
  CapacityKey,    \* "system:active_incident_capacity"
  Investigations, \* identities of investigation rows
  Steps,          \* identities of the steps of a plan
  Nobody,         \* no incident, no action
  MaxActive,      \* maxActiveIncidentsPerDevice (1000)
  MaxClosed,      \* maxIncidentsPerDevice (2000)
  ListLimit       \* open incidents the worker looks at in a cycle (20)

ASSUME CapacityAssumptions ==
  MaxActive \in Nat \ {0} /\ MaxClosed \in Nat /\ ListLimit \in Nat \ {0}
ASSUME NamesAssumption ==
  Nobody \notin Incidents \cup Actions \cup (Investigations \X Steps)
ASSUME RowsAssumption == IsFiniteSet(Incidents)

VARIABLES
  inc,     \* inc[i]: status, key, severity, investigated before, newer evidence since, and
           \* (history) evidence no investigation has read
  known,   \* the signals stored
  inv,     \* inv[v]: status, incident, who asked, lease over, the goroutine behind it
  plan,    \* plan[v]: status, steps, link of each step to an action
  of,      \* of[a]: the plan and step named in the preview of action a
  ran,     \* the actions with an "approved_and_queued" audit row
  mode,    \* what the capability's grant lets the worker investigate
  worker   \* the incident the worker has checked and is about to claim

caseVars == <<inc, known, inv, plan>>
vars == <<st, inc, known, inv, plan, of, ran, mode, worker>>

OpenStatus == {"open", "investigating", "awaiting_approval", "responding", "monitoring"}
Closed     == {"resolved", "dismissed"}

IncidentRow ==
  [status : OpenStatus \cup Closed \cup {"absent", "gone"},
   key : Keys \cup {SensorKey, CapacityKey}, sev : {"low", "high"},
   tried : BOOLEAN, news : BOOLEAN, unread : BOOLEAN]
InvestigationRow ==
  [status : {"none", "running", "completed", "failed", "gone"},
   of : Incidents \cup {Nobody}, by : {"administrator", "policy_grant"},
   stale : BOOLEAN, live : {"none", "reading", "calling"}]
PlanRow ==
  [status : {"none", "proposed", "approved", "executing", "completed", "failed"},
   steps : SUBSET Steps, link : [Steps -> Actions \cup {Nobody}]]

Active(i)  == inc[i].status \in OpenStatus
ActiveWith(k) == {i \in Incidents : Active(i) /\ inc[i].key = k}
Rank(severity) == IF severity = "high" THEN 1 ELSE 0

(* incidents_active_correlation_idx: a transaction that would leave two    *)
(* active incidents with one key is rolled back.                           *)
Fits(i, status) ==
  status \in OpenStatus => ActiveWith(inc[i].key) \subseteq {i}

(* UPDATE incidents SET status=? WHERE id=?, and nothing if the row is gone*)
SetStatus(i, status) ==
  /\ Fits(i, status)
  /\ inc' = IF inc[i].status \in OpenStatus \cup Closed
              THEN [inc EXCEPT ![i].status = status] ELSE inc

NoPlan == [status |-> "none", steps |-> {}, link |-> [s \in Steps |-> Nobody]]

-----------------------------------------------------------------------------
(* Signals.                                                                *)

(* Past MaxActive a signal that would open an incident joins the one       *)
(* incident that stands for the overflow.                                  *)
\* Fault: the overflow is not redirected.
KeyOnly(k) == k
KeyFor(k) ==
  IF ActiveWith(k) = {} /\ Cardinality({i \in Incidents : Active(i)}) >= MaxActive
    THEN CapacityKey ELSE k

Added(row, sev) ==
  [row EXCEPT !.status = IF @ = "monitoring" THEN "open" ELSE @,
              !.sev = IF Rank(sev) > Rank(@) THEN sev ELSE @,
              !.news = TRUE, !.unread = TRUE]

Opened(k, sev) ==
  [status |-> "open", key |-> k, sev |-> IF k = CapacityKey THEN "high" ELSE sev,
   tried |-> FALSE, news |-> TRUE, unread |-> TRUE]

RowAfter(key, sev, i, status) ==
  LET row == IF Active(i) THEN Added(inc[i], sev) ELSE Opened(key, sev)
  IN IF status = "" THEN row ELSE [row EXCEPT !.status = status]

(* The least recently updated closed incidents beyond the limit are        *)
(* deleted, with their investigations, plans and links.                    *)
Excess(rows) ==
  LET closed == {i \in Incidents : rows[i].status \in Closed}
  IN {gone \in SUBSET closed :
        Cardinality(closed) - Cardinality(gone) =
          IF Cardinality(closed) > MaxClosed THEN MaxClosed ELSE Cardinality(closed)}

Upsert(s, k, sev, i, status) ==
  LET key  == KeyFor(k)
      rows == [inc EXCEPT ![i] = RowAfter(key, sev, i, status)]
  IN /\ s \notin known
     /\ IF ActiveWith(key) # {} THEN i \in ActiveWith(key) ELSE inc[i].status = "absent"
     /\ known' = known \cup {s}
     /\ \E gone \in Excess(rows) :
          /\ inc'  = [j \in Incidents |-> IF j \in gone
                                            THEN [rows[j] EXCEPT !.status = "gone"] ELSE rows[j]]
          /\ inv'  = [v \in Investigations |-> IF inv[v].of \in gone
                                                 THEN [inv[v] EXCEPT !.status = "gone"] ELSE inv[v]]
          /\ plan' = [v \in Investigations |-> IF inv[v].of \in gone THEN NoPlan ELSE plan[v]]
     /\ UNCHANGED <<st, of, ran, mode, worker>>

(* A signal that is stored already changes nothing.                        *)
ReceiveSignal(s, k, sev, i) == Upsert(s, k, sev, i, "")

(* A sensor that reports again is a signal too, and ends in monitoring.    *)
SensorRestored(s, i) == Upsert(s, SensorKey, "low", i, "monitoring")

-----------------------------------------------------------------------------
(* Investigations.                                                         *)

Running(v) == inv[v].status = "running"

CreateInvestigation(i, v, by) ==
  /\ inv[v].status = "none"
  /\ inc[i].status \in {"open", "monitoring"}
  /\ inc' = [inc EXCEPT ![i].status = "investigating", ![i].tried = TRUE, ![i].news = FALSE]
  /\ inv' = [inv EXCEPT ![v] = [status |-> "running", of |-> i, by |-> by,
                                stale |-> FALSE, live |-> "reading"]]

InvestigateIncident(i, v) ==
  /\ CreateInvestigation(i, v, "administrator")
  /\ UNCHANGED <<st, known, plan, of, ran, mode, worker>>

(* The worker takes up an open incident among the first ListLimit by       *)
(* severity, never investigated or with newer evidence, that the grant and *)
(* the profile allow.                                                      *)
Allows(m, i) == m = "all" \/ (m = "serious" /\ inc[i].sev = "high")
Listed(i) ==
  /\ inc[i].status = "open"
  /\ Cardinality({j \in Incidents : inc[j].status = "open"
                                     /\ Rank(inc[j].sev) > Rank(inc[i].sev)}) < ListLimit
\* Fault: an incident nobody investigated yet is not due.
DueTried(i) == inc[i].tried /\ inc[i].news
Due(i) == ~inc[i].tried \/ inc[i].news
WorkerFree == worker = Nobody /\ \A v \in Investigations : inv[v].by = "policy_grant" =>
                                                              inv[v].live = "none"

WorkerPick(i) ==
  /\ WorkerFree
  /\ Listed(i) /\ Due(i) /\ Allows(mode, i)
  /\ worker' = i
  /\ UNCHANGED <<st, inc, known, inv, plan, of, ran, mode>>

WorkerClaim(v) ==
  /\ worker # Nobody
  /\ worker' = Nobody
  /\ CreateInvestigation(worker, v, "policy_grant")
  /\ UNCHANGED <<st, known, plan, of, ran, mode>>

(* The incident is no longer open, the provider is not configured, or a    *)
(* read failed: the cycle goes on.                                         *)
WorkerSkip ==
  /\ worker # Nobody
  /\ worker' = Nobody
  /\ UNCHANGED <<st, inc, known, inv, plan, of, ran, mode>>

(* The context holds the signals stored so far.                            *)
CollectContext(v) ==
  /\ inv[v].live = "reading"
  /\ inv' = [inv EXCEPT ![v].live = "calling"]
  /\ inc' = [inc EXCEPT ![inv[v].of].unread = FALSE]
  /\ UNCHANGED <<st, known, plan, of, ran, mode, worker>>

(* The row left "running" meanwhile (its lease ended): ErrConflict.        *)
Disowned(v) ==
  /\ inv[v].live # "none" /\ ~Running(v)
  /\ inv' = [inv EXCEPT ![v].live = "none"]
  /\ UNCHANGED <<st, inc, known, plan, of, ran, mode, worker>>

(* With the steps that survive validation, possibly none.  The incident is *)
(* written whatever its status; the index may refuse it, and then the      *)
(* conclusion is lost and the row left to the end of its lease.            *)
ConclusionStatus(steps) == IF steps = {} THEN "monitoring" ELSE "awaiting_approval"
\* Fault: the lease is not checked.
CompleteStale(v, steps) ==
  /\ inv[v].live = "calling"
  /\ inv' = [inv EXCEPT ![v].live = "none"]
  /\ SetStatus(inv[v].of, ConclusionStatus(steps))
  /\ plan' = IF steps = {} THEN plan
             ELSE [plan EXCEPT ![v].status = "proposed", ![v].steps = steps]
  /\ UNCHANGED <<st, known, of, ran, mode, worker>>
CompleteInvestigation(v, steps) ==
  LET i == inv[v].of
  IN /\ inv[v].live = "calling" /\ Running(v)
     /\ IF Fits(i, ConclusionStatus(steps))
          THEN /\ inv'  = [inv EXCEPT ![v].status = "completed", ![v].live = "none"]
               /\ inc'  = [inc EXCEPT ![i].status = ConclusionStatus(steps), ![i].news = FALSE]
               /\ plan' = IF steps = {} THEN plan
                          ELSE [plan EXCEPT ![v].status = "proposed", ![v].steps = steps]
          ELSE /\ inv' = [inv EXCEPT ![v].live = "none"]
               /\ UNCHANGED <<inc, plan>>
     /\ UNCHANGED <<st, known, of, ran, mode, worker>>

\* Fault: a failure leaves the incident to somebody else.
EndedOnly(rows, i) == rows
\* Fault: a failure reopens whatever became of the incident.
ReopenedAlways(rows, i) == [rows EXCEPT ![i].status = "open"]
Reopened(rows, i) ==
  IF rows[i].status = "investigating" THEN [rows EXCEPT ![i].status = "open"] ELSE rows

(* A tool, the provider, the budget, the call or its output failed.        *)
FailInvestigation(v) ==
  /\ inv[v].live # "none" /\ Running(v)
  /\ inv' = [inv EXCEPT ![v].status = "failed", ![v].live = "none"]
  /\ inc' = Reopened(inc, inv[v].of)
  /\ UNCHANGED <<st, known, plan, of, ran, mode, worker>>

(* Two minutes without an answer.                                          *)
LeaseEnds(v) ==
  /\ Running(v) /\ ~inv[v].stale
  /\ inv' = [inv EXCEPT ![v].stale = TRUE]
  /\ UNCHANGED <<st, inc, known, plan, of, ran, mode, worker>>

(* Run at the start of every cycle.  The goroutine, if there is one, is    *)
(* not told.                                                               *)
RecoverStaleInvestigations ==
  LET stale == {v \in Investigations : Running(v) /\ inv[v].stale}
      hit   == {inv[v].of : v \in stale}
  IN /\ WorkerFree /\ stale # {}
     /\ inv' = [v \in Investigations |-> IF v \in stale
                                           THEN [inv[v] EXCEPT !.status = "failed"] ELSE inv[v]]
     /\ inc' = [i \in Incidents |-> IF i \in hit THEN Reopened(inc, i)[i] ELSE inc[i]]
     /\ UNCHANGED <<st, known, plan, of, ran, mode, worker>>

(* The Controller stops and starts: its goroutines are gone.               *)
Restart ==
  /\ inv' = [v \in Investigations |-> [inv[v] EXCEPT !.live = "none"]]
  /\ worker' = Nobody
  /\ <<inv, worker>>' # <<inv, worker>>
  /\ UNCHANGED <<st, inc, known, plan, of, ran, mode>>

-----------------------------------------------------------------------------
(* Administrators.                                                         *)

UpdateIncident(i, status) ==
  /\ inc[i].status \in (OpenStatus \cup Closed) \ {status}
  /\ status \in {"open"} \cup Closed
  /\ SetStatus(i, status)
  /\ UNCHANGED <<st, known, inv, plan, of, ran, mode, worker>>

PutPolicyGrant(m) ==
  /\ mode' = m
  /\ UNCHANGED <<st, inc, known, inv, plan, of, ran, worker>>

(* The draft of a step.  A step whose action was cancelled may be prepared *)
(* again.  Drafts out of time are cancelled first.  (The grant is read by  *)
(* the handler before the transaction, and may have changed since.)        *)
\* Fault: any finished action gives the step back.
ReplaceableEnded(a) == st[a] \in Ended
Replaceable(a) == st[a] = "cancelled"
Preparable == {"proposed", "approved"}

CreateActionFromResponsePlan(v, s, a) ==
  /\ plan[v].status \in Preparable /\ s \in plan[v].steps
  /\ plan[v].link[s] # Nobody => Replaceable(plan[v].link[s])
  /\ st[a] = "absent"
  /\ \E old \in SUBSET {d \in Actions : st[d] = "draft"} :
       st' = [d \in Actions |-> IF d = a THEN "draft"
                                ELSE IF d \in old THEN "cancelled" ELSE st[d]]
  /\ plan' = [plan EXCEPT ![v].status = "approved", ![v].link[s] = a]
  /\ of' = [of EXCEPT ![a] = <<v, s>>]
  /\ SetStatus(inv[v].of, "awaiting_approval")
  /\ UNCHANGED <<known, inv, ran, mode, worker>>

(* The plan an action is linked to.                                        *)
PlansOf(a) == {v \in Investigations : \E s \in Steps : plan[v].link[s] = a}

ApproveActionAndEnqueue(a) ==
  /\ st[a] = "draft"
  /\ st' = [st EXCEPT ![a] = "approved"]
  /\ ran' = ran \cup {a}
  /\ IF PlansOf(a) = {} THEN UNCHANGED <<plan, inc>>
     ELSE \E v \in PlansOf(a) : /\ plan' = [plan EXCEPT ![v].status = "executing"]
                                /\ SetStatus(inv[v].of, "responding")
  /\ UNCHANGED <<known, inv, of, mode, worker>>

-----------------------------------------------------------------------------
(* The life of an action after its approval.  Only a recorded result       *)
(* brings the plan and the incident up to date.                            *)

(* What the statuses of the steps' actions make of a plan.                 *)
PlanVerdict(p, now) ==
  LET status(s) == now[p.link[s]]
      ready == {s \in p.steps : p.link[s] # Nobody}
  IN IF \E s \in ready : status(s) \in {"failed", "indeterminate", "cancelled"} THEN "failed"
     ELSE IF \E s \in ready : status(s) \notin {"succeeded", "rolled_back"} THEN "executing"
     ELSE IF ready = p.steps THEN "completed"
     ELSE "approved"

IncidentFor(verdict) ==
  CASE verdict = "failed"    -> "open"
    [] verdict = "completed" -> "monitoring"
    [] verdict = "executing" -> "responding"
    [] verdict = "approved"  -> "awaiting_approval"

(* A result that would break the index is not recorded at all.             *)
Recordable(a, status) ==
  \A v \in PlansOf(a) :
    LET verdict == PlanVerdict(plan[v], [st EXCEPT ![a] = status])
    IN verdict = plan[v].status \/ Fits(inv[v].of, IncidentFor(verdict))

SyncResponsePlan(a) ==
  IF PlansOf(a) = {} THEN UNCHANGED <<plan, inc>>
  ELSE \E v \in PlansOf(a) :
         LET verdict == PlanVerdict(plan[v], st')
         IN IF verdict = plan[v].status THEN UNCHANGED <<plan, inc>>
            ELSE /\ plan' = [plan EXCEPT ![v].status = verdict]
                 /\ SetStatus(inv[v].of, IncidentFor(verdict))

RecordResult(a, status) ==
  /\ <<st[a], status>> \in Answered
  /\ st' = [st EXCEPT ![a] = status]
  /\ SyncResponsePlan(a)
  /\ UNCHANGED <<known, inv, of, ran, mode, worker>>

(* Started, rolled back, confirmed, expired, withdrawn, given up: the plan *)
(* is not looked at.                                                       *)
MoveAction(a, status) ==
  /\ <<st[a], status>> \in (Requested \cup Begun \cup GivenUp)
       \ {<<"absent", "draft">>, <<"absent", "approved">>, <<"draft", "approved">>}
  /\ st' = [st EXCEPT ![a] = status]
  /\ UNCHANGED <<inc, known, inv, plan, of, ran, mode, worker>>

-----------------------------------------------------------------------------

Init ==
  /\ AllAbsent
  /\ inc = [i \in Incidents |-> [status |-> "absent", key |-> SensorKey, sev |-> "low",
                                 tried |-> FALSE, news |-> FALSE, unread |-> FALSE]]
  /\ known = {}
  /\ inv = [v \in Investigations |-> [status |-> "none", of |-> Nobody, by |-> "administrator",
                                      stale |-> FALSE, live |-> "none"]]
  /\ plan = [v \in Investigations |-> NoPlan]
  /\ of = [a \in Actions |-> Nobody]
  /\ ran = {}
  /\ mode = "off"
  /\ worker = Nobody

Signal ==
  \E s \in Signals, i \in Incidents :
    \/ \E k \in Keys \cup {SensorKey}, sev \in {"low", "high"} : ReceiveSignal(s, k, sev, i)
    \/ SensorRestored(s, i)

Investigate ==
  \/ \E i \in Incidents, v \in Investigations : InvestigateIncident(i, v)
  \/ \E i \in Incidents : WorkerPick(i)
  \/ \E v \in Investigations :
       \/ WorkerClaim(v)
       \/ CollectContext(v)
       \/ Disowned(v)
       \/ \E steps \in SUBSET Steps : CompleteInvestigation(v, steps)
       \/ FailInvestigation(v)
       \/ LeaseEnds(v)
  \/ WorkerSkip
  \/ RecoverStaleInvestigations
  \/ Restart

Administer ==
  \/ \E i \in Incidents, status \in {"open", "resolved", "dismissed"} : UpdateIncident(i, status)
  \/ \E m \in {"off", "serious", "all"} \ {mode} : PutPolicyGrant(m)

Respond ==
  \/ \E v \in Investigations, s \in Steps, a \in Actions : CreateActionFromResponsePlan(v, s, a)
  \/ \E a \in Actions :
       \/ ApproveActionAndEnqueue(a)
       \/ \E status \in AnyStatus : RecordResult(a, status) \/ MoveAction(a, status)

Next == Signal \/ Investigate \/ Administer \/ Respond

Spec == Init /\ [][Next]_vars

(* The worker's loop runs every five seconds and begins with the recovery, *)
(* its calls are bounded by a timeout, and time passes.  A cycle walks     *)
(* down its list, so an incident that is on it again and again is reached  *)
(* (the cycle stops after three, more than an instance has), and neither   *)
(* restarts nor errors always fall between its check and its claim.        *)
(* Nothing is assumed of administrators, sensors and Agents.               *)
Concludes(v) ==
  \/ CollectContext(v) \/ Disowned(v) \/ FailInvestigation(v)
  \/ \E steps \in SUBSET Steps : CompleteInvestigation(v, steps)
Fairness ==
  /\ SF_vars(RecoverStaleInvestigations) /\ WF_vars(WorkerSkip)
  /\ \A v \in Investigations : /\ WF_vars(LeaseEnds(v))
                               /\ WF_vars(Concludes(v))
  /\ \A i \in Incidents :
       /\ SF_vars(WorkerPick(i))
       /\ SF_vars(worker = i /\ \E v \in Investigations : WorkerClaim(v))

FairSpec == Spec /\ Fairness

-----------------------------------------------------------------------------
(* Properties.                                                             *)

(* The rows hold values of their columns.                                  *)
TypeOK ==
  /\ st \in [Actions -> AnyStatus]
  /\ inc \in [Incidents -> IncidentRow]
  /\ known \subseteq Signals
  /\ inv \in [Investigations -> InvestigationRow]
  /\ plan \in [Investigations -> PlanRow]
  /\ of \in [Actions -> (Investigations \X Steps) \cup {Nobody}]
  /\ ran \subseteq Actions
  /\ mode \in {"off", "serious", "all"}
  /\ worker \in Incidents \cup {Nobody}

(* An incident under investigation has a running investigation, whose      *)
(* answer, failure or lease will release it, whoever else changed the      *)
(* incident in between.                                                    *)
InvestigatingHasLease ==
  \A i \in Incidents : inc[i].status = "investigating" =>
                          \E v \in Investigations : Running(v) /\ inv[v].of = i

(* A plan rests on a concluded investigation: an answer that arrives after *)
(* the lease was given up proposes nothing.                                *)
PlanHasConclusion ==
  \A v \in Investigations : plan[v].status # "none" => inv[v].status = "completed"

(* Whatever is prepared, expired, rolled back, cancelled and prepared      *)
(* again: a step of a plan has one action at work at a time.               *)
AtWork(a) == st[a] \notin Ended \cup {"absent"}
OneActionAtWork ==
  \A a, b \in Actions : AtWork(a) /\ AtWork(b) /\ of[a] = of[b] /\ of[a] # Nobody => a = b

(* A plan is only reported complete after each of its steps was approved   *)
(* by an administrator, and the incident is left to monitoring by it.      *)
CompletedPlanRan ==
  \A v \in Investigations : plan[v].status = "completed" =>
                               \A s \in plan[v].steps : plan[v].link[s] \in ran

(* What a plan reports of itself follows from its investigation and from   *)
(* the approvals of its steps.                                             *)
PlansAreTrue == TypeOK /\ PlanHasConclusion /\ CompletedPlanRan

(* Every active incident counts against the device's limit; signals open   *)
(* one more at most, and only administrators, late answers and plans bring *)
(* closed ones back on top.                                                *)
OpenedWithinLimit ==
  [][\A i \in Incidents : inc[i].status = "absent" /\ inc'[i].status = "open" =>
       Cardinality({j \in Incidents : Active(j)}) < MaxActive
         \/ (ActiveWith(CapacityKey) = {} /\ inc'[i].key = CapacityKey)]_vars

(* A closed incident becomes active again only by an administrator, by the *)
(* conclusion of an investigation that was running when it was closed, or  *)
(* by the progress of one of its plans: never by a signal, a failure or    *)
(* the recovery of a lease.                                                *)
ClosedReopens ==
  [][\A i \in Incidents :
       inc[i].status \in Closed /\ inc'[i].status \in OpenStatus =>
         \/ UpdateIncident(i, "open")
         \/ \E v \in Investigations :
              /\ inv[v].of = i
              /\ \/ Running(v) /\ inv'[v].status = "completed"
                 \/ plan'[v] # plan[v]
                 \/ ran' # ran]_vars

(* Nothing keeps an incident under investigation: not a lost answer, not a *)
(* restart.                                                                *)
InvestigatingEnds ==
  \A i \in Incidents : inc[i].status = "investigating" ~> inc[i].status # "investigating"

(* A new serious incident is taken up (or closed) as long as the grant is  *)
(* on and no more than ListLimit incidents compete.  (Rows for             *)
(* investigations run out only in the instances.)                          *)
RowsLeft == \E v \in Investigations : inv[v].status = "none"
EvidenceIsTried ==
  \A i \in Incidents :
    inc[i].status = "open" /\ ~inc[i].tried /\ inc[i].sev = "high"
      ~> inc[i].status # "open" \/ mode = "off" \/ ~RowsLeft

(* An incident is neither held under investigation nor left unread.        *)
IncidentsMove == InvestigatingEnds /\ EvidenceIsTried

-----------------------------------------------------------------------------
(* Statements of the documentation that the code does not keep.            *)

(* security_engineer.go: retries cannot produce two privileged actions for *)
(* the same proposal.                                                      *)
StepRunsOnce ==
  \A a, b \in ran : of[a] = of[b] /\ of[a] # Nobody => a = b

(* docs/security-engineer.md: results drive the plan and the incident, so  *)
(* that "approved" and "executed" are not confused.  A plan at work has an *)
(* action at work.                                                         *)
ExecutingPlanIsAtWork ==
  \A v \in Investigations : plan[v].status = "executing" =>
    \E s \in plan[v].steps : plan[v].link[s] # Nobody
                                 /\ st[plan[v].link[s]] \notin Ended

(* action_results.go: a result cannot permanently block the Agent's queue. *)
ResultsAreRecorded ==
  \A a \in Actions, status \in AnyStatus :
    st[a] \in {"executing", "rolling_back", "confirming"} /\ <<st[a], status>> \in Answered
      => Recordable(a, status)

(* docs/architecture.md: new evidence reopens an incident that is being    *)
(* monitored.  Nothing is monitored with evidence nobody has read.         *)
MonitoringIsRead ==
  \A i \in Incidents : inc[i].status = "monitoring" /\ inc[i].key # SensorKey => ~inc[i].unread

(* docs/architecture.md: after a failure the incident is open and can be   *)
(* retried after a delay.                                                  *)
FailureIsRetried ==
  \A i \in Incidents :
    inc[i].status = "open" /\ inc[i].tried /\ inc[i].sev = "high" /\ mode # "off"
      ~> inc[i].status # "open" \/ mode = "off" \/ ~RowsLeft

(* investigator.go: a grant disabled concurrently cannot start new         *)
(* autonomous work.                                                        *)
StoppedStartsNothing ==
  [][\A v \in Investigations : inv[v].status = "none" /\ inv'[v].status = "running"
                                /\ inv'[v].by = "policy_grant" => mode # "off"]_vars
=============================================================================
