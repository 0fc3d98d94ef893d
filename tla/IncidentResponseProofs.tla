------------------------ MODULE IncidentResponseProofs ------------------------
(***************************************************************************)
(* Proofs, for any number of incidents, signals, investigations, steps and *)
(* actions, of the safety properties that the runs of MCIncidentResponse   *)
(* check on small instances.                                               *)
(***************************************************************************)
EXTENDS IncidentResponse, FiniteSetTheorems, TLAPS

-----------------------------------------------------------------------------
(* What the helpers of the model return.                                   *)

IncidentStatuses == OpenStatus \cup Closed \cup {"absent", "gone"}

(* Writing columns of a row keeps it a row.                                *)
LEMMA RowWritten ==
  ASSUME NEW r \in IncidentRow, NEW s \in IncidentStatuses
  PROVE  /\ [r EXCEPT !.status = s] \in IncidentRow
         /\ [r EXCEPT !.status = s].status = s
         /\ [r EXCEPT !.status = s].key = r.key
BY DEF IncidentRow, IncidentStatuses

(* The context of an investigation is read, and its answer stored.         *)
LEMMA RowRead ==
  ASSUME NEW r \in IncidentRow, NEW s \in IncidentStatuses
  PROVE  /\ [r EXCEPT !.unread = FALSE] \in IncidentRow
         /\ [r EXCEPT !.unread = FALSE].status = r.status
         /\ [r EXCEPT !.status = s, !.news = FALSE] \in IncidentRow
         /\ [r EXCEPT !.status = s, !.news = FALSE].status = s
BY DEF IncidentRow, IncidentStatuses

(* An investigation ends.                                                  *)
LEMMA InvestigationWritten ==
  ASSUME NEW r \in InvestigationRow, NEW s \in {"completed", "failed", "gone"}
  PROVE  /\ [r EXCEPT !.status = s] \in InvestigationRow
         /\ [r EXCEPT !.status = s].status = s
         /\ [r EXCEPT !.status = s, !.live = "none"] \in InvestigationRow
         /\ [r EXCEPT !.status = s, !.live = "none"].status = s
BY DEF InvestigationRow

(* Its goroutine moves on, or its lease ends.                              *)
LEMMA InvestigationTouched ==
  ASSUME NEW r \in InvestigationRow, NEW l \in {"none", "calling"}
  PROVE  /\ [r EXCEPT !.live = l] \in InvestigationRow
         /\ [r EXCEPT !.live = l].status = r.status
         /\ [r EXCEPT !.live = l].of = r.of
         /\ [r EXCEPT !.stale = TRUE] \in InvestigationRow
         /\ [r EXCEPT !.stale = TRUE].status = r.status
         /\ [r EXCEPT !.stale = TRUE].of = r.of
BY DEF InvestigationRow

(* A plan changes its status.                                              *)
LEMMA PlanWritten ==
  ASSUME NEW r \in PlanRow, NEW s \in {"failed", "executing", "completed", "approved"}
  PROVE  [r EXCEPT !.status = s] \in PlanRow
BY DEF PlanRow

(* A plan is proposed.                                                     *)
LEMMA PlanProposed ==
  ASSUME NEW r \in PlanRow, NEW steps \in SUBSET Steps
  PROVE  /\ [r EXCEPT !.status = "proposed", !.steps = steps] \in PlanRow
         /\ [r EXCEPT !.status = "proposed", !.steps = steps].status = "proposed"
BY DEF PlanRow

(* Writing the status of an incident leaves every other column alone.      *)
LEMMA StatusWritten ==
  ASSUME inc \in [Incidents -> IncidentRow], NEW i, NEW s \in IncidentStatuses,
         SetStatus(i, s)
  PROVE  /\ inc' \in [Incidents -> IncidentRow]
         /\ \A j \in Incidents : inc'[j] \in {inc[j], [inc[j] EXCEPT !.status = s]}
         /\ \A j \in Incidents : j # i => inc'[j] = inc[j]
<1>1. CASE inc' = inc
  BY <1>1
<1>2. CASE inc' = [inc EXCEPT ![i].status = s]
  <2>1. \A j \in Incidents : [inc[j] EXCEPT !.status = s] \in IncidentRow
    BY RowWritten
  <2> QED
    BY <1>2, <2>1
<1> QED
  BY <1>1, <1>2 DEF SetStatus

(* The row that a signal writes.                                           *)
LEMMA RowAfterSignal ==
  ASSUME TypeOK, NEW key \in Keys \cup {SensorKey, CapacityKey}, NEW sev \in {"low", "high"},
         NEW i \in Incidents, NEW status \in {"", "monitoring"}
  PROVE  /\ RowAfter(key, sev, i, status) \in IncidentRow
         /\ RowAfter(key, sev, i, status).status \in {"open", "monitoring", inc[i].status}
<1> DEFINE row == IF Active(i) THEN Added(inc[i], sev) ELSE Opened(key, sev)
<1>1. inc[i] \in IncidentRow
  BY DEF TypeOK
<1>2. /\ Added(inc[i], sev) \in IncidentRow
      /\ Added(inc[i], sev).status \in {"open", inc[i].status}
  BY <1>1 DEF Added, IncidentRow, OpenStatus, Closed
<1>3. /\ Opened(key, sev) \in IncidentRow
      /\ Opened(key, sev).status = "open" /\ Opened(key, sev).key = key
  BY DEF Opened, IncidentRow, OpenStatus, Closed
<1>4. row \in IncidentRow /\ row.status \in {"open", inc[i].status}
  BY <1>2, <1>3
<1>5. RowAfter(key, sev, i, status) = IF status = "" THEN row ELSE [row EXCEPT !.status = status]
  BY DEF RowAfter
<1> HIDE DEF row
<1>6. CASE status = ""
  BY <1>4, <1>5, <1>6
<1>7. CASE status = "monitoring"
  <2>1. "monitoring" \in IncidentStatuses
    BY DEF IncidentStatuses, OpenStatus
  <2> QED
    BY <1>4, <1>5, <1>7, <2>1, RowWritten
<1> QED
  BY <1>6, <1>7

(* A signal goes to an active row or to a new one.                         *)
LEMMA SignalTarget ==
  ASSUME NEW s, NEW k, NEW sev, NEW i, NEW status, Upsert(s, k, sev, i, status)
  PROVE  inc[i].status \notin Closed \cup {"gone"}
BY DEF Upsert, ActiveWith, Active, OpenStatus, Closed

(* A signal joins or opens a row, and rows of closed incidents may go with *)
(* everything that hangs on them.                                          *)
LEMMA SignalStored ==
  ASSUME TypeOK, NEW s \in Signals, NEW k \in Keys \cup {SensorKey}, NEW sev \in {"low", "high"},
         NEW i \in Incidents, NEW status \in {"", "monitoring"}, Upsert(s, k, sev, i, status)
  PROVE  /\ TypeOK'
         /\ UNCHANGED <<st, of, ran>>
         /\ \A j \in Incidents : j # i => inc'[j] = inc[j] \/ inc'[j].status = "gone"
         /\ inc'[i].status \in {"gone", "open", "monitoring", inc[i].status}
         /\ \A v \in Investigations :
              \/ inv'[v] = inv[v] /\ plan'[v] = plan[v]
              \/ /\ inv'[v].status = "gone" /\ plan'[v] = NoPlan
                 /\ inc'[inv[v].of].status = "gone"
<1> DEFINE key  == KeyFor(k)
           row  == RowAfter(key, sev, i, status)
           rows == [inc EXCEPT ![i] = row]
<1>1. inc[i] \in IncidentRow
  BY DEF TypeOK
<1>2. key \in Keys \cup {SensorKey, CapacityKey}
  BY DEF KeyFor
<1>3. /\ row \in IncidentRow
      /\ row.status \in {"open", "monitoring", inc[i].status}
  BY <1>1, <1>2, RowAfterSignal
<1>5. PICK gone \in Excess(rows) :
        /\ inc'  = [j \in Incidents |-> IF j \in gone
                                          THEN [rows[j] EXCEPT !.status = "gone"] ELSE rows[j]]
        /\ inv'  = [v \in Investigations |-> IF inv[v].of \in gone
                                               THEN [inv[v] EXCEPT !.status = "gone"] ELSE inv[v]]
        /\ plan' = [v \in Investigations |-> IF inv[v].of \in gone THEN NoPlan ELSE plan[v]]
  BY DEF Upsert
<1>6. rows \in [Incidents -> IncidentRow]
  BY <1>3 DEF TypeOK
<1>7. rows[i] = row /\ \A j \in Incidents \ {i} : rows[j] = inc[j]
  BY DEF TypeOK
<1>8. "gone" \in IncidentStatuses
  BY DEF IncidentStatuses
<1>9. gone \subseteq Incidents
  BY <1>5 DEF Excess
<1> HIDE DEF row, rows, key
<1>10. \A j \in Incidents : /\ [rows[j] EXCEPT !.status = "gone"] \in IncidentRow
                            /\ [rows[j] EXCEPT !.status = "gone"].status = "gone"
  BY <1>6, <1>8, RowWritten
<1>11. inc'[i].status \in {"gone", "open", "monitoring", inc[i].status}
  <2>1. CASE i \in gone
    BY <1>5, <1>10, <2>1
  <2>2. CASE i \notin gone
    BY <1>3, <1>5, <1>7, <2>2
  <2> QED
    BY <2>1, <2>2
<1>12. \A v \in Investigations :
        \/ inv'[v] = inv[v] /\ plan'[v] = plan[v]
        \/ /\ inv'[v].status = "gone" /\ plan'[v] = NoPlan
           /\ inc'[inv[v].of].status = "gone"
  <2> TAKE v \in Investigations
  <2>1. CASE inv[v].of \in gone
    <3>1. inv[v].of \in Incidents
      BY <1>9, <2>1
    <3> QED
      <4>1. inv'[v].status = "gone"
        BY <1>5, <2>1, InvestigationWritten DEF TypeOK
      <4>2. inc'[inv[v].of].status = "gone"
        <5>1. inc'[inv[v].of] = [rows[inv[v].of] EXCEPT !.status = "gone"]
          BY <1>5, <2>1, <3>1, ZenonT(60)
        <5> QED
          BY <1>10, <3>1, <5>1
      <4> QED
        BY <1>5, <2>1, <4>1, <4>2, ZenonT(60)
  <2>2. CASE inv[v].of \notin gone
    BY <1>5, <2>2
  <2> QED
    BY <2>1, <2>2
<1>13. TypeOK'
  <2>1. inc' \in [Incidents -> IncidentRow]
    BY <1>5, <1>6, <1>10
  <2>2. inv' \in [Investigations -> InvestigationRow]
    <3>1. \A v \in Investigations : [inv[v] EXCEPT !.status = "gone"] \in InvestigationRow
      BY InvestigationWritten DEF TypeOK
    <3>2. inv' = [v \in Investigations |-> IF inv[v].of \in gone
                                              THEN [inv[v] EXCEPT !.status = "gone"] ELSE inv[v]]
      BY <1>5
    <3> QED
      BY <3>1, <3>2, ZenonT(60) DEF TypeOK
  <2>3. plan' \in [Investigations -> PlanRow]
    BY <1>5 DEF TypeOK, NoPlan, PlanRow
  <2> QED
    BY <2>1, <2>2, <2>3 DEF TypeOK, Upsert
<1>14. UNCHANGED <<st, of, ran>>
  BY DEF Upsert
<1>15. \A j \in Incidents : j # i => inc'[j] = inc[j] \/ inc'[j].status = "gone"
  <2> TAKE j \in Incidents
  <2>1. CASE j \in gone
    BY <1>5, <1>10, <2>1
  <2>2. CASE j \notin gone
    BY <1>5, <1>7, <2>2
  <2> QED
    BY <2>1, <2>2
<1> QED
  BY <1>11, <1>12, <1>13, <1>14, <1>15

(* Bringing a plan up to date writes its status and its incident's.        *)
Verdicts == {"failed", "executing", "completed", "approved"}
LEMMA PlanSynced ==
  ASSUME TypeOK, NEW a \in Actions, SyncResponsePlan(a)
  PROVE  \/ UNCHANGED <<plan, inc>>
         \/ \E v \in PlansOf(a), verdict \in Verdicts :
              /\ verdict = PlanVerdict(plan[v], st')
              /\ verdict # plan[v].status
              /\ plan' = [plan EXCEPT ![v].status = verdict]
              /\ SetStatus(inv[v].of, IncidentFor(verdict))
              /\ IncidentFor(verdict) \in {"open", "monitoring", "responding", "awaiting_approval"}
<1>1. ASSUME NEW verdict \in Verdicts
      PROVE  IncidentFor(verdict) \in {"open", "monitoring", "responding", "awaiting_approval"}
  BY DEF Verdicts, IncidentFor
<1>2. ASSUME NEW v \in Investigations
      PROVE  PlanVerdict(plan[v], st') \in Verdicts
  BY DEF PlanVerdict, Verdicts
<1>3. SUFFICES ASSUME ~UNCHANGED <<plan, inc>>
               PROVE  \E v \in PlansOf(a), verdict \in Verdicts :
                        /\ verdict = PlanVerdict(plan[v], st')
                        /\ verdict # plan[v].status
                        /\ plan' = [plan EXCEPT ![v].status = verdict]
                        /\ SetStatus(inv[v].of, IncidentFor(verdict))
                        /\ IncidentFor(verdict)
                             \in {"open", "monitoring", "responding", "awaiting_approval"}
  OBVIOUS
<1>4. PICK v \in PlansOf(a) :
        /\ PlanVerdict(plan[v], st') # plan[v].status
        /\ plan' = [plan EXCEPT ![v].status = PlanVerdict(plan[v], st')]
        /\ SetStatus(inv[v].of, IncidentFor(PlanVerdict(plan[v], st')))
  BY <1>3 DEF SyncResponsePlan
<1>5. v \in Investigations
  BY DEF PlansOf
<1> QED
  BY <1>1, <1>2, <1>4, <1>5

(* A step of a plan gets a new action.                                     *)
LEMMA LinkWritten ==
  ASSUME TypeOK, NEW v \in Investigations, NEW s \in Steps, NEW a \in Actions,
         CreateActionFromResponsePlan(v, s, a)
  PROVE  /\ plan' \in [Investigations -> PlanRow]
         /\ plan'[v].status = "approved" /\ plan'[v].steps = plan[v].steps
         /\ plan'[v].link[s] = a
         /\ \A w \in Investigations : w # v => plan'[w] = plan[w]
         /\ \A t \in Steps : t # s => plan'[v].link[t] = plan[v].link[t]
<1> DEFINE link == [plan[v].link EXCEPT ![s] = a]
           row  == [status |-> "approved", steps |-> plan[v].steps, link |-> link]
<1>1. /\ plan[v] \in PlanRow
      /\ plan[v] = [status |-> plan[v].status, steps |-> plan[v].steps, link |-> plan[v].link]
  BY DEF TypeOK, PlanRow
<1>2. link \in [Steps -> Actions \cup {Nobody}] /\ link[s] = a
        /\ \A t \in Steps : t # s => link[t] = plan[v].link[t]
  BY <1>1 DEF PlanRow
<1> plan' = [plan EXCEPT ![v].status = "approved", ![v].link[s] = a]
  BY DEF CreateActionFromResponsePlan
<1>3. plan'[v] = row
  BY <1>1 DEF TypeOK, PlanRow
<1>4. \A w \in Investigations : w # v => plan'[w] = plan[w]
  BY DEF TypeOK
<1>5. plan' \in [Investigations -> {plan'[w] : w \in Investigations}]
  BY DEF TypeOK
<1> HIDE DEF link, row
<1>6. row \in PlanRow
  BY <1>1, <1>2 DEF PlanRow, row
<1> QED
  <2>1. plan' \in [Investigations -> PlanRow]
    BY <1>3, <1>4, <1>5, <1>6 DEF TypeOK
  <2>2. row.status = "approved" /\ row.steps = plan[v].steps /\ row.link = link
    BY DEF row
  <2> QED
    BY <1>2, <1>3, <1>4, <2>1, <2>2

(* A new investigation takes its incident.                                 *)
LEMMA InvestigationCreated ==
  ASSUME TypeOK, NEW i \in Incidents, NEW v \in Investigations,
         NEW by \in {"administrator", "policy_grant"}, CreateInvestigation(i, v, by)
  PROVE  /\ inc' \in [Incidents -> IncidentRow]
         /\ inv' \in [Investigations -> InvestigationRow]
         /\ inv[v].status = "none"
         /\ inv'[v].status = "running" /\ inv'[v].of = i
         /\ \A w \in Investigations : w # v => inv'[w] = inv[w]
         /\ inc[i].status \in {"open", "monitoring"} /\ inc'[i].status = "investigating"
         /\ \A j \in Incidents : j # i => inc'[j] = inc[j]
<1>1. inc[i] \in IncidentRow
  BY DEF TypeOK
<1>2. /\ inc' = [inc EXCEPT ![i] =
                   [inc[i] EXCEPT !.status = "investigating", !.tried = TRUE, !.news = FALSE]]
      /\ inv' = [inv EXCEPT ![v] = [status |-> "running", of |-> i, by |-> by,
                                    stale |-> FALSE, live |-> "reading"]]
      /\ inv[v].status = "none" /\ inc[i].status \in {"open", "monitoring"}
  BY DEF CreateInvestigation, TypeOK
<1>3. /\ [inc[i] EXCEPT !.status = "investigating", !.tried = TRUE, !.news = FALSE] \in IncidentRow
      /\ [inc[i] EXCEPT !.status = "investigating", !.tried = TRUE, !.news = FALSE].status
           = "investigating"
  BY <1>1 DEF IncidentRow, OpenStatus
<1>4. [status |-> "running", of |-> i, by |-> by, stale |-> FALSE, live |-> "reading"]
        \in InvestigationRow
  BY DEF InvestigationRow
<1> QED
  BY <1>2, <1>3, <1>4 DEF TypeOK

-----------------------------------------------------------------------------
(* The rows keep the types of their columns.                               *)

(* Signals, investigations, administrators, plans: no operation leaves a   *)
(* row with a value its column does not admit.                             *)
LEMMA TypePreserved ==
  TypeOK /\ [Next]_vars => TypeOK'
<1> SUFFICES ASSUME TypeOK, [Next]_vars
             PROVE  TypeOK'
  OBVIOUS
<1>1. CASE Signal
  BY <1>1, SignalStored DEF Signal, ReceiveSignal, SensorRestored
<1>2. CASE Investigate
  <2>1. ASSUME NEW i \in Incidents, NEW v \in Investigations, InvestigateIncident(i, v)
        PROVE  TypeOK'
    BY <2>1, InvestigationCreated DEF InvestigateIncident, TypeOK
  <2>2. ASSUME NEW i \in Incidents, WorkerPick(i)
        PROVE  TypeOK'
    BY <2>2 DEF WorkerPick, TypeOK
  <2>3. ASSUME NEW v \in Investigations, WorkerClaim(v)
        PROVE  TypeOK'
    <3>1. worker \in Incidents
      BY <2>3 DEF WorkerClaim, TypeOK
    <3> QED
      BY <2>3, <3>1, InvestigationCreated DEF WorkerClaim, TypeOK
  <2>4. ASSUME NEW v \in Investigations, CollectContext(v)
        PROVE  TypeOK'
    <3>1. inv' \in [Investigations -> InvestigationRow]
      <4>1. [inv[v] EXCEPT !.live = "calling"] \in InvestigationRow
        BY InvestigationTouched DEF TypeOK
      <4> QED
        BY <2>4, <4>1 DEF CollectContext, TypeOK
    <3>2. inc' \in [Incidents -> IncidentRow]
      <4>1. \A i \in Incidents : [inc[i] EXCEPT !.unread = FALSE] \in IncidentRow
        BY RowRead DEF TypeOK, IncidentStatuses
      <4> QED
        BY <2>4, <4>1 DEF CollectContext, TypeOK
    <3> QED
      BY <2>4, <3>1, <3>2 DEF CollectContext, TypeOK
  <2>5. ASSUME NEW v \in Investigations, Disowned(v)
        PROVE  TypeOK'
    <3>1. inv' \in [Investigations -> InvestigationRow]
      <4>1. [inv[v] EXCEPT !.live = "none"] \in InvestigationRow
        BY InvestigationTouched DEF TypeOK
      <4> QED
        BY <2>5, <4>1 DEF Disowned, TypeOK
    <3> QED
      BY <2>5, <3>1 DEF Disowned, TypeOK
  <2>6. ASSUME NEW v \in Investigations, NEW steps \in SUBSET Steps, CompleteInvestigation(v, steps)
        PROVE  TypeOK'
    <3>1. inv' \in [Investigations -> InvestigationRow]
      <4>1. [inv[v] EXCEPT !.live = "none"] \in InvestigationRow
        BY InvestigationTouched DEF TypeOK
      <4>2. [inv[v] EXCEPT !.status = "completed", !.live = "none"] \in InvestigationRow
        BY InvestigationWritten DEF TypeOK
      <4> QED
        BY <2>6, <4>1, <4>2 DEF CompleteInvestigation, TypeOK
    <3>2. inc' \in [Incidents -> IncidentRow]
      <4>1. ConclusionStatus(steps) \in IncidentStatuses
        BY DEF ConclusionStatus, IncidentStatuses, OpenStatus
      <4>2. inc' \in {inc, [inc EXCEPT ![inv[v].of].status = ConclusionStatus(steps),
                                        ![inv[v].of].news = FALSE]}
        BY <2>6 DEF CompleteInvestigation
      <4> QED
        BY <4>1, <4>2, SMTT(40) DEF TypeOK, IncidentRow, IncidentStatuses
    <3>3. plan' \in [Investigations -> PlanRow]
      <4>1. [plan[v] EXCEPT !.status = "proposed", !.steps = steps] \in PlanRow
        BY PlanProposed DEF TypeOK
      <4> QED
        BY <2>6, <4>1 DEF CompleteInvestigation, TypeOK
    <3> QED
      BY <2>6, <3>1, <3>2, <3>3 DEF CompleteInvestigation, TypeOK
  <2>7. ASSUME NEW v \in Investigations, FailInvestigation(v)
        PROVE  TypeOK'
    <3>1. inv' \in [Investigations -> InvestigationRow]
      <4>1. [inv[v] EXCEPT !.status = "failed", !.live = "none"] \in InvestigationRow
        BY InvestigationWritten DEF TypeOK
      <4> QED
        BY <2>7, <4>1, SMTT(40) DEF FailInvestigation, TypeOK
    <3>2. inc' \in [Incidents -> IncidentRow]
      <4>1. inv[v].of \in Incidents => [inc[inv[v].of] EXCEPT !.status = "open"] \in IncidentRow
        BY RowWritten DEF TypeOK, IncidentStatuses, OpenStatus
      <4>2. inc' \in {inc, [inc EXCEPT ![inv[v].of].status = "open"]}
        BY <2>7 DEF FailInvestigation, Reopened
      <4> QED
        BY <4>1, <4>2 DEF TypeOK
    <3> QED
      BY <2>7, <3>1, <3>2 DEF FailInvestigation, TypeOK
  <2>8. ASSUME NEW v \in Investigations, LeaseEnds(v)
        PROVE  TypeOK'
    <3>1. inv' \in [Investigations -> InvestigationRow]
      <4>1. [inv[v] EXCEPT !.stale = TRUE] \in InvestigationRow
        BY InvestigationTouched DEF TypeOK
      <4> QED
        BY <2>8, <4>1 DEF LeaseEnds, TypeOK
    <3> QED
      BY <2>8, <3>1 DEF LeaseEnds, TypeOK
  <2>9. CASE WorkerSkip
    BY <2>9 DEF WorkerSkip, TypeOK
  <2>10. CASE RecoverStaleInvestigations
    <3>1. inv' \in [Investigations -> InvestigationRow]
      <4>1. \A v \in Investigations : [inv[v] EXCEPT !.status = "failed"] \in InvestigationRow
        BY InvestigationWritten DEF TypeOK
      <4> QED
        BY <2>10, <4>1 DEF RecoverStaleInvestigations, TypeOK
    <3>2. inc' \in [Incidents -> IncidentRow]
      <4>1. \A i \in Incidents : Reopened(inc, i)[i] \in IncidentRow
        BY DEF Reopened, TypeOK, IncidentRow, OpenStatus
      <4> QED
        BY <2>10, <4>1 DEF RecoverStaleInvestigations, TypeOK
    <3> QED
      BY <2>10, <3>1, <3>2 DEF RecoverStaleInvestigations, TypeOK
  <2>11. CASE Restart
    <3>1. inv' \in [Investigations -> InvestigationRow]
      BY <2>11, InvestigationTouched DEF Restart, TypeOK
    <3> QED
      BY <2>11, <3>1 DEF Restart, TypeOK
  <2> QED
    BY <1>2, <2>1, <2>2, <2>3, <2>4, <2>5, <2>6, <2>7, <2>8, <2>9, <2>10, <2>11 DEF Investigate
<1>3. CASE Administer
  <2>1. ASSUME NEW i \in Incidents, NEW status \in {"open", "resolved", "dismissed"},
               UpdateIncident(i, status)
        PROVE  TypeOK'
    <3>1. status \in IncidentStatuses
      BY DEF IncidentStatuses, OpenStatus, Closed
    <3>2. inc' \in [Incidents -> IncidentRow]
      BY <2>1, <3>1, StatusWritten DEF UpdateIncident, TypeOK
    <3> QED
      BY <2>1, <3>2 DEF UpdateIncident, TypeOK
  <2>2. ASSUME NEW m \in {"off", "serious", "all"} \ {mode}, PutPolicyGrant(m)
        PROVE  TypeOK'
    BY <2>2 DEF PutPolicyGrant, TypeOK
  <2> QED
    BY <1>3, <2>1, <2>2 DEF Administer
<1>4. CASE Respond
  <2>1. ASSUME NEW v \in Investigations, NEW s \in Steps, NEW a \in Actions,
               CreateActionFromResponsePlan(v, s, a)
        PROVE  TypeOK'
    <3>1. "awaiting_approval" \in IncidentStatuses
      BY DEF IncidentStatuses, OpenStatus
    <3>2. inc' \in [Incidents -> IncidentRow]
      BY <2>1, <3>1, StatusWritten DEF CreateActionFromResponsePlan, TypeOK
    <3>3. st' \in [Actions -> AnyStatus]
      BY <2>1 DEF CreateActionFromResponsePlan, TypeOK, AnyStatus, Ended
    <3>4. plan' \in [Investigations -> PlanRow]
      BY <2>1, LinkWritten
    <3>5. of' \in [Actions -> (Investigations \X Steps) \cup {Nobody}]
      BY <2>1 DEF CreateActionFromResponsePlan, TypeOK
    <3> QED
      BY <2>1, <3>2, <3>3, <3>4, <3>5 DEF CreateActionFromResponsePlan, TypeOK
  <2>2. ASSUME NEW a \in Actions, ApproveActionAndEnqueue(a)
        PROVE  TypeOK'
    <3>1. "responding" \in IncidentStatuses
      BY DEF IncidentStatuses, OpenStatus
    <3>2. inc' \in [Incidents -> IncidentRow]
      BY <2>2, <3>1, StatusWritten DEF ApproveActionAndEnqueue, TypeOK
    <3>3. st' \in [Actions -> AnyStatus]
      BY <2>2 DEF ApproveActionAndEnqueue, TypeOK, AnyStatus, InFlight
    <3>4. plan' \in [Investigations -> PlanRow]
      <4>1. \A v \in Investigations : [plan[v] EXCEPT !.status = "executing"] \in PlanRow
        BY PlanWritten DEF TypeOK
      <4> QED
        BY <2>2, <4>1 DEF ApproveActionAndEnqueue, TypeOK
    <3> QED
      BY <2>2, <3>2, <3>3, <3>4 DEF ApproveActionAndEnqueue, TypeOK
  <2>3. ASSUME NEW a \in Actions, NEW status \in AnyStatus, RecordResult(a, status)
        PROVE  TypeOK'
    <3>1. st' \in [Actions -> AnyStatus]
      BY <2>3 DEF RecordResult, TypeOK
    <3>2. SyncResponsePlan(a)
      BY <2>3 DEF RecordResult
    <3>3. CASE UNCHANGED <<plan, inc>>
      BY <2>3, <3>1, <3>3 DEF RecordResult, TypeOK
    <3>4. ASSUME NEW v \in Investigations, NEW verdict \in Verdicts,
                 plan' = [plan EXCEPT ![v].status = verdict],
                 SetStatus(inv[v].of, IncidentFor(verdict)),
                 IncidentFor(verdict) \in {"open", "monitoring", "responding", "awaiting_approval"}
          PROVE  TypeOK'
      <4>1. IncidentFor(verdict) \in IncidentStatuses
        BY <3>4 DEF IncidentStatuses, OpenStatus
      <4>2. inc' \in [Incidents -> IncidentRow]
        BY <3>4, <4>1, StatusWritten DEF TypeOK
      <4>3. plan' \in [Investigations -> PlanRow]
        <5>1. [plan[v] EXCEPT !.status = verdict] \in PlanRow
          BY PlanWritten DEF TypeOK, Verdicts
        <5> QED
          BY <3>4, <5>1 DEF TypeOK
      <4> QED
        BY <2>3, <3>1, <4>2, <4>3 DEF RecordResult, TypeOK
    <3> QED
      BY <3>2, <3>3, <3>4, PlanSynced DEF PlansOf
  <2>4. ASSUME NEW a \in Actions, NEW status \in AnyStatus, MoveAction(a, status)
        PROVE  TypeOK'
    BY <2>4 DEF MoveAction, TypeOK
  <2> QED
    BY <1>4, <2>1, <2>2, <2>3, <2>4 DEF Respond
<1>5. CASE UNCHANGED vars
  BY <1>5 DEF vars, TypeOK
<1> QED
  BY <1>1, <1>2, <1>3, <1>4, <1>5 DEF Next
(* Every reachable state has rows of the right types.                      *)
THEOREM TypesCorrect ==
  Spec => []TypeOK
<1>1. Init => TypeOK
  BY DEF Init, AllAbsent, TypeOK, IncidentRow, InvestigationRow, PlanRow, NoPlan, AnyStatus
<1> QED
  BY <1>1, TypePreserved, PTL DEF Spec

-----------------------------------------------------------------------------
(* Incidents under investigation.                                          *)

(* No operation marks an incident as under investigation without a lease,  *)
(* or takes the lease away and leaves the mark.                            *)
LEMMA LeasePreserved ==
  TypeOK /\ InvestigatingHasLease /\ [Next]_vars => InvestigatingHasLease'
<1> SUFFICES ASSUME TypeOK, InvestigatingHasLease, [Next]_vars,
                    NEW i \in Incidents, inc'[i].status = "investigating"
             PROVE  \E v \in Investigations : inv'[v].status = "running" /\ inv'[v].of = i
  BY DEF InvestigatingHasLease, Running
<1>1. inc[i].status = "investigating" =>
        \E v \in Investigations : inv[v].status = "running" /\ inv[v].of = i
  BY DEF InvestigatingHasLease, Running
<1>2. ASSUME inv' = inv, inc'[i].status = inc[i].status
      PROVE  \E v \in Investigations : inv'[v].status = "running" /\ inv'[v].of = i
  BY <1>1, <1>2
<1>3. ASSUME NEW s \in IncidentStatuses \ {"investigating"}, inv' = inv,
             NEW j, SetStatus(j, s)
      PROVE  \E v \in Investigations : inv'[v].status = "running" /\ inv'[v].of = i
  <2>1. inc'[i] \in {inc[i], [inc[i] EXCEPT !.status = s]} /\ inc[i] \in IncidentRow
    BY <1>3, StatusWritten DEF TypeOK
  <2>2. [inc[i] EXCEPT !.status = s].status = s /\ s # "investigating"
    BY <2>1, RowWritten
  <2>3. inc'[i] = inc[i]
    BY <2>1, <2>2
  <2> QED
    BY <1>2, <1>3, <2>3
<1>4. CASE Signal
  <2>1. PICK s \in Signals, k \in Keys \cup {SensorKey}, sev \in {"low", "high"}, j \in Incidents,
             status \in {"", "monitoring"} : Upsert(s, k, sev, j, status)
    BY <1>4 DEF Signal, ReceiveSignal, SensorRestored
  <2>2. inc[i].status = "investigating"
    BY <2>1, SignalStored
  <2>3. PICK v \in Investigations : inv[v].status = "running" /\ inv[v].of = i
    BY <1>1, <2>2
  <2>4. inv'[v] = inv[v]
    BY <2>1, <2>3, SignalStored
  <2> QED
    BY <2>3, <2>4
<1>5. CASE Investigate
  <2>1. ASSUME NEW j \in Incidents, NEW v \in Investigations,
               NEW by \in {"administrator", "policy_grant"}, CreateInvestigation(j, v, by)
        PROVE  \E w \in Investigations : inv'[w].status = "running" /\ inv'[w].of = i
    <3>1. CASE i = j
      BY <2>1, <3>1, InvestigationCreated
    <3>2. CASE i # j
      <4>1. inc'[i] = inc[i]
        BY <2>1, <3>2, InvestigationCreated
      <4>2. PICK w \in Investigations : inv[w].status = "running" /\ inv[w].of = i
        BY <1>1, <4>1
      <4>3. inv'[w] = inv[w]
        BY <2>1, <4>2, InvestigationCreated
      <4> QED
        BY <4>2, <4>3
    <3> QED
      BY <3>1, <3>2
  <2>2. ASSUME NEW j \in Incidents, WorkerPick(j)
        PROVE  inv' = inv /\ inc' = inc
    BY <2>2 DEF WorkerPick
  <2>3. ASSUME NEW v \in Investigations, WorkerClaim(v)
        PROVE  worker \in Incidents /\ CreateInvestigation(worker, v, "policy_grant")
    BY <2>3 DEF WorkerClaim, TypeOK
  <2>4. ASSUME NEW v \in Investigations, CollectContext(v) \/ Disowned(v) \/ LeaseEnds(v)
        PROVE  /\ inc'[i].status = inc[i].status
               /\ \A w \in Investigations : /\ inv'[w].status = inv[w].status
                                            /\ inv'[w].of = inv[w].of
    <3>1. CASE CollectContext(v)
      BY <3>1 DEF CollectContext, TypeOK, IncidentRow, InvestigationRow
    <3>2. CASE Disowned(v)
      BY <3>2 DEF Disowned, TypeOK, InvestigationRow
    <3>3. CASE LeaseEnds(v)
      BY <3>3 DEF LeaseEnds, TypeOK, InvestigationRow
    <3> QED
      BY <2>4, <3>1, <3>2, <3>3
  <2>5. ASSUME NEW v \in Investigations, NEW steps \in SUBSET Steps, CompleteInvestigation(v, steps)
        PROVE  \E w \in Investigations : inv'[w].status = "running" /\ inv'[w].of = i
    <3>1. CASE ~Fits(inv[v].of, ConclusionStatus(steps))
      <4>1. inc' = inc /\ \A w \in Investigations : /\ inv'[w].status = inv[w].status
                                                    /\ inv'[w].of = inv[w].of
        BY <2>5, <3>1 DEF CompleteInvestigation, TypeOK, InvestigationRow
      <4> QED
        BY <1>1, <4>1
    <3>2. CASE Fits(inv[v].of, ConclusionStatus(steps))
      <4>1. /\ inv[v].of = i => inc'[i].status = ConclusionStatus(steps)
            /\ inv[v].of # i => inc'[i] = inc[i]
            /\ \A w \in Investigations : w # v => inv'[w] = inv[w]
        BY <2>5, <3>2 DEF CompleteInvestigation, TypeOK, IncidentRow
      <4>2. ConclusionStatus(steps) # "investigating"
        BY DEF ConclusionStatus
      <4> QED
        BY <1>1, <4>1, <4>2
    <3> QED
      BY <3>1, <3>2
  <2>6. ASSUME NEW v \in Investigations, FailInvestigation(v)
        PROVE  \E w \in Investigations : inv'[w].status = "running" /\ inv'[w].of = i
    <3>1. /\ inv[v].of # i => inc'[i] = inc[i]
          /\ inv[v].of = i => inc'[i].status # "investigating"
          /\ \A w \in Investigations : w # v => inv'[w] = inv[w]
      BY <2>6 DEF FailInvestigation, Reopened, TypeOK, IncidentRow
    <3> QED
      BY <1>1, <3>1
  <2>7. CASE RecoverStaleInvestigations
    <3> DEFINE stale == {v \in Investigations : Running(v) /\ inv[v].stale}
               hit   == {inv[v].of : v \in stale}
    <3>1. /\ inv' = [v \in Investigations |-> IF v \in stale THEN [inv[v] EXCEPT !.status = "failed"]
                                                             ELSE inv[v]]
          /\ inc' = [j \in Incidents |-> IF j \in hit THEN Reopened(inc, j)[j] ELSE inc[j]]
      BY <2>7 DEF RecoverStaleInvestigations
    <3>2. i \notin hit
      <4>1. Reopened(inc, i)[i].status # "investigating"
        BY DEF Reopened, TypeOK, IncidentRow
      <4> QED
        BY <3>1, <4>1
    <3>3. PICK v \in Investigations : inv[v].status = "running" /\ inv[v].of = i
      BY <1>1, <3>1, <3>2
    <3>4. v \notin stale
      BY <3>2, <3>3
    <3> QED
      BY <3>1, <3>3, <3>4
  <2>8. CASE WorkerSkip
    BY <1>2, <2>8 DEF WorkerSkip
  <2>9. CASE Restart
    <3>1. inc' = inc /\ \A w \in Investigations : /\ inv'[w].status = inv[w].status
                                                  /\ inv'[w].of = inv[w].of
      BY <2>9 DEF Restart, TypeOK, InvestigationRow
    <3> QED
      BY <1>1, <3>1
  <2> QED
    BY <1>1, <1>5, <2>1, <2>2, <2>3, <2>4, <2>5, <2>6, <2>7, <2>8, <2>9
       DEF Investigate, InvestigateIncident
<1>6. CASE Administer
  <2>1. ASSUME NEW j \in Incidents, NEW status \in {"open", "resolved", "dismissed"},
               UpdateIncident(j, status)
        PROVE  \E v \in Investigations : inv'[v].status = "running" /\ inv'[v].of = i
    <3>1. status \in IncidentStatuses \ {"investigating"}
      BY DEF IncidentStatuses, OpenStatus, Closed
    <3> QED
      BY <1>3, <2>1, <3>1 DEF UpdateIncident, TypeOK
  <2> QED
    BY <1>2, <1>6, <2>1 DEF Administer, PutPolicyGrant
<1>7. CASE Respond
  <2>1. {"open", "monitoring", "responding", "awaiting_approval"}
          \subseteq IncidentStatuses \ {"investigating"}
    BY DEF IncidentStatuses, OpenStatus
  <2>2. ASSUME NEW a \in Actions, NEW status \in AnyStatus, RecordResult(a, status)
        PROVE  \E v \in Investigations : inv'[v].status = "running" /\ inv'[v].of = i
    <3>1. SyncResponsePlan(a) /\ inv' = inv
      BY <2>2 DEF RecordResult
    <3> QED
      BY <1>2, <1>3, <2>1, <3>1, PlanSynced DEF PlansOf, TypeOK
  <2> QED
    BY <1>2, <1>3, <1>7, <2>1, <2>2
       DEF Respond, CreateActionFromResponsePlan, ApproveActionAndEnqueue, MoveAction, TypeOK
<1>8. CASE UNCHANGED vars
  BY <1>2, <1>8 DEF vars
<1> QED
  BY <1>4, <1>5, <1>6, <1>7, <1>8 DEF Next

(* An incident under investigation has a running investigation in every    *)
(* reachable state: an answer, a failure or the end of the lease will      *)
(* release it.                                                             *)
THEOREM LeasesHeld ==
  Spec => []InvestigatingHasLease
<1>1. Init => InvestigatingHasLease
  BY DEF Init, InvestigatingHasLease
<1> QED
  BY <1>1, LeasePreserved, TypesCorrect, PTL DEF Spec

-----------------------------------------------------------------------------
(* Plans and the actions of their steps.                                   *)

(* What the three properties of plans and actions rest on: only a plan     *)
(* that was proposed has links; an action was approved in an audited       *)
(* transaction or is not under way; and the last action of a step that was *)
(* not cancelled is the one the plan links to, as long as there is a plan. *)
Kept(a) == st[a] \notin {"absent", "cancelled"}
LinkedIsProposed ==
  \A v \in Investigations, s \in Steps : plan[v].link[s] # Nobody => plan[v].status # "none"
ApprovedIsRan ==
  \A a \in Actions : st[a] \notin {"absent", "draft", "cancelled"} => a \in ran
RanIsApproved ==
  \A a \in ran : st[a] \notin {"absent", "draft"}
KeptIsLinked ==
  \A a \in Actions, v \in Investigations, s \in Steps :
    Kept(a) /\ of[a] = <<v, s>> =>
      /\ inv[v].status \in {"completed", "gone"}
      /\ plan[v].status = "none" \/ plan[v].link[s] = a
OneKept ==
  \A a, b \in Actions : Kept(a) /\ Kept(b) /\ of[a] = of[b] /\ of[a] # Nobody => a = b
PlanInv ==
  /\ LinkedIsProposed /\ ApprovedIsRan /\ RanIsApproved
  /\ PlanHasConclusion /\ CompletedPlanRan
  /\ KeptIsLinked /\ OneKept

(* What a step of an investigation can do to plans.                        *)
LEMMA InvestigateEffect ==
  ASSUME TypeOK, Investigate
  PROVE  /\ UNCHANGED <<st, of, ran>>
         /\ \A v \in Investigations :
              \/ plan'[v] = plan[v] /\ inv'[v].status = inv[v].status
              \/ plan'[v] = plan[v] /\ inv[v].status \in {"none", "running"}
              \/ inv[v].status = "running" /\ inv'[v].status = "completed"
                   /\ plan'[v].status = "proposed"
<1> DEFINE Effect ==
             /\ UNCHANGED <<st, of, ran>>
             /\ \A v \in Investigations :
                  \/ plan'[v] = plan[v] /\ inv'[v].status = inv[v].status
                  \/ plan'[v] = plan[v] /\ inv[v].status \in {"none", "running"}
                  \/ inv[v].status = "running" /\ inv'[v].status = "completed"
                       /\ plan'[v].status = "proposed"
<1>1. ASSUME NEW i \in Incidents, NEW v \in Investigations,
             NEW by \in {"administrator", "policy_grant"}, CreateInvestigation(i, v, by),
             UNCHANGED <<st, of, ran, plan>>
      PROVE  Effect
  BY <1>1, InvestigationCreated
<1>2. ASSUME NEW i \in Incidents, NEW v \in Investigations, InvestigateIncident(i, v)
      PROVE  Effect
  BY <1>1, <1>2 DEF InvestigateIncident
<1>3. ASSUME NEW i \in Incidents, WorkerPick(i)
      PROVE  Effect
  BY <1>3 DEF WorkerPick
<1>4. ASSUME NEW v \in Investigations, WorkerClaim(v)
      PROVE  Effect
  BY <1>1, <1>4 DEF WorkerClaim, TypeOK
<1>5. ASSUME NEW v \in Investigations, CollectContext(v) \/ Disowned(v) \/ LeaseEnds(v)
      PROVE  Effect
  <2>1. \A w \in Investigations : /\ [inv[w] EXCEPT !.live = "calling"].status = inv[w].status
                                  /\ [inv[w] EXCEPT !.live = "none"].status = inv[w].status
                                  /\ [inv[w] EXCEPT !.stale = TRUE].status = inv[w].status
    BY InvestigationTouched DEF TypeOK
  <2> QED
    BY <1>5, <2>1 DEF CollectContext, Disowned, LeaseEnds, TypeOK
<1>6. ASSUME NEW v \in Investigations, NEW steps \in SUBSET Steps, CompleteInvestigation(v, steps)
      PROVE  Effect
  <2>1. inv[v].status = "running" /\ UNCHANGED <<st, of, ran>>
    BY <1>6 DEF CompleteInvestigation, Running
  <2>2. CASE ~Fits(inv[v].of, ConclusionStatus(steps))
    BY <1>6, <2>1, <2>2 DEF CompleteInvestigation, TypeOK, InvestigationRow
  <2>3. CASE Fits(inv[v].of, ConclusionStatus(steps))
    <3>1. /\ inv' = [inv EXCEPT ![v].status = "completed", ![v].live = "none"]
          /\ plan' \in {plan, [plan EXCEPT ![v].status = "proposed", ![v].steps = steps]}
      BY <1>6, <2>3 DEF CompleteInvestigation
    <3>2. /\ inv'[v].status = "completed"
          /\ \A w \in Investigations : w # v => inv'[w] = inv[w]
      BY <3>1 DEF TypeOK, InvestigationRow
    <3>3. plan'[v] = plan[v] \/ plan'[v].status = "proposed"
      BY <3>1 DEF TypeOK, PlanRow
    <3>4. \A w \in Investigations : w # v => plan'[w] = plan[w]
      BY <3>1 DEF TypeOK
    <3> QED
      BY <2>1, <3>2, <3>3, <3>4
  <2> QED
    BY <2>2, <2>3
<1>7. ASSUME NEW v \in Investigations, FailInvestigation(v)
      PROVE  Effect
  BY <1>7 DEF FailInvestigation, Running, TypeOK, InvestigationRow
<1>8. CASE WorkerSkip
  BY <1>8 DEF WorkerSkip
<1>9. CASE RecoverStaleInvestigations
  BY <1>9 DEF RecoverStaleInvestigations, Running, TypeOK, InvestigationRow
<1>10. CASE Restart
  BY <1>10 DEF Restart, TypeOK, InvestigationRow
<1> QED
  BY <1>2, <1>3, <1>4, <1>5, <1>6, <1>7, <1>8, <1>9, <1>10 DEF Investigate

(* Where the moves of an action may come from and lead to.                 *)
LEMMA MovesAfterApproval ==
  ASSUME NEW before, NEW after,
         \/ <<before, after>> \in Answered
         \/ <<before, after>> \in (Requested \cup Begun \cup GivenUp)
              \ {<<"absent", "draft">>, <<"absent", "approved">>, <<"draft", "approved">>}
  PROVE  /\ before \notin {"absent", "cancelled"}
         /\ before = "draft" => after = "cancelled"
         /\ after \notin {"absent", "draft"}
<1>1. CASE <<before, after>> \in Answered
  BY <1>1 DEF Answered
<1>2. CASE <<before, after>> \in Begun
  BY <1>2 DEF Begun
<1>3. CASE <<before, after>> \in GivenUp
  BY <1>3 DEF GivenUp
<1>4. CASE <<before, after>> \in Requested
             \ {<<"absent", "draft">>, <<"absent", "approved">>, <<"draft", "approved">>}
  BY <1>4 DEF Requested
<1> QED
  BY <1>1, <1>2, <1>3, <1>4
(* The parts are kept by a step that only moves one action and at most     *)
(* writes the status of one plan linked to it.                             *)
LEMMA MovePreservesPlans ==
  ASSUME TypeOK, PlanInv, NEW a \in Actions, NEW status \in AnyStatus,
         st' = [st EXCEPT ![a] = status],
         st[a] \notin {"absent", "cancelled"}, status \notin {"absent", "draft"},
         ran \subseteq ran',
         status # "cancelled" => a \in ran',
         ran' \subseteq ran \cup {a},
         UNCHANGED <<inv, of>>,
         plan' \in [Investigations -> PlanRow],
         \A v \in Investigations :
           \/ plan'[v] = plan[v]
           \/ /\ v \in PlansOf(a)
              /\ plan'[v].status # "none"
              /\ plan'[v].steps = plan[v].steps /\ plan'[v].link = plan[v].link
              /\ plan'[v].status = "completed" =>
                   \A s \in plan[v].steps : plan[v].link[s] \in Actions
                                              /\ st'[plan[v].link[s]] \in {"succeeded", "rolled_back"}
  PROVE  PlanInv'
<1>1. \A b \in Actions : Kept(b)' => Kept(b)
  BY DEF Kept, TypeOK
<1>2. \A v \in Investigations : plan'[v].link = plan[v].link /\ plan'[v].steps = plan[v].steps
  OBVIOUS
<1>3. \A v \in Investigations : plan'[v] # plan[v] => plan[v].status # "none"
  <2> SUFFICES ASSUME NEW v \in Investigations, plan'[v] # plan[v]
               PROVE  plan[v].status # "none"
    OBVIOUS
  <2>1. PICK s \in Steps : plan[v].link[s] = a
    BY DEF PlansOf
  <2> QED
    BY <2>1, NamesAssumption DEF PlanInv, LinkedIsProposed, NamesAssumption
<1>4. LinkedIsProposed'
  BY <1>2 DEF PlanInv, LinkedIsProposed
<1>5. ApprovedIsRan'
  BY DEF PlanInv, ApprovedIsRan, TypeOK
<1>6. RanIsApproved'
  BY DEF PlanInv, RanIsApproved, TypeOK
<1>7. PlanHasConclusion'
  BY <1>3 DEF PlanInv, PlanHasConclusion
<1>8. CompletedPlanRan'
  <2> SUFFICES ASSUME NEW v \in Investigations, plan'[v].status = "completed",
                      NEW s \in plan'[v].steps
               PROVE  plan'[v].link[s] \in ran'
    BY DEF CompletedPlanRan
  <2>1. CASE plan'[v] = plan[v]
    BY <2>1 DEF PlanInv, CompletedPlanRan
  <2>2. CASE plan'[v] # plan[v]
    <3>1. plan[v].link[s] \in Actions /\ st'[plan[v].link[s]] \in {"succeeded", "rolled_back"}
      BY <1>2, <2>2
    <3> QED
      BY <1>2, <1>5, <3>1 DEF ApprovedIsRan
  <2> QED
    BY <2>1, <2>2
<1>9. KeptIsLinked'
  <2> SUFFICES ASSUME NEW b \in Actions, NEW v \in Investigations, NEW s \in Steps,
                      Kept(b)', of'[b] = <<v, s>>
               PROVE  /\ inv'[v].status \in {"completed", "gone"}
                      /\ plan'[v].status = "none" \/ plan'[v].link[s] = b
    BY DEF KeptIsLinked
  <2>1. /\ inv[v].status \in {"completed", "gone"}
        /\ plan[v].status = "none" \/ plan[v].link[s] = b
    BY <1>1 DEF PlanInv, KeptIsLinked
  <2> QED
    BY <1>2, <1>3, <2>1
<1>10. OneKept'
  BY <1>1 DEF PlanInv, OneKept
<1> QED
  BY <1>4, <1>5, <1>6, <1>7, <1>8, <1>9, <1>10 DEF PlanInv
(* Every step keeps what plans and actions say of each other.              *)
LEMMA PlansPreserved ==
  TypeOK /\ PlanInv /\ [Next]_vars => PlanInv'
<1> SUFFICES ASSUME TypeOK, PlanInv, [Next]_vars
             PROVE  PlanInv'
  OBVIOUS
<1>1. TypeOK'
  BY TypePreserved
<1>2. ASSUME UNCHANGED <<st, of, ran>>,
             \A v \in Investigations :
               \/ plan'[v] = plan[v] /\ inv'[v].status = inv[v].status
               \/ plan'[v] = plan[v] /\ inv[v].status \in {"none", "running"}
               \/ inv[v].status = "running" /\ inv'[v].status = "completed"
                    /\ plan'[v].status = "proposed"
               \/ plan'[v] = NoPlan /\ inv'[v].status = "gone"
      PROVE  PlanInv'
  <2>1. NoPlan.status = "none" /\ \A s \in Steps : NoPlan.link[s] = Nobody
    BY DEF NoPlan
  <2>2. \A v \in Investigations : plan[v].status # "none" => inv[v].status = "completed"
    BY DEF PlanInv, PlanHasConclusion
  <2>3. LinkedIsProposed'
    BY <1>2, <2>1 DEF PlanInv, LinkedIsProposed
  <2>4. PlanHasConclusion'
    BY <1>2, <2>1, <2>2 DEF PlanHasConclusion
  <2>5. CompletedPlanRan'
    BY <1>2, <2>1 DEF PlanInv, CompletedPlanRan
  <2>6. KeptIsLinked'
    <3> SUFFICES ASSUME NEW a \in Actions, NEW v \in Investigations, NEW s \in Steps,
                        Kept(a), of[a] = <<v, s>>
                 PROVE  /\ inv'[v].status \in {"completed", "gone"}
                        /\ plan'[v].status = "none" \/ plan'[v].link[s] = a
      BY <1>2 DEF KeptIsLinked, Kept
    <3>1. /\ inv[v].status \in {"completed", "gone"}
          /\ plan[v].status = "none" \/ plan[v].link[s] = a
      BY DEF PlanInv, KeptIsLinked
    <3> QED
      BY <1>2, <2>1, <3>1
  <2>7. ApprovedIsRan' /\ RanIsApproved' /\ OneKept'
    BY <1>2 DEF PlanInv, ApprovedIsRan, RanIsApproved, OneKept, Kept
  <2> QED
    BY <2>3, <2>4, <2>5, <2>6, <2>7 DEF PlanInv
<1>3. CASE Signal
  <2>1. PICK s \in Signals, k \in Keys \cup {SensorKey}, sev \in {"low", "high"}, j \in Incidents,
             status \in {"", "monitoring"} : Upsert(s, k, sev, j, status)
    BY <1>3 DEF Signal, ReceiveSignal, SensorRestored
  <2>2. /\ UNCHANGED <<st, of, ran>>
        /\ \A v \in Investigations :
             \/ inv'[v] = inv[v] /\ plan'[v] = plan[v]
             \/ inv'[v].status = "gone" /\ plan'[v] = NoPlan
    BY <2>1, SignalStored
  <2> QED
    BY <1>2, <2>2
<1>4. CASE Investigate
  BY <1>2, <1>4, InvestigateEffect
<1>5. CASE Administer
  BY <1>2, <1>5 DEF Administer, UpdateIncident, PutPolicyGrant
<1>6. CASE Respond
  <2>1. ASSUME NEW v \in Investigations, NEW s \in Steps, NEW a \in Actions,
               CreateActionFromResponsePlan(v, s, a)
        PROVE  PlanInv'
    <3>1. /\ plan[v].status \in Preparable
          /\ plan[v].link[s] # Nobody => st[plan[v].link[s]] = "cancelled"
          /\ st[a] = "absent"
          /\ UNCHANGED <<inv, ran>>
      BY <2>1 DEF CreateActionFromResponsePlan, Replaceable
    <3>2. /\ plan'[v].status = "approved" /\ plan'[v].steps = plan[v].steps
          /\ plan'[v].link[s] = a
          /\ \A w \in Investigations : w # v => plan'[w] = plan[w]
          /\ \A t \in Steps : t # s => plan'[v].link[t] = plan[v].link[t]
      BY <2>1, LinkWritten
    <3>3. /\ st'[a] = "draft"
          /\ \A b \in Actions : b # a => \/ st'[b] = st[b]
                                         \/ st[b] = "draft" /\ st'[b] = "cancelled"
      BY <2>1 DEF CreateActionFromResponsePlan
    <3>4. of'[a] = <<v, s>> /\ \A b \in Actions : b # a => of'[b] = of[b]
      BY <2>1 DEF CreateActionFromResponsePlan, TypeOK
    <3>5. inv[v].status = "completed"
      BY <3>1 DEF PlanInv, PlanHasConclusion, Preparable
    <3>6. \A b \in Actions : b # a /\ Kept(b)' => Kept(b) /\ of'[b] = of[b]
      BY <3>3, <3>4 DEF Kept
    <3>7. \A b \in Actions : b # a /\ Kept(b)' => of'[b] # <<v, s>>
      <4> SUFFICES ASSUME NEW b \in Actions, b # a, Kept(b)', of'[b] = <<v, s>>
                   PROVE  FALSE
        OBVIOUS
      <4>1. Kept(b) /\ of[b] = <<v, s>>
        BY <3>6
      <4>2. plan[v].link[s] = b
        BY <3>1, <4>1 DEF PlanInv, KeptIsLinked, Preparable
      <4> QED
        BY <3>1, <4>1, <4>2, NamesAssumption DEF Kept, NamesAssumption
    <3>8. LinkedIsProposed'
      BY <3>2 DEF PlanInv, LinkedIsProposed
    <3>9. ApprovedIsRan' /\ RanIsApproved'
      <4>1. ApprovedIsRan'
        BY <3>1, <3>3 DEF PlanInv, ApprovedIsRan
      <4>2. a \notin ran
        BY <3>1 DEF PlanInv, RanIsApproved
      <4>3. RanIsApproved'
        BY <3>1, <3>3, <4>2 DEF PlanInv, RanIsApproved, TypeOK
      <4> QED
        BY <4>1, <4>3
    <3>10. PlanHasConclusion'
      BY <3>1, <3>2, <3>5 DEF PlanInv, PlanHasConclusion
    <3>11. CompletedPlanRan'
      BY <3>1, <3>2 DEF PlanInv, CompletedPlanRan
    <3>12. KeptIsLinked'
      <4> SUFFICES ASSUME NEW b \in Actions, NEW w \in Investigations, NEW t \in Steps,
                          Kept(b)', of'[b] = <<w, t>>
                   PROVE  /\ inv[w].status \in {"completed", "gone"}
                          /\ plan'[w].status = "none" \/ plan'[w].link[t] = b
        BY <3>1 DEF KeptIsLinked
      <4>1. CASE b = a
        BY <3>2, <3>4, <3>5, <4>1
      <4>2. CASE b # a
        <5>1. /\ inv[w].status \in {"completed", "gone"}
              /\ plan[w].status = "none" \/ plan[w].link[t] = b
          BY <3>6, <4>2 DEF PlanInv, KeptIsLinked
        <5>2. w # v \/ t # s
          BY <3>7, <4>2
        <5>3. plan[v].status # "none"
          BY <3>1 DEF Preparable
        <5> QED
          BY <3>2, <5>1, <5>2, <5>3
      <4> QED
        BY <4>1, <4>2
    <3>13. OneKept'
      <4> SUFFICES ASSUME NEW b \in Actions, NEW c \in Actions,
                          Kept(b)', Kept(c)', of'[b] = of'[c], of'[b] # Nobody
                   PROVE  b = c
        BY DEF OneKept
      <4>1. CASE b # a /\ c # a
        BY <3>6, <4>1 DEF PlanInv, OneKept
      <4>2. CASE b = a \/ c = a
        BY <3>4, <3>7, <4>2
      <4> QED
        BY <4>1, <4>2
    <3> QED
      BY <3>8, <3>9, <3>10, <3>11, <3>12, <3>13 DEF PlanInv
  <2>2. ASSUME NEW a \in Actions, ApproveActionAndEnqueue(a)
        PROVE  PlanInv'
    <3>1. /\ st[a] = "draft" /\ st' = [st EXCEPT ![a] = "approved"]
          /\ ran' = ran \cup {a} /\ UNCHANGED <<inv, of>>
      BY <2>2 DEF ApproveActionAndEnqueue
    <3>2. \A v \in Investigations :
            \/ plan'[v] = plan[v]
            \/ /\ v \in PlansOf(a) /\ plan'[v].status = "executing"
               /\ plan'[v].steps = plan[v].steps /\ plan'[v].link = plan[v].link
      BY <2>2 DEF ApproveActionAndEnqueue, TypeOK, PlanRow
    <3>3. "approved" \in AnyStatus
      BY DEF AnyStatus, InFlight
    <3>4. plan' \in [Investigations -> PlanRow]
      BY <1>1 DEF TypeOK
    <3> QED
      BY <3>1, <3>2, <3>3, <3>4, MovePreservesPlans
  <2>3. ASSUME NEW a \in Actions, NEW status \in AnyStatus, RecordResult(a, status)
        PROVE  PlanInv'
    <3>1. /\ <<st[a], status>> \in Answered /\ st' = [st EXCEPT ![a] = status]
          /\ SyncResponsePlan(a) /\ UNCHANGED <<inv, of, ran>>
      BY <2>3 DEF RecordResult
    <3>2. /\ st[a] \notin {"absent", "draft", "cancelled"}
          /\ status \notin {"absent", "draft", "cancelled"}
      BY <3>1 DEF Answered
    <3>3. a \in ran
      BY <3>2 DEF PlanInv, ApprovedIsRan
    <3>4. plan' \in [Investigations -> PlanRow] /\ st' \in [Actions -> AnyStatus]
      BY <1>1 DEF TypeOK
    <3>5. CASE UNCHANGED <<plan, inc>>
      BY <3>1, <3>2, <3>3, <3>4, <3>5, MovePreservesPlans
    <3>6. ASSUME NEW v \in PlansOf(a), NEW verdict \in Verdicts,
                 verdict = PlanVerdict(plan[v], st'),
                 plan' = [plan EXCEPT ![v].status = verdict]
          PROVE  PlanInv'
      <4>1. v \in Investigations
        BY DEF PlansOf
      <4>2. /\ plan'[v].status = verdict
            /\ plan'[v].steps = plan[v].steps /\ plan'[v].link = plan[v].link
            /\ \A w \in Investigations : w # v => plan'[w] = plan[w]
        BY <3>6, <4>1 DEF TypeOK, PlanRow
      <4>3. ASSUME verdict = "completed", NEW s \in plan[v].steps
            PROVE  /\ plan[v].link[s] \in Actions
                   /\ st'[plan[v].link[s]] \in {"succeeded", "rolled_back"}
        <5>1. /\ plan[v].link[s] # Nobody
              /\ st'[plan[v].link[s]] \in {"succeeded", "rolled_back"}
          BY <3>6, <4>3 DEF PlanVerdict
        <5>2. plan[v].link[s] \in Actions \cup {Nobody}
          BY <4>1 DEF TypeOK, PlanRow
        <5> QED
          BY <5>1, <5>2
      <4>4. verdict # "none"
        BY DEF Verdicts
      <4>5. \A w \in Investigations :
              \/ plan'[w] = plan[w]
              \/ /\ w \in PlansOf(a)
                 /\ plan'[w].status # "none"
                 /\ plan'[w].steps = plan[w].steps /\ plan'[w].link = plan[w].link
                 /\ plan'[w].status = "completed" =>
                      \A s \in plan[w].steps :
                        plan[w].link[s] \in Actions
                          /\ st'[plan[w].link[s]] \in {"succeeded", "rolled_back"}
        BY <4>2, <4>3, <4>4
      <4>6. ran \subseteq ran' /\ ran' \subseteq ran \cup {a} /\ a \in ran'
        BY <3>1, <3>3
      <4>7. st' = [st EXCEPT ![a] = status] /\ UNCHANGED <<inv, of>>
        BY <3>1
      <4> QED
        BY <3>2, <3>4, <4>5, <4>6, <4>7, MovePreservesPlans
    <3> QED
      BY <3>1, <3>5, <3>6, PlanSynced
  <2>4. ASSUME NEW a \in Actions, NEW status \in AnyStatus, MoveAction(a, status)
        PROVE  PlanInv'
    <3>1. /\ st[a] \notin {"absent", "cancelled"}
          /\ st[a] = "draft" => status = "cancelled"
          /\ status \notin {"absent", "draft"}
      BY <2>4, MovesAfterApproval DEF MoveAction
    <3>2. status # "cancelled" => a \in ran
      BY <3>1 DEF PlanInv, ApprovedIsRan
    <3>3. /\ st' = [st EXCEPT ![a] = status]
          /\ UNCHANGED <<inv, of, ran, plan>>
          /\ plan' \in [Investigations -> PlanRow]
      BY <1>1, <2>4 DEF MoveAction, TypeOK
    <3> QED
      BY <3>1, <3>2, <3>3, MovePreservesPlans
  <2> QED
    BY <1>6, <2>1, <2>2, <2>3, <2>4 DEF Respond
<1>7. CASE UNCHANGED vars
  BY <1>2, <1>7 DEF vars
<1> QED
  BY <1>3, <1>4, <1>5, <1>6, <1>7 DEF Next

(* The invariant holds in every reachable state.                           *)
LEMMA PlansKept ==
  Spec => []PlanInv
<1>1. Init => PlanInv
  BY DEF Init, AllAbsent, NoPlan, PlanInv, LinkedIsProposed, ApprovedIsRan, RanIsApproved,
         PlanHasConclusion, CompletedPlanRan, KeptIsLinked, OneKept, Kept
<1> QED
  BY <1>1, PlansPreserved, TypesCorrect, PTL DEF Spec

(* A plan says what is true of it: it rests on a concluded investigation,  *)
(* and one that is reported complete had each of its steps approved.       *)
THEOREM PlansTruthful ==
  Spec => []PlansAreTrue
<1>1. TypeOK /\ PlanInv => PlansAreTrue
  BY DEF PlanInv, PlansAreTrue
<1> QED
  BY <1>1, PlansKept, TypesCorrect, PTL

(* A step of a plan has one action at work at a time, however often it is  *)
(* prepared, expired, cancelled and prepared again.                        *)
THEOREM StepsActOnce ==
  Spec => []OneActionAtWork
<1>1. PlanInv => OneActionAtWork
  BY DEF PlanInv, OneKept, OneActionAtWork, Kept, AtWork, Ended
<1> QED
  BY <1>1, PlansKept, PTL

-----------------------------------------------------------------------------
(* What steps may not do.                                                  *)

(* A step that makes a closed incident active again.                       *)
LEMMA ReopeningStep ==
  ASSUME TypeOK, PlanInv, Next,
         NEW i \in Incidents, inc[i].status \in Closed, inc'[i].status \in OpenStatus
  PROVE  \/ UpdateIncident(i, "open")
         \/ \E v \in Investigations :
              /\ inv[v].of = i
              /\ \/ Running(v) /\ inv'[v].status = "completed"
                 \/ plan'[v] # plan[v]
                 \/ ran' # ran
<1> DEFINE Goal == \/ UpdateIncident(i, "open")
                   \/ \E v \in Investigations :
                        /\ inv[v].of = i
                        /\ \/ Running(v) /\ inv'[v].status = "completed"
                           \/ plan'[v] # plan[v]
                           \/ ran' # ran
<1>1. inc'[i].status # inc[i].status /\ inc'[i] # inc[i] /\ inc' # inc
  BY DEF Closed, OpenStatus
<1>2. ASSUME NEW j, NEW s \in IncidentStatuses, SetStatus(j, s)
      PROVE  j = i
  BY <1>1, <1>2, StatusWritten DEF TypeOK
<1>3. CASE Signal
  <2>1. PICK s \in Signals, k \in Keys \cup {SensorKey}, sev \in {"low", "high"}, j \in Incidents,
             status \in {"", "monitoring"} : Upsert(s, k, sev, j, status)
    BY <1>3 DEF Signal, ReceiveSignal, SensorRestored
  <2>2. \A m \in Incidents : m # j => inc'[m] = inc[m] \/ inc'[m].status = "gone"
    BY <2>1, SignalStored, ZenonT(60)
  <2>3. j # i
    BY <2>1, SignalTarget
  <2>4. inc'[i].status = "gone"
    BY <1>1, <2>2, <2>3
  <2> QED
    BY <2>4 DEF OpenStatus
<1>4. CASE Investigate
  <2>1. ASSUME NEW j \in Incidents, NEW v \in Investigations,
               NEW by \in {"administrator", "policy_grant"}, CreateInvestigation(j, v, by)
        PROVE  FALSE
    BY <1>1, <2>1, InvestigationCreated DEF Closed
  <2>2. ASSUME NEW v \in Investigations, WorkerClaim(v)
        PROVE  FALSE
    BY <2>1, <2>2 DEF WorkerClaim, TypeOK
  <2>3. ASSUME NEW v \in Investigations, CollectContext(v)
        PROVE  FALSE
    BY <1>1, <2>3 DEF CollectContext, TypeOK, IncidentRow
  <2>4. ASSUME NEW v \in Investigations, NEW steps \in SUBSET Steps, CompleteInvestigation(v, steps)
        PROVE  Goal
    <3>1. Fits(inv[v].of, ConclusionStatus(steps))
      BY <1>1, <2>4 DEF CompleteInvestigation
    <3>2. inv[v].of = i
      BY <1>1, <2>4, <3>1 DEF CompleteInvestigation, TypeOK
    <3>3. inv'[v].status = "completed"
      BY <2>4, <3>1 DEF CompleteInvestigation, TypeOK, InvestigationRow
    <3>4. Running(v)
      BY <2>4 DEF CompleteInvestigation
    <3> QED
      BY <3>2, <3>3, <3>4
  <2>5. ASSUME NEW v \in Investigations, FailInvestigation(v)
        PROVE  FALSE
    <3>1. inc[inv[v].of].status = "investigating" /\ inc' = [inc EXCEPT ![inv[v].of].status = "open"]
      BY <1>1, <2>5 DEF FailInvestigation, Reopened
    <3>2. inv[v].of = i
      BY <1>1, <3>1 DEF TypeOK
    <3> QED
      BY <3>1, <3>2 DEF Closed
  <2>6. CASE RecoverStaleInvestigations
    <3>1. inc'[i] \in {inc[i], Reopened(inc, i)[i]}
      BY <2>6 DEF RecoverStaleInvestigations
    <3>2. Reopened(inc, i)[i] = inc[i]
      BY DEF Reopened, Closed
    <3> QED
      BY <1>1, <3>1, <3>2
  <2> QED
    BY <1>1, <1>4, <2>1, <2>2, <2>3, <2>4, <2>5, <2>6
       DEF Investigate, InvestigateIncident, WorkerPick, Disowned, LeaseEnds, WorkerSkip, Restart
<1>5. CASE Administer
  <2>1. ASSUME NEW j \in Incidents, NEW status \in {"open", "resolved", "dismissed"},
               UpdateIncident(j, status)
        PROVE  Goal
    <3>1. status \in IncidentStatuses /\ SetStatus(j, status)
      BY <2>1 DEF IncidentStatuses, OpenStatus, Closed, UpdateIncident
    <3>2. j = i
      BY <1>2, <3>1
    <3>3. inc'[i].status = status
      <4>1. inc'[i] \in {inc[i], [inc[i] EXCEPT !.status = status]} /\ inc[i] \in IncidentRow
        BY <3>1, StatusWritten DEF TypeOK
      <4> QED
        BY <1>1, <3>1, <4>1, RowWritten
    <3>4. status = "open"
      BY <3>3 DEF OpenStatus
    <3> QED
      BY <2>1, <3>2, <3>4
  <2> QED
    BY <1>1, <1>5, <2>1 DEF Administer, PutPolicyGrant
<1>6. CASE Respond
  <2>1. {"open", "monitoring", "responding", "awaiting_approval"} \subseteq IncidentStatuses
    BY DEF IncidentStatuses, OpenStatus
  <2>2. ASSUME NEW v \in Investigations, NEW s \in Steps, NEW a \in Actions,
               CreateActionFromResponsePlan(v, s, a)
        PROVE  Goal
    <3>1. inv[v].of = i
      BY <1>2, <2>1, <2>2 DEF CreateActionFromResponsePlan
    <3>2. plan[v].link[s] # a
      BY <2>2, NamesAssumption DEF CreateActionFromResponsePlan, Replaceable, NamesAssumption
    <3>3. plan'[v].link[s] = a
      BY <2>2, LinkWritten
    <3> QED
      BY <3>1, <3>2, <3>3
  <2>3. ASSUME NEW a \in Actions, ApproveActionAndEnqueue(a)
        PROVE  Goal
    <3>1. PICK v \in PlansOf(a) : SetStatus(inv[v].of, "responding")
      BY <1>1, <2>3 DEF ApproveActionAndEnqueue
    <3>2. inv[v].of = i /\ v \in Investigations
      BY <1>2, <2>1, <3>1 DEF PlansOf
    <3>3. a \notin ran /\ ran' = ran \cup {a}
      BY <2>3 DEF ApproveActionAndEnqueue, PlanInv, RanIsApproved
    <3> QED
      BY <3>2, <3>3
  <2>4. ASSUME NEW a \in Actions, NEW status \in AnyStatus, RecordResult(a, status)
        PROVE  Goal
    <3>1. SyncResponsePlan(a)
      BY <2>4 DEF RecordResult
    <3>2. PICK v \in PlansOf(a), verdict \in Verdicts :
            /\ verdict # plan[v].status
            /\ plan' = [plan EXCEPT ![v].status = verdict]
            /\ SetStatus(inv[v].of, IncidentFor(verdict))
            /\ IncidentFor(verdict) \in {"open", "monitoring", "responding", "awaiting_approval"}
      BY <1>1, <3>1, PlanSynced
    <3>3. inv[v].of = i /\ v \in Investigations
      BY <1>2, <2>1, <3>2 DEF PlansOf
    <3>4. plan'[v].status # plan[v].status
      BY <3>2, <3>3 DEF TypeOK, PlanRow
    <3> QED
      BY <3>3, <3>4
  <2> QED
    BY <1>1, <1>6, <2>2, <2>3, <2>4 DEF Respond, MoveAction
<1> QED
  BY <1>3, <1>4, <1>5, <1>6 DEF Next

(* Signals, failures and the recovery of leases never bring a closed       *)
(* incident back: an administrator does, or the conclusion of an           *)
(* investigation, or the progress of a plan of this incident.              *)
THEOREM ClosedStaysClosed ==
  Spec => ClosedReopens
<1>1. ASSUME TypeOK, PlanInv, [Next]_vars
      PROVE  [\A i \in Incidents :
                inc[i].status \in Closed /\ inc'[i].status \in OpenStatus =>
                  \/ UpdateIncident(i, "open")
                  \/ \E v \in Investigations :
                       /\ inv[v].of = i
                       /\ \/ Running(v) /\ inv'[v].status = "completed"
                          \/ plan'[v] # plan[v]
                          \/ ran' # ran]_vars
  BY <1>1, ReopeningStep
<1> QED
  BY <1>1, PlansKept, TypesCorrect, PTL DEF Spec, ClosedReopens

(* The comparison with the limit decides.                                  *)
LEMMA NotAtLeast ==
  \A m, n \in Nat : ~(m >= n) => m < n
OBVIOUS

(* Under the limit the number of active incidents is a number.             *)
LEMMA ActiveIsCounted ==
  Cardinality({i \in Incidents : Active(i)}) \in Nat
<1>1. IsFiniteSet({i \in Incidents : Active(i)})
  BY RowsAssumption, FS_Subset DEF RowsAssumption
<1> QED
  BY <1>1, FS_CardinalityType

(* A step that opens a row.                                                *)
LEMMA OpeningStep ==
  ASSUME TypeOK, Next, NEW i \in Incidents, inc[i].status = "absent", inc'[i].status = "open"
  PROVE  \/ Cardinality({j \in Incidents : Active(j)}) < MaxActive
         \/ ActiveWith(CapacityKey) = {} /\ inc'[i].key = CapacityKey
<1>1. inc'[i] # inc[i] /\ inc' # inc
  OBVIOUS
<1>2. ASSUME NEW j, NEW s \in IncidentStatuses, SetStatus(j, s)
      PROVE  FALSE
  <2>1. j = i
    BY <1>1, <1>2, StatusWritten DEF TypeOK
  <2> QED
    BY <1>1, <1>2, <2>1 DEF SetStatus, OpenStatus, Closed
<1>3. CASE Signal
  <2>1. PICK s \in Signals, k \in Keys \cup {SensorKey}, sev \in {"low", "high"}, j \in Incidents,
             status \in {"", "monitoring"} : Upsert(s, k, sev, j, status)
    BY <1>3 DEF Signal, ReceiveSignal, SensorRestored
  <2>2. j = i
    <3>1. \A m \in Incidents : m # j => inc'[m] = inc[m] \/ inc'[m].status = "gone"
      BY ONLY TypeOK, <2>1, SignalStored, ZenonT(60)
    <3> QED
      BY <1>1, <3>1
  <2>3. ~Active(i)
    BY DEF Active, OpenStatus
  <2>4. ActiveWith(KeyFor(k)) = {}
    BY <2>1, <2>2, <2>3 DEF Upsert, ActiveWith
  <2>5. inc'[i].key = KeyFor(k)
    <3> DEFINE key  == KeyFor(k)
               row  == RowAfter(key, sev, j, status)
               rows == [inc EXCEPT ![j] = row]
    <3>1. PICK gone \in Excess(rows) :
            /\ inc'  = [m \in Incidents |-> IF m \in gone
                                              THEN [rows[m] EXCEPT !.status = "gone"] ELSE rows[m]]
            /\ inv'  = [v \in Investigations |-> IF inv[v].of \in gone
                                                   THEN [inv[v] EXCEPT !.status = "gone"] ELSE inv[v]]
            /\ plan' = [v \in Investigations |-> IF inv[v].of \in gone THEN NoPlan ELSE plan[v]]
      BY <2>1 DEF Upsert
    <3>2. key \in Keys \cup {SensorKey, CapacityKey}
      BY DEF KeyFor
    <3>3. row \in IncidentRow /\ row.key = key
      <4> HIDE DEF key
      <4>1. RowAfter(key, sev, j, status) \in IncidentRow
        BY <3>2, RowAfterSignal
      <4>2. inc[j].status = "absent"
        BY <2>2
      <4>3. RowAfter(key, sev, j, status).key = key
        BY <4>2 DEF RowAfter, Opened, Active, OpenStatus
      <4> QED
        BY <4>1, <4>3
    <3>4. rows[i] = row
      BY <2>2 DEF TypeOK
    <3>5. "gone" \in IncidentStatuses
      BY DEF IncidentStatuses
    <3> HIDE DEF rows, row, key
    <3>6. i \notin gone
      BY <3>1, <3>3, <3>4, <3>5, RowWritten
    <3> QED
      BY <3>1, <3>3, <3>4, <3>6 DEF key
  <2>6. CASE KeyFor(k) = CapacityKey
    BY <2>4, <2>5, <2>6
  <2>7. CASE KeyFor(k) # CapacityKey
    <3>1. ~(Cardinality({m \in Incidents : Active(m)}) >= MaxActive)
      BY <2>4, <2>7 DEF KeyFor
    <3> QED
      <4>1. MaxActive \in Nat
        BY CapacityAssumptions DEF CapacityAssumptions
      <4> QED
        BY ONLY <3>1, <4>1, ActiveIsCounted, NotAtLeast, Zenon
  <2> QED
    BY <2>6, <2>7
<1>4. CASE Investigate
  <2>1. ASSUME NEW j \in Incidents, NEW v \in Investigations,
               NEW by \in {"administrator", "policy_grant"}, CreateInvestigation(j, v, by)
        PROVE  FALSE
    BY <1>1, <2>1, InvestigationCreated
  <2>2. ASSUME NEW v \in Investigations, WorkerClaim(v)
        PROVE  FALSE
    BY <2>1, <2>2 DEF WorkerClaim, TypeOK
  <2>3. ASSUME NEW v \in Investigations, CollectContext(v)
        PROVE  FALSE
    BY <1>1, <2>3 DEF CollectContext, TypeOK, IncidentRow
  <2>4. ASSUME NEW v \in Investigations, NEW steps \in SUBSET Steps, CompleteInvestigation(v, steps)
        PROVE  FALSE
    <3>1. inc'[i] = inc[i] \/ inc'[i].status = ConclusionStatus(steps)
      BY <2>4 DEF CompleteInvestigation, TypeOK, IncidentRow
    <3> QED
      BY <1>1, <3>1 DEF ConclusionStatus
  <2>5. ASSUME NEW v \in Investigations, FailInvestigation(v)
        PROVE  FALSE
    BY <1>1, <2>5 DEF FailInvestigation, Reopened, TypeOK
  <2>6. CASE RecoverStaleInvestigations
    <3>1. inc'[i] \in {inc[i], Reopened(inc, i)[i]}
      BY <2>6 DEF RecoverStaleInvestigations
    <3>2. Reopened(inc, i)[i] = inc[i]
      BY DEF Reopened
    <3> QED
      BY <1>1, <3>1, <3>2
  <2> QED
    BY <1>1, <1>4, <2>1, <2>2, <2>3, <2>4, <2>5, <2>6
       DEF Investigate, InvestigateIncident, WorkerPick, Disowned, LeaseEnds, WorkerSkip, Restart
<1>5. CASE Administer
  <2>1. {"open", "resolved", "dismissed"} \subseteq IncidentStatuses
    BY DEF IncidentStatuses, OpenStatus, Closed
  <2> QED
    BY <1>1, <1>2, <1>5, <2>1 DEF Administer, UpdateIncident, PutPolicyGrant
<1>6. CASE Respond
  <2>1. {"open", "monitoring", "responding", "awaiting_approval"} \subseteq IncidentStatuses
    BY DEF IncidentStatuses, OpenStatus
  <2>2. ASSUME NEW a \in Actions, NEW status \in AnyStatus, RecordResult(a, status)
        PROVE  FALSE
    <3>1. SyncResponsePlan(a)
      BY <2>2 DEF RecordResult
    <3> QED
      BY <1>1, <1>2, <2>1, <3>1, PlanSynced
  <2> QED
    BY <1>1, <1>2, <1>6, <2>1, <2>2
       DEF Respond, CreateActionFromResponsePlan, ApproveActionAndEnqueue, MoveAction
<1> QED
  BY <1>3, <1>4, <1>5, <1>6 DEF Next

(* At the limit a new row is only opened for the overflow, and once.       *)
THEOREM LimitRespected ==
  Spec => OpenedWithinLimit
<1>1. ASSUME TypeOK, [Next]_vars
      PROVE  [\A i \in Incidents : inc[i].status = "absent" /\ inc'[i].status = "open" =>
                Cardinality({j \in Incidents : Active(j)}) < MaxActive
                  \/ (ActiveWith(CapacityKey) = {} /\ inc'[i].key = CapacityKey)]_vars
  BY <1>1, OpeningStep
<1> QED
  BY <1>1, TypesCorrect, PTL DEF Spec, OpenedWithinLimit
=============================================================================
