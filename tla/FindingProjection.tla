--------------------------- MODULE FindingProjection ---------------------------
(***************************************************************************)
(* The current risks of a device as the Controller projects them from its  *)
(* reports.  The Agent delivers reports late, out of order and more than   *)
(* once; a report says what each completed check found and which checks    *)
(* did not complete; old reports, resolved findings and what exceeds a     *)
(* capacity are dropped.                                                   *)
(*                                                                         *)
(* A report's number is the order of its completion.  A repeat of a stored *)
(* report has its digest and changes nothing: it is no step here.  The     *)
(* byte budgets act as the row limits do and are not told apart from them. *)
(* Definitions marked "Fault" are plausible mistakes.                      *)
(***************************************************************************)
EXTENDS Integers, Sequences, FiniteSets

CONSTANTS
  Categories,  \* categories of findings; each has checks of its own
  Grave,       \* of these, the ones whose findings are more severe
  Names,       \* fingerprints of a category
  MaxReports,  \* maxReportsPerDevice
  MaxActive,   \* maxCurrentFindingsPerDevice, less the record of omissions
  MaxResolved, \* maxResolvedCurrentFindingsPerDevice
  MaxScans     \* bound: reports the Agent makes

Findings == Categories \X Names

VARIABLES
  made,      \* the Agent's reports: found, and categories not checked
  stored,    \* the reports the Controller keeps
  snaps,     \* snaps[i][f]: first_seen_at of f in the stored report i, 0 if not in it
  projected, \* completed_at in current_findings_state
  current,   \* current_findings: status, first_seen_at, last_seen_at
  omitted,   \* the record that findings were omitted is open
  applied    \* (history) the reports that advanced the projection

projectionVars == <<made, stored, snaps, projected, current, omitted, applied>>

Gone == [status |-> "absent", first |-> 0, last |-> 0]
Newest(S) == CHOOSE i \in S : \A j \in S : j <= i

-----------------------------------------------------------------------------
(* saveReport.                                                             *)

(* The first time the finding was seen: the projection knows, or else the  *)
(* latest stored report before this one.                                   *)
FirstSeen(i, f, advances) ==
  LET earlier == {j \in stored : j <= i /\ snaps[j][f] # 0}
  IN IF advances /\ current[f] # Gone THEN current[f].first
     ELSE IF earlier # {} THEN snaps[Newest(earlier)][f]
     ELSE i

(* What is open and was not found again is resolved, if its check          *)
(* completed.                                                              *)
Resolvable(f, unchecked) == f[1] \notin unchecked

Upserted(i) ==
  [f \in Findings |->
     IF f \in made[i].found THEN
       [status |-> "open", last |-> i,
        first |-> IF current[f] # Gone /\ current[f].first < FirstSeen(i, f, TRUE)
                    THEN current[f].first ELSE FirstSeen(i, f, TRUE)]
     ELSE IF current[f].status = "open" /\ Resolvable(f, made[i].unchecked)
       THEN [current[f] EXCEPT !.status = "resolved"]
     ELSE current[f]]

(* enforceCurrentFindingCapacityTx: the newest resolved findings and the   *)
(* gravest, then newest, open ones are kept; ties are left open.           *)
Kept(S, most, precedes) ==
  {K \in SUBSET S :
     /\ Cardinality(K) = IF Cardinality(S) < most THEN Cardinality(S) ELSE most
     /\ \A f \in K, g \in S \ K : <<g, f>> \notin precedes}

Having(rows, status) == {f \in Findings : rows[f].status = status}

Capped(rows, unchecked) ==
  LET pairs  == Findings \X Findings
      newer  == {p \in pairs : rows[p[1]].last > rows[p[2]].last}
      graver == {p \in pairs : p[1][1] \in Grave /\ p[2][1] \notin Grave}
                \cup {p \in newer : p[1][1] \in Grave <=> p[2][1] \in Grave}
      open == Having(rows, "open")
  IN \E resolved \in Kept(Having(rows, "resolved"), MaxResolved, newer),
        active \in Kept(open, MaxActive, graver) :
       /\ current' = [f \in Findings |-> IF f \in resolved \cup active THEN rows[f] ELSE Gone]
       /\ omitted' = IF active # open THEN TRUE ELSE IF unchecked = {} THEN FALSE ELSE omitted

(* Only a report newer than the last projected one advances the state.     *)
\* Fault: reports are projected in the order of their arrival.
AlwaysAdvances(i) == TRUE
Advances(i) == i > projected

Retained(S) == {i \in S : Cardinality({j \in S : j > i}) < MaxReports}

SaveReport(i) ==
  /\ i \in 1..Len(made) \ stored
  /\ stored' = Retained(stored \cup {i})
  /\ snaps' = [j \in 1..MaxScans |->
       IF j \notin stored' THEN [f \in Findings |-> 0]
       ELSE IF j # i THEN snaps[j]
       ELSE [f \in Findings |-> IF f \in made[i].found THEN FirstSeen(i, f, Advances(i)) ELSE 0]]
  /\ IF Advances(i)
       THEN /\ Capped(Upserted(i), made[i].unchecked)
            /\ projected' = i /\ applied' = applied \cup {i}
       ELSE UNCHANGED <<current, omitted, projected, applied>>
  /\ UNCHANGED made

(* The Agent scans.                                                        *)
Scan(found, unchecked) ==
  /\ Len(made) < MaxScans
  /\ made' = Append(made, [found |-> found, unchecked |-> unchecked])
  /\ UNCHANGED <<stored, snaps, projected, current, omitted, applied>>

-----------------------------------------------------------------------------

Init ==
  /\ made = <<>> /\ stored = {} /\ projected = 0 /\ omitted = FALSE /\ applied = {}
  /\ snaps = [i \in 1..MaxScans |-> [f \in Findings |-> 0]]
  /\ current = [f \in Findings |-> Gone]

Next ==
  \/ \E found \in SUBSET Findings, unchecked \in SUBSET Categories : Scan(found, unchecked)
  \/ \E i \in 1..MaxScans : SaveReport(i)

Spec == Init /\ [][Next]_projectionVars

-----------------------------------------------------------------------------
(* Properties.                                                             *)

(* What the projected reports last said of a finding: the newest one that  *)
(* found it, or whose check would have.                                    *)
LastWord(f) ==
  LET said == {i \in applied : f \in made[i].found \/ f[1] \notin made[i].unchecked}
  IN said # {} /\ f \in made[Newest(said)].found

(* The administrator sees every finding that the newest word on it         *)
(* reported, or the record that findings were omitted, and no finding that *)
(* the newest word denied, whatever arrived late or was dropped.           *)
ProjectionIsLastWord ==
  \A f \in Findings :
    /\ LastWord(f) => current[f].status = "open" \/ omitted
    /\ current[f].status = "open" => LastWord(f)
=============================================================================
