----------------------------- MODULE ActionStatus -----------------------------
(***************************************************************************)
(* What the rest of the Controller may rely on about remediation actions:  *)
(* the status column of the actions table and the moves it can make.       *)
(* ActionLifecycle implements this module; IncidentResponse uses it as     *)
(* the world its response plans live in.                                   *)
(***************************************************************************)
EXTENDS FiniteSets, Naturals

CONSTANT Actions

VARIABLE st    \* st[a]: the status of the row, "absent" before it is inserted

InFlight == {"approved", "executing", "confirming", "rolling_back"}
Ended    == {"succeeded", "failed", "rolled_back", "cancelled", "indeterminate"}
AnyStatus == InFlight \cup Ended \cup {"absent", "draft", "awaiting_confirmation"}

(* What an administrator, a policy and the authorisation gate set off.     *)
Requested ==
  {<<"absent", "draft">>, <<"draft", "approved">>, <<"absent", "approved">>,
   <<"awaiting_confirmation", "confirming">>}
    \cup ({"succeeded", "failed", "indeterminate", "awaiting_confirmation"} \X {"rolling_back"})
Begun == {<<"approved", "executing">>}

(* What a signed result proves.                                            *)
Answered ==
  ({"executing"} \X {"succeeded", "awaiting_confirmation", "rolling_back"})
    \cup {<<"rolling_back", "rolled_back">>, <<"confirming", "succeeded">>}
    \cup ({"executing", "rolling_back", "confirming"} \X {"failed", "indeterminate"})

(* What the Controller decides on its own: a draft or a window expired, a  *)
(* command was withdrawn or expired before it began, or was never answered.*)
GivenUp ==
  ({"draft", "awaiting_confirmation"} \X {"cancelled"})
    \cup ({"approved", "rolling_back", "confirming"} \X {"cancelled", "failed"})
    \cup ({"executing", "rolling_back", "confirming"} \X {"indeterminate"})

Moves == Requested \cup Begun \cup Answered \cup GivenUp

AllAbsent == st = [a \in Actions |-> "absent"]
MoveSome  == \A a \in Actions : st'[a] = st[a] \/ <<st[a], st'[a]>> \in Moves

(* Rows only move along these arrows; one transaction may move several.    *)
StatusSpec == AllAbsent /\ [][MoveSome]_st
=============================================================================
