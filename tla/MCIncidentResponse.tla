-------------------------- MODULE MCIncidentResponse --------------------------
(* Instances of IncidentResponse: sets of model values, and symmetry.      *)
EXTENDS IncidentResponse, TLC

Symmetry == Permutations(Incidents) \cup Permutations(Signals) \cup Permutations(Investigations)
              \cup Permutations(Actions) \cup Permutations(Steps)
=============================================================================
