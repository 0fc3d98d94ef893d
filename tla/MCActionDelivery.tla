---------------------------- MODULE MCActionDelivery ----------------------------
(* Instances of ActionDelivery.                                            *)
EXTENDS ActionDelivery, TLC

NoSubmissions == {}
PlainKinds    == {"other"}

(* Nothing orders the commands, and no liveness is checked here.           *)
Interchangeable == Permutations(Cmds)
=============================================================================
