--------------------------- MODULE MCHelperReceipts ---------------------------
(* Instances of HelperReceipts: what the Controller asks for.              *)
EXTENDS HelperReceipts

CONSTANTS a1, a2, a3

MixedJobs == {[attempt |-> a1, op |-> "execute",  kind |-> "ssh_hardening"],
              [attempt |-> a2, op |-> "rollback", kind |-> "ssh_hardening"],
              [attempt |-> a3, op |-> "execute",  kind |-> "other"]}

OneJob == {[attempt |-> a1, op |-> "execute", kind |-> "other"]}
=============================================================================
