------------------------------- MODULE Executor -------------------------------
(***************************************************************************)
(* What the Helper promises the rest of the system, without its cache, its *)
(* lock, its engine or its crashes:                                        *)
(*                                                                         *)
(*   - an attempt changes the host at most once, and only after it was     *)
(*     asked for;                                                          *)
(*   - a reply the Controller will take for a success is given only when   *)
(*     the change is there, one it will take for a failure only while the  *)
(*     attempt has left the host as it was;                                *)
(*   - a reply may never come, and a request may be served after the one   *)
(*     who made it is gone.                                                *)
(*                                                                         *)
(* HelperReceipts implements this specification.                           *)
(***************************************************************************)
EXTENDS HelperReplies, Naturals

VARIABLES
  listener,  \* the job whose reply somebody waits for, or None
  orphans,   \* jobs nobody waits for any more that may still begin
  host,      \* host[a]: how often attempt a began to change the host; its effect
  answer     \* the reply on its way, or None

executorVars == <<listener, orphans, host, answer>>

None     == [attempt |-> "none"]
Effects  == {"none", "done", "unsure"}
Answered(job, reply) == [attempt |-> job.attempt, job |-> job, reply |-> reply]

(* What the Controller will make of a reply agrees with the host.          *)
\* Fault: success is reported before the change is verified.
TruthfulFailure(job, reply) ==
  LET o == Outcome(job.op, job.kind, reply)
  IN ~o.ok /\ ~o.unknown => host[job.attempt].effect = "none"
Truthful(job, reply) ==
  LET o == Outcome(job.op, job.kind, reply)
      e == host[job.attempt].effect
  IN /\ o.ok => e = "done"
     /\ ~o.ok /\ ~o.unknown => e = "none"

Init ==
  /\ listener = None /\ orphans = {} /\ answer = None
  /\ host = [a \in Attempts |-> [runs |-> 0, effect |-> "none"]]

Ask(job) ==
  /\ listener = None /\ answer = None
  /\ listener' = job
  /\ UNCHANGED <<orphans, host, answer>>

(* Whoever asked is gone; the request may still be waiting to begin.       *)
HangUp ==
  /\ listener # None \/ answer # None
  /\ listener' = None /\ answer' = None
  /\ orphans' \in {orphans, orphans \cup ({listener} \ {None})}
  /\ UNCHANGED host

Hear ==
  /\ answer # None /\ answer' = None
  /\ UNCHANGED <<listener, orphans, host>>

(* The attempt begins to change the host ...                               *)
Start(job) ==
  /\ host[job.attempt].runs = 0
  /\ host' = [host EXCEPT ![job.attempt] = [runs |-> 1, effect |-> "unsure"]]
  /\ \/ job = listener /\ UNCHANGED orphans
     \/ job \in orphans /\ orphans' \in {orphans, orphans \ {job}}
  /\ UNCHANGED <<listener, answer>>

(* ... and it becomes known what it did.                                   *)
Settle(a) ==
  /\ host[a].effect = "unsure"
  /\ \E e \in {"none", "done"} : host' = [host EXCEPT ![a].effect = e]
  /\ UNCHANGED <<listener, orphans, answer>>

(* A handler answers, or ends with nobody listening.                       *)
Reply(reply) ==
  /\ Truthful(listener, reply)
  /\ answer' = Answered(listener, reply) /\ listener' = None
  /\ UNCHANGED <<orphans, host>>

Leave(job) ==
  /\ orphans' = orphans \ {job}
  /\ UNCHANGED <<listener, host, answer>>

(* The Helper stops: nothing waits any more, nobody will be answered.      *)
Break ==
  /\ listener' = None /\ orphans' = {}
  /\ UNCHANGED <<host, answer>>

Work ==
  \/ \E job \in orphans \cup ({listener} \ {None}) : Start(job)
  \/ \E job \in orphans : Leave(job)
  \/ \E a \in Attempts : Settle(a)
  \/ listener # None /\ \E reply \in Replies(listener) : Reply(reply)
  \/ Break

Next == (\E job \in Job : Ask(job)) \/ HangUp \/ Hear \/ Work

Spec == Init /\ [][Next]_executorVars

=============================================================================
