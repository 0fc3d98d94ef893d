--------------------------- MODULE HelperReceipts ---------------------------
(***************************************************************************)
(* The privileged Helper: the handler of an action request                 *)
(* (cmd/witshield-helper/main.go), the durable receipt cache that makes a  *)
(* repeated request harmless (receipt_cache.go) and the engine that runs a *)
(* playbook and writes its receipt (internal/action/engine.go).            *)
(*                                                                         *)
(* An attempt is one device command; the cache is keyed by it.  Handlers   *)
(* run concurrently and take turns on actionMu, so one attempt is worked   *)
(* on at a time while others wait with their request already read.  The    *)
(* process may stop between any two steps.  What a playbook does to the    *)
(* host is kept as its net effect: "none", "done", or "unsure" from the    *)
(* moment a mutating call begins until its return settles it.              *)
(*                                                                         *)
(* A definition marked "Fault" is a plausible mistake in the code modelled *)
(* by the definition after it; the specification does not use it.          *)
(***************************************************************************)
EXTENDS HelperReplies, Integers, Sequences, FiniteSets

CONSTANTS
  Jobs,       \* what the Controller asks for: one operation per attempt
  MaxItems    \* receiptCache.maxItems (10,000)

ASSUME JobsAssumption ==
  Jobs \subseteq Job /\ \A i, j \in Jobs : i.attempt = j.attempt => i = j
ASSUME ItemsAssumption == MaxItems \in Nat \ {0}

VARIABLES
  up,       \* the Helper process is running
  file,     \* file[a]: the receipt file of attempt a
  finals,   \* attempts with a final receipt, oldest modification first
  since,    \* since[a]: attempts begun since a last began, a included (history)
  waiting,  \* handlers waiting for actionMu: a job and whether anyone listens
  work,     \* the handler that holds actionMu
  host,     \* host[a]: how often attempt a began to change the host; its effect
  answer    \* the reply on the Agent's connection, not read yet

helperVars == <<up, file, finals, since, waiting, work, host, answer>>

-----------------------------------------------------------------------------
Idle  == [at |-> "idle"]
NoFile == [state |-> "none", reply |-> Interrupted]
None  == [attempt |-> "none"]
Steps == {"open", "check", "apply", "verify", "undo", "operate", "save"}
Held  == [job : Job, heard : BOOLEAN, at : Steps, ending : Endings]

StartedFiles == {a \in Attempts : file[a].state = "started"}

-----------------------------------------------------------------------------
(* Requests.                                                               *)

(* The Controller offers a command again only while it is open: at most    *)
(* two hours, and never more than 200 of them, while the cache holds ten   *)
(* thousand.  An attempt is asked for, and waits, only while the attempts  *)
(* begun after it, the unresolved ones and the waiting ones are fewer than *)
(* the files of the cache.                                                 *)
Competing(a) == (since[a] \cup StartedFiles) \ {a}
Recent(a) == Cardinality(Competing(a)) + Cardinality(waiting) < MaxItems

Latest(a) ==
  [b \in Attempts |-> IF b = a THEN {a} ELSE IF since[b] = {} THEN {} ELSE since[b] \cup {a}]

(* One Agent talks to the socket, one request at a time.                   *)
Listening == answer # None \/ (work # Idle /\ work.heard) \/ \E w \in waiting : w.heard

Ask(job) ==
  /\ up /\ ~Listening
  /\ Recent(job.attempt) /\ \A w \in waiting : Recent(w.job.attempt)
  /\ waiting' = waiting \cup {[job |-> job, heard |-> TRUE]}
  /\ UNCHANGED <<up, file, finals, since, work, host, answer>>

(* The Agent stops, or gives up after eleven minutes.  The handlers go on. *)
HangUp ==
  /\ Listening
  /\ waiting' = {[w EXCEPT !.heard = FALSE] : w \in waiting}
  /\ work' = IF work = Idle THEN Idle ELSE [work EXCEPT !.heard = FALSE]
  /\ answer' = None
  /\ UNCHANGED <<up, file, finals, since, host>>

(* The Agent reads the response.                                           *)
Hear ==
  /\ answer # None
  /\ answer' = None
  /\ UNCHANGED <<up, file, finals, since, waiting, work, host>>

Respond(job, heard, reply) ==
  answer' = IF heard THEN [attempt |-> job.attempt, job |-> job, reply |-> reply] ELSE answer

(* A handler that takes the mutex looks at the cache first.  The file of   *)
(* an attempt begun and not finished answers "interrupted".                *)
\* Fault: only final receipts are found.
FoundFinal(a) == file[a].state = "final"
Found(a) == file[a].state \in {"started", "final"}

Replay(w) ==
  /\ up /\ work = Idle /\ w \in waiting
  /\ Found(w.job.attempt)
  /\ waiting' = waiting \ {w}
  /\ Respond(w.job, w.heard, file[w.job.attempt].reply)
  /\ UNCHANGED <<up, file, finals, since, work, host>>

(* ensureCapacity: enough final receipts go, oldest first, to leave room   *)
(* for one more file; files of unresolved attempts never go.               *)
Excess == Cardinality({a \in Attempts : file[a].state # "none"}) + 1 - MaxItems
Gone   == IF Excess > 0 THEN Excess ELSE 0
\* Fault: the newest receipts go first.
KeptOldest == SubSeq(finals, 1, Len(finals) - Gone)
Kept == SubSeq(finals, Gone + 1, Len(finals))
Room == Excess <= Len(finals)

Swept == [a \in Attempts |->
            IF file[a].state = "final" /\ a \notin {Kept[i] : i \in DOMAIN Kept}
              THEN NoFile ELSE file[a]]

(* The intent is durable before the engine runs; it never replaces a file. *)
Begin(w) ==
  LET a == w.job.attempt IN
  /\ up /\ work = Idle /\ w \in waiting
  /\ ~Found(a) /\ file[a].state = "none" /\ Room
  /\ waiting' = waiting \ {w}
  /\ file' = [Swept EXCEPT ![a] = [state |-> "started", reply |-> Interrupted]]
  /\ finals' = Kept
  /\ since' = Latest(a)
  /\ work' = [job |-> w.job, heard |-> w.heard, ending |-> "refused",
              at |-> IF w.job.op = "execute" THEN "check" ELSE "open"]
  /\ UNCHANGED <<up, host, answer>>

(* The intent could not be written: the directory could not be read, no    *)
(* room is left by unresolved attempts, or the disk refused.  The partial  *)
(* file is removed.                                                        *)
BeginFails(w) ==
  /\ up /\ work = Idle /\ w \in waiting
  /\ ~Found(w.job.attempt)
  /\ waiting' = waiting \ {w}
  /\ \/ file' = Swept /\ finals' = Kept
     \/ UNCHANGED <<file, finals>>
  /\ since' = Latest(w.job.attempt)
  /\ Respond(w.job, w.heard, Refused)
  /\ UNCHANGED <<up, work, host>>

-----------------------------------------------------------------------------
(* The engine (Engine.Run).  Each step is a call of the playbook.          *)

Goto(step) == work' = [work EXCEPT !.at = step]
Finish(ending) == work' = [work EXCEPT !.at = "save", !.ending = ending]
Effect(e) == host' = [host EXCEPT ![work.job.attempt].effect = e]

(* The call that may change the host begins.                               *)
Mutating(step) ==
  /\ Goto(step)
  /\ host' = [host EXCEPT ![work.job.attempt] = [runs |-> @.runs + 1, effect |-> "unsure"]]

EngineVars == <<up, file, finals, since, waiting, answer>>

(* Precheck and Preview, or opening the sealed rollback state.             *)
Check ==
  /\ up /\ work # Idle /\ work.at \in {"check", "open"}
  /\ \/ Finish("refused") /\ UNCHANGED host
     \/ Mutating(IF work.at = "check" THEN "apply" ELSE "operate")
  /\ UNCHANGED EngineVars

(* Apply.  A playbook that returns an error and no state has changed       *)
(* nothing; one that returns unusable state cannot be undone.              *)
Unusable      == "apply_failed"

Apply ==
  /\ up /\ work # Idle /\ work.at = "apply"
  /\ \/ Goto("verify") /\ UNCHANGED host
     \/ Finish("refused") /\ Effect("none")
     \/ Finish(Unusable) /\ UNCHANGED host
     \/ Goto("undo") /\ UNCHANGED host
  /\ UNCHANGED EngineVars

Verify ==
  /\ up /\ work # Idle /\ work.at = "verify"
  /\ \/ Finish("proved") /\ Effect("done")
     \/ Goto("undo") /\ UNCHANGED host
  /\ UNCHANGED EngineVars

(* The automatic rollback of a change that failed or did not verify.       *)
Undo ==
  /\ up /\ work # Idle /\ work.at = "undo"
  /\ \/ Finish("undone") /\ Effect("none")
     \/ Finish("undo_failed") /\ UNCHANGED host
  /\ UNCHANGED EngineVars

(* A requested rollback or confirmation.                                   *)
Operate ==
  /\ up /\ work # Idle /\ work.at = "operate"
  /\ \/ Finish("proved") /\ Effect("done")
     \/ Finish("op_failed") /\ UNCHANGED host
  /\ UNCHANGED EngineVars

(* The final receipt replaces the intent, then the response is written.    *)
(* The replacement may fail, or be in place and still be reported failed   *)
(* because the directory could not be synced.                              *)
SaveAs(pending) ==
  LET a == work.job.attempt
      r == Receipt(work.job, work.ending, pending)
      final == /\ file' = [file EXCEPT ![a] = [state |-> "final", reply |-> r]]
               /\ finals' = Append(finals, a)
  IN /\ \/ final /\ Respond(work.job, work.heard, r)
        \/ final /\ Respond(work.job, work.heard, Unsaved(r))
        \/ UNCHANGED <<file, finals>> /\ Respond(work.job, work.heard, Unsaved(r))
     /\ work' = Idle
     /\ UNCHANGED <<up, since, waiting, host>>

Save ==
  /\ up /\ work # Idle /\ work.at = "save"
  /\ \E pending \in BOOLEAN : (pending => work.job.kind = "ssh_hardening") /\ SaveAs(pending)

-----------------------------------------------------------------------------
(* The process stops and systemd starts it again.                          *)

Stop ==
  /\ up' = FALSE
  /\ waiting' = {} /\ work' = Idle
  /\ UNCHANGED <<host, answer>>

Crash ==
  /\ up
  /\ Stop
  /\ UNCHANGED <<file, finals, since>>

(* The intent is written in place: between creating the file and the end   *)
(* of the write it holds no valid JSON.                                    *)
CrashInBegin(w) ==
  /\ up /\ work = Idle /\ w \in waiting
  /\ ~Found(w.job.attempt) /\ Room
  /\ file' = [Swept EXCEPT ![w.job.attempt] = [state |-> "torn", reply |-> Interrupted]]
  /\ finals' = Kept /\ since' = Latest(w.job.attempt)
  /\ Stop

(* newReceiptCache reads every file and gives up at the first invalid one. *)
Restart ==
  /\ ~up
  /\ \A a \in Attempts : file[a].state # "torn"
  /\ up' = TRUE
  /\ UNCHANGED <<file, finals, since, waiting, work, host, answer>>

Init ==
  /\ up = TRUE
  /\ file = [a \in Attempts |-> NoFile]
  /\ finals = <<>> /\ since = [a \in Attempts |-> {}]
  /\ waiting = {} /\ work = Idle /\ answer = None
  /\ host = [a \in Attempts |-> [runs |-> 0, effect |-> "none"]]

Serve == \E w \in waiting : Replay(w) \/ Begin(w) \/ BeginFails(w)
Engine == Check \/ Apply \/ Verify \/ Undo \/ Operate
Stops == Crash \/ \E w \in waiting : CrashInBegin(w)
Helper == Serve \/ Engine \/ Save \/ Stops \/ Restart

Next ==
  \/ \E job \in Jobs : Ask(job)
  \/ HangUp \/ Hear
  \/ Helper

Spec == Init /\ [][Next]_helperVars

(* packaging/systemd/witshield-helper.service: Restart=on-failure.         *)
FairSpec == Spec /\ WF_helperVars(Restart)

-----------------------------------------------------------------------------
(* Properties.                                                             *)

(* The files, the queue of the mutex and the effects are well formed.      *)
TypeOK ==
  /\ up \in BOOLEAN
  /\ file \in [Attempts -> [state : {"none", "torn", "started", "final"}, reply : Submission]]
  /\ finals \in Seq(Attempts) /\ since \in [Attempts -> SUBSET Attempts]
  /\ waiting \subseteq [job : Job, heard : BOOLEAN]
  /\ work = Idle \/ work \in Held
  /\ host \in [Attempts -> [runs : Nat, effect : {"none", "done", "unsure"}]]
  /\ answer = None \/ answer \in [attempt : Attempts, job : Job, reply : Submission]

(* The Helper as its clients see it: who waits for a reply, and what may   *)
(* still begin.                                                            *)
Handlers == waiting \cup (IF work = Idle THEN {} ELSE {[job |-> work.job, heard |-> work.heard]})
Heard    == {h \in Handlers : h.heard}
NotBegun == waiting \cup
  (IF work # Idle /\ work.at \in {"check", "open"} THEN {[job |-> work.job, heard |-> work.heard]}
   ELSE {})

E == INSTANCE Executor WITH
       listener <- IF Heard = {} THEN None ELSE (CHOOSE h \in Heard : TRUE).job,
       orphans  <- {h.job : h \in {h \in NotBegun : ~h.heard}}

(* The cache, the lock, the engine and the crashes keep the promise that   *)
(* the rest of the system relies on.                                       *)
KeepsPromise == E!Spec

(* Whatever step failed, whatever could not be saved and whatever a crash  *)
(* interrupted: a response that the Controller takes for a success follows *)
(* a change that was verified, and one that it takes for a failure is      *)
(* given only while the attempt has left the host as it was.               *)
AnswerTruthful == answer # None => E!Truthful(answer.job, answer.reply)
AnswersAreTruthful == [][answer' # answer => AnswerTruthful']_helperVars

(* An attempt changes the host at most once, however often it is asked     *)
(* for, over crashes, lost responses and evicted receipts.                 *)
RunsOnce == \A a \in Attempts : host[a].runs <= 1

(* The reason: while it can still be asked for, an attempt that began to   *)
(* change the host has its file.                                           *)
TouchedIsRecorded ==
  \A a \in Attempts : host[a].runs > 0 /\ Recent(a) => Found(a)

(* The cache keeps its limit.                                              *)
WithinLimit == Cardinality({a \in Attempts : file[a].state # "none"}) <= MaxItems

(* A repeated attempt is answered from its file, never by a second run,    *)
(* although the cache is bounded.                                          *)
ReplayIsSafe == TypeOK /\ RunsOnce /\ TouchedIsRecorded /\ WithinLimit

(* The Helper comes back after it stopped: "crash marker not replay-safe"  *)
(* is an error to the tests, and systemd restarts on failure.              *)
HelperReturns == ~up ~> up

=============================================================================
