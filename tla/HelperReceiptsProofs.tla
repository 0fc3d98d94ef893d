------------------------- MODULE HelperReceiptsProofs -------------------------
(***************************************************************************)
(* The Helper runs an attempt at most once, tells the truth about it, and  *)
(* keeps the promise of Executor, for any number of attempts and any size  *)
(* of the cache.                                                           *)
(***************************************************************************)
EXTENDS HelperReceipts, FiniteSetTheorems, SequenceTheorems, TLAPS

(* The files of the cache.                                                 *)
Recorded == {a \in Attempts : file[a].state # "none"}

-----------------------------------------------------------------------------
(* The inductive invariant.                                                *)

(* The finals are the final receipts, once each, in the order in which     *)
(* their attempts last began.  Since the lock is held from the intent to   *)
(* the receipt, the oldest receipt is that of the oldest attempt.          *)
InOrder ==
  /\ \A i \in DOMAIN finals : file[finals[i]].state = "final"
  /\ \A a \in Attempts : file[a].state = "final" => \E i \in DOMAIN finals : finals[i] = a
  /\ \A i, j \in DOMAIN finals :
       i < j => finals[i] # finals[j] /\ finals[j] \in since[finals[i]]

(* What has a file has begun; there is never more than one file too many,  *)
(* and a torn file only after a crash.                                     *)
Stored ==
  /\ \A a \in Attempts : file[a].state # "none" => since[a] # {}
  /\ \A a \in Attempts : IsFiniteSet(since[a])
  /\ IsFiniteSet(Recorded) /\ Cardinality(Recorded) <= MaxItems
  /\ up => \A a \in Attempts : file[a].state # "torn"

(* What waits leaves room for what it competes with.                       *)
Queueing ==
  /\ IsFiniteSet(waiting)
  /\ \A w \in waiting :
       /\ up /\ w.job \in Jobs
       /\ Cardinality(Competing(w.job.attempt)) + Cardinality(waiting) <= MaxItems

(* An attempt that changed the host and has no file any more has been      *)
(* followed by as many attempts as the cache holds.                        *)
Touched ==
  \A a \in Attempts :
    /\ host[a].runs = 0 => host[a].effect = "none"
    /\ host[a].runs > 0 =>
         /\ host[a].runs = 1 /\ since[a] # {}
         /\ Found(a) \/ Cardinality(Competing(a)) >= MaxItems

(* The handler that holds the lock is the last that began, and knows what  *)
(* it did to the host.                                                     *)
AtWork ==
  LET job == work.job  h == host[work.job.attempt] IN
  work # Idle =>
    /\ up /\ job \in Jobs
    /\ file[job.attempt].state = "started"
    /\ \A b \in Attempts : since[b] # {} => job.attempt \in since[b]
    /\ work.at \in {"check", "apply", "verify", "undo"} => job.op = "execute"
    /\ work.at \in {"open", "operate"} => job.op # "execute"
    /\ work.at \in {"check", "open"} => h.runs = 0
    /\ work.at \in {"apply", "verify", "undo", "operate"} => h.effect = "unsure"
    /\ work.at = "save" =>
         /\ work.ending \in EndingsOf(job.op)
         /\ work.ending = "proved" => h.effect = "done"
         /\ work.ending \in {"refused", "undone"} => h.effect = "none"

(* What a reply says of an attempt with this effect is true.               *)
SaysTrue(effect, job, reply) ==
  LET o == Outcome(job.op, job.kind, reply)
  IN /\ o.ok => effect = "done"
     /\ ~o.ok /\ ~o.unknown => effect = "none"

(* What a final receipt says is true of the host.                          *)
Honest ==
  \A job \in Jobs :
    /\ file[job.attempt].state = "started" => file[job.attempt].reply = Interrupted
    /\ file[job.attempt].state = "final" =>
         /\ file[job.attempt].reply \in Replies(job)
         /\ SaysTrue(host[job.attempt].effect, job, file[job.attempt].reply)

(* One Agent listens, to one handler or to one answer.                     *)
OneListener ==
  /\ \A v, w \in waiting : v.heard /\ w.heard => v = w
  /\ work # Idle /\ work.heard => \A w \in waiting : ~w.heard
  /\ answer # None => ~(work # Idle /\ work.heard) /\ \A w \in waiting : ~w.heard

HelperInv ==
  /\ TypeOK
  /\ InOrder /\ Stored /\ Queueing /\ Touched /\ AtWork /\ Honest /\ OneListener

-----------------------------------------------------------------------------
(* What the Helper can say.                                                *)

(* The bytes of a result are some result.                                  *)
LEMMA BytesAreBytes == Bytes \in ResultIds
BY BytesAssumption DEF Bytes

(* A refusal and an unfinished attempt are well-formed results.            *)
LEMMA PlainReplies ==
  /\ Refused \in Submission /\ Interrupted \in Submission
  /\ Interrupted.ok = FALSE /\ Interrupted.error = "indeterminate"
  /\ Refused.ok = FALSE /\ Refused.error = "other" /\ Refused.matches = FALSE
BY BytesAreBytes DEF Refused, Interrupted, Submission, StepShapes

(* So is every receipt, saved or not.                                      *)
LEMMA ReceiptRows ==
  ASSUME NEW job \in Job, NEW ending \in Endings, NEW pending \in BOOLEAN
  PROVE  /\ Receipt(job, ending, pending) \in Submission
         /\ Unsaved(Receipt(job, ending, pending)) \in Submission
<1>1. Receipt(job, ending, pending) \in Submission
  BY BytesAreBytes DEF Receipt, Submission, StepShapes
<1>2. ASSUME NEW r \in Submission
      PROVE Unsaved(r) \in Submission
  BY DEF Unsaved, Submission
<1> QED
  BY <1>1, <1>2

(* The endings of an operation.                                            *)
LEMMA EndingsKnown ==
  ASSUME NEW op
  PROVE  EndingsOf(op) \subseteq Endings
BY DEF EndingsOf, Endings

(* All replies are well-formed submissions.                                *)
LEMMA RepliesRows ==
  ASSUME NEW job \in Job
  PROVE  Replies(job) \subseteq Submission
BY PlainReplies, ReceiptRows, EndingsKnown DEF Replies, Receipts

(* The Executor judges and answers with the same words.                    *)
LEMMA SameOutcome ==
  ASSUME NEW op, NEW kind, NEW s
  PROVE  E!Outcome(op, kind, s) = Outcome(op, kind, s)
BY DEF E!Outcome, E!Accepted, E!RecoveredSuccess, E!ReportedUnknown, E!UnknownWithState,
       E!UnknownWithoutState, E!UnknownReceipt, E!ProvesSuccess, E!BoundState, E!LegacySuspend,
       E!SSHDeadlineAgrees, E!DeadlineOpen,
       Outcome, Accepted, RecoveredSuccess, ReportedUnknown, UnknownWithState,
       UnknownWithoutState, UnknownReceipt, ProvesSuccess, BoundState, LegacySuspend,
       SSHDeadlineAgrees, DeadlineOpen

(* The Executor speaks of the same jobs and replies.                       *)
LEMMA SameReplies ==
  /\ E!Job = Job
  /\ \A job : E!Replies(job) = Replies(job)
<1>1. E!Refused = Refused /\ E!Interrupted = Interrupted
  BY DEF E!Refused, E!Interrupted, E!Bytes, Refused, Interrupted, Bytes
<1>2. \A job, ending, pending : E!Receipt(job, ending, pending) = Receipt(job, ending, pending)
  BY DEF E!Receipt, E!Bytes, E!StepShapes, Receipt, Bytes, StepShapes
<1>3. \A r : E!Unsaved(r) = Unsaved(r)
  BY DEF E!Unsaved, Unsaved
<1>4. \A job : E!Receipts(job) = Receipts(job)
  BY <1>2 DEF E!Receipts, Receipts, E!EndingsOf, EndingsOf
<1>5. E!Job = Job
  BY DEF E!Job, Job, E!Operations, Operations, E!CommandTypes, CommandTypes, E!ActionKinds, ActionKinds
<1> QED
  BY <1>1, <1>3, <1>4, <1>5 DEF E!Replies, Replies

(* "Interrupted" claims nothing; a refusal claims the host was not touched.*)
LEMMA PlainTruth ==
  ASSUME NEW job \in Job
  PROVE  /\ \A effect : SaysTrue(effect, job, Interrupted)
         /\ SaysTrue("none", job, Refused)
         /\ Interrupted \in Replies(job) /\ Refused \in Replies(job)
<1>1. LET o == Outcome(job.op, job.kind, Interrupted)
      IN ~o.ok /\ o.unknown
  BY PlainReplies DEF Outcome, Accepted, RecoveredSuccess, ReportedUnknown
<1>2. LET o == Outcome(job.op, job.kind, Refused)
      IN ~o.ok
  BY PlainReplies DEF Outcome, Accepted, RecoveredSuccess
<1> QED
  BY <1>1, <1>2 DEF SaysTrue, Replies

(* A receipt proves success exactly when the change was proved, and a      *)
(* failure only when the host was left as it was; so it does when it could *)
(* not be saved.                                                           *)
LEMMA ReceiptTruth ==
  ASSUME NEW job \in Job, NEW ending \in EndingsOf(job.op), NEW pending \in BOOLEAN,
         NEW effect, pending => job.kind = "ssh_hardening",
         ending = "proved" => effect = "done",
         ending \in {"refused", "undone"} => effect = "none"
  PROVE  LET r == Receipt(job, ending, pending)
         IN  /\ SaysTrue(effect, job, r) /\ SaysTrue(effect, job, Unsaved(r))
             /\ r \in Replies(job) /\ Unsaved(r) \in Replies(job)
<1> DEFINE r == Receipt(job, ending, pending)
           u == Unsaved(r)
<1>0. ending \in Endings /\ r \in Submission
  BY EndingsKnown, ReceiptRows
<1>1. r \in Receipts(job)
  BY DEF Receipts
<1>2. /\ r.ok = (ending = "proved") /\ r.success = (ending = "proved")
      /\ r.error = IF ending = "proved" THEN "none" ELSE "other"
      /\ r.matches = TRUE
      /\ r.unknown = (ending \in {"undo_failed", "apply_failed", "op_failed"})
      /\ r.steps = IF ending = "proved" THEN "complete"
                   ELSE IF ending \in StepShapes THEN ending ELSE "invalid"
      /\ ending = "undo_failed" /\ job.op = "execute" => r.state = "valid" /\ r.binds = "match"
      /\ ending \in {"apply_failed", "op_failed"} => r.state = "none" /\ r.binds = "none"
      /\ ending = "proved" =>
           /\ IF job.op = "execute" THEN r.state = "valid" /\ r.binds = "match"
              ELSE r.state = "none"
           /\ IF job.op = "execute" /\ job.kind = "ssh_hardening"
                THEN /\ r.pending = IF pending THEN "yes" ELSE "no"
                     /\ r.deadline = IF pending THEN "ahead" ELSE "none"
                ELSE r.pending = "absent" /\ r.deadline = "none"
  BY DEF Receipt
<1>3. /\ u.ok = FALSE /\ u.success = r.success
      /\ u.error = IF r.success THEN "persistence" ELSE "other"
      /\ u.matches = r.matches /\ u.unknown = r.unknown /\ u.steps = r.steps
      /\ u.state = r.state /\ u.binds = r.binds
      /\ u.pending = r.pending /\ u.deadline = r.deadline
  BY <1>0 DEF Unsaved, Submission
<1>4. /\ job.op = "execute" => ending \in {"proved", "refused", "undone", "undo_failed", "apply_failed"}
      /\ job.op # "execute" => ending \in {"proved", "refused", "op_failed"}
  BY DEF EndingsOf
<1> HIDE DEF r, u
<1>5. ASSUME NEW s \in {r, u}
      PROVE  SaysTrue(effect, job, s)
  <2> DEFINE o == Outcome(job.op, job.kind, s)
  <2>1. o.ok <=> ending = "proved"
    BY <1>2, <1>3, <1>5 DEF Outcome, Accepted, RecoveredSuccess, ProvesSuccess, BoundState,
       SSHDeadlineAgrees, DeadlineOpen
  <2>2. ending = "undo_failed" \/ ending = "apply_failed" \/ ending = "op_failed" => o.unknown
    BY <1>2, <1>3, <1>4, <1>5 DEF Outcome, UnknownWithState, UnknownWithoutState, UnknownReceipt,
       BoundState, StepShapes
  <2> QED
    BY <1>4, <2>1, <2>2 DEF SaysTrue
<1> QED
  BY <1>1, <1>5 DEF Replies, r, u

-----------------------------------------------------------------------------
(* The bounded cache.                                                      *)

FileRow == [state : {"none", "torn", "started", "final"}, reply : Submission]

(* Making room for one more file removes the oldest receipt when the cache *)
(* is full and has a receipt, and nothing otherwise.                       *)
SweptNothing == Kept = finals /\ Swept = file
SweptOldest ==
  /\ Len(finals) > 0 /\ Cardinality(Recorded) = MaxItems
  /\ Kept \in Seq(Attempts) /\ Len(Kept) = Len(finals) - 1
  /\ \A i \in 1..(Len(finals) - 1) : Kept[i] = finals[i + 1]
  /\ Swept[finals[1]] = NoFile
  /\ \A a \in Attempts \ {finals[1]} : Swept[a] = file[a]

(* ensureCapacity removes one receipt at most, and leaves room for one.    *)
LEMMA Sweeping ==
  ASSUME TypeOK, InOrder, Stored
  PROVE  /\ SweptNothing \/ SweptOldest
         /\ Room /\ SweptNothing => Cardinality(Recorded) < MaxItems
<1>0. /\ MaxItems \in Nat \ {0}
      /\ Len(finals) \in Nat /\ DOMAIN finals = 1..Len(finals)
      /\ finals \in Seq(Attempts) /\ \A i \in 1..Len(finals) : finals[i] \in Attempts
      /\ file = [a \in Attempts |-> file[a]]
  BY ItemsAssumption DEF TypeOK
<1>1. Cardinality(Recorded) \in Nat /\ Cardinality(Recorded) <= MaxItems
  BY FS_CardinalityType DEF Stored
<1>2. Excess = Cardinality(Recorded) + 1 - MaxItems
  BY DEF Excess, Recorded
<1>3. CASE Cardinality(Recorded) < MaxItems
  <2>1. Gone = 0
    BY <1>0, <1>1, <1>2, <1>3 DEF Gone
  <2>2. Kept = finals
    BY <1>0, <2>1, SubSeqFull DEF Kept
  <2>3. \A a \in Attempts : Swept[a] = file[a]
    BY <1>0, <2>2 DEF Swept, InOrder
  <2>4. Swept = file
    BY <1>0, <2>3 DEF Swept
  <2> QED
    BY <1>3, <2>2, <2>4 DEF SweptNothing
<1>4. CASE Cardinality(Recorded) = MaxItems
  <2>1. Gone = 1 /\ Excess = 1
    BY <1>0, <1>2, <1>4 DEF Gone
  <2>2. Kept = SubSeq(finals, 2, Len(finals))
    BY <2>1 DEF Kept
  <2>3. CASE Len(finals) = 0
    <3>1. Kept = finals
      BY <1>0, <2>2, <2>3, SubSeqEmpty, EmptySeq
    <3>2. \A a \in Attempts : Swept[a] = file[a]
      BY <1>0, <3>1 DEF Swept, InOrder
    <3>3. Swept = file
      BY <1>0, <3>2 DEF Swept
    <3>4. ~Room
      BY <2>1, <2>3 DEF Room
    <3> QED
      BY <3>1, <3>3, <3>4 DEF SweptNothing
  <2>4. CASE Len(finals) > 0
    <3>1. /\ Kept \in Seq(Attempts) /\ Len(Kept) = Len(finals) - 1
          /\ \A i \in 1..(Len(finals) - 1) : Kept[i] = finals[i + 1]
      <4>1. \A i \in 2..Len(finals) : finals[i] \in Attempts
        BY <1>0
      <4>2. /\ SubSeq(finals, 2, Len(finals)) \in Seq(Attempts)
            /\ Len(SubSeq(finals, 2, Len(finals))) = IF 2 <= Len(finals) THEN Len(finals) - 2 + 1 ELSE 0
            /\ \A i \in 1..(Len(finals) - 2 + 1) : SubSeq(finals, 2, Len(finals))[i] = finals[2 + i - 1]
        BY <1>0, <4>1, SubSeqProperties
      <4> QED
        BY <1>0, <2>2, <2>4, <4>2
    <3>2. DOMAIN Kept = 1..(Len(finals) - 1)
      BY <1>0, <2>4, <3>1
    <3>3. finals[1] \notin {Kept[i] : i \in DOMAIN Kept}
      <4>1. SUFFICES ASSUME NEW i \in 1..(Len(finals) - 1), Kept[i] = finals[1]
                     PROVE FALSE
        BY <3>2
      <4>2. finals[i + 1] = finals[1] /\ i + 1 \in DOMAIN finals /\ 1 \in DOMAIN finals /\ 1 < i + 1
        BY <1>0, <2>4, <3>1, <4>1
      <4> QED
        BY <4>2 DEF InOrder
    <3>4. finals[1] \in Attempts /\ file[finals[1]].state = "final"
      <4>1. 1 \in 1..Len(finals)
        BY <1>0, <2>4
      <4> QED
        BY <1>0, <4>1 DEF InOrder
    <3>5. ASSUME NEW a \in Attempts \ {finals[1]}, file[a].state = "final"
          PROVE  a \in {Kept[i] : i \in DOMAIN Kept}
      <4>1. PICK i \in 1..Len(finals) : finals[i] = a
        BY <1>0, <3>5 DEF InOrder
      <4>2. i - 1 \in 1..(Len(finals) - 1) /\ Kept[i - 1] = a
        BY <1>0, <3>1, <3>5, <4>1
      <4> QED
        BY <3>2, <4>2
    <3>6. Swept[finals[1]] = NoFile /\ \A a \in Attempts \ {finals[1]} : Swept[a] = file[a]
      BY <3>3, <3>4, <3>5 DEF Swept
    <3> QED
      BY <1>4, <2>4, <3>1, <3>6 DEF SweptOldest, SweptNothing
  <2> QED
    BY <1>0, <2>3, <2>4
<1> QED
  BY <1>0, <1>1, <1>3, <1>4

(* The sets of the invariant are finite.                                   *)
LEMMA CompetingFinite ==
  ASSUME TypeOK, Stored, NEW a \in Attempts
  PROVE  /\ IsFiniteSet(Competing(a)) /\ Cardinality(Competing(a)) \in Nat
         /\ StartedFiles \subseteq Recorded
<1>1. StartedFiles \in SUBSET Recorded
  BY DEF StartedFiles, Recorded
<1>2. IsFiniteSet(StartedFiles)
  BY <1>1, FS_Subset DEF Stored
<1>3. IsFiniteSet(since[a] \cup StartedFiles)
  BY <1>2, FS_Union DEF Stored
<1>4. IsFiniteSet(Competing(a))
  BY <1>3, FS_Subset DEF Competing
<1> QED
  BY <1>1, <1>4, FS_CardinalityType

(* An attempt begins: it is marked, old receipts may go, and its file is   *)
(* there, torn or not.                                                     *)
Beginning(b) ==
  /\ ~Found(b) /\ up
  /\ since' = Latest(b)
  /\ \/ finals' = Kept /\ \A a \in Attempts \ {b} : file'[a] = Swept[a]
     \/ finals' = finals /\ \A a \in Attempts \ {b} : file'[a] = file[a]
  /\ file'[b].state \in {"none", "started", "torn"}
  /\ file'[b].state # "none" => Room /\ finals' = Kept

(* So either the other files stay, or the oldest receipt goes.             *)
OthersStay(b) ==
  finals' = finals /\ \A a \in Attempts \ {b} : file'[a] = file[a]
OldestGoes(b) ==
  /\ Len(finals) > 0 /\ Cardinality(Recorded) = MaxItems /\ finals[1] # b
  /\ finals' \in Seq(Attempts) /\ Len(finals') = Len(finals) - 1
  /\ \A i \in 1..(Len(finals) - 1) : finals'[i] = finals[i + 1]
  /\ file'[finals[1]] = NoFile
  /\ \A a \in Attempts \ {b, finals[1]} : file'[a] = file[a]

(* What a beginning does to the files of the others.                       *)
LEMMA BeginShape ==
  ASSUME TypeOK, InOrder, Stored, NEW b \in Attempts, Beginning(b)
  PROVE  /\ OthersStay(b) \/ OldestGoes(b)
         /\ OthersStay(b) /\ file'[b].state # "none" => Cardinality(Recorded) < MaxItems
         /\ file[b].state = "none"
<1>1. file[b].state = "none"
  BY DEF TypeOK, Stored, Beginning, Found
<1>2. Len(finals) > 0 => finals[1] \in Attempts /\ file[finals[1]].state = "final"
  <2>1. finals \in Seq(Attempts) /\ (Len(finals) > 0 => 1 \in DOMAIN finals)
    BY DEF TypeOK
  <2> QED
    BY <2>1 DEF InOrder
<1>3. CASE finals' = Kept /\ \A a \in Attempts \ {b} : file'[a] = Swept[a]
  <2>1. CASE SweptNothing
    BY <1>1, <1>3, <2>1, Sweeping DEF SweptNothing, OthersStay, Beginning
  <2>2. CASE SweptOldest
    <3>1. finals[1] # b /\ finals[1] \in Attempts
      BY <1>1, <1>2, <2>2 DEF SweptOldest
    <3>2. OldestGoes(b)
      BY <1>3, <2>2, <3>1 DEF SweptOldest, OldestGoes
    <3>3. ~OthersStay(b)
      BY <2>2, <3>2 DEF OthersStay, OldestGoes, TypeOK
    <3> QED
      BY <1>1, <3>2, <3>3
  <2> QED
    BY <2>1, <2>2, Sweeping
<1>4. CASE finals' # Kept
  BY <1>1, <1>4 DEF Beginning, OthersStay
<1>5. CASE finals' = Kept /\ finals' = finals /\ \A a \in Attempts \ {b} : file'[a] = file[a]
  <2>1. CASE SweptNothing
    BY <1>1, <1>5, <2>1, Sweeping DEF OthersStay, Beginning
  <2>2. CASE SweptOldest
    BY <1>5, <2>2 DEF SweptOldest, TypeOK
  <2> QED
    BY <2>1, <2>2, Sweeping
<1> QED
  BY <1>3, <1>4, <1>5 DEF Beginning

(* The history marks the attempt as the last that began.                   *)
LEMMA BeginMarks ==
  ASSUME TypeOK, Stored, NEW b \in Attempts, Beginning(b)
  PROVE  /\ since'[b] = {b}
         /\ \A a \in Attempts \ {b} :
              since'[a] = IF since[a] = {} THEN {} ELSE since[a] \cup {b}
         /\ \A a \in Attempts : IsFiniteSet(since'[a])
         /\ \A a \in Attempts : since'[a] # {} => b \in since'[a]
<1>1. \A a \in Attempts :
        since'[a] = IF a = b THEN {b} ELSE IF since[a] = {} THEN {} ELSE since[a] \cup {b}
  BY DEF Beginning, Latest
<1>2. ASSUME NEW a \in Attempts
      PROVE IsFiniteSet(since'[a])
  <2>1. IsFiniteSet({b}) /\ IsFiniteSet(since[a]) /\ IsFiniteSet(since[a] \cup {b})
    BY FS_Singleton, FS_AddElement DEF Stored
  <2> QED
    BY <1>1, <2>1
<1> QED
  BY <1>1, <1>2

(* The receipts stay in order.                                             *)
LEMMA BeginOrdered ==
  ASSUME TypeOK, InOrder, Stored, NEW b \in Attempts, Beginning(b)
  PROVE  InOrder'
<1>0. /\ finals \in Seq(Attempts) /\ Len(finals) \in Nat /\ DOMAIN finals = 1..Len(finals)
      /\ \A i \in 1..Len(finals) : finals[i] \in Attempts
      /\ file[b].state = "none"
  BY BeginShape DEF TypeOK
<1>1. \A i \in 1..Len(finals) : finals[i] # b /\ file[finals[i]].state = "final"
  BY <1>0 DEF InOrder
<1>2. \A i, j \in 1..Len(finals) : i < j => /\ finals[i] # finals[j]
                                            /\ finals[j] \in since[finals[i]]
                                            /\ finals[j] \in since'[finals[i]]
  <2>1. ASSUME NEW x \in Attempts \ {b}, NEW y \in since[x]
        PROVE y \in since'[x]
    BY <2>1, BeginMarks
  <2>2. \A i, j \in 1..Len(finals) :
          i < j => finals[i] # finals[j] /\ finals[j] \in since[finals[i]]
    BY <1>0 DEF InOrder
  <2>3. \A i \in 1..Len(finals) : finals[i] \in Attempts \ {b}
    BY <1>0, <1>1
  <2> QED
    BY <2>1, <2>2, <2>3
<1>3. file'[b].state # "final"
  BY DEF Beginning
<1>4. CASE OthersStay(b)
  <2>1. \A i \in DOMAIN finals' : file'[finals'[i]].state = "final"
    BY <1>0, <1>1, <1>4 DEF OthersStay
  <2>2. \A a \in Attempts : file'[a].state = "final" => \E i \in DOMAIN finals' : finals'[i] = a
    BY <1>3, <1>4 DEF OthersStay, InOrder
  <2>3. \A i, j \in DOMAIN finals' :
           i < j => finals'[i] # finals'[j] /\ finals'[j] \in since'[finals'[i]]
    BY <1>0, <1>2, <1>4 DEF OthersStay
  <2> QED
    BY <2>1, <2>2, <2>3 DEF InOrder
<1>5. CASE OldestGoes(b)
  <2>0. /\ DOMAIN finals' = 1..(Len(finals) - 1)
        /\ \A i \in 1..(Len(finals) - 1) : /\ finals'[i] = finals[i + 1]
                                           /\ i + 1 \in 1..Len(finals) /\ 1 < i + 1
        /\ 1 \in 1..Len(finals)
    BY <1>0, <1>5 DEF OldestGoes
  <2>1. \A i \in DOMAIN finals' : file'[finals'[i]].state = "final"
    BY <1>0, <1>1, <1>2, <1>5, <2>0 DEF OldestGoes
  <2>2. ASSUME NEW a \in Attempts, file'[a].state = "final"
        PROVE \E i \in DOMAIN finals' : finals'[i] = a
    <3>1. a # b /\ a # finals[1] /\ file[a].state = "final"
      BY <1>3, <1>5, <2>2 DEF OldestGoes, NoFile
    <3>2. PICK i \in 1..Len(finals) : finals[i] = a
      BY <1>0, <3>1 DEF InOrder
    <3>3. i - 1 \in 1..(Len(finals) - 1) /\ (i - 1) + 1 = i
      BY <1>0, <3>1, <3>2
    <3> QED
      BY <2>0, <3>2, <3>3
  <2>3. ASSUME NEW i \in DOMAIN finals', NEW j \in DOMAIN finals', i < j
        PROVE finals'[i] # finals'[j] /\ finals'[j] \in since'[finals'[i]]
    <3>1. /\ i + 1 \in 1..Len(finals) /\ j + 1 \in 1..Len(finals) /\ i + 1 < j + 1
          /\ finals'[i] = finals[i + 1] /\ finals'[j] = finals[j + 1]
      BY <1>0, <2>0, <2>3
    <3> QED
      BY <1>2, <3>1
  <2> QED
    BY <2>1, <2>2, <2>3 DEF InOrder
<1> QED
  BY <1>4, <1>5, BeginShape

(* Every file keeps its beginning, and there is never one too many.        *)
LEMMA BeginStored ==
  ASSUME TypeOK, InOrder, Stored, NEW b \in Attempts, Beginning(b),
         file'[b].state = "torn" => ~up'
  PROVE  Stored'
<1>0. file[b].state = "none" /\ MaxItems \in Nat \ {0}
  BY BeginShape, ItemsAssumption
<1>1. \A a \in Attempts \ {b} : file'[a] = file[a] \/ file'[a] = NoFile
  BY BeginShape DEF OthersStay, OldestGoes
<1>2. \A a \in Attempts \ {b} : file'[a].state # "none" => file[a].state # "none" /\ file'[a] = file[a]
  BY <1>1 DEF NoFile
<1>3. \A a \in Attempts : file'[a].state # "none" => since'[a] # {}
  BY <1>2, BeginMarks DEF Stored
<1>4. up' => \A a \in Attempts : file'[a].state # "torn"
  BY <1>2 DEF Stored, Beginning
<1>5. /\ IsFiniteSet(Recorded) /\ Cardinality(Recorded) \in Nat
      /\ Cardinality(Recorded) <= MaxItems
  BY FS_CardinalityType DEF Stored
<1>6. IsFiniteSet(Recorded') /\ Cardinality(Recorded') <= MaxItems
  <2>1. CASE file'[b].state = "none"
    <3>1. Recorded' \in SUBSET Recorded
      BY <1>2, <2>1 DEF Recorded
    <3>2. IsFiniteSet(Recorded') /\ Cardinality(Recorded') <= Cardinality(Recorded)
      BY <1>5, <3>1, FS_Subset
    <3> QED
      BY <1>0, <1>5, <3>2, FS_CardinalityType
  <2>2. CASE file'[b].state # "none" /\ OthersStay(b)
    <3>1. Recorded' = Recorded \cup {b} /\ b \notin Recorded
      BY <1>0, <2>2 DEF OthersStay, Recorded
    <3>2. Cardinality(Recorded) < MaxItems
      BY <2>2, BeginShape
    <3>3. IsFiniteSet(Recorded') /\ Cardinality(Recorded') = Cardinality(Recorded) + 1
      BY <1>5, <3>1, FS_AddElement
    <3> QED
      BY <1>0, <1>5, <3>2, <3>3
  <2>3. CASE file'[b].state # "none" /\ OldestGoes(b)
    <3> DEFINE old == finals[1]
    <3>1. old \in Attempts /\ old # b /\ file[old].state = "final"
      <4>1. 1 \in DOMAIN finals /\ finals \in Seq(Attempts)
        BY <2>3 DEF TypeOK, OldestGoes
      <4> QED
        BY <2>3, <4>1 DEF OldestGoes, InOrder
    <3>2. Recorded' = (Recorded \ {old}) \cup {b} /\ old \in Recorded /\ b \notin Recorded
      BY <1>0, <2>3, <3>1 DEF OldestGoes, Recorded, NoFile
    <3>3. /\ IsFiniteSet(Recorded \ {old})
          /\ Cardinality(Recorded \ {old}) = Cardinality(Recorded) - 1
      BY <1>5, <3>2, FS_RemoveElement
    <3>4. /\ IsFiniteSet(Recorded')
          /\ Cardinality(Recorded') = Cardinality(Recorded \ {old}) + 1
      BY <3>2, <3>3, FS_AddElement
    <3> QED
      BY <1>0, <1>5, <3>3, <3>4
  <2> QED
    BY <2>1, <2>2, <2>3, BeginShape
<1> QED
  BY <1>3, <1>4, <1>6, BeginMarks DEF Stored

(* The others that wait compete with one attempt more.                     *)
LEMMA BeginCompetes ==
  ASSUME TypeOK, InOrder, Stored, NEW b \in Attempts, Beginning(b), NEW a \in Attempts
  PROVE  Competing(a)' \subseteq Competing(a) \cup {b}
<1>1. StartedFiles' \subseteq StartedFiles \cup {b}
  BY BeginShape DEF OthersStay, OldestGoes, NoFile, StartedFiles
<1>2. since'[a] \subseteq since[a] \cup {b}
  BY BeginMarks
<1> QED
  BY <1>1, <1>2 DEF Competing

(* An attempt that loses its receipt has been followed by all the others   *)
(* of the cache: by the later receipts, by what is unresolved, and by the  *)
(* attempt that takes its place.                                           *)
LEMMA BeginTouched ==
  ASSUME TypeOK, InOrder, Stored, Touched, NEW b \in Attempts, Beginning(b),
         host' = host, host[b].runs = 0, Stored'
  PROVE  Touched'
<1>0. MaxItems \in Nat \ {0} /\ file[b].state = "none"
  BY BeginShape, ItemsAssumption
<1>a. SUFFICES ASSUME NEW a \in Attempts, host[a].runs > 0
               PROVE  /\ since'[a] # {}
                      /\ Found(a)' \/ Cardinality(Competing(a)') >= MaxItems
  BY DEF Touched
<1>b. a # b
  BY <1>a
<1>c. since[a] # {} /\ (Found(a) \/ Cardinality(Competing(a)) >= MaxItems)
  BY <1>a DEF Touched
<1>1. a # b /\ since[a] # {} /\ since'[a] = since[a] \cup {b}
  BY <1>b, <1>c, BeginMarks
<1>2. StartedFiles \subseteq StartedFiles'
  <2>1. ASSUME NEW x \in StartedFiles
        PROVE x # b /\ file'[x] = file[x]
    <3>1. x \in Attempts /\ x # b /\ file[x].state = "started"
      BY <1>0 DEF StartedFiles
    <3>2. Len(finals) > 0 => x # finals[1]
      <4>1. Len(finals) > 0 => 1 \in DOMAIN finals
        BY DEF TypeOK
      <4> QED
        BY <3>1, <4>1 DEF InOrder
    <3> QED
      BY <3>1, <3>2, BeginShape DEF OthersStay, OldestGoes
  <2> QED
    BY <2>1 DEF StartedFiles
<1>3. IsFiniteSet(Competing(a)') /\ Cardinality(Competing(a)') \in Nat
  <2>1. StartedFiles' \in SUBSET Recorded'
    BY DEF StartedFiles, Recorded
  <2>2. IsFiniteSet(StartedFiles')
    BY <2>1, FS_Subset DEF Stored
  <2>3. IsFiniteSet(since'[a] \cup StartedFiles')
    BY <2>2, FS_Union DEF Stored
  <2>4. IsFiniteSet(Competing(a)')
    BY <2>3, FS_Subset DEF Competing
  <2> QED
    BY <2>4, FS_CardinalityType
<1>4. CASE ~Found(a)
  <2>1. Competing(a) \in SUBSET Competing(a)'
    BY <1>1, <1>2 DEF Competing
  <2>2. Cardinality(Competing(a)) <= Cardinality(Competing(a)')
    BY <1>3, <2>1, FS_Subset
  <2>3. Cardinality(Competing(a)) \in Nat /\ Cardinality(Competing(a)) >= MaxItems
    BY <1>4, <1>c, CompetingFinite
  <2> QED
    BY <1>0, <1>1, <1>3, <2>2, <2>3
<1>5. CASE Found(a) /\ ~Found(a)'
  <2>1. OldestGoes(b) /\ a = finals[1]
    BY <1>1, <1>5, BeginShape DEF OthersStay, OldestGoes, Found
  <2>2. ASSUME NEW x \in Recorded \ {a}
        PROVE  x \in Competing(a)'
    <3>1. CASE file[x].state = "started"
      BY <1>2, <2>2, <3>1 DEF StartedFiles, Recorded, Competing
    <3>2. CASE file[x].state = "final"
      <4>1. PICK i \in DOMAIN finals : finals[i] = x
        BY <2>2, <3>2 DEF InOrder, Recorded
      <4>2. 1 \in DOMAIN finals /\ 1 < i
        BY <2>1, <2>2, <4>1 DEF TypeOK, OldestGoes
      <4>3. x \in since[a]
        BY <2>1, <4>1, <4>2 DEF InOrder
      <4> QED
        BY <1>1, <2>2, <4>3 DEF Competing
    <3>3. file[x].state \notin {"none", "torn"}
      BY <2>2 DEF Recorded, Stored, Beginning
    <3> QED
      BY <2>2, <3>1, <3>2, <3>3 DEF Recorded, TypeOK
  <2>3. b \in Competing(a)' /\ b \notin Recorded
    BY <1>0, <1>1 DEF Competing, Recorded
  <2>4. a \in Recorded
    BY <1>5 DEF Recorded, Found
  <2>5. IsFiniteSet(Recorded \ {a}) /\ Cardinality(Recorded \ {a}) = MaxItems - 1
    BY <1>0, <2>1, <2>4, FS_RemoveElement DEF Stored, OldestGoes
  <2>6. Cardinality((Recorded \ {a}) \cup {b}) = MaxItems
    <3>1. b \notin Recorded \ {a}
      BY <2>3
    <3>2. Cardinality((Recorded \ {a}) \cup {b}) = Cardinality(Recorded \ {a}) + 1
      BY <2>5, <3>1, FS_AddElement
    <3> QED
      BY <1>0, <2>5, <3>2
  <2>7. (Recorded \ {a}) \cup {b} \in SUBSET Competing(a)'
    BY <2>2, <2>3
  <2>8. MaxItems <= Cardinality(Competing(a)')
    BY <1>3, <2>6, <2>7, FS_Subset
  <2> QED
    BY <1>0, <1>1, <1>3, <2>8
<1> QED
  BY <1>1, <1>4, <1>5

-----------------------------------------------------------------------------
(* The types.                                                              *)

(* A response is well formed, or nobody hears it.                          *)
LEMMA RespondType ==
  ASSUME TypeOK, NEW job \in Job, NEW heard \in BOOLEAN, NEW reply \in Submission,
         Respond(job, heard, reply)
  PROVE  answer' = None \/ answer' \in [attempt : Attempts, job : Job, reply : Submission]
BY DEF TypeOK, Respond, Job

(* The files that stay are well formed.                                    *)
LEMMA SweptType ==
  ASSUME TypeOK, InOrder, Stored
  PROVE  /\ Swept \in [Attempts -> FileRow]
         /\ Kept \in Seq(Attempts)
         /\ \A b \in Attempts : Latest(b) \in [Attempts -> SUBSET Attempts]
<1>1. NoFile \in FileRow
  BY PlainReplies DEF NoFile, FileRow
<1>2. file \in [Attempts -> FileRow]
  BY DEF TypeOK, FileRow
<1>3. Swept \in [Attempts -> FileRow]
  BY <1>1, <1>2 DEF Swept
<1>4. Kept \in Seq(Attempts)
  BY Sweeping DEF SweptNothing, SweptOldest, TypeOK
<1> QED
  BY <1>3, <1>4 DEF Latest, TypeOK

(* Asking, listening and waiting.                                          *)
LEMMA ClientTypes ==
  ASSUME TypeOK, (\E job \in Jobs : Ask(job)) \/ HangUp \/ Hear
  PROVE  TypeOK'
<1>1. CASE \E job \in Jobs : Ask(job)
  <2>1. PICK job \in Jobs : Ask(job)
    BY <1>1
  <2>2. job \in Job
    BY JobsAssumption
  <2>a. [job |-> job, heard |-> TRUE] \in [job : Job, heard : BOOLEAN]
    BY <2>2
  <2>3. waiting' \subseteq [job : Job, heard : BOOLEAN]
    BY <2>1, <2>a DEF Ask, TypeOK
  <2> QED
    BY <2>1, <2>3 DEF Ask, TypeOK
<1>2. CASE HangUp
  <2>0. ASSUME NEW w \in [job : Job, heard : BOOLEAN]
        PROVE  [w EXCEPT !.heard = FALSE] \in [job : Job, heard : BOOLEAN]
    OBVIOUS
  <2>1. waiting' \subseteq [job : Job, heard : BOOLEAN]
    <3> SUFFICES ASSUME NEW v \in waiting'
                 PROVE  v \in [job : Job, heard : BOOLEAN]
      OBVIOUS
    <3>1. PICK w \in waiting : v = [w EXCEPT !.heard = FALSE]
      BY <1>2 DEF HangUp
    <3> QED
      BY <2>0, <3>1 DEF TypeOK
  <2>2. work' = Idle \/ work' \in Held
    <3>1. work # Idle => work \in Held /\ work' = [work EXCEPT !.heard = FALSE]
      BY <1>2 DEF HangUp, TypeOK
    <3>2. ASSUME NEW h \in Held PROVE [h EXCEPT !.heard = FALSE] \in Held
      BY DEF Held
    <3> QED
      BY <1>2, <3>1, <3>2 DEF HangUp
  <2> QED
    BY <1>2, <2>1, <2>2 DEF HangUp, TypeOK
<1>3. CASE Hear
  BY <1>3 DEF Hear, TypeOK
<1> QED
  BY <1>1, <1>2, <1>3

(* Serving a request that waits.                                           *)
LEMMA ServeTypes ==
  ASSUME TypeOK, InOrder, Stored, NEW w \in waiting,
         Replay(w) \/ Begin(w) \/ BeginFails(w) \/ CrashInBegin(w)
  PROVE  TypeOK'
<1>0. /\ w \in [job : Job, heard : BOOLEAN] /\ w.job \in Job /\ w.heard \in BOOLEAN
      /\ w.job.attempt \in Attempts /\ w.job.op \in Operations
      /\ waiting \subseteq [job : Job, heard : BOOLEAN]
  BY DEF TypeOK, Job
<1> DEFINE b == w.job.attempt
           rows == [Attempts -> [state : {"none", "torn", "started", "final"}, reply : Submission]]
<1>1. /\ Swept \in rows /\ Kept \in Seq(Attempts) /\ Latest(b) \in [Attempts -> SUBSET Attempts]
  BY <1>0, SweptType DEF FileRow
<1>2. \A st \in {"torn", "started"} : [Swept EXCEPT ![b] = [state |-> st, reply |-> Interrupted]] \in rows
  BY <1>1, PlainReplies
<1>3. CASE Replay(w)
  <2>1. file[b].reply \in Submission
    BY <1>0 DEF TypeOK
  <2>2. answer' = None \/ answer' \in [attempt : Attempts, job : Job, reply : Submission]
    BY <1>0, <1>3, <2>1, RespondType DEF Replay
  <2> QED
    BY <1>0, <1>3, <2>2 DEF Replay, TypeOK
<1>4. CASE Begin(w)
  <2>1. work' \in Held
    BY <1>0, <1>4 DEF Begin, Held, Steps, Endings
  <2> QED
    BY <1>0, <1>1, <1>2, <1>4, <2>1 DEF Begin, TypeOK
<1>5. CASE BeginFails(w)
  <2>2. answer' = None \/ answer' \in [attempt : Attempts, job : Job, reply : Submission]
    BY <1>0, <1>5, PlainReplies, RespondType DEF BeginFails
  <2> QED
    BY <1>0, <1>1, <1>5, <2>2 DEF BeginFails, TypeOK
<1>6. CASE CrashInBegin(w)
  BY <1>0, <1>1, <1>2, <1>6 DEF CrashInBegin, Stop, TypeOK
<1> QED
  BY <1>3, <1>4, <1>5, <1>6

(* The engine, the receipt and the process.                                *)
LEMMA EngineTypes ==
  ASSUME TypeOK, Engine
  PROVE  TypeOK'
<1>0. work \in Held /\ work.job \in Job /\ work.job.attempt \in Attempts
  BY DEF TypeOK, Engine, Check, Apply, Verify, Undo, Operate, Held, Job
<1>1. \A step \in Steps : Goto(step) => work' \in Held
  BY <1>0 DEF Goto, Held
<1>2. \A ending \in Endings : Finish(ending) => work' \in Held
  BY <1>0 DEF Finish, Held, Steps
<1>3. \A e \in {"none", "done", "unsure"} :
        Effect(e) => host' \in [Attempts -> [runs : Nat, effect : {"none", "done", "unsure"}]]
  BY <1>0 DEF TypeOK, Effect
<1>4. \A step : Mutating(step) => host' \in [Attempts -> [runs : Nat, effect : {"none", "done", "unsure"}]]
  BY <1>0 DEF TypeOK, Mutating
<1>5. work' \in Held
  BY <1>1, <1>2 DEF Engine, Check, Apply, Verify, Undo, Operate, Mutating, Steps, Endings, Unusable
<1>6. host' \in [Attempts -> [runs : Nat, effect : {"none", "done", "unsure"}]]
  BY <1>3, <1>4 DEF Engine, Check, Apply, Verify, Undo, Operate, TypeOK
<1>7. UNCHANGED EngineVars
  BY DEF Engine, Check, Apply, Verify, Undo, Operate
<1> QED
  BY <1>5, <1>6, <1>7 DEF EngineVars, TypeOK

(* The receipt.                                                            *)
LEMMA SaveTypes ==
  ASSUME TypeOK, Save
  PROVE  TypeOK'
<1>0. /\ work \in Held /\ work.job \in Job /\ work.job.attempt \in Attempts
      /\ work.ending \in Endings /\ work.heard \in BOOLEAN
  BY DEF TypeOK, Save, Held, Job
<1>1. PICK pending \in BOOLEAN : SaveAs(pending)
  BY DEF Save
<1> DEFINE r == Receipt(work.job, work.ending, pending)
<1>2. r \in Submission /\ Unsaved(r) \in Submission
  BY <1>0, ReceiptRows
<1> HIDE DEF r
<1>3. answer' = None \/ answer' \in [attempt : Attempts, job : Job, reply : Submission]
  BY <1>0, <1>1, <1>2, RespondType DEF SaveAs, r
<1>4. /\ file' = [file EXCEPT ![work.job.attempt] = [state |-> "final", reply |-> r]] \/ file' = file
      /\ finals' = Append(finals, work.job.attempt) \/ finals' = finals
      /\ work' = Idle /\ UNCHANGED <<up, since, waiting, host>>
  BY <1>1 DEF SaveAs, r
<1>5. file' \in [Attempts -> FileRow]
  <2>1. [state |-> "final", reply |-> r] \in FileRow
    BY <1>2 DEF FileRow
  <2>2. file \in [Attempts -> FileRow]
    BY DEF TypeOK, FileRow
  <2>3. file' \in [Attempts -> FileRow]
    <3>1. CASE file' = file
      BY <2>2, <3>1
    <3>2. CASE file' = [file EXCEPT ![work.job.attempt] = [state |-> "final", reply |-> r]]
      BY <2>1, <2>2, <3>2
    <3> QED
      BY <1>4, <3>1, <3>2
  <2> QED
    BY <2>3
<1>6. finals' \in Seq(Attempts)
  <2>1. finals \in Seq(Attempts) /\ Append(finals, work.job.attempt) \in Seq(Attempts)
    BY <1>0 DEF TypeOK
  <2> QED
    BY <1>4, <2>1
<1> QED
  BY <1>3, <1>4, <1>5, <1>6 DEF TypeOK, FileRow

(* Every step keeps the types.                                             *)
LEMMA TypeKept ==
  ASSUME TypeOK, InOrder, Stored, Next
  PROVE  TypeOK'
<1>1. CASE Crash \/ Restart
  BY <1>1 DEF Crash, Stop, Restart, TypeOK
<1> QED
  BY <1>1, ClientTypes, ServeTypes, EngineTypes, SaveTypes DEF Next, Helper, Serve, Stops

-----------------------------------------------------------------------------
(* The queue of the lock.                                                  *)

(* What waits and has no file has not touched the host.                    *)
LEMMA WaitingUntouched ==
  ASSUME TypeOK, Stored, Queueing, Touched, NEW w \in waiting, ~Found(w.job.attempt)
  PROVE  host[w.job.attempt].runs = 0
<1> DEFINE a == w.job.attempt
<1>0. a \in Attempts /\ MaxItems \in Nat \ {0} /\ host[a].runs \in Nat
  BY ItemsAssumption DEF TypeOK, Job
<1>1. Cardinality(Competing(a)) + Cardinality(waiting) <= MaxItems
  BY DEF Queueing
<1>2. Cardinality(Competing(a)) \in Nat
  BY <1>0, CompetingFinite
<1>3. Cardinality(waiting) \in Nat /\ Cardinality(waiting) # 0
  BY FS_CardinalityType, FS_EmptySet DEF Queueing
<1>4. ~(Cardinality(Competing(a)) >= MaxItems)
  BY <1>0, <1>1, <1>2, <1>3
<1> QED
  BY <1>0, <1>4 DEF Touched

(* One element more is at most one more.                                   *)
LEMMA OneMore ==
  ASSUME NEW S, IsFiniteSet(S), NEW x
  PROVE  /\ IsFiniteSet(S \cup {x})
         /\ Cardinality(S) \in Nat /\ Cardinality(S \cup {x}) \in Nat
         /\ Cardinality(S \cup {x}) <= Cardinality(S) + 1
<1>1. IsFiniteSet(S \cup {x}) /\ Cardinality(S \cup {x}) \in {Cardinality(S), Cardinality(S) + 1}
  BY FS_AddElement
<1>2. Cardinality(S) \in Nat /\ Cardinality(S \cup {x}) \in Nat
  BY <1>1, FS_CardinalityType
<1> QED
  BY <1>1, <1>2

(* What competes less, in a queue no longer, still fits.                   *)
LEMMA QueueStays ==
  ASSUME TypeOK, Stored, Queueing, up',
         IsFiniteSet(waiting'), Cardinality(waiting') <= Cardinality(waiting),
         \A v \in waiting' : \E w \in waiting : v.job = w.job,
         \A a \in Attempts : Competing(a)' \subseteq Competing(a)
  PROVE  Queueing'
<1>1. SUFFICES ASSUME NEW v \in waiting'
               PROVE  /\ v.job \in Jobs
                      /\ Cardinality(Competing(v.job.attempt)') + Cardinality(waiting') <= MaxItems
  BY DEF Queueing
<1>2. PICK w \in waiting : v.job = w.job
  OBVIOUS
<1> DEFINE a == w.job.attempt
<1>3. w.job \in Jobs /\ a \in Attempts /\ MaxItems \in Nat
  BY ItemsAssumption DEF Queueing, TypeOK, Job
<1>4. /\ IsFiniteSet(Competing(a)) /\ Cardinality(Competing(a)) \in Nat
      /\ Cardinality(Competing(a)) + Cardinality(waiting) <= MaxItems
  BY <1>3, CompetingFinite DEF Queueing
<1>5. Competing(a)' \in SUBSET Competing(a)
  BY <1>3
<1>6. IsFiniteSet(Competing(a)') /\ Cardinality(Competing(a)') <= Cardinality(Competing(a))
  BY <1>4, <1>5, FS_Subset
<1>7. Cardinality(Competing(a)') \in Nat /\ Cardinality(waiting) \in Nat /\ Cardinality(waiting') \in Nat
  BY <1>6, FS_CardinalityType DEF Queueing
<1>8. Cardinality(Competing(a)') + Cardinality(waiting') <= MaxItems
  BY <1>3, <1>4, <1>6, <1>7
<1> QED
  BY <1>2, <1>3, <1>8

(* A request that was served may compete with those that still wait.       *)
LEMMA QueueServed ==
  ASSUME TypeOK, Stored, Queueing, up', NEW w \in waiting, waiting' = waiting \ {w},
         NEW b, \A a \in Attempts : Competing(a)' \subseteq Competing(a) \cup {b}
  PROVE  Queueing'
<1>0. /\ IsFiniteSet(waiting) /\ Cardinality(waiting) \in Nat
      /\ IsFiniteSet(waiting') /\ Cardinality(waiting') = Cardinality(waiting) - 1
      /\ MaxItems \in Nat
  BY FS_CardinalityType, FS_RemoveElement, ItemsAssumption DEF Queueing
<1>1. SUFFICES ASSUME NEW v \in waiting'
               PROVE  Cardinality(Competing(v.job.attempt)') + Cardinality(waiting') <= MaxItems
  BY <1>0 DEF Queueing
<1> DEFINE a == v.job.attempt
<1>3. a \in Attempts /\ v \in waiting
  BY DEF TypeOK, Job
<1>4. /\ IsFiniteSet(Competing(a)) /\ Cardinality(Competing(a)) \in Nat
      /\ Cardinality(Competing(a)) + Cardinality(waiting) <= MaxItems
  BY <1>3, CompetingFinite DEF Queueing
<1>5. /\ IsFiniteSet(Competing(a) \cup {b})
      /\ Cardinality(Competing(a) \cup {b}) <= Cardinality(Competing(a)) + 1
  BY <1>4, OneMore
<1>6. Competing(a)' \in SUBSET (Competing(a) \cup {b})
  BY <1>3
<1>7. /\ IsFiniteSet(Competing(a)')
      /\ Cardinality(Competing(a)') <= Cardinality(Competing(a) \cup {b})
  BY <1>5, <1>6, FS_Subset
<1>8. Cardinality(Competing(a)') \in Nat /\ Cardinality(Competing(a) \cup {b}) \in Nat
  BY <1>5, <1>7, FS_CardinalityType
<1> QED
  BY <1>0, <1>4, <1>5, <1>7, <1>8

(* A request is let in only if there is room for it and for all others.    *)
LEMMA QueueAsked ==
  ASSUME TypeOK, Stored, Queueing, NEW job \in Jobs, Ask(job)
  PROVE  Queueing'
<1> DEFINE new == [job |-> job, heard |-> TRUE]
<1>1. /\ IsFiniteSet(waiting') /\ Cardinality(waiting') <= Cardinality(waiting) + 1
      /\ Cardinality(waiting) \in Nat /\ Cardinality(waiting') \in Nat
      /\ MaxItems \in Nat
  <2>1. IsFiniteSet(waiting \cup {new}) /\ Cardinality(waiting \cup {new}) <= Cardinality(waiting) + 1
    BY OneMore DEF Queueing
  <2> QED
    BY <2>1, FS_CardinalityType, ItemsAssumption DEF Ask, Queueing
<1>2. \A a \in Attempts : Competing(a)' = Competing(a)
  BY DEF Ask, Competing, StartedFiles
<1>3. ASSUME NEW v \in waiting'
      PROVE  v.job \in Jobs /\ v.job.attempt \in Attempts /\ Recent(v.job.attempt)
  <2>1. CASE v \in waiting
    BY <2>1 DEF Ask, Queueing, TypeOK, Job
  <2>2. CASE v = new
    BY <2>2, JobsAssumption DEF Ask, Job
  <2> QED
    BY <1>3, <2>1, <2>2 DEF Ask
<1>4. ASSUME NEW v \in waiting'
      PROVE Cardinality(Competing(v.job.attempt)') + Cardinality(waiting') <= MaxItems
  <2>1. /\ Cardinality(Competing(v.job.attempt)') = Cardinality(Competing(v.job.attempt))
        /\ Cardinality(Competing(v.job.attempt)) \in Nat
    BY <1>2, <1>3, CompetingFinite
  <2>2. Cardinality(Competing(v.job.attempt)) + Cardinality(waiting) < MaxItems
    BY <1>3 DEF Recent
  <2> QED
    BY <1>1, <2>1, <2>2
<1> QED
  BY <1>1, <1>3, <1>4 DEF Queueing, Ask

(* Requests nobody listens to any more are at most as many.                *)
LEMMA QueueAbandoned ==
  ASSUME TypeOK, Stored, Queueing, HangUp
  PROVE  Queueing'
<1> DEFINE f == [w \in waiting |-> [w EXCEPT !.heard = FALSE]]
<1>1. f \in Surjection(waiting, waiting')
  <2>1. waiting' = {[w EXCEPT !.heard = FALSE] : w \in waiting}
    BY DEF HangUp
  <2>2. f \in [waiting -> waiting']
    BY <2>1
  <2>3. \A v \in waiting' : \E w \in waiting : f[w] = v
    BY <2>1
  <2> QED
    BY <2>2, <2>3 DEF Surjection
<1>2. IsFiniteSet(waiting') /\ Cardinality(waiting') <= Cardinality(waiting)
  <2> HIDE DEF f
  <2> QED
    BY <1>1, FS_Surjection DEF Queueing
<1>3. \A v \in waiting' : \E w \in waiting : v.job = w.job
  BY DEF HangUp, TypeOK
<1>4. \A a \in Attempts : Competing(a)' \subseteq Competing(a)
  BY DEF HangUp, Competing, StartedFiles
<1>5. CASE waiting = {}
  BY <1>3, <1>2, <1>5 DEF Queueing
<1>6. CASE waiting # {}
  <2>1. up'
    BY <1>6 DEF HangUp, Queueing
  <2> QED
    BY <1>2, <1>3, <1>4, <2>1, QueueStays
<1> QED
  BY <1>5, <1>6

-----------------------------------------------------------------------------
(* Every step keeps the invariant.                                         *)

(* The three ways to begin.                                                *)
LEMMA Begins ==
  ASSUME TypeOK, InOrder, Stored, NEW w \in waiting,
         Begin(w) \/ BeginFails(w) \/ CrashInBegin(w)
  PROVE  /\ w.job.attempt \in Attempts /\ Beginning(w.job.attempt)
         /\ Begin(w) => file'[w.job.attempt] = [state |-> "started", reply |-> Interrupted]
         /\ BeginFails(w) => file'[w.job.attempt].state = "none"
         /\ CrashInBegin(w) => file'[w.job.attempt].state = "torn" /\ ~up'
<1> DEFINE b == w.job.attempt
<1>0. b \in Attempts /\ Swept \in [Attempts -> FileRow]
  BY SweptType DEF TypeOK, Job
<1>1. CASE Begin(w)
  <2>1. file' = [Swept EXCEPT ![b] = [state |-> "started", reply |-> Interrupted]]
    BY <1>1 DEF Begin
  <2>2. file'[b] = [state |-> "started", reply |-> Interrupted]
    BY <1>0, <2>1
  <2>3. \A a \in Attempts \ {b} : file'[a] = Swept[a]
    BY <1>0, <2>1
  <2>4. Beginning(b)
    BY <1>1, <2>2, <2>3 DEF Begin, Beginning
  <2> QED
    BY <1>0, <2>2, <2>4, <1>1 DEF Begin, CrashInBegin, BeginFails, Idle, Stop
<1>2. CASE CrashInBegin(w)
  <2>1. file' = [Swept EXCEPT ![b] = [state |-> "torn", reply |-> Interrupted]]
    BY <1>2 DEF CrashInBegin
  <2>2. file'[b] = [state |-> "torn", reply |-> Interrupted]
    BY <1>0, <2>1
  <2>3. \A a \in Attempts \ {b} : file'[a] = Swept[a]
    BY <1>0, <2>1
  <2>4. Beginning(b) /\ ~up'
    BY <1>2, <2>2, <2>3 DEF CrashInBegin, Stop, Beginning
  <2> QED
    BY <1>0, <2>2, <2>4, <1>2 DEF Begin, CrashInBegin, BeginFails, Idle, Stop
<1>3. CASE BeginFails(w)
  <2>1. file[b].state = "none"
    BY <1>0, <1>3 DEF BeginFails, Found, Stored, TypeOK
  <2>2. Swept[b] = file[b]
    BY <1>0, <2>1 DEF Swept
  <2>3. file'[b].state = "none"
    BY <1>3, <2>1, <2>2 DEF BeginFails
  <2>4. Beginning(b)
    BY <1>3, <2>3 DEF BeginFails, Beginning
  <2> QED
    BY <1>0, <1>3, <2>3, <2>4 DEF Begin, CrashInBegin, BeginFails, Idle, Stop
<1> QED
  BY <1>1, <1>2, <1>3

(* An attempt begins, fails to begin, or is cut off as it begins.          *)
LEMMA BeginKeeps ==
  ASSUME HelperInv, TypeOK', NEW w \in waiting,
         Begin(w) \/ BeginFails(w) \/ CrashInBegin(w)
  PROVE  HelperInv'
<1> DEFINE b == w.job.attempt
<1>0. /\ TypeOK /\ InOrder /\ Stored /\ Queueing /\ Touched /\ AtWork /\ Honest /\ OneListener
  BY DEF HelperInv
<1>1. b \in Attempts /\ Beginning(b) /\ ~Found(b) /\ w.job \in Jobs
  BY <1>0, Begins DEF Beginning, Queueing
<1>2. host' = host /\ work = Idle
  BY DEF Begin, BeginFails, CrashInBegin, Stop
<1>3. host[b].runs = 0 /\ host[b].effect = "none"
  BY <1>0, <1>1, WaitingUntouched DEF Touched
<1>4. InOrder'
  BY <1>0, <1>1, BeginOrdered
<1>5. Stored'
  <2>1. file'[b].state = "torn" => ~up'
    BY <1>0, Begins
  <2> QED
    BY <1>0, <1>1, <2>1, BeginStored
<1>6. Queueing'
  <2>1. CASE CrashInBegin(w)
    BY <2>1, FS_EmptySet DEF CrashInBegin, Stop, Queueing
  <2>2. CASE Begin(w) \/ BeginFails(w)
    <3>1. up' /\ waiting' = waiting \ {w}
      BY <2>2 DEF Begin, BeginFails
    <3>2. \A a \in Attempts : Competing(a)' \subseteq Competing(a) \cup {b}
      BY <1>0, <1>1, BeginCompetes
    <3> QED
      BY <1>0, <3>1, <3>2, QueueServed
  <2> QED
    BY <2>1, <2>2
<1>7. Touched'
  BY <1>0, <1>1, <1>2, <1>3, <1>5, BeginTouched
<1>8. AtWork'
  <2>1. CASE CrashInBegin(w) \/ BeginFails(w)
    BY <1>2, <2>1 DEF CrashInBegin, BeginFails, Stop, AtWork
  <2>2. CASE Begin(w)
    <3>1. /\ up' /\ work'.job = w.job /\ work'.at = IF w.job.op = "execute" THEN "check" ELSE "open"
      BY <2>2 DEF Begin
    <3>2. file'[b].state = "started"
      BY <1>0, <2>2, Begins
    <3>3. \A x \in Attempts : since'[x] # {} => b \in since'[x]
      BY <1>0, <1>1, BeginMarks
    <3>4. host'[b].runs = 0
      BY <1>2, <1>3
    <3> QED
      BY <1>1, <3>1, <3>2, <3>3, <3>4 DEF AtWork
  <2> QED
    BY <2>1, <2>2
<1>9. Honest'
  <2>1. SUFFICES ASSUME NEW job \in Jobs
                 PROVE  /\ file'[job.attempt].state = "started" => file'[job.attempt].reply = Interrupted
                        /\ file'[job.attempt].state = "final" =>
                             /\ file'[job.attempt].reply \in Replies(job)
                             /\ SaysTrue(host'[job.attempt].effect, job, file'[job.attempt].reply)
    BY DEF Honest
  <2>2. job.attempt \in Attempts
    BY JobsAssumption DEF Job
  <2>3. CASE job.attempt = b
    BY <1>0, <2>3, Begins
  <2>4. CASE job.attempt # b
    <3>1. file'[job.attempt] = NoFile \/ file'[job.attempt] = file[job.attempt]
      BY <1>0, <1>1, <2>2, <2>4, BeginShape DEF OthersStay, OldestGoes
    <3>2. CASE file'[job.attempt] = NoFile
      BY <3>2 DEF NoFile
    <3>3. CASE file'[job.attempt] = file[job.attempt]
      BY <1>0, <1>2, <3>3 DEF Honest
    <3> QED
      BY <3>1, <3>2, <3>3
  <2> QED
    BY <2>3, <2>4
<1>10. OneListener'
  BY <1>0, <1>2 DEF OneListener, Begin, BeginFails, CrashInBegin, Stop, Respond
<1> QED
  BY <1>4, <1>5, <1>6, <1>7, <1>8, <1>9, <1>10 DEF HelperInv

(* The cache and the host do not change while clients come, go and are     *)
(* answered from a file, or while the process stops or starts.             *)
LEMMA CacheStays ==
  ASSUME HelperInv, UNCHANGED <<file, finals, since, host>>,
         work' = Idle \/ (work # Idle /\ up' = up /\ work' = [work EXCEPT !.heard = work'.heard])
                      \/ (work' = work /\ up' = up),
         up' => up \/ \A a \in Attempts : file[a].state # "torn"
  PROVE  InOrder' /\ Stored' /\ Touched' /\ AtWork' /\ Honest'
<1>0. TypeOK /\ InOrder /\ Stored /\ Touched /\ AtWork /\ Honest
  BY DEF HelperInv
<1>1. InOrder'
  BY <1>0 DEF InOrder
<1>2. Stored'
  BY <1>0 DEF Stored, Recorded
<1>3. Touched'
  BY <1>0 DEF Touched, Found, Competing, StartedFiles
<1>4. Honest'
  BY <1>0 DEF Honest
<1>5. AtWork'
  <2>1. CASE work' = Idle
    BY <2>1 DEF AtWork
  <2>2. CASE work' = work /\ up' = up
    BY <1>0, <2>2 DEF AtWork
  <2>3. CASE work # Idle /\ up' = up /\ work' = [work EXCEPT !.heard = work'.heard]
    <3>1. work \in Held
      BY <1>0, <2>3 DEF TypeOK
    <3>2. work'.job = work.job /\ work'.at = work.at /\ work'.ending = work.ending
      BY <2>3, <3>1 DEF Held
    <3> QED
      BY <1>0, <2>3, <3>2 DEF AtWork
  <2> QED
    BY <2>1, <2>2, <2>3
<1> QED
  BY <1>1, <1>2, <1>3, <1>4, <1>5

(* Asking, hanging up and reading the answer.                              *)
LEMMA ClientsKeep ==
  ASSUME HelperInv, TypeOK', (\E job \in Jobs : Ask(job)) \/ HangUp \/ Hear
  PROVE  HelperInv'
<1>0. /\ TypeOK /\ InOrder /\ Stored /\ Queueing /\ Touched /\ AtWork /\ Honest /\ OneListener
  BY DEF HelperInv
<1>1. InOrder' /\ Stored' /\ Touched' /\ AtWork' /\ Honest'
  <2>1. UNCHANGED <<up, file, finals, since, host>>
    BY DEF Ask, HangUp, Hear
  <2>2. work' = Idle \/ work' = work \/ (work # Idle /\ work' = [work EXCEPT !.heard = FALSE])
    BY DEF Ask, HangUp, Hear
  <2>3. work # Idle /\ work' = [work EXCEPT !.heard = FALSE] => work' = [work EXCEPT !.heard = work'.heard]
    <3>1. work # Idle => work \in Held
      BY <1>0 DEF TypeOK
    <3>2. work # Idle /\ work' = [work EXCEPT !.heard = FALSE] => work'.heard = FALSE
      BY <3>1 DEF Held
    <3> QED
      BY <3>2
  <2> QED
    BY <2>1, <2>2, <2>3, CacheStays
<1>2. CASE \E job \in Jobs : Ask(job)
  <2>1. PICK job \in Jobs : Ask(job)
    BY <1>2
  <2>2. Queueing'
    BY <1>0, <2>1, QueueAsked
  <2>3. OneListener'
    BY <2>1 DEF Ask, Listening, OneListener
  <2> QED
    BY <1>1, <2>2, <2>3 DEF HelperInv
<1>3. CASE HangUp
  <2>1. Queueing'
    BY <1>0, <1>3, QueueAbandoned
  <2>2. \A v \in waiting' : ~v.heard
    <3>1. ASSUME NEW w \in waiting PROVE [w EXCEPT !.heard = FALSE].heard = FALSE
      BY <1>0 DEF TypeOK
    <3> QED
      BY <1>3, <3>1 DEF HangUp
  <2>3. OneListener'
    BY <1>3, <2>2 DEF HangUp, OneListener
  <2> QED
    BY <1>1, <2>1, <2>3 DEF HelperInv
<1>4. CASE Hear
  <2>1. Queueing' /\ OneListener'
    BY <1>0, <1>4 DEF Hear, Queueing, Competing, StartedFiles, OneListener
  <2> QED
    BY <1>1, <2>1 DEF HelperInv
<1> QED
  BY <1>2, <1>3, <1>4

(* A repeated attempt is answered from its file.                           *)
LEMMA ReplayKeeps ==
  ASSUME HelperInv, TypeOK', NEW w \in waiting, Replay(w)
  PROVE  HelperInv'
<1>0. /\ TypeOK /\ InOrder /\ Stored /\ Queueing /\ Touched /\ AtWork /\ Honest /\ OneListener
  BY DEF HelperInv
<1>1. InOrder' /\ Stored' /\ Touched' /\ AtWork' /\ Honest'
  BY CacheStays DEF Replay
<1>2. \A a \in Attempts : Competing(a)' \subseteq Competing(a) \cup {w}
  BY DEF Replay, Competing, StartedFiles
<1>3. Queueing'
  BY <1>0, <1>2, QueueServed DEF Replay
<1>4. OneListener'
  BY <1>0 DEF OneListener, Replay, Respond
<1> QED
  BY <1>1, <1>3, <1>4 DEF HelperInv

(* The process stops and starts.                                           *)
LEMMA ProcessKeeps ==
  ASSUME HelperInv, TypeOK', Crash \/ Restart
  PROVE  HelperInv'
<1>0. /\ TypeOK /\ InOrder /\ Stored /\ Queueing /\ Touched /\ AtWork /\ Honest /\ OneListener
  BY DEF HelperInv
<1>1. CASE Crash
  <2>1. InOrder' /\ Stored' /\ Touched' /\ AtWork' /\ Honest'
    BY <1>1, CacheStays DEF Crash, Stop
  <2>2. Queueing'
    BY <1>1, FS_EmptySet DEF Crash, Stop, Queueing
  <2>3. OneListener'
    BY <1>1 DEF Crash, Stop, OneListener
  <2> QED
    BY <2>1, <2>2, <2>3 DEF HelperInv
<1>2. CASE Restart
  <2>0. waiting = {} /\ work = Idle
    BY <1>0, <1>2 DEF Restart, Queueing, AtWork
  <2>1. InOrder' /\ Stored' /\ Touched' /\ AtWork' /\ Honest'
    BY <1>2, <2>0, CacheStays DEF Restart
  <2>2. Queueing'
    BY <1>2, <2>0, FS_EmptySet DEF Restart, Queueing
  <2>3. OneListener'
    BY <1>0, <1>2 DEF Restart, OneListener
  <2> QED
    BY <2>1, <2>2, <2>3 DEF HelperInv
<1> QED
  BY <1>1, <1>2

(* A step of the engine knows what the attempt at work did to the host.    *)
Working ==
  LET job == work.job  h == host[work.job.attempt] IN
    /\ work.at \in {"check", "apply", "verify", "undo"} => job.op = "execute"
    /\ work.at \in {"open", "operate"} => job.op # "execute"
    /\ work.at \in {"check", "open"} => h.runs = 0
    /\ work.at \in {"apply", "verify", "undo", "operate"} => h.effect = "unsure"
    /\ work.at = "save" =>
         /\ work.ending \in EndingsOf(job.op)
         /\ work.ending = "proved" => h.effect = "done"
         /\ work.ending \in {"refused", "undone"} => h.effect = "none"

(* Every step of a playbook leaves the engine knowing what it did.         *)
LEMMA EngineWorks ==
  ASSUME TypeOK, Touched, Working, Engine
  PROVE  /\ Working'
         /\ work' # Idle /\ work'.job = work.job /\ work'.heard = work.heard
         /\ \A b \in Attempts \ {work.job.attempt} : host'[b] = host[b]
         /\ host'[work.job.attempt].runs \in {0, 1}
         /\ host'[work.job.attempt].runs = 0 => host'[work.job.attempt].effect = "none"
<1> DEFINE a == work.job.attempt
<1>0. /\ work \in Held /\ a \in Attempts /\ work # Idle
      /\ host \in [Attempts -> [runs : Nat, effect : {"none", "done", "unsure"}]]
      /\ host[a].runs \in {0, 1} /\ (host[a].runs = 0 => host[a].effect = "none")
      /\ work.at \in Steps \ {"save"}
  BY DEF TypeOK, Touched, Engine, Check, Apply, Verify, Undo, Operate, Held, Job, Steps
<1>1. ASSUME NEW step \in Steps, Goto(step)
      PROVE  work'.job = work.job /\ work'.heard = work.heard /\ work'.at = step
  BY <1>0, <1>1 DEF Goto, Held
<1>2. ASSUME NEW ending \in Endings, Finish(ending)
      PROVE  /\ work'.job = work.job /\ work'.heard = work.heard
             /\ work'.at = "save" /\ work'.ending = ending
  BY <1>0, <1>2 DEF Finish, Held
<1>3. ASSUME NEW e \in {"none", "done", "unsure"}, Effect(e)
      PROVE  /\ host'[a].runs = host[a].runs /\ host'[a].effect = e
             /\ \A b \in Attempts \ {a} : host'[b] = host[b]
  BY <1>0, <1>3 DEF Effect
<1>4. ASSUME NEW step \in Steps, Mutating(step)
      PROVE  /\ host'[a].runs = host[a].runs + 1 /\ host'[a].effect = "unsure"
             /\ \A b \in Attempts \ {a} : host'[b] = host[b]
             /\ work'.job = work.job /\ work'.heard = work.heard /\ work'.at = step
  BY <1>0, <1>1, <1>4 DEF Mutating
<1> DEFINE Others  == \A b \in Attempts \ {a} : host'[b] = host[b]
           Counted == host'[a].runs \in {0, 1} /\ (host'[a].runs = 0 => host'[a].effect = "none")
           Same    == work' # Idle /\ work'.job = work.job /\ work'.heard = work.heard
           Goes   == Working' /\ Same /\ Others /\ Counted
<1>5. \A step \in Steps : work'.at = step => work' # Idle
  BY DEF Steps, Idle
<1>6. ASSUME NEW ending \in EndingsOf(work.job.op), Finish(ending), Others, Counted,
             ending = "proved" => host'[a].effect = "done",
             ending \in {"refused", "undone"} => host'[a].effect = "none"
      PROVE  Goes
  <2>1. ending \in Endings
    BY EndingsKnown
  <2>2. /\ work'.job = work.job /\ work'.heard = work.heard
        /\ work'.at = "save" /\ work'.ending = ending
    BY <1>2, <1>6, <2>1
  <2>3. work' # Idle
    BY <1>5, <2>2 DEF Steps
  <2>4. Working'
    BY <1>6, <2>2 DEF Working
  <2> QED
    BY <1>6, <2>2, <2>3, <2>4
<1>7. ASSUME NEW step \in {"verify", "undo"}, Goto(step), work.job.op = "execute",
             host' = host, host[a].effect = "unsure"
      PROVE  Goes
  <2>1. work'.job = work.job /\ work'.heard = work.heard /\ work'.at = step
    BY <1>1, <1>7 DEF Steps
  <2>2. work' # Idle
    BY <1>5, <2>1 DEF Steps
  <2>3. Working'
    BY <1>7, <2>1 DEF Working
  <2> QED
    BY <1>0, <1>7, <2>1, <2>2, <2>3
<1>8. ASSUME NEW step \in {"apply", "operate"}, Mutating(step),
             (step = "apply") = (work.job.op = "execute"), host[a].runs = 0
      PROVE  Goes
  <2>1. /\ host'[a].runs = 1 /\ host'[a].effect = "unsure" /\ Others
        /\ work'.job = work.job /\ work'.heard = work.heard /\ work'.at = step
    BY <1>4, <1>8 DEF Steps
  <2>2. work' # Idle
    BY <1>5, <2>1 DEF Steps
  <2>3. Working'
    BY <1>8, <2>1 DEF Working
  <2> QED
    BY <2>1, <2>2, <2>3
<1>9. host' = host => Others /\ Counted
  BY <1>0
<1>10. ASSUME NEW e \in {"none", "done"}, Effect(e), host[a].effect = "unsure"
       PROVE  Others /\ Counted /\ host'[a].effect = e
  BY <1>0, <1>3, <1>10
<1>11. /\ "refused" \in EndingsOf(work.job.op) /\ "proved" \in EndingsOf(work.job.op)
       /\ work.job.op = "execute" => {"undone", "undo_failed", "apply_failed"} \subseteq EndingsOf(work.job.op)
       /\ work.job.op # "execute" => "op_failed" \in EndingsOf(work.job.op)
  BY DEF EndingsOf
<1> SUFFICES Goes
  OBVIOUS
<1> HIDE DEF Others, Counted, Goes
<1>12. CASE Check
  <2>1. host[a].runs = 0 /\ host[a].effect = "none" /\ (work.at = "check") = (work.job.op = "execute")
    BY <1>0, <1>12 DEF Check, Working
  <2>2. CASE Finish("refused") /\ UNCHANGED host
    BY <1>6, <1>9, <1>11, <2>1, <2>2
  <2>3. CASE Mutating(IF work.at = "check" THEN "apply" ELSE "operate")
    BY <1>8, <2>1, <2>3
  <2> QED
    BY <1>12, <2>2, <2>3 DEF Check
<1>13. CASE Apply
  <2>1. host[a].effect = "unsure" /\ work.job.op = "execute"
    BY <1>13 DEF Apply, Working
  <2>2. CASE \E step \in {"verify", "undo"} : Goto(step) /\ UNCHANGED host
    BY <1>7, <2>1, <2>2
  <2>3. CASE Finish("refused") /\ Effect("none")
    BY <1>6, <1>10, <1>11, <2>1, <2>3
  <2>4. CASE Finish(Unusable) /\ UNCHANGED host
    BY <1>6, <1>9, <1>11, <2>1, <2>4 DEF Unusable
  <2> QED
    BY <1>13, <2>2, <2>3, <2>4 DEF Apply
<1>14. CASE Verify
  <2>1. host[a].effect = "unsure" /\ work.job.op = "execute"
    BY <1>14 DEF Verify, Working
  <2>2. CASE Finish("proved") /\ Effect("done")
    BY <1>6, <1>10, <1>11, <2>1, <2>2
  <2>3. CASE Goto("undo") /\ UNCHANGED host
    BY <1>7, <2>1, <2>3
  <2> QED
    BY <1>14, <2>2, <2>3 DEF Verify
<1>15. CASE Undo
  <2>1. host[a].effect = "unsure" /\ work.job.op = "execute"
    BY <1>15 DEF Undo, Working
  <2>2. CASE Finish("undone") /\ Effect("none")
    BY <1>6, <1>10, <1>11, <2>1, <2>2
  <2>3. CASE Finish("undo_failed") /\ UNCHANGED host
    BY <1>6, <1>9, <1>11, <2>1, <2>3
  <2> QED
    BY <1>15, <2>2, <2>3 DEF Undo
<1>16. CASE Operate
  <2>1. host[a].effect = "unsure" /\ work.job.op # "execute"
    BY <1>16 DEF Operate, Working
  <2>2. CASE Finish("proved") /\ Effect("done")
    BY <1>6, <1>10, <1>11, <2>1, <2>2
  <2>3. CASE Finish("op_failed") /\ UNCHANGED host
    BY <1>6, <1>9, <1>11, <2>1, <2>3
  <2> QED
    BY <1>16, <2>2, <2>3 DEF Operate
<1> QED
  BY <1>12, <1>13, <1>14, <1>15, <1>16 DEF Engine

(* The engine works on an attempt whose file is the intent: no receipt is  *)
(* about it yet, and no other attempt changes the host.                    *)
LEMMA EngineKeeps ==
  ASSUME HelperInv, TypeOK', Engine
  PROVE  HelperInv'
<1> DEFINE a == work.job.attempt
<1>0. /\ TypeOK /\ InOrder /\ Stored /\ Queueing /\ Touched /\ AtWork /\ Honest /\ OneListener
  BY DEF HelperInv
<1>1. work # Idle /\ UNCHANGED EngineVars
  BY DEF Engine, Check, Apply, Verify, Undo, Operate
<1>2. Working /\ up /\ work.job \in Jobs /\ file[a].state = "started"
      /\ \A b \in Attempts : since[b] # {} => a \in since[b]
  BY <1>0, <1>1 DEF AtWork, Working
<1>3. /\ Working'
      /\ work' # Idle /\ work'.job = work.job /\ work'.heard = work.heard
      /\ \A b \in Attempts \ {a} : host'[b] = host[b]
      /\ host'[a].runs \in {0, 1}
      /\ host'[a].runs = 0 => host'[a].effect = "none"
  BY <1>0, <1>2, EngineWorks
<1>4. a \in Attempts
  BY <1>2, JobsAssumption DEF Job
<1>5. InOrder' /\ Stored' /\ Queueing' /\ OneListener'
  <2>1. InOrder' /\ Stored'
    BY <1>0, <1>1 DEF EngineVars, InOrder, Stored, Recorded
  <2>2. Queueing'
    BY <1>0, <1>1 DEF EngineVars, Queueing, Competing, StartedFiles
  <2>3. OneListener'
    BY <1>0, <1>1, <1>3 DEF EngineVars, OneListener
  <2> QED
    BY <2>1, <2>2, <2>3
<1>6. Touched'
  <2>1. SUFFICES ASSUME NEW b \in Attempts
                 PROVE  /\ host'[b].runs = 0 => host'[b].effect = "none"
                        /\ host'[b].runs > 0 =>
                             /\ host'[b].runs = 1 /\ since[b] # {}
                             /\ Found(b) \/ Cardinality(Competing(b)) >= MaxItems
    BY <1>1 DEF EngineVars, Touched, Found, Competing, StartedFiles
  <2>2. CASE b = a
    <3>1. Found(a) /\ since[a] # {}
      BY <1>0, <1>2, <1>4 DEF Found, Stored
    <3> QED
      BY <1>3, <2>2, <3>1
  <2>3. CASE b # a
    BY <1>0, <1>3, <2>3 DEF Touched
  <2> QED
    BY <2>2, <2>3
<1>7. AtWork'
  BY <1>1, <1>2, <1>3 DEF EngineVars, AtWork, Working
<1>8. Honest'
  <2>1. ASSUME NEW job \in Jobs, file[job.attempt].state = "final"
        PROVE  job.attempt \in Attempts /\ host'[job.attempt] = host[job.attempt]
    BY <1>2, <1>3, <2>1, JobsAssumption DEF Job
  <2> QED
    BY <1>0, <1>1, <2>1 DEF EngineVars, Honest
<1> QED
  BY <1>5, <1>6, <1>7, <1>8 DEF HelperInv

(* The receipt takes the place of the intent, as the newest of all.        *)
LEMMA SaveOrdered ==
  ASSUME HelperInv, work # Idle, NEW reply,
         file' = [file EXCEPT ![work.job.attempt] = [state |-> "final", reply |-> reply]],
         finals' = Append(finals, work.job.attempt), since' = since
  PROVE  InOrder'
<1> DEFINE a == work.job.attempt
<1>0. /\ TypeOK /\ InOrder /\ Stored /\ AtWork
      /\ a \in Attempts /\ file[a].state = "started"
      /\ \A b \in Attempts : since[b] # {} => a \in since[b]
  BY JobsAssumption DEF HelperInv, AtWork, Job
<1>1. /\ Len(finals) \in Nat /\ DOMAIN finals = 1..Len(finals)
      /\ \A i \in 1..Len(finals) : finals[i] \in Attempts
      /\ DOMAIN finals' = 1..(Len(finals) + 1)
      /\ \A i \in 1..Len(finals) : finals'[i] = finals[i]
      /\ finals'[Len(finals) + 1] = a
  BY <1>0 DEF TypeOK
<1>2. /\ file'[a].state = "final"
      /\ \A b \in Attempts \ {a} : file'[b] = file[b]
  BY <1>0 DEF TypeOK
<1>3. \A i \in 1..Len(finals) : finals[i] # a /\ file[finals[i]].state = "final"
  BY <1>0, <1>1 DEF InOrder
<1>4. \A i \in 1..(Len(finals) + 1) : i \in 1..Len(finals) \/ i = Len(finals) + 1
  BY <1>1
<1>5. \A i \in DOMAIN finals' : file'[finals'[i]].state = "final"
  BY <1>1, <1>2, <1>3, <1>4
<1>6. ASSUME NEW b \in Attempts, file'[b].state = "final"
      PROVE  \E i \in DOMAIN finals' : finals'[i] = b
  <2>1. CASE b = a
    BY <1>1, <2>1
  <2>2. CASE b # a
    <3>1. PICK i \in 1..Len(finals) : finals[i] = b
      BY <1>0, <1>1, <1>2, <1>6, <2>2 DEF InOrder
    <3>2. i \in DOMAIN finals' /\ finals'[i] = b
      BY <1>1, <3>1
    <3> QED
      BY <3>2
  <2> QED
    BY <2>1, <2>2
<1>7. ASSUME NEW i \in DOMAIN finals', NEW j \in DOMAIN finals', i < j
      PROVE  finals'[i] # finals'[j] /\ finals'[j] \in since'[finals'[i]]
  <2>1. i \in 1..Len(finals)
    BY <1>1, <1>7
  <2>2. CASE j \in 1..Len(finals)
    BY <1>0, <1>1, <1>7, <2>1, <2>2 DEF InOrder
  <2>3. CASE j = Len(finals) + 1
    <3>1. finals[i] \in Attempts /\ file[finals[i]].state = "final" /\ finals[i] # a
      BY <1>1, <1>3, <2>1
    <3>2. a \in since[finals[i]]
      BY <1>0, <3>1 DEF Stored
    <3> QED
      BY <1>1, <2>1, <2>3, <3>1, <3>2
  <2> QED
    BY <1>1, <1>4, <1>7, <2>2, <2>3
<1> QED
  BY <1>5, <1>6, <1>7 DEF InOrder

(* Saving the receipt keeps the invariant, whether it succeeds or not.     *)
LEMMA SaveKeeps ==
  ASSUME HelperInv, TypeOK', Save
  PROVE  HelperInv'
<1> DEFINE a == work.job.attempt
<1>0. /\ TypeOK /\ InOrder /\ Stored /\ Queueing /\ Touched /\ AtWork /\ Honest /\ OneListener
  BY DEF HelperInv
<1>1. PICK pending \in BOOLEAN : (pending => work.job.kind = "ssh_hardening") /\ SaveAs(pending)
  BY DEF Save
<1> DEFINE r == Receipt(work.job, work.ending, pending)
<1>2. /\ work # Idle /\ work.job \in Jobs /\ work.job \in Job /\ a \in Attempts /\ up
      /\ file[a].state = "started"
      /\ \A b \in Attempts : since[b] # {} => a \in since[b]
      /\ work.ending \in EndingsOf(work.job.op)
      /\ work.ending = "proved" => host[a].effect = "done"
      /\ work.ending \in {"refused", "undone"} => host[a].effect = "none"
  BY <1>0, JobsAssumption DEF Save, AtWork, Job
<1>3. SaysTrue(host[a].effect, work.job, r) /\ r \in Replies(work.job)
  BY <1>1, <1>2, ReceiptTruth
<1> HIDE DEF r
<1>4. /\ work' = Idle /\ UNCHANGED <<up, since, waiting, host>>
      /\ \/ file' = [file EXCEPT ![a] = [state |-> "final", reply |-> r]] /\ finals' = Append(finals, a)
         \/ UNCHANGED <<file, finals>>
      /\ answer' # None => work.heard \/ answer' = answer
  BY <1>1 DEF SaveAs, Respond, r
<1>5. /\ \A b \in Attempts \ {a} : file'[b] = file[b]
      /\ file'[a] = file[a] \/ file'[a] = [state |-> "final", reply |-> r]
  BY <1>0, <1>2, <1>4 DEF TypeOK
<1>6. InOrder'
  <2>1. CASE UNCHANGED <<file, finals>>
    BY <1>0, <1>4, <2>1 DEF InOrder
  <2>2. CASE file' = [file EXCEPT ![a] = [state |-> "final", reply |-> r]] /\ finals' = Append(finals, a)
    BY <1>2, <1>4, <2>2, SaveOrdered
  <2> QED
    BY <1>4, <2>1, <2>2
<1>7. Stored'
  <2>1. Recorded' = Recorded
    BY <1>2, <1>5 DEF Recorded
  <2>2. \A b \in Attempts : file'[b].state # "none" => file[b].state # "none"
    BY <1>2, <1>5
  <2>3. \A b \in Attempts : file'[b].state # "torn"
    BY <1>0, <1>2, <1>5 DEF Stored
  <2> QED
    BY <1>0, <1>4, <2>1, <2>2, <2>3 DEF Stored
<1>8. StartedFiles' \subseteq StartedFiles /\ StartedFiles \subseteq StartedFiles' \cup {a}
  BY <1>2, <1>5 DEF StartedFiles
<1>9. Queueing'
  <2>1. \A b \in Attempts : Competing(b)' \subseteq Competing(b)
    BY <1>4, <1>8 DEF Competing
  <2>2. waiting' = waiting /\ IsFiniteSet(waiting) /\ Cardinality(waiting) \in Nat
    BY <1>0, <1>4, FS_CardinalityType DEF Queueing
  <2>3. IsFiniteSet(waiting') /\ Cardinality(waiting') <= Cardinality(waiting)
    BY <2>2
  <2> QED
    BY <1>0, <1>2, <1>4, <2>1, <2>3, QueueStays
<1>10. Touched'
  <2>1. \A b \in Attempts : Found(b) => Found(b)'
    BY <1>2, <1>5 DEF Found
  <2>2. ASSUME NEW b \in Attempts, since[b] # {}
        PROVE  Competing(b)' = Competing(b)
    BY <1>2, <1>4, <1>8, <2>2 DEF Competing
  <2> QED
    BY <1>0, <1>4, <2>1, <2>2 DEF Touched
<1>11. AtWork'
  BY <1>4 DEF AtWork
<1>12. Honest'
  <2>1. SUFFICES ASSUME NEW job \in Jobs
                 PROVE  /\ file'[job.attempt].state = "started" => file'[job.attempt].reply = Interrupted
                        /\ file'[job.attempt].state = "final" =>
                             /\ file'[job.attempt].reply \in Replies(job)
                             /\ SaysTrue(host[job.attempt].effect, job, file'[job.attempt].reply)
    BY <1>4 DEF Honest
  <2>2. job.attempt \in Attempts
    BY JobsAssumption DEF Job
  <2>3. CASE file'[job.attempt] = file[job.attempt]
    BY <1>0, <2>3 DEF Honest
  <2>4. CASE job.attempt = a /\ file'[a] = [state |-> "final", reply |-> r]
    <3>1. job = work.job
      BY <1>2, <2>4, JobsAssumption
    <3> QED
      BY <1>3, <2>4, <3>1
  <2> QED
    BY <1>5, <2>2, <2>3, <2>4
<1>13. OneListener'
  BY <1>0, <1>2, <1>4 DEF OneListener
<1> QED
  BY <1>6, <1>7, <1>9, <1>10, <1>11, <1>12, <1>13 DEF HelperInv

-----------------------------------------------------------------------------
(* The invariant holds.                                                    *)

(* The Helper starts with an empty cache.                                  *)
LEMMA InitKeeps ==
  ASSUME Init
  PROVE  HelperInv
<1>1. TypeOK
  <2>1. NoFile \in FileRow
    BY PlainReplies DEF NoFile, FileRow
  <2>2. file \in [Attempts -> FileRow]
    BY <2>1 DEF Init
  <2> QED
    BY <2>2 DEF Init, TypeOK, FileRow
<1>2. \A a \in Attempts : file[a].state = "none" /\ since[a] = {} /\ host[a].runs = 0 /\ host[a].effect = "none"
  BY DEF Init, NoFile
<1>3. InOrder
  BY <1>2 DEF Init, InOrder
<1>4. Stored
  <2>1. Recorded = {}
    BY <1>2 DEF Recorded
  <2> QED
    BY <1>2, <2>1, FS_EmptySet, ItemsAssumption DEF Stored
<1>5. Queueing
  BY FS_EmptySet DEF Init, Queueing
<1>6. Touched
  BY <1>2 DEF Touched
<1>7. AtWork /\ OneListener
  BY DEF Init, AtWork, OneListener
<1>8. Honest
  <2>1. \A job \in Jobs : job.attempt \in Attempts
    BY JobsAssumption DEF Job
  <2> QED
    BY <1>2, <2>1 DEF Honest
<1> QED
  BY <1>1, <1>3, <1>4, <1>5, <1>6, <1>7, <1>8 DEF HelperInv

(* Every step of the Helper keeps the invariant.                           *)
LEMMA NextKeeps ==
  ASSUME HelperInv, [Next]_helperVars
  PROVE  HelperInv'
<1>1. CASE Next
  <2>1. TypeOK'
    BY <1>1, TypeKept DEF HelperInv
  <2> QED
    BY <1>1, <2>1, ClientsKeep, ReplayKeeps, BeginKeeps, EngineKeeps, SaveKeeps, ProcessKeeps
    DEF Next, Helper, Serve, Stops
<1>2. CASE UNCHANGED helperVars
  <2>1. InOrder' /\ Stored' /\ Touched' /\ AtWork' /\ Honest'
    BY <1>2, CacheStays DEF helperVars
  <2>2. TypeOK'
    BY <1>2 DEF helperVars, HelperInv, TypeOK
  <2>3. Queueing' /\ OneListener'
    BY <1>2 DEF helperVars, HelperInv, Queueing, Competing, StartedFiles, OneListener
  <2> QED
    BY <2>1, <2>2, <2>3 DEF HelperInv
<1> QED
  BY <1>1, <1>2

(* The inductive invariant holds in every state.                           *)
LEMMA HelperIsSound == Spec => []HelperInv
<1>1. Init => HelperInv
  BY InitKeeps
<1>2. HelperInv /\ [Next]_helperVars => HelperInv'
  BY NextKeeps
<1> QED
  BY <1>1, <1>2, PTL DEF Spec

(* The Helper runs an attempt at most once: while it can still be asked    *)
(* for, an attempt that began to change the host has its file, although    *)
(* the cache is bounded (cmd/witshield-helper/receipt_cache.go).           *)
THEOREM ReplaySafe == Spec => []ReplayIsSafe
<1>1. ASSUME HelperInv
      PROVE  ReplayIsSafe
  <2>0. TypeOK /\ Touched /\ Stored /\ Queueing
    BY <1>1 DEF HelperInv
  <2>1. RunsOnce
    BY <2>0 DEF TypeOK, Touched, RunsOnce
  <2>2. WithinLimit
    BY <2>0 DEF Stored, Recorded, WithinLimit
  <2>3. TouchedIsRecorded
    <3>1. SUFFICES ASSUME NEW a \in Attempts, host[a].runs > 0, Recent(a), ~Found(a)
                   PROVE FALSE
      BY DEF TouchedIsRecorded
    <3>2. Cardinality(Competing(a)) >= MaxItems
      BY <2>0, <3>1 DEF Touched
    <3>3. Cardinality(Competing(a)) \in Nat /\ Cardinality(waiting) \in Nat /\ MaxItems \in Nat
      BY <2>0, CompetingFinite, FS_CardinalityType, ItemsAssumption DEF Queueing
    <3>4. Cardinality(Competing(a)) + Cardinality(waiting) < MaxItems
      BY <3>1 DEF Recent
    <3> QED
      BY <3>2, <3>3, <3>4
  <2> QED
    BY <2>0, <2>1, <2>2, <2>3 DEF ReplayIsSafe
<1> QED
  BY <1>1, HelperIsSound, PTL

-----------------------------------------------------------------------------
(* The promise of Executor.                                                *)

(* No job is mistaken for the absence of one.                              *)
LEMMA JobsAreNamed == None \notin Job
BY DEF None, Job

(* Who waits for a reply, and what may still begin, as functions of the    *)
(* queue and of the handler at work.                                       *)
AsHandler(wk) == [job |-> wk.job, heard |-> wk.heard]
HandlersOf(wt, wk) == wt \cup (IF wk = Idle THEN {} ELSE {AsHandler(wk)})
ListenerOf(wt, wk) ==
  IF {h \in HandlersOf(wt, wk) : h.heard} = {} THEN None
  ELSE (CHOOSE h \in {h \in HandlersOf(wt, wk) : h.heard} : TRUE).job
PendingOf(wt, wk) ==
  wt \cup (IF wk # Idle /\ wk.at \in {"check", "open"} THEN {AsHandler(wk)} ELSE {})
OrphansOf(wt, wk) == {h.job : h \in {h \in PendingOf(wt, wk) : ~h.heard}}

Listener == ListenerOf(waiting, work)
Orphans  == OrphansOf(waiting, work)

(* The one who waits for a reply is the one handler that is heard.         *)
LEMMA ListenerIs ==
  ASSUME NEW wt, NEW wk, wt \subseteq [job : Job, heard : BOOLEAN], wk = Idle \/ wk \in Held,
         \A v, w \in wt : v.heard /\ w.heard => v = w,
         wk # Idle /\ wk.heard => \A w \in wt : ~w.heard
  PROVE  /\ \A w \in wt : w.heard => ListenerOf(wt, wk) = w.job
         /\ wk # Idle /\ wk.heard => ListenerOf(wt, wk) = wk.job
         /\ (\A w \in wt : ~w.heard) /\ ~(wk # Idle /\ wk.heard) => ListenerOf(wt, wk) = None
<1> DEFINE H == {h \in HandlersOf(wt, wk) : h.heard}
<1>1. \A h \in H : ListenerOf(wt, wk) = (CHOOSE k \in H : TRUE).job
  BY DEF ListenerOf
<1>2. \A h \in H : (CHOOSE k \in H : TRUE) \in H
  OBVIOUS
<1>3. H = {} => ListenerOf(wt, wk) = None
  BY DEF ListenerOf
<1>4. wk # Idle => AsHandler(wk).job = wk.job /\ AsHandler(wk).heard = wk.heard
  BY DEF AsHandler
<1>5. \A h \in H : h \in wt \/ (wk # Idle /\ h = AsHandler(wk))
  BY DEF HandlersOf
<1>6. \A w \in wt : w.heard => w \in H
  BY DEF HandlersOf
<1>7. wk # Idle /\ wk.heard => AsHandler(wk) \in H
  BY <1>4 DEF HandlersOf
<1>8. \A h, k \in H : h = k
  BY <1>4, <1>5
<1> HIDE DEF H
<1>9. \A h \in H : ListenerOf(wt, wk) = h.job
  BY <1>1, <1>2, <1>8
<1>10. (\A w \in wt : ~w.heard) /\ ~(wk # Idle /\ wk.heard) => H = {}
  BY <1>4, <1>5 DEF H
<1> QED
  BY <1>3, <1>4, <1>6, <1>7, <1>9, <1>10

(* What may begin unheard: in the queue, or at work and not begun yet.     *)
LEMMA OrphansAre ==
  ASSUME NEW wt, NEW wk
  PROVE  OrphansOf(wt, wk) =
           {w.job : w \in {w \in wt : ~w.heard}} \cup
           (IF wk # Idle /\ wk.at \in {"check", "open"} /\ ~wk.heard THEN {wk.job} ELSE {})
<1>1. AsHandler(wk).job = wk.job /\ AsHandler(wk).heard = wk.heard
  BY DEF AsHandler
<1>2. CASE wk # Idle /\ wk.at \in {"check", "open"}
  BY <1>1, <1>2 DEF OrphansOf, PendingOf
<1>3. CASE ~(wk # Idle /\ wk.at \in {"check", "open"})
  BY <1>3 DEF OrphansOf, PendingOf
<1> QED
  BY <1>2, <1>3

-----------------------------------------------------------------------------
(* The steps of Executor, in these words.                                  *)

Promised == E!Next \/ UNCHANGED <<Listener, Orphans, host, answer>>

(* These words are the ones the refinement is stated in.                   *)
LEMMA SameListener ==
  /\ Listener = IF Heard = {} THEN None ELSE (CHOOSE h \in Heard : TRUE).job
  /\ Orphans = {h.job : h \in {h \in NotBegun : ~h.heard}}
  /\ Listener' = (IF Heard = {} THEN None ELSE (CHOOSE h \in Heard : TRUE).job)'
  /\ Orphans' = ({h.job : h \in {h \in NotBegun : ~h.heard}})'
BY DEF Listener, Orphans, ListenerOf, OrphansOf, HandlersOf, PendingOf, AsHandler,
       Heard, Handlers, NotBegun

(* A request.                                                              *)
LEMMA MapAsk ==
  ASSUME NEW job \in Job, Listener = None, answer = None,
         Listener' = job, UNCHANGED <<Orphans, host, answer>>
  PROVE  Promised
<1>1. E!Ask(job)
  BY SameListener DEF E!Ask, E!None, None
<1> QED
  BY <1>1, SameReplies DEF Promised, E!Next

(* Nobody waits any more.                                                  *)
LEMMA MapHangUp ==
  ASSUME Listener # None \/ answer # None, Listener' = None, answer' = None, host' = host,
         Orphans' \in {Orphans, Orphans \cup ({Listener} \ {None})}
  PROVE  Promised
<1>1. E!HangUp
  BY SameListener DEF E!HangUp, E!None, None
<1> QED
  BY <1>1 DEF Promised, E!Next

(* The answer is read.                                                     *)
LEMMA MapHear ==
  ASSUME answer # None, answer' = None, UNCHANGED <<Listener, Orphans, host>>
  PROVE  Promised
<1>1. E!Hear
  BY SameListener DEF E!Hear, E!None, None
<1> QED
  BY <1>1 DEF Promised, E!Next

(* The attempt begins to change the host.                                  *)
LEMMA MapStart ==
  ASSUME NEW job \in Job, host[job.attempt].runs = 0,
         host' = [host EXCEPT ![job.attempt] = [runs |-> 1, effect |-> "unsure"]],
         UNCHANGED <<Listener, answer>>,
         \/ job = Listener /\ Orphans' = Orphans
         \/ job \in Orphans /\ Orphans' \in {Orphans, Orphans \ {job}}
  PROVE  Promised
<1>1. E!Start(job)
  BY SameListener DEF E!Start
<1>2. job \in Orphans \cup ({Listener} \ {None})
  BY JobsAreNamed
<1>3. E!Work
  BY <1>1, <1>2, SameListener DEF E!Work, E!None, None
<1> QED
  BY <1>3 DEF Promised, E!Next

(* It becomes known what it did.                                           *)
LEMMA MapSettle ==
  ASSUME NEW a \in Attempts, host[a].effect = "unsure", NEW e \in {"none", "done"},
         host' = [host EXCEPT ![a].effect = e], UNCHANGED <<Listener, Orphans, answer>>
  PROVE  Promised
<1>1. E!Settle(a)
  BY SameListener DEF E!Settle
<1> QED
  BY <1>1 DEF Promised, E!Next, E!Work

(* A truthful reply.                                                       *)
LEMMA MapReply ==
  ASSUME NEW job \in Job, Listener = job, NEW reply \in Replies(job),
         SaysTrue(host[job.attempt].effect, job, reply),
         answer' = [attempt |-> job.attempt, job |-> job, reply |-> reply],
         Listener' = None, UNCHANGED <<Orphans, host>>
  PROVE  Promised
<1>1. E!Truthful(job, reply)
  BY SameOutcome DEF SaysTrue, E!Truthful
<1>2. E!Reply(reply)
  BY <1>1, SameListener DEF E!Reply, E!Answered, E!None, None
<1>3. Listener # None /\ reply \in E!Replies(Listener)
  BY SameReplies, JobsAreNamed
<1>4. E!Work
  BY <1>2, <1>3, SameListener DEF E!Work, E!None, None
<1> QED
  BY <1>4 DEF Promised, E!Next

(* A request that nobody heard has ended.                                  *)
LEMMA MapLeave ==
  ASSUME NEW job \in Orphans, Orphans' = Orphans \ {job}, UNCHANGED <<Listener, host, answer>>
  PROVE  Promised
<1>1. E!Leave(job)
  BY SameListener DEF E!Leave
<1> QED
  BY <1>1, SameListener DEF Promised, E!Next, E!Work

(* Everybody is gone.                                                      *)
LEMMA MapBreak ==
  ASSUME Listener' = None, Orphans' = {}, UNCHANGED <<host, answer>>
  PROVE  Promised
<1>1. E!Break
  BY SameListener DEF E!Break, E!None, None
<1> QED
  BY <1>1 DEF Promised, E!Next, E!Work

-----------------------------------------------------------------------------
(* The steps of the Helper, in the same words.                             *)

(* Who listens, before and after a step.                                   *)
LEMMA Listens ==
  ASSUME HelperInv
  PROVE  /\ \A w \in waiting : w.heard => Listener = w.job
         /\ work # Idle /\ work.heard => Listener = work.job
         /\ (\A w \in waiting : ~w.heard) /\ ~(work # Idle /\ work.heard) => Listener = None
         /\ Orphans = {w.job : w \in {w \in waiting : ~w.heard}} \cup
              (IF work # Idle /\ work.at \in {"check", "open"} /\ ~work.heard THEN {work.job} ELSE {})
BY ListenerIs, OrphansAre DEF HelperInv, TypeOK, OneListener, Listener, Orphans

(* The same after the step.                                                *)
LEMMA ListensNext ==
  ASSUME HelperInv'
  PROVE  /\ \A w \in waiting' : w.heard => Listener' = w.job
         /\ work' # Idle /\ work'.heard => Listener' = work'.job
         /\ (\A w \in waiting' : ~w.heard) /\ ~(work' # Idle /\ work'.heard) => Listener' = None
         /\ Orphans' = {w.job : w \in {w \in waiting' : ~w.heard}} \cup
              (IF work' # Idle /\ work'.at \in {"check", "open"} /\ ~work'.heard THEN {work'.job} ELSE {})
BY ListenerIs, OrphansAre DEF HelperInv, TypeOK, OneListener, Listener, Orphans

(* A client asks, hangs up or reads the answer.                            *)
LEMMA ClientsPromised ==
  ASSUME HelperInv, HelperInv', (\E job \in Jobs : Ask(job)) \/ HangUp \/ Hear
  PROVE  Promised
<1>0. TypeOK /\ OneListener
  BY DEF HelperInv
<1>1. CASE \E job \in Jobs : Ask(job)
  <2>1. PICK job \in Jobs : Ask(job)
    BY <1>1
  <2> DEFINE new == [job |-> job, heard |-> TRUE]
  <2>2. job \in Job /\ new.job = job /\ new.heard = TRUE
    BY JobsAssumption
  <2>3. /\ answer = None /\ waiting' = waiting \cup {new} /\ UNCHANGED <<work, host, answer>>
        /\ ~(work # Idle /\ work.heard) /\ \A w \in waiting : ~w.heard
    BY <2>1 DEF Ask, Listening
  <2> HIDE DEF new
  <2>4. Listener = None
    BY <2>3, Listens
  <2>5. Listener' = job
    BY <2>2, <2>3, ListensNext
  <2>6. {w \in waiting' : ~w.heard} = {w \in waiting : ~w.heard}
    BY <2>2, <2>3
  <2>7. Orphans' = Orphans
    BY <2>3, <2>6, Listens, ListensNext
  <2> QED
    BY <2>2, <2>3, <2>4, <2>5, <2>7, MapAsk
<1>2. CASE HangUp
  <2>1. ASSUME NEW w \in waiting
        PROVE  [w EXCEPT !.heard = FALSE].heard = FALSE /\ [w EXCEPT !.heard = FALSE].job = w.job
    BY <1>0 DEF TypeOK
  <2>2. /\ \A v \in waiting' : ~v.heard /\ \E w \in waiting : v.job = w.job
        /\ \A w \in waiting : \E v \in waiting' : ~v.heard /\ v.job = w.job
    BY <1>2, <2>1 DEF HangUp
  <2>3. \/ work = Idle /\ work' = Idle
        \/ /\ work # Idle /\ work' # Idle /\ ~work'.heard
           /\ work'.job = work.job /\ work'.at = work.at
    <3>1. CASE work = Idle
      BY <1>2, <3>1 DEF HangUp
    <3>2. CASE work # Idle
      <4>1. work \in Held /\ work' = [work EXCEPT !.heard = FALSE]
        BY <1>0, <1>2, <3>2 DEF HangUp, TypeOK
      <4>2. ~work'.heard /\ work'.job = work.job /\ work'.at = work.at
        BY <4>1 DEF Held
      <4>3. work' # Idle
        BY <4>1, <4>2 DEF Held, Steps, Idle
      <4> QED
        BY <3>2, <4>2, <4>3
    <3> QED
      BY <3>1, <3>2
  <2>4. Listener' = None
    BY <2>2, <2>3, ListensNext
  <2>5. answer' = None /\ host' = host
    BY <1>2 DEF HangUp
  <2>6. Listener # None \/ answer # None
    <3>1. \A w \in waiting : w.job # None
      BY <1>0, JobsAreNamed DEF TypeOK
    <3>2. work # Idle => work.job # None
      BY <1>0, JobsAreNamed DEF TypeOK, Held
    <3> QED
      BY <1>2, <3>1, <3>2, Listens DEF HangUp, Listening
  <2>7. Orphans' = {w.job : w \in waiting} \cup
                   (IF work # Idle /\ work.at \in {"check", "open"} THEN {work.job} ELSE {})
    BY <2>2, <2>3, ListensNext
  <2>8. \A w \in waiting : w.job \in Orphans \/ (w.job = Listener /\ w.job # None)
    BY <1>0, JobsAreNamed, Listens DEF TypeOK
  <2>9. work # Idle /\ work.at \in {"check", "open"} =>
          work.job \in Orphans \/ (work.job = Listener /\ work.job # None)
    BY <1>0, JobsAreNamed, Listens DEF TypeOK, Held
  <2>10. Orphans \subseteq Orphans'
    BY <2>7, Listens
  <2>11. Orphans' \subseteq Orphans \cup ({Listener} \ {None})
    BY <2>7, <2>8, <2>9
  <2>12. Orphans' \in {Orphans, Orphans \cup ({Listener} \ {None})}
    BY <2>10, <2>11
  <2> QED
    BY <2>4, <2>5, <2>6, <2>12, MapHangUp
<1>3. CASE Hear
  <2>1. UNCHANGED <<Listener, Orphans>>
    BY <1>3 DEF Hear, Listener, Orphans
  <2> QED
    BY <1>3, <2>1, MapHear DEF Hear
<1> QED
  BY <1>1, <1>2, <1>3

(* A request that waits is answered.                                       *)
LEMMA ServedPromised ==
  ASSUME HelperInv, HelperInv', NEW w \in waiting, work = Idle, work' = work,
         waiting' = waiting \ {w}, host' = host,
         NEW reply \in Replies(w.job), SaysTrue(host[w.job.attempt].effect, w.job, reply),
         Respond(w.job, w.heard, reply)
  PROVE  Promised
<1>0. TypeOK /\ OneListener /\ w.job \in Job
  BY DEF HelperInv, TypeOK
<1>1. CASE w.heard
  <2>1. Listener = w.job
    BY <1>1, Listens
  <2>2. \A v \in waiting' : ~v.heard
    BY <1>0, <1>1 DEF OneListener
  <2>3. Listener' = None
    BY <2>2, ListensNext
  <2>4. {v \in waiting' : ~v.heard} = {v \in waiting : ~v.heard}
    BY <1>1
  <2>5. Orphans' = Orphans
    BY <2>4, Listens, ListensNext
  <2>6. answer' = [attempt |-> w.job.attempt, job |-> w.job, reply |-> reply]
    BY <1>1 DEF Respond
  <2> QED
    BY <1>0, <2>1, <2>3, <2>5, <2>6, MapReply
<1>2. CASE ~w.heard
  <2>1. answer' = answer
    BY <1>2 DEF Respond
  <2>2. Listener' = Listener
    <3>1. CASE \A v \in waiting : ~v.heard
      BY <3>1, Listens, ListensNext
    <3>2. CASE \E v \in waiting : v.heard
      <4>1. PICK v \in waiting : v.heard
        BY <3>2
      <4>2. v \in waiting'
        BY <1>2, <4>1
      <4> QED
        BY <4>1, <4>2, Listens, ListensNext
    <3> QED
      BY <3>1, <3>2
  <2>3. w.job \in Orphans
    BY <1>2, Listens
  <2>4. \A v \in waiting : ~v.heard /\ v.job = w.job => v = w
    <3>1. \A v \in waiting : v = [job |-> v.job, heard |-> v.heard] /\ v.heard \in BOOLEAN
      BY <1>0 DEF TypeOK
    <3>2. \A v \in waiting : ~v.heard => v = [job |-> v.job, heard |-> FALSE]
      BY <3>1
    <3> QED
      BY <1>2, <3>2
  <2>5. Orphans' = Orphans \ {w.job}
    BY <2>4, Listens, ListensNext
  <2> QED
    BY <2>1, <2>2, <2>3, <2>5, MapLeave
<1> QED
  BY <1>1, <1>2

(* Requests that wait are served, fail to begin, or begin.                 *)
LEMMA ServePromised ==
  ASSUME HelperInv, HelperInv', NEW w \in waiting, Replay(w) \/ Begin(w) \/ BeginFails(w)
  PROVE  Promised
<1>0. /\ TypeOK /\ OneListener /\ Queueing /\ Honest /\ Stored /\ Touched
      /\ w.job \in Job /\ w.job \in Jobs /\ w.job.attempt \in Attempts
  BY JobsAssumption DEF HelperInv, Queueing, Job
<1> DEFINE b == w.job.attempt
<1>1. CASE Replay(w)
  <2>1. file[b].reply \in Replies(w.job) /\ SaysTrue(host[b].effect, w.job, file[b].reply)
    <3>1. CASE file[b].state = "started"
      BY <1>0, <3>1, PlainTruth DEF Honest
    <3>2. CASE file[b].state = "final"
      BY <1>0, <3>2 DEF Honest
    <3> QED
      BY <1>1, <3>1, <3>2 DEF Replay, Found
  <2>2. work = Idle /\ work' = work /\ waiting' = waiting \ {w} /\ host' = host
        /\ Respond(w.job, w.heard, file[b].reply)
    BY <1>1 DEF Replay
  <2> QED
    BY <2>1, <2>2, ServedPromised
<1>2. CASE BeginFails(w)
  <2>1. host[b].effect = "none"
    BY <1>0, <1>2, WaitingUntouched DEF BeginFails, Touched
  <2>2. Refused \in Replies(w.job) /\ SaysTrue(host[b].effect, w.job, Refused)
    BY <1>0, <2>1, PlainTruth
  <2>3. work = Idle /\ work' = work /\ waiting' = waiting \ {w} /\ host' = host
        /\ Respond(w.job, w.heard, Refused)
    BY <1>2 DEF BeginFails
  <2> QED
    BY <2>2, <2>3, ServedPromised
<1>3. CASE Begin(w)
  <2>1. /\ work = Idle /\ waiting' = waiting \ {w} /\ UNCHANGED <<host, answer>>
        /\ work'.job = w.job /\ work'.heard = w.heard /\ work'.at \in {"check", "open"}
    BY <1>3 DEF Begin
  <2>2. work' # Idle
    BY <2>1 DEF Idle
  <2>3. Listener' = Listener
    <3>1. CASE w.heard
      BY <2>1, <2>2, <3>1, Listens, ListensNext
    <3>2. CASE ~w.heard /\ \E v \in waiting : v.heard
      <4>1. PICK v \in waiting : v.heard
        BY <3>2
      <4>2. v \in waiting'
        BY <2>1, <3>2, <4>1
      <4> QED
        BY <4>1, <4>2, Listens, ListensNext
    <3>3. CASE \A v \in waiting : ~v.heard
      BY <2>1, <3>3, Listens, ListensNext
    <3> QED
      BY <3>1, <3>2, <3>3
  <2>4. Orphans' = Orphans
    <3>1. Orphans = {v.job : v \in {v \in waiting : ~v.heard}}
      BY <2>1, Listens
    <3>2. Orphans' = {v.job : v \in {v \in waiting' : ~v.heard}} \cup (IF ~w.heard THEN {w.job} ELSE {})
      BY <2>1, <2>2, ListensNext
    <3> QED
      BY <2>1, <3>1, <3>2
  <2> QED
    BY <2>1, <2>3, <2>4 DEF Promised
<1> QED
  BY <1>1, <1>2, <1>3

(* Only the last word on an attempt, and the first touch, show.            *)
LEMMA EnginePromised ==
  ASSUME HelperInv, HelperInv', Engine
  PROVE  Promised
<1> DEFINE a == work.job.attempt
<1>0. /\ TypeOK /\ Touched /\ AtWork /\ work # Idle /\ UNCHANGED EngineVars
      /\ work \in Held /\ work.job \in Job /\ a \in Attempts
      /\ host \in [Attempts -> [runs : Nat, effect : {"none", "done", "unsure"}]]
  BY DEF HelperInv, TypeOK, Held, Job, Engine, Check, Apply, Verify, Undo, Operate
<1>1. Working
  BY <1>0 DEF AtWork, Working
<1>2. work' # Idle /\ work'.job = work.job /\ work'.heard = work.heard
  BY <1>0, <1>1, EngineWorks
<1>3. Listener' = Listener
  BY <1>0, <1>2 DEF Listener, ListenerOf, HandlersOf, AsHandler, EngineVars
<1>4. waiting' = waiting /\ answer' = answer
  BY <1>0 DEF EngineVars
<1>5. CASE work.at \notin {"check", "open"}
  <2>1. work'.at \notin {"check", "open"}
    BY <1>0, <1>5 DEF Engine, Check, Apply, Verify, Undo, Operate, Goto, Finish, Held
  <2>2. Orphans' = Orphans
    BY <1>4, <1>5, <2>1 DEF Orphans, OrphansOf, PendingOf
  <2>3. \/ host' = host
        \/ host[a].effect = "unsure" /\ \E e \in {"none", "done"} : Effect(e)
    BY <1>1, <1>5 DEF Engine, Check, Apply, Verify, Undo, Operate, Working
  <2>4. CASE host' = host
    BY <1>3, <1>4, <2>2, <2>4 DEF Promised
  <2>5. ASSUME NEW e \in {"none", "done"}, Effect(e), host[a].effect = "unsure"
        PROVE  Promised
    <3>1. host' = [host EXCEPT ![a].effect = e]
      BY <2>5 DEF Effect
    <3> QED
      BY <1>0, <1>3, <1>4, <2>2, <2>5, <3>1, MapSettle
  <2> QED
    BY <2>3, <2>4, <2>5
<1>6. CASE work.at \in {"check", "open"}
  <2>1. /\ Check /\ work'.at \notin {"check", "open"} /\ host[a].runs = 0
        /\ \/ host' = host
           \/ host' = [host EXCEPT ![a] = [runs |-> @.runs + 1, effect |-> "unsure"]]
    BY <1>0, <1>1, <1>6 DEF Engine, Check, Apply, Verify, Undo, Operate, Goto, Finish, Mutating, Held, Working
  <2>2. host' = [host EXCEPT ![a] = [runs |-> @.runs + 1, effect |-> "unsure"]] =>
          host' = [host EXCEPT ![a] = [runs |-> 1, effect |-> "unsure"]]
    BY <1>0, <2>1
  <2>3. /\ Orphans = {w.job : w \in {w \in waiting : ~w.heard}} \cup (IF ~work.heard THEN {work.job} ELSE {})
        /\ Orphans' = {w.job : w \in {w \in waiting : ~w.heard}}
    BY <1>0, <1>2, <1>4, <1>6, <2>1, Listens, ListensNext
  <2>4. CASE work.heard
    <3>1. Listener = work.job /\ Orphans' = Orphans
      BY <1>0, <2>3, <2>4, Listens
    <3> QED
      BY <1>0, <1>3, <1>4, <2>1, <2>2, <3>1, MapStart DEF Promised
  <2>5. CASE ~work.heard
    <3>1. work.job \in Orphans /\ Orphans' \in {Orphans, Orphans \ {work.job}}
      BY <2>3, <2>5
    <3>2. CASE host' = host
      BY <1>3, <1>4, <3>1, <3>2, MapLeave DEF Promised
    <3>3. CASE host' = [host EXCEPT ![a] = [runs |-> 1, effect |-> "unsure"]]
      BY <1>0, <1>3, <1>4, <2>1, <3>1, <3>3, MapStart
    <3> QED
      BY <2>1, <2>2, <3>2, <3>3
  <2> QED
    BY <2>4, <2>5
<1> QED
  BY <1>5, <1>6

(* The receipt is the reply, saved or not.                                 *)
LEMMA SavePromised ==
  ASSUME HelperInv, HelperInv', Save
  PROVE  Promised
<1> DEFINE a == work.job.attempt
<1>0. /\ TypeOK /\ OneListener /\ AtWork /\ work # Idle /\ work.at = "save"
      /\ work \in Held /\ work.job \in Job /\ a \in Attempts
  BY DEF HelperInv, TypeOK, Held, Job, Save
<1>1. PICK pending \in BOOLEAN : (pending => work.job.kind = "ssh_hardening") /\ SaveAs(pending)
  BY DEF Save
<1> DEFINE r == Receipt(work.job, work.ending, pending)
<1>2. \A reply \in {r, Unsaved(r)} :
        reply \in Replies(work.job) /\ SaysTrue(host[a].effect, work.job, reply)
  BY <1>0, <1>1, ReceiptTruth DEF AtWork
<1>3. /\ work' = Idle /\ UNCHANGED <<waiting, host>>
      /\ \E reply \in {r, Unsaved(r)} : Respond(work.job, work.heard, reply)
  BY <1>1 DEF SaveAs
<1> HIDE DEF r
<1>4. Orphans' = Orphans
  BY <1>0, <1>3, Listens, ListensNext
<1>5. PICK reply \in {r, Unsaved(r)} : Respond(work.job, work.heard, reply)
  BY <1>3
<1>6. CASE work.heard
  <2>1. Listener = work.job
    BY <1>0, <1>6, Listens
  <2>2. Listener' = None
    BY <1>0, <1>3, <1>6, ListensNext DEF OneListener
  <2>3. answer' = [attempt |-> a, job |-> work.job, reply |-> reply]
    BY <1>5, <1>6 DEF Respond
  <2> QED
    BY <1>0, <1>2, <1>3, <1>4, <2>1, <2>2, <2>3, MapReply
<1>7. CASE ~work.heard
  <2>1. Listener' = Listener
    BY <1>3, <1>7, Listens, ListensNext
  <2>2. answer' = answer
    BY <1>5, <1>7 DEF Respond
  <2> QED
    BY <1>3, <1>4, <2>1, <2>2 DEF Promised
<1> QED
  BY <1>6, <1>7

(* The process stops, and starts again.                                    *)
LEMMA ProcessPromised ==
  ASSUME HelperInv, HelperInv', Stops \/ Restart
  PROVE  Promised
<1>1. CASE Stops
  <2>1. waiting' = {} /\ work' = Idle /\ UNCHANGED <<host, answer>>
    BY <1>1 DEF Stops, Crash, CrashInBegin, Stop
  <2>2. Listener' = None /\ Orphans' = {}
    BY <2>1, ListensNext
  <2> QED
    BY <2>1, <2>2, MapBreak
<1>2. CASE Restart
  BY <1>2 DEF Restart, Promised, Listener, Orphans
<1> QED
  BY <1>1, <1>2

-----------------------------------------------------------------------------
(* The Helper implements Executor.                                         *)

(* Every step of the Helper is a step of Executor, or none.                *)
LEMMA NextPromised ==
  ASSUME HelperInv, HelperInv', [Next]_helperVars
  PROVE  Promised
<1>1. CASE UNCHANGED helperVars
  BY <1>1 DEF helperVars, Promised, Listener, Orphans
<1>2. CASE Next
  BY <1>2, ClientsPromised, ServePromised, EnginePromised, SavePromised, ProcessPromised
  DEF Next, Helper, Serve
<1> QED
  BY <1>1, <1>2

(* And it starts as Executor does.                                         *)
LEMMA InitPromised ==
  ASSUME Init
  PROVE  E!Init
<1>1. HelperInv
  BY InitKeeps
<1>2. Listener = None /\ Orphans = {}
  BY <1>1, Listens DEF Init
<1> QED
  BY <1>2, SameListener DEF Init, E!Init, E!None, None

(* Only a truthful reply becomes an answer.                                *)
LEMMA PromisedAnswers ==
  ASSUME E!Next, answer' # answer
  PROVE  AnswerTruthful'
<1>1. CASE E!HangUp \/ E!Hear
  BY <1>1 DEF E!HangUp, E!Hear, E!None, None, AnswerTruthful
<1>2. CASE \E reply : E!Reply(reply)
  <2>1. PICK reply : E!Reply(reply)
    BY <1>2
  <2>2. PICK job : E!Truthful(job, reply) /\ host' = host
                   /\ answer' = [attempt |-> job.attempt, job |-> job, reply |-> reply]
    BY <2>1 DEF E!Reply, E!Answered
  <2>3. answer'.job = job /\ answer'.reply = reply
    BY <2>2
  <2>4. E!Truthful(answer.job, answer.reply)'
    BY <2>2, <2>3 DEF E!Truthful
  <2> QED
    BY <2>4 DEF AnswerTruthful
<1>3. (E!HangUp \/ E!Hear) \/ (\E reply : E!Reply(reply))
  BY DEF E!Next, E!Work, E!Ask, E!Start, E!Leave, E!Settle, E!Break
<1> QED
  BY <1>1, <1>2, <1>3

(* Whatever failed or was interrupted: a response that the Controller      *)
(* takes for a success follows a change that was verified, and one that it *)
(* takes for a failure is given only while the attempt has left the host   *)
(* as it was (cmd/witshield-helper/main.go, internal/action/engine.go).    *)
THEOREM AnswersTruthful == Spec => AnswersAreTruthful
<1>1. ASSUME HelperInv, HelperInv', [Next]_helperVars
      PROVE  [answer' # answer => AnswerTruthful']_helperVars
  <2>1. CASE answer' = answer
    BY <2>1
  <2>2. CASE answer' # answer
    BY <1>1, <2>2, NextPromised, PromisedAnswers DEF Promised
  <2> QED
    BY <2>1, <2>2
<1> QED
  BY <1>1, HelperIsSound, PTL DEF Spec, AnswersAreTruthful

(* The cache, the lock, the engine and the crashes of the Helper keep      *)
(* together the promise that the rest of the system relies on: the Helper  *)
(* implements Executor.                                                    *)
THEOREM PromiseKept == Spec => KeepsPromise
<1>1. Init => E!Init
  BY InitPromised
<1>2. ASSUME HelperInv, HelperInv', [Next]_helperVars
      PROVE  [E!Next]_(E!executorVars)
  BY <1>2, NextPromised, SameListener DEF Promised, E!executorVars
<1> QED
  BY <1>1, <1>2, HelperIsSound, PTL DEF Spec, KeepsPromise, E!Spec

=============================================================================
