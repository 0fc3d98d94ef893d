------------------------------- MODULE BanProofs -------------------------------
(***************************************************************************)
(* Temporary bans hold and end as they should, and a rollback puts back    *)
(* what the ban had replaced: for any number of bans of an address, any    *)
(* lifetimes, commands that take any time and report anything, and a wall  *)
(* clock set once.  The bans that may still come back form a stack, on top *)
(* of which is the element: a refresh pushes, a rollback pops.             *)
(***************************************************************************)
EXTENDS Parts, Integers, TLAPS

-----------------------------------------------------------------------------
(* Temporary bans: what is true of every state.                            *)

(* What the variables hold.                                                *)
BanStatus  == {"new", "applying", "applied", "failed", "rolled_back", "interrupted"}
Generation == B!Generations \cup {NoBan}
SavedBans  == [ttl : Nat, prev : Generation, left : Nat, wall : Int]
BanRow     == [status : BanStatus, saved : SavedBans]
BanStages  == {"idle", "install", "observe", "verify", "undo", "restore", "delete"}
Running    == [act : BanActions \cup {NoBan}, pc : BanStages, ok : BOOLEAN, spent : 0..Lag,
               left : Nat]

BanType ==
  /\ el \in [gen : Generation, left : Nat]
  /\ bans \in [BanActions -> BanRow]
  /\ running \in Running
  /\ wall \in {"true", "ahead", "behind"}
  /\ was \in [B!Generations -> Nat]
  /\ flushed \subseteq B!Generations

(* The predecessor an action replaced, or is about to.                     *)
Prev(a) == bans[a].saved.prev
Named   == BanActions \ Legacy

(* What generation g has left, or would have.                              *)
Rem(g) == IF el.gen = g THEN el.left ELSE was[g]

(* The element is there for as long as it has time left; it counts as its  *)
(* own from the moment it is installed.                                    *)
ElementIsOwn ==
  /\ el.gen = NoBan <=> el.left = 0
  /\ el.gen # NoBan => was[el.gen] = 0

(* What the running command is about.                                      *)
RunningIsKnown ==
  /\ running.pc = "idle" => running = B!Idle
  /\ running.pc # "idle" => running.act \in BanActions
  /\ running.pc \in {"install", "observe", "verify"} => bans[running.act].status = "applying"
  /\ running.pc \in {"undo", "restore", "delete"} =>
       /\ bans[running.act].status \in {"applying", "applied", "failed"}
       /\ bans[running.act].saved # B!NoState
  /\ running.pc = "restore" => Prev(running.act) # NoBan
  /\ \A a \in BanActions :
       /\ bans[a].status = "applying" => running.act = a /\ bans[a].saved # B!NoState
       /\ bans[a].status \in {"new", "applying"} \/ Prev(a) # NoBan => a \in Named
       /\ bans[a].status \in {"new", "rolled_back", "interrupted"} => bans[a].saved = B!NoState
       /\ bans[a].saved = B!NoState \/ bans[a].saved.ttl > 0

(* The generation on which the next one will be put, or which the command  *)
(* found: the element may be gone since.                                   *)
Topmost ==
  CASE running.pc = "install" -> Prev(running.act)
    [] running.pc = "restore" -> running.act
    [] OTHER -> el.gen

(* A ban that is not to be in the kernel, or not yet.                      *)
Ghostly(a) ==
  \/ bans[a].status \in {"new", "rolled_back"}
  \/ bans[a].status = "failed" /\ bans[a].saved = B!NoState

(* How much longer the wall clock may make a ban.                          *)
Late == IF wall = "behind" THEN BanJump ELSE 0

(* The generations that may still come back, each put on top of another:   *)
(* a rollback uncovers the one beneath, and no other.                      *)
Stack(C, r) ==
  /\ Topmost = NoBan => C = {}
  /\ Topmost # NoBan => Topmost \in C /\ \A x \in C \ {Topmost} : r[x] < r[Topmost]
  /\ \A a \in C \cap Named :
       Prev(a) # NoBan =>
         /\ Prev(a) \in C /\ r[Prev(a)] < r[a]
         /\ \A y \in C : r[y] < r[a] => y = Prev(a) \/ r[y] < r[Prev(a)]
  /\ \A a \in BanActions : Ghostly(a) => B!Generation(a) \notin C

(* What was written down of the predecessor is what it has left, by the    *)
(* wall clock and by the kernel's.                                         *)
SavedIsExact(C) ==
  \A a \in C \cap Named :
    Prev(a) # NoBan =>
      /\ bans[a].saved.wall <= was[Prev(a)] + Late
      /\ wall # "ahead" /\ was[Prev(a)] > 0 =>
           /\ was[Prev(a)] <= bans[a].saved.wall
           /\ was[Prev(a)] <= bans[a].saved.left - bans[a].saved.ttl + Rem(a)

(* Who is covered has no more left than who covers it, and what no longer  *)
(* comes back has nothing left.                                            *)
CoveredIsShorter(C, r) ==
  wall # "ahead" =>
    /\ \A x, y \in C : r[x] < r[y] => was[x] <= Rem(y)
    /\ \A a \in BanActions :
         /\ bans[a].saved # B!NoState /\ Prev(a) = NoBan /\ B!Generation(a) \in C =>
              \A y \in C : r[y] < r[B!Generation(a)] => was[y] = 0
         /\ bans[a].status = "applied" /\ B!Generation(a) \notin flushed \cup C =>
              was[B!Generation(a)] = 0
    /\ running.pc = "delete" => \A y \in C \ {Topmost} : was[y] = 0

(* There is such a stack, in an order of its own.                          *)
BansChained ==
  \E C \in SUBSET B!Generations, r \in [B!Generations -> Int] :
    Stack(C, r) /\ SavedIsExact(C) /\ CoveredIsShorter(C, r)

(* What the running command found is still there, unless it has expired or *)
(* was flushed.                                                            *)
FoundIsThere ==
  /\ running.pc \in {"install", "restore"} =>
       \/ el.gen = Topmost
       \/ el.gen = NoBan /\ (Topmost = NoBan \/ was[Topmost] = 0 \/ flushed = B!Generations)
  /\ running.pc = "delete" => el.gen \in {B!Generation(running.act), NoBan}
  /\ running.pc = "observe" =>
       /\ el.gen \in {running.act, Prev(running.act), NoBan}
       /\ el.gen = running.act => el.left <= bans[running.act].saved.ttl

(* What the running command read has aged by the time it took.             *)
ReadHasAged ==
  LET s == bans[running.act].saved
  IN /\ running.pc \in {"install", "observe"} /\ s.prev # NoBan =>
          Rem(s.prev) = 0 \/ Rem(s.prev) + running.spent <= s.left
     /\ running.pc = "install" /\ s.prev # NoBan =>
          /\ Rem(s.prev) <= s.ttl
          /\ s.wall <= Rem(s.prev) + Late
          /\ wall # "ahead" => Rem(s.prev) = 0 \/ Rem(s.prev) <= s.wall
     /\ running.pc = "restore" =>
          /\ running.left > 0
          /\ running.left <= was[s.prev] + running.spent + Late
          /\ wall # "ahead" => was[s.prev] <= running.left

(* The inductive invariant.                                                *)
BanInv == BanType /\ ElementIsOwn /\ RunningIsKnown /\ BansChained /\ FoundIsThere /\ ReadHasAged

-----------------------------------------------------------------------------
(* What the helpers of the model do.                                       *)

(* The generations, and who bears which.                                   *)
LEMMA Bearers ==
  /\ NoBan \notin B!Generations /\ Named \subseteq B!Generations
  /\ \A a \in BanActions : B!Generation(a) \in B!Generations /\ (B!Generation(a) = a \/ a \in Legacy)
  /\ \A a \in Named : B!Generation(a) = a
  /\ \A a, b \in BanActions : B!Generation(a) = B!Generation(b) => a = b
BY BanAssumption DEF B!Generations, B!Generation, Named

(* The values of a row's fields.                                           *)
LEMMA BanFields ==
  ASSUME BanType, NEW a \in BanActions
  PROVE  /\ bans[a] \in BanRow /\ bans[a].status \in BanStatus /\ bans[a].saved \in SavedBans
         /\ bans[a].saved.ttl \in Nat /\ Prev(a) \in Generation
         /\ bans[a].saved.left \in Nat /\ bans[a].saved.wall \in Int
BY DEF BanType, BanRow, SavedBans, Prev

(* The values of the other variables.                                      *)
LEMMA BanValues ==
  ASSUME BanType
  PROVE  /\ el.gen \in Generation /\ el.left \in Nat
         /\ running.act \in BanActions \cup {NoBan} /\ running.pc \in BanStages
         /\ running.ok \in BOOLEAN /\ running.spent \in 0..Lag /\ running.left \in Nat
         /\ \A g \in B!Generations : was[g] \in Nat /\ Rem(g) \in Nat
         /\ Late \in Nat
BY BanAssumption DEF BanType, Running, Rem, Late

(* Nothing saved, and nothing running.                                     *)
LEMMA BanNothing ==
  /\ B!NoState \in SavedBans /\ B!NoState.prev = NoBan /\ B!NoState.ttl = 0
  /\ B!Idle \in Running /\ B!Idle.pc = "idle" /\ B!Idle.act = NoBan
  /\ B!Idle.spent = 0 /\ B!Idle.left = 0 /\ B!Idle.ok = TRUE
BY BanAssumption DEF B!NoState, B!Idle, SavedBans, Generation, Running, BanStages

(* A command ends.                                                         *)
LEMMA BanEnds ==
  ASSUME BanType, NEW a \in BanActions, NEW status \in BanStatus, NEW s \in SavedBans,
         B!End(a, status, s)
  PROVE  /\ running' = B!Idle /\ running'.pc = "idle"
         /\ bans' \in [BanActions -> BanRow]
         /\ bans'[a].status = status
         /\ bans'[a].saved = (IF status = "rolled_back" THEN B!NoState ELSE s)
         /\ \A b \in BanActions \ {a} : bans'[b] = bans[b]
<1> DEFINE kept == [status |-> status,
                   saved |-> IF status = "rolled_back" THEN B!NoState ELSE s]
<1>1. kept \in BanRow /\ kept.status = status
      /\ kept.saved = (IF status = "rolled_back" THEN B!NoState ELSE s)
  BY BanNothing DEF BanRow
<1>2. bans' = [bans EXCEPT ![a] = kept]
  BY DEF B!End
<1> HIDE DEF kept
<1> QED
  BY <1>1, <1>2, BanNothing DEF B!End, BanType

(* A command goes on.                                                      *)
LEMMA BanGoes ==
  ASSUME BanType, NEW pc \in BanStages, B!Goto(pc)
  PROVE  /\ running' \in Running /\ running'.pc = pc /\ running'.act = running.act
         /\ running'.spent = 0
BY BanValues, BanNothing DEF B!Goto, Running

(* A command that ends leaves what is known in order.                      *)
LEMMA EndIsKnown ==
  ASSUME BanType, RunningIsKnown, NEW a \in BanActions, NEW s \in SavedBans,
         NEW status \in {"failed", "applied", "rolled_back", "interrupted"},
         B!End(a, status, s), running.pc = "idle" \/ running.act = a,
         status = "interrupted" => s = B!NoState,
         s = B!NoState \/ s.ttl > 0, s.prev # NoBan => a \in Named
  PROVE  RunningIsKnown'
<1>1. /\ running' = B!Idle /\ running'.pc = "idle"
      /\ bans'[a].status = status
      /\ bans'[a].saved = (IF status = "rolled_back" THEN B!NoState ELSE s)
      /\ \A b \in BanActions \ {a} : bans'[b] = bans[b]
  BY BanEnds DEF BanStatus
<1>2. /\ bans'[a].saved = B!NoState \/ bans'[a].saved.ttl > 0
      /\ bans'[a].saved.prev # NoBan => a \in Named
      /\ status \in {"rolled_back", "interrupted"} => bans'[a].saved = B!NoState
  BY <1>1, BanNothing
<1>3. ASSUME NEW b \in BanActions, bans[b].status = "applying"
      PROVE  b = a
  BY <1>3, BanNothing, BanAssumption DEF RunningIsKnown
<1>4. ASSUME NEW b \in BanActions
      PROVE  /\ bans'[b].status = "applying" => running'.act = b /\ bans'[b].saved # B!NoState
             /\ bans'[b].status \in {"new", "applying"} \/ bans'[b].saved.prev # NoBan => b \in Named
             /\ bans'[b].status \in {"new", "rolled_back", "interrupted"} => bans'[b].saved = B!NoState
             /\ bans'[b].saved = B!NoState \/ bans'[b].saved.ttl > 0
  <2>1. CASE b = a
    BY <1>1, <1>2, <2>1
  <2>2. CASE b # a
    <3>1. bans'[b] = bans[b] /\ bans[b].status # "applying"
      BY <1>1, <1>3, <2>2
    <3> QED
      BY <3>1 DEF RunningIsKnown, Prev
  <2> QED
    BY <2>1, <2>2
<1> QED
  BY <1>1, <1>4 DEF RunningIsKnown, Prev

(* Only one row changes, and nothing in the kernel.                        *)
LEMMA RowChanged ==
  ASSUME BanType, NEW a \in BanActions, NEW C \in SUBSET B!Generations,
         NEW r \in [B!Generations -> Int],
         Stack(C, r), SavedIsExact(C), CoveredIsShorter(C, r),
         UNCHANGED <<el, was, flushed, wall>>, Topmost' = Topmost,
         \A b \in BanActions \ {a} : bans'[b] = bans[b],
         a \in C /\ a \in Named /\ Prev(a)' # NoBan =>
           /\ Prev(a)' = Prev(a) /\ bans'[a].saved.wall = bans[a].saved.wall
           /\ wall # "ahead" /\ was[Prev(a)] > 0 =>
                was[Prev(a)] <= bans'[a].saved.left - bans'[a].saved.ttl + Rem(a),
         Ghostly(a)' => B!Generation(a) \notin C,
         wall # "ahead" /\ bans'[a].saved # B!NoState /\ Prev(a)' = NoBan /\ B!Generation(a) \in C =>
           \A y \in C : r[y] < r[B!Generation(a)] => was[y] = 0,
         wall # "ahead" /\ bans'[a].status = "applied" /\ B!Generation(a) \notin flushed \cup C =>
           was[B!Generation(a)] = 0,
         wall # "ahead" /\ running'.pc = "delete" => \A y \in C \ {Topmost} : was[y] = 0
  PROVE  BansChained'
<1>1. Stack(C, r)'
  <2>1. ASSUME NEW b \in C \cap Named, Prev(b)' # NoBan
        PROVE  /\ Prev(b)' \in C /\ r[Prev(b)'] < r[b]
               /\ \A y \in C : r[y] < r[b] => y = Prev(b)' \/ r[y] < r[Prev(b)']
    <3>1. Prev(b)' = Prev(b)
      BY <2>1 DEF Prev, Named
    <3> QED
      BY <2>1, <3>1 DEF Stack
  <2>2. ASSUME NEW b \in BanActions, Ghostly(b)'
        PROVE  B!Generation(b) \notin C
    <3>1. CASE b = a
      BY <2>2, <3>1
    <3>2. CASE b # a
      <4>1. bans'[b] = bans[b]
        BY <3>2
      <4>2. Ghostly(b)
        BY <2>2, <4>1 DEF Ghostly
      <4> QED
        BY <4>2 DEF Stack
    <3> QED
      BY <3>1, <3>2
  <2>3. /\ Topmost' = NoBan => C = {}
        /\ Topmost' # NoBan => Topmost' \in C /\ \A x \in C \ {Topmost'} : r[x] < r[Topmost']
    BY DEF Stack
  <2> QED
    BY <2>1, <2>2, <2>3 DEF Stack
<1>2. Late' = Late /\ \A g \in B!Generations : Rem(g)' = Rem(g)
  BY DEF Late, Rem
<1>3. SavedIsExact(C)'
  <2>1. SUFFICES ASSUME NEW b \in C \cap Named, Prev(b)' # NoBan
                 PROVE  /\ bans'[b].saved.wall <= was[Prev(b)'] + Late
                        /\ wall # "ahead" /\ was[Prev(b)'] > 0 =>
                             /\ was[Prev(b)'] <= bans'[b].saved.wall
                             /\ was[Prev(b)'] <= bans'[b].saved.left - bans'[b].saved.ttl + Rem(b)
    BY <1>2 DEF SavedIsExact
  <2>2. CASE b = a
    BY <2>1, <2>2 DEF SavedIsExact
  <2>3. CASE b # a
    <3>1. bans'[b] = bans[b] /\ Prev(b)' = Prev(b)
      BY <2>3 DEF Prev, Named
    <3> QED
      BY <2>1, <3>1 DEF SavedIsExact
  <2> QED
    BY <2>2, <2>3
<1>4. CoveredIsShorter(C, r)'
  <2>1. CASE wall = "ahead"
    BY <2>1 DEF CoveredIsShorter
  <2>2. CASE wall # "ahead"
    <3>1. \A x, y \in C : r[x] < r[y] => was'[x] <= Rem(y)'
      BY <1>2, <2>2 DEF CoveredIsShorter
    <3>2. ASSUME NEW b \in BanActions
          PROVE  /\ bans'[b].saved # B!NoState /\ Prev(b)' = NoBan /\ B!Generation(b) \in C =>
                      \A y \in C : r[y] < r[B!Generation(b)] => was[y] = 0
                 /\ bans'[b].status = "applied" /\ B!Generation(b) \notin flushed \cup C =>
                      was[B!Generation(b)] = 0
      <4>1. CASE b = a
        BY <2>2, <4>1
      <4>2. CASE b # a
        <5>1. bans'[b] = bans[b] /\ Prev(b)' = Prev(b)
          BY <4>2 DEF Prev
        <5> QED
          BY <2>2, <5>1 DEF CoveredIsShorter
      <4> QED
        BY <4>1, <4>2
    <3>3. running'.pc = "delete" => \A y \in C \ {Topmost'} : was[y] = 0
      BY <2>2
    <3> QED
      BY <3>1, <3>2, <3>3 DEF CoveredIsShorter
  <2> QED
    BY <2>1, <2>2
<1> QED
  BY <1>1, <1>3, <1>4 DEF BansChained

(* Nothing comes back any more, and nothing has time left.                 *)
LEMMA EmptyStack ==
  ASSUME Topmost' = NoBan,
         wall' # "ahead" =>
           \A a \in BanActions :
             bans'[a].status = "applied" /\ B!Generation(a) \notin flushed' =>
               was'[B!Generation(a)] = 0
  PROVE  BansChained'
<1> DEFINE r == [g \in B!Generations |-> 0]
<1>1. r \in [B!Generations -> Int] /\ {} \in SUBSET B!Generations
  OBVIOUS
<1> HIDE DEF r
<1>2. Stack({}, r)' /\ SavedIsExact({})' /\ CoveredIsShorter({}, r)'
  BY DEF Stack, SavedIsExact, CoveredIsShorter
<1> QED
  BY <1>1, <1>2 DEF BansChained

(* Where the command does not hold a place, the element is on top.         *)
LEMMA TopIsElement ==
  /\ running.pc \notin {"install", "restore"} => Topmost = el.gen
  /\ running'.pc \notin {"install", "restore"} => Topmost' = el'.gen
BY DEF Topmost

(* A ban in force that is not the one in the kernel is covered by it.      *)
LEMMA HeldNow ==
  ASSUME BanInv
  PROVE  B!BanHeld
<1>1. SUFFICES ASSUME NEW a \in BanActions, bans[a].status = "applied",
                      el.gen # B!Generation(a), wall # "ahead", B!Generation(a) \notin flushed
               PROVE  el.left >= was[B!Generation(a)]
  BY DEF B!BanHeld
<1> DEFINE g == B!Generation(a)
<1>2. /\ BanType /\ ElementIsOwn /\ FoundIsThere
      /\ g \in B!Generations /\ was[g] \in Nat /\ el.left \in Nat /\ NoBan \notin B!Generations
  BY Bearers, BanValues DEF BanInv
<1>3. PICK C \in SUBSET B!Generations, r \in [B!Generations -> Int] :
        Stack(C, r) /\ CoveredIsShorter(C, r)
  BY DEF BanInv, BansChained
<1>4. CASE g \notin C
  BY <1>1, <1>2, <1>3, <1>4 DEF CoveredIsShorter
<1>5. CASE g \in C /\ el.gen = Topmost
  <2>1. Topmost \in C /\ r[g] < r[Topmost]
    BY <1>1, <1>3, <1>5 DEF Stack
  <2>2. was[g] <= Rem(Topmost)
    BY <1>1, <1>3, <1>5, <2>1 DEF CoveredIsShorter
  <2> QED
    BY <1>2, <1>5, <2>2 DEF Rem
<1>6. CASE g \in C /\ el.gen # Topmost
  <2>1. Topmost # NoBan /\ Topmost \in C /\ (g = Topmost \/ r[g] < r[Topmost])
    BY <1>3, <1>6 DEF Stack
  <2>2. el.gen = NoBan /\ (was[Topmost] = 0 \/ flushed = B!Generations)
    BY <1>2, <1>6, <2>1, TopIsElement DEF FoundIsThere
  <2>3. was[Topmost] = 0 /\ Rem(Topmost) = 0
    BY <1>1, <1>2, <1>6, <2>2 DEF Rem
  <2>4. was[g] <= 0
    <3>1. CASE g = Topmost
      BY <2>3, <3>1
    <3>2. CASE r[g] < r[Topmost]
      BY <1>1, <1>3, <1>6, <2>1, <2>3, <3>2 DEF CoveredIsShorter
    <3> QED
      BY <2>1, <3>1, <3>2
  <2> QED
    BY <1>2, <2>4
<1> QED
  BY <1>4, <1>5, <1>6

(* Without an element, no ban in force has time left.                      *)
LEMMA NothingLeft ==
  ASSUME BanInv, el.gen = NoBan, wall # "ahead", NEW a \in BanActions,
         bans[a].status = "applied", B!Generation(a) \notin flushed
  PROVE  was[B!Generation(a)] = 0
<1>1. B!Generation(a) \in B!Generations /\ el.gen # B!Generation(a)
  BY Bearers
<1>2. el.left = 0
  BY DEF BanInv, ElementIsOwn
<1>3. el.left >= was[B!Generation(a)]
  BY <1>1, HeldNow DEF B!BanHeld
<1>4. was[B!Generation(a)] \in Nat
  BY <1>1, BanValues DEF BanInv
<1> QED
  BY <1>2, <1>3, <1>4

(* The stack when a command ends or only looks on.                         *)
LEMMA RowQuiet ==
  ASSUME BanInv, NEW a \in BanActions, UNCHANGED <<el, was, flushed, wall>>,
         \A b \in BanActions \ {a} : bans'[b] = bans[b],
         running'.pc \notin {"install", "restore", "delete"},
         bans'[a].saved \in {bans[a].saved, B!NoState},
         Ghostly(a)' => Ghostly(a) \/ Prev(a) = Topmost \/ el.gen = NoBan,
         bans'[a].status = "applied" => bans[a].status = "applied" \/ el.gen = B!Generation(a)
  PROVE  BansChained'
<1>1. Topmost' = el.gen /\ BanType
  BY TopIsElement DEF BanInv
<1>2. PICK C \in SUBSET B!Generations, r \in [B!Generations -> Int] :
        Stack(C, r) /\ SavedIsExact(C) /\ CoveredIsShorter(C, r)
  BY DEF BanInv, BansChained
<1>3. CASE el.gen = NoBan
  <2>1. ASSUME NEW b \in BanActions, wall' # "ahead", bans'[b].status = "applied",
               B!Generation(b) \notin flushed'
        PROVE  was'[B!Generation(b)] = 0
    <3>1. el.gen # B!Generation(b)
      BY <1>3, Bearers
    <3>2. bans[b].status = "applied"
      BY <2>1, <3>1
    <3> QED
      BY <1>3, <2>1, <3>2, NothingLeft
  <2> QED
    BY <1>1, <1>3, <2>1, EmptyStack
<1>4. CASE el.gen # NoBan
  <2>1. Topmost = el.gen
    BY <1>4, TopIsElement DEF BanInv, FoundIsThere
  <2>2. Topmost' = Topmost /\ Topmost \in C /\ \A x \in C \ {Topmost} : r[x] < r[Topmost]
    BY <1>1, <1>2, <1>4, <2>1 DEF Stack
  <2>3. a \in C /\ a \in Named /\ Prev(a)' # NoBan =>
           /\ Prev(a)' = Prev(a) /\ bans'[a].saved.wall = bans[a].saved.wall
           /\ wall # "ahead" /\ was[Prev(a)] > 0 =>
                was[Prev(a)] <= bans'[a].saved.left - bans'[a].saved.ttl + Rem(a)
    BY <1>2, BanNothing DEF Prev, SavedIsExact
  <2>4. ASSUME Ghostly(a)', B!Generation(a) \in C
        PROVE  FALSE
    <3>1. ~Ghostly(a)
      BY <1>2, <2>4 DEF Stack
    <3>2. Prev(a) = Topmost
      BY <1>4, <2>4, <3>1
    <3>3. a \in Named
      BY <1>4, <2>1, <3>2 DEF BanInv, RunningIsKnown
    <3>4. a \in C /\ Topmost \in C /\ r[Topmost] < r[a]
      BY <1>2, <1>4, <2>1, <2>4, <3>2, <3>3, Bearers DEF Stack
    <3>5. a # Topmost => r[a] < r[Topmost]
      BY <2>2, <3>4
    <3>6. r[a] \in Int /\ r[Topmost] \in Int
      BY <3>4
    <3> QED
      BY <3>4, <3>5, <3>6
  <2>5. wall # "ahead" /\ bans'[a].saved # B!NoState /\ Prev(a)' = NoBan /\ B!Generation(a) \in C =>
           \A y \in C : r[y] < r[B!Generation(a)] => was[y] = 0
    BY <1>2 DEF CoveredIsShorter, Prev
  <2>6. wall # "ahead" /\ bans'[a].status = "applied" /\ B!Generation(a) \notin flushed \cup C =>
           was[B!Generation(a)] = 0
    BY <1>2, <2>1, <2>2 DEF CoveredIsShorter
  <2> QED
    BY <1>1, <1>2, <2>2, <2>3, <2>4, <2>5, <2>6, RowChanged
<1> QED
  BY <1>3, <1>4

(* An invariant's parts when nothing is installed, restored or deleted.    *)
LEMMA NotMidway ==
  ASSUME running'.pc \in {"idle", "verify", "undo"}
  PROVE  FoundIsThere' /\ ReadHasAged'
BY DEF FoundIsThere, ReadHasAged

(* A command that goes on leaves what is known in order.                   *)
LEMMA GoesKnown ==
  ASSUME RunningIsKnown, bans' = bans, running'.act = running.act,
         running.pc \in BanStages \ {"idle"},
         running'.pc \in {"verify", "undo", "restore", "delete"},
         running'.pc = "verify" => running.pc \in {"install", "observe", "verify"},
         running'.pc = "restore" => Prev(running.act) # NoBan
  PROVE  RunningIsKnown'
<1>1. /\ running.act \in BanActions
      /\ bans[running.act].status \in {"applying", "applied", "failed"}
      /\ bans[running.act].saved # B!NoState
      /\ running'.pc = "verify" => bans[running.act].status = "applying"
  BY DEF RunningIsKnown, BanStages
<1> QED
  BY <1>1 DEF RunningIsKnown, Prev

-----------------------------------------------------------------------------
(* The steps of Apply.                                                     *)

(* What is to be refreshed is written down, or the action fails.           *)
LEMMA ApplyReadKeeps ==
  ASSUME BanInv, NEW a \in BanActions, NEW ttl \in TTLs, B!ApplyRead(a, ttl)
  PROVE  BanInv'
<1>1. /\ BanType /\ ElementIsOwn /\ RunningIsKnown
      /\ running = B!Idle /\ running.pc = "idle" /\ bans[a].status = "new"
      /\ a \in Named /\ Topmost = el.gen /\ Ghostly(a)
      /\ UNCHANGED <<el, was, flushed, wall>>
  BY BanNothing, TopIsElement DEF BanInv, RunningIsKnown, Ghostly, B!ApplyRead, B!Keep
<1>2. CASE el.left > ttl
  <2>1. B!End(a, "failed", B!NoState)
    BY <1>2 DEF B!ApplyRead
  <2>2. /\ running' = B!Idle /\ running'.pc = "idle" /\ bans' \in [BanActions -> BanRow]
        /\ bans'[a].status = "failed" /\ bans'[a].saved = B!NoState
        /\ \A b \in BanActions \ {a} : bans'[b] = bans[b]
    BY <1>1, <2>1, BanEnds, BanNothing DEF BanStatus
  <2>3. BanType' /\ ElementIsOwn'
    BY <1>1, <2>2, BanNothing DEF BanType, ElementIsOwn
  <2>4. RunningIsKnown'
    BY <1>1, <2>1, EndIsKnown, BanNothing
  <2>5. BansChained'
    BY <1>1, <2>2, RowQuiet
  <2> QED
    BY <2>2, <2>3, <2>4, <2>5, NotMidway DEF BanInv
<1>3. CASE ~(el.left > ttl)
  <2> DEFINE s == [ttl |-> ttl, prev |-> el.gen, left |-> el.left, wall |-> el.left]
  <2>1. /\ running' = [B!Idle EXCEPT !.act = a, !.pc = "install"]
        /\ bans' = [bans EXCEPT ![a] = [status |-> "applying", saved |-> s]]
    BY <1>3 DEF B!ApplyRead
  <2>2. /\ el.gen \in Generation /\ el.left \in Nat /\ ttl \in Nat /\ ttl > 0 /\ el.left <= ttl
    BY <1>1, <1>3, BanValues, BanAssumption
  <2>3. /\ s \in SavedBans /\ s # B!NoState /\ s.ttl = ttl /\ s.prev = el.gen
        /\ s.left = el.left /\ s.wall = el.left
    BY <2>2, BanNothing DEF SavedBans
  <2>4. /\ running' \in Running /\ running'.pc = "install" /\ running'.act = a
        /\ running'.spent = 0
    BY <2>1, BanNothing DEF Running, BanStages
  <2> HIDE DEF s
  <2>5. [status |-> "applying", saved |-> s] \in BanRow
    BY <2>3 DEF BanRow, BanStatus
  <2>6. /\ bans' \in [BanActions -> BanRow]
        /\ bans'[a].status = "applying" /\ bans'[a].saved = s
        /\ \A b \in BanActions \ {a} : bans'[b] = bans[b]
    BY <1>1, <2>1, <2>5 DEF BanType
  <2>7. BanType' /\ ElementIsOwn'
    BY <1>1, <2>4, <2>6 DEF BanType, ElementIsOwn
  <2>8. RunningIsKnown'
    <3>1. ASSUME NEW b \in BanActions
          PROVE  /\ bans'[b].status = "applying" => running'.act = b /\ bans'[b].saved # B!NoState
                 /\ bans'[b].status \in {"new", "applying"} \/ bans'[b].saved.prev # NoBan => b \in Named
                 /\ bans'[b].status \in {"new", "rolled_back", "interrupted"} => bans'[b].saved = B!NoState
                 /\ bans'[b].saved = B!NoState \/ bans'[b].saved.ttl > 0
      <4>1. CASE b = a
        BY <1>1, <2>2, <2>3, <2>4, <2>6, <4>1
      <4>2. CASE b # a
        <5>1. bans'[b] = bans[b] /\ bans[b].status # "applying"
          BY <1>1, <2>6, <4>2, BanNothing, BanAssumption DEF RunningIsKnown
        <5> QED
          BY <1>1, <5>1 DEF RunningIsKnown, Prev
      <4> QED
        BY <4>1, <4>2
    <3> QED
      BY <2>4, <2>6, <3>1 DEF RunningIsKnown, Prev
  <2>9. Topmost' = el.gen /\ Topmost' = Topmost
    BY <1>1, <2>3, <2>4, <2>6 DEF Topmost, Prev
  <2>10. BansChained'
    <3>1. PICK C \in SUBSET B!Generations, r \in [B!Generations -> Int] :
            Stack(C, r) /\ SavedIsExact(C) /\ CoveredIsShorter(C, r)
      BY DEF BanInv, BansChained
    <3>2. a \notin C /\ B!Generation(a) = a
      BY <1>1, <3>1, Bearers DEF Stack
    <3> QED
      BY <1>1, <2>4, <2>6, <2>9, <3>1, <3>2, RowChanged
  <2>11. FoundIsThere'
    BY <1>1, <2>4, <2>9 DEF FoundIsThere
  <2>12. ReadHasAged'
    <3>1. /\ \A g : Rem(g)' = IF el.gen = g THEN el.left ELSE was[g]
          /\ Late \in Nat /\ Late' = Late
      BY <1>1, BanValues DEF Rem, Late
    <3>2. /\ bans'[running'.act].saved = s /\ running'.spent = 0 /\ running'.pc = "install"
      BY <2>4, <2>6
    <3> QED
      BY <2>2, <2>3, <3>1, <3>2 DEF ReadHasAged
  <2> QED
    BY <2>7, <2>8, <2>10, <2>11, <2>12 DEF BanInv
<1> QED
  BY <1>2, <1>3

(* A command that ends without having touched the kernel.                  *)
LEMMA EndKeeps ==
  ASSUME BanInv, NEW a \in BanActions, NEW s \in {bans[a].saved, B!NoState},
         NEW status \in {"failed", "applied", "rolled_back", "interrupted"},
         B!End(a, status, s), UNCHANGED <<el, was, flushed, wall>>,
         running.pc = "idle" \/ running.act = a,
         status = "interrupted" => s = B!NoState,
         status = "rolled_back" \/ (status = "failed" /\ s = B!NoState) =>
           Ghostly(a) \/ (Prev(a) = Topmost) \/ el.gen = NoBan,
         status = "applied" => bans[a].status = "applied" \/ el.gen = B!Generation(a)
  PROVE  BanInv'
<1>1. BanType /\ ElementIsOwn /\ RunningIsKnown /\ s \in SavedBans
  BY BanFields, BanNothing DEF BanInv
<1>2. /\ running' = B!Idle /\ running'.pc = "idle" /\ bans' \in [BanActions -> BanRow]
      /\ bans'[a].status = status
      /\ bans'[a].saved = (IF status = "rolled_back" THEN B!NoState ELSE s)
      /\ \A b \in BanActions \ {a} : bans'[b] = bans[b]
  BY <1>1, BanEnds DEF BanStatus
<1>3. BanType' /\ ElementIsOwn'
  BY <1>1, <1>2, BanNothing DEF BanType, ElementIsOwn
<1>4. RunningIsKnown'
  <2>1. s = B!NoState \/ s.ttl > 0
    BY <1>1 DEF RunningIsKnown
  <2>2. s.prev # NoBan => a \in Named
    BY <1>1, BanNothing DEF RunningIsKnown, Prev
  <2> QED
    BY <1>1, <2>1, <2>2, EndIsKnown
<1>5. BansChained'
  <2>1. Ghostly(a)' => status = "rolled_back" \/ (status = "failed" /\ s = B!NoState)
    BY <1>2 DEF Ghostly
  <2>2. bans'[a].saved \in {bans[a].saved, B!NoState}
    BY <1>2
  <2> QED
    BY <1>2, <2>1, <2>2, RowQuiet
<1> QED
  BY <1>2, <1>3, <1>4, <1>5, NotMidway DEF BanInv

(* A command that goes on without having touched the kernel.               *)
LEMMA GoKeeps ==
  ASSUME BanInv, bans' = bans, UNCHANGED <<el, was, flushed, wall>>,
         running.pc \in BanStages \ {"idle"}, NEW pc \in {"verify", "undo"}, B!Goto(pc),
         pc = "verify" => running.pc = "observe"
  PROVE  BanInv'
<1>1. BanType /\ ElementIsOwn /\ RunningIsKnown /\ running.act \in BanActions
  BY DEF BanInv, RunningIsKnown, BanStages
<1>2. running' \in Running /\ running'.pc = pc /\ running'.act = running.act
  BY <1>1, BanGoes DEF BanStages
<1>3. BanType' /\ ElementIsOwn'
  BY <1>1, <1>2 DEF BanType, ElementIsOwn
<1>4. RunningIsKnown'
  BY <1>1, <1>2, GoesKnown
<1>5. BansChained'
  BY <1>1, <1>2, RowQuiet DEF Ghostly
<1> QED
  BY <1>2, <1>3, <1>4, <1>5, NotMidway DEF BanInv

(* A check before anything is done fails.                                  *)
LEMMA ApplyRefusedKeeps ==
  ASSUME BanInv, NEW a \in BanActions, B!ApplyRefused(a)
  PROVE  BanInv'
<1>1. /\ running.pc = "idle" /\ Ghostly(a) /\ B!End(a, "failed", B!NoState)
      /\ UNCHANGED <<el, was, flushed, wall>>
  BY BanNothing DEF B!ApplyRefused, B!Keep, Ghostly
<1> QED
  BY <1>1, EndKeeps

(* The verification reads the element once more.                           *)
LEMMA BanVerifyKeeps ==
  ASSUME BanInv, NEW readable \in BOOLEAN, B!Verify(readable)
  PROVE  BanInv'
<1> DEFINE a == running.act
<1>1. /\ running.pc = "verify" /\ a \in Named /\ B!Generation(a) = a
      /\ UNCHANGED <<el, was, flushed, wall>>
  BY Bearers DEF BanInv, RunningIsKnown, B!Verify, B!Keep
<1>2. CASE readable /\ el.gen = a
  <2>1. B!End(a, "applied", bans[a].saved) /\ a \in BanActions
    BY <1>1, <1>2 DEF B!Verify, Named
  <2> QED
    BY <1>1, <1>2, <2>1, EndKeeps
<1>3. CASE ~(readable /\ el.gen = a)
  BY <1>1, <1>3, GoKeeps DEF B!Verify, BanStages
<1> QED
  BY <1>2, <1>3

(* A predecessor that was gone before the commit.                          *)
LEMMA PredecessorGone ==
  ASSUME NEW s \in SavedBans
  PROVE  /\ [s EXCEPT !.prev = NoBan, !.left = 0, !.wall = 0] \in SavedBans
         /\ [s EXCEPT !.prev = NoBan, !.left = 0, !.wall = 0].ttl = s.ttl
         /\ [s EXCEPT !.prev = NoBan, !.left = 0, !.wall = 0].prev = NoBan
<1>1. ASSUME NEW x \in SavedBans
      PROVE  [x EXCEPT !.prev = NoBan] \in SavedBans /\ [x EXCEPT !.prev = NoBan].prev = NoBan
             /\ [x EXCEPT !.prev = NoBan].ttl = x.ttl
  BY <1>1 DEF SavedBans, Generation
<1>2. ASSUME NEW x \in SavedBans
      PROVE  [x EXCEPT !.left = 0] \in SavedBans /\ [x EXCEPT !.left = 0].prev = x.prev
             /\ [x EXCEPT !.left = 0].ttl = x.ttl
  BY <1>2 DEF SavedBans
<1>3. ASSUME NEW x \in SavedBans
      PROVE  [x EXCEPT !.wall = 0] \in SavedBans /\ [x EXCEPT !.wall = 0].prev = x.prev
             /\ [x EXCEPT !.wall = 0].ttl = x.ttl
  BY <1>3 DEF SavedBans
<1>4. /\ [s EXCEPT !.prev = NoBan] \in SavedBans
      /\ [[s EXCEPT !.prev = NoBan] EXCEPT !.left = 0] \in SavedBans
      /\ [[s EXCEPT !.prev = NoBan] EXCEPT !.left = 0].prev = NoBan
      /\ [[s EXCEPT !.prev = NoBan] EXCEPT !.left = 0].ttl = s.ttl
  BY <1>1, <1>2
<1> QED
  BY <1>1, <1>2, <1>3, <1>4

(* The element the command finds is its own: what the predecessor had left *)
(* at the commit is worked out.                                            *)
LEMMA ObserveOwnKeeps ==
  ASSUME BanInv, running.pc = "observe", NEW a \in BanActions, running.act = a, el.gen = a,
         bans' = [bans EXCEPT ![a].saved = B!Exact(bans[a].saved, running.spent)],
         NEW pc \in {"verify", "undo"}, B!Goto(pc), UNCHANGED <<el, was, flushed, wall>>
  PROVE  BanInv'
<1> DEFINE s == bans[a].saved
           e == B!Exact(s, running.spent)
           before == IF running.spent > s.ttl - el.left THEN running.spent - (s.ttl - el.left) ELSE 0
<1>1. /\ BanType /\ ElementIsOwn /\ RunningIsKnown /\ ReadHasAged
      /\ a \in Named /\ B!Generation(a) = a /\ bans[a].status = "applying"
      /\ s \in SavedBans /\ s # B!NoState /\ s.ttl > 0 /\ Topmost = a
  BY BanFields, Bearers, TopIsElement DEF BanInv, RunningIsKnown, Named
<1>2. /\ s.ttl \in Nat /\ s.left \in Nat /\ s.wall \in Int /\ s.prev \in Generation
      /\ el.left \in Nat /\ running.spent \in Nat /\ before \in Nat
  BY <1>1, BanValues, BanAssumption DEF SavedBans
<1>3. e = IF s.left > before THEN [s EXCEPT !.left = s.left - before]
          ELSE [s EXCEPT !.prev = NoBan, !.left = 0, !.wall = 0]
  BY DEF B!Exact
<1> HIDE DEF before
<1>4. /\ e \in SavedBans /\ e.ttl = s.ttl
      /\ s.left > before => e.prev = s.prev /\ e.wall = s.wall /\ e.left = s.left - before
      /\ ~(s.left > before) => e.prev = NoBan
  <2>1. CASE s.left > before
    <3>1. s.left - before \in Nat
      BY <1>2, <2>1
    <3> QED
      BY <1>1, <1>3, <2>1, <3>1 DEF SavedBans
  <2>2. CASE ~(s.left > before)
    BY <1>1, <1>3, <2>2, PredecessorGone
  <2> QED
    BY <2>1, <2>2
<1> HIDE DEF e
<1>5. /\ bans' \in [BanActions -> BanRow]
      /\ bans'[a].status = "applying" /\ bans'[a].saved = e
      /\ \A b \in BanActions \ {a} : bans'[b] = bans[b]
  <2>1. bans' = [bans EXCEPT ![a] = [bans[a] EXCEPT !.saved = e]]
    BY <1>1 DEF e, BanType
  <2>2. bans[a] \in BanRow /\ bans \in [BanActions -> BanRow]
    BY <1>1 DEF BanType
  <2>3. /\ [bans[a] EXCEPT !.saved = e] \in BanRow
        /\ [bans[a] EXCEPT !.saved = e].saved = e
        /\ [bans[a] EXCEPT !.saved = e].status = bans[a].status
    BY <1>4, <2>2 DEF BanRow
  <2> QED
    BY <1>1, <2>1, <2>2, <2>3
<1>6. running' \in Running /\ running'.pc = pc /\ running'.act = a
  BY <1>1, BanGoes DEF BanStages
<1>7. BanType' /\ ElementIsOwn'
  BY <1>1, <1>5, <1>6 DEF BanType, ElementIsOwn
<1>8. RunningIsKnown'
  <2>1. e # B!NoState
    BY <1>1, <1>4, BanNothing
  <2>2. ASSUME NEW b \in BanActions
        PROVE  /\ bans'[b].status = "applying" => running'.act = b /\ bans'[b].saved # B!NoState
               /\ bans'[b].status \in {"new", "applying"} \/ bans'[b].saved.prev # NoBan => b \in Named
               /\ bans'[b].status \in {"new", "rolled_back", "interrupted"} => bans'[b].saved = B!NoState
               /\ bans'[b].saved = B!NoState \/ bans'[b].saved.ttl > 0
    <3>1. CASE b = a
      BY <1>1, <1>4, <1>5, <1>6, <2>1, <3>1
    <3>2. CASE b # a
      <4>1. bans'[b] = bans[b]
        BY <1>5, <3>2
      <4> QED
        BY <1>6, <4>1 DEF BanInv, RunningIsKnown, Prev
    <3> QED
      BY <3>1, <3>2
  <2> QED
    BY <1>1, <1>5, <1>6, <2>1, <2>2 DEF RunningIsKnown, Prev
<1>9. Topmost' = Topmost
  BY <1>1, <1>6, TopIsElement
<1>10. BansChained'
  <2>1. PICK C \in SUBSET B!Generations, r \in [B!Generations -> Int] :
          Stack(C, r) /\ SavedIsExact(C) /\ CoveredIsShorter(C, r)
    BY DEF BanInv, BansChained
  <2>2. a \in C
    BY <1>1, <2>1, Bearers DEF Stack
  <2>3. s.prev # NoBan => s.prev \in C /\ r[s.prev] < r[a] /\ s.prev # a /\ Rem(s.prev) = was[s.prev]
    <3>1. s.prev # NoBan => s.prev \in C /\ r[s.prev] < r[a]
      BY <1>1, <2>1, <2>2 DEF Stack, Prev
    <3>2. r[a] \in Int
      BY <2>2
    <3> QED
      BY <3>1, <3>2 DEF Rem
  <2>4. s.prev # NoBan => was[s.prev] \in Nat /\ (was[s.prev] = 0 \/ was[s.prev] + running.spent <= s.left)
    BY <1>1, <2>3, BanValues DEF ReadHasAged
  <2>5. a \in C /\ a \in Named /\ Prev(a)' # NoBan =>
           /\ Prev(a)' = Prev(a) /\ bans'[a].saved.wall = bans[a].saved.wall
           /\ wall # "ahead" /\ was[Prev(a)] > 0 =>
                was[Prev(a)] <= bans'[a].saved.left - bans'[a].saved.ttl + Rem(a)
    <3>1. SUFFICES ASSUME e.prev # NoBan
                   PROVE  /\ e.prev = s.prev /\ e.wall = s.wall
                          /\ wall # "ahead" /\ was[s.prev] > 0 =>
                               was[s.prev] <= e.left - e.ttl + el.left
      BY <1>1, <1>5 DEF Prev, Rem
    <3>2. s.left > before /\ e.prev = s.prev /\ e.wall = s.wall /\ e.left = s.left - before /\ e.ttl = s.ttl
      BY <1>4, <3>1
    <3>3. ASSUME wall # "ahead", was[s.prev] > 0
          PROVE  was[s.prev] <= s.left - before - s.ttl + el.left
      <4>1. was[s.prev] + running.spent <= s.left /\ was[s.prev] \in Nat
        BY <2>4, <3>1, <3>2, <3>3
      <4>2. was[s.prev] <= s.left - s.ttl + el.left
        BY <1>1, <2>1, <2>2, <3>1, <3>2, <3>3 DEF SavedIsExact, Prev, Rem
      <4> QED
        BY <1>2, <4>1, <4>2 DEF before
    <3> QED
      BY <3>2, <3>3
  <2>6. wall # "ahead" /\ bans'[a].saved # B!NoState /\ Prev(a)' = NoBan /\ B!Generation(a) \in C =>
           \A y \in C : r[y] < r[B!Generation(a)] => was[y] = 0
    <3>1. SUFFICES ASSUME wall # "ahead", e.prev = NoBan, NEW y \in C, r[y] < r[a]
                   PROVE  was[y] = 0
      BY <1>1, <1>5 DEF Prev
    <3>2. CASE s.prev = NoBan
      BY <1>1, <2>1, <2>2, <3>1, <3>2 DEF CoveredIsShorter, Prev
    <3>3. CASE s.prev # NoBan
      <4>1. ~(s.left > before)
        BY <1>4, <3>1, <3>3
      <4>2. before <= running.spent \/ before = 0
        <5>1. el.left <= s.ttl
          BY DEF BanInv, FoundIsThere
        <5> QED
          BY <1>2, <5>1 DEF before
      <4>3. was[s.prev] = 0
        BY <1>2, <2>4, <3>3, <4>1, <4>2
      <4>4. y = s.prev \/ r[y] < r[s.prev]
        BY <1>1, <2>1, <2>2, <3>1, <3>3 DEF Stack, Prev
      <4>5. r[y] < r[s.prev] => was[y] <= 0
        BY <2>1, <2>3, <3>1, <3>3, <4>3 DEF CoveredIsShorter
      <4>6. was[y] \in Nat
        BY <1>1, BanValues
      <4> QED
        BY <4>3, <4>4, <4>5, <4>6
    <3> QED
      BY <3>2, <3>3
  <2>7. ~Ghostly(a)'
    BY <1>5 DEF Ghostly
  <2>8. bans'[a].status # "applied" /\ running'.pc # "delete"
    BY <1>5, <1>6
  <2> QED
    BY <1>1, <1>5, <1>9, <2>1, <2>5, <2>6, <2>7, <2>8, RowChanged
<1> QED
  BY <1>6, <1>7, <1>8, <1>10, NotMidway DEF BanInv

(* The element is read back, and found to be the command's or not.         *)
LEMMA ObserveKeeps ==
  ASSUME BanInv, NEW readable \in BOOLEAN, B!Observe(readable)
  PROVE  BanInv'
<1> DEFINE a == running.act
           s == bans[a].saved
<1>1. /\ running.pc = "observe" /\ a \in BanActions /\ Topmost = el.gen
      /\ UNCHANGED <<el, was, flushed, wall>>
  BY TopIsElement DEF BanInv, RunningIsKnown, B!Observe, B!Keep
<1>2. CASE readable /\ el.gen = a
  <2>1. /\ bans' = [bans EXCEPT ![a].saved = B!Exact(s, running.spent)]
        /\ B!Goto("verify") \/ B!Goto("undo")
    BY <1>2 DEF B!Observe
  <2> QED
    BY <1>1, <1>2, <2>1, ObserveOwnKeeps
<1>3. CASE ~(readable /\ el.gen = a) /\ B!End(a, "failed", B!NoState) /\ (B!Missing \/ el.gen = s.prev)
  <2>1. el.gen = NoBan \/ Prev(a) = Topmost
    BY <1>1, <1>3 DEF B!Missing, B!Absent, Prev
  <2> QED
    BY <1>1, <1>3, <2>1, EndKeeps
<1>4. CASE B!Goto("undo") /\ UNCHANGED bans
  BY <1>1, <1>4, GoKeeps DEF BanStages
<1>5. \/ readable /\ el.gen = a
      \/ ~(readable /\ el.gen = a) /\ B!End(a, "failed", B!NoState) /\ (B!Missing \/ el.gen = s.prev)
      \/ B!Goto("undo") /\ UNCHANGED bans
  BY DEF B!Observe
<1> QED
  BY <1>2, <1>3, <1>4, <1>5

-----------------------------------------------------------------------------
(* Rollback up to the change of the kernel.                                *)

(* A rollback is asked for of a ban that kept what it needs.               *)
LEMMA BanRollbackAskedKeeps ==
  ASSUME BanInv, NEW a \in BanActions, B!RollbackAsked(a)
  PROVE  BanInv'
<1>1. /\ BanType /\ ElementIsOwn /\ RunningIsKnown /\ running = B!Idle
      /\ bans[a].status \in {"applied", "failed"} /\ bans[a].saved # B!NoState
      /\ running' = [B!Idle EXCEPT !.act = a, !.pc = "undo"] /\ bans' = bans
      /\ UNCHANGED <<el, was, flushed, wall>>
  BY DEF BanInv, B!RollbackAsked, B!Keep
<1>2. running' \in Running /\ running'.pc = "undo" /\ running'.act = a
  BY <1>1, BanNothing DEF Running, BanStages
<1>3. BanType' /\ ElementIsOwn'
  BY <1>1, <1>2 DEF BanType, ElementIsOwn
<1>4. RunningIsKnown'
  <2>1. \A b \in BanActions : bans[b].status # "applying"
    BY <1>1, BanNothing, BanAssumption DEF RunningIsKnown
  <2> QED
    BY <1>1, <1>2, <2>1 DEF RunningIsKnown, Prev
<1>5. BansChained'
  BY <1>1, <1>2, RowQuiet DEF Ghostly
<1> QED
  BY <1>2, <1>3, <1>4, <1>5, NotMidway DEF BanInv

(* The rollback goes on to put back what the ban had replaced, or to       *)
(* delete the ban: the stack is what it was, and what is beneath has what  *)
(* was written down of it.                                                 *)
LEMMA RollbackGoesKeeps ==
  ASSUME BanInv, NEW a \in BanActions, running.act = a, running.pc = "undo",
         el.gen = B!Generation(a), bans' = bans, UNCHANGED <<el, was, flushed, wall>>,
         \/ /\ Prev(a) # NoBan /\ B!Restorable(bans[a].saved) > 0
            /\ running' = [running EXCEPT !.pc = "restore", !.left = B!Restorable(bans[a].saved),
                                          !.spent = 0]
         \/ /\ Prev(a) = NoBan \/ B!Restorable(bans[a].saved) <= 0
            /\ B!Goto("delete")
  PROVE  BanInv'
<1> DEFINE s == bans[a].saved
           n == B!Restorable(s)
<1>1. /\ BanType /\ ElementIsOwn /\ RunningIsKnown
      /\ Topmost = el.gen /\ el.gen \in B!Generations /\ el.gen # NoBan
      /\ s \in SavedBans /\ s # B!NoState
      /\ s.ttl \in Nat /\ s.left \in Nat /\ s.wall \in Int /\ el.left \in Nat /\ running \in Running
  BY BanFields, BanValues, Bearers, TopIsElement DEF BanInv, RunningIsKnown, BanType
<1>2. n \in Int /\ n <= s.wall /\ n <= s.left - s.ttl + el.left
      /\ (n = s.wall \/ n = s.left - s.ttl + el.left)
  BY <1>1 DEF B!Restorable
<1> HIDE DEF n
<1>3. PICK C \in SUBSET B!Generations, r \in [B!Generations -> Int] :
        Stack(C, r) /\ SavedIsExact(C) /\ CoveredIsShorter(C, r)
  BY DEF BanInv, BansChained
<1>4. el.gen \in C /\ \A x \in C \ {el.gen} : r[x] < r[el.gen]
  BY <1>1, <1>3 DEF Stack
<1>5. /\ s.prev # NoBan => /\ a \in C /\ a \in Named /\ el.gen = a
                           /\ s.prev \in C /\ r[s.prev] < r[a] /\ s.prev # a
                           /\ was[s.prev] \in Nat /\ Rem(s.prev) = was[s.prev]
                           /\ s.wall <= was[s.prev] + Late
      /\ s.prev # NoBan /\ wall # "ahead" => was[s.prev] = 0 \/ was[s.prev] <= n
  <2>1. SUFFICES ASSUME s.prev # NoBan
                 PROVE  /\ a \in C /\ a \in Named /\ el.gen = a
                        /\ s.prev \in C /\ r[s.prev] < r[a] /\ s.prev # a
                        /\ was[s.prev] \in Nat /\ Rem(s.prev) = was[s.prev]
                        /\ s.wall <= was[s.prev] + Late
                        /\ wall # "ahead" => was[s.prev] = 0 \/ was[s.prev] <= n
    OBVIOUS
  <2>2. a \in Named /\ el.gen = a /\ a \in C
    BY <1>1, <1>4, <2>1, Bearers DEF RunningIsKnown, Prev
  <2>3. s.prev \in C /\ r[s.prev] < r[a] /\ r[a] \in Int
    BY <1>3, <2>1, <2>2 DEF Stack, Prev
  <2>4. s.prev # a /\ was[s.prev] \in Nat /\ Rem(s.prev) = was[s.prev]
    BY <1>1, <2>2, <2>3, BanValues DEF Rem
  <2>5. /\ s.wall <= was[s.prev] + Late
        /\ wall # "ahead" /\ was[s.prev] > 0 =>
             was[s.prev] <= s.wall /\ was[s.prev] <= s.left - s.ttl + el.left
    BY <1>3, <2>1, <2>2 DEF SavedIsExact, Prev, Rem
  <2>6. wall # "ahead" => was[s.prev] = 0 \/ was[s.prev] <= n
    BY <1>2, <2>4, <2>5
  <2> QED
    BY <2>2, <2>3, <2>4, <2>5, <2>6
<1>6. CASE s.prev # NoBan /\ n > 0 /\ running' = [running EXCEPT !.pc = "restore", !.left = n, !.spent = 0]
  <2>1. /\ running' \in Running /\ running'.pc = "restore" /\ running'.act = a
        /\ running'.left = n /\ running'.spent = 0
    <3>1. n \in Nat /\ 0 \in 0..Lag
      BY <1>2, <1>6, BanAssumption
    <3>2. ASSUME NEW x \in Running
          PROVE  /\ [x EXCEPT !.pc = "restore"] \in Running
                 /\ [x EXCEPT !.pc = "restore"].act = x.act
                 /\ [x EXCEPT !.pc = "restore"].pc = "restore"
      BY <3>2 DEF Running, BanStages
    <3>3. ASSUME NEW x \in Running
          PROVE  /\ [x EXCEPT !.left = n] \in Running /\ [x EXCEPT !.left = n].act = x.act
                 /\ [x EXCEPT !.left = n].pc = x.pc /\ [x EXCEPT !.left = n].left = n
      BY <3>1, <3>3 DEF Running
    <3>4. ASSUME NEW x \in Running
          PROVE  /\ [x EXCEPT !.spent = 0] \in Running /\ [x EXCEPT !.spent = 0].act = x.act
                 /\ [x EXCEPT !.spent = 0].pc = x.pc /\ [x EXCEPT !.spent = 0].left = x.left
                 /\ [x EXCEPT !.spent = 0].spent = 0
      BY <3>1, <3>4 DEF Running
    <3>5. /\ [[running EXCEPT !.pc = "restore"] EXCEPT !.left = n] \in Running
          /\ [[running EXCEPT !.pc = "restore"] EXCEPT !.left = n].act = a
          /\ [[running EXCEPT !.pc = "restore"] EXCEPT !.left = n].pc = "restore"
          /\ [[running EXCEPT !.pc = "restore"] EXCEPT !.left = n].left = n
      BY <1>1, <3>2, <3>3
    <3> QED
      BY <1>6, <3>4, <3>5
  <2>2. BanType' /\ ElementIsOwn'
    BY <1>1, <2>1 DEF BanType, ElementIsOwn
  <2>3. RunningIsKnown'
    BY <1>1, <1>6, <2>1, GoesKnown DEF BanStages, Prev
  <2>4. Topmost' = Topmost
    BY <1>1, <1>5, <1>6, <2>1 DEF Topmost
  <2>5. BansChained'
    BY <1>1, <1>3, <2>1, <2>4, RowChanged DEF Ghostly, Stack, SavedIsExact, CoveredIsShorter, Prev
  <2>6. FoundIsThere'
    BY <1>1, <2>1, <2>4 DEF FoundIsThere
  <2>7. ReadHasAged'
    <3>1. Late' = Late /\ Late \in Nat
      BY <1>1, BanValues DEF Late
    <3> QED
      BY <1>1, <1>2, <1>5, <1>6, <2>1, <3>1 DEF ReadHasAged
  <2> QED
    BY <2>2, <2>3, <2>5, <2>6, <2>7 DEF BanInv
<1>7. CASE (s.prev = NoBan \/ n <= 0) /\ B!Goto("delete")
  <2>1. running' \in Running /\ running'.pc = "delete" /\ running'.act = a
    BY <1>1, <1>7, BanGoes DEF BanStages
  <2>2. BanType' /\ ElementIsOwn'
    BY <1>1, <2>1 DEF BanType, ElementIsOwn
  <2>3. RunningIsKnown'
    BY <1>1, <2>1, GoesKnown DEF BanStages
  <2>4. Topmost' = Topmost
    BY <1>1, <2>1, TopIsElement
  <2>5. ASSUME wall # "ahead", NEW y \in C \ {Topmost}
        PROVE  was[y] = 0
    <3>1. r[y] < r[el.gen] /\ was[y] \in Nat
      BY <1>1, <1>4, <2>5, BanValues
    <3>2. CASE s.prev = NoBan
      BY <1>1, <1>3, <1>4, <2>5, <3>1, <3>2 DEF CoveredIsShorter, Prev
    <3>3. CASE s.prev # NoBan
      <4>1. was[s.prev] = 0
        BY <1>2, <1>5, <1>7, <2>5, <3>3
      <4>2. y = s.prev \/ r[y] < r[s.prev]
        BY <1>3, <1>5, <2>5, <3>1, <3>3 DEF Stack, Prev
      <4>3. r[y] < r[s.prev] => was[y] <= 0
        BY <1>3, <1>5, <2>5, <3>3, <4>1 DEF CoveredIsShorter
      <4> QED
        BY <3>1, <4>1, <4>2, <4>3
    <3> QED
      BY <3>2, <3>3
  <2>6. BansChained'
    BY <1>1, <1>3, <2>1, <2>4, <2>5, RowChanged DEF Ghostly, Stack, SavedIsExact, CoveredIsShorter, Prev
  <2>7. FoundIsThere' /\ ReadHasAged'
    BY <2>1 DEF FoundIsThere, ReadHasAged
  <2> QED
    BY <2>2, <2>3, <2>6, <2>7 DEF BanInv
<1> QED
  BY <1>6, <1>7 DEF Prev, n

(* The element is read: there is nothing to undo, or it is not this ban's. *)
LEMMA BanRollbackReadKeeps ==
  ASSUME BanInv, NEW readable \in BOOLEAN, B!RollbackRead(readable)
  PROVE  BanInv'
<1>0. PICK a \in BanActions : a = running.act
  BY DEF BanInv, RunningIsKnown, B!RollbackRead
<1> DEFINE s == bans[a].saved
<1>1. /\ running.pc = "undo" /\ running.act = a /\ Topmost = el.gen
      /\ bans[a].status \in {"applying", "applied", "failed"} /\ s # B!NoState
      /\ UNCHANGED <<el, was, flushed, wall>>
  BY <1>0, TopIsElement DEF BanInv, RunningIsKnown, B!RollbackRead, B!Keep
<1>2. CASE B!Refused(a)
  <2>1. (B!End(a, "applied", s) /\ bans[a].status = "applied") \/ B!End(a, "failed", s)
    BY <1>2 DEF B!Refused
  <2> QED
    BY <1>1, <2>1, EndKeeps
<1>3. CASE B!End(a, "rolled_back", s) /\ (B!Missing \/ el.gen = s.prev)
  <2>1. el.gen = NoBan \/ Prev(a) = Topmost
    BY <1>1, <1>3 DEF B!Missing, B!Absent, Prev
  <2> QED
    BY <1>1, <1>3, <2>1, EndKeeps
<1>4. CASE /\ B!Owns(a) /\ UNCHANGED bans
           /\ IF s.prev # NoBan /\ B!Restorable(s) > 0
                THEN running' = [running EXCEPT !.pc = "restore", !.left = B!Restorable(s), !.spent = 0]
                ELSE B!Goto("delete")
  <2>1. el.gen = B!Generation(a)
    BY <1>4 DEF B!Owns
  <2>2. B!Restorable(s) \in Int
    BY BanFields, BanValues DEF BanInv, B!Restorable
  <2>3. CASE s.prev # NoBan /\ B!Restorable(s) > 0
    BY <1>1, <1>4, <2>1, <2>3, RollbackGoesKeeps DEF Prev
  <2>4. CASE ~(s.prev # NoBan /\ B!Restorable(s) > 0)
    <3>1. Prev(a) = NoBan \/ B!Restorable(s) <= 0
      BY <2>2, <2>4 DEF Prev
    <3>2. B!Goto("delete")
      BY <1>4, <2>4
    <3> QED
      BY <1>1, <1>4, <2>1, <3>1, <3>2, RollbackGoesKeeps
  <2> QED
    BY <2>3, <2>4
<1>5. \/ B!Refused(a)
      \/ B!End(a, "rolled_back", s) /\ (B!Missing \/ el.gen = s.prev)
      \/ /\ B!Owns(a) /\ UNCHANGED bans
         /\ IF s.prev # NoBan /\ B!Restorable(s) > 0
              THEN running' = [running EXCEPT !.pc = "restore", !.left = B!Restorable(s), !.spent = 0]
              ELSE B!Goto("delete")
  <2>1. CASE ~readable
    BY <1>0, <2>1 DEF B!RollbackRead
  <2>2. CASE readable /\ B!Missing
    BY <1>0, <2>2 DEF B!RollbackRead
  <2>3. CASE readable /\ ~B!Missing /\ s.prev # NoBan /\ el.gen = s.prev
    BY <1>0, <2>3 DEF B!RollbackRead
  <2>4. CASE readable /\ ~B!Missing /\ ~(s.prev # NoBan /\ el.gen = s.prev)
    BY <1>0, <2>4 DEF B!RollbackRead
  <2> QED
    BY <2>1, <2>2, <2>3, <2>4
<1> QED
  BY <1>2, <1>3, <1>4, <1>5

(* The Helper stops in the middle of a command.                            *)
LEMMA HelperStopsKeeps ==
  ASSUME BanInv, B!HelperStops
  PROVE  BanInv'
<1>1. running.pc # "idle" /\ running.act \in BanActions
  BY DEF BanInv, RunningIsKnown, B!HelperStops
<1>2. UNCHANGED <<el, was, flushed, wall>>
  BY DEF B!HelperStops, B!Keep
<1>3. CASE bans[running.act].status = "applying"
  <2>1. B!End(running.act, "interrupted", B!NoState)
    BY <1>3 DEF B!HelperStops
  <2> QED
    BY <1>1, <1>2, <2>1, EndKeeps
<1>4. CASE bans[running.act].status # "applying"
  <2>1. B!End(running.act, "failed", bans[running.act].saved)
    BY <1>4 DEF B!HelperStops
  <2>2. bans[running.act].saved # B!NoState
    BY <1>1, <1>4, BanValues DEF BanInv, RunningIsKnown, BanStages
  <2> QED
    BY <1>1, <1>2, <2>1, <2>2, EndKeeps
<1> QED
  BY <1>3, <1>4

-----------------------------------------------------------------------------
(* The changes of the kernel.                                              *)

(* The element is replaced: what it was on is what it would have left.     *)
LEMMA InstallDoes ==
  ASSUME BanType, NEW g \in B!Generations, NEW left \in Nat, left > 0, B!Install(g, left)
  PROVE  /\ el' \in [gen : Generation, left : Nat] /\ el'.gen = g /\ el'.left = left
         /\ was' \in [B!Generations -> Nat] /\ was'[g] = 0 /\ Rem(g)' = left
         /\ \A h \in B!Generations : h # g => was'[h] = Rem(h) /\ Rem(h)' = Rem(h)
         /\ flushed' = flushed \ {g} /\ flushed' \subseteq B!Generations
         /\ ElementIsOwn'
<1>1. /\ el' = [gen |-> g, left |-> left]
      /\ was' = [h \in B!Generations |-> IF h = g THEN 0 ELSE IF h = el.gen THEN el.left ELSE was[h]]
      /\ flushed' = flushed \ {g}
  BY DEF B!Install
<1>2. el' \in [gen : Generation, left : Nat] /\ el'.gen = g /\ el'.left = left /\ g # NoBan
  BY <1>1, Bearers DEF Generation
<1>3. \A h \in B!Generations : was'[h] = IF h = g THEN 0 ELSE Rem(h)
  BY <1>1 DEF Rem
<1>4. \A h \in B!Generations : (IF h = g THEN 0 ELSE IF h = el.gen THEN el.left ELSE was[h]) \in Nat
  BY BanValues DEF Rem
<1>5. was' \in [B!Generations -> Nat]
  BY <1>1, <1>4
<1> QED
  BY <1>1, <1>2, <1>3, <1>5 DEF Rem, BanType, ElementIsOwn

(* Apply's command took effect: the ban is put on top of what it found.    *)
LEMMA InstallDoneKeeps ==
  ASSUME BanInv, NEW a \in BanActions, running.act = a, running.pc = "install",
         B!Install(a, bans[a].saved.ttl), NEW ok \in BOOLEAN,
         running' = [running EXCEPT !.pc = "observe", !.ok = ok],
         UNCHANGED <<bans, wall>>
  PROVE  BanInv'
<1> DEFINE s == bans[a].saved
<1>1. /\ BanType /\ ElementIsOwn /\ RunningIsKnown /\ ReadHasAged
      /\ a \in Named /\ B!Generation(a) = a /\ bans[a].status = "applying"
      /\ a \in B!Generations /\ s # B!NoState /\ s.ttl > 0 /\ Topmost = s.prev
  BY Bearers DEF BanInv, RunningIsKnown, Topmost, Prev
<1>2. /\ s.ttl \in Nat /\ s.left \in Nat /\ s.wall \in Int /\ s.prev \in Generation
      /\ running.spent \in Nat /\ running \in Running
  BY <1>1, BanFields, BanValues, BanAssumption DEF Prev, BanType
<1>3. /\ el' \in [gen : Generation, left : Nat] /\ el'.gen = a /\ el'.left = s.ttl
      /\ was' \in [B!Generations -> Nat] /\ was'[a] = 0 /\ Rem(a)' = s.ttl
      /\ \A h \in B!Generations : h # a => was'[h] = Rem(h) /\ Rem(h)' = Rem(h)
      /\ flushed' = flushed \ {a} /\ flushed' \subseteq B!Generations
      /\ ElementIsOwn'
  BY <1>1, <1>2, InstallDoes
<1>4. /\ running' \in Running /\ running'.pc = "observe" /\ running'.act = a
      /\ running'.spent = running.spent
  <2>1. ASSUME NEW x \in Running
        PROVE  /\ [x EXCEPT !.pc = "observe"] \in Running
               /\ [x EXCEPT !.pc = "observe"].act = x.act
               /\ [x EXCEPT !.pc = "observe"].pc = "observe"
               /\ [x EXCEPT !.pc = "observe"].spent = x.spent
    BY <2>1 DEF Running, BanStages
  <2>2. ASSUME NEW x \in Running
        PROVE  /\ [x EXCEPT !.ok = ok] \in Running /\ [x EXCEPT !.ok = ok].act = x.act
               /\ [x EXCEPT !.ok = ok].pc = x.pc /\ [x EXCEPT !.ok = ok].spent = x.spent
    BY <2>2 DEF Running
  <2> QED
    BY <1>2, <2>1, <2>2
<1>5. PICK C \in SUBSET B!Generations, r \in [B!Generations -> Int] :
        Stack(C, r) /\ SavedIsExact(C) /\ CoveredIsShorter(C, r)
  BY DEF BanInv, BansChained
<1>6. /\ s.prev = NoBan => C = {}
      /\ s.prev # NoBan => s.prev \in C /\ \A x \in C : x = s.prev \/ r[x] < r[s.prev]
      /\ el.gen \in {s.prev, NoBan}
  BY <1>1, <1>5 DEF Stack, BanInv, FoundIsThere
<1>7. a \notin C /\ s.prev # a
  <2>1. a \in C => s.prev # NoBan /\ r[s.prev] < r[a] /\ s.prev \in C
    BY <1>1, <1>5, <1>6 DEF Stack, Prev
  <2>2. r[a] \in Int /\ (s.prev \in C => r[s.prev] \in Int)
    BY <1>1
  <2> QED
    BY <1>1, <1>6, <2>1, <2>2, Bearers
<1>8. \A g \in B!Generations : g # s.prev => Rem(g) = was[g]
  BY <1>6, Bearers DEF Rem
<1>9. PICK E \in SUBSET B!Generations, q \in [B!Generations -> Int] :
        /\ E = C \cup {a}
        /\ q = [r EXCEPT ![a] = IF s.prev = NoBan THEN 0 ELSE r[s.prev] + 1]
  <2>1. s.prev # NoBan => r[s.prev] \in Int
    BY <1>6
  <2>2. /\ C \cup {a} \in SUBSET B!Generations
        /\ [r EXCEPT ![a] = IF s.prev = NoBan THEN 0 ELSE r[s.prev] + 1] \in [B!Generations -> Int]
    BY <1>1, <2>1
  <2> QED
    BY <2>2
<1>10. /\ \A x \in C : q[x] = r[x] /\ q[x] < q[a]
       /\ \A x \in E : q[x] \in Int
  <2>1. \A x \in C : x # a /\ q[x] = r[x] /\ r[x] \in Int
    BY <1>7, <1>9
  <2>2. \A x \in C : s.prev # NoBan /\ s.prev \in C /\ (x = s.prev \/ r[x] < r[s.prev])
    BY <1>6
  <2>3. s.prev # NoBan => q[a] = r[s.prev] + 1
    BY <1>1, <1>9
  <2>4. \A x \in C : r[x] < q[a]
    BY <2>1, <2>2, <2>3
  <2> QED
    BY <1>9, <2>1, <2>4
<1>11. \A x, y \in E : q[x] < q[y] => x \in C /\ (y \in C => r[x] < r[y])
  <2>1. TAKE x, y \in E
  <2>2. CASE x = a
    <3>1. y = a \/ q[y] < q[a]
      BY <1>9, <1>10
    <3> QED
      BY <1>10, <2>2, <3>1
  <2>3. CASE x # a
    BY <1>9, <1>10, <2>3
  <2> QED
    BY <2>2, <2>3
<1>12. \A x, y \in C : r[x] < r[y] => x # s.prev /\ was'[x] = was[x]
  <2>1. TAKE x, y \in C
  <2>2. HAVE r[x] < r[y]
  <2>3. r[x] \in Int /\ r[y] \in Int /\ s.prev \in C /\ r[s.prev] \in Int
    BY <1>6
  <2>4. x # s.prev
    BY <1>6, <2>2, <2>3
  <2> QED
    BY <1>3, <1>7, <1>8, <2>4
<1>13. Topmost' = a
  BY <1>3, <1>4, TopIsElement
<1>14. Stack(E, q)'
  <2>1. ASSUME NEW b \in E \cap Named, Prev(b) # NoBan
        PROVE  /\ Prev(b) \in E /\ q[Prev(b)] < q[b]
               /\ \A y \in E : q[y] < q[b] => y = Prev(b) \/ q[y] < q[Prev(b)]
    <3>1. CASE b = a
      <4>1. Prev(b) = s.prev /\ s.prev \in C
        BY <1>6, <2>1, <3>1 DEF Prev
      <4>2. \A y \in E : q[y] < q[a] => y \in C
        BY <1>9, <1>11
      <4> QED
        BY <1>6, <1>9, <1>10, <3>1, <4>1, <4>2
    <3>2. CASE b # a
      <4>1. b \in C /\ Prev(b) \in C /\ r[Prev(b)] < r[b]
            /\ \A y \in C : r[y] < r[b] => y = Prev(b) \/ r[y] < r[Prev(b)]
        BY <1>5, <1>9, <2>1, <3>2 DEF Stack
      <4>2. \A y \in E : q[y] < q[b] => y \in C /\ r[y] < r[b]
        BY <1>11, <4>1
      <4> QED
        BY <1>9, <1>10, <4>1, <4>2
    <3> QED
      BY <3>1, <3>2
  <2>2. \A b \in BanActions : Ghostly(b) => B!Generation(b) \notin E
    BY <1>1, <1>5, <1>9, Bearers DEF Stack, Ghostly
  <2>3. a # NoBan /\ \A x \in E \ {a} : q[x] < q[a]
    BY <1>1, <1>9, <1>10, Bearers
  <2>4. \A b \in BanActions : Prev(b)' = Prev(b) /\ (Ghostly(b)' <=> Ghostly(b))
    BY DEF Prev, Ghostly
  <2> QED
    BY <1>9, <1>13, <2>1, <2>2, <2>3, <2>4 DEF Stack, Named
<1>15. SavedIsExact(E)'
  <2>1. SUFFICES ASSUME NEW b \in E \cap Named, Prev(b) # NoBan
                 PROVE  /\ bans[b].saved.wall <= was'[Prev(b)] + Late
                        /\ wall # "ahead" /\ was'[Prev(b)] > 0 =>
                             /\ was'[Prev(b)] <= bans[b].saved.wall
                             /\ was'[Prev(b)] <= bans[b].saved.left - bans[b].saved.ttl + Rem(b)'
    <3>1. Late' = Late /\ \A b \in BanActions : Prev(b)' = Prev(b)
      BY DEF Late, Prev
    <3> QED
      BY <2>1, <3>1 DEF SavedIsExact, Named
  <2>2. CASE b = a
    <3>1. /\ Prev(b) = s.prev /\ s.prev \in B!Generations
          /\ was'[s.prev] = Rem(s.prev) /\ Rem(s.prev) \in Nat
      BY <1>1, <1>3, <1>6, <1>7, <2>1, <2>2, BanValues DEF Prev
    <3>2. /\ Rem(s.prev) = 0 \/ Rem(s.prev) + running.spent <= s.left
          /\ s.wall <= Rem(s.prev) + Late
          /\ wall # "ahead" => Rem(s.prev) = 0 \/ Rem(s.prev) <= s.wall
      BY <1>1, <2>1, <2>2, <3>1 DEF ReadHasAged
    <3> QED
      BY <1>2, <1>3, <2>2, <3>1, <3>2
  <2>3. CASE b # a
    <3>1. b \in C /\ Prev(b) \in C /\ r[Prev(b)] < r[b] /\ b \in B!Generations
      BY <1>5, <1>9, <2>1, <2>3 DEF Stack
    <3>2. was'[Prev(b)] = was[Prev(b)] /\ Rem(b)' = Rem(b)
      BY <1>3, <1>12, <2>3, <3>1
    <3> QED
      BY <1>5, <2>1, <3>1, <3>2 DEF SavedIsExact
  <2> QED
    BY <2>2, <2>3
<1>16. CoveredIsShorter(E, q)'
  <2>1. SUFFICES ASSUME wall # "ahead"
                 PROVE  /\ \A x, y \in E : q[x] < q[y] => was'[x] <= Rem(y)'
                        /\ \A b \in BanActions :
                             /\ bans[b].saved # B!NoState /\ Prev(b) = NoBan /\ B!Generation(b) \in E =>
                                  \A y \in E : q[y] < q[B!Generation(b)] => was'[y] = 0
                             /\ bans[b].status = "applied" /\ B!Generation(b) \notin flushed' \cup E =>
                                  was'[B!Generation(b)] = 0
    BY <1>4 DEF CoveredIsShorter, Prev
  <2>2. ASSUME NEW x \in E, NEW y \in E, q[x] < q[y]
        PROVE  was'[x] <= Rem(y)'
    <3>1. x \in C /\ x \in B!Generations /\ x # a
      BY <1>7, <1>11, <2>2
    <3>2. CASE y = a
      <4>1. s.prev # NoBan /\ s.prev \in C /\ Rem(s.prev) <= s.ttl
        BY <1>1, <1>6, <3>1 DEF ReadHasAged
      <4>2. was'[x] = Rem(x) /\ (x # s.prev => Rem(x) = was[x] /\ was[x] <= Rem(s.prev))
        BY <1>3, <1>5, <1>6, <1>8, <2>1, <3>1, <4>1 DEF CoveredIsShorter
      <4>3. Rem(x) \in Nat /\ Rem(s.prev) \in Nat
        BY <1>1, <3>1, <4>1, BanValues
      <4> QED
        BY <1>2, <1>3, <3>2, <4>1, <4>2, <4>3
    <3>3. CASE y # a
      <4>1. y \in C /\ r[x] < r[y]
        BY <1>9, <1>11, <2>2, <3>3
      <4> QED
        BY <1>3, <1>5, <1>12, <2>1, <3>1, <3>3, <4>1 DEF CoveredIsShorter
    <3> QED
      BY <3>2, <3>3
  <2>3. ASSUME NEW b \in BanActions, bans[b].saved # B!NoState, Prev(b) = NoBan,
               B!Generation(b) \in E, NEW y \in E, q[y] < q[B!Generation(b)]
        PROVE  was'[y] = 0
    <3>1. y \in C
      BY <1>11, <2>3
    <3>2. CASE B!Generation(b) = a
      <4>1. b = a
        BY <1>1, <3>2, Bearers
      <4> QED
        BY <1>6, <2>3, <3>1, <4>1 DEF Prev
    <3>3. CASE B!Generation(b) # a
      <4>1. B!Generation(b) \in C /\ r[y] < r[B!Generation(b)]
        BY <1>9, <1>11, <2>3, <3>3
      <4> QED
        BY <1>5, <1>12, <2>1, <2>3, <3>1, <4>1 DEF CoveredIsShorter
    <3> QED
      BY <3>2, <3>3
  <2>4. ASSUME NEW b \in BanActions, bans[b].status = "applied",
               B!Generation(b) \notin flushed' \cup E
        PROVE  was'[B!Generation(b)] = 0
    <3>1. /\ B!Generation(b) \in B!Generations /\ B!Generation(b) # a
          /\ B!Generation(b) \notin flushed \cup C /\ B!Generation(b) # s.prev
      BY <1>3, <1>6, <1>9, <2>4, Bearers
    <3> QED
      BY <1>3, <1>5, <1>8, <2>1, <2>4, <3>1 DEF CoveredIsShorter
  <2> QED
    BY <2>2, <2>3, <2>4
<1>17. BanType'
  BY <1>1, <1>3, <1>4 DEF BanType
<1>18. RunningIsKnown'
  BY <1>1, <1>4 DEF RunningIsKnown, Prev
<1>19. BansChained'
  BY <1>9, <1>14, <1>15, <1>16 DEF BansChained
<1>20. FoundIsThere'
  BY <1>2, <1>3, <1>4 DEF FoundIsThere
<1>21. ReadHasAged'
  <2>1. s.prev # NoBan => Rem(s.prev)' = Rem(s.prev)
    BY <1>3, <1>6, <1>7
  <2>2. s.prev # NoBan => Rem(s.prev) = 0 \/ Rem(s.prev) + running.spent <= s.left
    BY <1>1 DEF ReadHasAged
  <2> QED
    BY <1>4, <2>1, <2>2 DEF ReadHasAged
<1> QED
  BY <1>3, <1>17, <1>18, <1>19, <1>20, <1>21 DEF BanInv

(* Apply's command took effect or did not, whatever it reports.            *)
LEMMA ApplyInstallKeeps ==
  ASSUME BanInv, NEW done \in BOOLEAN, NEW ok \in BOOLEAN, B!ApplyInstall(done, ok)
  PROVE  BanInv'
<1>1. PICK a \in BanActions : a = running.act
  BY DEF BanInv, RunningIsKnown, B!ApplyInstall
<1>2. /\ running.pc = "install" /\ UNCHANGED <<bans, wall>>
      /\ running' = [running EXCEPT !.pc = "observe", !.ok = ok]
  BY DEF B!ApplyInstall
<1>3. CASE done
  <2>1. B!Install(a, bans[a].saved.ttl)
    BY <1>1, <1>3 DEF B!ApplyInstall
  <2> QED
    BY <1>1, <1>2, <2>1, InstallDoneKeeps
<1>4. CASE ~done
  <2>1. UNCHANGED <<el, was, flushed>>
    BY <1>4 DEF B!ApplyInstall, B!Keep
  <2>2. /\ BanType /\ ElementIsOwn /\ RunningIsKnown /\ running \in Running
        /\ bans[a].status = "applying" /\ Topmost = Prev(a)
    BY <1>1, <1>2 DEF BanInv, BanType, RunningIsKnown, Topmost
  <2>3. /\ running' \in Running /\ running'.pc = "observe" /\ running'.act = a
        /\ running'.spent = running.spent
    <3>1. ASSUME NEW x \in Running
          PROVE  /\ [x EXCEPT !.pc = "observe"] \in Running
                 /\ [x EXCEPT !.pc = "observe"].act = x.act
                 /\ [x EXCEPT !.pc = "observe"].pc = "observe"
                 /\ [x EXCEPT !.pc = "observe"].spent = x.spent
      BY <3>1 DEF Running, BanStages
    <3>2. ASSUME NEW x \in Running
          PROVE  /\ [x EXCEPT !.ok = ok] \in Running /\ [x EXCEPT !.ok = ok].act = x.act
                 /\ [x EXCEPT !.ok = ok].pc = x.pc /\ [x EXCEPT !.ok = ok].spent = x.spent
      BY <3>2 DEF Running
    <3> QED
      BY <1>1, <1>2, <2>2, <3>1, <3>2
  <2>4. BanType' /\ ElementIsOwn'
    BY <1>2, <2>1, <2>2, <2>3 DEF BanType, ElementIsOwn
  <2>5. RunningIsKnown'
    BY <1>1, <1>2, <2>2, <2>3 DEF RunningIsKnown, Prev
  <2>6. BansChained'
    BY <1>2, <2>1, <2>3, RowQuiet DEF Ghostly
  <2>7. a # el.gen
    <3>1. PICK C \in SUBSET B!Generations, r \in [B!Generations -> Int] : Stack(C, r)
      BY DEF BanInv, BansChained
    <3>2. a \in Named /\ a \in B!Generations
      BY <2>2, Bearers DEF RunningIsKnown
    <3>3. el.gen \in {Prev(a), NoBan}
      BY <1>2, <2>2 DEF BanInv, FoundIsThere
    <3>4. Prev(a) = a => a \in C /\ r[a] < r[a]
      BY <2>2, <3>1, <3>2, Bearers DEF Stack
    <3>5. ~(r[a] < r[a])
      BY <3>2
    <3> QED
      BY <3>2, <3>3, <3>4, <3>5, Bearers
  <2>8. FoundIsThere'
    <3>1. el.gen \in {Prev(a), NoBan}
      BY <1>2, <2>2 DEF BanInv, FoundIsThere
    <3> QED
      BY <1>2, <2>1, <2>3, <2>7, <3>1 DEF FoundIsThere, Prev
  <2>9. ReadHasAged'
    <3>1. \A g : Rem(g)' = Rem(g)
      BY <2>1 DEF Rem
    <3> QED
      BY <1>1, <1>2, <2>3, <3>1 DEF BanInv, ReadHasAged
  <2> QED
    BY <2>4, <2>5, <2>6, <2>8, <2>9 DEF BanInv
<1> QED
  BY <1>3, <1>4

(* The rollback's command took effect: the ban is off the stack, and what  *)
(* was beneath it is on top.                                               *)
LEMMA RestoreDoneKeeps ==
  ASSUME BanInv, NEW a \in BanActions, running.act = a, running.pc = "restore",
         NEW p \in B!Generations, Prev(a) = p, B!Install(p, running.left),
         NEW status \in {"rolled_back", "failed"},
         B!End(a, status, bans[a].saved), wall' = wall
  PROVE  BanInv'
<1>1. /\ BanType /\ ElementIsOwn /\ RunningIsKnown /\ ReadHasAged
      /\ p # NoBan /\ p \in B!Generations
      /\ a \in Named /\ B!Generation(a) = a /\ a \in B!Generations
      /\ bans[a].saved \in SavedBans /\ bans[a].saved # B!NoState
      /\ Topmost = a /\ a # NoBan
  BY BanFields, Bearers DEF BanInv, RunningIsKnown, Topmost, Generation
<1>2. running.left \in Nat /\ running.left > 0
  BY <1>1, BanValues DEF ReadHasAged
<1>3. /\ el' \in [gen : Generation, left : Nat] /\ el'.gen = p /\ el'.left = running.left
      /\ was' \in [B!Generations -> Nat] /\ was'[p] = 0 /\ Rem(p)' = running.left
      /\ \A h \in B!Generations : h # p => was'[h] = Rem(h) /\ Rem(h)' = Rem(h)
      /\ flushed' = flushed \ {p} /\ flushed' \subseteq B!Generations
      /\ ElementIsOwn'
  BY <1>1, <1>2, InstallDoes
<1>4. /\ running' = B!Idle /\ running'.pc = "idle"
      /\ bans' \in [BanActions -> BanRow]
      /\ bans'[a].status = status
      /\ \A b \in BanActions \ {a} : bans'[b] = bans[b]
  BY <1>1, BanEnds DEF BanStatus
<1>5. PICK C \in SUBSET B!Generations, r \in [B!Generations -> Int] :
        Stack(C, r) /\ SavedIsExact(C) /\ CoveredIsShorter(C, r)
  BY DEF BanInv, BansChained
<1>6. /\ a \in C /\ \A x \in C \ {a} : r[x] < r[a]
      /\ p \in C /\ r[p] < r[a] /\ p # a
      /\ \A x \in C \ {a} : x = p \/ r[x] < r[p]
  <2>1. a \in C /\ \A x \in C \ {a} : r[x] < r[a]
    BY <1>1, <1>5 DEF Stack
  <2>2. p \in C /\ r[p] < r[a] /\ \A x \in C : r[x] < r[a] => x = p \/ r[x] < r[p]
    BY <1>1, <1>5, <2>1 DEF Stack
  <2>3. r[a] \in Int
    BY <1>1
  <2> QED
    BY <2>1, <2>2, <2>3
<1>7. \A g \in B!Generations : g # a => Rem(g) = was[g]
  BY <1>1, Bearers DEF BanInv, FoundIsThere, Rem
<1>8. PICK E \in SUBSET B!Generations : E = C \ {a}
  OBVIOUS
<1>9. \A x, y \in E : r[x] < r[y] => x # p /\ was'[x] = was[x]
  <2>1. TAKE x, y \in E
  <2>2. HAVE r[x] < r[y]
  <2>3. r[x] \in Int /\ r[y] \in Int /\ r[p] \in Int
    BY <1>6
  <2>4. x # p
    BY <1>6, <1>8, <2>2, <2>3
  <2> QED
    BY <1>3, <1>7, <1>8, <2>4
<1>10. ASSUME NEW b \in E \cap Named, Prev(b)' # NoBan
       PROVE  /\ b # a /\ b \in BanActions /\ bans'[b] = bans[b] /\ Prev(b)' = Prev(b)
              /\ Prev(b) \in E /\ r[Prev(b)] < r[b]
              /\ \A y \in C : r[y] < r[b] => y = Prev(b) \/ r[y] < r[Prev(b)]
  <2>1. b # a /\ b \in BanActions /\ bans'[b] = bans[b] /\ Prev(b)' = Prev(b)
    BY <1>4, <1>8, <1>10 DEF Prev, Named
  <2>2. /\ Prev(b) \in C /\ r[Prev(b)] < r[b] /\ r[b] < r[a]
        /\ \A y \in C : r[y] < r[b] => y = Prev(b) \/ r[y] < r[Prev(b)]
    BY <1>5, <1>6, <1>8, <1>10, <2>1 DEF Stack
  <2>3. r[b] \in Int /\ r[a] \in Int
    BY <1>1
  <2> QED
    BY <1>8, <2>1, <2>2, <2>3
<1>11. Stack(E, r)'
  <2>1. Topmost' = p
    BY <1>3, <1>4, TopIsElement
  <2>2. ASSUME NEW b \in BanActions, Ghostly(b)'
        PROVE  B!Generation(b) \notin E
    <3>1. CASE b = a
      BY <1>1, <1>8, <3>1
    <3>2. CASE b # a
      BY <1>4, <1>5, <1>8, <2>2, <3>2 DEF Stack, Ghostly
    <3> QED
      BY <3>1, <3>2
  <2>3. p # NoBan /\ p \in E /\ \A x \in E \ {p} : r[x] < r[p]
    BY <1>1, <1>6, <1>8
  <2> QED
    BY <1>8, <1>10, <2>1, <2>2, <2>3 DEF Stack
<1>12. Late' = Late
  BY DEF Late
<1>13. wall # "ahead" => \A y \in E : Rem(y) <= Rem(y)' /\ Rem(y) \in Nat /\ Rem(y)' \in Int
  <2>1. p \in E /\ Rem(p) = was[p] /\ (wall # "ahead" => was[p] <= running.left)
    BY <1>1, <1>6, <1>7, <1>8 DEF ReadHasAged, Prev
  <2>2. ASSUME NEW y \in E
        PROVE  Rem(y) \in Nat /\ (y # p => Rem(y)' = Rem(y))
    BY <1>1, <1>3, BanValues
  <2> QED
    BY <1>2, <1>3, <2>1, <2>2
<1>14. SavedIsExact(E)'
  <2>1. SUFFICES ASSUME NEW b \in E \cap Named, Prev(b)' # NoBan
                 PROVE  /\ bans[b].saved.wall <= was[Prev(b)] + Late
                        /\ wall # "ahead" /\ was[Prev(b)] > 0 =>
                             /\ was[Prev(b)] <= bans[b].saved.wall
                             /\ was[Prev(b)] <= bans[b].saved.left - bans[b].saved.ttl + Rem(b)'
    <3>1. ASSUME NEW b \in E \cap Named, Prev(b)' # NoBan
          PROVE  bans'[b] = bans[b] /\ Prev(b)' = Prev(b) /\ was'[Prev(b)] = was[Prev(b)]
      BY <1>9, <1>10, <3>1
    <3> QED
      BY <1>8, <1>12, <2>1, <3>1 DEF SavedIsExact
  <2>2. b \in C \cap Named /\ b \in BanActions /\ Prev(b) # NoBan
    BY <1>8, <1>10, <2>1
  <2>3. /\ bans[b].saved.wall <= was[Prev(b)] + Late
        /\ wall # "ahead" /\ was[Prev(b)] > 0 =>
             /\ was[Prev(b)] <= bans[b].saved.wall
             /\ was[Prev(b)] <= bans[b].saved.left - bans[b].saved.ttl + Rem(b)
    BY <1>5, <2>2 DEF SavedIsExact
  <2>4. /\ bans[b].saved.left \in Nat /\ bans[b].saved.ttl \in Nat /\ Prev(b) \in B!Generations
        /\ was[Prev(b)] \in Nat
    BY <1>1, <1>10, <2>1, <2>2, BanFields, BanValues
  <2> QED
    BY <1>13, <2>1, <2>3, <2>4
<1>15. CoveredIsShorter(E, r)'
  <2>1. CASE wall = "ahead"
    BY <2>1 DEF CoveredIsShorter
  <2>2. CASE wall # "ahead"
    <3>1. ASSUME NEW x \in E, NEW y \in E, r[x] < r[y]
          PROVE  was'[x] <= Rem(y)'
      <4>1. was[x] <= Rem(y) /\ was[x] \in Nat
        BY <1>1, <1>5, <1>8, <2>2, <3>1, BanValues DEF CoveredIsShorter
      <4> QED
        BY <1>9, <1>13, <2>2, <3>1, <4>1
    <3>2. ASSUME NEW b \in BanActions, bans'[b].saved # B!NoState, Prev(b)' = NoBan,
                 B!Generation(b) \in E, NEW y \in E, r[y] < r[B!Generation(b)]
          PROVE  was'[y] = 0
      <4>1. b # a
        BY <1>1, <1>8, <3>2
      <4>2. bans[b].saved # B!NoState /\ Prev(b) = NoBan
        BY <1>4, <3>2, <4>1 DEF Prev
      <4>3. was[y] = 0
        BY <1>5, <1>8, <2>2, <3>2, <4>2 DEF CoveredIsShorter
      <4> QED
        BY <1>9, <3>2, <4>3
    <3>3. ASSUME NEW b \in BanActions, bans'[b].status = "applied",
                 B!Generation(b) \notin flushed' \cup E
          PROVE  was'[B!Generation(b)] = 0
      <4>1. b # a /\ bans[b].status = "applied"
        BY <1>4, <3>3
      <4>2. /\ B!Generation(b) # a /\ B!Generation(b) # p /\ B!Generation(b) \in B!Generations
            /\ B!Generation(b) \notin flushed \cup C
        BY <1>1, <1>3, <1>6, <1>8, <3>3, <4>1, Bearers
      <4> QED
        BY <1>3, <1>5, <1>7, <2>2, <4>1, <4>2 DEF CoveredIsShorter
    <3> QED
      BY <1>4, <1>8, <3>1, <3>2, <3>3 DEF CoveredIsShorter
  <2> QED
    BY <2>1, <2>2
<1>16. BanType'
  BY <1>1, <1>3, <1>4, BanNothing DEF BanType
<1>17. RunningIsKnown'
  <2>1. /\ bans[a].saved = B!NoState \/ bans[a].saved.ttl > 0
    BY <1>1 DEF RunningIsKnown
  <2> QED
    BY <1>1, <2>1, EndIsKnown
<1>18. BansChained'
  BY <1>11, <1>14, <1>15 DEF BansChained
<1> QED
  BY <1>3, <1>4, <1>16, <1>17, <1>18, NotMidway DEF BanInv

(* The rollback's command took effect or did not, whatever it reports.     *)
LEMMA RestoreKeeps ==
  ASSUME BanInv, NEW done \in BOOLEAN, NEW ok \in BOOLEAN, B!Restore(done, ok)
  PROVE  BanInv'
<1>1. PICK a \in BanActions : a = running.act
  BY DEF BanInv, RunningIsKnown, B!Restore
<1>2. PICK status \in {"rolled_back", "failed"} :
        B!End(a, status, bans[a].saved) /\ (status = "rolled_back" => done)
  BY <1>1 DEF B!Restore
<1>3. running.pc = "restore" /\ wall' = wall /\ bans[a].saved # B!NoState
  BY <1>1 DEF B!Restore, BanInv, RunningIsKnown
<1>4. CASE done
  <2>1. PICK p \in B!Generations : p = Prev(a)
    BY <1>1, <1>3, BanFields DEF BanInv, RunningIsKnown, Generation
  <2>2. B!Install(p, running.left)
    BY <1>1, <1>4, <2>1 DEF B!Restore, Prev
  <2> QED
    BY <1>1, <1>2, <1>3, <2>1, <2>2, RestoreDoneKeeps
<1>5. CASE ~done
  <2>1. UNCHANGED <<el, was, flushed>> /\ status = "failed"
    BY <1>2, <1>5 DEF B!Restore, B!Keep
  <2> QED
    BY <1>1, <1>2, <1>3, <2>1, EndKeeps
<1> QED
  BY <1>4, <1>5

(* The ban is deleted, or not, or found gone; nothing beneath it has time  *)
(* left.                                                                   *)
LEMMA DeleteKeeps ==
  ASSUME BanInv, NEW done \in BOOLEAN, NEW ok \in BOOLEAN, NEW readable \in BOOLEAN,
         B!Delete(done, ok, readable)
  PROVE  BanInv'
<1>1. PICK a \in BanActions : a = running.act
  BY DEF BanInv, RunningIsKnown, B!Delete
<1>2. PICK status \in {"rolled_back", "failed"} :
        /\ B!End(a, status, bans[a].saved)
        /\ status = "rolled_back" => done \/ el' = B!Absent
  BY <1>1 DEF B!Delete, B!Gone
<1>3. /\ BanType /\ ElementIsOwn /\ RunningIsKnown
      /\ running.pc = "delete" /\ wall' = wall /\ flushed' = flushed
      /\ bans[a].saved # B!NoState /\ bans[a].saved \in SavedBans
      /\ bans[a].saved = B!NoState \/ bans[a].saved.ttl > 0
      /\ bans[a].saved.prev # NoBan => a \in Named
  BY <1>1, BanFields DEF BanInv, B!Delete, RunningIsKnown, Prev
<1>4. CASE ~done
  <2>1. UNCHANGED <<el, was>>
    BY <1>4 DEF B!Delete
  <2>2. status = "rolled_back" => el.gen = NoBan
    BY <1>2, <1>4, <2>1 DEF B!Absent
  <2> QED
    BY <1>1, <1>2, <1>3, <2>1, <2>2, EndKeeps
<1>5. CASE done
  <2>1. el.gen = B!Generation(a) /\ el.gen \in B!Generations
    <3>1. el \in [gen : Generation, left : Nat] /\ el # [gen |-> NoBan, left |-> 0]
      BY <1>3, <1>5 DEF BanType, B!Delete, B!Missing, B!Absent
    <3>2. el.gen # NoBan
      BY <1>3, <3>1 DEF ElementIsOwn
    <3> QED
      BY <1>1, <1>3, <3>2, Bearers DEF BanInv, FoundIsThere
  <2>2. el' = B!Absent /\ was' = [was EXCEPT ![el.gen] = 0]
    BY <1>1, <1>5, <2>1 DEF B!Delete
  <2>3. was' \in [B!Generations -> Nat] /\ \A g \in B!Generations : was'[g] = was[g]
    BY <1>3, <2>1, <2>2, Bearers DEF BanType, ElementIsOwn
  <2>4. /\ running' = B!Idle /\ running'.pc = "idle"
        /\ bans' \in [BanActions -> BanRow]
        /\ bans'[a].status = status
        /\ \A b \in BanActions \ {a} : bans'[b] = bans[b]
    BY <1>2, <1>3, BanEnds DEF BanStatus
  <2>5. el'.gen = NoBan /\ el'.left = 0 /\ el' \in [gen : Generation, left : Nat]
    BY <2>2 DEF B!Absent, Generation
  <2>6. BanType' /\ ElementIsOwn'
    BY <1>3, <2>3, <2>4, <2>5, BanNothing DEF BanType, ElementIsOwn
  <2>7. RunningIsKnown'
    BY <1>1, <1>2, <1>3, EndIsKnown
  <2>8. ASSUME wall' # "ahead", NEW b \in BanActions, bans'[b].status = "applied",
               B!Generation(b) \notin flushed'
        PROVE  was'[B!Generation(b)] = 0
    <3>1. /\ b # a /\ bans[b].status = "applied" /\ B!Generation(b) # el.gen
          /\ B!Generation(b) \in B!Generations
      BY <2>1, <2>4, <2>8, Bearers
    <3>2. PICK C \in SUBSET B!Generations, r \in [B!Generations -> Int] : CoveredIsShorter(C, r)
      BY DEF BanInv, BansChained
    <3>3. Topmost = el.gen
      BY <1>3, TopIsElement
    <3> QED
      BY <1>3, <2>3, <2>8, <3>1, <3>2, <3>3 DEF CoveredIsShorter
  <2>9. BansChained'
    BY <2>4, <2>5, <2>8, TopIsElement, EmptyStack
  <2> QED
    BY <2>4, <2>6, <2>7, <2>9, NotMidway DEF BanInv
<1> QED
  BY <1>4, <1>5

-----------------------------------------------------------------------------
(* The host.                                                               *)

(* Only what is kept by the wall clock changes of what is saved.           *)
LEMMA OnWallDoes ==
  ASSUME BanType, RunningIsKnown, NEW left \in [BanActions -> Int], B!OnWall(left)
  PROVE  /\ bans' \in [BanActions -> BanRow]
         /\ \A a \in BanActions :
              /\ bans'[a].status = bans[a].status /\ Prev(a)' = Prev(a)
              /\ bans'[a].saved.ttl = bans[a].saved.ttl /\ bans'[a].saved.left = bans[a].saved.left
              /\ Prev(a) # NoBan => bans'[a].saved.wall = left[a]
              /\ bans'[a].saved = B!NoState <=> bans[a].saved = B!NoState
              /\ Ghostly(a)' <=> Ghostly(a)
<1>1. ASSUME NEW a \in BanActions
      PROVE  /\ bans'[a] \in BanRow /\ bans'[a].status = bans[a].status /\ Prev(a)' = Prev(a)
             /\ bans'[a].saved.ttl = bans[a].saved.ttl /\ bans'[a].saved.left = bans[a].saved.left
             /\ Prev(a) # NoBan => bans'[a].saved.wall = left[a]
             /\ bans'[a].saved = B!NoState <=> bans[a].saved = B!NoState
  <2>1. bans[a] \in BanRow /\ bans[a].saved \in SavedBans /\ left[a] \in Int
    BY BanFields
  <2>2. CASE B!HasWall(a)
    <3>1. bans'[a] = [bans[a] EXCEPT !.saved.wall = left[a]]
      BY <2>2 DEF B!OnWall
    <3>2. /\ [bans[a].saved EXCEPT !.wall = left[a]] \in SavedBans
          /\ [bans[a].saved EXCEPT !.wall = left[a]].ttl = bans[a].saved.ttl
          /\ [bans[a].saved EXCEPT !.wall = left[a]].prev = bans[a].saved.prev
          /\ [bans[a].saved EXCEPT !.wall = left[a]].left = bans[a].saved.left
          /\ [bans[a].saved EXCEPT !.wall = left[a]].wall = left[a]
      BY <2>1 DEF SavedBans
    <3>3. /\ bans'[a] \in BanRow /\ bans'[a].status = bans[a].status
          /\ bans'[a].saved = [bans[a].saved EXCEPT !.wall = left[a]]
      BY <2>1, <3>1, <3>2 DEF BanRow
    <3>4. bans[a].saved # B!NoState /\ bans'[a].saved # B!NoState
      <4>1. CASE bans[a].saved.prev # NoBan
        BY <3>2, <3>3, <4>1, BanNothing
      <4>2. CASE bans[a].saved # B!NoState
        <5>1. bans[a].saved.ttl > 0
          BY <4>2 DEF RunningIsKnown
        <5>2. bans'[a].saved.ttl = bans[a].saved.ttl
          BY <3>2, <3>3
        <5>3. bans'[a].saved.ttl # 0
          BY <5>1, <5>2
        <5> QED
          BY <4>2, <5>3, BanNothing
      <4> QED
        BY <2>2, <4>1, <4>2 DEF B!HasWall
    <3> QED
      BY <3>2, <3>3, <3>4 DEF Prev
  <2>3. CASE ~B!HasWall(a)
    <3>1. bans'[a] = bans[a] /\ Prev(a) = NoBan
      BY <2>3 DEF B!OnWall, B!HasWall, Prev
    <3> QED
      BY <2>1, <3>1 DEF Prev
  <2> QED
    BY <2>2, <2>3
<1>2. DOMAIN bans' = BanActions /\ bans' = [a \in BanActions |-> bans'[a]]
  BY DEF B!OnWall
<1> QED
  BY <1>1, <1>2 DEF Ghostly

(* What is known of the rows does not depend on the time.                  *)
LEMMA TimeIsKnown ==
  ASSUME RunningIsKnown, running'.pc = running.pc, running'.act = running.act,
         running = B!Idle => running' = B!Idle,
         \A a \in BanActions :
           /\ bans'[a].status = bans[a].status /\ Prev(a)' = Prev(a)
           /\ bans'[a].saved.ttl = bans[a].saved.ttl
           /\ bans'[a].saved = B!NoState <=> bans[a].saved = B!NoState
  PROVE  RunningIsKnown'
<1>1. /\ running'.pc = "idle" => running' = B!Idle
      /\ running'.pc # "idle" => running'.act \in BanActions
      /\ running'.pc \in {"install", "observe", "verify"} => bans'[running'.act].status = "applying"
  BY DEF RunningIsKnown
<1>2. /\ running'.pc \in {"undo", "restore", "delete"} =>
           /\ bans'[running'.act].status \in {"applying", "applied", "failed"}
           /\ bans'[running'.act].saved # B!NoState
      /\ running'.pc = "restore" => bans'[running'.act].saved.prev # NoBan
  BY DEF RunningIsKnown, Prev
<1>3. \A a \in BanActions :
       /\ bans'[a].status = "applying" => running'.act = a /\ bans'[a].saved # B!NoState
       /\ bans'[a].status \in {"new", "applying"} \/ bans'[a].saved.prev # NoBan => a \in Named
       /\ bans'[a].status \in {"new", "rolled_back", "interrupted"} => bans'[a].saved = B!NoState
       /\ bans'[a].saved = B!NoState \/ bans'[a].saved.ttl > 0
  BY DEF RunningIsKnown, Prev
<1> QED
  BY <1>1, <1>2, <1>3 DEF RunningIsKnown, Prev

(* Nor does what may still come back.                                      *)
LEMMA StackStays ==
  ASSUME NEW C \in SUBSET B!Generations, NEW r \in [B!Generations -> Int], Stack(C, r),
         Topmost' = Topmost,
         \A a \in BanActions : Prev(a)' = Prev(a) /\ (Ghostly(a)' <=> Ghostly(a))
  PROVE  Stack(C, r)'
BY DEF Stack, Named

(* Who is beneath is not the one on top, nor is one that was covered.      *)
LEMMA Beneath ==
  ASSUME NEW C \in SUBSET B!Generations, NEW r \in [B!Generations -> Int], Stack(C, r)
  PROVE  /\ \A x, y \in C : r[x] < r[y] => x # Topmost
         /\ \A a \in C \cap Named : Prev(a) # NoBan => Prev(a) \in C /\ Prev(a) # Topmost
<1>1. \A x, y \in C : r[x] < r[y] => x # Topmost
  <2>1. TAKE x, y \in C
  <2>2. HAVE r[x] < r[y]
  <2>3. r[x] \in Int /\ r[y] \in Int
    OBVIOUS
  <2>4. Topmost # NoBan
    BY DEF Stack
  <2>5. y = Topmost \/ r[y] < r[Topmost]
    BY <2>4 DEF Stack
  <2>6. x = Topmost => ~(r[y] < r[Topmost]) /\ y # Topmost
    BY <2>2, <2>3
  <2> QED
    BY <2>5, <2>6
<1>2. \A a \in C \cap Named : Prev(a) # NoBan => Prev(a) \in C /\ r[Prev(a)] < r[a]
  BY DEF Stack
<1> QED
  BY <1>1, <1>2

(* The time of the element and of those beneath runs alike; one that       *)
(* expires is not put back by the kernel.                                  *)
LEMMA TickDoes ==
  ASSUME BanInv, B!Tick
  PROVE  /\ el' \in [gen : Generation, left : Nat] /\ was' \in [B!Generations -> Nat]
         /\ \A g \in B!Generations :
              /\ was'[g] = (IF was[g] > 0 THEN was[g] - 1 ELSE 0)
              /\ Rem(g)' = (IF Rem(g) > 0 THEN Rem(g) - 1 ELSE 0)
         /\ el.left <= 1 => el'.gen = NoBan
         /\ el.left > 1 => el'.gen = el.gen /\ el'.left = el.left - 1
         /\ ElementIsOwn'
<1>1. /\ BanType /\ ElementIsOwn /\ el.left \in Nat /\ el.gen \in Generation
      /\ \A g \in B!Generations : was[g] \in Nat
  BY BanValues DEF BanInv
<1>2. el' = IF el.left <= 1 THEN B!Absent ELSE [el EXCEPT !.left = el.left - 1]
  BY DEF B!Tick
<1>3. was' = [g \in B!Generations |-> IF was[g] > 0 THEN was[g] - 1 ELSE 0]
  BY DEF B!Tick, B!Less
<1>4. \A g \in B!Generations : (IF was[g] > 0 THEN was[g] - 1 ELSE 0) \in Nat
  BY <1>1
<1>5. was' \in [B!Generations -> Nat]
        /\ \A g \in B!Generations : was'[g] = (IF was[g] > 0 THEN was[g] - 1 ELSE 0)
  BY <1>3, <1>4
<1>6. CASE el.left <= 1
  <2>1. el'.gen = NoBan /\ el'.left = 0 /\ el' \in [gen : Generation, left : Nat]
    BY <1>2, <1>6 DEF B!Absent, Generation
  <2>2. \A g \in B!Generations : Rem(g)' = (IF Rem(g) > 0 THEN Rem(g) - 1 ELSE 0)
    BY <1>1, <1>5, <1>6, <2>1, Bearers DEF Rem, ElementIsOwn
  <2> QED
    BY <1>1, <1>5, <1>6, <2>1, <2>2 DEF ElementIsOwn
<1>7. CASE el.left > 1
  <2>1. /\ el' = [el EXCEPT !.left = el.left - 1] /\ el.left - 1 \in Nat
        /\ el \in [gen : Generation, left : Nat]
    BY <1>1, <1>2, <1>7 DEF BanType
  <2>2. /\ el' \in [gen : Generation, left : Nat] /\ el'.gen = el.gen
        /\ el'.left = el.left - 1 /\ el.gen # NoBan /\ el.gen \in B!Generations
    BY <1>1, <1>7, <2>1 DEF ElementIsOwn, Generation
  <2>3. \A g \in B!Generations : Rem(g)' = (IF Rem(g) > 0 THEN Rem(g) - 1 ELSE 0)
    BY <1>1, <1>5, <1>7, <2>2 DEF Rem
  <2>4. ElementIsOwn'
    BY <1>1, <1>5, <1>7, <2>2 DEF ElementIsOwn
  <2> QED
    BY <1>1, <1>5, <1>7, <2>2, <2>3, <2>4
<1> QED
  BY <1>1, <1>6, <1>7

(* A wall clock that stands still, and the time by it that is left, are    *)
(* compared as before when a tick has passed.                              *)
LEMMA TickCompares ==
  ASSUME NEW w \in Int, NEW n \in Nat, NEW late \in Nat, NEW floor \in Int, floor <= 0
  PROVE  /\ w <= n + late => B!Less(w, floor) <= (IF n > 0 THEN n - 1 ELSE 0) + late
         /\ n <= w /\ n > 1 => n - 1 <= B!Less(w, floor)
         /\ B!Less(w, floor) \in Int
BY DEF B!Less

(* A tick.                                                                 *)
LEMMA BanTickKeeps ==
  ASSUME BanInv, B!Tick
  PROVE  BanInv'
<1> DEFINE floor == IF wall = "true" THEN -BanJump ELSE 0
           left  == [a \in BanActions |-> B!Less(bans[a].saved.wall, floor)]
<1>1. /\ BanType /\ ElementIsOwn /\ RunningIsKnown /\ FoundIsThere /\ ReadHasAged
      /\ el.gen \in Generation /\ el.left \in Nat
      /\ \A g \in B!Generations : was[g] \in Nat /\ Rem(g) \in Nat
      /\ UNCHANGED <<wall, flushed>> /\ Late' = Late /\ Late \in Nat
  BY BanValues DEF BanInv, B!Tick, Late
<1>2. /\ el' \in [gen : Generation, left : Nat] /\ was' \in [B!Generations -> Nat]
      /\ \A g \in B!Generations :
           /\ was'[g] = (IF was[g] > 0 THEN was[g] - 1 ELSE 0)
           /\ Rem(g)' = (IF Rem(g) > 0 THEN Rem(g) - 1 ELSE 0)
      /\ el.left <= 1 => el'.gen = NoBan
      /\ el.left > 1 => el'.gen = el.gen /\ el'.left = el.left - 1
      /\ ElementIsOwn'
  BY TickDoes
<1>3. floor \in Int /\ floor <= 0
  BY BanAssumption
<1>4. left \in [BanActions -> Int]
  BY <1>1, <1>3, BanFields DEF B!Less
<1>5. B!OnWall(left)
  BY DEF B!Tick
<1>6. /\ bans' \in [BanActions -> BanRow]
      /\ \A a \in BanActions :
           /\ bans'[a].status = bans[a].status /\ Prev(a)' = Prev(a)
           /\ bans'[a].saved.ttl = bans[a].saved.ttl /\ bans'[a].saved.left = bans[a].saved.left
           /\ Prev(a) # NoBan => bans'[a].saved.wall = left[a]
           /\ bans'[a].saved = B!NoState <=> bans[a].saved = B!NoState
           /\ Ghostly(a)' <=> Ghostly(a)
  <2> HIDE DEF left
  <2> QED
    BY <1>1, <1>4, <1>5, OnWallDoes
<1>7. \A a \in BanActions : Prev(a) # NoBan =>
        bans'[a].saved.wall = B!Less(bans[a].saved.wall, floor) /\ bans[a].saved.wall \in Int
  BY <1>1, <1>6, BanFields
<1> HIDE DEF left, floor
<1>8. /\ running' \in Running /\ running'.pc = running.pc /\ running'.act = running.act
      /\ running'.left = running.left
      /\ running = B!Idle => running' = B!Idle
      /\ running.pc # "idle" => running'.spent = running.spent + 1
      /\ running.spent \in Nat
  <2>1. running \in Running /\ running.spent \in 0..Lag /\ running.spent \in Nat
    BY <1>1, BanValues, BanAssumption DEF BanType
  <2>2. CASE running = B!Idle
    BY <2>1, <2>2, BanNothing DEF B!Tick
  <2>3. CASE running # B!Idle
    <3>1. running' = [running EXCEPT !.spent = running.spent + 1] /\ running.spent < Lag
      BY <2>3 DEF B!Tick
    <3>2. running.spent + 1 \in 0..Lag
      BY <2>1, <3>1, BanAssumption
    <3>3. /\ [running EXCEPT !.spent = running.spent + 1] \in Running
          /\ [running EXCEPT !.spent = running.spent + 1].pc = running.pc
          /\ [running EXCEPT !.spent = running.spent + 1].act = running.act
          /\ [running EXCEPT !.spent = running.spent + 1].left = running.left
          /\ [running EXCEPT !.spent = running.spent + 1].spent = running.spent + 1
      BY <2>1, <3>2 DEF Running
    <3> QED
      BY <2>1, <2>3, <3>1, <3>3
  <2> QED
    BY <2>2, <2>3
<1>9. BanType'
  BY <1>1, <1>2, <1>6, <1>8 DEF BanType
<1>10. RunningIsKnown'
  BY <1>1, <1>6, <1>8, TimeIsKnown
<1>11. BansChained'
  <2>1. CASE running.pc \notin {"install", "restore"} /\ el.left <= 1
    <3>1. Topmost' = NoBan
      BY <1>2, <1>8, <2>1, TopIsElement
    <3>2. ASSUME wall' # "ahead", NEW a \in BanActions, bans'[a].status = "applied",
                 B!Generation(a) \notin flushed'
          PROVE  was'[B!Generation(a)] = 0
      <4>1. B!Generation(a) \in B!Generations /\ bans[a].status = "applied"
        BY <1>6, <3>2, Bearers
      <4>2. was[B!Generation(a)] <= 1
        <5>1. CASE el.gen = B!Generation(a)
          BY <1>1, <4>1, <5>1, Bearers DEF ElementIsOwn
        <5>2. CASE el.gen # B!Generation(a)
          <6>1. el.left >= was[B!Generation(a)]
            BY <1>1, <3>2, <4>1, <5>2, HeldNow DEF B!BanHeld
          <6> QED
            BY <1>1, <2>1, <4>1, <6>1
        <5> QED
          BY <5>1, <5>2
      <4> QED
        BY <1>1, <1>2, <4>1, <4>2
    <3> QED
      BY <3>1, <3>2, EmptyStack
  <2>2. CASE ~(running.pc \notin {"install", "restore"} /\ el.left <= 1)
    <3>1. Topmost' = Topmost
      <4>1. CASE running.pc = "install"
        <5>1. running.act \in BanActions
          BY <1>1, <4>1 DEF RunningIsKnown
        <5> QED
          BY <1>6, <1>8, <4>1, <5>1 DEF Topmost, Prev
      <4>2. CASE running.pc = "restore"
        BY <1>8, <4>2 DEF Topmost
      <4>3. CASE running.pc \notin {"install", "restore"}
        <5>1. el'.gen = el.gen
          BY <1>1, <1>2, <2>2, <4>3
        <5> QED
          BY <1>8, <4>3, <5>1, TopIsElement
      <4> QED
        BY <4>1, <4>2, <4>3
    <3>2. PICK C \in SUBSET B!Generations, r \in [B!Generations -> Int] :
            Stack(C, r) /\ SavedIsExact(C) /\ CoveredIsShorter(C, r)
      BY DEF BanInv, BansChained
    <3>3. Stack(C, r)'
      BY <1>6, <3>1, <3>2, StackStays
    <3>4. SavedIsExact(C)'
      <4>1. SUFFICES ASSUME NEW a \in C \cap Named, Prev(a) # NoBan
                     PROVE  /\ bans'[a].saved.wall <= was'[Prev(a)] + Late
                            /\ wall # "ahead" /\ was'[Prev(a)] > 0 =>
                                 /\ was'[Prev(a)] <= bans'[a].saved.wall
                                 /\ was'[Prev(a)] <= bans'[a].saved.left - bans'[a].saved.ttl + Rem(a)'
        BY <1>1, <1>6 DEF SavedIsExact, Named
      <4>2. /\ a \in BanActions /\ a \in B!Generations /\ Prev(a) \in B!Generations
            /\ bans[a].saved.left \in Nat /\ bans[a].saved.ttl \in Nat
            /\ bans'[a].saved.ttl = bans[a].saved.ttl /\ bans'[a].saved.left = bans[a].saved.left
        BY <1>1, <1>6, <4>1, BanFields DEF Named, Generation
      <4>3. /\ bans[a].saved.wall <= was[Prev(a)] + Late
            /\ wall # "ahead" /\ was[Prev(a)] > 0 =>
                 /\ was[Prev(a)] <= bans[a].saved.wall
                 /\ was[Prev(a)] <= bans[a].saved.left - bans[a].saved.ttl + Rem(a)
        BY <3>2, <4>1 DEF SavedIsExact
      <4>4. /\ bans'[a].saved.wall <= was'[Prev(a)] + Late
            /\ wall # "ahead" /\ was[Prev(a)] > 1 => was[Prev(a)] - 1 <= bans'[a].saved.wall
        <5>1. /\ bans'[a].saved.wall = B!Less(bans[a].saved.wall, floor)
              /\ bans[a].saved.wall \in Int /\ was[Prev(a)] \in Nat
          BY <1>1, <1>7, <4>1, <4>2
        <5>2. PICK w \in Int, n \in Nat : w = bans[a].saved.wall /\ n = was[Prev(a)]
          BY <5>1
        <5>3. B!Less(w, floor) <= (IF n > 0 THEN n - 1 ELSE 0) + Late
          BY <1>1, <1>3, <4>3, <5>2, TickCompares
        <5>4. wall # "ahead" /\ n > 1 => n - 1 <= B!Less(w, floor)
          BY <1>1, <1>3, <4>3, <5>2, TickCompares
        <5>5. was'[Prev(a)] = IF n > 0 THEN n - 1 ELSE 0
          BY <1>2, <4>2, <5>2
        <5> QED
          BY <5>1, <5>2, <5>3, <5>4, <5>5
      <4> QED
        BY <1>1, <1>2, <4>2, <4>3, <4>4
    <3>5. CoveredIsShorter(C, r)'
      <4>1. CASE wall = "ahead"
        BY <1>1, <4>1 DEF CoveredIsShorter
      <4>2. CASE wall # "ahead"
        <5>1. ASSUME NEW x \in C, NEW y \in C, r[x] < r[y]
              PROVE  was'[x] <= Rem(y)'
          <6>1. was[x] <= Rem(y) /\ was[x] \in Nat /\ Rem(y) \in Nat
            BY <1>1, <3>2, <4>2, <5>1 DEF CoveredIsShorter
          <6> QED
            BY <1>2, <5>1, <6>1
        <5>2. \A g \in B!Generations : was[g] = 0 => was'[g] = 0
          BY <1>2
        <5>3. ASSUME NEW a \in BanActions
              PROVE  /\ bans'[a].saved # B!NoState /\ Prev(a)' = NoBan /\ B!Generation(a) \in C =>
                          \A y \in C : r[y] < r[B!Generation(a)] => was'[y] = 0
                     /\ bans'[a].status = "applied" /\ B!Generation(a) \notin flushed' \cup C =>
                          was'[B!Generation(a)] = 0
          BY <1>1, <1>6, <3>2, <4>2, <5>2, Bearers DEF CoveredIsShorter
        <5>4. running'.pc = "delete" => \A y \in C \ {Topmost'} : was'[y] = 0
          BY <1>8, <3>1, <3>2, <4>2, <5>2 DEF CoveredIsShorter
        <5> QED
          BY <5>1, <5>3, <5>4 DEF CoveredIsShorter
      <4> QED
        BY <4>1, <4>2
    <3> QED
      BY <3>3, <3>4, <3>5 DEF BansChained
  <2> QED
    BY <2>1, <2>2
<1>12. FoundIsThere'
  <2>1. ASSUME running.pc \in {"install", "restore"}
        PROVE  /\ Topmost' = Topmost
               /\ \/ el'.gen = Topmost
                  \/ el'.gen = NoBan /\ (Topmost = NoBan \/ was'[Topmost] = 0 \/ flushed = B!Generations)
    <3>1. running.act \in BanActions /\ (running.pc = "restore" => running.act \in Named)
      BY <1>1, <2>1 DEF RunningIsKnown
    <3>2. Topmost' = Topmost
      BY <1>6, <1>8, <2>1, <3>1 DEF Topmost, Prev
    <3>3. Topmost # NoBan => Topmost \in B!Generations
      BY <1>1, <2>1, <3>1, BanFields, Bearers DEF Topmost, Generation
    <3>4. CASE el.gen = NoBan
      <4>1. el'.gen = NoBan
        BY <1>1, <1>2, <3>4 DEF ElementIsOwn
      <4>2. Topmost = NoBan \/ was[Topmost] = 0 \/ flushed = B!Generations
        BY <1>1, <2>1, <3>4 DEF FoundIsThere
      <4> QED
        BY <1>2, <3>2, <3>3, <4>1, <4>2
    <3>5. CASE el.gen # NoBan
      <4>1. el.gen = Topmost /\ was[Topmost] = 0
        BY <1>1, <2>1, <3>5 DEF FoundIsThere, ElementIsOwn
      <4> QED
        BY <1>1, <1>2, <3>2, <3>3, <3>5, <4>1
    <3> QED
      BY <3>4, <3>5
  <2>2. running.pc = "delete" => el'.gen \in {B!Generation(running.act), NoBan}
    BY <1>1, <1>2 DEF FoundIsThere
  <2>3. ASSUME running.pc = "observe"
        PROVE  /\ running.act \in BanActions
               /\ el'.gen \in {running.act, Prev(running.act), NoBan}
               /\ el'.gen = running.act => el'.left <= bans[running.act].saved.ttl
    <3>1. /\ running.act \in BanActions /\ bans[running.act].saved.ttl \in Nat
          /\ el.gen \in {running.act, Prev(running.act), NoBan}
          /\ el.gen = running.act => el.left <= bans[running.act].saved.ttl
      BY <1>1, <2>3, BanFields DEF RunningIsKnown, FoundIsThere
    <3>2. running.act # NoBan
      BY <3>1, BanAssumption
    <3> QED
      BY <1>1, <1>2, <3>1, <3>2
  <2> QED
    BY <1>1, <1>6, <1>8, <2>1, <2>2, <2>3 DEF FoundIsThere, Prev
<1>13. ReadHasAged'
  <2>1. ASSUME NEW a \in BanActions, a = running.act, NEW p \in B!Generations, p = Prev(a)
        PROVE  /\ running.pc \in {"install", "observe"} =>
                    Rem(p)' = 0 \/ Rem(p)' + running'.spent <= bans[a].saved.left
               /\ running.pc = "install" =>
                    /\ Rem(p)' <= bans[a].saved.ttl
                    /\ bans'[a].saved.wall <= Rem(p)' + Late
                    /\ wall # "ahead" => Rem(p)' = 0 \/ Rem(p)' <= bans'[a].saved.wall
               /\ running.pc = "restore" =>
                    /\ running'.left > 0
                    /\ running'.left <= was'[p] + running'.spent + Late
                    /\ wall # "ahead" => was'[p] <= running'.left
    <3>1. /\ p # NoBan /\ was[p] \in Nat /\ Rem(p) \in Nat /\ bans[a].saved.left \in Nat
          /\ bans[a].saved.ttl \in Nat /\ bans[a].saved.wall \in Int
          /\ bans'[a].saved.wall = B!Less(bans[a].saved.wall, floor)
      BY <1>1, <1>7, <2>1, BanFields, Bearers
    <3>2. /\ running.pc \in {"install", "observe"} =>
               Rem(p) = 0 \/ Rem(p) + running.spent <= bans[a].saved.left
          /\ running.pc = "install" =>
               /\ Rem(p) <= bans[a].saved.ttl
               /\ bans[a].saved.wall <= Rem(p) + Late
               /\ wall # "ahead" => Rem(p) = 0 \/ Rem(p) <= bans[a].saved.wall
          /\ running.pc = "restore" =>
               /\ running.left > 0
               /\ running.left <= was[p] + running.spent + Late
               /\ wall # "ahead" => was[p] <= running.left
      BY <1>1, <2>1, <3>1 DEF ReadHasAged, Prev
    <3>3. /\ Rem(p)' = (IF Rem(p) > 0 THEN Rem(p) - 1 ELSE 0)
          /\ was'[p] = (IF was[p] > 0 THEN was[p] - 1 ELSE 0)
      BY <1>2
    <3>4. running.pc \in {"install", "observe"} =>
            Rem(p)' = 0 \/ Rem(p)' + running'.spent <= bans[a].saved.left
      BY <1>8, <3>1, <3>2, <3>3
    <3>5. running.pc = "install" => Rem(p)' <= bans[a].saved.ttl
      BY <3>1, <3>2, <3>3
    <3>6. running.pc = "install" => bans'[a].saved.wall <= Rem(p)' + Late
      <4>1. running.pc = "install" => B!Less(bans[a].saved.wall, floor)
                                        <= (IF Rem(p) > 0 THEN Rem(p) - 1 ELSE 0) + Late
        BY <1>1, <1>3, <3>1, <3>2, TickCompares
      <4> QED
        BY <3>1, <3>3, <4>1
    <3>7. running.pc = "install" /\ wall # "ahead" => Rem(p)' = 0 \/ Rem(p)' <= bans'[a].saved.wall
      <4>1. running.pc = "install" /\ wall # "ahead" /\ Rem(p) > 1 =>
              Rem(p) - 1 <= B!Less(bans[a].saved.wall, floor)
        BY <1>1, <1>3, <3>1, <3>2, TickCompares
      <4> QED
        BY <3>1, <3>3, <4>1
    <3>8. running.pc = "restore" =>
               /\ running'.left > 0
               /\ running'.left <= was'[p] + running'.spent + Late
               /\ wall # "ahead" => was'[p] <= running'.left
      <4>1. running.left \in Nat
        BY <1>1, BanValues
      <4> QED
        BY <1>1, <1>8, <3>1, <3>2, <3>3, <4>1
    <3> QED
      BY <3>4, <3>5, <3>6, <3>7, <3>8
  <2>2. CASE running.pc \in {"install", "observe", "restore"}
    <3>1. PICK a \in BanActions : a = running.act
      BY <1>1, <2>2 DEF RunningIsKnown
    <3>2. CASE Prev(a) = NoBan
      <4>1. running.pc # "restore"
        BY <1>1, <3>1, <3>2 DEF RunningIsKnown
      <4> QED
        BY <1>6, <1>8, <3>1, <3>2, <4>1 DEF ReadHasAged, Prev
    <3>3. CASE Prev(a) # NoBan
      <4>1. PICK p \in B!Generations : p = Prev(a)
        BY <1>1, <3>3, BanFields DEF Generation
      <4>2. bans'[a].saved.prev = p /\ bans'[running'.act].saved.prev = p /\ p # NoBan
            /\ bans'[a].saved.left = bans[a].saved.left /\ bans'[a].saved.ttl = bans[a].saved.ttl
        BY <1>6, <1>8, <3>1, <4>1, Bearers DEF Prev
      <4> QED
        BY <1>1, <1>8, <2>1, <3>1, <4>1, <4>2 DEF ReadHasAged
    <3> QED
      BY <3>2, <3>3
  <2>3. CASE running.pc \notin {"install", "observe", "restore"}
    BY <1>8, <2>3 DEF ReadHasAged
  <2> QED
    BY <2>2, <2>3
<1> QED
  BY <1>2, <1>9, <1>10, <1>11, <1>12, <1>13 DEF BanInv

(* The wall clock is set: what was written down by it is off, and known to *)
(* be.                                                                     *)
LEMMA BanClockSetKeeps ==
  ASSUME BanInv, NEW to \in {"ahead", "behind"}, B!ClockSet(to)
  PROVE  BanInv'
<1> DEFINE by == IF to = "ahead" THEN -BanJump ELSE BanJump
           left == [a \in BanActions |-> bans[a].saved.wall + by]
<1>1. /\ BanType /\ ElementIsOwn /\ RunningIsKnown /\ FoundIsThere /\ ReadHasAged
      /\ wall = "true" /\ wall' = to /\ UNCHANGED <<el, was, flushed, running>>
  BY DEF BanInv, B!ClockSet, B!Keep
<1>2. by \in Int /\ BanJump \in Nat /\ (to = "ahead" => by <= 0) /\ (to = "behind" => by = BanJump)
  BY BanAssumption
<1>3. left \in [BanActions -> Int] /\ B!OnWall(left)
  BY <1>1, <1>2, BanFields DEF B!ClockSet
<1>4. /\ bans' \in [BanActions -> BanRow]
      /\ \A a \in BanActions :
           /\ bans'[a].status = bans[a].status /\ Prev(a)' = Prev(a)
           /\ bans'[a].saved.ttl = bans[a].saved.ttl /\ bans'[a].saved.left = bans[a].saved.left
           /\ Prev(a) # NoBan => bans'[a].saved.wall = left[a]
           /\ bans'[a].saved = B!NoState <=> bans[a].saved = B!NoState
           /\ Ghostly(a)' <=> Ghostly(a)
  <2> HIDE DEF left
  <2> QED
    BY <1>1, <1>3, OnWallDoes
<1>5. \A a \in BanActions : Prev(a) # NoBan =>
        bans'[a].saved.wall = bans[a].saved.wall + by /\ bans[a].saved.wall \in Int
  BY <1>1, <1>4, BanFields
<1> HIDE DEF left, by
<1>6. /\ Late = 0 /\ Late' = (IF to = "behind" THEN BanJump ELSE 0)
      /\ \A g \in B!Generations : Rem(g)' = Rem(g) /\ was[g] \in Nat /\ Rem(g) \in Nat
  BY <1>1, BanValues DEF Late, Rem
<1>7. BanType'
  BY <1>1, <1>4 DEF BanType
<1>8. RunningIsKnown'
  BY <1>1, <1>4, TimeIsKnown
<1>9. Topmost' = Topmost
  <2>1. running.pc = "install" => running.act \in BanActions
    BY <1>1 DEF RunningIsKnown
  <2> QED
    BY <1>1, <1>4, <2>1 DEF Topmost, Prev
<1>10. BansChained'
  <2>1. PICK C \in SUBSET B!Generations, r \in [B!Generations -> Int] :
          Stack(C, r) /\ SavedIsExact(C) /\ CoveredIsShorter(C, r)
    BY DEF BanInv, BansChained
  <2>2. Stack(C, r)'
    BY <1>4, <1>9, <2>1, StackStays
  <2>3. SavedIsExact(C)'
    <3>1. SUFFICES ASSUME NEW a \in C \cap Named, Prev(a) # NoBan
                   PROVE  /\ bans'[a].saved.wall <= was[Prev(a)] + Late'
                          /\ to # "ahead" /\ was[Prev(a)] > 0 =>
                               /\ was[Prev(a)] <= bans'[a].saved.wall
                               /\ was[Prev(a)] <= bans'[a].saved.left - bans'[a].saved.ttl + Rem(a)
      BY <1>1, <1>4, <1>6 DEF SavedIsExact, Named
    <3>2. /\ a \in BanActions /\ Prev(a) \in B!Generations /\ was[Prev(a)] \in Nat
          /\ bans'[a].saved.ttl = bans[a].saved.ttl /\ bans'[a].saved.left = bans[a].saved.left
          /\ bans'[a].saved.wall = bans[a].saved.wall + by /\ bans[a].saved.wall \in Int
      BY <1>1, <1>4, <1>5, <3>1, BanFields, BanValues DEF Named, Generation
    <3>3. /\ bans[a].saved.wall <= was[Prev(a)]
          /\ was[Prev(a)] > 0 =>
               /\ was[Prev(a)] <= bans[a].saved.wall
               /\ was[Prev(a)] <= bans[a].saved.left - bans[a].saved.ttl + Rem(a)
      BY <1>1, <1>6, <2>1, <3>1, <3>2 DEF SavedIsExact
    <3> QED
      BY <1>2, <1>6, <3>2, <3>3
  <2>4. CoveredIsShorter(C, r)'
    <3>1. CASE to = "ahead"
      BY <1>1, <3>1 DEF CoveredIsShorter
    <3>2. CASE to # "ahead"
      <4>1. \A x, y \in C : r[x] < r[y] => was[x] <= Rem(y)'
        BY <1>1, <1>6, <2>1 DEF CoveredIsShorter
      <4>2. ASSUME NEW a \in BanActions
            PROVE  /\ bans'[a].saved # B!NoState /\ Prev(a)' = NoBan /\ B!Generation(a) \in C =>
                        \A y \in C : r[y] < r[B!Generation(a)] => was[y] = 0
                   /\ bans'[a].status = "applied" /\ B!Generation(a) \notin flushed \cup C =>
                        was[B!Generation(a)] = 0
        BY <1>1, <1>4, <2>1 DEF CoveredIsShorter
      <4>3. running'.pc = "delete" => \A y \in C \ {Topmost'} : was[y] = 0
        BY <1>1, <1>9, <2>1 DEF CoveredIsShorter
      <4> QED
        BY <1>1, <4>1, <4>2, <4>3 DEF CoveredIsShorter
    <3> QED
      BY <3>1, <3>2
  <2> QED
    BY <2>2, <2>3, <2>4 DEF BansChained
<1>11. FoundIsThere'
  <2>1. running.pc = "observe" => running.act \in BanActions
    BY <1>1 DEF RunningIsKnown
  <2> QED
    BY <1>1, <1>4, <1>9, <2>1 DEF FoundIsThere, Prev
<1>12. ReadHasAged'
  <2>1. CASE running.pc \in {"install", "observe", "restore"}
    <3>1. PICK a \in BanActions : a = running.act
      BY <1>1, <2>1 DEF RunningIsKnown
    <3>2. CASE Prev(a) = NoBan
      <4>1. running.pc # "restore"
        BY <1>1, <3>1, <3>2 DEF RunningIsKnown
      <4> QED
        BY <1>1, <1>4, <3>1, <3>2, <4>1 DEF ReadHasAged, Prev
    <3>3. CASE Prev(a) # NoBan
      <4>1. PICK p \in B!Generations : p = Prev(a)
        BY <1>1, <3>3, BanFields DEF Generation
      <4>2. /\ bans[a].saved.prev = p /\ bans'[a].saved.prev = p /\ p # NoBan
            /\ bans'[a].saved.left = bans[a].saved.left /\ bans'[a].saved.ttl = bans[a].saved.ttl
            /\ bans'[a].saved.wall = bans[a].saved.wall + by /\ bans[a].saved.wall \in Int
            /\ Rem(p)' = Rem(p) /\ Rem(p) \in Nat /\ was[p] \in Nat
        BY <1>4, <1>5, <1>6, <4>1, Bearers DEF Prev
      <4>3. running.left \in Nat /\ running.spent \in Nat
        BY <1>1, BanValues, BanAssumption
      <4>4. /\ running.pc \in {"install", "observe"} =>
                 Rem(p) = 0 \/ Rem(p) + running.spent <= bans[a].saved.left
            /\ running.pc = "install" =>
                 /\ Rem(p) <= bans[a].saved.ttl
                 /\ bans[a].saved.wall <= Rem(p)
                 /\ Rem(p) = 0 \/ Rem(p) <= bans[a].saved.wall
            /\ running.pc = "restore" =>
                 /\ running.left > 0
                 /\ running.left <= was[p] + running.spent
                 /\ was[p] <= running.left
        BY <1>1, <1>6, <3>1, <4>2, <4>3 DEF ReadHasAged
      <4>5. /\ running.pc = "install" => /\ bans'[a].saved.wall <= Rem(p) + Late'
                                         /\ to # "ahead" => Rem(p) = 0 \/ Rem(p) <= bans'[a].saved.wall
            /\ running.pc = "restore" => running.left <= was[p] + running.spent + Late'
        BY <1>2, <1>6, <4>2, <4>3, <4>4
      <4> QED
        BY <1>1, <3>1, <4>2, <4>4, <4>5 DEF ReadHasAged
    <3> QED
      BY <3>2, <3>3
  <2>2. CASE running.pc \notin {"install", "observe", "restore"}
    BY <1>1, <2>2 DEF ReadHasAged
  <2> QED
    BY <2>1, <2>2
<1> QED
  BY <1>1, <1>7, <1>8, <1>10, <1>11, <1>12 DEF BanInv, ElementIsOwn

(* The set is emptied by somebody else.                                    *)
LEMMA FlushKeeps ==
  ASSUME BanInv, B!Flush
  PROVE  BanInv'
<1>1. /\ BanType /\ ElementIsOwn /\ RunningIsKnown /\ FoundIsThere /\ ReadHasAged
      /\ UNCHANGED <<bans, running, wall>> /\ el' = B!Absent
      /\ was' = [was EXCEPT ![el.gen] = el.left] /\ flushed' = B!Generations
      /\ el.left \in Nat
  BY BanValues DEF BanInv, B!Flush
<1>2. el.gen # NoBan /\ el.gen \in B!Generations
  <2>1. el \in [gen : Generation, left : Nat] /\ el # [gen |-> NoBan, left |-> 0]
    BY <1>1 DEF BanType, B!Flush, B!Missing, B!Absent
  <2> QED
    BY <1>1, <2>1 DEF ElementIsOwn, Generation
<1>3. /\ el' \in [gen : Generation, left : Nat] /\ el'.gen = NoBan /\ el'.left = 0
      /\ was' \in [B!Generations -> Nat]
      /\ \A g \in B!Generations : /\ was'[g] = Rem(g) /\ Rem(g)' = Rem(g)
                                  /\ g # el.gen => was'[g] = was[g]
  <2>1. el' \in [gen : Generation, left : Nat] /\ el'.gen = NoBan /\ el'.left = 0
    BY <1>1 DEF B!Absent, Generation
  <2>2. was' \in [B!Generations -> Nat] /\ \A g \in B!Generations :
          was'[g] = (IF g = el.gen THEN el.left ELSE was[g])
    BY <1>1, <1>2 DEF BanType
  <2> QED
    BY <2>1, <2>2, Bearers DEF Rem
<1>4. BanType' /\ ElementIsOwn' /\ RunningIsKnown'
  BY <1>1, <1>3 DEF BanType, ElementIsOwn, RunningIsKnown, Prev
<1>5. CASE running.pc \in {"install", "restore"}
  <2>1. Topmost' = Topmost /\ Topmost = el.gen
    BY <1>1, <1>2, <1>5 DEF Topmost, Prev, FoundIsThere
  <2>2. PICK C \in SUBSET B!Generations, r \in [B!Generations -> Int] :
          Stack(C, r) /\ SavedIsExact(C) /\ CoveredIsShorter(C, r)
    BY DEF BanInv, BansChained
  <2>3. /\ \A x, y \in C : r[x] < r[y] => was'[x] = was[x]
        /\ \A a \in C \cap Named : Prev(a) # NoBan => was'[Prev(a)] = was[Prev(a)]
    BY <1>3, <2>1, <2>2, Beneath
  <2>4. Stack(C, r)'
    BY <1>1, <2>1, <2>2, StackStays DEF Prev, Ghostly
  <2>5. SavedIsExact(C)'
    <3>1. Late' = Late /\ \A a \in BanActions : Prev(a)' = Prev(a)
      BY <1>1 DEF Late, Prev
    <3> QED
      BY <1>1, <1>3, <2>2, <2>3, <3>1 DEF SavedIsExact, Named
  <2>6. CoveredIsShorter(C, r)'
    <3>1. CASE wall = "ahead"
      BY <1>1, <3>1 DEF CoveredIsShorter
    <3>2. CASE wall # "ahead"
      <4>1. \A x, y \in C : r[x] < r[y] => was'[x] <= Rem(y)'
        BY <1>3, <2>2, <2>3, <3>2 DEF CoveredIsShorter
      <4>2. ASSUME NEW a \in BanActions
            PROVE  /\ bans[a].saved # B!NoState /\ Prev(a) = NoBan /\ B!Generation(a) \in C =>
                        \A y \in C : r[y] < r[B!Generation(a)] => was'[y] = 0
                   /\ B!Generation(a) \in flushed'
        BY <1>1, <2>2, <2>3, <3>2, Bearers DEF CoveredIsShorter
      <4> QED
        BY <1>1, <1>5, <4>1, <4>2 DEF CoveredIsShorter, Prev
    <3> QED
      BY <3>1, <3>2
  <2>7. BansChained'
    BY <2>4, <2>5, <2>6 DEF BansChained
  <2>8. FoundIsThere'
    BY <1>1, <1>3, <1>5 DEF FoundIsThere
  <2>9. ReadHasAged'
    <3>1. PICK a \in BanActions : a = running.act
      BY <1>1, <1>5 DEF RunningIsKnown
    <3>2. CASE Prev(a) = NoBan
      <4>1. running.pc # "restore"
        BY <1>1, <3>1, <3>2 DEF RunningIsKnown
      <4> QED
        BY <1>1, <3>1, <3>2, <4>1 DEF ReadHasAged, Prev
    <3>3. CASE Prev(a) # NoBan
      <4>1. PICK p \in B!Generations : p = Prev(a)
        BY <1>1, <3>3, BanFields DEF Generation
      <4>2. Rem(p)' = Rem(p) /\ Late' = Late
        BY <1>1, <1>3 DEF Late
      <4>3. running.pc = "restore" => was'[p] = was[p]
        <5>1. running.pc = "restore" => a \in Named /\ B!Generation(a) = a /\ Topmost = a
          BY <1>1, <3>1, <3>3, Bearers DEF RunningIsKnown, Topmost
        <5>2. running.pc = "restore" => a \in C \cap Named
          BY <1>2, <2>1, <2>2, <5>1 DEF Stack
        <5> QED
          BY <2>3, <3>3, <4>1, <5>2
      <4> QED
        BY <1>1, <3>1, <4>1, <4>2, <4>3 DEF ReadHasAged, Prev
    <3> QED
      BY <3>2, <3>3
  <2> QED
    BY <1>4, <2>7, <2>8, <2>9 DEF BanInv
<1>6. CASE running.pc \notin {"install", "restore"}
  <2>1. Topmost' = NoBan
    BY <1>1, <1>3, <1>6, TopIsElement
  <2>2. BansChained'
    BY <1>1, <2>1, Bearers, EmptyStack
  <2>3. FoundIsThere'
    <3>1. running.pc = "observe" => running.act \in BanActions /\ running.act # NoBan
      BY <1>1, BanAssumption DEF RunningIsKnown
    <3> QED
      BY <1>1, <1>3, <1>6, <3>1 DEF FoundIsThere
  <2>4. ReadHasAged'
    <3>1. CASE running.pc = "observe"
      <4>1. PICK a \in BanActions : a = running.act
        BY <1>1, <3>1 DEF RunningIsKnown
      <4>2. CASE Prev(a) = NoBan
        BY <1>1, <3>1, <4>1, <4>2 DEF ReadHasAged, Prev
      <4>3. CASE Prev(a) # NoBan
        <5>1. PICK p \in B!Generations : p = Prev(a)
          BY <1>1, <4>3, BanFields DEF Generation
        <5>2. Rem(p)' = Rem(p)
          BY <1>3
        <5> QED
          BY <1>1, <3>1, <4>1, <5>1, <5>2 DEF ReadHasAged, Prev
      <4> QED
        BY <4>2, <4>3
    <3>2. CASE running.pc # "observe"
      BY <1>1, <1>6, <3>2 DEF ReadHasAged
    <3> QED
      BY <3>1, <3>2
  <2> QED
    BY <1>4, <2>2, <2>3, <2>4 DEF BanInv
<1> QED
  BY <1>5, <1>6

-----------------------------------------------------------------------------
(* Every state, and the theorems.                                          *)

(* At first there is at most the ban of an older Helper.                   *)
LEMMA BanBegins ==
  ASSUME B!Init
  PROVE  BanInv
<1>1. PICK ttl \in TTLs :
        /\ el = IF Legacy = {} THEN B!Absent ELSE [gen |-> Unnamed, left |-> ttl]
        /\ bans = [a \in BanActions |->
                     IF a \in Legacy
                       THEN [status |-> "applied", saved |-> [B!NoState EXCEPT !.ttl = ttl, !.wall = ttl]]
                       ELSE [status |-> "new", saved |-> B!NoState]]
  BY DEF B!Init
<1>2. /\ running = B!Idle /\ running.pc = "idle" /\ running \in Running /\ wall = "true"
      /\ was = [g \in B!Generations |-> 0] /\ flushed = {}
  BY BanNothing DEF B!Init
<1>3. ttl \in Nat /\ ttl > 0 /\ ttl \in Int /\ Unnamed \in B!Generations
  BY BanAssumption DEF B!Generations
<1> DEFINE s == [B!NoState EXCEPT !.ttl = ttl, !.wall = ttl]
<1>4. s \in SavedBans /\ s.ttl = ttl /\ s.prev = NoBan
  <2>1. ASSUME NEW x \in SavedBans
        PROVE  /\ [x EXCEPT !.ttl = ttl] \in SavedBans
               /\ [x EXCEPT !.ttl = ttl].ttl = ttl /\ [x EXCEPT !.ttl = ttl].prev = x.prev
    BY <1>3, <2>1 DEF SavedBans
  <2>2. ASSUME NEW x \in SavedBans
        PROVE  /\ [x EXCEPT !.wall = ttl] \in SavedBans
               /\ [x EXCEPT !.wall = ttl].ttl = x.ttl /\ [x EXCEPT !.wall = ttl].prev = x.prev
    BY <1>3, <2>2 DEF SavedBans
  <2>3. /\ [[B!NoState EXCEPT !.ttl = ttl] EXCEPT !.wall = ttl] \in SavedBans
        /\ [[B!NoState EXCEPT !.ttl = ttl] EXCEPT !.wall = ttl].ttl = ttl
        /\ [[B!NoState EXCEPT !.ttl = ttl] EXCEPT !.wall = ttl].prev = NoBan
    BY <2>1, <2>2, BanNothing
  <2> QED
    BY <2>3
<1> HIDE DEF s
<1>5. [status |-> "applied", saved |-> s] \in BanRow /\ [status |-> "new", saved |-> B!NoState] \in BanRow
  BY <1>4, BanNothing DEF BanRow, BanStatus
<1>6. \A a \in BanActions : bans[a] = IF a \in Legacy THEN [status |-> "applied", saved |-> s]
                                      ELSE [status |-> "new", saved |-> B!NoState]
  BY <1>1 DEF s
<1>7. bans \in [BanActions -> BanRow]
  <2>1. bans = [a \in BanActions |-> IF a \in Legacy THEN [status |-> "applied", saved |-> s]
                                     ELSE [status |-> "new", saved |-> B!NoState]]
    BY <1>1 DEF s
  <2> QED
    BY <1>5, <2>1
<1>8. /\ el \in [gen : Generation, left : Nat]
      /\ Legacy = {} => el.gen = NoBan /\ el.left = 0
      /\ Legacy # {} => el.gen = Unnamed /\ el.left > 0
  BY <1>1, <1>3 DEF B!Absent, Generation
<1>9. \A g \in B!Generations : was[g] = 0
  BY <1>2
<1>10. BanType /\ ElementIsOwn
  BY <1>2, <1>3, <1>7, <1>8, <1>9, BanAssumption DEF BanType, ElementIsOwn
<1>11. \A a \in BanActions :
         /\ bans[a].status = (IF a \in Legacy THEN "applied" ELSE "new")
         /\ bans[a].saved = (IF a \in Legacy THEN s ELSE B!NoState)
         /\ Prev(a) = NoBan
  BY <1>4, <1>6, BanNothing DEF Prev
<1>12. RunningIsKnown
  BY <1>2, <1>3, <1>4, <1>11 DEF RunningIsKnown, Named
<1>13. FoundIsThere /\ ReadHasAged /\ Topmost = el.gen
  BY <1>2, TopIsElement DEF FoundIsThere, ReadHasAged
<1>14. BansChained
  <2>1. PICK C \in SUBSET B!Generations : C = IF Legacy = {} THEN {} ELSE {Unnamed}
    BY <1>3
  <2>2. PICK r \in [B!Generations -> Int] : r = [g \in B!Generations |-> 0]
    <3>1. [g \in B!Generations |-> 0] \in [B!Generations -> Int]
      OBVIOUS
    <3> QED
      BY <3>1
  <2>3. \A x, y \in C : ~(r[x] < r[y])
    BY <2>1, <2>2
  <2>4. Stack(C, r)
    <3>1. \A a \in BanActions : Ghostly(a) => B!Generation(a) \notin C
      BY <1>11, <2>1, BanAssumption DEF Ghostly, B!Generation
    <3>2. /\ Topmost = NoBan => C = {}
          /\ Topmost # NoBan => Topmost \in C /\ \A x \in C \ {Topmost} : r[x] < r[Topmost]
      BY <1>8, <1>13, <2>1, BanAssumption
    <3> QED
      BY <1>11, <3>1, <3>2 DEF Stack, Named
  <2>5. SavedIsExact(C)
    BY <1>11 DEF SavedIsExact, Named
  <2>6. CoveredIsShorter(C, r)
    <3>1. \A a \in BanActions : bans[a].status = "applied" => B!Generation(a) \in C
      BY <1>11, <2>1 DEF B!Generation
    <3>2. \A a \in BanActions :
            B!Generation(a) \in C => \A y \in C : ~(r[y] < r[B!Generation(a)])
      BY <2>3
    <3> QED
      BY <1>2, <2>3, <3>1, <3>2 DEF CoveredIsShorter
  <2> QED
    BY <2>4, <2>5, <2>6 DEF BansChained
<1> QED
  BY <1>10, <1>12, <1>13, <1>14 DEF BanInv

(* Nothing happens.                                                        *)
LEMMA BanRests ==
  ASSUME BanInv, UNCHANGED elementVars
  PROVE  BanInv'
<1>1. BanType' /\ ElementIsOwn' /\ RunningIsKnown'
  BY DEF elementVars, BanInv, BanType, ElementIsOwn, RunningIsKnown, Prev
<1>2. /\ Topmost' = Topmost /\ Late' = Late /\ \A g : Rem(g)' = Rem(g)
      /\ \A a : Prev(a)' = Prev(a) /\ (Ghostly(a)' <=> Ghostly(a))
  BY DEF elementVars, Topmost, Late, Rem, Prev, Ghostly
<1>3. BansChained'
  <2>1. PICK C \in SUBSET B!Generations, r \in [B!Generations -> Int] :
          Stack(C, r) /\ SavedIsExact(C) /\ CoveredIsShorter(C, r)
    BY DEF BanInv, BansChained
  <2>2. Stack(C, r)'
    BY <1>2, <2>1, StackStays
  <2>3. SavedIsExact(C)' /\ CoveredIsShorter(C, r)'
    BY <1>2, <2>1 DEF elementVars, SavedIsExact, CoveredIsShorter
  <2> QED
    BY <2>2, <2>3 DEF BansChained
<1>4. FoundIsThere'
  BY <1>2 DEF elementVars, BanInv, FoundIsThere, Prev
<1>5. ReadHasAged'
  BY DEF elementVars, BanInv, ReadHasAged, Rem, Late
<1> QED
  BY <1>1, <1>3, <1>4, <1>5 DEF BanInv

(* Every step of the playbook, the kernel and the host.                    *)
LEMMA BanStepKeeps ==
  ASSUME BanInv, [B!Next]_elementVars
  PROVE  BanInv'
<1>1. CASE UNCHANGED elementVars
  BY <1>1, BanRests
<1>2. CASE \E a \in BanActions : \/ \E ttl \in TTLs : B!ApplyRead(a, ttl)
                                 \/ B!ApplyRefused(a)
                                 \/ B!RollbackAsked(a)
  BY <1>2, ApplyReadKeeps, ApplyRefusedKeeps, BanRollbackAskedKeeps
<1>3. CASE \E done, ok \in BOOLEAN :
             \/ B!ApplyInstall(done, ok) \/ B!Restore(done, ok)
             \/ \E readable \in BOOLEAN : B!Delete(done, ok, readable)
  BY <1>3, ApplyInstallKeeps, RestoreKeeps, DeleteKeeps
<1>4. CASE \E readable \in BOOLEAN :
             B!Observe(readable) \/ B!Verify(readable) \/ B!RollbackRead(readable)
  BY <1>4, ObserveKeeps, BanVerifyKeeps, BanRollbackReadKeeps
<1>5. CASE B!Tick
  BY <1>5, BanTickKeeps
<1>6. CASE \E to \in {"ahead", "behind"} : B!ClockSet(to)
  BY <1>6, BanClockSetKeeps
<1>7. CASE B!Flush \/ B!HelperStops
  BY <1>7, FlushKeeps, HelperStopsKeeps
<1> QED
  BY <1>1, <1>2, <1>3, <1>4, <1>5, <1>6, <1>7 DEF B!Next

(* The other parts leave this one alone.                                   *)
LEMMA BanAlone ==
  ASSUME Next
  PROVE  [B!Next]_elementVars
BY DEF Next, Only

(* Every reachable state of the temporary bans.                            *)
LEMMA BanInvariant == Spec => []BanInv
<1>1. Init => BanInv
  BY BanBegins DEF Init
<1>2. BanInv /\ [Next]_<<part, elementVars, hardenVars, suspendVars, notifyVars, reportVars,
                         enrolVars, baselineVars, windowVars>> => BanInv'
  BY BanStepKeeps, BanAlone
<1> QED
  BY <1>1, <1>2, PTL DEF Spec

(* For every set of bans and lifetimes, any delay of a command and any     *)
(* setting of the clock: an address is blocked for as long as a ban in     *)
(* force says, and by no ban that is over                                  *)
(* (internal/action/temporary_ban.go).                                     *)
THEOREM BansHoldAndEnd == Spec => []BansAreExact
<1>1. ASSUME BanInv
      PROVE  B!NoGhostBan
  <2>1. SUFFICES ASSUME NEW a \in BanActions, Ghostly(a)
                 PROVE  el.gen # B!Generation(a)
    BY DEF B!NoGhostBan, Ghostly
  <2>2. PICK C \in SUBSET B!Generations, r \in [B!Generations -> Int] : Stack(C, r)
    BY <1>1 DEF BanInv, BansChained
  <2>3. B!Generation(a) # NoBan /\ B!Generation(a) \notin C
    BY <2>1, <2>2, Bearers DEF Stack
  <2>4. el.gen # NoBan => el.gen = Topmost /\ el.gen \in C
    BY <1>1, <2>2, TopIsElement DEF BanInv, FoundIsThere, Stack
  <2> QED
    BY <2>3, <2>4
<1>2. BanInv => BansAreExact
  BY <1>1, HeldNow DEF BansAreExact, B!BansAreExact
<1> QED
  BY <1>2, BanInvariant, PTL

(* For every set of bans and lifetimes, any delay of a command and any     *)
(* setting of the clock: the rollback of a ban never touches a newer one,  *)
(* and puts back what it had replaced for the time that one had left       *)
(* (internal/action/temporary_ban.go).                                     *)
THEOREM RollbackPutsBack == Spec => RollbackRestores
<1> DEFINE Kept == /\ el.gen \in {B!Generation(running.act), NoBan}
                   /\ running.pc = "restore" =>
                        /\ wall # "ahead" => el'.left >= was[el'.gen]
                        /\ el'.left <= was[el'.gen] + Lag + (IF wall = "behind" THEN BanJump ELSE 0)
<1>1. ASSUME BanInv, B!Next, running.pc \in {"restore", "delete"}, el' # el, running' = B!Idle
      PROVE  Kept
  <2>1. \/ \E done, ok \in BOOLEAN : B!Restore(done, ok)
        \/ \E done, ok, readable \in BOOLEAN : B!Delete(done, ok, readable)
    <3>1. ~(B!Tick \/ B!Flush)
      <4>1. B!Tick => running'.pc = running.pc
        BY <1>1, BanNothing DEF B!Tick, BanInv, BanType, Running
      <4>2. B!Flush => running'.pc = running.pc
        BY DEF B!Flush
      <4> QED
        BY <1>1, <4>1, <4>2, BanNothing
    <3>2. ~(\E done, ok \in BOOLEAN : B!ApplyInstall(done, ok))
      BY <1>1 DEF B!ApplyInstall
    <3> QED
      BY <1>1, <3>1, <3>2
         DEF B!Next, B!Keep, B!ApplyRead, B!ApplyRefused, B!RollbackAsked, B!Observe, B!Verify,
             B!RollbackRead, B!ClockSet, B!HelperStops
  <2>2. PICK a \in BanActions : a = running.act
    BY <1>1 DEF BanInv, RunningIsKnown
  <2>3. CASE running.pc = "delete"
    BY <1>1, <2>3 DEF BanInv, FoundIsThere
  <2>4. CASE running.pc = "restore"
    <3>1. el.gen \in {B!Generation(a), NoBan}
      <4>1. a \in Named /\ Topmost = a
        BY <1>1, <2>2, <2>4 DEF BanInv, RunningIsKnown, Topmost
      <4> QED
        BY <1>1, <2>4, <4>1, Bearers DEF BanInv, FoundIsThere
    <3>2. el' = [gen |-> bans[a].saved.prev, left |-> running.left]
      BY <1>1, <2>1, <2>2, <2>4 DEF B!Restore, B!Delete, B!Install, B!Keep
    <3>3. Prev(a) \in B!Generations
      BY <1>1, <2>2, <2>4, BanFields DEF BanInv, RunningIsKnown, Generation
    <3>4. /\ running.left <= was[Prev(a)] + running.spent + Late
          /\ wall # "ahead" => was[Prev(a)] <= running.left
      BY <1>1, <2>2, <2>4 DEF BanInv, ReadHasAged, Prev
    <3>5. /\ was[Prev(a)] \in Nat /\ running.left \in Nat /\ running.spent \in Nat
          /\ running.spent <= Lag /\ Lag \in Nat /\ Late \in Nat
      BY <1>1, <3>3, BanValues, BanAssumption DEF BanInv
    <3>6. el'.gen = Prev(a) /\ el'.left = running.left
      BY <3>2 DEF Prev
    <3>7. wall # "ahead" => el'.left >= was[el'.gen]
      BY <3>4, <3>5, <3>6
    <3>8. el'.left <= was[el'.gen] + Lag + Late
      BY <3>4, <3>5, <3>6
    <3> QED
      BY <2>2, <3>1, <3>7, <3>8 DEF Late
  <2> QED
    BY <1>1, <2>3, <2>4
<1>2. BanInv /\ [Next]_<<part, elementVars, hardenVars, suspendVars, notifyVars, reportVars,
                         enrolVars, baselineVars, windowVars>>
        => [running.pc \in {"restore", "delete"} /\ el' # el /\ running' = B!Idle => Kept]_(B!banVars)
  BY <1>1, BanAlone DEF elementVars, B!banVars
<1> QED
  BY <1>2, BanInvariant, PTL DEF Spec, RollbackRestores, B!RollbackRestores
=============================================================================
