----------------------------- MODULE DefenseWindow -----------------------------
(***************************************************************************)
(* The Controller's answer to one device's failed SSH logins               *)
(* (internal/store/security_events.go, internal/defense/correlator.go): a  *)
(* sliding window of failures per source, with a bounded number of rows    *)
(* and a cached count of them, the policy's decision, and the limits on    *)
(* the bans and simulated bans it may record.                              *)
(*                                                                         *)
(* Time is in ticks.  A failure is identified by its place in `heard`;     *)
(* delivering it again inserts nothing (a stuttering step).  What becomes  *)
(* of a ban is ActionLifecycle; here it is pending until it is over.       *)
(***************************************************************************)
EXTENDS Sequences, FiniteSetsExt, Integers

CONSTANTS
    Sources,        \* addresses
    Allowed,        \* of these, the ones on the allowlist
    Protected,      \* the ones no firewall change is made for; on an observer, all
    Windows,        \* windows an administrator may choose, in ticks
    Threshold,      \* failureThreshold
    MaxSamples,     \* MaxFailureThreshold, the samples a row keeps
    MaxRows,        \* maxSecurityEventWindowsPerDevice
    BanTime, Hour, CoolMax,             \* durations
    MaxBans,        \* maxBansPerHour
    MaxSims,        \* maxDefenseSimulationsPerHour
    MaxLiveSims,    \* maxActiveSimulationsPerDevice
    Ahead,          \* how far an event's time may lie in the future
    MaxEvents, MaxTime, MaxSaves        \* bounds of the model

VARIABLES
    now,
    policy,         \* in force (enabled, not stopped), auto ban, window, times saved
    rows,           \* security_event_windows: source -> window, samples, last seen
    cached,         \* window_count, -1 until first counted
    heard,          \* the failures delivered, in order: source, time of occurrence
    bans,           \* temporary_bans of this policy
    lost,           \* (history) lost[s]: failures forgotten by eviction or a new window
    last            \* (history) the last failure judged, until time moves on

vars == <<now, policy, rows, cached, heard, bans, lost, last>>

Nothing == [source |-> "none", count |-> 0, alarm |-> FALSE, present |-> 0]

(***************************************************************************)
(* The window.                                                             *)
(***************************************************************************)
At(i) == heard[i].at
Ends(row) == Max({At(i) : i \in row.samples}) + row.window
Expired == {s \in DOMAIN rows : Ends(rows[s]) <= now}
Without(f, S) == [s \in DOMAIN f \ S |-> f[s]]
AtLeast0(n) == IF n < 0 THEN 0 ELSE n

(* The newest n of the failures in K.                                      *)
Newest(K, at, n) ==
    IF Cardinality(K) <= n THEN K
    ELSE CHOOSE N \in kSubset(n, K) : \A i \in N, j \in K \ N : at[i] >= at[j]

\* Fault: a fixed window, begun anew once its first failure is too old.
FixedWindow(row, i, at) ==
    LET old == IF row.window = policy.window THEN row.samples ELSE {}
    IN  IF \E j \in old : at[j] < now - policy.window THEN {i}
        ELSE Newest(old \cup {i}, at, MaxSamples)

(* The samples of the source's row that are still in the window, and the   *)
(* new one.                                                                *)
Samples(row, i, at) ==
    LET old  == IF row.window = policy.window THEN row.samples ELSE {}
        kept == {j \in old : at[j] >= now - policy.window}
    IN  Newest(kept \cup {i}, at, MaxSamples)

(* securityEventWindowCountTx: counted once, then adjusted.                *)
Counted(count, table, new) ==
    IF count < 0 THEN Cardinality(DOMAIN table)
    ELSE IF new THEN count + 1 ELSE count

(* Which row is worth more: most failures, then seen last.                *)
Outranks(r, q) ==
    \/ Cardinality(r.samples) > Cardinality(q.samples)
    \/ /\ Cardinality(r.samples) = Cardinality(q.samples)
       /\ r.seen >= q.seen

(* The rows that stay when there are too many: the one being judged, and   *)
(* of the others those worth most.                                         *)
Survivors(table, s, count) ==
    LET others == DOMAIN table \ {s}
    IN  IF count <= MaxRows \/ Cardinality(others) <= MaxRows - 1 THEN {DOMAIN table}
        ELSE {K \cup {s} : K \in {K \in kSubset(MaxRows - 1, others) :
                  \A k \in K, o \in others \ K : Outranks(table[k], table[o])}}

(* incrementSecurityEventWindowTx.                                         *)
Increment(i, s, at) ==
    LET fresh == Without(rows, Expired)
        base  == IF cached < 0 THEN cached ELSE AtLeast0(cached - Cardinality(Expired))
        new   == s \notin DOMAIN fresh
        old   == IF new THEN [window |-> policy.window, samples |-> {}, seen |-> now]
                  ELSE fresh[s]
        kept  == Samples(old, i, at)
        row   == [window |-> policy.window, samples |-> kept, seen |-> now]
        table == [x \in DOMAIN fresh \cup {s} |-> IF x = s THEN row ELSE fresh[x]]
        count == Counted(base, table, new)
    IN \E K \in Survivors(table, s, count) :
         /\ rows' = [x \in K |-> table[x]]
         /\ cached' = IF count > MaxRows
                        THEN AtLeast0(count - Cardinality(DOMAIN table \ K)) ELSE count
         /\ lost' = [x \in Sources |->
                       IF x \in DOMAIN table \ K THEN 1..i ELSE lost[x]]
         /\ last' = [source |-> s, count |-> Cardinality(kept), alarm |-> count >= MaxRows,
                     present |-> Cardinality(DOMAIN table)]

(***************************************************************************)
(* The decision.                                                           *)
(***************************************************************************)
Real      == {b \in bans : ~b.simulated}
Simulated == {b \in bans : b.simulated}
Since(B, t) == {b \in B : b.at >= t}
Of(B, s)    == {b \in B : b.source = s}
Live(b)     == IF b.simulated THEN b.until > now ELSE b.pending

\* Fault: only bans that are still in force count towards the hour.
ExpiresByLive(s, count) ==
    /\ policy.on
    /\ s \notin Allowed
    /\ count >= Threshold
    /\ \A b \in Of(Real, s) : ~Live(b)
    /\ Cardinality({b \in Since(Real, now - Hour) : Live(b)}) < MaxBans

(* Evaluate: a threshold reached, no ban in force, the hourly limit kept.  *)
Expires(s, count) ==
    /\ policy.on
    /\ s \notin Allowed
    /\ count >= Threshold
    /\ \A b \in Of(Real, s) : ~Live(b)
    /\ Cardinality(Since(Real, now - Hour)) < MaxBans

Cooldown == IF policy.window > CoolMax THEN CoolMax ELSE policy.window

MaySimulate(s) ==
    /\ \A b \in Of(Simulated, s) : ~Live(b)
    /\ Cardinality(Since(Simulated, now - Hour)) < MaxSims
    /\ Cardinality({b \in Simulated : Live(b)}) < MaxLiveSims

MayBan(s) == Since(Of(Real, s), now - Cooldown) = {}

Decide(i, s, count) ==
    LET simulate == ~policy.auto \/ s \in Protected
        ban == [id |-> i, source |-> s, at |-> now, until |-> now + BanTime,
                simulated |-> simulate, pending |-> ~simulate]
        recorded == Expires(s, count) /\ (IF simulate THEN MaySimulate(s) ELSE MayBan(s))
    IN  bans' = IF recorded THEN bans \cup {ban} ELSE bans

(* ProcessSecurityEvent of a failure not seen before: counted when it is   *)
(* recent enough, then judged.                                             *)
Fail(s, t) ==
    LET i  == Len(heard) + 1
        at == [j \in 1..i |-> IF j = i THEN t ELSE At(j)]
    IN /\ i <= MaxEvents
       /\ heard' = Append(heard, [source |-> s, at |-> t])
       /\ IF t >= now - policy.window
            THEN Increment(i, s, at)
            ELSE /\ last' = Nothing
                 /\ UNCHANGED <<rows, cached, lost>>
       /\ Decide(i, s, last'.count)
       /\ UNCHANGED <<now, policy>>

(***************************************************************************)
(* The rest of the Controller.                                             *)
(***************************************************************************)
(* Maintain: rows whose window has closed, of every device.                *)
Maintain ==
    /\ rows' = Without(rows, Expired)
    /\ last' = Nothing
    /\ UNCHANGED <<now, policy, cached, heard, bans, lost>>

(* An administrator saves another policy: failures counted under another   *)
(* window are forgotten when the source is next judged.                    *)
SavePolicy ==
    /\ policy.saves < MaxSaves
    /\ \E auto \in BOOLEAN, w \in Windows :
         /\ <<auto, w>> # <<policy.auto, policy.window>>
         /\ policy' = [policy EXCEPT !.auto = auto, !.window = w, !.saves = @ + 1]
    /\ lost' = [s \in Sources |-> IF policy'.window = policy.window THEN lost[s]
                                  ELSE 1..Len(heard)]
    /\ last' = Nothing
    /\ UNCHANGED <<now, rows, cached, heard, bans>>

(* The policy is stopped, or started again.                                *)
EmergencyStop ==
    /\ policy.saves < MaxSaves
    /\ policy' = [policy EXCEPT !.on = ~@, !.saves = @ + 1]
    /\ last' = Nothing
    /\ UNCHANGED <<now, rows, cached, heard, bans, lost>>

(* A ban was refused, failed, ran out or was taken back.                   *)
BanOver ==
    /\ \E b \in Real : /\ b.pending
                       /\ bans' = (bans \ {b}) \cup {[b EXCEPT !.pending = FALSE]}
    /\ UNCHANGED <<now, policy, rows, cached, heard, lost, last>>

Tick ==
    /\ now < MaxTime
    /\ now' = now + 1
    /\ last' = Nothing
    /\ UNCHANGED <<policy, rows, cached, heard, bans, lost>>

Init ==
    /\ now = 1
    /\ \E auto \in BOOLEAN, w \in Windows :
         policy = [on |-> TRUE, auto |-> auto, window |-> w, saves |-> 0]
    /\ rows = <<>>
    /\ cached = -1
    /\ heard = <<>>
    /\ bans = {}
    /\ lost = [s \in Sources |-> {}]
    /\ last = Nothing

Next ==
    \/ \E s \in Sources, t \in 0..(now + Ahead) : Fail(s, t)
    \/ Maintain \/ SavePolicy \/ EmergencyStop \/ BanOver \/ Tick

Spec == Init /\ [][Next]_vars

(***************************************************************************)
(* Properties.                                                             *)
(***************************************************************************)
(* What a failure is judged by is the number of the source's failures in   *)
(* the window: an old one, or one of another source, never counts, however *)
(* late or out of order they arrive, and one in the window always does,    *)
(* unless its row was evicted or the window was changed since.  (A failure *)
(* exactly one window old counts or not, as its row happens to be there.)  *)
CountIsOfTheWindow ==
    LET s     == last.source
        Mine  == {i \in 1..Len(heard) : heard[i].source = s}
        Upper == {i \in Mine : At(i) >= now - policy.window}
        Lower == {i \in Mine \ lost[s] : At(i) > now - policy.window}
    IN  s \in Sources => /\ last.count <= Cardinality(Upper)
                         /\ last.count >= Min({MaxSamples, Cardinality(Lower)})

(* The table stays within its limit, and the source just judged is in it:  *)
(* a cached count that is too low would let it grow without end, and a     *)
(* full table would forget every new source at once.                       *)
TableIsBounded ==
    /\ Cardinality(DOMAIN rows) <= MaxRows
    /\ cached >= 0 => Cardinality(DOMAIN rows) <= cached
    /\ last.source \in Sources => last.source \in DOMAIN rows

(* Over any hour, not only the last one, no more bans than the policy      *)
(* allows and no more simulated ones than the audit limit; one source is   *)
(* not banned again within the cooldown, or simulated twice at once.       *)
BanRateHeld ==
    /\ \A t \in 1..now :
         /\ Cardinality({b \in Real : b.at \in (t - Hour)..t}) <= MaxBans
         /\ Cardinality({b \in Simulated : b.at \in (t - Hour)..t}) <= MaxSims
         /\ Cardinality({b \in Simulated : b.at <= t /\ t < b.until}) <= MaxLiveSims
    /\ \A b, c \in Real : b.source = c.source /\ b.id < c.id =>
         c.at > b.at + Min(Windows \cup {CoolMax})
    /\ \A b, c \in Simulated : b.source = c.source /\ b.id < c.id => c.at >= b.until

(* The state an attacker can make the Controller keep is bounded.          *)
LimitsAreKept == TableIsBounded /\ BanRateHeld

(* Correlation is reported degraded when the table is full (the text of    *)
(* the report, security_events.go:525).                                    *)
AlarmMeansFull == last.alarm => last.present >= MaxRows
=============================================================================
