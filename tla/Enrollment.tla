----------------------------- MODULE Enrollment -----------------------------
(* How a host becomes a device: the Agent's processes on one host and the   *)
(* identity they persist (agent/runner.go New, agent/client.go Enroll), the *)
(* two requests of the signed handshake (httpapi/admin_devices.go), and the *)
(* transactions that decide them (store/auth_devices.go).  An answer may be *)
(* lost after its transaction committed, a process may die between any two  *)
(* steps, and two installers may run at once.                               *)
(*                                                                           *)
(* Signatures are sound and secrets random: a challenge, a key or an agent  *)
(* token newly made is one that nobody holds.  Expiry has no clock: what is  *)
(* valid may lapse at any moment.                                            *)
EXTENDS FiniteSets, Naturals

CONSTANTS
    Procs,          \* Agent processes started on the host
    Keys,           \* identities the host may generate
    Tokens,         \* enrolment tokens
    Challenges,     \* challenge ids
    Creds,          \* agent tokens the Controller may mint
    None,           \* no key, no token, no challenge, no credential
    MaxUses,        \* uses a token allows
    PerKey,         \* outstanding challenges one identity may have (code: 16)
    PerToken        \* outstanding challenges of a token (code: 64; the cap on
                    \* all of them, 4096, is the same test on a larger set)

VARIABLES
    proc,           \* [Procs -> what the process is doing]
    disk,           \* state.json, pending-enrollment.json, the token file
    observer,       \* the -observer-only flag the processes are started with
    token,          \* rows of enrollment_tokens
    challenge,      \* rows of enrollment_challenges
    device          \* rows of devices, enrollment_identities and agent_tokens

vars == <<proc, disk, observer, token, challenge, device>>

Phases == {"idle", "pending", "generate", "ask", "prove", "save", "clean", "run"}

NoState == [key |-> None, cred |-> None, observer |-> FALSE]
NoDevice == [cred |-> None, token |-> None, status |-> "absent",
             observer |-> FALSE, action |-> "none"]
NoChallenge == [token |-> None, key |-> None, live |-> FALSE]
Resting == [at |-> "idle", key |-> None, token |-> None, challenge |-> None,
            cred |-> None]

(* Rows are never reused while anybody still holds what they named. *)
Fresh(c) == /\ challenge[c] = NoChallenge
            /\ \A p \in Procs : proc[p].challenge # c
Unheld(x) == /\ \A k \in Keys : device[k].cred # x
             /\ \A p \in Procs : proc[p].cred # x
             /\ disk.state.cred # x
Ungenerated(k) == /\ device[k] = NoDevice
                  /\ disk.pending # k /\ disk.state.key # k
                  /\ \A p \in Procs : proc[p].key # k
                  /\ \A c \in Challenges : challenge[c].key # k

Moves(p, row) == proc' = [proc EXCEPT ![p] = row]
Ends(p) == Moves(p, Resting)

(***************************************************************************)
(* The store's two transactions.                                           *)
(***************************************************************************)
Linked(k) == device[k] # NoDevice

(* A token admits a new identity while it has uses left and has not        *)
(* expired; the identity it enrolled may come back whatever became of both. *)
Admits(t) == token[t].uses < MaxUses /\ token[t].valid
\* Fault: the identity comes back only while the token still admits one.
RecoversWhileValid(k, t) == device[k].token = t /\ token[t].valid
Recovers(k, t) == device[k].token = t

Outstanding(t, keys) ==
    Cardinality({c \in Challenges :
        challenge[c].live /\ challenge[c].token = t /\ challenge[c].key \in keys})

(* What CreateEnrollmentChallenge accepts. *)
Challenged(k, t) ==
    /\ token[t].status = "issued"
    /\ IF Linked(k) THEN Recovers(k, t) ELSE Admits(t)
    /\ Outstanding(t, {k}) < PerKey
    /\ Outstanding(t, Keys) < PerToken

(* Expired rows are deleted in the same transaction as the new one is made. *)
CreateEnrollmentChallenge(c, k, t) ==
    challenge' = [d \in Challenges |->
        CASE d = c -> [token |-> t, key |-> k, live |-> TRUE]
          [] d # c /\ challenge[d].live -> challenge[d]
          [] OTHER -> NoChallenge]

Proven(c, k, t) ==
    /\ challenge[c] = [token |-> t, key |-> k, live |-> TRUE]
    /\ token[t].status = "issued"

(* A change of mode waits for the device's unfinished action commands. *)
Unfinished == {"queued", "started"}
MayChangeMode(k) == device[k].observer # observer => device[k].action \notin Unfinished

(* An identity that is linked gets its stored credential back; the one the *)
(* handler has just minted is dropped.  The policy's auto_ban, cleared when *)
(* the device becomes an observer, is not a part of this model.             *)
Relink(k) ==
    /\ device[k].status # "revoked"
    /\ MayChangeMode(k)
    /\ device' = [device EXCEPT
           ![k].status = "online", ![k].observer = observer]
    /\ UNCHANGED token

Answer(k, minted) == IF Linked(k) THEN device[k].cred ELSE minted

\* Fault: the uses left are tested at the challenge only.
LinkUnchecked(k, t, minted) ==
    /\ device' = [device EXCEPT ![k] =
           [cred |-> minted, token |-> t, status |-> "online",
            observer |-> observer, action |-> "none"]]
    /\ token' = [token EXCEPT ![t].uses = @ + 1]
Link(k, t, minted) ==
    /\ Admits(t)
    /\ device' = [device EXCEPT ![k] =
           [cred |-> minted, token |-> t, status |-> "online",
            observer |-> observer, action |-> "none"]]
    /\ token' = [token EXCEPT ![t].uses = @ + 1]

(* The challenge is used up by the transaction that decides on it, and only *)
(* by one that commits.                                                      *)
FinalizeEnrollment(c, k, t, minted) ==
    /\ Proven(c, k, t)
    /\ IF Linked(k) /\ Recovers(k, t) THEN Relink(k)
       ELSE ~Linked(k) /\ Link(k, t, minted)
    /\ challenge' = [challenge EXCEPT ![c] = NoChallenge]

(***************************************************************************)
(* A process of the Agent, from its start to its first heartbeat.          *)
(***************************************************************************)
(* LoadState; without a state file the token must be readable.  With one,  *)
(* the mode must be the one that was enrolled.                              *)
Start(p) ==
    /\ proc[p].at = "idle"
    /\ \/ /\ disk.state # NoState /\ disk.state.observer = observer
          /\ Moves(p, [Resting EXCEPT !.at = "run"])
       \/ /\ disk.state = NoState /\ disk.token # None
          /\ Moves(p, [Resting EXCEPT !.at = "pending", !.token = disk.token])
    /\ UNCHANGED <<disk, observer, token, challenge, device>>

(* An identity that was persisted before is used again. *)
LoadPending(p) ==
    /\ proc[p].at = "pending"
    /\ IF disk.pending = None THEN Moves(p, [proc[p] EXCEPT !.at = "generate"])
       ELSE Moves(p, [proc[p] EXCEPT !.at = "ask", !.key = disk.pending])
    /\ UNCHANGED <<disk, observer, token, challenge, device>>

GenerateIdentity(p) ==
    /\ proc[p].at = "generate"
    /\ \E k \in Keys : /\ Ungenerated(k)
                       /\ disk' = [disk EXCEPT !.pending = k]
                       /\ Moves(p, [proc[p] EXCEPT !.at = "ask", !.key = k])
    /\ UNCHANGED <<observer, token, challenge, device>>

(* The first request, its answer received or lost. *)
Ask(p, answered) ==
    /\ proc[p].at = "ask"
    /\ LET k == proc[p].key  t == proc[p].token IN
       \E c \in Challenges :
          /\ Fresh(c) /\ Challenged(k, t)
          /\ CreateEnrollmentChallenge(c, k, t)
          /\ IF answered
             THEN Moves(p, [proc[p] EXCEPT !.at = "prove", !.challenge = c])
             ELSE Ends(p)
    /\ UNCHANGED <<disk, observer, token, device>>

AskRefused(p) ==
    /\ proc[p].at = "ask" /\ ~Challenged(proc[p].key, proc[p].token)
    /\ Ends(p)
    /\ UNCHANGED <<disk, observer, token, challenge, device>>

(* The second request: the whole decision is one transaction. *)
Prove(p, answered) ==
    /\ proc[p].at = "prove"
    /\ LET k == proc[p].key  t == proc[p].token IN
       \E minted \in Creds :
          /\ Unheld(minted)
          /\ FinalizeEnrollment(proc[p].challenge, k, t, minted)
          /\ IF answered
             THEN Moves(p, [proc[p] EXCEPT !.at = "save", !.challenge = None,
                                           !.cred = Answer(k, minted)])
             ELSE Ends(p)
    /\ UNCHANGED <<disk, observer>>

ProveRefused(p) ==
    LET k == proc[p].key  t == proc[p].token IN
    /\ proc[p].at = "prove"
    /\ \/ ~Proven(proc[p].challenge, k, t)
       \/ Linked(k) /\ ~Recovers(k, t)
       \/ Linked(k) /\ (device[k].status = "revoked" \/ ~MayChangeMode(k))
       \/ ~Linked(k) /\ ~Admits(t)
    /\ Ends(p)
    /\ UNCHANGED <<disk, observer, token, challenge, device>>

(* The state file is renamed into place; a directory sync that fails makes *)
(* the start an error all the same.                                         *)
Save(p, synced) ==
    /\ proc[p].at = "save"
    /\ disk' = [disk EXCEPT !.state =
           [key |-> proc[p].key, cred |-> proc[p].cred, observer |-> observer]]
    /\ IF synced THEN Moves(p, [proc[p] EXCEPT !.at = "clean"]) ELSE Ends(p)
    /\ UNCHANGED <<observer, token, challenge, device>>

(* The pending identity and, when it is consumed, the token file go last. *)
Clean(p) ==
    /\ proc[p].at = "clean"
    /\ \E consumed \in {disk.token, None} :
          disk' = [disk EXCEPT !.pending = None, !.token = consumed]
    /\ Moves(p, [Resting EXCEPT !.at = "run"])
    /\ UNCHANGED <<observer, token, challenge, device>>

Dies(p) ==
    /\ proc[p].at # "idle" /\ Ends(p)
    /\ UNCHANGED <<disk, observer, token, challenge, device>>

(***************************************************************************)
(* The operator and the administrator.                                     *)
(***************************************************************************)
CreateToken(t) ==
    /\ token[t].status = "absent"
    /\ token' = [token EXCEPT ![t].status = "issued", ![t].valid = TRUE]
    /\ UNCHANGED <<proc, disk, observer, challenge, device>>

RevokeToken(t) ==
    /\ token[t].status = "issued"
    /\ token' = [token EXCEPT ![t].status = "revoked"]
    /\ UNCHANGED <<proc, disk, observer, challenge, device>>

TokenLapses(t) ==
    /\ token[t].valid
    /\ token' = [token EXCEPT ![t].valid = FALSE]
    /\ UNCHANGED <<proc, disk, observer, challenge, device>>

ChallengeLapses(c) ==
    /\ challenge[c].live
    /\ challenge' = [challenge EXCEPT ![c].live = FALSE]
    /\ UNCHANGED <<proc, disk, observer, token, device>>

(* A token file is put on the host; the data directory is cleared, or only *)
(* the state file, to enrol again in another mode.                          *)
Provide(t) ==
    /\ token[t].status # "absent" /\ disk.token # t
    /\ disk' = [disk EXCEPT !.token = t]
    /\ UNCHANGED <<proc, observer, token, challenge, device>>

Reconfigure ==
    /\ \A p \in Procs : proc[p].at = "idle"
    /\ \E pending \in {disk.pending, None} :
          disk' = [disk EXCEPT !.state = NoState, !.pending = pending]
    /\ observer' \in BOOLEAN
    /\ UNCHANGED <<proc, token, challenge, device>>

RevokeDevice(k) ==
    /\ Linked(k) /\ device[k].status # "revoked"
    /\ device' = [device EXCEPT ![k].status = "revoked",
                                ![k].action = IF @ \in Unfinished THEN "none" ELSE @]
    /\ UNCHANGED <<proc, disk, observer, token, challenge>>

(* The mode is asked for when an action is drafted and when its command    *)
(* starts; approveAction queues the command without looking at it, so a    *)
(* draft may outlive the mode it was made in.                               *)
CreateAction(k) ==
    /\ Linked(k) /\ ~device[k].observer /\ device[k].action = "none"
    /\ device' = [device EXCEPT ![k].action = "draft"]
    /\ UNCHANGED <<proc, disk, observer, token, challenge>>

ApproveActionAndEnqueue(k) ==
    /\ device[k].action = "draft"
    /\ device' = [device EXCEPT ![k].action = "queued"]
    /\ UNCHANGED <<proc, disk, observer, token, challenge>>

Gated(k) == IF device[k].observer THEN "none" ELSE "started"
StartActionCommand(k) ==
    /\ device[k].status = "online" /\ device[k].action = "queued"
    /\ device' = [device EXCEPT ![k].action = Gated(k)]
    /\ UNCHANGED <<proc, disk, observer, token, challenge>>

(* A draft or a command lapses, or its result arrives. *)
ActionEnds(k) ==
    /\ device[k].action # "none"
    /\ device' = [device EXCEPT ![k].action = "none"]
    /\ UNCHANGED <<proc, disk, observer, token, challenge>>

(***************************************************************************)
Init ==
    /\ proc = [p \in Procs |-> Resting]
    /\ disk = [state |-> NoState, pending |-> None, token |-> None]
    /\ observer = FALSE
    /\ token = [t \in Tokens |-> [status |-> "absent", uses |-> 0, valid |-> FALSE]]
    /\ challenge = [c \in Challenges |-> NoChallenge]
    /\ device = [k \in Keys |-> NoDevice]

Agent(p) ==
    \/ Start(p) \/ LoadPending(p) \/ GenerateIdentity(p) \/ Ask(p, TRUE)
    \/ AskRefused(p) \/ Prove(p, TRUE) \/ ProveRefused(p) \/ Save(p, TRUE) \/ Clean(p)

Faulty(p) == Ask(p, FALSE) \/ Prove(p, FALSE) \/ Save(p, FALSE) \/ Dies(p)

Operator ==
    \/ Reconfigure
    \/ \E t \in Tokens : CreateToken(t) \/ RevokeToken(t) \/ TokenLapses(t) \/ Provide(t)
    \/ \E k \in Keys : RevokeDevice(k) \/ CreateAction(k) \/ ApproveActionAndEnqueue(k)
                    \/ StartActionCommand(k) \/ ActionEnds(k)

Next ==
    \/ \E p \in Procs : Agent(p) \/ Faulty(p)
    \/ \E c \in Challenges : ChallengeLapses(c)
    \/ Operator

Spec == Init /\ [][Next]_vars

(* A service manager starts the Agent again whenever it has ended; no      *)
(* process dies, and no answer is lost, at the same place for ever.         *)
(* Challenges expire after five minutes, action commands by their lease.    *)
Fairness ==
    /\ \A p \in Procs :
          /\ SF_vars(Start(p)) /\ SF_vars(LoadPending(p)) /\ SF_vars(Ask(p, TRUE))
          /\ SF_vars(Prove(p, TRUE)) /\ SF_vars(Save(p, TRUE)) /\ WF_vars(Agent(p))
    /\ \A c \in Challenges : WF_vars(ChallengeLapses(c))
    /\ \A k \in Keys : WF_vars(ActionEnds(k))

FairSpec == Spec /\ Fairness

(***************************************************************************)
(* A token's use count is the number of identities it enrolled and stays   *)
(* within its limit, whatever was lost, repeated or run in parallel: a      *)
(* second finalisation of one identity costs no use.                        *)
UsesAreDevices ==
    \A t \in Tokens :
        /\ token[t].uses = Cardinality({k \in Keys : device[k].token = t})
        /\ token[t].uses <= MaxUses

(* Whatever credential a process is about to save, or the host has saved,  *)
(* is the one the Controller knows for that identity: parallel and repeated *)
(* enrolments never hand out credentials that invalidate one another.       *)
CredentialWorks ==
    /\ disk.state # NoState => device[disk.state.key].cred = disk.state.cred
    /\ \A p \in Procs : proc[p].at \in {"save", "clean"} =>
                            device[proc[p].key].cred = proc[p].cred

(* No action that was let through the gate is at work on a device in       *)
(* observer mode: the mode changes only when no command is left, and what   *)
(* is queued afterwards, from a draft made before, is stopped at the gate.  *)
ObserverNeverActs == \A k \in Keys : device[k].observer => device[k].action # "started"

(* An enrolment the Controller has committed for the identity the host     *)
(* still keeps is never lost: the host gets its state file at last, unless  *)
(* somebody revokes the token or the device, replaces the token file, clears *)
(* the data directory or changes the mode, for which the device's actions   *)
(* must have ended.                                                          *)
Withdrawn(k) ==
    \/ device[k].status = "revoked" \/ disk.pending # k
    \/ disk.token # device[k].token \/ device[k].observer # observer
    \/ device[k].token # None /\ token[device[k].token].status = "revoked"

EnrolmentIsNotLost ==
    \A k \in Keys :
        (Linked(k) /\ disk.pending = k) ~> (disk.state.key = k \/ Withdrawn(k))

(* The tables and the host's files agree on who is enrolled and how.       *)
EnrolmentIsSound == UsesAreDevices /\ CredentialWorks /\ ObserverNeverActs
=============================================================================
