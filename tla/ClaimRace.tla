----------------------------- MODULE ClaimRace -----------------------------
(***************************************************************************)
(* Several daemons and people compete for one issue through its assignees. *)
(*                                                                         *)
(* The tracker has no conditional write: a daemon assigns itself, reads    *)
(* the issue back, and, when it is not alone, reads the event log, where   *)
(* the longest-standing assignment wins.  Each request is a step of its    *)
(* own, each may fail with or without its effect, and a daemon may die     *)
(* between any two; a restarted one arbitrates over the same log.          *)
(*                                                                         *)
(* Sources: internal/tracker/github/adapter.go (Claim, wonRace, Release),  *)
(* internal/orchestrator/pipeline.go (beginClaim, onClaimed), signals.go   *)
(* (dispatch, reconcile, routable), recover.go and recover_classify.go.    *)
(***************************************************************************)
EXTENDS Naturals

CONSTANTS
    Daemons,        \* claim principals, one per daemon
    People,         \* other accounts
    None,           \* not an account
    MaxEvents,      \* bound: assignment events in the log
    MaxFaults       \* bound: failed requests and crashes

ASSUME PartiesAssumption ==
    /\ Daemons \cap People = {}
    /\ None \notin Daemons \cup People
    /\ MaxEvents \in Nat /\ MaxFaults \in Nat

VARIABLES
    open,       \* is the issue open
    assignees,  \* the issue's assignees
    since,      \* replayAssignments.held: the event of each standing assignment, 0 for none
    seen,       \* replayAssignments.seen: the accounts the log mentions
    last,       \* the id of the log's last event
    st,         \* where each daemon is with the issue
    snap,       \* the assignees its claim or recovery read
    faults,
    revoked,    \* history: a person unassigned the daemon since its claim or recovery began
    outside,    \* history: the standing assignment of the daemon was made by a person
    publisher   \* history: the daemon whose work is published and still claimed

tracker == <<open, assignees, since, seen, last>>
history == <<revoked, outside, publisher>>
vars    == <<tracker, st, snap, faults, history>>

Parties == Daemons \cup People

\* idle: no record.  assign, verify, race, unwind and yield are the stages of
\* Claim; releasing owes the release; holding is a live record, published a held
\* claim, parked a record that waits for a person; classify is a recovery
\* candidate that was listed; down is a daemon that is not running.
Stages  == {"idle", "assign", "verify", "race", "unwind", "yield", "releasing", "holding",
            "published", "parked", "classify", "down"}
Holders == {"holding", "published"}

-----------------------------------------------------------------------------
(* The tracker.                                                            *)

\* AddAssignees: assigning an assignee is no event.
AddAssignee(p) ==
    /\ assignees' = assignees \cup {p}
    /\ IF p \in assignees THEN UNCHANGED <<since, seen, last>>
       ELSE /\ last < MaxEvents
            /\ last' = last + 1
            /\ since' = [since EXCEPT ![p] = last + 1]
            /\ seen' = seen \cup {p}

\* RemoveAssignees: removing somebody who is not assigned is a no-op.
RemoveAssignee(p) ==
    /\ assignees' = assignees \ {p}
    /\ since' = [since EXCEPT ![p] = 0]
    /\ seen' = IF p \in assignees THEN seen \cup {p} ELSE seen
    /\ UNCHANGED last

Move(d, stage) == st' = [st EXCEPT ![d] = stage]
Fault          == faults < MaxFaults /\ faults' = faults + 1

-----------------------------------------------------------------------------
(* Arbitration: wonRace and arbitrateRecovery.                             *)

\* The log cannot account for an assignee: retention, or a transfer.
Unorderable(read) == \E p \in read : since[p] = 0 /\ p \notin seen

\* Of those read and still standing, d was assigned first; parties that have
\* withdrawn since the read do not count.
Wins(d, read) == since[d] > 0 /\ \A p \in read : since[p] > 0 => since[d] <= since[p]

-----------------------------------------------------------------------------
(* Claiming.                                                               *)

\* dispatch and beginClaim: a candidate read as open and unassigned, which it
\* need no longer be.
Poll(d) ==
    /\ st[d] = "idle" /\ open /\ assignees = {}
    /\ Move(d, "assign")
    /\ UNCHANGED <<tracker, snap, faults, history>>

\* Claim up to AddAssignees: refused before any request; answered, with or
\* without the effect; or failed after the request may have had it.
Assign(d) ==
    /\ st[d] = "assign"
    /\ \/ Move(d, "idle") /\ UNCHANGED <<tracker, faults, history>>
       \/ /\ \/ Move(d, "verify") /\ UNCHANGED faults
             \/ Move(d, "unwind") /\ Fault
          /\ \/ /\ AddAssignee(d)
                /\ outside' = [outside EXCEPT ![d] = d \in assignees /\ outside[d]]
                /\ UNCHANGED open
             \/ UNCHANGED <<tracker, outside>>
          /\ revoked' = [revoked EXCEPT ![d] = FALSE]
          /\ UNCHANGED publisher
    /\ UNCHANGED snap

\* Mutant: a read-back that shows us is taken for a claim, whoever else is there.
ReadBackContained(d) ==
    /\ st[d] = "verify"
    /\ IF d \in assignees THEN Move(d, "holding") ELSE Move(d, "idle")
    /\ UNCHANGED <<tracker, snap, faults, history>>

\* Claim's read-back: a read the budget refuses leaves the release to onClaimed,
\* one that fails unwinds here; then the assignees decide, or the race does.
ReadBack(d) ==
    /\ st[d] = "verify"
    /\ \/ Fault /\ (Move(d, "releasing") \/ Move(d, "unwind")) /\ UNCHANGED snap
       \/ d \notin assignees /\ Move(d, "idle") /\ UNCHANGED <<snap, faults>>
       \/ assignees = {d} /\ Move(d, "holding") /\ UNCHANGED <<snap, faults>>
       \/ /\ d \in assignees /\ assignees # {d}
          /\ Move(d, "race")
          /\ snap' = [snap EXCEPT ![d] = assignees]
          /\ UNCHANGED faults
    /\ UNCHANGED <<tracker, history>>

\* wonRace: an order that cannot be read or established yields.
Race(d) ==
    /\ st[d] = "race"
    /\ \/ Fault /\ Move(d, "yield")
       \/ /\ IF ~Unorderable(snap[d]) /\ Wins(d, snap[d]) THEN Move(d, "holding")
             ELSE Move(d, "yield")
          /\ UNCHANGED faults
    /\ UNCHANGED <<tracker, snap, history>>

Unassigned(d) ==
    /\ RemoveAssignee(d)
    /\ outside' = [outside EXCEPT ![d] = FALSE]
    /\ UNCHANGED <<open, revoked, publisher>>

\* The release in Claim after an error: onClaimed releases again either way.
Unwind(d) ==
    /\ st[d] = "unwind"
    /\ Move(d, "releasing")
    /\ \/ Unassigned(d) /\ UNCHANGED faults
       \/ Fault /\ UNCHANGED <<tracker, history>>
    /\ UNCHANGED snap

\* Mutant: a lost race is forgotten although its release failed.
YieldForgetting(d) ==
    /\ st[d] = "yield"
    /\ \/ Move(d, "idle") /\ Unassigned(d) /\ UNCHANGED faults
       \/ Move(d, "idle") /\ Fault /\ UNCHANGED <<tracker, history>>
    /\ UNCHANGED snap

\* The release of a lost race: one that fails is owed by the record.
Yield(d) ==
    /\ st[d] = "yield"
    /\ \/ Move(d, "idle") /\ Unassigned(d) /\ UNCHANGED faults
       \/ Move(d, "releasing") /\ Fault /\ (Unassigned(d) \/ UNCHANGED <<tracker, history>>)
    /\ UNCHANGED snap

\* release, the owed effect: retried until it is answered, though a request that
\* failed may have landed; the record goes with the answer.
Release(d) ==
    /\ st[d] = "releasing"
    /\ Unassigned(d)
    /\ \/ Move(d, "idle") /\ UNCHANGED faults
       \/ Fault /\ UNCHANGED st
    /\ UNCHANGED snap

-----------------------------------------------------------------------------
(* Holding.                                                                *)

\* reconcile: a run whose issue is closed or not ours alone is stopped, and its
\* claim released.
Reconcile(d) ==
    /\ st[d] = "holding"
    /\ ~open \/ assignees # {d}
    /\ Move(d, "releasing")
    /\ UNCHANGED <<tracker, snap, faults, history>>

\* done: the work is published and the claim kept, whoever else is assigned.
Publish(d) ==
    /\ st[d] = "holding"
    /\ Move(d, "published")
    /\ publisher' = IF d \in assignees /\ ~revoked[d] THEN d ELSE publisher
    /\ UNCHANGED <<tracker, snap, faults, revoked, outside>>

\* failed, which releases, or needs-review, which does not.
Fail(d) ==
    /\ st[d] = "holding"
    /\ Move(d, "releasing") \/ Move(d, "parked")
    /\ UNCHANGED <<tracker, snap, faults, history>>

\* sweepHeld: a held claim ends with its issue, or is dropped when it is not ours.
SweepHeld(d) ==
    /\ st[d] = "published"
    /\ \/ d \notin assignees /\ Move(d, "idle")
       \/ d \in assignees /\ ~open /\ Move(d, "releasing")
    /\ UNCHANGED <<tracker, snap, faults, history>>

\* onParkedConfirmed, and onTimerFetched once a person took the label off: the
\* claim is dropped, ended, resumed when it is ours alone, or released.
SweepParked(d) ==
    /\ st[d] = "parked"
    /\ \/ d \notin assignees /\ Move(d, "idle") /\ UNCHANGED publisher
       \/ /\ d \in assignees
          /\ IF open /\ assignees = {d} THEN Move(d, "holding") ELSE Move(d, "releasing")
          /\ publisher' = IF publisher = d THEN None ELSE publisher
    /\ revoked' = [revoked EXCEPT ![d] = FALSE]
    /\ UNCHANGED <<tracker, snap, faults, outside>>

-----------------------------------------------------------------------------
(* The crash and the restart.                                              *)

Crash(d) ==
    /\ st[d] \notin {"idle", "down"}
    /\ Fault
    /\ Move(d, "down")
    /\ UNCHANGED <<tracker, snap, history>>

\* Recover: ClaimedByPrincipal lists the issue, with its assignees.
Restart(d) ==
    /\ st[d] = "down"
    /\ IF d \in assignees
       THEN Move(d, "classify") /\ snap' = [snap EXCEPT ![d] = assignees]
       ELSE Move(d, "idle") /\ UNCHANGED snap
    /\ revoked' = [revoked EXCEPT ![d] = FALSE]
    /\ UNCHANGED <<tracker, faults, outside, publisher>>

\* Mutant: a contested claim is let go without arbitration.
ClassifyContestedReleases(d) ==
    /\ st[d] = "classify"
    /\ Move(d, IF ~open \/ snap[d] # {d} THEN "releasing"
               ELSE IF publisher = d THEN "published" ELSE "holding")
    /\ UNCHANGED <<tracker, snap, faults, history>>

\* classifyRecoveryTrackerGates over the log, which may be newer than the list:
\* closed releases, an order that cannot be established parks, another party's
\* earlier assignment releases, and an assignment that no longer stands parks.
Classify(d) ==
    /\ st[d] = "classify"
    /\ LET contested == snap[d] # {d}
           standing  == \E p \in snap[d] : since[p] > 0
       IN  Move(d, CASE ~open -> "releasing"
                     [] open /\ contested /\ (Unorderable(snap[d]) \/ ~standing) -> "parked"
                     [] open /\ contested /\ ~Unorderable(snap[d]) /\ standing
                          /\ ~Wins(d, snap[d]) -> "releasing"
                     [] open /\ ~contested /\ since[d] = 0 -> "parked"
                     [] OTHER -> IF publisher = d THEN "published" ELSE "holding")
    /\ UNCHANGED <<tracker, snap, faults, history>>

-----------------------------------------------------------------------------
(* People.                                                                 *)

\* A person assigns anybody; of an account that is not a daemon the log may
\* keep no event.
PersonAssigns(p) ==
    /\ p \notin assignees
    /\ \/ AddAssignee(p)
       \/ /\ p \in People
          /\ assignees' = assignees \cup {p}
          /\ UNCHANGED <<since, seen, last>>
    /\ outside' = IF p \in Daemons THEN [outside EXCEPT ![p] = TRUE] ELSE outside
    /\ UNCHANGED <<open, st, snap, faults, revoked, publisher>>

PersonUnassigns(p) ==
    /\ p \in assignees
    /\ RemoveAssignee(p)
    /\ IF p \in Daemons
       THEN /\ revoked' = [revoked EXCEPT ![p] = TRUE]
            /\ outside' = [outside EXCEPT ![p] = FALSE]
            /\ publisher' = IF publisher = p THEN None ELSE publisher
       ELSE UNCHANGED history
    /\ UNCHANGED <<open, st, snap, faults>>

PersonCloses ==
    /\ open /\ open' = FALSE
    /\ UNCHANGED <<assignees, since, seen, last, st, snap, faults, history>>

-----------------------------------------------------------------------------
Init ==
    /\ open = TRUE /\ assignees = {}
    /\ since = [p \in Parties |-> 0] /\ seen = {} /\ last = 0
    /\ st = [d \in Daemons |-> "idle"] /\ snap = [d \in Daemons |-> {}]
    /\ faults = 0
    /\ revoked = [d \in Daemons |-> FALSE] /\ outside = [d \in Daemons |-> FALSE]
    /\ publisher = None

Step(d) ==
    \/ Poll(d) \/ Assign(d) \/ ReadBack(d) \/ Race(d) \/ Unwind(d) \/ Yield(d) \/ Release(d)
    \/ Reconcile(d) \/ Publish(d) \/ Fail(d) \/ SweepHeld(d) \/ SweepParked(d)
    \/ Crash(d) \/ Restart(d) \/ Classify(d)

Next == \/ \E d \in Daemons : Step(d)
        \/ \E p \in Parties : PersonAssigns(p) \/ PersonUnassigns(p)
        \/ PersonCloses

Spec == Init /\ [][Next]_vars

-----------------------------------------------------------------------------
(* Properties.                                                             *)

TypeOK ==
    /\ open \in BOOLEAN
    /\ assignees \subseteq Parties /\ seen \subseteq Parties
    /\ since \in [Parties -> Nat] /\ last \in Nat
    /\ st \in [Daemons -> Stages] /\ snap \in [Daemons -> SUBSET Parties]
    /\ faults \in Nat
    /\ revoked \in [Daemons -> BOOLEAN] /\ outside \in [Daemons -> BOOLEAN]
    /\ publisher \in Daemons \cup {None}

\* At most one daemon works on the issue: two hold it at once only if a person
\* unassigned one of them meanwhile, whatever requests fail or daemons die.
AtMostOneHolder ==
    \A d, e \in Daemons : d # e /\ st[d] \in Holders /\ st[e] \in Holders =>
        revoked[d] \/ revoked[e]

\* Claim leaves the issue ours or not ours: a daemon with no record of the issue
\* is not assigned to it, unless a person assigned it.
NothingStray ==
    \A d \in Daemons : st[d] = "idle" /\ d \in assignees => outside[d]

\* Published work stays claimed while its issue is open: no two daemons that
\* recover a contested claim both let it go.
PublishedStaysClaimed == publisher # None /\ open => publisher \in assignees
=============================================================================
