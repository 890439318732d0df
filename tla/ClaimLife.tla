----------------------------- MODULE ClaimLife -----------------------------
(***************************************************************************)
(* The life of a claim on one issue across crashes of the daemon.          *)
(*                                                                         *)
(* A claim is spread over four places no write covers at once: the         *)
(* tracker's log (assignment and ben: labels), the claim base and the run  *)
(* marker on disk, and the agent itself, which survives the daemon.  The   *)
(* daemon walks them in a fixed order, one request or file at a time, and  *)
(* may die between any two; people change the issue at any moment.  The    *)
(* next daemon decides with the operators of Recovery.                     *)
(*                                                                         *)
(* Each step of the daemon is one turn of its loop with the goroutine it   *)
(* waited for; RunRecord has the turns in full and RunMarker the marker.   *)
(*                                                                         *)
(* Sources: internal/orchestrator/recover.go, pipeline.go, parked.go,      *)
(* held.go, orchestrator.go (projections), tracker/github/adapter.go       *)
(* (SetStateLabels, Release), workspace/claimbase.go and workspace.go.     *)
(***************************************************************************)
EXTENDS Recovery

CONSTANTS
    MaxRuns,        \* bound: launches over the behaviour (the attempt budget)
    MaxCrashes,     \* bound: daemon crashes
    MaxGestures,    \* bound: changes people make to the issue
    MaxClaims,      \* bound: assignments, the daemon's and people's
    MaxLag,         \* bound: effects the pipeline may run ahead of
    MaxLog,         \* bound: log length up to which a re-classification overtakes a write
    Gestures        \* which kinds of change people make

ASSUME BoundsAssumption ==
    /\ {MaxRuns, MaxCrashes, MaxGestures, MaxClaims, MaxLag, MaxLog} \subseteq Nat
    /\ Gestures \subseteq {"unassign", "assign", "close", "reopen", "unlabel", "label",
                           "requeue", "join"}   \* join: another assignee comes or goes

VARIABLES
    log,        \* the issue's events
    queued,     \* does the issue carry the workflow's required labels
    company,    \* another assignee: none, one assigned earlier or later than us, or one
                \* the log does not show
    base,       \* the claim base on disk
    marker,     \* the run marker on disk: its state and the launch it names
    agents,     \* the agents alive: launch number and the epoch each works for
    published,  \* the epoch whose work has a pull request (0: none)
    up,         \* is a daemon running
    rec,        \* its record of the issue
    owed,       \* the effects the record owes, in order
    launches,   \* launches so far
    crashes, gestures,
    launchedIn, \* history: the epochs an agent was launched in
    awaiting    \* history: a parked record's ben:needs-review was projected, with its base
                \* pinned, and no person removed it

disk  == <<base, marker>>
world == <<agents, published, launches, launchedIn>>
vars  == <<log, queued, company, base, marker, agents, published, up, rec, owed,
           launches, crashes, gestures, launchedIn, awaiting>>

\* State, with Queued split by how far the claim has come, Preparing by the call
\* that is out, and rebasing for a Backoff with claimBaseDispatch.
States == {"none", "verified", "approved", "claimed", "rebasing", "preparing", "starting", "launching",
           "running", "verifying", "backoff", "parked", "failed", "done", "held",
           "releasing", "dropping", "unclassified"}

\* epoch is Record.claimEpoch; fault is epochFaulted; run is the launch in hand;
\* recovered is TRUE from a recovery verdict to the first launch after it.
Record(state, epoch) ==
    [state |-> state, epoch |-> epoch, fault |-> FALSE, run |-> 0, recovered |-> FALSE]
NoRecord == Record("none", 0)

Anchor   == ClaimCycleAnchor(log)
Assigned == Anchor > 0
Own(l, e) == e > 0 /\ l[e].subject = "ben"     \* the assignment the daemon itself made
Open     == ~\E i \in DOMAIN log : /\ log[i].kind = "closed"
                                   /\ \A j \in DOMAIN log : j > i => log[j].kind # "reopened"
\* active and routable: open, in the partition, and assigned to us alone.
Routable == Open /\ queued /\ Assigned /\ company = "none"
Claims   == Cardinality({i \in DOMAIN log : log[i].kind = "assigned"})

Append1(kind, subject) == log' = Append(log, Event(kind, subject))

-----------------------------------------------------------------------------
(* Owed effects.                                                           *)

\* A set-label write knows the labels it has yet to remove once its first
\* request has answered.  An orphan is in flight for a record already forgotten.
Owe(op, want)  == [op |-> op, want |-> want, sent |-> FALSE, stale |-> {}, orphan |-> FALSE]
Settled        == \A i \in DOMAIN owed : owed[i].orphan
SetLabel(want) == Owe("set", want)
ReleaseOwed    == <<Owe("abandon", "none"), Owe("release", "none")>>

\* stateLabel: the label a state is projected as.
StateLabel(state) ==
    CASE state \in {"claimed", "rebasing", "preparing", "starting", "launching", "verifying",
                    "backoff"} -> "claimed"
      [] state = "running" -> "running"
      [] state = "parked"  -> "needs-review"
      [] state = "failed"  -> "failed"
      [] OTHER             -> "none"

\* transition: a state whose label differs from the one it is left for owes the
\* projection.
Entering(state) ==
    /\ rec' = [rec EXCEPT !.state = state]
    /\ owed' = IF StateLabel(state) = StateLabel(rec.state) THEN owed
               ELSE Append(owed, SetLabel(StateLabel(state)))

\* The write that tells people a record with a pinned base is parked.
Parks(w) == ~w.orphan /\ w.want = "needs-review" /\ rec.state = "parked" /\ base = PinnedBase(rec.epoch)

\* projectLabel: the wanted label goes on first, and the answer lists the rest;
\* for no label the list is read.
ProjectLabel ==
    /\ owed # <<>> /\ Head(owed).op = "set" /\ ~Head(owed).sent
    /\ LET w == Head(owed)
       IN  /\ owed' = [owed EXCEPT ![1] = [w EXCEPT !.sent = TRUE,
                                                    !.stale = LabelsOf(log) \ {w.want}]]
           /\ IF w.want = "none" \/ w.want \in LabelsOf(log)
              THEN UNCHANGED <<log, awaiting>>
              ELSE /\ Append1("labeled", w.want)
                   /\ awaiting' = (awaiting \/ Parks(w))
    /\ UNCHANGED <<queued, company, disk, world, up, rec, crashes, gestures>>

\* The rest of SetStateLabels: each other state label comes off, one request
\* each; one that is gone already is not an error.
RemoveStaleLabel ==
    /\ owed # <<>> /\ Head(owed).op = "set" /\ Head(owed).sent
    /\ \E l \in Head(owed).stale :
          /\ owed' = [owed EXCEPT ![1].stale = @ \ {l}]
          /\ IF l \in LabelsOf(log) THEN Append1("unlabeled", l) ELSE UNCHANGED log
    /\ UNCHANGED <<queued, company, disk, world, up, rec, crashes, gestures, awaiting>>

\* A request of the write fails: the effect is retried from its start, unless
\* nobody owes it any more.
WriteFails ==
    /\ owed # <<>> /\ Head(owed).sent
    /\ owed' = IF Head(owed).orphan THEN Tail(owed)
               ELSE [owed EXCEPT ![1] = [@ EXCEPT !.sent = FALSE, !.stale = {}]]
    /\ UNCHANGED <<log, queued, company, disk, world, up, rec, crashes, gestures, awaiting>>

WriteDone ==
    /\ owed # <<>> /\ Head(owed).op = "set" /\ Head(owed).sent /\ Head(owed).stale = {}
    /\ owed' = Tail(owed)
    /\ UNCHANGED <<log, queued, company, disk, world, up, rec, crashes, gestures, awaiting>>

\* AbandonPendingClaimBase, on the effect queue ahead of the release.
AbandonBase ==
    /\ owed # <<>> /\ Head(owed).op = "abandon"
    /\ base' = AbandonPendingClaimBase(base)
    /\ owed' = Tail(owed)
    /\ UNCHANGED <<log, queued, company, marker, world, up, rec, crashes, gestures, awaiting>>

\* releaseAs, once everything owed before it has landed; the record is dropped
\* when it answers.
ReleaseClaim ==
    /\ owed # <<>> /\ Head(owed).op = "release"
    /\ IF Assigned THEN Append1("unassigned", "ben") ELSE UNCHANGED log
    /\ rec' = NoRecord
    /\ owed' = <<>>
    /\ awaiting' = FALSE
    /\ UNCHANGED <<queued, company, disk, world, up, crashes, gestures>>

-----------------------------------------------------------------------------
(* The pipeline.                                                           *)

Still == UNCHANGED <<queued, company, up, crashes, gestures>>

\* finishNow and release: the pending base is abandoned, then the claim released.
\* The labels stay as the projections already owed leave them.
Finish ==
    /\ rec' = [rec EXCEPT !.state = "releasing"]
    /\ owed' = owed \o ReleaseOwed

\* enterEpochFault.
EnterEpochFault ==
    /\ rec' = [rec EXCEPT !.state = "parked", !.fault = TRUE]
    /\ owed' = Append(owed, SetLabel("needs-review"))

\* dispatch, beginClaim and a Claim that verified (ClaimRace has the race).
Claim ==
    /\ rec.state = "none"
    /\ Open /\ queued /\ company = "none" /\ ~Assigned /\ LabelsOf(log) = {}
    /\ Claims < MaxClaims
    /\ Append1("assigned", "ben")
    /\ rec' = Record("verified", 0)
    /\ UNCHANGED <<disk, world, owed, awaiting>> /\ Still

\* beginApproval and onApproved: content nobody approved parks; otherwise the
\* epoch is the standing assignment's event.
OnApproved ==
    /\ rec.state = "verified"
    /\ \/ Entering("parked")
       \/ /\ Assigned
          /\ rec' = [rec EXCEPT !.state = "approved", !.epoch = Anchor]
          /\ UNCHANGED owed
       \/ ~Assigned /\ EnterEpochFault
    /\ UNCHANGED <<log, disk, world, awaiting>> /\ Still

\* beginClaimBase and onClaimBaseBegun: the pending intent is durable before
\* ben:claimed is owed; a re-dispatch has its label and prepares at once.
OnClaimBaseBegun ==
    /\ rec.state \in {"approved", "rebasing"}
    /\ base' = BeginClaimBase(base, rec.epoch)
    /\ IF BeginsClaimBase(base, rec.epoch)
       THEN Entering(IF rec.state = "rebasing" THEN "preparing" ELSE "claimed")
       ELSE EnterEpochFault
    /\ UNCHANGED <<log, marker, world, awaiting>> /\ Still

\* Mutant: the workspace is prepared before ben:claimed has landed.
OnClaimProjectedEarly ==
    /\ rec.state = "claimed"
    /\ rec' = [rec EXCEPT !.state = "preparing"]
    /\ UNCHANGED <<log, disk, world, owed, awaiting>> /\ Still

\* onClaimProjected.
OnClaimProjected ==
    /\ rec.state = "claimed" /\ Settled
    /\ rec' = [rec EXCEPT !.state = "preparing"]
    /\ UNCHANGED <<log, disk, world, owed, awaiting>> /\ Still

\* enterBackoff, or the terminal failure once the attempts are spent.
BackOffOrFail ==
    \/ /\ launches < MaxRuns /\ Entering("backoff")
    \/ /\ rec' = [rec EXCEPT !.state = "failed"]
       /\ owed' = owed \o <<SetLabel("failed")>> \o ReleaseOwed

\* failLaunch: a failure nobody can retry away parks.
FailLaunch == BackOffOrFail \/ Entering("parked")

\* prepare and onPrepared: the pending base is pinned before any hook runs; a
\* hook or fetch that fails costs the attempt, with or without the pin.
OnPrepared ==
    /\ rec.state = "preparing"
    /\ IF ~PrepareAllowed(base, rec.epoch)
       THEN EnterEpochFault /\ UNCHANGED base
       ELSE \/ /\ base' = PinnedBase(rec.epoch)
               /\ rec' = [rec EXCEPT !.state = "starting"]
               /\ UNCHANGED owed
            \/ /\ base' \in {base, PinnedBase(rec.epoch)}
               /\ FailLaunch
    /\ UNCHANGED <<log, marker, world, awaiting>> /\ Still

\* BeginRunMarkerFor, over whatever marker is there; a marker that cannot be
\* written launches nothing.
BeginRunMarker ==
    /\ rec.state = "starting"
    /\ \/ /\ launches < MaxRuns
          /\ launches' = launches + 1
          /\ marker' = [state |-> "unknown_launch", by |-> launches']
          /\ rec' = [rec EXCEPT !.state = "launching", !.run = launches']
          /\ UNCHANGED owed
       \/ FailLaunch /\ UNCHANGED <<launches, marker>>
    /\ UNCHANGED <<log, base, agents, published, launchedIn, awaiting>> /\ Still

\* runner.Start: the evidence is recorded, the agent released, and the record
\* runs; or nothing was launched and the marker is removed.
OnStarted ==
    /\ rec.state = "launching"
    /\ \/ /\ marker' = [state |-> "identified", by |-> rec.run]
          /\ agents' = agents \cup {[run |-> rec.run, epoch |-> rec.epoch]}
          /\ launchedIn' = launchedIn \cup {rec.epoch}
          /\ rec' = [rec EXCEPT !.state = "running", !.recovered = FALSE]
          /\ owed' = Append(owed, SetLabel("running"))
       \/ /\ marker' = [state |-> "absent", by |-> 0]
          /\ FailLaunch
          /\ UNCHANGED <<agents, launchedIn>>
    /\ UNCHANGED <<log, base, published, launches, awaiting>> /\ Still

\* Mutant: the outcome is applied before the domain is quiet.
OnRunEndedUnconfirmed ==
    /\ rec.state = "running"
    /\ Entering("verifying") \/ BackOffOrFail \/ Entering("parked")
    /\ UNCHANGED <<log, disk, world, awaiting>> /\ Still

\* The run has ended and its domain is quiet: the marker goes, then the outcome
\* is verified, retried or refused.
OnRunEnded ==
    /\ rec.state = "running"
    /\ \A a \in agents : a.run # rec.run
    /\ marker' = [state |-> "absent", by |-> 0]
    /\ \/ Entering("verifying")
       \/ BackOffOrFail
       \/ Entering("parked")
    /\ UNCHANGED <<log, base, world, awaiting>> /\ Still

\* onVerified.
OnVerified ==
    /\ rec.state = "verifying"
    /\ IF published = rec.epoch
       THEN Entering("done")
       ELSE Entering("parked") \/ BackOffOrFail
    /\ UNCHANGED <<log, disk, world, awaiting>> /\ Still

\* reconcile, stopAndFinish: an issue that is closed, contested or no longer ours
\* ends the record: the call that is out is waited for, the agent is stopped and
\* confirmed gone, and the claim released.
Reconcile ==
    /\ rec.state \in {"verified", "approved", "claimed", "rebasing", "preparing", "running",
                      "verifying", "backoff"}
    /\ ~Routable
    /\ IF rec.state = "running"
       THEN /\ agents' = {a \in agents : a.run # rec.run}
            /\ marker' = [state |-> "absent", by |-> 0]
       ELSE UNCHANGED <<agents, marker>>
    /\ base' = CASE rec.state \in {"approved", "rebasing"} -> BeginClaimBase(base, rec.epoch)
                 [] rec.state = "preparing" /\ PrepareAllowed(base, rec.epoch) -> PinnedBase(rec.epoch)
                 [] OTHER -> base
    /\ Finish
    /\ UNCHANGED <<log, published, launches, launchedIn, awaiting>> /\ Still

\* onTimerFetched: the gates of a re-dispatch, in their order.
OnTimerFetched ==
    /\ rec.state = "backoff"
    /\ LET gate == ClaimBaseGate(base, Anchor, marker.state, RunningEvidence(log, Anchor))
       IN  \/ ~Routable /\ Finish
           \/ Routable /\ Entering("parked")          \* content nobody approved
           \/ /\ Routable /\ rec.epoch = 0
              /\ rec' = [rec EXCEPT !.state = "rebasing", !.epoch = Anchor]
              /\ UNCHANGED owed
           \/ /\ Routable /\ rec.epoch = Anchor /\ ~gate.fault
              /\ Entering("preparing")
           \/ /\ Routable /\ rec.epoch # 0
              /\ rec.epoch # Anchor \/ gate.fault
              /\ EnterEpochFault
    /\ UNCHANGED <<log, disk, world, awaiting>> /\ Still

\* onParkedConfirmed and applyParked: an issue no longer ours is dropped, a closed
\* one ends the claim, and one whose state label a person took off, with no
\* projection owed, is resumed; an epoch fault is projected again instead.
OnParkedConfirmed ==
    /\ rec.state = "parked"
    /\ \/ /\ ~Assigned
          /\ rec' = [rec EXCEPT !.state = "dropping"]
          /\ owed' = Append(owed, Owe("abandon", "none"))
       \/ Assigned /\ ~Open /\ Finish
       \/ /\ Assigned /\ Open /\ Settled /\ LabelsOf(log) = {}
          /\ IF rec.fault
             THEN owed' = Append(owed, SetLabel("needs-review")) /\ UNCHANGED rec
             ELSE Entering("backoff")
    /\ UNCHANGED <<log, disk, world, awaiting>> /\ Still

\* effectForget: a record with no claim left to release goes once nothing is owed.
Forget ==
    /\ rec.state = "dropping" /\ Settled
    /\ rec' = NoRecord
    /\ UNCHANGED <<log, disk, world, owed, awaiting>> /\ Still

\* driveHold and onClaimAnchor: a finished run keeps its claim, with nothing
\* owed, until its issue is closed.
ConvertToHeld ==
    /\ rec.state = "done" /\ Settled
    /\ rec' = IF Assigned THEN [rec EXCEPT !.state = "held", !.epoch = Anchor] ELSE NoRecord
    /\ UNCHANGED <<log, disk, world, owed, awaiting>> /\ Still

\* sweepHeld and classifyHeld: a held claim ends when its issue is closed, was
\* closed in the current cycle, leaves the partition, or is no longer ours.
SweepHeld ==
    /\ rec.state = "held"
    /\ \/ /\ Assigned
          /\ ~Open \/ ~queued \/ ClosedInCycle(log, Anchor)
          /\ rec' = [rec EXCEPT !.state = "releasing"]
          /\ owed' = Append(owed, Owe("release", "none"))
       \/ /\ ~Assigned
          /\ rec' = NoRecord
          /\ UNCHANGED owed
    /\ UNCHANGED <<log, disk, world, awaiting>> /\ Still

-----------------------------------------------------------------------------
(* The crash and the restart.                                              *)

\* kill -9 at any point: the log, the disk and the agents stay.
Crash ==
    /\ up /\ crashes < MaxCrashes
    /\ up' = FALSE /\ crashes' = crashes + 1
    /\ rec' = NoRecord /\ owed' = <<>>
    /\ UNCHANGED <<log, queued, company, disk, world, gestures, awaiting>>

\* Mutant: only the claims of the workflow's own partition are candidates.
RestartInPartition ==
    /\ ~up
    /\ up' = TRUE
    /\ rec' = IF Assigned /\ queued THEN Record("unclassified", 0) ELSE NoRecord
    /\ UNCHANGED <<log, queued, company, disk, world, owed, crashes, gestures, awaiting>>

\* Recover: every issue assigned to the principal is a candidate.
Restart ==
    /\ ~up
    /\ up' = TRUE
    /\ rec' = IF Assigned THEN Record("unclassified", 0) ELSE NoRecord
    /\ UNCHANGED <<log, queued, company, disk, world, owed, crashes, gestures, awaiting>>

\* resolveMarkerValueWith: absent is free; evidence is probed, and removed only
\* when its run is gone.
Alive(run) == \E a \in agents : a.run = run
ResolvedMarker ==
    CASE marker.state = "absent"         -> "free"
      [] marker.state = "unknown_launch" -> "unknown_launch"
      [] OTHER -> IF Alive(marker.by) THEN "possibly_live" ELSE "free"

\* Mutant: the publish evidence is not asked for.
ClassifiedWithoutEvidence ==
    LET gated == TrackerGates(log, Open, company, queued)
        based == ClaimBaseGate(base, Anchor, marker.state, RunningEvidence(log, Anchor))
        table == ProjectionVerdict(ReplayProjection(log, Anchor), FALSE)
    IN  CASE gated # Falls -> UnderMarker(gated, ResolvedMarker)
          [] gated = Falls /\ based # Falls -> based
          [] OTHER -> UnderMarker(table, ResolvedMarker)

\* recoveryFacts and classify: the tracker's gates, the claim base's gate on the
\* marker as it lies, then the projection table under the resolved marker.
Classified ==
    LET gated == TrackerGates(log, Open, company, queued)
        based == ClaimBaseGate(base, Anchor, marker.state, RunningEvidence(log, Anchor))
        table == ProjectionVerdict(ReplayProjection(log, Anchor), published = Anchor)
    IN  CASE gated # Falls -> UnderMarker(gated, ResolvedMarker)
          [] gated = Falls /\ based # Falls -> based
          [] OTHER -> UnderMarker(table, ResolvedMarker)

\* The marker is resolved, and removed if its run is gone, on every path but the
\* one the claim base already decided.
ResolvesMarker ==
    \/ TrackerGates(log, Open, company, queued) # Falls
    \/ ClaimBaseGate(base, Anchor, marker.state, RunningEvidence(log, Anchor)) = Falls

\* applyRecovery: the record adopted for each verdict and the writes it owes.
Adopted(v) ==
    LET at(state) == [Record(state, Anchor) EXCEPT !.recovered = TRUE]
    IN  CASE v.action = "wait"    -> at("unclassified")
          [] v.action = "approve" -> at("verified")
          [] v.action = "backoff" -> at("backoff")
          [] v.action = "park"    -> [at("parked") EXCEPT !.fault = v.fault]
          [] v.action = "hold"    -> at("done")
          [] v.action \in {"release_keep", "release_dispose"} -> at("releasing")
          [] OTHER -> rec

Projected(v) ==
    (IF v.project = NoProjection THEN <<>> ELSE <<SetLabel(v.project)>>)
        \o (IF v.action \in {"release_keep", "release_dispose"} THEN ReleaseOwed ELSE <<>>)

\* What a forgotten record leaves behind: at most the write that is in flight.
Leftovers ==
    {<<>>} \cup (IF owed = <<>> \/ Len(log) >= MaxLog THEN {}
                 ELSE {<<[Head(owed) EXCEPT !.orphan = TRUE]>>})

\* recoverCandidate, and retryRecovery and onRecovered on later ticks: an issue
\* that is not ours any more is dropped, one that may be live is asked about
\* again, every other verdict is applied.
Recover ==
    /\ rec.state = "unclassified"
    /\ IF Assigned
       THEN /\ rec' = Adopted(Classified)
            /\ \E left \in Leftovers : owed' = left \o Projected(Classified)
            /\ marker' = IF ResolvesMarker /\ ResolvedMarker = "free"
                         THEN [state |-> "absent", by |-> 0] ELSE marker
       ELSE rec' = NoRecord /\ owed' \in Leftovers /\ UNCHANGED marker
    /\ UNCHANGED <<log, base, world, awaiting>> /\ Still

-----------------------------------------------------------------------------
(* The agents, external to the daemon, and the people.                     *)

AgentPublishes == \E a \in agents :
    /\ published' = a.epoch
    /\ UNCHANGED <<log, queued, company, disk, agents, up, rec, owed, launches, crashes,
                   gestures, launchedIn, awaiting>>

AgentExits == \E a \in agents :
    /\ agents' = agents \ {a}
    /\ UNCHANGED <<log, queued, company, disk, published, up, rec, owed, launches, crashes,
                   gestures, launchedIn, awaiting>>

\* A change a person makes to the issue, each at any moment.
Gesture(kind) ==
    /\ kind \in Gestures /\ gestures < MaxGestures
    /\ gestures' = gestures + 1
    /\ UNCHANGED <<disk, world, up, rec, owed, crashes>>

Unassign ==
    /\ Gesture("unassign") /\ Assigned
    /\ Append1("unassigned", "person") /\ awaiting' = FALSE
    /\ UNCHANGED <<queued, company>>

Assign ==
    /\ Gesture("assign") /\ ~Assigned /\ Claims < MaxClaims
    /\ Append1("assigned", "person")
    /\ company' = IF company = "later" THEN "earlier" ELSE company
    /\ UNCHANGED <<queued, awaiting>>

CloseOrReopen ==
    /\ \/ Gesture("close") /\ Open /\ Append1("closed", "person")
       \/ Gesture("reopen") /\ ~Open /\ Append1("reopened", "person")
    /\ UNCHANGED <<queued, company, awaiting>>

\* A state label put on by hand overrides what the daemon projected.
Relabel ==
    /\ \/ \E l \in LabelsOf(log) :
             /\ Gesture("unlabel") /\ Append1("unlabeled", l)
             /\ awaiting' = (awaiting /\ l # "needs-review")
       \/ \E l \in StateLabels \ LabelsOf(log) :
             Gesture("label") /\ Append1("labeled", l) /\ awaiting' = FALSE
    /\ UNCHANGED <<queued, company>>

Requeue ==
    /\ Gesture("requeue")
    /\ queued' = ~queued
    /\ UNCHANGED <<log, company, awaiting>>

Join ==
    /\ Gesture("join")
    /\ company' \in IF company = "none" THEN {"later", "unordered"} ELSE {"none"}
    /\ UNCHANGED <<log, queued, awaiting>>

-----------------------------------------------------------------------------
Init ==
    /\ log = <<>> /\ queued = TRUE /\ company = "none"
    /\ base = AbsentBase /\ marker = [state |-> "absent", by |-> 0]
    /\ agents = {} /\ published = 0
    /\ up = TRUE /\ rec = NoRecord /\ owed = <<>>
    /\ launches = 0 /\ crashes = 0 /\ gestures = 0
    /\ launchedIn = {} /\ awaiting = FALSE

Writing == ProjectLabel \/ RemoveStaleLabel \/ WriteDone \/ AbandonBase \/ ReleaseClaim
Running == /\ up /\ Len(owed) <= MaxLag
           /\ \/ Claim \/ OnApproved \/ OnClaimBaseBegun \/ OnClaimProjected
              \/ OnPrepared \/ BeginRunMarker \/ OnStarted \/ OnRunEnded
              \/ OnVerified \/ Reconcile \/ OnTimerFetched \/ OnParkedConfirmed
              \/ Forget \/ ConvertToHeld \/ SweepHeld
People  == Unassign \/ Assign \/ CloseOrReopen \/ Relabel \/ Requeue \/ Join

Next == \/ Writing \/ WriteFails \/ Running \/ Recover \/ Crash \/ Restart
        \/ AgentPublishes \/ AgentExits \/ People

Spec == Init /\ [][Next]_vars

-----------------------------------------------------------------------------
(* Properties.                                                             *)

Subjects  == StateLabels \cup {"ben", "person"}
EventSet  == [kind : {"assigned", "unassigned", "closed", "reopened", "labeled", "unlabeled"},
              subject : Subjects]
BaseSet   == [state : {"absent", "pending", "pinned"}, epoch : Nat, outgoing : Nat]
MarkerSet == [state : {"absent", "unknown_launch", "identified"}, by : Nat]
RecordSet == [state : States, epoch : Nat, fault : BOOLEAN, run : Nat, recovered : BOOLEAN]
OwedSet   == [op : {"set", "abandon", "release"}, want : KnownLabels \cup {"none"},
              sent : BOOLEAN, stale : SUBSET Subjects, orphan : BOOLEAN]

TypeOK ==
    /\ log \in Seq(EventSet) /\ queued \in BOOLEAN
    /\ company \in {"none", "earlier", "later", "unordered"}
    /\ base \in BaseSet
    /\ IF base.state = "pending" THEN base.outgoing < base.epoch ELSE base.outgoing = 0
    /\ marker \in MarkerSet
    /\ agents \subseteq [run : Nat, epoch : Nat] /\ published \in Nat
    /\ rec \in RecordSet /\ owed \in Seq(OwedSet)
    /\ up \in BOOLEAN /\ (up \/ (rec = NoRecord /\ owed = <<>>))
    /\ launches \in 0 .. MaxRuns /\ crashes \in 0 .. MaxCrashes /\ gestures \in 0 .. MaxGestures
    /\ launchedIn \subseteq Nat /\ awaiting \in BOOLEAN

\* Two agents are in the workspace at once only after a person took the claim
\* away: no crash point, failed write, relabelling, closing or rerouting leads
\* recovery, dispatch or re-dispatch to launch beside an agent that survived.
SharedOnlyAfterUnassign ==
    (\E a, b \in agents : a # b) =>
        \E i \in DOMAIN log : log[i] = Event("unassigned", "person")

\* A restart that takes a claim the daemon made for fresh is right: nothing was
\* launched in this epoch, wherever the earlier daemon died.
FreshStartMeansNoLaunch ==
    rec.recovered /\ rec.state \in {"verified", "approved"} /\ Own(log, Anchor) =>
        Anchor \notin launchedIn

\* Work that is published is finished, not repeated: recovery re-dispatches an
\* epoch of the daemon's that has a pull request only when a person took
\* ben:needs-review off in it.
PublishedIsNotRepeated ==
    rec.recovered /\ rec.state = "backoff" /\ Own(log, rec.epoch) /\ published = rec.epoch =>
        \E i \in DOMAIN log : i > rec.epoch /\ log[i] = Event("unlabeled", "needs-review")

\* Once ben:needs-review of a parked record stands, and its claim base is pinned,
\* no agent is prepared or run for the claim until a person takes the label off,
\* across any number of restarts.
ParkedWaitsForPerson ==
    awaiting => rec.state \notin {"rebasing", "preparing", "starting", "launching", "running"}

\* A claim the daemon took is never lost: while it is up and the assignment
\* stands, a record answers for it.
NoLostClaim == up /\ Own(log, Anchor) => rec # NoRecord

\* SPEC.md: no workspace is ever shared.
\* Not an invariant of the code: README, section 5.
NoWorkspaceIsShared == Cardinality(agents) <= 1
=============================================================================
