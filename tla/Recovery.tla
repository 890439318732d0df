----------------------------- MODULE Recovery -----------------------------
(***************************************************************************)
(* The verdict of a restart on one claim it finds standing.                *)
(*                                                                         *)
(* A restarted daemon has no memory.  It reads the tracker's ordered log   *)
(* of the issue, the claim base and the run marker from its disk, and the  *)
(* publish evidence from git, and decides from those alone.  These are the *)
(* reading operators: constant-level, no state of their own.               *)
(*                                                                         *)
(* A log is a sequence of events [kind, subject]; an event's id is its     *)
(* index, which is what ordering by (created_at, id) gives.  Assignment    *)
(* events are those of the daemon's own principal: ClaimRace arbitrates    *)
(* between several, and `company` is the result it hands over.             *)
(*                                                                         *)
(* Sources: internal/orchestrator/recover_classify.go, recover.go, the     *)
(* log readers of held.go, and internal/workspace/claimbase.go.            *)
(***************************************************************************)
EXTENDS Naturals, Sequences, FiniteSetsExt

KnownLabels == {"claimed", "running", "needs-review", "failed"}
StateLabels == KnownLabels \cup {"odd"}      \* any other label of the ben: namespace

Event(kind, subject) == [kind |-> kind, subject |-> subject]

-----------------------------------------------------------------------------
(* Reading the log.                                                        *)

\* claimCycleAnchor: the id of the assignment that still stands, or 0.
ClaimCycleAnchor(log) ==
    Max({0} \cup {i \in DOMAIN log :
                    /\ log[i].kind = "assigned"
                    /\ \A j \in DOMAIN log : j > i => log[j].kind # "unassigned"})

\* closedInCycle: the issue was closed since, even if it was reopened.
ClosedInCycle(log, anchor) ==
    /\ anchor > 0
    /\ \E i \in DOMAIN log : i >= anchor /\ log[i].kind = "closed"

\* currentCycleRunningEvidence: ben:running was projected in this cycle.
RunningEvidence(log, anchor) ==
    /\ anchor > 0
    /\ \E i \in DOMAIN log : i > anchor /\ log[i] = Event("labeled", "running")

\* The state-label events of the cycle.
LabelEvents(log, anchor) ==
    {i \in DOMAIN log : i >= anchor /\ log[i].kind \in {"labeled", "unlabeled"}}

\* The labelings no later removal of the same label undoes.
StandingLabelings(log, anchor) ==
    {i \in LabelEvents(log, anchor) :
        /\ log[i].kind = "labeled"
        /\ \A j \in LabelEvents(log, anchor) :
              j > i => log[j] # Event("unlabeled", log[i].subject)}

\* Mutant: the replay takes the label that has stood longest.
ReplayProjectionOldest(log, anchor) ==
    LET events   == LabelEvents(log, anchor)
        standing == StandingLabelings(log, anchor)
    IN  CASE standing # {} -> [shape |-> "standing", label |-> log[Min(standing)].subject]
          [] standing = {} /\ events = {} -> [shape |-> "unprojected", label |-> "none"]
          [] OTHER -> [shape |-> "cleared", label |-> log[Max(events)].subject]

\* replayRecoveryProjection: the state label that was put on last among those
\* still standing, or, with none standing, the one that was taken off last.
ReplayProjection(log, anchor) ==
    LET events   == LabelEvents(log, anchor)
        standing == StandingLabelings(log, anchor)
        labeled  == {i \in events : log[i].kind = "labeled"}
    IN  CASE standing # {} -> [shape |-> "standing", label |-> log[Max(standing)].subject]
          [] standing = {} /\ labeled = {} -> [shape |-> "unprojected", label |-> "none"]
          [] OTHER -> [shape |-> "cleared", label |-> log[Max(events)].subject]

\* The labels on the issue, from its whole log: what a read of the issue shows.
LabelsOf(log) == {log[i].subject : i \in StandingLabelings(log, 0)}

-----------------------------------------------------------------------------
(* The claim base (internal/workspace/claimbase.go): the commit an epoch's *)
(* work is measured from.  A pending base carries the pinned one it will   *)
(* replace, so that abandoning it restores that one.                       *)

AbsentBase       == [state |-> "absent", epoch |-> 0, outgoing |-> 0]
PendingBase(e,o) == [state |-> "pending", epoch |-> e, outgoing |-> o]
PinnedBase(e)    == [state |-> "pinned", epoch |-> e, outgoing |-> 0]

\* Mutant: the outgoing pin is not kept; the new epoch stands in for it.
BeginClaimBaseOverPin(base, epoch) == PendingBase(epoch, epoch)

\* BeginClaimBase, when it writes: never over another epoch's pending intent.
BeginClaimBase(base, epoch) ==
    CASE base.epoch = epoch      -> base
      [] base.state = "pending"  -> base
      [] OTHER                   -> PendingBase(epoch, base.epoch)

\* BeginClaimBase returns no error.
BeginsClaimBase(base, epoch) == base.state # "pending" \/ base.epoch = epoch

\* AbandonPendingClaimBase.
AbandonPendingClaimBase(base) ==
    CASE base.state # "pending" -> base
      [] base.outgoing > 0      -> PinnedBase(base.outgoing)
      [] OTHER                  -> AbsentBase

\* prepare: refused unless the base is this epoch's; pins it when it is pending.
PrepareAllowed(base, epoch) == base.state \in {"pending", "pinned"} /\ base.epoch = epoch

-----------------------------------------------------------------------------
(* Verdicts.                                                               *)

NoProjection == "keep"   \* recoveryVerdict.project is false

Verdict(action, project) == [action |-> action, project |-> project, fault |-> FALSE]

ParkRecovery       == Verdict("park", "needs-review")
EpochFaultRecovery == [ParkRecovery EXCEPT !.fault = TRUE]
BackoffRecovery    == Verdict("backoff", "claimed")
HoldRecovery       == Verdict("hold", "none")
Approve            == Verdict("approve", NoProjection)
Blocked            == Verdict("blocked", NoProjection)
ReleaseKeep        == Verdict("release_keep", NoProjection)
ReleaseDispose     == Verdict("release_dispose", NoProjection)
Falls              == Verdict("falls_through", NoProjection)

\* classifyRecoveryTrackerGates: what the tracker alone decides.
TrackerGates(log, active, company, inPartition) ==
    LET anchor == ClaimCycleAnchor(log)
    IN  CASE ~active \/ ClosedInCycle(log, anchor) -> ReleaseDispose
          [] active /\ ~ClosedInCycle(log, anchor) ->
               CASE company = "earlier"    -> ReleaseKeep
                 [] company = "unordered"  -> ParkRecovery
                 [] company \in {"none", "later"} /\ anchor = 0 -> ParkRecovery
                 [] company \in {"none", "later"} /\ anchor > 0 /\ ~inPartition -> ReleaseKeep
                 [] OTHER -> Falls

\* classifyRecoveryClaimBase: only a base pinned for this cycle may be verified
\* against; one still pending is fresh, unless anything says it was launched.
ClaimBaseGate(base, anchor, marker, runningEvidence) ==
    CASE base = PinnedBase(anchor) -> Falls
      [] base.state = "pending" /\ base.epoch = anchor ->
            IF runningEvidence \/ marker # "absent" THEN EpochFaultRecovery ELSE Approve
      [] OTHER -> EpochFaultRecovery

\* The projection table of classifyRecoveryFacts, with
\* classifyActiveRecoveryProjection for a standing claimed or running label.
ProjectionVerdict(projection, published) ==
    LET label == projection.label
    IN  CASE projection.shape = "unprojected" -> Approve
          [] label = "failed" /\ projection.shape = "standing" -> Verdict("release_keep", "failed")
          [] label = "failed" /\ projection.shape = "cleared"  -> ReleaseKeep
          [] label = "needs-review" /\ projection.shape = "standing" -> ParkRecovery
          [] label = "needs-review" /\ projection.shape = "cleared"  -> BackoffRecovery
          [] label \in {"claimed", "running"} ->
                IF published THEN HoldRecovery
                ELSE IF projection.shape = "standing" THEN BackoffRecovery ELSE ParkRecovery
          [] OTHER -> ParkRecovery

\* classifyRecovery over a base that passed its gate: the marker decides whether
\* the verdict may be acted on.  A run that may be live turns every verdict into
\* a wait that still makes its projection; one nobody can identify parks.
UnderMarker(verdict, marker) ==
    CASE marker = "free"           -> verdict
      [] marker = "possibly_live"  -> IF verdict.action = "blocked" THEN verdict
                                      ELSE [verdict EXCEPT !.action = "wait"]
      [] marker = "unknown_launch" -> ParkRecovery
      [] OTHER                     -> Blocked
=============================================================================
