----------------------------- MODULE RunRecord -----------------------------
(***************************************************************************)
(* The life of one issue's record on the orchestrator's authority loop.    *)
(*                                                                         *)
(* One goroutine owns the record.  Every blocking call is made by a worker *)
(* goroutine that answers with one signal, carrying the token (the record) *)
(* and the generation (the attempt) it was started for; the loop drops an  *)
(* answer that no longer matches.  Ticks, timers, tracker writes, a cost   *)
(* cap, tracker edits and a shutdown interleave with those answers in any  *)
(* order.                                                                  *)
(*                                                                         *)
(* A handler is a function from the record to the record, as it is in the  *)
(* code; the workers it starts are collected in the record's `spawn` and   *)
(* join `jobs` when the handler returns.  What a worker answers is chosen  *)
(* when its signal is handled: every answer is possible at any time, so    *)
(* the answer may be as old as the worker.                                 *)
(*                                                                         *)
(* Sources: internal/orchestrator/pipeline.go, signals.go, owed.go,        *)
(* summary.go, shutdown.go, absence.go, state.go, record.go.               *)
(***************************************************************************)
EXTENDS Naturals, Sequences, FiniteSets

CONSTANT
    Limits          \* the configurations and bounds that are explored

ASSUME LimitsAssumption ==
    Limits \subseteq [attempts : Nat \ {0}, turns : Nat, remote : BOOLEAN,
                      tenures : Nat, faults : Nat, relabels : Nat]

VARIABLES
    rec,        \* the record, with rec.tracked FALSE when there is none
    jobs,       \* worker goroutines whose signal is not handled yet
    pump,       \* the event pump of the current handle: stream position
    agent,      \* ground truth: may something of this issue's last launch be alive
    recon,      \* the reconcile read in flight: "idle", or what it will report on
    draining,   \* has Shutdown been requested
    faults,     \* transient failures so far
    relabels,   \* human relabels so far
    lim         \* the member of Limits that is in force; no step changes it

vars == <<rec, jobs, pump, agent, recon, draining, faults, relabels, lim>>

MaxAttempts == lim.attempts     \* limits.max_attempts
MaxTurns    == lim.turns        \* limits.max_turns
Remote      == lim.remote       \* is the workspace provider a remote one, whose cycles outlive claims
MaxTenures  == lim.tenures      \* bound: records created for the issue
MaxFaults   == lim.faults       \* bound: transient failures of calls the daemon makes
MaxRelabels == lim.relabels     \* bound: times a human takes the needs-review label off

-----------------------------------------------------------------------------
(* States and labels: state.go.                                            *)

States == {"queued", "claimed", "preparing", "running", "verifying", "done",
           "backoff", "needs-review", "failed"}

LegalTransitions ==
    { <<"queued", "claimed">>, <<"queued", "needs-review">>,
      <<"claimed", "preparing">>,
      <<"preparing", "running">>, <<"preparing", "backoff">>,
      <<"preparing", "needs-review">>,
      <<"running", "verifying">>, <<"running", "backoff">>,
      <<"running", "needs-review">>,
      <<"verifying", "done">>, <<"verifying", "preparing">>,
      <<"verifying", "needs-review">>,
      <<"backoff", "preparing">>, <<"backoff", "backoff">>,
      <<"backoff", "needs-review">>,
      <<"needs-review", "backoff">> }

Allowed(from, to) ==
    \/ <<from, to>> \in LegalTransitions
    \/ to = "failed" /\ from \notin {"done", "failed"}

StateLabel(st) ==
    CASE st \in {"claimed", "preparing", "verifying", "backoff"} -> "claimed"
      [] st \in {"running", "needs-review", "failed"} -> st
      [] OTHER -> "none"

Tracker == {"claim-label", "label", "comment", "release"}   \* effectTracker targets
Projections == {"claim-label", "label"}
Exits == {"release", "forget"}
Effects == Tracker \cup {"abandon-base", "forget", "after-run", "dispose"}

Counted == {"claim", "approve", "base", "prepare", "start", "summary", "verify"}
Uncounted == {"probe", "stop", "stop-nothing", "timer", "fetch"}
TokenOnly == {"effect", "absence", "parked", "parked-unsettled", "convert", "ownership"}
Job(k, r) == [kind |-> k, gen |-> r.gen, tok |-> r.tok]

\* A fresh record: beginClaim's literal.  Two fields are history for the properties:
\* illegal, that a transition was refused, and launched, that this attempt's launch
\* returned a handle.
NewRecord(tok) ==
    [tracked |-> TRUE, state |-> "queued", tok |-> tok, gen |-> 0,
     attempt |-> 1, base |-> 0, turns |-> 0,
     verified |-> FALSE, approving |-> FALSE, epoch |-> FALSE, basing |-> FALSE,
     baseDispatch |-> FALSE, epochFaulted |-> FALSE,
     ws |-> FALSE, handle |-> FALSE, eventsClosed |-> FALSE, handleDone |-> FALSE,
     domainQuiet |-> FALSE, outcome |-> "none", summarizing |-> FALSE,
     summarized |-> FALSE, parkPending |-> FALSE,
     pending |-> 0, probing |-> FALSE, stopInFlight |-> FALSE, converting |-> FALSE,
     verifyRetry |-> FALSE,
     stopping |-> FALSE, budgetStop |-> FALSE, finishAfterStop |-> FALSE,
     finish |-> FALSE, gone |-> FALSE, claimLost |-> FALSE, suspended |-> FALSE,
     releasing |-> FALSE,
     ran |-> FALSE, afterRun |-> FALSE, started |-> FALSE, recorded |-> FALSE,
     owed |-> <<>>, owedInFlight |-> FALSE, owedFailed |-> FALSE, drive |-> FALSE,
     disposalOwed |-> FALSE, abandonOwed |-> FALSE, absence |-> FALSE,
     cycle |-> "none", illegal |-> FALSE, launched |-> FALSE, spawn |-> {}]

NoRecord(tok) == [NewRecord(tok) EXCEPT !.tracked = FALSE]

OrderedExit(r) == r.releasing \/ r.stopping \/ r.finish \/ r.gone \/ r.claimLost
Exiting(r) == OrderedExit(r) \/ r.suspended

-----------------------------------------------------------------------------
(* Workers and owed effects.                                               *)

Spawn(r, k) == [r EXCEPT !.spawn = @ \cup {Job(k, r)}]
SpawnCounted(r, k) == Spawn([r EXCEPT !.pending = @ + 1], k)
Answered(r) == [r EXCEPT !.pending = @ - 1]

\* driveOwed: the head of the queue goes to the effects worker.  The send may be
\* refused (enqueue's full queue), so it is decided when the handler returns.
DriveOwed(r) == [r EXCEPT !.drive = TRUE]
Owe(r, e) == DriveOwed([r EXCEPT !.owed = Append(@, e)])
Owes(r, kinds) == \E i \in DOMAIN r.owed : r.owed[i] \in kinds

\* transitionCaused: an illegal move is refused and logged.
Transition(r, to) ==
    IF ~Allowed(r.state, to) THEN [r EXCEPT !.illegal = TRUE]
    ELSE LET moved == [r EXCEPT !.state = to]
         IN  IF StateLabel(to) = StateLabel(r.state) THEN moved
             ELSE Owe(moved, IF r.state = "queued" /\ to = "claimed"
                             THEN "claim-label" ELSE "label")

Comment(r) == Owe(r, "comment")
Forget(r) ==
    [NoRecord(r.tok) EXCEPT !.spawn = r.spawn, !.illegal = r.illegal, !.cycle = r.cycle]

AttemptEnded(r) ==
    IF ~r.ran \/ r.afterRun THEN r
    ELSE LET fired == [r EXCEPT !.afterRun = TRUE]
         IN  IF r.ws THEN Owe(fired, "after-run") ELSE fired

RecordAttempt(r) == IF r.started THEN [r EXCEPT !.recorded = TRUE] ELSE r

OweDisposal(r) ==
    IF ~r.ws \/ r.disposalOwed THEN r
    ELSE Owe([r EXCEPT !.disposalOwed = TRUE], "dispose")

AbandonPendingClaimBase(r) ==
    IF r.abandonOwed THEN r ELSE Owe([r EXCEPT !.abandonOwed = TRUE], "abandon-base")

Release(r) ==
    IF r.releasing THEN r
    ELSE Owe(AbandonPendingClaimBase([r EXCEPT !.releasing = TRUE]), "release")

\* oweEndedCycle: only a remote workspace has a cycle that outlives its claim.
OweEndedCycle(r) ==
    IF Remote /\ r.ws /\ r.cycle = "none" THEN [r EXCEPT !.cycle = "owed"] ELSE r

DisposeRevoked(r) ==
    LET q == OweEndedCycle(r) IN IF q.cycle # "none" THEN q ELSE OweDisposal(q)

FinishNow(r) ==
    LET ended == DisposeRevoked(AbandonPendingClaimBase(RecordAttempt(
                    AttemptEnded([r EXCEPT !.parkPending = FALSE]))))
    IN  IF ~(r.gone \/ r.claimLost) THEN Release(ended)
        ELSE IF Owes(ended, {"forget"}) THEN ended ELSE Owe(ended, "forget")

BeginStop(r) ==
    IF r.stopInFlight THEN r
    ELSE IF ~r.handle THEN Spawn(r, "stop-nothing")
    ELSE Spawn([r EXCEPT !.stopInFlight = TRUE], "stop")

StopAndFinish(r) ==
    LET q == [r EXCEPT !.finishAfterStop = TRUE]
    IN  IF q.handle THEN BeginStop([q EXCEPT !.stopping = TRUE])
        ELSE IF q.pending > 0 THEN [q EXCEPT !.finish = TRUE]
        ELSE FinishNow(q)

\* finishIfRequested: an exit that waited for the outstanding workers.
FinishDue(r) == r.finish /\ r.pending = 0
FinishRequested(r) ==
    LET q == [r EXCEPT !.finish = FALSE]
    IN  IF q.handle THEN BeginStop([q EXCEPT !.stopping = TRUE]) ELSE FinishNow(q)
-----------------------------------------------------------------------------
(* The pipeline: claim, approve, establish the base, prepare, launch.      *)

BeginApproval(r) ==
    IF r.approving \/ Exiting(r) \/ draining THEN r
    ELSE SpawnCounted([r EXCEPT !.approving = TRUE], "approve")

BaseEligible(r) == r.state = "queued" \/ (r.state = "backoff" /\ r.baseDispatch)

BeginClaimBase(r) ==
    IF r.basing \/ Exiting(r) \/ draining \/ ~BaseEligible(r) \/ ~r.epoch THEN r
    ELSE SpawnCounted([r EXCEPT !.basing = TRUE], "base")

EnterNeedsReview(r) ==
    IF OrderedExit(r) THEN r
    ELSE LET q == Transition(r, "needs-review")
         IN  IF q.state = "needs-review" THEN Comment(q) ELSE q

EnterEpochFault(r) == EnterNeedsReview([r EXCEPT !.epochFaulted = TRUE])

BeginPrepare(r) ==
    IF draining THEN r
    ELSE SpawnCounted(
            [r EXCEPT !.ran = FALSE, !.afterRun = FALSE, !.eventsClosed = FALSE,
                      !.handleDone = FALSE, !.domainQuiet = FALSE, !.outcome = "none",
                      !.budgetStop = FALSE, !.finishAfterStop = FALSE,
                      !.started = TRUE, !.recorded = FALSE, !.launched = FALSE,
                      !.summarizing = FALSE,
                      !.summarized = FALSE, !.parkPending = FALSE], "prepare")

EnterPreparing(r) ==
    LET q == Transition(r, "preparing")
    IN  IF q.state = "preparing" THEN BeginPrepare(q) ELSE q

\* The attempt counter only matters relative to attemptBase.
Retry(r) == [r EXCEPT !.attempt = @ + 1]

EnterBackoff(r) ==
    IF ~Allowed(r.state, "backoff") THEN Transition(r, "backoff")
    ELSE LET q == [Transition(r, "backoff") EXCEPT !.stopping = FALSE, !.gen = @ + 1]
         IN  Spawn(q, "timer")

CompleteRemotely(r) == IF Remote THEN OweDisposal(r) ELSE r

EnterFailed(r) ==
    IF ~Allowed(r.state, "failed") THEN Transition(r, "failed")
    ELSE Release(CompleteRemotely(Comment(Transition(r, "failed"))))

AttemptsRemain(r) == r.attempt - r.base < MaxAttempts

\* Mutant: a failed attempt is routed without being recorded.
FailAttemptUnrecorded(r, retryable) ==
    IF retryable /\ AttemptsRemain(r) THEN EnterBackoff(AttemptEnded(r))
    ELSE EnterFailed(AttemptEnded(r))

FailAttempt(r, retryable) ==
    LET q == RecordAttempt(AttemptEnded(r))
    IN  IF retryable /\ AttemptsRemain(q) THEN EnterBackoff(q) ELSE EnterFailed(q)

\* failLaunch: a transient credential failure is retryable, a lasting one parks.
FailLaunch(r, out) ==
    IF out = "park" THEN EnterNeedsReview(RecordAttempt(AttemptEnded(r)))
    ELSE FailAttempt(r, out = "retryable")

OnClaimed(r, out) ==
    LET q == Answered(r)
    IN  IF FinishDue(q) THEN FinishRequested(q)
        ELSE CASE out \in {"not-attempted", "lost"} -> Forget(q)
               [] out = "retry"    -> Release(q)
               [] out = "verified" -> BeginApproval([q EXCEPT !.verified = TRUE])

OnApproved(r, out) ==
    LET q == [Answered(r) EXCEPT !.approving = FALSE]
    IN  IF FinishDue(q) THEN FinishRequested(q)
        ELSE IF Exiting(q) \/ draining \/ q.state # "queued" THEN q
        ELSE CASE out = "gone"     -> FinishNow([q EXCEPT !.gone = TRUE])
               [] out = "retry"    -> q
               [] out = "refused"  -> EnterNeedsReview(q)
               [] out = "no-epoch" -> EnterEpochFault(q)
               [] out = "approved" -> BeginClaimBase([q EXCEPT !.epoch = TRUE])

OnClaimBaseBegun(r, out) ==
    LET q == [Answered(r) EXCEPT !.basing = FALSE]
    IN  IF FinishDue(q) THEN FinishRequested(q)
        ELSE IF Exiting(q) \/ draining \/ ~BaseEligible(q) \/ out = "retry" THEN q
        ELSE IF out = "fault" THEN EnterEpochFault(q)
        ELSE IF q.state = "backoff"
        THEN EnterPreparing(Retry([q EXCEPT !.baseDispatch = FALSE]))
        ELSE Comment(Transition(q, "claimed"))

OnClaimProjected(r) ==
    IF r.state # "claimed" \/ Exiting(r) THEN r ELSE EnterPreparing(r)

\* A prepare answer: its outcome, and whether it names a workspace.  The local
\* provider names one even when it fails.
PrepareAnswers ==
    [out : {"fresh", "prior", "unrenderable"}, ws : {TRUE}]
        \cup [out : {"fault", "retryable", "park", "failed"},
              ws  : IF Remote THEN BOOLEAN ELSE {TRUE}]

\* Mutant: a workspace that is ready during a drain is launched into.
OnPreparedWhileDraining(r, ans) ==
    LET q == [Answered(r) EXCEPT !.ws = @ \/ ans.ws]
    IN  IF FinishDue(q) THEN FinishRequested(q)
        ELSE IF ans.out \in {"fresh", "prior"} THEN SpawnCounted(q, "start")
        ELSE FailAttempt(q, FALSE)

OnPrepared(r, ans) ==
    LET q == [Answered(r) EXCEPT !.ws = @ \/ ans.ws]
    IN  IF FinishDue(q) THEN FinishRequested(q)
        ELSE IF draining THEN [q EXCEPT !.suspended = TRUE]
        ELSE CASE ans.out = "fault" -> EnterEpochFault(q)
               [] ans.out \in {"retryable", "park", "failed"} -> FailLaunch(q, ans.out)
               [] ans.out = "unrenderable" -> FailAttempt(q, FALSE)
               [] ans.out = "fresh" -> SpawnCounted(q, "start")
               [] ans.out = "prior" ->
                    SpawnCounted(IF q.attempt = 1 THEN [q EXCEPT !.attempt = 2, !.base = 1]
                                 ELSE q, "start")

OnStarted(r, out) ==
    LET q == [Answered(r) EXCEPT !.handle = @ \/ out = "handle", !.launched = (out = "handle")]
    IN  IF FinishDue(q) THEN FinishRequested(q)
        ELSE IF draining
        THEN [q EXCEPT !.suspended = TRUE, !.ran = @ \/ out = "handle"]
        ELSE IF out # "handle" THEN FailLaunch(q, out)
        ELSE IF ~Allowed(q.state, "running") THEN Transition(q, "running")
        ELSE [Transition(q, "running") EXCEPT !.ran = TRUE]
-----------------------------------------------------------------------------
(* From the event stream to the outcome: nothing is routed before the      *)
(* execution domain is confirmed quiet and the attempt's account is read.  *)

BeginVerify(r) == SpawnCounted(r, "verify")

\* applyOutcome once the account is read.
RouteOutcome(r) ==
    LET q == [r EXCEPT !.outcome = "none"]
    IN  IF r.outcome = "succeeded" THEN BeginVerify(q)
        ELSE FailAttempt(q, r.outcome = "retryable")

ParkNow(r) == EnterNeedsReview(RecordAttempt(AttemptEnded(r)))

OutcomeReady(r) == r.outcome # "none" /\ r.eventsClosed /\ r.domainQuiet

ResumeAfterAccount(r) ==
    IF r.parkPending THEN ParkNow([r EXCEPT !.parkPending = FALSE])
    ELSE IF OutcomeReady(r) THEN RouteOutcome(r) ELSE r

BeginSummary(r) ==
    IF r.summarizing THEN r
    ELSE IF ~r.ws THEN ResumeAfterAccount([r EXCEPT !.summarized = TRUE])
    ELSE SpawnCounted([r EXCEPT !.summarizing = TRUE], "summary")

ApplyOutcome(r) ==
    IF ~OutcomeReady(r) THEN r
    ELSE IF ~r.summarized THEN BeginSummary(r) ELSE RouteOutcome(r)

ParkOnBudget(r) ==
    IF ~r.summarized THEN BeginSummary([r EXCEPT !.parkPending = TRUE]) ELSE ParkNow(r)

Quiet(r) == ApplyOutcome([r EXCEPT !.domainQuiet = TRUE, !.handle = FALSE])

BeginProbe(r) ==
    IF r.probing \/ ~r.handle THEN r ELSE Spawn([r EXCEPT !.probing = TRUE], "probe")

\* Mutant: the end of the stream is taken for the end of the execution domain.
ConfirmQuietUnasked(r) ==
    IF r.outcome = "none" \/ ~r.eventsClosed \/ r.domainQuiet \/ Exiting(r) THEN r
    ELSE ApplyOutcome([r EXCEPT !.domainQuiet = TRUE])

ConfirmQuiet(r) ==
    IF r.outcome = "none" \/ ~r.eventsClosed \/ r.domainQuiet \/ r.probing
         \/ r.stopInFlight \/ Exiting(r)
    THEN r
    ELSE IF ~r.handle THEN ApplyOutcome([r EXCEPT !.domainQuiet = TRUE])
    ELSE IF ~r.handleDone THEN BeginProbe(r)
    ELSE BeginStop(r)

\* Mutant: a success is routed whatever the state is.
OnRunEventUngated(r, ev) ==
    IF ev = "succeeded" /\ ~r.stopping
    THEN [Transition(r, "verifying") EXCEPT !.outcome = ev]
    ELSE r

\* onRunEvent, for the events that change the run: spending past the cost cap,
\* and the terminal event with what it reports.
OnRunEvent(r, ev) ==
    IF r.state # "running" THEN r
    ELSE CASE ev = "over-cap" ->
                IF r.stopping \/ r.suspended THEN r
                ELSE BeginStop([r EXCEPT !.stopping = TRUE, !.budgetStop = TRUE])
           [] ev = "succeeded" ->
                IF r.stopping THEN r
                ELSE [Transition(r, "verifying") EXCEPT !.outcome = ev]
           [] OTHER ->
                IF r.stopping THEN r ELSE [r EXCEPT !.outcome = ev]

\* A stream that ends without a terminal event is a crash, which is retryable.
OnEventsClosed(r, sawTerminal) ==
    LET q == [r EXCEPT !.eventsClosed = TRUE]
    IN  IF q.suspended \/ q.stopping \/ q.releasing \/ q.finish THEN q
        ELSE IF sawTerminal THEN ConfirmQuiet(q)
        ELSE IF q.state # "running" THEN q
        ELSE ConfirmQuiet([q EXCEPT !.outcome = "retryable"])

\* finishSuspended: a suspended attempt is over when its domain is quiet and its
\* transcript is closed.
FinishSuspended(r) ==
    IF ~r.domainQuiet \/ (r.handle /\ ~r.handleDone) THEN r
    ELSE AttemptEnded([r EXCEPT !.handle = FALSE, !.outcome = "none"])

OnHandleDone(r) ==
    LET q == [r EXCEPT !.handleDone = TRUE]
    IN  IF q.suspended THEN FinishSuspended(q) ELSE ConfirmQuiet(q)

OnProbed(r, out) ==
    LET q == [r EXCEPT !.probing = FALSE]
    IN  IF Exiting(q) \/ q.stopInFlight THEN q
        ELSE IF q.handleDone THEN ConfirmQuiet(q)
        ELSE IF out = "retry" THEN q ELSE Quiet(q)

\* Mutant: a stop that could not be confirmed counts as one that was.
OnStoppedUnconfirmed(r, out) ==
    LET q    == [r EXCEPT !.stopInFlight = FALSE, !.domainQuiet = TRUE]
        over == RecordAttempt(AttemptEnded([q EXCEPT !.handle = FALSE, !.stopping = FALSE]))
    IN  IF q.suspended THEN FinishSuspended(q)
        ELSE IF ~Exiting(q) THEN Quiet(q)
        ELSE IF over.pending > 0 THEN [over EXCEPT !.finish = TRUE]
        ELSE FinishNow(over)

\* Mutant: an outcome the run reported before its stop wins over the exit.
OnStoppedRoutingOutcome(r, out) ==
    LET q == [r EXCEPT !.stopInFlight = FALSE]
    IN  IF out = "retry" THEN q
        ELSE IF q.outcome # "none"
        THEN Quiet([q EXCEPT !.stopping = FALSE, !.finishAfterStop = FALSE])
        ELSE FinishNow(RecordAttempt(AttemptEnded([q EXCEPT !.handle = FALSE])))

OnStopped(r, out) ==
    LET q    == [r EXCEPT !.stopInFlight = FALSE]
        park == q.budgetStop /\ ~q.finishAfterStop
        dead == [q EXCEPT !.domainQuiet = TRUE, !.handle = FALSE, !.outcome = "none",
                          !.stopping = FALSE, !.budgetStop = FALSE,
                          !.finishAfterStop = FALSE]
        over == RecordAttempt(AttemptEnded(dead))
    IN  IF out = "retry" THEN q
        ELSE IF q.suspended THEN FinishSuspended([q EXCEPT !.domainQuiet = TRUE])
        ELSE IF ~Exiting(q) THEN Quiet(q)
        ELSE IF park THEN ParkOnBudget(dead)
        ELSE IF over.pending > 0 THEN [over EXCEPT !.finish = TRUE]
        ELSE FinishNow(over)

OnSummarized(r) ==
    LET q == [Answered(r) EXCEPT !.summarizing = FALSE, !.summarized = TRUE]
    IN  IF FinishDue(q) THEN FinishRequested(q)
        ELSE IF q.suspended
        THEN RecordAttempt(AttemptEnded([q EXCEPT !.parkPending = FALSE]))
        ELSE ResumeAfterAccount(q)

\* Mutant: one continuation too many.
ContinuableOnceMore(r) == r.turns <= MaxTurns

Continuable(r) == r.turns < MaxTurns

OnVerified(r, out) ==
    LET q     == Answered(r)
        ended == RecordAttempt(AttemptEnded(q))
        again == [ended EXCEPT !.gen = @ + 1]
    IN  IF FinishDue(q) THEN FinishRequested(q)
        ELSE IF q.suspended THEN q
        ELSE CASE out = "fault" -> EnterEpochFault(ended)
               [] out = "gone"  -> FinishNow([q EXCEPT !.gone = TRUE])
               [] out = "retry" -> [q EXCEPT !.verifyRetry = TRUE]
               [] out = "published" ->
                    IF ~Allowed(ended.state, "done") THEN Transition(ended, "done")
                    ELSE OweDisposal(Comment(Transition(ended, "done")))
               [] out = "incomplete" ->
                    IF Continuable(ended) THEN Spawn(again, "timer")
                    ELSE EnterNeedsReview(ended)
               [] out = "contradicted" -> EnterNeedsReview(ended)

\* onTimerFetched: what the re-fetch says before a re-dispatch.  "retry" covers the
\* cases that re-arm the timer: a failed read, a reload, a block, no free slot.
OnTimerFetched(r, out) ==
    IF Exiting(r) THEN r
    ELSE CASE out = "retry"   -> Spawn(r, "timer")
           [] out = "gone"    -> FinishNow([r EXCEPT !.gone = TRUE])
           [] out = "ended"   -> FinishNow(r)
           [] out = "refused" -> EnterNeedsReview(r)
           [] out = "fault"   -> EnterEpochFault(r)
           [] out = "go"      ->
                IF ~r.epoch
                THEN BeginClaimBase([r EXCEPT !.epoch = TRUE, !.baseDispatch = TRUE])
                ELSE EnterPreparing(Retry(
                        IF r.state = "verifying" THEN [r EXCEPT !.turns = @ + 1] ELSE r))
-----------------------------------------------------------------------------
(* What a tick and its reads do to the record.                             *)

\* driveHold: a finished run becomes a held claim once nothing is owed.
ReadyToConvert(r) ==
    r.state = "done" /\ ~Exiting(r) /\ r.owed = <<>> /\ r.pending = 0 /\ ~r.converting

DriveHold(r) ==
    IF ReadyToConvert(r) THEN Spawn([r EXCEPT !.converting = TRUE], "convert") ELSE r

OnClaimAnchor(r, out) ==
    LET q == [r EXCEPT !.converting = FALSE]
    IN  IF ~ReadyToConvert(q) THEN q
        ELSE CASE out = "anchored"   -> Forget(q)     \* convertToHeld
               [] out = "gone"       -> Forget(OweEndedCycle(q))
               [] out = "retry"      -> q
               [] out = "superseded" -> Release(OweEndedCycle(q))
               [] out = "unread"     -> Spawn([q EXCEPT !.converting = TRUE], "ownership")

OnDoneOwnership(r, out) ==
    LET q == [r EXCEPT !.converting = FALSE]
    IN  IF ~ReadyToConvert(q) THEN q
        ELSE CASE out = "gone"       -> Forget(OweEndedCycle(q))
               [] out = "retry"      -> q
               [] out = "unassigned" -> Forget(q)
               [] out = "ended"      -> Release(OweEndedCycle(q))

OnEffectDone(r, out) ==
    LET q   == [r EXCEPT !.owedInFlight = FALSE]
        eff == Head(q.owed)
        p   == [q EXCEPT !.owed = Tail(@), !.owedFailed = FALSE]
    IN  IF out = "retry"
        THEN IF eff \notin Tracker THEN q
             ELSE IF q.gone THEN DriveOwed(p) ELSE [q EXCEPT !.owedFailed = TRUE]
        ELSE IF eff \in Exits THEN Forget(p)
        ELSE DriveHold(DriveOwed(IF eff = "claim-label" THEN OnClaimProjected(p) ELSE p))

OfferOwedConfirmation(r) ==
    IF ~draining /\ r.owedFailed /\ r.owed # <<>> /\ ~r.gone /\ ~r.absence
    THEN Spawn([r EXCEPT !.absence = TRUE], "absence") ELSE r

OnOwedConfirmed(r, out) ==
    LET q == [r EXCEPT !.absence = FALSE]
    IN  IF q.gone \/ ~q.owedFailed \/ out # "gone" THEN q
        ELSE DriveOwed(StopAndFinish([q EXCEPT !.gone = TRUE]))

\* A parked record's labels are read as a human's answer only when no projection of
\* ours is owed, neither when the read began nor now.
ApplyParked(r, out, settled) ==
    LET restored == [r EXCEPT !.turns = 0, !.base = r.attempt]
    IN  IF out = "terminal" THEN StopAndFinish(r)
        ELSE IF out = "labelled" \/ ~settled \/ Owes(r, Projections) THEN r
        ELSE IF r.epochFaulted THEN Comment(Owe(restored, "label"))
        ELSE EnterBackoff(restored)

ConfirmParkedAbsence(r) ==
    Spawn([r EXCEPT !.absence = TRUE],
          IF Owes(r, Projections) THEN "parked-unsettled" ELSE "parked")

OnParkedConfirmed(r, out, settled) ==
    LET q == [r EXCEPT !.absence = FALSE]
    IN  IF Exiting(q) \/ q.state # "needs-review" \/ out = "retry" THEN q
        ELSE CASE out = "gone"       -> StopAndFinish([q EXCEPT !.gone = TRUE])
               [] out = "unassigned" -> StopAndFinish([q EXCEPT !.claimLost = TRUE])
               [] OTHER              -> ApplyParked(q, out, settled)

SweepParked(r, out, settled) ==
    IF Exiting(r) \/ r.state # "needs-review" \/ r.absence \/ out = "retry" THEN r
    ELSE IF out = "absent" THEN ConfirmParkedAbsence(r)
    ELSE ApplyParked(r, out, settled)

\* reconcile finds the record by issue, whatever its state or token is by now.
Reconcile(r, out) ==
    IF Exiting(r) \/ r.state = "needs-review" THEN r
    ELSE CASE out = "gone"  -> StopAndFinish([r EXCEPT !.gone = TRUE])
           [] out = "ended" -> StopAndFinish(r)
           [] OTHER         -> r

\* Mutant: an ended cycle is disposed of ahead of the hook that needs it.
DriveEndedCyclesAtOnce(r) ==
    IF r.cycle = "owed" THEN [r EXCEPT !.cycle = "disposing"] ELSE r

DriveEndedCycles(r) ==
    LET owesBeforeExit == r.tracked /\ r.owed # <<>> /\ Head(r.owed) \notin Exits
    IN  IF r.cycle = "owed" /\ ~owesBeforeExit THEN [r EXCEPT !.cycle = "disposing"] ELSE r

\* Mutant: a stop that was not confirmed is not tried again.
RetryPendingExitsWithoutStop(r) ==
    LET held == DriveHold(DriveOwed(r))
    IN  ConfirmQuiet(IF held.state = "queued" /\ held.verified
                     THEN IF held.epoch THEN BeginClaimBase(held) ELSE BeginApproval(held)
                     ELSE held)

RetryPendingExits(r) ==
    LET held    == DriveHold(DriveOwed(r))
        stopped == IF held.stopping /\ held.handle THEN BeginStop(held) ELSE held
        claimed == IF stopped.state = "queued" /\ stopped.verified
                   THEN IF stopped.epoch THEN BeginClaimBase(stopped) ELSE BeginApproval(stopped)
                   ELSE IF stopped.state = "backoff" /\ stopped.baseDispatch
                   THEN BeginClaimBase(stopped) ELSE stopped
    IN  ConfirmQuiet(claimed)

\* Mutant: a verification put off is never taken up again.
DriveVerifyRetryNever(r) == r

DriveVerifyRetry(r) ==
    IF r.state # "verifying" \/ ~r.verifyRetry \/ r.pending > 0 \/ Exiting(r) THEN r
    ELSE BeginVerify([r EXCEPT !.verifyRetry = FALSE])

DriveShutdown(r) ==
    LET s == [r EXCEPT !.suspended = TRUE]
        c == IF ~s.handle /\ s.pending = 0 THEN CompleteRemotely(RecordAttempt(s)) ELSE s
    IN  IF ~r.tracked THEN r
        ELSE IF OrderedExit(r) THEN DriveOwed(r)
        ELSE IF c.handle /\ ~c.domainQuiet THEN BeginStop(DriveOwed(c)) ELSE DriveOwed(c)

\* Mutant: the drain does not wait for the execution domain.
DrainedIgnoringHandle ==
    /\ draining /\ rec.cycle = "none"
    /\ rec.tracked =>
          /\ rec.pending = 0 /\ ~rec.probing /\ ~rec.stopInFlight
          /\ rec.owed = <<>> /\ ~rec.owedInFlight

Drained ==
    /\ draining /\ rec.cycle = "none"
    /\ rec.tracked =>
          /\ rec.pending = 0 /\ ~rec.probing /\ ~rec.stopInFlight
          /\ rec.handle => rec.handleDone /\ rec.domainQuiet
          /\ rec.owed = <<>> /\ ~rec.owedInFlight
-----------------------------------------------------------------------------
(* Actions.  Each is one turn of the loop: a signal is taken, its handler  *)
(* runs to the end, driveShutdown follows, and the workers it asked for    *)
(* are started.                                                            *)

\* Mutant: an answer for an earlier record of the issue is taken for this one's.
DeliverableToAnyRecord(r, j) ==
    r.tracked /\ (j.kind \in TokenOnly \/ j.gen = r.gen)

Deliverable(r, j) ==
    /\ r.tracked /\ j.tok = r.tok
    /\ j.kind \in TokenOnly \/ j.gen = r.gen

CanDrive(r) ==
    /\ r.drive /\ r.tracked /\ ~r.owedInFlight /\ r.owed # <<>>
    /\ Head(r.owed) \in Exits => r.cycle = "none"

\* The end of a turn; cost is the transient failures the answer used up.  Generations
\* only grow, so a signal of an older one is one the loop will drop whenever it
\* arrives: it is dropped here.
Return(js, r, cost) ==
    LET q    == IF draining THEN DriveShutdown(r) ELSE r
        done == [q EXCEPT !.drive = FALSE, !.spawn = {}]
        out  == {j \in js \cup q.spawn :
                    q.tracked /\ j.tok = q.tok => Deliverable(q, j)}
    IN  \/ /\ CanDrive(q)
           /\ rec' = [done EXCEPT !.owedInFlight = TRUE]
           /\ jobs' = out \cup {Job("effect", q)}
           /\ faults' = faults + cost
           /\ faults' <= MaxFaults
        \/ /\ rec' = done
           /\ jobs' = out
           /\ faults' = faults + cost + (IF CanDrive(q) THEN 1 ELSE 0)
           /\ faults' <= MaxFaults

Cost(out) == IF out = "retry" THEN 1 ELSE 0

\* A worker's signal of kind k is handled by H with one of its answers.
Handled(k, answers, H(_, _)) ==
    \E j \in jobs, out \in answers :
        /\ j.kind = k /\ Deliverable(rec, j)
        /\ Return(jobs \ {j}, H(rec, out), Cost(out))

Still == UNCHANGED <<pump, agent, recon, draining, relabels>>

\* dispatch and beginClaim; the candidate reads and the slots are not modelled here.
BeginClaim ==
    /\ ~rec.tracked /\ rec.cycle = "none" /\ ~draining /\ rec.tok < MaxTenures
    /\ Return(jobs, [SpawnCounted(NewRecord(rec.tok + 1), "claim")
                        EXCEPT !.illegal = rec.illegal], 0)
    /\ Still

Claimed == Handled("claim", {"not-attempted", "lost", "retry", "verified"}, OnClaimed) /\ Still
Approved == Handled("approve", {"gone", "retry", "refused", "no-epoch", "approved"}, OnApproved) /\ Still
ClaimBaseBegun == Handled("base", {"ok", "fault", "retry"}, OnClaimBaseBegun) /\ Still

Prepared ==
    /\ \E j \in jobs, ans \in PrepareAnswers :
          j.kind = "prepare" /\ Deliverable(rec, j) /\ Return(jobs \ {j}, OnPrepared(rec, ans), 0)
    /\ Still

NoPump == [gen |-> 0, tok |-> 0, at |-> "off"]

\* Mutant: a launch adopted during a drain is not pumped.
StartedUnpumped ==
    /\ \E j \in jobs, out \in {"handle", "retryable", "park", "failed"} :
          /\ j.kind = "start" /\ Deliverable(rec, j)
          /\ Return(jobs \ {j}, OnStarted(rec, out), 0)
          /\ agent' = (agent \/ out = "handle")
          /\ pump' = IF out = "handle" /\ ~FinishDue(Answered(rec)) /\ ~draining
                     THEN [gen |-> rec.gen, tok |-> rec.tok, at |-> "streaming"] ELSE pump
    /\ UNCHANGED <<recon, draining, relabels>>

\* A launch that returns a handle has an agent behind it.  Its pump is started when
\* the run is adopted, not when an exit was already waiting for the launch.
Started ==
    /\ \E j \in jobs, out \in {"handle", "retryable", "park", "failed"} :
          /\ j.kind = "start" /\ Deliverable(rec, j)
          /\ Return(jobs \ {j}, OnStarted(rec, out), 0)
          /\ agent' = (agent \/ out = "handle")
          /\ pump' = IF out = "handle" /\ ~FinishDue(Answered(rec))
                     THEN [gen |-> rec.gen, tok |-> rec.tok, at |-> "streaming"] ELSE pump
    /\ UNCHANGED <<recon, draining, relabels>>

\* The pump sends what the handle emits, in order; a signal for an older attempt is
\* dropped.
PumpCurrent == rec.tracked /\ pump.tok = rec.tok /\ pump.gen = rec.gen
PumpTurn(at, r) ==
    /\ pump' = [pump EXCEPT !.at = at]
    /\ Return(jobs, IF PumpCurrent THEN r ELSE rec, 0)
    /\ UNCHANGED <<agent, recon, draining, relabels>>

RunEvent ==
    \/ /\ pump.at \in {"streaming", "terminal"}
       /\ PumpCurrent /\ rec.state = "running" /\ ~rec.stopping
       /\ PumpTurn(pump.at, OnRunEvent(rec, "over-cap"))
    \/ /\ pump.at = "streaming"
       /\ \E ev \in {"succeeded", "retryable", "fatal"} : PumpTurn("terminal", OnRunEvent(rec, ev))

EventsClosed ==
    /\ pump.at \in {"streaming", "terminal"}
    /\ PumpTurn("closed", OnEventsClosed(rec, pump.at = "terminal"))

HandleDone == pump.at = "closed" /\ PumpTurn("off", OnHandleDone(rec))

\* cancelRun: the pump of a handle that was let go stops without another signal.
PumpCancelled ==
    /\ pump.at # "off" /\ ~(PumpCurrent /\ rec.handle)
    /\ pump' = [pump EXCEPT !.at = "off"]
    /\ UNCHANGED <<rec, jobs, agent, recon, draining, faults, relabels>>

\* Confirmed means that nothing of the execution domain is alive any more.  A stop
\* asked of a record without a handle confirms nothing and always answers.
Confirming(kinds, H(_, _)) ==
    /\ \E j \in jobs, out \in {"confirmed", "retry"} :
          /\ j.kind \in kinds /\ Deliverable(rec, j)
          /\ j.kind = "stop-nothing" => out = "confirmed"
          /\ Return(jobs \ {j}, H(rec, out), Cost(out))
          /\ agent' = (agent /\ (out # "confirmed" \/ j.kind = "stop-nothing"))
    /\ UNCHANGED <<pump, recon, draining, relabels>>

Probed == Confirming({"probe"}, OnProbed)
Stopped == Confirming({"stop", "stop-nothing"}, OnStopped)

Summarized == Handled("summary", {"read"}, LAMBDA r, out : OnSummarized(r)) /\ Still
Verified ==
    /\ Handled("verify", {"fault", "gone", "retry", "published", "incomplete", "contradicted"},
               OnVerified)
    /\ Still

Timer == Handled("timer", {"fired"}, LAMBDA r, out : Spawn(r, "fetch")) /\ Still
TimerFetched ==
    Handled("fetch", {"retry", "gone", "ended", "refused", "fault", "go"}, OnTimerFetched) /\ Still

EffectDone == Handled("effect", {"done", "retry"}, OnEffectDone) /\ Still
OwedConfirmed == Handled("absence", {"gone", "present", "retry"}, OnOwedConfirmed) /\ Still
ClaimAnchor ==
    /\ Handled("convert", {"anchored", "gone", "retry", "unread"}
                    \cup (IF Remote THEN {"superseded"} ELSE {}), OnClaimAnchor)
    /\ Still
DoneOwnership ==
    Handled("ownership", {"gone", "retry", "unassigned", "ended"}, OnDoneOwnership) /\ Still

\* A human may take the label off a parked issue MaxRelabels times.
Relabelled(out) == relabels' = relabels + (IF out = "relabelled" THEN 1 ELSE 0)
                   /\ relabels' <= MaxRelabels

ParkedConfirmed ==
    /\ \E j \in jobs, out \in {"gone", "unassigned", "retry", "terminal", "labelled", "relabelled"} :
          /\ j.kind \in {"parked", "parked-unsettled"} /\ Deliverable(rec, j)
          /\ Relabelled(out)
          /\ Return(jobs \ {j}, OnParkedConfirmed(rec, out, j.kind = "parked"), Cost(out))
    /\ UNCHANGED <<pump, agent, recon, draining>>

\* A signal of an earlier record of the issue is dropped.
Stale ==
    /\ \E j \in jobs : ~Deliverable(rec, j) /\ Return(jobs \ {j}, rec, 0)
    /\ Still

Tick ==
    /\ Return(jobs, IF rec.tracked THEN DriveVerifyRetry(rec) ELSE rec, 0)
    /\ recon' = IF recon # "idle" THEN recon
                ELSE IF ~rec.tracked THEN "nothing"
                ELSE IF rec.state \in {"claimed", "running", "preparing", "verifying"}
                THEN "refresh"
                ELSE IF rec.state = "needs-review" /\ ~Exiting(rec) /\ ~rec.absence
                THEN IF Owes(rec, Projections) THEN "parked-unsettled" ELSE "parked"
                ELSE "nothing"
    /\ UNCHANGED <<pump, agent, draining, relabels>>

ReconcileAnswers(what) ==
    CASE what = "refresh" -> {"active", "gone", "ended", "retry"}
      [] what \in {"parked", "parked-unsettled"} ->
            {"terminal", "labelled", "relabelled", "absent", "retry"}
      [] OTHER -> {"nothing"}

Reconciled ==
    /\ recon # "idle" /\ recon' = "idle"
    /\ \E out \in ReconcileAnswers(recon) :
          LET swept == IF ~rec.tracked THEN rec
                       ELSE CASE recon = "refresh" -> Reconcile(rec, out)
                              [] recon \in {"parked", "parked-unsettled"} ->
                                    SweepParked(rec, out, recon = "parked")
                              [] OTHER -> rec
              cycled == DriveEndedCycles(swept)
          IN  /\ Relabelled(out)
              /\ Return(jobs, IF ~cycled.tracked THEN cycled
                              ELSE OfferOwedConfirmation(RetryPendingExits(cycled)), Cost(out))
    /\ UNCHANGED <<pump, agent, draining>>

CycleDisposed ==
    /\ rec.cycle = "disposing"
    /\ \E out \in {"done", "retry"} :
          Return(jobs, IF out = "retry" THEN [rec EXCEPT !.cycle = "owed"]
                       ELSE DriveOwed([rec EXCEPT !.cycle = "none"]), Cost(out))
    /\ Still

Shutdown ==
    /\ ~draining /\ draining' = TRUE
    /\ Return(jobs, DriveShutdown(rec), 0)
    /\ UNCHANGED <<pump, agent, recon, relabels>>

Init ==
    /\ rec = NoRecord(0) /\ jobs = {} /\ pump = NoPump /\ agent = FALSE
    /\ recon = "idle" /\ draining = FALSE /\ faults = 0 /\ relabels = 0
    /\ lim \in Limits

\* The turns that handle a worker's answer.
Answer ==
    \/ Claimed \/ Approved \/ ClaimBaseBegun \/ Prepared \/ Started
    \/ Probed \/ Stopped \/ Summarized \/ Verified \/ Timer \/ TimerFetched
    \/ EffectDone \/ OwedConfirmed \/ ParkedConfirmed \/ ClaimAnchor \/ DoneOwnership
    \/ Stale

PumpSends == RunEvent \/ EventsClosed \/ HandleDone

Next ==
    /\ \/ Answer \/ PumpSends \/ PumpCancelled \/ CycleDisposed
       \/ Tick \/ Reconciled \/ BeginClaim \/ Shutdown
    /\ UNCHANGED lim

Spec == Init /\ [][Next]_vars

\* The loop goes on taking signals, workers answer, handles end, and ticks go on.  Each
\* conjunct is the weak fairness of its action, written with the state predicate that
\* enables it.  The effects worker is one goroutine with a queue of its own; of the
\* other workers, one may be starved by serving the others.
Fairness ==
    /\ []<>(~rec.owedInFlight) \/ []<><<EffectDone>>_vars
    /\ []<>(jobs = {}) \/ []<><<Answer>>_vars
    /\ []<>(pump.at = "off") \/ []<><<EventsClosed \/ HandleDone \/ PumpCancelled>>_vars
    /\ []<>(recon = "idle") \/ []<><<Reconciled>>_vars
    /\ []<>(rec.cycle # "disposing") \/ []<><<CycleDisposed>>_vars
    /\ []<>(recon # "idle") \/ []<><<Tick>>_vars

FairSpec == Spec /\ Fairness

-----------------------------------------------------------------------------
(* Properties.                                                             *)

Outcomes == {"none", "succeeded", "retryable", "fatal"}

\* The record, the workers and the pump hold the values the code can give them, and a
\* handler leaves nothing in the buffers of its turn.
TypeOK ==
    /\ rec.state \in States /\ rec.tok \in 0..MaxTenures /\ rec.gen \in Nat
    /\ rec.attempt \in Nat /\ rec.base \in 0..rec.attempt /\ rec.turns \in 0..MaxTurns
    /\ rec.pending \in Nat /\ rec.outcome \in Outcomes /\ rec.owed \in Seq(Effects)
    /\ rec.cycle \in {"none", "owed", "disposing"}
    /\ rec.spawn = {} /\ rec.drive = FALSE
    /\ \A j \in jobs : j.kind \in Counted \cup Uncounted \cup TokenOnly /\ j.tok \in 1..rec.tok
    /\ pump.at \in {"off", "streaming", "terminal", "closed"}
    /\ recon \in {"idle", "nothing", "refresh", "parked", "parked-unsettled"}
    /\ agent \in BOOLEAN /\ draining \in BOOLEAN
    /\ faults \in 0..MaxFaults /\ relabels \in 0..MaxRelabels

Out(kinds) == \E j \in jobs : j.kind \in kinds /\ j.tok = rec.tok

\* The record's bookkeeping of its workers is exact: pending counts the workers whose
\* answer will be handled, and each in-flight flag is up just while its worker is out.
\* A generation bump that outruns a counted worker, or an early return that forgets a
\* flag, would leave the record waiting for an answer that is dropped, or launch twice.
InFlightIsHonest ==
    rec.tracked =>
        /\ rec.pending = Cardinality({j \in jobs : j.kind \in Counted /\ j.tok = rec.tok})
        /\ rec.approving = Out({"approve"}) /\ rec.basing = Out({"base"})
        /\ rec.summarizing = Out({"summary"}) /\ rec.probing = Out({"probe"})
        /\ rec.stopInFlight = Out({"stop"}) /\ rec.owedInFlight = Out({"effect"})
        /\ rec.absence = Out({"absence", "parked", "parked-unsettled"})
        /\ rec.converting = Out({"convert", "ownership"})

\* No interleaving of answers, ticks and exits asks for a transition that
\* legalTransitions does not list; the code only logs such a request and carries on.
NoIllegalTransition == ~rec.illegal

MayBeAlive == agent \/ \E j \in jobs : j.kind = "start"

\* The claim is not released, nor the record dropped, nor the workspace disposed of,
\* while an agent of this issue may be alive or a launch is under way.
NothingLeavesBeforeTheAgent ==
    MayBeAlive =>
        /\ rec.tracked /\ rec.cycle # "disposing"
        /\ ~(rec.owedInFlight /\ Head(rec.owed) \in {"release", "forget", "dispose"})

\* runningCount counts the record for as long as its agent may be alive, so freeSlots
\* never lets more than limits.max_concurrent_agents run.
LiveAgentHoldsSlot ==
    MayBeAlive =>
        \/ rec.state \in {"queued", "claimed", "preparing", "running"}
        \/ rec.state = "verifying" /\ ~rec.domainQuiet

\* An attempt's after_run hook is queued before anything that disposes of its
\* workspace: the disposal effect, or the end of a remote cycle.  Not so for a record
\* that a shutdown suspended: the drain drops its verdict, and the hook with it.
HookPrecedesDisposal ==
    rec.tracked /\ ~rec.suspended =>
        /\ rec.ran /\ (rec.disposalOwed \/ rec.cycle # "none") => rec.afterRun
        /\ \A i, j \in DOMAIN rec.owed :
              rec.owed[i] = "dispose" /\ rec.owed[j] = "after-run" => j < i
        /\ rec.cycle = "disposing" => ~Owes(rec, {"after-run"})

Begun(kinds) == \E j \in jobs' \ jobs : j.kind \in kinds

\* recordAttempt has run for the attempt before the next one begins and before the
\* record is dropped, whichever way the attempt ended.  A shutdown has a backstop of its
\* own for the attempts it ends.
AttemptIsRecorded ==
    [][rec.tracked /\ rec.started /\ ~rec.suspended
         /\ (~rec'.tracked \/ Begun({"prepare"})) => rec.recorded]_vars

LeavingFor(r) ==
    r.releasing \/ r.finish \/ r.gone \/ r.claimLost \/ (r.stopping /\ r.finishAfterStop)

\* An exit that reconciliation or the tracker ordered is never taken back by an
\* outcome, a backoff or a park that the loop handles later.
ExitIsFinal ==
    [][rec.tracked /\ rec'.tracked /\ LeavingFor(rec) => LeavingFor(rec')]_vars

\* Once a shutdown was requested no worker that moves an issue forward is started.
DrainStartsNothing ==
    [][draining => ~Begun({"claim", "approve", "base", "prepare", "start", "verify"})]_vars

\* When Shutdown reports the drain complete, nothing of the issue runs any more: no
\* agent, no counted worker, no probe and no stop, and every ordered effect landed.
DrainedIsQuiet ==
    Drained => ~agent /\ (rec.tracked => ~Out(Counted \cup {"probe", "stop", "effect"})) /\ ~Owes(rec, Effects)

\* attemptEnded fires the after_run hook "exactly once per attempt that actually
\* started a process": before the claim of a launched attempt is let go, it has fired.
\* Not an invariant of the code: README, section 5.
HookRunsAfterEveryLaunch ==
    rec.launched /\ rec.owedInFlight /\ Head(rec.owed) \in Exits => rec.afterRun

\* The after_run hook runs "after an agent has finished with the worktree": never
\* while the next attempt's agent is in it.
\* Not an invariant of the code: README, section 5.
HookAndAgentAreDisjoint ==
    rec.owedInFlight /\ Head(rec.owed) = "after-run" => ~agent

\* The drain's wait for a handle to be Done is bounded: while a suspended record waits
\* for it, the pump that reports it is there.
DoneWillBeReported ==
    rec.tracked /\ rec.suspended /\ rec.handle /\ ~rec.handleDone =>
        pump.at # "off" /\ PumpCurrent

\* An ordered exit completes: unless a shutdown intervenes, the record is dropped.
ExitCompletes == rec.tracked /\ LeavingFor(rec) ~> ~rec.tracked \/ draining

\* A claimed issue is not stranded: unless a shutdown intervenes it is finished,
\* released, held for the review of its pull request, or parked for a human.
RunSettles == rec.tracked ~> ~rec.tracked \/ rec.state = "needs-review" \/ draining

\* A requested shutdown completes when no call fails: the drain waits for workers, stops,
\* hooks and owed writes, and none of them waits for something that no longer comes.
DrainCompletes == draining /\ MaxFaults = 0 ~> Drained
=============================================================================
