----------------------------- MODULE ReviewCycle -----------------------------
(***************************************************************************)
(* The review controller on one issue (internal/review, internal/reviewctl):*)
(* a stateless driver reads the issue, its comments, its change log, the    *)
(* pull request and its reviews, one call after the other, reduces them to  *)
(* one step, applies it and starts over.  Everything it knows is on the     *)
(* forge: reviews, route and intent comments, and an ordered event log in   *)
(* which an event's id is its position.  The daemon claims and publishes, a *)
(* human relabels, unassigns and pushes at any moment between two calls.    *)
(***************************************************************************)
EXTENDS Naturals, Sequences, FiniteSets, FiniteSetsExt

CONSTANTS Required,       \* the required labels
          QueueLabel,     \* the one the controller removes
          RoundCap, MaxEvents, MaxHeads, MaxBases, MaxTrouble

ASSUME ReviewAssumption == QueueLabel \in Required /\ RoundCap > 0

VARIABLES rvLog,     \* the issue's change log
          notes,     \* its comments: milestones, routes, intents, refusals
          rounds,    \* the reviews on its pull request
          subject,   \* the pull request: head, base, open
          drv,       \* the driver's run
          rvBudget   \* human moves and forge faults so far; the milestone the daemon owes

rvVars == <<rvLog, notes, rounds, subject, drv, rvBudget>>

Principal == "ben"
Tracker == "tracker"
Controller == "controller"
Person == "person"
MaxSteps == 6

Ev(t, x, by) == [t |-> t, x |-> x, by |-> by]
Prefix(s, n) == SubSeq(s, 1, n)
LastOf(S) == Max(S \union {0})

-----------------------------------------------------------------------------
(* Epochs of a change log. *)

LabelEpoch(E, l) ==
    LET k == LastOf({i \in DOMAIN E : E[i].x = l /\ E[i].t \in {"labeled", "unlabeled"}})
    IN  IF k # 0 /\ E[k].t = "labeled" THEN k ELSE 0

\* completeApprovalEpoch: every required label stands; the anchor is the latest.
ApprovalEpoch(E) ==
    LET ep == {LabelEpoch(E, l) : l \in Required} IN IF 0 \in ep THEN 0 ELSE Max(ep)

\* ClaimEpoch: the first assignment since the last unassignment.
ClaimEpoch(E) ==
    LET of(t) == {i \in DOMAIN E : E[i].t = t /\ E[i].x = Principal}
        open == {i \in of("assigned") : i > LastOf(of("unassigned"))}
    IN  IF open = {} THEN 0 ELSE Min(open)

LogAt(E, n) == Prefix(E, IF n <= Len(E) THEN n ELSE 0)
ClaimAt(E, occ) == ClaimEpoch(LogAt(E, occ))
ApprovalAt(E, occ) == ApprovalEpoch(LogAt(E, occ))

\* The complete approvals that replaced this epoch.
Newer(E, ep) == {n \in (ep + 1)..Len(E) : E[n].x \in Required /\ ApprovalAt(E, n) \notin {0, ep}}
NewerApproval(E, ep) == IF Newer(E, ep) = {} THEN 0 ELSE ApprovalAt(E, Min(Newer(E, ep)))
ApprovalRemoved(E, ep) == \E n \in (ep + 1)..Len(E) : E[n].x \in Required /\ E[n].t = "unlabeled"

PublishedOnLog(E, occ) == occ \in DOMAIN E /\ E[occ] = Ev("unlabeled", "run", Tracker)
HandedBack(E, claim) == \E i \in DOMAIN E : i > claim /\ E[i].t = "unassigned" /\ E[i].x = Principal

-----------------------------------------------------------------------------
(* What one observation holds. *)

LabelsOn(E) == {l \in Required \union {"human-review"} : LabelEpoch(E, l) # 0}
Assignees(E) ==
    {p \in {Principal, Person} :
        LET k == LastOf({i \in DOMAIN E : E[i].x = p /\ E[i].t \in {"assigned", "unassigned"}})
        IN  k # 0 /\ E[k].t = "assigned"}

Of(s, kind) == {n \in 1..s.c : notes[n].kind = kind}
Triggers(s) == {notes[n].occ : n \in Of(s, "milestone")}
MilestoneAt(s, occ) == notes[Min({n \in Of(s, "milestone") : notes[n].occ = occ})].at
Routed(s, occ) == \E n \in Of(s, "route") : notes[n].occ = occ
Seen(s) == {rounds[n] : n \in 1..s.r}

\* since + forApproval: the reviews of one approval cycle.
CycleReviews(s, appr) == {p \in Seen(s) : p.appr = appr /\ p.at >= appr}
HeadsOf(ps) == {p.head : p \in ps}

StepOf(kind, occ, claim, appr, head, outcome, s) ==
    [kind |-> kind, occ |-> occ, claim |-> claim, appr |-> appr, head |-> head, outcome |-> outcome, base |-> s.pr.base]
Nothing == [kind |-> "nothing", occ |-> 0, claim |-> 0, appr |-> 0, head |-> 0, outcome |-> "", base |-> 0]
RecordStep(s, occ, claim, head, outcome) == StepOf("route", occ, claim, 0, head, outcome, s)

\* Mutant: one head more than the cap.
CappedLate(ps) == Cardinality(HeadsOf(ps)) > RoundCap
Capped(ps) == Cardinality(HeadsOf(ps)) >= RoundCap

OutcomeFor(ps, verdict) ==
    IF verdict = "clean" THEN "human-review"
    ELSE IF Capped(ps) THEN "round-cap" ELSE "revise"

-----------------------------------------------------------------------------
(* Reduce. *)

Unrouted(s) == {n \in Of(s, "intent") : ~Routed(s, notes[n].occ)}

\* resumeTerminalIntent: the oldest intent without a route is finished first.
ResumeIntent(s, E) ==
    LET occ == Min({notes[n].occ : n \in Unrouted(s)})
        same == {n \in Unrouted(s) : notes[n].occ = occ}
        m == notes[Min(same)]
        appr == ApprovalAt(E, occ)
    IN  IF \/ \E n \in same : [notes[n] EXCEPT !.at = m.at] # m
           \/ ~PublishedOnLog(E, occ) \/ ClaimAt(E, occ) # m.claim \/ m.claim = 0
           \/ appr = 0 \/ m.appr \notin {appr, LabelEpoch(LogAt(E, occ), QueueLabel)}
        THEN Nothing
        ELSE IF QueueLabel \notin LabelsOn(Prefix(rvLog, s.i)) \/ NewerApproval(E, appr) # 0 \/ ApprovalRemoved(E, appr)
        THEN RecordStep(s, occ, m.claim, m.head, m.outcome)
        ELSE StepOf("revoke", occ, m.claim, appr, m.head, m.outcome, s)

\* publicationBeforeMutation: the publication a mutation of the issue acted on.
OwnerOf(s, E, i) == LastOf({occ \in Triggers(s) : PublishedOnLog(E, occ) /\ occ < i /\ MilestoneAt(s, occ) < i})

\* latestReviewForOccurrenceThrough.
LatestReview(s, E, occ, to) ==
    LET ns == {n \in 1..s.r : /\ rounds[n].occ = occ /\ rounds[n].claim = ClaimAt(E, occ)
                              /\ rounds[n].appr = ApprovalAt(E, occ) /\ rounds[n].at < to}
    IN  IF ns = {} THEN {} ELSE {rounds[Max(ns)]}

\* completedUnroutedRoute: a mutation that landed before its route was recorded.
Completed(s, E) ==
    {st \in UNION {
        {LET cycle == {p \in CycleReviews(s, p0.appr) : p.at < i}
             out == OutcomeFor(cycle, p0.verdict)
         IN  IF E[i].t = "unlabeled"
             THEN [i |-> i, step |-> RecordStep(s, occ, p0.claim, p0.head, IF out = "revise" THEN "human-review" ELSE out)]
             ELSE IF p0.verdict = "changes" /\ out = "revise"
             THEN [i |-> i, step |-> RecordStep(s, occ, p0.claim, p0.head, "revise")]
             ELSE [i |-> i, step |-> Nothing]
         : p0 \in LatestReview(s, E, occ, i)}
        : i \in {j \in DOMAIN E : \/ E[j] = Ev("unlabeled", QueueLabel, Controller)
                                  \/ E[j].t = "unassigned" /\ E[j].x = Principal},
          occ \in {o \in Triggers(s) : ~Routed(s, o) /\ PublishedOnLog(E, o) /\ ClaimAt(E, o) # 0 /\ ApprovalAt(E, o) # 0}}
     : st.step.kind # "nothing" /\ OwnerOf(s, E, st.i) = st.step.occ}

\* The oldest publication, its first mutation.
FirstCompleted(s, E) ==
    LET all == Completed(s, E)
        occ == Min({st.step.occ : st \in all})
        mine == {st \in all : st.step.occ = occ}
    IN  (CHOOSE st \in mine : \A o \in mine : st.i <= o.i).step

\* beginReview.
BeginReview(s, E, occ) ==
    LET appr == ApprovalAt(E, occ)
    IN  IF \/ ~(Required \subseteq LabelsOn(Prefix(rvLog, s.i)))
           \/ ClaimEpoch(E) # ClaimAt(E, occ)
           \/ NewerApproval(E, appr) # 0 \/ ApprovalRemoved(E, appr)
        THEN Nothing
        ELSE StepOf("review", occ, ClaimAt(E, occ), appr, s.pr.head, "", s)

\* stop with no review to act on: the intent is written first.
StopUnreviewed(s, E, occ, outcome) ==
    StepOf("intent", occ, ClaimAt(E, occ), ApprovalAt(E, occ), s.pr.head, outcome, s)

\* Mutant: only the label is looked at.
StopReviewedBlind(s, E, p, outcome) ==
    IF QueueLabel \notin LabelsOn(Prefix(rvLog, s.i))
    THEN RecordStep(s, p.occ, p.claim, p.head, outcome)
    ELSE StepOf("revoke", p.occ, p.claim, p.appr, p.head, outcome, s)

\* stop: a newer approval is preserved, a withdrawn one is left alone.
StopReviewed(s, E, p, outcome) ==
    IF NewerApproval(E, p.appr) # 0 \/ ApprovalRemoved(E, p.appr) \/ QueueLabel \notin LabelsOn(Prefix(rvLog, s.i))
    THEN RecordStep(s, p.occ, p.claim, p.head, outcome)
    ELSE StepOf("revoke", p.occ, p.claim, p.appr, p.head, outcome, s)

\* route.
RouteReview(s, E, p, outcome) ==
    LET back == HandedBack(E, p.claim)
        I == Prefix(rvLog, s.i)
    IN  IF outcome # "revise" THEN StopReviewed(s, E, p, outcome)
        ELSE IF ~(Required \subseteq LabelsOn(I)) /\ ~back THEN StopReviewed(s, E, p, "human-review")
        ELSE IF NewerApproval(E, p.appr) # 0 THEN RecordStep(s, p.occ, p.claim, p.head, outcome)
        ELSE IF ApprovalRemoved(E, p.appr) THEN Nothing
        ELSE IF ClaimEpoch(E) # p.claim
        THEN IF back THEN RecordStep(s, p.occ, p.claim, p.head, "revise") ELSE StopReviewed(s, E, p, "human-review")
        ELSE IF Principal \notin Assignees(I) THEN Nothing
        ELSE IF Assignees(I) # {Principal} THEN StopReviewed(s, E, p, "human-review")
        ELSE StepOf("unassign", p.occ, p.claim, 0, p.head, "", s)

\* validateSubject: the linked pull request is open and is this issue's.
ValidSubject(pr) == pr.open /\ pr.head # 0

\* The newest publication, once nothing older is left unfinished.
ReduceTrigger(s, E, occ) ==
    LET claim == ClaimAt(E, occ)
        appr == ApprovalAt(E, occ)
        mine == {p \in Seen(s) : p.occ = occ /\ p.claim = claim /\ p.appr = appr}
        exact == {p \in mine : p.head = s.pr.head /\ p.base = s.pr.base}
        cycle == CycleReviews(s, appr)
    IN  IF ~PublishedOnLog(E, occ) \/ Routed(s, occ) \/ claim = 0 \/ ~ValidSubject(s.pr) \/ appr = 0 THEN Nothing
        ELSE IF exact # {}
        THEN LET p == CHOOSE q \in exact : \A o \in exact : q.at <= o.at IN RouteReview(s, E, p, OutcomeFor(cycle, p.verdict))
        ELSE IF \E p \in Seen(s) : p.occ = occ /\ p \notin mine THEN StopUnreviewed(s, E, occ, "human-review")
        ELSE IF \E p \in mine : p.head = s.pr.head THEN BeginReview(s, E, occ)
        ELSE IF s.pr.head \in HeadsOf(cycle) THEN StopUnreviewed(s, E, occ, "no-progress")
        ELSE IF Capped(cycle) THEN StopUnreviewed(s, E, occ, "round-cap")
        ELSE BeginReview(s, E, occ)

Reduce(s) ==
    LET E == Prefix(rvLog, s.e)
    IN  IF Unrouted(s) # {} THEN ResumeIntent(s, E)
        ELSE IF Completed(s, E) # {} THEN FirstCompleted(s, E)
        ELSE IF s.closed \/ Triggers(s) = {} THEN Nothing
        ELSE ReduceTrigger(s, E, Max(Triggers(s)))

-----------------------------------------------------------------------------
(* The forge, the daemon and the people. *)

LogEvent(ev) == rvLog' = Append(rvLog, ev)
\* Bound: events of the daemon and of people; the controller's are not counted.
Others == Len(rvLog) < MaxEvents
Note(kind, st) ==
    [kind |-> kind, occ |-> st.occ, claim |-> st.claim, appr |-> st.appr, head |-> st.head, outcome |-> st.outcome, at |-> Len(rvLog)]

NoSnap == [i |-> 0, c |-> 0, e |-> 0, r |-> 0, closed |-> FALSE, pr |-> [head |-> 0, base |-> 0, open |-> FALSE]]
DriverIdle == [pc |-> "idle", snap |-> NoSnap, step |-> Nothing, last |-> Nothing, n |-> 0, report |-> "", quiet |-> TRUE]

ReviewInit ==
    /\ rvLog = LET others == CHOOSE s \in [1..(Cardinality(Required) - 1) -> Required \ {QueueLabel}] :
                                 \A i, j \in DOMAIN s : s[i] = s[j] => i = j
               IN  <<Ev("labeled", QueueLabel, Person)>> \o [i \in DOMAIN others |-> Ev("labeled", others[i], Person)]
    /\ notes = <<>> /\ rounds = <<>>
    /\ subject = [head |-> 0, base |-> 1, open |-> FALSE, closed |-> FALSE]
    /\ drv = DriverIdle
    /\ rvBudget = [trouble |-> 0, owed |-> 0]

\* Somebody else moved while the driver ran.
Disturb == drv' = IF drv.pc = "idle" THEN drv ELSE [drv EXCEPT !.quiet = FALSE]

DaemonClaims ==
    /\ Required \subseteq LabelsOn(rvLog) /\ Assignees(rvLog) = {} /\ Others /\ ~subject.closed /\ rvBudget.owed = 0
    /\ LogEvent(Ev("assigned", Principal, Tracker))
    /\ Disturb
    /\ UNCHANGED <<notes, rounds, subject, rvBudget>>

\* A delivery: the branch moves or does not, and the claimed label comes off.
DaemonPublishes ==
    /\ Principal \in Assignees(rvLog) /\ rvBudget.owed = 0 /\ Others
    /\ ~ \E i \in DOMAIN rvLog : i > ClaimEpoch(rvLog) /\ PublishedOnLog(rvLog, i)
    /\ \E h \in {subject.head, subject.head + 1} \ {0} :
          h <= MaxHeads /\ subject' = [subject EXCEPT !.head = h, !.open = TRUE]
    /\ LogEvent(Ev("unlabeled", "run", Tracker))
    /\ rvBudget' = [rvBudget EXCEPT !.owed = Len(rvLog')]
    /\ Disturb
    /\ UNCHANGED <<notes, rounds>>

\* Its milestone comment, an owed effect, names the event.
DaemonPostsMilestone ==
    /\ rvBudget.owed # 0
    /\ notes' = Append(notes, Note("milestone", [Nothing EXCEPT !.occ = rvBudget.owed]))
    /\ rvBudget' = [rvBudget EXCEPT !.owed = 0]
    /\ Disturb
    /\ UNCHANGED <<rvLog, rounds, subject>>

PersonActs ==
    /\ rvBudget.trouble < MaxTrouble /\ Others
    /\ rvBudget' = [rvBudget EXCEPT !.trouble = @ + 1]
    /\ \/ /\ \E l \in Required : LogEvent(Ev(IF l \in LabelsOn(rvLog) THEN "unlabeled" ELSE "labeled", l, Person))
          /\ UNCHANGED subject
       \/ /\ \E p \in {Principal, Person} :
                /\ p = Person \/ Principal \in Assignees(rvLog)
                /\ LogEvent(Ev(IF p \in Assignees(rvLog) THEN "unassigned" ELSE "assigned", p, Person))
          /\ UNCHANGED subject
       \/ /\ subject.open /\ subject.head < MaxHeads
          /\ subject' = [subject EXCEPT !.head = @ + 1]
          /\ UNCHANGED rvLog
       \/ /\ subject.base < MaxBases
          /\ subject' = [subject EXCEPT !.base = @ + 1]
          /\ UNCHANGED rvLog
       \/ /\ subject' \in {[subject EXCEPT !.closed = TRUE], [subject EXCEPT !.open = FALSE]} \ {subject}
          /\ UNCHANGED rvLog
    /\ Disturb
    /\ UNCHANGED <<notes, rounds>>

-----------------------------------------------------------------------------
(* The driver: Run, observe, apply, performReview. *)

DriverStarts ==
    /\ drv.pc = "idle"
    /\ drv' = [DriverIdle EXCEPT !.pc = "issue"]
    /\ UNCHANGED <<rvLog, notes, rounds, subject, rvBudget>>

\* observe reads the issue, the comments, the events, the pull request, the
\* reviews: five calls, and anything may happen between two of them.
Observe ==
    /\ drv' = CASE drv.pc = "issue" -> [drv EXCEPT !.pc = "comments", !.snap.i = Len(rvLog), !.snap.closed = subject.closed]
                [] drv.pc = "comments" -> [drv EXCEPT !.pc = "events", !.snap.c = Len(notes)]
                [] drv.pc = "events" -> [drv EXCEPT !.snap.e = Len(rvLog), !.pc = IF Triggers(drv.snap) = {} THEN "reduce" ELSE "pr"]
                [] drv.pc = "pr" -> [drv EXCEPT !.pc = "reviews",
                                       !.snap.pr = [head |-> subject.head, base |-> subject.base, open |-> subject.open]]
                [] drv.pc = "reviews" -> [drv EXCEPT !.pc = "reduce", !.snap.r = Len(rounds)]
    /\ UNCHANGED <<rvLog, notes, rounds, subject, rvBudget>>

Observes == drv.pc \in {"issue", "comments", "events", "pr", "reviews"} /\ Observe

SameStep(a, b) ==
    a.kind = b.kind /\ a.occ = b.occ /\ a.head = b.head /\ a.base = b.base /\ a.outcome = b.outcome
SameReviewSubject(a, b) == a.kind = "review" /\ SameStep(a, b) /\ a.claim = b.claim /\ a.appr = b.appr

\* Mutant: the report is published without looking again.
DriverDecisionUnconfirmed ==
    LET st == Reduce(drv.snap)
    IN  IF drv.report # "" THEN [drv EXCEPT !.pc = "publish"]
        ELSE IF st.kind = "nothing" \/ (drv.n > 0 /\ SameStep(st, drv.last)) THEN DriverIdle
        ELSE [drv EXCEPT !.pc = st.kind, !.step = st, !.last = st]

\* Run: reduce what was read, apply it or stop.  A reviewer's report is
\* published only if its subject is still what the reduction asks for.
DriverDecision ==
    LET st == Reduce(drv.snap)
    IN  IF drv.report # ""
        THEN IF SameReviewSubject(st, drv.step) THEN [drv EXCEPT !.pc = "publish"]
             ELSE [drv EXCEPT !.pc = "next", !.report = ""]
        ELSE IF st.kind = "nothing" \/ (drv.n > 0 /\ SameStep(st, drv.last)) THEN DriverIdle
        ELSE [drv EXCEPT !.pc = st.kind, !.step = st, !.last = st]

DriverDecides ==
    /\ drv.pc = "reduce"
    /\ drv' = DriverDecision
    /\ UNCHANGED <<rvLog, notes, rounds, subject, rvBudget>>

NextStep == IF drv.n + 1 = MaxSteps THEN DriverIdle ELSE [drv EXCEPT !.pc = "issue", !.n = @ + 1, !.snap = NoSnap, !.step = Nothing]

DriverRepeats ==
    /\ drv.pc = "next"
    /\ drv' = NextStep
    /\ UNCHANGED <<rvLog, notes, rounds, subject, rvBudget>>

\* BlockedReviewFor.
AlreadyStated == \E n \in Of(drv.snap, "blocked") : notes[n].occ = drv.step.occ /\ notes[n].head = drv.step.head

\* The reviewer answers, gives no usable verdict, or cannot be started, which
\* is stated on the issue once per head.
ReviewerAnswers ==
    /\ drv.pc = "review"
    /\ \/ /\ \E v \in {"clean", "changes"} :
                drv' = [drv EXCEPT !.pc = "issue", !.report = v, !.snap = NoSnap]
          /\ UNCHANGED <<notes, rvBudget>>
       \/ /\ rvBudget.trouble < MaxTrouble
          /\ rvBudget' = [rvBudget EXCEPT !.trouble = @ + 1]
          /\ notes' \in {notes, IF AlreadyStated THEN notes ELSE Append(notes, Note("blocked", drv.step))}
          /\ drv' = DriverIdle
    /\ UNCHANGED <<rvLog, rounds, subject>>

\* A write lands and answers, lands and the answer is lost, or does not land.
Written(next) ==
    \/ drv' = next /\ UNCHANGED rvBudget
    \/ /\ rvBudget.trouble < MaxTrouble
       /\ rvBudget' = [rvBudget EXCEPT !.trouble = @ + 1]
       /\ drv' = DriverIdle

\* The marker names what the step was decided on.
ReviewOf(st) == [occ |-> st.occ, claim |-> st.claim, appr |-> st.appr, head |-> st.head, base |-> st.base, verdict |-> drv.report, at |-> Len(rvLog)]

PublishReview ==
    /\ drv.pc = "publish"
    /\ rounds' = Append(rounds, ReviewOf(drv.step))
    /\ Written([NextStep EXCEPT !.report = ""])
    /\ UNCHANGED <<rvLog, notes, subject>>

Unassign ==
    /\ drv.pc = "unassign"
    /\ IF Principal \in Assignees(rvLog) THEN LogEvent(Ev("unassigned", Principal, Controller)) ELSE UNCHANGED rvLog
    /\ Written(NextStep)
    /\ UNCHANGED <<notes, rounds, subject>>

\* A label already gone is not an error.
RemoveLabel ==
    /\ drv.pc = "revoke"
    /\ IF QueueLabel \in LabelsOn(rvLog) THEN LogEvent(Ev("unlabeled", QueueLabel, Controller)) ELSE UNCHANGED rvLog
    /\ Written([drv EXCEPT !.pc = "tag"])
    /\ UNCHANGED <<notes, rounds, subject>>

AddLabel ==
    /\ drv.pc = "tag"
    /\ IF "human-review" \in LabelsOn(rvLog) THEN UNCHANGED rvLog ELSE LogEvent(Ev("labeled", "human-review", Controller))
    /\ Written(NextStep)
    /\ UNCHANGED <<notes, rounds, subject>>

PostMarker ==
    /\ drv.pc \in {"intent", "route"}
    /\ notes' = Append(notes, Note(drv.pc, drv.step))
    /\ Written(NextStep)
    /\ UNCHANGED <<rvLog, rounds, subject>>

\* The driver dies, or a call fails before it lands.
DriverFails ==
    /\ drv.pc # "idle" /\ rvBudget.trouble < MaxTrouble
    /\ rvBudget' = [rvBudget EXCEPT !.trouble = @ + 1]
    /\ drv' = DriverIdle
    /\ UNCHANGED <<rvLog, notes, rounds, subject>>

DriverNext ==
    \/ DriverStarts \/ Observes \/ DriverDecides \/ DriverRepeats \/ ReviewerAnswers
    \/ PublishReview \/ Unassign \/ RemoveLabel \/ AddLabel \/ PostMarker
ReviewNext == DriverNext \/ DriverFails \/ DaemonClaims \/ DaemonPublishes \/ DaemonPostsMilestone \/ PersonActs

ReviewSpec == ReviewInit /\ [][ReviewNext]_rvVars

-----------------------------------------------------------------------------
(* Properties. *)

ReviewTypeOK ==
    /\ \A i \in DOMAIN rvLog : rvLog[i].by \in {Tracker, Controller, Person}
    /\ drv.n < MaxSteps /\ drv.snap.e <= Len(rvLog) /\ (drv.snap.i <= drv.snap.e \/ drv.snap.e = 0)

\* One review per subject and one route per publication, whatever was lost
\* between two steps (reduce.go:155 recognises its own review, :127 its route).
NoRepeatedRound ==
    /\ \A i, j \in DOMAIN rounds :
          [rounds[i] EXCEPT !.at = 0, !.verdict = ""] = [rounds[j] EXCEPT !.at = 0, !.verdict = ""] => i = j
    /\ \A i, j \in DOMAIN notes :
          notes[i].kind = notes[j].kind /\ notes[i].occ = notes[j].occ /\ notes[i].kind \in {"route", "intent"} => i = j

\* No approval is ever spent on more heads than the cap (review.go RoundCap).
RoundsAreCapped ==
    \A ep \in 1..Len(rvLog) : Cardinality({rounds[n].head : n \in {k \in DOMAIN rounds : rounds[k].appr = ep}}) <= RoundCap

\* A review belongs to the claim and the approval its publication stood on.
ReviewsAreAnchored ==
    \A n \in DOMAIN rounds : rounds[n].claim = ClaimAt(rvLog, rounds[n].occ) /\ rounds[n].appr = ApprovalAt(rvLog, rounds[n].occ)

\* A write spares what was replaced before it was read: the approval it
\* revokes, the claim it hands back and the subject it reviews are, on the log
\* as read, the publication's own (driver.go:218, reduce.go:472, :551, :646).
MutatesOnlyItsOwn ==
    LET E == Prefix(rvLog, drv.snap.e)
    IN  /\ drv.pc = "revoke" => ApprovalEpoch(E) = ApprovalAt(E, drv.step.occ)
        /\ drv.pc = "publish" => /\ drv.step.head = drv.snap.pr.head /\ drv.step.base = drv.snap.pr.base
                               /\ ClaimEpoch(E) = drv.step.claim /\ ApprovalEpoch(E) = drv.step.appr
        /\ drv.pc = "unassign" => ClaimEpoch(E) = ClaimAt(E, drv.step.occ) /\ Assignees(Prefix(rvLog, drv.snap.i)) = {Principal}

\* A run nobody disturbs settles: no step is still due once applied, and the
\* step limit is never what ends it (driver.go:63, :79).
UndisturbedRunSettles ==
    drv.pc = "reduce" /\ drv.quiet /\ drv.report = "" /\ drv.n > 0 =>
        LET st == Reduce(drv.snap)
        IN  st.kind = "nothing" \/ (~SameStep(st, drv.last) /\ drv.n < MaxSteps - 1)

\* A round is never repeated, capped, anchored, and touches only its own.
ReviewSafe == ReviewTypeOK /\ NoRepeatedRound /\ RoundsAreCapped /\ ReviewsAreAnchored /\ MutatesOnlyItsOwn /\ UndisturbedRunSettles
=============================================================================
