------------------------ MODULE ClaimLifeEvidence -------------------------
(***************************************************************************)
(* The second half of the invariant of ClaimLifeKeeps: the queue of label   *)
(* writes, what the labels of the log prove about the launches and pull     *)
(* requests of an epoch, that no claim is without a record, and that people *)
(* who are waited for are not overtaken. Each of these groups survives a    *)
(* step given those of ClaimLifeKeeps.                                      *)
(***************************************************************************)
EXTENDS ClaimLifeKeeps

USE SMTT(30), ZenonT(30)

\* A queue that grew holds what it held, and effects owed on entering t.
LEMMA OwedMoveFacts ==
    ASSUME NEW o \in Seq(OwedSet), NEW q, NEW t, OwedMove(o, q, t)
    PROVE  /\ \A i \in DOMAIN q : i \in Nat /\ ((i \in DOMAIN o /\ q[i] = o[i]) \/ (i > Len(o) /\ Fresh(q[i], t)))
           /\ \A i \in DOMAIN o : i \in DOMAIN q /\ q[i] = o[i] /\ i <= Len(o)
           /\ t \in {"claimed", "parked"} =>
                 /\ Len(o) + 1 \in DOMAIN q /\ Fresh(q[Len(o) + 1], t)
                 /\ q[Len(o) + 1].op = "set" /\ q[Len(o) + 1].want # "none"
<1>1. Len(o) \in Nat /\ DOMAIN o = 1 .. Len(o) /\ Len(q) \in Nat /\ DOMAIN q = 1 .. Len(q)
  BY DEF OwedMove
<1>2. t \in {"claimed", "parked"} => Len(o) + 1 \in DOMAIN q /\ Len(o) + 1 > Len(o)
  BY <1>1 DEF OwedMove
<1> QED
  BY <1>1, <1>2 DEF OwedMove

\* The queue in order: only its head can be in flight or an orphan.
LEMMA OwedStep ==
    ASSUME Reads, TypeOK', Step
    PROVE  OwedOK'
<1> USE DEF Reads
<1>0. owed \in Seq(OwedSet) /\ \A i \in DOMAIN owed : i \in Nat /\ owed[i] \in OwedSet
  BY Typed
<1>1. CASE owed' = owed /\ rec' = rec
  BY <1>1 DEF OwedOK, Settled
<1>2. CASE HeadStep(owed, owed') /\ rec' = rec
  <2>1. /\ DOMAIN owed' = DOMAIN owed /\ owed[1].op = "set" /\ owed'[1].op = "set"
        /\ owed'[1].want = owed[1].want /\ owed'[1].orphan = owed[1].orphan
        /\ \A i \in DOMAIN owed : i # 1 => owed'[i] = owed[i]
    BY <1>2 DEF HeadStep
  <2>2. \A i \in DOMAIN owed : /\ owed'[i].op = owed[i].op /\ owed'[i].want = owed[i].want
                               /\ owed'[i].orphan = owed[i].orphan
                               /\ (OwesReview(owed'[i]) <=> OwesReview(owed[i]))
    BY <2>1 DEF OwesReview
  <2>3. \A i \in DOMAIN owed : i > 1 => ~owed'[i].sent /\ owed'[i].stale = {} /\ ~owed'[i].orphan
    BY <1>0, <2>1 DEF OwedOK
  <2>4. \A i \in DOMAIN owed : owed'[i].op # "set" => ~owed'[i].sent /\ ~owed'[i].orphan
    BY <2>1 DEF OwedOK
  <2> QED
    BY <1>2, <2>1, <2>2, <2>3, <2>4 DEF OwedOK, Settled
<1>3. CASE owed # <<>> /\ owed' = Tail(owed) /\ rec' = rec
  <2>1. \A i \in DOMAIN owed' : i \in Nat /\ i + 1 \in DOMAIN owed /\ owed'[i] = owed[i + 1]
    BY <1>0, <1>3, TailFacts
  <2>2. \A i \in DOMAIN owed' :
           /\ ~owed'[i].sent /\ owed'[i].stale = {} /\ ~owed'[i].orphan
           /\ owed'[i].op = "release" => rec.state \in {"releasing", "failed"}
           /\ OwesReview(owed'[i]) => rec.state \in {"parked", "releasing", "dropping", "unclassified"}
           /\ rec.state = "unclassified" => owed'[i].op = "set"
           /\ rec.state \in {"none", "held"} => owed'[i].orphan
    <3> SUFFICES ASSUME NEW i \in DOMAIN owed'
                 PROVE /\ ~owed'[i].sent /\ owed'[i].stale = {} /\ ~owed'[i].orphan
                       /\ owed'[i].op = "release" => rec.state \in {"releasing", "failed"}
                       /\ OwesReview(owed'[i]) => rec.state \in {"parked", "releasing", "dropping", "unclassified"}
                       /\ rec.state = "unclassified" => owed'[i].op = "set"
                       /\ rec.state \in {"none", "held"} => owed'[i].orphan
      OBVIOUS
    <3>0. i \in Nat /\ i + 1 \in DOMAIN owed /\ owed'[i] = owed[i + 1]
      BY <2>1
    <3>1. i + 1 > 1
      <4>1. owed' \in Seq(OwedSet)
        BY <1>0, <1>3, TailFacts
      <4>2. i >= 1
        BY <4>1
      <4> QED
        BY <3>0, <4>2
    <3> QED
      BY <3>0, <3>1 DEF OwedOK, Settled
  <2>3. ASSUME NEW i \in DOMAIN owed', OwesReview(owed'[i]), rec.state = "parked",
               NEW j \in DOMAIN owed', j > i, owed'[j].op = "set"
        PROVE  owed'[j].want = NeedsReview
    <3>1. i + 1 \in DOMAIN owed /\ j + 1 \in DOMAIN owed /\ j + 1 > i + 1
            /\ owed'[i] = owed[i + 1] /\ owed'[j] = owed[j + 1]
      BY <2>1, <2>3
    <3> QED
      BY <2>3, <3>1 DEF OwedOK
  <2> QED
    BY <1>3, <2>2, <2>3 DEF OwedOK, Settled
<1>4. CASE LogStep /\ (WriteStep \/ People)
  <2>1. rec' = rec
    BY <1>4 DEF LogStep
  <2>2. CASE People
    <3>1. owed' = owed
      BY <2>2 DEF People, Unassign, Assign, CloseOrReopen, Relabel, Requeue, Join, Gesture
    <3> QED
      BY <1>1, <2>1, <3>1
  <2>3. CASE WriteStep
    <3>1. log \in Seq(EventSet)
      BY Typed
    <3>2. HeadStep(owed, owed') \/ (owed # <<>> /\ owed' = Tail(owed))
      BY <1>0, <2>3, <3>1, WriteSteps DEF WriteStep
    <3> QED
      BY <1>2, <1>3, <2>1, <3>2
  <2> QED
    BY <1>4, <2>2, <2>3
<1>5. CASE AbandonBase
  BY <1>3, <1>5 DEF AbandonBase
<1>6. CASE owed' = <<>>
  <2>1. DOMAIN owed' = {}
    BY <1>6
  <2> QED
    BY <2>1 DEF OwedOK, Settled
<1>7. CASE RecoverStep
  <2>0. rec.state = "unclassified" /\ \A i \in DOMAIN owed : owed[i].op = "set"
    BY <1>7 DEF RecoverStep, OwedOK
  <2>1. \A w : LeftOver(owed, w) => w.op = "set" /\ w.orphan /\ ~OwesReview(w)
    <3>1. owed # <<>> => 1 \in DOMAIN owed
      BY <1>0, TailFacts
    <3> QED
      BY <2>0, <3>1 DEF LeftOver, OwesReview
  <2>2. CASE ~Assigned
    <3>1. rec' = NoRecord /\ \A i \in DOMAIN owed' : i = 1 /\ LeftOver(owed, owed'[1])
      BY <1>7, <2>2 DEF RecoverStep
    <3> QED
      BY <2>1, <3>1, RecordsAre DEF OwedOK, Settled
  <2>3. CASE Assigned
    <3> DEFINE v == Classified
    <3>1. /\ VerdictOK(v) /\ rec'.state = StateFor(v.action)
          /\ \A i \in DOMAIN owed' : (i = 1 /\ LeftOver(owed, owed'[1])) \/ FreshFor(owed'[i], v)
      BY <1>7, <2>3 DEF RecoverStep, Justified
    <3> HIDE DEF v
    <3>2. /\ v.action \in Releases => rec'.state = "releasing"
          /\ v.project = NeedsReview => rec'.state \in {"parked", "unclassified"}
          /\ rec'.state = "unclassified" => v.action \notin Releases
          /\ rec'.state \notin {"none", "held"}
      BY <3>1 DEF StateFor, VerdictOK, Actions, Releases, NeedsReview, NoProjection
    <3>3. \A i \in DOMAIN owed' :
             /\ i # 1 => FreshFor(owed'[i], v)
             /\ owed'[i].op # "set" => FreshFor(owed'[i], v)
             /\ OwesReview(owed'[i]) => FreshFor(owed'[i], v)
      BY <2>1, <3>1
    <3>4. \A i \in DOMAIN owed' :
             /\ i > 1 => ~owed'[i].sent /\ owed'[i].stale = {} /\ ~owed'[i].orphan
             /\ owed'[i].op # "set" => ~owed'[i].sent /\ ~owed'[i].orphan
             /\ owed'[i].op = "release" => rec'.state \in {"releasing", "failed"}
             /\ OwesReview(owed'[i]) => rec'.state \in {"parked", "releasing", "dropping", "unclassified"}
             /\ OwesReview(owed'[i]) => v.project = NeedsReview
             /\ rec'.state = "unclassified" => owed'[i].op = "set"
      BY <3>2, <3>3 DEF FreshFor, OwesReview
    <3>5. ASSUME NEW i \in DOMAIN owed', OwesReview(owed'[i]),
                 NEW j \in DOMAIN owed', j > i, owed'[j].op = "set"
          PROVE  owed'[j].want = NeedsReview
      <4>1. j # 1
        <5>1. owed' \in Seq(OwedSet)
          BY <1>7 DEF RecoverStep
        <5>2. i \in Nat /\ i >= 1 /\ j \in Nat
          BY <5>1
        <5> QED
          BY <3>5, <5>2
      <4> QED
        BY <3>3, <3>4, <3>5, <4>1 DEF FreshFor
    <3> QED
      BY <3>2, <3>4, <3>5 DEF OwedOK
  <2> QED
    BY <2>2, <2>3
<1>8. CASE up /\ Claim
  <2>1. owed' = owed /\ rec'.state = "verified" /\ rec.state = "none"
    BY <1>8, RecordsAre DEF Claim
  <2>2. \A i \in DOMAIN owed : owed[i].orphan /\ owed[i].op = "set" /\ ~OwesReview(owed[i])
    BY <2>1 DEF OwedOK, Settled, OwesReview
  <2> QED
    BY <2>1, <2>2 DEF OwedOK
<1>9. CASE up /\ (Move \/ Launch)
  <2>0. OwedMove(owed, owed', rec'.state)
    BY <1>9, ZenonT(30) DEF Move, Launch
  <2>1. /\ \A i \in DOMAIN owed' : i \in Nat /\ (\/ i \in DOMAIN owed /\ owed'[i] = owed[i]
                                                 \/ i > Len(owed) /\ Fresh(owed'[i], rec'.state))
        /\ \A i \in DOMAIN owed : i \in DOMAIN owed' /\ owed'[i] = owed[i] /\ i <= Len(owed)
        /\ Len(owed) \in Nat
    BY <1>0, <2>0, OwedMoveFacts
  <2>2. /\ rec.state \notin {"none", "unclassified", "releasing", "failed"}
        /\ rec'.state # "unclassified"
        /\ rec'.state \in {"none", "held"} => owed' = owed /\ Settled
        /\ rec.state = "dropping" => rec'.state = "none"
        /\ rec.state = "parked" => rec'.state \in {"parked", "dropping", "releasing"} \/ Settled
    BY <1>9, ZenonT(30) DEF Move, Launch, Unstarted
  <2>3. \A i \in DOMAIN owed' : (i \in DOMAIN owed /\ owed'[i] = owed[i]) \/ Fresh(owed'[i], rec'.state)
    BY <2>1
  <2>4. \A i \in DOMAIN owed' :
           /\ i > 1 => ~owed'[i].sent /\ owed'[i].stale = {} /\ ~owed'[i].orphan
           /\ owed'[i].op # "set" => ~owed'[i].sent /\ ~owed'[i].orphan
           /\ owed'[i].op = "release" => rec'.state \in {"releasing", "failed"}
    BY <2>2, <2>3 DEF OwedOK, Fresh
  <2>5. \A i \in DOMAIN owed : OwesReview(owed[i]) =>
           rec.state = "parked" /\ rec'.state \in {"parked", "dropping", "releasing"}
    BY <2>2 DEF OwedOK, OwesReview, Settled
  <2>6. \A i \in DOMAIN owed' : OwesReview(owed'[i]) => rec'.state \in {"parked", "releasing", "dropping", "unclassified"}
    BY <2>3, <2>5 DEF Fresh, OwesReview
  <2>7. ASSUME NEW i \in DOMAIN owed', OwesReview(owed'[i]), rec'.state = "parked",
               NEW j \in DOMAIN owed', j > i, owed'[j].op = "set"
        PROVE  owed'[j].want = NeedsReview
    <3>1. CASE Fresh(owed'[j], rec'.state)
      BY <2>7, <3>1 DEF Fresh
    <3>2. CASE j \in DOMAIN owed /\ owed'[j] = owed[j]
      <4>1. i \in DOMAIN owed /\ owed'[i] = owed[i]
        BY <2>1, <2>7, <3>2
      <4>2. rec.state = "parked"
        BY <2>5, <2>7, <4>1
      <4> QED
        BY <2>7, <3>2, <4>1, <4>2 DEF OwedOK
    <3> QED
      BY <2>3, <3>1, <3>2
  <2>8. rec'.state \in {"none", "held"} => Settled'
    BY <2>2 DEF Settled
  <2> QED
    BY <2>2, <2>4, <2>6, <2>7, <2>8 DEF OwedOK
<1>10. CASE ReleaseClaim \/ Crash \/ Restart
  BY <1>6, <1>10 DEF ReleaseClaim, Crash, Restart, TypeOK
<1>11. CASE UNCHANGED vars \/ AgentPublishes \/ AgentExits
  BY <1>1, <1>11 DEF vars, AgentPublishes, AgentExits
<1> QED
  BY <1>4, <1>5, <1>7, <1>8, <1>9, <1>10, <1>11 DEF Step

\* A log step keeps the anchor wherever the daemon's own assignment stands.
LEMMA OwnAnchor ==
    ASSUME TypeOK, LogStep, Own(log, Anchor)'
    PROVE  Anchor' = Anchor /\ Own(log, Anchor)
<1>1. /\ Anchor \in Nat /\ Anchor <= Len(log)
      /\ Anchor' = Anchor \/ Anchor' = 0 \/ ~Own(log, Anchor)'
      /\ Own(log', Anchor) <=> Own(log, Anchor)
  BY Typed, LogStepFacts
<1>2. ~Own(log', 0)
  BY DEF Own
<1> QED
  BY <1>1, <1>2

\* Labels: an epoch in which an agent was launched shows one in the log.
LEMMA LabelStep ==
    ASSUME Reads, LabelOK, TypeOK', Step
    PROVE  LabelOK'
<1> USE DEF Reads
<1>0. /\ Anchor \in Nat /\ Len(log) \in Nat /\ Anchor <= Len(log) /\ (Assigned <=> Anchor > 0)
      /\ owed \in Seq(OwedSet) /\ log \in Seq(EventSet)
      /\ Assigned => Anchor \in DOMAIN log /\ log[Anchor].kind = "assigned"
      /\ \A i \in DOMAIN owed : i \in Nat
  BY Typed
<1>1. Own(log, Anchor) => Assigned
  BY <1>0 DEF Own
<1>2. CASE LogStep /\ (WriteStep \/ People)
  <2> SUFFICES ASSUME Own(log, Anchor)'
               PROVE  /\ Clean(log, Anchor)'
                      /\ Anchor' \in launchedIn' => LabeledAfter(log, Anchor)'
                      /\ rec'.state \in Labelled => LabeledAfter(log, Anchor)'
                      /\ rec'.state \in {"claimed", "parked"} => LabeledAfter(log, Anchor)' \/ OwesLabel'
                      /\ rec'.recovered /\ rec'.state \in {"verified", "approved"} => Anchor' \notin launchedIn'
    BY DEF LabelOK, Labelled
  <2>1. Anchor' = Anchor /\ Own(log, Anchor) /\ rec' = rec /\ launchedIn' = launchedIn
    BY <1>2, OwnAnchor DEF LogStep
  <2>2. /\ LabeledAfter(log, Anchor) => LabeledAfter(log', Anchor)
        /\ Clean(log, Anchor) => Clean(log', Anchor)
    BY <1>0, <1>2, LogStepFacts
  <2>3. /\ Clean(log, Anchor)
        /\ Anchor \in launchedIn => LabeledAfter(log, Anchor)
        /\ rec.state \in Labelled => LabeledAfter(log, Anchor)
        /\ rec.state \in {"claimed", "parked"} => LabeledAfter(log, Anchor) \/ OwesLabel
        /\ rec.recovered /\ rec.state \in {"verified", "approved"} => Anchor \notin launchedIn
    BY <2>1 DEF LabelOK, Labelled
  <2>4. ASSUME OwesLabel
        PROVE  LabeledAfter(log', Anchor) \/ OwesLabel'
    <3>1. PICK i \in DOMAIN owed : owed[i].op = "set" /\ owed[i].want # "none" /\ ~owed[i].sent /\ ~owed[i].orphan
      BY <2>4 DEF OwesLabel
    <3>2. CASE owed' = owed
      BY <3>1, <3>2 DEF OwesLabel
    <3>3. CASE owed # <<>> /\ owed' = Tail(owed) /\ owed[1].sent
      <4>1. i - 1 \in DOMAIN owed' /\ owed'[i - 1] = owed[i]
        BY <1>0, <3>1, <3>3, TailFacts
      <4> QED
        BY <3>1, <4>1 DEF OwesLabel
    <3>4. CASE HeadStep(owed, owed') /\ i # 1
      <4>1. i \in DOMAIN owed' /\ owed'[i] = owed[i]
        BY <3>4 DEF HeadStep
      <4> QED
        BY <3>1, <4>1 DEF OwesLabel
    <3>5. CASE ProjectLabel /\ i = 1
      <4>1. CASE owed[1].want \in LabelsOf(log)
        BY <1>0, <1>1, <2>1, <2>2, <2>3, <4>1, CleanLabels
      <4>2. CASE log' = Append(log, Event("labeled", owed[1].want))
        <5>1. Event("labeled", owed[1].want) \in EventSet /\ Event("labeled", owed[1].want).kind = "labeled"
          <6>1. owed[1] \in OwedSet
            BY <1>0, <3>1, <3>5
          <6>2. owed[1].want \in KnownLabels
            BY <3>1, <3>5, <6>1 DEF OwedSet
          <6> QED
            BY <6>2 DEF Event, EventSet, Subjects, StateLabels
        <5> QED
          BY <1>0, <4>2, <5>1, LogShows
      <4> QED
        BY <1>0, <3>1, <3>5, <4>1, <4>2, WriteSteps
    <3>6. CASE People
      BY <3>2, <3>6 DEF People, Unassign, Assign, CloseOrReopen, Relabel, Requeue, Join, Gesture
    <3>7. CASE WriteStep
      <4>1. CASE ProjectLabel
        BY <1>0, <3>4, <3>5, <4>1, WriteSteps
      <4>2. CASE RemoveStaleLabel \/ WriteFails
        BY <1>0, <3>1, <3>3, <3>4, <4>2, WriteSteps
      <4>3. CASE WriteDone
        BY <1>0, <3>3, <4>3, WriteSteps
      <4> QED
        BY <3>7, <4>1, <4>2, <4>3 DEF WriteStep
    <3> QED
      BY <1>2, <3>6, <3>7
  <2> QED
    BY <2>1, <2>2, <2>3, <2>4
<1>3. CASE AbandonBase
  <2>1. /\ UNCHANGED <<log, rec, launchedIn>> /\ owed # <<>> /\ Head(owed).op = "abandon" /\ owed' = Tail(owed)
    BY <1>3 DEF AbandonBase, world
  <2>2. OwesLabel => OwesLabel'
    <3> SUFFICES ASSUME OwesLabel PROVE OwesLabel'
      OBVIOUS
    <3>1. PICK i \in DOMAIN owed : owed[i].op = "set" /\ owed[i].want # "none" /\ ~owed[i].sent /\ ~owed[i].orphan
      BY DEF OwesLabel
    <3>2. owed[1].op = "abandon"
      BY <1>0, <2>1, TailFacts
    <3>3. i - 1 \in DOMAIN owed' /\ owed'[i - 1] = owed[i]
      BY <1>0, <2>1, <3>1, <3>2, TailFacts
    <3> QED
      BY <3>1, <3>3 DEF OwesLabel
  <2>3. /\ Anchor' = Anchor /\ (Own(log, Anchor)' <=> Own(log, Anchor))
        /\ (LabeledAfter(log, Anchor)' <=> LabeledAfter(log, Anchor))
        /\ (Clean(log, Anchor)' <=> Clean(log, Anchor))
    BY <2>1 DEF Anchor, Own, LabeledAfter, Clean
  <2> QED
    BY <2>1, <2>2, <2>3 DEF LabelOK
<1>4. CASE ReleaseClaim
  <2>1. ~Own(log, Anchor)'
    <3>1. CASE ~Assigned
      <4>1. log' = log
        BY <1>4, <3>1 DEF ReleaseClaim
      <4> QED
        BY <1>0, <3>1, <4>1 DEF Own, Anchor
    <3>2. CASE Assigned
      <4>1. log' = Append(log, Event("unassigned", "ben")) /\ Event("unassigned", "ben") \in EventSet
              /\ Event("unassigned", "ben").kind = "unassigned"
        BY <1>4, <3>2 DEF ReleaseClaim, Append1, Event, EventSet, Subjects
      <4>2. Anchor' = 0
        BY <1>0, <4>1, AnchorGrows DEF Anchor
      <4> QED
        BY <4>2 DEF Own
    <3> QED
      BY <3>1, <3>2
  <2> QED
    BY <2>1 DEF LabelOK
<1>5. CASE log' = log /\ launchedIn' = launchedIn
           /\ rec'.state \notin Labelled \cup {"claimed", "parked", "verified", "approved"}
  <2>1. /\ Anchor' = Anchor /\ (Own(log, Anchor)' <=> Own(log, Anchor))
        /\ (LabeledAfter(log, Anchor)' <=> LabeledAfter(log, Anchor))
        /\ (Clean(log, Anchor)' <=> Clean(log, Anchor))
    BY <1>5 DEF Anchor, Own, LabeledAfter, Clean
  <2> QED
    BY <1>5, <2>1 DEF LabelOK, Labelled
<1>6. CASE RecoverStep
  <2>1. /\ Anchor' = Anchor /\ (Own(log, Anchor)' <=> Own(log, Anchor)) /\ launchedIn' = launchedIn
        /\ (LabeledAfter(log, Anchor)' <=> LabeledAfter(log, Anchor))
        /\ (Clean(log, Anchor)' <=> Clean(log, Anchor))
    BY <1>6 DEF RecoverStep, Anchor, Own, LabeledAfter, Clean
  <2>2. ASSUME Own(log, Anchor)
        PROVE  /\ rec'.state \in Labelled => LabeledAfter(log, Anchor)
               /\ rec'.state \in {"claimed", "parked"} => OwesLabel'
               /\ rec'.state \in {"verified", "approved"} => Anchor \notin launchedIn
    <3>0. Assigned
      BY <1>1, <2>2
    <3> DEFINE v == Classified
    <3>1. /\ VerdictOK(v) /\ rec'.state = StateFor(v.action)
          /\ v.action = "park" => \E i \in DOMAIN owed' : owed'[i].op = "set" /\ FreshFor(owed'[i], v)
      BY <1>6, <3>0 DEF RecoverStep, Justified
    <3>2. /\ v.action = "approve" =>
                (base.state = "pending" /\ base.epoch = Anchor) \/ ~LabeledAfter(log, Anchor)
          /\ v.action = "backoff" => LabeledAfter(log, Anchor)
      BY <1>6, <3>0 DEF RecoverStep, Justified
    <3> HIDE DEF v
    <3>3. /\ rec'.state \in Labelled => v.action = "backoff"
          /\ rec'.state \in {"claimed", "parked"} => v.action = "park"
          /\ rec'.state \in {"verified", "approved"} => v.action = "approve"
      BY <3>1 DEF StateFor, Labelled, VerdictOK, Actions
    <3>4. v.action = "park" => OwesLabel'
      BY <3>1 DEF OwesLabel, FreshFor, VerdictOK, NeedsReview
    <3>5. Anchor \in launchedIn => LabeledAfter(log, Anchor) /\ base.state = "pinned"
      BY <1>0, <2>2, PinFacts DEF LabelOK, PinOK
    <3> QED
      BY <3>2, <3>3, <3>4, <3>5
  <2> QED
    BY <2>1, <2>2 DEF LabelOK, Labelled
<1>7. CASE up /\ Claim
  <2>1. /\ log' = Append(log, Event("assigned", "ben")) /\ Event("assigned", "ben") \in EventSet
        /\ Event("assigned", "ben").kind = "assigned" /\ LabelsOf(log) = {}
        /\ launchedIn' = launchedIn /\ rec' = Record("verified", 0) /\ "verified" \in States
    BY <1>7 DEF Claim, Append1, Event, EventSet, Subjects, world, States
  <2>2. Anchor' = Len(log) + 1
    BY <1>0, <2>1, AnchorGrows DEF Anchor
  <2>3. Clean(log', Len(log) + 1)
    BY <1>0, <2>1, CleanStart
  <2>4. Len(log) + 1 \notin launchedIn
    BY <1>0 DEF EpochOK
  <2> QED
    BY <2>1, <2>2, <2>3, <2>4, RecordsAre DEF LabelOK
<1>8. CASE up /\ Move
  <2>1. /\ Anchor' = Anchor /\ (Own(log, Anchor)' <=> Own(log, Anchor)) /\ launchedIn' = launchedIn
        /\ (LabeledAfter(log, Anchor)' <=> LabeledAfter(log, Anchor))
        /\ (Clean(log, Anchor)' <=> Clean(log, Anchor))
    BY <1>8 DEF Move, Anchor, Own, LabeledAfter, Clean
  <2>2. ASSUME Own(log, Anchor)
        PROVE  rec'.state \in Labelled => LabeledAfter(log, Anchor)
    <3>1. Settled => ~OwesLabel
      BY DEF Settled, OwesLabel
    <3> QED
      BY <1>8, <2>2, <3>1 DEF Move, LabelOK, Labelled
  <2>3. rec'.state \in {"claimed", "parked"} => OwesLabel'
    BY <1>0, <1>8, OwedMoveFacts DEF Move, OwesLabel, Fresh
  <2>4. ASSUME Own(log, Anchor), rec'.recovered, rec'.state \in {"verified", "approved"}
        PROVE  Anchor \notin launchedIn
    BY <1>8, <2>4 DEF Move, LabelOK
  <2> QED
    BY <2>1, <2>2, <2>3, <2>4 DEF LabelOK, Labelled
<1>9. CASE up /\ Launch
  <2>1. /\ Anchor' = Anchor /\ (Own(log, Anchor)' <=> Own(log, Anchor))
        /\ (LabeledAfter(log, Anchor)' <=> LabeledAfter(log, Anchor))
        /\ (Clean(log, Anchor)' <=> Clean(log, Anchor))
        /\ rec.state = "launching" /\ rec'.state = "running"
    BY <1>9 DEF Launch, Anchor, Own, LabeledAfter, Clean
  <2> QED
    BY <2>1 DEF LabelOK
<1>10. CASE Crash \/ Restart
  <2>1. log' = log /\ launchedIn' = launchedIn /\ rec' \in {NoRecord, Record("unclassified", 0)}
    BY <1>10 DEF Crash, Restart, world
  <2> QED
    BY <1>5, <2>1, RecordsAre DEF Labelled
<1>11. CASE UNCHANGED vars \/ AgentPublishes \/ AgentExits
  <2>1. UNCHANGED <<log, rec, owed, launchedIn>>
    BY <1>11 DEF vars, AgentPublishes, AgentExits
  <2>2. /\ Anchor' = Anchor /\ (Own(log, Anchor)' <=> Own(log, Anchor)) /\ (OwesLabel' <=> OwesLabel)
        /\ (LabeledAfter(log, Anchor)' <=> LabeledAfter(log, Anchor))
        /\ (Clean(log, Anchor)' <=> Clean(log, Anchor))
    BY <2>1 DEF Anchor, Own, LabeledAfter, Clean, OwesLabel
  <2> QED
    BY <2>1, <2>2 DEF LabelOK
<1> QED
  BY <1>2, <1>3, <1>4, <1>6, <1>7, <1>8, <1>9, <1>10, <1>11 DEF Step

\* ben:needs-review is owed and its write not begun.
OwesUnsent == \E i \in DOMAIN owed : OwesReview(owed[i]) /\ ~owed[i].sent

\* Evidence: a recovered record of an epoch with a pull request goes on only
\* after a person took ben:needs-review off.
LEMMA PubStep ==
    ASSUME Reads, LabelOK, PubOK, TypeOK', EpochOK', Step
    PROVE  PubOK'
<1> USE DEF Reads
<1>0. /\ Anchor \in Nat /\ Len(log) \in Nat /\ Anchor <= Len(log) /\ (Assigned <=> Anchor > 0)
      /\ owed \in Seq(OwedSet) /\ log \in Seq(EventSet) /\ rec.epoch \in Nat
      /\ \A i \in DOMAIN owed : i \in Nat
  BY Typed
<1>1. rec.epoch <= Len(log)
  BY DEF EpochOK
<1>2. ASSUME rec.recovered, Own(log, rec.epoch), published = rec.epoch
      PROVE  /\ rec.state \in Unstarted => ReviewTakenOff(log, rec.epoch)
             /\ rec.state = "parked" =>
                   ReviewTakenOff(log, rec.epoch) \/ NeedsReview \in LabelsOf(log) \/ OwesUnsent
  BY <1>2 DEF PubOK, Unstarted, OwesUnsent
<1>3. SUFFICES ASSUME rec'.recovered, Own(log', rec'.epoch), published' = rec'.epoch
               PROVE  /\ rec'.state \in Unstarted => ReviewTakenOff(log', rec'.epoch)
                      /\ rec'.state = "parked" =>
                            ReviewTakenOff(log', rec'.epoch) \/ NeedsReview \in LabelsOf(log') \/ OwesUnsent'
  BY DEF PubOK, Unstarted, OwesUnsent
<1>4. CASE LogStep /\ (WriteStep \/ People)
  <2>1. rec' = rec /\ published' = published
    BY <1>4 DEF LogStep
  <2>2. /\ ReviewTakenOff(log, rec.epoch) => ReviewTakenOff(log', rec.epoch)
        /\ Own(log', rec.epoch) <=> Own(log, rec.epoch)
    BY <1>0, <1>1, <1>4, LogStepFacts
  <2>3. NeedsReview \in LabelsOf(log) => NeedsReview \in LabelsOf(log') \/ ReviewTakenOff(log', rec.epoch)
    <3>1. CASE log' = log
      BY <3>1
    <3>2. CASE \E e \in EventSet : log' = Append(log, e)
      BY <1>0, <1>1, <3>2, LabelsGrow, LogShows
    <3> QED
      BY <1>4, <3>1, <3>2 DEF LogStep
  <2>4. ASSUME OwesUnsent
        PROVE  NeedsReview \in LabelsOf(log') \/ OwesUnsent'
    <3>1. PICK i \in DOMAIN owed : OwesReview(owed[i]) /\ ~owed[i].sent
      BY <2>4 DEF OwesUnsent
    <3>2. CASE owed' = owed
      BY <3>1, <3>2 DEF OwesUnsent
    <3>3. CASE owed # <<>> /\ owed' = Tail(owed) /\ owed[1].sent
      <4>1. i - 1 \in DOMAIN owed' /\ owed'[i - 1] = owed[i]
        BY <1>0, <3>1, <3>3, TailFacts
      <4> QED
        BY <3>1, <4>1 DEF OwesUnsent
    <3>4. CASE HeadStep(owed, owed') /\ i # 1
      <4>1. i \in DOMAIN owed' /\ owed'[i] = owed[i]
        BY <3>4 DEF HeadStep
      <4> QED
        BY <3>1, <4>1 DEF OwesUnsent
    <3>5. CASE ProjectLabel /\ i = 1
      <4>1. owed[1].want = NeedsReview /\ NeedsReview # "none"
        BY <3>1, <3>5 DEF OwesReview, NeedsReview
      <4>2. \/ NeedsReview \in LabelsOf(log) /\ log' = log
            \/ log' = Append(log, Event("labeled", NeedsReview))
        BY <1>0, <3>5, <4>1, WriteSteps
      <4>3. Event("labeled", NeedsReview) \in EventSet
        BY DEF Event, EventSet, Subjects, StateLabels, KnownLabels, NeedsReview
      <4> QED
        BY <1>0, <4>2, <4>3, LabelsGrow, ZenonT(30)
    <3>6. CASE People
      BY <3>2, <3>6 DEF People, Unassign, Assign, CloseOrReopen, Relabel, Requeue, Join, Gesture
    <3>7. CASE WriteStep
      <4>1. CASE ProjectLabel
        BY <1>0, <3>4, <3>5, <4>1, WriteSteps
      <4>2. CASE RemoveStaleLabel \/ WriteFails
        BY <1>0, <3>1, <3>3, <3>4, <4>2, WriteSteps
      <4>3. CASE WriteDone
        BY <1>0, <3>3, <4>3, WriteSteps
      <4> QED
        BY <3>7, <4>1, <4>2, <4>3 DEF WriteStep
    <3> QED
      BY <1>4, <3>6, <3>7
  <2> QED
    BY <1>2, <1>3, <2>1, <2>2, <2>3, <2>4
<1>5. CASE AbandonBase
  <2>1. /\ UNCHANGED <<log, rec, published>> /\ owed # <<>> /\ Head(owed).op = "abandon" /\ owed' = Tail(owed)
    BY <1>5 DEF AbandonBase, world
  <2>2. OwesUnsent => OwesUnsent'
    <3> SUFFICES ASSUME OwesUnsent PROVE OwesUnsent'
      OBVIOUS
    <3>1. PICK i \in DOMAIN owed : OwesReview(owed[i]) /\ ~owed[i].sent
      BY DEF OwesUnsent
    <3>2. owed[1].op = "abandon" /\ owed[i].op = "set"
      BY <1>0, <2>1, <3>1, TailFacts DEF OwesReview
    <3>3. i - 1 \in DOMAIN owed' /\ owed'[i - 1] = owed[i]
      BY <1>0, <2>1, <3>2, TailFacts
    <3> QED
      BY <3>1, <3>3 DEF OwesUnsent
  <2> QED
    BY <1>2, <1>3, <2>1, <2>2
<1>6. CASE RecoverStep
  <2>0. log' = log /\ published' = published
    BY <1>6 DEF RecoverStep
  <2>1. Assigned /\ rec'.epoch = Anchor
    BY <1>3, <1>6, RecordsAre DEF RecoverStep
  <2>2. Own(log, Anchor) /\ published = Anchor
    BY <1>3, <2>0, <2>1, ZenonT(30)
  <2> DEFINE v == Classified
  <2>3. /\ VerdictOK(v) /\ rec'.state = StateFor(v.action)
        /\ v.action = "park" => \E i \in DOMAIN owed' : owed'[i].op = "set" /\ FreshFor(owed'[i], v)
    BY <1>6, <2>1 DEF RecoverStep, Justified
  <2>4. /\ v.action = "approve" =>
              (base.state = "pending" /\ base.epoch = Anchor) \/ ~LabeledAfter(log, Anchor)
        /\ v.action = "backoff" => ReviewTakenOff(log, Anchor)
    BY <1>6, <2>1, <2>2 DEF RecoverStep, Justified
  <2> HIDE DEF v
  <2>5. Anchor \in launchedIn /\ LabeledAfter(log, Anchor) /\ base.state = "pinned"
    BY <1>0, <2>1, <2>2, PinFacts DEF LabelOK, PinOK, EpochOK
  <2>6. /\ rec'.state \in Unstarted => v.action = "backoff"
        /\ rec'.state = "parked" => v.action = "park"
    BY <2>3, <2>4, <2>5 DEF StateFor, Unstarted, VerdictOK, Actions
  <2>7. v.action = "park" => OwesUnsent'
    BY <2>3 DEF OwesUnsent, OwesReview, FreshFor, VerdictOK
  <2> QED
    BY <2>0, <2>1, <2>4, <2>6, <2>7
<1>7. CASE up /\ Move
  <2>1. /\ log' = log /\ published' = published /\ rec.recovered
    BY <1>3, <1>7 DEF Move
  <2>2. rec.epoch > 0 /\ rec.state \notin {"running", "verifying"} /\ rec'.epoch > 0
    BY <1>3, <2>1 DEF EpochOK
  <2>3. CASE rec'.epoch = rec.epoch
    <3>1. rec'.state \in Unstarted => ReviewTakenOff(log, rec.epoch)
      <4>1. CASE rec.state \in Unstarted
        BY <1>2, <1>3, <2>1, <2>3, <4>1, ZenonT(30)
      <4>2. CASE rec.state = "parked" /\ Settled /\ LabelsOf(log) = {}
        <5>1. ~OwesUnsent
          BY <4>2 DEF OwesUnsent, OwesReview, Settled
        <5> QED
          BY <1>2, <1>3, <2>1, <2>3, <4>2, <5>1, ZenonT(30)
      <4> QED
        BY <1>7, <2>2, <4>1, <4>2 DEF Move
    <3>2. rec'.state = "parked" => OwesUnsent'
      <4>1. OwedMove(owed, owed', rec'.state)
        BY <1>7 DEF Move
      <4>2. rec'.state = "parked" =>
              /\ Len(owed) + 1 \in DOMAIN owed' /\ Fresh(owed'[Len(owed) + 1], rec'.state)
              /\ owed'[Len(owed) + 1].op = "set"
        BY <1>0, <4>1, OwedMoveFacts, Zenon
      <4> QED
        BY <4>2 DEF OwesUnsent, OwesReview, Fresh
    <3> QED
      BY <2>1, <2>3, <3>1, <3>2
  <2>4. CASE rec'.epoch # rec.epoch
    <3>1. /\ Assigned /\ rec'.epoch = Anchor
          /\ <<rec.state, rec'.state>> \in {<<"verified", "approved">>, <<"done", "held">>,
                                            <<"backoff", "rebasing">>}
          /\ rec'.state = "rebasing" => rec.epoch = 0
      BY <1>3, <1>7, <2>4, RecordsAre, ZenonT(30) DEF Move
    <3>2. rec'.state = "held" \/ (rec.state = "verified" /\ rec'.state = "approved")
      BY <2>2, <3>1
    <3>3. CASE rec'.state = "held"
      BY <3>3 DEF Unstarted
    <3>4. CASE rec.state = "verified" /\ rec'.state = "approved"
      <4>1. Own(log, Anchor) /\ published = Anchor /\ Anchor > 0
        BY <1>0, <1>3, <2>1, <3>1, ZenonT(30)
      <4>2. Anchor \notin launchedIn
        BY <2>1, <3>4, <4>1 DEF LabelOK
      <4>3. Anchor \in launchedIn
        BY <4>1 DEF EpochOK
      <4> QED
        BY <4>2, <4>3
    <3> QED
      BY <3>2, <3>3, <3>4
  <2> QED
    BY <2>3, <2>4
<1>8. CASE ReleaseClaim \/ Crash \/ Restart \/ Claim \/ Launch
  <2>1. rec' \in {NoRecord, Record("verified", 0), Record("unclassified", 0)} \/ ~rec'.recovered
    BY <1>8, ZenonT(30) DEF ReleaseClaim, Crash, Restart, Claim, Launch
  <2> QED
    BY <1>3, <2>1, RecordsAre
<1>9. CASE AgentPublishes
  <2>1. PICK a \in agents : published' = a.epoch /\ UNCHANGED <<log, rec>>
    BY <1>9 DEF AgentPublishes
  <2>2. rec.state \in {"none", "unclassified", "running"}
    BY <1>3, <2>1, ZenonT(30) DEF AgentOK
  <2> QED
    BY <2>1, <2>2 DEF Unstarted
<1>10. CASE UNCHANGED vars \/ AgentExits
  <2>1. UNCHANGED <<log, rec, owed, published>>
    BY <1>10 DEF vars, AgentExits
  <2> QED
    BY <1>2, <1>3, <2>1 DEF OwesUnsent
<1> QED
  BY <1>4, <1>5, <1>6, <1>7, <1>8, <1>9, <1>10 DEF Step

\* No claim the daemon made is without a record while it is up.
LEMMA LostStep ==
    ASSUME Reads, LostOK, TypeOK', Step
    PROVE  LostOK'
<1> USE DEF Reads
<1>0. Anchor \in Nat /\ (Assigned <=> Anchor > 0) /\ log \in Seq(EventSet)
  BY Typed
<1>1. ~Assigned => ~Own(log, Anchor)
  BY <1>0 DEF Own
<1>2. log' = log => (Own(log, Anchor)' <=> Own(log, Anchor))
  BY DEF Own, Anchor
<1>3. CASE LogStep
  <2>1. rec' = rec /\ up' = up
    BY <1>3 DEF LogStep
  <2> QED
    BY <1>3, <2>1, OwnAnchor DEF LostOK
<1>4. CASE ReleaseClaim
  <2>1. ~Own(log, Anchor)'
    <3>1. CASE ~Assigned
      BY <1>1, <1>2, <1>4, <3>1 DEF ReleaseClaim
    <3>2. CASE Assigned
      <4>1. log' = Append(log, Event("unassigned", "ben")) /\ Event("unassigned", "ben") \in EventSet
              /\ Event("unassigned", "ben").kind = "unassigned"
        BY <1>4, <3>2 DEF ReleaseClaim, Append1, Event, EventSet, Subjects
      <4>2. Anchor' = 0
        BY <1>0, <4>1, AnchorGrows DEF Anchor
      <4> QED
        BY <4>2 DEF Own
    <3> QED
      BY <3>1, <3>2
  <2> QED
    BY <2>1 DEF LostOK
<1>5. CASE RecoverStep
  <2>1. /\ log' = log /\ rec'.state # "dropping"
        /\ Assigned => rec'.state # "none"
    BY <1>5, RecordsAre DEF RecoverStep, StateFor
  <2> QED
    BY <1>1, <1>2, <2>1 DEF LostOK
<1>6. CASE up /\ Move
  <2>1. /\ log' = log /\ up' = up
        /\ rec'.state = "none" => ~Assigned \/ rec.state = "dropping"
        /\ rec'.state = "dropping" => ~Assigned
    BY <1>6 DEF Move
  <2> QED
    BY <1>1, <1>2, <2>1 DEF LostOK
<1>7. CASE Claim \/ Launch
  <2>1. rec'.state \in {"verified", "running"}
    BY <1>7, RecordsAre DEF Claim, Launch
  <2> QED
    BY <2>1 DEF LostOK
<1>8. CASE Crash
  <2>1. up' = FALSE /\ rec'.state = "none"
    BY <1>8, RecordsAre DEF Crash
  <2> QED
    BY <2>1 DEF LostOK
<1>9. CASE Restart
  <2>1. log' = log /\ rec'.state \in {"none", "unclassified"} /\ (Assigned => rec'.state # "none")
    BY <1>9, RecordsAre DEF Restart
  <2> QED
    BY <1>1, <1>2, <2>1 DEF LostOK
<1>10. CASE UNCHANGED vars \/ AbandonBase \/ AgentPublishes \/ AgentExits
  <2>1. UNCHANGED <<log, rec, up>>
    BY <1>10 DEF vars, AbandonBase, AgentPublishes, AgentExits
  <2> QED
    BY <1>2, <2>1 DEF LostOK
<1> QED
  BY <1>3, <1>4, <1>5, <1>6, <1>7, <1>8, <1>9, <1>10 DEF Step

\* A ben:needs-review that stands is on the issue, stays through what neither
\* labels nor takes it off, and stands when it is put on.
LEMMA ReviewFacts ==
    ASSUME NEW l \in Seq(EventSet), NEW x \in Nat
    PROVE  /\ ReviewStands(l, x) => NeedsReview \in LabelsOf(l)
           /\ \A e \in EventSet : ReviewStands(l, x) /\ e.kind # "labeled" /\ e # Event("unlabeled", NeedsReview)
                 => ReviewStands(Append(l, e), x)
           /\ x <= Len(l) => ReviewStands(Append(l, Event("labeled", NeedsReview)), x)
<1>1. ASSUME ReviewStands(l, x) PROVE NeedsReview \in LabelsOf(l)
  <2>1. PICK k \in DOMAIN l : /\ l[k] = Event("labeled", NeedsReview)
                              /\ \A j \in DOMAIN l : j > k => l[j] # Event("unlabeled", NeedsReview)
    BY <1>1 DEF ReviewStands
  <2>2. Puts(l, k, NeedsReview)
    BY <2>1 DEF Puts, Event
  <2> QED
    BY <2>2, LabelsAre
<1>2. ASSUME NEW e \in EventSet, ReviewStands(l, x), e.kind # "labeled", e # Event("unlabeled", NeedsReview)
      PROVE  ReviewStands(Append(l, e), x)
  <2> DEFINE m == Append(l, e)
  <2>1. /\ Len(l) \in Nat /\ DOMAIN l = 1 .. Len(l) /\ DOMAIN m = 1 .. Len(l) + 1
        /\ m[Len(l) + 1] = e /\ \A i \in 1 .. Len(l) : m[i] = l[i]
    BY AppendFacts
  <2> HIDE DEF m
  <2>2. PICK k \in DOMAIN l :
           /\ k > x /\ l[k] = Event("labeled", NeedsReview)
           /\ \A j \in DOMAIN l : j > k => l[j].kind # "labeled" /\ l[j] # Event("unlabeled", NeedsReview)
    BY <1>2 DEF ReviewStands
  <2>3. /\ k \in DOMAIN m /\ m[k] = Event("labeled", NeedsReview)
        /\ \A j \in DOMAIN m : j > k => m[j].kind # "labeled" /\ m[j] # Event("unlabeled", NeedsReview)
    BY <1>2, <2>1, <2>2
  <2> QED
    BY <2>2, <2>3 DEF ReviewStands, m
<1>3. ASSUME x <= Len(l)
      PROVE  ReviewStands(Append(l, Event("labeled", NeedsReview)), x)
  <2> DEFINE e == Event("labeled", NeedsReview)
             m == Append(l, e)
  <2>0. e \in EventSet
    BY DEF Event, EventSet, Subjects, StateLabels, KnownLabels, NeedsReview
  <2>1. /\ Len(l) \in Nat /\ DOMAIN m = 1 .. Len(l) + 1 /\ m[Len(l) + 1] = e
    BY <2>0, AppendFacts
  <2> HIDE DEF m, e
  <2>2. /\ Len(l) + 1 \in DOMAIN m /\ Len(l) + 1 > x
        /\ \A j \in DOMAIN m : ~(j > Len(l) + 1)
    BY <1>3, <2>1
  <2>3. ReviewStands(m, x)
    BY <2>1, <2>2 DEF ReviewStands, e
  <2> QED
    BY <2>3 DEF m, e
<1> QED
  BY <1>1, <1>2, <1>3

\* What is owed while people are waited for.
OwesOnlyReview == \A i \in DOMAIN owed : owed[i].op = "set" =>
                     owed[i].want = NeedsReview /\ NeedsReview \notin owed[i].stale
Quiescent == {"parked", "releasing", "dropping", "none", "unclassified"}

\* A parked record whose label people were shown waits for them.
LEMMA AwaitStep ==
    ASSUME Reads, AwaitOK, TypeOK', Step
    PROVE  AwaitOK'
<1> USE DEF Reads
<1>0. /\ Anchor \in Nat /\ Len(log) \in Nat /\ Anchor <= Len(log) /\ (Assigned <=> Anchor > 0)
      /\ owed \in Seq(OwedSet) /\ log \in Seq(EventSet) /\ rec.epoch \in Nat /\ base.epoch \in Nat
      /\ \A i \in DOMAIN owed : i \in Nat
  BY Typed
<1>1. awaiting => /\ base.state = "pinned" /\ rec.state \in Quiescent
                  /\ ReviewStands(log, base.epoch) /\ OwesOnlyReview /\ NeedsReview \in LabelsOf(log)
  BY <1>0, ReviewFacts DEF AwaitOK, OwesOnlyReview, Quiescent
<1>2. SUFFICES ASSUME awaiting'
               PROVE  /\ base'.state = "pinned" /\ rec'.state \in Quiescent
                      /\ ReviewStands(log', base'.epoch) /\ OwesOnlyReview'
  BY DEF AwaitOK, OwesOnlyReview, Quiescent
<1>3. CASE LogStep /\ People
  <2>1. UNCHANGED <<rec, base, owed>>
    BY <1>3 DEF LogStep, People, Unassign, Assign, CloseOrReopen, Relabel, Requeue, Join, Gesture
  <2>2. /\ awaiting
        /\ \/ log' = log \/ log' = Append(log, Event("assigned", "person"))
           \/ log' = Append(log, Event("closed", "person")) \/ log' = Append(log, Event("reopened", "person"))
           \/ \E l \in LabelsOf(log) : l # NeedsReview /\ log' = Append(log, Event("unlabeled", l))
    <3>1. CASE Unassign
      BY <1>2, <3>1 DEF Unassign
    <3>2. CASE Assign \/ CloseOrReopen \/ Requeue \/ Join
      BY <1>2, <3>2, ZenonT(30) DEF Assign, CloseOrReopen, Requeue, Join, Append1
    <3>3. CASE Relabel
      BY <1>2, <3>3, ZenonT(30) DEF Relabel, Append1, NeedsReview
    <3> QED
      BY <1>3, <3>1, <3>2, <3>3 DEF People
  <2>3. /\ \A k \in {"assigned", "closed", "reopened"} :
              /\ Event(k, "person") \in EventSet /\ Event(k, "person").kind # "labeled"
              /\ Event(k, "person") # Event("unlabeled", NeedsReview)
        /\ \A l \in Subjects : l # NeedsReview =>
              /\ Event("unlabeled", l) \in EventSet /\ Event("unlabeled", l).kind # "labeled"
              /\ Event("unlabeled", l) # Event("unlabeled", NeedsReview)
    BY DEF Event, EventSet, Subjects
  <2>4. ReviewStands(log', base.epoch)
    BY <1>0, <1>1, <2>2, <2>3, LabelsTyped, ReviewFacts, ZenonT(30)
  <2> QED
    BY <1>1, <2>1, <2>2, <2>4 DEF OwesOnlyReview
<1>4. CASE LogStep /\ WriteStep
  <2>0. UNCHANGED <<rec, base>>
    BY <1>4 DEF LogStep
  <2>1. CASE ProjectLabel
    <3>1. /\ HeadStep(owed, owed') /\ owed'[1].stale = LabelsOf(log) \ {owed[1].want}
          /\ IF owed[1].want = "none" \/ owed[1].want \in LabelsOf(log)
             THEN UNCHANGED <<log, awaiting>>
             ELSE /\ log' = Append(log, Event("labeled", owed[1].want))
                  /\ awaiting' = (awaiting \/ Parks(owed[1]))
      BY <1>0, <2>1, WriteSteps, ZenonT(30)
    <3>2. /\ DOMAIN owed' = DOMAIN owed /\ 1 \in DOMAIN owed /\ owed[1].op = "set" /\ owed'[1].op = "set"
          /\ owed'[1].want = owed[1].want /\ \A i \in DOMAIN owed : i # 1 => owed'[i] = owed[i]
      BY <1>0, <3>1, TailFacts DEF HeadStep
    <3>3. CASE awaiting
      <4>1. owed[1].want = NeedsReview
        BY <1>1, <3>2, <3>3 DEF OwesOnlyReview
      <4>2. log' = log
        BY <1>1, <3>1, <3>3, <4>1
      <4>3. OwesOnlyReview'
        BY <1>1, <3>1, <3>2, <3>3, <4>1 DEF OwesOnlyReview
      <4> QED
        BY <1>1, <2>0, <3>3, <4>2, <4>3
    <3>4. CASE ~awaiting
      <4>1. Parks(owed[1]) /\ log' = Append(log, Event("labeled", owed[1].want))
        BY <1>2, <3>1, <3>4, ZenonT(30)
      <4>2. owed[1].want = NeedsReview /\ ~owed[1].orphan /\ rec.state = "parked" /\ base = PinnedBase(rec.epoch)
        BY <4>1 DEF Parks, NeedsReview
      <4>3. base.state = "pinned" /\ base.epoch <= Len(log)
        BY <1>0, <4>2, PinFacts DEF EpochOK
      <4>4. ReviewStands(log', base.epoch)
        BY <1>0, <4>1, <4>2, <4>3, ReviewFacts
      <4>5. OwesReview(owed[1])
        BY <3>2, <4>2 DEF OwesReview
      <4>6. \A i \in DOMAIN owed : i # 1 => owed[i].stale = {} /\ (owed[i].op = "set" => owed[i].want = NeedsReview)
        <5>1. \A i \in DOMAIN owed : i # 1 => i > 1
          BY <1>0
        <5> QED
          BY <3>2, <4>2, <4>5, <5>1, ZenonT(30) DEF OwedOK
      <4>7. OwesOnlyReview'
        BY <3>1, <3>2, <4>2, <4>6 DEF OwesOnlyReview
      <4> QED
        BY <2>0, <4>2, <4>3, <4>4, <4>7 DEF Quiescent
    <3> QED
      BY <3>3, <3>4
  <2>2. CASE RemoveStaleLabel
    <3>1. PICK l \in owed[1].stale :
             /\ HeadStep(owed, owed') /\ awaiting' = awaiting
             /\ owed'[1].stale = owed[1].stale \ {l}
             /\ log' = log \/ log' = Append(log, Event("unlabeled", l))
      BY <1>0, <2>2, WriteSteps, ZenonT(30)
    <3>2. /\ DOMAIN owed' = DOMAIN owed /\ 1 \in DOMAIN owed /\ owed[1].op = "set" /\ owed'[1].op = "set"
          /\ owed'[1].want = owed[1].want /\ (\A i \in DOMAIN owed : i # 1 => owed'[i] = owed[i])
          /\ owed[1] \in OwedSet
      BY <1>0, <3>1, TailFacts DEF HeadStep
    <3>3. l # NeedsReview /\ l \in Subjects
      BY <1>1, <1>2, <3>1, <3>2, ZenonT(30) DEF OwesOnlyReview, OwedSet
    <3>4. OwesOnlyReview'
      BY <1>1, <1>2, <3>1, <3>2 DEF OwesOnlyReview
    <3>5. /\ Event("unlabeled", l) \in EventSet /\ Event("unlabeled", l).kind # "labeled"
          /\ Event("unlabeled", l) # Event("unlabeled", NeedsReview)
      BY <3>3 DEF Event, EventSet
    <3>6. ReviewStands(log', base.epoch)
      BY <1>0, <1>1, <1>2, <3>1, <3>5, ReviewFacts, ZenonT(30)
    <3> QED
      BY <1>1, <1>2, <2>0, <3>1, <3>4, <3>6, ZenonT(30)
  <2>3. CASE WriteFails \/ WriteDone
    <3>1. /\ owed # <<>> /\ log' = log /\ awaiting' = awaiting
          /\ owed' = Tail(owed) \/ (HeadStep(owed, owed') /\ owed'[1].stale = {})
      BY <1>0, <2>3, WriteSteps
    <3>2. OwesOnlyReview'
      <4>1. CASE owed' = Tail(owed)
        <5>1. \A i \in DOMAIN owed' : i + 1 \in DOMAIN owed /\ owed'[i] = owed[i + 1]
          BY <1>0, <3>1, <4>1, TailFacts
        <5> QED
          BY <1>1, <1>2, <3>1, <5>1 DEF OwesOnlyReview
      <4>2. CASE HeadStep(owed, owed') /\ owed'[1].stale = {}
        BY <1>1, <1>2, <3>1, <4>2 DEF OwesOnlyReview, HeadStep
      <4> QED
        BY <3>1, <4>1, <4>2
    <3> QED
      BY <1>1, <1>2, <2>0, <3>1, <3>2
  <2> QED
    BY <1>4, <2>1, <2>2, <2>3 DEF WriteStep
<1>5. CASE AbandonBase
  <2>1. /\ UNCHANGED <<log, rec, awaiting>> /\ owed # <<>> /\ owed' = Tail(owed)
        /\ base' = AbandonPendingClaimBase(base)
    BY <1>5 DEF AbandonBase
  <2>2. base' = base
    BY <1>1, <1>2, <2>1 DEF AbandonPendingClaimBase, TypeOK
  <2>3. \A i \in DOMAIN owed' : i + 1 \in DOMAIN owed /\ owed'[i] = owed[i + 1]
    BY <1>0, <2>1, TailFacts
  <2> QED
    BY <1>1, <1>2, <2>1, <2>2, <2>3 DEF OwesOnlyReview
<1>6. CASE RecoverStep
  <2>1. UNCHANGED <<log, base, awaiting>>
    BY <1>6 DEF RecoverStep
  <2>2. \A w : LeftOver(owed, w) => (w.op = "set" => w.want = NeedsReview /\ NeedsReview \notin w.stale)
    <3>1. owed # <<>> => 1 \in DOMAIN owed
      BY <1>0, TailFacts
    <3> QED
      BY <1>1, <1>2, <2>1, <3>1, ZenonT(30) DEF LeftOver, OwesOnlyReview
  <2>3. CASE ~Assigned
    <3>1. rec' = NoRecord /\ \A i \in DOMAIN owed' : i = 1 /\ LeftOver(owed, owed'[1])
      BY <1>6, <2>3, ZenonT(30) DEF RecoverStep
    <3> QED
      BY <1>1, <1>2, <2>1, <2>2, <3>1, RecordsAre DEF OwesOnlyReview, Quiescent
  <2>4. CASE Assigned
    <3> DEFINE v == Classified
    <3>1. /\ rec'.state = StateFor(v.action)
          /\ \A i \in DOMAIN owed' : (i = 1 /\ LeftOver(owed, owed'[1])) \/ FreshFor(owed'[i], v)
      BY <1>6, <2>4 DEF RecoverStep
    <3>2. v.action \in {"wait", "park"} \cup Releases /\ v.project \in {NeedsReview, NoProjection}
      <4>1. base.state = "pinned" /\ ReviewStands(log, base.epoch)
        BY <1>1, <1>2, <2>1
      <4>2. Justified
        BY <1>6, <2>4 DEF RecoverStep
      <4> QED
        BY <4>1, <4>2, ZenonT(30) DEF Justified
    <3> HIDE DEF v
    <3>3. rec'.state \in Quiescent
      BY <3>1, <3>2 DEF StateFor, Quiescent, Releases
    <3>4. \A w : FreshFor(w, v) => (w.op = "set" => w.want = NeedsReview /\ NeedsReview \notin w.stale)
      BY <3>2 DEF FreshFor, OwedSet, KnownLabels, NoProjection, NeedsReview
    <3> QED
      BY <1>1, <1>2, <2>1, <2>2, <3>1, <3>3, <3>4 DEF OwesOnlyReview
  <2> QED
    BY <2>3, <2>4
<1>7. CASE Claim
  <2>1. awaiting' = awaiting /\ LabelsOf(log) = {}
    BY <1>7 DEF Claim
  <2> QED
    BY <1>1, <1>2, <2>1
<1>8. CASE up /\ Move
  <2>1. log' = log /\ awaiting' = awaiting /\ rec.state \in {"parked", "dropping"} /\ LabelsOf(log) # {}
    BY <1>1, <1>2, <1>8, ZenonT(30) DEF Move, Quiescent
  <2>2. base' = base /\ rec'.state \in {"parked", "dropping", "releasing", "none"}
    BY <1>8, <2>1, ZenonT(30) DEF Move
  <2>3. \A i \in DOMAIN owed' : (i \in DOMAIN owed /\ owed'[i] = owed[i]) \/ Fresh(owed'[i], rec'.state)
    BY <1>0, <1>8, OwedMoveFacts, ZenonT(30) DEF Move
  <2>4. \A w : Fresh(w, rec'.state) => (w.op = "set" => w.want = NeedsReview /\ NeedsReview \notin w.stale)
    BY <2>2 DEF Fresh
  <2> QED
    BY <1>1, <1>2, <2>1, <2>2, <2>3, <2>4 DEF OwesOnlyReview, Quiescent
<1>9. CASE Launch \/ ReleaseClaim
  BY <1>1, <1>2, <1>9, ZenonT(30) DEF Launch, ReleaseClaim, Quiescent
<1>10. CASE Crash \/ Restart
  <2>1. UNCHANGED <<log, base, awaiting>> /\ rec'.state \in {"none", "unclassified"} /\ owed' = <<>>
    BY <1>10, RecordsAre DEF Crash, Restart, disk, TypeOK
  <2>2. DOMAIN owed' = {}
    BY <2>1
  <2> QED
    BY <1>1, <1>2, <2>1, <2>2, ZenonT(30) DEF OwesOnlyReview, Quiescent
<1>11. CASE UNCHANGED vars \/ AgentPublishes \/ AgentExits
  <2>1. UNCHANGED <<log, base, awaiting, rec, owed>>
    BY <1>11 DEF vars, AgentPublishes, AgentExits, disk
  <2> QED
    BY <1>1, <1>2, <2>1 DEF OwesOnlyReview
<1> QED
  BY <1>3, <1>4, <1>5, <1>6, <1>7, <1>8, <1>9, <1>10, <1>11 DEF Step

=============================================================================
