-------------------------- MODULE ClaimLifeKeeps ---------------------------
(***************************************************************************)
(* The inductive invariant of ClaimLife, and that each part of it survives  *)
(* every step.                                                              *)
(*                                                                          *)
(* What the daemon knows after a crash is the issue's log, the claim base   *)
(* and the run marker. Inv says what those three, with the record and the   *)
(* writes still owed, tell of the agents and pull requests nobody can see:  *)
(* EpochOK to LostOK, one group per piece of evidence. Step describes what  *)
(* any step does to the state as the groups see it, so that the lemmas      *)
(* below do not open the actions. The groups up to AgentOK are kept here,   *)
(* the others in ClaimLifeEvidence; ClaimLifeProofs shows that every step   *)
(* of ClaimLife is a Step, and draws the theorems.                          *)
(***************************************************************************)
EXTENDS ClaimLife, WellFoundedInduction, TLAPS

USE SMTT(30), ZenonT(30)

-----------------------------------------------------------------------------
(* What a log shows after the event e.                                     *)

NeedsReview == "needs-review"
TakenAfter(l, e) == \E i \in DOMAIN l : i > e /\ l[i] = Event("unassigned", "person")
LabeledAfter(l, e) == \E i \in DOMAIN l : i > e /\ l[i].kind = "labeled"
ReviewTakenOff(l, e) == \E i \in DOMAIN l : i > e /\ l[i] = Event("unlabeled", NeedsReview)

\* The label put on last, k, still stands and nothing was put on since.
ReviewStands(l, e) == \E k \in DOMAIN l :
    /\ k > e /\ l[k] = Event("labeled", NeedsReview)
    /\ \A j \in DOMAIN l : j > k => l[j].kind # "labeled" /\ l[j] # Event("unlabeled", NeedsReview)

\* Every label put on before the event a was taken off before it.
Clean(l, a) == \A i \in DOMAIN l : i < a /\ l[i].kind = "labeled" =>
                  \E j \in DOMAIN l : i < j /\ j < a /\ l[j] = Event("unlabeled", l[i].subject)

-----------------------------------------------------------------------------
(* The invariant.                                                          *)

\* A record, a base and an agent work for assignments the log holds; one that
\* is not the standing assignment is one a person took away.
EpochOK ==
    /\ rec.epoch <= Len(log) /\ base.epoch <= Len(log)
    /\ rec.epoch > 0 /\ rec.epoch # Anchor => TakenAfter(log, rec.epoch)
    /\ Assigned => rec.epoch <= Anchor /\ base.epoch <= Anchor
    /\ rec.epoch > 0 => base.epoch <= rec.epoch
    /\ rec.state \in {"approved", "claimed", "rebasing", "preparing", "starting", "launching",
                      "running", "verifying"} => rec.epoch > 0
    /\ rec.recovered => rec.epoch > 0 /\ rec.state \notin {"running", "verifying"}
    /\ \A e \in launchedIn : e > 0 /\ e <= Len(log)
    /\ published \in launchedIn \cup {0}
    /\ \A a \in agents : a.epoch \in launchedIn

\* The base is pinned for the epoch about to be launched in, and stays so once
\* an agent was.
PinOK ==
    /\ rec.state \in {"starting", "launching", "running"} => base = PinnedBase(rec.epoch)
    /\ Anchor \in launchedIn => base = PinnedBase(Anchor)

\* An agent of the standing epoch, or of the record's, is the one the marker
\* names, and only the record that watches it can be past classification.
AgentOK == \A a \in agents :
    /\ a.epoch = Anchor \/ TakenAfter(log, a.epoch)
    /\ a.epoch = Anchor \/ a.epoch = rec.epoch =>
        /\ base = PinnedBase(a.epoch) /\ marker = [state |-> "identified", by |-> a.run]
        /\ \/ rec.state \in {"none", "unclassified"}
           \/ rec.state = "running" /\ rec.run = a.run /\ rec.epoch = a.epoch

\* Only the head of the queue can be in flight or an orphan; a release is owed
\* by a record that releases, ben:needs-review by one that parks, and nothing by
\* one that is gone or held.
OwesReview(w) == w.op = "set" /\ w.want = NeedsReview /\ ~w.orphan
OwedOK ==
    /\ \A i \in DOMAIN owed :
        /\ i > 1 => ~owed[i].sent /\ owed[i].stale = {} /\ ~owed[i].orphan
        /\ owed[i].op # "set" => ~owed[i].sent /\ ~owed[i].orphan
        /\ owed[i].op = "release" => rec.state \in {"releasing", "failed"}
        /\ OwesReview(owed[i]) => rec.state \in {"parked", "releasing", "dropping", "unclassified"}
        /\ OwesReview(owed[i]) /\ rec.state = "parked" =>
              \A j \in DOMAIN owed : j > i /\ owed[j].op = "set" => owed[j].want = NeedsReview
    /\ rec.state = "unclassified" => \A i \in DOMAIN owed : owed[i].op = "set"
    /\ rec.state \in {"none", "held"} => Settled

\* An epoch the daemon began itself starts without labels, and shows one before
\* an agent is launched in it.
OwesLabel == \E i \in DOMAIN owed : owed[i].op = "set" /\ owed[i].want # "none"
                                    /\ ~owed[i].sent /\ ~owed[i].orphan
LabelOK ==
    Own(log, Anchor) =>
        /\ Clean(log, Anchor)
        /\ Anchor \in launchedIn => LabeledAfter(log, Anchor)
        /\ rec.state \in {"rebasing", "preparing", "starting", "launching", "running",
                          "verifying", "backoff"} => LabeledAfter(log, Anchor)
        /\ rec.state \in {"claimed", "parked"} => LabeledAfter(log, Anchor) \/ OwesLabel
        /\ rec.recovered /\ rec.state \in {"verified", "approved"} => Anchor \notin launchedIn

\* A recovered record of an epoch with a pull request goes on only after a
\* person took ben:needs-review off; a parked one shows it or is about to.
PubOK ==
    rec.recovered /\ Own(log, rec.epoch) /\ published = rec.epoch =>
        /\ rec.state \in {"verified", "approved", "claimed", "rebasing", "preparing", "starting",
                          "launching", "backoff"} => ReviewTakenOff(log, rec.epoch)
        /\ rec.state = "parked" =>
              \/ ReviewTakenOff(log, rec.epoch) \/ NeedsReview \in LabelsOf(log)
              \/ \E i \in DOMAIN owed : OwesReview(owed[i]) /\ ~owed[i].sent

\* While people are waited for, ben:needs-review stands in the log of a pinned
\* base, and nothing owed takes it off.
AwaitOK ==
    awaiting =>
        /\ base.state = "pinned"
        /\ rec.state \in {"parked", "releasing", "dropping", "none", "unclassified"}
        /\ ReviewStands(log, base.epoch)
        /\ \A i \in DOMAIN owed : owed[i].op = "set" =>
              owed[i].want = NeedsReview /\ NeedsReview \notin owed[i].stale

\* A claim the daemon made has a record while it is up, and none is dropped.
LostOK == /\ up /\ Own(log, Anchor) => rec.state # "none"
          /\ rec.state = "dropping" => ~Own(log, Anchor)

Inv == TypeOK /\ EpochOK /\ PinOK /\ AgentOK /\ OwedOK /\ LabelOK /\ PubOK /\ AwaitOK /\ LostOK

-----------------------------------------------------------------------------
(* Reading a log that grows.                                               *)

\* A set of naturals that is not empty has a least element.
LEMMA LeastExists ==
    ASSUME NEW T, T \subseteq Nat, T # {}
    PROVE  \E x \in T : \A y \in T : x <= y
<1>1. \E x \in T : \A y \in T : ~(<<y, x>> \in OpToRel(<, Nat))
  BY NatLessThanWellFounded, WFMin
<1>2. PICK x \in T : \A y \in T : ~(<<y, x>> \in OpToRel(<, Nat))
  BY <1>1
<1>3. \A y \in T : ~(y < x)
  BY <1>2, Zenon DEF OpToRel
<1> QED
  BY <1>3

\* A bounded one has a greatest, and Max is it.
LEMMA MaxFacts ==
    ASSUME NEW n \in Nat, NEW S, S \subseteq 0 .. n, S # {}
    PROVE  Max(S) \in S /\ \A y \in S : y <= Max(S)
<1> DEFINE T == {n - x : x \in S}
<1>1. T \subseteq Nat
  OBVIOUS
<1>2. T # {}
  <2>1. PICK x \in S : TRUE
    BY Zenon
  <2>2. n - x \in T
    OBVIOUS
  <2> HIDE DEF T
  <2> QED
    BY <2>2
<1> HIDE DEF T
<1>3. PICK t \in T : \A y \in T : t <= y
  BY <1>1, <1>2, LeastExists, Zenon
<1>4. PICK x \in S : t = n - x
  BY DEF T
<1>5. \A y \in S : x >= y
  <2> TAKE y \in S
  <2>1. n - y \in T
    BY DEF T
  <2>2. n - x <= n - y /\ x \in 0 .. n /\ y \in 0 .. n
    BY <1>3, <1>4, <2>1
  <2> QED
    BY <2>2
<1>6. \E z \in S : \A y \in S : z >= y
  BY <1>5
<1>7. Max(S) \in S /\ \A y \in S : Max(S) >= y
  BY <1>6, Zenon DEF Max
<1>8. \A y \in S : y \in Nat
  OBVIOUS
<1> QED
  BY <1>7, <1>8

\* Max is the element no other exceeds.
LEMMA MaxIs ==
    ASSUME NEW S, S \subseteq Nat, NEW m \in S, \A y \in S : y <= m
    PROVE  Max(S) = m
<1>1. \A y \in S : m >= y
  OBVIOUS
<1>2. \A z \in S : (\A y \in S : z >= y) => z = m
  OBVIOUS
<1>3. Max(S) \in S /\ \A y \in S : Max(S) >= y
  BY <1>1, Zenon DEF Max
<1> QED
  BY <1>2, <1>3, ZenonT(30)

\* What the log holds after one more event.
LEMMA AppendFacts ==
    ASSUME NEW l \in Seq(EventSet), NEW e \in EventSet
    PROVE  /\ Append(l, e) \in Seq(EventSet)
           /\ Len(l) \in Nat /\ DOMAIN l = 1 .. Len(l)
           /\ Len(Append(l, e)) = Len(l) + 1
           /\ DOMAIN Append(l, e) = 1 .. Len(l) + 1
           /\ Append(l, e)[Len(l) + 1] = e
           /\ \A i \in 1 .. Len(l) : Append(l, e)[i] = l[i]
OBVIOUS

Standing(l) == {i \in DOMAIN l : /\ l[i].kind = "assigned"
                                 /\ \A j \in DOMAIN l : j > i => l[j].kind # "unassigned"}

\* claimCycleAnchor: the last assignment no removal follows.
LEMMA AnchorFacts ==
    ASSUME NEW l \in Seq(EventSet)
    PROVE  /\ ClaimCycleAnchor(l) \in Nat /\ ClaimCycleAnchor(l) <= Len(l)
           /\ ClaimCycleAnchor(l) > 0 => ClaimCycleAnchor(l) \in Standing(l)
<1> DEFINE S == {0} \cup Standing(l)
<1>1. Len(l) \in Nat /\ DOMAIN l = 1 .. Len(l)
  OBVIOUS
<1> USE <1>1
<1>2. S \subseteq 0 .. Len(l) /\ S # {}
  BY DEF Standing
<1>3. ClaimCycleAnchor(l) = Max(S)
  BY DEF ClaimCycleAnchor, Standing
<1> HIDE DEF S
<1>4. ClaimCycleAnchor(l) \in S
  BY <1>2, <1>3, MaxFacts, Zenon
<1> QED
  BY <1>2, <1>4 DEF S

\* A new assignment is the anchor, a removal leaves none, and nothing else
\* moves it.
LEMMA AnchorGrows ==
    ASSUME NEW l \in Seq(EventSet), NEW e \in EventSet
    PROVE  /\ e.kind = "assigned" => ClaimCycleAnchor(Append(l, e)) = Len(l) + 1
           /\ e.kind = "unassigned" => ClaimCycleAnchor(Append(l, e)) = 0
           /\ e.kind \notin {"assigned", "unassigned"} =>
                 ClaimCycleAnchor(Append(l, e)) = ClaimCycleAnchor(l)
<1> DEFINE m == Append(l, e)
<1>1. /\ Len(l) \in Nat /\ DOMAIN l = 1 .. Len(l) /\ DOMAIN m = 1 .. Len(l) + 1
      /\ m[Len(l) + 1] = e /\ \A i \in 1 .. Len(l) : m[i] = l[i]
  BY AppendFacts
<1> USE <1>1
<1> HIDE DEF m
<1>2. \A k : ClaimCycleAnchor(k) = Max({0} \cup Standing(k))
  BY DEF ClaimCycleAnchor, Standing
<1> USE <1>2
<1>3. Standing(m) \subseteq 1 .. Len(l) + 1
  BY DEF Standing
<1>4. CASE e.kind = "assigned"
  <2>1. Len(l) + 1 \in Standing(m)
    BY <1>4 DEF Standing
  <2>2. Max({0} \cup Standing(m)) = Len(l) + 1
    <3> DEFINE S == {0} \cup Standing(m)
    <3>1. S \subseteq Nat /\ Len(l) + 1 \in S /\ \A y \in S : y <= Len(l) + 1
      BY <1>3, <2>1
    <3> HIDE DEF S
    <3> QED
      BY <3>1, MaxIs, Zenon DEF S
  <2> QED
    BY <1>4, <2>2 DEF m
<1>5. CASE e.kind = "unassigned"
  <2>1. Standing(m) = {}
    BY <1>5 DEF Standing
  <2>2. Max({0} \cup Standing(m)) = 0
    <3> DEFINE S == {0} \cup Standing(m)
    <3>1. S \subseteq Nat /\ 0 \in S /\ \A y \in S : y <= 0
      BY <2>1
    <3> HIDE DEF S
    <3> QED
      BY <3>1, MaxIs, Zenon DEF S
  <2> QED
    BY <1>5, <2>2 DEF m
<1>6. CASE e.kind \notin {"assigned", "unassigned"}
  <2>1. Standing(m) = Standing(l)
    BY <1>6 DEF Standing
  <2> QED
    BY <1>6, <2>1, Zenon DEF m
<1> QED
  BY <1>4, <1>5, <1>6

\* What the log has shown, it keeps showing.
LEMMA LogKeeps ==
    ASSUME NEW l \in Seq(EventSet), NEW e \in EventSet, NEW x \in Nat
    PROVE  /\ TakenAfter(l, x) => TakenAfter(Append(l, e), x)
           /\ LabeledAfter(l, x) => LabeledAfter(Append(l, e), x)
           /\ ReviewTakenOff(l, x) => ReviewTakenOff(Append(l, e), x)
           /\ x <= Len(l) => (Own(Append(l, e), x) <=> Own(l, x))
<1> DEFINE m == Append(l, e)
<1>1. /\ Len(l) \in Nat /\ DOMAIN l = 1 .. Len(l) /\ DOMAIN m = 1 .. Len(l) + 1
      /\ \A i \in 1 .. Len(l) : m[i] = l[i]
  BY AppendFacts
<1> HIDE DEF m
<1> QED
  BY <1>1 DEF TakenAfter, LabeledAfter, ReviewTakenOff, Own, m

\* The last event of a log that grew.
LEMMA LogShows ==
    ASSUME NEW l \in Seq(EventSet), NEW e \in EventSet, NEW x \in Nat, x <= Len(l)
    PROVE  /\ e = Event("unassigned", "person") => TakenAfter(Append(l, e), x)
           /\ e.kind = "labeled" => LabeledAfter(Append(l, e), x)
           /\ e = Event("unlabeled", NeedsReview) => ReviewTakenOff(Append(l, e), x)
<1> DEFINE m == Append(l, e)
<1>1. /\ Len(l) \in Nat /\ DOMAIN m = 1 .. Len(l) + 1 /\ m[Len(l) + 1] = e
  BY AppendFacts
<1> HIDE DEF m
<1>2. Len(l) + 1 \in DOMAIN m /\ Len(l) + 1 > x
  BY <1>1
<1> QED
  BY <1>1, <1>2 DEF TakenAfter, LabeledAfter, ReviewTakenOff, m

\* The label x is on: it was put on at i, and not taken off since.
Puts(l, i, x) ==
    /\ i \in DOMAIN l /\ l[i].kind = "labeled" /\ l[i].subject = x
    /\ \A j \in DOMAIN l : j > i => l[j] # Event("unlabeled", x)

\* The labels an issue shows are those some labeling still puts on it.
LEMMA LabelsAre ==
    ASSUME NEW l \in Seq(EventSet), NEW x
    PROVE  x \in LabelsOf(l) <=> \E i \in DOMAIN l : Puts(l, i, x)
<1>1. Len(l) \in Nat /\ DOMAIN l = 1 .. Len(l)
  OBVIOUS
<1>2. \A j \in DOMAIN l : j >= 0
  BY <1>1
<1>3. \A i : i \in StandingLabelings(l, 0) <=> i \in DOMAIN l /\ Puts(l, i, l[i].subject)
  BY <1>2 DEF StandingLabelings, LabelEvents, Puts, Event
<1> QED
  BY <1>3 DEF LabelsOf, Puts

\* They are labels.
LEMMA LabelsTyped ==
    ASSUME NEW l \in Seq(EventSet)
    PROVE  LabelsOf(l) \subseteq Subjects
<1>1. \A i \in DOMAIN l : l[i] \in EventSet
  OBVIOUS
<1>2. \A i \in StandingLabelings(l, 0) : l[i].subject \in Subjects
  BY <1>1 DEF StandingLabelings, LabelEvents, EventSet
<1> QED
  BY <1>2 DEF LabelsOf

\* A label stays until it is taken off, and one put on is on.
LEMMA LabelsGrow ==
    ASSUME NEW l \in Seq(EventSet), NEW e \in EventSet, NEW x
    PROVE  /\ x \in LabelsOf(l) /\ e # Event("unlabeled", x) => x \in LabelsOf(Append(l, e))
           /\ e = Event("labeled", x) => x \in LabelsOf(Append(l, e))
<1> DEFINE m == Append(l, e)
<1>1. /\ Len(l) \in Nat /\ DOMAIN l = 1 .. Len(l) /\ DOMAIN m = 1 .. Len(l) + 1
      /\ m[Len(l) + 1] = e /\ \A i \in 1 .. Len(l) : m[i] = l[i]
      /\ m \in Seq(EventSet)
  BY AppendFacts
<1> USE <1>1
<1> HIDE DEF m
<1>2. ASSUME x \in LabelsOf(l), e # Event("unlabeled", x)
      PROVE  x \in LabelsOf(m)
  <2>1. PICK i \in DOMAIN l : Puts(l, i, x)
    BY <1>2, LabelsAre
  <2>2. i \in DOMAIN m /\ Puts(m, i, x)
    BY <1>2, <2>1 DEF Puts
  <2> QED
    BY <2>2, LabelsAre
<1>3. ASSUME e = Event("labeled", x)
      PROVE  x \in LabelsOf(m)
  <2>1. Len(l) + 1 \in DOMAIN m /\ Puts(m, Len(l) + 1, x)
    BY <1>3 DEF Puts, Event
  <2> QED
    BY <2>1, LabelsAre
<1> QED
  BY <1>2, <1>3 DEF m

\* With every label of an earlier cycle taken off before it, what is on was put
\* on in this cycle.
LEMMA CleanLabels ==
    ASSUME NEW l \in Seq(EventSet), NEW a \in DOMAIN l, Clean(l, a), l[a].kind = "assigned",
           NEW x \in LabelsOf(l)
    PROVE  LabeledAfter(l, a)
<1>1. PICK i \in DOMAIN l : Puts(l, i, x)
  BY LabelsAre
<1> USE <1>1
<1>2. i \in Nat /\ a \in Nat /\ \A j \in DOMAIN l : j \in Nat
  OBVIOUS
<1>3. ~(i < a)
  BY <1>2 DEF Clean, Puts
<1>4. i # a
  BY DEF Puts
<1> QED
  BY <1>2, <1>3, <1>4 DEF LabeledAfter, Puts

\* A log that shows no label is clean for an assignment that comes next.
LEMMA CleanStart ==
    ASSUME NEW l \in Seq(EventSet), NEW e \in EventSet, LabelsOf(l) = {}
    PROVE  Clean(Append(l, e), Len(l) + 1)
<1> DEFINE m == Append(l, e)
<1>1. /\ Len(l) \in Nat /\ DOMAIN l = 1 .. Len(l) /\ DOMAIN m = 1 .. Len(l) + 1
      /\ \A i \in 1 .. Len(l) : m[i] = l[i]
  BY AppendFacts
<1> USE <1>1
<1> HIDE DEF m
<1>2. \A i \in DOMAIN l : l[i].kind = "labeled" =>
         \E j \in DOMAIN l : j > i /\ l[j] = Event("unlabeled", l[i].subject)
  <2> SUFFICES ASSUME NEW i \in DOMAIN l, l[i].kind = "labeled",
                      \A j \in DOMAIN l : j > i => l[j] # Event("unlabeled", l[i].subject)
               PROVE  FALSE
    OBVIOUS
  <2>1. Puts(l, i, l[i].subject)
    BY DEF Puts
  <2> QED
    BY <2>1, LabelsAre, Zenon
<1>3. \A i \in DOMAIN m : i < Len(l) + 1 => i \in DOMAIN l
  OBVIOUS
<1>4. \A j \in DOMAIN l : j < Len(l) + 1 /\ j \in DOMAIN m
  OBVIOUS
<1>5. Clean(m, Len(l) + 1)
  <2> SUFFICES ASSUME NEW i \in DOMAIN m, i < Len(l) + 1, m[i].kind = "labeled"
               PROVE  \E j \in DOMAIN m : i < j /\ j < Len(l) + 1 /\ m[j] = Event("unlabeled", m[i].subject)
    BY DEF Clean
  <2>1. i \in DOMAIN l /\ m[i] = l[i]
    BY <1>3
  <2> USE <2>1
  <2>2. PICK j \in DOMAIN l : j > i /\ l[j] = Event("unlabeled", l[i].subject)
    BY <1>2
  <2>3. j \in DOMAIN m /\ i < j /\ j < Len(l) + 1 /\ m[j] = l[j]
    BY <1>4, <2>2
  <2> QED
    BY <2>2, <2>3
<1> QED
  BY <1>5 DEF m

\* It stays clean as the log grows.
LEMMA CleanKeeps ==
    ASSUME NEW l \in Seq(EventSet), NEW e \in EventSet, NEW a \in Nat, a <= Len(l), Clean(l, a)
    PROVE  Clean(Append(l, e), a)
<1> DEFINE m == Append(l, e)
<1>1. /\ Len(l) \in Nat /\ DOMAIN l = 1 .. Len(l) /\ DOMAIN m = 1 .. Len(l) + 1
      /\ \A i \in 1 .. Len(l) : m[i] = l[i]
  BY AppendFacts
<1> HIDE DEF m
<1> SUFFICES ASSUME NEW i \in DOMAIN m, i < a, m[i].kind = "labeled"
             PROVE  \E j \in DOMAIN m : i < j /\ j < a /\ m[j] = Event("unlabeled", m[i].subject)
  BY DEF Clean, m
<1>2. i \in DOMAIN l /\ m[i] = l[i]
  BY <1>1
<1>3. PICK j \in DOMAIN l : i < j /\ j < a /\ l[j] = Event("unlabeled", l[i].subject)
  BY <1>2 DEF Clean
<1> QED
  BY <1>1, <1>2, <1>3

-----------------------------------------------------------------------------
(* A turn of the loop that moves the record: what it adds to the queue, and  *)
(* what it does to the rest.                                                 *)

\* An effect just owed by a record that enters state t.
Fresh(w, t) ==
    /\ w \in OwedSet /\ ~w.sent /\ w.stale = {} /\ ~w.orphan
    /\ w.op = "release" => t \in {"releasing", "failed"}
    /\ w.op = "set" => (w.want = NeedsReview <=> t = "parked") /\ t \notin {"releasing", "dropping", "none", "held"}

OwedMove(o, q, t) ==
    /\ q \in Seq(OwedSet) /\ Len(o) <= Len(q)
    /\ \A i \in DOMAIN o : q[i] = o[i]
    /\ \A i \in DOMAIN q : i > Len(o) => Fresh(q[i], t)
    /\ t \in {"claimed", "parked"} =>
          Len(o) < Len(q) /\ q[Len(o) + 1].op = "set" /\ q[Len(o) + 1].want # "none"

\* The states in which a record works for its epoch; those an agent of a
\* recovered one has yet to be launched from; those that follow the first label.
Working   == {"approved", "claimed", "rebasing", "preparing", "starting", "launching", "verifying"}
Unstarted == {"verified", "approved", "claimed", "rebasing", "preparing", "starting", "launching", "backoff"}
Labelled  == {"rebasing", "preparing", "starting", "launching", "running", "verifying", "backoff"}

\* What every turn that moves the record does, the launch and the recovery apart.
Move ==
    /\ UNCHANGED <<log, published, launchedIn, awaiting, up>>
    /\ rec' \in RecordSet /\ base' \in BaseSet /\ marker' \in MarkerSet /\ launches' \in 0 .. MaxRuns
    /\ UNCHANGED <<queued, company, crashes, gestures>>
    /\ agents' \subseteq agents
    /\ rec.state = "running" => \A a \in agents' : a.run # rec.run
    /\ rec.state \notin {"none", "unclassified", "releasing", "failed"}
    /\ rec'.state \notin {"verified", "running", "unclassified"}
    /\ OwedMove(owed, owed', rec'.state)
    /\ base' # base => /\ rec.state \in {"approved", "rebasing", "preparing"}
                       /\ rec'.epoch = rec.epoch /\ base'.epoch = rec.epoch
                       /\ base' = BeginClaimBase(base, rec.epoch) \/ base' = PinnedBase(rec.epoch)
    /\ rec'.state \in {"starting", "launching"} => rec'.epoch = rec.epoch
                                                    /\ base' = PinnedBase(rec.epoch)
    /\ \/ rec'.epoch = rec.epoch
       \/ rec' = NoRecord
       \/ /\ Assigned /\ rec'.epoch = Anchor
          /\ <<rec.state, rec'.state>> \in {<<"verified", "approved">>, <<"done", "held">>,
                                            <<"backoff", "rebasing">>}
          /\ rec'.state = "rebasing" => rec.epoch = 0
    /\ rec'.state = "approved" => rec.state = "verified" /\ Assigned /\ rec'.epoch = Anchor
    /\ rec'.recovered => rec.recovered
    /\ rec'.state \in Working => rec'.epoch > 0
    /\ rec'.state = "verifying" => rec.state = "running"
    /\ rec'.state \in Labelled => \/ rec.state \in Labelled
                                  \/ rec.state \in {"claimed", "parked"} /\ Settled
    /\ rec'.state \in Unstarted => \/ rec.state \in Unstarted \cup {"running", "verifying"}
                                   \/ rec.state = "parked" /\ Settled /\ LabelsOf(log) = {}
    /\ rec.state = "parked" => \/ rec'.state \in {"parked", "dropping", "releasing"}
                               \/ rec'.state = "backoff" /\ LabelsOf(log) = {}
    /\ rec.state = "dropping" => rec'.state = "none"
    /\ rec'.state \in {"none", "held"} => owed' = owed /\ Settled
    /\ rec'.state = "none" => rec' = NoRecord /\ (~Assigned \/ rec.state = "dropping")
    /\ rec'.state = "dropping" => ~Assigned

\* BeginClaimBase writes a pending base of the epoch, or nothing.
LEMMA BeginFacts ==
    ASSUME NEW b \in BaseSet, NEW e \in Nat
    PROVE  /\ BeginClaimBase(b, e) \in BaseSet
           /\ BeginClaimBase(b, e) # b =>
                 /\ BeginClaimBase(b, e) = PendingBase(e, b.epoch)
                 /\ BeginClaimBase(b, e).epoch = e /\ b.epoch # e
BY DEF BeginClaimBase, PendingBase, BaseSet

\* The fields of a pinned base.
LEMMA PinFacts ==
    ASSUME NEW e \in Nat
    PROVE  PinnedBase(e) \in BaseSet /\ PinnedBase(e).epoch = e /\ PinnedBase(e).state = "pinned"
           /\ PinnedBase(e).outgoing = 0
BY DEF PinnedBase, BaseSet

-----------------------------------------------------------------------------
(* The verdict of a restart, and what adopting it does.                    *)

Actions  == {"wait", "approve", "backoff", "park", "hold", "release_keep", "release_dispose"}
Releases == {"release_keep", "release_dispose"}

\* The verdicts recovery can reach, and what each owes.
VerdictOK(v) ==
    /\ v.action \in Actions /\ v.fault \in BOOLEAN
    /\ v.project \in KnownLabels \cup {"none", NoProjection}
    /\ v.action = "approve" => v.project = NoProjection
    /\ v.action = "backoff" => v.project = "claimed"
    /\ v.action = "park" => v.project = NeedsReview
    /\ v.action = "hold" => v.project = "none"
    /\ v.action \in Releases => v.project \in {NoProjection, "failed"}

\* What the evidence behind a verdict is: fresh only over a pending base or a
\* cycle without a label, a relaunch only of published work people sent back, a
\* wait wherever an agent of the cycle may live, and no claim of a parked epoch
\* beyond what it shows.
Justified ==
    /\ VerdictOK(Classified)
    /\ Classified.action = "approve" =>
          (base.state = "pending" /\ base.epoch = Anchor) \/ ~LabeledAfter(log, Anchor)
    /\ Classified.action = "backoff" =>
          LabeledAfter(log, Anchor) /\ (published = Anchor => ReviewTakenOff(log, Anchor))
    /\ \A a \in agents : a.epoch = Anchor =>
          Classified.action = "wait" /\ ResolvedMarker = "possibly_live"
    /\ base.state = "pinned" /\ ReviewStands(log, base.epoch) =>
          /\ Classified.action \in {"wait", "park"} \cup Releases
          /\ Classified.project \in {NeedsReview, NoProjection}

\* An effect the verdict v owes.
FreshFor(w, v) ==
    /\ w \in OwedSet /\ ~w.sent /\ w.stale = {} /\ ~w.orphan
    /\ w.op # "set" => v.action \in Releases
    /\ w.op = "set" => w.want = v.project

\* The queue after a re-classification: the write in flight, if it is left
\* behind, is an orphan at its head; the rest is what the verdict owes.
LeftOver(o, w) == /\ o # <<>> /\ w \in OwedSet
                  /\ w.op = o[1].op /\ w.want = o[1].want /\ w.stale = o[1].stale /\ w.orphan

\* The state a verdict is adopted in.
StateFor(action) ==
    CASE action = "wait" -> "unclassified" [] action = "approve" -> "verified"
      [] action = "backoff" -> "backoff" [] action = "park" -> "parked" [] action = "hold" -> "done"
      [] OTHER -> "releasing"

\* What a re-classification does (applyRecovery).
RecoverStep ==
    /\ rec.state = "unclassified"
    /\ UNCHANGED <<log, base, agents, published, launches, launchedIn, awaiting, queued, company,
                   up, crashes, gestures>>
    /\ rec' \in RecordSet /\ marker' \in MarkerSet /\ owed' \in Seq(OwedSet)
    /\ ~Assigned => /\ rec' = NoRecord /\ marker' = marker
                    /\ \A i \in DOMAIN owed' : i = 1 /\ LeftOver(owed, owed'[1])
    /\ Assigned =>
          /\ Justified /\ rec'.state = StateFor(Classified.action)
          /\ rec'.epoch = Anchor /\ rec'.recovered
          /\ ResolvedMarker = "possibly_live" => marker' = marker
          /\ Classified.action = "park" =>
                \E i \in DOMAIN owed' : owed'[i].op = "set" /\ FreshFor(owed'[i], Classified)
          /\ \A i \in DOMAIN owed' :
                (i = 1 /\ LeftOver(owed, owed'[1])) \/ FreshFor(owed'[i], Classified)

-----------------------------------------------------------------------------
(* The other steps.                                                        *)

\* A step that adds at most one event to the log and touches, beside it, only
\* the queue and what people set: the requests of a label write, and people.
LogStep ==
    /\ UNCHANGED <<rec, base, marker, agents, published, up, launches, launchedIn, crashes>>
    /\ \/ log' = log
       \/ \E e \in EventSet :
             /\ log' = Append(log, e)
             /\ e.kind = "unassigned" => e = Event("unassigned", "person")
             /\ e.kind = "assigned" => e = Event("assigned", "person") /\ ~Assigned

\* The queue without its head, and with its head replaced.
LEMMA TailFacts ==
    ASSUME NEW o \in Seq(OwedSet), o # <<>>
    PROVE  /\ Tail(o) \in Seq(OwedSet) /\ 1 \in DOMAIN o /\ Head(o) = o[1] /\ o[1] \in OwedSet
           /\ \A i \in DOMAIN Tail(o) : i \in Nat /\ i + 1 \in DOMAIN o /\ Tail(o)[i] = o[i + 1]
           /\ \A i \in DOMAIN o : i \in Nat /\ (i # 1 => i - 1 \in DOMAIN Tail(o) /\ Tail(o)[i - 1] = o[i])
           /\ \A w \in OwedSet : /\ [o EXCEPT ![1] = w] \in Seq(OwedSet)
                                 /\ DOMAIN [o EXCEPT ![1] = w] = DOMAIN o
                                 /\ [o EXCEPT ![1] = w][1] = w
                                 /\ \A i \in DOMAIN o : i # 1 => [o EXCEPT ![1] = w][i] = o[i]
<1>1. Len(o) \in Nat /\ Len(o) > 0 /\ DOMAIN o = 1 .. Len(o)
  OBVIOUS
<1> USE <1>1
<1>2. /\ Tail(o) \in Seq(OwedSet) /\ 1 \in DOMAIN o /\ Head(o) = o[1] /\ o[1] \in OwedSet
      /\ DOMAIN Tail(o) = 1 .. Len(o) - 1
      /\ \A i \in 1 .. Len(o) - 1 : Tail(o)[i] = o[i + 1]
  OBVIOUS
<1>3. \A w \in OwedSet : /\ [o EXCEPT ![1] = w] \in Seq(OwedSet)
                         /\ DOMAIN [o EXCEPT ![1] = w] = DOMAIN o
                         /\ [o EXCEPT ![1] = w][1] = w
                         /\ \A i \in DOMAIN o : i # 1 => [o EXCEPT ![1] = w][i] = o[i]
  OBVIOUS
<1> DEFINE t == Tail(o)
<1>4. DOMAIN t = 1 .. Len(o) - 1 /\ \A i \in 1 .. Len(o) - 1 : t[i] = o[i + 1]
  BY <1>2
<1> HIDE DEF t
<1>5. \A i \in DOMAIN t : i \in Nat /\ i + 1 \in DOMAIN o /\ t[i] = o[i + 1]
  BY <1>4
<1>6. \A i \in DOMAIN o : i \in Nat /\ (i # 1 => i - 1 \in DOMAIN t /\ t[i - 1] = o[i])
  BY <1>4
<1> QED
  BY <1>2, <1>3, <1>5, <1>6 DEF t

\* The head of the queue as a request of its write leaves it.
HeadStep(o, q) ==
    /\ o # <<>> /\ q # <<>> /\ q \in Seq(OwedSet) /\ DOMAIN q = DOMAIN o /\ o[1].op = "set"
    /\ q[1].op = "set" /\ q[1].want = o[1].want /\ q[1].orphan = o[1].orphan
    /\ \A i \in DOMAIN o : i # 1 => q[i] = o[i]

\* The requests of a label write and what each does to the queue.
LEMMA WriteSteps ==
    ASSUME log \in Seq(EventSet), owed \in Seq(OwedSet), OwedOK
    PROVE  /\ ProjectLabel =>
                 /\ HeadStep(owed, owed') /\ ~owed[1].sent /\ owed'[1].sent
                 /\ owed'[1].stale = LabelsOf(log) \ {owed[1].want}
                 /\ IF owed[1].want = "none" \/ owed[1].want \in LabelsOf(log)
                    THEN UNCHANGED <<log, awaiting>>
                    ELSE /\ log' = Append(log, Event("labeled", owed[1].want))
                         /\ awaiting' = (awaiting \/ Parks(owed[1]))
           /\ RemoveStaleLabel =>
                 /\ HeadStep(owed, owed') /\ owed[1].sent /\ owed'[1].sent /\ awaiting' = awaiting
                 /\ \E l \in owed[1].stale :
                       /\ owed'[1].stale = owed[1].stale \ {l}
                       /\ log' = log \/ log' = Append(log, Event("unlabeled", l))
           /\ WriteFails =>
                 /\ owed # <<>> /\ log' = log /\ awaiting' = awaiting /\ owed[1].sent
                 /\ \/ owed' = Tail(owed) /\ owed[1].orphan
                    \/ HeadStep(owed, owed') /\ ~owed'[1].sent /\ owed'[1].stale = {} /\ ~owed[1].orphan
           /\ WriteDone =>
                 /\ owed # <<>> /\ log' = log /\ awaiting' = awaiting /\ owed' = Tail(owed)
                 /\ owed[1].sent
<1>1. owed # <<>> => /\ Head(owed) = owed[1] /\ owed[1] \in OwedSet /\ 1 \in DOMAIN owed
  BY TailFacts
<1> USE <1>1
<1>2. \A w \in OwedSet : owed # <<>> /\ owed' = [owed EXCEPT ![1] = w] /\ owed[1].op = "set" /\ w.op = "set"
                         /\ w.want = owed[1].want /\ w.orphan = owed[1].orphan
                         => HeadStep(owed, owed') /\ owed'[1] = w
  <2> SUFFICES ASSUME NEW w \in OwedSet, owed # <<>>, owed' = [owed EXCEPT ![1] = w],
                      owed[1].op = "set", w.op = "set",
                      w.want = owed[1].want, w.orphan = owed[1].orphan
               PROVE  HeadStep(owed, owed') /\ owed'[1] = w
    BY Zenon
  <2>1. /\ owed' \in Seq(OwedSet) /\ DOMAIN owed' = DOMAIN owed /\ owed'[1] = w
        /\ \A i \in DOMAIN owed : i # 1 => owed'[i] = owed[i]
    BY TailFacts
  <2>2. owed' # <<>>
    BY <2>1
  <2> QED
    BY <2>1, <2>2 DEF HeadStep
<1>3. ASSUME ProjectLabel
      PROVE  /\ HeadStep(owed, owed') /\ ~owed[1].sent /\ owed'[1].sent
             /\ owed'[1].stale = LabelsOf(log) \ {owed[1].want}
             /\ IF owed[1].want = "none" \/ owed[1].want \in LabelsOf(log)
                THEN UNCHANGED <<log, awaiting>>
                ELSE /\ log' = Append(log, Event("labeled", owed[1].want))
                     /\ awaiting' = (awaiting \/ Parks(owed[1]))
  <2> DEFINE w == [owed[1] EXCEPT !.sent = TRUE, !.stale = LabelsOf(log) \ {owed[1].want}]
  <2>1. owed # <<>> /\ owed[1].op = "set" /\ ~owed[1].sent /\ owed' = [owed EXCEPT ![1] = w]
    BY <1>3 DEF ProjectLabel
  <2>2. /\ w \in OwedSet /\ w.op = "set" /\ w.want = owed[1].want /\ w.orphan = owed[1].orphan
        /\ w.sent /\ w.stale = LabelsOf(log) \ {owed[1].want}
    BY <2>1, LabelsTyped, Zenon DEF OwedSet
  <2>3. IF owed[1].want = "none" \/ owed[1].want \in LabelsOf(log)
        THEN UNCHANGED <<log, awaiting>>
        ELSE /\ log' = Append(log, Event("labeled", owed[1].want))
             /\ awaiting' = (awaiting \/ Parks(owed[1]))
    BY <1>3 DEF ProjectLabel, Append1
  <2> HIDE DEF w
  <2> QED
    BY <1>2, <2>1, <2>2, <2>3, Zenon
<1>4. ASSUME RemoveStaleLabel
      PROVE  /\ HeadStep(owed, owed') /\ owed[1].sent /\ owed'[1].sent /\ awaiting' = awaiting
             /\ \E l \in owed[1].stale :
                   /\ owed'[1].stale = owed[1].stale \ {l}
                   /\ log' = log \/ log' = Append(log, Event("unlabeled", l))
  <2>1. owed # <<>> /\ owed[1].op = "set" /\ owed[1].sent /\ awaiting' = awaiting
    BY <1>4 DEF RemoveStaleLabel
  <2> USE <2>1
  <2>2. PICK l \in owed[1].stale :
           /\ owed' = [owed EXCEPT ![1] = [owed[1] EXCEPT !.stale = owed[1].stale \ {l}]]
           /\ log' = log \/ log' = Append(log, Event("unlabeled", l))
    BY <1>4, Zenon DEF RemoveStaleLabel, Append1
  <2> DEFINE w == [owed[1] EXCEPT !.stale = owed[1].stale \ {l}]
  <2>3. /\ w \in OwedSet /\ w.op = "set" /\ w.want = owed[1].want /\ w.orphan = owed[1].orphan
        /\ w.sent = owed[1].sent /\ w.stale = owed[1].stale \ {l}
    BY Zenon DEF OwedSet
  <2>4. owed' = [owed EXCEPT ![1] = w]
    BY <2>2
  <2> HIDE DEF w
  <2>5. HeadStep(owed, owed') /\ owed'[1] = w
    BY <1>2, <2>3, <2>4, Zenon
  <2> QED
    BY <2>2, <2>3, <2>5
<1>5. ASSUME WriteFails
      PROVE  /\ owed # <<>> /\ log' = log /\ awaiting' = awaiting /\ owed[1].sent
             /\ \/ owed' = Tail(owed) /\ owed[1].orphan
                \/ HeadStep(owed, owed') /\ ~owed'[1].sent /\ owed'[1].stale = {} /\ ~owed[1].orphan
  <2> USE <1>5
  <2>1. /\ owed # <<>> /\ owed[1].sent /\ log' = log /\ awaiting' = awaiting
        /\ owed[1].orphan \/ ~owed[1].orphan
    BY DEF WriteFails
  <2> USE <2>1
  <2>2. CASE owed[1].orphan
    BY <2>2 DEF WriteFails
  <2>3. CASE ~owed[1].orphan
    <3> DEFINE w == [owed[1] EXCEPT !.sent = FALSE, !.stale = {}]
    <3>1. owed' = [owed EXCEPT ![1] = w]
      BY <2>3 DEF WriteFails
    <3>2. owed[1].op = "set"
      BY DEF OwedOK
    <3>3. /\ w \in OwedSet /\ w.op = "set" /\ w.want = owed[1].want /\ w.orphan = owed[1].orphan
          /\ ~w.sent /\ w.stale = {}
      BY <3>2, Zenon DEF OwedSet
    <3> HIDE DEF w
    <3>4. HeadStep(owed, owed') /\ owed'[1] = w
      BY <1>2, <3>1, <3>2, <3>3, Zenon
    <3> QED
      BY <2>3, <3>3, <3>4
  <2> QED
    BY <2>2, <2>3
<1>6. ASSUME WriteDone
      PROVE  /\ owed # <<>> /\ log' = log /\ awaiting' = awaiting /\ owed' = Tail(owed)
             /\ owed[1].sent
  BY <1>6 DEF WriteDone
<1> QED
  BY <1>3, <1>4, <1>5, <1>6

\* runner.Start that launched.
Launch ==
    /\ rec.state = "launching"
    /\ marker' = [state |-> "identified", by |-> rec.run]
    /\ agents' = agents \cup {[run |-> rec.run, epoch |-> rec.epoch]}
    /\ launchedIn' = launchedIn \cup {rec.epoch}
    /\ rec' \in RecordSet /\ rec'.state = "running" /\ rec'.epoch = rec.epoch /\ rec'.run = rec.run
    /\ ~rec'.recovered
    /\ OwedMove(owed, owed', "running")
    /\ UNCHANGED <<log, base, published, launches, awaiting, queued, company, up, crashes, gestures>>

\* The requests of a label write, and the groups every other one reads.
WriteStep == ProjectLabel \/ RemoveStaleLabel \/ WriteFails \/ WriteDone
Reads == TypeOK /\ EpochOK /\ PinOK /\ AgentOK /\ OwedOK

\* What a step of the system does, seen from the invariant.
Step == \/ UNCHANGED vars
        \/ LogStep /\ (WriteStep \/ People)
        \/ AbandonBase \/ ReleaseClaim \/ RecoverStep
        \/ up /\ (Claim \/ Move \/ Launch)
        \/ Crash \/ Restart \/ AgentPublishes \/ AgentExits

\* The records a step may make.
LEMMA RecordsAre ==
    /\ NoRecord \in RecordSet /\ NoRecord.state = "none" /\ NoRecord.epoch = 0 /\ ~NoRecord.recovered
    /\ \A t \in States : Record(t, 0) \in RecordSet /\ Record(t, 0).state = t /\ Record(t, 0).epoch = 0
                         /\ ~Record(t, 0).recovered
    /\ {"verified", "unclassified"} \subseteq States
BY DEF NoRecord, Record, RecordSet, States

\* The type invariant.
LEMMA TypeStep ==
    ASSUME Reads, Step
    PROVE  TypeOK'
<1> USE DEF Reads
<1>0. /\ log \in Seq(EventSet) /\ queued \in BOOLEAN
      /\ company \in {"none", "earlier", "later", "unordered"}
      /\ base \in BaseSet
      /\ IF base.state = "pending" THEN base.outgoing < base.epoch ELSE base.outgoing = 0
      /\ marker \in MarkerSet
      /\ agents \subseteq [run : Nat, epoch : Nat] /\ published \in Nat
      /\ rec \in RecordSet /\ owed \in Seq(OwedSet)
      /\ up \in BOOLEAN /\ (up \/ (rec = NoRecord /\ owed = <<>>))
      /\ launches \in 0 .. MaxRuns /\ crashes \in 0 .. MaxCrashes /\ gestures \in 0 .. MaxGestures
      /\ launchedIn \subseteq Nat /\ awaiting \in BOOLEAN
  BY DEF TypeOK
<1> USE <1>0
<1>1. /\ MaxRuns \in Nat /\ MaxCrashes \in Nat /\ MaxGestures \in Nat
      /\ rec.epoch \in Nat /\ rec.run \in Nat /\ base.epoch \in Nat /\ base.outgoing \in Nat
      /\ rec = NoRecord => rec.state = "none"
  BY BoundsAssumption, RecordsAre DEF RecordSet, BaseSet
<1>2. CASE UNCHANGED vars
  BY <1>2 DEF vars, TypeOK
<1>3. CASE LogStep /\ WriteStep
  <2> USE <1>3
  <2>1. log' \in Seq(EventSet)
    BY AppendFacts DEF LogStep
  <2>2. owed # <<>> /\ owed' \in Seq(OwedSet) /\ awaiting' \in BOOLEAN
    <3>1. CASE ProjectLabel
      <4>1. HeadStep(owed, owed') /\ (awaiting' = awaiting \/ awaiting' = (awaiting \/ Parks(owed[1])))
        BY <3>1, WriteSteps
      <4>2. awaiting' \in BOOLEAN
        BY <4>1, Zenon
      <4> QED
        BY <4>1, <4>2 DEF HeadStep
    <3>2. CASE RemoveStaleLabel
      BY <3>2, WriteSteps DEF HeadStep
    <3>3. CASE WriteFails
      <4>1. /\ owed # <<>> /\ awaiting' = awaiting
            /\ owed' = Tail(owed) \/ HeadStep(owed, owed')
        BY <3>3, WriteSteps
      <4>2. Tail(owed) \in Seq(OwedSet)
        BY <4>1, TailFacts
      <4> QED
        BY <4>1, <4>2, Zenon DEF HeadStep
    <3>4. CASE WriteDone
      <4>1. owed # <<>> /\ awaiting' = awaiting /\ owed' = Tail(owed)
        BY <3>4, WriteSteps
      <4>2. Tail(owed) \in Seq(OwedSet)
        BY <4>1, TailFacts
      <4> QED
        BY <4>1, <4>2
    <3> QED
      BY <3>1, <3>2, <3>3, <3>4 DEF WriteStep
  <2>3. UNCHANGED <<queued, company, gestures>>
    BY DEF WriteStep, ProjectLabel, RemoveStaleLabel, WriteFails, WriteDone
  <2> QED
    BY <2>1, <2>2, <2>3 DEF LogStep, TypeOK
<1>4. CASE LogStep /\ People
  <2> USE <1>4
  <2>1. log' \in Seq(EventSet)
    BY AppendFacts DEF LogStep
  <2>2. /\ owed' = owed /\ awaiting' \in BOOLEAN /\ queued' \in BOOLEAN
        /\ company' \in {"none", "earlier", "later", "unordered"} /\ gestures' \in 0 .. MaxGestures
    <3>1. owed' = owed /\ gestures' \in 0 .. MaxGestures
      BY <1>1 DEF People, Unassign, Assign, CloseOrReopen, Relabel, Requeue, Join, Gesture
    <3> USE <3>1
    <3>2. CASE Unassign \/ Assign \/ CloseOrReopen
      BY <3>2, Zenon DEF Unassign, Assign, CloseOrReopen
    <3>3. CASE Relabel
      <4>1. /\ awaiting' = FALSE \/ \E l \in LabelsOf(log) : awaiting' = (awaiting /\ l # "needs-review")
            /\ UNCHANGED <<queued, company>>
        BY <3>3 DEF Relabel
      <4>2. awaiting' \in BOOLEAN
        BY <4>1, Zenon
      <4> QED
        BY <4>1, <4>2
    <3>4. CASE Requeue \/ Join
      BY <3>4, Zenon DEF Requeue, Join
    <3> QED
      BY <3>2, <3>3, <3>4 DEF People
  <2> QED
    BY <2>1, <2>2 DEF LogStep, TypeOK
<1>5. CASE AbandonBase
  <2>1. base' \in BaseSet /\ base'.state # "pending" /\ base'.outgoing = 0
          /\ owed # <<>> /\ owed' \in Seq(OwedSet)
    BY <1>1, <1>5, TailFacts, PinFacts DEF AbandonBase, AbandonPendingClaimBase, AbsentBase, BaseSet
  <2>2. UNCHANGED <<log, queued, company, marker, world, up, rec, crashes, gestures, awaiting>>
    BY <1>5 DEF AbandonBase
  <2> QED
    BY <2>1, <2>2 DEF world, TypeOK
<1>6. CASE ReleaseClaim
  <2>1. log' \in Seq(EventSet)
    <3>1. Event("unassigned", "ben") \in EventSet
      BY DEF Event, EventSet, Subjects
    <3>2. log' = Append(log, Event("unassigned", "ben")) \/ log' = log
      BY <1>6 DEF ReleaseClaim, Append1
    <3>3. log \in Seq(EventSet)
      BY DEF TypeOK
    <3> QED
      BY <3>1, <3>2, <3>3, AppendFacts
  <2>2. rec' = NoRecord /\ owed' = <<>> /\ owed' \in Seq(OwedSet) /\ awaiting' = FALSE
        /\ UNCHANGED <<queued, company, disk, world, up, crashes, gestures>>
    BY <1>6 DEF ReleaseClaim
  <2> QED
    BY <2>1, <2>2, RecordsAre, Zenon DEF disk, world, TypeOK
<1>7. CASE RecoverStep
  <2>1. up
    BY <1>1, <1>7 DEF RecoverStep
  <2> QED
    BY <1>7, <2>1 DEF RecoverStep, TypeOK
<1>8. CASE up /\ Claim
  <2> USE <1>8
  <2>1. log' \in Seq(EventSet)
    <3>1. Event("assigned", "ben") \in EventSet
      BY DEF Event, EventSet, Subjects
    <3> QED
      BY <3>1, AppendFacts DEF Claim, Append1
  <2>2. rec' \in RecordSet /\ UNCHANGED <<disk, world, owed, awaiting, queued, company, up, crashes, gestures>>
    BY RecordsAre DEF Claim, Still
  <2> QED
    BY <2>1, <2>2 DEF disk, world, TypeOK
<1>9. CASE up /\ Move
  <2> USE <1>9
  <2>1. IF base'.state = "pending" THEN base'.outgoing < base'.epoch ELSE base'.outgoing = 0
    <3>1. CASE base' = base
      BY <3>1
    <3>2. CASE base' = PinnedBase(rec.epoch)
      BY <1>1, <3>2, PinFacts
    <3>3. CASE base' # base /\ base' = BeginClaimBase(base, rec.epoch)
      <4>1. base' = PendingBase(rec.epoch, base.epoch) /\ base.epoch # rec.epoch
        BY <1>1, <3>3, BeginFacts
      <4>2. rec.epoch > 0 /\ base.epoch <= rec.epoch
        BY <3>3 DEF Move, EpochOK
      <4> QED
        BY <1>1, <4>1, <4>2 DEF PendingBase
    <3> QED
      BY <3>1, <3>2, <3>3 DEF Move
  <2>2. owed' \in Seq(OwedSet)
    BY DEF Move, OwedMove
  <2> QED
    BY <2>1, <2>2 DEF Move, TypeOK
<1>10. CASE up /\ Launch
  <2> USE <1>10
  <2>1. marker' \in MarkerSet /\ owed' \in Seq(OwedSet)
    BY <1>1 DEF Launch, MarkerSet, OwedMove
  <2>2. agents' \subseteq [run : Nat, epoch : Nat] /\ launchedIn' \subseteq Nat
    <3>1. [run |-> rec.run, epoch |-> rec.epoch] \in [run : Nat, epoch : Nat]
      BY <1>1
    <3>2. /\ agents' = agents \cup {[run |-> rec.run, epoch |-> rec.epoch]}
          /\ launchedIn' = launchedIn \cup {rec.epoch}
      BY DEF Launch
    <3> QED
      BY <1>1, <3>1, <3>2, Zenon
  <2> QED
    BY <1>1, <2>1, <2>2 DEF Launch, TypeOK
<1>11. CASE Crash
  <2>1. /\ up' = FALSE /\ crashes' \in 0 .. MaxCrashes /\ rec' = NoRecord /\ owed' = <<>>
        /\ UNCHANGED <<log, queued, company, disk, world, gestures, awaiting>> /\ owed' \in Seq(OwedSet)
    BY <1>1, <1>11 DEF Crash
  <2> QED
    BY <2>1, RecordsAre, Zenon DEF disk, world, TypeOK
<1>12. CASE Restart
  <2>1. /\ up' = TRUE /\ rec' \in RecordSet
        /\ UNCHANGED <<log, queued, company, disk, world, owed, crashes, gestures, awaiting>>
    BY <1>12, RecordsAre DEF Restart
  <2> QED
    BY <2>1 DEF disk, world, TypeOK
<1>13. CASE AgentPublishes
  BY <1>13 DEF AgentPublishes, disk, TypeOK
<1>14. CASE AgentExits
  BY <1>14 DEF AgentExits, disk, TypeOK
<1> QED
  BY <1>2, <1>3, <1>4, <1>5, <1>6, <1>7, <1>8, <1>9, <1>10, <1>11, <1>12, <1>13, <1>14 DEF Step

\* The types the other groups use.
LEMMA Typed ==
    ASSUME TypeOK
    PROVE  /\ log \in Seq(EventSet) /\ Len(log) \in Nat /\ DOMAIN log = 1 .. Len(log)
           /\ base \in BaseSet /\ base.epoch \in Nat /\ base.outgoing \in Nat
           /\ rec \in RecordSet /\ rec.epoch \in Nat /\ rec.run \in Nat /\ rec.recovered \in BOOLEAN
           /\ rec.state \in States
           /\ owed \in Seq(OwedSet) /\ \A i \in DOMAIN owed : i \in Nat /\ owed[i] \in OwedSet
           /\ Anchor \in Nat /\ Anchor <= Len(log) /\ (Assigned <=> Anchor > 0)
           /\ Assigned => Anchor \in DOMAIN log /\ log[Anchor].kind = "assigned"
           /\ published \in Nat /\ launchedIn \subseteq Nat
           /\ \A a \in agents : a.epoch \in Nat /\ a.run \in Nat
<1>1. log \in Seq(EventSet) /\ base \in BaseSet /\ rec \in RecordSet /\ owed \in Seq(OwedSet)
        /\ published \in Nat /\ launchedIn \subseteq Nat /\ agents \subseteq [run : Nat, epoch : Nat]
  BY DEF TypeOK
<1> USE <1>1
<1>2. Len(log) \in Nat /\ DOMAIN log = 1 .. Len(log)
  OBVIOUS
<1>3. \A i \in DOMAIN owed : i \in Nat /\ owed[i] \in OwedSet
  OBVIOUS
<1>4. /\ Anchor \in Nat /\ Anchor <= Len(log) /\ (Assigned <=> Anchor > 0)
      /\ Assigned => Anchor \in DOMAIN log /\ log[Anchor].kind = "assigned"
  BY AnchorFacts DEF Assigned, Anchor, Standing
<1>5. /\ base.epoch \in Nat /\ base.outgoing \in Nat
      /\ rec.epoch \in Nat /\ rec.run \in Nat /\ rec.recovered \in BOOLEAN /\ rec.state \in States
  BY DEF BaseSet, RecordSet
<1>6. \A a \in agents : a.epoch \in Nat /\ a.run \in Nat
  OBVIOUS
<1> QED
  BY <1>2, <1>3, <1>4, <1>5, <1>6

\* What one more event does to the log that people and writes share.
LEMMA LogStepFacts ==
    ASSUME TypeOK, LogStep
    PROVE  /\ Len(log') \in Nat /\ Len(log) <= Len(log') /\ Anchor' \in Nat /\ Anchor' <= Len(log')
           /\ \A x \in Nat : x <= Len(log) =>
                 /\ TakenAfter(log, x) => TakenAfter(log, x)'
                 /\ LabeledAfter(log, x) => LabeledAfter(log, x)'
                 /\ ReviewTakenOff(log, x) => ReviewTakenOff(log, x)'
                 /\ Own(log, x)' <=> Own(log, x)
                 /\ Clean(log, x) => Clean(log, x)'
           /\ \/ Anchor' = Anchor
              \/ Anchor' = 0 /\ Assigned /\ \A x \in Nat : x <= Len(log) => TakenAfter(log, x)'
              \/ Anchor = 0 /\ Anchor' = Len(log) + 1 /\ ~Own(log, Anchor)'
<1>0. log \in Seq(EventSet) /\ Len(log) \in Nat /\ Anchor \in Nat /\ (Assigned <=> Anchor > 0)
        /\ Anchor <= Len(log)
  BY Typed
<1> USE <1>0
<1>1. CASE log' = log
  <2>1. Anchor' = Anchor
    BY <1>1 DEF Anchor
  <2> QED
    BY <1>1, <2>1 DEF TakenAfter, LabeledAfter, ReviewTakenOff, Own, Clean
<1>2. CASE log' # log
  <2>1. PICK e \in EventSet :
             /\ log' = Append(log, e)
             /\ e.kind = "unassigned" => e = Event("unassigned", "person")
             /\ e.kind = "assigned" => e = Event("assigned", "person") /\ ~Assigned
    BY <1>2 DEF LogStep
  <2> USE <2>1
  <2>2. /\ e.kind = "assigned" => Anchor' = Len(log) + 1
        /\ e.kind = "unassigned" => Anchor' = 0
        /\ e.kind \notin {"assigned", "unassigned"} => Anchor' = Anchor
    BY AnchorGrows DEF Anchor
  <2>3. \A x \in Nat : x <= Len(log) =>
                 /\ TakenAfter(log, x) => TakenAfter(log', x)
                 /\ LabeledAfter(log, x) => LabeledAfter(log', x)
                 /\ ReviewTakenOff(log, x) => ReviewTakenOff(log', x)
                 /\ Own(log', x) <=> Own(log, x)
                 /\ Clean(log, x) => Clean(log', x)
                 /\ e.kind = "unassigned" => TakenAfter(log', x)
    BY LogKeeps, LogShows, CleanKeeps
  <2>4. log' \in Seq(EventSet) /\ Len(log') = Len(log) + 1 /\ log'[Len(log) + 1] = e
    BY AppendFacts
  <2>5. e.kind = "assigned" => ~Own(log', Len(log) + 1)
    BY <2>4 DEF Own, Event
  <2>6. e.kind = "unassigned" /\ ~Assigned => Anchor' = Anchor
    BY <2>2
  <2> QED
    BY <2>2, <2>3, <2>4, <2>5, <2>6
<1> QED
  BY <1>1, <1>2

\* Epochs: whoever works for one that is not the standing assignment's works
\* for one a person took away.
LEMMA EpochStep ==
    ASSUME Reads, TypeOK', Step
    PROVE  EpochOK'
<1> USE DEF Reads
<1>0. /\ rec.epoch \in Nat /\ base.epoch \in Nat /\ base.outgoing \in Nat /\ Anchor \in Nat
      /\ Len(log) \in Nat /\ Anchor <= Len(log) /\ (Assigned <=> Anchor > 0) /\ log \in Seq(EventSet)
      /\ rec.recovered \in BOOLEAN /\ published \in Nat /\ launchedIn \subseteq Nat
  BY Typed
<1> USE <1>0
<1>1. CASE UNCHANGED vars
  BY <1>1 DEF vars, EpochOK, Anchor, Assigned, TakenAfter
<1>2. CASE LogStep
  <2>1. /\ UNCHANGED <<rec, base, agents, published, launchedIn>>
        /\ Len(log') \in Nat /\ Len(log) <= Len(log') /\ Anchor' \in Nat
        /\ \A x \in Nat : x <= Len(log) /\ TakenAfter(log, x) => TakenAfter(log, x)'
        /\ \/ Anchor' = Anchor
           \/ Anchor' = 0 /\ \A x \in Nat : x <= Len(log) => TakenAfter(log, x)'
           \/ Anchor = 0 /\ Anchor' = Len(log) + 1
        /\ (Assigned' <=> Anchor' > 0)
    BY <1>2, LogStepFacts DEF LogStep, Assigned
  <2> USE <2>1
  <2>2. rec.epoch > 0 /\ rec.epoch # Anchor' => TakenAfter(log, rec.epoch)'
    BY DEF EpochOK
  <2>3. Assigned' => rec.epoch <= Anchor' /\ base.epoch <= Anchor'
    BY DEF EpochOK
  <2>4. /\ rec.epoch <= Len(log') /\ base.epoch <= Len(log')
        /\ \A e \in launchedIn : e > 0 /\ e <= Len(log')
    BY DEF EpochOK
  <2>5. TakenAfter(log', rec'.epoch) <=> TakenAfter(log, rec.epoch)'
    OBVIOUS
  <2> QED
    BY <2>2, <2>3, <2>4, <2>5 DEF EpochOK
<1>3. CASE AbandonBase
  <2>1. UNCHANGED <<log, rec, agents, published, launchedIn>> /\ base' = AbandonPendingClaimBase(base)
    BY <1>3 DEF AbandonBase, world
  <2> USE <2>1
  <2>2. base'.epoch \in Nat /\ base'.epoch <= base.epoch
    BY PinFacts DEF AbandonPendingClaimBase, TypeOK, AbsentBase
  <2>3. Anchor' = Anchor /\ (Assigned' <=> Assigned)
    BY DEF Anchor, Assigned
  <2> QED
    BY <2>2, <2>3 DEF EpochOK, TakenAfter
<1>4. CASE ReleaseClaim
  <2> USE <1>4
  <2>1. UNCHANGED <<base, agents, published, launchedIn>> /\ rec' = NoRecord
    BY DEF ReleaseClaim, disk, world
  <2>2. /\ Len(log') \in Nat /\ Len(log) <= Len(log') /\ ~Assigned'
    <3>1. CASE ~Assigned
      BY <3>1 DEF ReleaseClaim, Assigned, Anchor
    <3>2. CASE Assigned
      <4>1. log' = Append(log, Event("unassigned", "ben")) /\ Event("unassigned", "ben") \in EventSet
              /\ Event("unassigned", "ben").kind = "unassigned"
        BY <3>2 DEF ReleaseClaim, Append1, Event, EventSet, Subjects
      <4>2. Anchor' = 0
        BY <4>1, AnchorGrows DEF Anchor
      <4>3. Len(log') = Len(log) + 1
        BY <4>1, AppendFacts
      <4> QED
        BY <4>2, <4>3 DEF Assigned
    <3> QED
      BY <3>1, <3>2
  <2> QED
    BY <2>1, <2>2, RecordsAre DEF EpochOK
<1>5. CASE RecoverStep
  <2>1. UNCHANGED <<log, base, agents, published, launchedIn>>
    BY <1>5 DEF RecoverStep
  <2>2. Anchor' = Anchor /\ (Assigned' <=> Assigned)
    BY <2>1 DEF Anchor, Assigned
  <2>3. \/ rec' = NoRecord
        \/ Assigned /\ rec'.epoch = Anchor
           /\ rec'.state \in {"unclassified", "verified", "backoff", "parked", "done", "releasing"}
    BY <1>5 DEF RecoverStep, StateFor
  <2> QED
    BY <2>1, <2>2, <2>3, RecordsAre DEF EpochOK
<1>6. CASE up /\ Claim
  <2>1. /\ log' = Append(log, Event("assigned", "ben")) /\ Event("assigned", "ben") \in EventSet
        /\ Event("assigned", "ben").kind = "assigned" /\ UNCHANGED <<base, agents, published, launchedIn>>
        /\ rec' = Record("verified", 0) /\ "verified" \in States
    BY <1>6 DEF Claim, Append1, Event, EventSet, Subjects, disk, world, States
  <2>2. Anchor' = Len(log) + 1 /\ Len(log') = Len(log) + 1
    BY <2>1, AnchorGrows, AppendFacts DEF Anchor
  <2> QED
    BY <2>1, <2>2, RecordsAre DEF EpochOK
<1>7. CASE up /\ Move
  <2> USE <1>7
  <2>1. UNCHANGED <<log, published, launchedIn>> /\ agents' \subseteq agents
    BY DEF Move
  <2> USE <2>1
  <2>2. Anchor' = Anchor /\ (Assigned' <=> Assigned)
    BY DEF Anchor, Assigned
  <2>3. /\ base' = base \/ (base'.epoch = rec.epoch /\ rec'.epoch = rec.epoch /\ rec.epoch > 0)
        /\ rec'.epoch = rec.epoch \/ rec' = NoRecord \/ (Assigned /\ rec'.epoch = Anchor)
    BY DEF Move, EpochOK
  <2>4. /\ rec'.state \in Working => rec'.epoch > 0
        /\ rec'.state # "running" /\ (rec'.state = "verifying" => rec.state = "running")
        /\ rec'.recovered => rec.recovered
    BY ZenonT(30) DEF Move
  <2>5. rec'.recovered => rec'.epoch > 0 /\ rec'.state \notin {"running", "verifying"}
    BY <2>3, <2>4, RecordsAre DEF EpochOK
  <2>6. TakenAfter(log', rec'.epoch) <=> TakenAfter(log, rec'.epoch)
    OBVIOUS
  <2>7. /\ rec'.epoch <= Len(log') /\ base'.epoch <= Len(log')
        /\ rec'.epoch > 0 /\ rec'.epoch # Anchor' => TakenAfter(log', rec'.epoch)
        /\ Assigned' => rec'.epoch <= Anchor' /\ base'.epoch <= Anchor'
        /\ rec'.epoch > 0 => base'.epoch <= rec'.epoch
    BY <2>2, <2>3, <2>6, RecordsAre DEF EpochOK
  <2> QED
    BY <2>4, <2>5, <2>7 DEF EpochOK, Working
<1>8. CASE up /\ Launch
  <2>1. UNCHANGED <<log, base, published>> /\ Anchor' = Anchor /\ (Assigned' <=> Assigned) /\ rec'.epoch = rec.epoch
    BY <1>8 DEF Launch, Anchor, Assigned
  <2>2. rec.epoch > 0 /\ launchedIn' = launchedIn \cup {rec.epoch}
          /\ agents' = agents \cup {[run |-> rec.run, epoch |-> rec.epoch]} /\ ~rec'.recovered
    BY <1>8 DEF Launch, EpochOK
  <2>3. TakenAfter(log', rec'.epoch) <=> TakenAfter(log, rec.epoch)
    BY <2>1
  <2> QED
    BY <2>1, <2>2, <2>3 DEF EpochOK
<1>9. CASE Crash \/ Restart
  <2>1. UNCHANGED <<log, base, agents, published, launchedIn>> /\ Anchor' = Anchor /\ (Assigned' <=> Assigned)
    BY <1>9 DEF Crash, Restart, disk, world, Anchor, Assigned
  <2>2. rec' \in {NoRecord, Record("unclassified", 0)}
    BY <1>9 DEF Crash, Restart
  <2> QED
    BY <2>1, <2>2, RecordsAre DEF EpochOK
<1>10. CASE AgentPublishes \/ AgentExits
  <2>1. /\ UNCHANGED <<log, base, launchedIn, rec>> /\ agents' \subseteq agents
        /\ Anchor' = Anchor /\ (Assigned' <=> Assigned)
        /\ published' = published \/ \E a \in agents : published' = a.epoch
    BY <1>10 DEF AgentPublishes, AgentExits, disk, Anchor, Assigned
  <2>2. TakenAfter(log', rec'.epoch) <=> TakenAfter(log, rec.epoch)
    BY <2>1
  <2> QED
    BY <2>1, <2>2 DEF EpochOK
<1> QED
  BY <1>1, <1>2, <1>3, <1>4, <1>5, <1>6, <1>7, <1>8, <1>9, <1>10 DEF Step

\* How the anchor moves.
LEMMA AnchorSteps ==
    ASSUME Reads, TypeOK', Step
    PROVE  /\ \/ Anchor' = Anchor
              \/ Anchor' = 0
              \/ Anchor = 0 /\ Anchor' = Len(log) + 1
           /\ \A x \in Nat : x <= Len(log) /\ TakenAfter(log, x) => TakenAfter(log, x)'
           /\ LogStep \/ ReleaseClaim \/ Claim \/ log' = log
<1> USE DEF Reads
<1>0. log \in Seq(EventSet) /\ Anchor \in Nat /\ (Assigned <=> Anchor > 0)
  BY Typed
<1>1. CASE LogStep
  <2>1. /\ Anchor' = Anchor \/ Anchor' = 0 \/ (Anchor = 0 /\ Anchor' = Len(log) + 1)
        /\ \A x \in Nat : x <= Len(log) /\ TakenAfter(log, x) => TakenAfter(log, x)'
    BY <1>1, LogStepFacts
  <2> QED
    BY <1>1, <2>1
<1>2. CASE log' = log
  BY <1>2 DEF Anchor, TakenAfter
<1>3. CASE ReleaseClaim /\ log' # log
  <2>1. log' = Append(log, Event("unassigned", "ben")) /\ Event("unassigned", "ben") \in EventSet
          /\ Event("unassigned", "ben").kind = "unassigned"
    BY <1>3 DEF ReleaseClaim, Append1, Event, EventSet, Subjects
  <2> QED
    BY <1>0, <1>3, <2>1, AnchorGrows, LogKeeps DEF Anchor
<1>4. CASE Claim
  <2>1. log' = Append(log, Event("assigned", "ben")) /\ Event("assigned", "ben") \in EventSet
          /\ Event("assigned", "ben").kind = "assigned" /\ ~Assigned
    BY <1>4 DEF Claim, Append1, Event, EventSet, Subjects
  <2> QED
    BY <1>0, <1>4, <2>1, AnchorGrows, LogKeeps DEF Anchor
<1>5. LogStep \/ ReleaseClaim \/ Claim \/ log' = log
  BY ZenonT(30) DEF Step, vars, AbandonBase, RecoverStep, Move, Launch, Crash, Restart, AgentPublishes, AgentExits
<1> QED
  BY <1>1, <1>2, <1>3, <1>4, <1>5

\* The base stays pinned for an epoch an agent was launched in.
LEMMA PinStep ==
    ASSUME Reads, TypeOK', Step
    PROVE  PinOK'
<1> USE DEF Reads
<1>0. /\ rec.epoch \in Nat /\ base.epoch \in Nat /\ Anchor \in Nat /\ base \in BaseSet
      /\ Len(log) \in Nat /\ Anchor <= Len(log) /\ (Assigned <=> Anchor > 0)
  BY Typed
<1>1. Anchor' = Anchor \/ Anchor' \notin launchedIn
  BY <1>0, AnchorSteps DEF EpochOK
<1>2. /\ rec.state \in {"starting", "launching", "running"} => base = PinnedBase(rec.epoch)
      /\ Anchor \in launchedIn => base = PinnedBase(Anchor)
  BY DEF PinOK
<1> USE <1>2
<1>3. CASE rec' = rec /\ base' = base /\ launchedIn' = launchedIn
  BY <1>1, <1>3 DEF PinOK
<1>4. CASE rec'.state \notin {"starting", "launching", "running"} /\ base' = base /\ launchedIn' = launchedIn
  BY <1>1, <1>4 DEF PinOK
<1>5. CASE AbandonBase
  <2>1. UNCHANGED <<rec, launchedIn>> /\ base' = AbandonPendingClaimBase(base)
    BY <1>5 DEF AbandonBase, world
  <2>2. base.state = "pinned" => base' = base
    BY <2>1 DEF AbandonPendingClaimBase, TypeOK
  <2>3. \A e \in Nat : base = PinnedBase(e) => base' = base
    BY <2>2, PinFacts
  <2> QED
    BY <1>0, <1>1, <2>1, <2>3 DEF PinOK
<1>6. CASE up /\ Move
  <2>1. /\ launchedIn' = launchedIn /\ Anchor' = Anchor
        /\ rec'.state \in {"starting", "launching"} => rec'.epoch = rec.epoch /\ base' = PinnedBase(rec.epoch)
        /\ rec'.state # "running"
    BY <1>6 DEF Move, Anchor
  <2>2. ASSUME Anchor \in launchedIn, base' # base
        PROVE  FALSE
    <3> USE <2>2
    <3>1. base = PinnedBase(Anchor) /\ base.epoch = Anchor /\ Anchor > 0
      BY <1>0, PinFacts DEF EpochOK
    <3>2. rec.epoch > 0 /\ (base' = BeginClaimBase(base, rec.epoch) \/ base' = PinnedBase(rec.epoch))
      BY <1>6, ZenonT(30) DEF Move, EpochOK
    <3>3. rec.epoch = Anchor
      BY <1>0, <3>1, <3>2 DEF EpochOK
    <3> QED
      BY <1>0, <3>1, <3>2, <3>3, BeginFacts
  <2> QED
    BY <2>1, <2>2 DEF PinOK
<1>7. CASE up /\ Launch
  <2>1. /\ base = PinnedBase(rec.epoch) /\ base' = base /\ rec'.epoch = rec.epoch /\ Anchor' = Anchor
        /\ launchedIn' = launchedIn \cup {rec.epoch}
    BY <1>7 DEF Launch, Anchor
  <2> QED
    BY <2>1 DEF PinOK
<1>8. CASE RecoverStep
  <2>1. base' = base /\ launchedIn' = launchedIn /\ rec'.state \notin {"starting", "launching", "running"}
    BY <1>8, RecordsAre DEF RecoverStep, StateFor
  <2> QED
    BY <1>4, <2>1
<1>9. CASE ReleaseClaim \/ Claim \/ Crash \/ Restart
  <2>1. rec' \in {NoRecord, Record("verified", 0), Record("unclassified", 0)}
    BY <1>9 DEF ReleaseClaim, Claim, Crash, Restart
  <2>2. base' = base /\ launchedIn' = launchedIn
    BY <1>9 DEF ReleaseClaim, Claim, Crash, Restart, disk, world
  <2> QED
    BY <1>4, <2>1, <2>2, RecordsAre
<1>10. CASE UNCHANGED vars \/ LogStep \/ AgentPublishes \/ AgentExits
  BY <1>3, <1>10 DEF vars, LogStep, AgentPublishes, AgentExits, disk
<1> QED
  BY <1>5, <1>6, <1>7, <1>8, <1>9, <1>10 DEF Step

\* An agent that works for the standing epoch, or for the record's, is the one
\* its marker names, and no record but the one that watches it has it.
LEMMA AgentStep ==
    ASSUME Reads, TypeOK', Step
    PROVE  AgentOK'
<1> USE DEF Reads
<1>0. /\ rec.epoch \in Nat /\ base.epoch \in Nat /\ Anchor \in Nat /\ base \in BaseSet
      /\ Len(log) \in Nat /\ Anchor <= Len(log) /\ (Assigned <=> Anchor > 0)
      /\ \A a \in agents : a.epoch \in Nat /\ a.run \in Nat
  BY Typed
<1>1. /\ Anchor' = Anchor \/ Anchor' = 0 \/ (Anchor = 0 /\ Anchor' = Len(log) + 1)
      /\ \A x \in Nat : x <= Len(log) /\ TakenAfter(log, x) => TakenAfter(log, x)'
  BY AnchorSteps
<1>2. \A a \in agents : a.epoch > 0 /\ a.epoch <= Len(log)
  BY DEF EpochOK
<1>3. \A a \in agents : a.epoch = Anchor' => Anchor' = Anchor
  BY <1>0, <1>1, <1>2
<1>4. \A a \in agents : a.epoch # Anchor => TakenAfter(log, a.epoch)'
  BY <1>0, <1>1, <1>2 DEF AgentOK
<1>5. NoRecord.epoch = 0 /\ NoRecord.state = "none"
  BY RecordsAre
<1>6. CASE LogStep
  <2>1. UNCHANGED <<rec, base, marker, agents>>
    BY <1>6 DEF LogStep
  <2>2. \A a \in agents : a.epoch # Anchor' => TakenAfter(log, a.epoch)'
    <3>1. \/ Anchor' = Anchor \/ \A x \in Nat : x <= Len(log) => TakenAfter(log, x)'
          \/ Anchor = 0
      BY <1>6, LogStepFacts
    <3> QED
      BY <1>0, <1>2, <1>4, <3>1
  <2> QED
    BY <1>3, <2>1, <2>2 DEF AgentOK
<1>7. CASE AbandonBase
  <2>1. UNCHANGED <<rec, log, marker, agents>> /\ base' = AbandonPendingClaimBase(base) /\ Anchor' = Anchor
    BY <1>7 DEF AbandonBase, world, Anchor
  <2> USE <2>1
  <2>2. base.state = "pinned" => base' = base
    BY DEF AbandonPendingClaimBase, TypeOK
  <2>3. \A a \in agents : base = PinnedBase(a.epoch) => base' = base
    BY <1>0, <2>2, PinFacts
  <2>4. \A a \in agents : TakenAfter(log', a.epoch) <=> TakenAfter(log, a.epoch)
    OBVIOUS
  <2> QED
    BY <2>3, <2>4 DEF AgentOK
<1>8. CASE ReleaseClaim
  <2>1. rec.state \in {"releasing", "failed"}
    <3>1. owed # <<>> /\ Head(owed).op = "release"
      BY <1>8 DEF ReleaseClaim
    <3>2. 1 \in DOMAIN owed /\ owed[1].op = "release"
      BY <3>1, TailFacts, Typed
    <3> QED
      BY <3>2 DEF OwedOK
  <2>2. agents' = agents /\ rec' = NoRecord
    BY <1>8 DEF ReleaseClaim, world
  <2>3. \A a \in agents : a.epoch # Anchor
    BY <2>1 DEF AgentOK
  <2> QED
    BY <1>0, <1>2, <1>3, <1>4, <1>5, <2>2, <2>3 DEF AgentOK
<1>9. CASE RecoverStep
  <2> USE <1>9
  <2>1. UNCHANGED <<log, base, agents>> /\ Anchor' = Anchor
    BY ZenonT(30) DEF RecoverStep, Anchor
  <2>2. CASE ~Assigned
    <3>1. rec' = NoRecord
      BY <2>2, ZenonT(30) DEF RecoverStep
    <3> QED
      BY <1>0, <1>2, <1>4, <1>5, <2>1, <2>2, <3>1 DEF AgentOK
  <2>3. CASE Assigned
    <3>1. rec'.epoch = Anchor
      BY <2>3, ZenonT(30) DEF RecoverStep
    <3>2. \A a \in agents : a.epoch = Anchor => marker' = marker /\ rec'.state = "unclassified"
      BY <2>3 DEF RecoverStep, Justified, StateFor
    <3>3. \A a \in agents : a.epoch = Anchor =>
             base = PinnedBase(a.epoch) /\ marker = [state |-> "identified", by |-> a.run]
      BY DEF AgentOK
    <3> QED
      BY <1>4, <2>1, <3>1, <3>2, <3>3 DEF AgentOK
  <2> QED
    BY <2>2, <2>3
<1>10. CASE up /\ Claim
  <2>1. agents' = agents /\ rec'.epoch = 0 /\ Anchor = 0
    BY <1>0, <1>10, RecordsAre DEF Claim, world
  <2>2. Anchor' = Anchor \/ Anchor' = Len(log) + 1
    BY <1>1, <2>1
  <2> QED
    BY <1>0, <1>2, <1>4, <2>1, <2>2 DEF AgentOK
<1>11. CASE up /\ Move
  <2>1. \A a \in agents' : a \in agents /\ a.epoch # Anchor /\ a.epoch # rec.epoch
    BY <1>11, ZenonT(30) DEF Move, AgentOK
  <2>2. Anchor' = Anchor /\ (rec'.epoch = rec.epoch \/ rec' = NoRecord \/ rec'.epoch = Anchor)
    BY <1>11, ZenonT(30) DEF Move, Anchor
  <2> QED
    BY <1>0, <1>2, <1>4, <1>5, <2>1, <2>2 DEF AgentOK
<1>12. CASE up /\ Launch
  <2>1. /\ Anchor' = Anchor /\ log' = log /\ rec'.epoch = rec.epoch /\ rec'.run = rec.run /\ rec'.state = "running"
        /\ base' = base /\ marker' = [state |-> "identified", by |-> rec.run]
        /\ agents' = agents \cup {[run |-> rec.run, epoch |-> rec.epoch]} /\ rec.state = "launching"
    BY <1>12, ZenonT(30) DEF Launch, Anchor
  <2> USE <2>1
  <2>2. base = PinnedBase(rec.epoch) /\ rec.epoch > 0 /\ (rec.epoch # Anchor => TakenAfter(log, rec.epoch))
    BY ZenonT(30) DEF PinOK, EpochOK
  <2>3. \A a \in agents : a.epoch # Anchor /\ a.epoch # rec.epoch
    BY DEF AgentOK
  <2>4. TakenAfter(log', rec.epoch) <=> TakenAfter(log, rec.epoch)
    OBVIOUS
  <2>5. ASSUME NEW a \in agents'
        PROVE  /\ a.epoch = Anchor' \/ TakenAfter(log', a.epoch)
               /\ a.epoch = Anchor' \/ a.epoch = rec'.epoch =>
                    /\ base' = PinnedBase(a.epoch) /\ marker' = [state |-> "identified", by |-> a.run]
                    /\ rec'.state = "running" /\ rec'.run = a.run /\ rec'.epoch = a.epoch
    <3>1. CASE a \in agents
      BY <1>4, <2>3, <3>1, ZenonT(30)
    <3>2. CASE a = [run |-> rec.run, epoch |-> rec.epoch]
      BY <2>2, <2>4, <3>2
    <3> QED
      BY <3>1, <3>2
  <2> QED
    BY <2>5, ZenonT(30) DEF AgentOK
<1>13. CASE Crash \/ Restart
  <2>1. /\ UNCHANGED <<log, base, marker, agents>> /\ Anchor' = Anchor
        /\ rec' \in {NoRecord, Record("unclassified", 0)}
    BY <1>13 DEF Crash, Restart, disk, world, Anchor
  <2>2. rec'.epoch = 0 /\ rec'.state \in {"none", "unclassified"}
    BY <2>1, RecordsAre
  <2> QED
    BY <1>0, <1>2, <1>4, <2>1, <2>2 DEF AgentOK
<1>14. CASE UNCHANGED vars \/ AgentPublishes \/ AgentExits
  <2>1. UNCHANGED <<log, base, marker, rec>> /\ Anchor' = Anchor /\ agents' \subseteq agents
    BY <1>14 DEF vars, AgentPublishes, AgentExits, disk, Anchor
  <2> QED
    BY <1>4, <2>1 DEF AgentOK
<1> QED
  BY <1>6, <1>7, <1>8, <1>9, <1>10, <1>11, <1>12, <1>13, <1>14 DEF Step
=============================================================================
