-------------------------- MODULE ClaimLifeProofs --------------------------
(***************************************************************************)
(* The safety properties of ClaimLife, for any number of crashes, launches, *)
(* label writes and gestures of people.                                     *)
(*                                                                          *)
(* Each action is shown to be a Step of ClaimLifeKeeps: a turn of the       *)
(* pipeline is a Move, the restart's re-classification a RecoverStep whose  *)
(* verdict its evidence justifies, and a write or a gesture a LogStep. With *)
(* the lemmas of ClaimLifeKeeps and ClaimLifeEvidence, Inv is inductive; the *)
(* properties follow.                                                       *)
(***************************************************************************)
EXTENDS ClaimLifeEvidence

USE SMTT(30), ZenonT(30)

-----------------------------------------------------------------------------
(* A turn of the loop.                                                      *)

\* A turn that owes nothing new.
LEMMA OwedSame ==
    ASSUME NEW o \in Seq(OwedSet), NEW t, t \notin {"claimed", "parked"}
    PROVE  OwedMove(o, o, t)
BY DEF OwedMove

\* One that owes one effect more.
LEMMA OwedOne ==
    ASSUME NEW o \in Seq(OwedSet), NEW t, NEW w, Fresh(w, t),
           t \in {"claimed", "parked"} => w.op = "set" /\ w.want # "none"
    PROVE  OwedMove(o, Append(o, w), t)
<1>1. w \in OwedSet
  BY DEF Fresh
<1> DEFINE q == Append(o, w)
<1>2. /\ q \in Seq(OwedSet) /\ Len(o) \in Nat /\ Len(q) = Len(o) + 1 /\ DOMAIN o = 1 .. Len(o)
      /\ DOMAIN q = 1 .. Len(o) + 1 /\ q[Len(o) + 1] = w /\ \A i \in 1 .. Len(o) : q[i] = o[i]
  BY <1>1
<1> HIDE DEF q
<1>3. \A i \in DOMAIN q : i > Len(o) => q[i] = w
  BY <1>2
<1> QED
  BY <1>2, <1>3 DEF OwedMove, q

\* One that owes several.
LEMMA OwedMany ==
    ASSUME NEW o \in Seq(OwedSet), NEW t, NEW p \in Seq(OwedSet),
           \A i \in DOMAIN p : Fresh(p[i], t), t \notin {"claimed", "parked"}
    PROVE  OwedMove(o, o \o p, t)
<1> DEFINE q == o \o p
<1>2. /\ q \in Seq(OwedSet) /\ Len(o) \in Nat /\ Len(p) \in Nat /\ Len(q) = Len(o) + Len(p)
      /\ DOMAIN o = 1 .. Len(o) /\ DOMAIN q = 1 .. Len(o) + Len(p) /\ DOMAIN p = 1 .. Len(p)
      /\ \A i \in 1 .. Len(o) : q[i] = o[i]
      /\ \A i \in 1 .. Len(o) + Len(p) : i > Len(o) => q[i] = p[i - Len(o)]
  OBVIOUS
<1> HIDE DEF q
<1>3. \A i \in DOMAIN q : i > Len(o) => Fresh(q[i], t)
  <2> SUFFICES ASSUME NEW i \in DOMAIN q, i > Len(o) PROVE Fresh(q[i], t)
    OBVIOUS
  <2>1. i - Len(o) \in DOMAIN p /\ q[i] = p[i - Len(o)]
    BY <1>2
  <2> QED
    BY <2>1
<1> QED
  BY <1>2, <1>3 DEF OwedMove, q

\* The effects the code owes, as records.
LEMMA OwesAre ==
    /\ \A x \in KnownLabels \cup {"none"} : \A t :
          (x = NeedsReview <=> t = "parked") /\ t \notin {"releasing", "dropping", "none", "held"}
             => Fresh(SetLabel(x), t) /\ SetLabel(x).op = "set" /\ SetLabel(x).want = x
    /\ \A t : Fresh(Owe("abandon", "none"), t)
    /\ \A t \in {"releasing", "failed"} : Fresh(Owe("release", "none"), t)
BY DEF SetLabel, Owe, Fresh, OwedSet, KnownLabels, NeedsReview

\* What a release owes: the base to abandon, then the assignment to give up.
LEMMA ReleaseOwedMove ==
    ASSUME NEW o \in Seq(OwedSet)
    PROVE  OwedMove(o, o \o ReleaseOwed, "releasing")
<1>1. ReleaseOwed \in Seq(OwedSet) /\ \A i \in DOMAIN ReleaseOwed : Fresh(ReleaseOwed[i], "releasing")
  <2> DEFINE a == Owe("abandon", "none")  r == Owe("release", "none")
  <2>1. Fresh(a, "releasing") /\ Fresh(r, "releasing") /\ ReleaseOwed = <<a, r>>
    BY OwesAre DEF ReleaseOwed
  <2> HIDE DEF a, r
  <2>2. a \in OwedSet /\ r \in OwedSet
    BY <2>1 DEF Fresh
  <2> QED
    BY <2>1, <2>2
<1> QED
  BY <1>1, OwedMany

\* What a terminal failure owes: its label first.
LEMMA FailedOwedMove ==
    ASSUME NEW o \in Seq(OwedSet)
    PROVE  OwedMove(o, o \o <<SetLabel("failed")>> \o ReleaseOwed, "failed")
<1> DEFINE f == SetLabel("failed")  a == Owe("abandon", "none")  r == Owe("release", "none")
<1>1. Fresh(f, "failed") /\ Fresh(a, "failed") /\ Fresh(r, "failed") /\ ReleaseOwed = <<a, r>>
  BY OwesAre DEF ReleaseOwed, KnownLabels, NeedsReview
<1> USE <1>1
<1> HIDE DEF f, a, r
<1>2. f \in OwedSet /\ a \in OwedSet /\ r \in OwedSet
  BY DEF Fresh
<1> DEFINE p == <<f, a, r>>
<1>3. p \in Seq(OwedSet) /\ \A i \in DOMAIN p : Fresh(p[i], "failed")
  BY <1>2
<1>4. o \o <<f>> \o <<a, r>> = o \o p
  BY <1>2
<1> HIDE DEF p
<1> QED
  BY <1>3, <1>4, OwedMany, Zenon DEF f

Types == TypeOK /\ EpochOK /\ PinOK /\ OwedOK

\* A record in another state keeps its epoch and its origin.
LEMMA RecFields ==
    ASSUME rec \in RecordSet
    PROVE  /\ \A t \in States : [rec EXCEPT !.state = t] \in RecordSet
           /\ \A t \in States : [rec EXCEPT !.state = t].state = t
           /\ \A t \in States : [rec EXCEPT !.state = t].epoch = rec.epoch
           /\ \A t \in States : [rec EXCEPT !.state = t].recovered = rec.recovered
BY DEF RecordSet

\* transition: the label owed is the one of the state entered.
LEMMA EnteringMoves ==
    ASSUME rec \in RecordSet, owed \in Seq(OwedSet),
           NEW t \in {"claimed", "preparing", "backoff", "parked", "verifying", "done"},
           Entering(t), rec.state # t
    PROVE  /\ rec' \in RecordSet /\ rec'.state = t /\ rec'.epoch = rec.epoch
           /\ rec'.recovered = rec.recovered
           /\ (t = "claimed" => StateLabel(rec.state) = "none") => OwedMove(owed, owed', t)
<1>0. t \in States
  BY DEF States
<1>1. rec' = [rec EXCEPT !.state = t]
  BY DEF Entering
<1>2. StateLabel(t) \in KnownLabels \cup {"none"} /\ (StateLabel(t) = NeedsReview <=> t = "parked")
  BY DEF StateLabel, KnownLabels, NeedsReview
<1>3. t = "parked" => StateLabel(rec.state) # StateLabel(t)
  BY DEF StateLabel, NeedsReview
<1>4. t = "claimed" /\ StateLabel(rec.state) = "none" => StateLabel(rec.state) # StateLabel(t)
  BY DEF StateLabel
<1>5. t \in {"claimed", "parked"} => StateLabel(t) # "none"
  BY DEF StateLabel
<1>6. ASSUME t = "claimed" => StateLabel(rec.state) = "none"
      PROVE  OwedMove(owed, owed', t)
  <2>1. CASE owed' = owed /\ StateLabel(t) = StateLabel(rec.state)
    BY <1>3, <1>4, <1>6, <2>1, OwedSame
  <2>2. CASE owed' = Append(owed, SetLabel(StateLabel(t)))
    BY <1>2, <1>5, <2>2, OwesAre, OwedOne, Zenon
  <2> QED
    BY <2>1, <2>2 DEF Entering
<1> QED
  BY <1>0, <1>1, <1>6, RecFields

\* enterEpochFault parks.
LEMMA FaultMoves ==
    ASSUME rec \in RecordSet, owed \in Seq(OwedSet), EnterEpochFault
    PROVE  /\ rec' \in RecordSet /\ rec'.state = "parked" /\ rec'.epoch = rec.epoch
           /\ rec'.recovered = rec.recovered
           /\ OwedMove(owed, owed', "parked")
<1>1. rec' \in RecordSet /\ rec'.state = "parked" /\ rec'.epoch = rec.epoch
        /\ rec'.recovered = rec.recovered
  BY Zenon DEF EnterEpochFault, RecordSet, States
<1>2. Fresh(SetLabel(NeedsReview), "parked") /\ SetLabel(NeedsReview).op = "set"
        /\ SetLabel(NeedsReview).want = NeedsReview
  BY OwesAre DEF NeedsReview, KnownLabels
<1>3. owed' = Append(owed, SetLabel(NeedsReview))
  BY DEF EnterEpochFault, NeedsReview
<1>4. NeedsReview # "none"
  BY DEF NeedsReview
<1>5. OwedMove(owed, Append(owed, SetLabel(NeedsReview)), "parked")
  BY <1>2, <1>4, OwedOne
<1> QED
  BY <1>1, <1>3, <1>5

\* finish releases.
LEMMA FinishMoves ==
    ASSUME rec \in RecordSet, owed \in Seq(OwedSet), Finish
    PROVE  /\ rec' \in RecordSet /\ rec'.state = "releasing" /\ rec'.epoch = rec.epoch
           /\ rec'.recovered = rec.recovered
           /\ OwedMove(owed, owed', "releasing")
<1>1. rec' \in RecordSet /\ rec'.state = "releasing" /\ rec'.epoch = rec.epoch
        /\ rec'.recovered = rec.recovered
  BY DEF Finish, RecordSet, States
<1> QED
  BY <1>1, ReleaseOwedMove DEF Finish

\* enterBackoff, the terminal failure and failLaunch.
LEMMA FailMoves ==
    ASSUME rec \in RecordSet, owed \in Seq(OwedSet), rec.state \notin {"backoff", "parked"},
           FailLaunch
    PROVE  /\ rec' \in RecordSet /\ rec'.state \in {"backoff", "failed", "parked"}
           /\ rec'.epoch = rec.epoch
           /\ rec'.recovered = rec.recovered
           /\ OwedMove(owed, owed', rec'.state)
<1>1. CASE Entering("backoff")
  BY <1>1, EnteringMoves
<1>2. CASE Entering("parked")
  BY <1>2, EnteringMoves
<1>3. CASE /\ rec' = [rec EXCEPT !.state = "failed"]
           /\ owed' = owed \o <<SetLabel("failed")>> \o ReleaseOwed
  <2>1. rec' \in RecordSet /\ rec'.state = "failed" /\ rec'.epoch = rec.epoch
          /\ rec'.recovered = rec.recovered
    BY <1>3, Zenon DEF RecordSet, States
  <2> QED
    BY <1>3, <2>1, FailedOwedMove
<1> QED
  BY <1>1, <1>2, <1>3 DEF FailLaunch, BackOffOrFail

\* Every other turn of the pipeline is a move.
LEMMA Moves ==
    ASSUME Types,
           \/ OnApproved \/ OnClaimBaseBegun \/ OnClaimProjected \/ OnPrepared \/ BeginRunMarker
           \/ OnRunEnded \/ OnVerified \/ Reconcile \/ OnTimerFetched \/ OnParkedConfirmed
           \/ Forget \/ ConvertToHeld \/ SweepHeld
    PROVE  Move
<1>0. /\ rec \in RecordSet /\ owed \in Seq(OwedSet) /\ base \in BaseSet /\ marker \in MarkerSet
      /\ launches \in 0 .. MaxRuns /\ MaxRuns \in Nat /\ log \in Seq(EventSet)
  BY BoundsAssumption DEF Types, TypeOK
<1> USE <1>0
<1>1. /\ rec.epoch \in Nat /\ rec.state \in States /\ rec.recovered \in BOOLEAN
      /\ Anchor \in Nat
  BY AnchorFacts DEF RecordSet, Anchor
<1> USE <1>1
<1>2. /\ rec.state \in Working \cup {"running"} => rec.epoch > 0
      /\ rec.state \in {"starting", "launching", "running"} => base = PinnedBase(rec.epoch)
      /\ rec.state \in {"none", "held"} => Settled
      /\ rec.recovered => rec.state \notin {"running", "verifying"}
  BY DEF Types, EpochOK, PinOK, OwedOK, Working
<1>3. CASE OnApproved
  <2>1. /\ UNCHANGED <<log, published, launchedIn, awaiting, up, base, marker, launches, agents>>
        /\ UNCHANGED <<queued, company, crashes, gestures>> /\ rec.state = "verified"
    BY <1>3 DEF OnApproved, disk, world, Still
  <2> USE <2>1
  <2>2. CASE Entering("parked") \/ EnterEpochFault
    <3>1. /\ rec' \in RecordSet /\ rec'.state = "parked" /\ rec'.epoch = rec.epoch
          /\ rec'.recovered = rec.recovered /\ OwedMove(owed, owed', "parked")
      BY <2>2, FaultMoves, EnteringMoves
    <3> QED
      BY <3>1 DEF Move, Working, Labelled, Unstarted
  <2>3. CASE Assigned /\ rec' = [rec EXCEPT !.state = "approved", !.epoch = Anchor] /\ owed' = owed
    <3> USE <2>3
    <3>1. /\ rec' \in RecordSet /\ rec'.state = "approved" /\ rec'.epoch = Anchor
          /\ rec'.recovered = rec.recovered /\ Anchor > 0
      BY Zenon DEF RecordSet, States, Assigned
    <3>2. OwedMove(owed, owed', "approved")
      BY OwedSame
    <3> QED
      BY <3>1, <3>2 DEF Move, Working, Labelled, Unstarted
  <2> QED
    BY <1>3, <2>2, <2>3 DEF OnApproved
<1>4. CASE OnClaimBaseBegun
  <2>1. /\ UNCHANGED <<log, published, launchedIn, awaiting, up, marker, launches, agents>>
        /\ UNCHANGED <<queued, company, crashes, gestures>> /\ rec.state \in {"approved", "rebasing"}
        /\ base' = BeginClaimBase(base, rec.epoch)
    BY <1>4 DEF OnClaimBaseBegun, world, Still
  <2> USE <2>1
  <2>2. base' \in BaseSet /\ (base' # base => base'.epoch = rec.epoch)
    BY BeginFacts
  <2> USE <2>2
  <2>3. CASE EnterEpochFault
    <3>1. /\ rec' \in RecordSet /\ rec'.state = "parked" /\ rec'.epoch = rec.epoch
          /\ rec'.recovered = rec.recovered /\ OwedMove(owed, owed', "parked")
      BY <2>3, FaultMoves
    <3> QED
      BY <3>1 DEF Move, Working, Labelled, Unstarted
  <2>4. CASE rec.state = "rebasing" /\ Entering("preparing")
    <3>1. /\ rec' \in RecordSet /\ rec'.state = "preparing" /\ rec'.epoch = rec.epoch
          /\ rec'.recovered = rec.recovered /\ OwedMove(owed, owed', "preparing")
      BY <2>4, EnteringMoves
    <3> QED
      BY <1>2, <2>4, <3>1 DEF Move, Working, Labelled, Unstarted
  <2>5. CASE rec.state = "approved" /\ Entering("claimed")
    <3> USE <2>5
    <3>0. StateLabel(rec.state) = "none"
      BY DEF StateLabel
    <3>1. /\ rec' \in RecordSet /\ rec'.state = "claimed" /\ rec'.epoch = rec.epoch
          /\ rec'.recovered = rec.recovered /\ OwedMove(owed, owed', "claimed")
      BY <3>0, EnteringMoves
    <3> QED
      BY <1>2, <3>1 DEF Move, Working, Labelled, Unstarted
  <2> QED
    BY <1>4, <2>3, <2>4, <2>5 DEF OnClaimBaseBegun
<1>5. CASE OnClaimProjected
  <2>1. /\ UNCHANGED <<log, published, launchedIn, awaiting, up, base, marker, launches, agents, owed>>
        /\ UNCHANGED <<queued, company, crashes, gestures>> /\ rec.state = "claimed" /\ Settled
    BY <1>5 DEF OnClaimProjected, disk, world, Still
  <2>2. /\ rec' \in RecordSet /\ rec'.state = "preparing" /\ rec'.epoch = rec.epoch
        /\ rec'.recovered = rec.recovered
    BY <1>5 DEF OnClaimProjected, RecordSet, States
  <2>3. OwedMove(owed, owed', "preparing")
    BY <2>1, OwedSame
  <2> QED
    BY <1>2, <2>1, <2>2, <2>3 DEF Move, Working, Labelled, Unstarted
<1>6. CASE OnPrepared
  <2>1. /\ UNCHANGED <<log, published, launchedIn, awaiting, up, marker, launches, agents>>
        /\ UNCHANGED <<queued, company, crashes, gestures>> /\ rec.state = "preparing"
    BY <1>6 DEF OnPrepared, world, Still
  <2> USE <2>1
  <2>2. CASE EnterEpochFault /\ base' = base
    <3>1. /\ rec' \in RecordSet /\ rec'.state = "parked" /\ rec'.epoch = rec.epoch
          /\ rec'.recovered = rec.recovered /\ OwedMove(owed, owed', "parked")
      BY <2>2, FaultMoves
    <3> QED
      BY <2>2, <3>1 DEF Move, Working, Labelled, Unstarted
  <2>3. CASE base' = PinnedBase(rec.epoch) /\ rec' = [rec EXCEPT !.state = "starting"] /\ owed' = owed
    <3> USE <2>3
    <3>1. /\ rec' \in RecordSet /\ rec'.state = "starting" /\ rec'.epoch = rec.epoch
          /\ rec'.recovered = rec.recovered
      BY DEF RecordSet, States
    <3>2. OwedMove(owed, owed', "starting") /\ base' \in BaseSet /\ base'.epoch = rec.epoch
      BY OwedSame, PinFacts
    <3> QED
      BY <1>2, <3>1, <3>2 DEF Move, Working, Labelled, Unstarted
  <2>4. CASE base' \in {base, PinnedBase(rec.epoch)} /\ FailLaunch
    <3>1. /\ rec' \in RecordSet /\ rec'.state \in {"backoff", "failed", "parked"}
          /\ rec'.epoch = rec.epoch
          /\ rec'.recovered = rec.recovered /\ OwedMove(owed, owed', rec'.state)
      BY <2>4, FailMoves
    <3>2. base' \in BaseSet /\ (base' # base => base'.epoch = rec.epoch /\ base' = PinnedBase(rec.epoch))
      BY <2>4, PinFacts
    <3> QED
      BY <1>2, <3>1, <3>2 DEF Move, Working, Labelled, Unstarted
  <2> QED
    BY <1>6, <2>2, <2>3, <2>4 DEF OnPrepared
<1>7. CASE BeginRunMarker
  <2>1. /\ UNCHANGED <<log, published, launchedIn, awaiting, up, base, agents>>
        /\ UNCHANGED <<queued, company, crashes, gestures>> /\ rec.state = "starting"
    BY <1>7 DEF BeginRunMarker, Still
  <2> USE <2>1
  <2>2. CASE FailLaunch /\ UNCHANGED <<launches, marker>>
    <3>1. /\ rec' \in RecordSet /\ rec'.state \in {"backoff", "failed", "parked"}
          /\ rec'.epoch = rec.epoch
          /\ rec'.recovered = rec.recovered /\ OwedMove(owed, owed', rec'.state)
      BY <2>2, FailMoves
    <3> QED
      BY <1>2, <2>2, <3>1 DEF Move, Working, Labelled, Unstarted
  <2>3. CASE /\ launches < MaxRuns /\ launches' = launches + 1
             /\ marker' = [state |-> "unknown_launch", by |-> launches']
             /\ rec' = [rec EXCEPT !.state = "launching", !.run = launches']
             /\ owed' = owed
    <3> USE <2>3
    <3>0. launches' \in 0 .. MaxRuns /\ launches' \in Nat
      OBVIOUS
    <3>1. /\ rec' \in RecordSet /\ rec'.state = "launching" /\ rec'.epoch = rec.epoch
          /\ rec'.recovered = rec.recovered /\ marker' \in MarkerSet
      BY <3>0, Zenon DEF RecordSet, States, MarkerSet
    <3>2. OwedMove(owed, owed', "launching")
      BY OwedSame
    <3> QED
      BY <1>2, <3>0, <3>1, <3>2 DEF Move, Working, Labelled, Unstarted
  <2> QED
    BY <1>7, <2>2, <2>3 DEF BeginRunMarker
<1>8. CASE OnRunEnded
  <2>1. /\ UNCHANGED <<log, published, launchedIn, awaiting, up, base, launches, agents>>
        /\ UNCHANGED <<queued, company, crashes, gestures>> /\ rec.state = "running"
        /\ \A a \in agents : a.run # rec.run
        /\ marker' = [state |-> "absent", by |-> 0]
    BY <1>8 DEF OnRunEnded, world, Still
  <2> USE <2>1
  <2>2. marker' \in MarkerSet
    BY DEF MarkerSet
  <2>3. CASE Entering("verifying")
    <3>1. /\ rec' \in RecordSet /\ rec'.state = "verifying" /\ rec'.epoch = rec.epoch
          /\ rec'.recovered = rec.recovered /\ OwedMove(owed, owed', "verifying")
      BY <2>3, EnteringMoves
    <3> QED
      BY <1>2, <2>2, <3>1 DEF Move, Working, Labelled, Unstarted
  <2>4. CASE FailLaunch
    <3>1. /\ rec' \in RecordSet /\ rec'.state \in {"backoff", "failed", "parked"}
          /\ rec'.epoch = rec.epoch
          /\ rec'.recovered = rec.recovered /\ OwedMove(owed, owed', rec'.state)
      BY <2>4, FailMoves
    <3> QED
      BY <1>2, <2>2, <3>1 DEF Move, Working, Labelled, Unstarted
  <2> QED
    BY <1>8, <2>3, <2>4 DEF OnRunEnded, FailLaunch
<1>9. CASE OnVerified
  <2>1. /\ UNCHANGED <<log, published, launchedIn, awaiting, up, base, marker, launches, agents>>
        /\ UNCHANGED <<queued, company, crashes, gestures>> /\ rec.state = "verifying"
    BY <1>9 DEF OnVerified, disk, world, Still
  <2> USE <2>1
  <2>3. CASE Entering("done")
    <3>1. /\ rec' \in RecordSet /\ rec'.state = "done" /\ rec'.epoch = rec.epoch
          /\ rec'.recovered = rec.recovered /\ OwedMove(owed, owed', "done")
      BY <2>3, EnteringMoves
    <3> QED
      BY <1>2, <3>1 DEF Move, Working, Labelled, Unstarted
  <2>4. CASE FailLaunch
    <3>1. /\ rec' \in RecordSet /\ rec'.state \in {"backoff", "failed", "parked"}
          /\ rec'.epoch = rec.epoch
          /\ rec'.recovered = rec.recovered /\ OwedMove(owed, owed', rec'.state)
      BY <2>4, FailMoves
    <3> QED
      BY <1>2, <3>1 DEF Move, Working, Labelled, Unstarted
  <2> QED
    BY <1>9, <2>3, <2>4 DEF OnVerified, FailLaunch
<1>10. CASE Reconcile
  <2> USE <1>10
  <2>1. /\ UNCHANGED <<log, published, launchedIn, awaiting, up, launches>>
        /\ UNCHANGED <<queued, company, crashes, gestures>> /\ Finish
        /\ rec.state \in {"verified", "approved", "claimed", "rebasing", "preparing", "running",
                          "verifying", "backoff"}
    BY DEF Reconcile, Still
  <2>2. /\ rec' \in RecordSet /\ rec'.state = "releasing" /\ rec'.epoch = rec.epoch
        /\ rec'.recovered = rec.recovered /\ OwedMove(owed, owed', "releasing")
    BY <2>1, FinishMoves
  <2>3. /\ agents' \subseteq agents /\ marker' \in MarkerSet
        /\ rec.state = "running" => \A a \in agents' : a.run # rec.run
    BY DEF Reconcile, MarkerSet
  <2>4. /\ base' \in BaseSet
        /\ base' # base => /\ rec.state \in {"approved", "rebasing", "preparing"}
                           /\ base'.epoch = rec.epoch
                           /\ base' = BeginClaimBase(base, rec.epoch) \/ base' = PinnedBase(rec.epoch)
    BY BeginFacts, PinFacts DEF Reconcile
  <2> QED
    BY <2>1, <2>2, <2>3, <2>4 DEF Move, Working, Labelled, Unstarted
<1>11. CASE OnTimerFetched
  <2>1. /\ UNCHANGED <<log, published, launchedIn, awaiting, up, base, marker, launches, agents>>
        /\ UNCHANGED <<queued, company, crashes, gestures>> /\ rec.state = "backoff"
    BY <1>11 DEF OnTimerFetched, disk, world, Still
  <2> USE <2>1
  <2>2. CASE Finish
    <3>1. /\ rec' \in RecordSet /\ rec'.state = "releasing" /\ rec'.epoch = rec.epoch
          /\ rec'.recovered = rec.recovered /\ OwedMove(owed, owed', "releasing")
      BY <2>2, FinishMoves
    <3> QED
      BY <3>1 DEF Move, Working, Labelled, Unstarted
  <2>3. CASE Entering("parked") \/ EnterEpochFault
    <3>1. /\ rec' \in RecordSet /\ rec'.state = "parked" /\ rec'.epoch = rec.epoch
          /\ rec'.recovered = rec.recovered /\ OwedMove(owed, owed', "parked")
      BY <2>3, FaultMoves, EnteringMoves
    <3> QED
      BY <3>1 DEF Move, Working, Labelled, Unstarted
  <2>4. CASE /\ Assigned /\ rec.epoch = 0 /\ owed' = owed
             /\ rec' = [rec EXCEPT !.state = "rebasing", !.epoch = Anchor]
    <3> USE <2>4
    <3>1. /\ rec' \in RecordSet /\ rec'.state = "rebasing" /\ rec'.epoch = Anchor
          /\ rec'.recovered = rec.recovered /\ Anchor > 0
      BY Zenon DEF RecordSet, States, Assigned
    <3>2. OwedMove(owed, owed', "rebasing")
      BY OwedSame
    <3> QED
      BY <3>1, <3>2 DEF Move, Working, Labelled, Unstarted
  <2>5. CASE Assigned /\ rec.epoch = Anchor /\ Entering("preparing")
    <3>1. /\ rec' \in RecordSet /\ rec'.state = "preparing" /\ rec'.epoch = rec.epoch
          /\ rec'.recovered = rec.recovered /\ OwedMove(owed, owed', "preparing")
      BY <2>5, EnteringMoves
    <3>2. rec.epoch > 0
      BY <2>5 DEF Assigned
    <3> QED
      BY <3>1, <3>2 DEF Move, Working, Labelled, Unstarted
  <2> QED
    BY <1>11, <2>2, <2>3, <2>4, <2>5 DEF OnTimerFetched, Routable
<1>12. CASE OnParkedConfirmed
  <2>1. /\ UNCHANGED <<log, published, launchedIn, awaiting, up, base, marker, launches, agents>>
        /\ UNCHANGED <<queued, company, crashes, gestures>> /\ rec.state = "parked"
    BY <1>12 DEF OnParkedConfirmed, disk, world, Still
  <2> USE <2>1
  <2>2. CASE Finish
    <3>1. /\ rec' \in RecordSet /\ rec'.state = "releasing" /\ rec'.epoch = rec.epoch
          /\ rec'.recovered = rec.recovered /\ OwedMove(owed, owed', "releasing")
      BY <2>2, FinishMoves
    <3> QED
      BY <3>1 DEF Move, Working, Labelled, Unstarted
  <2>3. CASE /\ ~Assigned /\ rec' = [rec EXCEPT !.state = "dropping"]
             /\ owed' = Append(owed, Owe("abandon", "none"))
    <3> USE <2>3
    <3>1. /\ rec' \in RecordSet /\ rec'.state = "dropping" /\ rec'.epoch = rec.epoch
          /\ rec'.recovered = rec.recovered
      BY DEF RecordSet, States
    <3>2. OwedMove(owed, owed', "dropping")
      BY OwesAre, OwedOne
    <3> QED
      BY <3>1, <3>2 DEF Move, Working, Labelled, Unstarted
  <2>4. CASE Settled /\ LabelsOf(log) = {} /\ owed' = Append(owed, SetLabel("needs-review")) /\ rec' = rec
    <3>1. Fresh(SetLabel("needs-review"), "parked") /\ SetLabel("needs-review").op = "set"
            /\ SetLabel("needs-review").want # "none"
      BY OwesAre DEF NeedsReview, KnownLabels
    <3>2. OwedMove(owed, owed', "parked")
      BY <2>4, <3>1, OwedOne
    <3> QED
      BY <2>4, <3>2 DEF Move, Working, Labelled, Unstarted
  <2>5. CASE Settled /\ LabelsOf(log) = {} /\ Entering("backoff")
    <3>1. /\ rec' \in RecordSet /\ rec'.state = "backoff" /\ rec'.epoch = rec.epoch
          /\ rec'.recovered = rec.recovered /\ OwedMove(owed, owed', "backoff")
      BY <2>5, EnteringMoves
    <3> QED
      BY <2>5, <3>1, ZenonT(30) DEF Move, Working, Labelled, Unstarted
  <2> QED
    BY <1>12, <2>2, <2>3, <2>4, <2>5 DEF OnParkedConfirmed
<1>13. NoRecord \in RecordSet /\ NoRecord.state = "none" /\ NoRecord.epoch = 0 /\ ~NoRecord.recovered
  BY DEF NoRecord, Record, RecordSet, States
<1>14. CASE Forget
  <2>1. /\ UNCHANGED <<log, published, launchedIn, awaiting, up, base, marker, launches, agents, owed>>
        /\ UNCHANGED <<queued, company, crashes, gestures>> /\ rec.state = "dropping" /\ Settled
        /\ rec' = NoRecord
    BY <1>14 DEF Forget, disk, world, Still
  <2>2. OwedMove(owed, owed', "none")
    BY <2>1, OwedSame
  <2> QED
    BY <1>13, <2>1, <2>2 DEF Move, Working, Labelled, Unstarted
<1>15. CASE ConvertToHeld
  <2>1. /\ UNCHANGED <<log, published, launchedIn, awaiting, up, base, marker, launches, agents, owed>>
        /\ UNCHANGED <<queued, company, crashes, gestures>> /\ rec.state = "done" /\ Settled
    BY <1>15 DEF ConvertToHeld, disk, world, Still
  <2> USE <2>1
  <2>2. CASE Assigned /\ rec' = [rec EXCEPT !.state = "held", !.epoch = Anchor]
    <3>1. /\ rec' \in RecordSet /\ rec'.state = "held" /\ rec'.epoch = Anchor
          /\ rec'.recovered = rec.recovered
      BY <2>2, Zenon DEF RecordSet, States
    <3>2. OwedMove(owed, owed', "held")
      BY OwedSame
    <3> QED
      BY <2>2, <3>1, <3>2 DEF Move, Working, Labelled, Unstarted
  <2>3. CASE ~Assigned /\ rec' = NoRecord
    <3>1. OwedMove(owed, owed', "none")
      BY OwedSame
    <3> QED
      BY <1>13, <2>3, <3>1 DEF Move, Working, Labelled, Unstarted
  <2> QED
    BY <1>15, <2>2, <2>3 DEF ConvertToHeld
<1>16. CASE SweepHeld
  <2>1. /\ UNCHANGED <<log, published, launchedIn, awaiting, up, base, marker, launches, agents>>
        /\ UNCHANGED <<queued, company, crashes, gestures>> /\ rec.state = "held"
    BY <1>16 DEF SweepHeld, disk, world, Still
  <2>2. CASE /\ rec' = [rec EXCEPT !.state = "releasing"]
             /\ owed' = Append(owed, Owe("release", "none"))
    <3>1. /\ rec' \in RecordSet /\ rec'.state = "releasing" /\ rec'.epoch = rec.epoch
          /\ rec'.recovered = rec.recovered
      BY <2>2, Zenon DEF RecordSet, States
    <3>2. OwedMove(owed, owed', "releasing")
      BY <2>2, OwesAre, OwedOne
    <3> QED
      BY <2>1, <3>1, <3>2 DEF Move, Working, Labelled, Unstarted
  <2>3. CASE ~Assigned /\ rec' = NoRecord /\ owed' = owed
    <3>1. OwedMove(owed, owed', "none")
      BY <2>3, OwedSame
    <3> QED
      BY <1>2, <1>13, <2>1, <2>3, <3>1 DEF Move, Working, Labelled, Unstarted
  <2> QED
    BY <1>16, <2>2, <2>3 DEF SweepHeld
<1> QED
  BY <1>3, <1>4, <1>5, <1>6, <1>7, <1>8, <1>9, <1>10, <1>11, <1>12, <1>14, <1>15, <1>16

-----------------------------------------------------------------------------
(* The verdict of a restart.                                               *)

\* The verdicts of the table are among them.
LEMMA VerdictsAre ==
    /\ VerdictOK(ParkRecovery) /\ VerdictOK(EpochFaultRecovery) /\ VerdictOK(BackoffRecovery)
    /\ VerdictOK(HoldRecovery) /\ VerdictOK(Approve) /\ VerdictOK(ReleaseKeep)
    /\ VerdictOK(ReleaseDispose) /\ VerdictOK(Verdict("release_keep", "failed"))
    /\ ParkRecovery.action = "park" /\ EpochFaultRecovery.action = "park"
    /\ BackoffRecovery.action = "backoff" /\ HoldRecovery.action = "hold"
    /\ Approve.action = "approve" /\ ReleaseKeep.action = "release_keep"
    /\ ReleaseDispose.action = "release_dispose"
    /\ Verdict("release_keep", "failed").action = "release_keep"
    /\ ReleaseKeep.project = NoProjection /\ ReleaseDispose.project = NoProjection
    /\ Falls.action = "falls_through"
BY DEF VerdictOK, ParkRecovery, EpochFaultRecovery, BackoffRecovery, HoldRecovery, Approve,
       ReleaseKeep, ReleaseDispose, Verdict, Falls, Actions, Releases, KnownLabels, NeedsReview,
       NoProjection

\* classifyRecoveryTrackerGates decides a release or a park, or nothing.
LEMMA GatesAre ==
    ASSUME NEW l, NEW active, NEW c \in {"none", "earlier", "later", "unordered"}, NEW p,
           ClaimCycleAnchor(l) \in Nat
    PROVE  TrackerGates(l, active, c, p) \in {ReleaseDispose, ReleaseKeep, ParkRecovery, Falls}
BY DEF TrackerGates

\* classifyRecoveryClaimBase.
LEMMA BaseGateIs ==
    ASSUME NEW b, NEW a, NEW m, NEW r
    PROVE  /\ ClaimBaseGate(b, a, m, r) \in {Falls, EpochFaultRecovery, Approve}
           /\ ClaimBaseGate(b, a, m, r) = Approve =>
                 b.state = "pending" /\ b.epoch = a /\ m = "absent"
           /\ ClaimBaseGate(b, a, m, r) = Falls => b = PinnedBase(a)
<1>1. Falls # EpochFaultRecovery /\ Falls # Approve /\ EpochFaultRecovery # Approve
  BY VerdictsAre
<1> QED
  BY <1>1 DEF ClaimBaseGate

\* The projection table.
LEMMA TableIs ==
    ASSUME NEW q, NEW p \in BOOLEAN, q.shape = "unprojected" => q.label = "none"
    PROVE  LET v == ProjectionVerdict(q, p)
           IN  /\ VerdictOK(v)
               /\ v.action = "approve" => q.shape = "unprojected"
               /\ v.action = "backoff" =>
                     /\ q.shape # "unprojected"
                     /\ ~p \/ (q.label = NeedsReview /\ q.shape = "cleared")
               /\ q.shape = "standing" /\ q.label = NeedsReview => v = ParkRecovery
<1> DEFINE v == ProjectionVerdict(q, p)
<1>1. CASE q.shape = "unprojected"
  <2>1. v = Approve
    BY <1>1 DEF ProjectionVerdict
  <2> HIDE DEF v
  <2> QED
    BY <1>1, <2>1, VerdictsAre DEF v
<1>2. CASE q.shape # "unprojected" /\ q.label = NeedsReview
  <2>1. /\ q.shape = "standing" => v = ParkRecovery
        /\ v \in {ParkRecovery, BackoffRecovery}
        /\ v = BackoffRecovery => q.shape = "cleared"
    BY <1>2, VerdictsAre DEF ProjectionVerdict, NeedsReview
  <2> HIDE DEF v
  <2> QED
    BY <1>2, <2>1, VerdictsAre DEF v
<1>3. CASE q.shape # "unprojected" /\ q.label # NeedsReview
  <2>1. /\ v \in {ParkRecovery, BackoffRecovery, HoldRecovery, ReleaseKeep,
                  Verdict("release_keep", "failed")}
        /\ v = BackoffRecovery => ~p
    BY <1>3, VerdictsAre DEF ProjectionVerdict, NeedsReview
  <2> HIDE DEF v
  <2> QED
    BY <1>3, <2>1, VerdictsAre DEF v
<1> QED
  BY <1>1, <1>2, <1>3

\* A verdict under the marker is acted on, waited for, or turned into a park.
LEMMA UnderMarkerIs ==
    ASSUME NEW v, VerdictOK(v), NEW m \in {"free", "possibly_live", "unknown_launch"}
    PROVE  /\ VerdictOK(UnderMarker(v, m))
           /\ m = "possibly_live" => UnderMarker(v, m).action = "wait"
           /\ UnderMarker(v, m).action \in {"wait", "park", v.action}
           /\ UnderMarker(v, m).project \in {NeedsReview, v.project}
           /\ v.action # "park" /\ v.action # "wait" /\ UnderMarker(v, m).action = v.action => m = "free"
<1>1. m = "free" => UnderMarker(v, m) = v
  BY DEF UnderMarker
<1>2. m = "unknown_launch" => UnderMarker(v, m) = ParkRecovery
  BY DEF UnderMarker
<1>3. m = "possibly_live" => UnderMarker(v, m) = [v EXCEPT !.action = "wait"]
  BY DEF UnderMarker, VerdictOK, Actions
<1>4. ParkRecovery.project = NeedsReview /\ ParkRecovery.action = "park"
  BY DEF ParkRecovery, Verdict, NeedsReview
<1>5. CASE m = "free"
  BY <1>1, <1>5
<1>6. CASE m = "unknown_launch"
  BY <1>2, <1>4, <1>6, VerdictsAre
<1>7. CASE m = "possibly_live"
  <2> DEFINE w == [v EXCEPT !.action = "wait"]
  <2>1. w.action = "wait" /\ w.fault = v.fault /\ w.project = v.project
    BY DEF VerdictOK
  <2> HIDE DEF w
  <2>2. VerdictOK(w)
    BY <2>1 DEF VerdictOK, Actions, Releases
  <2> QED
    BY <1>3, <1>7, <2>1, <2>2, Zenon DEF w
<1> QED
  BY <1>5, <1>6, <1>7


\* replayRecoveryProjection: unprojected says that no label was put on in the
\* cycle, a cleared ben:needs-review that it was taken off in it, and a
\* ben:needs-review put on last and standing is what is read.
LEMMA ReplayFacts ==
    ASSUME NEW l \in Seq(EventSet), NEW a \in DOMAIN l, l[a].kind = "assigned"
    PROVE  LET q == ReplayProjection(l, a)
           IN  /\ q.shape = "unprojected" => q.label = "none" /\ ~LabeledAfter(l, a)
               /\ q.shape # "unprojected" => LabeledAfter(l, a)
               /\ q.shape = "cleared" /\ q.label = NeedsReview => ReviewTakenOff(l, a)
               /\ ReviewStands(l, a) => q.shape = "standing" /\ q.label = NeedsReview
<1> DEFINE q == ReplayProjection(l, a)
           events == LabelEvents(l, a)
           standing == StandingLabelings(l, a)
           labeled == {i \in events : l[i].kind = "labeled"}
<1>1. Len(l) \in Nat /\ DOMAIN l = 1 .. Len(l) /\ a \in Nat
  OBVIOUS
<1>2. /\ events \subseteq 0 .. Len(l) /\ standing \subseteq 0 .. Len(l)
      /\ \A i \in events : i \in DOMAIN l /\ i > a /\ l[i].kind \in {"labeled", "unlabeled"}
      /\ \A i \in DOMAIN l : i > a /\ l[i].kind \in {"labeled", "unlabeled"} => i \in events
  BY <1>1 DEF LabelEvents, StandingLabelings
<1> USE <1>2
<1>3. \A i : i \in standing <=> /\ i \in events /\ l[i].kind = "labeled"
                                /\ \A j \in events : j > i => l[j] # Event("unlabeled", l[i].subject)
  BY DEF StandingLabelings
<1>4. /\ standing # {} => q = [shape |-> "standing", label |-> l[Max(standing)].subject]
      /\ standing = {} /\ labeled = {} => q = [shape |-> "unprojected", label |-> "none"]
      /\ standing = {} /\ labeled # {} => q = [shape |-> "cleared", label |-> l[Max(events)].subject]
  BY DEF ReplayProjection
<1>5. labeled # {} <=> LabeledAfter(l, a)
  BY DEF LabeledAfter
<1>6. standing # {} => labeled # {}
  BY <1>3
<1> HIDE DEF q, events, standing, labeled
<1>7. /\ q.shape = "unprojected" => q.label = "none" /\ ~LabeledAfter(l, a)
      /\ q.shape # "unprojected" => LabeledAfter(l, a)
  BY <1>4, <1>5, <1>6
<1>8. ASSUME q.shape = "cleared", q.label = NeedsReview
      PROVE  ReviewTakenOff(l, a)
  <2>1. standing = {} /\ events # {} /\ l[Max(events)].subject = NeedsReview
    BY <1>4, <1>8 DEF labeled
  <2> USE <2>1
  <2>2. Max(events) \in events /\ \A y \in events : y <= Max(events)
    BY <1>1, MaxFacts, Zenon
  <2> DEFINE m == Max(events)
  <2> HIDE DEF m
  <2>3. m \in events /\ (\A y \in events : y <= m) /\ l[m].subject = NeedsReview
    BY <2>2 DEF m
  <2> USE <2>3
  <2>4. \A y \in events : ~(y > m)
    OBVIOUS
  <2>5. l[m].kind # "labeled"
    BY <1>3, <2>4
  <2>6. l[m].kind = "unlabeled" /\ m \in DOMAIN l /\ m > a /\ l[m] \in EventSet
    BY <2>5
  <2>7. l[m] = Event("unlabeled", NeedsReview)
    BY <2>6 DEF EventSet, Event
  <2> QED
    BY <2>6, <2>7 DEF ReviewTakenOff
<1>9. ASSUME ReviewStands(l, a)
      PROVE  q.shape = "standing" /\ q.label = NeedsReview
  <2>1. PICK k \in DOMAIN l :
           /\ k > a /\ l[k] = Event("labeled", NeedsReview)
           /\ \A j \in DOMAIN l : j > k => l[j].kind # "labeled" /\ l[j] # Event("unlabeled", NeedsReview)
    BY <1>9 DEF ReviewStands
  <2> USE <2>1
  <2>2. l[k].kind = "labeled" /\ l[k].subject = NeedsReview
    BY DEF Event
  <2>3. k \in standing
    BY <1>3, <2>2
  <2>4. \A y \in standing : y <= k
    BY <1>1, <1>3
  <2>5. standing \subseteq Nat
    BY <1>1
  <2>6. Max(standing) = k
    BY <2>3, <2>4, <2>5, MaxIs
  <2> QED
    BY <1>4, <2>2, <2>3, <2>6
<1> QED
  BY <1>7, <1>8, <1>9 DEF q

\* What the verdict of a restart on a standing assignment may be.
LEMMA ClassifiedFacts ==
    ASSUME TypeOK, AgentOK, Assigned
    PROVE  Justified
<1> DEFINE gated == TrackerGates(log, Open, company, queued)
           based == ClaimBaseGate(base, Anchor, marker.state, RunningEvidence(log, Anchor))
           q     == ReplayProjection(log, Anchor)
           table == ProjectionVerdict(q, published = Anchor)
           m     == ResolvedMarker
<1>1. /\ log \in Seq(EventSet) /\ Anchor \in DOMAIN log /\ log[Anchor].kind = "assigned"
      /\ company \in {"none", "earlier", "later", "unordered"} /\ ClaimCycleAnchor(log) \in Nat
  BY AnchorFacts DEF TypeOK, Assigned, Anchor, Standing
<1>2. m \in {"free", "possibly_live", "unknown_launch"}
  BY DEF ResolvedMarker
<1>3. gated \in {ReleaseDispose, ReleaseKeep, ParkRecovery, Falls}
  BY <1>1, GatesAre
<1>4. /\ based \in {Falls, EpochFaultRecovery, Approve}
      /\ based = Approve => base.state = "pending" /\ base.epoch = Anchor
      /\ based = Falls => base = PinnedBase(Anchor)
  BY BaseGateIs
<1>5. /\ q.shape = "unprojected" => q.label = "none" /\ ~LabeledAfter(log, Anchor)
      /\ q.shape # "unprojected" => LabeledAfter(log, Anchor)
      /\ q.shape = "cleared" /\ q.label = NeedsReview => ReviewTakenOff(log, Anchor)
      /\ ReviewStands(log, Anchor) => q.shape = "standing" /\ q.label = NeedsReview
  BY <1>1, ReplayFacts
<1>6. (published = Anchor) \in BOOLEAN
  OBVIOUS
<1>7. /\ VerdictOK(table)
      /\ table.action = "approve" => q.shape = "unprojected"
      /\ table.action = "backoff" =>
            /\ q.shape # "unprojected"
            /\ ~(published = Anchor) \/ (q.label = NeedsReview /\ q.shape = "cleared")
      /\ q.shape = "standing" /\ q.label = NeedsReview => table = ParkRecovery
  BY <1>5, <1>6, TableIs, Zenon
<1>8. /\ gated # Falls => Classified = UnderMarker(gated, m)
      /\ gated = Falls /\ based # Falls => Classified = based
      /\ gated = Falls /\ based = Falls => Classified = UnderMarker(table, m)
  BY DEF Classified
<1>9. \A a \in agents : a.epoch = Anchor => base = PinnedBase(Anchor) /\ m = "possibly_live"
  BY DEF AgentOK, ResolvedMarker, Alive
<1>10. base = PinnedBase(Anchor) => based = Falls /\ base.epoch = Anchor
  BY DEF ClaimBaseGate, PinnedBase
<1>11. NeedsReview # NoProjection /\ ParkRecovery.project = NeedsReview /\ EpochFaultRecovery.project = NeedsReview
  BY DEF NeedsReview, NoProjection, ParkRecovery, EpochFaultRecovery, Verdict
<1> USE <1>11
<1> HIDE DEF gated, based, q, table, m
<1>12. CASE gated # Falls
  <2>1. VerdictOK(gated) /\ gated.action \in Releases \cup {"park"}
          /\ gated.project \in {NeedsReview, NoProjection}
    BY <1>3, <1>12, VerdictsAre DEF Releases
  <2>2. /\ VerdictOK(Classified) /\ Classified.action \in {"wait", "park", gated.action}
        /\ Classified.project \in {NeedsReview, gated.project}
        /\ m = "possibly_live" => Classified.action = "wait"
    BY <1>2, <1>8, <1>12, <2>1, UnderMarkerIs
  <2> QED
    BY <1>9, <2>1, <2>2 DEF Justified, Releases, m
<1>13. CASE gated = Falls /\ based # Falls
  <2>1. base # PinnedBase(Anchor) /\ \A a \in agents : a.epoch # Anchor
    BY <1>9, <1>10, <1>13
  <2>2. Classified \in {EpochFaultRecovery, Approve} /\ Classified = based
    BY <1>4, <1>8, <1>13
  <2>3. Classified = Approve => base.state = "pending" /\ base.epoch = Anchor
    BY <1>4, <2>2
  <2> QED
    BY <2>1, <2>2, <2>3, VerdictsAre DEF Justified
<1>14. CASE gated = Falls /\ based = Falls
  <2>1. base = PinnedBase(Anchor) /\ base.epoch = Anchor
    BY <1>4, <1>10, <1>14
  <2>2. /\ VerdictOK(Classified) /\ Classified.action \in {"wait", "park", table.action}
        /\ Classified.project \in {NeedsReview, table.project}
        /\ m = "possibly_live" => Classified.action = "wait"
    BY <1>2, <1>7, <1>8, <1>14, UnderMarkerIs
  <2>3. ReviewStands(log, base.epoch) => table = ParkRecovery
    BY <1>5, <1>7, <2>1
  <2> QED
    BY <1>5, <1>7, <1>9, <2>2, <2>3, VerdictsAre DEF Justified, m
<1> QED
  BY <1>12, <1>13, <1>14

\* projectRecovery owes what its verdict says.
LEMMA ProjectedFacts ==
    ASSUME NEW v, VerdictOK(v)
    PROVE  /\ Projected(v) \in Seq(OwedSet)
           /\ \A i \in DOMAIN Projected(v) : FreshFor(Projected(v)[i], v)
           /\ v.action = "park" => Len(Projected(v)) = 1 /\ Projected(v)[1].op = "set"
<1> DEFINE s == SetLabel(v.project)  a == Owe("abandon", "none")  r == Owe("release", "none")
<1>1. v.project # NoProjection => FreshFor(s, v) /\ s.op = "set"
  BY DEF FreshFor, VerdictOK, SetLabel, Owe, OwedSet
<1>2. v.action \in Releases => FreshFor(a, v) /\ FreshFor(r, v)
  BY DEF FreshFor, Owe, OwedSet
<1>3. ReleaseOwed = <<a, r>>
  BY DEF ReleaseOwed
<1>4. v.action = "park" => v.project # NoProjection /\ v.action \notin Releases
  BY DEF VerdictOK, NeedsReview, NoProjection, Releases
<1>5. \A w : FreshFor(w, v) => w \in OwedSet
  BY DEF FreshFor
<1> HIDE DEF s, a, r
<1> DEFINE P == Projected(v)
<1>6. P \in {<<>> \o <<>>, <<s>> \o <<>>, <<>> \o <<a, r>>, <<s>> \o <<a, r>>}
  BY <1>3, Zenon DEF Projected, s, Releases
<1>7. /\ P = <<s>> \o <<>> \/ P = <<s>> \o <<a, r>> => v.project # NoProjection
      /\ P = <<>> \o <<a, r>> \/ P = <<s>> \o <<a, r>> => v.action \in Releases
      /\ v.action = "park" => P = <<s>> \o <<>>
  <2>1. CASE v.project = NoProjection /\ v.action \in Releases
    <3>1. P = <<>> \o <<a, r>>
      BY <2>1, <1>3 DEF Projected, Releases
    <3> HIDE DEF P
    <3>2. P # <<s>> \o <<>> /\ P # <<s>> \o <<a, r>>
      BY <3>1
    <3> QED
      BY <1>4, <2>1, <3>2
  <2>2. CASE v.project = NoProjection /\ v.action \notin Releases
    <3>1. P = <<>> \o <<>>
      BY <2>2, <1>3 DEF Projected, Releases
    <3> HIDE DEF P
    <3>2. P # <<s>> \o <<>> /\ P # <<s>> \o <<a, r>> /\ P # <<>> \o <<a, r>>
      BY <3>1
    <3> QED
      BY <1>4, <2>2, <3>2
  <2>3. CASE v.project # NoProjection /\ v.action \in Releases
    BY <1>4, <2>3
  <2>4. CASE v.project # NoProjection /\ v.action \notin Releases
    <3>1. P = <<s>> \o <<>>
      BY <2>4, <1>3 DEF Projected, Releases, s
    <3> HIDE DEF P
    <3>2. P # <<>> \o <<a, r>> /\ P # <<s>> \o <<a, r>>
      BY <3>1
    <3> QED
      BY <2>4, <3>1, <3>2
  <2> QED
    BY <2>1, <2>2, <2>3, <2>4
<1> USE <1>7
<1> HIDE DEF P
<1>8. CASE P = <<>> \o <<>>
  <2>1. P \in Seq(OwedSet) /\ DOMAIN P = {}
    BY <1>8
  <2>2. v.action # "park"
    BY <1>8
  <2> QED
    BY <2>1, <2>2 DEF P
<1>9. CASE P = <<s>> \o <<>>
  <2>0. v.project # NoProjection
    BY <1>9
  <2>1. s \in OwedSet /\ FreshFor(s, v) /\ s.op = "set"
    BY <1>1, <1>5, <2>0
  <2>2. P \in Seq(OwedSet) /\ DOMAIN P = {1} /\ P[1] = s /\ Len(P) = 1
    BY <1>9, <2>1
  <2> QED
    BY <2>1, <2>2 DEF P
<1>10. CASE P = <<>> \o <<a, r>>
  <2>0. v.action \in Releases
    BY <1>10
  <2>1. a \in OwedSet /\ r \in OwedSet /\ FreshFor(a, v) /\ FreshFor(r, v) /\ v.action # "park"
    BY <1>2, <1>4, <1>5, <2>0
  <2>2. P \in Seq(OwedSet) /\ DOMAIN P = {1, 2} /\ P[1] = a /\ P[2] = r
    BY <1>10, <2>1
  <2> QED
    BY <2>1, <2>2 DEF P
<1>11. CASE P = <<s>> \o <<a, r>>
  <2>0. v.action \in Releases /\ v.project # NoProjection
    BY <1>11
  <2>1. /\ a \in OwedSet /\ r \in OwedSet /\ FreshFor(a, v) /\ FreshFor(r, v) /\ v.action # "park"
        /\ s \in OwedSet /\ FreshFor(s, v)
    BY <1>1, <1>2, <1>4, <1>5, <2>0
  <2>2. P \in Seq(OwedSet) /\ DOMAIN P = {1, 2, 3} /\ P[1] = s /\ P[2] = a /\ P[3] = r
    BY <1>11, <2>1
  <2> QED
    BY <2>1, <2>2 DEF P
<1> QED
  BY <1>6, <1>8, <1>9, <1>10, <1>11

\* What a forgotten record leaves behind, ahead of what the next one owes.
LeavesOf(o, left) == left = <<>> \/ (o # <<>> /\ left = <<[Head(o) EXCEPT !.orphan = TRUE]>>)

\* The queue q of a record adopted over o: what is left of o, then P.
Requeued(o, P, q) ==
    /\ q \in Seq(OwedSet)
    /\ \A i \in DOMAIN q : (i = 1 /\ LeftOver(o, q[1])) \/ \E j \in DOMAIN P : q[i] = P[j]
    /\ \A j \in DOMAIN P : \E i \in DOMAIN q : q[i] = P[j]

\* Such a queue, item by item.
LEMMA LeftoverFacts ==
    ASSUME NEW o \in Seq(OwedSet), NEW P \in Seq(OwedSet), NEW left, LeavesOf(o, left),
           NEW q, q = left \o P
    PROVE  Requeued(o, P, q)
<1>1. CASE left = <<>>
  <2>1. q = P
    BY <1>1
  <2> QED
    BY <2>1, Zenon DEF Requeued
<1>2. CASE o # <<>> /\ left = <<[Head(o) EXCEPT !.orphan = TRUE]>>
  <2>1. Head(o) = o[1] /\ o[1] \in OwedSet
    BY <1>2
  <2> DEFINE h == [Head(o) EXCEPT !.orphan = TRUE]
  <2>2. h \in OwedSet /\ h.op = o[1].op /\ h.want = o[1].want /\ h.stale = o[1].stale /\ h.orphan
    BY <2>1, Zenon DEF OwedSet
  <2> HIDE DEF h
  <2>3. LeftOver(o, h)
    BY <1>2, <2>2 DEF LeftOver
  <2>4. /\ q \in Seq(OwedSet) /\ Len(P) \in Nat /\ DOMAIN P = 1 .. Len(P) /\ q[1] = h
        /\ DOMAIN q = 1 .. Len(P) + 1 /\ \A i \in 1 .. Len(P) + 1 : i > 1 => q[i] = P[i - 1]
    BY <1>2, <2>2 DEF h
  <2>5. ASSUME NEW i \in DOMAIN q
        PROVE  (i = 1 /\ LeftOver(o, q[1])) \/ \E j \in DOMAIN P : q[i] = P[j]
    <3>1. CASE i = 1
      BY <2>3, <2>4, <3>1
    <3>2. CASE i > 1
      <4>1. i - 1 \in DOMAIN P /\ q[i] = P[i - 1]
        BY <2>4, <3>2
      <4> QED
        BY <4>1
    <3> QED
      BY <2>4, <3>1, <3>2
  <2>6. ASSUME NEW j \in DOMAIN P
        PROVE  \E i \in DOMAIN q : q[i] = P[j]
    <3>1. j + 1 \in DOMAIN q /\ q[j + 1] = P[j]
      BY <2>4
    <3> QED
      BY <3>1
  <2> QED
    BY <2>4, <2>5, <2>6, Zenon DEF Requeued
<1> QED
  BY <1>1, <1>2 DEF LeavesOf

\* applyRecovery.
LEMMA AdoptedFacts ==
    ASSUME NEW v, VerdictOK(v), Anchor \in Nat
    PROVE  /\ Adopted(v) \in RecordSet /\ Adopted(v).state = StateFor(v.action)
           /\ Adopted(v).epoch = Anchor /\ Adopted(v).recovered
<1> DEFINE at(s) == [Record(s, Anchor) EXCEPT !.recovered = TRUE]
<1>1. \A s \in States : /\ at(s) \in RecordSet /\ at(s).state = s /\ at(s).epoch = Anchor /\ at(s).recovered
                        /\ \A f \in BOOLEAN : LET r == [at(s) EXCEPT !.fault = f]
                                              IN r \in RecordSet /\ r.state = s /\ r.epoch = Anchor /\ r.recovered
  BY ZenonT(30) DEF Record, RecordSet
<1>2. /\ v.action = "wait" => Adopted(v) = at("unclassified")
      /\ v.action = "approve" => Adopted(v) = at("verified")
      /\ v.action = "backoff" => Adopted(v) = at("backoff")
      /\ v.action = "park" => Adopted(v) = [at("parked") EXCEPT !.fault = v.fault]
      /\ v.action = "hold" => Adopted(v) = at("done")
      /\ v.action \in Releases => Adopted(v) = at("releasing")
  BY DEF Adopted, Releases
<1>3. {"unclassified", "verified", "backoff", "parked", "done", "releasing"} \subseteq States
  BY DEF States
<1>4. v.action \in Actions /\ v.fault \in BOOLEAN
  BY DEF VerdictOK
<1> DEFINE Good(r, t) == r \in RecordSet /\ r.state = t /\ r.epoch = Anchor /\ r.recovered
<1>5. \A t \in States : Good(at(t), t) /\ \A f \in BOOLEAN : Good([at(t) EXCEPT !.fault = f], t)
  BY <1>1
<1>6. /\ v.action = "wait" => StateFor(v.action) = "unclassified"
      /\ v.action = "approve" => StateFor(v.action) = "verified"
      /\ v.action = "backoff" => StateFor(v.action) = "backoff"
      /\ v.action = "park" => StateFor(v.action) = "parked"
      /\ v.action = "hold" => StateFor(v.action) = "done"
      /\ v.action \in Releases => StateFor(v.action) = "releasing"
  BY DEF StateFor, Releases
<1> HIDE DEF at, Good
<1>7. Good(Adopted(v), StateFor(v.action))
  BY <1>2, <1>3, <1>4, <1>5, <1>6 DEF Actions, Releases
<1> QED
  BY <1>7 DEF Good

\* Recover, whatever it finds, is such a step.
LEMMA RecoverSteps ==
    ASSUME TypeOK, AgentOK, Recover
    PROVE  RecoverStep
<1>1. /\ log \in Seq(EventSet) /\ rec \in RecordSet /\ owed \in Seq(OwedSet) /\ marker \in MarkerSet
      /\ Anchor \in Nat
  BY AnchorFacts DEF TypeOK, Anchor
<1>2. /\ rec.state = "unclassified"
      /\ UNCHANGED <<log, base, agents, published, launches, launchedIn, awaiting, queued, company,
                     up, crashes, gestures>>
  BY DEF Recover, world, Still
<1>3. \A left \in Leftovers : LeavesOf(owed, left)
  BY DEF Leftovers, LeavesOf
<1>4. CASE ~Assigned
  <2>1. rec' = NoRecord /\ owed' \in Leftovers /\ marker' = marker
    BY <1>4 DEF Recover
  <2> DEFINE P == <<>>
  <2>2. P \in Seq(OwedSet) /\ DOMAIN P = {} /\ \A l \in Seq(OwedSet) : l \o P = l
    OBVIOUS
  <2> USE <2>2
  <2> HIDE DEF P
  <2>3. LeavesOf(owed, owed')
    BY <1>3, <2>1
  <2>4. owed' \in Seq(OwedSet)
    <3> DEFINE h == [Head(owed) EXCEPT !.orphan = TRUE]
    <3>1. owed # <<>> => Head(owed) \in OwedSet
      BY <1>1
    <3>2. owed # <<>> => h \in OwedSet
      BY <3>1, Zenon DEF OwedSet
    <3>3. owed' = <<>> \/ (owed # <<>> /\ owed' = <<h>>)
      BY <2>3 DEF LeavesOf
    <3> HIDE DEF h
    <3>4. <<>> \in Seq(OwedSet) /\ \A w \in OwedSet : <<w>> \in Seq(OwedSet)
      OBVIOUS
    <3> QED
      BY <3>2, <3>3, <3>4, Zenon
  <2>5. \A i \in DOMAIN owed' : i = 1 /\ LeftOver(owed, owed'[1])
    <3>1. owed' = owed' \o P
      BY <2>4
    <3>2. Requeued(owed, P, owed')
      BY <1>1, <2>3, <3>1, LeftoverFacts, Zenon
    <3> QED
      BY <3>2 DEF Requeued
  <2>6. NoRecord \in RecordSet
    BY DEF NoRecord, Record, RecordSet, States
  <2> QED
    BY <1>1, <1>2, <1>4, <2>1, <2>4, <2>5, <2>6 DEF RecoverStep
<1>5. CASE Assigned
  <2> USE <1>5
  <2> DEFINE v == Classified
             P == Projected(v)
  <2>0. Justified
    BY ClassifiedFacts
  <2>1. VerdictOK(v)
    BY <2>0 DEF Justified
  <2>2. rec' = Adopted(v) /\ \E left \in Leftovers : owed' = left \o P
    BY DEF Recover
  <2>3. /\ marker' \in {marker, [state |-> "absent", by |-> 0]}
        /\ ResolvedMarker = "possibly_live" => marker' = marker
    BY DEF Recover
  <2>4. marker' \in MarkerSet
    BY <1>1, <2>3 DEF MarkerSet
  <2> HIDE DEF v
  <2>5. /\ P \in Seq(OwedSet) /\ \A i \in DOMAIN P : FreshFor(P[i], v)
        /\ v.action = "park" => Len(P) = 1 /\ P[1].op = "set"
    BY <2>1, ProjectedFacts
  <2> USE <2>5
  <2> HIDE DEF P
  <2>6. PICK left \in Leftovers : owed' = left \o P
    BY <2>2
  <2>7. /\ owed' \in Seq(OwedSet)
        /\ \A i \in DOMAIN owed' :
              (i = 1 /\ LeftOver(owed, owed'[1])) \/ \E j \in DOMAIN P : owed'[i] = P[j]
        /\ \A j \in DOMAIN P : \E i \in DOMAIN owed' : owed'[i] = P[j]
    <3>1. LeavesOf(owed, left)
      BY <1>3
    <3>2. owed \in Seq(OwedSet) /\ P \in Seq(OwedSet)
      BY <1>1
    <3>3. Requeued(owed, P, owed')
      BY <2>6, <3>1, <3>2, LeftoverFacts, Zenon
    <3> QED
      BY <3>3 DEF Requeued
  <2> USE <2>7
  <2>8. v.action = "park" => \E i \in DOMAIN owed' : owed'[i].op = "set" /\ FreshFor(owed'[i], v)
    <3> SUFFICES ASSUME v.action = "park" PROVE \E i \in DOMAIN owed' : owed'[i].op = "set" /\ FreshFor(owed'[i], v)
      OBVIOUS
    <3>1. 1 \in DOMAIN P
      OBVIOUS
    <3> QED
      BY <3>1
  <2>9. \A i \in DOMAIN owed' : (i = 1 /\ LeftOver(owed, owed'[1])) \/ FreshFor(owed'[i], v)
    OBVIOUS
  <2>10. rec' \in RecordSet /\ rec'.state = StateFor(v.action) /\ rec'.epoch = Anchor /\ rec'.recovered
    BY <1>1, <2>1, <2>2, AdoptedFacts
  <2> QED
    BY <1>2, <2>0, <2>3, <2>4, <2>8, <2>9, <2>10 DEF RecoverStep, v
<1> QED
  BY <1>4, <1>5

-----------------------------------------------------------------------------
(* The other steps.                                                        *)

\* The requests of a label write and the gestures of people are such steps.
LEMMA LogSteps ==
    ASSUME TypeOK,
           ProjectLabel \/ RemoveStaleLabel \/ WriteFails \/ WriteDone \/ People
    PROVE  LogStep
<1>1. /\ log \in Seq(EventSet) /\ owed \in Seq(OwedSet)
      /\ LabelsOf(log) \subseteq Subjects
  BY LabelsTyped DEF TypeOK
<1>2. \A k \in {"assigned", "unassigned", "closed", "reopened", "labeled", "unlabeled"} :
         \A s \in Subjects : Event(k, s) \in EventSet /\ Event(k, s).kind = k
  BY DEF Event, EventSet
<1>3. KnownLabels \subseteq Subjects /\ StateLabels \subseteq Subjects /\ {"ben", "person"} \subseteq Subjects
  BY DEF Subjects, StateLabels, KnownLabels
<1>4. owed # <<>> => /\ Head(owed) \in OwedSet
                     /\ Head(owed).want \in KnownLabels \cup {"none"}
                     /\ Head(owed).stale \subseteq Subjects
  <2>1. owed # <<>> => Head(owed) \in OwedSet
    BY <1>1
  <2> QED
    BY <2>1 DEF OwedSet
<1>5. CASE ProjectLabel
  <2>1. UNCHANGED <<rec, base, marker, agents, published, up, launches, launchedIn, crashes>>
    BY <1>5 DEF ProjectLabel, disk, world
  <2>2. log' = log \/ (Head(owed).want \in KnownLabels /\ log' = Append(log, Event("labeled", Head(owed).want)))
    BY <1>4, <1>5 DEF ProjectLabel, Append1
  <2> QED
    BY <1>2, <1>3, <2>1, <2>2 DEF LogStep
<1>6. CASE RemoveStaleLabel
  <2>1. UNCHANGED <<rec, base, marker, agents, published, up, launches, launchedIn, crashes>>
    BY <1>6 DEF RemoveStaleLabel, disk, world
  <2>2. log' = log \/ \E l \in Subjects : log' = Append(log, Event("unlabeled", l))
    BY <1>4, <1>6 DEF RemoveStaleLabel, Append1
  <2> QED
    BY <1>2, <2>1, <2>2 DEF LogStep
<1>7. CASE WriteFails \/ WriteDone
  BY <1>7 DEF WriteFails, WriteDone, disk, world, LogStep
<1>8. CASE People
  <2>1. UNCHANGED <<rec, base, marker, agents, published, up, launches, launchedIn, crashes>>
    BY <1>8, ZenonT(30) DEF People, Unassign, Assign, CloseOrReopen, Relabel, Requeue, Join, Gesture, disk, world
  <2>2. \/ log' = log \/ log' = Append(log, Event("unassigned", "person"))
        \/ log' = Append(log, Event("assigned", "person")) /\ ~Assigned
        \/ log' = Append(log, Event("closed", "person")) \/ log' = Append(log, Event("reopened", "person"))
        \/ \E l \in Subjects : log' = Append(log, Event("unlabeled", l))
        \/ \E l \in Subjects : log' = Append(log, Event("labeled", l))
    BY <1>1, <1>3, <1>8 DEF People, Unassign, Assign, CloseOrReopen, Relabel, Requeue, Join, Append1
  <2> QED
    BY <1>2, <1>3, <2>1, <2>2 DEF LogStep
<1> QED
  BY <1>5, <1>6, <1>7, <1>8

\* The answer of runner.Start is a launch or a move.
LEMMA StartedSteps ==
    ASSUME Types, OnStarted
    PROVE  Launch \/ Move
<1>0. /\ rec \in RecordSet /\ owed \in Seq(OwedSet) /\ base \in BaseSet /\ marker \in MarkerSet
      /\ launches \in 0 .. MaxRuns
  BY DEF Types, TypeOK
<1> USE <1>0
<1>1. /\ rec.state = "launching"
      /\ UNCHANGED <<log, base, published, launches, awaiting, queued, company, up, crashes, gestures>>
  BY DEF OnStarted, Still
<1> USE <1>1
<1>2. base = PinnedBase(rec.epoch) /\ rec.epoch > 0
  BY DEF Types, PinOK, EpochOK
<1>3. CASE /\ marker' = [state |-> "identified", by |-> rec.run]
           /\ agents' = agents \cup {[run |-> rec.run, epoch |-> rec.epoch]}
           /\ launchedIn' = launchedIn \cup {rec.epoch}
           /\ rec' = [rec EXCEPT !.state = "running", !.recovered = FALSE]
           /\ owed' = Append(owed, SetLabel("running"))
  <2> USE <1>3
  <2>1. /\ rec' \in RecordSet /\ rec'.state = "running" /\ rec'.epoch = rec.epoch /\ rec'.run = rec.run
        /\ ~rec'.recovered
    BY Zenon DEF RecordSet, States
  <2>2. Fresh(SetLabel("running"), "running")
    BY OwesAre DEF KnownLabels, NeedsReview
  <2>3. OwedMove(owed, owed', "running")
    BY <2>2, OwedOne
  <2> QED
    BY <2>1, <2>3 DEF Launch
<1>4. CASE marker' = [state |-> "absent", by |-> 0] /\ FailLaunch /\ UNCHANGED <<agents, launchedIn>>
  <2> USE <1>4
  <2>1. /\ rec' \in RecordSet /\ rec'.state \in {"backoff", "failed", "parked"}
        /\ rec'.epoch = rec.epoch /\ rec'.recovered = rec.recovered
        /\ OwedMove(owed, owed', rec'.state)
    BY FailMoves
  <2>2. marker' \in MarkerSet
    BY DEF MarkerSet
  <2> QED
    BY <1>2, <2>1, <2>2, ZenonT(30) DEF Move, Working, Labelled, Unstarted
<1> QED
  BY <1>3, <1>4 DEF OnStarted

\* Every step is one of these.
LEMMA Steps ==
    ASSUME Reads, [Next]_vars
    PROVE  Step
<1> USE DEF Reads, Step
<1>1. CASE WriteStep \/ People
  BY <1>1, LogSteps DEF WriteStep
<1>2. CASE Recover
  BY <1>2, RecoverSteps
<1>3. CASE up /\ OnStarted
  BY <1>3, StartedSteps DEF Types
<1>4. CASE up /\ (\/ OnApproved \/ OnClaimBaseBegun \/ OnClaimProjected \/ OnPrepared \/ BeginRunMarker
                  \/ OnRunEnded \/ OnVerified \/ Reconcile \/ OnTimerFetched \/ OnParkedConfirmed
                  \/ Forget \/ ConvertToHeld \/ SweepHeld)
  BY <1>4, Moves DEF Types
<1> QED
  BY <1>1, <1>2, <1>3, <1>4 DEF Next, Writing, Running, WriteStep

-----------------------------------------------------------------------------
(* The theorems.                                                           *)

\* The invariant holds at the start.
LEMMA InvInit == Init => Inv
<1> SUFFICES ASSUME Init PROVE Inv
  OBVIOUS
<1>1. /\ queued = TRUE /\ company = "none"
      /\ agents = {} /\ published = 0 /\ up = TRUE /\ rec = NoRecord
      /\ launches = 0 /\ crashes = 0 /\ gestures = 0 /\ launchedIn = {} /\ awaiting = FALSE
  BY DEF Init
<1> USE <1>1
<1>2. log \in Seq(EventSet) /\ Len(log) = 0 /\ DOMAIN log = {}
  <2>1. log = <<>>
    BY DEF Init
  <2> QED
    BY <2>1
<1> USE <1>2
<1>3. owed \in Seq(OwedSet) /\ DOMAIN owed = {}
  <2>1. owed = <<>>
    BY DEF Init
  <2> QED
    BY <2>1
<1>4. base \in BaseSet /\ base.state = "absent" /\ base.epoch = 0 /\ base.outgoing = 0
  BY DEF Init, AbsentBase, BaseSet
<1>5. marker \in MarkerSet
  BY DEF Init, MarkerSet
<1>6. Anchor = 0 /\ ~Assigned /\ ~Own(log, Anchor)
  <2>1. Anchor \in Nat /\ Anchor <= Len(log)
    BY AnchorFacts, Zenon DEF Anchor
  <2>2. Anchor = 0
    BY <2>1
  <2> QED
    BY <2>2 DEF Assigned, Own
<1>7. MaxRuns \in Nat /\ MaxCrashes \in Nat /\ MaxGestures \in Nat
  BY BoundsAssumption
<1>8. TypeOK
  <2>1. /\ queued \in BOOLEAN /\ company \in {"none", "earlier", "later", "unordered"}
        /\ agents \subseteq [run : Nat, epoch : Nat] /\ published \in Nat /\ rec \in RecordSet
        /\ up \in BOOLEAN /\ up /\ launchedIn \subseteq Nat /\ awaiting \in BOOLEAN
    BY RecordsAre, Zenon
  <2>2. launches \in 0 .. MaxRuns /\ crashes \in 0 .. MaxCrashes /\ gestures \in 0 .. MaxGestures
    BY <1>7
  <2> QED
    BY <1>3, <1>4, <1>5, <2>1, <2>2 DEF TypeOK
<1>9. EpochOK /\ PinOK /\ AgentOK
  <2>1. EpochOK
    BY <1>4, <1>6, RecordsAre DEF EpochOK
  <2>2. PinOK
    BY <1>4, <1>6, RecordsAre DEF PinOK
  <2>3. AgentOK
    BY DEF AgentOK
  <2> QED
    BY <2>1, <2>2, <2>3
<1>10. OwedOK /\ AwaitOK
  BY <1>3 DEF OwedOK, AwaitOK, Settled
<1>11. LabelOK /\ PubOK /\ LostOK
  BY <1>6, RecordsAre DEF LabelOK, PubOK, LostOK
<1> QED
  BY <1>8, <1>9, <1>10, <1>11 DEF Inv

\* Every step keeps it.
LEMMA InvStep == Inv /\ [Next]_vars => Inv'
<1> SUFFICES ASSUME Inv, [Next]_vars PROVE Inv'
  OBVIOUS
<1>1. Reads /\ LabelOK /\ PubOK /\ AwaitOK /\ LostOK
  BY DEF Inv, Reads
<1> USE <1>1
<1> Step
  BY Steps
<1>2. TypeOK'
  BY TypeStep
<1> USE <1>2
<1>3. EpochOK' /\ PinOK' /\ AgentOK' /\ OwedOK'
  BY EpochStep, PinStep, AgentStep, OwedStep
<1>4. LabelOK' /\ PubOK' /\ AwaitOK' /\ LostOK'
  BY <1>3, LabelStep, PubStep, AwaitStep, LostStep
<1> QED
  BY <1>3, <1>4 DEF Inv

\* The inductive invariant, for every number of crashes, launches and gestures.
THEOREM ClaimLifeInductive == Spec => []Inv
BY InvInit, InvStep, PTL DEF Spec

\* The agents of an epoch nobody took away are the one its marker names.
LEMMA InvShared == Inv => SharedOnlyAfterUnassign
<1> SUFFICES ASSUME Inv, ~\E i \in DOMAIN log : log[i] = Event("unassigned", "person")
             PROVE  \A a, b \in agents : a = b
  BY DEF SharedOnlyAfterUnassign
<1>1. \A a \in agents : a.epoch = Anchor /\ marker = [state |-> "identified", by |-> a.run]
  BY DEF Inv, AgentOK, TakenAfter
<1>2. agents \subseteq [run : Nat, epoch : Nat]
  BY DEF Inv, TypeOK
<1> SUFFICES ASSUME NEW a \in agents, NEW b \in agents PROVE a = b
  OBVIOUS
<1>3. a.epoch = b.epoch /\ a.run = b.run
  BY <1>1
<1> QED
  BY <1>2, <1>3

\* The other properties are read off the invariant.
LEMMA InvGives ==
    Inv => TypeOK /\ FreshStartMeansNoLaunch /\ PublishedIsNotRepeated /\ ParkedWaitsForPerson /\ NoLostClaim
<1> SUFFICES ASSUME Inv
             PROVE  TypeOK /\ FreshStartMeansNoLaunch /\ PublishedIsNotRepeated /\ ParkedWaitsForPerson
                      /\ NoLostClaim
  OBVIOUS
<1>1. TypeOK /\ FreshStartMeansNoLaunch
  BY DEF Inv, LabelOK, FreshStartMeansNoLaunch
<1>2. PublishedIsNotRepeated
  BY DEF Inv, PubOK, PublishedIsNotRepeated, ReviewTakenOff, NeedsReview
<1>3. ParkedWaitsForPerson
  BY DEF Inv, AwaitOK, ParkedWaitsForPerson
<1>4. NoLostClaim
  BY RecordsAre DEF Inv, LostOK, NoLostClaim
<1> QED
  BY <1>1, <1>2, <1>3, <1>4

\* Every variable keeps its type: a pending claim base always carries an older
\* epoch's pin than its own, and a daemon that is down has neither a record nor
\* anything owed.
THEOREM ClaimLifeTypes == Spec => []TypeOK
BY ClaimLifeInductive, InvGives, PTL

\* Two agents share the workspace only after a person took the claim away,
\* however often the daemon dies and whatever else people do.
THEOREM NoSharingByRecovery == Spec => []SharedOnlyAfterUnassign
BY ClaimLifeInductive, InvShared, PTL

\* Recovery takes a claim the daemon made for fresh only if no agent was ever
\* launched for it.
THEOREM FreshStartIsRight == Spec => []FreshStartMeansNoLaunch
BY ClaimLifeInductive, InvGives, PTL

\* Recovery re-dispatches published work only after a person took
\* ben:needs-review off.
THEOREM PublishedWorkIsKept == Spec => []PublishedIsNotRepeated
BY ClaimLifeInductive, InvGives, PTL

\* A parked claim whose label people were shown is not worked on until one of
\* them takes it off, over any number of restarts.
THEOREM ParkedIsLeftAlone == Spec => []ParkedWaitsForPerson
BY ClaimLifeInductive, InvGives, PTL

\* While the daemon is up, a record answers for every claim it made.
THEOREM ClaimsAreNotLost == Spec => []NoLostClaim
BY ClaimLifeInductive, InvGives, PTL
=============================================================================
