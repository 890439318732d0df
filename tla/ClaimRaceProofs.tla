-------------------------- MODULE ClaimRaceProofs --------------------------
(***************************************************************************)
(* At most one daemon holds the issue, for any sets of daemons and people, *)
(* any number of events and any number of failed requests and crashes.     *)
(*                                                                         *)
(* The argument: event ids order the standing assignments totally, a       *)
(* holder's is earlier than every other party's, and a daemon about to     *)
(* arbitrate knows of every party that could be earlier than itself.       *)
(***************************************************************************)
EXTENDS ClaimRace, TLAPS

USE SMTT(30), ZenonT(30)

\* The assignment of d, if it stands, is earlier than those of all others in among.
Earliest(d, among) ==
    \A e \in among \ {d} : since[e] > 0 => since[d] < since[e]

\* The log is consistent with the issue: ids are distinct and bounded, only an
\* assignee stands, and a daemon that is an assignee does.
LogOK ==
    /\ \A p \in Parties : since[p] <= last /\ (since[p] > 0 => p \in assignees)
    /\ \A p, q \in Parties : p # q /\ since[p] > 0 => since[p] # since[q]
    /\ \A d \in Daemons : d \in assignees => since[d] > 0

\* A holder nobody unassigned is the earliest of all parties.
HolderOK ==
    \A d \in Daemons : st[d] \in Holders /\ ~revoked[d] =>
        since[d] > 0 /\ Earliest(d, Parties)

\* A daemon about to arbitrate is earlier than every party its read left out.
ReadOK ==
    \A d \in Daemons : st[d] \in {"race", "classify"} /\ ~revoked[d] =>
        since[d] > 0 /\ Earliest(d, Parties \ snap[d])

\* The inductive invariant.
Inv == TypeOK /\ LogOK /\ HolderOK /\ ReadOK

-----------------------------------------------------------------------------
\* A claim that was arbitrated as ours is the earliest of all.
LEMMA WinnerIsEarliest ==
    ASSUME Inv, NEW d \in Daemons, since[d] > 0, Wins(d, snap[d]),
           Earliest(d, Parties \ snap[d])
    PROVE  Earliest(d, Parties)
BY DEF Inv, TypeOK, LogOK, Wins, Earliest, Parties

\* A sole assignee is the earliest of all parties.
LEMMA SoleIsEarliest ==
    ASSUME Inv, NEW d \in Daemons, assignees = {d}
    PROVE  since[d] > 0 /\ Earliest(d, Parties)
BY DEF Inv, TypeOK, LogOK, Earliest, Parties

-----------------------------------------------------------------------------
\* Every step keeps the types.
LEMMA TypeStep == TypeOK /\ [Next]_vars => TypeOK'
<1> SUFFICES ASSUME TypeOK, [Next]_vars PROVE TypeOK'
  OBVIOUS
<1> USE PartiesAssumption DEF TypeOK, Parties, Stages, tracker, history, vars, Move, Fault
<1>1. ASSUME NEW d \in Daemons, Poll(d) \/ Race(d) \/ Reconcile(d) \/ Publish(d) \/ Fail(d)
                 \/ SweepHeld(d) \/ SweepParked(d) \/ Crash(d) \/ Classify(d)
      PROVE  TypeOK'
  <2>1. CASE Poll(d)
    BY <2>1 DEF Poll
  <2>2. CASE Race(d)
    BY <2>2 DEF Race
  <2>3. CASE Reconcile(d)
    BY <2>3 DEF Reconcile
  <2>4. CASE Publish(d)
    BY <2>4 DEF Publish
  <2>5. CASE Fail(d)
    BY <2>5 DEF Fail
  <2>6. CASE SweepHeld(d)
    BY <2>6 DEF SweepHeld
  <2>7. CASE SweepParked(d)
    BY <2>7 DEF SweepParked
  <2>8. CASE Crash(d)
    BY <2>8 DEF Crash
  <2>9. CASE Classify(d)
    BY <2>9 DEF Classify
  <2> QED
    BY <1>1, <2>1, <2>2, <2>3, <2>4, <2>5, <2>6, <2>7, <2>8, <2>9
<1>2. ASSUME NEW d \in Daemons, Assign(d)
      PROVE  TypeOK'
  <2>1. AddAssignee(d) => assignees' \subseteq Parties /\ seen' \subseteq Parties
                            /\ since' \in [Parties -> Nat] /\ last' \in Nat
    BY DEF AddAssignee
  <2>2. (d \in assignees /\ outside[d]) \in BOOLEAN
    OBVIOUS
  <2>3. outside' \in [Daemons -> BOOLEAN]
    BY <1>2, <2>2, ZenonT(30) DEF Assign
  <2>4. revoked' \in [Daemons -> BOOLEAN] /\ open' \in BOOLEAN
          /\ publisher' \in Daemons \cup {None} /\ snap' \in [Daemons -> SUBSET Parties]
    BY <1>2, ZenonT(30) DEF Assign
  <2>5. st' \in [Daemons -> Stages] /\ faults' \in Nat
    BY <1>2 DEF Assign
  <2>6. assignees' \subseteq Parties /\ seen' \subseteq Parties
          /\ since' \in [Parties -> Nat] /\ last' \in Nat
    BY <1>2, <2>1 DEF Assign
  <2> QED
    BY <2>3, <2>4, <2>5, <2>6
<1>3. ASSUME NEW d \in Daemons, ReadBack(d)
      PROVE  TypeOK'
  BY <1>3 DEF ReadBack
<1>4. ASSUME NEW d \in Daemons, Unwind(d) \/ Yield(d) \/ Release(d)
      PROVE  TypeOK'
  <2>1. Unassigned(d) =>
          /\ assignees' \subseteq Parties /\ seen' \subseteq Parties
          /\ since' \in [Parties -> Nat] /\ last' \in Nat
          /\ open' \in BOOLEAN /\ revoked' \in [Daemons -> BOOLEAN]
          /\ outside' \in [Daemons -> BOOLEAN] /\ publisher' \in Daemons \cup {None}
    BY DEF Unassigned, RemoveAssignee
  <2>2. CASE Unwind(d)
    BY <2>1, <2>2 DEF Unwind
  <2>3. CASE Yield(d)
    BY <2>1, <2>3 DEF Yield
  <2>4. CASE Release(d)
    BY <2>1, <2>4 DEF Release
  <2> QED
    BY <1>4, <2>2, <2>3, <2>4
<1>5. ASSUME NEW d \in Daemons, Restart(d)
      PROVE  TypeOK'
  BY <1>5 DEF Restart
<1>6. ASSUME NEW p \in Parties, PersonAssigns(p)
      PROVE  TypeOK'
  BY <1>6 DEF PersonAssigns, AddAssignee
<1>7. ASSUME NEW p \in Parties, PersonUnassigns(p)
      PROVE  TypeOK'
  BY <1>7, ZenonT(30) DEF PersonUnassigns, RemoveAssignee
<1>8. CASE PersonCloses
  BY <1>8, ZenonT(30) DEF PersonCloses
<1>9. CASE UNCHANGED vars
  BY <1>9
<1> QED
  BY <1>1, <1>2, <1>3, <1>4, <1>5, <1>6, <1>7, <1>8, <1>9 DEF Next, Step

\* The model's state keeps its types.
THEOREM TypeCorrect == Spec => []TypeOK
<1>1. Init => TypeOK
  BY PartiesAssumption DEF Init, TypeOK, Stages, Parties
<1> QED
  BY <1>1, TypeStep, PTL DEF Spec

-----------------------------------------------------------------------------
\* What a step may do to the assignment of p: keep it, end it or make it anew.
Kept(p) == since'[p] = since[p] \/ since'[p] = 0 \/ since'[p] > last

\* A standing assignment that is kept stays ahead of those it was ahead of.
LEMMA EarliestKept ==
    ASSUME TypeOK, TypeOK', LogOK, NEW d \in Daemons, NEW among \in SUBSET Parties,
           since[d] > 0, since'[d] = since[d], Earliest(d, among),
           \A p \in Parties : Kept(p)
    PROVE  since'[d] > 0 /\ Earliest(d, among)'
BY DEF TypeOK, LogOK, Earliest, Kept, Parties

\* AddAssignee keeps the log consistent and every standing assignment.
LEMMA AddKeeps ==
    ASSUME TypeOK, LogOK, NEW p \in Parties, AddAssignee(p)
    PROVE  /\ LogOK' /\ \A q \in Parties : Kept(q)
           /\ \A q \in Parties : since[q] > 0 => since'[q] = since[q]
BY DEF TypeOK, LogOK, AddAssignee, Kept, Parties

\* RemoveAssignee keeps the log consistent and every other assignment.
LEMMA RemoveKeeps ==
    ASSUME TypeOK, LogOK, NEW p \in Parties, RemoveAssignee(p)
    PROVE  /\ LogOK' /\ \A q \in Parties : Kept(q)
           /\ \A q \in Parties \ {p} : since'[q] = since[q]
BY DEF TypeOK, LogOK, RemoveAssignee, Kept, Parties

\* A step that leaves the tracker alone keeps the log as it is.
LEMMA QuietKeeps ==
    ASSUME TypeOK, LogOK, UNCHANGED <<assignees, since, last>>
    PROVE  /\ LogOK' /\ \A q \in Parties : Kept(q)
           /\ \A q \in Parties : since'[q] = since[q]
BY DEF TypeOK, LogOK, Kept, Parties

\* A daemon whose own step this is not, and whose assignment nobody took away,
\* keeps what HolderOK and ReadOK say of it.
LEMMA BystanderKeeps ==
    ASSUME Inv, TypeOK', NEW d \in Daemons, \A q \in Parties : Kept(q),
           since[d] > 0 => since'[d] = since[d],
           st'[d] = st[d], snap'[d] = snap[d], revoked'[d] = revoked[d]
    PROVE  /\ st'[d] \in Holders /\ ~revoked'[d] => since'[d] > 0 /\ Earliest(d, Parties)'
           /\ st'[d] \in {"race", "classify"} /\ ~revoked'[d] =>
                since'[d] > 0 /\ Earliest(d, Parties \ snap[d])'
<1>1. ASSUME st[d] \in Holders, ~revoked[d]
      PROVE  since'[d] > 0 /\ Earliest(d, Parties)'
  <2>1. since[d] > 0 /\ Earliest(d, Parties)
    BY <1>1 DEF Inv, HolderOK
  <2> QED
    BY <2>1, EarliestKept DEF Inv
<1>2. ASSUME st[d] \in {"race", "classify"}, ~revoked[d]
      PROVE  since'[d] > 0 /\ Earliest(d, Parties \ snap[d])'
  <2>1. since[d] > 0 /\ Earliest(d, Parties \ snap[d])
    BY <1>2 DEF Inv, ReadOK
  <2> QED
    BY <1>2, <2>1, EarliestKept, ZenonT(30) DEF Inv, Earliest
<1> QED
  BY <1>1, <1>2

-----------------------------------------------------------------------------
\* What HolderOK and ReadOK say of one daemon.
Good(d) ==
    /\ st[d] \in Holders /\ ~revoked[d] => since[d] > 0 /\ Earliest(d, Parties)
    /\ st[d] \in {"race", "classify"} /\ ~revoked[d] =>
         since[d] > 0 /\ Earliest(d, Parties \ snap[d])

\* A daemon's own step touches no other daemon's record, and assigns none of them.
LEMMA Bystanders ==
    ASSUME TypeOK, NEW d \in Daemons, Step(d), NEW x \in Daemons \ {d}
    PROVE  /\ st'[x] = st[x] /\ snap'[x] = snap[x]
           /\ revoked'[x] = revoked[x] /\ outside'[x] = outside[x]
           /\ x \in assignees' => x \in assignees
<1> USE DEF TypeOK, Move, tracker, history
<1>1. CASE Poll(d) \/ ReadBack(d) \/ Race(d) \/ Reconcile(d)
  BY <1>1 DEF Poll, ReadBack, Race, Reconcile
<1>2. CASE Publish(d) \/ Fail(d) \/ SweepHeld(d) \/ SweepParked(d)
  BY <1>2 DEF Publish, Fail, SweepHeld, SweepParked
<1>3. CASE Crash(d) \/ Restart(d) \/ Classify(d)
  BY <1>3 DEF Crash, Restart, Classify
<1>4. CASE Assign(d)
  BY <1>4 DEF Assign, AddAssignee
<1>5. CASE Unwind(d) \/ Yield(d)
  BY <1>5 DEF Unwind, Yield, Unassigned, RemoveAssignee
<1>6. CASE Release(d)
  BY <1>6 DEF Release, Unassigned, RemoveAssignee
<1> QED
  BY <1>1, <1>2, <1>3, <1>4, <1>5, <1>6 DEF Step

\* A daemon's own step keeps the log and leaves every daemon good.
LEMMA DaemonStep ==
    ASSUME Inv, TypeOK', NEW d \in Daemons, Step(d)
    PROVE  LogOK' /\ \A x \in Daemons : Good(x)'
<1> USE DEF Move, Holders, tracker, history
<1>1. d \in Parties /\ TypeOK /\ LogOK
  BY DEF Inv, Parties
<1>2. \A x \in Daemons \ {d} : st'[x] = st[x] /\ snap'[x] = snap[x] /\ revoked'[x] = revoked[x]
  BY <1>1, Bystanders
<1>3. AddAssignee(d) \/ RemoveAssignee(d) \/ UNCHANGED <<assignees, since, last>>
  BY DEF Step, Poll, Assign, ReadBack, Race, Unwind, Yield, Release, Reconcile,
       Publish, Fail, SweepHeld, SweepParked, Crash, Restart, Classify, Unassigned
<1>4. /\ LogOK' /\ \A q \in Parties : Kept(q)
      /\ \A q \in Parties \ {d} : since[q] > 0 => since'[q] = since[q]
  BY <1>1, <1>3, AddKeeps, RemoveKeeps, QuietKeeps
<1>5. ASSUME NEW x \in Daemons \ {d}
      PROVE  Good(x)'
  <2>1. x \in Parties \ {d} /\ x \in Daemons
    BY DEF Parties
  <2>2. st'[x] = st[x] /\ snap'[x] = snap[x] /\ revoked'[x] = revoked[x]
    BY <1>2
  <2>3. since[x] > 0 => since'[x] = since[x]
    BY <1>4, <2>1
  <2> QED
    BY <1>4, <2>1, <2>2, <2>3, BystanderKeeps DEF Good
<1>6. Good(d)'
  <2>1. CASE Assign(d)
    <3>1. st'[d] \in {"idle", "verify", "unwind"}
      BY <1>1, <2>1 DEF Assign, TypeOK
    <3> QED
      BY <3>1 DEF Good
  <2>2. CASE Unwind(d) \/ Yield(d) \/ Release(d)
    <3>1. st'[d] \in {"idle", "releasing"}
      BY <1>1, <2>2 DEF Unwind, Yield, Release, TypeOK
    <3> QED
      BY <3>1 DEF Good
  <2>3. CASE Poll(d) \/ Reconcile(d) \/ Fail(d) \/ SweepHeld(d) \/ Crash(d)
    <3>1. st'[d] \in {"assign", "releasing", "parked", "idle", "down"}
      BY <1>1, <2>3 DEF Poll, Reconcile, Fail, SweepHeld, Crash, TypeOK
    <3> QED
      BY <3>1 DEF Good
  <2>4. CASE ReadBack(d)
    <3>1. CASE st'[d] = "holding"
      <4>1. assignees = {d} /\ since' = since
        BY <1>1, <2>4, <3>1 DEF ReadBack, TypeOK
      <4> QED
        BY <3>1, <4>1, SoleIsEarliest DEF Good, Earliest
    <3>2. CASE st'[d] = "race"
      <4>1. since' = since /\ snap'[d] = assignees /\ d \in assignees
        BY <1>1, <2>4, <3>2 DEF ReadBack, TypeOK
      <4>2. since[d] > 0 /\ \A e \in Parties \ assignees : since[e] = 0
        BY <1>1, <4>1 DEF LogOK, TypeOK, Parties
      <4> QED
        BY <3>2, <4>1, <4>2 DEF Good, Earliest
    <3>3. CASE st'[d] \in {"releasing", "unwind", "idle"}
      BY <3>3 DEF Good
    <3> QED
      BY <1>1, <2>4, <3>1, <3>2, <3>3 DEF ReadBack, TypeOK
  <2>5. CASE Race(d)
    <3>1. CASE st'[d] = "holding"
      <4>1. st[d] = "race" /\ Wins(d, snap[d]) /\ since' = since /\ revoked' = revoked
        BY <1>1, <2>5, <3>1 DEF Race, TypeOK
      <4>2. CASE ~revoked[d]
        <5>1. since[d] > 0 /\ Earliest(d, Parties)
          BY <4>1, <4>2, WinnerIsEarliest, ZenonT(30) DEF Inv, ReadOK
        <5> QED
          BY <3>1, <4>1, <5>1 DEF Good, Earliest
      <4> QED
        BY <3>1, <4>1, <4>2 DEF Good
    <3>2. CASE st'[d] = "yield"
      BY <3>2 DEF Good
    <3> QED
      BY <1>1, <2>5, <3>1, <3>2 DEF Race, TypeOK
  <2>6. CASE Publish(d)
    <3>1. st[d] \in Holders /\ st'[d] \in Holders /\ since' = since /\ revoked' = revoked
      BY <1>1, <2>6 DEF Publish, TypeOK
    <3>2. st'[d] = "published"
      BY <1>1, <2>6 DEF Publish, TypeOK
    <3> QED
      BY <3>1, <3>2 DEF Inv, HolderOK, Good, Earliest
  <2>7. CASE SweepParked(d)
    <3>1. since' = since
      BY <2>7 DEF SweepParked
    <3>2. (st'[d] = "holding" /\ assignees = {d}) \/ st'[d] \in {"idle", "releasing"}
      BY <1>1, <2>7 DEF SweepParked, TypeOK
    <3> QED
      BY <3>1, <3>2, SoleIsEarliest DEF Good, Earliest
  <2>8. CASE Restart(d)
    <3>1. since' = since
      BY <2>8 DEF Restart
    <3>2. CASE d \in assignees
      <4>1. st'[d] = "classify" /\ snap'[d] = assignees
        BY <1>1, <2>8, <3>2 DEF Restart, TypeOK
      <4>2. since[d] > 0 /\ \A e \in Parties \ assignees : since[e] = 0
        BY <1>1, <3>2 DEF LogOK, TypeOK, Parties
      <4> QED
        BY <3>1, <4>1, <4>2 DEF Good, Earliest
    <3>3. CASE d \notin assignees
      <4>1. st'[d] = "idle"
        BY <1>1, <2>8, <3>3 DEF Restart, TypeOK
      <4> QED
        BY <4>1 DEF Good
    <3> QED
      BY <3>2, <3>3
  <2>9. CASE Classify(d)
    <3>1. since' = since /\ revoked' = revoked /\ st[d] = "classify"
      BY <2>9 DEF Classify
    <3>2. CASE st'[d] \in Holders
      <4>1. Wins(d, snap[d]) \/ snap[d] = {d}
        BY <1>1, <2>9, <3>2 DEF Classify, TypeOK, Wins
      <4>2. CASE ~revoked[d]
        <5>1. since[d] > 0 /\ Earliest(d, Parties \ snap[d])
          BY <3>1, <4>2 DEF Inv, ReadOK
        <5>2. Wins(d, snap[d])
          BY <1>1, <4>1, <5>1 DEF Wins, TypeOK
        <5>3. Earliest(d, Parties)
          BY <5>1, <5>2, WinnerIsEarliest
        <5> QED
          BY <3>1, <3>2, <5>1, <5>3 DEF Good, Earliest
      <4> QED
        BY <3>1, <3>2, <4>2 DEF Good
    <3>3. CASE st'[d] \in {"releasing", "parked"}
      BY <3>3 DEF Good
    <3> QED
      BY <1>1, <2>9, <3>2, <3>3 DEF Classify, TypeOK
  <2> QED
    BY <2>1, <2>2, <2>3, <2>4, <2>5, <2>6, <2>7, <2>8, <2>9 DEF Step
<1> QED
  BY <1>4, <1>5, <1>6

\* A person's step keeps the log and leaves every daemon good.
LEMMA PersonStep ==
    ASSUME Inv, TypeOK',
           (\E p \in Parties : PersonAssigns(p) \/ PersonUnassigns(p)) \/ PersonCloses
    PROVE  LogOK' /\ \A x \in Daemons : Good(x)'
<1>1. TypeOK /\ LogOK
  BY DEF Inv
<1>2. ASSUME NEW p \in Parties, PersonAssigns(p)
      PROVE  LogOK' /\ \A x \in Daemons : Good(x)'
  <2>1. /\ LogOK' /\ \A q \in Parties : Kept(q)
        /\ \A q \in Parties : since[q] > 0 => since'[q] = since[q]
    <3>1. CASE AddAssignee(p)
      BY <1>1, <3>1, AddKeeps
    <3>2. CASE p \in People /\ assignees' = assignees \cup {p} /\ UNCHANGED <<since, seen, last>>
      BY <1>1, <3>2, PartiesAssumption DEF TypeOK, LogOK, Kept, Parties
    <3> QED
      BY <1>2, <3>1, <3>2 DEF PersonAssigns
  <2>2. UNCHANGED <<st, snap, revoked>>
    BY <1>2 DEF PersonAssigns
  <2> QED
    BY <2>1, <2>2, BystanderKeeps DEF Good, Parties
<1>3. ASSUME NEW p \in Parties, PersonUnassigns(p)
      PROVE  LogOK' /\ \A x \in Daemons : Good(x)'
  <2>1. /\ LogOK' /\ \A q \in Parties : Kept(q)
        /\ \A q \in Parties \ {p} : since'[q] = since[q]
    BY <1>1, <1>3, RemoveKeeps DEF PersonUnassigns
  <2>2. UNCHANGED <<st, snap>>
    BY <1>3 DEF PersonUnassigns
  <2>3. ASSUME NEW x \in Daemons, x # p
        PROVE  Good(x)'
    <3>1. revoked'[x] = revoked[x]
      BY <1>1, <1>3, <2>3 DEF PersonUnassigns, TypeOK, history
    <3> QED
      BY <2>1, <2>2, <2>3, <3>1, BystanderKeeps DEF Good, Parties
  <2>4. ASSUME p \in Daemons
        PROVE  Good(p)'
    <3>1. revoked'[p]
      BY <1>1, <1>3, <2>4 DEF PersonUnassigns, TypeOK
    <3> QED
      BY <3>1 DEF Good
  <2> QED
    BY <2>1, <2>3, <2>4
<1>4. CASE PersonCloses
  <2>1. UNCHANGED <<assignees, since, last, st, snap, revoked>>
    BY <1>4 DEF PersonCloses, history
  <2> QED
    BY <1>1, <2>1, QuietKeeps, BystanderKeeps DEF Good, Parties
<1> QED
  BY <1>2, <1>3, <1>4

\* The invariant is inductive.
LEMMA InvStep == Inv /\ [Next]_vars => Inv'
<1> SUFFICES ASSUME Inv, [Next]_vars PROVE Inv'
  OBVIOUS
<1>1. TypeOK'
  BY TypeStep DEF Inv
<1>2. LogOK' /\ \A x \in Daemons : Good(x)'
  <2>1. CASE UNCHANGED vars
    <3>1. UNCHANGED <<assignees, since, last, st, snap, revoked>>
      BY <2>1 DEF vars, tracker, history
    <3> QED
      BY <1>1, <3>1, QuietKeeps, BystanderKeeps DEF Inv, Good, Parties
  <2> QED
    BY <1>1, <2>1, DaemonStep, PersonStep DEF Next
<1> QED
  BY <1>1, <1>2, ZenonT(30) DEF Inv, HolderOK, ReadOK, Good

\* The invariant holds in every reachable state.
LEMMA InvHolds == Spec => []Inv
<1>1. Init => Inv
  BY PartiesAssumption DEF Init, Inv, TypeOK, LogOK, HolderOK, ReadOK, Stages, Parties, Holders
<1> QED
  BY <1>1, InvStep, PTL DEF Spec

\* At most one daemon works on the issue: two hold it at once only if a person
\* unassigned one of them (Claim, wonRace and classifyRecoveryTrackerGates).
THEOREM OneHolder == Spec => []AtMostOneHolder
<1>1. Inv => AtMostOneHolder
  <2> SUFFICES ASSUME Inv, NEW d \in Daemons, NEW e \in Daemons, d # e,
                      st[d] \in Holders, st[e] \in Holders, ~revoked[d], ~revoked[e]
               PROVE  FALSE
    BY DEF AtMostOneHolder, Inv, TypeOK
  <2>1. since[d] > 0 /\ since[e] > 0 /\ Earliest(d, Parties) /\ Earliest(e, Parties)
    BY DEF Inv, HolderOK
  <2> QED
    BY <2>1 DEF Inv, TypeOK, Earliest, Parties
<1> QED
  BY <1>1, InvHolds, PTL

-----------------------------------------------------------------------------
\* The daemon that published is first in the log and not letting go.
PublisherOK ==
    \A d \in Daemons : publisher = d /\ open =>
        /\ st[d] \in {"published", "parked", "down", "classify"}
        /\ since[d] > 0 /\ Earliest(d, Parties)

\* The publisher stays first in the log, by every step.
LEMMA PublisherStep == Inv /\ Inv' /\ PublisherOK /\ [Next]_vars => PublisherOK'
<1> SUFFICES ASSUME Inv, Inv', PublisherOK, [Next]_vars,
                    NEW d \in Daemons, publisher' = d, open'
             PROVE  /\ st'[d] \in {"published", "parked", "down", "classify"}
                    /\ since'[d] > 0 /\ Earliest(d, Parties)'
  BY DEF PublisherOK
<1> USE DEF Move, Holders, tracker, history, vars
<1>1. TypeOK /\ TypeOK' /\ LogOK /\ d \in Parties
  BY DEF Inv, Parties
<1>2. ASSUME publisher = d, open, st'[d] \in {"published", "parked", "down", "classify"},
             since'[d] = since[d], \A q \in Parties : Kept(q)
      PROVE  since'[d] > 0 /\ Earliest(d, Parties)'
  BY <1>1, <1>2, EarliestKept DEF PublisherOK
<1>3. ASSUME NEW x \in Daemons, Step(x)
      PROVE  /\ st'[d] \in {"published", "parked", "down", "classify"}
             /\ since'[d] > 0 /\ Earliest(d, Parties)'
  <2>1. AddAssignee(x) \/ RemoveAssignee(x) \/ UNCHANGED <<assignees, since, last>>
    BY <1>3, ZenonT(30) DEF Step, Poll, Assign, ReadBack, Race, Unwind, Yield, Release, Reconcile,
         Publish, Fail, SweepHeld, SweepParked, Crash, Restart, Classify, Unassigned
  <2>2. x \in Parties /\ open
    BY <1>3, ZenonT(30) DEF Parties, Step, Poll, Assign, ReadBack, Race, Unwind, Yield, Release, Reconcile,
         Publish, Fail, SweepHeld, SweepParked, Crash, Restart, Classify, Unassigned
  <2>3. /\ \A q \in Parties : Kept(q)
        /\ \A q \in Parties \ {x} : since[q] > 0 => since'[q] = since[q]
    BY <1>1, <2>1, <2>2, AddKeeps, RemoveKeeps, QuietKeeps
  <2>4. CASE x # d /\ publisher = d
    <3>1. st'[d] = st[d]
      BY <1>1, <1>3, <2>4, ZenonT(30) DEF TypeOK, Step, Poll, Assign, ReadBack, Race, Unwind, Yield,
           Release, Reconcile, Publish, Fail, SweepHeld, SweepParked, Crash, Restart, Classify
    <3>2. since[d] > 0 /\ st[d] \in {"published", "parked", "down", "classify"}
      BY <2>2, <2>4 DEF PublisherOK
    <3> QED
      BY <1>1, <1>2, <2>2, <2>3, <2>4, <3>1, <3>2
  <2>5. CASE publisher # d
    <3>1. Publish(d) /\ ~revoked[d]
      BY <1>1, <1>3, <2>5, PartiesAssumption, ZenonT(30) DEF Step, Poll, Assign, ReadBack, Race, Unwind,
           Yield, Release, Reconcile, Publish, Fail, SweepHeld, SweepParked, Crash, Restart,
           Classify, Unassigned
    <3>2. st'[d] = "published" /\ since' = since /\ since[d] > 0 /\ Earliest(d, Parties)
      BY <1>1, <3>1 DEF Publish, TypeOK, Inv, HolderOK
    <3> QED
      BY <3>2 DEF Earliest
  <2>6. CASE x = d /\ publisher = d
    <3>1. /\ since[d] > 0 /\ Earliest(d, Parties) /\ d \in assignees
          /\ st[d] \in {"published", "parked", "down", "classify"}
      BY <1>1, <2>2, <2>6 DEF PublisherOK, Inv, TypeOK, LogOK
    <3>2. SweepHeld(d) \/ SweepParked(d) \/ Crash(d) \/ Restart(d) \/ Classify(d)
      BY <1>3, <2>6, <3>1, ZenonT(30) DEF Step, Poll, Assign, ReadBack, Race, Unwind, Yield, Release,
           Reconcile, Publish, Fail
    <3>3. ~SweepHeld(d) /\ ~SweepParked(d)
      BY <2>2, <2>6, <3>1, PartiesAssumption DEF SweepHeld, SweepParked
    <3>4. since' = since
      BY <3>2, <3>3, ZenonT(30) DEF Crash, Restart, Classify
    <3>5. st'[d] \in {"published", "parked", "down", "classify"}
      <4>1. Wins(d, snap[d])
        BY <1>1, <3>1 DEF Wins, Earliest, TypeOK
      <4>2. CASE Crash(d) \/ Restart(d)
        BY <1>1, <3>1, <4>2, ZenonT(30) DEF Crash, Restart, TypeOK
      <4>3. CASE Classify(d)
        BY <1>1, <2>2, <2>6, <4>1, <4>3 DEF Classify, TypeOK
      <4> QED
        BY <3>2, <3>3, <4>2, <4>3
    <3> QED
      BY <3>1, <3>4, <3>5 DEF Earliest
  <2> QED
    BY <2>4, <2>5, <2>6
<1>4. ASSUME NEW p \in Parties, PersonAssigns(p) \/ PersonUnassigns(p)
      PROVE  /\ st'[d] \in {"published", "parked", "down", "classify"}
             /\ since'[d] > 0 /\ Earliest(d, Parties)'
  <2>1. UNCHANGED <<open, st>>
    BY <1>4, ZenonT(30) DEF PersonAssigns, PersonUnassigns
  <2>2. publisher = d
    BY <1>4, PartiesAssumption, ZenonT(30) DEF PersonAssigns, PersonUnassigns
  <2>3. since[d] > 0 /\ st[d] \in {"published", "parked", "down", "classify"}
    BY <2>1, <2>2 DEF PublisherOK
  <2>4. PersonUnassigns(p) => p # d
    BY <2>2, PartiesAssumption DEF PersonUnassigns
  <2>5. AddAssignee(p) \/ RemoveAssignee(p) \/ UNCHANGED <<since, last>>
    BY <1>4, ZenonT(30) DEF PersonAssigns, PersonUnassigns
  <2>6. since'[d] = since[d] /\ \A q \in Parties : Kept(q)
    <3>1. CASE PersonUnassigns(p)
      BY <1>1, <2>4, <3>1, RemoveKeeps, ZenonT(30) DEF PersonUnassigns
    <3>2. CASE PersonAssigns(p) /\ AddAssignee(p)
      BY <1>1, <2>3, <3>2, AddKeeps
    <3>3. CASE UNCHANGED <<since, last>>
      BY <1>1, <3>3 DEF Kept, TypeOK
    <3> QED
      BY <1>4, <3>1, <3>2, <3>3, ZenonT(30) DEF PersonAssigns
  <2> QED
    BY <1>2, <2>1, <2>2, <2>3, <2>6
<1>5. CASE PersonCloses
  BY <1>5 DEF PersonCloses
<1>6. CASE UNCHANGED vars
  BY <1>6 DEF PublisherOK, Earliest
<1> QED
  BY <1>3, <1>4, <1>5, <1>6, ZenonT(30) DEF Next

\* Published work stays claimed while its issue is open: however many daemons
\* recover a contested claim, the publisher is not one that lets go of it
\* (arbitrateRecovery).
THEOREM PublishedKept == Spec => []PublishedStaysClaimed
<1>1. Init => PublisherOK
  BY PartiesAssumption DEF Init, PublisherOK
<1>2. Inv /\ PublisherOK => PublishedStaysClaimed
  BY DEF Inv, TypeOK, LogOK, PublisherOK, PublishedStaysClaimed, Parties
<1> QED
  BY <1>1, <1>2, PublisherStep, InvHolds, PTL DEF Spec

-----------------------------------------------------------------------------
\* NothingStray, for the claim that is about to ask as well.
StrayOK ==
    \A d \in Daemons : st[d] \in {"idle", "assign"} /\ d \in assignees => outside[d]

\* Claim leaves the issue ours or not ours: a daemon with no record of it is
\* assigned only by a person (Claim, onClaimed and release).
THEOREM NoStray == Spec => []NothingStray
<1>1. Init => StrayOK
  BY DEF Init, StrayOK
<1>2. TypeOK /\ TypeOK' /\ StrayOK /\ [Next]_vars => StrayOK'
  <2> SUFFICES ASSUME TypeOK, TypeOK', StrayOK, [Next]_vars, NEW d \in Daemons,
                      st'[d] \in {"idle", "assign"}, d \in assignees'
               PROVE  outside'[d]
    BY DEF StrayOK
  <2> USE DEF TypeOK, StrayOK, Move, tracker, history, vars
  <2>1. ASSUME NEW x \in Daemons, Step(x), x # d
        PROVE  outside'[d]
    BY <2>1, Bystanders
  <2>2. CASE Step(d)
    <3>1. CASE Poll(d) \/ ReadBack(d) \/ SweepHeld(d) \/ SweepParked(d) \/ Restart(d)
      BY <3>1 DEF Poll, ReadBack, SweepHeld, SweepParked, Restart
    <3>2. CASE Assign(d)
      BY <3>2 DEF Assign, AddAssignee
    <3>3. CASE Unwind(d) \/ Yield(d) \/ Release(d)
      BY <3>3 DEF Unwind, Yield, Release, Unassigned, RemoveAssignee
    <3>4. CASE Race(d) \/ Reconcile(d) \/ Publish(d) \/ Fail(d) \/ Crash(d)
      BY <3>4 DEF Race, Reconcile, Publish, Fail, Crash
    <3>5. CASE Classify(d)
      BY <3>5 DEF Classify
    <3> QED
      BY <2>2, <3>1, <3>2, <3>3, <3>4, <3>5 DEF Step
  <2>3. ASSUME NEW p \in Parties, PersonAssigns(p) \/ PersonUnassigns(p)
        PROVE  outside'[d]
    BY <2>3 DEF PersonAssigns, PersonUnassigns, AddAssignee, RemoveAssignee
  <2>4. CASE PersonCloses \/ UNCHANGED vars
    BY <2>4 DEF PersonCloses
  <2> QED
    BY <2>1, <2>2, <2>3, <2>4 DEF Next
<1>3. StrayOK => NothingStray
  BY DEF StrayOK, NothingStray
<1> QED
  BY <1>1, <1>2, <1>3, TypeCorrect, PTL DEF Spec
=============================================================================
