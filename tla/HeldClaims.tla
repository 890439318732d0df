----------------------------- MODULE HeldClaims -----------------------------
(***************************************************************************)
(* The claims the daemon retains while their pull requests await review     *)
(* (orchestrator/held.go): the sweep of one list read per tick, the         *)
(* confirmations rationed to one a tick, the history read that looks for a  *)
(* close in this claim's cycle, the release that is retried until the       *)
(* tracker has it, and the disposal of an ended workspace cycle that goes   *)
(* first.  Reads and writes are answered later, and people edit meanwhile.  *)
(***************************************************************************)
EXTENDS Naturals, FiniteSets, FiniteSetsExt

CONSTANTS HeldIssues,     \* a set of numbers: identifiers in their order
          MaxHeldEdits,       \* acts of people, and reads and writes that fail
          MaxCycles       \* claim cycles of one issue

ASSUME HeldAssumption == HeldIssues \subseteq Nat \ {0}

VARIABLES tracked,     \* each issue in the tracker
          heldOf,      \* the held claim of each issue, or NoHold
          heldAsk,     \* the one operation in flight of each held claim
          heldRead,    \* the outstanding HeldClaims read: the issues it found, or NoRead
          endedOf,     \* each issue's ended cycle: "no", "owed", "disposing"
          heldCursor, cycleCursor, heldDrains,
          heldPast,    \* history: unassigned, ended in this cycle, ticks passed over
          heldEdits

heldVars == <<tracked, heldOf, heldAsk, heldRead, endedOf, heldCursor, cycleCursor, heldDrains,
              heldPast, heldEdits>>

NoHold == [on |-> FALSE, rev |-> 0, anchor |-> 0, releasing |-> FALSE, failed |-> FALSE]
NoAsk == [kind |-> "none", done |-> FALSE, ok |-> FALSE, seen |-> [st |-> "open", mine |-> TRUE, labelled |-> TRUE]]
NoRead == [on |-> FALSE, found |-> [i \in {} |-> 0]]
Held(i) == heldOf[i].on
InFlight(i) == heldAsk[i].kind # "none"

\* Every issue has just been converted: claimed in its first cycle, its pull
\* request open.  An event of the change log is numbered by `events`.
HeldInit ==
    /\ tracked = [i \in HeldIssues |-> [st |-> "open", mine |-> TRUE, labelled |-> TRUE, approved |-> 1, worked |-> 1,
                                        assigned |-> 1, closed |-> 0, rev |-> 0, events |-> 1, cycles |-> 1]]
    /\ heldOf = [i \in HeldIssues |-> [NoHold EXCEPT !.on = TRUE, !.anchor = 1]]
    /\ heldAsk = [i \in HeldIssues |-> NoAsk] /\ heldRead = NoRead
    /\ endedOf = [i \in HeldIssues |-> "no"]
    /\ heldCursor = 0 /\ cycleCursor = 0 /\ heldDrains = FALSE
    /\ heldPast = [i \in HeldIssues |-> [freed |-> FALSE, ended |-> FALSE, waited |-> 0]]
    /\ heldEdits = 0

HeldTrouble == heldEdits < MaxHeldEdits /\ heldEdits' = heldEdits + 1
HeldSmooth == UNCHANGED heldEdits
StillOpen(t) == t.st = "open"

-----------------------------------------------------------------------------
(* Verdicts. *)

\* Bug: the first event counts from no assignment at all.
ClosedInThisCycleEver(t) == t.closed > 0
\* A close in the change log no earlier than the assignment it is asked about.
ClosedInThisCycle(t) == t.assigned > 0 /\ t.closed >= t.assigned

\* An approval stands, and it is not the one the workspace cycle was opened under.
Superseded(t) == t.labelled /\ t.approved # t.worked

EndedBy(seen) == seen.st = "missing" \/ ~StillOpen(seen) \/ ~seen.labelled

\* The disposal is owed once per cycle.
Owe(ended, i) == IF ended[i] = "no" THEN [ended EXCEPT ![i] = "owed"] ELSE ended

\* Bug: the tracker is told before the sandbox is gone.
MayReleaseAtOnce(ask, ended, i) == ask[i].kind = "none"
\* driveHeldExit: one operation at a time, the ended cycle's disposal first.
MayRelease(ask, ended, i) == ask[i].kind = "none" /\ ended[i] = "no"

\* Bug: the confirmations start over from the first every tick.
RotatedHeldFirst(candidates, cursor) == IF candidates = {} THEN 0 ELSE Min(candidates)
\* The first candidate past the cursor, wrapping; 0 when there is none.
RotatedHeld(candidates, cursor) ==
    LET later == {i \in candidates : i > cursor}
    IN  CASE candidates = {} -> 0 [] later # {} -> Min(later) [] OTHER -> Min(candidates)

-----------------------------------------------------------------------------
(* The tick: one list read, then everything that is owed. *)

BeginHeldRead ==
    /\ ~heldRead.on /\ \E i \in HeldIssues : Held(i)
    /\ heldRead' = [on |-> TRUE, found |-> [i \in {j \in HeldIssues : tracked[j].mine} |-> tracked[i]]]
    /\ UNCHANGED <<tracked, heldOf, heldAsk, endedOf, heldCursor, cycleCursor, heldDrains, heldPast, heldEdits>>

\* The claims the sweep looks at: neither released already nor waiting.
Sweepable(i) == Held(i) /\ ~heldOf[i].releasing /\ ~InFlight(i)

AbsentHeld(found) == {i \in HeldIssues : Sweepable(i) /\ i \notin DOMAIN found}

\* classifyHeld: terminal or out of the partition is a release, another
\* revision is a history read, anything else is as it was.
SweptEnds(found) == {i \in DOMAIN found : Sweepable(i) /\ EndedBy(found[i])}
SweptMoved(found) == {i \in DOMAIN found : Sweepable(i) /\ ~EndedBy(found[i]) /\ found[i].rev # heldOf[i].rev}

Asking(ask, S, kind) == [i \in HeldIssues |-> IF i \in S THEN [NoAsk EXCEPT !.kind = kind] ELSE ask[i]]

\* onReconciled: the sweep of a read that answered, one confirmation among the
\* absent claims and the releases that failed, every settled release driven
\* again, and one ended cycle's disposal begun.
OnHeldReconciled(failed) ==
    /\ heldRead.on /\ heldRead' = NoRead
    /\ IF failed THEN HeldTrouble ELSE HeldSmooth
    /\ LET swept == ~failed /\ ~heldDrains
           found == heldRead.found
           ends == IF swept THEN SweptEnds(found) ELSE {}
           moved == IF swept THEN SweptMoved(found) ELSE {}
           held1 == [i \in HeldIssues |-> IF i \in ends THEN [heldOf[i] EXCEPT !.releasing = TRUE] ELSE heldOf[i]]
           ended1 == [i \in HeldIssues |-> IF i \in ends /\ endedOf[i] = "no" THEN "owed" ELSE endedOf[i]]
           ask1 == Asking(heldAsk, moved, "history")
           first == {i \in ends : MayRelease(ask1, ended1, i)}
           ask2 == Asking(ask1, first, "release")
           offered == (IF swept THEN AbsentHeld(found) ELSE {})
                      \cup {i \in HeldIssues : held1[i].releasing /\ held1[i].failed /\ ask2[i].kind = "none"}
           pick == RotatedHeld(offered, heldCursor)
           picked == offered \cap {pick}
           ask3 == Asking(ask2, picked, "confirm")
           again == {i \in HeldIssues : held1[i].releasing /\ MayRelease(ask3, ended1, i)}
           disposals == {i \in HeldIssues : ended1[i] = "owed"}
           next == RotatedHeld(disposals, cycleCursor)
       IN  /\ heldOf' = [i \in HeldIssues |-> IF i \in picked THEN [held1[i] EXCEPT !.failed = FALSE] ELSE held1[i]]
           /\ heldAsk' = Asking(ask3, again, "release")
           /\ endedOf' = [i \in HeldIssues |-> IF i = next THEN "disposing" ELSE ended1[i]]
           /\ heldCursor' = IF picked = {} THEN heldCursor ELSE pick
           /\ cycleCursor' = IF disposals = {} THEN cycleCursor ELSE next
           /\ heldPast' = [i \in HeldIssues |->
                             [heldPast[i] EXCEPT !.waited = IF i \in offered \ picked THEN @ + 1 ELSE 0]]
    /\ UNCHANGED <<tracked, heldDrains>>

-----------------------------------------------------------------------------
(* The operations and what the loop makes of their answers. *)

Frees(i) == heldPast' = [heldPast EXCEPT ![i].freed = TRUE]

\* The tracker serves a request: a release unassigns, a read sees the issue as
\* it is; the answer may be lost after the effect or before it.
ServeHeld(i) ==
    /\ InFlight(i) /\ ~heldAsk[i].done
    /\ \E ok \in BOOLEAN, happened \in BOOLEAN :
          /\ (ok => happened) /\ (IF ok THEN HeldSmooth ELSE HeldTrouble)
          /\ LET frees == heldAsk[i].kind = "release" /\ happened /\ tracked[i].mine
                 t == IF frees THEN [tracked[i] EXCEPT !.mine = FALSE, !.assigned = 0] ELSE tracked[i]
             IN  /\ tracked' = [tracked EXCEPT ![i] = t]
                 /\ IF frees THEN Frees(i) ELSE UNCHANGED heldPast
                 /\ heldAsk' = [heldAsk EXCEPT ![i] = [kind |-> @.kind, done |-> TRUE, ok |-> ok, seen |-> t]]
    /\ UNCHANGED <<heldOf, heldRead, endedOf, heldCursor, cycleCursor, heldDrains>>

Answered(i, kind) == heldAsk[i].kind = kind /\ heldAsk[i].done
Drop(i) == heldOf' = [heldOf EXCEPT ![i] = NoHold]

\* releaseHeld, once: not during shutdown, where recovery will derive it again.
Releasing(h) == IF heldDrains THEN h ELSE [h EXCEPT !.releasing = TRUE]

\* Bug: a release is over when it was tried.
OnHeldReleasedTried(i) ==
    /\ Answered(i, "release") /\ Drop(i) /\ heldAsk' = [heldAsk EXCEPT ![i] = NoAsk]
    /\ UNCHANGED <<tracked, heldRead, endedOf, heldCursor, cycleCursor, heldDrains, heldPast, heldEdits>>

OnHeldReleased(i) ==
    /\ Answered(i, "release")
    /\ heldAsk' = [heldAsk EXCEPT ![i] = NoAsk]
    /\ IF heldAsk[i].ok THEN Drop(i) ELSE heldOf' = [heldOf EXCEPT ![i].failed = TRUE]
    /\ UNCHANGED <<tracked, heldRead, endedOf, heldCursor, cycleCursor, heldDrains, heldPast, heldEdits>>

\* Gone, or no longer ours: dropped, whatever is owed to its cycle.  A settled
\* release that the read does not explain is driven again.
OnHeldConfirmed(i) ==
    /\ Answered(i, "confirm")
    /\ LET a == heldAsk[i]
           h == heldOf[i]
           ended1 == IF ~h.releasing /\ a.ok /\ EndedBy(a.seen) THEN Owe(endedOf, i) ELSE endedOf
           drops == a.ok /\ (a.seen.st = "missing" \/ ~a.seen.mine)
           ask1 == [heldAsk EXCEPT ![i] = NoAsk]
       IN  /\ endedOf' = ended1
           /\ IF drops THEN Drop(i) ELSE UNCHANGED heldOf
           /\ heldAsk' = IF ~drops /\ h.releasing /\ MayRelease(ask1, ended1, i)
                         THEN Asking(ask1, {i}, "release") ELSE ask1
    /\ UNCHANGED <<tracked, heldRead, heldCursor, cycleCursor, heldDrains, heldPast, heldEdits>>

\* A close in this cycle, or an approval given anew, ends the claim; a history
\* that shows no assignment decides nothing, one that shows no standing
\* approval is asked for again.
OnHeldHistory(i) ==
    /\ Answered(i, "history")
    /\ LET a == heldAsk[i]
           known == a.ok /\ a.seen.assigned > 0
           ends == known /\ (ClosedInThisCycle(a.seen) \/ Superseded(a.seen))
           h == IF known THEN [heldOf[i] EXCEPT !.anchor = a.seen.assigned] ELSE heldOf[i]
           ended1 == IF ends /\ ~heldDrains THEN Owe(endedOf, i) ELSE endedOf
           ask1 == [heldAsk EXCEPT ![i] = NoAsk]
       IN  /\ heldOf' = [heldOf EXCEPT ![i] = CASE ends -> Releasing(h)
                                                [] known /\ ~ends /\ a.seen.labelled -> [h EXCEPT !.rev = a.seen.rev]
                                                [] OTHER -> h]
           /\ endedOf' = ended1
           /\ heldAsk' = IF ends /\ ~heldDrains /\ MayRelease(ask1, ended1, i)
                         THEN Asking(ask1, {i}, "release") ELSE ask1
    /\ UNCHANGED <<tracked, heldRead, heldCursor, cycleCursor, heldDrains, heldPast, heldEdits>>

\* onCycleDisposed: a failure keeps the obligation; success lets the release go.
OnHeldCycleDisposed(i) ==
    /\ endedOf[i] = "disposing"
    /\ \E ok \in BOOLEAN :
          /\ IF ok THEN HeldSmooth ELSE HeldTrouble
          /\ LET ended1 == [endedOf EXCEPT ![i] = IF ok THEN "no" ELSE "owed"]
             IN  /\ endedOf' = ended1
                 /\ heldAsk' = IF ok /\ heldOf[i].releasing /\ MayRelease(heldAsk, ended1, i)
                               THEN Asking(heldAsk, {i}, "release") ELSE heldAsk
    /\ UNCHANGED <<tracked, heldOf, heldRead, heldCursor, cycleCursor, heldDrains, heldPast>>

HeldShutdown ==
    /\ ~heldDrains /\ heldDrains' = TRUE
    /\ UNCHANGED <<tracked, heldOf, heldAsk, heldRead, endedOf, heldCursor, cycleCursor, heldPast, heldEdits>>

-----------------------------------------------------------------------------
(* The next cycle of an issue and the people. *)

\* Dispatch, a whole run and the conversion: the issue is ours again under a
\* new assignment and a new workspace cycle.  A list read does not outlast it.
NextCycle(i) ==
    /\ ~Held(i) /\ endedOf[i] = "no" /\ ~heldRead.on /\ ~heldDrains /\ tracked[i].cycles < MaxCycles
    /\ StillOpen(tracked[i]) /\ tracked[i].labelled /\ ~tracked[i].mine
    /\ LET t == [tracked[i] EXCEPT !.mine = TRUE, !.events = @ + 1, !.assigned = tracked[i].events + 1,
                                   !.worked = tracked[i].approved, !.cycles = @ + 1]
       IN  /\ tracked' = [tracked EXCEPT ![i] = t]
           /\ heldOf' = [heldOf EXCEPT ![i] = [NoHold EXCEPT !.on = TRUE, !.anchor = t.assigned]]
    /\ heldPast' = [heldPast EXCEPT ![i] = [freed |-> FALSE, ended |-> FALSE, waited |-> 0]]
    /\ UNCHANGED <<heldAsk, heldRead, endedOf, heldCursor, cycleCursor, heldDrains, heldEdits>>

Edited(i, t) == tracked' = [tracked EXCEPT ![i] = [t EXCEPT !.rev = @ + 1, !.events = @ + 1]]

\* A person closes, reopens, unlabels, gives the approval anew, takes BEN off
\* the issue, or the issue is deleted.
PersonActsOnHeld(i) ==
    /\ HeldTrouble
    /\ tracked[i].st # "missing"
    /\ LET t == tracked[i]
       IN  \E what \in {"close", "reopen", "unlabel", "reapprove", "unassign", "delete"} :
             /\ CASE what \in {"close", "unassign"} -> StillOpen(t) /\ (what = "unassign" => t.mine)
                  [] what = "reopen" -> t.st = "closed"
                  [] what = "unlabel" -> t.labelled
                  [] OTHER -> TRUE
             /\ Edited(i, CASE what = "close" -> [t EXCEPT !.st = "closed", !.closed = t.events + 1]
                            [] what = "reopen" -> [t EXCEPT !.st = "open"]
                            [] what = "unlabel" -> [t EXCEPT !.labelled = FALSE]
                            [] what = "reapprove" -> [t EXCEPT !.labelled = TRUE, !.approved = t.events + 1]
                            [] what = "unassign" -> [t EXCEPT !.mine = FALSE, !.assigned = 0]
                            [] OTHER -> [t EXCEPT !.st = "missing", !.mine = FALSE])
             /\ heldPast' = [heldPast EXCEPT ![i].freed = @ \/ what \in {"unassign", "delete"},
                                             ![i].ended = @ \/ what \in {"close", "unlabel", "reapprove", "delete"}]
    /\ UNCHANGED <<heldOf, heldAsk, heldRead, endedOf, heldCursor, cycleCursor, heldDrains>>

HeldNext ==
    \/ BeginHeldRead
    \/ \E failed \in BOOLEAN : OnHeldReconciled(failed)
    \/ \E i \in HeldIssues :
          \/ ServeHeld(i) \/ OnHeldReleased(i) \/ OnHeldConfirmed(i) \/ OnHeldHistory(i)
          \/ OnHeldCycleDisposed(i) \/ NextCycle(i) \/ PersonActsOnHeld(i)
    \/ HeldShutdown

HeldSpec == HeldInit /\ [][HeldNext]_heldVars

-----------------------------------------------------------------------------
\* Every variable has its type.
HeldTypeOK ==
    /\ heldOf \in [HeldIssues -> [on : BOOLEAN, rev : 0..MaxHeldEdits, anchor : Nat, releasing : BOOLEAN, failed : BOOLEAN]]
    /\ \A i \in HeldIssues : heldAsk[i].kind \in {"none", "release", "confirm", "history"}
    /\ endedOf \in [HeldIssues -> {"no", "owed", "disposing"}]
    /\ heldCursor \in HeldIssues \cup {0} /\ cycleCursor \in HeldIssues \cup {0}

\* A retained claim is let go only when the tracker has let it go: the record
\* that owes a release outlives every failed or lost write, and a claim absent
\* from one list read is not taken for one that ended.
HeldUntilFreed == \A i \in HeldIssues : Held(i) \/ heldPast[i].freed

\* A claim is released only for something that happened in its own cycle: a
\* close of an earlier cycle, still in the change log, releases nothing.
ReleasedForItsOwnCycle == \A i \in HeldIssues : Held(i) /\ heldOf[i].releasing => heldPast[i].ended

\* No release is on its way to the tracker while the ended workspace cycle of
\* the issue still owes its disposal, so the issue cannot be claimed again
\* under a sandbox that is about to go.
DisposedBeforeReleased ==
    \A i \in HeldIssues : heldAsk[i].kind = "release" /\ ~heldAsk[i].done => endedOf[i] = "no"

\* With one confirmation a tick, no claim is passed over more often than there
\* are others.
NoClaimIsStarved == \A i \in HeldIssues : heldPast[i].waited < Cardinality(HeldIssues)

HeldSafe == HeldTypeOK /\ HeldUntilFreed /\ ReleasedForItsOwnCycle /\ DisposedBeforeReleased /\ NoClaimIsStarved
=============================================================================
