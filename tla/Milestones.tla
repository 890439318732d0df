----------------------------- MODULE Milestones -----------------------------
(***************************************************************************)
(* The writes of the GitHub adapter that people see: the one ben:* label   *)
(* an issue carries (SetStateLabels) and the milestone comments (Comment), *)
(* for one issue.  Neither is one request.  A projection is an add and     *)
(* then a removal per stale label; a comment is a walk over the issue's    *)
(* change log, page by page through the conditional cache, a search for    *)
(* its own marker, and the post.  The log grows while it is walked, any    *)
(* request may fail with or without having taken effect, the daemon may    *)
(* die between any two, and the caller repeats what failed.                *)
(*                                                                         *)
(* The change log is a sequence; an event's id is its position.  The cache *)
(* holds per page what the tracker answered last: a page's body is fixed   *)
(* by how many events it holds, and so is an ETag computed from the body.  *)
(***************************************************************************)
EXTENDS Naturals, Sequences, FiniteSets, SequencesExt

CONSTANTS PerPage,       \* events on a full page of the change log
          MaxLog,        \* no transition starts once the log is this long
          MaxTick,       \* the clock, in seconds
          MaxMishaps     \* failed requests, crashes and people's edits, together

ASSUME MilestoneAssumption == {PerPage, MaxLog, MaxTick, MaxMishaps} \subseteq Nat /\ PerPage > 0

VARIABLES changes,   \* the tracker: the issue's change log
          posted,    \* the tracker: the milestone comments on the issue
          second,    \* the clock events and comments are stamped with
          held304,   \* the adapter: per page, the cached answer
          effect,    \* the adapter: the write in hand and how far it got
          owing,     \* the caller: the writes still owed, in order
          issued,    \* the caller: the writes of the transition in hand
          shown,     \* the caller: the label last projected
          pulled,    \* a person took a state label off since then
          mishaps,   \* failures so far
          answered   \* ghost: the milestones Comment returned nil for

mileVars == <<changes, posted, second, held304, effect, owing, issued, shown, pulled, mishaps, answered>>

StateNames == {"claimed", "running", "needs-review", "failed"}
MilestoneNames == {"claimed", "needs-review", "failed", "published"}
NoEffect == [op |-> "none"]
NoPage == [n |-> -1, more |-> FALSE]
Pages == 1..(MaxLog + 4)

Event(kind, name) == [kind |-> kind, name |-> name, at |-> second]
EventIs(log, i, kind, names) == log[i].kind = kind /\ log[i].name \in names

(* What stands after a log: the labels on the issue, and our assignment.   *)
StandsIn(log, on, off, name) ==
    \E i \in DOMAIN log : /\ EventIs(log, i, on, {name})
                          /\ \A j \in (i + 1)..Len(log) : ~EventIs(log, j, off, {name})
StandingLabels == {l \in StateNames : StandsIn(changes, "labeled", "unlabeled", l)}
Assigned == StandsIn(changes, "assigned", "unassigned", "ben")

Label(want) == [op |-> "label", want |-> want]
Milestone(m) == [op |-> "comment", want |-> m]

-----------------------------------------------------------------------------
(* The caller: one transition of the issue's life, and the writes it owes. *)

Plans ==
    (IF ~Assigned /\ StandingLabels = {} THEN {<<[op |-> "claim"], Label("claimed"), Milestone("claimed")>>} ELSE {})
    \cup (IF Assigned /\ shown = "claimed" THEN {<<Label("running")>>} ELSE {})
    \cup (IF Assigned /\ shown = "running"
          THEN {<<Label("claimed")>>, <<Label("none"), Milestone("published")>>}
               \cup {<<Label(l), Milestone(l)>> : l \in {"needs-review", "failed"}} ELSE {})
    \cup (IF Assigned /\ shown = "needs-review" THEN {<<Label("claimed"), Milestone("claimed")>>} ELSE {})
    \cup (IF Assigned /\ shown \in {"none", "failed"} THEN {<<[op |-> "release"]>>} ELSE {})

NextTransition ==
    /\ owing = <<>> /\ Len(changes) < MaxLog
    /\ \E plan \in Plans :
          CASE plan[1].op = "claim" -> /\ changes' = Append(changes, Event("assigned", "ben"))
                                       /\ owing' = Tail(plan) /\ issued' = Tail(plan)
            [] plan[1].op = "release" -> /\ changes' = Append(changes, Event("unassigned", "ben"))
                                         /\ owing' = <<>> /\ issued' = <<>>
            [] OTHER -> owing' = plan /\ issued' = plan /\ UNCHANGED changes
    /\ UNCHANGED <<posted, second, held304, effect, shown, pulled, mishaps, answered>>

BeginEffect ==
    /\ effect = NoEffect /\ owing # <<>>
    /\ effect' = IF Head(owing).op = "label"
                 THEN [op |-> "label", want |-> Head(owing).want, at |-> "add", left |-> {}]
                 ELSE [op |-> "comment", want |-> Head(owing).want, at |-> "page", page |-> 1,
                       read |-> 0, from |-> Len(changes), anchor |-> 0]
    /\ UNCHANGED <<changes, posted, second, held304, owing, issued, shown, pulled, mishaps, answered>>

Finish ==
    /\ effect' = NoEffect
    /\ owing' = Tail(owing)

-----------------------------------------------------------------------------
(* SetStateLabels: the target goes on first, and the stale ones come off   *)
(* according to the tracker's own answer.                                  *)

Added(want) == IF want = "none" \/ want \in StandingLabels THEN changes
               ELSE Append(changes, Event("labeled", want))

StaleNow(want) == StandingLabels \ {want}

(* Mutant: the stale labels come off before the target goes on.            *)
SetLabelAddLast ==
    /\ effect.op = "label" /\ effect.at = "add"
    /\ IF StaleNow(effect.want) # {}
       THEN \E l \in StaleNow(effect.want) : changes' = Append(changes, Event("unlabeled", l)) /\ UNCHANGED effect
       ELSE changes' = Added(effect.want) /\ effect' = [effect EXCEPT !.at = "remove"]
    /\ pulled' = FALSE
    /\ UNCHANGED <<posted, second, held304, owing, issued, shown, mishaps, answered>>

SetLabelAdd ==
    /\ effect.op = "label" /\ effect.at = "add"
    /\ changes' = Added(effect.want)
    /\ effect' = [effect EXCEPT !.at = "remove", !.left = StaleNow(effect.want)]
    /\ pulled' = FALSE
    /\ UNCHANGED <<posted, second, held304, owing, issued, shown, mishaps, answered>>

SetLabelRemove ==
    /\ effect.op = "label" /\ effect.at = "remove"
    /\ \E l \in effect.left :
          /\ changes' = IF l \in StandingLabels THEN Append(changes, Event("unlabeled", l)) ELSE changes
          /\ effect' = [effect EXCEPT !.left = @ \ {l}]
    /\ UNCHANGED <<posted, second, held304, owing, issued, shown, pulled, mishaps, answered>>

SetLabelDone ==
    /\ effect.op = "label" /\ effect.at = "remove" /\ effect.left = {}
    /\ shown' = effect.want
    /\ Finish
    /\ UNCHANGED <<changes, posted, second, held304, issued, pulled, mishaps, answered>>

-----------------------------------------------------------------------------
(* Comment.  The walk over the change log revalidates every page: a page   *)
(* whose body did not change is answered 304, and what is replayed is the  *)
(* cached body with the cached link to the next page.                      *)

OnPage(p) == LET rest == Len(changes) - (p - 1) * PerPage
             IN IF rest < 0 THEN 0 ELSE IF rest > PerPage THEN PerPage ELSE rest
Origin(p) == [n |-> OnPage(p), more |-> Len(changes) > p * PerPage]
Revalidated(p) == held304[p].n = OnPage(p)
Answer(p) == IF Revalidated(p) THEN held304[p] ELSE Origin(p)

(* Mutant: the cached boundary is believed.                                *)
WalkOnLinked(p) == Answer(p).more

(* A cached last page that is full may have gained a successor without     *)
(* changing its body, so the next page is read as well.                    *)
WalkOn(p) == Answer(p).more \/ (Revalidated(p) /\ Answer(p).n = PerPage)

Occurs(log, kind, names) == {i \in DOMAIN log : EventIs(log, i, kind, names)}
Latest(S) == IF S = {} THEN 0 ELSE CHOOSE i \in S : \A j \in S : j <= i
Earliest(S) == IF S = {} THEN 0 ELSE CHOOSE i \in S : \A j \in S : i <= j

(* replayAssignments: the assignment that still stands began here.         *)
ClaimStart(log) ==
    LET off == Latest(Occurs(log, "unassigned", {"ben"}))
    IN Earliest({i \in Occurs(log, "assigned", {"ben"}) : i > off})

(* Mutant: every return to ben:claimed is a claim of its own.              *)
ClaimOccurrenceLast(log) ==
    IF ClaimStart(log) = 0 THEN 0 ELSE Latest({i \in Occurs(log, "labeled", {"claimed"}) : i >= ClaimStart(log)})

ClaimOccurrence(log) ==
    IF ClaimStart(log) = 0 THEN 0 ELSE Earliest({i \in Occurs(log, "labeled", {"claimed"}) : i >= ClaimStart(log)})

(* milestoneOccurrence: the label transition a milestone belongs to, as    *)
(* its event id; 0 where there is none.                                    *)
Occurrence(m, log) ==
    CASE m = "claimed"   -> ClaimOccurrence(log)
      [] m = "published" -> Latest(Occurs(log, "unlabeled", {"claimed", "running"}))
      [] OTHER           -> Latest(Occurs(log, "labeled", {m}))

ReadEventPage ==
    /\ effect.op = "comment" /\ effect.at = "page"
    /\ LET p == effect.page
           total == effect.read + Answer(p).n
       IN /\ held304' = [held304 EXCEPT ![p] = Answer(p)]
          /\ effect' = IF WalkOn(p) THEN [effect EXCEPT !.page = p + 1, !.read = total]
                       ELSE LET found == Occurrence(effect.want, SubSeq(changes, 1, total))
                            IN IF found = 0 THEN NoEffect
                               ELSE [effect EXCEPT !.at = "search", !.read = total, !.anchor = found]
    /\ UNCHANGED <<changes, posted, second, owing, issued, shown, pulled, mishaps, answered>>

(* Mutant: the window opens at the anchor's own second.                    *)
SinceAnchor(at) == at
Since(at) == at - 1

(* hasMarker reads the comments from the anchor on.  Whether the tracker   *)
(* counts the boundary in or out is not relied on.                         *)
MarkerSeen(m, occ, inclusive) ==
    \E i \in DOMAIN posted :
        /\ posted[i].m = m /\ posted[i].occ = occ
        /\ posted[i].at > Since(changes[occ].at) \/ (inclusive /\ posted[i].at = Since(changes[occ].at))

CommentReturns ==
    /\ answered' = answered \cup {[m |-> effect.want, from |-> effect.from, to |-> Len(changes)]}
    /\ Finish

SearchMarker ==
    /\ effect.op = "comment" /\ effect.at = "search"
    /\ \E inclusive \in BOOLEAN :
          IF MarkerSeen(effect.want, effect.anchor, inclusive) THEN CommentReturns
          ELSE effect' = [effect EXCEPT !.at = "post"] /\ UNCHANGED <<answered, owing>>
    /\ UNCHANGED <<changes, posted, second, held304, issued, shown, pulled, mishaps>>

Posted == Append(posted, [m |-> effect.want, occ |-> effect.anchor, at |-> second])

PostComment ==
    /\ effect.op = "comment" /\ effect.at = "post"
    /\ posted' = Posted
    /\ CommentReturns
    /\ UNCHANGED <<changes, second, held304, issued, shown, pulled, mishaps>>

-----------------------------------------------------------------------------
(* What goes wrong: a request fails, and may have taken effect all the     *)
(* same; the daemon dies, taking the cache, and recovery repeats the       *)
(* transition's writes; people edit the issue.                             *)

RequestFails ==
    /\ effect # NoEffect /\ mishaps < MaxMishaps
    /\ \E landed \in BOOLEAN :
          CASE landed /\ effect.at = "add"    -> changes' = Added(effect.want) /\ UNCHANGED posted
            [] landed /\ effect.at = "remove" ->
                  /\ \E l \in effect.left \cap StandingLabels : changes' = Append(changes, Event("unlabeled", l))
                  /\ UNCHANGED posted
            [] landed /\ effect.at = "post"   -> posted' = Posted /\ UNCHANGED changes
            [] OTHER                          -> UNCHANGED <<changes, posted>>
    /\ effect' = NoEffect /\ mishaps' = mishaps + 1
    /\ UNCHANGED <<second, held304, owing, issued, shown, pulled, answered>>

WriterDies ==
    /\ mishaps < MaxMishaps /\ issued # <<>>
    /\ effect' = NoEffect /\ held304' = [p \in Pages |-> NoPage] /\ owing' = issued
    /\ mishaps' = mishaps + 1
    /\ UNCHANGED <<changes, posted, second, issued, shown, pulled, answered>>

PersonEditsIssue ==
    /\ mishaps < MaxMishaps
    /\ \/ changes' = Append(changes, Event("labeled", "other")) /\ UNCHANGED pulled
       \/ /\ \E l \in StandingLabels : changes' = Append(changes, Event("unlabeled", l))
          /\ pulled' = TRUE
    /\ mishaps' = mishaps + 1
    /\ UNCHANGED <<posted, second, held304, effect, owing, issued, shown, answered>>

SecondPasses ==
    /\ second < MaxTick
    /\ second' = second + 1
    /\ UNCHANGED <<changes, posted, held304, effect, owing, issued, shown, pulled, mishaps, answered>>

MileInit ==
    /\ changes = <<>> /\ posted = <<>> /\ second = 1
    /\ held304 = [p \in Pages |-> NoPage]
    /\ effect = NoEffect /\ owing = <<>> /\ issued = <<>> /\ shown = "none"
    /\ pulled = FALSE /\ mishaps = 0 /\ answered = {}

MileNext ==
    \/ NextTransition \/ BeginEffect
    \/ SetLabelAdd \/ SetLabelRemove \/ SetLabelDone
    \/ ReadEventPage \/ SearchMarker \/ PostComment
    \/ RequestFails \/ WriterDies \/ PersonEditsIssue \/ SecondPasses

MileSpec == MileInit /\ [][MileNext]_mileVars

-----------------------------------------------------------------------------
MileTypeOK ==
    /\ \A i \in DOMAIN changes : changes[i].name \in StateNames \cup {"ben", "other"}
    /\ \A i \in DOMAIN posted : posted[i].m \in MilestoneNames /\ posted[i].occ \in DOMAIN changes
    /\ shown \in StateNames \cup {"none"} /\ mishaps \in 0..MaxMishaps /\ second \in 1..MaxTick

(* A milestone is written once per occurrence, whatever was retried: no    *)
(* two comments carry the same marker.                                     *)
OneCommentPerOccurrence ==
    \A i, j \in DOMAIN posted : posted[i].m = posted[j].m /\ posted[i].occ = posted[j].occ => i = j

(* A claim is announced once, though its label returns to ben:claimed      *)
(* during the run and after a requeue.                                     *)
OneAnnouncementPerClaim ==
    Cardinality({i \in DOMAIN posted : posted[i].m = "claimed"}) <= Cardinality(Occurs(changes, "assigned", {"ben"}))

(* When Comment reports success, the occurrence the log showed during the  *)
(* call has its comment: a marker of an earlier occurrence never stands in *)
(* for it, though the pages came from the cache.                           *)
AnsweredIsPosted ==
    \A a \in answered : \E n \in a.from..a.to : \E i \in DOMAIN posted :
        posted[i].m = a.m /\ posted[i].occ = Occurrence(a.m, SubSeq(changes, 1, n))

(* Between two state labels the issue always carries one: an assigned      *)
(* issue without any reads as published, and its run would be abandoned.   *)
NeverBetweenLabels ==
    (~pulled /\ shown # "none" /\ effect.op = "label" /\ effect.want # "none") => StandingLabels # {}

(* A projection that completed left its label and no other state label.    *)
ProjectionIsExact ==
    (~pulled /\ effect = NoEffect /\ owing = <<>>) => StandingLabels = {shown} \ {"none"}

MileSafe == /\ MileTypeOK /\ OneCommentPerOccurrence /\ OneAnnouncementPerClaim /\ AnsweredIsPosted
            /\ NeverBetweenLabels /\ ProjectionIsExact
=============================================================================
