------------------------------ MODULE ReviewRun ------------------------------
(***************************************************************************)
(* A reviewer's execution (internal/reviewrun): one durable record per      *)
(* review-run identity, one executor (a local child of this process, or a   *)
(* durable backend run), and a session that dispatches, resolves, consumes  *)
(* and retires them in one workspace cycle.  Every store write and every    *)
(* executor call is a step; the process may die between any two.            *)
(***************************************************************************)
EXTENDS Naturals, Sequences, FiniteSets

CONSTANTS Subjects,       \* the review-run identities of one workspace cycle
          Outputs,        \* what a reviewer may print, chunk by chunk
          RefusalsLast,   \* a request refused once is refused again
          MaxRunFaults

VARIABLES execKind,   \* "", then the executor this deployment uses
          composed,   \* the digest the invocation is composed to now
          recs,       \* the record store
          procs,      \* the processes started, and what the executor knows of them
          sess,       \* the session's call
          stated,       \* verdicts a Review returned
          runFaults

runVars == <<execKind, composed, recs, procs, sess, stated, runFaults>>

NoRec == [there |-> FALSE, digest |-> 0, dispatched |-> FALSE, id |-> FALSE, refused |-> FALSE, cursor |-> 0,
          sealed |-> FALSE, quiet |-> FALSE, verdict |-> ""]
NewRecord(d) == [NoRec EXCEPT !.there = TRUE, !.digest = d]
NoProc == [live |-> 0, phase |-> "none", digest |-> 0, out |-> <<>>, made |-> 0, kept |-> 1, known |-> FALSE, refusing |-> FALSE]
Unknown == [reachable |-> FALSE, sealed |-> FALSE, quiet |-> FALSE]
AtEase == [pc |-> "ease", run |-> 0, st |-> Unknown]

RunInit ==
    /\ execKind = "" /\ composed = 1
    /\ recs = [r \in Subjects |-> NoRec]
    /\ procs = [r \in Subjects |-> NoProc]
    /\ sess = AtEase /\ stated = [r \in Subjects |-> {}] /\ runFaults = 0

Remotely == execKind = "remote"
Mine == recs[sess.run]
Proc == procs[sess.run]

To(pc) == sess' = [sess EXCEPT !.pc = pc]
With(pc, st) == sess' = [sess EXCEPT !.pc = pc, !.st = st]
Returns == sess' = AtEase
SaveRec(r, rec) == recs' = [recs EXCEPT ![r] = rec]
Blames == runFaults < MaxRunFaults /\ runFaults' = runFaults + 1

Deploy ==
    /\ execKind = "" /\ execKind' \in {"local", "remote"}
    /\ UNCHANGED <<composed, recs, procs, sess, stated, runFaults>>

\* The configuration the request is composed from changes.
RecomposesRequest ==
    /\ execKind # "" /\ composed = 1 /\ composed' = 2
    /\ UNCHANGED <<execKind, recs, procs, sess, stated, runFaults>>

-----------------------------------------------------------------------------
(* The executor: Start, ReplayStart, Attach, Status, Events. *)

StateOf(p) == [reachable |-> TRUE, sealed |-> p.phase \in {"sealed", "quiet"}, quiet |-> p.phase = "quiet"]
\* What this executor can say of a run: a local one, only of its own children.
Holds(p) == IF Remotely THEN p.phase # "none" ELSE p.known
StatusOf(p) == IF Holds(p) THEN StateOf(p) ELSE Unknown

\* A start at this address: an admitted one is answered again, not repeated.
Admits(p, d) ==
    IF Holds(p) THEN {p}
    ELSE {[NoProc EXCEPT !.live = p.live + 1, !.phase = "live", !.digest = d, !.out = o, !.known = TRUE] : o \in Outputs}
MayRefuse(p) == Remotely /\ ~Holds(p)
MayAdmit(p, d) == (Holds(p) => p.digest = d) /\ (RefusalsLast => ~p.refusing \/ p.digest # d)

\* The reviewer prints, ends its stream, and its domain goes quiet.
ReviewerRuns(r) ==
    /\ procs[r].phase \in {"live", "sealed"}
    /\ procs' = [procs EXCEPT ![r] =
          IF @.phase = "live" /\ @.made < Len(@.out) THEN [@ EXCEPT !.made = @ + 1]
          ELSE IF @.phase = "live" /\ Remotely THEN [@ EXCEPT !.phase = "sealed"]
          ELSE [@ EXCEPT !.phase = "quiet", !.live = 0]]
    /\ UNCHANGED <<execKind, composed, recs, sess, stated, runFaults>>

\* A durable backend no longer retains the first output.
BackendForgets(r) ==
    /\ Remotely /\ procs[r].kept = 1 /\ procs[r].made >= 1 /\ Blames
    /\ procs' = [procs EXCEPT ![r].kept = 2]
    /\ UNCHANGED <<execKind, composed, recs, sess, stated>>

-----------------------------------------------------------------------------
(* Review: open, gate. *)

Matches(rec) == rec.digest = composed

ReviewOpens(r) ==
    /\ sess.pc = "ease" /\ execKind # ""
    /\ LET rec == recs[r]
       IN  CASE ~rec.there -> sess' = [AtEase EXCEPT !.pc = "gate", !.run = r] /\ UNCHANGED stated
             [] rec.there /\ ~Matches(rec) ->
                   sess' = (IF rec.refused THEN [AtEase EXCEPT !.pc = "supersede", !.run = r] ELSE AtEase) /\ UNCHANGED stated
             [] rec.there /\ Matches(rec) /\ rec.verdict # "" ->
                   stated' = [stated EXCEPT ![r] = @ \union {rec.verdict}] /\ UNCHANGED sess
             [] rec.there /\ Matches(rec) /\ rec.verdict = "" ->
                   sess' = [AtEase EXCEPT !.pc = "resolve", !.run = r] /\ UNCHANGED stated
    /\ UNCHANGED <<execKind, composed, recs, procs, runFaults>>

\* A refused record holds no run: the recomposed request takes its place.
Supersede ==
    /\ sess.pc = "supersede"
    /\ SaveRec(sess.run, NoRec) /\ To("gate")
    /\ UNCHANGED <<execKind, composed, procs, stated, runFaults>>

OtherRecs(r) == {o \in Subjects \ {r} : recs[o].there}
\* Mutant: an executor that cannot be asked is taken for quiet.
QuietNowAssumed(o) == ~StatusOf(procs[o]).reachable \/ StatusOf(procs[o]).quiet
\* refreshQuiet: a positive observation, or nothing.
QuietNow(o) == StatusOf(procs[o]).reachable /\ StatusOf(procs[o]).quiet

GateStep(o) ==
    IF recs[o].dispatched /\ ~recs[o].quiet
    THEN IF recs[o].refused \/ QuietNow(o)
         THEN SaveRec(o, [recs[o] EXCEPT !.quiet = TRUE, !.sealed = @ \/ StatusOf(procs[o]).sealed]) /\ UNCHANGED sess
         ELSE Returns /\ UNCHANGED recs
    ELSE SaveRec(o, NoRec) /\ UNCHANGED sess

\* gate: no other run of the cycle is left that was not seen quiet.
Gate ==
    /\ sess.pc = "gate"
    /\ IF OtherRecs(sess.run) = {} THEN To("open") /\ UNCHANGED recs
       ELSE \E o \in OtherRecs(sess.run) : GateStep(o)
    /\ UNCHANGED <<execKind, composed, procs, stated, runFaults>>

OpenRecord ==
    /\ sess.pc = "open"
    /\ SaveRec(sess.run, NewRecord(composed)) /\ To("resolve")
    /\ UNCHANGED <<execKind, composed, procs, stated, runFaults>>

-----------------------------------------------------------------------------
(* resolveRun, settle, observe. *)

\* Mutant: the mark follows the call.
MarkDispatchedLater == SaveRec(sess.run, Mine)
\* The mark lands before the call.
MarkDispatched == SaveRec(sess.run, [Mine EXCEPT !.dispatched = TRUE])

ResolveRun ==
    /\ sess.pc = "resolve"
    /\ IF ~Mine.dispatched THEN MarkDispatched /\ To("start")
       ELSE To(IF Mine.id THEN "attach" ELSE "replay") /\ UNCHANGED recs
    /\ UNCHANGED <<execKind, composed, procs, stated, runFaults>>

\* Mutant: any executor may be asked again.
CanReplayAlways == TRUE
\* Only a durable executor replays a start.
CanReplay == Remotely

Unacknowledged == IF sess.pc = "start" /\ CanReplay THEN To("replay") ELSE Returns

\* A local start returns once the child has ended; a remote one at once.
StartReturns == Remotely \/ procs'[sess.run].phase = "quiet"

StartReviewer ==
    /\ sess.pc \in {"start", "replay"}
    /\ IF sess.pc = "replay" /\ ~CanReplay THEN Returns /\ UNCHANGED <<procs, runFaults>>
       ELSE \/ /\ MayAdmit(Proc, Mine.digest)
               /\ \E p \in Admits(Proc, Mine.digest) : procs' = [procs EXCEPT ![sess.run] = p]
               /\ \/ (IF StartReturns THEN With("observe", StatusOf(procs'[sess.run])) ELSE To("await")) /\ UNCHANGED runFaults
                  \/ Remotely /\ Blames /\ Unacknowledged
            \/ /\ MayRefuse(Proc)
               /\ procs' = [procs EXCEPT ![sess.run] = [@ EXCEPT !.refusing = TRUE, !.digest = Mine.digest]]
               /\ To("refused") /\ UNCHANGED runFaults
            \/ /\ Remotely /\ Blames /\ Unacknowledged /\ UNCHANGED procs
            \/ /\ ~MayAdmit(Proc, Mine.digest) /\ Holds(Proc)
               /\ Unacknowledged /\ UNCHANGED <<procs, runFaults>>
    /\ UNCHANGED <<execKind, composed, recs, stated>>

LocalChildEnds ==
    /\ sess.pc = "await" /\ Proc.phase = "quiet"
    /\ With("observe", StatusOf(Proc))
    /\ UNCHANGED <<execKind, composed, recs, procs, stated, runFaults>>

\* settle: a refusal is recorded as the answer, and nothing runs.
SettleRefused ==
    /\ sess.pc = "refused"
    /\ SaveRec(sess.run, [Mine EXCEPT !.refused = TRUE, !.quiet = TRUE]) /\ Returns
    /\ UNCHANGED <<execKind, composed, procs, stated, runFaults>>

\* observe: the backend's id is kept; a refused address that runs is not quiet.
ObserveRun ==
    /\ sess.pc = "observe"
    /\ recs' = IF ~Mine.id \/ Mine.refused
               THEN [recs EXCEPT ![sess.run] = [@ EXCEPT !.id = TRUE, !.refused = FALSE, !.quiet = @ /\ ~Mine.refused]]
               ELSE recs
    /\ To("events")
    /\ UNCHANGED <<execKind, composed, procs, stated, runFaults>>

AttachRun ==
    /\ sess.pc = "attach"
    /\ \/ Holds(Proc) /\ With("observe", StatusOf(Proc)) /\ UNCHANGED runFaults
       \/ (IF Holds(Proc) THEN Blames ELSE UNCHANGED runFaults) /\ Returns
    /\ UNCHANGED <<execKind, composed, recs, procs, stated>>

-----------------------------------------------------------------------------
(* consume: the status is read before the output it vouches for. *)

\* admit: the next chunks in sequence, none of them cut short.
Gap == Proc.kept > Mine.cursor + 1 /\ Proc.made > Mine.cursor
Cut == \E i \in (Mine.cursor + 1)..Proc.made : Proc.out[i] = "cut"

\* Mutant: what was read last is taken for the end.
FinishedAtLast(st) == st.reachable
\* The loop ends on a reachable, sealed and quiet state.
Finished(st) == st.reachable /\ st.sealed /\ st.quiet

ConsumeEvents ==
    /\ sess.pc = "events"
    /\ IF Holds(Proc) /\ (Gap \/ Cut) THEN Returns /\ UNCHANGED recs
       ELSE /\ SaveRec(sess.run, [Mine EXCEPT !.cursor = IF Holds(Proc) /\ Proc.made > @ THEN Proc.made ELSE @,
                                            !.quiet = sess.st.reachable /\ sess.st.quiet,
                                            !.sealed = sess.st.reachable /\ sess.st.sealed])
            /\ To(IF Finished(sess.st) THEN "extract" ELSE "status")
    /\ UNCHANGED <<execKind, composed, procs, stated, runFaults>>

\* The poll comes round, or the deadline passes and the run stays as it is.
PollStatus ==
    /\ sess.pc = "status"
    /\ \/ With("observe", StatusOf(Proc)) /\ UNCHANGED runFaults
       \/ Blames /\ Returns
    /\ UNCHANGED <<execKind, composed, recs, procs, stated>>

Envelopes(s) == {i \in DOMAIN s : s[i] \in {"clean", "changes"}}

\* ExtractVerdict: exactly one envelope, or no verdict at all.
Verdict(s) == IF Cardinality(Envelopes(s)) # 1 THEN "" ELSE s[CHOOSE i \in Envelopes(s) : TRUE]
Read(r) == SubSeq(procs[r].out, 1, recs[r].cursor)

ExtractReport ==
    /\ sess.pc = "extract"
    /\ SaveRec(sess.run, [Mine EXCEPT !.sealed = TRUE, !.quiet = sess.st.quiet, !.verdict = Verdict(Read(sess.run))])
    /\ stated' = IF recs'[sess.run].verdict = "" THEN stated ELSE [stated EXCEPT ![sess.run] = @ \union {recs'[sess.run].verdict}]
    /\ Returns
    /\ UNCHANGED <<execKind, composed, procs, runFaults>>

\* Retire: once the verdict is published, and only over a quiet run.
RetireRun(r) ==
    /\ sess.pc = "ease" /\ recs[r].there /\ stated[r] # {}
    /\ IF recs[r].sealed /\ recs[r].quiet THEN SaveRec(r, NoRec)
       ELSE IF QuietNow(r) THEN SaveRec(r, [recs[r] EXCEPT !.quiet = TRUE, !.sealed = @ \/ StatusOf(procs[r]).sealed])
       ELSE UNCHANGED recs
    /\ UNCHANGED <<execKind, composed, procs, sess, stated, runFaults>>

\* The process dies: a local executor forgets its children, which live on.
SessionDies ==
    /\ execKind # "" /\ Blames
    /\ sess' = AtEase
    /\ procs' = [r \in Subjects |-> [procs[r] EXCEPT !.known = FALSE]]
    /\ UNCHANGED <<execKind, composed, recs, stated>>

SessionNext ==
    \/ \E r \in Subjects : ReviewOpens(r) \/ RetireRun(r)
    \/ Supersede \/ Gate \/ OpenRecord \/ ResolveRun \/ StartReviewer \/ LocalChildEnds \/ SettleRefused
    \/ ObserveRun \/ AttachRun \/ ConsumeEvents \/ PollStatus \/ ExtractReport
RunNext ==
    \/ Deploy \/ RecomposesRequest \/ SessionNext \/ SessionDies
    \/ \E r \in Subjects : ReviewerRuns(r) \/ BackendForgets(r)
RunSpec == RunInit /\ [][RunNext]_runVars

-----------------------------------------------------------------------------
(* Properties. *)

ReviewRunTypeOK ==
    /\ \A r \in Subjects : recs[r].verdict \in {"", "clean", "changes"} /\ recs[r].cursor <= procs[r].made + 2
    /\ sess.run \in Subjects \union {0}

\* What Record.validate refuses to store is never what a session would store
\* (record.go:142): a refusal beside a run, a verdict of an unfinished one.
RecordsAreStorable ==
    \A r \in Subjects :
        /\ recs[r].id \/ recs[r].refused => recs[r].dispatched
        /\ recs[r].verdict # "" => recs[r].sealed /\ recs[r].quiet
        /\ recs[r].refused => ~recs[r].id /\ recs[r].verdict = ""

\* Two reviewers never run in one workspace cycle, through crashes, lost answers
\* and refusals (session.go:340, "puts two agents in one sandbox").
OneReviewerPerCycle == \A r, q \in Subjects : procs[r].live + (IF q = r THEN 0 ELSE procs[q].live) <= 1

\* A process that may still run has a dispatched record that says so: nothing
\* is retired, superseded or pruned under it.
NoUnrecordedReviewer == \A r \in Subjects : procs[r].live > 0 => recs[r].dispatched /\ ~recs[r].quiet

\* A verdict is that of the whole output of the run, never of a prefix
\* (session.go:519).
VerdictIsOfTheWhole ==
    \A r \in Subjects : recs[r].verdict # "" =>
        recs[r].cursor = Len(procs[r].out) /\ recs[r].verdict = Verdict(procs[r].out)

\* One reviewer to a workspace cycle, each on record before it runs, and a verdict
\* only of a whole output (reviewrun/session.go).
ReviewRunSafe ==
    ReviewRunTypeOK /\ RecordsAreStorable /\ OneReviewerPerCycle /\ NoUnrecordedReviewer /\ VerdictIsOfTheWhole
=============================================================================
