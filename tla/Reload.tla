------------------------------- MODULE Reload -------------------------------
(***************************************************************************)
(* How an edited WORKFLOW.md takes effect while the daemon works: the      *)
(* watcher's apply (internal/config/watch.go), the versioned source it     *)
(* publishes to (internal/config/source.go), the bundle builder            *)
(* (cmd/ben/runtime.go), and the orchestrator's side of an identity change *)
(* (orchestrator.go: AdoptIdentity, awaitAdoption, onAdopt) together with  *)
(* the dispatch reads that must not outlive the revision they began under  *)
(* (signals.go: beginDispatchReads, onTickResult).                         *)
(*                                                                         *)
(* A definition is a record of what the code tells apart:                  *)
(*   valid     Load accepts the file                                       *)
(*   policy    everything no adapter is built from (prompt, polling, ...)  *)
(*   tracker   <<account, settings>> of the tracker block                  *)
(*   agent     the agent block                                             *)
(*   workspace <<root, settings>> of the workspace and hooks blocks        *)
(*   lifetime  deployment, substrate and review declarations               *)
(* A bundle records, for each adapter, the blocks it was built from.       *)
(***************************************************************************)
EXTENDS Naturals, Sequences, FiniteSets, SequencesExt

CONSTANTS
    Defs,          \* the definitions an operator may save
    FirstDef,      \* the one the daemon started with
    MaxEdits,      \* bound: saves of the file
    MaxClaims,     \* bound: claims over the behaviour
    MaxReloadFaults \* bound: failed builds, panicking commits, cancelled calls

VARIABLES
    disk,      \* the definition the file holds
    noticed,   \* a filesystem event or debounce timer is outstanding
    source,    \* RuntimeSource: definition, bundle, verdict, revision
    deferred,  \* Watcher.deferred: at most one definition refused for work
    apply,     \* the apply that holds applyMu
    mailbox,   \* adoptions sent to the loop and not yet handled
    authority, \* "free", or "committing" an adoption
    reads,     \* the dispatch worker: stage, captured revision, its tracker
    claimed,   \* identities of the outstanding work
    told,      \* outcomes reported to callers against what was published
    edits, claims, reloadFaults

reloadVars == <<disk, noticed, source, deferred, apply, mailbox, authority,
                reads, claimed, told, edits, claims, reloadFaults>>

NoAnswer == "none"
Unblocked == "nil"
Outstanding == "work outstanding"
NoApply == [stage |-> "idle"]
NoReads == [stage |-> "idle"]

-----------------------------------------------------------------------------
(* The builder.                                                            *)

\* What each adapter is built from when everything is built anew.
WorkspacesOf(d) == <<d.tracker, d.workspace, d.agent>>
Fresh(d) == [tracker |-> d.tracker, workspaces |-> WorkspacesOf(d),
             runner |-> <<d.agent, WorkspacesOf(d)>>, root |-> d.workspace[1]]

\* adapterChange: which adapter blocks differ.
AdapterChange(cur, next) ==
    [tracker |-> cur.tracker # next.tracker, agent |-> cur.agent # next.agent,
     workspace |-> cur.workspace # next.workspace]

AnyAdapter(changed) == changed.tracker \/ changed.agent \/ changed.workspace

\* Mutant: a runner is carried across a workspace rebuilt beneath it.
BuildCarryingRunner(d, prev, changed) ==
    LET rebuildWorkspace == changed.tracker \/ changed.workspace
        workspaces == IF rebuildWorkspace \/ changed.agent
                      THEN WorkspacesOf(d) ELSE prev.workspaces
    IN  [tracker |-> IF changed.tracker THEN d.tracker ELSE prev.tracker,
         workspaces |-> workspaces,
         runner |-> IF changed.agent THEN <<d.agent, workspaces>> ELSE prev.runner,
         root |-> d.workspace[1]]

\* build: a part is rebuilt when its own block or a part beneath it changed,
\* and carried from the bundle in force otherwise.
Build(d, prev, changed) ==
    LET rebuildTracker == changed.tracker
        rebuildWorkspace == rebuildTracker \/ changed.workspace \/ changed.agent
        rebuildRunner == changed.agent \/ rebuildWorkspace
        workspaces == IF rebuildWorkspace THEN WorkspacesOf(d) ELSE prev.workspaces
    IN  [tracker |-> IF rebuildTracker THEN d.tracker ELSE prev.tracker,
         workspaces |-> workspaces,
         runner |-> IF rebuildRunner THEN <<d.agent, workspaces>> ELSE prev.runner,
         root |-> d.workspace[1]]

\* Bundle.Identity: the claim principal, the remote and the workspace root.
Identity(b) == <<b.tracker[1], b.root>>

-----------------------------------------------------------------------------
(* The source.                                                             *)

\* store: the revision moves with the definition or with blocked-ness, and a
\* second failure of the same kind is no transition.
Store(d, b, blocked) ==
    LET moved == \/ source.def # d
                 \/ (source.blocked = Unblocked) # (blocked = Unblocked)
    IN  source' = [def |-> d, bundle |-> b, blocked |-> blocked,
                   rev |-> source.rev + IF moved THEN 1 ELSE 0]

\* identityWorkOutstanding, and the mirror IdentityQuiescent answers from:
\* publishIdentityWork refreshes it in the turn that changed the work.
WorkOutstanding == claimed # {}

-----------------------------------------------------------------------------
(* The watcher's apply.                                                    *)

Fail(why) == apply' = [apply EXCEPT !.stage = "failed", !.why = why]

\* Mutant: process-lifetime declarations are adopted like any other.
DecideIgnoringLifetime(by) ==
    LET d == disk
        changed == AdapterChange(source.def, d)
        at(stage, why) == [by |-> by, stage |-> stage, why |-> why, def |-> d,
                           bundle |-> source.bundle, cancelled |-> FALSE, ack |-> NoAnswer]
    IN  apply' = IF ~d.valid THEN at("failed", "invalid")
                 ELSE IF d = source.def THEN at("unchanged", Unblocked)
                 ELSE IF AnyAdapter(changed) THEN at("building", Unblocked)
                 ELSE at("built", Unblocked)

\* transaction: everything decided before an adapter is built.  The worker's
\* revalidation and the watcher's timer run the same code under applyMu.
Decide(by) ==
    LET d == disk
        changed == AdapterChange(source.def, d)
        at(stage, why) == [by |-> by, stage |-> stage, why |-> why, def |-> d,
                           bundle |-> source.bundle, cancelled |-> FALSE, ack |-> NoAnswer]
    IN  apply' = IF ~d.valid THEN at("failed", "invalid")
                 ELSE IF d = source.def THEN at("unchanged", Unblocked)
                 ELSE IF d \in deferred /\ WorkOutstanding THEN at("failed", Outstanding)
                 ELSE IF d.lifetime # source.def.lifetime THEN at("failed", "restart")
                 ELSE IF AnyAdapter(changed) THEN at("building", Unblocked)
                 ELSE at("built", Unblocked)

\* run: the debounce timer fires.
TimerApplies ==
    /\ noticed /\ apply = NoApply
    /\ noticed' = FALSE
    /\ Decide("watcher")
    /\ UNCHANGED <<disk, source, deferred, mailbox, authority, reads, claimed, told,
                   edits, claims, reloadFaults>>

\* Revalidate, from the dispatch worker.
WorkerRevalidates ==
    /\ reads.stage = "revalidate" /\ apply = NoApply
    /\ Decide("worker")
    /\ reads' = [reads EXCEPT !.stage = "applying"]
    /\ UNCHANGED <<disk, noticed, source, deferred, mailbox, authority, claimed, told,
                   edits, claims, reloadFaults>>

\* build answers a bundle, or an error of any one part.
BuildAnswers ==
    /\ apply.stage = "building"
    /\ \/ /\ apply' = [apply EXCEPT !.stage = "built",
                         !.bundle = Build(apply.def, source.bundle,
                                          AdapterChange(source.def, apply.def))]
          /\ UNCHANGED reloadFaults
       \/ /\ reloadFaults < MaxReloadFaults
          /\ reloadFaults' = reloadFaults + 1
          /\ Fail("build")
    /\ UNCHANGED <<disk, noticed, source, deferred, mailbox, authority, reads, claimed,
                   told, edits, claims>>

\* commit -> AdoptIdentity: the loop is asked to publish.
AdoptIdentity ==
    /\ apply.stage = "built"
    /\ apply' = [apply EXCEPT !.stage = "awaiting"]
    /\ mailbox' = Append(mailbox, [state |-> "pending", def |-> apply.def,
                                   prev |-> source.bundle, next |-> apply.bundle])
    /\ UNCHANGED <<disk, noticed, source, deferred, authority, reads, claimed, told,
                   edits, claims, reloadFaults>>

\* Mutant: the caller gives up whatever the loop has begun.
GiveUpAlways ==
    /\ apply.stage = "awaiting" /\ apply.ack = NoAnswer /\ ~apply.cancelled
    /\ reloadFaults < MaxReloadFaults
    /\ reloadFaults' = reloadFaults + 1
    /\ Fail("context")
    /\ UNCHANGED <<disk, noticed, source, deferred, mailbox, authority, reads, claimed,
                   told, edits, claims>>

\* awaitAdoption: the context ends.  Only an adoption no one has begun can be
\* taken back; otherwise the caller waits for the answer.
GiveUp ==
    /\ apply.stage = "awaiting" /\ apply.ack = NoAnswer /\ ~apply.cancelled
    /\ reloadFaults < MaxReloadFaults
    /\ reloadFaults' = reloadFaults + 1
    /\ IF mailbox # <<>> /\ Last(mailbox).state = "pending"
       THEN /\ mailbox' = [mailbox EXCEPT ![Len(mailbox)].state = "cancelled"]
            /\ Fail("context")
       ELSE /\ apply' = [apply EXCEPT !.cancelled = TRUE]
            /\ UNCHANGED mailbox
    /\ UNCHANGED <<disk, noticed, source, deferred, authority, reads, claimed, told,
                   edits, claims>>

\* Mutant: an identity moves with work outstanding.
OnAdoptUnchecked ==
    /\ authority = "free" /\ mailbox # <<>>
    /\ LET a == Head(mailbox) IN
        /\ mailbox' = IF a.state = "pending"
                      THEN [mailbox EXCEPT ![1].state = "executing"] ELSE Tail(mailbox)
        /\ authority' = IF a.state = "pending" THEN "committing" ELSE "free"
    /\ UNCHANGED <<disk, noticed, source, deferred, apply, reads, claimed, told,
                   edits, claims, reloadFaults>>

\* Mutant: an adoption refused for outstanding work is dropped unanswered.
OnAdoptSilent ==
    /\ authority = "free" /\ mailbox # <<>>
    /\ LET a == Head(mailbox)
           refused == Identity(a.prev) # Identity(a.next) /\ WorkOutstanding
       IN  /\ mailbox' = IF a.state = "pending" /\ ~refused
                         THEN [mailbox EXCEPT ![1].state = "executing"] ELSE Tail(mailbox)
           /\ authority' = IF a.state = "pending" /\ ~refused THEN "committing" ELSE "free"
    /\ UNCHANGED <<disk, noticed, source, deferred, apply, reads, claimed, told,
                   edits, claims, reloadFaults>>

\* onAdopt up to the compare-and-swap that claims the adoption.
OnAdopt ==
    /\ authority = "free" /\ mailbox # <<>>
    /\ LET a == Head(mailbox)
           refused == Identity(a.prev) # Identity(a.next) /\ WorkOutstanding
       IN  /\ mailbox' = IF a.state = "pending" /\ ~refused
                         THEN [mailbox EXCEPT ![1].state = "executing"] ELSE Tail(mailbox)
           /\ authority' = IF a.state = "pending" /\ ~refused THEN "committing" ELSE "free"
           /\ apply' = IF a.state = "pending" /\ refused
                       THEN [apply EXCEPT !.ack = Outstanding] ELSE apply
    /\ UNCHANGED <<disk, noticed, source, deferred, reads, claimed, told,
                   edits, claims, reloadFaults>>

\* runCommit: publish, or recover a panic; either way the caller is answered.
RunCommit ==
    /\ authority = "committing"
    /\ \/ /\ Store(Head(mailbox).def, Head(mailbox).next, Unblocked)
          /\ apply' = [apply EXCEPT !.ack = Unblocked]
          /\ told' = told \cup {"published"}
          /\ UNCHANGED reloadFaults
       \/ /\ reloadFaults < MaxReloadFaults
          /\ reloadFaults' = reloadFaults + 1
          /\ apply' = [apply EXCEPT !.ack = "panic"]
          /\ UNCHANGED <<source, told>>
    /\ authority' = "free"
    /\ mailbox' = Tail(mailbox)
    /\ UNCHANGED <<disk, noticed, deferred, reads, claimed, edits, claims>>

\* The answer reaches apply.
Acked ==
    /\ apply.stage = "awaiting" /\ apply.ack # NoAnswer
    /\ IF apply.ack = Unblocked
       THEN /\ apply' = [apply EXCEPT !.stage = "adopted"]
            /\ deferred' = {}
       ELSE /\ Fail(apply.ack)
            /\ deferred' = IF apply.ack = Outstanding THEN {apply.def} ELSE deferred
    /\ UNCHANGED <<disk, noticed, source, mailbox, authority, reads, claimed, told,
                   edits, claims, reloadFaults>>

\* Mutant: a refused definition is stored with its verdict.
ApplyEndsPublishing ==
    /\ apply.stage \in {"unchanged", "adopted", "failed"}
    /\ CASE apply.stage = "failed" -> Store(apply.def, source.bundle, apply.why)
         [] apply.stage = "unchanged" -> Store(source.def, source.bundle, Unblocked)
         [] OTHER -> UNCHANGED source
    /\ deferred' = IF apply.stage = "unchanged" /\ source.blocked # Unblocked
                   THEN {} ELSE deferred
    /\ reads' = IF apply.by = "worker" THEN [reads EXCEPT !.stage = "fetch"] ELSE reads
    /\ apply' = NoApply
    /\ told' = {}
    /\ UNCHANGED <<disk, noticed, mailbox, authority, claimed, edits, claims, reloadFaults>>

\* The tail of apply: a failure keeps the definition in force and blocks it; an
\* unchanged file clears a block; applyMu is released.
ApplyEnds ==
    /\ apply.stage \in {"unchanged", "adopted", "failed"}
    /\ CASE apply.stage = "failed" -> Store(source.def, source.bundle, apply.why)
         [] apply.stage = "unchanged" -> Store(source.def, source.bundle, Unblocked)
         [] OTHER -> UNCHANGED source
    /\ deferred' = IF apply.stage = "unchanged" /\ source.blocked # Unblocked
                   THEN {} ELSE deferred
    /\ reads' = IF apply.by = "worker" THEN [reads EXCEPT !.stage = "fetch"] ELSE reads
    /\ apply' = NoApply
    /\ told' = {}
    /\ UNCHANGED <<disk, noticed, mailbox, authority, claimed, edits, claims, reloadFaults>>

-----------------------------------------------------------------------------
(* The authority loop's dispatch.                                          *)

\* beginDispatchReads captures the revision before its reads begin.
BeginDispatchReads ==
    /\ authority = "free" /\ reads = NoReads
    /\ reads' = [stage |-> "revalidate", rev |-> source.rev, via |-> {}]
    /\ UNCHANGED <<disk, noticed, source, deferred, apply, mailbox, authority, claimed,
                   told, edits, claims, reloadFaults>>

\* The worker fetches through the snapshot revalidation left.
Fetch ==
    /\ reads.stage = "fetch"
    /\ reads' = [reads EXCEPT !.stage = "result",
                   !.via = IF source.blocked = Unblocked THEN {source.bundle.tracker} ELSE {}]
    /\ UNCHANGED <<disk, noticed, source, deferred, apply, mailbox, authority, claimed,
                   told, edits, claims, reloadFaults>>

\* Mutant: overtaken candidates are dispatched.
OnTickResultSalvaging ==
    /\ authority = "free" /\ reads.stage = "result"
    /\ reads' = NoReads
    /\ \/ UNCHANGED <<claimed, claims>>
       \/ /\ source.blocked = Unblocked /\ reads.via # {}
          /\ claims < MaxClaims
          /\ claims' = claims + 1
          /\ claimed' = claimed \cup {[identity |-> Identity(source.bundle),
                                       fetched |-> reads.via,
                                       under |-> source.bundle.tracker]}
    /\ UNCHANGED <<disk, noticed, source, deferred, apply, mailbox, authority, told,
                   edits, reloadFaults>>

\* onTickResult: overtaken reads are discarded, a blocked configuration
\* dispatches nothing, and dispatch claims under the bundle in force.
OnTickResult ==
    /\ authority = "free" /\ reads.stage = "result"
    /\ reads' = NoReads
    /\ \/ UNCHANGED <<claimed, claims>>
       \/ /\ source.rev = reads.rev /\ source.blocked = Unblocked
          /\ claims < MaxClaims
          /\ claims' = claims + 1
          /\ claimed' = claimed \cup {[identity |-> Identity(source.bundle),
                                       fetched |-> reads.via,
                                       under |-> source.bundle.tracker]}
    /\ UNCHANGED <<disk, noticed, source, deferred, apply, mailbox, authority, told,
                   edits, reloadFaults>>

\* A claim is released, parked or handed back, and nothing is owed for it.
WorkEnds ==
    /\ authority = "free"
    /\ \E w \in claimed : claimed' = claimed \ {w}
    /\ UNCHANGED <<disk, noticed, source, deferred, apply, mailbox, authority, reads,
                   told, edits, claims, reloadFaults>>

\* The operator saves the file; the event may be lost.
Save ==
    /\ edits < MaxEdits
    /\ \E d \in Defs \ {disk} : disk' = d
    /\ \E seen \in BOOLEAN : noticed' = (noticed \/ seen)
    /\ edits' = edits + 1
    /\ UNCHANGED <<source, deferred, apply, mailbox, authority, reads, claimed, told,
                   claims, reloadFaults>>

-----------------------------------------------------------------------------
ReloadInit ==
    /\ disk = FirstDef /\ noticed = FALSE
    /\ source = [def |-> FirstDef, bundle |-> Fresh(FirstDef), blocked |-> Unblocked, rev |-> 1]
    /\ deferred = {} /\ apply = NoApply /\ mailbox = <<>> /\ authority = "free"
    /\ reads = NoReads /\ claimed = {} /\ told = {}
    /\ edits = 0 /\ claims = 0 /\ reloadFaults = 0

ReloadSteps == \/ TimerApplies \/ WorkerRevalidates \/ BuildAnswers \/ AdoptIdentity
               \/ OnAdopt \/ RunCommit \/ Acked \/ ApplyEnds
               \/ BeginDispatchReads \/ Fetch \/ OnTickResult

ReloadNext == ReloadSteps \/ GiveUp \/ WorkEnds \/ Save

\* The watcher, the worker and the loop keep running, and work ends: every run
\* is bounded by the attempt timeout and every exit is retried on each tick.
ReloadFair ==
    /\ WF_reloadVars(TimerApplies) /\ WF_reloadVars(WorkerRevalidates)
    /\ WF_reloadVars(BuildAnswers) /\ WF_reloadVars(AdoptIdentity)
    /\ WF_reloadVars(OnAdopt) /\ WF_reloadVars(RunCommit) /\ WF_reloadVars(Acked)
    /\ WF_reloadVars(ApplyEnds) /\ WF_reloadVars(BeginDispatchReads)
    /\ WF_reloadVars(Fetch) /\ WF_reloadVars(OnTickResult) /\ WF_reloadVars(WorkEnds)

ReloadSpec == ReloadInit /\ [][ReloadNext]_reloadVars /\ ReloadFair

-----------------------------------------------------------------------------
(* Properties.                                                             *)

\* The source always holds a definition an operator saved and Load accepted,
\* and a verdict of the watcher.
ReloadTypeOK ==
    /\ disk \in Defs /\ source.def \in {d \in Defs : d.valid}
    /\ source.blocked \in {Unblocked, Outstanding, "invalid", "restart", "build", "context", "panic"}
    /\ source.rev \in Nat \ {0}
    /\ deferred \subseteq Defs /\ Cardinality(deferred) <= 1
    /\ authority \in {"free", "committing"}
    /\ reads.stage \in {"idle", "revalidate", "applying", "fetch", "result"}
    /\ apply.stage \in {"idle", "building", "built", "awaiting", "unchanged", "adopted", "failed"}

\* Identity: a reload never moves the principal or the workspace root from
\* under outstanding work, whatever the caller, the loop and the claims do in
\* between (onAdopt, identityWorkOutstanding).
WorkKeepsItsIdentity ==
    \A w \in claimed : w.identity = Identity(source.bundle)

\* The adapters in force are the ones a daemon started on the definition in
\* force would build: no part is carried across a change beneath it.
NoStaleAdapter == source.bundle = Fresh(source.def)

\* One outcome: a reload reported as failed has published nothing, including
\* when the caller gives up as the loop commits (awaitAdoption).
FailureMeansUnpublished ==
    apply.stage = "failed" => told = {}

\* A claim rests on candidates read through the tracker it is claimed with: no
\* read begun under an overtaken revision is dispatched (onTickResult).
CandidatesAreCurrent == \A w \in claimed : w.fetched = {w.under}

\* Process-lifetime configuration never changes without a restart.
LifetimeIsFixed == source.def.lifetime = FirstDef.lifetime

\* What a reload may never do to the work and the configuration in force.
ReloadSafe == /\ ReloadTypeOK /\ WorkKeepsItsIdentity /\ NoStaleAdapter
              /\ FailureMeansUnpublished /\ CandidatesAreCurrent /\ LifetimeIsFixed

\* A definition the daemon can adopt without a restart.
Adoptable(d) == d.valid /\ d.lifetime = FirstDef.lifetime

\* An edit takes effect or is reported: once the file stops changing, a
\* definition that can be adopted comes into force and unblocks dispatch, and
\* one that cannot leaves dispatch blocked, even when events are lost, work is
\* outstanding, and builds or commits fail.
EditSettles ==
    <>[](/\ Adoptable(disk) => source.def = disk /\ source.blocked = Unblocked
         /\ ~Adoptable(disk) => source.blocked # Unblocked)
=============================================================================
