----------------------------- MODULE RemoteCycle -----------------------------
(***************************************************************************)
(* One issue on the remote substrate (internal/remotews, internal/mirror,   *)
(* internal/verify and the orchestrator's cycle.go): its workspace cycles,  *)
(* each anchored to an approval and owning one sandbox; the claims, each    *)
(* with an epoch and a verification base pinned from the canonical remote;  *)
(* the obligations that ended cycles leave behind; and the verdict on what  *)
(* a run published.                                                         *)
(*                                                                          *)
(* Two threads work at once: the record's worker ("claim") and the disposal *)
(* of an ended cycle ("dispose").  The loop's own set of owed cycles is fed *)
(* by directory scans that may be applied late.                             *)
(***************************************************************************)
EXTENDS Naturals, Sequences, FiniteSets

CONSTANTS MaxApproval, MaxEpoch, MaxCommits, MaxCycleFaults

VARIABLES approval,   \* [standing, last]: 0 is withdrawn
          asgn,    \* the assignment (epoch 0 is none), whether the change log shows it running,
                      \* and whether its record is on its way out
          cdisk,       \* the cycle record, the obligations, the mirror's record and pins
          canon,      \* the canonical remote: commits by parent and author, the branch
          fleet,      \* by approval: the sandbox, the run journal, the run
          thr,        \* the two threads
          cycleLock,  \* who is in Store.WithCycle
          owedLoop,   \* the loop's endedCycles, its scan in flight and their counters
          verdict,
          cycleFaults

cycleVars == <<approval, asgn, cdisk, canon, fleet, thr, cycleLock, owedLoop, verdict, cycleFaults>>

Approvals == 1..MaxApproval
Epochs == 1..MaxEpoch
Threads == {"claim", "dispose"}
AtRest == [pc |-> "idle", appr |-> 0, epoch |-> 0, sha |-> 0, head |-> 0, ends |-> TRUE]

NoVerdict == [is |-> "none", head |-> 0, pr |-> 0, epoch |-> 0]

Cyc == CHOOSE c \in cdisk.cyc : TRUE
CycOf(a) == cdisk.cyc # {} /\ Cyc.appr = a
OwedOf(a) == {d \in cdisk.owed : d.appr = a}
Fails == cycleFaults < MaxCycleFaults /\ cycleFaults' = cycleFaults + 1
Works == UNCHANGED cycleFaults
Go(t, p) == thr' = [thr EXCEPT ![t] = IF p = "idle" THEN AtRest ELSE [@ EXCEPT !.pc = p]]
Stop(t) == thr' = [thr EXCEPT ![t] = AtRest]
Unlock(t) == cycleLock' = IF cycleLock = t THEN "free" ELSE cycleLock
Aborts(t) == Stop(t) /\ Unlock(t)
\* A durable write: it lands, or the operation gives up with the old contents.
Writes(t, new, p) ==
    \/ cdisk' = new /\ Go(t, p) /\ Works /\ UNCHANGED cycleLock
    \/ UNCHANGED cdisk /\ Aborts(t) /\ Fails
\* cycleSeq advances: a snapshot begun before is no longer the loop's to apply.
Overtaken == {[s EXCEPT !.current = FALSE] : s \in owedLoop.scan}
\* The record acts for its claim unless it is on its way out.
Working == thr["claim"].pc = "idle" /\ asgn.epoch # 0 /\ asgn.leaving = "no"
Claiming == <<approval, asgn, canon, owedLoop, verdict>>

-----------------------------------------------------------------------------
(* The tracker and the canonical remote. *)

ApprovalMoves ==
    /\ \/ approval.standing # 0 /\ approval' = [approval EXCEPT !.standing = 0]
       \/ /\ approval.standing = 0 /\ approval.last < MaxApproval
          /\ approval' = [standing |-> approval.last + 1, last |-> approval.last + 1]
    /\ UNCHANGED <<asgn, cdisk, canon, fleet, thr, cycleLock, owedLoop, verdict, cycleFaults>>

Ancestors(c) ==
    LET up[i \in 0..Len(canon.parent)] == IF i = 0 THEN {} ELSE {i} \union up[canon.parent[i]]
    IN  up[c]

\* The agent pushes while its run is live.
RunPushes ==
    /\ \E a \in Approvals : CycOf(a) /\ fleet.run[a] = "live"
    /\ Len(canon.parent) < MaxCommits
    /\ canon' = [parent |-> Append(canon.parent, IF canon.branch = 0 THEN 1 ELSE canon.branch),
                 by |-> Append(canon.by, Cyc.epoch), branch |-> Len(canon.parent) + 1]
    /\ UNCHANGED <<approval, asgn, cdisk, fleet, thr, cycleLock, owedLoop, verdict, cycleFaults>>

\* Somebody else resets or deletes the branch.
BranchRewritten ==
    /\ canon.branch > 1
    /\ \E h \in {0, 1} : canon' = [canon EXCEPT !.branch = h]
    /\ UNCHANGED <<approval, asgn, cdisk, fleet, thr, cycleLock, owedLoop, verdict, cycleFaults>>

RunStops ==
    /\ \E a \in Approvals : fleet.run[a] = "live" /\ fleet' = [fleet EXCEPT !.run[a] = "quiet"]
    /\ UNCHANGED <<approval, asgn, cdisk, canon, thr, cycleLock, owedLoop, verdict, cycleFaults>>

-----------------------------------------------------------------------------
(* A claim begins: BeginClaimBase and the loop's reading after it. *)

\* Dispatch: not while an ended cycle of this issue is owed.
Assign ==
    /\ asgn.epoch = 0 /\ asgn.last < MaxEpoch
    /\ approval.standing # 0 /\ owedLoop.mem = {}
    /\ asgn' = [epoch |-> asgn.last + 1, last |-> asgn.last + 1, ran |-> FALSE, leaving |-> "no"]
    /\ UNCHANGED <<approval, cdisk, canon, fleet, thr, cycleLock, owedLoop, verdict, cycleFaults>>

\* beginClaimBase: the standing approval is read before the record is locked.  An
\* epoch that has run is never begun again: without its pin it is a fault.
BeginClaim ==
    /\ Working /\ approval.standing # 0 /\ ~asgn.ran
    /\ \A c \in cdisk.cyc : c.epoch # asgn.epoch \/ (c.state = "pending" /\ c.appr # approval.standing)
    /\ \A a \in Approvals : CycOf(a) => fleet.run[a] # "live"
    /\ thr' = [thr EXCEPT !["claim"] = [AtRest EXCEPT !.pc = "begin", !.appr = approval.standing,
                                                     !.epoch = asgn.epoch]]
    /\ owedLoop' = [owedLoop EXCEPT !.scan = Overtaken, !.mutating = TRUE]
    /\ UNCHANGED <<approval, asgn, cdisk, canon, fleet, cycleLock, verdict, cycleFaults>>

\* The loop hears of every begin, whatever it came to.
BeginFails == /\ UNCHANGED cdisk /\ Fails /\ Go("claim", "read")
              /\ cycleLock' = IF cycleLock = "claim" THEN "free" ELSE cycleLock

Pending(a, e) == [appr |-> a, state |-> "pending", epoch |-> e, base |-> 0, outEpoch |-> 0, outBase |-> 0,
                  cycleBase |-> 0]

\* cycleForDisposal: a pending record stands for the pin it is replacing.
ForDisposal(c) == IF c.state = "pinned" THEN {[c EXCEPT !.outEpoch = 0, !.outBase = 0]}
                  ELSE IF c.outEpoch = 0 THEN {}
                  ELSE {[c EXCEPT !.state = "pinned", !.epoch = c.outEpoch, !.base = c.outBase,
                                  !.outEpoch = 0, !.outBase = 0]}

\* Mutant: the replacement is installed first.
BeginReplacesFirst ==
    /\ thr["claim"].pc = "begin" /\ cycleLock = "free"
    /\ cdisk.cyc # {} /\ Cyc.appr # thr["claim"].appr /\ ForDisposal(Cyc) # {}
    /\ \/ /\ cdisk' = [cdisk EXCEPT !.cyc = {Pending(thr["claim"].appr, thr["claim"].epoch)}]
          /\ Go("claim", "read") /\ UNCHANGED cycleLock /\ Works
       \/ BeginFails
    /\ UNCHANGED <<Claiming, fleet>>

\* A different approval: the old cycle's obligation, before anything replaces it.
BeginOwes ==
    /\ thr["claim"].pc = "begin" /\ cycleLock = "free"
    /\ cdisk.cyc # {} /\ Cyc.appr # thr["claim"].appr /\ ForDisposal(Cyc) # {}
    /\ \/ \E c \in ForDisposal(Cyc) :
             /\ cdisk' = [cdisk EXCEPT !.owed = IF OwedOf(c.appr) # {} THEN @
                           ELSE @ \union {[appr |-> c.appr, epoch |-> c.epoch, fate |-> "unconfirmed"]}]
             /\ Go("claim", "replace") /\ cycleLock' = "claim" /\ Works
       \/ BeginFails
    /\ UNCHANGED <<Claiming, fleet>>

\* A first claim of the issue, or the replacement once its predecessor is owed.
BeginPending ==
    /\ \/ thr["claim"].pc = "replace" /\ cycleLock = "claim"
       \/ /\ thr["claim"].pc = "begin" /\ cycleLock = "free"
          /\ \A c \in cdisk.cyc : c.appr # thr["claim"].appr /\ ForDisposal(c) = {}
    /\ \/ /\ cdisk' = [cdisk EXCEPT !.cyc = {Pending(thr["claim"].appr, thr["claim"].epoch)}]
          /\ Go("claim", "read") /\ cycleLock' = "free" /\ Works
       \/ BeginFails
    /\ UNCHANGED <<Claiming, fleet>>

\* The same approval: a later epoch keeps the outgoing pin until its own lands.
BeginSameCycle ==
    /\ thr["claim"].pc = "begin" /\ cycleLock = "free" /\ CycOf(thr["claim"].appr)
    /\ LET next == [Cyc EXCEPT !.state = "pending", !.epoch = thr["claim"].epoch, !.base = 0,
                               !.outEpoch = Cyc.epoch, !.outBase = Cyc.base]
       IN  \/ /\ Cyc.state = "pinned" /\ Cyc.epoch # thr["claim"].epoch
              /\ \/ cdisk' = [cdisk EXCEPT !.cyc = {next}] /\ Go("claim", "read") /\ Works /\ UNCHANGED cycleLock
                 \/ BeginFails
           \/ /\ Cyc.state = "pending" \/ Cyc.epoch = thr["claim"].epoch
              /\ Go("claim", "read") /\ Works /\ UNCHANGED <<cdisk, cycleLock>>
    /\ UNCHANGED <<Claiming, fleet>>

Unconfirmed == {d.appr : d \in {o \in cdisk.owed : o.fate # "retained"}}

\* EndedCycles in the worker, and the signal: only a current snapshot is adopted.
BeginHeard ==
    /\ thr["claim"].pc = "read"
    /\ owedLoop' = [owedLoop EXCEPT !.mutating = FALSE, !.mem = @ \union Unconfirmed]
    /\ Stop("claim") /\ Works
    /\ UNCHANGED <<approval, asgn, cdisk, canon, fleet, cycleLock, verdict>>

\* AbandonPendingClaimBase, when the claim ends before its base was pinned.
Abandon ==
    /\ Working /\ cycleLock = "free"
    /\ cdisk.cyc # {} /\ Cyc.state = "pending"
    /\ cdisk' = [cdisk EXCEPT !.cyc = ForDisposal(Cyc)]
    /\ asgn' = [asgn EXCEPT !.epoch = 0, !.ran = FALSE, !.leaving = "no"]
    /\ UNCHANGED <<approval, canon, fleet, thr, cycleLock, owedLoop, verdict, cycleFaults>>

-----------------------------------------------------------------------------
(* PrepareClaim: settle, pin the base, acquire, restore. *)

\* settle: a dispatched run must be known quiet.
Settled(a) == fleet.jr[a] = "dispatched" => fleet.run[a] # "live"

\* The recorded cycle of the standing claim; settle refuses a run not known quiet
\* and retires the journal of one that is.
Prepare ==
    /\ Working /\ approval.standing # 0 /\ cdisk.cyc # {} /\ Cyc.epoch = asgn.epoch
    /\ Settled(Cyc.appr)
    /\ fleet' = [fleet EXCEPT !.jr[Cyc.appr] = "none"]
    /\ thr' = [thr EXCEPT !["claim"] = [AtRest EXCEPT !.pc = "pin", !.appr = Cyc.appr, !.epoch = Cyc.epoch]]
    /\ UNCHANGED <<Claiming, cdisk, cycleLock, cycleFaults>>

\* Discard in progress holds the mirror's lock on the key.
MirrorFree(t) == \A u \in Threads \ {t} : thr[u].pc \notin {"discardPin", "fetch", "record", "prune"}

\* ls-remote: 0 when the branch does not exist.
Probed == canon.branch

\* WithCycle in PrepareClaim: overtaken, or RecordClaimRetaining: a cycle already
\* recorded is proved and never pinned again; else the branch is probed.
RecordClaim ==
    /\ thr["claim"].pc = "pin" /\ cycleLock = "free" /\ MirrorFree("claim")
    /\ LET mine == cdisk.cyc # {} /\ Cyc.appr = thr["claim"].appr /\ Cyc.epoch = thr["claim"].epoch
           known == {r \in cdisk.mrec : r.epoch = thr["claim"].epoch}
       IN  \/ ~mine /\ Aborts("claim")
           \/ /\ mine /\ known = {} /\ cycleLock' = "claim"
              /\ thr' = [thr EXCEPT !["claim"].pc = "fetch", !["claim"].sha = Probed]
           \/ /\ mine /\ \E r \in known : cdisk.pins[r.epoch] # r.base
              /\ Aborts("claim")
           \/ /\ mine /\ cycleLock' = "claim"
              /\ \E r \in known : cdisk.pins[r.epoch] = r.base
                                  /\ thr' = [thr EXCEPT !["claim"].pc = "prune", !["claim"].sha = r.base]
    /\ Works /\ UNCHANGED <<Claiming, cdisk, fleet>>

\* What the fetch brings: the branch as it is now, or the target's head when the
\* probe found no branch.
Fetched(probed) == IF probed = 0 \/ canon.branch = 0 THEN 1 ELSE canon.branch

\* pinBase: the pin ref moves even when the branch has raced the probe.
PinFetch ==
    /\ thr["claim"].pc = "fetch"
    /\ LET probed == thr["claim"].sha
           fetched == Fetched(probed)
       IN  \/ /\ cdisk' = [cdisk EXCEPT !.pins[thr["claim"].epoch] = fetched] /\ Works
              /\ IF probed \in {0, fetched}
                 THEN thr' = [thr EXCEPT !["claim"].pc = "record", !["claim"].sha = fetched] /\ UNCHANGED cycleLock
                 ELSE Aborts("claim")
           \/ UNCHANGED cdisk /\ Aborts("claim") /\ Fails
    /\ UNCHANGED <<Claiming, fleet>>

\* writeRecord: the base becomes this epoch's.
PinRecord ==
    /\ thr["claim"].pc = "record"
    /\ Writes("claim", [cdisk EXCEPT !.mrec = {[epoch |-> thr["claim"].epoch, base |-> thr["claim"].sha]}], "prune")
    /\ UNCHANGED <<Claiming, fleet>>

\* pruneOtherEpochs, sparing what ended cycles still owe.
PinPrune ==
    /\ thr["claim"].pc = "prune"
    /\ LET kept == {thr["claim"].epoch} \union {d.epoch : d \in cdisk.owed}
       IN  Writes("claim", [cdisk EXCEPT !.pins = [e \in Epochs |-> IF e \in kept THEN @[e] ELSE 0]], "save")
    /\ UNCHANGED <<Claiming, fleet>>

\* Mutant: a pinned cycle takes whatever base the mirror has now.
PinSaveAnew ==
    /\ thr["claim"].pc = "save"
    /\ cdisk' = [cdisk EXCEPT !.cyc = {[Cyc EXCEPT !.state = "pinned", !.base = thr["claim"].sha, !.outEpoch = 0, !.outBase = 0]}]
    /\ Go("claim", "acquire") /\ cycleLock' = "free" /\ Works
    /\ UNCHANGED <<Claiming, fleet>>

\* Provider.pin: the cycle is pinned at the base the mirror proved.
PinSave ==
    /\ thr["claim"].pc = "save"
    /\ LET sha == thr["claim"].sha
       IN  \/ Cyc.state = "pinned" /\ Cyc.base # sha /\ Aborts("claim") /\ Works /\ UNCHANGED cdisk
           \/ /\ Cyc.state = "pinned" => Cyc.base = sha
              /\ \/ /\ cdisk' = [cdisk EXCEPT !.cyc = {[Cyc EXCEPT !.state = "pinned", !.base = sha, !.outEpoch = 0,
                                   !.outBase = 0, !.cycleBase = IF @ = 0 THEN sha ELSE @]}]
                    /\ Go("claim", "acquire") /\ cycleLock' = "free" /\ Works
                 \/ UNCHANGED cdisk /\ Aborts("claim") /\ Fails
    /\ UNCHANGED <<Claiming, fleet>>

\* acquire: the sandbox of the cycle's approval, made or attached.
AcquireBox ==
    /\ thr["claim"].pc = "acquire"
    /\ \/ Go("claim", "restore") /\ Works
       \/ Stop("claim") /\ Fails
    /\ fleet' = [fleet EXCEPT !.box[thr["claim"].appr] = "held"]
    /\ UNCHANGED <<Claiming, cdisk, cycleLock>>

\* RemoteFacts: the record and its pin must still prove the epoch, and the branch
\* as it is now.
FactsFor(e) == {r.base : r \in {q \in cdisk.mrec : q.epoch = e /\ cdisk.pins[e] = q.base}}
Restorable(base) == canon.branch = 0 \/ base \in Ancestors(canon.branch)

\* restore: the branch's head when it descends from the base, else refused.
RestoreBranch ==
    /\ thr["claim"].pc = "restore" /\ MirrorFree("claim")
    /\ \/ /\ CycOf(thr["claim"].appr) /\ \E b \in FactsFor(thr["claim"].epoch) : Restorable(b) /\ b = thr["claim"].sha
          /\ Go("claim", "launch")
       \/ /\ ~(CycOf(thr["claim"].appr) /\ \E b \in FactsFor(thr["claim"].epoch) : Restorable(b) /\ b = thr["claim"].sha)
          /\ Stop("claim")
    /\ UNCHANGED <<Claiming, cdisk, fleet, cycleLock, cycleFaults>>

\* Bind and the run: the record must still name this address, pinned.
LaunchRun ==
    /\ thr["claim"].pc = "launch"
    /\ IF CycOf(thr["claim"].appr) /\ Cyc.state = "pinned" /\ fleet.box[Cyc.appr] = "held"
       THEN /\ fleet' = [fleet EXCEPT !.jr[Cyc.appr] = "dispatched", !.run[Cyc.appr] = "live"]
            /\ asgn' = [asgn EXCEPT !.ran = TRUE]
       ELSE UNCHANGED <<fleet, asgn>>
    /\ Stop("claim")
    /\ UNCHANGED <<approval, canon, owedLoop, verdict, cdisk, cycleLock, cycleFaults>>

-----------------------------------------------------------------------------
(* Verification of what the run published. *)

\* admit: the branch exists, moved past the base and descends from it.
MovedPast(base, head) == head \notin {0, base} /\ base \in Ancestors(head)

\* RemoteChecker.Verify's first half: the claim, then the branch as it is now.
VerifyFacts ==
    /\ Working /\ cdisk.cyc # {} /\ asgn.epoch = Cyc.epoch /\ Cyc.state = "pinned"
    /\ fleet.run[Cyc.appr] = "quiet" /\ verdict.is = "none"
    /\ MirrorFree("claim")
    /\ \E b \in FactsFor(Cyc.epoch) :
         /\ b = Cyc.base
         /\ LET h == Probed
            IN  IF ~MovedPast(b, h)
                THEN verdict' = [is |-> "contradicted", head |-> h, pr |-> 0, epoch |-> Cyc.epoch] /\ UNCHANGED thr
                ELSE /\ thr' = [thr EXCEPT !["claim"] = [AtRest EXCEPT !.pc = "askPR", !.epoch = Cyc.epoch, !.head = h]]
                     /\ UNCHANGED verdict
    /\ UNCHANGED <<approval, asgn, cdisk, canon, fleet, cycleLock, owedLoop, cycleFaults>>

\* The forge's answer: no open pull request, or one proposing some head of the
\* branch, which may lag.
ForgeAnswers == 0..Len(canon.parent)

\* Mutant: the pull request's own head is not compared.
VerifyPullRequestOpen ==
    /\ thr["claim"].pc = "askPR"
    /\ \E pr \in ForgeAnswers :
         verdict' = [is |-> IF pr = 0 THEN "incomplete" ELSE "published",
                     head |-> thr["claim"].head, pr |-> pr, epoch |-> thr["claim"].epoch]
    /\ Stop("claim")
    /\ UNCHANGED <<approval, asgn, cdisk, canon, fleet, cycleLock, owedLoop, cycleFaults>>

\* The second half: the open pull request must propose the head that was read.
VerifyPullRequest ==
    /\ thr["claim"].pc = "askPR"
    /\ \E pr \in ForgeAnswers :
         verdict' = [is |-> IF pr = 0 THEN "incomplete" ELSE IF pr = thr["claim"].head THEN "published" ELSE "contradicted",
                     head |-> thr["claim"].head, pr |-> pr, epoch |-> thr["claim"].epoch]
    /\ Stop("claim")
    /\ UNCHANGED <<approval, asgn, cdisk, canon, fleet, cycleLock, owedLoop, cycleFaults>>

-----------------------------------------------------------------------------
(* The end of a cycle. *)

\* Dispose, CompleteFailure and CompleteShutdown of the claim's own workspace.  A
\* claim that ends has its outcome on the tracker first, and a failed call is owed again.
CompleteClaim ==
    /\ thr["claim"].pc = "idle" /\ asgn.epoch # 0 /\ asgn.leaving # "revoked"
    /\ cdisk.cyc # {} /\ Cyc.state = "pinned" /\ Cyc.epoch = asgn.epoch
    /\ \E ends \in (IF asgn.leaving = "terminal" THEN {TRUE} ELSE BOOLEAN) :
         /\ thr' = [thr EXCEPT !["claim"] = [AtRest EXCEPT !.pc = "complete", !.appr = Cyc.appr, !.ends = ends]]
         /\ asgn' = [asgn EXCEPT !.leaving = IF ends THEN "terminal" ELSE @]
    /\ UNCHANGED <<approval, canon, owedLoop, verdict, cdisk, fleet, cycleLock, cycleFaults>>

\* Mutant: the run's end is not waited for.
CompleteCurrentBlind(t) ==
    /\ thr[t].pc = "complete" /\ cycleLock = "free" /\ CycOf(thr[t].appr)
    /\ fleet' = [fleet EXCEPT !.jr[Cyc.appr] = "none"]
    /\ thr' = [thr EXCEPT ![t].pc = "release", ![t].epoch = Cyc.epoch]
    /\ cycleLock' = t
    /\ UNCHANGED <<Claiming, cdisk, cycleFaults>>

\* completeCurrent: only the cycle the record names, and only over a quiet run.
CompleteCurrent(t) ==
    /\ thr[t].pc = "complete" /\ cycleLock = "free"
    /\ \/ cdisk.cyc = {} /\ Go(t, IF t = "dispose" THEN "done" ELSE "idle") /\ UNCHANGED <<cycleLock, fleet>>
       \/ cdisk.cyc # {} /\ Cyc.appr # thr[t].appr /\ Stop(t) /\ UNCHANGED <<cycleLock, fleet>>
       \/ /\ CycOf(thr[t].appr)
          /\ IF ~Settled(Cyc.appr)
             THEN Stop(t) /\ UNCHANGED <<cycleLock, fleet>>
             ELSE /\ fleet' = [fleet EXCEPT !.jr[Cyc.appr] = "none"]
                  /\ thr' = [thr EXCEPT ![t].pc = "release", ![t].epoch = Cyc.epoch]
                  /\ cycleLock' = t
    /\ UNCHANGED <<Claiming, cdisk, cycleFaults>>

\* The disposer: retained by policy, or deleted and confirmed, or no answer.
DisposeBox(t) ==
    /\ thr[t].pc = "release"
    /\ LET done == IF t = "dispose" THEN "done" ELSE "idle"
       IN  \/ /\ UNCHANGED fleet /\ Go(t, done) /\ Unlock(t) /\ Works
           \/ /\ fleet' = [fleet EXCEPT !.box[thr[t].appr] = "gone"] /\ Works
              /\ IF thr[t].ends THEN Go(t, "discard") /\ UNCHANGED cycleLock ELSE Go(t, done) /\ Unlock(t)
           \/ /\ fleet' \in {fleet, [fleet EXCEPT !.box[thr[t].appr] = "gone"]}
              /\ Aborts(t) /\ Fails
    /\ UNCHANGED <<Claiming, cdisk>>

\* Mirror.Discard: the record if it is this epoch's, then the refs.
DiscardRecord(t) ==
    /\ thr[t].pc = "discard" /\ MirrorFree(t)
    /\ Writes(t, [cdisk EXCEPT !.mrec = {r \in @ : r.epoch # thr[t].epoch}], "discardPin")
    /\ UNCHANGED <<Claiming, fleet>>

DiscardPin(t) ==
    /\ thr[t].pc = "discardPin"
    /\ Writes(t, [cdisk EXCEPT !.pins[thr[t].epoch] = 0],
              IF cycleLock = t THEN "retire" ELSE "drop")
    /\ UNCHANGED <<Claiming, fleet>>

\* retireCurrent: the record goes last, and only if it still names this cycle.
RetireCycle(t) ==
    /\ thr[t].pc = "retire"
    /\ \/ cdisk' = [cdisk EXCEPT !.cyc = {c \in @ : c.appr # thr[t].appr}] /\ Works /\ Unlock(t)
          /\ Go(t, IF t = "dispose" THEN "done" ELSE "idle")
       \/ UNCHANGED cdisk /\ Aborts(t) /\ Fails
    /\ UNCHANGED <<Claiming, fleet>>

\* driveEndedCycles and CompleteEndedCycle: an obligation resolves through its own
\* record, anything else through the current one.
DisposeEnded ==
    /\ thr["dispose"].pc = "idle"
    /\ \E a \in owedLoop.mem :
         thr' = [thr EXCEPT !["dispose"] =
           [AtRest EXCEPT !.pc = IF OwedOf(a) = {} THEN "complete"
                                 ELSE IF \E d \in OwedOf(a) : d.fate = "retained" THEN "done" ELSE "barrier",
                          !.appr = a]]
    /\ UNCHANGED <<Claiming, cdisk, fleet, cycleLock, cycleFaults>>

\* Mutant: the obligation is carried out whatever the record names.
DisposeBarrierOpen ==
    /\ thr["dispose"].pc = "barrier" /\ cycleLock = "free"
    /\ \E d \in OwedOf(thr["dispose"].appr) :
         thr' = [thr EXCEPT !["dispose"].pc = IF d.fate = "deleted" THEN "discard" ELSE "settleOld",
                            !["dispose"].epoch = d.epoch]
    /\ UNCHANGED <<Claiming, cdisk, fleet, cycleLock, cycleFaults>>

\* completeCycleDisposal's barrier: while the record still names the cycle, its
\* replacement has not landed and nothing is disposed.
DisposeBarrier ==
    /\ thr["dispose"].pc = "barrier" /\ cycleLock = "free"
    /\ IF CycOf(thr["dispose"].appr) \/ OwedOf(thr["dispose"].appr) = {} THEN Stop("dispose")
       ELSE \E d \in OwedOf(thr["dispose"].appr) :
              thr' = [thr EXCEPT !["dispose"].pc = IF d.fate = "deleted" THEN "discard" ELSE "settleOld",
                                 !["dispose"].epoch = d.epoch]
    /\ UNCHANGED <<Claiming, cdisk, fleet, cycleLock, cycleFaults>>

\* settle, for an obligation's own cycle.
DisposeSettle ==
    /\ thr["dispose"].pc = "settleOld"
    /\ LET a == thr["dispose"].appr
       IN  IF ~Settled(a)
           THEN Stop("dispose") /\ UNCHANGED fleet
           ELSE fleet' = [fleet EXCEPT !.jr[a] = "none"] /\ Go("dispose", "deleteOld")
    /\ UNCHANGED <<Claiming, cdisk, cycleLock, cycleFaults>>

Confirms(a, fate) == [cdisk EXCEPT !.owed = {IF d.appr = a THEN [d EXCEPT !.fate = fate] ELSE d : d \in @}]

\* The disposer's answer, then the obligation's own confirmation.
DisposeOldBox ==
    /\ thr["dispose"].pc = "deleteOld"
    /\ LET a == thr["dispose"].appr
           gone == [fleet EXCEPT !.box[a] = "gone"]
       IN  \/ UNCHANGED fleet /\ Writes("dispose", Confirms(a, "retained"), "done")
           \/ fleet' = gone /\ Writes("dispose", Confirms(a, "deleted"), "discard")
           \/ fleet' \in {fleet, gone} /\ UNCHANGED cdisk /\ Aborts("dispose") /\ Fails
    /\ UNCHANGED Claiming

DropObligation ==
    /\ thr["dispose"].pc = "drop"
    /\ Writes("dispose", [cdisk EXCEPT !.owed = @ \ OwedOf(thr["dispose"].appr)], "done")
    /\ UNCHANGED <<Claiming, fleet>>

\* onCycleDisposed: the confirmation invalidates every snapshot begun before it.
CycleDisposed ==
    /\ thr["dispose"].pc = "done"
    /\ owedLoop' = [owedLoop EXCEPT !.scan = Overtaken, !.mem = @ \ {thr["dispose"].appr}]
    /\ Stop("dispose")
    /\ UNCHANGED <<approval, asgn, cdisk, canon, fleet, cycleLock, verdict, cycleFaults>>

-----------------------------------------------------------------------------
(* The loop's own view. *)

\* beginCycleScan reads the obligations' directory.
ScanBegins ==
    /\ owedLoop.scan = {} /\ ~owedLoop.mutating /\ Unconfirmed # owedLoop.mem
    /\ owedLoop' = [owedLoop EXCEPT !.scan = {[current |-> TRUE, refs |-> Unconfirmed]}]
    /\ UNCHANGED <<approval, asgn, cdisk, canon, fleet, thr, cycleLock, verdict, cycleFaults>>

\* Mutant: the snapshot is adopted however old.
ScanAppliesAny ==
    /\ \E s \in owedLoop.scan :
         owedLoop' = [owedLoop EXCEPT !.scan = {}, !.mem = @ \union s.refs]
    /\ UNCHANGED <<approval, asgn, cdisk, canon, fleet, thr, cycleLock, verdict, cycleFaults>>

\* onCycleScan: applied only when no mutation began or ended since.
ScanApplies ==
    /\ \E s \in owedLoop.scan :
         owedLoop' = [owedLoop EXCEPT !.scan = {},
                        !.mem = IF s.current /\ ~owedLoop.mutating THEN @ \union s.refs ELSE @]
    /\ UNCHANGED <<approval, asgn, cdisk, canon, fleet, thr, cycleLock, verdict, cycleFaults>>

\* A claim whose approval no longer stands owes the end of its cycle.
CycleEnds ==
    /\ Working /\ cdisk.cyc # {} /\ Cyc.state = "pinned"
    /\ Cyc.appr # approval.standing /\ Cyc.appr \notin owedLoop.mem
    /\ ~(thr["dispose"].pc = "done" /\ thr["dispose"].appr = Cyc.appr)
    /\ owedLoop' = [owedLoop EXCEPT !.mem = @ \union {Cyc.appr}]
    /\ asgn' = [asgn EXCEPT !.leaving = "revoked"]
    /\ UNCHANGED <<approval, cdisk, canon, fleet, thr, cycleLock, verdict, cycleFaults>>

\* The claim is given up, not while an ended cycle is owed.
ReleaseClaim ==
    /\ thr["claim"].pc = "idle" /\ asgn.epoch # 0 /\ owedLoop.mem = {}
    /\ \A c \in cdisk.cyc : c.state = "pinned"
    /\ \A a \in Approvals : CycOf(a) => fleet.run[a] # "live"
    /\ asgn' = [asgn EXCEPT !.epoch = 0, !.ran = FALSE, !.leaving = "no"]
    /\ verdict' = NoVerdict
    /\ UNCHANGED <<approval, cdisk, canon, fleet, thr, cycleLock, owedLoop, cycleFaults>>

\* A crash; recovery reads the obligations before anything else.
DaemonDies ==
    /\ Fails
    /\ thr' = [t \in Threads |-> AtRest] /\ cycleLock' = "free"
    /\ owedLoop' = [owedLoop EXCEPT !.mem = Unconfirmed, !.scan = {}, !.mutating = FALSE]
    /\ asgn' = [asgn EXCEPT !.leaving = IF @ = "revoked" THEN "no" ELSE @]
    /\ verdict' = NoVerdict
    /\ UNCHANGED <<approval, cdisk, canon, fleet>>

CycleInit ==
    /\ approval = [standing |-> 1, last |-> 1] /\ asgn = [epoch |-> 0, last |-> 0, ran |-> FALSE, leaving |-> "no"]
    /\ cdisk = [cyc |-> {}, owed |-> {}, mrec |-> {}, pins |-> [e \in Epochs |-> 0]]
    /\ canon = [parent |-> <<0>>, by |-> <<0>>, branch |-> 0]
    /\ fleet = [box |-> [a \in Approvals |-> "none"], jr |-> [a \in Approvals |-> "none"],
                run |-> [a \in Approvals |-> "none"]]
    /\ thr = [t \in Threads |-> AtRest] /\ cycleLock = "free"
    /\ owedLoop = [mem |-> {}, scan |-> {}, mutating |-> FALSE]
    /\ verdict = NoVerdict /\ cycleFaults = 0

CycleNext ==
    \/ ApprovalMoves \/ RunPushes \/ BranchRewritten \/ RunStops
    \/ Assign \/ BeginClaim \/ BeginOwes \/ BeginPending \/ BeginSameCycle \/ BeginHeard \/ Abandon
    \/ Prepare \/ RecordClaim \/ PinFetch \/ PinRecord \/ PinPrune \/ PinSave
    \/ AcquireBox \/ RestoreBranch \/ LaunchRun \/ VerifyFacts \/ VerifyPullRequest
    \/ CompleteClaim
    \/ \E t \in Threads : CompleteCurrent(t) \/ DisposeBox(t) \/ DiscardRecord(t) \/ DiscardPin(t) \/ RetireCycle(t)
    \/ DisposeEnded \/ DisposeBarrier \/ DisposeSettle \/ DisposeOldBox \/ DropObligation \/ CycleDisposed
    \/ ScanBegins \/ ScanApplies \/ CycleEnds \/ ReleaseClaim \/ DaemonDies

CycleSpec == CycleInit /\ [][CycleNext]_cycleVars

-----------------------------------------------------------------------------
(* Properties. *)

\* Types and bounds.
CycleTypeOK ==
    /\ approval.standing \in 0..MaxApproval /\ asgn.epoch \in 0..MaxEpoch
    /\ Cardinality(cdisk.cyc) <= 1 /\ Cardinality(cdisk.mrec) <= 1
    /\ \A a \in Approvals : Cardinality(OwedOf(a)) <= 1
    /\ cycleLock \in Threads \union {"free"} /\ owedLoop.mem \subseteq Approvals

\* No allocated sandbox is without a record that can name it: the live cycle's,
\* or its own obligation (BeginClaimBase, retireCurrent).
NoSandboxLost ==
    \A a \in Approvals : fleet.box[a] = "held" => CycOf(a) \/ OwedOf(a) # {}

\* Nothing is deleted under a run that may be live (settle, MayReuse).
NoDeleteUnderRun == \A a \in Approvals : fleet.run[a] = "live" => fleet.box[a] = "held"

\* The base of a claim is older than everything its run pushed, through every
\* crash between the pin, the record and the cycle (RecordClaimRetaining).
BasePrecedesRun ==
    \A c \in cdisk.cyc : c.state = "pinned" => \A i \in Ancestors(c.base) : canon.by[i] # c.epoch

\* What is called published is a commit made since the claim's base was pinned, and
\* the head the open pull request proposed (RemoteChecker.Verify).
PublishedIsNew ==
    verdict.is = "published" =>
        /\ verdict.pr = verdict.head
        /\ \A c \in cdisk.cyc : c.state = "pinned" /\ c.epoch = verdict.epoch
              => c.base # verdict.head /\ c.base \in Ancestors(verdict.head)

\* Whatever the loop owes can be completed: it has an obligation of its own or is
\* the current cycle.  Anything else would refuse for ever and block the issue.
OwedIsCompletable ==
    \A a \in owedLoop.mem :
        \/ OwedOf(a) # {} \/ CycOf(a) \/ cdisk.cyc = {}
        \/ thr["dispose"].pc = "done" /\ thr["dispose"].appr = a

\* The remote cycle of an issue keeps its pin, its pull request and its workspace
\* through re-approvals, crashes and disposals (orchestrator/cycle.go, remotews).
CycleSafe ==
    /\ CycleTypeOK /\ NoSandboxLost /\ NoDeleteUnderRun /\ BasePrecedesRun
    /\ PublishedIsNew /\ OwedIsCompletable
=============================================================================
