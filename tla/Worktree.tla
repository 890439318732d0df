------------------------------ MODULE Worktree ------------------------------
(***************************************************************************)
(* One issue's local workspace (internal/workspace): the base repository,   *)
(* its refs, the worktree, the private directory, the owner record and the  *)
(* claim-base record, under Prepare, Dispose, Sweep and the fact readers.   *)
(* A commit is the sequence of changes that leads to it, so "is an ancestor *)
(* of" is "is a prefix of".  The issue lock admits one operation at a time; *)
(* the daemon may die between any two of its steps, git and the hooks may   *)
(* fail, and origin and the disk belong to people and the agent as well.    *)
(***************************************************************************)
EXTENDS Naturals, Sequences, SequencesExt

CONSTANTS MaxTreeClaims,     \* claim epochs
          MaxLength,     \* changes on one branch
          MaxMeddling    \* steps of people, failures and crashes

ASSUME WorktreeAssumption == {MaxTreeClaims, MaxLength, MaxMeddling} \subseteq Nat

VARIABLES gitRefs,    \* refs of base.git
          treeDisk,   \* the worktree, its registration, the private directory, the owner
          claimFile,  \* the claim-base record
          provOp,     \* the provider operation that holds the issue lock
          originRepo, \* the remote
          atWork,     \* whether an agent runs in the workspace
          facts,      \* what the last PublishFacts answered
          treePast,   \* history: the branch, origin since the operation began
          meddled

treeVars == <<gitRefs, treeDisk, claimFile, provOp, originRepo, atWork, facts, treePast, meddled>>

NoCommit == <<>>
Claims == 1..MaxTreeClaims
NoOp == [pc |-> "idle", remote |-> NoCommit, start |-> NoCommit, created |-> FALSE]
NoFacts == [hasHead |-> FALSE, head |-> NoCommit, since |-> {}]
AbsentBase == [st |-> "absent", epoch |-> 0, base |-> NoCommit, outEpoch |-> 0, outBase |-> NoCommit]

WorktreeInit ==
    /\ gitRefs = [branch |-> NoCommit, ready |-> FALSE, cache |-> NoCommit, target |-> NoCommit,
                  pins |-> [e \in Claims |-> NoCommit]]
    /\ treeDisk = [base |-> FALSE, dir |-> "none", reg |-> "no", elsewhere |-> FALSE,
                   owner |-> FALSE, private |-> FALSE, booted |-> FALSE]
    /\ claimFile = AbsentBase /\ provOp = NoOp /\ atWork = FALSE /\ facts = NoFacts
    /\ originRepo = [target |-> <<"t">>, issue |-> NoCommit]
    /\ treePast = [work |-> NoCommit, since |-> {}, foreign |-> FALSE, lost |-> FALSE]
    /\ meddled = 0

Meddle == meddled < MaxMeddling /\ meddled' = meddled + 1
Smooth == UNCHANGED meddled
DirExists == treeDisk.dir # "none"
OpAt(pc) == provOp.pc = pc
HaveBranch == gitRefs.branch # NoCommit

Goto(pc) == provOp' = [provOp EXCEPT !.pc = pc]
Refuse == provOp' = NoOp
Opens(op) ==
    /\ provOp = NoOp /\ provOp' = op /\ facts' = NoFacts
    /\ treePast' = [treePast EXCEPT !.since = IF op.pc = "publish" THEN {originRepo.issue} ELSE {}]
\* Every value origin's issue branch has had since PublishFacts took the lock.
OriginSeen(c) == [treePast EXCEPT !.since = IF OpAt("publish") THEN @ \cup {c} ELSE @]
\* The branch moves; the history keeps the furthest it has been.
Moves(c) == [treePast EXCEPT !.work = IF Len(c) > Len(@) THEN c ELSE @]

-----------------------------------------------------------------------------
(* The claim-base record. *)

\* The outgoing pin is what an abandoned claim goes back to.
BeginTreeClaim(e) ==
    /\ provOp = NoOp /\ ~atWork /\ Smooth
    /\ claimFile.st # "pending" /\ e > claimFile.epoch
    /\ claimFile' = [st |-> "pending", epoch |-> e, base |-> NoCommit,
                     outEpoch |-> claimFile.epoch, outBase |-> claimFile.base]
    /\ UNCHANGED <<gitRefs, treeDisk, provOp, originRepo, atWork, facts, treePast>>

AbandonRef ==
    /\ ~atWork /\ claimFile.st = "pending" /\ Smooth
    /\ Opens([NoOp EXCEPT !.pc = "abandonFile"])
    /\ gitRefs' = IF treeDisk.base THEN [gitRefs EXCEPT !.pins[claimFile.epoch] = NoCommit] ELSE gitRefs
    /\ UNCHANGED <<treeDisk, claimFile, originRepo, atWork>>

AbandonFile ==
    /\ OpAt("abandonFile") /\ Refuse /\ Smooth
    /\ claimFile' = IF claimFile.outEpoch > 0
                    THEN [AbsentBase EXCEPT !.st = "pinned", !.epoch = claimFile.outEpoch, !.base = claimFile.outBase]
                    ELSE AbsentBase
    /\ UNCHANGED <<gitRefs, treeDisk, originRepo, atWork, facts, treePast>>

-----------------------------------------------------------------------------
(* Prepare: from the record to a workspace an agent may run in. *)

\* A pinned base must still be reachable from its ref before anything is built on it.
ClaimBaseReadable == claimFile.st = "pinned" => gitRefs.pins[claimFile.epoch] = claimFile.base

PrepareBegins ==
    /\ ~atWork /\ claimFile.st \in {"pending", "pinned"} /\ ClaimBaseReadable /\ Smooth
    /\ Opens([NoOp EXCEPT !.pc = "base"])
    /\ UNCHANGED <<gitRefs, treeDisk, claimFile, originRepo, atWork>>

\* The base clone is built in a temporary directory and renamed into place.
EnsureBase ==
    /\ OpAt("base") /\ Goto("owner") /\ Smooth
    /\ treeDisk' = [treeDisk EXCEPT !.base = TRUE]
    /\ gitRefs' = IF treeDisk.base THEN gitRefs ELSE [gitRefs EXCEPT !.target = originRepo.target]
    /\ UNCHANGED <<claimFile, originRepo, atWork, facts, treePast>>

\* The name of the issue is on disk before the directory it explains.
RecordOwner ==
    /\ OpAt("owner") /\ Goto("fetch") /\ Smooth
    /\ treeDisk' = [treeDisk EXCEPT !.owner = TRUE]
    /\ UNCHANGED <<gitRefs, claimFile, originRepo, atWork, facts, treePast>>

FetchBase ==
    /\ OpAt("fetch") /\ Goto("probe") /\ Smooth
    /\ gitRefs' = [gitRefs EXCEPT !.target = originRepo.target]
    /\ UNCHANGED <<treeDisk, claimFile, originRepo, atWork, facts, treePast>>

\* Bug: a branch that origin no longer has is answered from the cache ref.
FetchedIssueBranchCached == IF originRepo.issue = NoCommit THEN gitRefs.cache ELSE originRepo.issue

\* The cache ref follows origin, down to its absence.
FetchedIssueBranch == originRepo.issue

\* Where the branch starts when it does not exist here: origin's, the pin, the target.
StartPoint == CASE HaveBranch -> gitRefs.branch
                [] ~HaveBranch /\ FetchedIssueBranch # NoCommit -> FetchedIssueBranch
                [] ~HaveBranch /\ FetchedIssueBranch = NoCommit /\ claimFile.st = "pinned" -> claimFile.base
                [] OTHER -> gitRefs.target

FetchIssueBranch ==
    /\ OpAt("probe") /\ Smooth
    /\ gitRefs' = [gitRefs EXCEPT !.cache = FetchedIssueBranch]
    /\ provOp' = [provOp EXCEPT !.pc = "settle", !.remote = FetchedIssueBranch, !.start = StartPoint]
    /\ UNCHANGED <<treeDisk, claimFile, originRepo, atWork, facts, treePast>>

\* Bug: origin wins whenever it differs.
ReconciledBranchForced(remote) ==
    CASE remote = NoCommit \/ ~HaveBranch -> gitRefs.branch
      [] OTHER -> remote

\* Behind: fast-forward.  Equal or ahead: as it is.  Diverged: no answer.
ReconciledBranch(remote) ==
    CASE remote = NoCommit \/ ~HaveBranch -> gitRefs.branch
      [] HaveBranch /\ IsPrefix(gitRefs.branch, remote) -> remote
      [] HaveBranch /\ IsPrefix(remote, gitRefs.branch) -> gitRefs.branch
      [] OTHER -> NoCommit

\* Registered and there: reused.  Registered and gone: pruned and made again.
\* There and not registered, or its branch checked out elsewhere or otherwise:
\* refused.  A branch that cannot be reconciled is refused after the prune.
SettleWorktree ==
    /\ OpAt("settle") /\ Smooth
    /\ LET next == ReconciledBranch(provOp.remote)
           here == treeDisk.reg # "no"
           mine == here /\ DirExists /\ treeDisk.reg = "own"
           gone == ~DirExists /\ (here \/ ~treeDisk.elsewhere)
           settled == (mine \/ gone) /\ (next # NoCommit \/ ~HaveBranch)
       IN  /\ treeDisk' = IF here /\ ~DirExists THEN [treeDisk EXCEPT !.reg = "no"] ELSE treeDisk
           /\ gitRefs' = IF settled THEN [gitRefs EXCEPT !.branch = next] ELSE gitRefs
           /\ treePast' = IF settled THEN Moves(next) ELSE treePast
           /\ provOp' = CASE ~settled -> NoOp
                          [] settled /\ mine -> [NoOp EXCEPT !.pc = "pinRef"]
                          [] OTHER -> [provOp EXCEPT !.pc = "branch", !.remote = NoCommit]
    /\ UNCHANGED <<claimFile, originRepo, atWork, facts>>

\* `git worktree add`: the branch if it is missing, never moved if it is not ...
AddBranch ==
    /\ OpAt("branch") /\ Goto("add") /\ Smooth
    /\ gitRefs' = IF HaveBranch THEN gitRefs ELSE [gitRefs EXCEPT !.branch = provOp.start]
    /\ treePast' = IF HaveBranch THEN treePast ELSE Moves(provOp.start)
    /\ UNCHANGED <<treeDisk, claimFile, originRepo, atWork, facts>>

\* ... then the directory.  A second try follows a prune; a directory or a
\* checkout that appeared meanwhile fails both.
AddWorktree ==
    /\ OpAt("add") /\ Smooth
    /\ LET ok == ~DirExists /\ ~treeDisk.elsewhere
       IN  /\ treeDisk' = IF ok THEN [treeDisk EXCEPT !.dir = "mine", !.reg = "own", !.booted = FALSE] ELSE treeDisk
           /\ provOp' = IF ok THEN [NoOp EXCEPT !.pc = "pinRef", !.created = TRUE] ELSE NoOp
    /\ UNCHANGED <<gitRefs, claimFile, originRepo, atWork, facts, treePast>>

\* Bug: the pin moves with the branch at every attempt of one claim.
PinsNowAlways == TRUE
PinsNow == claimFile.st = "pending"

\* The ref that keeps the base reachable, then the record that names it; a
\* pinned base must be an ancestor of what the branch has become.
PinRef ==
    /\ OpAt("pinRef") /\ Smooth
    /\ gitRefs' = IF PinsNow THEN [gitRefs EXCEPT !.pins[claimFile.epoch] = gitRefs.branch] ELSE gitRefs
    /\ Goto(IF PinsNow THEN "pinFile" ELSE "private")
    /\ UNCHANGED <<treeDisk, claimFile, originRepo, atWork, facts, treePast>>

PinFile ==
    /\ OpAt("pinFile") /\ Goto("private") /\ Smooth
    /\ claimFile' = [AbsentBase EXCEPT !.st = "pinned", !.epoch = claimFile.epoch,
                                       !.base = gitRefs.branch]
    /\ UNCHANGED <<gitRefs, treeDisk, originRepo, atWork, facts, treePast>>

PlacePrivateDir ==
    /\ OpAt("private") /\ Smooth
    /\ treeDisk' = [treeDisk EXCEPT !.private = TRUE]
    /\ Goto(IF provOp.created \/ ~gitRefs.ready THEN "afterCreate" ELSE "beforeRun")
    /\ UNCHANGED <<gitRefs, claimFile, originRepo, atWork, facts, treePast>>

\* after_create: the marker is written only once it has succeeded.
AfterCreate ==
    /\ OpAt("afterCreate") /\ Goto("ready") /\ Smooth
    /\ treeDisk' = [treeDisk EXCEPT !.booted = TRUE]
    /\ UNCHANGED <<gitRefs, claimFile, originRepo, atWork, facts, treePast>>

MarkReady ==
    /\ OpAt("ready") /\ Goto("beforeRun") /\ Smooth
    /\ gitRefs' = [gitRefs EXCEPT !.ready = TRUE]
    /\ UNCHANGED <<treeDisk, claimFile, originRepo, atWork, facts, treePast>>

\* before_run ends Prepare; the caller starts an agent.
BeforeRun ==
    /\ OpAt("beforeRun") /\ Refuse /\ Smooth
    /\ atWork' = TRUE
    /\ UNCHANGED <<gitRefs, treeDisk, claimFile, originRepo, facts, treePast>>

-----------------------------------------------------------------------------
(* Dispose and Sweep. *)

\* before_remove runs whatever happens next; a kept workspace stays whole.
DisposeBegins(keep) ==
    /\ ~atWork /\ Smooth
    /\ Opens([NoOp EXCEPT !.pc = IF keep THEN "idle" ELSE "unready"])
    /\ UNCHANGED <<gitRefs, treeDisk, claimFile, originRepo, atWork>>

SweepMayRemove == treeDisk.dir = "mine" /\ treeDisk.reg = "own"

\* OpAt startup: a prune, then each finished issue whose directory is provably a
\* worktree on its own branch is disposed of; any other directory is left.
Sweep ==
    /\ ~atWork /\ treeDisk.base /\ Smooth
    /\ treeDisk' = IF DirExists THEN treeDisk ELSE [treeDisk EXCEPT !.reg = "no"]
    /\ Opens(IF SweepMayRemove THEN [NoOp EXCEPT !.pc = "unready"] ELSE NoOp)
    /\ UNCHANGED <<gitRefs, claimFile, originRepo, atWork>>

\* Bug: the marker goes after the worktree it vouches for.
ClearReadyLater ==
    /\ OpAt("unready") /\ Goto("unprivate") /\ Smooth
    /\ UNCHANGED <<gitRefs, treeDisk, claimFile, originRepo, atWork, facts, treePast>>

ClearReady ==
    /\ OpAt("unready") /\ Goto("unprivate") /\ Smooth
    /\ gitRefs' = [gitRefs EXCEPT !.ready = FALSE]
    /\ UNCHANGED <<treeDisk, claimFile, originRepo, atWork, facts, treePast>>

RemovePrivate ==
    /\ OpAt("unprivate") /\ Goto("remove") /\ Smooth
    /\ treeDisk' = [treeDisk EXCEPT !.private = FALSE]
    /\ UNCHANGED <<gitRefs, claimFile, originRepo, atWork, facts, treePast>>

\* Bug: the directory goes by its path, registered or not.
RemovableDir(d) == TRUE
\* `git worktree remove` takes only a directory git has registered.
Removable(d) == d.dir = "none" \/ d.reg # "no"

\* The directory goes, then its registration; what is not a worktree is
\* refused, after a prune, and kept.
RemoveDir ==
    /\ OpAt("remove") /\ Smooth
    /\ treeDisk' = IF Removable(treeDisk) THEN [treeDisk EXCEPT !.dir = "none", !.booted = FALSE] ELSE treeDisk
    /\ IF Removable(treeDisk) THEN Goto("unregister") ELSE Refuse
    /\ UNCHANGED <<gitRefs, claimFile, originRepo, atWork, facts, treePast>>

Unregister ==
    /\ OpAt("unregister") /\ Goto("disown") /\ Smooth
    /\ treeDisk' = [treeDisk EXCEPT !.reg = "no"]
    /\ UNCHANGED <<gitRefs, claimFile, originRepo, atWork, facts, treePast>>

ClearOwner ==
    /\ OpAt("disown") /\ Refuse /\ Smooth
    /\ treeDisk' = [treeDisk EXCEPT !.owner = FALSE]
    /\ UNCHANGED <<gitRefs, claimFile, originRepo, atWork, facts, treePast>>

-----------------------------------------------------------------------------
(* PublishFacts: what is published of the branch, asked of origin itself. *)

\* The workspace still belongs to the claim, and the branch has moved past its
\* base; else the answer needs no remote.
FactsBegin ==
    /\ claimFile.st = "pinned" /\ ClaimBaseReadable /\ Smooth
    /\ LET asks == IsStrictPrefix(claimFile.base, gitRefs.branch)
       IN  Opens(IF asks THEN [NoOp EXCEPT !.pc = "publish", !.start = gitRefs.branch] ELSE NoOp)
    /\ UNCHANGED <<gitRefs, treeDisk, claimFile, originRepo, atWork>>

PublishFacts ==
    /\ OpAt("publish") /\ Refuse /\ Smooth
    /\ LET remote == FetchedIssueBranch
       IN  /\ gitRefs' = [gitRefs EXCEPT !.cache = remote]
           /\ facts' = [head |-> provOp.start, since |-> treePast.since,
                        hasHead |-> remote # NoCommit /\ IsPrefix(provOp.start, remote)]
           /\ treePast' = [treePast EXCEPT !.since = {}]
    /\ UNCHANGED <<treeDisk, claimFile, originRepo, atWork>>

-----------------------------------------------------------------------------
(* The agent, people, failures. *)

AgentCommits ==
    /\ atWork /\ treeDisk.reg = "own" /\ Len(gitRefs.branch) < MaxLength /\ Smooth
    /\ gitRefs' = [gitRefs EXCEPT !.branch = Append(@, "a")]
    /\ treePast' = Moves(Append(gitRefs.branch, "a"))
    /\ UNCHANGED <<treeDisk, claimFile, provOp, originRepo, atWork, facts>>

AgentPushes ==
    /\ atWork /\ IsPrefix(originRepo.issue, gitRefs.branch) /\ Smooth
    /\ originRepo' = [originRepo EXCEPT !.issue = gitRefs.branch]
    /\ treePast' = OriginSeen(gitRefs.branch)
    /\ UNCHANGED <<gitRefs, treeDisk, claimFile, provOp, atWork, facts>>

AgentSwitchesBranch ==
    /\ atWork /\ treeDisk.reg = "own" /\ Meddle
    /\ treeDisk' = [treeDisk EXCEPT !.reg = "other"]
    /\ UNCHANGED <<gitRefs, claimFile, provOp, originRepo, atWork, facts, treePast>>

TreeAgentExits ==
    /\ atWork /\ atWork' = FALSE /\ Smooth
    /\ UNCHANGED <<gitRefs, treeDisk, claimFile, provOp, originRepo, facts, treePast>>

\* A person adds to origin's issue branch, makes it, or deletes it.
PersonPushes ==
    /\ Meddle
    /\ \E c \in {Append(originRepo.issue, "h"), Append(originRepo.target, "h"), NoCommit} :
          /\ Len(c) <= MaxLength /\ c # originRepo.issue
          /\ originRepo' = [originRepo EXCEPT !.issue = c] /\ treePast' = OriginSeen(c)
    /\ UNCHANGED <<gitRefs, treeDisk, claimFile, provOp, atWork, facts>>

TargetAdvances ==
    /\ Meddle /\ Len(originRepo.target) < MaxLength
    /\ originRepo' = [originRepo EXCEPT !.target = Append(@, "t")]
    /\ UNCHANGED <<gitRefs, treeDisk, claimFile, provOp, atWork, facts, treePast>>

\* A person's own directory at the path, or the branch checked out elsewhere.
PersonTakes ==
    /\ Meddle /\ treeDisk.dir = "none" /\ treeDisk.reg = "no" /\ ~treeDisk.elsewhere
    /\ \/ /\ treeDisk' = [treeDisk EXCEPT !.dir = "foreign"]
          /\ treePast' = [treePast EXCEPT !.foreign = TRUE]
       \/ /\ HaveBranch /\ treeDisk' = [treeDisk EXCEPT !.elsewhere = TRUE] /\ UNCHANGED treePast
    /\ UNCHANGED <<gitRefs, claimFile, provOp, originRepo, atWork, facts>>

\* A person, or a cleaner of old files, removes the worktree's directory.
PersonLosesDir ==
    /\ Meddle /\ treeDisk.dir = "mine" /\ ~atWork /\ provOp = NoOp
    /\ treeDisk' = [treeDisk EXCEPT !.dir = "none", !.booted = FALSE]
    /\ treePast' = [treePast EXCEPT !.lost = TRUE]
    /\ UNCHANGED <<gitRefs, claimFile, provOp, originRepo, atWork, facts>>

\* A step that fails, and the daemon's death, leave what the steps before it
\* did.  The agent of a dead daemon is waited out before the next Prepare.
TreeFails ==
    /\ Meddle /\ (provOp # NoOp \/ atWork) /\ Refuse /\ atWork' = FALSE
    /\ UNCHANGED <<gitRefs, treeDisk, claimFile, originRepo, facts, treePast>>

WorktreeNext ==
    \/ \E e \in Claims : BeginTreeClaim(e)
    \/ AbandonRef \/ AbandonFile
    \/ PrepareBegins \/ EnsureBase \/ RecordOwner \/ FetchBase \/ FetchIssueBranch \/ SettleWorktree
    \/ AddBranch \/ AddWorktree \/ PinRef \/ PinFile \/ PlacePrivateDir \/ AfterCreate \/ MarkReady \/ BeforeRun
    \/ \E keep \in BOOLEAN : DisposeBegins(keep)
    \/ Sweep \/ ClearReady \/ RemovePrivate \/ RemoveDir \/ Unregister \/ ClearOwner
    \/ FactsBegin \/ PublishFacts
    \/ AgentCommits \/ AgentPushes \/ AgentSwitchesBranch \/ TreeAgentExits
    \/ PersonPushes \/ TargetAdvances \/ PersonTakes \/ PersonLosesDir \/ TreeFails

WorktreeSpec == WorktreeInit /\ [][WorktreeNext]_treeVars

-----------------------------------------------------------------------------
Commit == SeqOf({"t", "a", "h"}, MaxLength)

\* Every variable has its type.
WorktreeTypeOK ==
    /\ gitRefs \in [branch : Commit, ready : BOOLEAN, cache : Commit, target : Commit, pins : [Claims -> Commit]]
    /\ treeDisk \in [base : BOOLEAN, dir : {"none", "mine", "foreign"}, reg : {"no", "own", "other"},
                     elsewhere : BOOLEAN, owner : BOOLEAN, private : BOOLEAN, booted : BOOLEAN]
    /\ claimFile \in [st : {"absent", "pending", "pinned"}, epoch : 0..MaxTreeClaims, base : Commit,
                      outEpoch : 0..MaxTreeClaims, outBase : Commit]
    /\ atWork \in BOOLEAN /\ meddled \in 0..MaxMeddling

\* The branch is made once and only ever extended: no retry, adoption of
\* origin's branch, disposal or sweep takes a commit off it.
BranchOnlyGrows == gitRefs.branch = treePast.work

\* A Prepare that returned gave the agent a directory on the issue's branch,
\* with its private directory, after an after_create that succeeded in this
\* very directory: neither a crash during creation nor one during removal
\* lets a later Prepare skip it.
\* Not an invariant of the code: README, section 5.
ReadyWasBootstrapped == atWork => treeDisk.dir = "mine" /\ treeDisk.private /\ treeDisk.booted

\* The same, if nobody but the provider ever removed the directory.
ReadyUnlessLost == treePast.lost \/ ReadyWasBootstrapped

\* A directory the provider made is named by an owner record, so that a sweep
\* after a restart can find the issue it belongs to.
DirectoryHasOwner == treeDisk.dir = "mine" => treeDisk.owner

\* A directory the provider did not make is never removed.
ForeignDirectoryStays == treePast.foreign => treeDisk.dir = "foreign"

\* The base of a claim that was pinned is an ancestor of the branch and is kept
\* reachable by its ref, through every crash between the two writes and every
\* abandoned later claim.
PinIsReachable ==
    claimFile.st = "pinned" =>
        /\ gitRefs.pins[claimFile.epoch] = claimFile.base
        /\ IsPrefix(claimFile.base, gitRefs.branch)

\* PublishFacts says that origin has the head only if origin had it at some
\* moment since the question was asked.
PublishedWasTrue == facts.hasHead => \E c \in facts.since : IsPrefix(facts.head, c)

WorktreeSafe == WorktreeTypeOK /\ BranchOnlyGrows /\ ReadyUnlessLost /\ DirectoryHasOwner
                /\ ForeignDirectoryStays /\ PinIsReachable /\ PublishedWasTrue
=============================================================================
