----------------------------- MODULE LocalDomain -----------------------------
(***************************************************************************)
(* The Linux execution domain of a local agent (internal/agent/localdomain):*)
(* an attempt's cgroup leaf, the supervisor that is init of the attempt's   *)
(* PID namespace, the provider it runs, the daemon's launch, stop and       *)
(* recovery of it, and the janitor that removes leaves.  The daemon may die *)
(* or the host reboot between any two steps.                                *)
(***************************************************************************)
EXTENDS Naturals, FiniteSets

CONSTANTS MaxAttempts, MaxDaemons, MaxDomainFaults,
          CleanupFailures     \* consecutive failing passes before the queue is degraded

ASSUME DomainAssumption == CleanupFailures > 0

VARIABLES host,      \* [boot, root, daemons]: this boot, the delegated root, daemons started
          mgr,       \* the Manager of the running daemon
          launching,    \* the startAttempt in flight
          stopping,  \* the Handle.Stop in flight
          recov,     \* the Recover in flight
          leaves,    \* each attempt's cgroup leaf
          sups,      \* each attempt's supervisor and the processes of its namespace
          ctlWire,      \* each attempt's control socket
          targets,   \* each attempt's linuxTarget
          janitor,   \* the cleanup queue
          domain,    \* what became of each attempt: evidence, verdicts, results
          domFaults

domVars == <<host, mgr, launching, stopping, recov, leaves, sups, ctlWire, targets, janitor, domain, domFaults>>

Attempts == 1..MaxAttempts
NoLaunch == [pc |-> "idle", a |-> 0, canary |-> FALSE]
NoStop == [pc |-> "no", a |-> 0, by |-> ""]
NoRecover == [pc |-> "no", a |-> 0, sup |-> "", exited |-> FALSE]
NoProcess == [st |-> "none", live |-> {}, reused |-> FALSE]
NoWire == [order |-> "none", open |-> FALSE, said |-> {}]
NoNews == [evidence |-> 0, confirmed |-> FALSE, refused |-> FALSE, ran |-> FALSE, done |-> FALSE]
NoTarget == [pidfd |-> FALSE, noSup |-> FALSE, known |-> FALSE, removed |-> FALSE, closed |-> TRUE]
NewTarget == [NoTarget EXCEPT !.closed = FALSE]
NewQueue == [entries |-> {}, req |-> {}, fails |-> [a \in Attempts |-> 0], degraded |-> FALSE]

DomainInit ==
    /\ host = [boot |-> 1, root |-> 1, daemons |-> 0] /\ mgr = "down"
    /\ launching = NoLaunch /\ stopping = NoStop /\ recov = NoRecover
    /\ leaves = [a \in Attempts |-> [st |-> "none", root |-> 0]]
    /\ sups = [a \in Attempts |-> NoProcess] /\ ctlWire = [a \in Attempts |-> NoWire]
    /\ targets = [a \in Attempts |-> NoTarget] /\ janitor = NewQueue
    /\ domain = [a \in Attempts |-> NoNews] /\ domFaults = 0

DomFault == domFaults < MaxDomainFaults /\ domFaults' = domFaults + 1
NoFault == UNCHANGED domFaults
Alive(a) == sups[a].st \notin {"none", "zombie", "gone"}
Here(a) == leaves[a].st = "there" /\ leaves[a].root = host.root
Populated(a) == sups[a].st \notin {"none", "gone"} \/ sups[a].live # {}
Tell(a, field, v) == domain' = [domain EXCEPT ![a][field] = v]

-----------------------------------------------------------------------------
(* The kernel: exits, cgroup population, PID reuse. *)

\* A PID namespace's init takes every process of the namespace with it.
Dead(s) == [s EXCEPT !.st = "zombie", !.live = {}]
KillDomain(a) == sups' = IF Alive(a) THEN [sups EXCEPT ![a] = Dead(@)] ELSE sups

\* The dead supervisor leaves the cgroup.
LeavesCgroup(a) ==
    /\ sups[a].st = "zombie" /\ sups' = [sups EXCEPT ![a].st = "gone"]
    /\ UNCHANGED <<host, mgr, launching, stopping, recov, leaves, ctlWire, targets, janitor, domain, domFaults>>

\* Its PID is given to an unrelated process.
ReusesPid(a) ==
    /\ sups[a].st = "gone" /\ domain[a].evidence # 0 /\ ~sups[a].reused
    /\ sups' = [sups EXCEPT ![a].reused = TRUE]
    /\ UNCHANGED <<host, mgr, launching, stopping, recov, leaves, ctlWire, targets, janitor, domain, domFaults>>

\* The provider forks; a forked process ends by itself.
ProviderForks(a) ==
    /\ "provider" \in sups[a].live /\ "child" \notin sups[a].live
    /\ sups' = [sups EXCEPT ![a].live = @ \cup {"child"}]
    /\ UNCHANGED <<host, mgr, launching, stopping, recov, leaves, ctlWire, targets, janitor, domain, domFaults>>
OrphanEnds(a) ==
    /\ "child" \in sups[a].live /\ sups' = [sups EXCEPT ![a].live = @ \ {"child"}]
    /\ UNCHANGED <<host, mgr, launching, stopping, recov, leaves, ctlWire, targets, janitor, domain, domFaults>>

-----------------------------------------------------------------------------
(* The supervisor. *)

Says(a, m) == ctlWire' = [ctlWire EXCEPT ![a].said = IF ctlWire[a].open THEN @ \cup {m} ELSE @]

\* setupMountNamespace, then the ready message; a failure of either ends it.
SupervisorReady(a) ==
    /\ sups[a].st = "starting"
    /\ \/ /\ ctlWire[a].open /\ Says(a, "ready") /\ sups' = [sups EXCEPT ![a].st = "waiting"] /\ NoFault
       \/ /\ (IF ctlWire[a].open THEN DomFault ELSE NoFault)
          /\ Says(a, "error") /\ sups' = [sups EXCEPT ![a] = Dead(@)]
    /\ UNCHANGED <<host, mgr, launching, stopping, recov, leaves, targets, janitor, domain>>

\* Only a release releases: an abort or the end of the socket ends it.
ReleasedUnlessAborted(order) == order # "abort"
Released(order) == order = "release"
SupervisorReads(a) ==
    /\ sups[a].st = "waiting" /\ ctlWire[a].order # "none"
    /\ sups' = [sups EXCEPT ![a] = IF Released(ctlWire[a].order) THEN [@ EXCEPT !.st = "released"] ELSE Dead(@)]
    /\ UNCHANGED <<host, mgr, launching, stopping, recov, leaves, ctlWire, targets, janitor, domain, domFaults>>

\* superviseProvider: the trampoline execs, or a start error is reported.
SpawnProvider(a) ==
    /\ sups[a].st = "released"
    /\ \/ /\ sups' = [sups EXCEPT ![a].st = "spawned", ![a].live = {"provider"}]
          /\ Tell(a, "ran", TRUE) /\ UNCHANGED ctlWire /\ NoFault
       \/ /\ DomFault /\ sups' = [sups EXCEPT ![a].st = "reaping"] /\ Says(a, "exit") /\ UNCHANGED domain
    /\ UNCHANGED <<host, mgr, launching, stopping, recov, leaves, targets, janitor>>

\* onStarted: with nobody to tell, the provider is killed and reaped.
OnStarted(a) ==
    /\ sups[a].st = "spawned"
    /\ sups' = [sups EXCEPT ![a] = IF ctlWire[a].open THEN [@ EXCEPT !.st = "running"]
                                   ELSE [@ EXCEPT !.st = "reaping", !.live = @ \ {"provider"}]]
    /\ Says(a, "started")
    /\ UNCHANGED <<host, mgr, launching, stopping, recov, leaves, targets, janitor, domain, domFaults>>

\* The provider exits and is waited for; then the exit message.
ProviderExitUnreaped(a) == [sups[a] EXCEPT !.st = "reaping"]
ProviderExit(a) == [sups[a] EXCEPT !.st = "reaping", !.live = @ \ {"provider"}]
ProviderEnds(a) ==
    /\ sups[a].st = "running" /\ sups' = [sups EXCEPT ![a] = ProviderExit(a)] /\ Says(a, "exit")
    /\ UNCHANGED <<host, mgr, launching, stopping, recov, leaves, targets, janitor, domain, domFaults>>

\* reapNamespace waits for every process of the namespace.
ReapNamespace(a) ==
    /\ sups[a].st = "reaping" /\ sups[a].live = {} /\ sups' = [sups EXCEPT ![a] = Dead(@)]
    /\ UNCHANGED <<host, mgr, launching, stopping, recov, leaves, ctlWire, targets, janitor, domain, domFaults>>

\* SIGTERM: acknowledged and passed on once it supervises, fatal before; a
\* process it is passed on to may end or ignore it.
Terminated(a) ==
    CASE ~Alive(a) -> UNCHANGED <<sups, ctlWire>>
      [] sups[a].st \in {"starting", "waiting"} -> KillDomain(a) /\ UNCHANGED ctlWire
      [] OTHER -> Says(a, "term_ack") /\ UNCHANGED sups
-----------------------------------------------------------------------------
(* What a linuxTarget can observe, and what is decided from it. *)

PidfdExited(a) == sups[a].st \in {"zombie", "gone"}
SupervisorSeen(a) ==
    IF targets[a].known \/ targets[a].noSup THEN "exited"
    ELSE IF ~targets[a].pidfd THEN "unknown" ELSE IF PidfdExited(a) THEN "exited" ELSE "live"
CgroupState(a) ==
    IF targets[a].removed \/ ~Here(a) THEN "absent" ELSE IF Populated(a) THEN "populated" ELSE "empty"

\* A read that fails, or a cancelled context, observes nothing.
TargetObserves(a, blind) ==
    [sup |-> IF blind /\ ~(targets[a].known \/ targets[a].noSup) THEN "unknown" ELSE SupervisorSeen(a),
     cg |-> IF blind THEN "unknown" ELSE CgroupState(a)]
Learns(a, obs) == targets' = [targets EXCEPT ![a].known = @ \/ obs.sup = "exited"]

\* Confirmed needs the supervisor's exit and an unpopulated cgroup.
DecideWithoutContrary(obs) == obs.sup # "live" /\ obs.cg # "populated"
DecideQuiet(obs) == obs.sup = "exited" /\ obs.cg \in {"empty", "absent", "replaced"}

-----------------------------------------------------------------------------
(* Handle.Stop, and who called it: the run's owner, a launch that aborts, or    *)
(* the canary. *)

StopAt(pc) == stopping' = [stopping EXCEPT !.pc = pc]
DomStopCalled(a, who) == stopping' = [pc |-> "probe", a |-> a, by |-> who]

\* Stop returns; an aborted launch and the canary go on from its answer.
DomStopReturns(ok) ==
    /\ stopping' = NoStop
    /\ CASE stopping.by = "abort" -> /\ launching' = IF launching.canary THEN [launching EXCEPT !.pc = "canaryfails"] ELSE NoLaunch
                                     /\ domain' = [domain EXCEPT ![stopping.a].confirmed = @ \/ ok, ![stopping.a].refused = TRUE]
         [] stopping.by = "canary" -> /\ launching' = [launching EXCEPT !.pc = IF ok /\ @ = "canarystops" THEN "canaryacks" ELSE "canaryfails"]
                                      /\ domain' = [domain EXCEPT ![stopping.a].confirmed = @ \/ ok]
         [] OTHER -> domain' = [domain EXCEPT ![stopping.a].confirmed = @ \/ ok] /\ UNCHANGED launching

\* One look: Probe, a poll of await, or await's last look at its deadline.
StopObserves(next) ==
    \E blind \in BOOLEAN :
        LET obs == TargetObserves(stopping.a, blind) IN
        /\ (IF blind THEN DomFault ELSE NoFault) /\ Learns(stopping.a, obs)
        /\ IF DecideQuiet(obs) THEN DomStopReturns(TRUE)
           ELSE IF next = "fails" THEN DomStopReturns(FALSE)
           ELSE StopAt(next) /\ UNCHANGED <<launching, domain>>

StopProbes ==
    /\ stopping.pc = "probe" /\ StopObserves("term")
    /\ UNCHANGED <<host, mgr, recov, leaves, sups, ctlWire, janitor>>

\* term: without a pidfd there is nothing to signal, and the kill follows at once.
StopTerms ==
    LET t == targets[stopping.a] IN
    /\ stopping.pc = "term"
    /\ IF t.known \/ t.pidfd THEN StopAt("grace") ELSE StopAt("kill")
    /\ IF ~t.known /\ t.pidfd THEN Terminated(stopping.a) ELSE UNCHANGED <<sups, ctlWire>>
    /\ UNCHANGED <<host, mgr, launching, recov, leaves, targets, janitor, domain, domFaults>>

StopAwaits ==
    /\ stopping.pc \in {"grace", "killgrace"}
    /\ StopObserves(IF stopping.pc = "grace" THEN "kill" ELSE "fails")
    /\ UNCHANGED <<host, mgr, recov, leaves, sups, ctlWire, janitor>>

\* kill: cgroup.kill on the leaf, an error once its descriptor is closed.
StopKills ==
    /\ stopping.pc = "kill" /\ StopAt("killgrace")
    /\ IF targets[stopping.a].removed \/ targets[stopping.a].closed THEN UNCHANGED sups ELSE KillDomain(stopping.a)
    /\ UNCHANGED <<host, mgr, launching, recov, leaves, ctlWire, targets, janitor, domain, domFaults>>

\* The owner of a started run asks once.
CallerProbes(a) ==
    /\ mgr = "ready" /\ launching.a # a /\ a # 1 /\ ~domain[a].confirmed /\ ctlWire[a].order = "release"
    /\ targets[a] # NoTarget
    /\ \E blind \in BOOLEAN :
          LET obs == TargetObserves(a, blind) IN
          (IF blind THEN DomFault ELSE NoFault) /\ Learns(a, obs) /\ Tell(a, "confirmed", DecideQuiet(obs))
    /\ UNCHANGED <<host, mgr, launching, stopping, recov, leaves, sups, ctlWire, janitor>>

\* The owner of a started run stops it.
CallerStops(a) ==
    /\ mgr = "ready" /\ stopping = NoStop /\ launching.a # a /\ a # 1 /\ ~domain[a].confirmed
    /\ ctlWire[a].order = "release" /\ targets[a] # NoTarget
    /\ DomStopCalled(a, "caller")
    /\ UNCHANGED <<host, mgr, launching, recov, leaves, sups, ctlWire, targets, janitor, domain, domFaults>>

-----------------------------------------------------------------------------
(* Manager.Start. *)

LaunchAt(pc) == launching' = [launching EXCEPT !.pc = pc]
\* A Start that fails before a supervisor could run: an error to its caller.
LaunchEnds == launching' = IF launching.canary THEN [launching EXCEPT !.pc = "canaryfails"] ELSE NoLaunch
Refuses(a) == domain' = [domain EXCEPT ![a].refused = TRUE]

\* createAttempt: the queue's health, then a directory of a fresh name.  The
\* canary's is attempt 1, whose slot is used again when that attempt is over.
Unused(a) == leaves[a].st = "none" \/ (a = 1 /\ leaves[a].st = "gone" /\ sups[a].st \in {"none", "gone"})
CreateAttempt(a) ==
    /\ launching = NoLaunch /\ mgr = (IF a = 1 THEN "canary" ELSE "ready") /\ Unused(a) /\ ~janitor.degraded
    /\ leaves' = [leaves EXCEPT ![a] = [st |-> "there", root |-> host.root]]
    /\ launching' = [pc |-> "register", a |-> a, canary |-> a = 1]
    /\ sups' = [sups EXCEPT ![a] = NoProcess] /\ ctlWire' = [ctlWire EXCEPT ![a] = NoWire] /\ domain' = [domain EXCEPT ![a] = NoNews]
    /\ UNCHANGED <<host, mgr, stopping, recov, targets, janitor, domFaults>>

\* The target is registered before anything runs in it; a refusal undoes it.
RegistersAsSwept(a) == [janitor EXCEPT !.entries = @ \cup {a}, !.fails[a] = 0]
Registers(a) == [janitor EXCEPT !.entries = @ \cup {a}, !.req = @ \cup {a}, !.fails[a] = 0]
RegisterAttempt ==
    LET a == launching.a IN
    /\ launching.pc = "register"
    /\ IF janitor.degraded
       THEN /\ LaunchEnds /\ Refuses(a) /\ leaves' = [leaves EXCEPT ![a].st = "gone"] /\ UNCHANGED <<targets, janitor>>
       ELSE /\ LaunchAt("clone") /\ targets' = [targets EXCEPT ![a] = NewTarget]
            /\ janitor' = Registers(a) /\ UNCHANGED <<leaves, domain>>
    /\ UNCHANGED <<host, mgr, stopping, recov, sups, ctlWire, domFaults>>

\* The supervisor is cloned into the leaf, with a pidfd; a failed clone, or a
\* leaf that is gone, marks the target as having none.
CloneSupervisor ==
    LET a == launching.a IN
    /\ launching.pc = "clone"
    /\ \/ /\ Here(a)
          /\ sups' = [sups EXCEPT ![a].st = "starting"] /\ ctlWire' = [ctlWire EXCEPT ![a].open = TRUE]
          /\ targets' = [targets EXCEPT ![a].pidfd = TRUE] /\ LaunchAt("handshake") /\ NoFault /\ UNCHANGED domain
       \/ /\ (IF Here(a) THEN DomFault ELSE NoFault)
          /\ targets' = [targets EXCEPT ![a].noSup = TRUE, ![a].known = TRUE]
          /\ LaunchEnds /\ Refuses(a) /\ UNCHANGED <<sups, ctlWire>>
    /\ UNCHANGED <<host, mgr, stopping, recov, leaves, janitor>>

\* abortBeforeRelease: an abort, the socket closed, then a Stop.
AbortBeforeRelease(a, order) ==
    /\ ctlWire' = [ctlWire EXCEPT ![a].order = order, ![a].open = FALSE]
    /\ LaunchAt("abort") /\ DomStopCalled(a, "abort")

\* The ready message is read, or the context ends, or the supervisor failed.
Handshake ==
    LET a == launching.a IN
    /\ launching.pc = "handshake" /\ stopping = NoStop
    /\ \/ /\ "ready" \in ctlWire[a].said /\ LaunchAt("verify") /\ NoFault /\ UNCHANGED <<stopping, ctlWire>>
       \/ /\ DomFault /\ AbortBeforeRelease(a, "eof")
       \/ /\ ~Alive(a) /\ "ready" \notin ctlWire[a].said /\ AbortBeforeRelease(a, "abort") /\ NoFault
    /\ UNCHANGED <<host, mgr, recov, leaves, sups, targets, janitor, domain>>

\* verifySupervisor: the host's own view of it, or an abort.
VerifySupervisor ==
    LET a == launching.a IN
    /\ launching.pc = "verify" /\ stopping = NoStop
    /\ \/ /\ Alive(a) /\ LaunchAt(IF launching.canary THEN "release" ELSE "domain") /\ NoFault /\ UNCHANGED <<stopping, ctlWire>>
       \/ /\ (IF Alive(a) THEN DomFault ELSE NoFault) /\ AbortBeforeRelease(a, "abort")
    /\ UNCHANGED <<host, mgr, recov, leaves, sups, targets, janitor, domain>>

\* OnDomain stores the evidence; a failure to store it, which may have stored
\* it, aborts.
OnDomainFailsOpen(a) == LaunchAt("release") /\ UNCHANGED <<stopping, ctlWire>>
OnDomainFails(a) == AbortBeforeRelease(a, "abort")
OnDomain ==
    LET a == launching.a IN
    /\ launching.pc = "domain" /\ stopping = NoStop
    /\ \/ Tell(a, "evidence", host.boot) /\ LaunchAt("release") /\ NoFault /\ UNCHANGED <<stopping, ctlWire>>
       \/ /\ DomFault /\ OnDomainFails(a)
          /\ \E e \in {0, host.boot} : Tell(a, "evidence", e)
    /\ UNCHANGED <<host, mgr, recov, leaves, sups, targets, janitor>>

\* The release: one the supervisor is not there to take is a start error.
Release ==
    LET a == launching.a IN
    /\ launching.pc = "release"
    /\ ctlWire' = [ctlWire EXCEPT ![a].order = "release", ![a].open = Alive(a)]
    /\ launching' = IF launching.canary THEN [launching EXCEPT !.pc = "canaryruns"] ELSE NoLaunch
    /\ IF Alive(a) THEN UNCHANGED domain ELSE Tell(a, "done", TRUE)
    /\ UNCHANGED <<host, mgr, stopping, recov, leaves, sups, targets, janitor, domFaults>>

\* readSupervisorMessages: the exit the supervisor reported, or, at the end of
\* the socket, a start error of its own; once.
ReadExit(a) ==
    /\ ctlWire[a].open /\ ctlWire[a].order = "release" /\ ~domain[a].done
    /\ "exit" \in ctlWire[a].said \/ ~Alive(a)
    /\ Tell(a, "done", TRUE)
    /\ UNCHANGED <<host, mgr, launching, stopping, recov, leaves, sups, ctlWire, targets, janitor, domFaults>>
-----------------------------------------------------------------------------
(* The cleanup queue. *)

CleanupReady(a) == (a \in janitor.req => SupervisorSeen(a) = "exited") /\ CgroupState(a) # "populated"
CleanupFails(a) ==
    janitor' = [janitor EXCEPT !.fails[a] = @ + 1, !.degraded = @ \/ janitor.fails[a] + 1 >= CleanupFailures]

\* The leaf and the cgroups made below it are removed, bottom up.
RemoveAttempt(a) == leaves' = [leaves EXCEPT ![a].st = "gone"]

\* One entry of a pass: not ready, removed, or failing again.
CleanupPass(a) ==
    /\ mgr # "down" /\ a \in janitor.entries
    /\ \/ /\ DomFault /\ CleanupFails(a) /\ UNCHANGED <<leaves, targets>>
       \/ /\ ~CleanupReady(a) /\ janitor.fails[a] # 0
          /\ janitor' = [janitor EXCEPT !.fails[a] = 0] /\ UNCHANGED <<leaves, targets, domFaults>>
       \/ /\ CleanupReady(a) /\ RemoveAttempt(a)
          /\ janitor' = [janitor EXCEPT !.entries = @ \ {a}, !.req = @ \ {a}]
          /\ targets' = [targets EXCEPT ![a] = [@ EXCEPT !.known = @ \/ a \in janitor.req, !.removed = TRUE,
                                                         !.pidfd = FALSE, !.closed = TRUE]]
          /\ NoFault
    /\ UNCHANGED <<host, mgr, launching, stopping, recov, sups, ctlWire, domain>>

-----------------------------------------------------------------------------
(* The Manager's setup, and recovery from evidence. *)

\* startupSweep: empty leaves of this root are removed, populated ones watched.
SweepWatchesNothing(a) == FALSE
SweepWatches(a) == Populated(a)
StartupSweep ==
    LET found == {a \in Attempts : Here(a)}
        watched == {a \in found : SweepWatches(a)} IN
    /\ mgr = "new"
    /\ \/ /\ mgr' = "canary" /\ NoFault
          /\ leaves' = [a \in Attempts |-> IF a \in found /\ ~Populated(a) THEN [leaves[a] EXCEPT !.st = "gone"] ELSE leaves[a]]
          /\ janitor' = [janitor EXCEPT !.entries = watched]
          /\ targets' = [a \in Attempts |-> IF a \in watched THEN NewTarget ELSE targets[a]]
       \/ /\ DomFault /\ mgr' = "failed" /\ UNCHANGED <<leaves, janitor, targets>>
    /\ UNCHANGED <<host, launching, stopping, recov, sups, ctlWire, domain>>

\* capabilityCanary, an attempt of its own: it must start, answer, be stopped,
\* have acknowledged the signal, and its leaf must be removed; else setup fails
\* for good and whatever it left is stopped.
CanaryRuns ==
    LET a == launching.a IN
    /\ launching.pc = "canaryruns" /\ stopping = NoStop
    /\ \/ /\ "started" \in ctlWire[a].said /\ LaunchAt("canarystops") /\ NoFault
       \/ /\ (IF "started" \in ctlWire[a].said THEN DomFault ELSE domain[a].done /\ NoFault) /\ LaunchAt("canarygivesup")
    /\ DomStopCalled(a, "canary")
    /\ UNCHANGED <<host, mgr, recov, leaves, sups, ctlWire, targets, janitor, domain>>
CanaryAcks ==
    /\ launching.pc = "canaryacks"
    /\ LaunchAt(IF "term_ack" \in ctlWire[launching.a].said THEN "canaryleaf" ELSE "canaryfails")
    /\ UNCHANGED <<host, mgr, stopping, recov, leaves, sups, ctlWire, targets, janitor, domain, domFaults>>
CanaryLeaf ==
    /\ launching.pc = "canaryleaf"
    /\ \/ leaves[launching.a].st = "gone" /\ mgr' = "ready" /\ launching' = NoLaunch /\ NoFault
       \/ leaves[launching.a].st # "gone" /\ DomFault /\ LaunchAt("canaryfails") /\ UNCHANGED mgr
    /\ UNCHANGED <<host, stopping, recov, leaves, sups, ctlWire, targets, janitor, domain>>
CanaryFails ==
    /\ launching.pc = "canaryfails" /\ mgr' = "failed" /\ launching' = NoLaunch
    /\ UNCHANGED <<host, stopping, recov, leaves, sups, ctlWire, targets, janitor, domain, domFaults>>

\* Recover: another boot's domain is over.
RecoverBegins(a) ==
    /\ mgr # "down" /\ recov = NoRecover /\ domain[a].evidence # 0 /\ ~domain[a].confirmed
    /\ IF domain[a].evidence # host.boot THEN Tell(a, "confirmed", TRUE) /\ UNCHANGED recov
       ELSE /\ mgr = "ready" /\ UNCHANGED domain
            /\ recov' = [NoRecover EXCEPT !.pc = "open", !.a = a]
    /\ UNCHANGED <<host, mgr, launching, stopping, leaves, sups, ctlWire, targets, janitor, domFaults>>

\* pidfd_open on the recorded PID: nobody, the supervisor, or whoever has it now.
RecoverOpens ==
    LET s == sups[recov.a] IN
    /\ recov.pc = "open"
    /\ recov' = IF s.st = "gone" /\ ~s.reused THEN [recov EXCEPT !.pc = "cgroup", !.sup = "exited"]
                ELSE IF s.st = "zombie" THEN [recov EXCEPT !.pc = "cgroup", !.sup = "exited"]
                ELSE [recov EXCEPT !.pc = "read", !.sup = IF s.reused THEN "stranger" ELSE "mine"]
    /\ UNCHANGED <<host, mgr, launching, stopping, leaves, sups, ctlWire, targets, janitor, domain, domFaults>>

\* /proc is read under that PID, then the pidfd is asked again: only a process
\* with the recorded start time, that has not exited since, is the supervisor.
ClassifyProcess(seen, exitedSince) == IF exitedSince \/ seen # "mine" THEN "exited" ELSE "live"
RecoverReads ==
    LET s == sups[recov.a]
        seen == IF s.reused THEN "stranger" ELSE IF s.st = "gone" THEN "nobody" ELSE "mine" IN
    /\ recov.pc = "read"
    /\ \/ recov' = [recov EXCEPT !.pc = "check", !.sup = seen] /\ NoFault
       \/ DomFault /\ recov' = [recov EXCEPT !.pc = "cgroup", !.sup = "unknown"]
    /\ UNCHANGED <<host, mgr, launching, stopping, leaves, sups, ctlWire, targets, janitor, domain>>
RecoverChecks ==
    /\ recov.pc = "check"
    /\ recov' = [recov EXCEPT !.pc = "cgroup", !.sup = ClassifyProcess(@, PidfdExited(recov.a))]
    /\ UNCHANGED <<host, mgr, launching, stopping, leaves, sups, ctlWire, targets, janitor, domain, domFaults>>

\* recoverCgroup: the recorded leaf under the recorded root, and its population.
ClassifyCgroup(a) ==
    IF leaves[a].root # host.root THEN "replaced"
    ELSE IF leaves[a].st # "there" THEN "absent" ELSE IF Populated(a) THEN "populated" ELSE "empty"
RecoverDecides ==
    /\ recov.pc = "cgroup" /\ recov' = NoRecover
    /\ \E cg \in {ClassifyCgroup(recov.a), "unknown"} :
          /\ (IF cg = "unknown" THEN DomFault ELSE NoFault)
          /\ Tell(recov.a, "confirmed", DecideQuiet([sup |-> recov.sup, cg |-> cg]))
    /\ UNCHANGED <<host, mgr, launching, stopping, leaves, sups, ctlWire, targets, janitor>>

-----------------------------------------------------------------------------
(* Daemons and hosts come and go. *)

\* A daemon starts, perhaps under another delegated root.
DaemonStarts ==
    /\ mgr = "down" /\ host.daemons < MaxDaemons /\ mgr' = "new"
    /\ \E r \in {host.root, host.root + 1} :
          /\ host.daemons = 0 => r = host.root
          /\ host' = [host EXCEPT !.daemons = @ + 1, !.root = r]
    /\ UNCHANGED <<launching, stopping, recov, leaves, sups, ctlWire, targets, janitor, domain, domFaults>>

Forgets ==
    /\ mgr' = "down" /\ launching' = NoLaunch /\ stopping' = NoStop /\ recov' = NoRecover
    /\ targets' = [a \in Attempts |-> NoTarget] /\ janitor' = NewQueue
\* It dies: its end of every socket closes.
DomainDaemonDies ==
    /\ mgr # "down" /\ host.daemons < MaxDaemons /\ Forgets
    /\ ctlWire' = [a \in Attempts |-> [ctlWire[a] EXCEPT !.open = FALSE, !.said = {}, !.order = IF @ = "none" /\ sups[a].st # "none" THEN "eof" ELSE @]]
    /\ UNCHANGED <<host, leaves, sups, domain, domFaults>>
\* The host reboots: no process and no cgroup is left.
Reboots ==
    /\ mgr # "down" /\ host.daemons < MaxDaemons /\ Forgets /\ host' = [host EXCEPT !.boot = @ + 1]
    /\ leaves' = [a \in Attempts |-> IF leaves[a].st = "there" THEN [leaves[a] EXCEPT !.st = "gone"] ELSE leaves[a]]
    /\ sups' = [a \in Attempts |-> IF sups[a].st = "none" THEN sups[a] ELSE [sups[a] EXCEPT !.st = "gone", !.live = {}]]
    /\ ctlWire' = [a \in Attempts |-> [ctlWire[a] EXCEPT !.open = FALSE, !.said = {}]]
    /\ UNCHANGED <<domain, domFaults>>

DomainNext ==
    \/ DaemonStarts \/ DomainDaemonDies \/ Reboots \/ StartupSweep
    \/ CanaryRuns \/ CanaryAcks \/ CanaryLeaf \/ CanaryFails
    \/ RegisterAttempt \/ CloneSupervisor \/ Handshake \/ VerifySupervisor \/ OnDomain \/ Release
    \/ StopProbes \/ StopTerms \/ StopAwaits \/ StopKills
    \/ RecoverOpens \/ RecoverReads \/ RecoverChecks \/ RecoverDecides
    \/ \E a \in Attempts :
          \/ CreateAttempt(a) \/ ReadExit(a) \/ CallerProbes(a) \/ CallerStops(a) \/ CleanupPass(a) \/ RecoverBegins(a)
          \/ SupervisorReady(a) \/ SupervisorReads(a) \/ SpawnProvider(a) \/ OnStarted(a) \/ ProviderEnds(a) \/ ReapNamespace(a)
          \/ LeavesCgroup(a) \/ ReusesPid(a) \/ ProviderForks(a) \/ OrphanEnds(a)

DomainSpec == DomainInit /\ [][DomainNext]_domVars

-----------------------------------------------------------------------------
DomainTypeOK ==
    /\ mgr \in {"down", "new", "canary", "ready", "failed"}
    /\ \A a \in Attempts :
          /\ sups[a].st \in {"none", "starting", "waiting", "released", "spawned", "running", "reaping", "zombie", "gone"}
          /\ sups[a].live \subseteq {"provider", "child"}
          /\ leaves[a].st \in {"none", "there", "gone"} /\ ctlWire[a].order \in {"none", "release", "abort", "eof"}
    /\ janitor.req \subseteq janitor.entries

\* Termination is only confirmed, by a probe, a stop or a recovery from
\* evidence, of a domain in which nothing lives and nothing will start.
ConfirmedIsDead ==
    \A a \in Attempts : domain[a].confirmed =>
        ~Alive(a) /\ sups[a].live = {} /\ (launching.a = a => launching.pc \notin {"register", "clone"})

\* A Start that returned an error ran no provider, and none will run.
RefusedRanNothing ==
    \A a \in Attempts : domain[a].refused => ~domain[a].ran /\ sups[a].st \notin {"released", "spawned", "running"}

\* A provider only runs once the evidence to find it by is stored.
EvidenceFirst == \A a \in Attempts : domain[a].ran /\ a # 1 => domain[a].evidence # 0

\* A reported exit is the exit of the provider, not of the report.
DoneMeansExited == \A a \in Attempts : domain[a].done => "provider" \notin sups[a].live

\* While the daemon lives, every leaf of its root is either being launched in
\* or watched by the queue until it can be removed, and none is removed under
\* a launch.
LeavesAreWatched ==
    /\ mgr \in {"canary", "ready"} => \A a \in Attempts : Here(a) => a \in janitor.entries \/ (launching.a = a /\ launching.pc = "register")
    /\ launching.pc \in {"register", "clone"} => Here(launching.a)

DomainSafe == DomainTypeOK /\ ConfirmedIsDead /\ RefusedRanNothing /\ EvidenceFirst /\ DoneMeansExited /\ LeavesAreWatched
=============================================================================
