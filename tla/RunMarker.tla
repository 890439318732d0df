----------------------------- MODULE RunMarker -----------------------------
(***************************************************************************)
(* The run marker: the file that says an agent may be live in a workspace. *)
(*                                                                         *)
(* The daemon writes it before a launch, the launch upgrades it with the   *)
(* run's evidence before the agent is released, and it is removed only     *)
(* when that run is confirmed gone.  Removals are done by goroutines that  *)
(* may fail, are retried every tick and outlive the record that owed them, *)
(* so a removal for one run can race the launch of the next one.  The      *)
(* daemon may crash at any step; the agent then survives it, and the next  *)
(* daemon decides from the file alone.                                     *)
(*                                                                         *)
(* After a restart a workspace is used again only once its claim has been  *)
(* through recovery.  That needs the claim to stand until then: ClaimLife  *)
(* models the person who takes it away in between.                         *)
(*                                                                         *)
(* Sources: internal/orchestrator/marker.go, the launch half of            *)
(* pipeline.go, resolveMarkerValueWith in recover.go, and                  *)
(* internal/workspace/marker.go for the file.                              *)
(***************************************************************************)
EXTENDS Naturals, FiniteSets

CONSTANTS
    Keys,       \* (issue, workspace root) pairs: what pendingClear.matches compares
    MaxRuns     \* bound: launches attempted over the whole behaviour

ASSUME MaxRunsAssumption == MaxRuns \in Nat

VARIABLES
    up,         \* is a daemon process running
    nextRun,    \* number of the next launch
    phase,      \* per key, where the loop is with the workspace
    run,        \* per key, the launch the loop is working for (0: none)
    starter,    \* per key, program counter of the goroutine beginStart spawned
    waits,      \* per key, the removals that goroutine waits out first
    listed,     \* o.markerClears: per key, the launches whose removal is pending
    abandoned,  \* pendingClear.abandoned
    executing,  \* removals whose goroutine has not closed pendingClear.done
    removed,    \* removals that answered success, signal not yet handled
    refused,    \* removals that answered an error, signal not yet handled
    marker,     \* per key, the file
    live        \* per key, the launches whose agent is running (ground truth)

loopVars   == <<up, nextRun, phase, run>>
clearVars  == <<listed, abandoned, executing, removed, refused>>
vars == <<up, nextRun, phase, run, starter, waits, listed, abandoned,
          executing, removed, refused, marker, live>>

Absent        == [state |-> "absent", by |-> 0]
UnknownLaunch(r) == [state |-> "unknown_launch", by |-> r]
Identified(r) == [state |-> "identified", by |-> r]

Markers == [state : {"absent", "unknown_launch", "identified"}, by : Nat]

Phases   == {"unknown", "idle", "vouched", "starting", "running", "parked"}
Starters == {"none", "waiting", "begun", "evidenced", "started", "failed"}

-----------------------------------------------------------------------------
(* The pending removals, as the loop sees them.                            *)

\* pendingClear.inFlight: set when the goroutine is spawned, reset when its
\* signal is handled.
InFlight(k) == executing[k] \cup removed[k] \cup refused[k]

\* Mutant: the duplicate test forgets that an abandoned removal will not be retried.
RememberIgnoringAbandoned(k, r) ==
    IF listed[k] = {} THEN listed[k] \cup {r} ELSE listed[k]

\* rememberPendingClear for launch r, then driveMarkerClears: at most one
\* removal per key executes, and a second request for a key that already owes
\* one is dropped.
Remember(k, r) ==
    IF listed[k] \subseteq abandoned[k] THEN listed[k] \cup {r} ELSE listed[k]

\* driveMarkerClears over the list `todo` of key k, with `busy` in flight.
Drive(k, todo, busy) ==
    IF busy # {} \/ todo = {}
    THEN UNCHANGED executing
    ELSE \E c \in todo : executing' = [executing EXCEPT ![k] = @ \cup {c}]

\* freeWorkspaceMarker: the run is confirmed gone, or was never launched.
FreeWorkspaceMarker(k, r) ==
    /\ listed' = [listed EXCEPT ![k] = Remember(k, r)]
    /\ Drive(k, Remember(k, r), InFlight(k))
    /\ UNCHANGED <<abandoned, removed, refused>>

\* Mutant: the removals in flight are marked but nobody waits for them.
AbandonWithoutWaiting(k) ==
    /\ listed' = [listed EXCEPT ![k] = listed[k] \cap InFlight(k)]
    /\ abandoned' = [abandoned EXCEPT ![k] = listed[k] \cap InFlight(k)]
    /\ waits' = [waits EXCEPT ![k] = {}]
    /\ UNCHANGED <<executing, removed, refused>>

\* abandonPendingClears: a removal not in flight is dropped, one in flight is
\* kept, marked, and waited out by the launch.
AbandonPendingClears(k) ==
    /\ listed' = [listed EXCEPT ![k] = listed[k] \cap InFlight(k)]
    /\ abandoned' = [abandoned EXCEPT ![k] = listed[k] \cap InFlight(k)]
    /\ waits' = [waits EXCEPT ![k] = listed[k] \cap InFlight(k)]
    /\ UNCHANGED <<executing, removed, refused>>

-----------------------------------------------------------------------------
(* The launch.                                                             *)

\* beginStart, on the loop.
BeginStart(k) ==
    /\ up
    /\ phase[k] \in {"idle", "vouched"}
    /\ nextRun <= MaxRuns
    /\ nextRun' = nextRun + 1
    /\ phase' = [phase EXCEPT ![k] = "starting"]
    /\ run' = [run EXCEPT ![k] = nextRun]
    /\ starter' = [starter EXCEPT ![k] = "waiting"]
    /\ AbandonPendingClears(k)
    /\ UNCHANGED <<up, marker, live>>

\* Mutant: the goroutine waits for the success of each removal, not for its end.
WriteMarkerAfterSuccess(k) ==
    /\ up
    /\ starter[k] = "waiting"
    /\ waits[k] \subseteq removed[k]
    /\ marker' = [marker EXCEPT ![k] = UnknownLaunch(run[k])]
    /\ starter' = [starter EXCEPT ![k] = "begun"]
    /\ UNCHANGED <<loopVars, waits, clearVars, live>>

\* BeginRunMarkerFor, in the goroutine, once every awaited removal has closed
\* its channel.  writeMarker can fail before its rename or, in the final
\* directory sync, after it.
WriteMarker(k) ==
    /\ up
    /\ starter[k] = "waiting"
    /\ waits[k] \cap executing[k] = {}
    /\ \/ /\ marker' = [marker EXCEPT ![k] = UnknownLaunch(run[k])]
          /\ starter' = [starter EXCEPT ![k] = "begun"]
       \/ /\ marker' \in {marker, [marker EXCEPT ![k] = UnknownLaunch(run[k])]}
          /\ starter' = [starter EXCEPT ![k] = "failed"]
    /\ UNCHANGED <<loopVars, waits, clearVars, live>>

\* runner.Start up to the evidence sink: the execution domain is created, then
\* OnDomain records its identity in the marker (RecordRun).  A domain that
\* cannot be created, or evidence that cannot be recorded, aborts the launch
\* before the agent is released and returns an error with no handle.
RecordRun(k) ==
    /\ up
    /\ starter[k] = "begun"
    /\ \/ /\ marker' = [marker EXCEPT ![k] = Identified(run[k])]
          /\ starter' = [starter EXCEPT ![k] = "evidenced"]
       \/ /\ marker' \in {marker, [marker EXCEPT ![k] = Identified(run[k])]}
          /\ starter' = [starter EXCEPT ![k] = "failed"]
    /\ UNCHANGED <<loopVars, waits, clearVars, live>>

\* The release message: the agent runs.  A release that could not be sent still
\* returns the handle, of a domain with no agent in it.
ReleaseAgent(k) ==
    /\ up
    /\ starter[k] = "evidenced"
    /\ starter' = [starter EXCEPT ![k] = "started"]
    /\ live' \in {live, [live EXCEPT ![k] = @ \cup {run[k]}]}
    /\ UNCHANGED <<loopVars, waits, clearVars, marker>>

\* onStarted, on the loop: a handle is adopted; an error with no handle frees
\* the marker.
OnStarted(k) ==
    /\ up
    /\ starter[k] \in {"started", "failed"}
    /\ starter' = [starter EXCEPT ![k] = "none"]
    /\ waits' = [waits EXCEPT ![k] = {}]
    /\ \/ /\ starter[k] = "started"
          /\ phase' = [phase EXCEPT ![k] = "running"]
          /\ UNCHANGED <<run, clearVars>>
       \/ /\ starter[k] = "failed"
          /\ phase' = [phase EXCEPT ![k] = "idle"]
          /\ run' = [run EXCEPT ![k] = 0]
          /\ FreeWorkspaceMarker(k, run[k])
    /\ UNCHANGED <<up, nextRun, marker, live>>

\* The execution domain is confirmed quiet (quiet, onStopped, suspendStopped).
\* The confirmation is sound: decide answers confirmed only for an exited
\* supervisor and an unpopulated cgroup.
Quiet(k) ==
    /\ up
    /\ phase[k] = "running"
    /\ run[k] \notin live[k]
    /\ phase' = [phase EXCEPT ![k] = "idle"]
    /\ run' = [run EXCEPT ![k] = 0]
    /\ FreeWorkspaceMarker(k, run[k])
    /\ UNCHANGED <<up, nextRun, starter, waits, marker, live>>

-----------------------------------------------------------------------------
(* The removal.                                                            *)

\* ClearRunMarkerFor succeeds, in the goroutine; its channel closes.
ClearSucceeds(k, c) ==
    /\ up
    /\ c \in executing[k]
    /\ marker' = [marker EXCEPT ![k] = Absent]
    /\ executing' = [executing EXCEPT ![k] = @ \ {c}]
    /\ removed' = [removed EXCEPT ![k] = @ \cup {c}]
    /\ UNCHANGED <<loopVars, starter, waits, listed, abandoned, refused, live>>

\* ClearRunMarkerFor fails, before the unlink or in the directory sync after it.
ClearFails(k, c) ==
    /\ up
    /\ c \in executing[k]
    /\ marker' \in {marker, [marker EXCEPT ![k] = Absent]}
    /\ executing' = [executing EXCEPT ![k] = @ \ {c}]
    /\ refused' = [refused EXCEPT ![k] = @ \cup {c}]
    /\ UNCHANGED <<loopVars, starter, waits, listed, abandoned, removed, live>>

\* Mutant: a failed removal keeps its inFlight flag.
OnMarkerClearedStuck(k, c) ==
    /\ up
    /\ c \in removed[k] \cup abandoned[k]
    /\ c \notin executing[k]
    /\ removed' = [removed EXCEPT ![k] = @ \ {c}]
    /\ refused' = [refused EXCEPT ![k] = @ \ {c}]
    /\ listed' = [listed EXCEPT ![k] = @ \ {c}]
    /\ abandoned' = [abandoned EXCEPT ![k] = @ \ {c}]
    /\ Drive(k, listed[k] \ {c}, InFlight(k) \ {c})
    /\ UNCHANGED <<loopVars, starter, waits, marker, live>>

\* Mutant: an abandoned removal leaves the list and keeps its mark.
OnMarkerClearedKeepingMark(k, c) ==
    /\ up
    /\ c \in removed[k] \cup refused[k]
    /\ removed' = [removed EXCEPT ![k] = @ \ {c}]
    /\ refused' = [refused EXCEPT ![k] = @ \ {c}]
    /\ listed' = [listed EXCEPT ![k] = @ \ {c}]
    /\ Drive(k, listed[k] \ {c}, InFlight(k) \ {c})
    /\ UNCHANGED <<loopVars, starter, waits, abandoned, marker, live>>

\* onMarkerCleared: an abandoned or successful removal leaves the list and the
\* next one is driven; a failed one stays for the next tick.
OnMarkerCleared(k, c) ==
    /\ up
    /\ c \in removed[k] \cup refused[k]
    /\ removed' = [removed EXCEPT ![k] = @ \ {c}]
    /\ refused' = [refused EXCEPT ![k] = @ \ {c}]
    /\ \/ /\ c \in refused[k] \ abandoned[k]
          /\ UNCHANGED <<listed, abandoned, executing>>
       \/ /\ c \in removed[k] \cup abandoned[k]
          /\ listed' = [listed EXCEPT ![k] = @ \ {c}]
          /\ abandoned' = [abandoned EXCEPT ![k] = @ \ {c}]
          /\ Drive(k, listed[k] \ {c}, InFlight(k) \ {c})
    /\ UNCHANGED <<loopVars, starter, waits, marker, live>>

\* driveMarkerClears on the tick.
Tick(k) ==
    /\ up
    /\ listed[k] # {}
    /\ InFlight(k) = {}
    /\ Drive(k, listed[k], InFlight(k))
    /\ UNCHANGED <<loopVars, starter, waits, listed, abandoned, removed, refused,
                   marker, live>>

-----------------------------------------------------------------------------
(* The agent, the crash and recovery.                                      *)

\* The agent ends, by itself or under a Stop.
AgentExits(k, r) ==
    /\ r \in live[k]
    /\ live' = [live EXCEPT ![k] = @ \ {r}]
    /\ UNCHANGED <<loopVars, starter, waits, clearVars, marker>>

\* The daemon dies: every goroutine and every map goes, the file and the agent
\* stay.
Crash ==
    /\ up
    /\ up' = FALSE
    /\ phase' = [k \in Keys |-> "unknown"]
    /\ run' = [k \in Keys |-> 0]
    /\ starter' = [k \in Keys |-> "none"]
    /\ waits' = [k \in Keys |-> {}]
    /\ listed' = [k \in Keys |-> {}]
    /\ abandoned' = [k \in Keys |-> {}]
    /\ executing' = [k \in Keys |-> {}]
    /\ removed' = [k \in Keys |-> {}]
    /\ refused' = [k \in Keys |-> {}]
    /\ UNCHANGED <<nextRun, marker, live>>

Restart ==
    /\ ~up
    /\ up' = TRUE
    /\ UNCHANGED <<nextRun, phase, run, starter, waits, clearVars, marker, live>>

\* Mutant: recovery removes an identified marker without asking the prober.
ResolveMarkerWithoutProbe(k) ==
    /\ up
    /\ phase[k] = "unknown"
    /\ marker' = [marker EXCEPT ![k] = Absent]
    /\ phase' = [phase EXCEPT ![k] = "idle"]
    /\ UNCHANGED <<up, nextRun, run, starter, waits, clearVars, live>>

\* resolveMarkerValueWith, at startup and again on later ticks for a workspace
\* that was not resolved.  An absent marker is a free workspace; one without
\* evidence parks for a human; one with evidence is removed only when the probe
\* says that run is gone, and a probe that cannot say, or a removal that fails,
\* leaves the workspace unresolved.
ResolveMarker(k) ==
    /\ up
    /\ phase[k] = "unknown"
    /\ \/ /\ marker[k].state = "absent"
          /\ phase' = [phase EXCEPT ![k] = "idle"]
          /\ UNCHANGED marker
       \/ /\ marker[k].state = "unknown_launch"
          /\ phase' = [phase EXCEPT ![k] = "parked"]
          /\ UNCHANGED marker
       \/ /\ marker[k].state = "identified"
          /\ marker[k].by \notin live[k]
          /\ marker' = [marker EXCEPT ![k] = Absent]
          /\ phase' \in {phase, [phase EXCEPT ![k] = "idle"]}
    /\ UNCHANGED <<up, nextRun, run, starter, waits, clearVars, live>>

\* applyParked: the operator took the needs-review label off, which is their word
\* that nothing runs there.  The marker stays until the next launch rewrites it.
Relabel(k) ==
    /\ up
    /\ phase[k] = "parked"
    /\ phase' = [phase EXCEPT ![k] = "vouched"]
    /\ UNCHANGED <<up, nextRun, run, starter, waits, clearVars, marker, live>>

-----------------------------------------------------------------------------

Init ==
    /\ up = TRUE
    /\ nextRun = 1
    /\ phase = [k \in Keys |-> "unknown"]
    /\ run = [k \in Keys |-> 0]
    /\ starter = [k \in Keys |-> "none"]
    /\ waits = [k \in Keys |-> {}]
    /\ listed = [k \in Keys |-> {}]
    /\ abandoned = [k \in Keys |-> {}]
    /\ executing = [k \in Keys |-> {}]
    /\ removed = [k \in Keys |-> {}]
    /\ refused = [k \in Keys |-> {}]
    /\ marker = [k \in Keys |-> Absent]
    /\ live = [k \in Keys |-> {}]

Launch(k) ==
    BeginStart(k) \/ WriteMarker(k) \/ RecordRun(k) \/ ReleaseAgent(k) \/ OnStarted(k)

Removal(k) ==
    \/ \E c \in executing[k] : ClearSucceeds(k, c) \/ ClearFails(k, c)
    \/ \E c \in removed[k] \cup refused[k] : OnMarkerCleared(k, c)
    \/ Tick(k)

Next ==
    \/ \E k \in Keys : Launch(k) \/ Quiet(k) \/ Removal(k) \/ ResolveMarker(k) \/ Relabel(k)
    \/ \E k \in Keys : \E r \in live[k] : AgentExits(k, r)
    \/ Crash
    \/ Restart

Spec == Init /\ [][Next]_vars

\* Every goroutine and the loop run; the tick returns; and a removal that is
\* retried forever is not refused forever.
Fairness ==
    \A k \in Keys :
        /\ WF_vars(WriteMarker(k))
        /\ WF_vars(\E c \in executing[k] : ClearSucceeds(k, c) \/ ClearFails(k, c))
        /\ SF_vars(\E c \in executing[k] : ClearSucceeds(k, c))
        /\ WF_vars(\E c \in removed[k] \cup refused[k] : OnMarkerCleared(k, c))
        /\ WF_vars(Tick(k))

FairSpec == Spec /\ Fairness

-----------------------------------------------------------------------------
(* Properties.                                                             *)

\* Every variable holds a value of its kind; a removal in flight is on the list
\* and in exactly one of the stages driveMarkerClears and onMarkerCleared move
\* it through; and only a removal in flight is abandoned.
TypeOK ==
    /\ up \in BOOLEAN
    /\ nextRun \in Nat \ {0}
    /\ phase \in [Keys -> Phases]
    /\ run \in [Keys -> Nat]
    /\ starter \in [Keys -> Starters]
    /\ waits \in [Keys -> SUBSET Nat]
    /\ listed \in [Keys -> SUBSET Nat]
    /\ abandoned \in [Keys -> SUBSET Nat]
    /\ executing \in [Keys -> SUBSET Nat]
    /\ removed \in [Keys -> SUBSET Nat]
    /\ refused \in [Keys -> SUBSET Nat]
    /\ marker \in [Keys -> Markers]
    /\ live \in [Keys -> SUBSET Nat]
    /\ \A k \in Keys :
        /\ InFlight(k) \subseteq listed[k]
        /\ abandoned[k] \subseteq InFlight(k)
        /\ executing[k] \cap (removed[k] \cup refused[k]) = {}
        /\ removed[k] \cap refused[k] = {}

\* While an agent runs in a workspace the marker names that agent: no late
\* removal for an earlier run (driveMarkerClears' goroutines), and no crash
\* between the steps of beginStart's goroutine, leaves it uncovered.
MarkerCoversAgent ==
    \A k \in Keys : \A r \in live[k] : marker[k] = Identified(r)

\* Two agents never run in one workspace, across any number of crashes: what
\* beginStart and resolveMarker together are for.
OneAgentPerWorkspace ==
    \A k \in Keys : \A r, s \in live[k] : r = s

\* A workspace the loop holds no run in has no marker, or a removal for it is
\* still owed: freeWorkspaceMarker's request is never lost to a launch, to a
\* failed unlink or to an earlier removal for the same workspace.
StaleMarkerIsOwed ==
    \A k \in Keys :
        phase[k] = "idle" /\ marker[k] # Absent => listed[k] \ abandoned[k] # {}

\* A removal owed for an unused workspace is eventually made, unless a new
\* launch or a crash supersedes it (driveMarkerClears, retried on each tick).
OwedMarkerIsFreed ==
    \A k \in Keys :
        phase[k] = "idle" /\ listed[k] # {}
            ~> phase[k] # "idle" \/ listed[k] = {}

\* beginStart's goroutine never waits forever on the removals it was handed.
LaunchIsNotBlocked ==
    \A k \in Keys : starter[k] = "waiting" ~> starter[k] # "waiting"
=============================================================================
