-------------------------- MODULE RunMarkerProofs --------------------------
(***************************************************************************)
(* RunMarker is safe for every set of workspaces and any number of         *)
(* launches.                                                               *)
(***************************************************************************)
EXTENDS RunMarker, TLAPS

USE SMTT(30), ZenonT(30)

\* What each key's launch and removals owe each other.  While a launch is under
\* way every removal still listed is abandoned, and once its goroutine has
\* stopped waiting none executes; an agent runs only under its own marker, in a
\* workspace the loop is running or has not resolved yet; and a removal that was
\* not abandoned and has succeeded left no marker behind.
KeyInv(k) ==
    /\ starter[k] # "none" <=> phase[k] = "starting"
    /\ run[k] < nextRun
    /\ phase[k] \in {"starting", "running"} =>
          /\ listed[k] \subseteq abandoned[k]
          /\ run[k] \notin listed[k]
    /\ \A c \in listed[k] : c < nextRun
    /\ starter[k] = "waiting" => executing[k] \subseteq waits[k]
    /\ phase[k] = "running" => executing[k] = {}
    /\ phase[k] = "starting" /\ starter[k] # "waiting" => executing[k] = {}
    /\ phase[k] = "unknown" => listed[k] = {}
    /\ marker[k].state = "absent" => marker[k] = Absent
    /\ starter[k] = "evidenced" => marker[k] = Identified(run[k])
    /\ \A r \in live[k] :
          /\ marker[k] = Identified(r)
          /\ \/ phase[k] = "unknown"
             \/ phase[k] = "running" /\ run[k] = r
             \/ starter[k] = "started" /\ run[k] = r
    /\ phase[k] = "idle" /\ removed[k] \ abandoned[k] # {} => marker[k] = Absent
    /\ phase[k] = "idle" /\ marker[k] # Absent => listed[k] \ abandoned[k] # {}

IInv == TypeOK /\ \A k \in Keys : KeyInv(k)

Same(j) ==
    /\ phase'[j] = phase[j] /\ run'[j] = run[j]
    /\ starter'[j] = starter[j] /\ waits'[j] = waits[j]
    /\ listed'[j] = listed[j] /\ abandoned'[j] = abandoned[j]
    /\ executing'[j] = executing[j] /\ removed'[j] = removed[j]
    /\ refused'[j] = refused[j] /\ marker'[j] = marker[j] /\ live'[j] = live[j]

\* The variables as functions of the right type.
Types ==
    /\ up \in BOOLEAN
    /\ nextRun \in Nat \ {0}
    /\ phase \in [Keys -> Phases]
    /\ run \in [Keys -> Nat]
    /\ starter \in [Keys -> Starters]
    /\ waits \in [Keys -> SUBSET Nat]
    /\ listed \in [Keys -> SUBSET Nat]
    /\ abandoned \in [Keys -> SUBSET Nat]
    /\ executing \in [Keys -> SUBSET Nat]
    /\ removed \in [Keys -> SUBSET Nat]
    /\ refused \in [Keys -> SUBSET Nat]
    /\ marker \in [Keys -> Markers]
    /\ live \in [Keys -> SUBSET Nat]

\* Where the removals of key k are.
Stages(k) ==
    /\ InFlight(k) \subseteq listed[k]
    /\ abandoned[k] \subseteq InFlight(k)
    /\ executing[k] \cap (removed[k] \cup refused[k]) = {}
    /\ removed[k] \cap refused[k] = {}

LEMMA TypeOKSplit == TypeOK <=> Types /\ \A k \in Keys : Stages(k)
BY DEF TypeOK, Types, Stages

\* A key no step touched keeps its part of the invariant.
LEMMA Frame ==
    ASSUME NEW j \in Keys, Types, Stages(j), KeyInv(j), Same(j),
           nextRun' \in Nat, nextRun <= nextRun'
    PROVE  Stages(j)' /\ KeyInv(j)'
<1>1. Stages(j)'
  BY DEF Same, Stages, InFlight
<1>2. run[j] \in Nat /\ nextRun \in Nat /\ listed[j] \subseteq Nat
  BY DEF Types
<1>3. KeyInv(j)'
  BY <1>2 DEF Same, KeyInv, Absent, Identified
<1>4. QED
  BY <1>1, <1>3

LEMMA IdentifiedFields == \A r : Identified(r).state = "identified" /\ Identified(r).by = r
BY DEF Identified

LEMMA InitEstablishes == Init => IInv
BY DEF Init, IInv, TypeOK, KeyInv, InFlight, Phases, Starters, Markers, Absent

LEMMA StepPreserves == IInv /\ [Next]_vars => IInv'
<1> SUFFICES ASSUME IInv, [Next]_vars PROVE IInv'
  OBVIOUS
<1>0. Types /\ (\A k \in Keys : Stages(k) /\ KeyInv(k))
  BY TypeOKSplit DEF IInv
<1>a. ASSUME NEW k \in Keys, Types', Stages(k)', KeyInv(k)', nextRun <= nextRun',
             \A j \in Keys \ {k} : Same(j)
      PROVE  IInv'
  <2>1. nextRun' \in Nat
    BY <1>a DEF Types
  <2>2. \A j \in Keys \ {k} : Stages(j)' /\ KeyInv(j)'
    BY <1>0, <1>a, <2>1, Frame
  <2>3. \A j \in Keys : Stages(j)' /\ KeyInv(j)'
    BY <1>a, <2>2
  <2>4. TypeOK'
    BY <1>a, <2>3 DEF TypeOK, Types, Stages
  <2>5. QED
    BY <2>3, <2>4 DEF IInv
<1>1. ASSUME NEW k \in Keys, BeginStart(k) PROVE IInv'
  <2>1. Types'
    BY <1>0, <1>1 DEF Types, Stages, InFlight, BeginStart, AbandonPendingClears, Phases, Starters, Markers, Absent, UnknownLaunch, Identified, loopVars, clearVars
  <2>2. nextRun <= nextRun' /\ \A j \in Keys \ {k} : Same(j)
    BY <1>0, <1>1 DEF Types, Same, BeginStart, AbandonPendingClears, loopVars, clearVars
  <2>3. Stages(k)'
    BY <1>0, <1>1 DEF Types, Stages, InFlight, BeginStart, AbandonPendingClears, loopVars, clearVars
  <2>4. KeyInv(k)'
    BY <1>0, <1>1 DEF Types, Stages, InFlight, KeyInv, BeginStart, AbandonPendingClears, Phases, Starters, Markers, Absent, UnknownLaunch, Identified, loopVars, clearVars
  <2>5. QED
    BY <1>a, <2>1, <2>2, <2>3, <2>4
<1>2. ASSUME NEW k \in Keys, WriteMarker(k) PROVE IInv'
  <2>0. PICK m \in Markers : m \in {marker[k], UnknownLaunch(run[k])} /\ marker' = [marker EXCEPT ![k] = m]
    <3>1. marker[k] \in Markers /\ UnknownLaunch(run[k]) \in Markers
      BY <1>0 DEF Types, Phases, Starters, Markers, Absent, UnknownLaunch, Identified
    <3>2. marker = [marker EXCEPT ![k] = marker[k]]
      BY <1>0 DEF Types
    <3>3. QED
      BY <1>2, <3>1, <3>2 DEF WriteMarker
  <2>1. Types'
    BY <1>0, <1>2, <2>0 DEF Types, WriteMarker, Starters, loopVars, clearVars
  <2>2. nextRun <= nextRun' /\ \A j \in Keys \ {k} : Same(j)
    BY <1>0, <1>2 DEF Types, Same, WriteMarker, loopVars, clearVars
  <2>3. Stages(k)'
    BY <1>0, <1>2 DEF Types, Stages, InFlight, WriteMarker, loopVars, clearVars
  <2>4. KeyInv(k)'
    BY <1>0, <1>2 DEF Types, Stages, InFlight, KeyInv, WriteMarker, Phases, Starters, Markers, Absent, UnknownLaunch, Identified, loopVars, clearVars
  <2>5. QED
    BY <1>a, <2>1, <2>2, <2>3, <2>4
<1>3. ASSUME NEW k \in Keys, RecordRun(k) PROVE IInv'
  <2>0. PICK m \in Markers : m \in {marker[k], Identified(run[k])} /\ marker' = [marker EXCEPT ![k] = m]
    <3>1. marker[k] \in Markers /\ Identified(run[k]) \in Markers
      BY <1>0 DEF Types, Phases, Starters, Markers, Absent, UnknownLaunch, Identified
    <3>2. marker = [marker EXCEPT ![k] = marker[k]]
      BY <1>0 DEF Types
    <3>3. QED
      BY <1>3, <3>1, <3>2 DEF RecordRun
  <2>1. Types'
    BY <1>0, <1>3, <2>0 DEF Types, RecordRun, Starters, loopVars, clearVars
  <2>2. nextRun <= nextRun' /\ \A j \in Keys \ {k} : Same(j)
    BY <1>0, <1>3 DEF Types, Same, RecordRun, loopVars, clearVars
  <2>3. Stages(k)'
    BY <1>0, <1>3 DEF Types, Stages, InFlight, RecordRun, loopVars, clearVars
  <2>4. KeyInv(k)'
    <3>1. phase[k] = "starting" /\ live[k] = {}
      BY <1>0, <1>3 DEF KeyInv, RecordRun
    <3>2. starter'[k] = "evidenced" => marker'[k] = Identified(run[k])
      BY <1>0, <1>3 DEF Types, RecordRun
    <3>3. starter'[k] \in {"evidenced", "failed"} /\ live'[k] = live[k]
      BY <1>0, <1>3 DEF Types, RecordRun
    <3>4. marker'[k].state = "absent" => marker'[k] = Absent
      BY <1>0, <2>0, IdentifiedFields DEF Types, KeyInv
    <3>5. QED
      BY <1>0, <1>3, <3>1, <3>2, <3>3, <3>4 DEF KeyInv, RecordRun, loopVars, clearVars
  <2>5. QED
    BY <1>a, <2>1, <2>2, <2>3, <2>4
<1>4. ASSUME NEW k \in Keys, ReleaseAgent(k) PROVE IInv'
  <2>1. Types'
    BY <1>0, <1>4 DEF Types, Stages, InFlight, ReleaseAgent, Phases, Starters, Markers, Absent, UnknownLaunch, Identified, loopVars, clearVars
  <2>2. nextRun <= nextRun' /\ \A j \in Keys \ {k} : Same(j)
    BY <1>0, <1>4 DEF Types, Same, ReleaseAgent, loopVars, clearVars
  <2>3. Stages(k)'
    BY <1>0, <1>4 DEF Types, Stages, InFlight, ReleaseAgent, loopVars, clearVars
  <2>4. KeyInv(k)'
    <3>1. phase[k] = "starting" /\ live[k] = {} /\ marker[k] = Identified(run[k])
      BY <1>0, <1>4 DEF KeyInv, ReleaseAgent
    <3>2. starter'[k] = "started" /\ live'[k] \subseteq {run[k]}
      BY <1>0, <1>4, <3>1 DEF Types, ReleaseAgent
    <3>3. QED
      BY <1>0, <1>4, <3>1, <3>2 DEF KeyInv, ReleaseAgent, loopVars, clearVars
  <2>5. QED
    BY <1>a, <2>1, <2>2, <2>3, <2>4
<1>5. ASSUME NEW k \in Keys, OnStarted(k) PROVE IInv'
  <2>0. phase[k] = "starting"
    BY <1>0, <1>5 DEF KeyInv, OnStarted
  <2>1. CASE starter[k] = "started"
    <3>1. /\ starter' = [starter EXCEPT ![k] = "none"]
          /\ waits' = [waits EXCEPT ![k] = {}]
          /\ phase' = [phase EXCEPT ![k] = "running"]
          /\ UNCHANGED <<run, clearVars, up, nextRun, marker, live>>
      BY <1>5, <2>1 DEF OnStarted
    <3>2. Types'
      BY <1>0, <3>1 DEF Types, Phases, Starters, clearVars
    <3>3. nextRun <= nextRun' /\ \A j \in Keys \ {k} : Same(j)
      BY <1>0, <3>1 DEF Types, Same, clearVars
    <3>4. Stages(k)'
      BY <1>0, <3>1 DEF Stages, InFlight, clearVars
    <3>5. KeyInv(k)'
      BY <1>0, <2>0, <2>1, <3>1 DEF Types, KeyInv, clearVars, Absent, Identified
    <3>6. QED
      BY <1>a, <3>2, <3>3, <3>4, <3>5
  <2>2. CASE starter[k] = "failed"
    <3>1. /\ starter' = [starter EXCEPT ![k] = "none"]
          /\ waits' = [waits EXCEPT ![k] = {}]
          /\ phase' = [phase EXCEPT ![k] = "idle"]
          /\ run' = [run EXCEPT ![k] = 0]
          /\ FreeWorkspaceMarker(k, run[k])
          /\ UNCHANGED <<up, nextRun, marker, live>>
      BY <1>5, <2>2 DEF OnStarted
    <3>2. Types'
      BY <1>0, <3>1 DEF Types, Phases, Starters, FreeWorkspaceMarker, Remember, Drive
    <3>3. nextRun <= nextRun' /\ \A j \in Keys \ {k} : Same(j)
      BY <1>0, <3>1 DEF Types, Same, FreeWorkspaceMarker, Remember, Drive
    <3>a. InFlight(k) = {} => Stages(k)'
      BY <1>0, <3>1 DEF Types, Stages, InFlight, FreeWorkspaceMarker, Remember, Drive
    <3>b. InFlight(k) # {} => Stages(k)'
      BY <1>0, <3>1 DEF Types, Stages, InFlight, FreeWorkspaceMarker, Remember, Drive
    <3>4. Stages(k)'
      BY <3>a, <3>b
    <3>5. live[k] = {}
      BY <1>0, <2>0, <2>2 DEF KeyInv
    <3>6. KeyInv(k)'
      BY <1>0, <2>0, <2>2, <3>1, <3>5 DEF Types, Stages, InFlight, KeyInv, Absent, Identified, FreeWorkspaceMarker, Remember, Drive
    <3>7. QED
      BY <1>a, <3>2, <3>3, <3>4, <3>6
  <2>3. QED
    BY <1>5, <2>1, <2>2 DEF OnStarted
<1>6. ASSUME NEW k \in Keys, Quiet(k) PROVE IInv'
  <2>1. Types'
    BY <1>0, <1>6 DEF Types, Stages, InFlight, Quiet, FreeWorkspaceMarker, Remember, Drive, Phases, Starters, Markers, Absent, UnknownLaunch, Identified, loopVars, clearVars
  <2>2. nextRun <= nextRun' /\ \A j \in Keys \ {k} : Same(j)
    BY <1>0, <1>6 DEF Types, Same, Quiet, FreeWorkspaceMarker, Remember, Drive, loopVars, clearVars
  <2>3. Stages(k)'
    BY <1>0, <1>6 DEF Types, Stages, InFlight, Quiet, FreeWorkspaceMarker, Remember, Drive, loopVars, clearVars
  <2>4. KeyInv(k)'
    BY <1>0, <1>6 DEF Types, Stages, InFlight, KeyInv, Quiet, FreeWorkspaceMarker, Remember, Drive, Phases, Starters, Markers, Absent, UnknownLaunch, Identified, loopVars, clearVars
  <2>5. QED
    BY <1>a, <2>1, <2>2, <2>3, <2>4
<1>7. ASSUME NEW k \in Keys, Tick(k) PROVE IInv'
  <2>1. Types'
    BY <1>0, <1>7 DEF Types, Stages, InFlight, Tick, Drive, Phases, Starters, Markers, Absent, UnknownLaunch, Identified, loopVars, clearVars
  <2>2. nextRun <= nextRun' /\ \A j \in Keys \ {k} : Same(j)
    BY <1>0, <1>7 DEF Types, Same, Tick, Drive, loopVars, clearVars
  <2>3. Stages(k)'
    BY <1>0, <1>7 DEF Types, Stages, InFlight, Tick, Drive, loopVars, clearVars
  <2>4. KeyInv(k)'
    BY <1>0, <1>7 DEF Types, Stages, InFlight, KeyInv, Tick, Drive, Phases, Starters, Markers, Absent, UnknownLaunch, Identified, loopVars, clearVars
  <2>5. QED
    BY <1>a, <2>1, <2>2, <2>3, <2>4
<1>8. ASSUME NEW k \in Keys, ResolveMarker(k) PROVE IInv'
  <2>1. Types'
    BY <1>0, <1>8 DEF Types, Stages, InFlight, ResolveMarker, Phases, Starters, Markers, Absent, UnknownLaunch, Identified, loopVars, clearVars
  <2>2. nextRun <= nextRun' /\ \A j \in Keys \ {k} : Same(j)
    BY <1>0, <1>8 DEF Types, Same, ResolveMarker, loopVars, clearVars
  <2>3. Stages(k)'
    BY <1>0, <1>8 DEF Types, Stages, InFlight, ResolveMarker, loopVars, clearVars
  <2>4. KeyInv(k)'
    <3>1. listed[k] = {} /\ abandoned[k] = {} /\ executing[k] = {} /\ starter[k] = "none"
      BY <1>0, <1>8 DEF Types, Stages, InFlight, KeyInv, ResolveMarker, Starters
    <3>0. \A r \in live[k] : marker[k] = Identified(r)
      BY <1>0 DEF KeyInv
    <3>2. \A r \in live[k] : marker[k].state = "identified" /\ marker[k].by = r
      BY <3>0, IdentifiedFields, Zenon
    <3>3. /\ phase'[k] = "unknown" \/ live[k] = {}
          /\ marker'[k] = marker[k] \/ live[k] = {}
      BY <1>0, <1>8, <3>2 DEF Types, ResolveMarker
    <3>4. phase'[k] = "idle" => marker'[k] = Absent
      <4>1. CASE marker[k].state = "absent" /\ UNCHANGED marker
        BY <1>0, <4>1 DEF KeyInv
      <4>2. CASE marker[k].state = "unknown_launch"
        BY <1>0, <1>8, <4>2 DEF Types, ResolveMarker
      <4>3. CASE marker' = [marker EXCEPT ![k] = Absent]
        BY <1>0, <4>3 DEF Types
      <4>4. QED
        BY <1>8, <4>1, <4>2, <4>3 DEF ResolveMarker
    <3>5. phase'[k] \in {"unknown", "idle", "parked"}
      BY <1>0, <1>8 DEF Types, ResolveMarker
    <3>6. QED
      BY <1>0, <1>8, <3>1, <3>3, <3>4, <3>5 DEF Types, Stages, InFlight, KeyInv, ResolveMarker, loopVars, clearVars
  <2>5. QED
    BY <1>a, <2>1, <2>2, <2>3, <2>4
<1>9. ASSUME NEW k \in Keys, Relabel(k) PROVE IInv'
  <2>1. Types'
    BY <1>0, <1>9 DEF Types, Stages, InFlight, Relabel, Phases, Starters, Markers, Absent, UnknownLaunch, Identified, loopVars, clearVars
  <2>2. nextRun <= nextRun' /\ \A j \in Keys \ {k} : Same(j)
    BY <1>0, <1>9 DEF Types, Same, Relabel, loopVars, clearVars
  <2>3. Stages(k)'
    BY <1>0, <1>9 DEF Types, Stages, InFlight, Relabel, loopVars, clearVars
  <2>4. KeyInv(k)'
    BY <1>0, <1>9 DEF Types, Stages, InFlight, KeyInv, Relabel, Phases, Starters, Markers, Absent, UnknownLaunch, Identified, loopVars, clearVars
  <2>5. QED
    BY <1>a, <2>1, <2>2, <2>3, <2>4
<1>10. ASSUME NEW k \in Keys, NEW c \in executing[k], ClearSucceeds(k, c) PROVE IInv'
  <2>1. Types'
    BY <1>0, <1>10 DEF Types, Stages, InFlight, ClearSucceeds, Phases, Starters, Markers, Absent, UnknownLaunch, Identified, loopVars, clearVars
  <2>2. nextRun <= nextRun' /\ \A j \in Keys \ {k} : Same(j)
    BY <1>0, <1>10 DEF Types, Same, ClearSucceeds, loopVars, clearVars
  <2>3. Stages(k)'
    BY <1>0, <1>10 DEF Types, Stages, InFlight, ClearSucceeds, loopVars, clearVars
  <2>4. KeyInv(k)'
    BY <1>0, <1>10 DEF Types, Stages, InFlight, KeyInv, ClearSucceeds, Phases, Starters, Markers, Absent, UnknownLaunch, Identified, loopVars, clearVars
  <2>5. QED
    BY <1>a, <2>1, <2>2, <2>3, <2>4
<1>11. ASSUME NEW k \in Keys, NEW c \in executing[k], ClearFails(k, c) PROVE IInv'
  <2>0. PICK m \in Markers : m \in {marker[k], Absent} /\ marker' = [marker EXCEPT ![k] = m]
    <3>1. marker[k] \in Markers /\ Absent \in Markers
      BY <1>0 DEF Types, Phases, Starters, Markers, Absent, UnknownLaunch, Identified
    <3>2. marker = [marker EXCEPT ![k] = marker[k]]
      BY <1>0 DEF Types
    <3>3. QED
      BY <1>11, <3>1, <3>2 DEF ClearFails
  <2>1. Types'
    BY <1>0, <1>11, <2>0 DEF Types, Stages, InFlight, ClearFails, loopVars, clearVars
  <2>2. nextRun <= nextRun' /\ \A j \in Keys \ {k} : Same(j)
    BY <1>0, <1>11 DEF Types, Same, ClearFails, loopVars, clearVars
  <2>3. Stages(k)'
    BY <1>0, <1>11 DEF Types, Stages, InFlight, ClearFails, loopVars, clearVars
  <2>4. KeyInv(k)'
    BY <1>0, <1>11 DEF Types, Stages, InFlight, KeyInv, ClearFails, Phases, Starters, Markers, Absent, UnknownLaunch, Identified, loopVars, clearVars
  <2>5. QED
    BY <1>a, <2>1, <2>2, <2>3, <2>4
<1>12. ASSUME NEW k \in Keys, NEW c \in removed[k] \cup refused[k], OnMarkerCleared(k, c) PROVE IInv'
  <2>1. Types'
    <3>1. CASE c \in refused[k] \ abandoned[k] /\ UNCHANGED <<listed, abandoned, executing>>
      BY <1>0, <1>12, <3>1 DEF Types, OnMarkerCleared, loopVars
    <3>2. CASE /\ listed' = [listed EXCEPT ![k] = @ \ {c}]
               /\ abandoned' = [abandoned EXCEPT ![k] = @ \ {c}]
               /\ Drive(k, listed[k] \ {c}, InFlight(k) \ {c})
      <4>1. executing' \in [Keys -> SUBSET Nat]
        BY <1>0, <3>2 DEF Types, Drive
      <4>2. /\ removed' = [removed EXCEPT ![k] = @ \ {c}]
            /\ refused' = [refused EXCEPT ![k] = @ \ {c}]
            /\ UNCHANGED <<loopVars, starter, waits, marker, live>>
        BY <1>12 DEF OnMarkerCleared
      <4>3. QED
        BY <1>0, <3>2, <4>1, <4>2 DEF Types, loopVars
    <3>3. QED
      BY <1>12, <3>1, <3>2 DEF OnMarkerCleared
  <2>2. nextRun <= nextRun' /\ \A j \in Keys \ {k} : Same(j)
    BY <1>0, <1>12 DEF Types, Same, OnMarkerCleared, Drive, loopVars, clearVars
  <2>3. Stages(k)'
    BY <1>0, <1>12 DEF Types, Stages, InFlight, OnMarkerCleared, Drive, loopVars, clearVars
  <2>4. KeyInv(k)'
    BY <1>0, <1>12 DEF Types, Stages, InFlight, KeyInv, OnMarkerCleared, Drive, Phases, Starters, Markers, Absent, UnknownLaunch, Identified, loopVars, clearVars
  <2>5. QED
    BY <1>a, <2>1, <2>2, <2>3, <2>4
<1>13. ASSUME NEW k \in Keys, NEW c \in live[k], AgentExits(k, c) PROVE IInv'
  <2>1. Types'
    BY <1>0, <1>13 DEF Types, Stages, InFlight, AgentExits, Phases, Starters, Markers, Absent, UnknownLaunch, Identified, loopVars, clearVars
  <2>2. nextRun <= nextRun' /\ \A j \in Keys \ {k} : Same(j)
    BY <1>0, <1>13 DEF Types, Same, AgentExits, loopVars, clearVars
  <2>3. Stages(k)'
    BY <1>0, <1>13 DEF Types, Stages, InFlight, AgentExits, loopVars, clearVars
  <2>4. KeyInv(k)'
    BY <1>0, <1>13 DEF Types, Stages, InFlight, KeyInv, AgentExits, Phases, Starters, Markers, Absent, UnknownLaunch, Identified, loopVars, clearVars
  <2>5. QED
    BY <1>a, <2>1, <2>2, <2>3, <2>4
<1>14. CASE Crash
  <2>1. Types'
    BY <1>0, <1>14, ZenonT(30) DEF Types, Crash, Phases, Starters, Markers, Absent, UnknownLaunch, Identified
  <2>2. ASSUME NEW k \in Keys PROVE Stages(k)' /\ KeyInv(k)'
    BY <1>0, <1>14 DEF Types, Stages, InFlight, KeyInv, Crash, Phases, Starters, Markers, Absent, UnknownLaunch, Identified
  <2>3. QED
    BY <2>1, <2>2 DEF TypeOK, Types, Stages, IInv
<1>15. CASE Restart \/ UNCHANGED vars
  <2>1. Types'
    BY <1>0, <1>15, ZenonT(30) DEF Types, Restart, vars, clearVars
  <2>2. ASSUME NEW k \in Keys PROVE Stages(k)' /\ KeyInv(k)'
    <3>1. Same(k) /\ nextRun' = nextRun
      BY <1>15 DEF Same, Restart, vars, clearVars
    <3>2. nextRun' \in Nat /\ nextRun <= nextRun'
      BY <1>0, <3>1 DEF Types
    <3>3. QED
      BY <1>0, <3>1, <3>2, Frame
  <2>3. QED
    BY <2>1, <2>2 DEF TypeOK, Types, Stages, IInv
<1>16. QED
  <2>1. CASE \E k \in Keys : Launch(k)
    BY <1>1, <1>2, <1>3, <1>4, <1>5, <2>1 DEF Launch
  <2>2. CASE \E k \in Keys : Removal(k)
    BY <1>7, <1>10, <1>11, <1>12, <2>2 DEF Removal
  <2>3. CASE \E k \in Keys : Quiet(k) \/ ResolveMarker(k) \/ Relabel(k)
    BY <1>6, <1>8, <1>9, <2>3
  <2>4. CASE \E k \in Keys : \E r \in live[k] : AgentExits(k, r)
    BY <1>13, <2>4
  <2>5. QED
    BY <1>14, <1>15, <2>1, <2>2, <2>3, <2>4 DEF Next

\* The invariant that carries the theorems below: it holds in every state the
\* daemon can reach.
THEOREM InductiveInvariant == Spec => []IInv
BY InitEstablishes, StepPreserves, PTL DEF Spec

\* For every set of workspaces the variables keep their types and a removal is in
\* one stage at a time (driveMarkerClears, onMarkerCleared).
THEOREM TypeCorrect == Spec => []TypeOK
<1>1. IInv => TypeOK
  BY DEF IInv
<1>2. QED
  BY <1>1, InductiveInvariant, PTL

\* An agent is always covered by the marker that names it (beginStart's goroutine
\* and the removals it waits out).
THEOREM AgentIsCovered == Spec => []MarkerCoversAgent
<1>1. IInv => MarkerCoversAgent
  BY DEF IInv, KeyInv, MarkerCoversAgent
<1>2. QED
  BY <1>1, InductiveInvariant, PTL

\* Two agents never share a workspace, whatever crashes and whenever (beginStart,
\* resolveMarkerValueWith).
THEOREM OneAgent == Spec => []OneAgentPerWorkspace
<1>1. IInv => OneAgentPerWorkspace
  <2>1. ASSUME IInv, NEW k \in Keys, NEW r \in live[k] PROVE marker[k].by = r
    <3>1. marker[k] = Identified(r)
      BY <2>1 DEF IInv, KeyInv
    <3>2. QED
      BY <3>1, IdentifiedFields
  <2>2. QED
    BY <2>1 DEF OneAgentPerWorkspace
<1>2. QED
  BY <1>1, InductiveInvariant, PTL

\* A marker with no run behind it is always owed a removal (freeWorkspaceMarker).
THEOREM StaleMarkerOwed == Spec => []StaleMarkerIsOwed
<1>1. IInv => StaleMarkerIsOwed
  BY DEF IInv, KeyInv, StaleMarkerIsOwed
<1>2. QED
  BY <1>1, InductiveInvariant, PTL
=============================================================================
