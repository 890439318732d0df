---------------------------- MODULE MCProgress ------------------------------
(***************************************************************************)
(* Instances of the run handle, the durable log, the reload and the remote *)
(* attempt, with their fairness. They share no state and are checked side  *)
(* by side: a behaviour runs one of them, chosen in its first state, and   *)
(* leaves the others where they start, so the state space is the sum of    *)
(* theirs and not the product.                                             *)
(***************************************************************************)
EXTENDS RunHandle, DurableLog, Reload, MCRemoteAttempt

\* Two lines of output, of which one waits behind the other.
TwoLines == {<<<<"progress", "progress">>, <<>>>>}

\* The definition in force, an edit of policy, one of identity and one that Load
\* refuses.
Base == [valid |-> TRUE, policy |-> 1, tracker |-> <<1, 1>>, agent |-> 1,
         workspace |-> <<1, 1>>, lifetime |-> 1]
FewEdits ==
    {Base, [Base EXCEPT !.policy = 2], [Base EXCEPT !.tracker = <<2, 1>>],
     [Base EXCEPT !.valid = FALSE]}

VARIABLE part  \* the part this behaviour runs

Parts == {"handle", "log", "reload", "attempt"}
partsVars == <<part, handleVars, logVars, reloadVars, remoteVars>>

\* Every part but p stays in its initial state.
OnlyPart(p) ==
    /\ p # "handle" => UNCHANGED handleVars
    /\ p # "log" => UNCHANGED logVars
    /\ p # "reload" => UNCHANGED reloadVars
    /\ p # "attempt" => UNCHANGED remoteVars
    /\ UNCHANGED part

PartsInit ==
    /\ part \in Parts
    /\ HandleInit /\ LogInit /\ ReloadInit /\ RemoteInit

PartsNext ==
    \/ part = "handle" /\ HandleNext /\ OnlyPart("handle")
    \/ part = "log" /\ LogNext /\ OnlyPart("log")
    \/ part = "reload" /\ ReloadNext /\ OnlyPart("reload")
    \/ part = "attempt" /\ RemoteNext /\ OnlyPart("attempt")

PartsSpec == PartsInit /\ [][PartsNext]_partsVars

-----------------------------------------------------------------------------
(* Fairness. *)

\* HandleFair, LogFair, ReloadFair and RemoteFair, each while its part runs.
PartsFair ==
    /\ WF_handleVars(part = "handle" /\ PumpStep)
    /\ WF_handleVars(part = "handle" /\ ReaderStep)
    /\ WF_handleVars(part = "handle" /\ Flush)
    /\ WF_handleVars(part = "handle" /\ WatchdogEnds)
    /\ WF_handleVars(part = "handle" /\ StopReturns)
    /\ WF_handleVars(part = "handle" /\ Reap)
    /\ WF_handleVars(part = "handle" /\ BoundStream)
    /\ WF_logVars(part = "log" /\ DrainerStep)
    /\ WF_reloadVars(part = "reload" /\ TimerApplies)
    /\ WF_reloadVars(part = "reload" /\ WorkerRevalidates)
    /\ WF_reloadVars(part = "reload" /\ BuildAnswers)
    /\ WF_reloadVars(part = "reload" /\ AdoptIdentity)
    /\ WF_reloadVars(part = "reload" /\ OnAdopt)
    /\ WF_reloadVars(part = "reload" /\ RunCommit)
    /\ WF_reloadVars(part = "reload" /\ Acked)
    /\ WF_reloadVars(part = "reload" /\ ApplyEnds)
    /\ WF_reloadVars(part = "reload" /\ BeginDispatchReads)
    /\ WF_reloadVars(part = "reload" /\ Fetch)
    /\ WF_reloadVars(part = "reload" /\ OnTickResult)
    /\ WF_reloadVars(part = "reload" /\ WorkEnds)
    /\ WF_remoteVars(part = "attempt" /\ RunnerSteps)
    /\ WF_remoteVars(part = "attempt" /\ PumpEvents)
    /\ WF_remoteVars(part = "attempt" /\ ProcessExits)

FairSpec == PartsSpec /\ PartsFair

-----------------------------------------------------------------------------
(* Properties, each of the part that runs. *)

\* An agent's exit is reported and its abandoned stream closed, what is appended
\* to the log reaches the disk, an edit takes effect or is reported, and a
\* remote stream closes once its process has ended.
PartsProgress ==
    DoneAfterExit /\ AbandonedStreamEnds /\ QueueDrains /\ EditSettles /\ StreamCloses
=============================================================================
