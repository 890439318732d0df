----------------------------- MODULE MCRemote -------------------------------
(***************************************************************************)
(* Instances of the execution substrate (local domain and airlock), of the *)
(* remote cycle and of the review controller. They share no state and are  *)
(* checked side by side: a behaviour runs one of them, chosen in its first *)
(* state, and leaves the others where they start, so the state space is    *)
(* the sum of theirs and not the product.                                  *)
(***************************************************************************)
EXTENDS LocalDomain, Airlock, RemoteCycle, ReviewCycle, ReviewSweep,
        ReviewRun

\* Output of two reviewers: whole, cut short, or without a verdict.
MCOutputs == {<<"clean", "changes">>, <<"clean", "cut">>, <<"text", "changes">>}

VARIABLE part  \* the part this behaviour runs

Parts == {"domain", "airlock", "cycle", "review", "sweep", "reviewer"}
partsVars == <<part, domVars, airVars, cycleVars, rvVars, sweepVars,
               runVars>>

\* Every part but p stays in its initial state.
OnlyPart(p) ==
    /\ p # "domain" => UNCHANGED domVars
    /\ p # "airlock" => UNCHANGED airVars
    /\ p # "cycle" => UNCHANGED cycleVars
    /\ p # "review" => UNCHANGED rvVars
    /\ p # "sweep" => UNCHANGED sweepVars
    /\ p # "reviewer" => UNCHANGED runVars
    /\ UNCHANGED part

PartsInit ==
    /\ part \in Parts
    /\ DomainInit /\ AirInit /\ CycleInit /\ ReviewInit /\ SweepInit
    /\ RunInit

PartsNext ==
    \/ part = "domain" /\ DomainNext /\ OnlyPart("domain")
    \/ part = "airlock" /\ AirNext /\ OnlyPart("airlock")
    \/ part = "cycle" /\ CycleNext /\ OnlyPart("cycle")
    \/ part = "review" /\ ReviewNext /\ OnlyPart("review")
    \/ part = "sweep" /\ SweepNext /\ OnlyPart("sweep")
    \/ part = "reviewer" /\ RunNext /\ OnlyPart("reviewer")

PartsSpec == PartsInit /\ [][PartsNext]_partsVars

-----------------------------------------------------------------------------
(* Properties, each of the part that runs. *)

\* Quiet is only ever concluded from evidence, and never while a process of the
\* attempt may live (LocalDomain); sandboxes, binds and hook runs of the airlock
\* are never doubled, stolen or left behind (Airlock).
ExecutionSafe ==
    /\ part = "domain" => DomainSafe
    /\ part = "airlock" => AirSafe

\* The review controller touches only what its own log owns and stops at its cap
\* (ReviewCycle), and its sweep starves no issue (ReviewSweep).
ReviewControlSafe ==
    /\ part = "review" => ReviewSafe
    /\ part = "sweep" => SweepSafe

\* What a remote cycle and a reviewer's run promise, CycleSafe (RemoteCycle) and
\* ReviewRunSafe (ReviewRun), is checked by its own name.

(* Instances. *)

\* Two repositories with two pages and one; an issue dearer than a sweep's budget.
TwoRepositories == << << <<1>>, <<1>> >>, << <<1, 2>> >> >>
DearAndCheap == <<5, 2>>
=============================================================================
