----------------------------- MODULE MCTracker ------------------------------
(***************************************************************************)
(* Instances of what goes through the tracker, and of the local            *)
(* workspaces: the request budget, the queue read, milestones and labels,  *)
(* held claims, the workspace sweep and worktrees. They share no state and *)
(* are checked side by side: a behaviour runs one of them, chosen in its   *)
(* first state, and leaves the others where they start, so the state space *)
(* is the sum of theirs and not the product.                               *)
(***************************************************************************)
EXTENDS RequestBudget, QueueRead, Milestones, HeldClaims, WorkspaceSweep,
        Worktree

VARIABLE part  \* the part this behaviour runs

Parts == {"budget", "queue", "milestones", "held", "rooms", "worktree"}
partsVars == <<part, budgetVars, queueVars, mileVars, heldVars, roomVars,
               treeVars>>

\* Every part but p stays in its initial state.
OnlyPart(p) ==
    /\ p # "budget" => UNCHANGED budgetVars
    /\ p # "queue" => UNCHANGED queueVars
    /\ p # "milestones" => UNCHANGED mileVars
    /\ p # "held" => UNCHANGED heldVars
    /\ p # "rooms" => UNCHANGED roomVars
    /\ p # "worktree" => UNCHANGED treeVars
    /\ UNCHANGED part

PartsInit ==
    /\ part \in Parts
    /\ BudgetInit /\ QueueInit /\ MileInit /\ HeldInit /\ RoomsInit
    /\ WorktreeInit

PartsNext ==
    \/ part = "budget" /\ BudgetNext /\ OnlyPart("budget")
    \/ part = "queue" /\ QueueNext /\ OnlyPart("queue")
    \/ part = "milestones" /\ MileNext /\ OnlyPart("milestones")
    \/ part = "held" /\ HeldNext /\ OnlyPart("held")
    \/ part = "rooms" /\ RoomsNext /\ OnlyPart("rooms")
    \/ part = "worktree" /\ WorktreeNext /\ OnlyPart("worktree")

PartsSpec == PartsInit /\ [][PartsNext]_partsVars

-----------------------------------------------------------------------------
(* Properties, each of the part that runs. *)

\* GitHub's limits hold (RequestBudget), the queue read answers what is there
\* (QueueRead), and comments and labels say what happened, once (Milestones).
TrackerSafe ==
    /\ part = "budget" => BudgetSafe
    /\ part = "queue" => QueueSafe
    /\ part = "milestones" => MileSafe

\* A held claim is let go of for the end of its own cycle, after its workspace
\* (HeldClaims); no directory is taken from its owner and none is forgotten
\* (WorkspaceSweep); a worktree keeps its branch, its pin and its readiness true
\* (Worktree).
WorkspacesSafe ==
    /\ part = "held" => HeldSafe
    /\ part = "rooms" => RoomsSafe
    /\ part = "worktree" => WorktreeSafe

(* Instances. *)

ProbeOrWrite == {[write |-> FALSE, conditional |-> TRUE, wait |-> FALSE],
                 [write |-> TRUE, conditional |-> FALSE, wait |-> FALSE]}
SmallBurst == [primary |-> 4, secondary |-> 6, minute |-> 2, hour |-> 3]
SmallUnit == [primary |-> 2, secondary |-> 1, minute |-> 2, hour |-> 2]
SmallRate == [primary |-> 1, secondary |-> 2, minute |-> 1, hour |-> 1]
=============================================================================
