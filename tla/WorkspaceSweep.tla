--------------------------- MODULE WorkspaceSweep ---------------------------
(***************************************************************************)
(* The sweep of the workspaces that finished issues left behind             *)
(* (orchestrator/recover.go): a worker lists the directories, asks the      *)
(* tracker about a bounded number of them in rotation, reserves each one it *)
(* means to touch with the authority loop, resolves the run marker and      *)
(* disposes.  Meanwhile the loop claims, runs, retains and forgets issues.  *)
(***************************************************************************)
EXTENDS Naturals, FiniteSets, Sequences, SequencesExt

CONSTANTS Rooms,             \* issues with a directory, numbers in key order
          MaxExaminations,   \* maxSweepExaminations
          Outlives,          \* cyclesOutliveClaims of the workspace provider
          MaxSweepTrouble    \* failures, acts of people, claims

ASSUME RoomsAssumption == Rooms \subseteq Nat \ {0} /\ MaxExaminations > 0 /\ Outlives \in BOOLEAN

VARIABLES room,      \* each issue: tracker state, directory, run marker, owner
          sweeper,   \* the loop's bookkeeping of the sweep
          sweepPass, \* the worker of the pass in flight
          unreserved,\* reservations given back and not yet heard of
          sweepPast, \* history: listed and unsettled, passes waited, gone while owned
          swTrouble

roomVars == <<room, sweeper, sweepPass, unreserved, sweepPast, swTrouble>>

NoPass == [pc |-> "idle", full |-> FALSE, want |-> {}, owned |-> {}, queue |-> <<>>, at |-> 1,
           deferred |-> {}, skipped |-> {}, cursor |-> 0, listed |-> TRUE]

\* The daemon has just started: every directory is a previous daemon's.
RoomsInit ==
    /\ room = [i \in Rooms |-> [st |-> "closed", labelled |-> TRUE, dir |-> TRUE, marker |-> "live", owner |-> "none"]]
    /\ sweeper = [inFlight |-> FALSE, passOwed |-> TRUE, deferred |-> {}, skipped |-> {}, cursor |-> 0,
                  reserved |-> {}, draining |-> FALSE]
    /\ sweepPass = NoPass /\ unreserved = {}
    /\ sweepPast = [owing |-> {}, waited |-> [i \in Rooms |-> 0]]
    /\ swTrouble = 0

SwTrouble == swTrouble < MaxSweepTrouble /\ swTrouble' = swTrouble + 1
SwSmooth == UNCHANGED swTrouble
OwnedIssues == {i \in Rooms : room[i].owner # "none"}

-----------------------------------------------------------------------------
(* A pass begins. *)

\* A directory left to its owner is owed again when nothing owns its issue.
HandbackOwed == \E i \in sweeper.skipped : room[i].owner \notin {"record", "held"}

RetrySweep ==
    /\ ~sweeper.inFlight /\ ~sweeper.draining
    /\ sweeper.passOwed \/ sweeper.deferred # {} \/ HandbackOwed
    /\ LET back == sweeper.skipped \ OwnedIssues
           deferred == sweeper.deferred \cup back
       IN  /\ sweeper' = [sweeper EXCEPT !.inFlight = TRUE, !.deferred = deferred, !.skipped = @ \ back]
           /\ sweepPass' = [NoPass EXCEPT !.pc = "list", !.full = sweeper.passOwed, !.owned = OwnedIssues,
                                          !.want = IF sweeper.passOwed THEN {} ELSE deferred, !.cursor = sweeper.cursor]
    /\ UNCHANGED <<room, unreserved, sweepPast>> /\ SwSmooth

Candidates(listed) == {i \in listed : i \notin sweepPass.owned /\ (sweepPass.full \/ i \in sweepPass.want)}

\* Bug: every pass starts with the first directory.
FromCursorFirst(set, cursor) == SetToSortSeq(set, <)
\* In key order from the cursor, wrapping.
FromCursor(set, cursor) ==
    SetToSortSeq({i \in set : i >= cursor}, <) \o SetToSortSeq({i \in set : i < cursor}, <)

\* runSweep: what is owned is reported and skipped, the rest is queued.
ListWorkspaces ==
    /\ sweepPass.pc = "list"
    /\ LET listed == {i \in Rooms : room[i].dir}
           set == Candidates(listed)
       IN  /\ sweepPass' = [sweepPass EXCEPT !.pc = "get", !.skipped = listed \cap sweepPass.owned,
                                             !.queue = FromCursor(set, sweepPass.cursor), !.cursor = 0]
           /\ sweepPast' = [sweepPast EXCEPT !.owing = (@ \cap listed) \cup set \cup (listed \cap sweepPass.owned)]
    /\ UNCHANGED <<room, sweeper, unreserved>> /\ SwSmooth

ListFails ==
    /\ sweepPass.pc = "list" /\ SwTrouble
    /\ sweepPass' = [NoPass EXCEPT !.pc = "report", !.listed = FALSE]
    /\ UNCHANGED <<room, sweeper, unreserved, sweepPast>>

-----------------------------------------------------------------------------
(* sweepOneWorkspace. *)

Room == sweepPass.queue[sweepPass.at]
Examining(pc) == sweepPass.pc = pc
More == sweepPass.at <= Len(sweepPass.queue) /\ sweepPass.at <= MaxExaminations

\* The candidate is done with: deferred, or settled for this daemon.
Leaves(deferred) ==
    [sweepPass EXCEPT !.pc = "get", !.at = @ + 1,
                      !.deferred = IF deferred THEN @ \cup {Room} ELSE @]
Settles(deferred) == sweepPast' = [sweepPast EXCEPT !.owing = IF deferred THEN @ ELSE @ \ {Room},
                                                    !.waited[Room] = 0]

\* Terminal, or out of the partition where a workspace outlives its claim.
NothingJustifies(r) == r.st = "closed" \/ (Outlives /\ ~r.labelled)

AskTracker ==
    /\ Examining("get") /\ More /\ SwSmooth
    /\ IF NothingJustifies(room[Room])
       THEN sweepPass' = [sweepPass EXCEPT !.pc = "reserve"] /\ UNCHANGED sweepPast
       ELSE sweepPass' = Leaves(FALSE) /\ Settles(FALSE)
    /\ UNCHANGED <<room, sweeper, unreserved>>

\* Bug: only a record owns an issue.
GrantDisposalUntracked(i) == ~sweeper.draining /\ room[i].owner # "record" /\ i \notin sweeper.reserved
\* Nothing owns the issue, nothing else reserved it, and the loop is not draining.
GrantDisposal(i) == ~sweeper.draining /\ room[i].owner = "none" /\ i \notin sweeper.reserved

OnSweepReserve ==
    /\ Examining("reserve") /\ SwSmooth
    /\ IF GrantDisposal(Room)
       THEN /\ sweeper' = [sweeper EXCEPT !.reserved = @ \cup {Room}]
            /\ sweepPass' = [sweepPass EXCEPT !.pc = "marker"] /\ UNCHANGED sweepPast
       ELSE sweepPass' = Leaves(TRUE) /\ Settles(TRUE) /\ UNCHANGED sweeper
    /\ UNCHANGED <<room, unreserved>>

GivesBack(i) == unreserved' = unreserved \cup {i}

\* The marker of a run proved gone is removed.  A run that may be live keeps
\* its directory and is probed again; one whose marker identifies nothing keeps
\* it until a person looks.
SweepMarker ==
    /\ Examining("marker") /\ SwSmooth
    /\ LET m == room[Room].marker
       IN  IF m \in {"none", "ended"}
           THEN /\ sweepPass' = [sweepPass EXCEPT !.pc = "dispose"] /\ UNCHANGED <<unreserved, sweepPast>>
                /\ room' = [room EXCEPT ![Room].marker = "none"]
           ELSE /\ \E identified \in BOOLEAN : sweepPass' = Leaves(identified) /\ Settles(identified)
                /\ GivesBack(Room) /\ UNCHANGED room
    /\ UNCHANGED sweeper

SweepDispose ==
    /\ Examining("dispose") /\ SwSmooth
    /\ room' = [room EXCEPT ![Room].dir = FALSE]
    /\ sweepPass' = Leaves(FALSE) /\ Settles(FALSE) /\ GivesBack(Room)
    /\ UNCHANGED sweeper

\* The tracker, the marker store or the disposal fails: asked again later.
ExaminationFails ==
    /\ sweepPass.pc \in {"get", "marker", "dispose"} /\ More /\ SwTrouble
    /\ sweepPass' = Leaves(TRUE) /\ Settles(TRUE)
    /\ IF sweepPass.pc = "get" THEN UNCHANGED unreserved ELSE GivesBack(Room)
    /\ UNCHANGED <<room, sweeper>>

Unexamined == {sweepPass.queue[k] : k \in sweepPass.at..Len(sweepPass.queue)}

\* Bug: what the bound left out is not reported.
PacedDropped == [sweepPass EXCEPT !.pc = "report"]
\* What the bound left out is deferred, and the next pass resumes there.
Paced ==
    [sweepPass EXCEPT !.pc = "report", !.deferred = @ \cup Unexamined,
                      !.cursor = IF Unexamined = {} THEN 0 ELSE sweepPass.queue[sweepPass.at]]

PassEnds ==
    /\ Examining("get") /\ ~More /\ SwSmooth
    /\ sweepPass' = Paced
    /\ sweepPast' = [sweepPast EXCEPT !.waited = [i \in Rooms |-> IF i \in Unexamined THEN @[i] + 1 ELSE 0]]
    /\ UNCHANGED <<room, sweeper, unreserved>>

OnSwept ==
    /\ sweepPass.pc = "report" /\ SwSmooth
    /\ sweepPass' = NoPass
    /\ sweeper' = IF ~sweepPass.listed THEN [sweeper EXCEPT !.inFlight = FALSE, !.passOwed = TRUE]
                  ELSE [sweeper EXCEPT !.inFlight = FALSE, !.passOwed = FALSE, !.deferred = sweepPass.deferred,
                                       !.skipped = sweepPass.skipped, !.cursor = sweepPass.cursor]
    /\ UNCHANGED <<room, unreserved, sweepPast>>

OnSweepRelease(i) ==
    /\ i \in unreserved /\ unreserved' = unreserved \ {i} /\ SwSmooth
    /\ sweeper' = [sweeper EXCEPT !.reserved = @ \ {i}]
    /\ UNCHANGED <<room, sweepPass, sweepPast>>

-----------------------------------------------------------------------------
(* The rest of the loop, the runs and the people. *)

\* Bug: dispatch does not know of the sweep.
MayClaimRegardless(i) == room[i].owner = "none" /\ ~sweeper.draining
\* Dispatch, and the adoption of a recovered claim, leave a reserved issue alone.
MayClaim(i) == room[i].owner = "none" /\ ~sweeper.draining /\ i \notin sweeper.reserved

\* A claim launches only past a marker that is resolved.
ClaimAndRun(i) ==
    /\ MayClaim(i) /\ room[i].st = "open" /\ room[i].labelled /\ room[i].marker \in {"none", "ended"} /\ SwTrouble
    /\ room' = [room EXCEPT ![i] = [@ EXCEPT !.owner = "record", !.dir = TRUE, !.marker = "live"]]
    /\ UNCHANGED <<sweeper, sweepPass, unreserved, sweepPast>>

\* A run ends: its record's (which clears the marker), or a previous daemon's.
RunIsOver(i) ==
    /\ room[i].marker = "live" /\ SwSmooth
    /\ room' = [room EXCEPT ![i].marker = IF room[i].owner = "record" THEN "none" ELSE "ended"]
    /\ UNCHANGED <<sweeper, sweepPass, unreserved, sweepPast>>

\* The record ends: retained, its cycle to be disposed of, or forgotten with
\* the directory kept; a retained claim and an ended cycle end in their turn.
OwnerMoves(i) ==
    /\ room[i].owner # "none" /\ room[i].marker # "live" /\ SwSmooth
    /\ \E to \in CASE room[i].owner = "record" -> {"held", "none"} \cup (IF Outlives THEN {"ended"} ELSE {})
                   [] room[i].owner = "held" -> IF Outlives THEN {"ended"} ELSE {"none"}
                   [] OTHER -> {"none"} :
          room' = [room EXCEPT ![i].owner = to, ![i].dir = @ /\ ~(room[i].owner = "ended")]
    /\ UNCHANGED <<sweeper, sweepPass, unreserved, sweepPast>>

PersonEdits(i) ==
    /\ SwTrouble
    /\ \/ room' = [room EXCEPT ![i].st = IF @ = "open" THEN "closed" ELSE "open"]
       \/ room' = [room EXCEPT ![i].labelled = ~@]
    /\ UNCHANGED <<sweeper, sweepPass, unreserved, sweepPast>>

SweeperDrains ==
    /\ ~sweeper.draining /\ SwTrouble
    /\ sweeper' = [sweeper EXCEPT !.draining = TRUE]
    /\ UNCHANGED <<room, sweepPass, unreserved, sweepPast>>

RoomsNext ==
    \/ RetrySweep \/ ListWorkspaces \/ ListFails \/ AskTracker \/ OnSweepReserve \/ SweepMarker \/ SweepDispose
    \/ ExaminationFails \/ PassEnds \/ OnSwept \/ SweeperDrains
    \/ \E i \in Rooms : OnSweepRelease(i) \/ ClaimAndRun(i) \/ RunIsOver(i) \/ OwnerMoves(i) \/ PersonEdits(i)

RoomsSpec == RoomsInit /\ [][RoomsNext]_roomVars

-----------------------------------------------------------------------------
\* Every variable has its type.
RoomsTypeOK ==
    /\ room \in [Rooms -> [st : {"open", "closed"}, labelled : BOOLEAN, dir : BOOLEAN,
                           marker : {"none", "live", "ended"}, owner : {"none", "record", "held", "ended"}]]
    /\ sweeper.deferred \subseteq Rooms /\ sweeper.skipped \subseteq Rooms /\ sweeper.reserved \subseteq Rooms
    /\ unreserved \subseteq Rooms /\ swTrouble \in 0..MaxSweepTrouble

\* From the reservation to the disposal the issue has no record, no retained
\* claim and no ended cycle, whatever was claimed after the sweep had read the
\* tracker: the worker never acts on what the loop owns.
SweepTouchesNothingOwned == sweepPass.pc \in {"marker", "dispose"} => room[Room].owner = "none"

\* A run that may be alive has its workspace.
LiveRunHasWorkspace == \A i \in Rooms : room[i].marker = "live" => room[i].dir

\* A directory a pass has listed stays owed until a pass settles it: the bound
\* on a pass, an owner that goes away without disposing, a refused reservation
\* and a failed read postpone it and never lose it.
ListedIsNotForgotten ==
    sweepPass.pc = "idle" =>
        \A i \in sweepPast.owing : sweeper.passOwed \/ i \in sweeper.deferred \cup sweeper.skipped

\* The rotation reaches every directory: none is left out of more passes in a
\* row than the others can fill.
NoRoomIsStarved == \A i \in Rooms : sweepPast.waited[i] < Cardinality(Rooms)

RoomsSafe == RoomsTypeOK /\ SweepTouchesNothingOwned /\ LiveRunHasWorkspace /\ ListedIsNotForgotten /\ NoRoomIsStarved
=============================================================================
