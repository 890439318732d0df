------------------------------- MODULE Airlock -------------------------------
(***************************************************************************)
(* One claim on the Airlock substrate (internal/airlock, remote/hooks.go):  *)
(* its sandbox, the agent's run, one hook run, and the records that let a   *)
(* daemon which crashed or lost an answer ask again without creating a      *)
(* second sandbox or run.                                                   *)
(*                                                                          *)
(* The backend keeps an idempotency key for ReplayWindow, per principal.    *)
(* The daemon writes a reservation before it sends, refuses to replay after *)
(* ReplayWindow or under another principal, and may crash or lose the answer *)
(* at any point; a request whose answer was lost may still arrive late, but *)
(* not after the deadline of the context it was sent with.                  *)
(***************************************************************************)
EXTENDS Naturals, Sequences, FiniteSets

CONSTANTS Prompts,       \* the sizes of the run's prompt: small, large, huge
          Chunks,        \* writes a streamed prompt takes
          ReplayWindow,        \* idempotencyReplayWindow
          MaxAirClock, MaxAirFaults

VARIABLES airClock,
          principal,     \* whose credential the daemon holds
          prompt,        \* the size of this run's prompt
          sbRec,         \* the sandbox record: {} or {record}
          binds,         \* the start bindings, by address
          hookRec,       \* the hook journal: {} or {record}
          cloud,         \* the backend
          late,          \* requests sent, unanswered and still to arrive
          call,          \* the operation in progress
          airFaults      \* saves failed, answers lost and crashes so far

airVars == <<airClock, principal, prompt, sbRec, binds, hookRec, cloud, late, call,
             airFaults>>
airFixed == <<airClock, principal, prompt>>

Addresses == {"run", "hook"}
NoCall == [pc |-> "idle", at |-> "none", who |-> 0, until |-> 0, body |-> "none", id |-> 0, off |-> 0]
ToPc(p) == call' = [call EXCEPT !.pc = p]
Return == call' = NoCall
AirFault == airFaults < MaxAirFaults /\ airFaults' = airFaults + 1
NoAirFault == UNCHANGED airFaults

\* replaceFile: the record or, when it fails, the one before.
Saves(effect, unchanged) ==
    \/ effect /\ NoAirFault
    \/ unchanged /\ Return /\ AirFault

Rec == CHOOSE r \in sbRec : TRUE
HasBox == \E r \in sbRec : r.id # 0
Bound(a) == CHOOSE b \in binds[a] : TRUE
SaveBind(a, b) == binds' = [binds EXCEPT ![a] = {b}]

-----------------------------------------------------------------------------
(* The backend. *)

LiveRuns == {i \in DOMAIN cloud.runs : cloud.runs[i].state = "live"}
NotQuiet == {i \in DOMAIN cloud.runs : cloud.runs[i].state \in {"live", "ended"}}
RunsOf(a) == {i \in DOMAIN cloud.runs : cloud.runs[i].at = a}
KeyOf(name, who) ==
    {k \in cloud.keys : k.name = name /\ k.who = who /\ airClock < k.born + ReplayWindow}

Made(name, who, body, id) ==
    LET key == [name |-> name, who |-> who, born |-> airClock, body |-> body, gives |-> id]
        run == [at |-> name, state |-> "live", mode |-> body, got |-> 0, closed |-> body # "streaming"]
    IN  [cloud EXCEPT !.keys = @ \union {key},
                      !.boxes = IF name = "box" THEN Append(@, "ready") ELSE @,
                      !.runs = IF name = "box" THEN @ ELSE Append(@, run)]

\* A keyed POST: validated, then answered from the key, then performed.
Served(name, who, body) ==
    LET answer(kind, id, after) == [kind |-> kind, id |-> id, after |-> after]
    IN  IF name = "run" /\ body = "inline" /\ prompt # "small" THEN answer("refused", 0, cloud)
        ELSE IF KeyOf(name, who) # {}
        THEN LET k == CHOOSE k \in KeyOf(name, who) : TRUE
             IN  IF k.body = body THEN answer("ok", k.gives, cloud) ELSE answer("conflict", 0, cloud)
        ELSE IF name = "box"
        THEN answer("ok", Len(cloud.boxes) + 1, Made(name, who, body, Len(cloud.boxes) + 1))
        ELSE IF NotQuiet # {} \/ ~(\E i \in DOMAIN cloud.boxes : cloud.boxes[i] = "ready")
        THEN answer("busy", 0, cloud)
        ELSE answer("ok", Len(cloud.runs) + 1, Made(name, who, body, Len(cloud.runs) + 1))

\* A request that was given up on reaches the backend.
LateArrives ==
    \E l \in late :
        /\ late' = late \ {l}
        /\ cloud' = IF airClock < l.until THEN Served(l.name, l.who, l.body).after ELSE cloud
        /\ UNCHANGED <<airFixed, sbRec, binds, hookRec, call, airFaults>>

\* client.do without an answer: it is lost, with the request performed or still
\* under way; or nothing was sent, the deadline having passed.
Unanswered(name) ==
    /\ \/ /\ airClock < call.until /\ AirFault
          /\ \/ late' = late \union {[name |-> name, who |-> call.who, body |-> call.body, until |-> call.until]}
                /\ UNCHANGED cloud
             \/ cloud' = Served(name, call.who, call.body).after /\ UNCHANGED late
       \/ airClock >= call.until /\ NoAirFault /\ UNCHANGED <<cloud, late>>
    /\ Return /\ UNCHANGED <<sbRec, binds, hookRec>>

RunMoves ==
    \E i \in NotQuiet :
        /\ cloud' = [cloud EXCEPT !.runs[i].state = IF @ = "live" THEN "ended" ELSE "quiet"]
        /\ UNCHANGED <<airFixed, sbRec, binds, hookRec, late, call, airFaults>>

BoxGone ==
    \E i \in DOMAIN cloud.boxes :
        /\ cloud.boxes[i] = "deleting"
        /\ cloud' = [cloud EXCEPT !.boxes[i] = "deleted"]
        /\ UNCHANGED <<airFixed, sbRec, binds, hookRec, late, call, airFaults>>

-----------------------------------------------------------------------------
(* Workspaces: acquire, learn the limits, delete. *)

\* Mutant: a new reservation whenever the sandbox is not known.
AcquireReserveAgain ==
    /\ call.pc = "idle" /\ ~HasBox
    /\ prompt' \in IF sbRec = {} THEN Prompts ELSE {prompt}
    /\ sbRec' = {[id |-> 0, who |-> principal, born |-> airClock, limits |-> FALSE]}
    /\ NoAirFault /\ UNCHANGED <<airClock, principal, binds, hookRec, cloud, late, call>>

\* Acquire's reservation: the key's principal and time, before anything is sent.
AcquireReserve ==
    /\ call.pc = "idle" /\ sbRec = {} /\ cloud.boxes = <<>>
    /\ prompt' \in Prompts
    /\ sbRec' = {[id |-> 0, who |-> principal, born |-> airClock, limits |-> FALSE]}
    /\ NoAirFault /\ UNCHANGED <<airClock, principal, binds, hookRec, cloud, late, call>>

\* Acquire with an unanswered reservation: create replays its key, under its
\* principal and inside its window only.
AcquireCreate ==
    /\ call.pc = "idle" /\ sbRec # {} /\ ~HasBox
    /\ principal = Rec.who /\ airClock < Rec.born + ReplayWindow
    /\ call' = [NoCall EXCEPT !.pc = "create", !.who = principal, !.until = Rec.born + ReplayWindow]
    /\ NoAirFault /\ UNCHANGED <<airFixed, sbRec, binds, hookRec, cloud, late>>

CreateSandbox ==
    /\ call.pc = "create"
    /\ \/ LET s == Served("box", call.who, call.body)
          IN  /\ airClock < call.until
              /\ cloud' = s.after /\ call' = [call EXCEPT !.pc = "bind", !.id = s.id]
              /\ NoAirFault /\ UNCHANGED <<sbRec, binds, hookRec, late>>
       \/ Unanswered("box")
    /\ UNCHANGED airFixed

\* bind: a record never changes the sandbox it names.
BindSandbox ==
    /\ call.pc = "bind"
    /\ Rec.id \in {0, call.id}
    /\ Saves(sbRec' = {[Rec EXCEPT !.id = call.id]} /\ Return, UNCHANGED sbRec)
    /\ UNCHANGED <<airFixed, binds, hookRec, cloud, late>>

\* learnLimits, from Acquire, Attach or Start: best effort.
LearnLimits ==
    /\ call.pc = "idle" /\ HasBox /\ ~Rec.limits
    /\ sbRec' = {[Rec EXCEPT !.limits = TRUE]}
    /\ UNCHANGED <<airFixed, binds, hookRec, cloud, late, call, airFaults>>

\* Complete and Dispose: only after the run was seen quiet.
DeleteBegins ==
    /\ call.pc = "idle" /\ HasBox
    /\ \E b \in binds["run"] : b.run # 0 /\ cloud.runs[b.run].state = "quiet"
    /\ call' = [NoCall EXCEPT !.pc = "survey"]
    /\ NoAirFault /\ UNCHANGED <<airFixed, sbRec, binds, hookRec, cloud, late>>

\* Delete's read: an active run of anybody's, or a failed sandbox, refuses.
DeleteSurvey ==
    /\ call.pc = "survey"
    /\ IF cloud.boxes[Rec.id] = "deleted" THEN ToPc("forget")
       ELSE IF NotQuiet # {} THEN Return ELSE ToPc("delete")
    /\ UNCHANGED <<airFixed, sbRec, binds, hookRec, cloud, late, airFaults>>

\* DELETE, which the backend performs over whatever is running.
DeleteSandbox ==
    /\ call.pc = "delete"
    /\ cloud' = [cloud EXCEPT !.boxes[Rec.id] = IF @ = "ready" THEN "deleting" ELSE @,
                              !.runs = [i \in DOMAIN @ |-> IF i \in NotQuiet
                                                           THEN [@[i] EXCEPT !.state = "lost"] ELSE @[i]]]
    /\ \/ ToPc("confirm") /\ NoAirFault
       \/ Return /\ AirFault
    /\ UNCHANGED <<airFixed, sbRec, binds, hookRec, late>>

\* Mutant: an accepted DELETE is taken for a deletion.
DeleteConfirmAtOnce ==
    /\ call.pc = "confirm"
    /\ ToPc("forget")
    /\ UNCHANGED <<airFixed, sbRec, binds, hookRec, cloud, late, airFaults>>

\* The record outlives the sandbox until the three evidence fields are confirmed;
\* the wait may run out.
DeleteConfirm ==
    /\ call.pc = "confirm"
    /\ \/ cloud.boxes[Rec.id] = "deleted" /\ ToPc("forget")
       \/ cloud.boxes[Rec.id] # "deleted" /\ Return
    /\ UNCHANGED <<airFixed, sbRec, binds, hookRec, cloud, late, airFaults>>

DeleteRecord ==
    /\ call.pc = "forget"
    /\ Saves(sbRec' = {} /\ Return, UNCHANGED sbRec)
    /\ UNCHANGED <<airFixed, binds, hookRec, cloud, late>>

-----------------------------------------------------------------------------
(* Starts: Processes.Start and Hooks.StartScript over prepareStart. *)

\* planStdin: unknown limits send the prompt inline and let the backend judge.
Plan(a) == CASE a = "hook" -> "closed"
             [] a = "run" /\ Rec.limits /\ prompt # "small" -> "streaming"
             [] OTHER -> "inline"
\* A prompt over the total bound has no path.
PlanRefuses(a) == a = "run" /\ Rec.limits /\ prompt = "huge"

NewReservation == [run |-> 0, who |-> principal, born |-> airClock, pending |-> FALSE, refused |-> "none"]
Begin(a, b, p) == call' = [NoCall EXCEPT !.pc = p, !.at = a, !.who = principal, !.body = Plan(a),
                                         !.until = b.born + ReplayWindow, !.id = b.run]

\* A binding that exists: a bound run is only read, and a prompt still owed to it
\* is delivered from offset 0; a recorded refusal answers for the body it refused
\* and another body re-arms the reservation.
Existing(a, b) ==
    /\ \/ b.run # 0 /\ b.pending /\ Begin(a, b, "stdin")
       \/ b.run # 0 /\ a = "hook" /\ Begin(a, b, "wait")
       \/ b.run = 0 /\ b.refused \notin {"none", Plan(a)} /\ Begin(a, b, "renew")
       \/ b.run = 0 /\ b.refused = "none" /\ airClock < b.born + ReplayWindow /\ Begin(a, b, "plan")
    /\ UNCHANGED binds /\ NoAirFault

\* Mutant: an unanswered start is replayed under whatever credential is current.
PrepareStartAsAnyone(a) ==
    /\ HasBox
    /\ \/ binds[a] = {} /\ Saves(SaveBind(a, NewReservation) /\ Begin(a, NewReservation, "plan"), UNCHANGED binds)
       \/ \E b \in binds[a] : Existing(a, b)

\* prepareStart and ReserveBinding: an existing unanswered start is only replayed
\* by the principal that sent it, and inside its window.
PrepareStart(a) ==
    /\ HasBox
    /\ \/ binds[a] = {} /\ Saves(SaveBind(a, NewReservation) /\ Begin(a, NewReservation, "plan"), UNCHANGED binds)
       \/ \E b \in binds[a] : (b.run = 0 => b.who = principal) /\ Existing(a, b)

\* Start of the agent's run.
StartRun ==
    /\ call.pc = "idle" /\ PrepareStart("run")
    /\ UNCHANGED <<airFixed, sbRec, hookRec, cloud, late>>

\* RenewStart.
StartRenew ==
    /\ call.pc = "renew"
    /\ LET renewed == [Bound(call.at) EXCEPT !.refused = "none", !.pending = FALSE,
                                             !.who = call.who, !.born = airClock]
       IN  Saves(SaveBind(call.at, renewed) /\ call' = [call EXCEPT !.pc = "plan", !.until = airClock + ReplayWindow],
                 UNCHANGED binds)
    /\ UNCHANGED <<airFixed, sbRec, hookRec, cloud, late>>

\* Mutant: the prompt is owed once the run is known.
StartPlanLater ==
    /\ call.pc = "plan" /\ ~PlanRefuses(call.at)
    /\ ToPc("post") /\ NoAirFault
    /\ UNCHANGED <<airFixed, sbRec, binds, hookRec, cloud, late>>

\* A prompt without a path is refused here; a streamed one is owed before the run
\* can exist.
StartPlan ==
    /\ call.pc = "plan"
    /\ LET b == Bound(call.at)
       IN  IF PlanRefuses(call.at)
           THEN Saves(SaveBind(call.at, [b EXCEPT !.refused = call.body, !.pending = FALSE]) /\ Return, UNCHANGED binds)
           ELSE IF call.body = "streaming" /\ ~b.pending
           THEN Saves(SaveBind(call.at, [b EXCEPT !.pending = TRUE]) /\ ToPc("post"), UNCHANGED binds)
           ELSE ToPc("post") /\ UNCHANGED binds /\ NoAirFault
    /\ UNCHANGED <<airFixed, sbRec, hookRec, cloud, late>>

\* The POST and classifyStart: a refusal is recorded before it is returned.
StartPost ==
    /\ call.pc = "post"
    /\ \/ LET s == Served(call.at, call.who, call.body)
          IN  /\ airClock < call.until
              /\ cloud' = s.after
              /\ \/ /\ s.kind = "ok" /\ call' = [call EXCEPT !.pc = "adopt", !.id = s.id]
                    /\ UNCHANGED binds /\ NoAirFault
                 \/ /\ s.kind = "refused"
                    /\ Saves(SaveBind(call.at, [Bound(call.at) EXCEPT !.refused = call.body, !.pending = FALSE])
                             /\ Return, UNCHANGED binds)
                 \/ /\ s.kind \in {"busy", "conflict"}
                    /\ call' = IF s.kind = "conflict" THEN [call EXCEPT !.pc = "conflict"] ELSE NoCall
                    /\ UNCHANGED binds /\ NoAirFault
              /\ UNCHANGED <<sbRec, hookRec, late>>
       \/ Unanswered(call.at)
    /\ UNCHANGED airFixed

\* adopt and SaveBinding: the run id, once.
StartAdopt ==
    /\ call.pc = "adopt"
    /\ LET b == Bound(call.at)
           next == CASE call.body = "streaming" -> "stdin" [] call.at = "hook" -> "wait" [] OTHER -> "idle"
       IN  \/ b.run \notin {0, call.id} /\ Return /\ UNCHANGED binds /\ NoAirFault
           \/ /\ b.run \in {0, call.id}
              /\ Saves(/\ SaveBind(call.at, [b EXCEPT !.run = call.id, !.refused = "none"])
                       /\ call' = IF next = "idle" THEN NoCall ELSE [call EXCEPT !.pc = next, !.off = 0],
                       UNCHANGED binds)
    /\ UNCHANGED <<airFixed, sbRec, hookRec, cloud, late>>

\* deliverStdin: one write at a receipted offset; a resend is answered from the
\* receipt; a run that takes no input any more ends the delivery.
StartStdin ==
    /\ call.pc = "stdin"
    /\ LET r == cloud.runs[call.id]
           accepts == r.state = "live" /\ ~r.closed
           wrote == [cloud EXCEPT !.runs[call.id].got = IF call.off = @ THEN @ + 1 ELSE @,
                                  !.runs[call.id].closed = call.off + 1 = Chunks]
       IN  \/ ~accepts /\ ToPc("delivered") /\ UNCHANGED cloud /\ NoAirFault
           \/ /\ accepts /\ cloud' = wrote /\ NoAirFault
              /\ call' = IF call.off + 1 = Chunks THEN [call EXCEPT !.pc = "delivered"]
                         ELSE [call EXCEPT !.off = @ + 1]
           \/ accepts /\ cloud' \in {cloud, wrote} /\ Return /\ AirFault
    /\ UNCHANGED <<airFixed, sbRec, binds, hookRec, late>>

StdinDelivered ==
    /\ call.pc = "delivered"
    /\ Saves(SaveBind(call.at, [Bound(call.at) EXCEPT !.pending = FALSE]) /\ Return, UNCHANGED binds)
    /\ UNCHANGED <<airFixed, sbRec, hookRec, cloud, late>>

\* Mutant: whatever run is active is taken for this one.
StatusAdoptAny ==
    /\ call.pc = "idle" /\ HasBox
    /\ \E b \in binds["run"] : b.run = 0 /\ b.refused = "none"
    /\ \E i \in NotQuiet : call' = [NoCall EXCEPT !.pc = "adopt", !.at = "run", !.id = i, !.body = "observed"]
    /\ UNCHANGED <<airFixed, sbRec, binds, hookRec, cloud, late, airFaults>>

\* reconcileUnanswered: Status of an unanswered start adopts the active run when
\* its label names this request, and never sends anything.
StatusAdopts ==
    /\ call.pc = "idle" /\ HasBox
    /\ \E b \in binds["run"] : b.run = 0 /\ b.refused = "none"
    /\ \E i \in NotQuiet \intersect RunsOf("run") :
         call' = [NoCall EXCEPT !.pc = "adopt", !.at = "run", !.id = i, !.body = "observed"]
    /\ UNCHANGED <<airFixed, sbRec, binds, hookRec, cloud, late, airFaults>>

\* Stop signals a bound run under the principal its start was sent with.
StopSignals ==
    /\ call.pc = "idle" /\ HasBox
    /\ \E b \in binds["run"] :
         /\ b.run \in LiveRuns /\ b.who = principal
         /\ cloud' = [cloud EXCEPT !.runs[b.run].state = "ended"]
    /\ UNCHANGED <<airFixed, sbRec, binds, hookRec, late, call, airFaults>>

-----------------------------------------------------------------------------
(* runScript: one firing of a hook. *)

\* OpenHookJournal and ReserveHook; a recorded result answers without a run.
HookReserve ==
    /\ call.pc = "idle" /\ HasBox /\ hookRec = {}
    /\ hookRec' = {[dispatched |-> FALSE, result |-> FALSE]}
    /\ NoAirFault /\ UNCHANGED <<airFixed, sbRec, binds, cloud, late, call>>

\* HookJournal.Dispatch, and the start again when its mark could not be saved.
HookStart ==
    /\ call.pc = "idle"
    /\ \E h \in hookRec : ~h.result /\ hookRec' \in {{[h EXCEPT !.dispatched = TRUE]}, {h}}
    /\ PrepareStart("hook")
    /\ UNCHANGED <<airFixed, sbRec, cloud, late>>

\* Mutant: a finished hook is recorded while its domain is still busy.
HookWaitFinished ==
    /\ call.pc = "wait"
    /\ cloud.runs[Bound("hook").run].state # "live" /\ ToPc("record")
    /\ UNCHANGED <<airFixed, sbRec, binds, hookRec, cloud, late, airFaults>>

\* waitHookQuiet: finished and quiet; the wait may be cancelled.
HookWait ==
    /\ call.pc = "wait"
    /\ \/ cloud.runs[Bound("hook").run].state \in {"quiet", "lost"} /\ ToPc("record")
       \/ Return
    /\ UNCHANGED <<airFixed, sbRec, binds, hookRec, cloud, late, airFaults>>

HookComplete ==
    /\ call.pc = "record"
    /\ \E h \in hookRec : Saves(hookRec' = {[h EXCEPT !.result = TRUE]} /\ Return, UNCHANGED hookRec)
    /\ UNCHANGED <<airFixed, sbRec, binds, cloud, late>>

-----------------------------------------------------------------------------
AirTick ==
    /\ airClock < MaxAirClock
    /\ airClock' = airClock + 1
    /\ UNCHANGED <<principal, prompt, sbRec, binds, hookRec, cloud, late, call, airFaults>>

\* The credential now authenticates somebody else (a call reads it once).
PrincipalChanges ==
    /\ call.pc = "idle" /\ principal = 1
    /\ principal' = 2
    /\ UNCHANGED <<airClock, prompt, sbRec, binds, hookRec, cloud, late, call, airFaults>>

AirRestart ==
    /\ call.pc # "idle" /\ AirFault
    /\ Return
    /\ UNCHANGED <<airFixed, sbRec, binds, hookRec, cloud, late>>

AirInit ==
    /\ airClock = 0 /\ principal = 1 /\ prompt = "small"
    /\ sbRec = {} /\ binds = [a \in Addresses |-> {}] /\ hookRec = {}
    /\ cloud = [boxes |-> <<>>, runs |-> <<>>, keys |-> {}]
    /\ late = {} /\ call = NoCall /\ airFaults = 0

AirNext ==
    \/ LateArrives \/ RunMoves \/ BoxGone
    \/ AcquireReserve \/ AcquireCreate \/ CreateSandbox \/ BindSandbox \/ LearnLimits
    \/ DeleteBegins \/ DeleteSurvey \/ DeleteSandbox \/ DeleteConfirm \/ DeleteRecord
    \/ StartRun \/ StartRenew \/ StartPlan \/ StartPost \/ StartAdopt
    \/ StartStdin \/ StdinDelivered \/ StatusAdopts \/ StopSignals
    \/ HookReserve \/ HookStart \/ HookWait \/ HookComplete
    \/ AirTick \/ PrincipalChanges \/ AirRestart

AirSpec == AirInit /\ [][AirNext]_airVars

-----------------------------------------------------------------------------
(* Properties. *)

\* Types and bounds.
AirTypeOK ==
    /\ airClock \in 0..MaxAirClock /\ principal \in {1, 2} /\ prompt \in Prompts \union {"small"}
    /\ Cardinality(sbRec) <= 1 /\ Cardinality(hookRec) <= 1
    /\ \A a \in Addresses : Cardinality(binds[a]) <= 1
    /\ call.off \in 0..Chunks

\* A lost answer, a restart or a change of credential never makes a second
\* sandbox for the claim, nor a second run for a request (prepareStart, create).
CreatedOnce == Len(cloud.boxes) <= 1 /\ \A a \in Addresses : Cardinality(RunsOf(a)) <= 1

\* A binding names the run made for its own request, and a refusal that no run
\* was made at all (adopt, reconcileUnanswered, RecordRefusal).
BindingIsTrue ==
    \A a \in Addresses : \A b \in binds[a] :
        /\ b.run # 0 => b.run \in RunsOf(a)
        /\ b.refused # "none" => b.run = 0 /\ RunsOf(a) = {}

\* The same request composes the same body on every replay: the backend never
\* answers that a key was used for another (planStdin, learnLimits).
NoKeyConflict == call.pc # "conflict"

\* A run waiting for the rest of its prompt is one whose binding owes it: no crash
\* leaves it waiting with nobody to write (SetStdinPending before the POST).
PromptIsOwed ==
    \A i \in LiveRuns : ~cloud.runs[i].closed => \E b \in binds["run"] : b.pending

\* A sandbox is forgotten only when it is gone: until then the record names it or
\* still holds the reservation that may have made it (Delete).
NoSandboxForgotten ==
    \A i \in DOMAIN cloud.boxes : cloud.boxes[i] # "deleted" => \E r \in sbRec : r.id \in {0, i}

\* A hook's result is recorded only when nothing of it runs any more.
HookResultIsQuiet ==
    \A h \in hookRec : h.result => RunsOf("hook") \intersect NotQuiet = {}

AirSafe ==
    /\ AirTypeOK /\ CreatedOnce /\ BindingIsTrue /\ NoKeyConflict /\ PromptIsOwed
    /\ NoSandboxForgotten /\ HookResultIsQuiet
=============================================================================
