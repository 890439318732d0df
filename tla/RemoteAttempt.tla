---------------------------- MODULE RemoteAttempt ----------------------------
(***************************************************************************)
(* A run on a remote substrate (internal/remote): Runner starts it under a  *)
(* journalled process reference, Attempt reads the backend's event log and  *)
(* commits each envelope to the durable inbox (DirConsumer) before the      *)
(* journal's cursor moves and before anything is published.                 *)
(*                                                                          *)
(* The daemon may crash between any two durable acts, the backend's answer  *)
(* may be lost, a page may be replayed, skip or contradict what it served,  *)
(* retained events may expire, and a disk call may fail.                    *)
(*                                                                          *)
(* A payload is a sequence of tokens.  The provider's records are the lines *)
(* <<"a","b">> (progress), <<"s">> (succeeded) and <<"f">> (failed).        *)
(***************************************************************************)
EXTENDS Integers, Sequences, SequencesExt, FiniteSets

CONSTANTS WireLogs,       \* the logs a backend process may write
          MaxLine,        \* MaxProviderLine, in tokens
          MaxRestarts,    \* bound: daemon restarts
          MaxRemoteFaults \* bound: lost answers, failed saves, bad pages, expiries

VARIABLES wire,     \* the backend: its process, its log, the oldest sequence it retains
          jrnl,     \* the attach journal: {} or {record}
          inbox,    \* the consumption log, as items
          inboxEnd, \* how its last write ended
          att,      \* Runner.Start and the Attempt it returns, gone at a crash
          heard,    \* what this life of the daemon published
          restarts, remoteFaults

remoteVars == <<wire, jrnl, inbox, inboxEnd, att, heard, restarts, remoteFaults>>

NoCheckpoint == [cursor |-> 0, tail |-> <<>>, terminal |-> FALSE]
Quiet == [pc |-> "off", admitted |-> 0, committed |-> 0, seen |-> {}, lost |-> {}, tail |-> <<>>,
          terminal |-> FALSE, succeeded |-> FALSE, discarded |-> FALSE, fresh |-> <<>>,
          item |-> <<>>, first |-> FALSE, kept |-> FALSE, more |-> FALSE, todo |-> <<>>,
          err |-> "none"]

\* A disk call or an answer that may go wrong: the outcome, and what it costs.
RemoteFault == remoteFaults < MaxRemoteFaults /\ remoteFaults' = remoteFaults + 1
NoRemoteFault == UNCHANGED remoteFaults

-----------------------------------------------------------------------------
(* Framing and translation. *)

IsTerminalEvent(ev) == ev \in {"succeeded", "failed"}
HasTerminal(evs) == \E i \in DOMAIN evs : IsTerminalEvent(evs[i])
TerminalType(evs) == IF HasTerminal(evs) THEN SelectSeq(evs, IsTerminalEvent)[1] ELSE "none"

\* The provider's translator.
Translate(line) ==
    CASE line = <<"a", "b">> -> <<"progress">>
      [] line = <<"s">> -> <<"succeeded">>
      [] line = <<"f">> -> <<"failed">>
      [] OTHER -> <<>>

\* translateLines: nothing after the first terminal event of a batch of lines.
TranslateLines(lines) ==
    FoldLeft(LAMBDA evs, line : IF HasTerminal(evs) THEN evs ELSE evs \o Translate(line),
             <<>>, lines)

\* frameProvider: complete lines, and the partial one carried over, which a
\* sealed stream turns into a last line.
FrameProvider(tail, chunk, sealed) ==
    LET cut(acc, t) == IF t = "nl"
                       THEN [lines |-> Append(acc.lines, acc.rest), rest |-> <<>>,
                             big |-> acc.big \/ Len(acc.rest) > MaxLine]
                       ELSE [acc EXCEPT !.rest = Append(@, t)]
        framed == FoldLeft(cut, [lines |-> <<>>, rest |-> <<>>, big |-> FALSE], tail \o chunk)
        big == framed.big \/ Len(framed.rest) > MaxLine
    IN  IF sealed /\ framed.rest # <<>>
        THEN [lines |-> Append(framed.lines, framed.rest), rest |-> <<>>, big |-> big]
        ELSE [framed EXCEPT !.big = big]

-----------------------------------------------------------------------------
(* Consumptions. *)

Consumption(id, cursor, tail, terminal, env, gap, events) ==
    [id |-> id, cp |-> [cursor |-> cursor, tail |-> tail, terminal |-> terminal],
     env |-> env, gap |-> gap, events |-> events]

\* Mutant: the partial line is not kept with the checkpoint.
EventItemTailless(env) ==
    LET framed == FrameProvider(att.tail, env.body.chunk, FALSE)
        read == env.body.out /\ ~att.terminal
        events == IF read THEN TranslateLines(framed.lines) ELSE <<>>
    IN  Consumption(<<"event", env.seq>>, env.seq, <<>>, att.terminal \/ HasTerminal(events),
                    <<env>>, <<>>, events)

\* What one fresh envelope becomes: stderr and everything after the outcome is
\* transcript only, an overlong line is a failure.
EventItem(env) ==
    LET framed == FrameProvider(att.tail, env.body.chunk, FALSE)
        read == env.body.out /\ ~att.terminal
        tooLong == read /\ framed.big
        events == CASE tooLong -> <<"failed">>
                    [] read /\ ~framed.big -> TranslateLines(framed.lines)
                    [] OTHER -> <<>>
        terminal == att.terminal \/ HasTerminal(events)
        tail == CASE terminal -> <<>> [] read -> framed.rest [] OTHER -> att.tail
    IN  Consumption(<<"event", env.seq>>, env.seq, tail, terminal, <<env>>, <<>>, events)

\* endOnSeal: the unterminated line counts, and a stream without an outcome failed.
SealItem ==
    LET framed == FrameProvider(att.tail, <<>>, TRUE)
        events == IF framed.big THEN <<>> ELSE TranslateLines(framed.lines)
        ended == IF HasTerminal(events) THEN events ELSE Append(events, "failed")
    IN  Consumption(<<"stream-sealed", att.committed>>, att.committed, <<>>, TRUE, <<>>, <<>>,
                    IF att.terminal THEN <<>> ELSE ended)

\* Mutant: the line cut by the hole is completed by what follows it.
GapItemKeepingTail(from, to) ==
    Consumption(<<"event-gap", from, to>>, to, att.tail, TRUE, <<>>, <<from, to>>,
                IF att.terminal THEN <<>> ELSE <<"failed">>)

\* acceptRetentionGap: the range, the cursor and the failure in one record.
GapItem(from, to) ==
    Consumption(<<"event-gap", from, to>>, to, <<>>, TRUE, <<>>, <<from, to>>,
                IF att.terminal THEN <<>> ELSE <<"failed">>)

\* commitLocal (refuseStream) and the sequence-error branch of pump.
FailureItem(id) ==
    Consumption(id, att.committed, att.tail, TRUE, <<>>, <<>>, <<"failed">>)

-----------------------------------------------------------------------------
(* Runner: reserve, dispatch, start, resolve. *)

SaveRecord(rec) == jrnl' = {rec}
\* Reserve: the reference and the input of its exact replay.
Reserved == [dispatched |-> FALSE, backend |-> FALSE, replay |-> TRUE] @@ NoCheckpoint
At(pc) == att' = [att EXCEPT !.pc = pc]

\* Runner.Start opens the claim's journal: absent, the reference and the replay
\* input are reserved; already dispatched, the run is resolved, not started anew.
RunnerStart ==
    /\ att.pc = "off"
    /\ \/ /\ jrnl = {}
          /\ \/ SaveRecord(Reserved) /\ At("dispatch") /\ NoRemoteFault
             \/ At("failed") /\ RemoteFault /\ UNCHANGED jrnl
       \/ \E rec \in jrnl :
             At(IF rec.dispatched THEN "resolve" ELSE "dispatch") /\ UNCHANGED jrnl /\ NoRemoteFault
    /\ UNCHANGED <<wire, inbox, inboxEnd, heard, restarts>>

\* Journal.Dispatch: the record says dispatched before the backend is asked.  A
\* failed save is an error like a lost answer to dispatch, which asks the backend
\* once more.
Dispatch ==
    /\ att.pc = "dispatch"
    /\ \/ \E rec \in jrnl : SaveRecord([rec EXCEPT !.dispatched = TRUE])
          /\ At("start") /\ NoRemoteFault
       \/ att' = [att EXCEPT !.pc = "replay", !.err = "mark"] /\ RemoteFault /\ UNCHANGED jrnl
    /\ UNCHANGED <<wire, inbox, inboxEnd, heard, restarts>>

\* The backend: idempotent on the process reference.
BackendStarts ==
    IF wire.run = "absent"
    THEN \E log \in WireLogs : wire' = [run |-> "live", log |-> log, oldest |-> 1]
    ELSE UNCHANGED wire

\* Observe, and the save after Dispatch's start: the run id and the end of the
\* replay input are one write; a failed write leaves both and is not an error.
Observed ==
    \/ /\ \E rec \in jrnl : SaveRecord([rec EXCEPT !.backend = TRUE, !.replay = FALSE])
       /\ NoRemoteFault
    \/ UNCHANGED jrnl /\ RemoteFault

\* Mutant: a start whose answer is lost is taken for one that never happened.
StartCallOnce(from, onLost) ==
    /\ att.pc = from
    /\ from = "resolve" => \A rec \in jrnl : ~rec.backend
    /\ \/ BackendStarts /\ Observed /\ At("attach")
       \/ (BackendStarts \/ UNCHANGED wire) /\ RemoteFault /\ At("failed") /\ UNCHANGED jrnl
    /\ UNCHANGED <<inbox, inboxEnd, heard, restarts>>

\* dispatch's first Start, its exact replay after an error, and resolveExisting's
\* when no run id is known.  Only a refusal returns no handle here.
StartCall(from, onLost) ==
    /\ att.pc = from
    /\ from = "resolve" => \A rec \in jrnl : ~rec.backend
    /\ \/ BackendStarts /\ Observed /\ At("attach")
       \/ (BackendStarts \/ UNCHANGED wire) /\ RemoteFault /\ At(onLost) /\ UNCHANGED jrnl
       \/ /\ wire.run = "absent"
          /\ RemoteFault /\ At("failed") /\ UNCHANGED <<wire, jrnl>>
    /\ UNCHANGED <<inbox, inboxEnd, heard, restarts>>

BackendStart == \/ StartCall("start", "replay")
                \/ StartCall("replay", "attach")
                \/ StartCall("resolve", "attach")

\* resolveExisting with a run id: whatever Attach answers, the handle is returned.
ResolveExisting ==
    /\ att.pc = "resolve" /\ \E rec \in jrnl : rec.backend
    /\ At("attach")
    /\ UNCHANGED <<wire, jrnl, inbox, inboxEnd, heard, restarts, remoteFaults>>

\* ResolveStart: the same request again, to learn the permanent run id, while the
\* journal still holds its input; nothing is attached.
ResolveStart ==
    /\ att.pc = "off" /\ \E rec \in jrnl : rec.dispatched /\ rec.replay
    /\ BackendStarts /\ Observed
    /\ UNCHANGED <<inbox, inboxEnd, att, heard, restarts>>

-----------------------------------------------------------------------------
(* Attach: what the consumer accepted is authoritative, the journal is its   *)
(* cache.                                                                    *)

InboxReadable == inboxEnd \in {"whole", "unended"}
OutcomeBefore(items, i) ==
    TerminalType(FlattenSeq([j \in 1..(i - 1) |-> items[j].events]))

\* One accepted range, between the checkpoints around it.
GapReads(item, from, before) ==
    /\ item.gap[1] = from + 1 /\ item.gap[2] = item.cp.cursor /\ item.gap[1] <= item.gap[2]
    /\ item.env = <<>> /\ item.cp.tail = <<>>
    /\ before # "succeeded"
    /\ before = "none" => item.events = <<"failed">> /\ item.cp.terminal
    /\ before = "failed" => item.events = <<>>

\* reconcileRecovery.
Reconciles(local, items) ==
    LET last == items[Len(items)].cp
        from(i) == IF i = 1 THEN NoCheckpoint ELSE items[i - 1].cp
    IN  IF items = <<>> THEN local = NoCheckpoint
        ELSE /\ \A i \in DOMAIN items :
                   LET item == items[i]  before == OutcomeBefore(items, i)
                   IN  /\ from(i).cursor <= item.cp.cursor
                       /\ from(i).terminal => item.cp.terminal
                       /\ HasTerminal(item.events) => before = "none" /\ item.cp.terminal
                       /\ before # "none" => item.events = <<>>
                       /\ item.gap # <<>> => GapReads(item, from(i).cursor, before)
                       /\ item.env # <<>> => item.env[1].seq \in 1..item.cp.cursor
             /\ local.cursor <= last.cursor
             /\ local.terminal => last.terminal
             /\ last.terminal => OutcomeBefore(items, Len(items) + 1) # "none"

\* Sequencer.Restore: envelopes and ranges tile the sequences up to the cursor.
Restores(items) ==
    LET next(expected, item) ==
            CASE item.env # <<>> /\ item.env[1].seq = expected -> expected + 1
              [] item.gap # <<>> /\ item.gap[1] = expected -> item.gap[2] + 1
              [] item.env = <<>> /\ item.gap = <<>> -> expected
              [] OTHER -> -1
    IN  items # <<>> => FoldLeft(next, 1, items) = items[Len(items)].cp.cursor + 1

Checkpoint(rec) == [cursor |-> rec.cursor, tail |-> rec.tail, terminal |-> rec.terminal]
\* CommitCheckpoint ignores an older cursor.
Advanced(rec, cp) == IF cp.cursor < rec.cursor THEN rec ELSE cp @@ rec

\* Recover: everything accepted, in commit order.
Recovered == FlattenSeq([i \in DOMAIN inbox |-> inbox[i].events])

AttachDegraded(why) == att' = [Quiet EXCEPT !.pc = "degraded", !.err = why]

Attach ==
    /\ att.pc = "attach"
    /\ \E rec \in jrnl :
         LET cp == IF inbox = <<>> THEN Checkpoint(rec) ELSE inbox[Len(inbox)].cp
         IN  \/ ~rec.dispatched /\ At("failed") /\ UNCHANGED jrnl /\ NoRemoteFault
             \/ rec.dispatched /\ ~InboxReadable /\ AttachDegraded("unreadable") /\ UNCHANGED jrnl /\ NoRemoteFault
             \/ /\ rec.dispatched /\ InboxReadable /\ ~(Reconciles(Checkpoint(rec), inbox) /\ Restores(inbox))
                /\ AttachDegraded("inconsistent") /\ UNCHANGED jrnl /\ NoRemoteFault
             \/ /\ rec.dispatched /\ InboxReadable /\ Reconciles(Checkpoint(rec), inbox) /\ Restores(inbox)
                /\ \/ Advanced(rec, cp) # rec /\ AttachDegraded("save") /\ UNCHANGED jrnl /\ RemoteFault
                   \/ /\ SaveRecord(Advanced(rec, cp)) /\ NoRemoteFault
                      /\ att' = [Quiet EXCEPT !.pc = "recovered",
                                   !.admitted = cp.cursor, !.committed = cp.cursor, !.tail = cp.tail,
                                   !.seen = {inbox[i].env[1] : i \in {i \in DOMAIN inbox : inbox[i].env # <<>>}},
                                   !.lost = {inbox[i].gap : i \in {i \in DOMAIN inbox : inbox[i].gap # <<>>}},
                                   !.succeeded = "succeeded" \in ToSet(Recovered),
                                   !.todo = Recovered]
    /\ UNCHANGED <<wire, inbox, inboxEnd, heard, restarts>>

-----------------------------------------------------------------------------
(* The pump. *)

PumpDone(a) == [a EXCEPT !.pc = "closed", !.fresh = <<>>, !.todo = <<>>]

\* send and publish: a detach wins, and nothing follows an outcome.
Publish(done) ==
    IF att.todo = <<>> THEN att' = done /\ UNCHANGED heard
    ELSE IF att.terminal \/ att.discarded
         THEN att' = [done EXCEPT !.todo = <<>>] /\ UNCHANGED heard
         ELSE /\ heard' = Append(heard, Head(att.todo))
              /\ att' = [att EXCEPT !.todo = IF IsTerminalEvent(Head(@)) THEN <<>> ELSE Tail(@),
                                    !.terminal = IsTerminalEvent(Head(att.todo))]

\* Mutant: what was committed is taken for published.
PublishRecoveredOnce ==
    /\ att.pc = "recovered"
    /\ att' = [att EXCEPT !.pc = "read", !.todo = <<>>, !.terminal = HasTerminal(att.todo)]
    /\ UNCHANGED <<wire, jrnl, inbox, inboxEnd, heard, restarts, remoteFaults>>

\* Every durable consequence is published again before the first read; a
\* publication that is cut short ends the pump.
PublishRecovered ==
    /\ att.pc = "recovered"
    /\ Publish(IF att.todo # <<>> THEN PumpDone(att)
               ELSE IF (inbox # <<>> /\ inbox[Len(inbox)].cp.terminal) /\ ~att.terminal
                    THEN [PumpDone(att) EXCEPT !.err = "conflict"]
                    ELSE [att EXCEPT !.pc = "read"])
    /\ UNCHANGED <<wire, jrnl, inbox, inboxEnd, restarts, remoteFaults>>

Accepting(a, item, more) == [a EXCEPT !.pc = "commit", !.item = <<item>>, !.more = more]

\* Sequencer.Admit: a replay must carry the same content, a new sequence must be
\* the next, and the whole batch is refused otherwise.
Admit(batch) ==
    LET step(acc, env) ==
            IF env.seq <= acc.admitted
            THEN [acc EXCEPT !.ok = @ /\ env \in acc.seen]
            ELSE [admitted |-> env.seq, seen |-> acc.seen \union {env},
                  fresh |-> Append(acc.fresh, env), ok |-> acc.ok /\ env.seq = acc.admitted + 1]
    IN  FoldLeft(step, [admitted |-> att.admitted, seen |-> att.seen, fresh |-> <<>>, ok |-> TRUE], batch)

Page(lo, hi) == [k \in 1..(hi - lo + 1) |-> [seq |-> lo + k - 1, body |-> wire.log[lo + k - 1]]]
Other(page) == [page EXCEPT ![1].body = [out |-> ~@.out, chunk |-> @.chunk]]

\* A page the backend served.
ReadPage(page) ==
    LET got == Admit(page)
    IN  att' = IF got.ok
               THEN [att EXCEPT !.pc = "next", !.admitted = got.admitted, !.seen = got.seen,
                                !.fresh = got.fresh]
               ELSE Accepting([att EXCEPT !.err = "sequence"],
                              FailureItem(<<"sequence-error", att.admitted + 1>>), FALSE)

\* RetentionGap.Range: what expired after the cursor the read asked from.
ExpiredRange == <<att.admitted + 1, wire.oldest - 1>>
\* Sequencer.AcceptGap: the filter moves across the range.
AcceptGap(gap) == [att EXCEPT !.admitted = gap[2], !.lost = @ \union {gap}]

\* Mutant: a range is accepted after success too.
ReadExpiryAlways ==
    att' = Accepting(AcceptGap(ExpiredRange), GapItem(ExpiredRange[1], ExpiredRange[2]), TRUE)

\* Retained events expired: the range is accepted unless the run succeeded.
ReadExpiry ==
    att' = IF att.succeeded THEN [PumpDone(att) EXCEPT !.err = "gap"]
           ELSE Accepting(AcceptGap(ExpiredRange), GapItem(ExpiredRange[1], ExpiredRange[2]), TRUE)

\* refuseStream: an answer about the cursor BEN cannot resume from.
ReadRefused ==
    att' = IF att.terminal THEN [PumpDone(att) EXCEPT !.err = "refused"]
           ELSE Accepting([att EXCEPT !.err = "refused"],
                          FailureItem(<<"stream-refused", att.committed>>), FALSE)

\* awaitReconnect: a transport failure is no fact about the run; the same cursor
\* is read again for as long as the attempt is not detached.
AwaitReconnect == RemoteFault /\ UNCHANGED att

\* One Events call after the admitted cursor.
ReadEvents ==
    /\ att.pc = "read"
    /\ IF att.discarded THEN att' = PumpDone(att) /\ NoRemoteFault
       ELSE LET next == att.admitted + 1
            IN  \/ /\ next < wire.oldest /\ ReadExpiry /\ NoRemoteFault
                \/ /\ next >= wire.oldest
                   /\ \E lo \in wire.oldest..next, hi \in next..Len(wire.log) : ReadPage(Page(lo, hi))
                   /\ NoRemoteFault
                \/ /\ next = Len(wire.log) + 1 /\ wire.run = "reaped" /\ next >= wire.oldest
                   /\ att' = Accepting(att, SealItem, FALSE) /\ NoRemoteFault
                \/ AwaitReconnect
                \/ wire.run # "absent" /\ RemoteFault
                   /\ \/ ReadRefused
                      \/ next + 1 <= Len(wire.log) /\ next + 1 >= wire.oldest /\ ReadPage(Page(next + 1, next + 1))
                      \/ \E lo \in wire.oldest..att.admitted : ReadPage(Other(Page(lo, lo)))
    /\ UNCHANGED <<wire, jrnl, inbox, inboxEnd, heard, restarts>>

NextEnvelope ==
    /\ att.pc = "next"
    /\ att' = IF att.fresh = <<>> THEN [att EXCEPT !.pc = "read"]
              ELSE LET item == EventItem(Head(att.fresh))
                       tooLong == Head(att.fresh).body.out /\ ~att.terminal
                                  /\ FrameProvider(att.tail, Head(att.fresh).body.chunk, FALSE).big
                   IN  Accepting([att EXCEPT !.fresh = Tail(@), !.err = IF tooLong THEN "frame" ELSE @],
                                 item, ~tooLong)
    /\ UNCHANGED <<wire, jrnl, inbox, inboxEnd, heard, restarts, remoteFaults>>

\* DirConsumer.Commit: idempotent on the id; a changed body or an outcome after an
\* outcome is a conflict; everything else is appended.
Same(item) == {i \in DOMAIN inbox : inbox[i].id = item.id}
Conflicts(item) ==
    \/ \E i \in Same(item) : inbox[i] # item
    \/ /\ Same(item) = {} /\ inbox # <<>> /\ inbox[Len(inbox)].cp.terminal
       /\ ~item.cp.terminal \/ item.events # <<>>

\* appendLine after an append that left its line unended writes into that line.
Ended == IF inboxEnd = "whole" THEN "whole" ELSE "merged"

\* The first half of accept.  appendLine may fail part way; the file keeps what
\* was written.
CommitConsumption ==
    /\ att.pc = "commit"
    /\ LET item == att.item[1]
           same == Same(item)
           conflict == Conflicts(item)
           closed(why) == att' = [PumpDone(att) EXCEPT !.err = why]
       IN  \/ conflict /\ closed("conflict") /\ UNCHANGED <<inbox, inboxEnd>> /\ NoRemoteFault
           \/ /\ ~conflict /\ same # {}
              /\ att' = [att EXCEPT !.pc = "checkpoint", !.first = FALSE]
              /\ UNCHANGED <<inbox, inboxEnd>> /\ NoRemoteFault
           \/ /\ ~conflict /\ same = {}
              /\ \/ /\ inbox' = Append(inbox, item) /\ inboxEnd' = Ended
                    /\ att' = [att EXCEPT !.pc = "checkpoint", !.first = TRUE] /\ NoRemoteFault
                 \/ /\ RemoteFault /\ closed("write")
                    /\ \/ UNCHANGED <<inbox, inboxEnd>>
                       \/ inboxEnd' = "torn" /\ UNCHANGED inbox
                       \/ inbox' = Append(inbox, item) /\ inboxEnd' \in {Ended, "unended"}
    /\ UNCHANGED <<wire, jrnl, heard, restarts>>

\* Second half of accept: the journal's checkpoint, then Sequencer.Commit.  What
\* was first is published even when the save failed.
CommitCheckpoint ==
    /\ att.pc = "checkpoint"
    /\ LET item == att.item[1]
           publish == IF att.first THEN item.events ELSE <<>>
       IN  \E rec \in jrnl :
             \/ /\ SaveRecord(Advanced(rec, item.cp)) /\ NoRemoteFault
                /\ att' = [att EXCEPT !.pc = "publish", !.kept = TRUE, !.todo = publish,
                                      !.committed = IF item.cp.cursor > @ THEN item.cp.cursor ELSE @]
             \/ /\ Advanced(rec, item.cp) # rec /\ RemoteFault /\ UNCHANGED jrnl
                /\ att' = [att EXCEPT !.pc = "publish", !.kept = FALSE, !.todo = publish, !.err = "save"]
    /\ UNCHANGED <<wire, inbox, inboxEnd, heard, restarts>>

\* A cut publication of a fresh item is not an error: its consequence is durable.
PublishFresh ==
    /\ att.pc = "publish"
    /\ Publish(LET item == att.item[1]
               IN  IF att.more /\ att.kept
                   THEN [att EXCEPT !.pc = "next", !.tail = item.cp.tail, !.terminal = item.cp.terminal,
                                    !.succeeded = @ \/ TerminalType(item.events) = "succeeded",
                                    !.item = <<>>, !.first = FALSE, !.kept = FALSE]
                   ELSE PumpDone(att))
    /\ UNCHANGED <<wire, jrnl, inbox, inboxEnd, restarts, remoteFaults>>

PumpEvents == PublishRecovered \/ ReadEvents \/ NextEnvelope \/ CommitConsumption
              \/ CommitCheckpoint \/ PublishFresh
RunnerSteps == RunnerStart \/ ResolveStart \/ Dispatch \/ BackendStart \/ ResolveExisting \/ Attach

-----------------------------------------------------------------------------
(* The rest of the world. *)

ProcessExits ==
    /\ wire.run = "live"
    /\ wire' = [wire EXCEPT !.run = "reaped"]
    /\ UNCHANGED <<jrnl, inbox, inboxEnd, att, heard, restarts, remoteFaults>>

\* The backend drops its oldest events.
EventsExpire ==
    /\ wire.run # "absent" /\ wire.oldest <= Len(wire.log)
    /\ \E oldest \in (wire.oldest + 1)..(Len(wire.log) + 1) : wire' = [wire EXCEPT !.oldest = oldest]
    /\ RemoteFault
    /\ UNCHANGED <<jrnl, inbox, inboxEnd, att, heard, restarts>>

\* Stop(discard): live delivery ends, what the backend does is its own matter.
StopDiscard ==
    /\ att.pc \in {"recovered", "read", "next", "commit", "checkpoint", "publish"} /\ ~att.discarded
    /\ att' = [att EXCEPT !.discarded = TRUE]
    /\ UNCHANGED <<wire, jrnl, inbox, inboxEnd, heard, restarts, remoteFaults>>

\* The daemon dies, in an append at worst, and comes back with what is on disk.
DaemonRestarts ==
    /\ att.pc # "off" /\ restarts < MaxRestarts
    /\ restarts' = restarts + 1
    /\ att' = Quiet /\ heard' = <<>>
    /\ \/ UNCHANGED <<inbox, inboxEnd>>
       \/ /\ att.pc = "commit" /\ Same(att.item[1]) = {} /\ ~Conflicts(att.item[1])
          /\ \/ inboxEnd' = "torn" /\ UNCHANGED inbox
             \/ /\ inbox' = Append(inbox, att.item[1])
                /\ inboxEnd' = IF inboxEnd = "whole" THEN "unended" ELSE "merged"
    /\ UNCHANGED <<wire, jrnl, remoteFaults>>

RemoteInit ==
    /\ wire = [run |-> "absent", log |-> <<>>, oldest |-> 1]
    /\ jrnl = {} /\ inbox = <<>> /\ inboxEnd = "whole"
    /\ att = Quiet /\ heard = <<>>
    /\ restarts = 0 /\ remoteFaults = 0

RemoteNext == RunnerSteps \/ PumpEvents \/ ProcessExits \/ EventsExpire \/ StopDiscard \/ DaemonRestarts

\* Both goroutines run until they return, and a process ends.
RemoteFair == WF_remoteVars(RunnerSteps) /\ WF_remoteVars(PumpEvents) /\ WF_remoteVars(ProcessExits)
RemoteSpec == RemoteInit /\ [][RemoteNext]_remoteVars

-----------------------------------------------------------------------------
(* Properties. *)

Outcomes(items) == SelectSeq(FlattenSeq([i \in DOMAIN items |-> items[i].events]), IsTerminalEvent)

\* Types, and the bounds of every cursor: the journal's never leads the inbox's.
RemoteTypeOK ==
    /\ wire.run \in {"absent", "live", "reaped"} /\ wire.oldest \in 1..(Len(wire.log) + 1)
    /\ Cardinality(jrnl) <= 1
    /\ inboxEnd \in {"whole", "unended", "torn", "merged"}
    /\ att.committed <= att.admitted
    /\ \A rec \in jrnl : rec.cursor <= (IF inbox = <<>> THEN 0 ELSE inbox[Len(inbox)].cp.cursor)

\* A process the backend runs can be found from the journal, by its run id or with
\* the input that replays the same request, whatever crashed or was lost.
RunIsFindable == wire.run # "absent" => \E rec \in jrnl : rec.backend \/ rec.replay

\* Start returns no handle only when no process exists: the caller of a nil handle
\* releases the claim and mints a replacement (Runner.dispatch).
NilHandleMeansNoRun == att.pc = "failed" => wire.run = "absent"

\* The same, for every failure but that of the dispatch mark's own save.
NilHandleAfterTheMark == att.err = "mark" \/ NilHandleMeansNoRun

\* The inbox reads as one uninterrupted translation of the envelopes it holds:
\* no restart, replayed page, failed save or range changes what a line becomes.
\* The reference frames everything up to the first range or failure at once.
ReadsAsOneStream ==
    LET cutAt == {i \in DOMAIN inbox : inbox[i].env = <<>>
                                       \/ (inbox[i].events = <<"failed">> /\ inbox[i].env # <<>>)}
        upto == IF cutAt = {} THEN Len(inbox) ELSE (CHOOSE i \in cutAt : \A j \in cutAt : i <= j) - 1
        kept == SelectSeq(SubSeq(inbox, 1, upto), LAMBDA item : item.env[1].body.out)
        chunks == FlattenSeq([i \in DOMAIN kept |-> kept[i].env[1].body.chunk])
    IN  FlattenSeq([i \in 1..upto |-> inbox[i].events])
            = TranslateLines(FrameProvider(<<>>, chunks, FALSE).lines)

\* The sequences up to the cursor are each consumed once or recorded as lost, a
\* loss is a failed run, and a run has one outcome: nothing follows it.
EveryEventAccounted ==
    /\ Restores(inbox)
    /\ Len(Outcomes(inbox)) <= 1
    /\ \A i \in DOMAIN inbox : inbox[i].gap # <<>> => Outcomes(inbox) = <<"failed">>

\* What a life of the daemon published is what the inbox holds, in order, from
\* the beginning and at most once (accept before publish, PublishRecovered).
PublishedIsDurable == IsPrefix(heard, FlattenSeq([i \in DOMAIN inbox |-> inbox[i].events]))

\* An attempt that reached the end of its stream published the outcome.
ClosedWithOutcome ==
    att.pc = "closed" /\ att.err = "none" /\ ~att.discarded => HasTerminal(heard)

\* Recovery accepts everything Commit accepts: an attachment degrades because the
\* file cannot be read or a save failed, never because the records disagree.
RecoveryAcceptsItsOwn == att.err # "inconsistent"

RemoteSafe ==
    /\ RemoteTypeOK /\ RunIsFindable /\ NilHandleAfterTheMark /\ ReadsAsOneStream /\ EveryEventAccounted
    /\ PublishedIsDurable /\ ClosedWithOutcome /\ RecoveryAcceptsItsOwn

\* Once the process has ended, an attached pump closes its stream.
StreamCloses == wire.run = "reaped" /\ att.pc = "read" ~> att.pc \in {"closed", "off"}
=============================================================================
