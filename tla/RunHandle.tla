----------------------------- MODULE RunHandle -----------------------------
(***************************************************************************)
(* One live attempt of a local agent (internal/agent/harness): the harness  *)
(* process and the pipes it writes, and the goroutines of handle.go that    *)
(* read them, translate them, watch the clock, tear the execution domain    *)
(* down, and publish exactly one terminal event.  The decisions are         *)
(* lifecycle.go's; everything else carries them out.                        *)
(*                                                                          *)
(* A line of output is the sequence of events the adapter translates it to; *)
(* <<"overlong">> is a line beyond the scanner's ceiling.                   *)
(***************************************************************************)
EXTENDS Naturals, Sequences, Functions

CONSTANTS Scripts,         \* bound: what an agent may write, line by line
          EventBuffer,     \* the capacity of the events channel
          Windows          \* the reasons the watchdog may expire with

VARIABLES launch,          \* Start: "idle", "refused" or "live"
          fds,             \* descriptors this package holds open
          agent,           \* [exited, held]: the provider; a descendant holding the pipes
          written, pipe,   \* every line the agent wrote; those not read yet
          kept,            \* the lines in the transcript
          reader,          \* readStdout
          pump,            \* pump, dispatch, feed, emit
          life,            \* lifecycleState
          events, sent,    \* the channel's buffer; everything ever put in it
          chan,            \* the channels that only close
          watch, reaper, bound, stopper   \* the other goroutines, and a caller of Stop

handleVars == <<launch, fds, agent, written, pipe, kept, reader, pump, life,
                events, sent, chan, watch, reaper, bound, stopper>>

Overlong == <<"overlong">>
IsTerminal(e) == e \notin {"progress", "heartbeat"}
Verdicts == {"stalled", "timeout", "killed", "overflow"}
AgentEvents == {"progress", "heartbeat", "succeeded", "failed"}   \* what an adapter translates to
EventSet == AgentEvents \cup {"crashed"} \cup Verdicts

Lines == Seq(AgentEvents) \cup {Overlong}

\* The verdicts and the crash are the runner's own: no adapter yields one.
ASSUME ScriptsAssumption == Scripts # {} /\ \A t \in Scripts : t \in Seq(Lines)
ASSUME WindowsAssumption == Windows \subseteq Verdicts
ASSUME EventBufferAssumption == EventBuffer \in Nat

-----------------------------------------------------------------------------
(* lifecycle.go: a value, an input, the next value and the step to carry out. *)

NewLife == [streamEnded |-> FALSE, procExited |-> FALSE, outcome |-> "", verdict |-> "",
            cleanupDone |-> FALSE, abandoned |-> FALSE, settled |-> FALSE]

Idle == [kind |-> "idle", event |-> ""]

\* Mutant: the outcome is published while the promised teardown still runs.
ResolveEarly(s) ==
    IF s.settled \/ s.outcome = "" THEN [next |-> s, step |-> Idle]
    ELSE LET out == IF s.verdict = "" THEN s.outcome ELSE s.verdict
         IN  [next |-> [s EXCEPT !.outcome = out, !.settled = TRUE],
              step |-> [kind |-> "terminal", event |-> out]]

\* Mutant: a result read before the cleanup wait overturns the verdict.
ResolveOwn(s) ==
    IF s.settled \/ s.outcome = "" THEN [next |-> s, step |-> Idle]
    ELSE IF s.verdict # "" /\ ~s.cleanupDone /\ ~s.abandoned
         THEN [next |-> s, step |-> [kind |-> "await", event |-> ""]]
         ELSE [next |-> [s EXCEPT !.settled = TRUE],
               step |-> [kind |-> "terminal", event |-> s.outcome]]

Resolve(s) ==
    IF s.settled \/ s.outcome = "" THEN [next |-> s, step |-> Idle]
    ELSE IF s.verdict # "" /\ ~s.cleanupDone /\ ~s.abandoned
         THEN [next |-> s, step |-> [kind |-> "await", event |-> ""]]
         ELSE LET out == IF s.verdict = "" THEN s.outcome ELSE s.verdict
              IN  [next |-> [s EXCEPT !.outcome = out, !.settled = TRUE],
                   step |-> [kind |-> "terminal", event |-> out]]

\* Mutant: the exit alone ends the run.
EndOfRunOnExit(s) ==
    IF s.procExited /\ s.outcome = "" /\ ~s.settled
    THEN Resolve([s EXCEPT !.outcome = "crashed"])
    ELSE [next |-> s, step |-> Idle]

EndOfRun(s) ==
    IF s.streamEnded /\ s.procExited /\ s.outcome = "" /\ ~s.settled
    THEN Resolve([s EXCEPT !.outcome = "crashed"])
    ELSE [next |-> s, step |-> Idle]

\* The inputs the pump feeds.  The others (a verdict, a finished cleanup, an
\* abandoned consumer) only set their field.
LifeOn(s, in) ==
    IF in = "streamEnded" THEN EndOfRun([s EXCEPT !.streamEnded = TRUE])
    ELSE IF in = "processExited" THEN EndOfRun([s EXCEPT !.procExited = TRUE])
    ELSE IF in = "resolve" THEN Resolve(s)
    ELSE IF s.settled \/ s.abandoned THEN [next |-> s, step |-> Idle]
    ELSE IF ~IsTerminal(in) THEN [next |-> s, step |-> [kind |-> "emit", event |-> in]]
    ELSE Resolve([s EXCEPT !.outcome = in])

\* The first verdict stands, and none is taken once the outcome is settled.
Claimed(s, r) == IF s.verdict = "" /\ ~s.settled THEN [s EXCEPT !.verdict = r] ELSE s

-----------------------------------------------------------------------------
(* run.go Start: the pipes are opened one after the other, and a failure    *)
(* anywhere closes what was opened.                                         *)

Opened(at) ==
    CASE at \in {"prompt", "stdin"} -> {}
      [] at = "stdout" -> {"stdinR", "stdinW"}
      [] at = "stderr" -> {"stdinR", "stdinW", "stdoutR", "stdoutW"}
      [] at \in {"domain", "ok"} -> {"stdinR", "stdinW", "stdoutR", "stdoutW", "stderrR", "stderrW"}

\* The child's ends are closed here either way, and the prompt's writer closes its own.
ChildEnds == {"stdinR", "stdinW", "stdoutW", "stderrW"}

\* Mutant: a refused domain leaves the read ends open.
StartFdsLeaking(at) ==
    IF at \in {"domain", "ok"} THEN Opened(at) \ ChildEnds ELSE {}

StartFds(at) ==
    IF at = "ok" THEN Opened(at) \ ChildEnds ELSE {}

HandleStart ==
    /\ launch = "idle"
    /\ \E at \in {"prompt", "stdin", "stdout", "stderr", "domain", "ok"} :
          /\ fds' = StartFds(at)
          /\ launch' = IF at = "ok" THEN "live" ELSE "refused"
    /\ UNCHANGED <<agent, written, pipe, kept, reader, pump, life, events, sent, chan,
                   watch, reaper, bound, stopper>>

-----------------------------------------------------------------------------
(* The agent, its descendants, and the consumer: nothing says when they act. *)

Live == launch = "live"

\* The lines w are how script t begins.
Follows(w, t) == Len(w) <= Len(t) /\ \A i \in DOMAIN w : w[i] = t[i]

AgentWrites ==
    /\ Live /\ (~agent.exited \/ agent.held) /\ fds # {}
    /\ \E t \in Scripts :
        /\ Follows(written, t) /\ Len(written) < Len(t)
        /\ written' = Append(written, t[Len(written) + 1])
        /\ pipe' = Append(pipe, t[Len(written) + 1])
    /\ UNCHANGED <<launch, fds, agent, kept, reader, pump, life, events, sent, chan,
                   watch, reaper, bound, stopper>>

AgentExits ==
    /\ Live
    /\ \/ ~agent.exited /\ \E h \in BOOLEAN : agent' = [exited |-> TRUE, held |-> h]
       \/ agent.held /\ agent' = [agent EXCEPT !.held = FALSE]
    /\ UNCHANGED <<launch, fds, written, pipe, kept, reader, pump, life, events, sent, chan,
                   watch, reaper, bound, stopper>>

ConsumerReads ==
    /\ events # <<>> /\ events' = Tail(events)
    /\ UNCHANGED <<launch, fds, agent, written, pipe, kept, reader, pump, life, sent, chan,
                   watch, reaper, bound, stopper>>

\* teardown: the domain's bounded stop returned, whatever it could confirm.
\* The lifecycle is told before the channel closes.
Teardown ==
    /\ \E quiet \in BOOLEAN :
          agent' = IF quiet THEN [exited |-> TRUE, held |-> FALSE] ELSE agent
    /\ life' = [life EXCEPT !.cleanupDone = TRUE]
    /\ chan' = [chan EXCEPT !.cleaned = TRUE]

-----------------------------------------------------------------------------
(* readStdout: every line goes to the transcript, and to the pump while one *)
(* is collecting.  The scanner may still hold lines when the pipe closes.   *)

StreamOver == fds = {} \/ (pipe = <<>> /\ agent.exited /\ ~agent.held)

ReaderScans ==
    /\ Live /\ reader.pc = "scan" /\ pipe # <<>>
    /\ kept' = Append(kept, Head(pipe)) /\ pipe' = Tail(pipe)
    /\ IF Head(pipe) = Overlong
       THEN /\ reader' = [reader EXCEPT !.pc = "stop"]
            /\ life' = Claimed(life, "overflow")
       ELSE /\ reader' = IF reader.handOff
                         THEN [reader EXCEPT !.pc = "hand", !.line = Head(pipe)]
                         ELSE reader
            /\ UNCHANGED life
    /\ UNCHANGED <<launch, fds, agent, written, pump, events, sent, chan, watch, reaper, bound, stopper>>

\* Mutant: a reader parked on the hand-off waits for the pump alone.
ReaderStrandsOnAbort ==
    /\ reader.pc = "hand" /\ chan.abort
    /\ reader' = [reader EXCEPT !.pc = "scan", !.handOff = FALSE, !.line = <<>>]
    /\ UNCHANGED <<launch, fds, agent, written, pipe, kept, pump, life, events, sent, chan,
                   watch, reaper, bound, stopper>>

ReaderStrands ==
    /\ reader.pc = "hand" /\ (chan.abort \/ chan.stranded)
    /\ reader' = [reader EXCEPT !.pc = "scan", !.handOff = FALSE, !.line = <<>>]
    /\ UNCHANGED <<launch, fds, agent, written, pipe, kept, pump, life, events, sent, chan,
                   watch, reaper, bound, stopper>>

ReaderEnds ==
    /\ Live
    /\ \/ reader.pc = "scan" /\ StreamOver /\ UNCHANGED <<agent, life, chan>>
       \/ reader.pc = "stop" /\ Teardown
    /\ reader' = [reader EXCEPT !.pc = "done"]
    /\ UNCHANGED <<launch, fds, written, pipe, kept, pump, events, sent, watch, reaper, bound, stopper>>

\* Both readers are done: the pipes are released and the transcript is closed.
Flush ==
    /\ Live /\ ~chan.flushed /\ reader.pc = "done"
    /\ fds = {} \/ (agent.exited /\ ~agent.held)
    /\ fds' = {}
    /\ chan' = [chan EXCEPT !.stranded = TRUE, !.flushed = TRUE]
    /\ UNCHANGED <<launch, agent, written, pipe, kept, reader, pump, life, events, sent,
                   watch, reaper, bound, stopper>>

-----------------------------------------------------------------------------
(* pump: dispatch selects an input, feed hands it to the lifecycle and      *)
(* carries out the step.                                                    *)

Fed(p, in, todo) ==
    LET r == LifeOn(life, in) IN
    /\ life' = r.next
    /\ pump' = [p EXCEPT !.todo = todo, !.ev = r.step.event,
                         !.pc = IF r.step.kind # "idle" THEN r.step.kind
                                ELSE IF todo = <<>> THEN "select" ELSE "feed"]

\* translate: a line that yields nothing is a heartbeat.
Translated(line) == IF line = <<>> THEN <<"heartbeat">> ELSE line

\* Mutant: the end of the stream ends the run.
PumpSelectsEnding ==
    /\ Live /\ pump.pc = "select" /\ (reader.pc = "done" \/ chan.abort)
    /\ pump' = [pump EXCEPT !.pc = "close"]
    /\ UNCHANGED <<launch, fds, agent, written, pipe, kept, reader, life, events, sent, chan,
                   watch, reaper, bound, stopper>>

PumpSelects ==
    /\ Live /\ pump.pc = "select"
    /\ \/ /\ pump.lines /\ reader.pc = "hand"
          /\ LET evs == Translated(reader.line) IN Fed(pump, Head(evs), Tail(evs))
          /\ reader' = [reader EXCEPT !.pc = "scan", !.line = <<>>]
       \/ /\ pump.lines /\ reader.pc = "done"
          /\ Fed([pump EXCEPT !.lines = FALSE], "streamEnded", <<>>)
          /\ UNCHANGED reader
       \/ /\ pump.exit /\ agent.exited
          /\ Fed([pump EXCEPT !.exit = FALSE], "processExited", <<>>)
          /\ UNCHANGED reader
       \/ /\ chan.abort
          /\ pump' = [pump EXCEPT !.pc = "close"]
          /\ UNCHANGED <<life, reader>>
    /\ UNCHANGED <<launch, fds, agent, written, pipe, kept, events, sent, chan, watch, reaper, bound, stopper>>

PumpFeeds ==
    /\ \/ pump.pc = "feed" /\ Fed(pump, Head(pump.todo), Tail(pump.todo))
       \/ pump.pc = "await" /\ (chan.cleaned \/ chan.abort) /\ Fed(pump, "resolve", pump.todo)
    /\ UNCHANGED <<launch, fds, agent, written, pipe, kept, reader, events, sent, chan,
                   watch, reaper, bound, stopper>>

\* Mutant: the buffer of the event channel has no bound.
PumpEmitsUnbounded ==
    /\ pump.pc \in {"emit", "terminal"}
    /\ \/ /\ events' = Append(events, pump.ev) /\ sent' = Append(sent, pump.ev)
          /\ pump' = [pump EXCEPT !.ev = "",
                       !.pc = IF pump.pc = "terminal" THEN "close"
                              ELSE IF pump.todo = <<>> THEN "select" ELSE "feed"]
       \/ /\ chan.abort
          /\ pump' = [pump EXCEPT !.pc = "close", !.ev = ""]
          /\ UNCHANGED <<events, sent>>
    /\ chan' = [chan EXCEPT !.terminated = @ \/ pump.pc = "terminal"]
    /\ UNCHANGED <<launch, fds, agent, written, pipe, kept, reader, life, watch, reaper, bound, stopper>>

\* Mutant: an event waits for its reader after the run is abandoned.
PumpEmitsAtLeisure ==
    /\ pump.pc \in {"emit", "terminal"}
    /\ /\ Len(events) < EventBuffer
          /\ events' = Append(events, pump.ev) /\ sent' = Append(sent, pump.ev)
          /\ pump' = [pump EXCEPT !.ev = "",
                       !.pc = IF pump.pc = "terminal" THEN "close"
                              ELSE IF pump.todo = <<>> THEN "select" ELSE "feed"]
    /\ chan' = [chan EXCEPT !.terminated = @ \/ pump.pc = "terminal"]
    /\ UNCHANGED <<launch, fds, agent, written, pipe, kept, reader, life, watch, reaper, bound, stopper>>

\* emit: the event is taken, or the abandoned run drops it.
PumpEmits ==
    /\ pump.pc \in {"emit", "terminal"}
    /\ \/ /\ Len(events) < EventBuffer
          /\ events' = Append(events, pump.ev) /\ sent' = Append(sent, pump.ev)
          /\ pump' = [pump EXCEPT !.ev = "",
                       !.pc = IF pump.pc = "terminal" THEN "close"
                              ELSE IF pump.todo = <<>> THEN "select" ELSE "feed"]
       \/ /\ chan.abort
          /\ pump' = [pump EXCEPT !.pc = "close", !.ev = ""]
          /\ UNCHANGED <<events, sent>>
    /\ chan' = [chan EXCEPT !.terminated = @ \/ pump.pc = "terminal"]
    /\ UNCHANGED <<launch, fds, agent, written, pipe, kept, reader, life, watch, reaper, bound, stopper>>

\* The channel closes; what the agent still writes is read and discarded.
PumpEnds ==
    /\ \/ /\ pump.pc = "close"
          /\ pump' = [pump EXCEPT !.pc = IF pump.lines THEN "discard" ELSE "end", !.todo = <<>>]
          /\ chan' = [chan EXCEPT !.closed = TRUE]
          /\ UNCHANGED reader
       \/ /\ pump.pc = "discard" /\ reader.pc = "hand"
          /\ reader' = [reader EXCEPT !.pc = "scan", !.line = <<>>]
          /\ UNCHANGED <<pump, chan>>
       \/ /\ pump.pc = "discard" /\ reader.pc = "done"
          /\ pump' = [pump EXCEPT !.pc = "end"]
          /\ UNCHANGED <<reader, chan>>
    /\ UNCHANGED <<launch, fds, agent, written, pipe, kept, life, events, sent, watch, reaper, bound, stopper>>

-----------------------------------------------------------------------------
(* The watchdog, a caller of Stop, the reaper and the bound on the stream.  *)

\* expire: a liveness window, the attempt's deadline or the run's context.
WatchdogExpires ==
    /\ Live /\ watch = "watch"
    /\ \E r \in Windows : life' = Claimed(life, r)
    /\ watch' = "stop"
    /\ UNCHANGED <<launch, fds, agent, written, pipe, kept, reader, pump, events, sent, chan,
                   reaper, bound, stopper>>

WatchdogEnds ==
    /\ Live
    /\ \/ watch = "stop" /\ Teardown
       \/ watch = "watch" /\ (agent.exited \/ chan.terminated) /\ UNCHANGED <<agent, life, chan>>
    /\ watch' = "done"
    /\ UNCHANGED <<launch, fds, written, pipe, kept, reader, pump, events, sent, reaper, bound, stopper>>

StopCalled ==
    /\ Live /\ stopper.pc = "idle"
    /\ \E mode \in {"interrupt", "discard"} : stopper' = [pc |-> "stop", mode |-> mode]
    /\ life' = Claimed(life, "killed")
    /\ UNCHANGED <<launch, fds, agent, written, pipe, kept, reader, pump, events, sent, chan,
                   watch, reaper, bound>>

\* Only a discard aborts the stream, and only once the teardown returned.
StopReturns ==
    /\ \/ /\ stopper.pc = "stop" /\ Teardown
          /\ stopper' = [stopper EXCEPT !.pc = IF @ = "stop" /\ stopper.mode = "discard"
                                               THEN "abort" ELSE "done"]
       \/ /\ stopper.pc = "abort"
          /\ life' = [life EXCEPT !.abandoned = TRUE]
          /\ chan' = [chan EXCEPT !.abort = TRUE]
          /\ stopper' = [stopper EXCEPT !.pc = "done"]
          /\ UNCHANGED agent
    /\ UNCHANGED <<launch, fds, written, pipe, kept, reader, pump, events, sent, watch, reaper, bound>>

Reaps(next) == reaper' = next /\ UNCHANGED <<agent, life, chan>>

\* reap: the exit, or a grace after the terminal event and then a teardown;
\* then the promised cleanup; then the transcript.
Reap ==
    /\ Live
    /\ \/ reaper \in {"wait", "grace", "exit"} /\ agent.exited /\ Reaps("cleanup")
       \/ reaper = "wait" /\ chan.terminated /\ Reaps("grace")
       \/ reaper = "grace" /\ Reaps("stop")
       \/ reaper = "stop" /\ Teardown /\ reaper' = "exit"
       \/ reaper = "cleanup" /\ (life.verdict = "" \/ chan.cleaned \/ chan.abort) /\ Reaps("flush")
       \/ /\ reaper = "flush" /\ chan.flushed
          /\ reaper' = "done" /\ chan' = [chan EXCEPT !.done = TRUE]
          /\ UNCHANGED <<agent, life>>
    /\ UNCHANGED <<launch, fds, written, pipe, kept, reader, pump, events, sent, watch, bound, stopper>>

\* Mutant: the window closes the pipes without stranding the readers first.
BoundStreamOnce ==
    /\ Live
    /\ \/ bound = "wait" /\ agent.exited /\ bound' = "drain" /\ UNCHANGED <<fds, chan>>
       \/ bound = "drain" /\ chan.flushed /\ bound' = "done" /\ UNCHANGED <<fds, chan>>
       \/ bound = "drain" /\ ~chan.flushed /\ fds' = {} /\ bound' = "strand" /\ chan' = [chan EXCEPT !.stranded = TRUE]
    /\ UNCHANGED <<launch, agent, written, pipe, kept, reader, pump, life, events, sent, watch, reaper, stopper>>

\* boundStream: one window for the pump, one for a descendant holding the pipe.
BoundStream ==
    /\ Live
    /\ \/ bound = "wait" /\ agent.exited /\ bound' = "drain" /\ UNCHANGED <<fds, chan>>
       \/ bound \in {"drain", "strand"} /\ chan.flushed
          /\ bound' = (IF bound = "drain" THEN "done" ELSE "late") /\ UNCHANGED <<fds, chan>>
       \/ /\ bound = "drain" /\ ~chan.flushed
          /\ bound' = "strand" /\ chan' = [chan EXCEPT !.stranded = TRUE] /\ UNCHANGED fds
       \/ /\ (bound = "strand" /\ ~chan.flushed) \/ (bound = "wait" /\ chan.abort)
          /\ bound' = "cut" /\ fds' = {} /\ chan' = [chan EXCEPT !.stranded = TRUE]
    /\ UNCHANGED <<launch, agent, written, pipe, kept, reader, pump, life, events, sent, watch, reaper, stopper>>

-----------------------------------------------------------------------------
HandleInit ==
    /\ launch = "idle" /\ fds = {}
    /\ agent = [exited |-> FALSE, held |-> FALSE]
    /\ written = <<>> /\ pipe = <<>> /\ kept = <<>>
    /\ reader = [pc |-> "scan", line |-> <<>>, handOff |-> TRUE]
    /\ pump = [pc |-> "select", todo |-> <<>>, ev |-> "", lines |-> TRUE, exit |-> TRUE]
    /\ life = NewLife
    /\ events = <<>> /\ sent = <<>>
    /\ chan = [c \in {"terminated", "cleaned", "flushed", "stranded", "abort", "closed", "done"} |-> FALSE]
    /\ watch = "watch" /\ reaper = "wait" /\ bound = "wait"
    /\ stopper = [pc |-> "idle", mode |-> "interrupt"]

PumpStep   == PumpSelects \/ PumpFeeds \/ PumpEmits \/ PumpEnds
ReaderStep == ReaderScans \/ ReaderStrands \/ ReaderEnds

HandleNext ==
    \/ HandleStart \/ AgentWrites \/ AgentExits \/ ConsumerReads
    \/ ReaderScans \/ ReaderStrands \/ ReaderEnds \/ Flush
    \/ PumpSelects \/ PumpFeeds \/ PumpEmits \/ PumpEnds
    \/ WatchdogExpires \/ WatchdogEnds \/ StopCalled \/ StopReturns \/ Reap \/ BoundStream

\* The goroutines run, their timers fire and the domain's stop is bounded.
\* Nothing is promised of the agent, its descendants or the consumer.
HandleFair ==
    /\ WF_handleVars(PumpStep) /\ WF_handleVars(ReaderStep) /\ WF_handleVars(Flush)
    /\ WF_handleVars(WatchdogEnds) /\ WF_handleVars(StopReturns)
    /\ WF_handleVars(Reap) /\ WF_handleVars(BoundStream)

HandleSpec == HandleInit /\ [][HandleNext]_handleVars /\ HandleFair

-----------------------------------------------------------------------------
AgentSet == [exited : BOOLEAN, held : BOOLEAN]
ReaderSet == [pc : {"scan", "hand", "stop", "done"}, line : Seq(AgentEvents), handOff : BOOLEAN]
PumpSet ==
    [pc : {"select", "feed", "emit", "terminal", "await", "close", "discard", "end"},
     todo : Seq(AgentEvents), ev : EventSet \cup {""}, lines : BOOLEAN, exit : BOOLEAN]
LifeSet ==
    [streamEnded : BOOLEAN, procExited : BOOLEAN, outcome : EventSet \cup {""},
     verdict : Verdicts \cup {""}, cleanupDone : BOOLEAN, abandoned : BOOLEAN, settled : BOOLEAN]
Signals == {"terminated", "cleaned", "flushed", "stranded", "abort", "closed", "done"}

(* The state of a run's handle. *)
HandleTypeOK ==
    /\ launch \in {"idle", "refused", "live"} /\ fds \subseteq Opened("ok")
    /\ agent \in AgentSet /\ reader \in ReaderSet /\ pump \in PumpSet /\ life \in LifeSet
    /\ written \in Seq(Lines) /\ \E t \in Scripts : Follows(written, t)
    /\ pipe \in Seq(Lines) /\ kept \in Seq(Lines)
    /\ events \in Seq(EventSet) /\ Len(events) <= EventBuffer /\ sent \in Seq(EventSet)
    /\ chan \in [Signals -> BOOLEAN]
    /\ watch \in {"watch", "stop", "done"}
    /\ reaper \in {"wait", "grace", "stop", "exit", "cleanup", "flush", "done"}
    /\ bound \in {"wait", "drain", "strand", "cut", "done", "late"}
    /\ stopper \in [pc : {"idle", "stop", "abort", "done"}, mode : {"interrupt", "discard"}]

(* A failure the runner declared (a timeout, a stall, a Stop) is published  *)
(* only after the teardown it promised has returned, unless nobody reads.   *)
VerdictAwaitsCleanup ==
    \A i \in DOMAIN sent : sent[i] \in Verdicts => chan.cleaned \/ chan.abort

(* A late result never overturns a declared verdict: once one is claimed    *)
(* before the outcome is settled, the published event is that verdict.      *)
ResultNeverOverturns ==
    life.settled /\ life.verdict # "" =>
        \A i \in DOMAIN sent : IsTerminal(sent[i]) => sent[i] = life.verdict

(* An agent that wrote its result before it exited did not crash: as long   *)
(* as the readers were not stranded, the exit never outruns the pipe.       *)
ResultSurvivesExit ==
    "crashed" \in Range(sent) /\ bound \in {"wait", "drain", "done"} =>
        \A i \in DOMAIN written : \A j \in DOMAIN written[i] : ~IsTerminal(written[i][j])

(* Done means the record is complete: the agent has exited and every line   *)
(* it wrote is in the transcript, unless the pipes had to be cut.           *)
DoneIsComplete ==
    chan.done => /\ agent.exited /\ chan.flushed
                 /\ bound # "cut" /\ Overlong \notin Range(written) => kept = written

(* Neither a refused launch nor a finished run leaves a descriptor open. *)
NoDescriptorLeft == launch = "refused" \/ chan.done => fds = {}

(* What a run's handle promises its owner: the terminal event comes after   *)
(* the cleanup it reports on, a result once seen is neither overturned nor  *)
(* lost to the exit, and Done leaves nothing open (agent/harness).          *)
HandleSafe == /\ HandleTypeOK /\ VerdictAwaitsCleanup /\ ResultNeverOverturns
              /\ ResultSurvivesExit /\ DoneIsComplete /\ NoDescriptorLeft

(* Every run whose agent exits reaches Done, even when nobody drains its    *)
(* events and a descendant keeps the pipes open for ever.                   *)
DoneAfterExit == Live /\ agent.exited ~> chan.done

(* A discarded run's stream ends although nobody reads it. *)
AbandonedStreamEnds == chan.abort ~> chan.closed

Contract == INSTANCE RunContract WITH
    Progress <- {"progress", "heartbeat"},
    Terminal <- EventSet \ {"progress", "heartbeat"},
    stream <- sent, ended <- chan.closed, over <- chan.done, abandoned <- chan.abort

(* The handle keeps core.RunHandle's promise: progress, one terminal event, *)
(* and then the end of the stream.                                          *)
KeepsContract == Contract!ContractSpec
=============================================================================
