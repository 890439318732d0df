-------------------------- MODULE RunHandleProofs --------------------------
(***************************************************************************)
(* Proofs about one local run's handle, for every script of lines an agent *)
(* may write, every buffer of the event channel and every set of windows.  *)
(*                                                                         *)
(* HandleInv strengthens the type with five facts that carry each other:   *)
(* PumpOK ties what the pump holds and what it sent to the lifecycle;      *)
(* LifeOK says an outcome settles only once the teardown its verdict       *)
(* promised has returned; StopOK that only a finished discard aborts;      *)
(* ReadOK that nothing written is lost between the pipe and the            *)
(* transcript, and when the readers may be done; ResultOK that a terminal  *)
(* event of the agent's is decided on, in the pump, or still unread.       *)
(*                                                                         *)
(* The steps divide in two.  The pump's own steps change the lifecycle     *)
(* through Fed alone, so they are done once per lifecycle operator; every  *)
(* other goroutine leaves the pump alone and moves the lifecycle only      *)
(* forwards (Others), so one argument serves the fourteen of them.         *)
(***************************************************************************)
EXTENDS RunHandle, TLAPS

USE SMTT(30), ZenonT(30)

\* The pump is past its terminal event, or past the point of sending one.
Past == {"close", "discard", "end"}

\* What the pump has in hand, and what it has published, is the lifecycle's.
PumpOK ==
    /\ pump.pc = "feed" => pump.todo # <<>>
    /\ pump.pc = "select" => pump.todo = <<>>
    /\ pump.pc = "emit" => ~IsTerminal(pump.ev)
    /\ pump.pc = "terminal" => life.settled /\ pump.ev = life.outcome
    /\ life.settled => pump.pc \in Past \cup {"terminal"}
    /\ pump.pc \in Past => chan.abort \/ \E i \in DOMAIN sent : IsTerminal(sent[i])
    /\ chan.closed => pump.pc \in {"discard", "end"}
    /\ \A i \in DOMAIN sent : IsTerminal(sent[i]) =>
          life.settled /\ sent[i] = life.outcome /\ pump.pc \in Past

\* An outcome that is not settled yet waits for the teardown its verdict promised.
Waits(s) == s.outcome = "" \/ s.verdict # ""

\* An outcome is the agent's own or a crash until it settles, and from then on
\* the verdict, if there is one, whose teardown has returned.
LifeOK ==
    /\ ~life.settled => life.outcome \notin Verdicts /\ Waits(life)
    /\ life.outcome # "" => IsTerminal(life.outcome)
    /\ life.settled => life.outcome # "" /\ (life.verdict # "" => life.outcome = life.verdict)
    /\ life.outcome \in Verdicts => chan.cleaned \/ chan.abort
    /\ life.cleanupDone => chan.cleaned
    /\ life.abandoned => chan.abort

\* Stop claims the run before it tears it down and aborts the stream.
StopOK ==
    /\ stopper.pc # "idle" => life.verdict # "" \/ life.settled
    /\ chan.abort => stopper.pc = "done"

\* The readers and the pipes.
ReadOK ==
    /\ written = kept \o pipe
    /\ launch = "refused" => fds = {}
    /\ launch # "live" => ~chan.flushed /\ reaper = "wait" /\ bound = "wait" /\ reader.pc = "scan"
    /\ launch = "live" /\ fds = {} => chan.flushed \/ bound = "cut"
    /\ chan.flushed => fds = {} /\ reader.pc = "done"
    /\ reader.pc = "stop" => Overlong \in Range(kept)
    /\ reader.pc = "done" => \/ bound = "cut" \/ Overlong \in Range(kept)
                             \/ pipe = <<>> /\ agent.exited /\ ~agent.held
    /\ Overlong \in Range(kept) => life.verdict # "" \/ life.settled
    /\ reaper \in {"cleanup", "flush", "done"} => agent.exited
    /\ chan.done => reaper = "done" /\ chan.flushed

NoneTerminal(s) == \A j \in DOMAIN s : ~IsTerminal(s[j])

\* The readers were not cut short.
OneWindow == bound \in {"wait", "drain", "done"}

\* Nothing ends the run yet, and every line is still handed to the pump.
Undecided == /\ life.outcome = "" /\ life.verdict = "" /\ ~life.settled
             /\ OneWindow /\ reader.handOff

\* A terminal event of the agent's is decided on, in the pump, or not read yet;
\* so a crash is concluded only from a whole stream that holds none.
ResultOK ==
    /\ chan.stranded => chan.flushed \/ ~OneWindow
    /\ ~reader.handOff => ~OneWindow \/ chan.abort
    /\ reader.pc = "hand" => kept # <<>> /\ reader.line = kept[Len(kept)]
    /\ ~pump.lines => reader.pc = "done" /\ pump.todo = <<>>
    /\ life.streamEnded => ~pump.lines
    /\ Undecided /\ NoneTerminal(pump.todo) =>
          \A i \in DOMAIN kept : i < Len(kept) \/ reader.pc # "hand" => NoneTerminal(kept[i])
    /\ life.settled /\ life.outcome = "crashed" /\ OneWindow =>
          /\ reader.pc = "done" /\ pipe = <<>> /\ agent.exited /\ ~agent.held
          /\ \A i \in DOMAIN kept : NoneTerminal(kept[i])

HandleInv == HandleTypeOK /\ PumpOK /\ LifeOK /\ StopOK /\ ReadOK /\ ResultOK
-----------------------------------------------------------------------------
(* What one input does to a lifecycle that has not settled. *)

Inputs == AgentEvents \cup {"streamEnded", "processExited", "resolve"}

Unsettled(s) == ~s.settled /\ s.outcome \notin Verdicts /\ (s.outcome # "" => IsTerminal(s.outcome))

\* An input takes s to t and asks for step k with event e: it leaves the verdict
\* and the promises alone, and settles only with the step that publishes the outcome.
LifeStep(s, in, t, k, e) ==
    /\ t \in LifeSet
    /\ k \in {"idle", "emit", "await", "terminal"} /\ e \in EventSet \cup {""}
    /\ t.verdict = s.verdict /\ t.cleanupDone = s.cleanupDone /\ t.abandoned = s.abandoned
    /\ k = "emit" => ~IsTerminal(e)
    /\ t.settled <=> k = "terminal"
    /\ t.settled => /\ e = t.outcome /\ t.outcome # "" /\ IsTerminal(t.outcome)
                    /\ s.verdict = "" => t.outcome \notin Verdicts
                    /\ s.verdict # "" => t.outcome = s.verdict /\ (s.cleanupDone \/ s.abandoned)
    /\ ~t.settled => Unsettled(t) /\ Waits(t)
    /\ s.outcome # "" => t.outcome # ""
    /\ in \in AgentEvents /\ IsTerminal(in) => t.outcome # "" \/ s.abandoned
    /\ t.outcome = "crashed" => s.outcome = "crashed" \/ (s.outcome = "" /\ t.streamEnded)
    /\ t.streamEnded => s.streamEnded \/ in = "streamEnded"

\* Resolve, of a lifecycle with an outcome or without.
LEMMA ResolveStep ==
    ASSUME NEW s \in LifeSet, Unsettled(s), NEW in \in Inputs, in \notin AgentEvents \/ s.outcome = in
    PROVE  LifeStep(s, in, Resolve(s).next, Resolve(s).step.kind, Resolve(s).step.event)
<1> DEFINE t == Resolve(s).next
           k == Resolve(s).step.kind
           e == Resolve(s).step.event
<1> SUFFICES LifeStep(s, in, t, k, e)
  OBVIOUS
<1>1. CASE s.outcome = ""
  <2>1. t = s /\ k = "idle" /\ e = ""
    BY <1>1 DEF Resolve, Idle
  <2> HIDE DEF t, k, e
  <2>2. in \notin AgentEvents
    BY <1>1 DEF AgentEvents
  <2> QED
    BY <1>1, <2>1, <2>2 DEF LifeStep, Unsettled, Waits
<1>2. CASE s.outcome # "" /\ s.verdict # "" /\ ~s.cleanupDone /\ ~s.abandoned
  <2>1. t = s /\ k = "await" /\ e = ""
    BY <1>2 DEF Resolve, Unsettled
  <2> HIDE DEF t, k, e
  <2> QED
    BY <1>2, <2>1 DEF LifeStep, Unsettled, Waits
<1>3. CASE s.outcome # "" /\ (s.verdict = "" \/ s.cleanupDone \/ s.abandoned)
  <2> DEFINE out == IF s.verdict = "" THEN s.outcome ELSE s.verdict
  <2>1. t = [s EXCEPT !.outcome = out, !.settled = TRUE] /\ k = "terminal" /\ e = out
    BY <1>3 DEF Resolve, Unsettled
  <2>2. out \in EventSet /\ out # "" /\ IsTerminal(out)
    BY <1>3 DEF EventSet, Verdicts, IsTerminal, Unsettled, LifeSet
  <2>3. t \in LifeSet /\ t.settled /\ t.outcome = out /\ t.verdict = s.verdict
          /\ t.cleanupDone = s.cleanupDone /\ t.abandoned = s.abandoned
          /\ t.streamEnded = s.streamEnded
    <3> HIDE DEF t, out
    <3> QED
      BY <2>1, <2>2 DEF LifeSet
  <2>4. out = "crashed" => s.outcome = "crashed"
    BY DEF Verdicts, LifeSet
  <2>5. s.verdict = "" => out \notin Verdicts
    BY DEF Unsettled
  <2>6. s.verdict # "" => out = s.verdict
    OBVIOUS
  <2> HIDE DEF t, k, e, out
  <2> QED
    BY <1>3, <2>1, <2>2, <2>3, <2>4, <2>5, <2>6 DEF LifeStep
<1> QED
  BY <1>1, <1>2, <1>3

\* Resolve does not touch what is known of the stream and of the exit.
LEMMA ResolveKeepsStream ==
    ASSUME NEW s \in LifeSet
    PROVE  Resolve(s).next.streamEnded = s.streamEnded
BY DEF Resolve, LifeSet

\* EndOfRun, once its input is noted.
LEMMA EndOfRunStep ==
    ASSUME NEW s \in LifeSet, Unsettled(s), Waits(s), NEW in \in Inputs, in \notin AgentEvents
    PROVE  LifeStep(s, in, EndOfRun(s).next, EndOfRun(s).step.kind, EndOfRun(s).step.event)
<1>1. CASE s.streamEnded /\ s.procExited /\ s.outcome = ""
  <2> DEFINE u == [s EXCEPT !.outcome = "crashed"]
  <2>1. EndOfRun(s) = Resolve(u)
    BY <1>1 DEF EndOfRun, Unsettled
  <2>2. u \in LifeSet /\ Unsettled(u)
    BY DEF LifeSet, Unsettled, EventSet, Verdicts, IsTerminal
  <2>3. LifeStep(u, in, EndOfRun(s).next, EndOfRun(s).step.kind, EndOfRun(s).step.event)
    BY <2>1, <2>2, ResolveStep
  <2>4. EndOfRun(s).next.streamEnded
    BY <1>1, <2>1, <2>2, ResolveKeepsStream DEF LifeSet
  <2>5. u.verdict = s.verdict /\ u.cleanupDone = s.cleanupDone /\ u.abandoned = s.abandoned
          /\ u.streamEnded = s.streamEnded /\ u.outcome # ""
    BY DEF LifeSet
  <2> HIDE DEF u
  <2> QED
    BY <1>1, <2>3, <2>4, <2>5 DEF LifeStep
<1>2. CASE ~(s.streamEnded /\ s.procExited /\ s.outcome = "")
  <2>1. EndOfRun(s).next = s /\ EndOfRun(s).step.kind = "idle" /\ EndOfRun(s).step.event = ""
    BY <1>2 DEF EndOfRun, Idle
  <2> QED
    BY <2>1 DEF LifeStep, Unsettled
<1> QED
  BY <1>1, <1>2

\* lifecycleState.on.
LEMMA LifeOnStep ==
    ASSUME NEW s \in LifeSet, Unsettled(s), Waits(s), NEW in \in Inputs
    PROVE  LifeStep(s, in, LifeOn(s, in).next, LifeOn(s, in).step.kind, LifeOn(s, in).step.event)
<1> DEFINE t == LifeOn(s, in).next
           k == LifeOn(s, in).step.kind
           e == LifeOn(s, in).step.event
<1> SUFFICES LifeStep(s, in, t, k, e)
  OBVIOUS
<1>1. CASE in = "resolve"
  <2>1. LifeOn(s, in) = Resolve(s) /\ in \notin AgentEvents
    BY <1>1 DEF LifeOn, AgentEvents
  <2> QED
    BY <2>1, ResolveStep
<1>2. CASE in = "streamEnded"
  <2> DEFINE u == [s EXCEPT !.streamEnded = TRUE]
  <2>1. LifeOn(s, in) = EndOfRun(u) /\ in \notin AgentEvents
    BY <1>2 DEF LifeOn, AgentEvents
  <2>2. u \in LifeSet /\ Unsettled(u) /\ u.verdict = s.verdict /\ u.cleanupDone = s.cleanupDone
          /\ u.abandoned = s.abandoned /\ u.outcome = s.outcome
    BY DEF LifeSet, Unsettled
  <2> HIDE DEF u
  <2>3. LifeStep(u, in, t, k, e)
    BY <2>1, <2>2, EndOfRunStep DEF Waits
  <2> HIDE DEF t, k, e
  <2> QED
    BY <1>2, <2>2, <2>3 DEF LifeStep
<1>3. CASE in = "processExited"
  <2> DEFINE u == [s EXCEPT !.procExited = TRUE]
  <2>1. LifeOn(s, in) = EndOfRun(u) /\ in \notin AgentEvents
    BY <1>3 DEF LifeOn, AgentEvents
  <2>2. u \in LifeSet /\ Unsettled(u) /\ u.verdict = s.verdict /\ u.cleanupDone = s.cleanupDone
          /\ u.abandoned = s.abandoned /\ u.outcome = s.outcome /\ u.streamEnded = s.streamEnded
    BY DEF LifeSet, Unsettled
  <2> HIDE DEF u
  <2>3. LifeStep(u, in, t, k, e)
    BY <2>1, <2>2, EndOfRunStep DEF Waits
  <2> HIDE DEF t, k, e
  <2> QED
    BY <1>3, <2>2, <2>3 DEF LifeStep
<1>4. CASE in \in AgentEvents
  <2>0. in \in EventSet /\ in # "" /\ in # "crashed" /\ in \notin Verdicts
          /\ in \notin {"resolve", "streamEnded", "processExited"}
    BY <1>4 DEF AgentEvents, EventSet, Verdicts
  <2>1. CASE s.abandoned
    <3>1. t = s /\ k = "idle" /\ e = ""
      BY <2>0, <2>1 DEF LifeOn, Idle
    <3> HIDE DEF t, k, e
    <3> QED
      BY <2>1, <3>1 DEF LifeStep, Unsettled
  <2>2. CASE ~s.abandoned /\ ~IsTerminal(in)
    <3>1. t = s /\ k = "emit" /\ e = in
      BY <2>0, <2>2 DEF LifeOn, Unsettled
    <3> HIDE DEF t, k, e
    <3> QED
      BY <2>0, <2>2, <3>1 DEF LifeStep, Unsettled
  <2>3. CASE ~s.abandoned /\ IsTerminal(in)
    <3> DEFINE u == [s EXCEPT !.outcome = in]
    <3>1. u \in LifeSet /\ Unsettled(u) /\ u.verdict = s.verdict /\ u.cleanupDone = s.cleanupDone
            /\ u.abandoned = s.abandoned /\ u.outcome = in /\ u.streamEnded = s.streamEnded
      BY <2>0, <2>3 DEF LifeSet, Unsettled
    <3>2. LifeOn(s, in) = Resolve(u)
      BY <2>0, <2>3 DEF LifeOn, Unsettled
    <3> HIDE DEF u
    <3>3. LifeStep(u, in, t, k, e)
      BY <3>1, <3>2, ResolveStep
    <3> HIDE DEF t, k, e
    <3> QED
      BY <2>0, <3>1, <3>3 DEF LifeStep
  <2> QED
    BY <2>1, <2>2, <2>3
<1> QED
  BY <1>1, <1>2, <1>3, <1>4 DEF Inputs

-----------------------------------------------------------------------------
(* The types. *)

\* The first verdict is taken, the rest of the lifecycle stays.
LEMMA ClaimedStep ==
    ASSUME NEW s \in LifeSet, NEW r \in Verdicts
    PROVE  /\ Claimed(s, r) \in LifeSet
           /\ Claimed(s, r).verdict = "" => s.settled
           /\ s.verdict # "" \/ s.settled => Claimed(s, r) = s
           /\ Claimed(s, r).settled = s.settled /\ Claimed(s, r).outcome = s.outcome
           /\ Claimed(s, r).cleanupDone = s.cleanupDone /\ Claimed(s, r).abandoned = s.abandoned
           /\ Claimed(s, r).streamEnded = s.streamEnded
BY DEF Claimed, LifeSet, Verdicts

\* feed carries out what the lifecycle decides.
LEMMA FedStep ==
    ASSUME life \in LifeSet, Unsettled(life), Waits(life), NEW p \in PumpSet,
           NEW in \in Inputs, NEW todo \in Seq(AgentEvents), Fed(p, in, todo)
    PROVE  /\ life' \in LifeSet /\ pump' \in PumpSet
           /\ pump'.todo = todo /\ pump'.lines = p.lines
           /\ \E k \in {"idle", "emit", "await", "terminal"} :
                 /\ LifeStep(life, in, life', k, pump'.ev)
                 /\ pump'.pc = IF k # "idle" THEN k ELSE IF todo = <<>> THEN "select" ELSE "feed"
<1> DEFINE k == LifeOn(life, in).step.kind
           e == LifeOn(life, in).step.event
           t == LifeOn(life, in).next
<1>1. LifeStep(life, in, t, k, e)
  BY LifeOnStep
<1>2. life' = t /\ pump' = [p EXCEPT !.todo = todo, !.ev = e,
                         !.pc = IF k # "idle" THEN k ELSE IF todo = <<>> THEN "select" ELSE "feed"]
  BY DEF Fed
<1> HIDE DEF k, e, t
<1>3. t \in LifeSet /\ k \in {"idle", "emit", "await", "terminal"} /\ e \in EventSet \cup {""}
  BY <1>1 DEF LifeStep
<1>4. pump' \in PumpSet /\ pump'.todo = todo /\ pump'.lines = p.lines /\ pump'.ev = e
        /\ pump'.pc = IF k # "idle" THEN k ELSE IF todo = <<>> THEN "select" ELSE "feed"
  BY <1>2, <1>3 DEF PumpSet
<1> QED
  BY <1>1, <1>2, <1>3, <1>4

\* The pump is never fed once the outcome is settled.
LEMMA FeedsUnsettled ==
    ASSUME HandleTypeOK, PumpOK, LifeOK, pump.pc \in {"select", "feed", "emit", "await"}
    PROVE  Unsettled(life) /\ Waits(life)
BY DEF PumpOK, LifeOK, Unsettled, Past

\* A teardown ends with the lifecycle told and the channel closed.
LEMMA TeardownStep ==
    ASSUME HandleTypeOK, Teardown
    PROVE  /\ agent' \in AgentSet /\ life' \in LifeSet /\ chan' \in [Signals -> BOOLEAN]
           /\ agent.exited => agent'.exited
           /\ ~agent.held => ~agent'.held
           /\ chan' = [chan EXCEPT !.cleaned = TRUE]
           /\ life' = [life EXCEPT !.cleanupDone = TRUE]
<1>1. agent' \in AgentSet /\ (agent.exited => agent'.exited) /\ (~agent.held => ~agent'.held)
  BY DEF HandleTypeOK, Teardown, AgentSet
<1>2. life' = [life EXCEPT !.cleanupDone = TRUE] /\ life \in LifeSet
  BY DEF HandleTypeOK, Teardown
<1>3. life' \in LifeSet
  BY <1>2 DEF LifeSet
<1>4. chan' = [chan EXCEPT !.cleaned = TRUE] /\ chan \in [Signals -> BOOLEAN]
  BY DEF HandleTypeOK, Teardown
<1>5. chan' \in [Signals -> BOOLEAN]
  BY <1>4, ZenonT(30) DEF Signals
<1> QED
  BY <1>1, <1>2, <1>3, <1>4, <1>5, ZenonT(30)

\* The pump's steps keep the types of what they write.
LEMMA PumpType ==
    ASSUME HandleTypeOK, PumpOK, LifeOK, PumpSelects \/ PumpFeeds \/ PumpEnds
    PROVE  pump' \in PumpSet /\ life' \in LifeSet /\ reader' \in ReaderSet
<1>0. reader \in ReaderSet /\ pump \in PumpSet /\ life \in LifeSet /\ <<>> \in Seq(AgentEvents)
  BY DEF HandleTypeOK
<1>1. CASE PumpSelects
  <2>1. pump.pc = "select" /\ Unsettled(life) /\ Waits(life)
    BY <1>1, FeedsUnsettled DEF PumpSelects
  <2>2. CASE /\ pump.lines /\ reader.pc = "hand"
             /\ LET evs == Translated(reader.line) IN Fed(pump, Head(evs), Tail(evs))
             /\ reader' = [reader EXCEPT !.pc = "scan", !.line = <<>>]
    <3> DEFINE evs == Translated(reader.line)
    <3>0. <<"heartbeat">> \in Seq(AgentEvents) /\ <<"heartbeat">> # <<>>
      BY DEF AgentEvents
    <3>1. evs \in Seq(AgentEvents) /\ evs # <<>>
      BY <1>0, <3>0 DEF Translated, ReaderSet
    <3>2. Head(evs) \in Inputs /\ Tail(evs) \in Seq(AgentEvents)
      BY <3>1 DEF Inputs
    <3>3. Fed(pump, Head(evs), Tail(evs))
      BY <2>2
    <3> HIDE DEF evs
    <3>4. life' \in LifeSet /\ pump' \in PumpSet
      BY <1>0, <2>1, <3>2, <3>3, FedStep, ZenonT(30)
    <3>5. reader' \in ReaderSet
      BY <1>0, <2>2, ZenonT(30) DEF ReaderSet
    <3> QED
      BY <3>4, <3>5
  <2>3. CASE /\ Fed([pump EXCEPT !.lines = FALSE], "streamEnded", <<>>)
             /\ UNCHANGED reader
    <3>1. [pump EXCEPT !.lines = FALSE] \in PumpSet
      BY <1>0 DEF PumpSet
    <3>2. "streamEnded" \in Inputs
      BY DEF Inputs
    <3> QED
      BY <1>0, <2>1, <2>3, <3>1, <3>2, FedStep, ZenonT(30)
  <2>4. CASE /\ Fed([pump EXCEPT !.exit = FALSE], "processExited", <<>>)
             /\ UNCHANGED reader
    <3>1. [pump EXCEPT !.exit = FALSE] \in PumpSet
      BY <1>0 DEF PumpSet
    <3>2. "processExited" \in Inputs
      BY DEF Inputs
    <3> QED
      BY <1>0, <2>1, <2>4, <3>1, <3>2, FedStep, ZenonT(30)
  <2>5. CASE pump' = [pump EXCEPT !.pc = "close"] /\ UNCHANGED <<life, reader>>
    BY <1>0, <2>5 DEF PumpSet
  <2> QED
    BY <1>1, <2>2, <2>3, <2>4, <2>5 DEF PumpSelects
<1>2. CASE PumpFeeds
  <2>1. CASE pump.pc = "feed" /\ Fed(pump, Head(pump.todo), Tail(pump.todo))
    <3>1. pump.todo \in Seq(AgentEvents) /\ pump.todo # <<>>
      BY <1>0, <2>1 DEF PumpOK, PumpSet
    <3>2. Head(pump.todo) \in Inputs /\ Tail(pump.todo) \in Seq(AgentEvents)
      BY <3>1 DEF Inputs
    <3> QED
      BY <1>0, <1>2, <2>1, <3>2, FedStep, FeedsUnsettled, ZenonT(30) DEF PumpFeeds
  <2>2. CASE pump.pc = "await" /\ Fed(pump, "resolve", pump.todo)
    <3>1. pump.todo \in Seq(AgentEvents) /\ "resolve" \in Inputs
      BY <1>0 DEF PumpSet, Inputs
    <3> QED
      BY <1>0, <1>2, <2>2, <3>1, FedStep, FeedsUnsettled DEF PumpFeeds
  <2> QED
    BY <1>2, <2>1, <2>2 DEF PumpFeeds
<1>3. CASE PumpEnds
  <2>1. life' = life
    BY <1>3 DEF PumpEnds
  <2>2. pump' \in PumpSet
    BY <1>0, <1>3 DEF PumpEnds, PumpSet
  <2>3. reader' \in ReaderSet
    BY <1>0, <1>3, ZenonT(30) DEF PumpEnds, ReaderSet
  <2> QED
    BY <1>0, <2>1, <2>2, <2>3
<1> QED
  BY <1>1, <1>2, <1>3

\* Every step keeps the types.
LEMMA TypeStep == HandleTypeOK /\ PumpOK /\ LifeOK /\ [HandleNext]_handleVars => HandleTypeOK'
<1> SUFFICES ASSUME HandleTypeOK, PumpOK, LifeOK, [HandleNext]_handleVars PROVE HandleTypeOK'
  OBVIOUS
<1> USE DEF HandleTypeOK
<1>1. CASE HandleStart
  BY <1>1 DEF HandleStart, StartFds, Opened
<1>2. CASE AgentWrites
  <2>1. PICK t \in Scripts :
          /\ Follows(written, t) /\ Len(written) < Len(t)
          /\ written' = Append(written, t[Len(written) + 1])
          /\ pipe' = Append(pipe, t[Len(written) + 1])
    BY <1>2, ZenonT(30) DEF AgentWrites
  <2> DEFINE l == t[Len(written) + 1]
  <2>2. written \in Seq(Lines) /\ pipe \in Seq(Lines) /\ t \in Seq(Lines)
    BY ScriptsAssumption
  <2>3. l \in Lines
    BY ONLY <2>1, <2>2
  <2> HIDE DEF l
  <2>4. written' \in Seq(Lines) /\ pipe' \in Seq(Lines)
    BY ONLY <2>1, <2>2, <2>3 DEF l
  <2>5. Len(written') <= Len(t) /\ \A i \in DOMAIN written' : written'[i] = t[i]
    BY ONLY <2>1, <2>2, <2>3 DEF Follows, l
  <2> QED
    BY <1>2, <2>4, <2>5 DEF AgentWrites, Follows
<1>3. CASE AgentExits
  <2>0. agent \in AgentSet
    OBVIOUS
  <2>1. \A h \in BOOLEAN : [exited |-> TRUE, held |-> h] \in AgentSet
    BY Zenon DEF AgentSet
  <2>2. [agent EXCEPT !.held = FALSE] \in AgentSet
    BY ONLY <2>0, ZenonT(30) DEF AgentSet
  <2>3. agent' \in AgentSet
    BY ONLY <1>3, <2>1, <2>2, ZenonT(30) DEF AgentExits
  <2> QED
    BY <1>3, <2>3 DEF AgentExits
<1>4. CASE ConsumerReads
  <2>1. events' \in Seq(EventSet) /\ Len(events') <= EventBuffer
    BY <1>4, EventBufferAssumption DEF ConsumerReads
  <2> QED
    BY <1>4, <2>1 DEF ConsumerReads
<1>5. CASE ReaderScans
  <2>1. Head(pipe) \in Lines /\ kept' \in Seq(Lines) /\ pipe' \in Seq(Lines)
    BY <1>5 DEF ReaderScans
  <2>2. life' \in LifeSet
    BY <1>5, ClaimedStep DEF ReaderScans, Verdicts
  <2>3. reader' \in ReaderSet
    BY <1>5, <2>1, ZenonT(30) DEF ReaderScans, ReaderSet, Lines
  <2> QED
    BY <1>5, <2>1, <2>2, <2>3 DEF ReaderScans
<1>6. CASE ReaderStrands
  <2>0. reader \in ReaderSet /\ <<>> \in Seq(AgentEvents)
    OBVIOUS
  <2>1. reader' \in ReaderSet
    BY ONLY <1>6, <2>0, ZenonT(30) DEF ReaderStrands, ReaderSet
  <2> QED
    BY <1>6, <2>1 DEF ReaderStrands
<1>7. CASE ReaderEnds
  <2>1. reader' \in ReaderSet
    BY <1>7, ZenonT(30) DEF ReaderEnds, ReaderSet
  <2> QED
    BY <1>7, <2>1, TeardownStep DEF ReaderEnds
<1>8. CASE Flush
  <2>1. chan' \in [Signals -> BOOLEAN]
    BY <1>8, ZenonT(30) DEF Flush, Signals
  <2> QED
    BY <1>8, <2>1 DEF Flush
<1>9. CASE PumpSelects
  BY <1>9, PumpType DEF PumpSelects
<1>10. CASE PumpFeeds
  BY <1>10, PumpType DEF PumpFeeds
<1>11. CASE PumpEmits
  <2>1. pump.ev \in EventSet
    BY <1>11 DEF PumpEmits, PumpOK, LifeOK, PumpSet, IsTerminal
  <2>2. pump' \in PumpSet
    BY <1>11 DEF PumpEmits, PumpSet
  <2>3. chan' \in [Signals -> BOOLEAN]
    BY <1>11, ZenonT(30) DEF PumpEmits, Signals
  <2>4. events' \in Seq(EventSet) /\ Len(events') <= EventBuffer /\ sent' \in Seq(EventSet)
    <3>1. CASE UNCHANGED <<events, sent>>
      BY <3>1
    <3>2. CASE /\ Len(events) < EventBuffer
               /\ events' = Append(events, pump.ev) /\ sent' = Append(sent, pump.ev)
      <4>1. events \in Seq(EventSet) /\ sent \in Seq(EventSet)
        OBVIOUS
      <4>2. Len(Append(events, pump.ev)) = Len(events) + 1 /\ Len(events) \in Nat
              /\ Append(events, pump.ev) \in Seq(EventSet) /\ Append(sent, pump.ev) \in Seq(EventSet)
        BY ONLY <4>1, <2>1
      <4> QED
        BY ONLY <3>2, <4>2, EventBufferAssumption
    <3> QED
      BY <1>11, <3>1, <3>2 DEF PumpEmits
  <2>5. UNCHANGED <<launch, fds, agent, written, pipe, kept, reader, life, watch, reaper, bound, stopper>>
    BY <1>11 DEF PumpEmits
  <2> QED
    BY <2>2, <2>3, <2>4, <2>5
<1>12. CASE PumpEnds
  <2>1. chan' \in [Signals -> BOOLEAN]
    BY <1>12, ZenonT(30) DEF PumpEnds, Signals
  <2> QED
    BY <1>12, <2>1, PumpType DEF PumpEnds
<1>13. CASE WatchdogExpires
  <2>1. life' \in LifeSet
    <3>1. PICK r \in Windows : life' = Claimed(life, r)
      BY <1>13 DEF WatchdogExpires
    <3> QED
      BY <3>1, ClaimedStep, WindowsAssumption
  <2>2. watch' = "stop" /\ UNCHANGED <<launch, fds, agent, written, pipe, kept, reader, pump, events,
                                       sent, chan, reaper, bound, stopper>>
    BY <1>13 DEF WatchdogExpires
  <2> QED
    BY <2>1, <2>2
<1>14. CASE WatchdogEnds
  BY <1>14, TeardownStep DEF WatchdogEnds
<1>15. CASE StopCalled
  <2>1. life' \in LifeSet
    BY <1>15, ClaimedStep DEF StopCalled, Verdicts
  <2> QED
    BY <1>15, <2>1 DEF StopCalled
<1>16. CASE StopReturns
  <2>1. CASE stopper.pc = "stop"
    BY <1>16, <2>1, TeardownStep DEF StopReturns
  <2>2. CASE stopper.pc = "abort"
    <3>1. life' \in LifeSet
      BY <1>16, <2>2 DEF StopReturns, LifeSet
    <3>2. chan' \in [Signals -> BOOLEAN]
      BY <1>16, <2>2, ZenonT(30) DEF StopReturns, Signals
    <3> QED
      BY <1>16, <2>2, <3>1, <3>2 DEF StopReturns
  <2> QED
    BY <1>16, <2>1, <2>2 DEF StopReturns
<1>17. CASE Reap
  <2>1. agent' \in AgentSet /\ life' \in LifeSet /\ chan' \in [Signals -> BOOLEAN]
    BY <1>17, TeardownStep DEF Reap, Reaps, Signals
  <2>2. reaper' \in {"cleanup", "grace", "stop", "exit", "flush", "done"}
    BY <1>17 DEF Reap, Reaps
  <2>3. UNCHANGED <<launch, fds, written, pipe, kept, reader, pump, events, sent, watch, bound, stopper>>
    BY <1>17 DEF Reap
  <2> QED
    BY <2>1, <2>2, <2>3
<1>18. CASE BoundStream
  <2>1. chan' \in [Signals -> BOOLEAN]
    BY <1>18, ZenonT(30) DEF BoundStream, Signals
  <2> QED
    BY <1>18, <2>1 DEF BoundStream
<1>19. CASE UNCHANGED handleVars
  BY <1>19 DEF handleVars
<1> QED
  BY <1>1, <1>2, <1>3, <1>4, <1>5, <1>6, <1>7, <1>8, <1>9, <1>10, <1>11, <1>12, <1>13,
     <1>14, <1>15, <1>16, <1>17, <1>18, <1>19, ZenonT(30) DEF HandleNext

-----------------------------------------------------------------------------
(* The pump and the lifecycle. *)

\* What every step of another goroutine leaves to the pump and the lifecycle.
Others ==
    /\ pump' = pump /\ sent' = sent
    /\ life'.settled = life.settled /\ life'.outcome = life.outcome
    /\ life'.streamEnded = life.streamEnded
    /\ life.verdict # "" \/ life.settled => life'.verdict = life.verdict
    /\ life'.cleanupDone => life.cleanupDone \/ chan'.cleaned
    /\ life'.abandoned => life.abandoned \/ chan'.abort
    /\ chan.cleaned => chan'.cleaned
    /\ chan.abort => chan'.abort
    /\ chan'.closed = chan.closed
    /\ agent.exited => agent'.exited /\ (~agent.held => ~agent'.held)

OtherNext ==
    \/ HandleStart \/ AgentWrites \/ AgentExits \/ ConsumerReads
    \/ ReaderScans \/ ReaderStrands \/ ReaderEnds \/ Flush
    \/ WatchdogExpires \/ WatchdogEnds \/ StopCalled \/ StopReturns \/ Reap \/ BoundStream

\* A teardown moves the lifecycle forwards only.
LEMMA TeardownOthers ==
    ASSUME HandleTypeOK, Teardown, pump' = pump, sent' = sent
    PROVE  Others
<1>1. life \in LifeSet /\ chan \in [Signals -> BOOLEAN]
  BY DEF HandleTypeOK
<1>2. life'.settled = life.settled /\ life'.outcome = life.outcome
        /\ life'.streamEnded = life.streamEnded /\ life'.verdict = life.verdict
        /\ life'.abandoned = life.abandoned
  BY <1>1 DEF Teardown, LifeSet
<1>3. chan'.cleaned /\ chan'.abort = chan.abort /\ chan'.closed = chan.closed
  BY <1>1 DEF Teardown, Signals
<1> QED
  BY <1>2, <1>3, TeardownStep DEF Others

\* So does a claimed verdict.
LEMMA ClaimOthers ==
    ASSUME HandleTypeOK, NEW r \in Verdicts, life' = Claimed(life, r),
           pump' = pump, sent' = sent, chan' = chan, agent' = agent
    PROVE  Others
<1>1. life \in LifeSet
  BY DEF HandleTypeOK
<1> QED
  BY <1>1, ClaimedStep DEF Others

\* So does every step that is not the pump's.
LEMMA OtherStep ==
    ASSUME HandleTypeOK, OtherNext
    PROVE  Others
<1>0. life \in LifeSet /\ chan \in [Signals -> BOOLEAN] /\ agent \in AgentSet
  BY DEF HandleTypeOK
<1>1. CASE HandleStart \/ AgentWrites \/ ConsumerReads \/ ReaderStrands
  BY <1>1 DEF HandleStart, AgentWrites, ConsumerReads, ReaderStrands, Others
<1>2. CASE AgentExits
  BY <1>0, <1>2 DEF AgentExits, Others, AgentSet
<1>3. CASE ReaderScans
  <2>1. UNCHANGED <<pump, sent, chan, agent>> /\ (life' = life \/ life' = Claimed(life, "overflow"))
    BY <1>3 DEF ReaderScans
  <2> QED
    BY <2>1, ClaimOthers DEF Others, Verdicts
<1>4. CASE ReaderEnds
  <2>1. UNCHANGED <<pump, sent>> /\ (Teardown \/ UNCHANGED <<agent, life, chan>>)
    BY <1>4 DEF ReaderEnds
  <2> QED
    BY <2>1, TeardownOthers DEF Others
<1>5. CASE Flush
  BY <1>0, <1>5 DEF Flush, Others, Signals
<1>6. CASE WatchdogExpires
  BY <1>6, ClaimOthers, WindowsAssumption DEF WatchdogExpires
<1>7. CASE WatchdogEnds
  <2>1. UNCHANGED <<pump, sent>> /\ (Teardown \/ UNCHANGED <<agent, life, chan>>)
    BY <1>7 DEF WatchdogEnds
  <2> QED
    BY <2>1, TeardownOthers DEF Others
<1>8. CASE StopCalled
  BY <1>8, ClaimOthers DEF StopCalled, Verdicts
<1>9. CASE StopReturns
  <2>1. CASE stopper.pc = "stop" /\ Teardown
    BY <1>9, <2>1, TeardownOthers DEF StopReturns
  <2>2. CASE life' = [life EXCEPT !.abandoned = TRUE] /\ chan' = [chan EXCEPT !.abort = TRUE] /\ agent' = agent
    <3>1. life'.settled = life.settled /\ life'.outcome = life.outcome
            /\ life'.streamEnded = life.streamEnded /\ life'.verdict = life.verdict
            /\ life'.cleanupDone = life.cleanupDone
      BY <1>0, <2>2 DEF LifeSet
    <3>2. chan'.abort /\ chan'.cleaned = chan.cleaned /\ chan'.closed = chan.closed
      BY <1>0, <2>2 DEF Signals
    <3> QED
      BY <1>9, <2>2, <3>1, <3>2 DEF StopReturns, Others
  <2> QED
    BY <1>9, <2>1, <2>2 DEF StopReturns
<1>10. CASE Reap
  <2>1. CASE Teardown
    BY <1>10, <2>1, TeardownOthers DEF Reap
  <2>2. CASE UNCHANGED <<agent, life>> /\ (chan' = chan \/ chan' = [chan EXCEPT !.done = TRUE])
    BY <1>0, <1>10, <2>2 DEF Reap, Others, Signals
  <2> QED
    BY <1>10, <2>1, <2>2 DEF Reap, Reaps
<1>11. CASE BoundStream
  BY <1>0, <1>11 DEF BoundStream, Others, Signals
<1> QED
  BY <1>1, <1>2, <1>3, <1>4, <1>5, <1>6, <1>7, <1>8, <1>9, <1>10, <1>11 DEF OtherNext

\* The other goroutines keep what the pump and the lifecycle rely on.
LEMMA OthersPump ==
    ASSUME PumpOK, LifeOK, Others
    PROVE  PumpOK' /\ LifeOK'
<1>1. PumpOK'
  BY DEF PumpOK, Others
<1>2. LifeOK'
  BY DEF LifeOK, Others, Waits
<1> QED
  BY <1>1, <1>2

\* A fed input keeps it too.
LEMMA FedPump ==
    ASSUME HandleTypeOK, PumpOK, LifeOK, pump.pc \in {"select", "feed", "await"},
           NEW p \in PumpSet, NEW in \in Inputs, NEW todo \in Seq(AgentEvents),
           Fed(p, in, todo), UNCHANGED <<sent, chan>>
    PROVE  PumpOK' /\ LifeOK'
<1>1. Unsettled(life) /\ Waits(life) /\ life \in LifeSet
  BY FeedsUnsettled DEF HandleTypeOK
<1>2. PICK k \in {"idle", "emit", "await", "terminal"} :
        /\ LifeStep(life, in, life', k, pump'.ev)
        /\ pump'.pc = IF k # "idle" THEN k ELSE IF todo = <<>> THEN "select" ELSE "feed"
  BY <1>1, FedStep
<1>3. pump'.todo = todo
  BY <1>1, FedStep
<1>4. \A i \in DOMAIN sent : ~IsTerminal(sent[i])
  BY DEF PumpOK, Past
<1>5. ~chan.closed
  BY DEF PumpOK
<1>6. PumpOK'
  BY <1>2, <1>3, <1>4, <1>5 DEF PumpOK, Past, LifeStep
<1>7. LifeOK'
  BY <1>1, <1>2 DEF LifeOK, LifeStep, Unsettled
<1> QED
  BY <1>6, <1>7

\* The choices of the pump's select.
LEMMA SelectCases ==
    ASSUME HandleTypeOK, PumpSelects
    PROVE  \/ /\ pump.lines /\ reader.pc = "hand"
              /\ Fed(pump, Head(Translated(reader.line)), Tail(Translated(reader.line)))
              /\ Translated(reader.line) \in Seq(AgentEvents)
              /\ Head(Translated(reader.line)) \in AgentEvents
              /\ Tail(Translated(reader.line)) \in Seq(AgentEvents)
              /\ reader' = [reader EXCEPT !.pc = "scan", !.line = <<>>]
           \/ /\ pump.lines /\ reader.pc = "done"
              /\ Fed([pump EXCEPT !.lines = FALSE], "streamEnded", <<>>)
              /\ [pump EXCEPT !.lines = FALSE] \in PumpSet
              /\ [pump EXCEPT !.lines = FALSE].lines = FALSE
              /\ reader' = reader
           \/ /\ Fed([pump EXCEPT !.exit = FALSE], "processExited", <<>>)
              /\ [pump EXCEPT !.exit = FALSE] \in PumpSet
              /\ [pump EXCEPT !.exit = FALSE].lines = pump.lines
              /\ reader' = reader
           \/ /\ chan.abort /\ pump' = [pump EXCEPT !.pc = "close"]
              /\ life' = life /\ reader' = reader
<1>1. reader \in ReaderSet /\ pump \in PumpSet
  BY DEF HandleTypeOK
<1>2. <<"heartbeat">> \in Seq(AgentEvents) /\ <<"heartbeat">> # <<>>
  BY DEF AgentEvents
<1>3. Translated(reader.line) \in Seq(AgentEvents) /\ Translated(reader.line) # <<>>
  BY <1>1, <1>2 DEF Translated, ReaderSet
<1>4. Head(Translated(reader.line)) \in AgentEvents /\ Tail(Translated(reader.line)) \in Seq(AgentEvents)
  BY <1>3
<1>5. /\ [pump EXCEPT !.lines = FALSE] \in PumpSet /\ [pump EXCEPT !.lines = FALSE].lines = FALSE
      /\ [pump EXCEPT !.exit = FALSE] \in PumpSet /\ [pump EXCEPT !.exit = FALSE].lines = pump.lines
  BY <1>1 DEF PumpSet
<1> QED
  BY <1>3, <1>4, <1>5 DEF PumpSelects

\* The choices of the pump when it feeds what it has in hand.
LEMMA FeedCases ==
    ASSUME HandleTypeOK, PumpOK, PumpFeeds
    PROVE  \/ /\ pump.pc = "feed" /\ Fed(pump, Head(pump.todo), Tail(pump.todo))
              /\ pump.todo \in Seq(AgentEvents) /\ pump.todo # <<>>
              /\ Head(pump.todo) \in AgentEvents /\ Tail(pump.todo) \in Seq(AgentEvents)
           \/ /\ pump.pc = "await" /\ Fed(pump, "resolve", pump.todo)
              /\ pump.todo \in Seq(AgentEvents)
<1>1. pump.todo \in Seq(AgentEvents) /\ (pump.pc = "feed" => pump.todo # <<>>)
  BY DEF HandleTypeOK, PumpSet, PumpOK
<1>2. pump.todo # <<>> => Head(pump.todo) \in AgentEvents /\ Tail(pump.todo) \in Seq(AgentEvents)
  BY <1>1
<1> QED
  BY <1>1, <1>2 DEF PumpFeeds

\* Every step keeps the pump and the lifecycle in order.
LEMMA PumpStepOK ==
    ASSUME HandleTypeOK, PumpOK, LifeOK, [HandleNext]_handleVars
    PROVE  PumpOK' /\ LifeOK'
<1>0. pump \in PumpSet /\ life \in LifeSet /\ chan \in [Signals -> BOOLEAN] /\ sent \in Seq(EventSet)
        /\ AgentEvents \subseteq Inputs /\ {"streamEnded", "processExited", "resolve"} \subseteq Inputs
        /\ <<>> \in Seq(AgentEvents)
  BY DEF HandleTypeOK, Inputs
<1>1. CASE OtherNext
  BY <1>1, OtherStep, OthersPump
<1>2. CASE PumpSelects
  <2>1. pump.pc = "select" /\ UNCHANGED <<sent, chan>>
    BY <1>2 DEF PumpSelects
  <2>2. CASE chan.abort /\ pump' = [pump EXCEPT !.pc = "close"] /\ life' = life
    <3>1. pump'.pc = "close" /\ pump'.todo = pump.todo
      BY <1>0, <2>2 DEF PumpSet
    <3>2. \A i \in DOMAIN sent : ~IsTerminal(sent[i])
      BY <2>1 DEF PumpOK, Past
    <3> QED
      BY <2>1, <2>2, <3>1, <3>2 DEF PumpOK, LifeOK, Past
  <2> QED
    BY <1>0, <1>2, <2>1, <2>2, SelectCases, FedPump, ZenonT(30)
<1>3. CASE PumpFeeds
  <2>1. pump.pc \in {"feed", "await"} /\ UNCHANGED <<sent, chan>>
    BY <1>3 DEF PumpFeeds
  <2> QED
    BY <1>0, <1>3, <2>1, FeedCases, FedPump, ZenonT(30)
<1>4. CASE PumpEmits
  <2>1. life' = life /\ chan'.abort = chan.abort /\ chan'.closed = chan.closed /\ chan'.cleaned = chan.cleaned
    BY <1>0, <1>4 DEF PumpEmits, Signals
  <2>2. LifeOK'
    BY <2>1 DEF LifeOK
  <2>3. pump.ev \in EventSet /\ (pump.pc = "terminal" <=> IsTerminal(pump.ev))
    BY <1>0, <1>4 DEF PumpEmits, PumpOK, LifeOK, PumpSet, IsTerminal
  <2>4. \A i \in DOMAIN sent : ~IsTerminal(sent[i])
    BY <1>4 DEF PumpOK, PumpEmits, Past
  <2>5. CASE sent' = Append(sent, pump.ev)
             /\ pump' = [pump EXCEPT !.ev = "",
                          !.pc = IF pump.pc = "terminal" THEN "close"
                                 ELSE IF pump.todo = <<>> THEN "select" ELSE "feed"]
    <3>1. pump'.todo = pump.todo
            /\ pump'.pc = IF pump.pc = "terminal" THEN "close"
                          ELSE IF pump.todo = <<>> THEN "select" ELSE "feed"
      BY <1>0, <2>5 DEF PumpSet
    <3>2. DOMAIN sent' = 1 .. Len(sent) + 1 /\ DOMAIN sent = 1 .. Len(sent) /\ Len(sent) \in Nat
            /\ sent'[Len(sent) + 1] = pump.ev
            /\ \A i \in 1 .. Len(sent) : sent'[i] = sent[i]
      BY <1>0, <2>3, <2>5
    <3>3. \A i \in DOMAIN sent' : IsTerminal(sent'[i]) => i = Len(sent) + 1 /\ pump.pc = "terminal" /\ sent'[i] = pump.ev
      <4> SUFFICES ASSUME NEW i \in 1 .. Len(sent) + 1, IsTerminal(sent'[i])
                   PROVE  i = Len(sent) + 1 /\ pump.pc = "terminal" /\ sent'[i] = pump.ev
        BY <3>2
      <4>1. CASE i \in 1 .. Len(sent)
        BY <2>4, <3>2, <4>1
      <4>2. CASE i = Len(sent) + 1
        BY <2>3, <3>2, <4>2
      <4> QED
        BY <3>2, <4>1, <4>2
    <3>4. pump.pc = "terminal" => \E i \in DOMAIN sent' : IsTerminal(sent'[i])
      <4>1. Len(sent) + 1 \in DOMAIN sent'
        BY <3>2
      <4> QED
        BY <2>3, <3>2, <4>1
    <3> QED
      BY <1>4, <2>1, <2>2, <3>1, <3>3, <3>4 DEF PumpOK, PumpEmits, Past
  <2>6. CASE chan.abort /\ pump' = [pump EXCEPT !.pc = "close", !.ev = ""] /\ sent' = sent
    <3>1. pump'.todo = pump.todo /\ pump'.pc = "close"
      BY <1>0, <2>6 DEF PumpSet
    <3> QED
      BY <1>4, <2>1, <2>2, <2>4, <2>6, <3>1 DEF PumpOK, PumpEmits, Past
  <2> QED
    BY <1>4, <2>5, <2>6 DEF PumpEmits
<1>5. CASE PumpEnds
  <2>1. life' = life /\ sent' = sent /\ chan'.abort = chan.abort /\ chan'.cleaned = chan.cleaned
    BY <1>0, <1>5 DEF PumpEnds, Signals
  <2>2. pump.pc \in {"close", "discard"} /\ pump'.pc \in {"discard", "end"}
    BY <1>0, <1>5 DEF PumpEnds, PumpSet
  <2> QED
    BY <2>1, <2>2 DEF PumpOK, LifeOK, Past
<1>6. CASE UNCHANGED handleVars
  BY <1>6 DEF handleVars, PumpOK, LifeOK
<1> QED
  BY <1>1, <1>2, <1>3, <1>4, <1>5, <1>6 DEF HandleNext, OtherNext

-----------------------------------------------------------------------------
(* Stop, the readers and the pipes. *)

\* A pump step leaves a verdict alone, and the outcome of a settled lifecycle.
PumpNext == PumpSelects \/ PumpFeeds \/ PumpEmits \/ PumpEnds

\* What the pump's steps may do to the lifecycle and to the stream.
LEMMA PumpLife ==
    ASSUME HandleTypeOK, PumpOK, LifeOK, PumpNext
    PROVE  /\ life'.verdict = life.verdict
           /\ life.settled => life' = life
           /\ life.outcome # "" => life'.outcome # ""
<1>0. life \in LifeSet /\ pump \in PumpSet
        /\ AgentEvents \subseteq Inputs /\ {"streamEnded", "processExited", "resolve"} \subseteq Inputs
        /\ <<>> \in Seq(AgentEvents)
  BY DEF HandleTypeOK, Inputs
<1>1. ASSUME pump.pc \in {"select", "feed", "await"}, NEW p \in PumpSet, NEW in \in Inputs,
             NEW todo \in Seq(AgentEvents), Fed(p, in, todo)
      PROVE  life'.verdict = life.verdict /\ ~life.settled /\ (life.outcome # "" => life'.outcome # "")
  <2>1. Unsettled(life) /\ Waits(life)
    BY <1>1, FeedsUnsettled
  <2>2. PICK k : LifeStep(life, in, life', k, pump'.ev)
    BY <1>0, <1>1, <2>1, FedStep
  <2> QED
    BY <2>1, <2>2 DEF LifeStep, Unsettled
<1>2. CASE PumpSelects
  <2>1. pump.pc = "select"
    BY <1>2 DEF PumpSelects
  <2> QED
    BY <1>0, <1>1, <1>2, <2>1, SelectCases
<1>3. CASE PumpFeeds
  BY <1>0, <1>1, <1>3, FeedCases
<1>4. CASE PumpEmits \/ PumpEnds
  BY <1>4 DEF PumpEmits, PumpEnds
<1> QED
  BY <1>2, <1>3, <1>4 DEF PumpNext

\* Every step keeps the order of Stop: claim, tear down, abort.
LEMMA StopStepOK ==
    ASSUME HandleTypeOK, PumpOK, LifeOK, StopOK, [HandleNext]_handleVars
    PROVE  StopOK'
<1>0. life \in LifeSet /\ chan \in [Signals -> BOOLEAN]
        /\ stopper \in [pc : {"idle", "stop", "abort", "done"}, mode : {"interrupt", "discard"}]
  BY DEF HandleTypeOK
<1>1. CASE PumpNext
  <2>1. chan'.abort = chan.abort /\ stopper' = stopper
    BY <1>0, <1>1 DEF PumpNext, PumpSelects, PumpFeeds, PumpEmits, PumpEnds, Signals
  <2> QED
    BY <1>1, <2>1, PumpLife DEF StopOK
<1>2. CASE StopCalled
  <2>1. stopper'.pc = "stop" /\ chan' = chan /\ life' = Claimed(life, "killed") /\ stopper.pc = "idle"
    BY <1>2 DEF StopCalled
  <2>2. life'.verdict # "" \/ life'.settled
    BY <1>0, <2>1, ClaimedStep DEF Verdicts
  <2> QED
    BY <2>1, <2>2 DEF StopOK
<1>3. CASE StopReturns
  <2>1. stopper.pc # "idle" /\ (stopper.pc = "abort" => stopper'.pc = "done")
    BY <1>0, <1>3 DEF StopReturns
  <2>2. stopper.pc # "abort" => chan'.abort = chan.abort
    BY <1>0, <1>3 DEF StopReturns, Teardown, Signals
  <2>3. life'.verdict # "" \/ life'.settled
    BY <1>3, <2>1, OtherStep DEF StopOK, Others, OtherNext
  <2>4. stopper.pc # "done"
    BY <1>3 DEF StopReturns
  <2> QED
    BY <2>1, <2>2, <2>3, <2>4 DEF StopOK
<1>4. CASE \/ HandleStart \/ AgentWrites \/ AgentExits \/ ConsumerReads
           \/ ReaderScans \/ ReaderStrands \/ ReaderEnds \/ Flush
           \/ WatchdogExpires \/ WatchdogEnds \/ Reap \/ BoundStream
  <2>1. stopper' = stopper
    BY <1>4 DEF HandleStart, AgentWrites, AgentExits, ConsumerReads, ReaderScans, ReaderStrands,
                ReaderEnds, Flush, WatchdogExpires, WatchdogEnds, Reap, BoundStream
  <2>2. chan'.abort = chan.abort
    BY <1>0, <1>4 DEF HandleStart, AgentWrites, AgentExits, ConsumerReads, ReaderScans, ReaderStrands,
                ReaderEnds, Flush, WatchdogExpires, WatchdogEnds, Reap, Reaps, BoundStream, Teardown, Signals
  <2> QED
    BY <1>4, <2>1, <2>2, OtherStep DEF StopOK, Others, OtherNext
<1>5. CASE UNCHANGED handleVars
  BY <1>5 DEF handleVars, StopOK
<1> QED
  BY <1>1, <1>2, <1>3, <1>4, <1>5 DEF HandleNext, PumpNext

-----------------------------------------------------------------------------
\* Moving the head of the pipe to the transcript keeps what was written.
LEMMA ScanConcat ==
    ASSUME NEW S, NEW k \in Seq(S), NEW p \in Seq(S), p # <<>>
    PROVE  Append(k, Head(p)) \o Tail(p) = k \o p
<1>1. Head(p) \in S /\ Tail(p) \in Seq(S) /\ Len(Tail(p)) = Len(p) - 1
  OBVIOUS
<1>2. Append(k, Head(p)) \in Seq(S) /\ Len(Append(k, Head(p))) = Len(k) + 1
  BY <1>1
<1> DEFINE a == Append(k, Head(p)) \o Tail(p)
           b == k \o p
<1>3. a \in Seq(S) /\ b \in Seq(S) /\ Len(a) = Len(b) /\ Len(b) = Len(k) + Len(p)
  BY <1>1, <1>2
<1>4. ASSUME NEW i \in 1 .. Len(b) PROVE a[i] = b[i]
  BY <1>1, <1>2, <1>3
<1> QED
  BY <1>3, <1>4

\* A line added to the pipe is a line added to what was written.
LEMMA WriteConcat ==
    ASSUME NEW k \in Seq(Lines), NEW p \in Seq(Lines), NEW e \in Lines
    PROVE  Append(k \o p, e) = k \o Append(p, e)
<1> DEFINE a == Append(k \o p, e)
           b == k \o Append(p, e)
<1>1. a \in Seq(Lines) /\ b \in Seq(Lines) /\ Len(a) = Len(k) + Len(p) + 1 /\ Len(b) = Len(a)
  OBVIOUS
<1>2. ASSUME NEW i \in 1 .. Len(b) PROVE a[i] = b[i]
  BY <1>1
<1> QED
  BY <1>1, <1>2

\* Every step keeps the readers' account.
LEMMA ReadStepOK ==
    ASSUME HandleTypeOK, PumpOK, LifeOK, ReadOK, [HandleNext]_handleVars
    PROVE  ReadOK'
<1>0. /\ life \in LifeSet /\ chan \in [Signals -> BOOLEAN] /\ agent \in AgentSet
      /\ reader \in ReaderSet /\ kept \in Seq(Lines) /\ pipe \in Seq(Lines) /\ written \in Seq(Lines)
  BY DEF HandleTypeOK
<1>1. CASE PumpNext
  <2>1. UNCHANGED <<launch, fds, agent, written, pipe, kept, reaper, bound>>
    BY <1>1 DEF PumpNext, PumpSelects, PumpFeeds, PumpEmits, PumpEnds
  <2>2. reader'.pc = reader.pc \/ (reader.pc = "hand" /\ reader'.pc = "scan")
    BY <1>0, <1>1, ZenonT(30) DEF PumpNext, PumpSelects, PumpFeeds, PumpEmits, PumpEnds, ReaderSet
  <2>3. chan'.flushed = chan.flushed /\ chan'.done = chan.done
    BY <1>0, <1>1 DEF PumpNext, PumpSelects, PumpFeeds, PumpEmits, PumpEnds, Signals
  <2>4. life'.verdict = life.verdict /\ (life.settled => life'.settled)
    BY <1>1, PumpLife
  <2> QED
    BY <2>1, <2>2, <2>3, <2>4 DEF ReadOK
<1>2. ASSUME OtherNext
      PROVE  /\ life.verdict # "" \/ life.settled => life'.verdict # "" \/ life'.settled
             /\ agent.exited => agent'.exited
             /\ agent.exited /\ ~agent.held => ~agent'.held
  BY <1>2, OtherStep DEF Others
<1>3. CASE HandleStart
  <2>1. UNCHANGED <<agent, written, pipe, kept, reader, life, chan, reaper, bound>> /\ launch = "idle"
          /\ ((launch' = "live" /\ fds' # {}) \/ (launch' = "refused" /\ fds' = {}))
    <3>1. "stdoutR" \in StartFds("ok")
      BY DEF StartFds, Opened, ChildEnds
    <3>2. PICK at : fds' = StartFds(at) /\ launch' = IF at = "ok" THEN "live" ELSE "refused"
      BY <1>3 DEF HandleStart
    <3>3. at # "ok" => fds' = {} /\ launch' = "refused"
      BY <3>2 DEF StartFds
    <3>4. at = "ok" => fds' # {} /\ launch' = "live"
      BY <3>1, <3>2
    <3> QED
      BY <1>3, <3>3, <3>4 DEF HandleStart
  <2> QED
    BY <2>1 DEF ReadOK
<1>4. CASE AgentWrites
  <2>1. UNCHANGED <<launch, fds, agent, kept, reader, life, chan, reaper, bound>> /\ launch = "live"
          /\ (~agent.exited \/ agent.held)
    BY <1>4 DEF AgentWrites, Live
  <2>2. written' = kept' \o pipe'
    <3>1. PICK t \in Scripts : Len(written) < Len(t)
            /\ written' = Append(written, t[Len(written) + 1]) /\ pipe' = Append(pipe, t[Len(written) + 1])
      BY <1>4 DEF AgentWrites
    <3>2. t[Len(written) + 1] \in Lines
      BY <1>0, <3>1, ScriptsAssumption
    <3>3. PICK l \in Lines : written' = Append(kept \o pipe, l) /\ pipe' = Append(pipe, l)
      BY <3>1, <3>2 DEF ReadOK
    <3>4. Append(kept \o pipe, l) = kept \o Append(pipe, l)
      BY <1>0, WriteConcat, ZenonT(30)
    <3> QED
      BY <2>1, <3>3, <3>4
  <2> QED
    BY <2>1, <2>2 DEF ReadOK
<1>5. CASE AgentExits
  <2>1. UNCHANGED <<launch, fds, written, pipe, kept, reader, life, chan, reaper, bound>> /\ launch = "live"
    BY <1>5 DEF AgentExits, Live
  <2> QED
    BY <1>2, <1>5, <2>1 DEF ReadOK, OtherNext
<1>6. CASE ConsumerReads
  BY <1>6 DEF ConsumerReads, ReadOK
<1>7. CASE ReaderScans
  <2>1. UNCHANGED <<launch, fds, agent, written, chan, reaper, bound>> /\ launch = "live"
          /\ reader.pc = "scan" /\ pipe # <<>> /\ kept' = Append(kept, Head(pipe)) /\ pipe' = Tail(pipe)
    BY <1>7 DEF ReaderScans, Live
  <2>2. written' = kept' \o pipe'
    BY <1>0, <2>1, ScanConcat DEF ReadOK
  <2>3. Range(kept') = Range(kept) \cup {Head(pipe)}
    <3>1. Head(pipe) \in Lines
      BY <1>0, <2>1
    <3>2. DOMAIN kept' = 1 .. Len(kept) + 1 /\ DOMAIN kept = 1 .. Len(kept) /\ Len(kept) \in Nat
            /\ kept'[Len(kept) + 1] = Head(pipe) /\ \A i \in 1 .. Len(kept) : kept'[i] = kept[i]
      BY <1>0, <2>1, <3>1
    <3> QED
      BY <3>2 DEF Range
  <2>4. CASE Head(pipe) = Overlong
    <3>1. reader'.pc = "stop" /\ life' = Claimed(life, "overflow")
      BY <1>0, <1>7, <2>4 DEF ReaderScans, ReaderSet
    <3>2. life'.verdict # "" \/ life'.settled
      BY <1>0, <3>1, ClaimedStep DEF Verdicts
    <3> QED
      BY <2>1, <2>2, <2>3, <2>4, <3>1, <3>2 DEF ReadOK
  <2>5. CASE Head(pipe) # Overlong
    <3>1. reader'.pc \in {"hand", "scan"} /\ life' = life
      BY <1>0, <1>7, <2>5, ZenonT(30) DEF ReaderScans, ReaderSet
    <3> QED
      BY <2>1, <2>2, <2>3, <2>5, <3>1 DEF ReadOK
  <2> QED
    BY <2>4, <2>5
<1>8. CASE ReaderStrands
  <2>1. UNCHANGED <<launch, fds, agent, written, pipe, kept, life, chan, reaper, bound>>
          /\ reader.pc = "hand" /\ reader'.pc = "scan"
    BY <1>0, <1>8 DEF ReaderStrands, ReaderSet
  <2> QED
    BY <2>1 DEF ReadOK
<1>9. CASE ReaderEnds
  <2>1. UNCHANGED <<launch, fds, written, pipe, kept, reaper, bound>> /\ launch = "live"
          /\ reader'.pc = "done"
    BY <1>0, <1>9 DEF ReaderEnds, Live, ReaderSet
  <2>2. chan'.flushed = chan.flushed /\ chan'.done = chan.done
    BY <1>0, <1>9 DEF ReaderEnds, Teardown, Signals
  <2>3. reader.pc = "stop" \/ (reader.pc = "scan" /\ StreamOver /\ UNCHANGED <<agent, life, chan>>)
    BY <1>9 DEF ReaderEnds
  <2> QED
    BY <1>2, <1>9, <2>1, <2>2, <2>3 DEF ReadOK, StreamOver, OtherNext
<1>10. CASE Flush
  <2>1. UNCHANGED <<launch, agent, written, pipe, kept, reader, life, reaper, bound>> /\ launch = "live"
          /\ reader.pc = "done" /\ fds' = {}
    BY <1>10 DEF Flush, Live
  <2>2. chan'.flushed /\ chan'.done = chan.done
    BY <1>0, <1>10 DEF Flush, Signals
  <2> QED
    BY <2>1, <2>2 DEF ReadOK
<1>11. CASE WatchdogExpires \/ StopCalled
  <2>1. UNCHANGED <<launch, fds, agent, written, pipe, kept, reader, chan, reaper, bound>>
    BY <1>11 DEF WatchdogExpires, StopCalled
  <2> QED
    BY <1>2, <1>11, <2>1 DEF ReadOK, OtherNext
<1>12. CASE WatchdogEnds \/ StopReturns
  <2>1. UNCHANGED <<launch, fds, written, pipe, kept, reader, reaper, bound>>
    BY <1>12 DEF WatchdogEnds, StopReturns
  <2>2. chan'.flushed = chan.flushed /\ chan'.done = chan.done
    BY <1>0, <1>12 DEF WatchdogEnds, StopReturns, Teardown, Signals
  <2> QED
    BY <1>2, <1>12, <2>1, <2>2 DEF ReadOK, OtherNext
<1>13. CASE Reap
  <2>1. UNCHANGED <<launch, fds, written, pipe, kept, reader, bound>> /\ launch = "live"
    BY <1>13 DEF Reap, Live
  <2>2. chan'.flushed = chan.flushed
    BY <1>0, <1>13 DEF Reap, Reaps, Teardown, Signals
  <2>3. reaper' \in {"cleanup", "flush", "done"} => reaper \in {"cleanup", "flush", "done"} \/ agent.exited
    BY <1>13 DEF Reap, Reaps
  <2>4. chan'.done => (chan.done /\ reaper = "done") \/ (reaper' = "done" /\ chan.flushed)
    BY <1>0, <1>13 DEF Reap, Reaps, Teardown, Signals, ReadOK
  <2>5. reaper # "done"
    BY <1>13 DEF Reap
  <2> QED
    BY <1>2, <1>13, <2>1, <2>2, <2>3, <2>4, <2>5 DEF ReadOK, OtherNext
<1>14. CASE BoundStream
  <2>1. UNCHANGED <<launch, agent, written, pipe, kept, reader, life, reaper>> /\ launch = "live"
    BY <1>14 DEF BoundStream, Live
  <2>2. chan'.flushed = chan.flushed /\ chan'.done = chan.done
    BY <1>0, <1>14 DEF BoundStream, Signals
  <2>3. bound # "cut" /\ (fds' = fds \/ (fds' = {} /\ bound' = "cut"))
    BY <1>14 DEF BoundStream
  <2> QED
    BY <2>1, <2>2, <2>3 DEF ReadOK
<1>15. CASE UNCHANGED handleVars
  BY <1>15 DEF handleVars, ReadOK
<1> QED
  BY <1>1, <1>3, <1>4, <1>5, <1>6, <1>7, <1>8, <1>9, <1>10, <1>11, <1>12, <1>13, <1>14, <1>15
     DEF HandleNext, PumpNext

-----------------------------------------------------------------------------
(* A result the agent wrote. *)

\* The first event of a line, and the rest of them, are all of it.
LEMMA HeadAndTail ==
    ASSUME NEW line \in Seq(AgentEvents), line # <<>>, ~IsTerminal(Head(line)), NoneTerminal(Tail(line))
    PROVE  NoneTerminal(line)
<1> SUFFICES ASSUME NEW j \in 1 .. Len(line) PROVE ~IsTerminal(line[j])
  BY DEF NoneTerminal
<1>1. CASE j = 1
  BY <1>1
<1>2. CASE j > 1
  <2>1. j - 1 \in DOMAIN Tail(line) /\ Tail(line)[j - 1] = line[j]
    BY <1>2
  <2> QED
    BY <2>1, ZenonT(30) DEF NoneTerminal
<1> QED
  BY <1>1, <1>2

\* A line that translates to no terminal event holds none.
LEMMA TranslatedNone ==
    ASSUME NEW line \in Seq(AgentEvents), ~IsTerminal(Head(Translated(line))),
           NoneTerminal(Tail(Translated(line)))
    PROVE  NoneTerminal(line)
<1>1. CASE line = <<>>
  BY <1>1 DEF NoneTerminal
<1>2. CASE line # <<>>
  BY <1>2, HeadAndTail DEF Translated
<1> QED
  BY <1>1, <1>2

\* No verdict and no outcome: nobody called Stop, and the pump is at work.
LEMMA UndecidedPump ==
    ASSUME PumpOK, StopOK, life.verdict = "", ~life.settled
    PROVE  ~chan.abort /\ pump.pc \notin Past
BY DEF PumpOK, StopOK, Past

\* A fed input that does not decide the run was no terminal event.
LEMMA FedUndecided ==
    ASSUME HandleTypeOK, PumpOK, LifeOK, StopOK, pump.pc \in {"select", "feed", "await"},
           NEW p \in PumpSet, NEW in \in Inputs, NEW todo \in Seq(AgentEvents), Fed(p, in, todo),
           life'.outcome = "", life'.verdict = "", ~life'.settled
    PROVE  /\ life.outcome = "" /\ life.verdict = "" /\ ~life.settled
           /\ in \in AgentEvents => ~IsTerminal(in)
<1>1. Unsettled(life) /\ Waits(life) /\ life \in LifeSet
  BY FeedsUnsettled DEF HandleTypeOK
<1>2. PICK k : LifeStep(life, in, life', k, pump'.ev)
  BY <1>1, FedStep
<1>3. life.outcome = "" /\ life.verdict = "" /\ ~life.settled
  BY <1>1, <1>2 DEF LifeStep, Unsettled
<1>4. ~life.abandoned
  BY <1>3, UndecidedPump DEF LifeOK
<1> QED
  BY <1>2, <1>3, <1>4 DEF LifeStep

\* A crash is concluded from the whole of the agent's output.
LEMMA FedCrash ==
    ASSUME HandleInv, pump.pc \in {"select", "feed", "await"},
           NEW p \in PumpSet, NEW in \in Inputs, NEW todo \in Seq(AgentEvents), Fed(p, in, todo),
           in = "streamEnded" => reader.pc = "done" /\ pump.pc = "select",
           life'.settled, life'.outcome = "crashed", OneWindow
    PROVE  /\ reader.pc = "done" /\ pipe = <<>> /\ agent.exited /\ ~agent.held
           /\ \A i \in DOMAIN kept : NoneTerminal(kept[i])
<1> USE DEF HandleInv
<1>1. Unsettled(life) /\ Waits(life) /\ life \in LifeSet
  BY FeedsUnsettled DEF HandleTypeOK
<1>2. PICK k : LifeStep(life, in, life', k, pump'.ev)
  BY <1>1, FedStep
<1>3. life.verdict = ""
  BY <1>1, <1>2 DEF LifeStep, LifeSet, Verdicts
<1>4. life.outcome = "" /\ (life.streamEnded \/ in = "streamEnded") /\ ~life.settled
  BY <1>1, <1>2, <1>3 DEF LifeStep, Waits, Unsettled
<1>5. reader.pc = "done" /\ pump.todo = <<>>
  BY <1>4 DEF ResultOK, PumpOK
<1>6. ~chan.abort /\ reader.handOff
  BY <1>3, <1>4, UndecidedPump DEF ResultOK
<1>7. NoneTerminal(pump.todo)
  BY <1>5 DEF NoneTerminal
<1>8. \A i \in DOMAIN kept : NoneTerminal(kept[i])
  BY <1>3, <1>4, <1>5, <1>6, <1>7 DEF ResultOK, Undecided
<1>9. pipe = <<>> /\ agent.exited /\ ~agent.held
  BY <1>3, <1>4, <1>5 DEF ReadOK, OneWindow
<1> QED
  BY <1>5, <1>8, <1>9

\* The pump's steps keep the account of results.
LEMMA PumpResult ==
    ASSUME HandleInv, PumpNext
    PROVE  ResultOK'
<1> USE DEF HandleInv
<1>0. /\ life \in LifeSet /\ pump \in PumpSet /\ reader \in ReaderSet /\ chan \in [Signals -> BOOLEAN]
      /\ kept \in Seq(Lines) /\ AgentEvents \subseteq Inputs
      /\ {"streamEnded", "processExited", "resolve"} \subseteq Inputs /\ <<>> \in Seq(AgentEvents)
  BY DEF HandleTypeOK, Inputs
<1>1. UNCHANGED <<agent, pipe, kept, bound>> /\ OneWindow' = OneWindow
  BY DEF PumpNext, PumpSelects, PumpFeeds, PumpEmits, PumpEnds, OneWindow
<1>2. chan'.stranded = chan.stranded /\ chan'.flushed = chan.flushed /\ chan'.abort = chan.abort
  BY <1>0 DEF PumpNext, PumpSelects, PumpFeeds, PumpEmits, PumpEnds, Signals
<1>3. ASSUME pump.pc \in {"select", "feed", "await"}, NEW p \in PumpSet, NEW in \in Inputs,
             NEW todo \in Seq(AgentEvents), Fed(p, in, todo)
      PROVE  /\ pump'.todo = todo /\ pump'.lines = p.lines
             /\ life'.streamEnded => life.streamEnded \/ in = "streamEnded"
  <2>1. Unsettled(life) /\ Waits(life)
    BY <1>3, FeedsUnsettled
  <2>2. PICK k : LifeStep(life, in, life', k, pump'.ev)
    BY <1>0, <1>3, <2>1, FedStep
  <2>3. pump'.todo = todo /\ pump'.lines = p.lines
    BY <1>0, <1>3, <2>1, FedStep
  <2> QED
    BY <2>2, <2>3 DEF LifeStep
<1>4. CASE PumpSelects
  <2>0. pump.pc = "select" /\ pump.todo = <<>>
    BY <1>4 DEF PumpSelects, PumpOK
  <2>1. CASE /\ pump.lines /\ reader.pc = "hand"
             /\ Fed(pump, Head(Translated(reader.line)), Tail(Translated(reader.line)))
             /\ Head(Translated(reader.line)) \in AgentEvents
             /\ Tail(Translated(reader.line)) \in Seq(AgentEvents)
             /\ reader' = [reader EXCEPT !.pc = "scan", !.line = <<>>]
    <3> DEFINE in == Head(Translated(reader.line))
               todo == Tail(Translated(reader.line))
    <3>1. pump'.todo = todo /\ pump'.lines /\ (life'.streamEnded => life.streamEnded)
      <4>1. in # "streamEnded"
        BY <2>1 DEF AgentEvents
      <4> QED
        BY <1>0, <1>3, <2>0, <2>1, <4>1, ZenonT(30)
    <3>2. reader'.pc = "scan" /\ reader'.handOff = reader.handOff
      BY <1>0, <2>1 DEF ReaderSet
    <3>3. ~(life'.settled /\ life'.outcome = "crashed" /\ OneWindow)
      <4>1. in # "streamEnded"
        BY <2>1 DEF AgentEvents
      <4> QED
        BY <1>0, <2>0, <2>1, <4>1, FedCrash, ZenonT(30)
    <3>4. ASSUME Undecided', NoneTerminal(pump'.todo), NEW i \in DOMAIN kept
          PROVE  NoneTerminal(kept[i])
      <4>1. life.outcome = "" /\ life.verdict = "" /\ ~life.settled /\ ~IsTerminal(in)
        BY <1>0, <2>0, <2>1, <3>4, FedUndecided DEF Undecided
      <4>2. Undecided
        BY <1>1, <3>2, <3>4, <4>1 DEF Undecided
      <4>3. NoneTerminal(pump.todo)
        BY <2>0 DEF NoneTerminal
      <4>4. NoneTerminal(reader.line)
        BY <1>0, <3>1, <3>4, <4>1, TranslatedNone DEF ReaderSet
      <4>5. CASE i < Len(kept)
        BY <4>2, <4>3, <4>5 DEF ResultOK
      <4>6. CASE i = Len(kept)
        BY <2>1, <4>4, <4>6 DEF ResultOK
      <4> QED
        BY <1>0, <4>5, <4>6
    <3> HIDE DEF in, todo
    <3> QED
      BY <1>1, <1>2, <2>1, <3>1, <3>2, <3>3, <3>4 DEF ResultOK
  <2>2. CASE /\ pump.lines /\ reader.pc = "done"
             /\ Fed([pump EXCEPT !.lines = FALSE], "streamEnded", <<>>)
             /\ [pump EXCEPT !.lines = FALSE] \in PumpSet
             /\ [pump EXCEPT !.lines = FALSE].lines = FALSE
             /\ reader' = reader
    <3> DEFINE p == [pump EXCEPT !.lines = FALSE]
    <3> HIDE DEF p
    <3>0. p \in PumpSet /\ Fed(p, "streamEnded", <<>>) /\ p.lines = FALSE
      BY <2>2 DEF p
    <3>1. pump'.todo = <<>> /\ pump'.lines = FALSE
      BY <1>0, <1>3, <2>0, <3>0, ZenonT(30)
    <3>2. Undecided' => Undecided
      BY <1>0, <1>1, <2>0, <2>2, <3>0, FedUndecided DEF Undecided
    <3>3. NoneTerminal(pump.todo)
      BY <2>0 DEF NoneTerminal
    <3>4. life'.settled /\ life'.outcome = "crashed" /\ OneWindow =>
            /\ reader.pc = "done" /\ pipe = <<>> /\ agent.exited /\ ~agent.held
            /\ \A i \in DOMAIN kept : NoneTerminal(kept[i])
      BY <1>0, <2>0, <2>2, <3>0, FedCrash, ZenonT(30)
    <3> QED
      BY <1>1, <1>2, <2>2, <3>1, <3>2, <3>3, <3>4 DEF ResultOK
  <2>3. CASE /\ Fed([pump EXCEPT !.exit = FALSE], "processExited", <<>>)
             /\ [pump EXCEPT !.exit = FALSE] \in PumpSet
             /\ [pump EXCEPT !.exit = FALSE].lines = pump.lines
             /\ reader' = reader
    <3> DEFINE p == [pump EXCEPT !.exit = FALSE]
    <3> HIDE DEF p
    <3>0. p \in PumpSet /\ Fed(p, "processExited", <<>>) /\ p.lines = pump.lines
      BY <2>3 DEF p
    <3>1. pump'.todo = <<>> /\ pump'.lines = pump.lines /\ (life'.streamEnded => life.streamEnded)
      BY <1>0, <1>3, <2>0, <3>0, ZenonT(30)
    <3>2. Undecided' => Undecided
      BY <1>0, <1>1, <2>0, <2>3, <3>0, FedUndecided DEF Undecided
    <3>3. NoneTerminal(pump.todo)
      BY <2>0 DEF NoneTerminal
    <3>4. life'.settled /\ life'.outcome = "crashed" /\ OneWindow =>
            /\ reader.pc = "done" /\ pipe = <<>> /\ agent.exited /\ ~agent.held
            /\ \A i \in DOMAIN kept : NoneTerminal(kept[i])
      BY <1>0, <2>0, <3>0, FedCrash, ZenonT(30)
    <3> QED
      BY <1>1, <1>2, <2>3, <3>1, <3>2, <3>3, <3>4 DEF ResultOK
  <2>4. CASE chan.abort /\ pump' = [pump EXCEPT !.pc = "close"] /\ life' = life /\ reader' = reader
    <3>1. pump'.todo = pump.todo /\ pump'.lines = pump.lines
      BY <1>0, <2>4 DEF PumpSet
    <3> QED
      BY <1>1, <1>2, <2>4, <3>1 DEF ResultOK, Undecided
  <2> QED
    BY <1>4, <2>1, <2>2, <2>3, <2>4, SelectCases
<1>5. CASE PumpFeeds
  <2>1. reader' = reader
    BY <1>5 DEF PumpFeeds
  <2>2. CASE /\ pump.pc = "feed" /\ Fed(pump, Head(pump.todo), Tail(pump.todo))
             /\ pump.todo \in Seq(AgentEvents) /\ pump.todo # <<>>
             /\ Head(pump.todo) \in AgentEvents /\ Tail(pump.todo) \in Seq(AgentEvents)
    <3>0. Head(pump.todo) # "streamEnded"
      BY <2>2 DEF AgentEvents
    <3>1. pump'.todo = Tail(pump.todo) /\ pump'.lines = pump.lines /\ pump.lines
            /\ (life'.streamEnded => life.streamEnded)
      BY <1>0, <1>3, <2>2, <3>0, ZenonT(30) DEF ResultOK
    <3>2. Undecided' => Undecided /\ ~IsTerminal(Head(pump.todo))
      BY <1>0, <1>1, <2>1, <2>2, FedUndecided DEF Undecided
    <3>3. ~(life'.settled /\ life'.outcome = "crashed" /\ OneWindow)
      <4>1. ~life.streamEnded
        BY <3>1 DEF ResultOK
      <4>2. Unsettled(life) /\ Waits(life)
        BY <2>2, FeedsUnsettled
      <4>3. PICK k : LifeStep(life, Head(pump.todo), life', k, pump'.ev)
        BY <1>0, <2>2, <4>2, FedStep, ZenonT(30)
      <4> QED
        BY <1>0, <3>0, <4>1, <4>2, <4>3 DEF LifeStep, Unsettled, Waits, LifeSet, Verdicts
    <3>4. Undecided' /\ NoneTerminal(pump'.todo) => NoneTerminal(pump.todo)
      BY <2>2, <3>1, <3>2, HeadAndTail
    <3> QED
      BY <1>1, <1>2, <2>1, <3>1, <3>2, <3>3, <3>4 DEF ResultOK
  <2>3. CASE pump.pc = "await" /\ Fed(pump, "resolve", pump.todo) /\ pump.todo \in Seq(AgentEvents)
    <3>1. pump'.todo = pump.todo /\ pump'.lines = pump.lines /\ (life'.streamEnded => life.streamEnded)
      BY <1>0, <1>3, <2>3
    <3>2. Undecided' => Undecided
      BY <1>0, <1>1, <2>1, <2>3, FedUndecided DEF Undecided
    <3>3. life'.settled /\ life'.outcome = "crashed" /\ OneWindow =>
            /\ reader.pc = "done" /\ pipe = <<>> /\ agent.exited /\ ~agent.held
            /\ \A i \in DOMAIN kept : NoneTerminal(kept[i])
      BY <1>0, <2>3, FedCrash
    <3> QED
      BY <1>1, <1>2, <2>1, <3>1, <3>2, <3>3 DEF ResultOK
  <2> QED
    BY <1>5, <2>2, <2>3, FeedCases
<1>6. CASE PumpEmits
  <2>1. life' = life /\ reader' = reader /\ pump'.todo = pump.todo /\ pump'.lines = pump.lines
    BY <1>0, <1>6 DEF PumpEmits, PumpSet
  <2> QED
    BY <1>1, <1>2, <2>1 DEF ResultOK, Undecided
<1>7. CASE PumpEnds
  <2>1. life' = life /\ pump'.lines = pump.lines /\ (pump'.todo = pump.todo \/ pump'.todo = <<>>)
    BY <1>0, <1>7 DEF PumpEnds, PumpSet
  <2>2. reader'.handOff = reader.handOff
          /\ (reader' = reader \/ (reader.pc = "hand" /\ reader'.pc = "scan"))
    BY <1>0, <1>7, ZenonT(30) DEF PumpEnds, ReaderSet
  <2>3. ~Undecided'
    <3>1. pump.pc \in Past
      BY <1>7 DEF PumpEnds, Past
    <3> QED
      BY <2>1, <3>1, UndecidedPump DEF Undecided
  <2> QED
    BY <1>1, <1>2, <2>1, <2>2, <2>3 DEF ResultOK
<1> QED
  BY <1>4, <1>5, <1>6, <1>7 DEF PumpNext

\* The other goroutines' steps keep it.
LEMMA OtherResult ==
    ASSUME HandleInv, OtherNext
    PROVE  ResultOK'
<1> USE DEF HandleInv
<1>0. /\ life \in LifeSet /\ reader \in ReaderSet /\ chan \in [Signals -> BOOLEAN]
      /\ kept \in Seq(Lines) /\ pipe \in Seq(Lines)
  BY DEF HandleTypeOK
<1>1. /\ pump' = pump /\ life'.settled = life.settled /\ life'.outcome = life.outcome
      /\ life'.streamEnded = life.streamEnded
      /\ life'.verdict = "" => life.verdict = ""
      /\ chan.abort => chan'.abort
      /\ agent.exited => agent'.exited /\ (~agent.held => ~agent'.held)
  BY OtherStep DEF Others
<1>2. ASSUME reader' = reader, kept' = kept, pipe' = pipe,
             OneWindow' => OneWindow,
             chan'.stranded => chan'.flushed \/ ~OneWindow'
      PROVE  ResultOK'
  <2>1. Undecided' => Undecided
    BY <1>1, <1>2 DEF Undecided
  <2> QED
    BY <1>1, <1>2, <2>1 DEF ResultOK
<1>3. CASE HandleStart \/ AgentExits \/ ConsumerReads \/ WatchdogExpires \/ StopCalled
  <2>1. reader' = reader /\ kept' = kept /\ pipe' = pipe /\ bound' = bound /\ chan' = chan
    BY <1>3 DEF HandleStart, AgentExits, ConsumerReads, WatchdogExpires, StopCalled
  <2> QED
    BY <1>2, <2>1 DEF ResultOK, OneWindow
<1>4. CASE WatchdogEnds \/ StopReturns \/ Reap
  <2>1. reader' = reader /\ kept' = kept /\ pipe' = pipe /\ bound' = bound
    BY <1>4 DEF WatchdogEnds, StopReturns, Reap
  <2>2. chan'.stranded = chan.stranded /\ chan'.flushed = chan.flushed
    BY <1>0, <1>4 DEF WatchdogEnds, StopReturns, Reap, Reaps, Teardown, Signals
  <2> QED
    BY <1>2, <2>1, <2>2 DEF ResultOK, OneWindow
<1>5. CASE BoundStream
  <2>1. reader' = reader /\ kept' = kept /\ pipe' = pipe
    BY <1>5 DEF BoundStream
  <2>2. chan'.flushed = chan.flushed
          /\ (chan'.stranded = chan.stranded \/ bound' \in {"strand", "cut"})
    BY <1>0, <1>5 DEF BoundStream, Signals
  <2>3. OneWindow' => OneWindow
    BY <1>5 DEF BoundStream, OneWindow
  <2> QED
    BY <1>2, <2>1, <2>2, <2>3 DEF ResultOK, OneWindow
<1>6. CASE Flush
  <2>1. reader' = reader /\ kept' = kept /\ pipe' = pipe /\ bound' = bound
    BY <1>6 DEF Flush
  <2>2. chan'.flushed
    BY <1>0, <1>6 DEF Flush, Signals
  <2> QED
    BY <1>2, <2>1, <2>2 DEF OneWindow
<1>7. CASE AgentWrites
  <2>1. reader' = reader /\ kept' = kept /\ bound' = bound /\ chan' = chan /\ agent' = agent
          /\ (~agent.exited \/ agent.held)
    BY <1>7 DEF AgentWrites
  <2>2. Undecided' => Undecided
    BY <1>1, <2>1 DEF Undecided, OneWindow
  <2> QED
    BY <1>1, <2>1, <2>2 DEF ResultOK, OneWindow
<1>8. CASE ReaderScans
  <2>1. bound' = bound /\ chan' = chan /\ reader.pc = "scan" /\ pipe # <<>>
          /\ kept' = Append(kept, Head(pipe)) /\ reader'.handOff = reader.handOff
    BY <1>0, <1>8, ZenonT(30) DEF ReaderScans, ReaderSet
  <2>2. reader'.pc # "done" /\ (reader'.pc = "hand" => reader'.line = Head(pipe))
    BY <1>0, <1>8, ZenonT(30) DEF ReaderScans, ReaderSet
  <2>3. Head(pipe) \in Lines
    BY <1>0, <2>1
  <2>4. Len(kept') = Len(kept) + 1 /\ Len(kept) \in Nat /\ DOMAIN kept' = 1 .. Len(kept) + 1
          /\ DOMAIN kept = 1 .. Len(kept)
          /\ kept'[Len(kept) + 1] = Head(pipe) /\ \A i \in 1 .. Len(kept) : kept'[i] = kept[i]
    BY <1>0, <2>1, <2>3
  <2>5. reader'.pc = "hand" => kept' # <<>> /\ reader'.line = kept'[Len(kept')]
    BY <2>2, <2>4
  <2>6. ASSUME Undecided', NoneTerminal(pump'.todo), NEW i \in DOMAIN kept',
               i < Len(kept') \/ reader'.pc # "hand"
        PROVE  NoneTerminal(kept'[i])
    <3>1. Undecided /\ NoneTerminal(pump.todo) /\ reader.handOff
      BY <1>1, <2>1, <2>6 DEF Undecided, OneWindow
    <3>2. Head(pipe) # Overlong
      <4> SUFFICES ASSUME Head(pipe) = Overlong PROVE FALSE
        OBVIOUS
      <4>1. life' = Claimed(life, "overflow")
        BY <1>8 DEF ReaderScans
      <4> QED
        BY <1>0, <2>6, <4>1, ClaimedStep DEF Verdicts, Undecided
    <3>3. reader'.pc = "hand"
      BY <1>0, <1>8, <3>1, <3>2, ZenonT(30) DEF ReaderScans, ReaderSet
    <3>4. i \in DOMAIN kept /\ kept'[i] = kept[i]
      BY <2>4, <2>6, <3>3
    <3> QED
      BY <2>1, <3>1, <3>4 DEF ResultOK
  <2>7. reader.pc # "done" /\ pump.lines
    BY <2>1 DEF ResultOK
  <2>8. ~(life'.settled /\ life'.outcome = "crashed" /\ OneWindow')
    BY <1>1, <2>1 DEF ResultOK, OneWindow
  <2> QED
    BY <1>1, <2>1, <2>5, <2>6, <2>7, <2>8 DEF ResultOK, OneWindow
<1>9. CASE ReaderStrands
  <2>1. kept' = kept /\ bound' = bound /\ chan' = chan /\ pipe' = pipe /\ reader.pc = "hand"
          /\ (chan.abort \/ chan.stranded)
    BY <1>9 DEF ReaderStrands
  <2>2. reader'.pc = "scan" /\ ~reader'.handOff
    BY <1>0, <1>9 DEF ReaderStrands, ReaderSet
  <2>3. ~OneWindow \/ chan.abort
    BY <2>1 DEF ResultOK, ReadOK
  <2> QED
    BY <1>1, <2>1, <2>2, <2>3 DEF ResultOK, OneWindow, Undecided
<1>10. CASE ReaderEnds
  <2>1. kept' = kept /\ bound' = bound /\ pipe' = pipe /\ reader.pc \in {"scan", "stop"}
    BY <1>10 DEF ReaderEnds
  <2>2. reader'.pc = "done" /\ reader'.handOff = reader.handOff
    BY <1>0, <1>10 DEF ReaderEnds, ReaderSet
  <2>3. chan'.stranded = chan.stranded /\ chan'.flushed = chan.flushed
    BY <1>0, <1>10 DEF ReaderEnds, Teardown, Signals
  <2>4. Undecided' => Undecided
    BY <1>1, <2>1, <2>2 DEF Undecided, OneWindow
  <2> QED
    BY <1>1, <2>1, <2>2, <2>3, <2>4 DEF ResultOK, OneWindow
<1> QED
  BY <1>3, <1>4, <1>5, <1>6, <1>7, <1>8, <1>9, <1>10 DEF OtherNext

-----------------------------------------------------------------------------
\* The inductive invariant holds of every run.
THEOREM HandleInductive == HandleInit /\ [][HandleNext]_handleVars => []HandleInv
<1>1. HandleInit => HandleInv
  <2> SUFFICES ASSUME HandleInit PROVE HandleInv
    OBVIOUS
  <2>1. /\ launch = "idle" /\ fds = {} /\ written = <<>> /\ pipe = <<>> /\ kept = <<>>
        /\ events = <<>> /\ sent = <<>>
    BY Zenon DEF HandleInit
  <2>2. /\ agent = [exited |-> FALSE, held |-> FALSE]
        /\ reader = [pc |-> "scan", line |-> <<>>, handOff |-> TRUE]
    BY Zenon DEF HandleInit
  <2>3. pump = [pc |-> "select", todo |-> <<>>, ev |-> "", lines |-> TRUE, exit |-> TRUE]
    BY Zenon DEF HandleInit
  <2>4. /\ ~life.streamEnded /\ ~life.settled /\ ~life.cleanupDone /\ ~life.abandoned
        /\ life.outcome = "" /\ life.verdict = "" /\ life \in LifeSet
    BY DEF HandleInit, NewLife, LifeSet
  <2>5. chan \in [Signals -> BOOLEAN] /\ \A c \in Signals : ~chan[c]
    BY DEF HandleInit, Signals
  <2>6. /\ watch = "watch" /\ reaper = "wait" /\ bound = "wait"
        /\ stopper = [pc |-> "idle", mode |-> "interrupt"]
    BY Zenon DEF HandleInit
  <2>7. ~chan.abort /\ ~chan.closed /\ ~chan.flushed /\ ~chan.stranded /\ ~chan.done /\ ~chan.cleaned
    BY <2>5 DEF Signals
  <2>8. pump.pc = "select" /\ pump.todo = <<>> /\ pump.lines
    BY <2>3
  <2>9. HandleTypeOK
    <3>1. \E t \in Scripts : Follows(written, t)
      BY <2>1, ScriptsAssumption DEF Follows
    <3>2. reader \in ReaderSet /\ agent \in AgentSet
      BY <2>2 DEF ReaderSet, AgentSet
    <3>3. pump \in PumpSet
      <4> DEFINE none == <<>>
      <4>1. none \in Seq(AgentEvents)
        OBVIOUS
      <4>2. pump = [pc |-> "select", todo |-> none, ev |-> "", lines |-> TRUE, exit |-> TRUE]
        BY <2>3
      <4> HIDE DEF none
      <4> QED
        BY <4>1, <4>2 DEF PumpSet
    <3>4. events \in Seq(EventSet) /\ Len(events) <= EventBuffer /\ sent \in Seq(EventSet)
      BY <2>1, EventBufferAssumption
    <3>5. written \in Seq(Lines) /\ pipe \in Seq(Lines) /\ kept \in Seq(Lines)
      BY <2>1
    <3> QED
      BY <2>1, <2>4, <2>5, <2>6, <3>1, <3>2, <3>3, <3>4, <3>5 DEF HandleTypeOK
  <2>10. PumpOK
    <3>1. DOMAIN sent = {}
      BY <2>1
    <3> QED
      BY <2>8, <2>4, <2>7, <3>1 DEF PumpOK, Past
  <2>11. LifeOK
    BY <2>4, <2>7 DEF LifeOK, Waits, Verdicts
  <2>12. StopOK
    BY <2>6, <2>7 DEF StopOK
  <2>13. ReadOK
    <3>1. Overlong \notin Range(kept)
      BY <2>1 DEF Range
    <3>2. kept \o pipe = written
      BY <2>1
    <3>3. reader.pc = "scan"
      BY <2>2
    <3> QED
      BY <2>1, <2>6, <2>7, <3>1, <3>2, <3>3 DEF ReadOK
  <2>14. ResultOK
    <3>1. reader.pc = "scan" /\ reader.handOff
      BY <2>2
    <3>2. DOMAIN kept = {}
      BY <2>1
    <3> QED
      BY <2>8, <2>4, <2>7, <3>1, <3>2 DEF ResultOK
  <2> QED
    BY <2>9, <2>10, <2>11, <2>12, <2>13, <2>14 DEF HandleInv
<1>2. HandleInv /\ [HandleNext]_handleVars => HandleInv'
  <2> SUFFICES ASSUME HandleInv, [HandleNext]_handleVars PROVE HandleInv'
    OBVIOUS
  <2>1. HandleTypeOK' /\ PumpOK' /\ LifeOK' /\ StopOK' /\ ReadOK'
    BY TypeStep, PumpStepOK, StopStepOK, ReadStepOK DEF HandleInv
  <2>2. ResultOK'
    <3>1. CASE UNCHANGED handleVars
      BY <3>1 DEF handleVars, HandleInv, ResultOK, Undecided, OneWindow
    <3> QED
      BY <3>1, PumpResult, OtherResult DEF HandleNext, PumpNext, OtherNext
  <2> QED
    BY <2>1, <2>2 DEF HandleInv
<1> QED
  BY <1>1, <1>2, PTL

-----------------------------------------------------------------------------
\* What the invariant says to the handle's owner.
LEMMA InvariantMeansSafe == HandleInv => HandleSafe
<1> SUFFICES ASSUME HandleInv PROVE HandleSafe
  OBVIOUS
<1> USE DEF HandleInv
<1>1. VerdictAwaitsCleanup
  BY DEF VerdictAwaitsCleanup, PumpOK, LifeOK, IsTerminal, Verdicts
<1>2. ResultNeverOverturns
  BY DEF ResultNeverOverturns, PumpOK, LifeOK
<1>3. ResultSurvivesExit
  <2> SUFFICES ASSUME "crashed" \in Range(sent), OneWindow
               PROVE  \A i \in DOMAIN written : NoneTerminal(written[i])
    BY DEF ResultSurvivesExit, OneWindow, NoneTerminal
  <2>1. PICK i \in DOMAIN sent : sent[i] = "crashed"
    BY DEF Range
  <2>2. life.settled /\ life.outcome = "crashed"
    BY <2>1 DEF PumpOK, IsTerminal
  <2>3. pipe = <<>> /\ \A k \in DOMAIN kept : NoneTerminal(kept[k])
    BY <2>2 DEF ResultOK
  <2>4. written = kept
    <3>1. written = kept \o pipe /\ kept \in Seq(Lines)
      BY DEF ReadOK, HandleTypeOK
    <3> QED
      BY <2>3, <3>1
  <2> QED
    BY <2>3, <2>4
<1>4. DoneIsComplete
  <2> SUFFICES ASSUME chan.done
               PROVE  /\ agent.exited /\ chan.flushed
                      /\ bound # "cut" /\ Overlong \notin Range(written) => kept = written
    BY DEF DoneIsComplete
  <2>1. agent.exited /\ chan.flushed
    BY DEF ReadOK
  <2>2. ASSUME bound # "cut", Overlong \notin Range(written)
        PROVE  kept = written
    <3>1. written = kept \o pipe /\ kept \in Seq(Lines) /\ pipe \in Seq(Lines)
      BY DEF ReadOK, HandleTypeOK
    <3>2. Overlong \notin Range(kept)
      <4>1. \A i \in DOMAIN kept : i \in DOMAIN written /\ written[i] = kept[i]
        BY <3>1
      <4>2. \A i \in DOMAIN kept : written[i] # Overlong
        BY <2>2, <4>1 DEF Range
      <4> QED
        BY <4>1, <4>2 DEF Range
    <3>3. pipe = <<>>
      BY <2>2, <3>2 DEF ReadOK
    <3> QED
      BY <3>1, <3>3
  <2> QED
    BY <2>1, <2>2
<1>5. NoDescriptorLeft
  BY DEF NoDescriptorLeft, ReadOK
<1> QED
  BY <1>1, <1>2, <1>3, <1>4, <1>5 DEF HandleSafe

\* HandleSafe holds of every run, whatever the agent writes: a verdict is
\* published after its cleanup, a late result does not overturn it, a written
\* result is not reported as a crash, Done means a complete transcript, and no
\* descriptor outlives the run (handle.go, lifecycle.go, run.go Start).
THEOREM HandleIsSafe == HandleSpec => []HandleSafe
BY HandleInductive, InvariantMeansSafe, PTL DEF HandleSpec

\* A step of the pump is a step of the contract: an event reported, the one
\* terminal event, the end of the stream, or nothing the consumer sees.
LEMMA PumpKeepsContract ==
    ASSUME HandleInv, PumpNext
    PROVE  Contract!ContractNext \/ UNCHANGED <<sent, chan.closed, chan.done, chan.abort>>
<1> USE DEF HandleInv
<1>0. /\ chan \in [Signals -> BOOLEAN] /\ pump \in PumpSet /\ sent \in Seq(EventSet)
  BY DEF HandleTypeOK
<1>1. CASE PumpSelects \/ PumpFeeds
  BY <1>1 DEF PumpSelects, PumpFeeds
<1>2. CASE PumpEmits
  <2>1. chan'.closed = chan.closed /\ chan'.done = chan.done /\ chan'.abort = chan.abort
    BY <1>0, <1>2 DEF PumpEmits, Signals
  <2>2. CASE sent' = sent
    BY <2>1, <2>2
  <2>3. CASE sent' = Append(sent, pump.ev)
    <3>1. pump.pc \in {"emit", "terminal"}
      BY <1>2 DEF PumpEmits
    <3>2. chan.closed = FALSE /\ ~Contract!Concluded
      BY <1>0, <3>1 DEF PumpOK, Contract!Concluded, IsTerminal, Past, Signals
    <3>3. pump.ev \in EventSet
      BY <1>0, <3>1 DEF PumpOK, LifeOK, IsTerminal, PumpSet, EventSet, AgentEvents
    <3>4. CASE pump.ev \in {"progress", "heartbeat"}
      BY <2>1, <2>3, <3>2, <3>4 DEF Contract!ContractNext, Contract!Report
    <3>5. CASE pump.ev \notin {"progress", "heartbeat"}
      BY <2>1, <2>3, <3>2, <3>3, <3>5 DEF Contract!ContractNext, Contract!Conclude
    <3> QED
      BY <3>4, <3>5
  <2> QED
    BY <1>2, <2>2, <2>3 DEF PumpEmits
<1>3. CASE PumpEnds
  <2>1. sent' = sent
    BY <1>3 DEF PumpEnds
  <2>2. CASE chan' = chan
    BY <2>1, <2>2
  <2>3. CASE pump.pc = "close" /\ chan' = [chan EXCEPT !.closed = TRUE]
    <3>1. chan'.closed = TRUE /\ chan'.done = chan.done /\ chan'.abort = chan.abort
      BY <1>0, <2>3 DEF Signals
    <3>2. chan.closed = FALSE
      BY <1>0, <2>3 DEF PumpOK, Signals
    <3>3. Contract!Concluded \/ chan.abort
      BY <1>0, <2>3 DEF PumpOK, Past, Contract!Concluded, IsTerminal
    <3> QED
      BY <2>1, <3>1, <3>2, <3>3 DEF Contract!ContractNext, Contract!EndStream
  <2> QED
    BY <1>3, <2>2, <2>3 DEF PumpEnds
<1> QED
  BY <1>1, <1>2, <1>3 DEF PumpNext

\* So is a step of anything else: the consumer gives up, or the run is over.
LEMMA OthersKeepContract ==
    ASSUME HandleInv, OtherNext
    PROVE  Contract!ContractNext \/ UNCHANGED <<sent, chan.closed, chan.done, chan.abort>>
<1> USE DEF HandleInv
<1>0. chan \in [Signals -> BOOLEAN]
  BY DEF HandleTypeOK
<1>1. sent' = sent
  BY DEF OtherNext, HandleStart, AgentWrites, AgentExits, ConsumerReads, ReaderScans,
         ReaderStrands, ReaderEnds, Flush, WatchdogExpires, WatchdogEnds, StopCalled,
         StopReturns, Reap, BoundStream
<1>2. ASSUME chan' = chan \/ \E c \in {"cleaned", "stranded", "flushed"} : chan' = [chan EXCEPT ![c] = TRUE]
      PROVE  UNCHANGED <<sent, chan.closed, chan.done, chan.abort>>
  BY <1>0, <1>1, <1>2 DEF Signals
<1>3. CASE HandleStart \/ AgentWrites \/ AgentExits \/ ConsumerReads \/ ReaderScans
           \/ ReaderStrands \/ WatchdogExpires \/ StopCalled
  BY <1>2, <1>3 DEF HandleStart, AgentWrites, AgentExits, ConsumerReads, ReaderScans,
                    ReaderStrands, WatchdogExpires, StopCalled
<1>4. CASE ReaderEnds \/ WatchdogEnds \/ BoundStream
  BY <1>2, <1>4 DEF ReaderEnds, WatchdogEnds, BoundStream, Teardown
<1>5. CASE Flush
  BY <1>0, <1>1, <1>5 DEF Flush, Signals
<1>6. CASE StopReturns
  <2>1. CASE chan' = [chan EXCEPT !.cleaned = TRUE]
    BY <1>2, <2>1, ZenonT(30)
  <2>2. CASE stopper.pc = "abort" /\ chan' = [chan EXCEPT !.abort = TRUE]
    <3>1. chan'.abort = TRUE /\ chan'.closed = chan.closed /\ chan'.done = chan.done
      BY <1>0, <2>2 DEF Signals
    <3>2. chan.abort = FALSE
      BY <1>0, <2>2 DEF StopOK, Signals
    <3> QED
      BY <1>1, <3>1, <3>2 DEF Contract!ContractNext, Contract!Abandon
  <2> QED
    BY <1>6, <2>1, <2>2 DEF StopReturns, Teardown
<1>7. CASE Reap
  <2>1. CASE chan' = chan \/ chan' = [chan EXCEPT !.cleaned = TRUE]
    BY <1>2, <2>1
  <2>2. CASE reaper = "flush" /\ chan' = [chan EXCEPT !.done = TRUE]
    <3>1. chan'.done = TRUE /\ chan'.closed = chan.closed /\ chan'.abort = chan.abort
      BY <1>0, <2>2 DEF Signals
    <3>2. chan.done = FALSE
      BY <1>0, <2>2 DEF ReadOK, Signals
    <3> QED
      BY <1>1, <3>1, <3>2 DEF Contract!ContractNext, Contract!Finish
  <2> QED
    BY <1>7, <2>1, <2>2 DEF Reap, Reaps, Teardown
<1> QED
  BY <1>3, <1>4, <1>5, <1>6, <1>7 DEF OtherNext

\* The handle implements core.RunHandle's promise (core.go 1189-1210): progress,
\* one terminal event, then the end of the stream; only a consumer that gave up
\* sees the stream end without one.
THEOREM HandleKeepsContract == HandleSpec => KeepsContract
<1>1. HandleInit => Contract!ContractInit
  BY DEF HandleInit, Contract!ContractInit
<1>2. HandleInv /\ [HandleNext]_handleVars
        => [Contract!ContractNext]_<<sent, chan.closed, chan.done, chan.abort>>
  <2> SUFFICES ASSUME HandleInv, [HandleNext]_handleVars
               PROVE  Contract!ContractNext \/ UNCHANGED <<sent, chan.closed, chan.done, chan.abort>>
    OBVIOUS
  <2>1. CASE UNCHANGED handleVars
    BY <2>1 DEF handleVars
  <2> QED
    BY <2>1, PumpKeepsContract, OthersKeepContract DEF HandleNext, PumpNext, OtherNext
<1> QED
  BY <1>1, <1>2, HandleInductive, PTL
     DEF HandleSpec, KeepsContract, Contract!ContractSpec, Contract!contractVars
=============================================================================
