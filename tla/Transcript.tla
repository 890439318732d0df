----------------------------- MODULE Transcript -----------------------------
(***************************************************************************)
(* What is retained of an attempt and what redaction keeps out of it       *)
(* (agent/harness redact.go, transcript.go, and the writers of handle.go): *)
(* the values an attempt may carry are admitted at load, its two files are *)
(* opened exclusively, the prompt is written whole, stdout line by line as *)
(* the scanner presents it, and the tail of stderr as one JSON line.       *)
(*                                                                         *)
(* A text is a sequence of characters.  "n" is a newline, "r" a carriage   *)
(* return, "q" a quote, "s" a backslash; "ln" and "lr" are the letters     *)
(* JSON writes after a backslash for the first two, "frame" the rest of    *)
(* the JSON line, "cut" the line that states an overflow.                  *)
(***************************************************************************)
EXTENDS Integers, Sequences, FiniteSets

CONSTANTS
    Secrets,        \* sets of values an attempt's environment may hold
    OutLines,       \* lines the child writes to stdout, terminator removed
    ErrChunks,      \* what one read of stderr returns
    PromptTexts,    \* rendered prompts
    MinNeedle,      \* minNeedle
    Marker,         \* redactedMarker
    StderrTail,     \* stderrTail
    MaxWrites,      \* bound on the child's writes
    MaxOpens        \* bound on attempts

ASSUME TranscriptAssumption ==
    /\ MinNeedle \in Nat /\ Len(Marker) < MinNeedle
    /\ {StderrTail, MaxWrites, MaxOpens} \subseteq Nat

-----------------------------------------------------------------------------
(* Spellings *)

\* strings.Split(v, "\n"), as the sequence of lines.
SplitLines(v) ==
    LET walk[i \in 0..Len(v)] ==
          IF i = 0 THEN << << >> >>
          ELSE LET before == walk[i - 1] IN
               IF v[i] = "n" THEN Append(before, << >>)
               ELSE [before EXCEPT ![Len(before)] = Append(@, v[i])]
    IN walk[Len(v)]

\* What bufio.ScanLines hands over of a line: one trailing return is taken.
Scanned(line) ==
    IF line # << >> /\ line[Len(line)] = "r" THEN SubSeq(line, 1, Len(line) - 1) ELSE line

ScannerLines(v) == LET lines == SplitLines(v) IN [i \in DOMAIN lines |-> Scanned(lines[i])]
Members(s) == {s[i] : i \in DOMAIN s}
RawSpellingsWhole(v) == {v}
RawSpellings(v) == {v} \cup Members(SplitLines(v)) \cup Members(ScannerLines(v))

\* json.Marshal of a string, without its quotes.
EscapedChar(c) ==
    CASE c = "n" -> <<"s", "ln">> [] c = "r" -> <<"s", "lr">>
      [] c \in {"q", "s"} -> <<"s", c>> [] OTHER -> <<c>>
JsonEscaped(v) ==
    LET walk[i \in 0..Len(v)] == IF i = 0 THEN << >> ELSE walk[i - 1] \o EscapedChar(v[i])
    IN walk[Len(v)]

NeedlesUnescaped(values) ==
    {s \in UNION {RawSpellings(v) : v \in values} : Len(s) >= MinNeedle}
Needles(values) ==
    LET raw == UNION {RawSpellings(v) : v \in values}
    IN {s \in raw \cup {JsonEscaped(r) : r \in raw} : Len(s) >= MinNeedle}

\* redactable: under the floor, or some line the scanner hands over reaches it.
RedactableAsWritten(v) ==
    Len(v) < MinNeedle \/ \E line \in Members(SplitLines(v)) : Len(line) >= MinNeedle
Redactable(v) ==
    Len(v) < MinNeedle \/ \E line \in Members(ScannerLines(v)) : Len(line) >= MinNeedle

-----------------------------------------------------------------------------
(* The redactor *)

MatchesAt(s, i, n) == i + Len(n) - 1 <= Len(s) /\ SubSeq(s, i, i + Len(n) - 1) = n
HasText(s, n) == \E i \in 1..Len(s) : MatchesAt(s, i, n)

\* strings.ReplaceAll: leftmost matches, not overlapping.
ReplaceEvery(s, n) ==
    LET from[i \in 1..(Len(s) + MinNeedle + Len(n))] ==
          IF i > Len(s) THEN << >>
          ELSE IF MatchesAt(s, i, n) THEN Marker \o from[i + Len(n)] ELSE <<s[i]>> \o from[i + 1]
    IN from[1]

\* One ordered pass over the needles, longest first.  (Among needles of one
\* length the code takes the lexicographic order; here any fixed order.)
Pass(s, needles) ==
    LET over[todo \in SUBSET needles] ==
          IF todo = {} THEN s    \* the longest is replaced first
          ELSE LET last == CHOOSE n \in todo : \A m \in todo : Len(n) <= Len(m)
               IN ReplaceEvery(over[todo \ {last}], last)
    IN over[needles]

\* apply: passes to a fixed point, each one that changes anything a shortening.
ApplyOnce(s, values) == Pass(s, Needles(values))
Apply(s, values) ==
    LET needles == Needles(values)
        fix[text \in Seq(STRING)] ==
          LET after == Pass(text, needles) IN IF after = text THEN text ELSE fix[after]
    IN fix[s]

-----------------------------------------------------------------------------
(* The attempt *)

VARIABLES
    secrets,        \* the values admitted with the definition in force
    files,          \* stems whose two files exist, by attempt
    instant,        \* the clock that names a stem
    record,         \* the transcript of the attempt under way
    retained,       \* its prompt file
    tail,           \* h.tail
    writes,         \* writes of the child so far
    phase           \* load, open, prompt, running or refused

transcriptVars == <<secrets, files, instant, record, retained, tail, writes, phase>>

TranscriptInit ==
    /\ secrets = {} /\ files = << >> /\ instant = 0
    /\ record = << >> /\ retained = << >> /\ tail = << >>
    /\ writes = 0 /\ phase = "load"

\* CheckRedactable and CheckRedactableEnv refuse a value no write can be
\* matched against.
LoadSecrets ==
    /\ phase = "load"
    /\ \E values \in Secrets :
         IF \A v \in values : Redactable(v)
         THEN secrets' = values /\ phase' = "open"
         ELSE secrets' = {} /\ phase' = "refused"
    /\ UNCHANGED <<files, instant, record, retained, tail, writes>>

\* DirTranscripts.Open: both files with O_EXCL, the prompt's first, so a stem
\* in use refuses the launch.
OpensPairAnyway(stem) == TRUE
OpensPair(stem) == \A i \in DOMAIN files : files[i] # stem
OpenPair ==
    /\ phase = "open" /\ Len(files) < MaxOpens
    /\ IF OpensPair(instant)
       THEN files' = Append(files, instant) /\ phase' = "prompt"
       ELSE files' = files /\ phase' = "refused"
    /\ record' = << >> /\ retained' = << >> /\ tail' = << >> /\ writes' = 0
    /\ UNCHANGED <<secrets, instant>>

ClockMoves ==
    /\ phase = "open" /\ instant < Len(files)
    /\ instant' = instant + 1
    /\ UNCHANGED <<secrets, files, record, retained, tail, writes, phase>>

\* retainPrompt: the whole prompt in one redacted write, before the launch.
RetainPrompt ==
    /\ phase = "prompt"
    /\ \E text \in PromptTexts : retained' = Apply(text, secrets)
    /\ phase' = "running"
    /\ UNCHANGED <<secrets, files, instant, record, tail, writes>>

WriteLine(line) == record \o Append(Apply(line, secrets), "n")

\* readStdout: one scanned line and its newline to a write.
ReadStdout ==
    /\ phase = "running" /\ writes < MaxWrites
    /\ \E line \in OutLines : record' = WriteLine(Scanned(line))
    /\ writes' = writes + 1
    /\ UNCHANGED <<secrets, files, instant, retained, tail, phase>>

\* readStderr: a bounded tail.
ReadStderr ==
    /\ phase = "running" /\ writes < MaxWrites
    /\ \E chunk \in ErrChunks :
         LET all == tail \o chunk
         IN tail' = IF Len(all) > StderrTail
                    THEN SubSeq(all, Len(all) - StderrTail + 1, Len(all)) ELSE all
    /\ writes' = writes + 1
    /\ UNCHANGED <<secrets, files, instant, record, retained, phase>>

\* overflow: the oversized line is not kept, not even its head; a line states
\* the cut and the child's output ends.
Overflow ==
    /\ phase = "running" /\ writes < MaxWrites
    /\ record' = record \o <<"cut", "n">>
    /\ writes' = MaxWrites
    /\ UNCHANGED <<secrets, files, instant, retained, tail, phase>>

\* finishTranscript: the tail as one JSON line, unless it is empty.
FinishTranscript ==
    /\ phase = "running"
    /\ record' = IF tail = << >> THEN record
                 ELSE WriteLine(<<"frame">> \o JsonEscaped(tail) \o <<"frame">>)
    /\ phase' = "closed"
    /\ UNCHANGED <<secrets, files, instant, retained, tail, writes>>

\* The next attempt.
NextAttempt ==
    /\ phase = "closed" /\ Len(files) < MaxOpens
    /\ phase' = "open" /\ tail' = << >> /\ record' = << >> /\ retained' = << >> /\ writes' = 0
    /\ UNCHANGED <<secrets, files, instant>>

TranscriptNext ==
    \/ LoadSecrets \/ OpenPair \/ ClockMoves \/ RetainPrompt \/ ReadStdout \/ ReadStderr
    \/ Overflow \/ FinishTranscript \/ NextAttempt

TranscriptSpec == TranscriptInit /\ [][TranscriptNext]_transcriptVars

-----------------------------------------------------------------------------
(* Properties *)

\* The shape of the state.
TranscriptTypeOK ==
    /\ phase \in {"load", "open", "prompt", "running", "closed", "refused"}
    /\ Len(tail) <= StderrTail /\ writes \in 0..MaxWrites

\* A value as a reader of the transcript would see it.
Presented(v) ==
    LET lines == ScannerLines(v)
        join[i \in 1..Len(lines)] == IF i = 1 THEN lines[1] ELSE join[i - 1] \o <<"n">> \o lines[i]
    IN join[Len(lines)]

\* No value at or above the floor is in what is retained: not in the transcript
\* as the scanner presents it nor JSON-escaped, although each write is matched
\* alone and one replacement can spell another value (redact.go, needles, apply
\* and CheckRedactable).
SecretsStayOut ==
    \A v \in secrets : Len(v) >= MinNeedle =>
        /\ ~HasText(record, Presented(v)) /\ ~HasText(record, JsonEscaped(v))
        /\ ~HasText(retained, v)

\* One pair of files is one attempt's (transcript.go, Open).
OneAttemptPerPair == \A i, j \in DOMAIN files : files[i] = files[j] => i = j

TranscriptSafe == TranscriptTypeOK /\ SecretsStayOut /\ OneAttemptPerPair

=============================================================================
