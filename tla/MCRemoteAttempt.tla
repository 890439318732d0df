--------------------------- MODULE MCRemoteAttempt ---------------------------
EXTENDS RemoteAttempt

Stdout(c) == [out |-> TRUE, chunk |-> c]
Stderr(c) == [out |-> FALSE, chunk |-> c]

\* A record cut across two envelopes and an outcome without its newline; output
\* after the outcome, some of it on stderr; a line over the limit.
CutSealedOverlong ==
    {<<Stdout(<<"a">>), Stdout(<<"b", "nl">>), Stdout(<<"s">>)>>,
     <<Stdout(<<"s", "nl">>), Stderr(<<"f", "nl">>), Stdout(<<"a", "b", "a">>)>>,
     <<Stdout(<<"a", "b", "a">>)>>}
=============================================================================
